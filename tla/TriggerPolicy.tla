--------------------------- MODULE TriggerPolicy ---------------------------
(***************************************************************************)
(* Which events start a workflow: the policies of its "on" section         *)
(* (triggerpolicy/policy.go), and the event a provider's webhook or the    *)
(* local watch makes of a push (webhooks/manager.go, triggers/manager.go). *)
(* A pattern is the set of names it matches; "neg" is a leading "!".       *)
(* A definition marked "Mutant" is a bug that could have been made in the  *)
(* next one; no specification uses it.                                     *)
(***************************************************************************)
EXTENDS Integers, Sequences, FiniteSets, SequencesExt

CONSTANTS
    Paths,     \* of the files of the project
    Contents,  \* what a path may hold, none included
    Policies,  \* the policies a workflow may have
    Pushes     \* the pushes that may come, each as IsPush says

VARIABLES policies, push

vars == <<policies, push>>
Unknown == {"unknown"}

-----------------------------------------------------------------------------
(* Patterns *)

Hits(p, v) == v \in p.hits

\* Mutant: the first pattern that matches decides.
FirstMatch(ps, v) ==
    \E i \in DOMAIN ps : ~ps[i].neg /\ Hits(ps[i], v) /\ \A j \in 1..(i - 1) : ~Hits(ps[j], v)
\* The loop of matchesOrdered.
MatchesOrdered(ps, v) ==
    FoldLeft(LAMBDA m, p : IF Hits(p, v) THEN ~p.neg ELSE m, FALSE, ps)

MatchesAny(ps, v) == \E i \in DOMAIN ps : Hits(ps[i], v)

MatchesFilter(include, exclude, v) ==
    /\ include # <<>> => MatchesOrdered(include, v)
    /\ ~MatchesAny(exclude, v)

MatchesChangedPaths(include, exclude, changed) ==
    \E v \in changed : MatchesFilter(include, exclude, v)

-----------------------------------------------------------------------------
(* Policies *)

HasPaths(p) == p.paths # <<>> \/ p.pathsIgnore # <<>>
HasRefs(p) == \E f \in {"branches", "branchesIgnore", "tags", "tagsIgnore"} : p[f] # <<>>

MatchesAction(p, e) ==
    IF p.actions # {} THEN e.action \in p.actions
    ELSE e.type = "pull_request" => e.action \in {"opened", "synchronize", "reopened"}

MatchesRef(p, e) ==
    \/ e.ref.kind = "none"   /\ ~HasRefs(p)
    \/ e.ref.kind = "tag"    /\ MatchesFilter(p.tags, p.tagsIgnore, e.ref.name) /\ p.branches = <<>>
    \/ e.ref.kind = "branch" /\ MatchesFilter(p.branches, p.branchesIgnore, e.ref.name) /\ p.tags = <<>>

MatchesEventPolicy(p, e) ==
    p.event = e.type /\ p.evaluable /\ MatchesAction(p, e) /\ MatchesRef(p, e)

\* Mutant: the paths of a tag are filtered as well.
FilteredAlways(p, e) == HasPaths(p)
Filtered(p, e) == e.ref.kind # "tag" /\ HasPaths(p)

Match(ps, e) ==
    \E p \in ps :
        /\ MatchesEventPolicy(p, e)
        /\ Filtered(p, e) =>
             e.changed # Unknown /\ MatchesChangedPaths(p.paths, p.pathsIgnore, e.changed)

\* Mutant: asked only when every policy filters paths.
NeedsAll(ps, e) ==
    \A p \in ps : MatchesEventPolicy(p, e) /\ Filtered(p, e)
NeedsChangedPaths(ps, e) ==
    \E p \in ps : MatchesEventPolicy(p, e) /\ Filtered(p, e)

-----------------------------------------------------------------------------
(* A push, as the watch and as a provider's webhook tell it *)

Trees == [Paths -> Contents]

\* A push moves a ref from the tree "old" to
\* the last of its commits, which stand on the tree "onto": another one than "old"
\* if it was forced.  The payload lists the commits in "shown", if it lists any,
\* their number if "count" is not 0, and the commit of "old": as one that the
\* checkout knows, none, or one that git refuses (an object it has not, the zeros
\* of a new or deleted branch, no checkout).
IsPush(x) ==
    /\ x.ref.kind \in {"branch", "tag", "none"}
    /\ x.old \in Trees /\ x.onto \in Trees
    /\ x.commits \in Seq(Trees) /\ x.commits # <<>>
    /\ x.listed \in BOOLEAN /\ x.shown \subseteq DOMAIN x.commits
    /\ x.count \in {0, Len(x.commits)}
    /\ x.before \in {"known", "missing", "unusable"}

Event(ref, changed) == [type |-> "push", action |-> "", ref |-> ref, changed |-> changed]

\* git diff between two trees
Diff(old, new) == {p \in Paths : old[p] # new[p]}
\* What a commit of a push adds, modifies or removes
Touched(x, i) == Diff(IF i = 1 THEN x.onto ELSE x.commits[i - 1], x.commits[i])
\* What a push leaves changed: ChangedPaths of its two ends
Net(x) == Diff(x.old, Last(x.commits))

WatchEvent(x) == Event(x.ref, Net(x))

Listed(x) == UNION {Touched(x, i) : i \in x.shown}
\* Mutant: the paths of a shortened commit list are taken as all.
PayloadPathsShort(x) == IF x.listed THEN Listed(x) ELSE Unknown
\* collectChangedPaths: unknown without a list, or when it is shorter than the
\* count that the payload gives beside it; without a count it is taken as whole.
PayloadPaths(x) ==
    IF x.listed /\ x.count <= Cardinality(x.shown) THEN Listed(x) ELSE Unknown

AsksGit(ps, x) ==
    /\ PayloadPaths(x) = Unknown /\ NeedsChangedPaths(ps, Event(x.ref, Unknown))
    /\ x.before # "missing"

\* Deliver asks git only when a policy needs the paths, they are unknown and the
\* payload names both ends.
Deliver(ps, x) ==
    IF AsksGit(ps, x) /\ x.before = "unusable" THEN "failed"
    ELSE IF Match(ps, Event(x.ref, IF AsksGit(ps, x) THEN Net(x) ELSE PayloadPaths(x)))
    THEN "run" ELSE "accepted"

Init == policies \in {{p, q} : p, q \in Policies} /\ push \in Pushes
Next == UNCHANGED vars
Spec == Init /\ [][Next]_vars

-----------------------------------------------------------------------------
(* Properties *)

\* The last pattern that matches decides (matchesOrdered), stated without
\* its loop.
LastPatternDecides ==
    \A p \in policies : \A v \in Paths :
        LET hit == {i \in DOMAIN p.paths : Hits(p.paths[i], v)} IN
            MatchesOrdered(p.paths, v) <=>
                hit # {} /\ ~p.paths[CHOOSE i \in hit : \A j \in hit : j <= i].neg

\* Where Deliver does not ask git, knowing the paths would change nothing:
\* NeedsChangedPaths and Match agree on what a path filter applies to.
PathsAskedWhenTheyMatter ==
    LET e == Event(push.ref, Unknown) IN
        ~NeedsChangedPaths(policies, e) =>
            \A c \in SUBSET Paths : Match(policies, Event(push.ref, c)) = Match(policies, e)

\* Where a webhook and the local watch of a branch disagree on a push, the payload
\* says why.  The watch alone admits it: the list of commits is cut short and gives
\* no count, the push was forced so that its commits do not tell what it took
\* away, or paths are needed and no commit is named that git could start from.  The
\* webhook alone admits it: it names a path that the push changed and restored.
WebhookAgreesWithWatch ==
    push.ref.kind = "branch" =>
        LET hook == Deliver(policies, push)  watch == Match(policies, WatchEvent(push)) IN
            /\ watch /\ hook # "run" =>
                 \/ push.listed /\ push.shown # DOMAIN push.commits /\ push.count = 0
                 \/ push.listed /\ push.onto # push.old
                 \/ ~(push.listed /\ push.shown = DOMAIN push.commits) /\ push.before # "known"
            /\ hook = "run" /\ ~watch => push.listed /\ Listed(push) \ Net(push) # {}
            /\ hook = "failed" => push.before = "unusable"

\* A tag is never refused for its paths, and no policy of branches admits it.
TagsIgnorePathFilters ==
    push.ref.kind = "tag" =>
        /\ Deliver(policies, push) = "run" <=> \E p \in policies : MatchesEventPolicy(p, WatchEvent(push))
        /\ \A p \in policies : p.branches # <<>> => Deliver({p}, push) # "run"
=============================================================================
