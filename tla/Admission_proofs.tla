-------------------------- MODULE Admission_proofs --------------------------
(***************************************************************************)
(* Proofs about what is let in, for any policies and pushes, any rules and *)
(* needs of a job, any number of services, tabs, logins and mishaps.       *)
(* The parts share no step, so each has its own invariant: none for the    *)
(* policies, the types of the input for decisions, KeysInv for the files   *)
(* of the service and SessionsInv for sessions.  What a step does to one   *)
(* service that goes on (Gains) or gives up (Loses) is stated once.        *)
(***************************************************************************)
EXTENDS Admission, FiniteSetTheorems, WellFoundedInduction, TLAPS

-----------------------------------------------------------------------------
(* Events and policies *)

\* What a policy says of an event before its paths are looked at
LEMMA PathsApart ==
    ASSUME NEW ref, NEW changed, NEW others, NEW p
    PROVE  /\ Policy!MatchesEventPolicy(p, Policy!Event(ref, changed)) =
                Policy!MatchesEventPolicy(p, Policy!Event(ref, others))
           /\ Policy!Filtered(p, Policy!Event(ref, changed)) = Policy!Filtered(p, Policy!Event(ref, others))
<1> DEFINE e == Policy!Event(ref, changed)
           f == Policy!Event(ref, others)
<1>1. e.type = f.type /\ e.action = f.action /\ e.ref = f.ref
    BY DEF Policy!Event
<1> HIDE DEF e, f
<1>2. Policy!MatchesAction(p, e) = Policy!MatchesAction(p, f)
    BY <1>1 DEF Policy!MatchesAction
<1>3. Policy!MatchesRef(p, e) = Policy!MatchesRef(p, f)
    BY <1>1 DEF Policy!MatchesRef
<1>4. /\ Policy!MatchesEventPolicy(p, e) = Policy!MatchesEventPolicy(p, f)
      /\ Policy!Filtered(p, e) = Policy!Filtered(p, f)
    BY <1>1, <1>2, <1>3 DEF Policy!MatchesEventPolicy, Policy!Filtered
<1> QED
    BY <1>4 DEF e, f

\* Where no policy that matches filters paths, any paths will do.
LEMMA AnyPathsWillDo ==
    ASSUME NEW ps, NEW ref, NEW changed, NEW others,
           ~Policy!NeedsChangedPaths(ps, Policy!Event(ref, changed))
    PROVE  Policy!Match(ps, Policy!Event(ref, others)) = Policy!Match(ps, Policy!Event(ref, changed))
<1> DEFINE e == Policy!Event(ref, changed)
           f == Policy!Event(ref, others)
<1>1. \A p \in ps : Policy!MatchesEventPolicy(p, e) => ~Policy!Filtered(p, e)
    BY DEF Policy!NeedsChangedPaths
<1>2. \A p \in ps : /\ Policy!MatchesEventPolicy(p, e) = Policy!MatchesEventPolicy(p, f)
                    /\ Policy!Filtered(p, e) = Policy!Filtered(p, f)
    BY PathsApart
<1> HIDE DEF e, f
<1>3. Policy!Match(ps, e) = \E p \in ps : Policy!MatchesEventPolicy(p, e)
    BY <1>1 DEF Policy!Match
<1>4. Policy!Match(ps, f) = \E p \in ps : Policy!MatchesEventPolicy(p, f)
    BY <1>1, <1>2 DEF Policy!Match
<1>5. Policy!Match(ps, f) = Policy!Match(ps, e)
    BY <1>2, <1>3, <1>4
<1> QED
    BY <1>5 DEF e, f

LEMMA PathsAsked == Policy!PathsAskedWhenTheyMatter
BY AnyPathsWillDo DEF Policy!PathsAskedWhenTheyMatter

\* Every nonempty set of numbers has a least one.
LEMMA LeastOne == ASSUME NEW S \in SUBSET Nat, S # {} PROVE \E m \in S : \A k \in S : m <= k
<1>1. PICK m \in S : \A k \in S : ~(<<k, m>> \in OpToRel(<, Nat))
    BY NatLessThanWellFounded, WFMin, Zenon
<1>2. \A k \in S : ~(k < m)
    BY <1>1 DEF OpToRel
<1> QED
    BY <1>2

\* What the commits of a push leave changed against the tree they stand on, one of
\* them touched.
LEMMA SomeCommitTouched ==
    ASSUME NEW x, Policy!IsPush(x), NEW p \in Paths, x.onto[p] # Last(x.commits)[p]
    PROVE  \E i \in DOMAIN x.commits : p \in Policy!Touched(x, i)
<1> DEFINE n == Len(x.commits)
           Other == {i \in 1..n : x.commits[i][p] # x.onto[p]}
<1>1. n \in Nat \ {0} /\ DOMAIN x.commits = 1..n /\ Last(x.commits) = x.commits[n]
    BY DEF Policy!IsPush, Last
<1>2. n \in Other /\ Other \in SUBSET Nat
    BY <1>1
<1>3. PICK m \in Other : \A k \in Other : m <= k
    BY <1>2, LeastOne
<1>4. m \in 1..n /\ x.commits[m][p] # x.onto[p]
    BY <1>3
<1>5. p \in Policy!Touched(x, m)
    <2>1. CASE m = 1
        BY <1>4, <2>1 DEF Policy!Touched, Policy!Diff
    <2>2. CASE m # 1
        <3>1. m - 1 \in 1..n /\ m - 1 \notin Other
            BY <1>1, <1>3, <1>4, <2>2
        <3>2. x.commits[m - 1][p] = x.onto[p]
            BY <3>1
        <3> QED
            BY <1>4, <2>2, <3>2 DEF Policy!Touched, Policy!Diff
    <2> QED
        BY <2>1, <2>2
<1> QED
    BY <1>1, <1>4, <1>5

\* A complete list of a push that was not forced names all that it left changed.
LEMMA WholeListTellsAll ==
    ASSUME NEW x, Policy!IsPush(x), x.shown = DOMAIN x.commits, x.onto = x.old
    PROVE  Policy!Net(x) \subseteq Policy!Listed(x)
<1> SUFFICES ASSUME NEW p \in Policy!Net(x) PROVE p \in Policy!Listed(x)
    OBVIOUS
<1>1. p \in Paths /\ x.onto[p] # Last(x.commits)[p]
    BY DEF Policy!Net, Policy!Diff, Policy!Last, Last
<1>2. \E i \in DOMAIN x.commits : p \in Policy!Touched(x, i)
    BY <1>1, SomeCommitTouched
<1> QED
    BY <1>2 DEF Policy!Listed

\* The payload's paths are taken for known where its list is whole or has no count.
LEMMA ShortLists ==
    ASSUME NEW x, Policy!IsPush(x)
    PROVE  /\ x.listed /\ x.shown = DOMAIN x.commits => Policy!PayloadPaths(x) = Policy!Listed(x)
           /\ Policy!PayloadPaths(x) # Policy!Unknown =>
                /\ x.listed /\ Policy!PayloadPaths(x) = Policy!Listed(x)
                /\ x.shown = DOMAIN x.commits \/ x.count = 0
<1> DEFINE n == Len(x.commits)
<1>1. n \in Nat \ {0} /\ DOMAIN x.commits = 1..n /\ x.shown \subseteq 1..n /\ x.count \in {0, n}
    BY DEF Policy!IsPush
<1>2. IsFiniteSet(1..n) /\ Cardinality(1..n) = n
    BY <1>1, FS_Interval
<1>3. /\ Cardinality(x.shown) \in Nat
      /\ x.shown # 1..n => Cardinality(x.shown) < n
    BY <1>1, <1>2, FS_Subset, FS_CardinalityType
<1>4. Policy!Cardinality(x.shown) = Cardinality(x.shown)
    BY DEF Policy!Cardinality, Cardinality
<1> QED
    BY <1>1, <1>2, <1>3, <1>4 DEF Policy!PayloadPaths

\* More paths let in no less.
LEMMA MorePaths ==
    ASSUME NEW ps, NEW ref, NEW few, NEW many, few \subseteq many, many # Policy!Unknown,
           Policy!Match(ps, Policy!Event(ref, few))
    PROVE  Policy!Match(ps, Policy!Event(ref, many))
<1> DEFINE e == Policy!Event(ref, few)
           f == Policy!Event(ref, many)
<1>1. \A p \in ps : /\ Policy!MatchesEventPolicy(p, e) = Policy!MatchesEventPolicy(p, f)
                    /\ Policy!Filtered(p, e) = Policy!Filtered(p, f)
    BY PathsApart
<1>2. e.changed = few /\ f.changed = many
    BY DEF Policy!Event
<1> HIDE DEF e, f
<1>3. PICK p \in ps : /\ Policy!MatchesEventPolicy(p, e)
                      /\ Policy!Filtered(p, e) => Policy!MatchesChangedPaths(p.paths, p.pathsIgnore, few)
    BY <1>2 DEF Policy!Match, e
<1>4. Policy!Filtered(p, e) => Policy!MatchesChangedPaths(p.paths, p.pathsIgnore, many)
    BY <1>3 DEF Policy!MatchesChangedPaths
<1>5. Policy!Match(ps, f)
    BY <1>1, <1>2, <1>3, <1>4 DEF Policy!Match
<1> QED
    BY <1>5 DEF f

\* Paths that are known are never taken for unknown ones.
LEMMA KnownPaths == ASSUME NEW x PROVE Policy!Net(x) # Policy!Unknown /\ Policy!Listed(x) # Policy!Unknown
<1>1. Policy!Net(x) \subseteq Paths /\ Policy!Listed(x) \subseteq Paths
    BY DEF Policy!Net, Policy!Listed, Policy!Touched, Policy!Diff
<1> QED
    BY <1>1, PushesSensible DEF Policy!Unknown

\* An event of unknown paths is let in only where paths do not matter.
LEMMA UnknownPaths ==
    ASSUME NEW ps, NEW ref, NEW changed, Policy!Match(ps, Policy!Event(ref, Policy!Unknown))
    PROVE  Policy!Match(ps, Policy!Event(ref, changed))
<1> DEFINE e == Policy!Event(ref, Policy!Unknown)
           f == Policy!Event(ref, changed)
<1>1. \A p \in ps : /\ Policy!MatchesEventPolicy(p, e) = Policy!MatchesEventPolicy(p, f)
                    /\ Policy!Filtered(p, e) = Policy!Filtered(p, f)
    BY PathsApart
<1>2. e.changed = Policy!Unknown
    BY DEF Policy!Event
<1> HIDE DEF e, f
<1>3. PICK p \in ps : Policy!MatchesEventPolicy(p, e) /\ ~Policy!Filtered(p, e)
    BY <1>2 DEF Policy!Match, e
<1>4. Policy!Match(ps, f)
    BY <1>1, <1>3 DEF Policy!Match
<1> QED
    BY <1>4 DEF f

LEMMA WebhookAgrees == part = "policy" /\ x2 \in Pushes => Policy!WebhookAgreesWithWatch
<1> SUFFICES ASSUME Policy!IsPush(x2) PROVE Policy!WebhookAgreesWithWatch
    BY PushesSensible
<1> DEFINE net == Policy!Net(x2)
           told == Policy!PayloadPaths(x2)
           whole == x2.shown = DOMAIN x2.commits
           hook == Policy!Deliver(x1, x2)
           watch == Policy!Match(x1, Policy!WatchEvent(x2))
           Why == \/ x2.listed /\ ~whole /\ x2.count = 0
                  \/ x2.listed /\ x2.onto # x2.old
                  \/ ~(x2.listed /\ whole) /\ x2.before # "known"
<1>1. watch = Policy!Match(x1, Policy!Event(x2.ref, net))
    BY DEF Policy!WatchEvent
<1>2. /\ ~Policy!AsksGit(x1, x2) =>
            hook = IF Policy!Match(x1, Policy!Event(x2.ref, told)) THEN "run" ELSE "accepted"
      /\ Policy!AsksGit(x1, x2) =>
            hook = IF x2.before = "unusable" THEN "failed" ELSE IF watch THEN "run" ELSE "accepted"
    BY <1>1 DEF Policy!Deliver
<1>3. /\ x2.listed /\ whole => told = Policy!Listed(x2)
      /\ told # Policy!Unknown => x2.listed /\ told = Policy!Listed(x2) /\ (whole \/ x2.count = 0)
    BY ShortLists
<1>4. CASE Policy!AsksGit(x1, x2)
    <2>1. told = Policy!Unknown /\ x2.before # "missing"
        BY <1>4 DEF Policy!AsksGit
    <2>2. ~(x2.listed /\ whole)
        BY <1>3, <2>1, KnownPaths
    <2>3. (watch /\ hook # "run" => Why) /\ ~(hook = "run" /\ ~watch) /\ (hook = "failed" => x2.before = "unusable")
        BY <1>2, <1>4, <2>2
    <2> QED
        BY <2>3 DEF Policy!WebhookAgreesWithWatch
<1>5. CASE told = Policy!Unknown /\ ~Policy!AsksGit(x1, x2)
    <2>1. hook = "run" => watch
        BY <1>1, <1>2, <1>5, UnknownPaths
    <2>2. ASSUME watch, hook # "run" PROVE Why
        <3>1. Policy!NeedsChangedPaths(x1, Policy!Event(x2.ref, Policy!Unknown))
            BY <1>1, <1>2, <1>5, <2>2, AnyPathsWillDo
        <3>2. x2.before = "missing"
            BY <1>5, <3>1 DEF Policy!AsksGit
        <3>3. ~(x2.listed /\ whole)
            BY <1>3, <1>5, KnownPaths
        <3> QED
            BY <3>2, <3>3
    <2>3. hook # "failed"
        BY <1>2, <1>5
    <2> QED
        BY <2>1, <2>2, <2>3 DEF Policy!WebhookAgreesWithWatch
<1>6. CASE told # Policy!Unknown
    <2>1. x2.listed /\ told = Policy!Listed(x2) /\ (whole \/ x2.count = 0) /\ ~Policy!AsksGit(x1, x2)
        BY <1>3, <1>6 DEF Policy!AsksGit
    <2>2. ASSUME watch, hook # "run" PROVE Why
        <3>1. CASE whole /\ x2.onto = x2.old
            <4>1. net \subseteq told
                BY <2>1, <3>1, WholeListTellsAll
            <4>2. Policy!Match(x1, Policy!Event(x2.ref, told))
                BY <1>1, <1>6, <2>2, <4>1, MorePaths
            <4> QED
                BY <1>2, <2>1, <2>2, <4>2
        <3> QED
            BY <2>1, <3>1
    <2>3. ASSUME hook = "run", ~watch PROVE Policy!Listed(x2) \ net # {}
        <3>1. Policy!Match(x1, Policy!Event(x2.ref, told))
            BY <1>2, <2>1, <2>3
        <3>2. ~(told \subseteq net)
            BY <1>1, <2>3, <3>1, MorePaths, KnownPaths
        <3> QED
            BY <2>1, <3>2
    <2>4. hook # "failed"
        BY <1>2, <2>1
    <2> QED
        BY <2>1, <2>2, <2>3, <2>4 DEF Policy!WebhookAgreesWithWatch
<1> QED
    BY <1>4, <1>5, <1>6

\* What a tag is asked: git never, and no paths.
LEMMA TagsPass == Policy!TagsIgnorePathFilters
<1> SUFFICES ASSUME x2.ref.kind = "tag"
             PROVE  /\ Policy!Deliver(x1, x2) = "run"
                            <=> \E p \in x1 : Policy!MatchesEventPolicy(p, Policy!WatchEvent(x2))
                    /\ \A p \in x1 : p.branches # <<>> => Policy!Deliver({p}, x2) # "run"
    BY DEF Policy!TagsIgnorePathFilters
<1>1. \A changed : Policy!Event(x2.ref, changed).ref.kind = "tag"
    BY DEF Policy!Event
<1>2. \A p, changed : ~Policy!Filtered(p, Policy!Event(x2.ref, changed))
    BY <1>1 DEF Policy!Filtered
<1>3. ASSUME NEW ps PROVE ~Policy!AsksGit(ps, x2)
    BY <1>2 DEF Policy!AsksGit, Policy!NeedsChangedPaths
<1>4. ASSUME NEW ps
      PROVE  Policy!Deliver(ps, x2) = "run"
                <=> \E p \in ps : Policy!MatchesEventPolicy(p, Policy!WatchEvent(x2))
    <2>1. Policy!Deliver(ps, x2) = "run" <=> Policy!Match(ps, Policy!Event(x2.ref, Policy!PayloadPaths(x2)))
        BY <1>3 DEF Policy!Deliver
    <2>2. Policy!Match(ps, Policy!Event(x2.ref, Policy!PayloadPaths(x2)))
            <=> \E p \in ps : Policy!MatchesEventPolicy(p, Policy!Event(x2.ref, Policy!PayloadPaths(x2)))
        BY <1>2 DEF Policy!Match
    <2>3. \A p : Policy!MatchesEventPolicy(p, Policy!Event(x2.ref, Policy!PayloadPaths(x2)))
                    = Policy!MatchesEventPolicy(p, Policy!WatchEvent(x2))
        BY PathsApart DEF Policy!WatchEvent
    <2> QED
        BY <2>1, <2>2, <2>3
<1>5. \A p : p.branches # <<>> => ~Policy!MatchesEventPolicy(p, Policy!WatchEvent(x2))
    BY <1>1 DEF Policy!MatchesEventPolicy, Policy!MatchesRef, Policy!WatchEvent
<1> QED
    BY <1>4, <1>5

PolicyPart == part = "policy" => x2 \in Pushes

\* Whatever the policies of a workflow, the trees and the number of the commits of
\* a push, and what its payload lists of them: the webhook admits another set of
\* pushes of a branch than the local watch only where the payload is cut short
\* without saying so, hides what a forced push took away, names no commit that git
\* can start from, or names a path that was restored; git is asked for paths
\* wherever they matter, and a tag is not refused for its paths (Deliver,
\* collectChangedPaths, processPolicy, NeedsChangedPaths, Match).
THEOREM WebhooksDisagreeForAReason ==
    AdmissionSpec => [](part = "policy" =>
                            /\ Policy!PathsAskedWhenTheyMatter
                            /\ Policy!WebhookAgreesWithWatch
                            /\ Policy!TagsIgnorePathFilters)
<1>1. AdmissionStart => PolicyPart
    BY DEF AdmissionStart, AdmissionInit, Elsewhere, PolicyPart, Policy!Init
<1>2. PolicyPart /\ [AdmissionStep]_admissionVars => PolicyPart'
    BY DEF PolicyPart, AdmissionStep, AdmissionNext, Elsewhere, Policy!Next, Policy!vars, admissionVars
<1>3. PolicyPart =>
        (part = "policy" =>
            /\ Policy!PathsAskedWhenTheyMatter /\ Policy!WebhookAgreesWithWatch /\ Policy!TagsIgnorePathFilters)
    BY PathsAsked, WebhookAgrees, TagsPass DEF PolicyPart
<1> QED
    BY <1>1, <1>2, <1>3, PTL DEF AdmissionSpec

-----------------------------------------------------------------------------
(* Decisions about a job *)

DecisionTyped == x1 \in Seq(Decision!Need) /\ x2 \in Decision!Contract

\* At most one rule decides.
LEMMA OneDecides ==
    ASSUME NEW rules \in Seq(Decision!Rule), NEW ns,
           NEW i \in Decision!Deciding(rules, ns), NEW j \in Decision!Deciding(rules, ns)
    PROVE  i = j
<1> i \in Nat /\ j \in Nat
    BY DEF Decision!Deciding
<1> QED
    BY DEF Decision!Deciding

\* What a decided job is told depends on the rule alone.
LEMMA RulesDecide ==
    ASSUME NEW contract, NEW ns, contract.rules \in Seq(Decision!Rule)
    PROVE  /\ Decision!Deciding(contract.rules, ns) = {} =>
                Decision!ByRules(contract, ns) = Decision!Skip(contract.allow)
           /\ \A i \in Decision!Deciding(contract.rules, ns) :
                Decision!ByRules(contract, ns) = Decision!ByRule(contract, contract.rules[i])
<1>1. ASSUME Decision!Deciding(contract.rules, ns) = {}
      PROVE  Decision!ByRules(contract, ns) = Decision!Skip(contract.allow)
    BY <1>1 DEF Decision!ByRules
<1>2. ASSUME NEW i \in Decision!Deciding(contract.rules, ns)
      PROVE  Decision!ByRules(contract, ns) = Decision!ByRule(contract, contract.rules[i])
    <2>1. (CHOOSE k \in Decision!Deciding(contract.rules, ns) : TRUE) = i
        BY OneDecides
    <2> QED
        BY <2>1 DEF Decision!ByRules
<1> QED
    BY <1>1, <1>2

\* The cases of a decision
LEMMA Evaluated ==
    ASSUME NEW contract, NEW ns, NEW r
    PROVE  /\ Decision!Refused(contract, ns) =>
                Decision!Evaluate(contract, ns, r) = Decision!Skip(contract.allow)
           /\ ~Decision!Refused(contract, ns) /\ ~contract.present =>
                Decision!Evaluate(contract, ns, r) = Decision!Start(contract.allow)
           /\ ~Decision!Refused(contract, ns) /\ contract.present /\ contract.rules # <<>> =>
                Decision!Evaluate(contract, ns, r) = Decision!ByRules(contract, ns)
           /\ ~Decision!Refused(contract, ns) /\ contract.present /\ contract.rules = <<>> =>
                Decision!Evaluate(contract, ns, r) =
                    IF Decision!Unselected(contract, r) THEN Decision!Skip(contract.allow)
                    ELSE Decision!ByWhen(contract)
BY DEF Decision!Evaluate

LEMMA Skipped == ASSUME NEW allow PROVE ~Decision!Skip(allow).run /\ ~Decision!Skip(allow).manual
BY DEF Decision!Skip

\* The meaning of a condition
LEMMA Meaning ==
    ASSUME NEW ns
    PROVE  /\ ~Decision!Holds("unsupported", ns) /\ Decision!Holds("always", ns)
           /\ Decision!Holds("", ns) = Decision!Successful(ns)
           /\ Decision!Holds("failure", ns) = Decision!SomeFailed(ns)
           /\ \A q \in {"true", "false", "error"} :
                Decision!Holds(q, ns) = (Decision!Successful(ns) /\ q = "true")
BY DEF Decision!Holds

\* A condition without a status function holds only behind good needs, and
\* then it does not depend on them.
LEMMA PlainConditions ==
    ASSUME NEW ns, NEW q \in Decision!Condition, ~Decision!UsesStatusFunction(q)
    PROVE  /\ Decision!Holds(q, ns) => Decision!Successful(ns)
           /\ \A other : Decision!Successful(ns) /\ Decision!Successful(other) =>
                Decision!Holds(q, ns) = Decision!Holds(q, other)
<1>1. q \in {"", "true", "false", "error", "unsupported"}
    BY DEF Decision!Condition, Decision!UsesStatusFunction
<1> QED
    BY <1>1 DEF Decision!Holds

\* A need that ended better is the same need otherwise.
LEMMA Bettered ==
    ASSUME NEW ns \in Seq(Decision!Need), NEW i \in DOMAIN ns
    PROVE  LET better == [ns EXCEPT ![i].status = "succeeded"]
           IN /\ Decision!Ready(ns) => Decision!Ready(better)
              /\ Decision!Successful(ns) => Decision!Successful(better)
<1> DEFINE better == [ns EXCEPT ![i].status = "succeeded"]
<1>1. DOMAIN better = DOMAIN ns /\ \A j \in DOMAIN ns \ {i} : better[j] = ns[j]
    OBVIOUS
<1>2. better[i] = [ns[i] EXCEPT !.status = "succeeded"] /\ ns[i] \in Decision!Need
    OBVIOUS
<1>3. better[i].status = "succeeded"
    BY <1>2 DEF Decision!Need
<1> HIDE DEF better
<1>4. Decision!Ready(ns) => Decision!Ready(better)
    BY <1>1, <1>3 DEF Decision!Ready
<1>5. Decision!Successful(ns) => Decision!Successful(better)
    BY <1>1, <1>3 DEF Decision!Successful, Decision!Tolerable
<1> QED
    BY <1>4, <1>5 DEF better

LEMMA WorseNeeds == DecisionTyped => Decision!WorseNeedsStartNothing
<1> SUFFICES ASSUME DecisionTyped, x2.present => \A q \in Decision!Conditions(x2) : ~Decision!UsesStatusFunction(q),
                    NEW i \in DOMAIN x1, Decision!Evaluate(x2, x1, x3).run
             PROVE  Decision!Evaluate(x2, [x1 EXCEPT ![i].status = "succeeded"], x3).run
    BY DEF Decision!WorseNeedsStartNothing
<1> DEFINE better == [x1 EXCEPT ![i].status = "succeeded"]
<1>1. ~Decision!Refused(x2, x1)
    BY Evaluated, Skipped
<1>2. Decision!Ready(better) /\ (Decision!Successful(x1) => Decision!Successful(better))
    BY <1>1, Bettered DEF Decision!Refused, DecisionTyped
<1> HIDE DEF better
<1>3. CASE ~x2.present
    <2>1. ~Decision!Refused(x2, better)
        BY <1>1, <1>2, <1>3, Meaning DEF Decision!Refused
    <2> QED
        BY <2>1, <1>1, <1>3, Evaluated DEF better
<1>4. CASE x2.present
    <2>1. ~Decision!UsesStatusFunction(x2.condition) /\ x2.condition \in Decision!Condition
        BY <1>4 DEF Decision!Conditions, DecisionTyped, Decision!Contract
    <2>2. Decision!Holds(x2.condition, x1)
        BY <1>1, <1>4 DEF Decision!Refused
    <2>3. Decision!Successful(x1) /\ Decision!Successful(better)
        BY <2>1, <2>2, <1>2, PlainConditions
    <2>4. ~Decision!Refused(x2, better)
        BY <2>1, <2>2, <2>3, <1>2, <1>4, PlainConditions DEF Decision!Refused
    <2>5. ASSUME NEW k \in DOMAIN x2.rules
          PROVE  Decision!Decides(x2.rules[k], x1) = Decision!Decides(x2.rules[k], better)
        <3>1. x2.rules[k] \in Decision!Rule
            BY DEF DecisionTyped, Decision!Contract
        <3>2. ~Decision!UsesStatusFunction(x2.rules[k].condition) /\ x2.rules[k].condition \in Decision!Condition
            BY <1>4, <3>1 DEF Decision!Conditions, Decision!Rule
        <3> QED
            BY <2>3, <3>2, PlainConditions DEF Decision!Decides
    <2>6. Decision!Deciding(x2.rules, x1) = Decision!Deciding(x2.rules, better)
        <3> x2.rules \in Seq(Decision!Rule)
            BY DEF DecisionTyped, Decision!Contract
        <3> QED
            BY <2>5 DEF Decision!Deciding
    <2>7. Decision!ByRules(x2, x1) = Decision!ByRules(x2, better)
        BY <2>6 DEF Decision!ByRules
    <2>8. Decision!Evaluate(x2, x1, x3) = Decision!Evaluate(x2, better, x3)
        BY <1>1, <1>4, <2>4, <2>7, Evaluated
    <2> QED
        BY <2>8 DEF better
<1> QED
    BY <1>3, <1>4

LEMMA GoodNeeds == DecisionTyped => Decision!StartsBehindGoodNeeds
<1> SUFFICES ASSUME DecisionTyped,
                    Decision!Evaluate(x2, x1, x3).run \/ Decision!Evaluate(x2, x1, x3).manual,
                    x2.present => ~Decision!UsesStatusFunction(x2.condition)
             PROVE  Decision!Successful(x1)
    BY DEF Decision!StartsBehindGoodNeeds, Decision!Successful, Decision!Tolerable
<1>1. ~Decision!Refused(x2, x1)
    BY Evaluated, Skipped
<1>2. CASE ~x2.present
    BY <1>1, <1>2, Meaning DEF Decision!Refused
<1>3. CASE x2.present
    <2>1. Decision!Holds(x2.condition, x1)
        BY <1>1, <1>3 DEF Decision!Refused
    <2>2. x2.condition \in Decision!Condition
        BY DEF DecisionTyped, Decision!Contract
    <2> QED
        BY <2>1, <2>2, <1>3, PlainConditions
<1> QED
    BY <1>2, <1>3

\* A job with one rule more that is not understood starts or waits only if it
\* would without.
LEMMA Stricter ==
    ASSUME NEW c1, NEW c2, NEW ns, NEW r,
           c1.present, c2.present, c1.condition = c2.condition, c1.allow = c2.allow,
           c1.play = c2.play, c1.blocking = c2.blocking,
           c1.rules \in Seq(Decision!Rule), c2.rules \in Seq(Decision!Rule), DOMAIN c1.rules = DOMAIN c2.rules,
           NEW i \in DOMAIN c2.rules, \A k \in DOMAIN c2.rules \ {i} : c1.rules[k] = c2.rules[k],
           c1.rules[i].files \/ c1.rules[i].condition = "unsupported"
    PROVE  LET d1 == Decision!Evaluate(c1, ns, r)
               d2 == Decision!Evaluate(c2, ns, r)
           IN (d1.run => d2.run) /\ (d1.manual => d2.manual)
<1> SUFFICES ASSUME Decision!Evaluate(c1, ns, r).run \/ Decision!Evaluate(c1, ns, r).manual
             PROVE  Decision!Evaluate(c1, ns, r) = Decision!Evaluate(c2, ns, r)
    OBVIOUS
<1>1. ~Decision!Refused(c1, ns) /\ ~Decision!Refused(c2, ns)
    <2>1. ~Decision!Refused(c1, ns)
        BY Evaluated, Skipped
    <2> QED
        BY <2>1 DEF Decision!Refused
<1>2. c1.rules # <<>> /\ c2.rules # <<>>
    OBVIOUS
<1>3. /\ Decision!Evaluate(c1, ns, r) = Decision!ByRules(c1, ns)
      /\ Decision!Evaluate(c2, ns, r) = Decision!ByRules(c2, ns)
    BY <1>1, <1>2, Evaluated
<1>4. PICK k \in Decision!Deciding(c1.rules, ns) : TRUE
    BY <1>3, RulesDecide, Skipped
<1>5. Decision!ByRules(c1, ns) = Decision!ByRule(c1, c1.rules[k])
    BY RulesDecide
<1>6. k # i
    BY <1>3, <1>5, Skipped DEF Decision!ByRule
<1>7. k \in DOMAIN c1.rules /\ k \in 1..Len(c1.rules) /\ i \in 1..Len(c1.rules)
    BY DEF Decision!Deciding
<1>8. k < i
    BY <1>6, <1>7 DEF Decision!Deciding, Decision!Decides
<1>9. \A j \in 1..k : j \in DOMAIN c2.rules /\ c1.rules[j] = c2.rules[j]
    BY <1>7, <1>8
<1>10. k \in Decision!Deciding(c2.rules, ns)
    BY <1>7, <1>9 DEF Decision!Deciding
<1>11. Decision!ByRules(c2, ns) = Decision!ByRule(c2, c1.rules[k])
    BY <1>7, <1>9, <1>10, RulesDecide
<1>12. Decision!ByRule(c1, c1.rules[k]) = Decision!ByRule(c2, c1.rules[k])
    BY DEF Decision!ByRule, Decision!Wait
<1> QED
    BY <1>3, <1>5, <1>11, <1>12

LEMMA FailsClosed == DecisionTyped => Decision!UnsupportedFailsClosed
<1> SUFFICES ASSUME DecisionTyped, x2.present PROVE Decision!UnsupportedFailsClosed
    BY DEF Decision!UnsupportedFailsClosed
<1> DEFINE unread == [x2 EXCEPT !.condition = "unsupported"]
           unreadRule(i) == [x2 EXCEPT !.rules[i].condition = "unsupported"]
           unreadFiles(i) == [x2 EXCEPT !.rules[i].files = TRUE]
           stricter(c1) == /\ Decision!Evaluate(c1, x1, x3).run => Decision!Evaluate(x2, x1, x3).run
                           /\ Decision!Evaluate(c1, x1, x3).manual => Decision!Evaluate(x2, x1, x3).manual
<1>0. x2.rules \in Seq(Decision!Rule)
    BY DEF DecisionTyped, Decision!Contract
<1>1. stricter(unread)
    <2>1. unread.present /\ unread.condition = "unsupported"
        BY DEF DecisionTyped, Decision!Contract
    <2>2. Decision!Refused(unread, x1)
        BY <2>1, Meaning DEF Decision!Refused
    <2> QED
        BY <2>2, Evaluated, Skipped
<1>2. ASSUME NEW i \in DOMAIN x2.rules PROVE stricter(unreadRule(i))
    <2> DEFINE c1 == unreadRule(i)
    <2>1. /\ c1.present = x2.present /\ c1.condition = x2.condition /\ c1.allow = x2.allow
          /\ c1.play = x2.play /\ c1.blocking = x2.blocking
          /\ c1.rules = [x2.rules EXCEPT ![i] = [x2.rules[i] EXCEPT !.condition = "unsupported"]]
        BY DEF DecisionTyped, Decision!Contract
    <2>2. x2.rules[i] \in Decision!Rule
        BY <1>0
    <2>3. [x2.rules[i] EXCEPT !.condition = "unsupported"] \in Decision!Rule
        BY <2>2 DEF Decision!Rule, Decision!Condition
    <2>4. [x2.rules[i] EXCEPT !.condition = "unsupported"].condition = "unsupported"
        BY <2>2 DEF Decision!Rule
    <2> HIDE DEF c1
    <2> QED
        <3>1. /\ c1.rules \in Seq(Decision!Rule) /\ DOMAIN c1.rules = DOMAIN x2.rules
              /\ \A k \in DOMAIN x2.rules \ {i} : c1.rules[k] = x2.rules[k]
            BY <1>0, <2>1, <2>3
        <3>2. c1.rules[i].files \/ c1.rules[i].condition = "unsupported"
            BY <1>0, <2>1, <2>4
        <3>3. stricter(c1)
            BY <1>0, <2>1, <3>1, <3>2, Stricter
        <3> QED
            BY <3>3 DEF c1
<1>3. ASSUME NEW i \in DOMAIN x2.rules PROVE stricter(unreadFiles(i))
    <2> DEFINE c1 == unreadFiles(i)
    <2>1. /\ c1.present = x2.present /\ c1.condition = x2.condition /\ c1.allow = x2.allow
          /\ c1.play = x2.play /\ c1.blocking = x2.blocking
          /\ c1.rules = [x2.rules EXCEPT ![i] = [x2.rules[i] EXCEPT !.files = TRUE]]
        BY DEF DecisionTyped, Decision!Contract
    <2>2. x2.rules[i] \in Decision!Rule
        BY <1>0
    <2>3. [x2.rules[i] EXCEPT !.files = TRUE] \in Decision!Rule
        BY <2>2 DEF Decision!Rule
    <2>4. [x2.rules[i] EXCEPT !.files = TRUE].files
        BY <2>2 DEF Decision!Rule
    <2> HIDE DEF c1
    <2> QED
        <3>1. /\ c1.rules \in Seq(Decision!Rule) /\ DOMAIN c1.rules = DOMAIN x2.rules
              /\ \A k \in DOMAIN x2.rules \ {i} : c1.rules[k] = x2.rules[k]
            BY <1>0, <2>1, <2>3
        <3>2. c1.rules[i].files \/ c1.rules[i].condition = "unsupported"
            BY <1>0, <2>1, <2>4
        <3>3. stricter(c1)
            BY <1>0, <2>1, <3>1, <3>2, Stricter
        <3> QED
            BY <3>3 DEF c1
<1> QED
    BY <1>1, <1>2, <1>3 DEF Decision!UnsupportedFailsClosed

LEMMA FirstMatch == DecisionTyped => Decision!FirstMatchDecides
<1> SUFFICES ASSUME DecisionTyped, x2.present, NEW i \in DOMAIN x2.rules, Decision!Holds(x2.rules[i].condition, x1)
             PROVE  Decision!Evaluate(x2, x1, x3)
                        = Decision!Evaluate([x2 EXCEPT !.rules = SubSeq(@, 1, i), !.when = "never",
                                                       !.only.given = FALSE, !.except.given = FALSE], x1, x3)
    BY DEF Decision!FirstMatchDecides
<1> DEFINE alone == [x2 EXCEPT !.rules = SubSeq(@, 1, i), !.when = "never",
                               !.only.given = FALSE, !.except.given = FALSE]
<1>1. /\ alone.present = x2.present /\ alone.condition = x2.condition /\ alone.allow = x2.allow
      /\ alone.play = x2.play /\ alone.blocking = x2.blocking
      /\ alone.rules = SubSeq(x2.rules, 1, i)
    BY DEF DecisionTyped, Decision!Contract
<1>2. x2.rules \in Seq(Decision!Rule)
    BY DEF DecisionTyped, Decision!Contract
<1> HIDE DEF alone
<1>3. /\ alone.rules \in Seq(Decision!Rule) /\ Len(alone.rules) = i /\ i \in 1..Len(x2.rules)
      /\ \A k \in 1..i : alone.rules[k] = x2.rules[k]
    BY <1>1, <1>2
<1>4. Decision!Deciding(alone.rules, x1) = Decision!Deciding(x2.rules, x1)
    <2>1. Decision!Decides(x2.rules[i], x1)
        BY DEF Decision!Decides
    <2>2. \A k \in Decision!Deciding(x2.rules, x1) : k \in 1..i
        BY <1>2, <1>3, <2>1 DEF Decision!Deciding
    <2>3. \A k \in 1..i : k \in DOMAIN alone.rules /\ k \in DOMAIN x2.rules
        BY <1>2, <1>3
    <2>4. \A k \in Decision!Deciding(alone.rules, x1) : k \in 1..i
        BY <1>3 DEF Decision!Deciding
    <2>5. \A k \in 1..i : k \in Decision!Deciding(alone.rules, x1) <=> k \in Decision!Deciding(x2.rules, x1)
        <3> TAKE k \in 1..i
        <3>1. \A j \in 1..(k - 1) : j \in 1..i /\ alone.rules[j] = x2.rules[j]
            BY <1>3
        <3> QED
            BY <1>3, <2>3, <3>1 DEF Decision!Deciding
    <2> QED
        BY <2>2, <2>4, <2>5
<1>5. Decision!ByRules(x2, x1) = Decision!ByRules(alone, x1)
    <2>1. CASE Decision!Deciding(x2.rules, x1) = {}
        BY <2>1, <1>1, <1>2, <1>3, <1>4, RulesDecide
    <2>2. ASSUME NEW k \in Decision!Deciding(x2.rules, x1)
          PROVE  Decision!ByRules(x2, x1) = Decision!ByRules(alone, x1)
        <3>1. k \in 1..i
            BY <1>3, <1>4, <2>2 DEF Decision!Deciding
        <3>2. /\ Decision!ByRules(x2, x1) = Decision!ByRule(x2, x2.rules[k])
              /\ Decision!ByRules(alone, x1) = Decision!ByRule(alone, x2.rules[k])
            BY <1>2, <1>3, <1>4, <3>1, RulesDecide
        <3> QED
            BY <3>2, <1>1 DEF Decision!ByRule, Decision!Wait
    <2> QED
        BY <2>1, <2>2
<1>6. x2.rules # <<>> /\ alone.rules # <<>>
    BY <1>2, <1>3
<1>7. Decision!Refused(x2, x1) = Decision!Refused(alone, x1)
    BY <1>1 DEF Decision!Refused
<1> QED
    <2>1. Decision!Evaluate(x2, x1, x3) = Decision!Evaluate(alone, x1, x3)
        <3>1. CASE Decision!Refused(x2, x1)
            BY <3>1, <1>1, <1>7, Evaluated
        <3>2. CASE ~Decision!Refused(x2, x1)
            BY <3>2, <1>1, <1>5, <1>6, <1>7, Evaluated
        <3> QED
            BY <3>1, <3>2
    <2> QED
        BY <2>1 DEF alone

\* A decision for a job that was not played and for the same job, played
AskedOnce(asked, played) ==
    /\ ~played.manual /\ ~(asked.run /\ asked.manual)
    /\ IF asked.manual THEN played.run /\ played.allow = ~x2.blocking ELSE played = asked

LEMMA OncePlayed == DecisionTyped => Decision!PlayedOnce
<1> SUFFICES ASSUME DecisionTyped PROVE Decision!PlayedOnce
    OBVIOUS
<1> DEFINE with(p) == [x2 EXCEPT !.play = p]
           fresh == with(FALSE)
           played == with(TRUE)
<1>1. \A p \in BOOLEAN :
        /\ with(p).play = p /\ with(p).present = x2.present /\ with(p).condition = x2.condition
        /\ with(p).rules = x2.rules /\ with(p).only = x2.only /\ with(p).except = x2.except
        /\ with(p).when = x2.when /\ with(p).allow = x2.allow /\ with(p).blocking = x2.blocking
    BY DEF DecisionTyped, Decision!Contract
<1> HIDE DEF with
<1>2. \A allow : /\ AskedOnce(Decision!Skip(allow), Decision!Skip(allow))
                 /\ AskedOnce(Decision!Start(allow), Decision!Start(allow))
    BY DEF AskedOnce, Decision!Skip, Decision!Start
<1>3. \A allow : AskedOnce(Decision!Wait(fresh, allow), Decision!Wait(played, allow))
    BY <1>1 DEF AskedOnce, Decision!Wait, Decision!Skip, Decision!Start
<1>4. Decision!Refused(fresh, x1) = Decision!Refused(played, x1)
    BY <1>1 DEF Decision!Refused
<1>5. \A rule : AskedOnce(Decision!ByRule(fresh, rule), Decision!ByRule(played, rule))
    BY <1>1, <1>2, <1>3 DEF Decision!ByRule
<1>6. AskedOnce(Decision!ByRules(fresh, x1), Decision!ByRules(played, x1))
    BY <1>1, <1>2, <1>5 DEF Decision!ByRules
<1>7. AskedOnce(Decision!ByWhen(fresh), Decision!ByWhen(played))
    BY <1>1, <1>2, <1>3 DEF Decision!ByWhen
<1>8. Decision!Unselected(fresh, x3) = Decision!Unselected(played, x3)
    BY <1>1 DEF Decision!Unselected
<1>9. AskedOnce(Decision!Evaluate(fresh, x1, x3), Decision!Evaluate(played, x1, x3))
    <2>1. CASE Decision!Refused(fresh, x1)
        BY <2>1, <1>1, <1>2, <1>4, Evaluated
    <2>2. CASE ~Decision!Refused(fresh, x1) /\ ~x2.present
        BY <2>2, <1>1, <1>2, <1>4, Evaluated
    <2>3. CASE ~Decision!Refused(fresh, x1) /\ x2.present /\ x2.rules # <<>>
        BY <2>3, <1>1, <1>4, <1>6, Evaluated
    <2>4. CASE ~Decision!Refused(fresh, x1) /\ x2.present /\ x2.rules = <<>>
        BY <2>4, <1>1, <1>2, <1>4, <1>7, <1>8, Evaluated
    <2> QED
        BY <2>1, <2>2, <2>3, <2>4
<1> QED
    BY <1>9 DEF AskedOnce, Decision!PlayedOnce, with

DecisionInv == part = "decision" => DecisionTyped

LEMMA DecisionInit == AdmissionStart => DecisionInv
<1> SUFFICES ASSUME AdmissionStart, part = "decision" PROVE DecisionTyped
    BY DEF DecisionInv
<1>1. Decision!Init
    BY DEF AdmissionStart, Elsewhere, AdmissionInit
<1> QED
    BY <1>1, DecisionSensible DEF Decision!Init, Decision!Sensible, DecisionTyped

LEMMA DecisionStep == DecisionInv /\ [AdmissionStep]_admissionVars => DecisionInv'
<1> SUFFICES ASSUME DecisionInv, [AdmissionStep]_admissionVars, part' = "decision" PROVE DecisionTyped'
    BY DEF DecisionInv
<1>1. part = "decision" /\ UNCHANGED <<x1, x2>>
    BY DEF AdmissionStep, Elsewhere, AdmissionNext, admissionVars, Decision!Next, Decision!Decide
<1> QED
    BY <1>1 DEF DecisionInv, DecisionTyped

\* Whatever needs, contract and run a job has: none starts behind a need that
\* went wrong unless it asks for it, what is not understood takes leave away,
\* the first rule that matches decides, a person is asked once.
THEOREM JobsAlwaysStartAsWritten == AdmissionSpec => []JobsStartAsWritten
<1>1. DecisionInv => JobsStartAsWritten
    BY WorseNeeds, GoodNeeds, FailsClosed, FirstMatch, OncePlayed DEF DecisionInv, JobsStartAsWritten
<1> QED
    BY DecisionInit, DecisionStep, <1>1, PTL DEF AdmissionSpec

-----------------------------------------------------------------------------
(* The keys of the services *)

LEMMA InOrder == Keys!Following["session"] = "token" /\ Keys!Following["token"] = "secret"
BY DEF Keys!Following

KeysPlaces == {Keys!Down, Keys!Up} \cup [name : Keys!Names, doing : {"read", "create", "write"}]

\* What becomes of the memory of a service that has one secret more
Gains(s, name, secret, isNew) ==
    /\ x2' \in [Services -> KeysPlaces]
    /\ x3' \in [Services -> [Keys!Names -> {None} \cup Keys!Drawn]]
    /\ x4' \in [Services -> {None} \cup Keys!Drawn] /\ x6' \in [Services -> {None} \cup Keys!Drawn]
    /\ name = "session" => x2'[s] = Keys!Doing("token", "read")
    /\ name = "token" => x2'[s] = Keys!Doing("secret", "read")
    /\ name = "secret" => x2'[s] = Keys!Up
    /\ x4'[s] = None /\ x6'[s] = IF name = "token" /\ isNew THEN secret ELSE x6[s]
    /\ \A t \in Services \ {s} : x2'[t] = x2[t] /\ x4'[t] = x4[t] /\ x6'[t] = x6[t]
    /\ x3'[s][name] = secret
    /\ \A t \in Services, n \in Keys!Names : t # s \/ n # name => x3'[t][n] = x3[t][n]
    /\ \A t \in Services \ {s} : x3'[t] = x3[t]
    /\ name = "secret" /\ x6[s] # None => x7' = [x7 EXCEPT ![x6[s]] = @ + 1]
    /\ name # "secret" \/ x6[s] = None => x7' = x7
    /\ x8' = x8 \ {<<s, name>>}

LEMMA HasGains ==
    ASSUME Keys!KeysTyped, NEW s \in Services, NEW name \in Keys!Names, NEW secret \in Keys!Drawn, NEW isNew \in BOOLEAN,
           Keys!Has(s, name, secret, isNew)
    PROVE  Gains(s, name, secret, isNew)
<1> USE DEF Keys!Has, Keys!Names, Keys!KeysTyped, Keys!Drawn
<1>1. x2' \in [Services -> KeysPlaces]
    BY InOrder DEF KeysPlaces, Keys!Doing, Keys!Up, Keys!Down
<1>2. x3' \in [Services -> [Keys!Names -> {None} \cup Keys!Drawn]]
    <2>1. x3[s] \in [Keys!Names -> {None} \cup Keys!Drawn]
        OBVIOUS
    <2>2. [x3[s] EXCEPT ![name] = secret] \in [Keys!Names -> {None} \cup Keys!Drawn]
        BY <2>1
    <2>3. x3' = [x3 EXCEPT ![s] = [x3[s] EXCEPT ![name] = secret]]
        OBVIOUS
    <2> QED
        BY <2>2, <2>3
<1>3. /\ x4' \in [Services -> {None} \cup Keys!Drawn] /\ x6' \in [Services -> {None} \cup Keys!Drawn]
      /\ x4'[s] = None /\ x6'[s] = IF name = "token" /\ isNew THEN secret ELSE x6[s]
    BY DEF Keys!KeptToShow
<1>4. /\ name = "session" => x2'[s] = Keys!Doing("token", "read")
      /\ name = "token" => x2'[s] = Keys!Doing("secret", "read")
      /\ name = "secret" => x2'[s] = Keys!Up
    BY InOrder
<1>5. \A t \in Services \ {s} : x2'[t] = x2[t] /\ x4'[t] = x4[t] /\ x6'[t] = x6[t]
    OBVIOUS
<1>6. x3'[s][name] = secret
    OBVIOUS
<1>7. \A t \in Services, n \in Keys!Names : t # s \/ n # name => x3'[t][n] = x3[t][n]
    OBVIOUS
<1>8. \A t \in Services \ {s} : x3'[t] = x3[t]
    OBVIOUS
<1>9. /\ name = "secret" /\ x6[s] # None => x7' = [x7 EXCEPT ![x6[s]] = @ + 1]
      /\ name # "secret" \/ x6[s] = None => x7' = x7
      /\ x8' = x8 \ {<<s, name>>}
    OBVIOUS
<1> QED
    BY <1>1, <1>2, <1>3, <1>4, <1>5, <1>6, <1>7, <1>8, <1>9 DEF Gains

\* What the types say of one service and of one file
LEMMA Ranges ==
    ASSUME Keys!KeysTyped
    PROVE  /\ \A k \in Keys!Drawn : k \in 1..MaxMade /\ k \in Nat /\ k <= x5 /\ k # None
           /\ \A t \in Services : (x4[t] # None => x4[t] \in Keys!Drawn) /\ (x6[t] # None => x6[t] \in Keys!Drawn)
           /\ \A n \in Keys!Names : x1[n] # None => x1[n] \in [secret : Keys!Drawn, whole : BOOLEAN]
           /\ x5 \in Nat /\ x5 <= MaxMade
BY KeysSensible DEF Keys!KeysTyped, Keys!Drawn

\* A file that has something in it is there.
LEMMA ContentIsSomething ==
    ASSUME NEW k \in Nat, NEW whole \in BOOLEAN
    PROVE  [secret |-> k, whole |-> whole] # None
<1>1. [secret |-> k, whole |-> whole] \in [secret : Nat, whole : BOOLEAN]
    OBVIOUS
<1> QED
    BY <1>1, KeysSensible

\* A token is told once, for the service that comes up made it.
LEMMA GainsTold ==
    ASSUME Keys!KeysInv, NEW s \in Services, NEW name \in Keys!Names, NEW secret \in Keys!Drawn, NEW isNew \in BOOLEAN,
           Gains(s, name, secret, isNew), x2[s] # Keys!Up
    PROVE  /\ x7' \in [1..MaxMade -> {0, 1}]
           /\ \A k \in 1..MaxMade : k # x6[s] => x7'[k] = x7[k]
<1>0. Keys!KeysTyped /\ x7 \in [1..MaxMade -> {0, 1}]
    BY DEF Keys!KeysInv, Keys!KeysTyped
<1>1. CASE name = "secret" /\ x6[s] # None
    <2>1. x7[x6[s]] = 0 /\ x6[s] \in 1..MaxMade
        BY <1>0, <1>1, Ranges DEF Keys!TokensAreUntold, Keys!KeysInv
    <2>2. x7' = [x7 EXCEPT ![x6[s]] = @ + 1]
        BY <1>1 DEF Gains
    <2>3. x7' = [x7 EXCEPT ![x6[s]] = 1]
        BY <2>1, <2>2
    <2> QED
        BY <1>0, <2>3
<1>2. CASE name # "secret" \/ x6[s] = None
    BY <1>0, <1>2 DEF Gains
<1> QED
    BY <1>1, <1>2

\* A service reads a whole file.
LEMMA FoundStep ==
    ASSUME Keys!KeysInv, NEW s \in Services, NEW name \in Keys!Names, Keys!IsAt(s, name, "read"),
           x1[name] # None, x1[name].whole, Keys!Has(s, name, x1[name].secret, FALSE), UNCHANGED <<x1, x5>>
    PROVE  Keys!KeysInv'
<1>0. x1[name].secret \in Keys!Drawn /\ Keys!KeysTyped
    BY DEF Keys!KeysTyped, Keys!KeysInv
<1>g. Gains(s, name, x1[name].secret, FALSE)
    BY <1>0, HasGains
<1>a. x2[s].name = name /\ x2[s].doing = "read" /\ x2[s] # Keys!Up /\ x2[s] # Keys!Down
    BY DEF Keys!IsAt, Keys!Names, Keys!Up, Keys!Down, Keys!Doing
<1>s. x4[s] = None /\ (name # "secret" => x6[s] = None)
    BY <1>a DEF Keys!HeldSoFar, Keys!KeysInv, Keys!Names
<1>t. /\ x7' \in [1..MaxMade -> {0, 1}]
      /\ \A k \in 1..MaxMade : k # x6[s] => x7'[k] = x7[k]
    BY <1>0, <1>a, <1>g, GainsTold
<1>1. Keys!KeysTyped'
    <2>1. x7' \in [1..MaxMade -> {0, 1}]
        BY <1>t
    <2> QED
        BY <1>0, <1>g, <2>1 DEF Gains, Keys!KeysTyped, KeysPlaces, Keys!Drawn, Keys!Names, Keys!Up, Keys!Down, Keys!Doing
<1>2. Keys!HeldSoFar'
    <2> SUFFICES ASSUME NEW t \in Services
                 PROVE  (/\ x2[t] = Keys!Down => x3[t] = Keys!Nothing
                         /\ x2[t] = Keys!Up \/ x2[t].name \in {"token", "secret"} => x3[t]["session"] # None
                         /\ x2[t] = Keys!Up \/ x2[t].name = "secret" => x3[t]["token"] # None
                         /\ x2[t] = Keys!Up => x3[t]["secret"] # None
                         /\ x2[t] = Keys!Down \/ x2[t].name \in {"session", "token"} => x6[t] = None
                         /\ x4[t] # None <=> x2[t].doing \in {"create", "write"})'
        BY DEF Keys!HeldSoFar
    <2>1. CASE t # s
        BY <2>1, <1>g DEF Gains, Keys!KeysInv, Keys!HeldSoFar, Keys!Nothing, Keys!Down, Keys!Up, Keys!Doing
    <2>2. CASE t = s
        <3>1. x3'[s][name] # None
            BY <1>0, <1>g, KeysSensible DEF Gains, Keys!Drawn
        <3>2. name \in {"token", "secret"} => x3'[s]["session"] # None
            BY <1>a, <1>g DEF Gains, Keys!KeysInv, Keys!HeldSoFar, Keys!Names
        <3>3. name = "secret" => x3'[s]["token"] # None
            BY <1>a, <1>g DEF Gains, Keys!KeysInv, Keys!HeldSoFar, Keys!Names
        <3> QED
            BY <2>2, <3>1, <3>2, <3>3, <1>s, <1>g DEF Gains, Keys!Names, Keys!Down, Keys!Up, Keys!Doing
    <2> QED
        BY <2>1, <2>2
<1>3. Keys!WritersOwn'
    BY <1>a, <1>g DEF Gains, Keys!KeysInv, Keys!WritersOwn, Keys!IsAt, Keys!Names, Keys!Up, Keys!Doing
<1>n. \A t \in Services : x6'[t] = x6[t]
    BY <1>g DEF Gains
<1>4. Keys!DrawnIsFresh'
    <2> SUFFICES ASSUME NEW t \in Services, x4'[t] # None
                 PROVE  /\ \A u \in Services : (u # t => x4'[u] # x4'[t]) /\ x6'[u] # x4'[t]
                        /\ \A n \in Keys!Names : x1[n] # None /\ x1[n].secret = x4'[t] => Keys!IsAt(t, n, "write")'
                        /\ x7'[x4'[t]] = 0
        BY DEF Keys!DrawnIsFresh
    <2>1. t # s /\ x4'[t] = x4[t] /\ x2'[t] = x2[t]
        BY <1>g DEF Gains
    <2>2. \A u \in Services : (u # t => x4'[u] # x4'[t]) /\ x6'[u] # x4'[t]
        BY <2>1, <1>n, <1>g DEF Gains, Keys!KeysInv, Keys!DrawnIsFresh
    <2>3. \A n \in Keys!Names : x1[n] # None /\ x1[n].secret = x4'[t] => Keys!IsAt(t, n, "write")'
        BY <2>1 DEF Keys!KeysInv, Keys!DrawnIsFresh, Keys!IsAt
    <2>4. x7'[x4'[t]] = 0
        <3>1. x4[t] \in 1..MaxMade /\ x4[t] # x6[s] /\ x7[x4[t]] = 0
            BY <2>1, <1>0, Ranges DEF Keys!KeysInv, Keys!DrawnIsFresh
        <3> QED
            BY <2>1, <3>1, <1>t
    <2> QED
        BY <2>2, <2>3, <2>4
<1>5. Keys!TokensAreUntold'
    <2>1. \A t \in Services : x6'[t] # None => \A u \in Services \ {t} : x6'[u] # x6'[t]
        BY <1>n DEF Keys!KeysInv, Keys!TokensAreUntold
    <2>2. ASSUME NEW t \in Services, x6'[t] # None, x2'[t] # Keys!Up PROVE x7'[x6'[t]] = 0
        <3>1. CASE t = s
            BY <2>2, <3>1, <1>a, <1>n, <1>s, <1>g DEF Gains, Keys!KeysInv, Keys!TokensAreUntold, Keys!Names
        <3>2. CASE t # s
            <4>1. x6[t] # x6[s] /\ x2'[t] = x2[t] /\ x6[t] \in 1..MaxMade
                BY <2>2, <3>2, <1>0, <1>n, <1>g, Ranges DEF Gains, Keys!KeysInv, Keys!TokensAreUntold
            <4> QED
                BY <4>1, <2>2, <1>n, <1>t DEF Keys!KeysInv, Keys!TokensAreUntold
        <3> QED
            BY <3>1, <3>2
    <2>3. \A k \in 1..MaxMade : k > x5' => x7'[k] = 0
        <3>1. x6[s] # None => x6[s] <= x5
            BY <1>0, Ranges
        <3>2. x5' = x5 /\ x5 \in Nat
            BY <1>0, Ranges
        <3>3. ASSUME NEW k \in 1..MaxMade, k > x5 PROVE x7'[k] = 0
            <4>1. k # x6[s]
                BY <3>1, <3>2, <3>3, KeysSensible
            <4> QED
                BY <3>3, <4>1, <1>t DEF Keys!KeysInv, Keys!TokensAreUntold
        <3> QED
            BY <3>2, <3>3
    <2>4. x1["token"] # None /\ ~x1["token"].whole =>
            x7'[x1["token"].secret] = 0 /\ \A t \in Services : x6'[t] # x1["token"].secret
        <3> SUFFICES ASSUME x1["token"] # None, ~x1["token"].whole
                     PROVE  x7'[x1["token"].secret] = 0 /\ \A t \in Services : x6'[t] # x1["token"].secret
            OBVIOUS
        <3>1. x1["token"].secret \in 1..MaxMade /\ x7[x1["token"].secret] = 0
            BY <1>0, Ranges DEF Keys!KeysInv, Keys!TokensAreUntold, Keys!Names
        <3>2. \A t \in Services : x6[t] # x1["token"].secret
            BY DEF Keys!KeysInv, Keys!TokensAreUntold
        <3> QED
            BY <3>1, <3>2, <1>n, <1>t
    <2> QED
        BY <2>1, <2>2, <2>3, <2>4 DEF Keys!TokensAreUntold
<1>6. Keys!ServicesAgree'
    BY <1>g, <1>0, KeysSensible DEF Gains, Keys!KeysInv, Keys!KeysTyped, Keys!ServicesAgree
<1> QED
    BY <1>1, <1>2, <1>3, <1>4, <1>5, <1>6 DEF Keys!KeysInv

\* What becomes of the memory of a service that ends
Loses(s) ==
    /\ x2' \in [Services -> KeysPlaces] /\ x2'[s] = Keys!Down
    /\ x3' \in [Services -> [Keys!Names -> {None} \cup Keys!Drawn]] /\ x3'[s] = Keys!Nothing
    /\ x4' \in [Services -> {None} \cup Keys!Drawn] /\ x4'[s] = None
    /\ x6' \in [Services -> {None} \cup Keys!Drawn] /\ x6'[s] = None
    /\ \A t \in Services \ {s} : x2'[t] = x2[t] /\ x3'[t] = x3[t] /\ x4'[t] = x4[t] /\ x6'[t] = x6[t]
    /\ x8' = {o \in x8 : o[1] # s}

LEMMA LeavesLoses ==
    ASSUME Keys!KeysTyped, NEW s \in Services, Keys!Leaves(s)
    PROVE  Loses(s)
BY DEF Keys!KeysTyped, Keys!Leaves, Loses, KeysPlaces, Keys!Nothing, Keys!Names, Keys!Down

\* A service ends, in the middle of a file or not.
LEMMA EndStep ==
    ASSUME Keys!KeysInv, NEW s \in Services, Keys!Leaves(s), x5' = x5, x7' = x7,
           \/ x1' = x1
           \/ \E name \in Keys!Names :
                /\ Keys!IsAt(s, name, "write")
                /\ \E content \in {None} \cup [secret : {x4[s]}, whole : BOOLEAN] : x1' = [x1 EXCEPT ![name] = content]
    PROVE  Keys!KeysInv'
<1>0. Keys!KeysTyped
    BY DEF Keys!KeysInv
<1>g. Loses(s)
    BY <1>0, LeavesLoses
<1>w. ASSUME NEW name \in Keys!Names, Keys!IsAt(s, name, "write")
      PROVE  /\ x1[name] = [secret |-> x4[s], whole |-> FALSE] /\ x4[s] # None /\ x4[s] \in Keys!Drawn
             /\ \A t \in Services, n \in Keys!Names : t # s /\ Keys!IsAt(t, n, "write") => n # name
    <2>1. x1[name] = [secret |-> x4[s], whole |-> FALSE]
        BY <1>w DEF Keys!KeysInv, Keys!WritersOwn
    <2>2. x4[s] # None /\ x4[s] \in Keys!Drawn
        BY <1>w, <1>0, Ranges DEF Keys!KeysInv, Keys!HeldSoFar, Keys!IsAt
    <2>3. ASSUME NEW t \in Services, t # s, Keys!IsAt(t, name, "write") PROVE FALSE
        <3>1. x1[name] = [secret |-> x4[t], whole |-> FALSE]
            BY <2>3 DEF Keys!KeysInv, Keys!WritersOwn
        <3>2. x4[t] = x4[s]
            BY <2>1, <3>1
        <3> QED
            BY <2>2, <2>3, <3>2 DEF Keys!KeysInv, Keys!DrawnIsFresh
    <2> QED
        BY <2>1, <2>2, <2>3
\* What happens to a file
<1>f. \A n \in Keys!Names :
        \/ x1'[n] = x1[n]
        \/ Keys!IsAt(s, n, "write") /\ (x1'[n] = None \/ x1'[n] \in [secret : {x4[s]}, whole : BOOLEAN])
    BY <1>0 DEF Keys!KeysTyped
<1>1. Keys!KeysTyped'
    <2>1. x1' \in [Keys!Names -> {None} \cup [secret : Keys!Drawn, whole : BOOLEAN]]
        <3>1. CASE x1' = x1
            BY <3>1, <1>0 DEF Keys!KeysTyped
        <3>2. ASSUME NEW name \in Keys!Names, Keys!IsAt(s, name, "write"),
                     NEW content \in {None} \cup [secret : {x4[s]}, whole : BOOLEAN], x1' = [x1 EXCEPT ![name] = content]
              PROVE  x1' \in [Keys!Names -> {None} \cup [secret : Keys!Drawn, whole : BOOLEAN]]
            <4>1. content \in {None} \cup [secret : Keys!Drawn, whole : BOOLEAN]
                BY <3>2, <1>w
            <4> QED
                BY <3>2, <4>1, <1>0 DEF Keys!KeysTyped
        <3> QED
            BY <3>1, <3>2
    <2> QED
        <3>1. Keys!Drawn' = Keys!Drawn
            BY DEF Keys!Drawn
        <3> QED
            BY <2>1, <3>1, <1>0, <1>g DEF Loses, Keys!KeysTyped, KeysPlaces
<1>2. Keys!HeldSoFar'
    BY <1>g DEF Loses, Keys!KeysInv, Keys!HeldSoFar, Keys!Nothing, Keys!Down, Keys!Up, Keys!Doing
<1>3. Keys!WritersOwn'
    <2> SUFFICES ASSUME NEW t \in Services, NEW n \in Keys!Names, Keys!IsAt(t, n, "write")'
                 PROVE  x1'[n] = [secret |-> x4'[t], whole |-> FALSE]
        BY DEF Keys!WritersOwn
    <2>1. t # s /\ Keys!IsAt(t, n, "write") /\ x4'[t] = x4[t]
        BY <1>g DEF Loses, Keys!IsAt, Keys!Down, Keys!Doing
    <2>2. x1'[n] = x1[n]
        BY <2>1, <1>f, <1>w
    <2> QED
        BY <2>1, <2>2 DEF Keys!KeysInv, Keys!WritersOwn
<1>4. Keys!DrawnIsFresh'
    <2> SUFFICES ASSUME NEW t \in Services, x4'[t] # None
                 PROVE  /\ \A u \in Services : (u # t => x4'[u] # x4'[t]) /\ x6'[u] # x4'[t]
                        /\ \A n \in Keys!Names : x1'[n] # None /\ x1'[n].secret = x4'[t] => Keys!IsAt(t, n, "write")'
                        /\ x7'[x4'[t]] = 0
        BY DEF Keys!DrawnIsFresh
    <2>1. t # s /\ x4'[t] = x4[t] /\ x2'[t] = x2[t]
        BY <1>g DEF Loses
    <2>2. \A u \in Services : (u # t => x4'[u] # x4'[t]) /\ x6'[u] # x4'[t]
        BY <2>1, <1>g DEF Loses, Keys!KeysInv, Keys!DrawnIsFresh
    <2>3. ASSUME NEW n \in Keys!Names, x1'[n] # None, x1'[n].secret = x4'[t] PROVE Keys!IsAt(t, n, "write")'
        <3>1. x1'[n] = x1[n]
            <4>1. x4[s] # x4[t]
                BY <2>1 DEF Keys!KeysInv, Keys!DrawnIsFresh
            <4> QED
                BY <1>f, <2>1, <2>3, <4>1
        <3> QED
            BY <2>1, <2>3, <3>1 DEF Keys!KeysInv, Keys!DrawnIsFresh, Keys!IsAt
    <2>4. x7'[x4'[t]] = 0
        BY <2>1 DEF Keys!KeysInv, Keys!DrawnIsFresh
    <2> QED
        BY <2>2, <2>3, <2>4
<1>5. Keys!TokensAreUntold'
    <2>1. ASSUME NEW t \in Services, x6'[t] # None
          PROVE  (\A u \in Services \ {t} : x6'[u] # x6'[t]) /\ (x2'[t] # Keys!Up => x7'[x6'[t]] = 0)
        <3>1. \A u \in Services : x6'[u] # None => u # s /\ x6'[u] = x6[u] /\ x2'[u] = x2[u]
            BY <1>g DEF Loses
        <3> QED
            BY <2>1, <3>1 DEF Keys!KeysInv, Keys!TokensAreUntold
    <2>2. \A k \in 1..MaxMade : k > x5' => x7'[k] = 0
        BY DEF Keys!KeysInv, Keys!TokensAreUntold
    <2>3. ASSUME x1'["token"] # None, ~x1'["token"].whole
          PROVE  x7'[x1'["token"].secret] = 0 /\ \A t \in Services : x6'[t] # x1'["token"].secret
        <3>1. \A t \in Services : x6'[t] # None => x6'[t] = x6[t]
            BY <1>g DEF Loses
        <3>2. x1'["token"].secret \in Keys!Drawn
            BY <1>1, <2>3 DEF Keys!KeysTyped, Keys!Names, Keys!Drawn
        <3>3. CASE x1'["token"] = x1["token"]
            BY <2>3, <3>1, <3>2, <3>3, <1>0, Ranges DEF Keys!KeysInv, Keys!TokensAreUntold
        <3>4. CASE Keys!IsAt(s, "token", "write") /\ x1'["token"] \in [secret : {x4[s]}, whole : BOOLEAN]
            <4>1. x4[s] # None /\ x1'["token"].secret = x4[s]
                BY <3>4, <1>w DEF Keys!Names
            <4>2. x7[x4[s]] = 0 /\ \A t \in Services : x6[t] # x4[s]
                BY <4>1 DEF Keys!KeysInv, Keys!DrawnIsFresh
            <4> QED
                BY <4>1, <4>2, <3>1
        <3> QED
            BY <2>3, <3>3, <3>4, <1>f DEF Keys!Names
    <2> QED
        BY <2>1, <2>2, <2>3 DEF Keys!TokensAreUntold
<1>6. Keys!ServicesAgree'
    <2> SUFFICES ASSUME NEW t \in Services, NEW n \in Keys!Names, x3'[t][n] # None, <<t, n>> \notin x8'
                 PROVE  x1'[n] = [secret |-> x3'[t][n], whole |-> TRUE]
        BY DEF Keys!ServicesAgree
    <2>1. t # s
        BY <1>g DEF Loses, Keys!Nothing
    <2>2. x3'[t] = x3[t] /\ <<t, n>> \notin x8
        BY <2>1, <1>g DEF Loses
    <2>3. x1[n] = [secret |-> x3[t][n], whole |-> TRUE]
        BY <2>2 DEF Keys!KeysInv, Keys!ServicesAgree
    <2>4. ~Keys!IsAt(s, n, "write")
        BY <2>3, <1>w
    <2> QED
        BY <2>2, <2>3, <2>4, <1>f
<1> QED
    BY <1>1, <1>2, <1>3, <1>4, <1>5, <1>6 DEF Keys!KeysInv

\* A service finds that a file is not there, and draws its secret.
LEMMA DrawStep ==
    ASSUME Keys!KeysInv, NEW s \in Services, NEW name \in Keys!Names, Keys!IsAt(s, name, "read"),
           x5 < MaxMade, x5' = x5 + 1, x4' = [x4 EXCEPT ![s] = x5 + 1],
           x2' = [x2 EXCEPT ![s] = Keys!Doing(name, "create")], UNCHANGED <<x1, x3, x6, x7, x8>>
    PROVE  Keys!KeysInv'
<1>0. Keys!KeysTyped
    BY DEF Keys!KeysInv
<1>d. Keys!Drawn \subseteq Keys!Drawn' /\ x5 + 1 \in Keys!Drawn' /\ x5 + 1 \in Nat /\ x5 + 1 \notin Keys!Drawn /\ x5 + 1 # None
    BY <1>0, KeysSensible DEF Keys!KeysTyped, Keys!Drawn
<1>s. /\ x4'[s] = x5 + 1 /\ x2'[s] = Keys!Doing(name, "create") /\ Keys!Doing(name, "create") \in [name : Keys!Names, doing : {"read", "create", "write"}]
      /\ \A t \in Services \ {s} : x4'[t] = x4[t] /\ x2'[t] = x2[t]
    BY <1>0 DEF Keys!KeysTyped, Keys!Doing
<1>a. x2[s].name = name /\ x2[s].doing = "read" /\ x2[s] # Keys!Up /\ x2[s] # Keys!Down
    BY DEF Keys!IsAt, Keys!Names, Keys!Up, Keys!Down, Keys!Doing
<1>1. Keys!KeysTyped'
    <2>1. x5' \in 0..MaxMade
        BY <1>0, KeysSensible DEF Keys!KeysTyped
    <2>2. /\ x1' \in [Keys!Names -> {None} \cup [secret : Keys!Drawn', whole : BOOLEAN]]
          /\ x6' \in [Services -> {None} \cup Keys!Drawn']
          /\ x7' \in [1..MaxMade -> {0, 1}]
        BY <1>0, <1>d DEF Keys!KeysTyped
    <2>3. x2' \in [Services -> {Keys!Down, Keys!Up} \cup [name : Keys!Names, doing : {"read", "create", "write"}]]
        BY <1>0, <1>s DEF Keys!KeysTyped
    <2>4. x3' \in [Services -> [Keys!Names -> {None} \cup Keys!Drawn']]
        <3>1. ASSUME NEW t \in Services PROVE x3[t] \in [Keys!Names -> {None} \cup Keys!Drawn']
            <4>1. x3[t] \in [Keys!Names -> {None} \cup Keys!Drawn]
                BY <1>0 DEF Keys!KeysTyped
            <4> QED
                BY <4>1, <1>d
        <3> QED
            BY <3>1, <1>0 DEF Keys!KeysTyped
    <2>5. x4' \in [Services -> {None} \cup Keys!Drawn']
        BY <1>0, <1>d DEF Keys!KeysTyped
    <2> QED
        BY <2>1, <2>2, <2>3, <2>4, <2>5 DEF Keys!KeysTyped
<1>2. Keys!HeldSoFar'
    <2> SUFFICES ASSUME NEW t \in Services
                 PROVE  (/\ x2[t] = Keys!Down => x3[t] = Keys!Nothing
                         /\ x2[t] = Keys!Up \/ x2[t].name \in {"token", "secret"} => x3[t]["session"] # None
                         /\ x2[t] = Keys!Up \/ x2[t].name = "secret" => x3[t]["token"] # None
                         /\ x2[t] = Keys!Up => x3[t]["secret"] # None
                         /\ x2[t] = Keys!Down \/ x2[t].name \in {"session", "token"} => x6[t] = None
                         /\ x4[t] # None <=> x2[t].doing \in {"create", "write"})'
        BY DEF Keys!HeldSoFar
    <2>1. CASE t # s
        BY <2>1, <1>s DEF Keys!KeysInv, Keys!HeldSoFar, Keys!Nothing, Keys!Down, Keys!Up, Keys!Doing
    <2>2. CASE t = s
        BY <2>2, <1>s, <1>a, <1>d DEF Keys!KeysInv, Keys!HeldSoFar, Keys!Nothing, Keys!Down, Keys!Up, Keys!Doing, Keys!Names
    <2> QED
        BY <2>1, <2>2
<1>3. Keys!WritersOwn'
    BY <1>s DEF Keys!KeysInv, Keys!WritersOwn, Keys!IsAt, Keys!Doing
<1>n. x5 + 1 \in 1..MaxMade /\ x7[x5 + 1] = 0
    BY <1>0, KeysSensible DEF Keys!KeysInv, Keys!KeysTyped, Keys!TokensAreUntold
<1>4. Keys!DrawnIsFresh'
    <2> SUFFICES ASSUME NEW t \in Services, x4'[t] # None
                 PROVE  /\ \A u \in Services : (u # t => x4'[u] # x4'[t]) /\ x6'[u] # x4'[t]
                        /\ \A n \in Keys!Names : x1'[n] # None /\ x1'[n].secret = x4'[t] => Keys!IsAt(t, n, "write")'
                        /\ x7'[x4'[t]] = 0
        BY DEF Keys!DrawnIsFresh
    <2>1. CASE t = s
        <3>1. \A u \in Services : (u # t => x4'[u] # x4'[t]) /\ x6'[u] # x4'[t]
            BY <2>1, <1>0, <1>s, <1>d, Ranges
        <3>2. \A n \in Keys!Names : x1[n] # None => x1[n].secret # x4'[t]
            BY <2>1, <1>0, <1>s, <1>d, Ranges
        <3> QED
            BY <2>1, <3>1, <3>2, <1>s, <1>n
    <2>2. CASE t # s
        <3>1. x4'[t] = x4[t] /\ x2'[t] = x2[t] /\ x4[t] \in Keys!Drawn
            BY <2>2, <1>0, <1>s, Ranges
        <3>2. \A u \in Services : (u # t => x4'[u] # x4'[t]) /\ x6'[u] # x4'[t]
            BY <3>1, <1>s, <1>d DEF Keys!KeysInv, Keys!DrawnIsFresh
        <3> QED
            BY <3>1, <3>2 DEF Keys!KeysInv, Keys!DrawnIsFresh, Keys!IsAt
    <2> QED
        BY <2>1, <2>2
<1>5. Keys!TokensAreUntold'
    <2>1. ASSUME NEW t \in Services, x6[t] # None, x2'[t] # Keys!Up PROVE x7[x6[t]] = 0
        BY <2>1, <1>s, <1>a DEF Keys!KeysInv, Keys!TokensAreUntold
    <2>2. \A k \in 1..MaxMade : k > x5' => x7'[k] = 0
        BY <1>0, KeysSensible DEF Keys!KeysInv, Keys!TokensAreUntold, Keys!KeysTyped
    <2> QED
        BY <2>1, <2>2 DEF Keys!KeysInv, Keys!TokensAreUntold
<1>6. Keys!ServicesAgree'
    BY DEF Keys!KeysInv, Keys!ServicesAgree
<1> QED
    BY <1>1, <1>2, <1>3, <1>4, <1>5, <1>6 DEF Keys!KeysInv

\* A service goes on to write a file that it has made, or back to read one that
\* another has made.
LEMMA CreateStep ==
    ASSUME Keys!KeysInv, NEW s \in Services, NEW name \in Keys!Names, Keys!IsAt(s, name, "create"),
           x1[name] = None, x1' = [x1 EXCEPT ![name] = [secret |-> x4[s], whole |-> FALSE]],
           x2' = [x2 EXCEPT ![s] = Keys!Doing(name, "write")], UNCHANGED <<x3, x4, x5, x6, x7, x8>>
    PROVE  Keys!KeysInv'
<1>0. Keys!KeysTyped
    BY DEF Keys!KeysInv
<1>s. /\ x2'[s] = Keys!Doing(name, "write") /\ Keys!Doing(name, "write") \in [name : Keys!Names, doing : {"read", "create", "write"}]
      /\ \A t \in Services \ {s} : x2'[t] = x2[t]
      /\ x1'[name] = [secret |-> x4[s], whole |-> FALSE] /\ \A n \in Keys!Names \ {name} : x1'[n] = x1[n]
    BY <1>0 DEF Keys!KeysTyped, Keys!Doing
<1>a. x2[s].name = name /\ x2[s].doing = "create" /\ x2[s] # Keys!Up /\ x2[s] # Keys!Down
    BY DEF Keys!IsAt, Keys!Names, Keys!Up, Keys!Down, Keys!Doing
<1>d. x4[s] # None /\ x4[s] \in Keys!Drawn
    BY <1>0, <1>a, Ranges DEF Keys!KeysInv, Keys!HeldSoFar
<1>n. x1'[name] # None
    BY <1>0, <1>s, <1>d, Ranges, ContentIsSomething
<1>1. Keys!KeysTyped'
    <2>1. x1' \in [Keys!Names -> {None} \cup [secret : Keys!Drawn, whole : BOOLEAN]]
        BY <1>0, <1>d DEF Keys!KeysTyped
    <2>2. x2' \in [Services -> {Keys!Down, Keys!Up} \cup [name : Keys!Names, doing : {"read", "create", "write"}]]
        BY <1>0, <1>s DEF Keys!KeysTyped
    <2>3. Keys!Drawn' = Keys!Drawn
        BY DEF Keys!Drawn
    <2> QED
        BY <1>0, <2>1, <2>2, <2>3 DEF Keys!KeysTyped
<1>2. Keys!HeldSoFar'
    <2> SUFFICES ASSUME NEW t \in Services
                 PROVE  (/\ x2[t] = Keys!Down => x3[t] = Keys!Nothing
                         /\ x2[t] = Keys!Up \/ x2[t].name \in {"token", "secret"} => x3[t]["session"] # None
                         /\ x2[t] = Keys!Up \/ x2[t].name = "secret" => x3[t]["token"] # None
                         /\ x2[t] = Keys!Up => x3[t]["secret"] # None
                         /\ x2[t] = Keys!Down \/ x2[t].name \in {"session", "token"} => x6[t] = None
                         /\ x4[t] # None <=> x2[t].doing \in {"create", "write"})'
        BY DEF Keys!HeldSoFar
    <2>1. CASE t # s
        BY <2>1, <1>s DEF Keys!KeysInv, Keys!HeldSoFar, Keys!Nothing, Keys!Down, Keys!Up, Keys!Doing
    <2>2. CASE t = s
        BY <2>2, <1>s, <1>a, <1>d DEF Keys!KeysInv, Keys!HeldSoFar, Keys!Nothing, Keys!Down, Keys!Up, Keys!Doing, Keys!Names
    <2> QED
        BY <2>1, <2>2
<1>3. Keys!WritersOwn'
    <2> SUFFICES ASSUME NEW t \in Services, NEW n \in Keys!Names, Keys!IsAt(t, n, "write")'
                 PROVE  x1'[n] = [secret |-> x4[t], whole |-> FALSE]
        BY DEF Keys!WritersOwn
    <2>1. CASE t = s
        BY <2>1, <1>s DEF Keys!IsAt, Keys!Doing
    <2>2. CASE t # s
        <3>1. x1[n] = [secret |-> x4[t], whole |-> FALSE] /\ x4[t] # None
            BY <2>2, <1>s DEF Keys!KeysInv, Keys!WritersOwn, Keys!HeldSoFar, Keys!IsAt
        <3>2. n # name
            BY <3>1, <1>0, Ranges, ContentIsSomething
        <3> QED
            BY <3>1, <3>2, <1>s
    <2> QED
        BY <2>1, <2>2
<1>4. Keys!DrawnIsFresh'
    <2> SUFFICES ASSUME NEW t \in Services, x4[t] # None, NEW n \in Keys!Names, x1'[n] # None, x1'[n].secret = x4[t]
                 PROVE  Keys!IsAt(t, n, "write")'
        BY DEF Keys!KeysInv, Keys!DrawnIsFresh
    <2>1. CASE n = name
        <3>1. t = s
            BY <2>1, <1>s, <1>d DEF Keys!KeysInv, Keys!DrawnIsFresh
        <3> QED
            BY <2>1, <3>1, <1>s DEF Keys!IsAt, Keys!Doing
    <2>2. CASE n # name
        <3>1. Keys!IsAt(t, n, "write")
            BY <2>2, <1>s DEF Keys!KeysInv, Keys!DrawnIsFresh
        <3> QED
            BY <3>1, <1>a, <1>s DEF Keys!IsAt
    <2> QED
        BY <2>1, <2>2
<1>5. Keys!TokensAreUntold'
    <2>1. ASSUME NEW t \in Services, x6[t] # None, x2'[t] # Keys!Up PROVE x7[x6[t]] = 0
        BY <2>1, <1>s, <1>a DEF Keys!KeysInv, Keys!TokensAreUntold
    <2>2. ASSUME x1'["token"] # None, ~x1'["token"].whole
          PROVE  x7[x1'["token"].secret] = 0 /\ \A t \in Services : x6[t] # x1'["token"].secret
        BY <2>2, <1>s, <1>d DEF Keys!KeysInv, Keys!TokensAreUntold, Keys!DrawnIsFresh, Keys!Names
    <2> QED
        BY <2>1, <2>2 DEF Keys!KeysInv, Keys!TokensAreUntold
<1>6. Keys!ServicesAgree'
    <2> SUFFICES ASSUME NEW t \in Services, NEW n \in Keys!Names, x3[t][n] # None, <<t, n>> \notin x8
                 PROVE  x1'[n] = [secret |-> x3[t][n], whole |-> TRUE]
        BY DEF Keys!ServicesAgree
    <2>1. x1[n] = [secret |-> x3[t][n], whole |-> TRUE] /\ x3[t][n] \in Keys!Drawn
        <3>1. x3[t][n] \in {None} \cup Keys!Drawn
            BY <1>0 DEF Keys!KeysTyped
        <3> QED
            BY <3>1 DEF Keys!KeysInv, Keys!ServicesAgree
    <2>2. n # name
        BY <2>1, <1>0, Ranges, ContentIsSomething
    <2> QED
        BY <2>1, <2>2, <1>s
<1> QED
    BY <1>1, <1>2, <1>3, <1>4, <1>5, <1>6 DEF Keys!KeysInv

\* A service finds that a file has been made meanwhile, and reads it again.
LEMMA AgainStep ==
    ASSUME Keys!KeysInv, NEW s \in Services, NEW name \in Keys!Names, Keys!IsAt(s, name, "create"),
           x4' = [x4 EXCEPT ![s] = None], x2' = [x2 EXCEPT ![s] = Keys!Doing(name, "read")],
           UNCHANGED <<x1, x3, x5, x6, x7, x8>>
    PROVE  Keys!KeysInv'
<1>0. Keys!KeysTyped
    BY DEF Keys!KeysInv
<1>s. /\ x2'[s] = Keys!Doing(name, "read") /\ x4'[s] = None
      /\ Keys!Doing(name, "read") \in [name : Keys!Names, doing : {"read", "create", "write"}]
      /\ \A t \in Services \ {s} : x2'[t] = x2[t] /\ x4'[t] = x4[t]
    BY <1>0 DEF Keys!KeysTyped, Keys!Doing
<1>a. x2[s].name = name /\ x2[s].doing = "create" /\ x2[s] # Keys!Up /\ x2[s] # Keys!Down
    BY DEF Keys!IsAt, Keys!Names, Keys!Up, Keys!Down, Keys!Doing
<1>1. Keys!KeysTyped'
    <2>1. x4' \in [Services -> {None} \cup Keys!Drawn]
        BY <1>0 DEF Keys!KeysTyped
    <2>2. x2' \in [Services -> {Keys!Down, Keys!Up} \cup [name : Keys!Names, doing : {"read", "create", "write"}]]
        BY <1>0, <1>s DEF Keys!KeysTyped
    <2>3. Keys!Drawn' = Keys!Drawn
        BY DEF Keys!Drawn
    <2> QED
        BY <1>0, <2>1, <2>2, <2>3 DEF Keys!KeysTyped
<1>2. Keys!HeldSoFar'
    <2> SUFFICES ASSUME NEW t \in Services
                 PROVE  (/\ x2[t] = Keys!Down => x3[t] = Keys!Nothing
                         /\ x2[t] = Keys!Up \/ x2[t].name \in {"token", "secret"} => x3[t]["session"] # None
                         /\ x2[t] = Keys!Up \/ x2[t].name = "secret" => x3[t]["token"] # None
                         /\ x2[t] = Keys!Up => x3[t]["secret"] # None
                         /\ x2[t] = Keys!Down \/ x2[t].name \in {"session", "token"} => x6[t] = None
                         /\ x4[t] # None <=> x2[t].doing \in {"create", "write"})'
        BY DEF Keys!HeldSoFar
    <2>1. CASE t # s
        BY <2>1, <1>s DEF Keys!KeysInv, Keys!HeldSoFar, Keys!Nothing, Keys!Down, Keys!Up, Keys!Doing
    <2>2. CASE t = s
        BY <2>2, <1>s, <1>a DEF Keys!KeysInv, Keys!HeldSoFar, Keys!Nothing, Keys!Down, Keys!Up, Keys!Doing, Keys!Names
    <2> QED
        BY <2>1, <2>2
<1>3. Keys!WritersOwn'
    BY <1>s DEF Keys!KeysInv, Keys!WritersOwn, Keys!IsAt, Keys!Doing
<1>4. Keys!DrawnIsFresh'
    BY <1>s DEF Keys!KeysInv, Keys!DrawnIsFresh, Keys!IsAt
<1>5. Keys!TokensAreUntold'
    <2>1. ASSUME NEW t \in Services, x6[t] # None, x2'[t] # Keys!Up PROVE x7[x6[t]] = 0
        BY <2>1, <1>s, <1>a DEF Keys!KeysInv, Keys!TokensAreUntold
    <2> QED
        BY <2>1 DEF Keys!KeysInv, Keys!TokensAreUntold
<1>6. Keys!ServicesAgree'
    BY DEF Keys!KeysInv, Keys!ServicesAgree
<1> QED
    BY <1>1, <1>2, <1>3, <1>4, <1>5, <1>6 DEF Keys!KeysInv

\* A service has written the file that it made.
LEMMA WrittenStep ==
    ASSUME Keys!KeysInv, NEW s \in Services, NEW name \in Keys!Names, Keys!IsAt(s, name, "write"),
           x1' = [x1 EXCEPT ![name] = [secret |-> x4[s], whole |-> TRUE]],
           Keys!Has(s, name, x4[s], TRUE), x5' = x5
    PROVE  Keys!KeysInv'
<1>0. Keys!KeysTyped
    BY DEF Keys!KeysInv
<1>a. x2[s].name = name /\ x2[s].doing = "write" /\ x2[s] # Keys!Up /\ x2[s] # Keys!Down
    BY DEF Keys!IsAt, Keys!Names, Keys!Up, Keys!Down, Keys!Doing
<1>d. x4[s] # None /\ x4[s] \in Keys!Drawn /\ x4[s] \in 1..MaxMade /\ x7[x4[s]] = 0
    BY <1>0, <1>a, Ranges DEF Keys!KeysInv, Keys!HeldSoFar, Keys!DrawnIsFresh
<1>g. Gains(s, name, x4[s], TRUE)
    BY <1>0, <1>d, HasGains
<1>f. /\ x1[name] = [secret |-> x4[s], whole |-> FALSE] /\ x1'[name] = [secret |-> x4[s], whole |-> TRUE]
      /\ \A n \in Keys!Names \ {name} : x1'[n] = x1[n]
    BY <1>0 DEF Keys!KeysInv, Keys!WritersOwn, Keys!KeysTyped
<1>n. /\ \A t \in Services \ {s} : x6'[t] = x6[t] /\ x6[t] # x4[s] /\ x4[t] # x4[s]
      /\ name # "token" => x6'[s] = x6[s] /\ x6[s] # x4[s]
      /\ name = "token" => x6'[s] = x4[s]
    BY <1>d, <1>g DEF Gains, Keys!KeysInv, Keys!DrawnIsFresh
<1>t. /\ x7' \in [1..MaxMade -> {0, 1}]
      /\ \A k \in 1..MaxMade : k # x6[s] => x7'[k] = x7[k]
    BY <1>0, <1>a, <1>d, <1>g, GainsTold
<1>1. Keys!KeysTyped'
    <2>1. x7' \in [1..MaxMade -> {0, 1}]
        BY <1>t
    <2>2. x1' \in [Keys!Names -> {None} \cup [secret : Keys!Drawn, whole : BOOLEAN]]
        BY <1>0, <1>d DEF Keys!KeysTyped
    <2>3. Keys!Drawn' = Keys!Drawn
        BY DEF Keys!Drawn
    <2> QED
        BY <1>0, <1>g, <2>1, <2>2, <2>3 DEF Gains, Keys!KeysTyped, KeysPlaces
<1>2. Keys!HeldSoFar'
    <2> SUFFICES ASSUME NEW t \in Services
                 PROVE  (/\ x2[t] = Keys!Down => x3[t] = Keys!Nothing
                         /\ x2[t] = Keys!Up \/ x2[t].name \in {"token", "secret"} => x3[t]["session"] # None
                         /\ x2[t] = Keys!Up \/ x2[t].name = "secret" => x3[t]["token"] # None
                         /\ x2[t] = Keys!Up => x3[t]["secret"] # None
                         /\ x2[t] = Keys!Down \/ x2[t].name \in {"session", "token"} => x6[t] = None
                         /\ x4[t] # None <=> x2[t].doing \in {"create", "write"})'
        BY DEF Keys!HeldSoFar
    <2>1. CASE t # s
        <3>1. x2'[t] = x2[t] /\ x3'[t] = x3[t] /\ x4'[t] = x4[t] /\ x6'[t] = x6[t]
            BY <2>1, <1>g DEF Gains
        <3> QED
            BY <3>1 DEF Keys!KeysInv, Keys!HeldSoFar, Keys!Nothing, Keys!Down, Keys!Up, Keys!Doing
    <2>2. CASE t = s
        <3>1. x3'[s][name] # None
            BY <1>d, <1>g DEF Gains
        <3>2. name \in {"token", "secret"} => x3'[s]["session"] # None
            BY <1>a, <1>g DEF Gains, Keys!KeysInv, Keys!HeldSoFar, Keys!Names
        <3>3. name = "secret" => x3'[s]["token"] # None
            BY <1>a, <1>g DEF Gains, Keys!KeysInv, Keys!HeldSoFar, Keys!Names
        <3>4. name = "session" => x6'[s] = None
            BY <1>a, <1>n DEF Keys!KeysInv, Keys!HeldSoFar
        <3> QED
            BY <2>2, <3>1, <3>2, <3>3, <3>4, <1>g DEF Gains, Keys!Names, Keys!Down, Keys!Up, Keys!Doing
    <2> QED
        BY <2>1, <2>2
<1>3. Keys!WritersOwn'
    <2> SUFFICES ASSUME NEW t \in Services, NEW n \in Keys!Names, Keys!IsAt(t, n, "write")'
                 PROVE  x1'[n] = [secret |-> x4'[t], whole |-> FALSE]
        BY DEF Keys!WritersOwn
    <2>1. t # s /\ Keys!IsAt(t, n, "write") /\ x4'[t] = x4[t]
        BY <1>g DEF Gains, Keys!IsAt, Keys!Names, Keys!Up, Keys!Doing
    <2>2. x1[n] = [secret |-> x4[t], whole |-> FALSE]
        BY <2>1 DEF Keys!KeysInv, Keys!WritersOwn
    <2>3. n # name
        BY <2>1, <2>2, <1>f, <1>n
    <2> QED
        BY <2>1, <2>2, <2>3, <1>f
<1>4. Keys!DrawnIsFresh'
    <2> SUFFICES ASSUME NEW t \in Services, x4'[t] # None
                 PROVE  /\ \A u \in Services : (u # t => x4'[u] # x4'[t]) /\ x6'[u] # x4'[t]
                        /\ \A n \in Keys!Names : x1'[n] # None /\ x1'[n].secret = x4'[t] => Keys!IsAt(t, n, "write")'
                        /\ x7'[x4'[t]] = 0
        BY DEF Keys!DrawnIsFresh
    <2>1. t # s /\ x4'[t] = x4[t] /\ x2'[t] = x2[t]
        BY <1>g DEF Gains
    <2>2. \A u \in Services : (u # t => x4'[u] # x4'[t]) /\ x6'[u] # x4'[t]
        <3>1. \A u \in Services : u # t => x4'[u] # x4'[t]
            BY <2>1, <1>g DEF Gains, Keys!KeysInv, Keys!DrawnIsFresh
        <3>2. \A u \in Services : x6[u] # x4[t]
            BY <2>1 DEF Keys!KeysInv, Keys!DrawnIsFresh
        <3> QED
            BY <2>1, <3>1, <3>2, <1>n
    <2>3. ASSUME NEW n \in Keys!Names, x1'[n] # None, x1'[n].secret = x4'[t] PROVE Keys!IsAt(t, n, "write")'
        <3>1. n # name /\ x1'[n] = x1[n]
            BY <2>1, <2>3, <1>f, <1>n
        <3> QED
            BY <2>1, <2>3, <3>1 DEF Keys!KeysInv, Keys!DrawnIsFresh, Keys!IsAt
    <2>4. x7'[x4'[t]] = 0
        <3>1. x4[t] \in 1..MaxMade /\ x4[t] # x6[s] /\ x7[x4[t]] = 0
            BY <2>1, <1>0, Ranges DEF Keys!KeysInv, Keys!DrawnIsFresh
        <3> QED
            BY <2>1, <3>1, <1>t
    <2> QED
        BY <2>2, <2>3, <2>4
<1>5. Keys!TokensAreUntold'
    <2>1. \A t \in Services : x6'[t] # None => \A u \in Services \ {t} : x6'[u] # x6'[t]
        BY <1>n DEF Keys!KeysInv, Keys!TokensAreUntold
    <2>2. ASSUME NEW t \in Services, x6'[t] # None, x2'[t] # Keys!Up PROVE x7'[x6'[t]] = 0
        <3>1. CASE t = s
            <4>1. name # "secret"
                BY <2>2, <3>1, <1>g DEF Gains
            <4>2. x7' = x7
                BY <4>1, <1>g DEF Gains
            <4>3. name = "token"
                BY <2>2, <3>1, <4>1, <1>a, <1>n DEF Keys!KeysInv, Keys!HeldSoFar, Keys!Names
            <4> QED
                BY <3>1, <4>2, <4>3, <1>d, <1>n
        <3>2. CASE t # s
            <4>1. x6[t] # x6[s] /\ x2'[t] = x2[t] /\ x6'[t] = x6[t] /\ x6[t] \in 1..MaxMade
                BY <2>2, <3>2, <1>0, <1>n, <1>g, Ranges DEF Gains, Keys!KeysInv, Keys!TokensAreUntold
            <4> QED
                BY <4>1, <2>2, <1>t DEF Keys!KeysInv, Keys!TokensAreUntold
        <3> QED
            BY <3>1, <3>2
    <2>3. \A k \in 1..MaxMade : k > x5' => x7'[k] = 0
        <3>1. x6[s] # None => x6[s] <= x5
            BY <1>0, Ranges
        <3>2. x5' = x5 /\ x5 \in Nat
            BY <1>0, Ranges
        <3>3. ASSUME NEW k \in 1..MaxMade, k > x5 PROVE x7'[k] = 0
            <4>1. k # x6[s]
                BY <3>1, <3>2, <3>3, KeysSensible
            <4> QED
                BY <3>3, <4>1, <1>t DEF Keys!KeysInv, Keys!TokensAreUntold
        <3> QED
            BY <3>2, <3>3
    <2>4. ASSUME x1'["token"] # None, ~x1'["token"].whole
          PROVE  x7'[x1'["token"].secret] = 0 /\ \A t \in Services : x6'[t] # x1'["token"].secret
        <3>1. name # "token"
            BY <2>4, <1>f
        <3>2. x1'["token"] = x1["token"]
            BY <3>1, <1>f DEF Keys!Names
        <3>3. x1["token"].secret \in 1..MaxMade /\ x7[x1["token"].secret] = 0
            BY <2>4, <3>2, <1>0, Ranges DEF Keys!KeysInv, Keys!TokensAreUntold, Keys!Names
        <3>4. \A t \in Services : x6[t] # x1["token"].secret
            BY <2>4, <3>2 DEF Keys!KeysInv, Keys!TokensAreUntold
        <3> QED
            BY <3>1, <3>2, <3>3, <3>4, <1>n, <1>t
    <2> QED
        BY <2>1, <2>2, <2>3, <2>4 DEF Keys!TokensAreUntold
<1>6. Keys!ServicesAgree'
    <2> SUFFICES ASSUME NEW t \in Services, NEW n \in Keys!Names, x3'[t][n] # None, <<t, n>> \notin x8'
                 PROVE  x1'[n] = [secret |-> x3'[t][n], whole |-> TRUE]
        BY DEF Keys!ServicesAgree
    <2>1. CASE t = s /\ n = name
        BY <2>1, <1>f, <1>g DEF Gains
    <2>2. CASE t # s \/ n # name
        <3>1. x3'[t][n] = x3[t][n] /\ <<t, n>> \notin x8
            BY <2>2, <1>g DEF Gains
        <3>2. x1[n] = [secret |-> x3[t][n], whole |-> TRUE]
            BY <3>1 DEF Keys!KeysInv, Keys!ServicesAgree
        <3>3. n # name
            BY <3>2, <1>f
        <3> QED
            BY <3>1, <3>2, <3>3, <1>f
    <2> QED
        BY <2>1, <2>2
<1> QED
    BY <1>1, <1>2, <1>3, <1>4, <1>5, <1>6 DEF Keys!KeysInv

LEMMA StartStep ==
    ASSUME Keys!KeysInv, NEW s \in Services, Keys!Start(s)
    PROVE  Keys!KeysInv'
<1> USE DEF Keys!KeysInv, Keys!Names, Keys!Doing, Keys!IsAt, Keys!Down, Keys!Up, Keys!Nothing, Keys!Drawn, Keys!Start
<1>1. Keys!KeysTyped'
    BY DEF Keys!KeysTyped
<1>2. Keys!HeldSoFar'
    BY DEF Keys!KeysTyped, Keys!HeldSoFar
<1>3. Keys!WritersOwn'
    BY DEF Keys!KeysTyped, Keys!WritersOwn
<1>4. Keys!DrawnIsFresh'
    BY DEF Keys!KeysTyped, Keys!DrawnIsFresh, Keys!HeldSoFar
<1>5. Keys!TokensAreUntold'
    BY DEF Keys!KeysTyped, Keys!TokensAreUntold, Keys!HeldSoFar
<1>6. Keys!ServicesAgree'
    BY DEF Keys!KeysTyped, Keys!ServicesAgree
<1> QED
    BY <1>1, <1>2, <1>3, <1>4, <1>5, <1>6

LEMMA RemoveStep ==
    ASSUME Keys!KeysInv, NEW name \in Keys!Names, Keys!RemoveFile(name)
    PROVE  Keys!KeysInv'
<1>0. Keys!KeysTyped
    BY DEF Keys!KeysInv
<1>a. \A s \in Services : x4[s] = None /\ x2[s] \in {Keys!Down, Keys!Up} /\ \A n : ~Keys!IsAt(s, n, "write")
    BY DEF Keys!RemoveFile, Keys!Starting, Keys!KeysInv, Keys!HeldSoFar, Keys!IsAt, Keys!Down, Keys!Up, Keys!Doing
<1>f. /\ x1'[name] = None /\ \A n \in Keys!Names \ {name} : x1'[n] = x1[n]
      /\ UNCHANGED <<x2, x3, x4, x5, x6, x7>>
    BY <1>0 DEF Keys!RemoveFile, Keys!KeysTyped
<1>1. Keys!KeysTyped'
    <2>1. x1' \in [Keys!Names -> {None} \cup [secret : Keys!Drawn, whole : BOOLEAN]]
        BY <1>0 DEF Keys!RemoveFile, Keys!KeysTyped
    <2>2. Keys!Drawn' = Keys!Drawn
        BY <1>f DEF Keys!Drawn
    <2> QED
        BY <1>0, <1>f, <2>1, <2>2 DEF Keys!KeysTyped
<1>2. Keys!HeldSoFar'
    BY <1>f DEF Keys!KeysInv, Keys!HeldSoFar, Keys!Nothing
<1>3. Keys!WritersOwn'
    BY <1>a, <1>f DEF Keys!WritersOwn, Keys!IsAt
<1>4. Keys!DrawnIsFresh'
    BY <1>a, <1>f DEF Keys!DrawnIsFresh
<1>5. Keys!TokensAreUntold'
    BY <1>f DEF Keys!KeysInv, Keys!TokensAreUntold, Keys!Names
<1>6. Keys!ServicesAgree'
    <2> SUFFICES ASSUME NEW t \in Services, NEW n \in Keys!Names, x3[t][n] # None, <<t, n>> \notin x8'
                 PROVE  x1'[n] = [secret |-> x3[t][n], whole |-> TRUE]
        BY <1>f DEF Keys!ServicesAgree
    <2>1. x2[t] # Keys!Down
        BY DEF Keys!KeysInv, Keys!HeldSoFar, Keys!Nothing
    <2>2. x2[t] = Keys!Up
        BY <2>1, <1>a
    <2>3. n # name /\ <<t, n>> \notin x8
        BY <2>2 DEF Keys!RemoveFile
    <2> QED
        BY <2>3, <1>f DEF Keys!KeysInv, Keys!ServicesAgree
<1> QED
    BY <1>1, <1>2, <1>3, <1>4, <1>5, <1>6 DEF Keys!KeysInv

LEMMA KeysInitInv == Keys!Init => Keys!KeysInv
<1> SUFFICES ASSUME Keys!Init PROVE Keys!KeysInv
    OBVIOUS
<1> USE KeysSensible DEF Keys!Init, Keys!Names, Keys!Doing, Keys!IsAt, Keys!Down, Keys!Up, Keys!Nothing, Keys!Drawn
<1>1. Keys!KeysTyped
    BY DEF Keys!KeysTyped
<1>2. Keys!HeldSoFar
    BY DEF Keys!HeldSoFar
<1>3. Keys!WritersOwn
    BY DEF Keys!WritersOwn
<1>4. Keys!DrawnIsFresh
    BY DEF Keys!DrawnIsFresh
<1>5. Keys!TokensAreUntold
    BY DEF Keys!TokensAreUntold
<1>6. Keys!ServicesAgree
    BY DEF Keys!ServicesAgree
<1> QED
    BY <1>1, <1>2, <1>3, <1>4, <1>5, <1>6 DEF Keys!KeysInv

\* Every step of a service and of the operator keeps the invariant.
LEMMA KeysStep == Keys!KeysInv /\ Keys!Next => Keys!KeysInv'
<1> SUFFICES ASSUME Keys!KeysInv, Keys!Next PROVE Keys!KeysInv'
    OBVIOUS
<1>1. ASSUME NEW s \in Services, Keys!Start(s) PROVE Keys!KeysInv'
    BY <1>1, StartStep
<1>2. ASSUME NEW s \in Services, Keys!Stop(s) PROVE Keys!KeysInv'
    BY <1>2, EndStep DEF Keys!Stop
<1>3. ASSUME NEW s \in Services, NEW name \in Keys!Names, Keys!ReadFile(s, name) PROVE Keys!KeysInv'
    <2>0. Keys!IsAt(s, name, "read") /\ x1' = x1
        BY <1>3 DEF Keys!ReadFile
    <2>1. CASE x1[name] # None /\ x1[name].whole /\ Keys!Has(s, name, x1[name].secret, FALSE) /\ x5' = x5
        BY <2>0, <2>1, FoundStep
    <2>2. CASE Keys!Leaves(s) /\ x5' = x5 /\ x7' = x7
        BY <2>0, <2>2, EndStep
    <2>3. CASE /\ x5 < MaxMade /\ x5' = x5 + 1 /\ x4' = [x4 EXCEPT ![s] = x5 + 1]
               /\ x2' = [x2 EXCEPT ![s] = Keys!Doing(name, "create")] /\ UNCHANGED <<x3, x6, x7, x8>>
        BY <2>0, <2>3, DrawStep
    <2> QED
        BY <1>3, <2>1, <2>2, <2>3 DEF Keys!ReadFile, Keys!IsWhole
<1>4. ASSUME NEW s \in Services, NEW name \in Keys!Names, Keys!CreateFile(s, name) PROVE Keys!KeysInv'
    <2>0. Keys!IsAt(s, name, "create") /\ x5' = x5 /\ x7' = x7
        BY <1>4 DEF Keys!CreateFile
    <2>1. CASE /\ x1[name] = None /\ x1' = [x1 EXCEPT ![name] = [secret |-> x4[s], whole |-> FALSE]]
               /\ x2' = [x2 EXCEPT ![s] = Keys!Doing(name, "write")] /\ UNCHANGED <<x3, x4, x6, x8>>
        BY <2>0, <2>1, CreateStep
    <2>2. CASE /\ x2' = [x2 EXCEPT ![s] = Keys!Doing(name, "read")]
               /\ x4' = [x4 EXCEPT ![s] = None] /\ UNCHANGED <<x1, x3, x6, x8>>
        BY <2>0, <2>2, AgainStep
    <2>3. CASE Keys!Leaves(s) /\ x1' = x1
        BY <2>0, <2>3, EndStep
    <2> QED
        BY <1>4, <2>1, <2>2, <2>3 DEF Keys!CreateFile, Keys!MayCreate
<1>5. ASSUME NEW s \in Services, NEW name \in Keys!Names, Keys!WriteFile(s, name) PROVE Keys!KeysInv'
    BY <1>5, WrittenStep DEF Keys!WriteFile
<1>6. ASSUME NEW s \in Services, NEW name \in Keys!Names, Keys!WriteFails(s, name) PROVE Keys!KeysInv'
    <2>1. Keys!IsAt(s, name, "write") /\ Keys!Leaves(s) /\ x5' = x5 /\ x7' = x7
        BY <1>6 DEF Keys!WriteFails
    <2>2. \E content \in {None} \cup [secret : {x4[s]}, whole : BOOLEAN] : x1' = [x1 EXCEPT ![name] = content]
        <3>1. \A whole \in BOOLEAN : [secret |-> x4[s], whole |-> whole] \in {None} \cup [secret : {x4[s]}, whole : BOOLEAN]
            OBVIOUS
        <3>2. \/ x1' = [x1 EXCEPT ![name] = None]
              \/ x1' = [x1 EXCEPT ![name] = [secret |-> x4[s], whole |-> FALSE]]
              \/ x1' = [x1 EXCEPT ![name] = [secret |-> x4[s], whole |-> TRUE]]
            BY <1>6 DEF Keys!WriteFails
        <3> QED
            BY <3>1, <3>2
    <2> QED
        BY <2>1, <2>2, EndStep
<1>7. ASSUME NEW name \in Keys!Names, Keys!RemoveFile(name) PROVE Keys!KeysInv'
    BY <1>7, RemoveStep
<1> QED
    BY <1>1, <1>2, <1>3, <1>4, <1>5, <1>6, <1>7 DEF Keys!Next

LEMMA KeysSafe ==
    Keys!KeysInv => Keys!KeysTypeOK /\ Keys!ServicesAgree /\ Keys!TokenIsToldOnce
<1> SUFFICES ASSUME Keys!KeysInv PROVE Keys!KeysTypeOK /\ Keys!ServicesAgree /\ Keys!TokenIsToldOnce
    OBVIOUS
<1>0. Keys!KeysTyped
    BY DEF Keys!KeysInv
<1>1. Keys!KeysTypeOK
    <2>1. \A name \in Keys!Names : x1[name] # None => x1[name].secret \in 1..x5
        BY <1>0, Ranges DEF Keys!Drawn
    <2>2. ASSUME NEW s \in Services, x2[s] = Keys!Up, NEW name \in Keys!Names PROVE x3[s][name] \in 1..x5
        <3>1. x3[s][name] # None
            BY <2>2 DEF Keys!KeysInv, Keys!HeldSoFar, Keys!Names
        <3>2. x3[s][name] \in {None} \cup Keys!Drawn
            BY <1>0 DEF Keys!KeysTyped
        <3> QED
            BY <3>1, <3>2 DEF Keys!Drawn
    <2> QED
        BY <2>1, <2>2 DEF Keys!KeysTypeOK
<1>2. Keys!TokenIsToldOnce
    <2> SUFFICES ASSUME NEW k \in DOMAIN x7
                 PROVE  /\ x7[k] <= 1
                        /\ x7[k] = 1 /\ x1["token"] # None /\ x1["token"].secret = k => x1["token"].whole
        BY DEF Keys!TokenIsToldOnce
    <2>1. x7[k] \in {0, 1}
        BY <1>0 DEF Keys!KeysTyped
    <2>2. x1["token"] # None /\ ~x1["token"].whole => x7[x1["token"].secret] = 0
        BY DEF Keys!KeysInv, Keys!TokensAreUntold
    <2> QED
        BY <2>1, <2>2
<1> QED
    BY <1>1, <1>2 DEF Keys!KeysInv

LEMMA FilesStayWhole == Keys!KeysInv /\ Keys!Next => Keys!FilesStay
<1> SUFFICES ASSUME Keys!KeysInv, Keys!Next, NEW n \in Keys!Names, x1[n] # None, x1[n].whole
             PROVE  x1'[n] \in {x1[n], None}
    BY DEF Keys!FilesStay
<1>0. Keys!KeysTyped
    BY DEF Keys!KeysInv
<1>1. \A s \in Services : ~Keys!IsAt(s, n, "write")
    <2> SUFFICES ASSUME NEW s \in Services, Keys!IsAt(s, n, "write") PROVE FALSE
        OBVIOUS
    <2>1. x1[n] = [secret |-> x4[s], whole |-> FALSE]
        BY DEF Keys!KeysInv, Keys!WritersOwn
    <2>2. x1[n].whole = FALSE
        BY <2>1
    <2> QED
        BY <2>2
<1>2. ASSUME NEW s \in Services, Keys!Start(s) \/ Keys!Stop(s) PROVE x1' = x1
    BY <1>2 DEF Keys!Start, Keys!Stop
<1>3. ASSUME NEW s \in Services, NEW name \in Keys!Names,
             \/ Keys!ReadFile(s, name) \/ Keys!CreateFile(s, name)
             \/ Keys!WriteFile(s, name) \/ Keys!WriteFails(s, name)
      PROVE  x1'[n] = x1[n]
    <2>1. CASE Keys!ReadFile(s, name)
        BY <2>1 DEF Keys!ReadFile
    <2>2. CASE Keys!CreateFile(s, name)
        BY <2>2, <1>0 DEF Keys!CreateFile, Keys!MayCreate, Keys!KeysTyped
    <2>3. CASE Keys!WriteFile(s, name)
        BY <2>3, <1>0, <1>1 DEF Keys!WriteFile, Keys!KeysTyped
    <2>4. CASE Keys!WriteFails(s, name)
        BY <2>4, <1>0, <1>1 DEF Keys!WriteFails, Keys!KeysTyped
    <2> QED
        BY <1>3, <2>1, <2>2, <2>3, <2>4
<1>4. ASSUME NEW name \in Keys!Names, Keys!RemoveFile(name) PROVE x1'[n] \in {x1[n], None}
    BY <1>4, <1>0 DEF Keys!RemoveFile, Keys!KeysTyped
<1> QED
    BY <1>2, <1>3, <1>4 DEF Keys!Next

-----------------------------------------------------------------------------
(* Sessions *)

\* The tokens are numbered in the order of the logins.
LEMMA TokensInOrder ==
    ASSUME Sessions!SessionsTyped
    PROVE  /\ Sessions!NewToken \in Nat /\ DOMAIN x6 = 1..Sessions!NewToken
           /\ \A n \in 1..Sessions!NewToken : x6[n] \in [key : 1..x2, issued : 0..x1]
<1> DEFINE R == [key : 1..x2, issued : 0..x1]
<1>1. x6 \in Seq(R)
    BY DEF Sessions!SessionsTyped
<1> HIDE DEF R
<1>2. Len(x6) \in Nat /\ DOMAIN x6 = 1..Len(x6) /\ \A n \in 1..Len(x6) : x6[n] \in R
    BY <1>1
<1> QED
    BY <1>2 DEF Sessions!NewToken, R

\* A wider type for the same logins, or for one of them stamped
LEMMA LoginsWiden ==
    ASSUME NEW R, NEW W, R \subseteq W, NEW s \in Seq(R)
    PROVE  s \in Seq(W) /\ \A n \in DOMAIN s, w \in W : [s EXCEPT ![n] = w] \in Seq(W)
OBVIOUS

\* A step that makes no login and gives no cookie
SameLogins == x6' = x6 /\ Sessions!NewToken' = Sessions!NewToken /\ Sessions!Tokens' = Sessions!Tokens

LEMMA LoginsStay == x6' = x6 => SameLogins
BY DEF SameLogins, Sessions!NewToken, Sessions!Tokens

LEMMA LoginStep ==
    ASSUME Sessions!SessionsInv, NEW t \in Tabs, Sessions!Login(t)
    PROVE  Sessions!SessionsInv'
<1> DEFINE N == Sessions!NewToken
<1>0. Sessions!SessionsTyped
    BY DEF Sessions!SessionsInv
<1>1. N \in Nat /\ DOMAIN x6 = 1..N /\ \A n \in 1..N : x6[n] \in [key : 1..x2, issued : 0..x1]
    BY <1>0, TokensInOrder
<1>2. DOMAIN x6' = 1..(N + 1)
    BY <1>0, <1>1 DEF Sessions!Login, Sessions!NewToken, Sessions!SessionsTyped
<1>3. Sessions!NewToken' = N + 1
    BY <1>0, <1>1 DEF Sessions!Login, Sessions!NewToken, Sessions!SessionsTyped
<1>4. /\ \A n \in 1..N : x6'[n] = x6[n]
      /\ x6'[N + 1] = [key |-> x2, issued |-> 0]
    BY <1>0, <1>1 DEF Sessions!Login, Sessions!NewToken, Sessions!SessionsTyped
<1>5. UNCHANGED <<x1, x2, x3, x4, x7, x8>>
    BY DEF Sessions!Login
<1>6. /\ x5' = [x5 EXCEPT ![t] = "issue"]
      /\ \A u \in Tabs : x5[u] # "issue"
    BY DEF Sessions!Login
<1>7. Sessions!Tokens = 1..N /\ Sessions!Tokens' = 1..(N + 1)
    BY <1>3 DEF Sessions!Tokens
<1> HIDE DEF N
<1>8. Sessions!SessionsTyped'
    <2>1. x2 \in Nat /\ x1 \in Nat
        BY <1>0 DEF Sessions!SessionsTyped
    <2>2. x2 > 0
        BY <1>0 DEF Sessions!SessionsTyped
    <2>3. x6' \in Seq([key : 1..x2, issued : 0..x1])
        BY <1>0, <2>1, <2>2 DEF Sessions!Login, Sessions!SessionsTyped
    <2> QED
        BY <1>0, <1>1, <1>3, <1>5, <1>6, <1>7, <2>3 DEF Sessions!SessionsTyped
<1>9. Sessions!PendingIsUnused'
    <2>1. \A u, v \in Tabs : x5'[u] = "issue" /\ x5'[v] = "issue" => u = v
        BY <1>0, <1>6 DEF Sessions!SessionsTyped
    <2>2. N + 1 > 0 /\ x6'[N + 1].key = x2 /\ N + 1 \notin 1..N
        BY <1>1, <1>4
    <2>3. x3 # None => x3.csrf \in 1..N
        BY <1>0, <1>7 DEF Sessions!SessionsTyped
    <2>4. \A s \in x8 : s.csrf \in 1..N
        BY <1>0, <1>7 DEF Sessions!SessionsTyped
    <2>5. \A e \in x7 : e[1] \in 1..N
        BY <1>0, <1>7 DEF Sessions!SessionsTyped
    <2> QED
        BY <1>3, <1>5, <2>1, <2>2, <2>3, <2>4, <2>5 DEF Sessions!PendingIsUnused
<1>10. Sessions!CookieIsOfALogin'
    BY <1>0, <1>1, <1>4, <1>5, <1>7 DEF Sessions!CookieIsOfALogin, Sessions!SessionsTyped, Sessions!SessionsInv
<1>11. Sessions!ChangesGoBackToALogin'
    BY <1>0, <1>1, <1>2, <1>4, <1>5, <1>7 DEF Sessions!ChangesGoBackToALogin, Sessions!SessionsTyped, Sessions!SessionsInv
<1> QED
    BY <1>5, <1>8, <1>9, <1>10, <1>11
    DEF Sessions!SessionsInv, Sessions!FormsKeepTheirSession, Sessions!LogoutIsForAllTabs

LEMMA IssueStep ==
    ASSUME Sessions!SessionsInv, NEW t \in Tabs, Sessions!IssueSession(t)
    PROVE  Sessions!SessionsInv'
<1> DEFINE N == Sessions!NewToken
<1>0. Sessions!SessionsTyped
    BY DEF Sessions!SessionsInv
<1>1. N \in Nat /\ DOMAIN x6 = 1..N /\ \A n \in 1..N : x6[n] \in [key : 1..x2, issued : 0..x1]
    BY <1>0, TokensInOrder
<1>2. /\ x3' = [key |-> x2, until |-> x1 + TTL, csrf |-> N]
      /\ x6' = [x6 EXCEPT ![N] = [@ EXCEPT !.issued = x1]]
      /\ x5[t] = "issue" /\ x5' = [x5 EXCEPT ![t] = "idle"]
      /\ UNCHANGED <<x1, x2, x4, x7, x8>>
    BY DEF Sessions!IssueSession
<1>3. DOMAIN x6' = DOMAIN x6
    BY <1>2
<1>4. Sessions!NewToken' = N
    BY <1>3 DEF Sessions!NewToken
<1>5. Sessions!Tokens = 1..N /\ Sessions!Tokens' = 1..N
    BY <1>4 DEF Sessions!Tokens
<1>6. /\ \A u \in Tabs : x5[u] = "issue" => u = t
      /\ N > 0 /\ x6[N].key = x2
      /\ \A s \in x8 : s.csrf # N
      /\ \A e \in x7 : e[1] # N
    BY <1>2 DEF Sessions!SessionsInv, Sessions!PendingIsUnused, Sessions!Pending
<1> HIDE DEF N
<1>7. /\ \A n \in 1..N : n # N => x6'[n] = x6[n]
      /\ x6'[N] = [key |-> x2, issued |-> x1]
    BY <1>1, <1>2, <1>6
<1>8. Sessions!SessionsTyped'
    <2>1. x1 \in Nat /\ x2 \in Nat /\ x2 > 0
        BY <1>0, <1>1, <1>6 DEF Sessions!SessionsTyped
    <2>2. x6' \in Seq([key : 1..x2, issued : 0..x1])
        <3>1. x6 \in Seq([key : 1..x2, issued : 0..x1])
            BY <1>0 DEF Sessions!SessionsTyped
        <3>2. [x6[N] EXCEPT !.issued = x1] \in [key : 1..x2, issued : 0..x1] /\ N \in DOMAIN x6
            BY <1>1, <1>6, <2>1
        <3> QED
            BY <1>2, <3>1, <3>2, LoginsWiden
    <2>3. x3' \in [key : Nat, until : Nat, csrf : 1..N]
        BY <1>1, <1>2, <1>6, <2>1, SessionsSensible
    <2> QED
        BY <1>0, <1>1, <1>2, <1>4, <1>5, <2>2, <2>3 DEF Sessions!SessionsTyped
<1>9. ~Sessions!Pending'
    BY <1>0, <1>2, <1>6 DEF Sessions!Pending, Sessions!SessionsTyped
<1>10. Sessions!CookieIsOfALogin'
    BY <1>2, <1>6, <1>7 DEF Sessions!CookieIsOfALogin
<1>11. Sessions!ChangesGoBackToALogin'
    BY <1>0, <1>1, <1>2, <1>3, <1>5, <1>6, <1>7
    DEF Sessions!ChangesGoBackToALogin, Sessions!SessionsTyped, Sessions!SessionsInv
<1> QED
    BY <1>2, <1>8, <1>9, <1>10, <1>11
    DEF Sessions!SessionsInv, Sessions!PendingIsUnused, Sessions!FormsKeepTheirSession, Sessions!LogoutIsForAllTabs

LEMMA ClockStep ==
    ASSUME Sessions!SessionsInv, Sessions!TimeGoesOn
    PROVE  Sessions!SessionsInv'
<1>0. Sessions!SessionsTyped
    BY DEF Sessions!SessionsInv
<1>1. x1' = x1 + 1 /\ UNCHANGED <<x2, x3, x4, x5, x6, x7, x8>>
    BY DEF Sessions!TimeGoesOn
<1>2. SameLogins
    BY <1>1, LoginsStay
<1>3. Sessions!SessionsTyped'
    <2>1. 0..x1 \subseteq 0..x1'
        BY <1>0, <1>1 DEF Sessions!SessionsTyped
    <2>2. x6' \in Seq([key : 1..x2', issued : 0..x1'])
        <3> DEFINE R == [key : 1..x2, issued : 0..x1]
                   W == [key : 1..x2', issued : 0..x1']
        <3>1. R \subseteq W
            BY <1>1, <2>1
        <3>2. x6 \in Seq(R)
            BY <1>0 DEF Sessions!SessionsTyped
        <3> HIDE DEF R, W
        <3>3. x6 \in Seq(W)
            BY <3>1, <3>2, LoginsWiden
        <3> QED
            BY <1>1, <3>3 DEF W
    <2>3. x8' \subseteq [csrf : Sessions!Tokens', key : Nat, at : 0..x1', page : Sessions!Tokens']
        BY <1>0, <1>1, <1>2, <2>1 DEF Sessions!SessionsTyped, SameLogins
    <2> QED
        BY <1>0, <1>1, <1>2, <2>2, <2>3 DEF Sessions!SessionsTyped, SameLogins
<1> QED
    BY <1>1, <1>2, <1>3
    DEF Sessions!SessionsInv, SameLogins, Sessions!PendingIsUnused, Sessions!Pending, Sessions!CookieIsOfALogin,
        Sessions!ChangesGoBackToALogin, Sessions!FormsKeepTheirSession, Sessions!LogoutIsForAllTabs

LEMMA AgainOnAKeyStep ==
    ASSUME Sessions!SessionsInv, Sessions!StartAgain
    PROVE  Sessions!SessionsInv'
<1>0. Sessions!SessionsTyped
    BY DEF Sessions!SessionsInv
<1>1. /\ x2' \in {x2, x2 + 1} /\ x5' = [t \in Tabs |-> "idle"]
      /\ UNCHANGED <<x1, x3, x4, x6, x7, x8>>
    BY DEF Sessions!StartAgain
<1>2. SameLogins
    BY <1>1, LoginsStay
<1>3. Sessions!SessionsTyped'
    <2>1. 1..x2 \subseteq 1..x2' /\ x2' \in Nat
        BY <1>0, <1>1 DEF Sessions!SessionsTyped
    <2>2. x6' \in Seq([key : 1..x2', issued : 0..x1'])
        <3> DEFINE R == [key : 1..x2, issued : 0..x1]
                   W == [key : 1..x2', issued : 0..x1']
        <3>1. R \subseteq W
            BY <1>1, <2>1
        <3>2. x6 \in Seq(R)
            BY <1>0 DEF Sessions!SessionsTyped
        <3> HIDE DEF R, W
        <3>3. x6 \in Seq(W)
            BY <3>1, <3>2, LoginsWiden
        <3> QED
            BY <1>1, <3>3 DEF W
    <2> QED
        BY <1>0, <1>1, <1>2, <2>1, <2>2 DEF Sessions!SessionsTyped, SameLogins
<1>4. ~Sessions!Pending'
    BY <1>1 DEF Sessions!Pending
<1> QED
    BY <1>1, <1>2, <1>3, <1>4
    DEF Sessions!SessionsInv, SameLogins, Sessions!PendingIsUnused, Sessions!CookieIsOfALogin,
        Sessions!ChangesGoBackToALogin, Sessions!FormsKeepTheirSession, Sessions!LogoutIsForAllTabs

\* A step that makes no login and gives no cookie leaves the newest login where
\* it was and what was done already.
LEMMA QuietStep ==
    ASSUME Sessions!SessionsInv, UNCHANGED <<x1, x2, x6>>,
           x4' \in [Tabs -> {None} \cup Sessions!Tokens],
           x5' \in [Tabs -> {"idle", "issue", "clear"}],
           \A u \in Tabs : x5'[u] = "issue" => x5[u] = "issue",
           x3' \in {x3, None}
    PROVE  /\ SameLogins
           /\ x8' = x8 /\ x7' = x7 => Sessions!SessionsInv'
<1>0. Sessions!SessionsTyped
    BY DEF Sessions!SessionsInv
<1>1. SameLogins
    BY LoginsStay
<1>2. ASSUME x8' = x8, x7' = x7 PROVE Sessions!SessionsInv'
    <2>1. Sessions!SessionsTyped'
        BY <1>0, <1>1, <1>2 DEF Sessions!SessionsTyped, SameLogins
    <2>2. Sessions!PendingIsUnused'
        BY <1>1, <1>2 DEF Sessions!SessionsInv, SameLogins, Sessions!PendingIsUnused, Sessions!Pending
    <2>3. Sessions!CookieIsOfALogin'
        BY <1>1, <1>2 DEF Sessions!SessionsInv, SameLogins, Sessions!CookieIsOfALogin
    <2> QED
        BY <1>1, <1>2, <2>1, <2>2, <2>3
        DEF Sessions!SessionsInv, SameLogins, Sessions!ChangesGoBackToALogin, Sessions!FormsKeepTheirSession,
            Sessions!LogoutIsForAllTabs
<1> QED
    BY <1>1, <1>2

LEMMA PageStep ==
    ASSUME Sessions!SessionsInv, NEW t \in Tabs,
           Sessions!OpenPage(t) \/ Sessions!Refuse(t) \/ Sessions!Logout(t)
    PROVE  Sessions!SessionsInv'
<1>0. Sessions!SessionsTyped
    BY DEF Sessions!SessionsInv
<1>1. UNCHANGED <<x1, x2, x3, x6, x7, x8>>
    BY DEF Sessions!OpenPage, Sessions!Refuse, Sessions!Logout
<1>2. x4' \in [Tabs -> {None} \cup Sessions!Tokens]
    <2>1. CASE Sessions!OpenPage(t)
        <3>1. x3.csrf \in Sessions!Tokens
            BY <1>0, <2>1 DEF Sessions!OpenPage, Sessions!HasSession, Sessions!SessionsTyped
        <3> QED
            BY <1>0, <2>1, <3>1 DEF Sessions!OpenPage, Sessions!SessionsTyped
    <2>2. CASE Sessions!Refuse(t)
        BY <1>0, <2>2 DEF Sessions!Refuse, Sessions!SessionsTyped
    <2>3. CASE Sessions!Logout(t)
        BY <1>0, <2>3 DEF Sessions!Logout, Sessions!SessionsTyped
    <2> QED
        BY <2>1, <2>2, <2>3
<1>3. x5' = x5 \/ x5' = [x5 EXCEPT ![t] = "clear"]
    BY DEF Sessions!OpenPage, Sessions!Refuse, Sessions!Logout
<1>4. /\ x5' \in [Tabs -> {"idle", "issue", "clear"}]
      /\ \A u \in Tabs : x5'[u] = "issue" => x5[u] = "issue"
    BY <1>0, <1>3 DEF Sessions!SessionsTyped
<1> QED
    BY <1>1, <1>2, <1>4, QuietStep

LEMMA SubmitStep ==
    ASSUME Sessions!SessionsInv, NEW t \in Tabs, Sessions!Submit(t)
    PROVE  Sessions!SessionsInv'
<1> DEFINE change == [csrf |-> x3.csrf, key |-> x2, at |-> x1, page |-> x4[t]]
<1>0. Sessions!SessionsTyped
    BY DEF Sessions!SessionsInv
<1>1. x8' = x8 \cup {change} /\ UNCHANGED <<x1, x2, x3, x4, x5, x6, x7>>
    BY DEF Sessions!Submit
<1>2. SameLogins
    BY <1>1, LoginsStay
<1>3. x3 # None /\ x3.key = x2 /\ x1 < x3.until /\ x4[t] = x3.csrf
    BY DEF Sessions!Submit, Sessions!HasSession, Sessions!IsValid, Sessions!FormMatches
<1>4. /\ x3.csrf \in Sessions!Tokens /\ x2 \in Nat /\ x1 \in Nat
      /\ x6[x3.csrf].key = x2 /\ x6[x3.csrf].issued \in 0..x1 /\ x3.until = x6[x3.csrf].issued + TTL
      /\ x3.csrf \in DOMAIN x6
      /\ \A e \in x7 : e[1] # x3.csrf
      /\ Sessions!Pending => x3.csrf # Sessions!NewToken
    <2>1. x3.csrf \in Sessions!Tokens /\ x2 \in Nat /\ x1 \in Nat
        BY <1>0, <1>3 DEF Sessions!SessionsTyped
    <2>2. x3.csrf \in DOMAIN x6 /\ x6[x3.csrf].issued \in 0..x1
        BY <1>0, <2>1, TokensInOrder DEF Sessions!Tokens
    <2> QED
        BY <1>3, <2>1, <2>2 DEF Sessions!SessionsInv, Sessions!CookieIsOfALogin, Sessions!PendingIsUnused
<1>5. /\ change.csrf = x3.csrf /\ change.key = x2 /\ change.at = x1 /\ change.page = x3.csrf
      /\ change \in [csrf : Sessions!Tokens, key : Nat, at : 0..x1, page : Sessions!Tokens]
    BY <1>3, <1>4
<1> HIDE DEF change
<1>6. Sessions!SessionsTyped'
    BY <1>0, <1>1, <1>2, <1>5 DEF Sessions!SessionsTyped, SameLogins
<1>7. Sessions!PendingIsUnused'
    BY <1>1, <1>2, <1>4, <1>5 DEF Sessions!SessionsInv, SameLogins, Sessions!PendingIsUnused, Sessions!Pending
<1>8. Sessions!ChangesGoBackToALogin'
    <2>1. change.csrf \in DOMAIN x6 /\ x6[change.csrf].key = change.key
        BY <1>4, <1>5
    <2>2. x6[change.csrf].issued <= change.at /\ change.at < x6[change.csrf].issued + TTL
        BY <1>3, <1>4, <1>5
    <2> QED
        BY <1>1, <2>1, <2>2 DEF Sessions!SessionsInv, Sessions!ChangesGoBackToALogin
<1>9. Sessions!FormsKeepTheirSession' /\ Sessions!LogoutIsForAllTabs'
    BY <1>1, <1>4, <1>5 DEF Sessions!SessionsInv, Sessions!FormsKeepTheirSession, Sessions!LogoutIsForAllTabs
<1> QED
    BY <1>1, <1>2, <1>6, <1>7, <1>8, <1>9 DEF Sessions!SessionsInv, Sessions!CookieIsOfALogin

LEMMA ClearStep ==
    ASSUME Sessions!SessionsInv, NEW t \in Tabs, Sessions!ClearSession(t)
    PROVE  Sessions!SessionsInv'
<1>0. Sessions!SessionsTyped
    BY DEF Sessions!SessionsInv
<1>1. /\ x3' = None /\ x5' = [x5 EXCEPT ![t] = "idle"] /\ x4' = [x4 EXCEPT ![t] = None]
      /\ x7' = IF x3 = None THEN x7 ELSE x7 \cup {<<x3.csrf, x1>>}
      /\ UNCHANGED <<x1, x2, x6, x8>>
    BY DEF Sessions!ClearSession, Sessions!Cleared
<1>2. /\ x4' \in [Tabs -> {None} \cup Sessions!Tokens]
      /\ x5' \in [Tabs -> {"idle", "issue", "clear"}]
      /\ \A u \in Tabs : x5'[u] = "issue" => x5[u] = "issue"
    BY <1>0, <1>1 DEF Sessions!SessionsTyped
<1>3. CASE x3 = None
    BY <1>1, <1>2, <1>3, QuietStep
<1>4. CASE x3 # None
    <2> DEFINE logout == <<x3.csrf, x1>>
    <2>1. x7' = x7 \cup {logout}
        BY <1>1, <1>4
    <2>2. SameLogins
        BY <1>1, LoginsStay
    <2>3. x3.csrf \in Sessions!Tokens /\ x1 \in Nat
        BY <1>0, <1>4 DEF Sessions!SessionsTyped
    <2>4. logout \in Sessions!Tokens \X Nat /\ logout[1] = x3.csrf /\ logout[2] = x1
        BY <2>3
    <2> HIDE DEF logout
    <2>5. Sessions!SessionsTyped'
        <3>1. x7' \subseteq Sessions!Tokens \X Nat
            BY <1>0, <2>1, <2>4 DEF Sessions!SessionsTyped
        <3> QED
            BY <1>0, <1>1, <1>2, <2>2, <3>1 DEF Sessions!SessionsTyped, SameLogins
    <2>6. Sessions!PendingIsUnused'
        BY <1>1, <1>2, <1>4, <2>1, <2>2, <2>4
        DEF Sessions!SessionsInv, SameLogins, Sessions!PendingIsUnused, Sessions!Pending
    <2>7. Sessions!LogoutIsForAllTabs'
        <3>1. \A s \in x8 : s.at <= x1
            BY <1>0 DEF Sessions!SessionsTyped
        <3> QED
            BY <1>1, <2>1, <2>4, <3>1 DEF Sessions!SessionsInv, Sessions!LogoutIsForAllTabs
    <2> QED
        BY <1>1, <2>2, <2>5, <2>6, <2>7
        DEF Sessions!SessionsInv, SameLogins, Sessions!CookieIsOfALogin, Sessions!ChangesGoBackToALogin,
            Sessions!FormsKeepTheirSession
<1> QED
    BY <1>3, <1>4

LEMMA SessionsStep == Sessions!SessionsInv /\ Sessions!Next => Sessions!SessionsInv'
BY ClockStep, AgainOnAKeyStep, LoginStep, IssueStep, PageStep, SubmitStep, ClearStep DEF Sessions!Next

LEMMA SessionsInitInv == Sessions!Init => Sessions!SessionsInv
<1> SUFFICES ASSUME Sessions!Init PROVE Sessions!SessionsInv
    OBVIOUS
<1> USE DEF Sessions!Init
<1>1. Sessions!SessionsTyped
    BY DEF Sessions!SessionsTyped
<1>2. ~Sessions!Pending
    BY DEF Sessions!Pending
<1> QED
    BY <1>1, <1>2
    DEF Sessions!SessionsInv, Sessions!PendingIsUnused, Sessions!CookieIsOfALogin, Sessions!ChangesGoBackToALogin,
        Sessions!FormsKeepTheirSession, Sessions!LogoutIsForAllTabs

LEMMA SessionsSafe ==
    Sessions!SessionsInv =>
        /\ Sessions!SessionsTypeOK /\ Sessions!ChangesGoBackToALogin
        /\ Sessions!FormsKeepTheirSession /\ Sessions!LogoutIsForAllTabs
<1> SUFFICES ASSUME Sessions!SessionsInv PROVE Sessions!SessionsTypeOK
    BY DEF Sessions!SessionsInv
<1>0. Sessions!SessionsTyped
    BY DEF Sessions!SessionsInv
<1>1. Sessions!Tokens = DOMAIN x6 /\ \A n \in DOMAIN x6 : x6[n].key \in 1..x2
    BY <1>0, TokensInOrder DEF Sessions!Tokens
<1>2. x3 # None => x3.csrf \in DOMAIN x6 /\ x3.key \in 1..x2
    BY <1>0, <1>1 DEF Sessions!SessionsTyped, Sessions!SessionsInv, Sessions!CookieIsOfALogin
<1> QED
    BY <1>0, <1>1, <1>2 DEF Sessions!SessionsTypeOK, Sessions!SessionsTyped

-----------------------------------------------------------------------------
(* Keys and sessions in the service *)

KeysPart == part = "keys" => Keys!KeysInv
SessionsPart == part = "sessions" => Sessions!SessionsInv

LEMMA LoginsInit == AdmissionStart => KeysPart /\ SessionsPart
<1> SUFFICES ASSUME AdmissionStart PROVE KeysPart /\ SessionsPart
    OBVIOUS
<1>1. part = "keys" => Keys!Init
    BY DEF AdmissionStart, Elsewhere, AdmissionInit
<1>2. part = "sessions" => Sessions!Init
    BY DEF AdmissionStart, Elsewhere, AdmissionInit
<1> QED
    BY <1>1, <1>2, KeysInitInv, SessionsInitInv DEF KeysPart, SessionsPart

\* A step of one part is a step of that part's specification.
LEMMA OwnSteps ==
    ASSUME AdmissionStep
    PROVE  /\ part' = part
           /\ part = "keys" => Keys!Next
           /\ part = "sessions" => Sessions!Next
BY DEF AdmissionStep, Elsewhere, AdmissionNext

LEMMA KeysPartStep == KeysPart /\ [AdmissionStep]_admissionVars => KeysPart'
<1> SUFFICES ASSUME KeysPart, [AdmissionStep]_admissionVars, part' = "keys" PROVE Keys!KeysInv'
    BY DEF KeysPart
<1>1. CASE AdmissionStep
    BY <1>1, OwnSteps, KeysStep DEF KeysPart
<1>2. CASE UNCHANGED admissionVars
    <2>1. UNCHANGED <<x1, x2, x3, x4, x5, x6, x7, x8, x9>> /\ part = "keys"
        BY <1>2 DEF admissionVars, free3, free5, free9
    <2> QED
        BY <2>1 DEF KeysPart, Keys!KeysInv, Keys!KeysTyped, Keys!HeldSoFar, Keys!WritersOwn, Keys!DrawnIsFresh,
            Keys!TokensAreUntold, Keys!ServicesAgree, Keys!Drawn, Keys!IsAt
<1> QED
    BY <1>1, <1>2

LEMMA SessionsPartStep == SessionsPart /\ [AdmissionStep]_admissionVars => SessionsPart'
<1> SUFFICES ASSUME SessionsPart, [AdmissionStep]_admissionVars, part' = "sessions" PROVE Sessions!SessionsInv'
    BY DEF SessionsPart
<1>1. CASE AdmissionStep
    BY <1>1, OwnSteps, SessionsStep DEF SessionsPart
<1>2. CASE UNCHANGED admissionVars
    <2>1. UNCHANGED <<x1, x2, x3, x4, x5, x6, x7, x8>> /\ part = "sessions"
        BY <1>2 DEF admissionVars, free3, free5
    <2> QED
        BY <2>1 DEF SessionsPart, Sessions!SessionsInv, Sessions!SessionsTyped, Sessions!PendingIsUnused,
            Sessions!CookieIsOfALogin, Sessions!ChangesGoBackToALogin, Sessions!FormsKeepTheirSession,
            Sessions!LogoutIsForAllTabs, Sessions!Tokens, Sessions!NewToken, Sessions!Pending
<1> QED
    BY <1>1, <1>2

\* However many services are started in one directory, together, one after the
\* other or cut short, and whatever the tabs of a browser do: those that hold a
\* key hold the one on file, which stays once it is whole, a token is told once;
\* a change made with a session goes back to a login that was recorded, came
\* from a form of that session and not after its logout.
THEOREM LoginsAlwaysHoldTogether == AdmissionSpec => LoginsHoldTogether
<1>1. KeysPart => (part = "keys" => /\ Keys!KeysTypeOK /\ Keys!ServicesAgree /\ Keys!TokenIsToldOnce)
    BY KeysSafe DEF KeysPart
<1>2. KeysPart /\ [AdmissionStep]_admissionVars => [part = "keys" => Keys!FilesStay]_admissionVars
    BY OwnSteps, FilesStayWhole DEF KeysPart
<1>3. SessionsPart =>
        (part = "sessions" =>
            /\ Sessions!SessionsTypeOK /\ Sessions!ChangesGoBackToALogin
            /\ Sessions!FormsKeepTheirSession /\ Sessions!LogoutIsForAllTabs)
    BY SessionsSafe DEF SessionsPart
<1> QED
    BY LoginsInit, KeysPartStep, SessionsPartStep, <1>1, <1>2, <1>3, PTL DEF AdmissionSpec, LoginsHoldTogether

=============================================================================
