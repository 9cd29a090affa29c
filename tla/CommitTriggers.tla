--------------------------- MODULE CommitTriggers ---------------------------
(***************************************************************************)
(* The watch on a local branch: the pass that compares its head with the   *)
(* last commit seen, enqueues the workflows whose paths changed and        *)
(* records the check (triggers/manager.go, store/commit_triggers.go),      *)
(* while people commit and the operator watches another branch.  Commits   *)
(* are numbered in the order in which they are made, and a later one may   *)
(* bring back what an earlier one had; git is external.  No file is moved: *)
(* git may name a moved one by its new path alone.                         *)
(* A definition marked "Mutant" is a bug that could have been made in the  *)
(* next one; no specification uses it.                                     *)
(***************************************************************************)
EXTENDS Integers, Sequences

CONSTANTS
    Workflows,   \* a sequence: the order in which SyncProject lists them
    Branches, Commits, Main,
    Paths,
    Content,        \* by commit, what it has at each path
    Filter,      \* by workflow, the paths it asks for; {}: it has no filter
    Broken,      \* workflows that cannot be enqueued (no runner on this host)
    Force,       \* may a branch move backwards and its old commits vanish?
    MaxEdits,    \* bound: changes of the policy
    MaxFaults    \* bound: services that die, checks that fail

VARIABLES
    head,        \* git: branch to commit
    gone,        \* git: commits that were collected
    policy,      \* project_commit_triggers: ref, enabled, last_commit_sha
    runs,        \* runs with trigger_type "commit", <<workflow, commit>>, a count
    wk,          \* the service: pc, policy read, commit resolved, paths changed,
                 \* workflows left
    op,          \* the operator's Configure: pc, branch, baseline
    edits, faults

gitVars == <<head, gone>>
vars == <<gitVars, policy, runs, wk, op, edits, faults>>

Wfs == {Workflows[i] : i \in 1..Len(Workflows)}

\* What the proofs assume of the constants: there is a first commit, and the
\* branch that is watched first exists.
Sensible ==
    /\ Workflows \in Seq(Wfs)
    /\ Commits \subseteq Nat \ {0} /\ 1 \in Commits
    /\ Main \in Branches
    /\ Filter \in [Wfs -> SUBSET Paths]

Nothing == 0
Out(l) == [pc |-> l, policy |-> policy, sha |-> Nothing, paths |-> {}, left |-> <<>>]

Init ==
    /\ head = [b \in Branches |-> 1] /\ gone = {}
    /\ policy = [ref |-> Main, enabled |-> TRUE, last |-> 1]
    /\ runs = [x \in Wfs \X Commits |-> 0]
    /\ wk = [pc |-> "idle", policy |-> [ref |-> Main, enabled |-> TRUE, last |-> 1],
             sha |-> Nothing, paths |-> {}, left |-> <<>>]
    /\ op = [pc |-> "idle", ref |-> Main, sha |-> Nothing]
    /\ edits = 0 /\ faults = 0

-----------------------------------------------------------------------------
(* git *)

Commit(b, c) ==
    /\ c > head[b] /\ c \notin gone
    /\ head' = [head EXCEPT ![b] = c]
    /\ UNCHANGED <<gone, policy, runs, wk, op, edits, faults>>

\* Commits of no branch are collected at some time.
ForcePush(b, c) ==
    /\ Force /\ c < head[b] /\ c \notin gone
    /\ head' = [head EXCEPT ![b] = c]
    /\ gone' \in {gone, gone \cup {d \in c..head[b] : \A e \in Branches : d > head'[e]}}
    /\ UNCHANGED <<policy, runs, wk, op, edits, faults>>

-----------------------------------------------------------------------------
(* The service's pass *)

At(l) == wk.pc = l

ListEnabledProjectCommitTriggers ==
    /\ At("idle") /\ policy.enabled
    /\ wk' = Out("resolve")
    /\ UNCHANGED <<gitVars, policy, runs, op, edits, faults>>

\* Mutant: compared with what the two have in common (DiffMergeBase), which
\* for a branch that was moved back is its new head.
DiffMergeBase(a, b) == {p \in Paths : a < b /\ Content[a][p] # Content[b][p]}
\* git diff of the two commits: what came and went in between is not in it.
Diff(a, b) == {p \in Paths : Content[a][p] # Content[b][p]}

\* resolveBranchCommit, then changedPaths, which fails for a collected commit;
\* an unchanged head, or the first one seen, is recorded only.
ResolveBranchCommit ==
    /\ At("resolve")
    /\ LET sha == head[wk.policy.ref]
           last == wk.policy.last
           resolved(l) == [wk EXCEPT !.pc = l, !.sha = sha]
       IN  \/ /\ last \in {sha, Nothing}
              /\ wk' = resolved("workflow")
           \/ /\ last \notin {sha, Nothing} /\ last \in gone
              /\ wk' = resolved("error")
           \/ /\ last \notin {sha, Nothing} /\ last \notin gone
              /\ wk' = [resolved("workflow") EXCEPT !.paths = Diff(last, sha), !.left = Workflows]
    /\ UNCHANGED <<gitVars, policy, runs, op, edits, faults>>

\* acceptsCommitEvent
Accepts(w) == Filter[w] = {} \/ Filter[w] \cap wk.paths # {}

\* Mutant: the run is looked for by its commit alone.
ExistsForAny(w, c)    == \E v \in Wfs : runs[<<v, c>>] > 0
\* Mutant: not asked.
ExistsNever(w, c)     == FALSE
CommitTriggeredRunExists(w, c) == runs[<<w, c>>] > 0

CheckWorkflow ==
    /\ At("workflow") /\ wk.left # <<>>
    /\ wk' = IF Accepts(Head(wk.left)) /\ ~CommitTriggeredRunExists(Head(wk.left), wk.sha)
             THEN [wk EXCEPT !.pc = "enqueue"]
             ELSE [wk EXCEPT !.left = Tail(@)]
    /\ UNCHANGED <<gitVars, policy, runs, op, edits, faults>>

EnqueueTriggered ==
    /\ At("enqueue")
    /\ LET w == Head(wk.left) IN
         IF w \in Broken \/ wk.sha \in gone
         THEN wk' = [wk EXCEPT !.pc = "error"] /\ UNCHANGED runs
         ELSE /\ runs' = [runs EXCEPT ![<<w, wk.sha>>] = @ + 1]
              /\ wk' = [wk EXCEPT !.pc = "workflow", !.left = Tail(@)]
    /\ UNCHANGED <<gitVars, policy, op, edits, faults>>

\* The run is queued and superseding others of its group fails.
EnqueueFailsLate ==
    /\ At("enqueue") /\ Head(wk.left) \notin Broken /\ wk.sha \notin gone
    /\ faults < MaxFaults /\ faults' = faults + 1
    /\ runs' = [runs EXCEPT ![<<Head(wk.left), wk.sha>>] = @ + 1]
    /\ wk' = [wk EXCEPT !.pc = "error"]
    /\ UNCHANGED <<gitVars, policy, op, edits>>

\* A git command, SyncProject or a look at the store fails; the next poll
\* tries again.
CheckFails ==
    /\ ~At("idle") /\ ~At("error") /\ faults < MaxFaults /\ faults' = faults + 1
    /\ wk' = [wk EXCEPT !.pc = "error"]
    /\ UNCHANGED <<gitVars, policy, runs, op, edits>>

\* RecordProjectCommitTriggerCheck: COALESCE(observed, last_commit_sha).
Observed == IF At("error") THEN policy.last ELSE wk.sha

RecordCheck ==
    /\ At("error") \/ (At("workflow") /\ wk.left = <<>>)
    /\ policy' = [policy EXCEPT !.last = Observed]
    /\ wk' = Out("idle")
    /\ UNCHANGED <<gitVars, runs, op, edits, faults>>

CrashAndRestart ==
    /\ ~At("idle") /\ faults < MaxFaults /\ faults' = faults + 1
    /\ wk' = Out("idle")
    /\ UNCHANGED <<gitVars, policy, runs, op, edits>>

-----------------------------------------------------------------------------
(* Configure: the baseline is read from git, then stored *)

ReadBaseline(b) ==
    /\ op.pc = "idle" /\ edits < MaxEdits /\ edits' = edits + 1
    /\ op' = [pc |-> "store", ref |-> b, sha |-> head[b]]
    /\ UNCHANGED <<gitVars, policy, runs, wk, faults>>

UpsertProjectCommitTrigger(on) ==
    /\ op.pc = "store"
    /\ policy' = [ref |-> op.ref, enabled |-> on, last |-> IF on THEN op.sha ELSE Nothing]
    /\ op' = [op EXCEPT !.pc = "idle"]
    /\ UNCHANGED <<gitVars, runs, wk, edits, faults>>

ServiceStep ==
    \/ ListEnabledProjectCommitTriggers \/ ResolveBranchCommit \/ CheckWorkflow
    \/ EnqueueTriggered \/ RecordCheck

Next ==
    \/ ServiceStep \/ EnqueueFailsLate \/ CheckFails \/ CrashAndRestart
    \/ \E b \in Branches : ReadBaseline(b) \/ \E c \in Commits : Commit(b, c) \/ ForcePush(b, c)
    \/ \E on \in BOOLEAN : UpsertProjectCommitTrigger(on)

Spec == Init /\ [][Next]_vars

\* The branch is polled every second.
FairSpec == Spec /\ WF_vars(ServiceStep)

-----------------------------------------------------------------------------
(* Properties *)

\* Every variable holds what its column or its goroutine may hold, and what
\* the service has to do belongs to a commit it resolved.
TriggerTypeOK ==
    /\ head \in [Branches -> Commits \ gone]
    /\ policy \in [ref : Branches, enabled : BOOLEAN, last : Commits \cup {Nothing}]
    /\ wk.left # <<>> => (wk.sha # Nothing /\ wk.sha # wk.policy.last)
    /\ wk.pc = "enqueue" => wk.left # <<>>

\* A workflow has one commit run per commit, also after a restart
\* (migration 0009: "durable checkpoints make restarts idempotent").
CommitRunsOnce == \A x \in Wfs \X Commits : runs[x] <= 1

\* Does w ask to be run when the branch goes from a to b?
Asks(w, a, b) == a # b /\ (Filter[w] = {} \/ \E p \in Filter[w] : Content[a][p] # Content[b][p])

\* When a check records a commit, every workflow whose paths differ from the
\* commit recorded before has a run of it, whatever failed, died or was pushed
\* in between; only a check of a policy that was edited meanwhile may record a
\* commit of the branch it began with (processPolicy enqueues before it records;
\* RecordProjectCommitTriggerCheck does not look at the policy it was read from).
NoChangePassedUnrun ==
    (/\ wk' # wk /\ wk.policy = policy
     /\ Nothing # policy.last /\ policy'.last # policy.last)
    => \A w \in Wfs : Asks(w, policy.last, policy'.last) => runs[<<w, policy'.last>>] > 0

\* A workflow that cannot be enqueued holds up those behind it.
Reached(w) ==
    \E i \in 1..Len(Workflows) :
        Workflows[i] = w /\ \A j \in 1..i : Workflows[j] \notin Broken

\* A head that a workflow asks for is run, or an earlier one was recorded that
\* differs in nothing it asks for; as long as the branch stays, its last commit
\* was not collected and the policy is not edited (compatibility/registry.go:
\* "Poll an opted-in local branch and deduplicate immutable commit runs").
WatchedHeadIsRun ==
    \A w \in {v \in Wfs : Reached(v)} : \A c \in Commits :
        (/\ policy.enabled /\ head[policy.ref] = c
         /\ policy.last \notin gone \cup {Nothing} /\ Asks(w, policy.last, c)
         /\ op.pc = "idle" /\ (At("idle") \/ wk.policy = policy))
        ~> \/ head[policy.ref] # c \/ policy.last \in gone \/ op.pc = "store"
           \/ runs[<<w, c>>] > 0
           \/ policy.last # Nothing /\ runs[<<w, policy.last>>] > 0 /\ ~Asks(w, policy.last, c)
=============================================================================
