-------------------------- MODULE ConcurrencyGroups --------------------------
(***************************************************************************)
(* One workflow concurrency group: the callers that enqueue runs of it and *)
(* supersede older ones, and the workers that wait for its lease           *)
(* (store/execution_concurrency.go; cancelSupersededConcurrencyRuns,       *)
(* waitForExecutionConcurrency and heartbeatExecutionConcurrency in        *)
(* execution/manager.go).  A service that died comes back with a new owner *)
(* id: its place in Workers is used again once no live row names it.       *)
(* A definition marked "Mutant" is a bug that could have been made in the  *)
(* next one; no specification uses it.                                     *)
(***************************************************************************)
EXTENDS Naturals

CONSTANTS
    Runs,               \* numbered by created_at
    Workers, None,
    CancelInProgress,   \* the group's setting
    TTL,                \* executionConcurrencyTTL
    Prompt,             \* is a lease in use always renewed in time?
    MaxFaults           \* bound: services that die, callers that fail or die

VARIABLES
    run, flagged,  \* runs.status, runs.cancellation_requested
    caller,        \* by run, where its enqueuer is: "idle", "list", "cancel"
    listed,        \* by run, what ListRuns gave and is not handled yet
    holder, left,  \* the lease row <<run, worker>>, time until its expires_at
    wk,            \* by worker: pc, run, the holder it asked to cancel, trust
    faults,
    crossed,       \* history: did the newest run come while a caller was about
                   \* to list, or has a waiting run asked it to give way?
    stray          \* history: runs whose caller was cut off, or requeued ones

runVars    == <<run, flagged>>
callerVars == <<caller, listed>>
leaseRow   == <<holder, left>>
past       == <<crossed, stray>>
vars == <<runVars, callerVars, leaseRow, wk, faults, past>>

\* What the proofs assume of the constants.
Sensible == Runs \subseteq Nat /\ TTL \in Nat

Terminal == {"succeeded", "cancelled"}
IsNewest(n) == run[n] # "absent" /\ \A r \in Runs : run[r] # "absent" => r <= n
Out(l) == [pc |-> l, run |-> None, last |-> None, trust |-> 0]

Init ==
    /\ run = [r \in Runs |-> "absent"]
    /\ flagged = [r \in Runs |-> FALSE]
    /\ caller = [r \in Runs |-> "idle"]
    /\ listed = [r \in Runs |-> {}]
    /\ holder = None /\ left = 0
    /\ wk = [w \in Workers |-> Out("idle")]
    /\ faults = 0
    /\ crossed = FALSE /\ stray = {}

-----------------------------------------------------------------------------
(* enqueueTriggered: insert the run, list, cancel one by one *)

EnqueueRun(r) ==
    /\ run[r] = "absent" /\ \A c \in Runs : c < r => run[c] # "absent"
    /\ run' = [run EXCEPT ![r] = "queued"]
    /\ caller' = [caller EXCEPT ![r] = "list"]
    /\ crossed' = \E c \in Runs : caller[c] = "list"
    /\ UNCHANGED <<flagged, listed, leaseRow, wk, faults, stray>>

Statuses == IF CancelInProgress THEN {"queued", "running"} ELSE {"queued"}

\* Mutant: the new run is not left out.
CandidatesAll(r) == {c \in Runs : run[c] \in Statuses}
Candidates(r) == {c \in Runs \ {r} : run[c] \in Statuses}

ListRuns(r) ==
    /\ caller[r] = "list"
    /\ listed' = [listed EXCEPT ![r] = Candidates(r)]
    /\ caller' = [caller EXCEPT ![r] = IF Candidates(r) = {} THEN "idle" ELSE "cancel"]
    /\ UNCHANGED <<runVars, leaseRow, wk, faults, past>>

RequestRunCancellation(r) ==
    IF flagged[r] \/ run[r] \in Terminal THEN UNCHANGED <<run, flagged>>
    ELSE /\ flagged' = [flagged EXCEPT ![r] = TRUE]
         /\ run' = [run EXCEPT ![r] = IF @ = "queued" THEN "cancelled" ELSE @]

\* The status that made c a candidate may be old by now.
CancelSuperseded(r) ==
    /\ caller[r] = "cancel"
    /\ \E c \in listed[r] :
         /\ RequestRunCancellation(c)
         /\ listed' = [listed EXCEPT ![r] = @ \ {c}]
    /\ caller' = [caller EXCEPT ![r] = IF listed'[r] = {} THEN "idle" ELSE "cancel"]
    /\ UNCHANGED <<leaseRow, wk, faults, past>>

\* ListRuns or a cancellation fails, or the service dies: the run stays queued
\* and what was not cancelled yet is left.
CallerFails(r) ==
    /\ caller[r] # "idle"
    /\ faults < MaxFaults /\ faults' = faults + 1
    /\ caller' = [caller EXCEPT ![r] = "idle"]
    /\ listed' = [listed EXCEPT ![r] = {}]
    /\ stray' = stray \cup {r}
    /\ UNCHANGED <<runVars, leaseRow, wk, crossed>>

-----------------------------------------------------------------------------
(* The workers *)

At(w, l) == wk[w].pc = l
Mine(w)  == <<wk[w].run, w>>
Leave(w, l) == wk' = [wk EXCEPT ![w] = Out(l)]

Claimable(r) == run[r] = "queued" /\ ~flagged[r]

ClaimNextQueuedRun(w) ==
    /\ At(w, "idle")
    /\ \E r \in Runs :
         /\ Claimable(r) /\ \A c \in Runs : c < r => ~Claimable(c)
         /\ run' = [run EXCEPT ![r] = "running"]
         /\ wk' = [wk EXCEPT ![w].pc = "wait", ![w].run = r]
    /\ UNCHANGED <<flagged, callerVars, leaseRow, faults, past>>

\* Mutants: the row is taken whoever holds it; only a free row is taken.
MayTakeAlways(c) == TRUE
MayTakeFree(c) == holder \in {None, c}
MayTake(c) == holder \in {None, c} \/ left = 0

AcquireExecutionConcurrency(w) ==
    /\ At(w, "wait")
    /\ MayTake(Mine(w))
    /\ holder' = Mine(w) /\ left' = TTL
    /\ wk' = [wk EXCEPT ![w].pc = "execute", ![w].trust = TTL]
    /\ UNCHANGED <<runVars, callerVars, faults, past>>

\* With cancel-in-progress the holder is asked once to give way.
CancelHolder(w) ==
    /\ At(w, "wait")
    /\ ~MayTake(Mine(w))
    /\ CancelInProgress
    /\ holder[1] \notin {wk[w].run, wk[w].last}
    /\ RequestRunCancellation(holder[1])
    /\ wk' = [wk EXCEPT ![w].last = holder[1]]
    /\ crossed' = (crossed \/ IsNewest(holder[1]))
    /\ UNCHANGED <<callerVars, leaseRow, faults, stray>>

RenewLease(w) ==
    /\ At(w, "execute")
    /\ MayTake(Mine(w))
    /\ holder' = Mine(w) /\ left' = TTL
    /\ wk' = [wk EXCEPT ![w].trust = TTL]
    /\ UNCHANGED <<runVars, callerVars, faults, past>>

\* A heartbeat that finds another holder stops the run and with it the service.
LoseLease(w) ==
    /\ At(w, "execute")
    /\ ~MayTake(Mine(w))
    /\ Leave(w, "dead")
    /\ UNCHANGED <<runVars, callerVars, leaseRow, faults, past>>

\* executeRun ends: a cancelled run as cancelled, another with its result.
FinishRun(w) ==
    /\ At(w, "execute")
    /\ run' = [run EXCEPT ![wk[w].run] =
                 IF flagged[wk[w].run] THEN "cancelled" ELSE "succeeded"]
    /\ wk' = [wk EXCEPT ![w].pc = "release"]
    /\ UNCHANGED <<flagged, callerVars, leaseRow, faults, past>>

ReleaseExecutionConcurrency(w) ==
    /\ At(w, "release")
    /\ holder' = IF holder = Mine(w) THEN None ELSE holder
    /\ Leave(w, "idle")
    /\ UNCHANGED <<runVars, callerVars, left, faults, past>>

Crash(w) ==
    /\ faults < MaxFaults
    /\ Leave(w, "dead")
    /\ faults' = faults + 1
    /\ UNCHANGED <<runVars, callerVars, leaseRow, past>>

Restart(w) ==
    /\ At(w, "dead")
    /\ left > 0 => holder \notin Runs \X {w}
    /\ Leave(w, "idle")
    /\ UNCHANGED <<runVars, callerVars, leaseRow, faults, past>>

\* RecoverExpiredRunWorkers, for a run that was between two commands
RecoverRun(r) ==
    /\ run[r] = "running"
    /\ \A w \in Workers : wk[w].run # r
    /\ \E w \in Workers : At(w, "idle")
    /\ run' = [run EXCEPT ![r] = "queued"]
    /\ stray' = stray \cup {r}
    /\ UNCHANGED <<flagged, callerVars, leaseRow, wk, faults, crossed>>

\* Mutant: time goes on below zero.
LessAlways(n) == n - 1
Less(n) == IF n = 0 THEN 0 ELSE n - 1

Tick ==
    /\ left > 0
    /\ Prompt => left > 1 \/ \A w \in Workers : ~At(w, "execute")
    /\ left' = Less(left)
    /\ wk' = [w \in Workers |-> [wk[w] EXCEPT !.trust = Less(@)]]
    /\ UNCHANGED <<runVars, callerVars, holder, faults, past>>

WorkerStep(w) ==
    \/ ClaimNextQueuedRun(w) \/ AcquireExecutionConcurrency(w) \/ CancelHolder(w)
    \/ LoseLease(w) \/ FinishRun(w) \/ ReleaseExecutionConcurrency(w) \/ Restart(w)

CallerStep(r) == ListRuns(r) \/ CancelSuperseded(r)

Next ==
    \/ \E w \in Workers : WorkerStep(w) \/ RenewLease(w) \/ Crash(w)
    \/ \E r \in Runs : EnqueueRun(r) \/ CallerStep(r) \/ CallerFails(r) \/ RecoverRun(r)
    \/ Tick

Spec == Init /\ [][Next]_vars

\* The clock moves, callers and workers go on, and every pass recovers.
Fairness ==
    /\ WF_vars(Tick)
    /\ \A w \in Workers : WF_vars(WorkerStep(w))
    /\ \A r \in Runs : WF_vars(CallerStep(r)) /\ WF_vars(RecoverRun(r))

FairSpec == Spec /\ Fairness

-----------------------------------------------------------------------------
(* Properties *)

\* Every variable holds what its column or its goroutine may hold.
GroupTypeOK ==
    /\ run \in [Runs -> Terminal \cup {"absent", "queued", "running"}]
    /\ listed \in [Runs -> SUBSET Runs]
    /\ holder \in (Runs \X Workers) \cup {None}
    /\ \A w \in Workers : wk[w].run \in Runs \cup {None} /\ wk[w].trust \in 0..TTL

\* The newest run of the group is left, unless it came while another caller was
\* about to list, or a run that waits asked it to give way: superseding
\* is for the sake of a newer run (cancelSupersededConcurrencyRuns, whose list
\* is taken after the insert, by as many callers at once as there are).
NewestRunIsLeft ==
    \A n \in Runs : IsNewest(n) /\ flagged[n] => crossed

\* Of two runs that are pending one is about to go, by the hand of the other's
\* caller, unless that caller failed in the middle or the run was running when
\* it listed and is queued again (cancelSupersededConcurrencyRuns,
\* RecoverExpiredRunWorkers).
OnePendingRun ==
    \A a, b \in Runs :
        (a # b /\ Claimable(a) /\ Claimable(b)) =>
            \/ {a, b} \cap stray # {}
            \/ \E r \in {a, b} : caller[r] = "list" \/ {a, b} \ {r} \subseteq listed[r]

\* Nobody waits for ever: waiting workers do not block each other, and a lease
\* of a dead worker is outlived (waitForExecutionConcurrency).
GroupDrains == \A r \in Runs : run[r] = "queued" ~> (run[r] \in Terminal \/ flagged[r])

Lease == INSTANCE ExpiringLease WITH
    Clients <- Runs \X Workers,
    trust <- [c \in Runs \X Workers |-> IF wk[c[2]].run = c[1] THEN wk[c[2]].trust ELSE 0]

\* The lease of a concurrency group is an expiring lease: of two workers in the
\* group one has lost its trust (AcquireExecutionConcurrency).
ImplementsLease == Lease!Spec
=============================================================================
