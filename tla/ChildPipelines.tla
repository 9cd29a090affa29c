--------------------------- MODULE ChildPipelines ---------------------------
(***************************************************************************)
(* Parent and child pipelines: bridge jobs that start a child run and, with*)
(* strategy mirror or depend, wait for it; the reconciler that settles     *)
(* finished bridges before each claim; and cancellation, which goes down   *)
(* the tree one run at a time (store/child_pipelines.go,                   *)
(* execution/child_pipelines.go, RequestRunCancellation).  A run's jobs are*)
(* its bridges, named by their child run, and one ordinary job after them. *)
(* A definition marked "Mutant" is a bug that could have been made in the  *)
(* next one; no specification uses it.                                     *)
(***************************************************************************)
EXTENDS Naturals, Sequences

CONSTANTS
    Runs, Workers, None,
    Bridges,      \* by run, the sequence of children its bridge jobs start
    Mirrored,     \* the children whose bridge has strategy mirror or depend
    Cancels,      \* may runs be cancelled?
    MaxFaults     \* bound: services and requests that die

VARIABLES
    run, flagged, \* runs.status, runs.cancellation_requested
    bridge,       \* by child, jobs.status of the bridge that starts it
    cascade,      \* cancellations in flight: <<step, run, caller>>
    wk,           \* by worker: pc, run, place in its jobs, links to settle
    faults

runVars == <<run, flagged, bridge>>
vars == <<runVars, cascade, wk, faults>>

Terminal == {"succeeded", "failed", "cancelled"}
Kids(r)   == {Bridges[r][i] : i \in 1..Len(Bridges[r])}
Children  == UNION {Kids(r) : r \in Runs}
Parent(c) == CHOOSE r \in Runs : c \in Kids(r)
Out(l)    == [pc |-> l, run |-> None, at |-> 1, links |-> {}]

Init ==
    /\ run = [r \in Runs |-> "absent"]
    /\ flagged = [r \in Runs |-> FALSE]
    /\ bridge = [c \in Children |-> "queued"]
    /\ cascade = {}
    /\ wk = [w \in Workers |-> Out("idle")]
    /\ faults = 0

EnqueueRun(r) ==
    /\ r \notin Children
    /\ run[r] = "absent"
    /\ run' = [run EXCEPT ![r] = "queued"]
    /\ UNCHANGED <<flagged, bridge, cascade, wk, faults>>

-----------------------------------------------------------------------------
(* Cancellation: commit a run's own, list its children, cancel each *)

CancelByOperator(r) ==
    /\ Cancels
    /\ run[r] \notin Terminal \cup {"absent"}
    /\ \A e \in cascade : e[3] # None
    /\ cascade' = cascade \cup {<<"request", r, None>>}
    /\ UNCHANGED <<runVars, wk, faults>>

\* Mutant: the bridges of a cancelled run go on waiting.
OpenNone == {}
Open == {"queued", "waiting"}

RequestRunCancellation(r) ==
    IF flagged[r] \/ run[r] \in Terminal THEN UNCHANGED runVars
    ELSE /\ flagged' = [flagged EXCEPT ![r] = TRUE]
         /\ IF run[r] \in {"queued", "waiting"}
            THEN /\ run' = [run EXCEPT ![r] = "cancelled"]
                 /\ bridge' = [c \in Children |->
                        IF c \in Kids(r) /\ bridge[c] \in Open THEN "cancelled" ELSE bridge[c]]
            ELSE UNCHANGED <<run, bridge>>

CommitCancellation(e) ==
    /\ e[1] = "request"
    /\ RequestRunCancellation(e[2])
    /\ cascade' = (cascade \ {e}) \cup
           IF flagged'[e[2]] THEN {<<"list", e[2], e[3]>>} ELSE {}
    /\ UNCHANGED <<wk, faults>>

CascadeChildPipelineCancellation(e) ==
    /\ e[1] = "list"
    /\ cascade' = (cascade \ {e}) \cup
           {<<"request", c, e[3]>> : c \in {k \in Kids(e[2]) : run[k] # "absent"}}
    /\ UNCHANGED <<runVars, wk, faults>>

-----------------------------------------------------------------------------
(* A worker's pass: reconcile, claim, execute *)

At(w, l) == wk[w].pc = l
Leave(w) == wk' = [wk EXCEPT ![w] = Out("idle")]
MyKid(w) == Bridges[wk[w].run][wk[w].at]
MoreBridges(w) == wk[w].at <= Len(Bridges[wk[w].run])
Advance(w) == wk' = [wk EXCEPT ![w].at = @ + 1]

\* Mutants: the child need not have finished; a failed child is overlooked.
CompletedWell(c) ==
    c \in Mirrored /\ run[c] \in {"succeeded", "cancelled"} /\ run[Parent(c)] = "waiting" /\ bridge[c] = "waiting"
CompletedEarly(c) == c \in Mirrored /\ run[Parent(c)] = "waiting" /\ bridge[c] = "waiting"
Completed(c) ==
    /\ c \in Mirrored /\ run[c] \in Terminal
    /\ run[Parent(c)] = "waiting" /\ bridge[c] = "waiting"

ListCompleted(w) ==
    /\ At(w, "idle")
    /\ wk' = [wk EXCEPT ![w].pc = "settle", ![w].links = {c \in Children : Completed(c)}]
    /\ UNCHANGED <<runVars, cascade, faults>>

Settling(w) == At(w, "settle") /\ \A e \in cascade : e[3] # w

\* Mutant: a bridge never fails.
OutcomeGood(c) == "succeeded"
Outcome(c) == run[c]

\* Both updates have a guard of their own: what was listed may be settled by now.
SettleChildPipeline(w) ==
    /\ Settling(w)
    /\ \E c \in wk[w].links :
         /\ wk' = [wk EXCEPT ![w].links = @ \ {c}]
         /\ IF run[c] = "cancelled"
            THEN cascade' = cascade \cup {<<"request", Parent(c), w>>} /\ UNCHANGED runVars
            ELSE /\ bridge' = [bridge EXCEPT ![c] = IF @ = "waiting" THEN Outcome(c) ELSE @]
                 /\ run' = [run EXCEPT ![Parent(c)] = IF @ = "waiting" THEN "queued" ELSE @]
                 /\ UNCHANGED <<flagged, cascade>>
    /\ UNCHANGED faults

Claimable == {r \in Runs : run[r] = "queued" /\ ~flagged[r]}

ClaimNextQueuedRun(w) ==
    /\ Settling(w) /\ wk[w].links = {}
    /\ IF Claimable = {} THEN Leave(w) /\ UNCHANGED run
       ELSE \E r \in Claimable :
              /\ run' = [run EXCEPT ![r] = "running"]
              /\ wk' = [wk EXCEPT ![w] = [Out("execute") EXCEPT !.run = r]]
    /\ UNCHANGED <<flagged, bridge, cascade, faults>>

PassFinishedBridge(w) ==
    /\ At(w, "execute") /\ MoreBridges(w)
    /\ bridge[MyKid(w)] \in Terminal
    /\ Advance(w)
    /\ UNCHANGED <<runVars, cascade, faults>>

\* EnqueueRun with its link is one transaction; the cancellation flag is not read.
StartChild(w) ==
    /\ At(w, "execute") /\ MoreBridges(w)
    /\ run[MyKid(w)] = "absent"
    /\ bridge[MyKid(w)] = "queued" /\ run[wk[w].run] = "running"
    /\ LET c == MyKid(w) IN
         IF c \in Mirrored
         THEN /\ run' = [run EXCEPT ![c] = "queued", ![wk[w].run] = "waiting"]
              /\ bridge' = [bridge EXCEPT ![c] = "waiting"]
              /\ Leave(w)
         ELSE run' = [run EXCEPT ![c] = "queued"] /\ UNCHANGED <<bridge, wk>>
    /\ UNCHANGED <<flagged, cascade, faults>>

\* The link exists and the bridge mirrors it: executeRun just returns.
MeetStartedChild(w) ==
    /\ At(w, "execute") /\ MoreBridges(w)
    /\ MyKid(w) \in Mirrored /\ run[MyKid(w)] # "absent"
    /\ bridge[MyKid(w)] \notin Terminal
    /\ Leave(w)
    /\ UNCHANGED <<runVars, cascade, faults>>

FinishAsyncBridge(w) ==
    /\ At(w, "execute") /\ MoreBridges(w)
    /\ MyKid(w) \notin Mirrored /\ run[MyKid(w)] # "absent"
    /\ \/ bridge[MyKid(w)] = "queued"  /\ bridge' = [bridge EXCEPT ![MyKid(w)] = "running"]
       \/ bridge[MyKid(w)] = "running" /\ bridge' = [bridge EXCEPT ![MyKid(w)] = "succeeded"]
    /\ UNCHANGED <<run, flagged, cascade, wk, faults>>

Result(r, ok) ==
    IF ok /\ \A c \in Kids(r) : bridge[c] # "failed" THEN "succeeded" ELSE "failed"

\* The ordinary job, which is not begun for a flagged run, and the run's end.
FinishRun(w) ==
    /\ At(w, "execute") /\ ~MoreBridges(w)
    /\ \E ok \in BOOLEAN :
         run' = [run EXCEPT ![wk[w].run] =
                    IF flagged[wk[w].run] THEN "cancelled" ELSE Result(wk[w].run, ok)]
    /\ Leave(w)
    /\ UNCHANGED <<flagged, bridge, cascade, faults>>

Crash(w) ==
    /\ faults < MaxFaults
    /\ Leave(w)
    /\ cascade' = {e \in cascade : e[3] # w}
    /\ faults' = faults + 1
    /\ UNCHANGED runVars

LoseRequest ==
    /\ faults < MaxFaults
    /\ cascade' = {e \in cascade : e[3] # None}
    /\ faults' = faults + 1
    /\ UNCHANGED <<runVars, wk>>

\* RecoverExpiredRunWorkers, for a run that was between two commands
RecoverRun(r) ==
    /\ run[r] = "running"
    /\ \A w \in Workers : wk[w].run # r
    /\ run' = [run EXCEPT ![r] = "queued"]
    /\ bridge' = [c \in Children |->
                    IF c \in Kids(r) /\ bridge[c] = "running" THEN "queued" ELSE bridge[c]]
    /\ UNCHANGED <<flagged, cascade, wk, faults>>

WorkerStep(w) ==
    \/ ListCompleted(w) \/ SettleChildPipeline(w) \/ ClaimNextQueuedRun(w)
    \/ PassFinishedBridge(w) \/ StartChild(w) \/ MeetStartedChild(w)
    \/ FinishAsyncBridge(w) \/ FinishRun(w)

CascadeStep == \E e \in cascade : CommitCancellation(e) \/ CascadeChildPipelineCancellation(e)

Next ==
    \/ \E r \in Runs : EnqueueRun(r) \/ CancelByOperator(r) \/ RecoverRun(r)
    \/ \E w \in Workers : WorkerStep(w) \/ Crash(w)
    \/ CascadeStep \/ LoseRequest

Spec == Init /\ [][Next]_vars

\* Workers go on, requests in flight are served, expired leases are recovered.
FairSpec ==
    /\ Spec
    /\ \A w \in Workers : WF_vars(WorkerStep(w))
    /\ \A r \in Runs : WF_vars(RecoverRun(r))
    /\ WF_vars(CascadeStep)

-----------------------------------------------------------------------------
(* Properties *)

\* Every variable holds what its column or its goroutine may hold.
PipelineTypeOK ==
    /\ run \in [Runs -> Terminal \cup {"absent", "queued", "running", "waiting"}]
    /\ \A k \in Children :
         bridge[k] \in Terminal \cup {"queued", IF k \in Mirrored THEN "waiting" ELSE "running"}
    /\ cascade \subseteq {"request", "list"} \X Runs \X (Workers \cup {None})
    /\ \A w \in Workers : wk[w].run \in Runs \cup {None} /\ wk[w].links \subseteq Children

\* A list of finished children that two workers share is acted on twice: the
\* second time, the parent may wait for another of its bridges by then.  It
\* cannot with one worker, or if each run has one such bridge.
ListsStayFresh ==
    \/ \A v, w \in Workers : v = w
    \/ \A c, d \in Mirrored : Parent(c) = Parent(d) => c = d

\* A run waits exactly while one of its bridges does, so that the reconciler
\* can wake it (insertChildPipelineLink, ReconcileCompletedChildPipelines).
WaitingParentHasBridge ==
    ListsStayFresh => \A r \in Runs : run[r] = "waiting" <=> \E c \in Kids(r) : bridge[c] = "waiting"

\* A mirroring bridge tells what its child did, and a parent succeeds only if
\* all its mirrored children did (ReconcileCompletedChildPipelines).
MirrorsAreHonest ==
    \A c \in Mirrored :
       /\ bridge[c] = "succeeded" => run[c] = "succeeded"
       /\ run[Parent(c)] = "succeeded" => run[c] = "succeeded"

\* Parents and children agree about each other (insertChildPipelineLink,
\* ReconcileCompletedChildPipelines).
PipelinesAgree == PipelineTypeOK /\ WaitingParentHasBridge /\ MirrorsAreHonest

\* Every run of a tree comes to its end (ReconcileCompletedChildPipelines:
\* "makes a crash after child completion recoverable").
TreeSettles == ListsStayFresh => \A r \in Runs : run[r] # "absent" ~> run[r] \in Terminal
=============================================================================
