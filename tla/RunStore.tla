------------------------------ MODULE RunStore ------------------------------
(***************************************************************************)
(* The execution tables of the SQLite store and the transactions over them *)
(* (internal/store/execution.go, execution_waits.go, manual_jobs.go and    *)
(* job_attempts.go).  One action is one committed transaction, or one      *)
(* compare-and-set UPDATE; a transaction that returns an error changes     *)
(* nothing and is a disabled action.                                       *)
(*                                                                         *)
(* Environments, deployments, child pipelines and log lines live in other  *)
(* tables and are not part of this module.                                 *)
(*                                                                         *)
(* A definition marked "Mutant" is a bug that could have been made in the  *)
(* next one; no specification uses it (README, section Mutants).           *)
(***************************************************************************)
EXTENDS Naturals, Sequences

CONSTANTS
    Runs,         \* rows of table runs that may ever be enqueued
    Jobs,         \* rows of table jobs
    Steps,        \* rows of table steps
    Workers,      \* worker identifiers ("local-<pid>")
    None,         \* SQL NULL, and "no row" where a table is keyed by run
    RunOf,        \* jobs.run_id
    JobOf,        \* steps.job_id
    MaxAttempts   \* bound: rows of job_attempts, by job

ASSUME GraphAssumption ==
    /\ RunOf \in [Jobs -> Runs]
    /\ JobOf \in [Steps -> Jobs]
ASSUME NoneAssumption == None \notin Workers
ASSUME BoundAssumption == MaxAttempts \in [Jobs -> Nat]

VARIABLES
    arrivals,      \* run ids ordered by created_at
    runStatus, cancelRequested, claimedBy,
    jobStatus, stepStatus,
    leaseOwner,    \* run_worker_leases.worker_id
    overdue,       \* the lease's expires_at, or claimed_at + TTL without one, passed
    waitReason,    \* job_waits.reason; "none" when there is no row
    manualState,   \* manual_job_states.blocking; "none" when there is no row
    played,        \* jobs with a manual_job_plays row
    attemptNo,     \* highest job_attempts.attempt_number
    attemptStatus  \* of that attempt; "retry" is failed with will_retry = 1

runVars     == <<arrivals, runStatus, cancelRequested, claimedBy>>
leaseVars   == <<leaseOwner, overdue>>
manualVars  == <<manualState, played>>
attemptVars == <<attemptNo, attemptStatus>>
storeVars   == <<runVars, jobStatus, stepStatus, leaseVars, waitReason,
                 manualVars, attemptVars>>

Terminal == {"succeeded", "failed", "cancelled", "skipped"}
Status   == Terminal \cup {"queued", "waiting", "manual", "running"}
Absent   == "absent"     \* the row has not been inserted yet

CanTransition(current, next) ==
    \/ /\ current = "queued"
       /\ next \in {"waiting", "manual", "running", "failed", "cancelled", "skipped"}
    \/ /\ current = "waiting"
       /\ next \in {"queued", "failed", "cancelled", "skipped"}
    \/ /\ current = "manual"
       /\ next \in {"queued", "cancelled", "skipped"}
    \/ /\ current = "running"
       /\ next \in Terminal

\* Mutant: an inner join with steps loses the jobs that have none.
JobsWithSteps(r) == {j \in Jobs : RunOf[j] = r /\ \E s \in Steps : JobOf[s] = j}
JobsOf(r)    == {j \in Jobs : RunOf[j] = r}
StepsOf(j)   == {s \in Steps : JobOf[s] = j}
RunOfStep(s) == RunOf[JobOf[s]]

\* UPDATE ... SET status = to WHERE row \in rows AND status IN (from)
SetStatus(table, rows, from, to) ==
    [x \in DOMAIN table |->
        IF x \in rows /\ table[x] \in from THEN to ELSE table[x]]

StoreInit ==
    /\ arrivals = <<>>
    /\ runStatus = [r \in Runs |-> Absent]
    /\ cancelRequested = [r \in Runs |-> FALSE]
    /\ claimedBy = [r \in Runs |-> None]
    /\ jobStatus = [j \in Jobs |-> Absent]
    /\ stepStatus = [s \in Steps |-> Absent]
    /\ leaseOwner = [r \in Runs |-> None]
    /\ overdue = [r \in Runs |-> FALSE]
    /\ waitReason = [j \in Jobs |-> "none"]
    /\ manualState = [j \in Jobs |-> "none"]
    /\ played = {}
    /\ attemptNo = [j \in Jobs |-> 0]
    /\ attemptStatus = [j \in Jobs |-> "none"]

-----------------------------------------------------------------------------
(* Enqueue and claim *)

EnqueueRun(r) ==
    /\ runStatus[r] = Absent
    /\ arrivals' = Append(arrivals, r)
    /\ runStatus' = [runStatus EXCEPT ![r] = "queued"]
    /\ jobStatus' = SetStatus(jobStatus, JobsOf(r), {Absent}, "queued")
    /\ stepStatus' = [s \in Steps |-> IF RunOfStep(s) = r THEN "queued" ELSE stepStatus[s]]
    /\ UNCHANGED <<cancelRequested, claimedBy, leaseVars, waitReason, manualVars, attemptVars>>

\* Mutant: the claim takes waiting runs too.
ClaimableOrWaiting(r) == runStatus[r] \in {"queued", "waiting"} /\ ~cancelRequested[r]
Claimable(r) == runStatus[r] = "queued" /\ ~cancelRequested[r]

\* claimed_at restarts the orphan deadline unless a lease row is still there
ClaimNextQueuedRun(w) ==
    \E i \in 1..Len(arrivals) :
      LET r == arrivals[i] IN
        /\ Claimable(r)
        /\ \A k \in 1..(i - 1) : ~Claimable(arrivals[k])
        /\ runStatus' = [runStatus EXCEPT ![r] = "running"]
        /\ claimedBy' = [claimedBy EXCEPT ![r] = w]
        /\ overdue' = [overdue EXCEPT ![r] = @ /\ leaseOwner[r] # None]
        /\ UNCHANGED <<arrivals, cancelRequested, jobStatus, stepStatus, leaseOwner,
                       waitReason, manualVars, attemptVars>>

-----------------------------------------------------------------------------
(* Compare-and-set status transitions *)

TransitionRun(r, next) ==
    /\ CanTransition(runStatus[r], next)
    /\ runStatus' = [runStatus EXCEPT ![r] = next]
    /\ UNCHANGED <<arrivals, cancelRequested, claimedBy, jobStatus, stepStatus, leaseVars,
                   waitReason, manualVars, attemptVars>>

TransitionJob(j, next) ==
    /\ CanTransition(jobStatus[j], next)
    /\ jobStatus' = [jobStatus EXCEPT ![j] = next]
    /\ UNCHANGED <<runVars, stepStatus, leaseVars, waitReason, manualVars, attemptVars>>

TransitionStep(s, next) ==
    /\ CanTransition(stepStatus[s], next)
    /\ stepStatus' = [stepStatus EXCEPT ![s] = next]
    /\ UNCHANGED <<runVars, jobStatus, leaseVars, waitReason, manualVars, attemptVars>>

-----------------------------------------------------------------------------
(* Cancellation *)

\* Mutant: the rows outlive the waits of a cancelled run.
KeepWaits(r) == waitReason
DeleteWaits(r) == [j \in Jobs |-> IF RunOf[j] = r THEN "none" ELSE waitReason[j]]

RequestRunCancellation(r) ==
    /\ ~cancelRequested[r]
    /\ runStatus[r] \in {"queued", "waiting", "running"}
    /\ cancelRequested' = [cancelRequested EXCEPT ![r] = TRUE]
    /\ \/ /\ runStatus[r] = "running"
          /\ UNCHANGED <<runStatus, jobStatus, stepStatus, waitReason, leaseOwner>>
       \/ /\ runStatus[r] # "running"
          /\ runStatus' = [runStatus EXCEPT ![r] = "cancelled"]
          /\ stepStatus' = SetStatus(stepStatus, {s \in Steps : RunOfStep(s) = r},
                                     {"queued"}, "skipped")
          /\ jobStatus' = SetStatus(jobStatus, JobsOf(r), {"queued", "waiting"}, "cancelled")
          /\ waitReason' = DeleteWaits(r)
          /\ leaseOwner' = [leaseOwner EXCEPT ![r] = None]
    /\ UNCHANGED <<arrivals, claimedBy, overdue, manualVars, attemptVars>>

-----------------------------------------------------------------------------
(* Worker leases and recovery *)

\* The row belongs to w or to nobody, and the claim triggers accept w.
HeartbeatRunWorker(r, w) ==
    /\ leaseOwner[r] \in {None, w}
    /\ runStatus[r] = "running"
    /\ claimedBy[r] = w
    /\ leaseOwner' = [leaseOwner EXCEPT ![r] = w]
    /\ overdue' = [overdue EXCEPT ![r] = FALSE]
    /\ UNCHANGED <<runVars, jobStatus, stepStatus, waitReason, manualVars, attemptVars>>

ReleaseRunWorker(r, w) ==
    /\ leaseOwner' = [leaseOwner EXCEPT ![r] = IF @ = w THEN None ELSE @]
    /\ UNCHANGED <<runVars, jobStatus, stepStatus, overdue, waitReason, manualVars, attemptVars>>

\* Time passes beyond the deadline of run r.
LeaseExpires(r) ==
    /\ runStatus[r] = "running" \/ leaseOwner[r] # None
    /\ overdue' = [overdue EXCEPT ![r] = TRUE]
    /\ UNCHANGED <<runVars, jobStatus, stepStatus, leaseOwner, waitReason, manualVars, attemptVars>>

\* Mutant: every lease that ran out is recovered, whatever became of its run.
ExpiredLease(r)  == overdue[r]
Expired(r)       == runStatus[r] = "running" /\ overdue[r]
HasActiveStep(r) == \E s \in Steps : RunOfStep(s) = r /\ stepStatus[s] = "running"
Interrupted(r)   == Expired(r) /\ HasActiveStep(r)
Requeued(r)      == Expired(r) /\ ~HasActiveStep(r)

\* Mutants: an invented status; interrupted rows start over.
InterruptOddly(status)   == IF status = "running" THEN "interrupted" ELSE status
InterruptRequeue(status) == IF status = "running" THEN "queued" ELSE status
\* failInterruptedRun: active rows fail, pending rows are skipped
Interrupt(status) ==
    IF status = "running" THEN "failed" ELSE IF status = "queued" THEN "skipped" ELSE status

RecoverExpiredRunWorkers ==
    /\ \E r \in Runs : Expired(r)
    /\ runStatus' = [r \in Runs |-> IF Interrupted(r) THEN "failed"
                                   ELSE IF Requeued(r) THEN "queued" ELSE runStatus[r]]
    /\ claimedBy' = [r \in Runs |-> IF Requeued(r) THEN None ELSE claimedBy[r]]
    /\ jobStatus' = [j \in Jobs |->
                       IF Interrupted(RunOf[j]) THEN Interrupt(jobStatus[j])
                       ELSE IF Requeued(RunOf[j]) /\ jobStatus[j] = "running" THEN "queued"
                       ELSE jobStatus[j]]
    /\ stepStatus' = [s \in Steps |-> IF Interrupted(RunOfStep(s))
                                        THEN Interrupt(stepStatus[s]) ELSE stepStatus[s]]
    /\ leaseOwner' = [r \in Runs |-> IF Expired(r) THEN None ELSE leaseOwner[r]]
    /\ overdue' = [r \in Runs |-> ~Expired(r) /\ overdue[r]]
    /\ UNCHANGED <<arrivals, cancelRequested, waitReason, manualVars, attemptVars>>

-----------------------------------------------------------------------------
(* Durable waits *)

PauseJob(j, reason) ==
    LET r == RunOf[j] IN
    /\ runStatus[r] = "running"
    /\ jobStatus[j] \in {"queued", "waiting"}
    /\ jobStatus' = [jobStatus EXCEPT ![j] = "waiting"]
    /\ runStatus' = [runStatus EXCEPT ![r] = "waiting"]
    /\ claimedBy' = [claimedBy EXCEPT ![r] = None]
    /\ waitReason' = [waitReason EXCEPT ![j] = reason]
    /\ leaseOwner' = [leaseOwner EXCEPT ![r] = None]
    /\ UNCHANGED <<arrivals, cancelRequested, stepStatus, overdue, manualVars, attemptVars>>

ResumeJob(j) ==
    LET r == RunOf[j] IN
    /\ jobStatus[j] = "waiting"
    /\ jobStatus' = [jobStatus EXCEPT ![j] = "queued"]
    /\ runStatus' = [runStatus EXCEPT ![r] = IF @ = "waiting" THEN "queued" ELSE @]
    /\ waitReason' = [waitReason EXCEPT ![j] = "none"]
    /\ UNCHANGED <<arrivals, cancelRequested, claimedBy, stepStatus, leaseVars,
                   manualVars, attemptVars>>

-----------------------------------------------------------------------------
(* Manual jobs *)

\* Mutant: an optional job gives the claim away while its run goes on.
PauseManualJobUnclaim(j, blocking) ==
    LET r == RunOf[j] IN
    /\ jobStatus[j] = "queued"
    /\ runStatus[r] = "running"
    /\ manualState[j] = "none"
    /\ manualState' = [manualState EXCEPT ![j] = IF blocking THEN "blocking" ELSE "optional"]
    /\ jobStatus' = [jobStatus EXCEPT ![j] = "manual"]
    /\ runStatus' = [runStatus EXCEPT ![r] = IF blocking THEN "waiting" ELSE @]
    /\ claimedBy' = [claimedBy EXCEPT ![r] = None]
    /\ UNCHANGED <<arrivals, cancelRequested, stepStatus, leaseVars, waitReason, played,
                   attemptVars>>

\* Neither the claim nor the lease is cleared here.
PauseManualJob(j, blocking) ==
    LET r == RunOf[j] IN
    /\ jobStatus[j] = "queued"
    /\ runStatus[r] = "running"
    /\ manualState[j] = "none"
    /\ manualState' = [manualState EXCEPT ![j] = IF blocking THEN "blocking" ELSE "optional"]
    /\ jobStatus' = [jobStatus EXCEPT ![j] = "manual"]
    /\ runStatus' = [runStatus EXCEPT ![r] = IF blocking THEN "waiting" ELSE @]
    /\ UNCHANGED <<arrivals, cancelRequested, claimedBy, stepStatus, leaseVars, waitReason,
                   played, attemptVars>>

PlayManualJob(j) ==
    LET r == RunOf[j] IN
    /\ jobStatus[j] = "manual"
    /\ \/ manualState[j] = "blocking" /\ runStatus[r] = "waiting"
       \/ manualState[j] = "optional" /\ runStatus[r] = "succeeded"
    /\ ~cancelRequested[r]
    /\ played' = played \cup {j}
    /\ jobStatus' = [jobStatus EXCEPT ![j] = "queued"]
    /\ stepStatus' = SetStatus(stepStatus, StepsOf(j), {"skipped"}, "queued")
    /\ runStatus' = [runStatus EXCEPT ![r] = "queued"]
    /\ claimedBy' = [claimedBy EXCEPT ![r] = None]
    /\ UNCHANGED <<arrivals, cancelRequested, leaseVars, waitReason, manualState, attemptVars>>

-----------------------------------------------------------------------------
(* Job attempts *)

StartJobAttempt(j) ==
    /\ jobStatus[j] = "queued"
    /\ attemptNo[j] < MaxAttempts[j]
    /\ attemptNo' = [attemptNo EXCEPT ![j] = @ + 1]
    /\ attemptStatus' = [attemptStatus EXCEPT ![j] = "running"]
    /\ UNCHANGED <<runVars, jobStatus, stepStatus, leaseVars, waitReason, manualVars>>

FinishJobAttempt(j, willRetry) ==
    /\ attemptStatus[j] = "running"
    /\ attemptStatus' = [attemptStatus EXCEPT ![j] = IF willRetry THEN "retry" ELSE "finished"]
    /\ UNCHANGED <<runVars, jobStatus, stepStatus, leaseVars, waitReason, manualVars, attemptNo>>

ResetJobForRetry(j) ==
    /\ attemptStatus[j] = "retry"
    /\ jobStatus[j] = "failed"
    /\ jobStatus' = [jobStatus EXCEPT ![j] = "queued"]
    /\ stepStatus' = [s \in Steps |-> IF JobOf[s] = j THEN "queued" ELSE stepStatus[s]]
    /\ UNCHANGED <<runVars, leaseVars, waitReason, manualVars, attemptVars>>

-----------------------------------------------------------------------------
(***************************************************************************)
(* The callers, in any order.  The manager is the only caller of the       *)
(* Transition functions: it moves a run it is executing (status running),  *)
(* and a queued, running or, when it skips all jobs of a run it executes,  *)
(* manual job; it never asks for waiting, manual or queued as the next     *)
(* status (manager.go, retry.go, child_pipelines.go).                      *)
(***************************************************************************)
Requested == Terminal \cup {"running"}

ManagerStep ==
    \/ \E w \in Workers : ClaimNextQueuedRun(w)
    \/ \E r \in Runs, next \in Terminal : runStatus[r] = "running" /\ TransitionRun(r, next)
    \/ \E j \in Jobs, next \in Requested :
         /\ \/ jobStatus[j] \in {"queued", "running"}
            \/ jobStatus[j] = "manual" /\ runStatus[RunOf[j]] = "running"
         /\ TransitionJob(j, next)
    \/ \E s \in Steps, next \in Requested : TransitionStep(s, next)
    \/ \E r \in Runs, w \in Workers : HeartbeatRunWorker(r, w) \/ ReleaseRunWorker(r, w)
    \/ RecoverExpiredRunWorkers
    \/ \E j \in Jobs, reason \in {"gate", "concurrency"} : PauseJob(j, reason)
    \/ \E j \in Jobs : ResumeJob(j)
    \/ \E j \in Jobs, blocking \in BOOLEAN : PauseManualJob(j, blocking)
    \/ \E j \in Jobs : StartJobAttempt(j) \/ ResetJobForRetry(j)
    \/ \E j \in Jobs, willRetry \in BOOLEAN : FinishJobAttempt(j, willRetry)

ApiStep ==
    \/ \E r \in Runs : EnqueueRun(r) \/ RequestRunCancellation(r)
    \/ \E j \in Jobs : PlayManualJob(j)

StoreNext == ManagerStep \/ ApiStep \/ \E r \in Runs : LeaseExpires(r)

StoreSpec == StoreInit /\ [][StoreNext]_storeVars

-----------------------------------------------------------------------------
(* Properties *)

\* Every row holds a status, and a key column names an existing row.
TypeOK ==
    /\ arrivals \in Seq(Runs)
    /\ runStatus \in [Runs -> (Status \ {"manual"}) \cup {Absent}]
    /\ cancelRequested \in [Runs -> BOOLEAN]
    /\ claimedBy \in [Runs -> Workers \cup {None}]
    /\ jobStatus \in [Jobs -> Status \cup {Absent}]
    /\ stepStatus \in [Steps -> Status \cup {Absent}]
    /\ leaseOwner \in [Runs -> Workers \cup {None}]
    /\ overdue \in [Runs -> BOOLEAN]
    /\ waitReason \in [Jobs -> {"none", "gate", "concurrency"}]
    /\ manualState \in [Jobs -> {"none", "blocking", "optional"}]
    /\ played \in SUBSET Jobs
    /\ attemptNo \in [Jobs -> Nat]
    /\ attemptStatus \in [Jobs -> {"none", "running", "finished", "retry"}]

\* A run and its jobs and steps are inserted by one transaction and never deleted:
\* nobody meets a run whose graph is missing or half there (EnqueueRun).
GraphExistsWithRun ==
    /\ \A j \in Jobs : jobStatus[j] = Absent <=> runStatus[RunOf[j]] = Absent
    /\ \A s \in Steps : stepStatus[s] = Absent <=> runStatus[RunOfStep(s)] = Absent

\* A job that holds its run back: only ResumeJob or PlayManualJob moves it on.
Parked(j) ==
    \/ jobStatus[j] = "waiting"
    \/ jobStatus[j] = "manual" /\ manualState[j] = "blocking"

\* A waiting run has exactly one parked job, so there is always somebody who
\* can wake it and waking that job is enough; a run that may be claimed or is
\* being executed has none (PauseJob, PauseManualJob, ResumeJob, PlayManualJob).
WaitingRunHasOneWaker ==
    /\ \A r \in Runs : runStatus[r] = "waiting" => \E j \in Jobs : RunOf[j] = r /\ Parked(j)
    /\ \A j \in Jobs : Parked(j) => runStatus[RunOf[j]] \in {"waiting", "cancelled"}
    /\ \A j, k \in Jobs : Parked(j) /\ Parked(k) /\ RunOf[j] = RunOf[k] => j = k

\* job_waits and jobs.status tell the same story, so the resume pass never
\* meets a row whose job or whose run has moved on (ListJobWaits, ResumeJob).
\* Bridge jobs of child pipelines, which wait without a row, are not modelled.
WaitRowsMatchJobs ==
    \A j \in Jobs :
        /\ waitReason[j] # "none" <=> jobStatus[j] = "waiting"
        /\ jobStatus[j] = "waiting" => runStatus[RunOf[j]] = "waiting"

\* A run that is being executed was claimed by somebody: recovery, which looks
\* for lost claims only, can therefore always find it (ClaimNextQueuedRun).
RunningRunIsClaimed == \A r \in Runs : runStatus[r] = "running" => claimedBy[r] # None

\* The inductive invariant behind the safety properties of the store.
StoreInv ==
    /\ TypeOK
    /\ GraphExistsWithRun
    /\ WaitingRunHasOneWaker
    /\ WaitRowsMatchJobs
    /\ RunningRunIsClaimed

\* Failed, cancelled and skipped runs are final whatever late worker, recovery
\* pass or operator acts; a succeeded run is reopened only by playing one of
\* its optional manual jobs (canTransition, PlayManualJob, RecoverExpiredRunWorkers).
DecidedRunsStayDecided ==
    [][\A r \in Runs :
        /\ runStatus[r] \in {"failed", "cancelled", "skipped"} => runStatus'[r] = runStatus[r]
        /\ runStatus[r] = "succeeded" /\ runStatus'[r] # "succeeded" =>
             /\ runStatus'[r] = "queued"
             /\ \E j \in Jobs : RunOf[j] = r /\ manualState[j] = "optional" /\ j \in played'
      ]_storeVars

\* A step whose command has been started is made startable again only by the
\* automatic retry of its failed job: not by recovery, resume or a manual play
\* ("command was not replayed", execution_waits.go failInterruptedRun).
CommandNeverReplayed ==
    [][\A s \in Steps :
        stepStatus[s] \in {"running", "succeeded", "failed", "cancelled"}
          /\ stepStatus'[s] \in {"queued", "running"} /\ stepStatus'[s] # stepStatus[s] =>
               jobStatus[JobOf[s]] = "failed" /\ attemptStatus[JobOf[s]] = "retry"
      ]_storeVars
=============================================================================
