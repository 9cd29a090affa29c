----------------------- MODULE ExecutionManager_proofs -----------------------
(***************************************************************************)
(* Proofs about the transactions of the store, for any number of runs,     *)
(* jobs, steps and workers, and about the execution worker, for any job    *)
(* graph and any number of faults besides.                                 *)
(*                                                                         *)
(* First the store, for any caller: StoreInv is inductive under StoreNext. *)
(* ManagerInv is the invariant of the worker.  Its proof goes in layers:   *)
(* - the Fields lemmas say what an assignment to the local variables does, *)
(*   the Moves lemmas what each action does to them and which transaction  *)
(*   it makes; what follows cites these and not the actions;               *)
(* - StoreRefinement: every step is one that the store allows, so that the *)
(*   invariant of the store holds here too;                                *)
(* - the frame lemmas (ElsewhereFrame, AtJobFrame, JobChanges,             *)
(*   StepChanges, HeldBefore) bound what a step can disturb;               *)
(* - one Step lemma per part of the invariant, and the theorems.           *)
(***************************************************************************)
EXTENDS ExecutionManager, TLAPS

-----------------------------------------------------------------------------
(* The transactions of the store *)

\* SetStatus keeps the domain and moves rows to the new status or not at all.
LEMMA SetStatusType ==
    ASSUME NEW Rows, NEW S, NEW table \in [Rows -> S], NEW rows, NEW from, NEW to \in S
    PROVE  SetStatus(table, rows, from, to) \in [Rows -> S]
BY DEF SetStatus

\* No transaction writes a value that its column does not hold.
LEMMA TypeStep ==
    ASSUME TypeOK, [StoreNext]_storeVars
    PROVE  TypeOK'
<1> USE DEF TypeOK, Status, Terminal, Absent, runVars, leaseVars, manualVars, attemptVars
<1>1. ASSUME NEW w \in Workers, ClaimNextQueuedRun(w) PROVE TypeOK'
  BY <1>1 DEF ClaimNextQueuedRun
<1>2. ASSUME NEW r \in Runs, NEW next \in Terminal, TransitionRun(r, next) PROVE TypeOK'
  BY <1>2 DEF TransitionRun
<1>3. ASSUME NEW j \in Jobs, NEW next \in Requested, TransitionJob(j, next) PROVE TypeOK'
  BY <1>3 DEF TransitionJob, Requested
<1>4. ASSUME NEW s \in Steps, NEW next \in Requested, TransitionStep(s, next) PROVE TypeOK'
  BY <1>4 DEF TransitionStep, Requested
<1>5a. ASSUME NEW r \in Runs, NEW w \in Workers, HeartbeatRunWorker(r, w) PROVE TypeOK'
  BY <1>5a DEF HeartbeatRunWorker
<1>5b. ASSUME NEW r \in Runs, NEW w \in Workers, ReleaseRunWorker(r, w) PROVE TypeOK'
  BY <1>5b DEF ReleaseRunWorker
<1>6. ASSUME RecoverExpiredRunWorkers PROVE TypeOK'
  <2>1. runStatus' \in [Runs -> (Status \ {"manual"}) \cup {Absent}]
    BY <1>6 DEF RecoverExpiredRunWorkers
  <2>2. ASSUME NEW status \in Status \cup {Absent}
        PROVE  Interrupt(status) \in Status \cup {Absent}
    BY DEF Interrupt
  <2>3. jobStatus' \in [Jobs -> Status \cup {Absent}]
    BY <1>6, <2>2 DEF RecoverExpiredRunWorkers
  <2>4. stepStatus' \in [Steps -> Status \cup {Absent}]
    BY <1>6, <2>2 DEF RecoverExpiredRunWorkers
  <2>5. /\ claimedBy' \in [Runs -> Workers \cup {None}]
        /\ leaseOwner' \in [Runs -> Workers \cup {None}]
    BY <1>6 DEF RecoverExpiredRunWorkers
  <2>6. overdue' \in [Runs -> BOOLEAN]
    BY <1>6 DEF RecoverExpiredRunWorkers, Expired
  <2> QED
    BY <1>6, <2>1, <2>3, <2>4, <2>5, <2>6 DEF RecoverExpiredRunWorkers
<1>7. ASSUME NEW j \in Jobs, NEW reason \in {"gate", "concurrency"}, PauseJob(j, reason)
      PROVE  TypeOK'
  BY <1>7 DEF PauseJob
<1>8. ASSUME NEW j \in Jobs, ResumeJob(j) PROVE TypeOK'
  BY <1>8 DEF ResumeJob
<1>9. ASSUME NEW j \in Jobs, NEW blocking \in BOOLEAN, PauseManualJob(j, blocking) PROVE TypeOK'
  BY <1>9 DEF PauseManualJob
<1>10a. ASSUME NEW j \in Jobs, StartJobAttempt(j) PROVE TypeOK'
  BY <1>10a DEF StartJobAttempt
<1>10b. ASSUME NEW j \in Jobs, ResetJobForRetry(j) PROVE TypeOK'
  BY <1>10b DEF ResetJobForRetry
<1>11. ASSUME NEW j \in Jobs, NEW willRetry \in BOOLEAN, FinishJobAttempt(j, willRetry)
       PROVE  TypeOK'
  BY <1>11 DEF FinishJobAttempt
<1>12. ASSUME NEW r \in Runs, EnqueueRun(r) PROVE TypeOK'
  <2>1. jobStatus' \in [Jobs -> Status \cup {Absent}]
    BY <1>12, SetStatusType DEF EnqueueRun
  <2> QED BY <1>12, <2>1 DEF EnqueueRun
<1>13. ASSUME NEW r \in Runs, RequestRunCancellation(r) PROVE TypeOK'
  <2> DEFINE pending == SetStatus(jobStatus, JobsOf(r), {"queued", "waiting"}, "cancelled")
             skipped == SetStatus(stepStatus, {s \in Steps : RunOfStep(s) = r},
                                  {"queued"}, "skipped")
  <2>1. pending \in [Jobs -> Status \cup {Absent}] /\ skipped \in [Steps -> Status \cup {Absent}]
    BY SetStatusType
  <2>2. /\ jobStatus' \in [Jobs -> Status \cup {Absent}]
        /\ stepStatus' \in [Steps -> Status \cup {Absent}]
    BY <1>13, <2>1 DEF RequestRunCancellation
  <2> HIDE DEF pending, skipped
  <2>3. runStatus' \in [Runs -> (Status \ {"manual"}) \cup {Absent}]
    <3>1. runStatus' \in {runStatus, [runStatus EXCEPT ![r] = "cancelled"]}
      BY <1>13 DEF RequestRunCancellation
    <3> QED BY <3>1
  <2>4. waitReason' \in [Jobs -> {"none", "gate", "concurrency"}]
    BY <1>13 DEF RequestRunCancellation, DeleteWaits
  <2>5. leaseOwner' \in [Runs -> Workers \cup {None}]
    BY <1>13 DEF RequestRunCancellation
  <2>6. /\ cancelRequested' \in [Runs -> BOOLEAN]
        /\ UNCHANGED <<arrivals, claimedBy, overdue, manualVars, attemptVars>>
    BY <1>13 DEF RequestRunCancellation
  <2> QED BY <2>2, <2>3, <2>4, <2>5, <2>6
<1>14. ASSUME NEW j \in Jobs, PlayManualJob(j) PROVE TypeOK'
  <2>1. stepStatus' \in [Steps -> Status \cup {Absent}]
    BY <1>14, SetStatusType DEF PlayManualJob
  <2> QED BY <1>14, <2>1 DEF PlayManualJob
<1>15. ASSUME NEW r \in Runs, LeaseExpires(r) PROVE TypeOK'
  BY <1>15 DEF LeaseExpires
<1>16. CASE UNCHANGED storeVars
  BY <1>16 DEF storeVars
<1> QED
  BY <1>1, <1>2, <1>3, <1>4, <1>5a, <1>5b, <1>6, <1>7, <1>8, <1>9, <1>10a, <1>10b, <1>11, <1>12,
     <1>13, <1>14, <1>15, <1>16 DEF StoreNext, ManagerStep, ApiStep

\* Every row holds a status and every key column names an existing row, after
\* any sequence of store transactions.
THEOREM TypeCorrect == StoreSpec => []TypeOK
<1>1. StoreInit => TypeOK
  BY DEF StoreInit, TypeOK, Absent, Status, Terminal
<1>2. TypeOK /\ [StoreNext]_storeVars => TypeOK'
  BY TypeStep
<1> QED
  BY <1>1, <1>2, PTL DEF StoreSpec

-----------------------------------------------------------------------------
(* The safety invariant *)

LEMMA RowKeys ==
    /\ \A j \in Jobs : RunOf[j] \in Runs
    /\ \A s \in Steps : JobOf[s] \in Jobs /\ RunOfStep(s) \in Runs
BY GraphAssumption DEF RunOfStep

\* What is left of an interrupted row is final.
LEMMA InterruptedStatus ==
    ASSUME NEW status \in Status \cup {Absent}
    PROVE  /\ Interrupt(status) \in {"waiting", "manual"} => Interrupt(status) = status
           /\ Interrupt(status) = Absent <=> status = Absent
           /\ Interrupt(status) \notin {"queued", "running"}
BY DEF Interrupt, Status, Terminal, Absent

USE DEF runVars, leaseVars, manualVars, attemptVars

\* The graph of a run is there as long as the run.
LEMMA GraphStep ==
    ASSUME StoreInv, StoreNext
    PROVE  GraphExistsWithRun'
<1> USE RowKeys DEF StoreInv, TypeOK, GraphExistsWithRun, Status, Terminal, Absent, CanTransition
<1>1. ASSUME NEW r \in Runs, EnqueueRun(r) PROVE GraphExistsWithRun'
  BY <1>1 DEF EnqueueRun, SetStatus, JobsOf, RunOfStep
<1>2. ASSUME NEW r \in Runs, RequestRunCancellation(r) PROVE GraphExistsWithRun'
  <2>1. CASE runStatus[r] = "running"
    BY <1>2, <2>1 DEF RequestRunCancellation, RunOfStep
  <2>2. CASE runStatus[r] # "running"
    <3>1. ASSUME NEW j \in Jobs PROVE jobStatus'[j] = Absent <=> jobStatus[j] = Absent
      <4>1. jobStatus' = SetStatus(jobStatus, JobsOf(r), {"queued", "waiting"}, "cancelled")
        BY <1>2, <2>2 DEF RequestRunCancellation
      <4> QED BY <4>1 DEF SetStatus
    <3>2. ASSUME NEW s \in Steps PROVE stepStatus'[s] = Absent <=> stepStatus[s] = Absent
      <4>1. stepStatus' = SetStatus(stepStatus, {t \in Steps : RunOfStep(t) = r},
                                    {"queued"}, "skipped")
        BY <1>2, <2>2 DEF RequestRunCancellation
      <4> QED BY <4>1 DEF SetStatus
    <3>3. ASSUME NEW q \in Runs PROVE runStatus'[q] = Absent <=> runStatus[q] = Absent
      BY <1>2, <2>2 DEF RequestRunCancellation
    <3>4. ASSUME NEW j \in Jobs PROVE jobStatus'[j] = Absent <=> runStatus'[RunOf[j]] = Absent
      BY <3>1, <3>3
    <3>5. ASSUME NEW s \in Steps PROVE stepStatus'[s] = Absent <=> runStatus'[RunOfStep(s)] = Absent
      BY <3>2, <3>3
    <3> QED BY <3>4, <3>5 DEF RunOfStep
  <2> QED BY <2>1, <2>2
<1>3. ASSUME NEW j \in Jobs, PlayManualJob(j) PROVE GraphExistsWithRun'
  BY <1>3 DEF PlayManualJob, SetStatus, StepsOf, RunOfStep
<1>4. ASSUME RecoverExpiredRunWorkers PROVE GraphExistsWithRun'
  <2>1. ASSUME NEW j \in Jobs PROVE jobStatus'[j] = Absent <=> jobStatus[j] = Absent
    BY <1>4, InterruptedStatus DEF RecoverExpiredRunWorkers
  <2>2. ASSUME NEW s \in Steps PROVE stepStatus'[s] = Absent <=> stepStatus[s] = Absent
    BY <1>4, InterruptedStatus DEF RecoverExpiredRunWorkers
  <2>3. ASSUME NEW q \in Runs PROVE runStatus'[q] = Absent <=> runStatus[q] = Absent
    BY <1>4 DEF RecoverExpiredRunWorkers, Expired, Requeued, Interrupted
  <2> QED BY <2>1, <2>2, <2>3 DEF RunOfStep
<1>5. ASSUME NEW j \in Jobs, ResetJobForRetry(j) PROVE GraphExistsWithRun'
  BY <1>5 DEF ResetJobForRetry, RunOfStep
<1>6. ASSUME NEW w \in Workers, ClaimNextQueuedRun(w) PROVE GraphExistsWithRun'
  BY <1>6 DEF ClaimNextQueuedRun, Claimable, RunOfStep
<1>7. ASSUME NEW r \in Runs, NEW next \in Terminal, TransitionRun(r, next) PROVE GraphExistsWithRun'
  BY <1>7 DEF TransitionRun, RunOfStep
<1>8. ASSUME NEW j \in Jobs, NEW next \in Requested, TransitionJob(j, next)
      PROVE  GraphExistsWithRun'
  BY <1>8 DEF TransitionJob, Requested, RunOfStep
<1>9. ASSUME NEW s \in Steps, NEW next \in Requested, TransitionStep(s, next)
      PROVE  GraphExistsWithRun'
  BY <1>9 DEF TransitionStep, Requested, RunOfStep
<1>10. ASSUME NEW j \in Jobs, NEW reason, PauseJob(j, reason) PROVE GraphExistsWithRun'
  BY <1>10 DEF PauseJob, RunOfStep
<1>11. ASSUME NEW j \in Jobs, ResumeJob(j) PROVE GraphExistsWithRun'
  BY <1>11 DEF ResumeJob, RunOfStep
<1>12. ASSUME NEW j \in Jobs, NEW blocking \in BOOLEAN, PauseManualJob(j, blocking)
       PROVE  GraphExistsWithRun'
  BY <1>12 DEF PauseManualJob, RunOfStep
<1>13. ASSUME UNCHANGED <<runStatus, jobStatus, stepStatus>> PROVE GraphExistsWithRun'
  BY <1>13 DEF RunOfStep
<1> QED
  BY <1>1, <1>2, <1>3, <1>4, <1>5, <1>6, <1>7, <1>8, <1>9, <1>10, <1>11, <1>12, <1>13
  DEF StoreNext, ManagerStep, ApiStep, HeartbeatRunWorker, ReleaseRunWorker, StartJobAttempt,
      FinishJobAttempt, LeaseExpires

\* A step that parks no job, lets no run fall back to waiting, and wakes a parked
\* job's run only together with the job.
LEMMA NothingParked ==
    ASSUME StoreInv,
           \A k \in Jobs : Parked(k)' =>
               Parked(k) /\ runStatus'[RunOf[k]] \in {"waiting", "cancelled"},
           \A q \in Runs : runStatus'[q] = "waiting" =>
               runStatus[q] = "waiting" /\ \A k \in Jobs : RunOf[k] = q /\ Parked(k) => Parked(k)'
    PROVE  WaitingRunHasOneWaker'
<1> USE DEF StoreInv, WaitingRunHasOneWaker
<1>1. ASSUME NEW q \in Runs, runStatus'[q] = "waiting"
      PROVE  \E k \in Jobs : RunOf[k] = q /\ Parked(k)'
  <2>1. PICK k \in Jobs : RunOf[k] = q /\ Parked(k)
    BY <1>1
  <2> QED BY <1>1, <2>1
<1>2. \A j, k \in Jobs : Parked(j)' /\ Parked(k)' /\ RunOf[j] = RunOf[k] => j = k
  OBVIOUS
<1> QED BY <1>1, <1>2

\* A step that parks one job of a running run together with that run.
LEMMA OneJobParked ==
    ASSUME StoreInv, NEW j \in Jobs, runStatus[RunOf[j]] = "running", Parked(j)',
           runStatus' = [runStatus EXCEPT ![RunOf[j]] = "waiting"],
           \A k \in Jobs : k # j => (Parked(k)' <=> Parked(k))
    PROVE  WaitingRunHasOneWaker'
<1> USE RowKeys DEF StoreInv, TypeOK, WaitingRunHasOneWaker
<1>1. ASSUME NEW q \in Runs, runStatus'[q] = "waiting"
      PROVE  \E k \in Jobs : RunOf[k] = q /\ Parked(k)'
  <2>1. CASE q = RunOf[j]
    BY <2>1
  <2>2. CASE q # RunOf[j]
    <3>1. PICK k \in Jobs : RunOf[k] = q /\ Parked(k)
      BY <1>1, <2>2
    <3> QED BY <2>2, <3>1
  <2> QED BY <2>1, <2>2
<1>2. \A k \in Jobs : k # j /\ Parked(k)' => RunOf[k] # RunOf[j]
  OBVIOUS
<1>3. \A k \in Jobs : Parked(k)' => runStatus'[RunOf[k]] \in {"waiting", "cancelled"}
  BY <1>2
<1>4. \A k, l \in Jobs : Parked(k)' /\ Parked(l)' /\ RunOf[k] = RunOf[l] => k = l
  BY <1>2
<1> QED BY <1>1, <1>3, <1>4

\* One parked job per waiting run, and none in a run that moves.
LEMMA WakerStep ==
    ASSUME StoreInv, StoreNext
    PROVE  WaitingRunHasOneWaker'
<1> DEFINE NoNew == \A k \in Jobs : Parked(k)' =>
                       Parked(k) /\ runStatus'[RunOf[k]] \in {"waiting", "cancelled"}
           Kept == \A q \in Runs : runStatus'[q] = "waiting" =>
                       /\ runStatus[q] = "waiting"
                       /\ \A k \in Jobs : RunOf[k] = q /\ Parked(k) => Parked(k)'
<1>9. ASSUME NEW j \in Jobs, NEW reason \in {"gate", "concurrency"}, PauseJob(j, reason)
      PROVE  WaitingRunHasOneWaker'
  <2>1. Parked(j)' /\ \A k \in Jobs : k # j => (Parked(k)' <=> Parked(k))
    BY <1>9 DEF PauseJob, Parked, StoreInv, TypeOK
  <2>2. runStatus[RunOf[j]] = "running" /\ runStatus' = [runStatus EXCEPT ![RunOf[j]] = "waiting"]
    BY <1>9 DEF PauseJob
  <2> QED BY <2>1, <2>2, OneJobParked
<1>12. ASSUME NEW j \in Jobs, NEW blocking \in BOOLEAN, PauseManualJob(j, blocking), blocking
       PROVE  WaitingRunHasOneWaker'
  <2>1. Parked(j)' /\ \A k \in Jobs : k # j => (Parked(k)' <=> Parked(k))
    BY <1>12 DEF PauseManualJob, Parked, StoreInv, TypeOK
  <2>2. runStatus[RunOf[j]] = "running" /\ runStatus' = [runStatus EXCEPT ![RunOf[j]] = "waiting"]
    BY <1>12 DEF PauseManualJob
  <2> QED BY <2>1, <2>2, OneJobParked
<1> USE RowKeys DEF StoreInv, TypeOK, Status, Terminal, Absent
<1>0. ASSUME NoNew, Kept PROVE WaitingRunHasOneWaker'
  BY <1>0, NothingParked
<1>00. \A k \in Jobs : Parked(k) => runStatus[RunOf[k]] \in {"waiting", "cancelled"}
  BY DEF WaitingRunHasOneWaker
<1>01. \A k, l \in Jobs : Parked(k) /\ Parked(l) /\ RunOf[k] = RunOf[l] => k = l
  BY DEF WaitingRunHasOneWaker
<1> USE <1>00, <1>01 DEF Parked
<1>1. ASSUME NEW r \in Runs, EnqueueRun(r) PROVE WaitingRunHasOneWaker'
  <2>1. NoNew
    BY <1>1 DEF EnqueueRun, SetStatus, JobsOf
  <2>2. Kept
    BY <1>1 DEF EnqueueRun, SetStatus, JobsOf
  <2> QED BY <1>0, <2>1, <2>2
<1>2. ASSUME NEW r \in Runs, RequestRunCancellation(r) PROVE WaitingRunHasOneWaker'
  <2>1. CASE runStatus[r] = "running"
    <3>1. UNCHANGED <<runStatus, jobStatus, manualState>>
      BY <1>2, <2>1 DEF RequestRunCancellation
    <3>2. NoNew /\ Kept
      BY <3>1
    <3> QED BY <1>0, <3>2
  <2>2. CASE runStatus[r] # "running"
    <3>1. /\ jobStatus' = SetStatus(jobStatus, JobsOf(r), {"queued", "waiting"}, "cancelled")
          /\ runStatus' = [runStatus EXCEPT ![r] = "cancelled"]
          /\ manualState' = manualState
      BY <1>2, <2>2 DEF RequestRunCancellation
    <3>2. NoNew
      BY <3>1 DEF SetStatus, JobsOf
    <3>3. Kept
      BY <3>1 DEF SetStatus, JobsOf
    <3> QED BY <1>0, <3>2, <3>3
  <2> QED BY <2>1, <2>2
<1>3. ASSUME NEW j \in Jobs, PlayManualJob(j) PROVE WaitingRunHasOneWaker'
  <2>1. /\ jobStatus' = [jobStatus EXCEPT ![j] = "queued"]
        /\ runStatus' = [runStatus EXCEPT ![RunOf[j]] = "queued"]
        /\ manualState' = manualState
        /\ Parked(j) \/ runStatus[RunOf[j]] = "succeeded"
    BY <1>3 DEF PlayManualJob
  <2>2. NoNew
    BY <2>1
  <2>3. Kept
    BY <2>1
  <2> QED BY <1>0, <2>2, <2>3
<1>4. ASSUME RecoverExpiredRunWorkers PROVE WaitingRunHasOneWaker'
  <2>1. \A q \in Runs : \/ runStatus[q] = "running" /\ runStatus'[q] \in {"failed", "queued"}
                        \/ runStatus'[q] = runStatus[q]
    BY <1>4 DEF RecoverExpiredRunWorkers, Expired, Requeued, Interrupted
  <2>2. \A k \in Jobs : runStatus[RunOf[k]] # "running" => jobStatus'[k] = jobStatus[k]
    BY <1>4 DEF RecoverExpiredRunWorkers, Expired, Requeued, Interrupted
  <2>3. \A k \in Jobs : jobStatus'[k] \in {"waiting", "manual"} => jobStatus'[k] = jobStatus[k]
    BY <1>4, InterruptedStatus DEF RecoverExpiredRunWorkers
  <2>4. manualState' = manualState
    BY <1>4 DEF RecoverExpiredRunWorkers
  <2>5. NoNew
    BY <2>1, <2>3, <2>4
  <2>6. Kept
    BY <2>1, <2>2, <2>4
  <2> QED BY <1>0, <2>5, <2>6
<1>5. ASSUME NEW j \in Jobs, ResetJobForRetry(j) PROVE WaitingRunHasOneWaker'
  <2>1. NoNew /\ Kept
    BY <1>5 DEF ResetJobForRetry
  <2> QED BY <1>0, <2>1
<1>6. ASSUME NEW w \in Workers, ClaimNextQueuedRun(w) PROVE WaitingRunHasOneWaker'
  <2>0. PICK i \in 1..Len(arrivals) :
          /\ runStatus[arrivals[i]] = "queued"
          /\ runStatus' = [runStatus EXCEPT ![arrivals[i]] = "running"]
    BY <1>6 DEF ClaimNextQueuedRun, Claimable
  <2>a. arrivals[i] \in Runs
    <3>1. arrivals \in Seq(Runs)
      OBVIOUS
    <3> QED BY <3>1
  <2>1. PICK r \in Runs : /\ runStatus[r] = "queued"
                          /\ runStatus' = [runStatus EXCEPT ![r] = "running"]
    BY <2>0, <2>a
  <2>2. UNCHANGED <<jobStatus, manualState>>
    BY <1>6 DEF ClaimNextQueuedRun
  <2>3. NoNew /\ Kept
    BY <2>1, <2>2
  <2> QED BY <1>0, <2>3
<1>7. ASSUME NEW r \in Runs, NEW next \in Terminal, runStatus[r] = "running", TransitionRun(r, next)
      PROVE  WaitingRunHasOneWaker'
  <2>1. NoNew /\ Kept
    BY <1>7 DEF TransitionRun
  <2> QED BY <1>0, <2>1
<1>8. ASSUME NEW j \in Jobs, NEW next \in Requested, TransitionJob(j, next),
             \/ jobStatus[j] \in {"queued", "running"}
             \/ jobStatus[j] = "manual" /\ runStatus[RunOf[j]] = "running"
      PROVE  WaitingRunHasOneWaker'
  <2>1. NoNew /\ Kept
    BY <1>8 DEF TransitionJob, Requested
  <2> QED BY <1>0, <2>1
<1>10. ASSUME NEW j \in Jobs, ResumeJob(j) PROVE WaitingRunHasOneWaker'
  <2>1. /\ jobStatus[j] = "waiting"
        /\ jobStatus' = [jobStatus EXCEPT ![j] = "queued"]
        /\ runStatus' = [runStatus EXCEPT ![RunOf[j]] = IF @ = "waiting" THEN "queued" ELSE @]
        /\ manualState' = manualState
    BY <1>10 DEF ResumeJob
  <2>2. NoNew
    BY <2>1
  <2>3. Kept
    BY <2>1
  <2> QED BY <1>0, <2>2, <2>3
<1>11. ASSUME NEW j \in Jobs, NEW blocking \in BOOLEAN, PauseManualJob(j, blocking), ~blocking
       PROVE  WaitingRunHasOneWaker'
  <2>1. NoNew /\ Kept
    BY <1>11 DEF PauseManualJob
  <2> QED BY <1>0, <2>1
<1>13. ASSUME UNCHANGED <<runStatus, jobStatus, manualState>> PROVE WaitingRunHasOneWaker'
  <2>1. NoNew /\ Kept
    BY <1>13
  <2> QED BY <1>0, <2>1
<1> QED
  BY <1>1, <1>2, <1>3, <1>4, <1>5, <1>6, <1>7, <1>8, <1>9, <1>10, <1>11, <1>12, <1>13
  DEF StoreNext, ManagerStep, ApiStep, TransitionStep, HeartbeatRunWorker, ReleaseRunWorker,
      StartJobAttempt, FinishJobAttempt, LeaseExpires

\* A job_waits row means a waiting job of a waiting run, and only a claim makes a
\* run running.
LEMMA WaitRowsStep ==
    ASSUME StoreInv, StoreNext
    PROVE  WaitRowsMatchJobs' /\ RunningRunIsClaimed'
<1> DEFINE Goal == WaitRowsMatchJobs' /\ RunningRunIsClaimed'
<1> USE RowKeys, NoneAssumption DEF StoreInv, TypeOK, Status, Terminal, Absent
<1> USE DEF WaitRowsMatchJobs, RunningRunIsClaimed
<1>1. ASSUME NEW r \in Runs, EnqueueRun(r) PROVE Goal
  BY <1>1 DEF EnqueueRun, SetStatus, JobsOf
<1>2. ASSUME NEW r \in Runs, RequestRunCancellation(r) PROVE Goal
  <2>1. CASE runStatus[r] = "running"
    BY <1>2, <2>1 DEF RequestRunCancellation
  <2>2. CASE runStatus[r] # "running"
    <3>1. /\ jobStatus' = SetStatus(jobStatus, JobsOf(r), {"queued", "waiting"}, "cancelled")
          /\ runStatus' = [runStatus EXCEPT ![r] = "cancelled"]
          /\ waitReason' = [j \in Jobs |-> IF RunOf[j] = r THEN "none" ELSE waitReason[j]]
          /\ claimedBy' = claimedBy
      BY <1>2, <2>2 DEF RequestRunCancellation, DeleteWaits
    <3>2. WaitRowsMatchJobs'
      BY <3>1 DEF SetStatus, JobsOf
    <3>3. RunningRunIsClaimed'
      BY <3>1
    <3> QED BY <3>2, <3>3
  <2> QED BY <2>1, <2>2
<1>3. ASSUME NEW j \in Jobs, PlayManualJob(j) PROVE Goal
  <2>1. /\ jobStatus' = [jobStatus EXCEPT ![j] = "queued"]
        /\ runStatus' = [runStatus EXCEPT ![RunOf[j]] = "queued"]
        /\ claimedBy' = [claimedBy EXCEPT ![RunOf[j]] = None]
        /\ waitReason' = waitReason
        /\ Parked(j) \/ runStatus[RunOf[j]] = "succeeded"
        /\ jobStatus[j] = "manual"
    BY <1>3 DEF PlayManualJob, Parked
  <2>2. \A k \in Jobs : jobStatus[k] = "waiting" => RunOf[k] # RunOf[j]
    BY <2>1 DEF WaitingRunHasOneWaker, Parked
  <2>3. WaitRowsMatchJobs'
    BY <2>1, <2>2
  <2>4. RunningRunIsClaimed'
    BY <2>1
  <2> QED BY <2>3, <2>4
<1>4. ASSUME RecoverExpiredRunWorkers PROVE Goal
  <2>1. \A q \in Runs : \/ runStatus[q] = "running" /\ runStatus'[q] \in {"failed", "queued"}
                        \/ runStatus'[q] = runStatus[q] /\ ~Requeued(q)
    BY <1>4 DEF RecoverExpiredRunWorkers, Expired, Requeued, Interrupted
  <2>2. \A k \in Jobs : runStatus[RunOf[k]] # "running" => jobStatus'[k] = jobStatus[k]
    BY <1>4 DEF RecoverExpiredRunWorkers, Expired, Requeued, Interrupted
  <2>3. \A k \in Jobs : jobStatus'[k] \in {"waiting", "manual"} => jobStatus'[k] = jobStatus[k]
    BY <1>4, InterruptedStatus DEF RecoverExpiredRunWorkers
  <2>4. waitReason' = waitReason
    BY <1>4 DEF RecoverExpiredRunWorkers
  <2>5. \A q \in Runs : runStatus'[q] = "running" => claimedBy'[q] = claimedBy[q]
    BY <1>4, <2>1 DEF RecoverExpiredRunWorkers
  <2>6. WaitRowsMatchJobs'
    BY <2>1, <2>2, <2>3, <2>4
  <2>7. RunningRunIsClaimed'
    BY <2>1, <2>5
  <2> QED BY <2>6, <2>7
<1>5. ASSUME NEW j \in Jobs, ResetJobForRetry(j) PROVE Goal
  BY <1>5 DEF ResetJobForRetry
<1>6. ASSUME NEW w \in Workers, ClaimNextQueuedRun(w) PROVE Goal
  <2>1. PICK i \in 1..Len(arrivals) :
          /\ runStatus[arrivals[i]] = "queued"
          /\ runStatus' = [runStatus EXCEPT ![arrivals[i]] = "running"]
          /\ claimedBy' = [claimedBy EXCEPT ![arrivals[i]] = w]
    BY <1>6 DEF ClaimNextQueuedRun, Claimable
  <2>2. UNCHANGED <<jobStatus, waitReason>>
    BY <1>6 DEF ClaimNextQueuedRun
  <2>3. WaitRowsMatchJobs'
    BY <2>1, <2>2
  <2>4. RunningRunIsClaimed'
    BY <2>1
  <2> QED BY <2>3, <2>4
<1>7. ASSUME NEW r \in Runs, NEW next \in Terminal, runStatus[r] = "running", TransitionRun(r, next)
      PROVE  Goal
  BY <1>7 DEF TransitionRun
<1>8. ASSUME NEW j \in Jobs, NEW next \in Requested, TransitionJob(j, next),
             \/ jobStatus[j] \in {"queued", "running"}
             \/ jobStatus[j] = "manual" /\ runStatus[RunOf[j]] = "running"
      PROVE  Goal
  BY <1>8 DEF TransitionJob, Requested
<1>9. ASSUME NEW j \in Jobs, NEW reason \in {"gate", "concurrency"}, PauseJob(j, reason) PROVE Goal
  BY <1>9 DEF PauseJob
<1>10. ASSUME NEW j \in Jobs, ResumeJob(j) PROVE Goal
  <2>1. /\ jobStatus[j] = "waiting" /\ runStatus[RunOf[j]] = "waiting"
        /\ jobStatus' = [jobStatus EXCEPT ![j] = "queued"]
        /\ runStatus' = [runStatus EXCEPT ![RunOf[j]] = "queued"]
        /\ waitReason' = [waitReason EXCEPT ![j] = "none"]
        /\ claimedBy' = claimedBy
    BY <1>10 DEF ResumeJob
  <2>2. \A k \in Jobs : k # j /\ jobStatus[k] = "waiting" => RunOf[k] # RunOf[j]
    BY <2>1 DEF WaitingRunHasOneWaker, Parked
  <2>3. WaitRowsMatchJobs'
    BY <2>1, <2>2
  <2>4. RunningRunIsClaimed'
    BY <2>1
  <2> QED BY <2>3, <2>4
<1>11. ASSUME NEW j \in Jobs, NEW blocking \in BOOLEAN, PauseManualJob(j, blocking) PROVE Goal
  BY <1>11 DEF PauseManualJob
<1>12. ASSUME UNCHANGED <<runStatus, claimedBy, jobStatus, waitReason>> PROVE Goal
  BY <1>12
<1> QED
  BY <1>1, <1>2, <1>3, <1>4, <1>5, <1>6, <1>7, <1>8, <1>9, <1>10, <1>11, <1>12
  DEF StoreNext, ManagerStep, ApiStep, TransitionStep, HeartbeatRunWorker, ReleaseRunWorker,
      StartJobAttempt, FinishJobAttempt, LeaseExpires

-----------------------------------------------------------------------------
(* The theorems *)

\* The empty tables satisfy the store's invariants.
LEMMA StoreInvInit == ASSUME StoreInit PROVE StoreInv
<1>1. TypeOK
  BY DEF StoreInit, TypeOK, Absent, Status, Terminal
<1>2. GraphExistsWithRun
  BY RowKeys DEF StoreInit, GraphExistsWithRun, RunOfStep
<1>3. WaitingRunHasOneWaker /\ WaitRowsMatchJobs /\ RunningRunIsClaimed
  BY RowKeys DEF StoreInit, WaitingRunHasOneWaker, WaitRowsMatchJobs, RunningRunIsClaimed,
     Parked, Absent
<1> QED BY <1>1, <1>2, <1>3 DEF StoreInv

\* The conjunction of the store's invariants is inductive.
THEOREM StoreInvariant == StoreSpec => []StoreInv
<1>1. StoreInit => StoreInv
  BY StoreInvInit
<1>2. StoreInv /\ [StoreNext]_storeVars => StoreInv'
  <2> SUFFICES ASSUME StoreInv, [StoreNext]_storeVars PROVE StoreInv'
    OBVIOUS
  <2>1. CASE StoreNext
    <3>1. TypeOK'
      BY TypeStep, <2>1 DEF StoreInv
    <3> QED BY <2>1, <3>1, GraphStep, WakerStep, WaitRowsStep DEF StoreInv
  <2>2. CASE UNCHANGED storeVars
    BY <2>2 DEF storeVars, StoreInv, TypeOK, GraphExistsWithRun, WaitingRunHasOneWaker,
       WaitRowsMatchJobs, RunningRunIsClaimed, Parked, RunOfStep
  <2> QED BY <2>1, <2>2
<1> QED
  BY <1>1, <1>2, PTL DEF StoreSpec

\* No behaviour of the store loses the one job that can wake a waiting run.
THEOREM WakerAlwaysExists == StoreSpec => []WaitingRunHasOneWaker
<1>1. StoreInv => WaitingRunHasOneWaker
  BY DEF StoreInv
<1> QED BY <1>1, StoreInvariant, PTL

\* No behaviour of the store separates the wait rows from the waiting jobs.
THEOREM WaitRowsAlwaysMatch == StoreSpec => []WaitRowsMatchJobs
<1>1. StoreInv => WaitRowsMatchJobs
  BY DEF StoreInv
<1> QED BY <1>1, StoreInvariant, PTL

\* No behaviour of the store leaves a run half inserted.
THEOREM GraphAlwaysExists == StoreSpec => []GraphExistsWithRun
<1>1. StoreInv => GraphExistsWithRun
  BY DEF StoreInv
<1> QED BY <1>1, StoreInvariant, PTL

\* No behaviour of the store runs a run that recovery could not find.
THEOREM RunningAlwaysClaimed == StoreSpec => []RunningRunIsClaimed
<1>1. StoreInv => RunningRunIsClaimed
  BY DEF StoreInv
<1> QED BY <1>1, StoreInvariant, PTL

\* No transaction changes the outcome of a decided run; only playing an optional
\* manual job reopens a run that succeeded.
THEOREM DecidedRunsAreFinal == StoreSpec => DecidedRunsStayDecided
<1> DEFINE Final(r) ==
             /\ runStatus[r] \in {"failed", "cancelled", "skipped"} => runStatus'[r] = runStatus[r]
             /\ runStatus[r] = "succeeded" /\ runStatus'[r] # "succeeded" =>
                  /\ runStatus'[r] = "queued"
                  /\ \E j \in Jobs : RunOf[j] = r /\ manualState[j] = "optional" /\ j \in played'
<1>1. ASSUME StoreInv, [StoreNext]_storeVars PROVE \A r \in Runs : Final(r)
  <2> USE <1>1, RowKeys DEF StoreInv, TypeOK
  <2>1. ASSUME NEW q \in Runs, EnqueueRun(q) PROVE \A r \in Runs : Final(r)
    BY <2>1 DEF EnqueueRun, Absent
  <2>2. ASSUME NEW q \in Runs, RequestRunCancellation(q) PROVE \A r \in Runs : Final(r)
    <3>1. CASE runStatus[q] = "running"
      BY <2>2, <3>1 DEF RequestRunCancellation
    <3>2. CASE runStatus[q] # "running"
      <4>1. /\ runStatus[q] \in {"queued", "waiting"}
            /\ runStatus' = [runStatus EXCEPT ![q] = "cancelled"]
        BY <2>2, <3>2 DEF RequestRunCancellation
      <4> QED BY <4>1
    <3> QED BY <3>1, <3>2
  <2>3. ASSUME NEW j \in Jobs, PlayManualJob(j) PROVE \A r \in Runs : Final(r)
    BY <2>3 DEF PlayManualJob
  <2>4. ASSUME NEW w \in Workers, ClaimNextQueuedRun(w) PROVE \A r \in Runs : Final(r)
    <3>1. PICK i \in 1..Len(arrivals) :
            /\ runStatus[arrivals[i]] = "queued"
            /\ runStatus' = [runStatus EXCEPT ![arrivals[i]] = "running"]
      BY <2>4 DEF ClaimNextQueuedRun, Claimable
    <3> QED BY <3>1
  <2>5. ASSUME NEW q \in Runs, NEW next \in Terminal, runStatus[q] = "running",
               TransitionRun(q, next)
        PROVE  \A r \in Runs : Final(r)
    BY <2>5 DEF TransitionRun
  <2>6. ASSUME RecoverExpiredRunWorkers PROVE \A r \in Runs : Final(r)
    BY <2>6 DEF RecoverExpiredRunWorkers, Expired, Requeued, Interrupted
  <2>7. ASSUME NEW j \in Jobs, NEW reason \in {"gate", "concurrency"}, PauseJob(j, reason)
        PROVE  \A r \in Runs : Final(r)
    BY <2>7 DEF PauseJob
  <2>8. ASSUME NEW j \in Jobs, ResumeJob(j) PROVE \A r \in Runs : Final(r)
    BY <2>8 DEF ResumeJob
  <2>9. ASSUME NEW j \in Jobs, NEW blocking \in BOOLEAN, PauseManualJob(j, blocking)
        PROVE  \A r \in Runs : Final(r)
    BY <2>9 DEF PauseManualJob
  <2>10. ASSUME UNCHANGED runStatus PROVE \A r \in Runs : Final(r)
    BY <2>10
  <2> HIDE DEF Final, StoreInv, TypeOK
  <2> QED
    BY <2>1, <2>2, <2>3, <2>4, <2>5, <2>6, <2>7, <2>8, <2>9, <2>10
    DEF StoreNext, ManagerStep, ApiStep, TransitionJob, TransitionStep, HeartbeatRunWorker,
        ReleaseRunWorker, StartJobAttempt, ResetJobForRetry, FinishJobAttempt, LeaseExpires,
        storeVars
<1>2. StoreInv /\ [StoreNext]_storeVars => [\A r \in Runs : Final(r)]_storeVars
  BY <1>1
<1> QED
  BY <1>2, StoreInvariant, PTL DEF StoreSpec, DecidedRunsStayDecided

\* No transaction but the reset of a failed attempt makes a step whose command
\* has been started startable again.
THEOREM CommandsAreNotReplayed == StoreSpec => CommandNeverReplayed
<1> DEFINE Retried(s) == jobStatus[JobOf[s]] = "failed" /\ attemptStatus[JobOf[s]] = "retry"
           Safe == \A s \in Steps :
             stepStatus[s] \in {"running", "succeeded", "failed", "cancelled"}
               /\ stepStatus'[s] \in {"queued", "running"} /\ stepStatus'[s] # stepStatus[s] =>
                    Retried(s)
<1>1. ASSUME StoreInv, [StoreNext]_storeVars PROVE Safe
  <2> SUFFICES ASSUME NEW s \in Steps,
                      stepStatus[s] \in {"running", "succeeded", "failed", "cancelled"},
                      stepStatus'[s] \in {"queued", "running"},
                      stepStatus'[s] # stepStatus[s]
               PROVE  Retried(s)
    OBVIOUS
  <2>0. stepStatus \in [Steps -> Status \cup {Absent}] /\ JobOf[s] \in Jobs
    BY <1>1, RowKeys DEF StoreInv, TypeOK
  <2>1. ASSUME NEW r \in Runs, EnqueueRun(r) PROVE FALSE
    <3>1. RunOfStep(s) # r
      BY <1>1, <2>1, RowKeys DEF EnqueueRun, StoreInv, GraphExistsWithRun, Absent
    <3> QED BY <2>1, <3>1 DEF EnqueueRun
  <2>2. ASSUME NEW r \in Runs, RequestRunCancellation(r) PROVE FALSE
    <3>1. CASE runStatus[r] = "running"
      BY <2>2, <3>1 DEF RequestRunCancellation
    <3>2. CASE runStatus[r] # "running"
      <4>1. stepStatus' = SetStatus(stepStatus, {t \in Steps : RunOfStep(t) = r},
                                    {"queued"}, "skipped")
        BY <2>2, <3>2 DEF RequestRunCancellation
      <4> QED BY <2>0, <4>1 DEF SetStatus
    <3> QED BY <3>1, <3>2
  <2>3. ASSUME NEW j \in Jobs, PlayManualJob(j) PROVE FALSE
    <3>1. stepStatus' = SetStatus(stepStatus, StepsOf(j), {"skipped"}, "queued")
      BY <2>3 DEF PlayManualJob
    <3> QED BY <2>0, <3>1 DEF SetStatus
  <2>4. ASSUME NEW t \in Steps, NEW next \in Requested, TransitionStep(t, next) PROVE FALSE
    BY <2>0, <2>4 DEF TransitionStep, CanTransition, Requested, Terminal
  <2>5. ASSUME RecoverExpiredRunWorkers PROVE FALSE
    <3>1. stepStatus'[s] \in {stepStatus[s], Interrupt(stepStatus[s])}
      BY <2>5 DEF RecoverExpiredRunWorkers
    <3> QED BY <2>0, <3>1, InterruptedStatus
  <2>6. ASSUME NEW j \in Jobs, ResetJobForRetry(j) PROVE Retried(s)
    BY <2>0, <2>6 DEF ResetJobForRetry
  <2>7. ASSUME UNCHANGED stepStatus PROVE FALSE
    BY <2>7
  <2> HIDE DEF Retried
  <2> QED
    BY <1>1, <2>1, <2>2, <2>3, <2>4, <2>5, <2>6, <2>7
    DEF StoreNext, ManagerStep, ApiStep, ClaimNextQueuedRun, TransitionRun, TransitionJob,
        HeartbeatRunWorker, ReleaseRunWorker, PauseJob, ResumeJob, PauseManualJob,
        StartJobAttempt, FinishJobAttempt, LeaseExpires, storeVars
<1>2. StoreInv /\ [StoreNext]_storeVars => [Safe]_storeVars
  BY <1>1
<1> QED
  BY <1>2, StoreInvariant, PTL DEF StoreSpec, CommandNeverReplayed

-----------------------------------------------------------------------------
(* Where the worker is *)

\* The worker has no run.
Outside == {"down", "recover", "list", "resume", "claim"}
\* The worker has a run and answers for it.
Held == p.run # None /\ p.pc # "release"

\* From the choice of a job to its end
Preparing  == p.pc \in {"check", "prepare", "acquire", "awaitGate", "awaitEnvironment"}
Attempting == \/ p.pc \in {"attempt", "start", "setupFailed", "step", "run", "attemptError",
                           "attemptEnd", "reset", "leave"}
              \/ p.pc = "close" /\ p.after = "attemptEnd"
\* Commands of the job may be running, or it failed with an error.
Working == \/ p.pc \in {"setupFailed", "step", "run", "attemptError"}
           \/ p.pc = "close" /\ p.after = "attemptEnd"
           \/ p.pc \in {"attemptEnd", "reset", "leave"} /\ p.broken
\* The pass over the jobs in which they are executed, and the passes that close them
MainPass   == p.pc = "job" \/ Preparing \/ Attempting \/ (p.pc = "close" /\ p.after = "job")
Cancelling == p.pc = "cancelRest" \/ (p.pc = "close" /\ p.after = "cancelRest")
Aborting   == p.pc = "abort" \/ (p.pc = "close" /\ p.after = "abort")

Places == Outside \cup
    {"lease", "load", "release", "job", "close", "cancelRest", "abort",
     "check", "prepare", "acquire", "awaitGate", "awaitEnvironment",
     "attempt", "start", "setupFailed", "step", "run", "attemptError",
     "attemptEnd", "reset", "leave"}

\* The values of the local variables
SomeWorker == Workers \cup {None}
SomeRun    == Runs \cup {None}
Waits      == SUBSET (Jobs \X {"gate", "concurrency"})
Notes      == [Jobs -> Terminal \cup {"manual", "none"}]
JobSet     == SUBSET Jobs
StepSet    == SUBSET Steps
Positions  == SUBSET Nat
Outcome    == Terminal \cup {"none"}
Caller     == {"none", "attemptEnd", "job", "cancelRest", "abort"}
Locals ==
    [pc : Places, me : SomeWorker, run : SomeRun, waits : Waits, pos : Nat, seen : Notes,
     tolerated : JobSet, loaded : StepSet, spos : Nat, failed : BOOLEAN,
     skips : Positions, closing : Outcome, after : Caller, broken : BOOLEAN]

-----------------------------------------------------------------------------
(* The inductive invariant *)

\* The local variables fit the program counter.
WorkerShape ==
    /\ p \in Locals
    /\ p.run = None <=> p.pc \in Outside
    /\ p.me = None <=> p.pc = "down"
    /\ p.pc \in Outside \cup {"lease", "load"} =>
         /\ p.pos = 0 /\ p.closing = "none" /\ p.tolerated = {}
         /\ \A j \in Jobs : p.seen[j] = "none"
    /\ Preparing \/ Attempting \/ p.pc = "close" => p.pos \in 1..Len(JobSeq[p.run])
    /\ p.pc \in {"job", "cancelRest", "abort"} => p.pos \in 1..(Len(JobSeq[p.run]) + 1)
    /\ p.pc = "job" \/ Preparing => p.closing = "none"
    /\ p.pc = "step" => p.spos \in 1..(Len(StepSeq[Job]) + 1)
    /\ p.pc = "run" => p.spos \in 1..Len(StepSeq[Job])
    /\ p.pc = "attemptError" => p.broken
    /\ p.pc = "close" => /\ p.skips \subseteq 1..Len(StepSeq[Job])
                         /\ p.after # "none"
                         /\ p.closing \in {"failed", "cancelled", "skipped"}
                         /\ p.after \in {"job", "abort"} => p.closing # "cancelled"

DeployTypeOK ==
    /\ gate \in [Gated -> {"open", "closed", "refused"}]
    /\ envLease \in {<<>>} \cup (Gated \X Workers)
    /\ envOverdue \in BOOLEAN
    /\ faults \in 0..MaxFaults

RunIsHeld ==
    Held => /\ runStatus[p.run] = "running"
            /\ claimedBy[p.run] = p.me
            /\ p.pc # "lease" => leaseOwner[p.run] = p.me

\* A deployment job has its gate and its environment from the first attempt to the end.
EnvironmentIsHeld ==
    /\ p.pc = "acquire" => Job \in Gated /\ gate[Job] = "open"
    /\ Attempting /\ Job \in Gated => gate[Job] = "open" /\ envLease = <<Job, p.me>>

\* Only the job and the step that the worker is at are running.
OnlyCurrentRuns ==
    /\ \A j \in Jobs : jobStatus[j] = "running" =>
         /\ runStatus[RunOf[j]] = "running"
         /\ Held /\ RunOf[j] = p.run => Working /\ j = Job
    /\ \A s \in Steps : stepStatus[s] = "running" =>
         /\ runStatus[RunOfStep(s)] = "running"
         /\ Held /\ RunOfStep(s) = p.run =>
              /\ JobOf[s] = Job
              /\ \/ p.pc = "run" /\ s = Step
                 \/ p.pc \in {"attemptError", "attemptEnd", "reset", "leave"} /\ p.broken

\* The statuses that the worker noted are those of the jobs it has passed.
NotesAreTrue ==
    Held =>
      /\ \A j \in Jobs : p.seen[j] # "none" =>
           /\ p.seen[j] = jobStatus[j] /\ RunOf[j] = p.run
           /\ p.seen[j] = "manual" => Manual[j] = "optional"
      /\ Aborting => \A j \in Jobs : p.seen[j] = "none"
      /\ MainPass => \A i \in 1..Len(JobSeq[p.run]) :
                        i < p.pos <=> p.seen[JobSeq[p.run][i]] # "none"
      /\ p.pc = "close" => p.seen[Job] = "none"

\* A job that the worker has closed or ended will not be executed any more.
PassedJobsAreOver ==
    /\ Cancelling \/ Aborting => \A i \in 1..Len(JobSeq[p.run]) :
          i < p.pos => jobStatus[JobSeq[p.run][i]] \in Terminal \cup {"manual"}
    /\ p.pc \in {"attemptEnd", "leave", "reset"} /\ ~p.broken =>
          p.closing \in Terminal /\ jobStatus[Job] = p.closing
    /\ p.pc = "reset" => p.closing = "failed" /\ attemptNo[Job] <= Retries[Job]

DecidedRunsAreOver ==
    \A j \in Jobs : runStatus[RunOf[j]] \in Terminal =>
        jobStatus[j] \notin {"queued", "running", "waiting"}

\* A manual job runs only after it was played.
ManualJobsWait ==
    /\ \A j \in Jobs : manualState[j] # "none" => manualState[j] = Manual[j]
    /\ \A j \in Jobs : jobStatus[j] = "manual" => manualState[j] # "none" /\ j \notin played
    /\ \A s \in Steps : AwaitsPlay(JobOf[s]) => stepStatus[s] \notin {"running", "succeeded", "failed"}
    /\ Preparing \/ Attempting => ~AwaitsPlay(Job)

\* A job may fail only by its definition.
LeaveIsGiven == \A j \in p.tolerated : MayFail(j)
FailuresMayBe ==
    \A j \in Jobs : runStatus[RunOf[j]] = "succeeded" /\ jobStatus[j] = "failed" => MayFail(j)

Good(s) == stepStatus[s] = "succeeded" \/ (stepStatus[s] = "failed" /\ s \in AllowFailure)
SuccessIsEarned ==
    /\ \A s \in Steps : jobStatus[JobOf[s]] = "succeeded" => Good(s)
    /\ p.pc \in {"step", "run"} /\ ~p.failed =>
         \A i \in 1..Len(StepSeq[Job]) : i < p.spos => Good(StepSeq[Job][i])

\* A job is cancelled by a request or by a deadline.
MayTimeOut(r) == \E k \in Timed : RunOf[k] = r
MayCancel(r)  == cancelRequested[r] \/ MayTimeOut(r)
\* The worker is on its way to mark its run cancelled.
EndsCancelled == Cancelling \/ (p.pc \in {"attemptEnd", "leave"} /\ p.closing = "cancelled")
CancelledForAReason ==
    /\ \A j \in Jobs : jobStatus[j] = "cancelled" =>
         \/ MayTimeOut(RunOf[j])
         \/ /\ cancelRequested[RunOf[j]]
            /\ runStatus[RunOf[j]] # "succeeded"
            /\ Held /\ RunOf[j] = p.run => EndsCancelled
    /\ Cancelling \/ (Attempting /\ p.closing = "cancelled") => MayCancel(p.run)

StepsInOrder ==
    /\ StepsRunInOrder
    /\ p.pc \in {"step", "run"} =>
         \A i \in 1..Len(StepSeq[Job]) : i < p.spos => stepStatus[StepSeq[Job][i]] \in Terminal

\* A pending job has an attempt to spare, unless the worker is in it.
InAttempt == \/ p.pc \in {"start", "setupFailed", "step", "run", "attemptError"}
             \/ p.pc = "close" /\ p.after = "attemptEnd"
AttemptsAreCounted ==
    \A j \in Jobs :
      /\ attemptNo[j] <= Retries[j] + 1 + faults
      /\ jobStatus[j] \notin Terminal =>
           attemptNo[j] <= Retries[j] + faults \/ (InAttempt /\ j = Job)

NeedsAreMet ==
    (Preparing \/ Attempting) /\ Job \notin Always => \A d \in Needs[Job] : DependencyMet(d)

ManagerInv ==
    /\ StoreInv /\ WorkerShape /\ DeployTypeOK /\ RunIsHeld /\ EnvironmentIsHeld
    /\ OnlyCurrentRuns /\ NotesAreTrue /\ PassedJobsAreOver /\ DecidedRunsAreOver
    /\ ManualJobsWait /\ LeaveIsGiven /\ FailuresMayBe /\ SuccessIsEarned
    /\ CancelledForAReason /\ StepsInOrder /\ AttemptsAreCounted /\ NeedsAreMet

-----------------------------------------------------------------------------
(* Lists and positions *)

\* The jobs of a run and the steps of a job are listed without repetition.
LEMMA Lists ==
    /\ \A r \in Runs : /\ JobSeq[r] \in Seq(Jobs) /\ Len(JobSeq[r]) \in Nat
                       /\ \A i \in 1..Len(JobSeq[r]) : JobSeq[r][i] \in Jobs /\ RunOf[JobSeq[r][i]] = r
                       /\ \A i, k \in 1..Len(JobSeq[r]) : JobSeq[r][i] = JobSeq[r][k] => i = k
                       /\ \A j \in Jobs : RunOf[j] = r => \E i \in 1..Len(JobSeq[r]) : JobSeq[r][i] = j
    /\ \A j \in Jobs : /\ StepSeq[j] \in Seq(Steps) /\ Len(StepSeq[j]) \in Nat
                       /\ \A i \in 1..Len(StepSeq[j]) : StepSeq[j][i] \in Steps /\ JobOf[StepSeq[j][i]] = j
                       /\ \A i, k \in 1..Len(StepSeq[j]) : StepSeq[j][i] = StepSeq[j][k] => i = k
                       /\ \A s \in Steps : JobOf[s] = j => \E i \in 1..Len(StepSeq[j]) : StepSeq[j][i] = s
<1>1. ASSUME NEW r \in Runs
      PROVE  /\ JobSeq[r] \in Seq(Jobs) /\ IsInjective(JobSeq[r])
             /\ {JobSeq[r][i] : i \in DOMAIN JobSeq[r]} = {j \in Jobs : RunOf[j] = r}
             /\ DOMAIN JobSeq[r] = 1..Len(JobSeq[r]) /\ Len(JobSeq[r]) \in Nat
    BY ShapeAssumption DEF ToSet, JobsOf
<1>2. ASSUME NEW j \in Jobs
      PROVE  /\ StepSeq[j] \in Seq(Steps) /\ IsInjective(StepSeq[j])
             /\ {StepSeq[j][i] : i \in DOMAIN StepSeq[j]} = {s \in Steps : JobOf[s] = j}
             /\ DOMAIN StepSeq[j] = 1..Len(StepSeq[j]) /\ Len(StepSeq[j]) \in Nat
    BY ShapeAssumption DEF ToSet, StepsOf
<1>3. ASSUME NEW r \in Runs
      PROVE  /\ \A i \in 1..Len(JobSeq[r]) : JobSeq[r][i] \in Jobs /\ RunOf[JobSeq[r][i]] = r
             /\ \A i, k \in 1..Len(JobSeq[r]) : JobSeq[r][i] = JobSeq[r][k] => i = k
             /\ \A j \in Jobs : RunOf[j] = r => \E i \in 1..Len(JobSeq[r]) : JobSeq[r][i] = j
    BY <1>1 DEF IsInjective
<1>4. ASSUME NEW j \in Jobs
      PROVE  /\ \A i \in 1..Len(StepSeq[j]) : StepSeq[j][i] \in Steps /\ JobOf[StepSeq[j][i]] = j
             /\ \A i, k \in 1..Len(StepSeq[j]) : StepSeq[j][i] = StepSeq[j][k] => i = k
             /\ \A s \in Steps : JobOf[s] = j => \E i \in 1..Len(StepSeq[j]) : StepSeq[j][i] = s
    BY <1>2 DEF IsInjective
<1> QED
    BY <1>1, <1>2, <1>3, <1>4

\* Every job of a run has a position in the run's list.
LEMMA ListedJob ==
    ASSUME NEW r \in Runs, NEW j \in Jobs, RunOf[j] = r
    PROVE  \E i \in 1..Len(JobSeq[r]) : JobSeq[r][i] = j
<1>1. JobSeq[r] \in Seq(Jobs) /\ j \in {JobSeq[r][i] : i \in DOMAIN JobSeq[r]}
  BY ShapeAssumption DEF ToSet, JobsOf
<1> QED BY <1>1

\* Every step of a job has a position in the job's list.
LEMMA ListedStep ==
    ASSUME NEW j \in Jobs, NEW s \in Steps, JobOf[s] = j
    PROVE  \E i \in 1..Len(StepSeq[j]) : StepSeq[j][i] = s
<1>1. StepSeq[j] \in Seq(Steps) /\ s \in {StepSeq[j][i] : i \in DOMAIN StepSeq[j]}
  BY ShapeAssumption DEF ToSet, StepsOf
<1> QED BY <1>1

\* The types of the local variables.
LEMMA LocalTypes ==
    ASSUME p \in Locals
    PROVE  /\ p.pc \in Places /\ p.me \in Workers \cup {None} /\ p.run \in Runs \cup {None}
           /\ p.waits \subseteq Jobs \X {"gate", "concurrency"} /\ p.pos \in Nat
           /\ p.seen \in [Jobs -> Terminal \cup {"manual", "none"}] /\ p.tolerated \subseteq Jobs
           /\ p.spos \in Nat /\ p.failed \in BOOLEAN /\ p.skips \subseteq Nat
           /\ p.closing \in Terminal \cup {"none"} /\ p.broken \in BOOLEAN
           /\ p.after \in Caller
BY DEF Locals, SomeWorker, SomeRun, Waits, Notes, JobSet, Positions, Outcome

\* The worker is at a job: it exists and belongs to the worker's run.
AtJob == \/ Preparing \/ Attempting \/ p.pc = "close"
         \/ p.pc \in {"job", "cancelRest", "abort"} /\ MoreJobs

\* At the places where the worker reads its current job there is one, of its run.
LEMMA JobIsThere ==
    ASSUME WorkerShape, AtJob
    PROVE  /\ p.run \in Runs /\ p.run # None /\ p.pc # "release" /\ p.me \in Workers
           /\ p.pos \in 1..Len(JobSeq[p.run]) /\ Job = JobSeq[p.run][p.pos]
           /\ Job \in Jobs /\ RunOf[Job] = p.run
           /\ \A i \in 1..Len(JobSeq[p.run]) : JobSeq[p.run][i] = Job => i = p.pos
<1>1. p.pc \notin Outside /\ p.pc # "release"
  BY DEF AtJob, Preparing, Attempting, Outside
<1>2. p.pos \in 1..Len(JobSeq[p.run])
  <2>1. CASE Preparing \/ Attempting \/ p.pc = "close"
    BY <2>1 DEF WorkerShape
  <2>2. CASE p.pc \in {"job", "cancelRest", "abort"} /\ MoreJobs
    <3>1. p.pos \in 1..(Len(JobSeq[p.run]) + 1) /\ p.run \in Runs
      BY <1>1, <2>2, LocalTypes DEF WorkerShape
    <3> QED BY <2>2, <3>1, Lists DEF MoreJobs
  <2> QED BY <2>1, <2>2 DEF AtJob
<1>3. p.run \in Runs /\ p.run # None /\ p.me \in Workers
  BY <1>1, LocalTypes DEF WorkerShape, Outside
<1> QED BY <1>1, <1>2, <1>3, Lists DEF Job

\* The worker is at a step: it exists and belongs to the worker's job.
LEMMA StepIsThere ==
    ASSUME WorkerShape, p.pc = "run" \/ (p.pc = "step" /\ MoreSteps)
    PROVE  /\ p.spos \in 1..Len(StepSeq[Job]) /\ Step = StepSeq[Job][p.spos]
           /\ Step \in Steps /\ JobOf[Step] = Job
           /\ \A i \in 1..Len(StepSeq[Job]) : StepSeq[Job][i] = Step => i = p.spos
<1>1. Job \in Jobs
  BY JobIsThere DEF AtJob, Attempting
<1>2. p.spos \in 1..Len(StepSeq[Job])
  BY <1>1, Lists DEF WorkerShape, MoreSteps
<1> QED BY <1>1, <1>2, Lists DEF Step

-----------------------------------------------------------------------------
(* What the assignments to the local variables leave alone *)

SameRun  == p'.me = p.me /\ p'.run = p.run
SameJob  == SameRun /\ p'.pos = p.pos /\ p'.seen = p.seen
SameRest == /\ p'.tolerated = p.tolerated /\ p'.spos = p.spos /\ p'.failed = p.failed
            /\ p'.closing = p.closing /\ p'.after = p.after /\ p'.skips = p.skips
\* The worker has no run any more, or is about to release it.
Gone     == /\ p' \in Locals /\ p'.run = None /\ p'.pc \in Outside
            /\ p'.me = None <=> p'.pc = "down"
            /\ p'.pos = 0 /\ p'.closing = "none" /\ p'.tolerated = {}
            /\ \A j \in Jobs : p'.seen[j] = "none"
Released == /\ p.run \in Runs /\ p.run # None /\ p.me \in Workers
            /\ p' \in Locals /\ p'.pc = "release" /\ SameRun /\ p'.tolerated = {}

\* Job is the same as long as the run and the position are.
LEMMA JobStays == ASSUME SameJob PROVE Job' = Job
BY DEF SameJob, SameRun, Job

\* Goto moves the worker and changes no other local variable.
LEMMA GotoFields ==
    ASSUME p \in Locals, NEW x \in Places, Goto(x)
    PROVE  p' \in Locals /\ p'.pc = x /\ SameJob /\ SameRest /\ p'.broken = p.broken
BY DEF Goto, Locals, SameJob, SameRun, SameRest

\* FailJob, and the errors of the retry loop
Fails(x) == p' = [p EXCEPT !.pc = x, !.broken = TRUE]

\* An error moves the worker and is remembered.
LEMMA FailFields ==
    ASSUME p \in Locals, NEW x \in Places, Fails(x)
    PROVE  p' \in Locals /\ p'.pc = x /\ SameJob /\ SameRest /\ p'.broken = TRUE
BY DEF Fails, Locals, SameJob, SameRun, SameRest

\* Close keeps the job and selects positions of its steps, from the given one on.
LEMMA CloseFields ==
    ASSUME p \in Locals, NEW first \in Nat, NEW status \in Terminal,
           NEW after \in {"attemptEnd", "job", "cancelRest", "abort"},
           p' = Close(first, status, after), Len(StepSeq[Job]) \in Nat
    PROVE  /\ p' \in Locals /\ p'.pc = "close" /\ p'.closing = status /\ p'.after = after
           /\ SameJob /\ p'.tolerated = p.tolerated /\ p'.broken = p.broken
           /\ p'.skips \subseteq first..Len(StepSeq[Job])
<1> DEFINE S == {i \in first..Len(StepSeq[Job]) : StepSeq[Job][i] \in p.loaded}
<1>1. S \subseteq first..Len(StepSeq[Job]) /\ S \in Positions
  BY DEF Positions
<1>2. p' = [p EXCEPT !.pc = "close", !.closing = status, !.after = after, !.skips = S]
  BY DEF Close
<1>3. "close" \in Places /\ status \in Outcome /\ after \in Caller
  BY DEF Places, Outcome, Caller
<1> HIDE DEF S
<1>4. p' \in Locals
  BY <1>1, <1>2, <1>3 DEF Locals
<1>5. p'.pc = "close" /\ p'.closing = status /\ p'.after = after /\ p'.skips = S
  BY <1>2 DEF Locals
<1>6. SameJob /\ p'.tolerated = p.tolerated /\ p'.broken = p.broken
  BY <1>2 DEF Locals, SameJob, SameRun
<1> QED BY <1>1, <1>4, <1>5, <1>6

\* The next job starts without anything noted about it.
LEMMA NextJobFields ==
    ASSUME p \in Locals, NEW x \in Places, p' = NextJob(x)
    PROVE  /\ p' \in Locals /\ p'.pc = x /\ p'.pos = p.pos + 1 /\ p'.closing = "none"
           /\ SameRun /\ p'.seen = p.seen /\ p'.tolerated = p.tolerated
<1>1. p.pos + 1 \in Nat /\ "none" \in Outcome /\ "none" \in Caller
  BY LocalTypes DEF Outcome, Caller
<1>2. p' \in Locals
  BY <1>1 DEF Locals, NextJob
<1>3. p'.pc = x /\ p'.pos = p.pos + 1 /\ p'.closing = "none"
  BY DEF Locals, NextJob
<1>4. SameRun /\ p'.seen = p.seen /\ p'.tolerated = p.tolerated
  BY DEF Locals, NextJob, SameRun
<1> QED BY <1>2, <1>3, <1>4

\* Note, MeetManualJob and LeaveJob: the status is noted, and the pass goes on.
Noted(x, status, pos, tolerated) ==
    p' = [Note(x, status) EXCEPT !.pos = pos, !.tolerated = tolerated]

\* A noted job keeps its status in `seen`, and no other note changes.
LEMMA NoteFields ==
    ASSUME p \in Locals, NEW x \in Places, NEW status \in Terminal \cup {"manual"}, Job \in Jobs,
           NEW pos \in Nat, NEW tolerated \in SUBSET Jobs,
           Noted(x, status, pos, tolerated)
    PROVE  /\ p' \in Locals /\ p'.pc = x /\ p'.pos = pos /\ p'.closing = "none"
           /\ SameRun /\ p'.tolerated = tolerated /\ p'.broken = p.broken
           /\ p'.seen = [p.seen EXCEPT ![Job] = status]
<1> DEFINE Seen == [p.seen EXCEPT ![Job] = status]
<1>1. Seen \in Notes /\ "none" \in Outcome /\ "none" \in Caller /\ tolerated \in JobSet
  BY LocalTypes DEF Notes, Outcome, Caller, JobSet
<1>2. p' = [p EXCEPT !.pc = x, !.pos = pos, !.spos = 0, !.failed = FALSE, !.closing = "none",
                     !.after = "none", !.seen = Seen, !.tolerated = tolerated]
  BY DEF Noted, Note, NextJob, Locals
<1> HIDE DEF Seen
<1>3. p' \in Locals
  BY <1>1, <1>2 DEF Locals
<1>4. p'.pc = x /\ p'.pos = pos /\ p'.closing = "none" /\ p'.tolerated = tolerated
  BY <1>2 DEF Locals
<1>5. SameRun /\ p'.broken = p.broken /\ p'.seen = Seen
  BY <1>2 DEF Locals, SameRun
<1> QED BY <1>3, <1>4, <1>5 DEF Seen

\* A fresh set of local variables
Fresh(x, w, r, broken) ==
    p' = [pc |-> x, me |-> w, run |-> r, waits |-> {}, pos |-> 0, seen |-> [j \in Jobs |-> "none"],
          tolerated |-> {}, loaded |-> {}, spos |-> 0, failed |-> FALSE, skips |-> {},
          closing |-> "none", after |-> "none", broken |-> broken]

\* A fresh worker has no position, no notes and no leave to fail.
LEMMA IdleFields ==
    ASSUME NEW x \in Places, NEW w \in Workers \cup {None}, NEW r \in Runs \cup {None},
           NEW broken \in BOOLEAN,
           Fresh(x, w, r, broken)
    PROVE  /\ p' \in Locals /\ p'.pc = x /\ p'.me = w /\ p'.run = r
           /\ p'.pos = 0 /\ p'.closing = "none" /\ p'.tolerated = {}
           /\ \A j \in Jobs : p'.seen[j] = "none"
<1> DEFINE Seen == [j \in Jobs |-> "none"]
<1>1. Seen \in Notes /\ "none" \in Outcome /\ "none" \in Caller /\ {} \in Waits
      /\ {} \in JobSet /\ {} \in StepSet /\ {} \in Positions
  BY DEF Notes, Outcome, Caller, Waits, JobSet, StepSet, Positions
<1>2. \A j \in Jobs : Seen[j] = "none" OBVIOUS
<1>3. w \in SomeWorker /\ r \in SomeRun
  BY DEF SomeWorker, SomeRun
<1>4. p' = [pc |-> x, me |-> w, run |-> r, waits |-> {}, pos |-> 0, seen |-> Seen,
            tolerated |-> {}, loaded |-> {}, spos |-> 0, failed |-> FALSE, skips |-> {},
            closing |-> "none", after |-> "none", broken |-> broken]
  BY DEF Fresh
<1> HIDE DEF Seen
<1>5. p' \in Locals
  BY <1>1, <1>3, <1>4 DEF Locals
<1>6. p'.pc = x /\ p'.me = w /\ p'.run = r /\ p'.pos = 0 /\ p'.closing = "none"
  BY <1>4
<1>7. p'.tolerated = {} /\ p'.seen = Seen
  BY <1>4
<1> QED BY <1>2, <1>5, <1>6, <1>7

-----------------------------------------------------------------------------
(* The moves of the worker *)

\* executeRun returns by going to the release of the same run.
LEMMA ReturnFields ==
    ASSUME WorkerShape, p.pc \notin Outside, Return \/ Abandon
    PROVE  Released
<1>1. /\ p.me \in Workers /\ p.run \in Runs /\ p.run # None
      /\ p \in Locals /\ "release" \in Places
  BY LocalTypes DEF WorkerShape, Places, Outside
<1>2. Return => Fresh("release", p.me, p.run, FALSE)
  BY DEF Fresh, Return, Idle
<1>3. Abandon => Fresh("release", p.me, p.run, TRUE)
  BY DEF Fresh, Abandon, Idle
<1> QED BY <1>1, <1>2, <1>3, IdleFields DEF Released, SameRun

\* A worker that stops or starts over has no run.
LEMMA StoppedFields ==
    ASSUME NEW x \in {"down", "recover"}, NEW w \in Workers \cup {None}, w = None <=> x = "down",
           p' = Idle(x, w)
    PROVE  Gone
<1>1. Fresh(x, w, None, FALSE)
  BY DEF Fresh, Idle
<1>2. x \in Places /\ x \in Outside
  BY DEF Places, Outside
<1> QED BY <1>1, <1>2, IdleFields DEF Gone

\* The worker keeps having no run.
GoneMove == Recover \/ ListJobWaits \/ ResumeWaitingJobs \/ Restart

\* Recovering, listing, resuming and restarting leave the worker without a run.
LEMMA GoneMoves ==
    ASSUME StoreInv, WorkerShape, GoneMove
    PROVE  p.run = None /\ Gone
<1> USE DEF At
<1>1. p \in Locals /\ (p.pc \in Outside => p.run = None) /\ Outside \subseteq Places
  BY DEF WorkerShape, Places
<1>2. p.pc \in Outside => /\ p.me = None <=> p.pc = "down"
                          /\ p.pos = 0 /\ p.closing = "none" /\ p.tolerated = {}
                          /\ \A j \in Jobs : p.seen[j] = "none"
  BY DEF WorkerShape
<1>3. ASSUME Recover PROVE p.run = None /\ Gone
  BY <1>1, <1>2, <1>3, GotoFields DEF Recover, Outside, Gone, SameJob, SameRun, SameRest
<1>4. ASSUME NEW W \in Waits, p.pc \in {"list", "resume"}, p' = [p EXCEPT !.pc = "resume", !.waits = W]
      PROVE  Gone
  <2>1. p' \in Locals /\ p'.pc = "resume"
    BY <1>1, <1>4 DEF Locals, Outside
  <2>2. SameJob /\ SameRest
    BY <1>1, <1>4 DEF Locals, SameJob, SameRun, SameRest
  <2> QED BY <1>1, <1>2, <1>4, <2>1, <2>2 DEF Outside, Gone, SameJob, SameRun, SameRest
<1>5. ASSUME ListJobWaits PROVE p.run = None /\ Gone
  <2> DEFINE W == {<<j, waitReason[j]>> : j \in {k \in Jobs : waitReason[k] # "none"}}
  <2>1. W \in Waits
    BY DEF Waits, StoreInv, TypeOK
  <2>2. p.pc = "list" /\ p' = [p EXCEPT !.pc = "resume", !.waits = W]
    BY <1>5 DEF ListJobWaits
  <2> HIDE DEF W
  <2> QED BY <1>1, <1>4, <2>1, <2>2 DEF Outside
<1>6. ASSUME ResumeWaitingJobs PROVE p.run = None /\ Gone
  <2>0. p.pc = "resume" /\ p.run = None
    BY <1>1, <1>6 DEF ResumeWaitingJobs, Outside
  <2>1. CASE Goto("claim")
    BY <1>1, <1>2, <2>0, <2>1, GotoFields DEF Outside, Gone, SameJob, SameRun, SameRest
  <2>2. ASSUME NEW wait, p' = [p EXCEPT !.waits = @ \ {wait}] PROVE Gone
    <3>1. p.waits \ {wait} \in Waits
      BY <1>1, LocalTypes DEF Waits
    <3>2. p' = [p EXCEPT !.pc = "resume", !.waits = p.waits \ {wait}]
      BY <1>1, <2>0, <2>2 DEF Locals
    <3> QED BY <1>4, <2>0, <3>1, <3>2
  <2>3. CASE p' = Idle("down", None)
    <3>1. None \in Workers \cup {None} /\ "down" \in {"down", "recover"}
      OBVIOUS
    <3> QED BY <2>0, <2>3, <3>1, StoppedFields
  <2> QED BY <1>6, <2>0, <2>1, <2>2, <2>3 DEF ResumeWaitingJobs
<1>7. ASSUME Restart PROVE p.run = None /\ Gone
  <2>1. PICK w \in Workers : p.pc = "down" /\ p' = Idle("recover", w)
    BY <1>7 DEF Restart
  <2>2. w # None
    BY <2>1, NoneAssumption
  <2> QED BY <1>1, <2>1, <2>2, StoppedFields DEF Outside
<1> QED BY <1>3, <1>5, <1>6, <1>7 DEF GoneMove

\* A crash loses the local variables, changes no row and costs a fault.
LEMMA CrashMoves ==
    ASSUME WorkerShape, Crash
    PROVE  Gone /\ Quiet /\ faults' = faults + 1
<1>1. None \in Workers \cup {None} /\ "down" \in {"down", "recover"}
  OBVIOUS
<1> QED BY <1>1, StoppedFields DEF Crash

\* Release gives up the lease and the run.
LEMMA ReleaseMoves ==
    ASSUME WorkerShape, Release
    PROVE  /\ ReleaseRunWorker(p.run, p.me) /\ p.run \in Runs /\ p.me \in Workers
           /\ Gone
<1>1. /\ p.pc = "release" /\ ReleaseRunWorker(p.run, p.me)
      /\ p' = Idle("down", None) \/ p' = Idle("recover", p.me)
  BY DEF Release, At
<1>2. p.run \in Runs /\ p.me \in Workers
  BY <1>1, LocalTypes DEF WorkerShape, Outside
<1>3. None \in Workers \cup {None} /\ "down" \in {"down", "recover"} /\ p.me # None
  BY <1>2, NoneAssumption
<1> QED BY <1>1, <1>2, <1>3, StoppedFields

\* A run is claimed, or there is none to claim.
Claimed(r) ==
    /\ p.pc = "claim" /\ p.me \in Workers /\ ClaimNextQueuedRun(p.me)
    /\ p.run = None /\ p.pos = 0 /\ p.closing = "none" /\ p.tolerated = {}
    /\ \A j \in Jobs : p.seen[j] = "none"
    /\ p' \in Locals /\ p'.pc = "lease" /\ p'.me = p.me /\ p'.run = r
    /\ p'.seen = p.seen /\ p'.pos = p.pos /\ SameRest
    /\ runStatus[r] = "queued" /\ ~cancelRequested[r]
    /\ runStatus' = [runStatus EXCEPT ![r] = "running"]
    /\ claimedBy' = [claimedBy EXCEPT ![r] = p.me]
    /\ UNCHANGED <<cancelRequested, jobStatus, stepStatus, leaseOwner, waitReason, manualVars, attemptVars>>

\* A claim takes a queued run that nobody asked to cancel, or there is none.
LEMMA ClaimMoves ==
    ASSUME StoreInv, WorkerShape, Claim
    PROVE  (p.run = None /\ Gone /\ Quiet) \/ \E r \in Runs : Claimed(r)
<1>1. /\ p \in Locals /\ p.pc = "claim" /\ p.run = None /\ p.me \in Workers
      /\ p.pos = 0 /\ p.closing = "none" /\ p.tolerated = {} /\ \A j \in Jobs : p.seen[j] = "none"
  BY LocalTypes DEF Claim, At, WorkerShape, Outside
<1>2. CASE Goto("recover") /\ Quiet
  <2>1. "recover" \in Places /\ "recover" \in Outside
    BY DEF Places, Outside
  <2> QED BY <1>1, <1>2, <2>1, GotoFields, NoneAssumption DEF Gone, SameJob, SameRun, SameRest
<1>3. CASE /\ ClaimNextQueuedRun(p.me)
           /\ \E r \in Runs : runStatus'[r] # runStatus[r] /\ p' = [p EXCEPT !.pc = "lease", !.run = r]
  <2>1. PICK r \in Runs : runStatus'[r] # runStatus[r] /\ p' = [p EXCEPT !.pc = "lease", !.run = r]
    BY <1>3
  <2>2. PICK i \in 1..Len(arrivals) :
          /\ runStatus[arrivals[i]] = "queued" /\ ~cancelRequested[arrivals[i]]
          /\ runStatus' = [runStatus EXCEPT ![arrivals[i]] = "running"]
          /\ claimedBy' = [claimedBy EXCEPT ![arrivals[i]] = p.me]
          /\ UNCHANGED <<cancelRequested, jobStatus, stepStatus, leaseOwner, waitReason, manualVars, attemptVars>>
    BY <1>3 DEF ClaimNextQueuedRun, Claimable
  <2>3. r = arrivals[i]
    BY <2>1, <2>2 DEF StoreInv, TypeOK
  <2>4. "lease" \in Places /\ r \in SomeRun
    BY DEF Places, SomeRun
  <2>5. p' \in Locals
    BY <1>1, <2>1, <2>4 DEF Locals
  <2>6. p'.pc = "lease" /\ p'.me = p.me /\ p'.run = r /\ p'.seen = p.seen /\ p'.pos = p.pos /\ SameRest
    BY <1>1, <2>1 DEF Locals, SameRest
  <2>7. Claimed(r)
    BY <1>1, <1>3, <2>2, <2>3, <2>5, <2>6 DEF Claimed
  <2> QED BY <2>7
<1> QED BY <1>2, <1>3 DEF Claim

\* The first heartbeat takes the lease, or the service stops.
LEMMA LeaseMoves ==
    ASSUME WorkerShape, EstablishLease
    PROVE  /\ p.pc = "lease"
           /\ \/ p.me # None /\ Gone /\ Quiet
              \/ /\ HeartbeatRunWorker(p.run, p.me) /\ p.run \in Runs /\ p.me \in Workers
                 /\ p' \in Locals /\ p'.pc = "load" /\ SameJob /\ SameRest
<1>1. p.pc = "lease" /\ p \in Locals /\ p.run \in Runs /\ p.me \in Workers
  BY LocalTypes DEF EstablishLease, At, WorkerShape, Outside
<1>2. None \in Workers \cup {None} /\ "down" \in {"down", "recover"} /\ "load" \in Places /\ p.me # None
  BY <1>1, NoneAssumption DEF Places
<1> QED BY <1>1, <1>2, GotoFields, StoppedFields DEF EstablishLease

\* A loaded run starts at its first job, in the main or in the aborting pass.
LEMMA LoadMoves ==
    ASSUME WorkerShape, LoadRun
    PROVE  /\ p.pc = "load" /\ Quiet /\ p.run \in Runs /\ p.me \in Workers
           /\ p' \in Locals /\ p'.pc \in {"job", "abort"} /\ SameRun /\ p'.pos = 1
           /\ p'.seen = p.seen /\ p'.closing = p.closing
           /\ p'.tolerated = {j \in JobsOf(p.run) : PersistedAllow(j)}
<1> DEFINE T == {j \in JobsOf(p.run) : PersistedAllow(j)}
           L == {s \in Steps : stepStatus[s] = "queued"}
<1>1. p.pc = "load" /\ Quiet /\ p \in Locals /\ p.run \in Runs /\ p.me \in Workers
  BY LocalTypes DEF LoadRun, At, WorkerShape, Outside
<1>2. PICK x \in {"job", "abort"} : p' = [p EXCEPT !.pc = x, !.pos = 1, !.tolerated = T, !.loaded = L]
  BY DEF LoadRun
<1>3. T \in JobSet /\ L \in StepSet /\ x \in Places
  BY DEF JobSet, StepSet, JobsOf, Places
<1> HIDE DEF T, L
<1>4. p' \in Locals
  BY <1>1, <1>2, <1>3 DEF Locals
<1>5. p'.pc = x /\ SameRun /\ p'.pos = 1
  BY <1>1, <1>2 DEF Locals, SameRun
<1>6. p'.seen = p.seen /\ p'.closing = p.closing /\ p'.tolerated = T
  BY <1>1, <1>2 DEF Locals
<1> QED BY <1>1, <1>4, <1>5, <1>6 DEF T

\* A plain Note goes on to the next job.
LEMMA PlainNote ==
    ASSUME p \in Locals, Job \in Jobs, NEW x \in Places, NEW status \in Terminal \cup {"manual"},
           p' = Note(x, status)
    PROVE  /\ p' \in Locals /\ p'.pc = x /\ p'.pos = p.pos + 1 /\ p'.closing = "none"
           /\ SameRun /\ p'.tolerated = p.tolerated /\ p'.broken = p.broken
           /\ p'.seen = [p.seen EXCEPT ![Job] = status]
<1>1. Noted(x, status, p.pos + 1, p.tolerated)
  BY DEF Noted, Note, NextJob, Locals
<1>2. p.pos + 1 \in Nat /\ p.tolerated \in SUBSET Jobs
  BY LocalTypes
<1> QED BY <1>1, <1>2, NoteFields

\* The moves of the pass over the jobs
Advanced(status, tolerated) ==
    /\ p' \in Locals /\ p'.pc = "job" /\ p'.pos = p.pos + 1 /\ p'.closing = "none"
    /\ SameRun /\ p'.tolerated = tolerated /\ p'.seen = [p.seen EXCEPT ![Job] = status]
Closing(first, status, after) ==
    /\ p' \in Locals /\ p'.pc = "close" /\ p'.closing = status /\ p'.after = after
    /\ SameJob /\ p'.tolerated = p.tolerated /\ p'.broken = p.broken
    /\ p'.skips \subseteq first..Len(StepSeq[Job])
MovedTo(x) ==
    p' \in Locals /\ p'.pc = x /\ SameJob /\ SameRest /\ p'.broken = p.broken

\* A finished job is noted with its status.
LEMMA PassMoves ==
    ASSUME WorkerShape, PassFinishedJob
    PROVE  /\ p.pc = "job" /\ MoreJobs /\ AtJob /\ Quiet
           /\ jobStatus[Job] \in Terminal /\ Advanced(jobStatus[Job], p.tolerated)
<1>1. p.pc = "job" /\ MoreJobs /\ AtJob /\ Quiet /\ jobStatus[Job] \in Terminal
  BY DEF PassFinishedJob, At, AtJob
<1>2. p \in Locals /\ "job" \in Places /\ Job \in Jobs
  BY <1>1, JobIsThere DEF WorkerShape, Places
<1>3. p' = Note("job", jobStatus[Job])
  BY DEF PassFinishedJob
<1> QED BY <1>1, <1>2, <1>3, PlainNote DEF Advanced

\* A job whose needs are not met is closed as skipped.
LEMMA SkipMoves ==
    ASSUME WorkerShape, SkipJob
    PROVE  /\ p.pc = "job" /\ MoreJobs /\ AtJob /\ Quiet
           /\ Closing(1, "skipped", "job")
<1>1. p.pc = "job" /\ MoreJobs /\ AtJob /\ Quiet /\ p' = Close(1, "skipped", "job")
  BY DEF SkipJob, At, AtJob
<1>2. p \in Locals /\ Len(StepSeq[Job]) \in Nat /\ "skipped" \in Terminal
  BY <1>1, JobIsThere, Lists DEF WorkerShape, Terminal
<1> QED BY <1>1, <1>2, CloseFields DEF Closing

\* A manual job parks the run, or is noted and tolerated.
LEMMA ManualMoves ==
    ASSUME WorkerShape, MeetManualJob
    PROVE  /\ p.pc = "job" /\ MoreJobs /\ AtJob /\ AwaitsPlay(Job)
           /\ \/ jobStatus[Job] = "manual" /\ Quiet
              \/ PauseManualJob(Job, Manual[Job] = "blocking")
           /\ \/ Manual[Job] = "blocking" /\ Released
              \/ Manual[Job] = "optional" /\ Advanced("manual", p.tolerated \cup {Job})
<1>1. /\ p.pc = "job" /\ MoreJobs /\ AtJob /\ AwaitsPlay(Job)
      /\ \/ jobStatus[Job] = "manual" /\ Quiet
         \/ PauseManualJob(Job, Manual[Job] = "blocking")
      /\ \/ Manual[Job] = "blocking" /\ Return
         \/ /\ Manual[Job] = "optional"
            /\ p' = [Note("job", "manual") EXCEPT !.tolerated = Tolerate(Job, TRUE)]
  BY DEF MeetManualJob, At, AtJob
<1>2. p \in Locals /\ "job" \in Places /\ Job \in Jobs /\ p.pos + 1 \in Nat /\ p.tolerated \subseteq Jobs
  BY <1>1, JobIsThere, LocalTypes DEF WorkerShape, Places
<1>3. CASE p' = [Note("job", "manual") EXCEPT !.tolerated = Tolerate(Job, TRUE)]
  <2>1. Noted("job", "manual", p.pos + 1, p.tolerated \cup {Job})
    BY <1>2, <1>3 DEF Noted, Note, NextJob, Tolerate, Locals
  <2>2. "manual" \in Terminal \cup {"manual"} /\ p.tolerated \cup {Job} \in SUBSET Jobs
    BY <1>2
  <2>3. Advanced("manual", p.tolerated \cup {Job})
    BY <1>2, <2>1, <2>2, NoteFields DEF Advanced
  <2> QED BY <1>1, <2>3, ReturnFields DEF Outside
<1> QED BY <1>1, <1>3, ReturnFields DEF Outside

\* The chosen job is runnable, and gets the leave to fail of its definition.
LEMMA ChooseMoves ==
    ASSUME WorkerShape, ChooseJob
    PROVE  /\ p.pc = "job" /\ MoreJobs /\ AtJob /\ Quiet
           /\ Runnable(Job) /\ ~AwaitsPlay(Job) /\ jobStatus[Job] \notin Terminal
           /\ p' \in Locals /\ p'.pc = "check" /\ SameJob /\ p'.closing = p.closing
           /\ p'.tolerated = Tolerate(Job, DecisionAllows(Job))
<1> DEFINE T == Tolerate(Job, DecisionAllows(Job))
<1>1. /\ p.pc = "job" /\ MoreJobs /\ AtJob /\ Quiet
      /\ Runnable(Job) /\ ~AwaitsPlay(Job) /\ jobStatus[Job] \notin Terminal
      /\ p' = [p EXCEPT !.pc = "check", !.tolerated = T]
  BY DEF ChooseJob, At, AtJob
<1>2. p \in Locals /\ "check" \in Places /\ T \in JobSet
  BY <1>1, JobIsThere, LocalTypes DEF WorkerShape, Places, JobSet, Tolerate
<1> HIDE DEF T
<1>3. p' \in Locals
  BY <1>1, <1>2 DEF Locals
<1>4. p'.pc = "check" /\ SameJob /\ p'.closing = p.closing /\ p'.tolerated = T
  BY <1>1, <1>2 DEF Locals, SameJob, SameRun
<1> QED BY <1>1, <1>3, <1>4 DEF T

\* A run asked to stop goes to its remaining jobs, another one is prepared.
LEMMA CheckMoves ==
    ASSUME WorkerShape, CheckCancelled
    PROVE  /\ p.pc = "check" /\ AtJob /\ Quiet
           /\ \/ MovedTo("prepare")
              \/ /\ cancelRequested[p.run]
                 /\ p' \in Locals /\ p'.pc = "cancelRest" /\ SameRun /\ p'.pos = 1
                 /\ p'.seen = p.seen /\ p'.tolerated = p.tolerated
<1>1. /\ p.pc = "check" /\ AtJob /\ Quiet /\ p \in Locals
      /\ "prepare" \in Places /\ "cancelRest" \in Places
  BY DEF CheckCancelled, At, AtJob, Preparing, WorkerShape, Places
<1>2. CASE cancelRequested[p.run] /\ p' = [p EXCEPT !.pc = "cancelRest", !.pos = 1]
  <2>1. p' \in Locals
    BY <1>1, <1>2 DEF Locals
  <2>2. p'.pc = "cancelRest" /\ SameRun /\ p'.pos = 1 /\ p'.seen = p.seen /\ p'.tolerated = p.tolerated
    BY <1>1, <1>2 DEF Locals, SameRun
  <2> QED BY <1>1, <1>2, <2>1, <2>2
<1>3. CASE Goto("prepare")
  BY <1>1, <1>3, GotoFields DEF MovedTo
<1> QED BY <1>2, <1>3 DEF CheckCancelled

\* A deployment job passes, waits or fails at its gate.
LEMMA PrepareMoves ==
    ASSUME WorkerShape, Prepare
    PROVE  /\ p.pc = "prepare" /\ AtJob /\ Quiet
           /\ \/ Job \notin Gated /\ MovedTo("attempt")
              \/ Job \in Gated /\ gate[Job] = "open" /\ MovedTo("acquire")
              \/ Job \in Gated /\ MovedTo("awaitGate")
              \/ Closing(1, "failed", "job")
<1>1. /\ p.pc = "prepare" /\ AtJob /\ Quiet /\ p \in Locals
      /\ "attempt" \in Places /\ "acquire" \in Places /\ "awaitGate" \in Places
  BY DEF Prepare, At, AtJob, Preparing, WorkerShape, Places
<1>2. Len(StepSeq[Job]) \in Nat /\ "failed" \in Terminal
  BY <1>1, JobIsThere, Lists DEF Terminal
<1> QED BY <1>1, <1>2, GotoFields, CloseFields DEF Prepare, MovedTo, Closing

\* The environment is taken for this very job, or waited for.
LEMMA AcquireMoves ==
    ASSUME WorkerShape, AcquireEnvironment
    PROVE  /\ p.pc = "acquire" /\ AtJob /\ Quiet /\ gate' = gate
           /\ \/ MovedTo("attempt") /\ envLease' = <<Job, p.me>> /\ envOverdue' = FALSE
              \/ MovedTo("awaitEnvironment") /\ UNCHANGED <<envLease, envOverdue>>
<1>1. /\ p.pc = "acquire" /\ AtJob /\ Quiet /\ p \in Locals /\ gate' = gate
      /\ "attempt" \in Places /\ "awaitEnvironment" \in Places
  BY DEF AcquireEnvironment, At, AtJob, Preparing, WorkerShape, Places
<1> QED BY <1>1, GotoFields DEF AcquireEnvironment, MovedTo

\* A parked job pauses with its run, and the worker gives the run back.
LEMMA ParkMoves ==
    ASSUME WorkerShape, Park
    PROVE  /\ p.pc \in {"awaitGate", "awaitEnvironment"} /\ AtJob /\ Released
           /\ \E reason \in {"gate", "concurrency"} : PauseJob(Job, reason)
BY ReturnFields DEF Park, At, AtJob, Preparing, Outside

\* A run is decided by FinishRun, CancelRemaining or AbortRun.
LEMMA FinishMoves ==
    ASSUME WorkerShape, FinishRun
    PROVE  /\ p.pc = "job" /\ ~MoreJobs /\ p.run \in Runs /\ p.run # None /\ Released
           /\ \/ TransitionRun(p.run, "failed")
              \/ /\ TransitionRun(p.run, "succeeded")
                 /\ \A j \in JobsOf(p.run) : p.seen[j] = "failed" => j \in p.tolerated
<1>1. p.pc = "job" /\ ~MoreJobs /\ Released
  BY ReturnFields DEF FinishRun, At, Outside
<1>2. p.run \in Runs /\ p.run # None
  BY <1>1, LocalTypes DEF WorkerShape, Outside
<1> QED BY <1>1, <1>2 DEF FinishRun

\* The cancelling pass closes what is queued, then marks the run cancelled.
LEMMA CancelMoves ==
    ASSUME WorkerShape, CancelRemaining
    PROVE  /\ p.pc = "cancelRest" /\ p.run \in Runs /\ p.run # None
           /\ \/ /\ MoreJobs /\ AtJob /\ Quiet /\ p.seen[Job] = "none" /\ jobStatus[Job] = "queued"
                 /\ Closing(1, "cancelled", "cancelRest")
              \/ /\ MoreJobs /\ AtJob /\ Quiet /\ (p.seen[Job] # "none" \/ jobStatus[Job] # "queued")
                 /\ p' \in Locals /\ p'.pc = "cancelRest" /\ p'.pos = p.pos + 1 /\ SameRun
                 /\ p'.seen = p.seen /\ p'.tolerated = p.tolerated
              \/ ~MoreJobs /\ TransitionRun(p.run, "cancelled") /\ Released
<1>1. p.pc = "cancelRest" /\ p \in Locals /\ p.run \in Runs /\ p.run # None /\ "cancelRest" \in Places
  BY LocalTypes DEF CancelRemaining, At, WorkerShape, Outside, Places
<1>2. CASE MoreJobs /\ Quiet
           /\ IF p.seen[Job] = "none" /\ jobStatus[Job] = "queued"
                THEN p' = Close(1, "cancelled", "cancelRest")
                ELSE p' = NextJob("cancelRest")
  <2>1. AtJob
    BY <1>1, <1>2 DEF AtJob
  <2>2. Len(StepSeq[Job]) \in Nat /\ "cancelled" \in Terminal
    BY <2>1, JobIsThere, Lists DEF Terminal
  <2> QED BY <1>1, <1>2, <2>1, <2>2, CloseFields, NextJobFields DEF Closing
<1>3. CASE ~MoreJobs /\ TransitionRun(p.run, "cancelled") /\ Return
  BY <1>1, <1>3, ReturnFields DEF Outside
<1> QED BY <1>1, <1>2, <1>3 DEF CancelRemaining

\* The aborting pass skips what is not over, then marks the run failed.
LEMMA AbortMoves ==
    ASSUME WorkerShape, AbortRun
    PROVE  /\ p.pc = "abort" /\ p.run \in Runs /\ p.run # None
           /\ \/ /\ MoreJobs /\ AtJob /\ Quiet
                 /\ Closing(1, "skipped", "abort")
              \/ /\ MoreJobs /\ AtJob /\ Quiet /\ jobStatus[Job] \in Terminal
                 /\ p' \in Locals /\ p'.pc = "abort" /\ p'.pos = p.pos + 1 /\ SameRun
                 /\ p'.seen = p.seen /\ p'.tolerated = p.tolerated
              \/ ~MoreJobs /\ TransitionRun(p.run, "failed") /\ Released
<1>1. p.pc = "abort" /\ p \in Locals /\ p.run \in Runs /\ p.run # None /\ "abort" \in Places
  BY LocalTypes DEF AbortRun, At, WorkerShape, Outside, Places
<1>2. CASE MoreJobs /\ Quiet
           /\ IF jobStatus[Job] \in Terminal
                THEN p' = NextJob("abort")
                ELSE p' = Close(1, "skipped", "abort")
  <2>1. AtJob
    BY <1>1, <1>2 DEF AtJob
  <2>2. Len(StepSeq[Job]) \in Nat /\ "skipped" \in Terminal
    BY <2>1, JobIsThere, Lists DEF Terminal
  <2> QED BY <1>1, <1>2, <2>1, <2>2, CloseFields, NextJobFields DEF Closing
<1>3. CASE ~MoreJobs /\ TransitionRun(p.run, "failed") /\ Return
  BY <1>1, <1>3, ReturnFields DEF Outside
<1> QED BY <1>1, <1>2, <1>3 DEF AbortRun

\* The worker has a job of which it skips the pending steps.
LEMMA SkipStepMoves ==
    ASSUME WorkerShape, SkipStep
    PROVE  /\ p.pc = "close" /\ AtJob
           /\ \E s \in Steps : JobOf[s] = Job /\ TransitionStep(s, "skipped")
           /\ p' \in Locals /\ p'.pc = p.pc /\ SameJob /\ p'.tolerated = p.tolerated
           /\ p'.closing = p.closing /\ p'.after = p.after /\ p'.broken = p.broken
           /\ p'.skips \subseteq p.skips
<1>1. p.pc = "close" /\ AtJob /\ p \in Locals /\ p.skips \subseteq 1..Len(StepSeq[Job])
  BY DEF SkipStep, At, AtJob, WorkerShape
<1>2. PICK i \in p.skips : /\ TransitionStep(StepSeq[Job][i], "skipped")
                           /\ p' = [p EXCEPT !.skips = @ \ {i}]
  BY DEF SkipStep
<1>3. StepSeq[Job][i] \in Steps /\ JobOf[StepSeq[Job][i]] = Job
  BY <1>1, JobIsThere, Lists
<1> DEFINE S == p.skips \ {i}
<1>4. S \in Positions /\ S \subseteq p.skips
  BY <1>1, LocalTypes DEF Positions
<1>5. p' = [p EXCEPT !.skips = S]
  BY <1>2
<1> HIDE DEF S
<1>6. p' \in Locals
  BY <1>1, <1>4, <1>5 DEF Locals
<1>7. /\ p'.pc = p.pc /\ SameJob /\ p'.tolerated = p.tolerated
      /\ p'.closing = p.closing /\ p'.after = p.after /\ p'.broken = p.broken /\ p'.skips = S
  BY <1>1, <1>5 DEF Locals, SameJob, SameRun
<1> QED BY <1>1, <1>2, <1>3, <1>4, <1>6, <1>7

\* The pending steps are skipped: the job gets its status.
LEMMA CloseJobMoves ==
    ASSUME WorkerShape, CloseJob
    PROVE  /\ p.pc = "close" /\ AtJob /\ TransitionJob(Job, p.closing)
           /\ p.closing \in {"failed", "cancelled", "skipped"}
           /\ \/ p.after = "attemptEnd" /\ MovedTo("attemptEnd")
              \/ p.after = "job" /\ p.closing # "cancelled" /\ Advanced(p.closing, p.tolerated)
              \/ /\ p.after \in {"cancelRest", "abort"}
                 /\ p.after = "abort" => p.closing # "cancelled"
                 /\ p' \in Locals /\ p'.pc = p.after /\ p'.pos = p.pos + 1 /\ SameRun
                 /\ p'.seen = p.seen /\ p'.tolerated = p.tolerated
<1>1. /\ p.pc = "close" /\ AtJob /\ p \in Locals /\ TransitionJob(Job, p.closing)
      /\ p.closing \in {"failed", "cancelled", "skipped"}
      /\ p.after \in {"job", "abort"} => p.closing # "cancelled"
  BY DEF CloseJob, At, AtJob, WorkerShape
<1>2. {"attemptEnd", "job", "cancelRest", "abort"} \subseteq Places /\ Job \in Jobs
  BY <1>1, JobIsThere DEF Places
<1>3. p.closing \in Terminal \cup {"manual"}
  BY <1>1 DEF Terminal
<1>4. CASE p.after = "attemptEnd" /\ Goto("attemptEnd")
  BY <1>1, <1>2, <1>4, GotoFields DEF MovedTo
<1>5. CASE p.after = "job" /\ p' = Note("job", p.closing)
  BY <1>1, <1>2, <1>3, <1>5, PlainNote DEF Advanced
<1>6. CASE p.after \in {"cancelRest", "abort"} /\ p' = NextJob(p.after)
  BY <1>1, <1>2, <1>6, NextJobFields
<1> QED BY <1>1, <1>4, <1>5, <1>6 DEF CloseJob

\* An attempt is recorded before the job starts.
LEMMA BeginMoves ==
    ASSUME WorkerShape, BeginAttempt
    PROVE  p.pc = "attempt" /\ AtJob /\ StartJobAttempt(Job) /\ MovedTo("start")
<1>1. "start" \in Places /\ p \in Locals
  BY DEF Places, WorkerShape
<1> QED BY <1>1, GotoFields DEF BeginAttempt, At, AtJob, Attempting, MovedTo

\* A started job is at its first step, or its setup failed.
LEMMA StartMoves ==
    ASSUME WorkerShape, StartJob
    PROVE  /\ p.pc = "start" /\ AtJob /\ TransitionJob(Job, "running")
           /\ p' \in Locals /\ p'.pc \in {"step", "setupFailed"} /\ SameJob
           /\ p'.tolerated = p.tolerated /\ p'.closing = p.closing /\ p'.broken = p.broken
           /\ p'.pc = "step" => p'.spos = 1
<1>1. /\ p.pc = "start" /\ AtJob /\ p \in Locals /\ TransitionJob(Job, "running")
      /\ "step" \in Places /\ "setupFailed" \in Places
  BY DEF StartJob, At, AtJob, Attempting, WorkerShape, Places
<1>2. CASE p' = [p EXCEPT !.pc = "step", !.spos = 1, !.failed = FALSE]
  <2>1. p' \in Locals
    BY <1>1, <1>2 DEF Locals
  <2>2. p'.pc = "step" /\ SameJob /\ p'.tolerated = p.tolerated /\ p'.closing = p.closing
        /\ p'.broken = p.broken /\ p'.spos = 1
    BY <1>1, <1>2 DEF Locals, SameJob, SameRun
  <2> QED BY <1>1, <2>1, <2>2
<1>3. CASE p' = [p EXCEPT !.pc = "setupFailed"]
  BY <1>1, <1>3, GotoFields DEF Goto, SameRest
<1> QED BY <1>1, <1>2, <1>3 DEF StartJob

\* The worker runs into an error, and has marked nothing.
Errs(x) == /\ p' \in Locals /\ p'.pc = x /\ SameJob /\ SameRest /\ p'.broken = TRUE

\* An error changes no row and no other local variable.
LEMMA ErrFields ==
    ASSUME WorkerShape, NEW x \in {"attemptError", "leave"}, p' = [p EXCEPT !.pc = x, !.broken = TRUE]
    PROVE  Errs(x)
<1>1. p \in Locals /\ x \in Places /\ Fails(x)
  BY DEF WorkerShape, Places, Fails
<1> QED BY <1>1, FailFields DEF Errs

\* A failed setup fails the first step and closes the job.
LEMMA SetupMoves ==
    ASSUME WorkerShape, FailSetup
    PROVE  /\ p.pc = "setupFailed" /\ AtJob
           /\ \/ Quiet /\ Closing(1, "failed", "attemptEnd")
              \/ /\ 1 \in 1..Len(StepSeq[Job]) /\ TransitionStep(StepSeq[Job][1], "failed")
                 /\ Closing(2, "failed", "attemptEnd")
              \/ Quiet /\ Errs("attemptError")
<1>1. p.pc = "setupFailed" /\ AtJob /\ p \in Locals
  BY DEF FailSetup, At, AtJob, Attempting, WorkerShape
<1>2. Len(StepSeq[Job]) \in Nat /\ StepSeq[Job] \in Seq(Steps) /\ "failed" \in Terminal
  BY <1>1, JobIsThere, Lists DEF Terminal
<1>3. CASE p' = Close(1, "failed", "attemptEnd") /\ Quiet
  BY <1>1, <1>2, <1>3, CloseFields DEF Closing
<1>4. CASE /\ StepSeq[Job] # <<>> /\ TransitionStep(Head(StepSeq[Job]), "failed")
           /\ p' = Close(2, "failed", "attemptEnd")
  <2>1. 1 \in 1..Len(StepSeq[Job]) /\ Head(StepSeq[Job]) = StepSeq[Job][1]
    BY <1>2, <1>4
  <2> QED BY <1>1, <1>2, <1>4, <2>1, CloseFields DEF Closing
<1>5. CASE FailJob /\ Quiet
  BY <1>1, <1>5, ErrFields DEF FailJob
<1> QED BY <1>1, <1>3, <1>4, <1>5 DEF FailSetup

\* Only a request or a deadline stops a job before its next step.
LEMMA StopMoves ==
    ASSUME WorkerShape, StopBeforeStep
    PROVE  /\ p.pc = "step" /\ MoreSteps /\ AtJob
           /\ \/ /\ cancelRequested[p.run] \/ Job \in Timed
                 /\ TransitionStep(Step, "cancelled") /\ Closing(1, "cancelled", "attemptEnd")
              \/ Quiet /\ Errs("attemptError")
<1>1. p.pc = "step" /\ MoreSteps /\ AtJob /\ p \in Locals
  BY DEF StopBeforeStep, At, AtJob, Attempting, WorkerShape
<1>2. Len(StepSeq[Job]) \in Nat /\ "cancelled" \in Terminal /\ p.spos \in 1..Len(StepSeq[Job])
  BY <1>1, JobIsThere, StepIsThere, Lists DEF Terminal
<1>3. CASE CloseCancelled
  <2>1. p.spos + 1 \in Nat /\ (p.spos + 1)..Len(StepSeq[Job]) \subseteq 1..Len(StepSeq[Job])
    BY <1>2
  <2>2. TransitionStep(Step, "cancelled") /\ Closing(p.spos + 1, "cancelled", "attemptEnd")
    BY <1>1, <1>2, <1>3, <2>1, CloseFields DEF CloseCancelled, Closing
  <2>3. Closing(1, "cancelled", "attemptEnd")
    BY <2>1, <2>2 DEF Closing
  <2>4. cancelRequested[p.run] \/ Job \in Timed \/ (Quiet /\ FailJob)
    BY DEF StopBeforeStep
  <2> QED BY <1>1, <2>2, <2>3, <2>4, ErrFields DEF FailJob
<1>4. CASE FailJob /\ Quiet
  BY <1>1, <1>4, ErrFields DEF FailJob
<1> QED BY <1>1, <1>3, <1>4 DEF StopBeforeStep

\* The next step runs or is skipped.
NextSpos == /\ p' \in Locals /\ p'.pc = "step" /\ SameJob /\ p'.tolerated = p.tolerated
            /\ p'.closing = p.closing /\ p'.broken = p.broken /\ p'.spos = p.spos + 1

\* The next step starts, or is skipped after a failure.
LEMMA StepMoves ==
    ASSUME WorkerShape, NextStep
    PROVE  /\ p.pc = "step" /\ MoreSteps /\ AtJob
           /\ \/ TransitionStep(Step, "running") /\ MovedTo("run")
              \/ p.failed /\ TransitionStep(Step, "skipped") /\ NextSpos /\ p'.failed = p.failed
<1>1. p.pc = "step" /\ MoreSteps /\ AtJob /\ p \in Locals /\ "run" \in Places
  BY DEF NextStep, At, AtJob, Attempting, WorkerShape, Places
<1>2. CASE TransitionStep(Step, "running") /\ Goto("run")
  BY <1>1, <1>2, GotoFields DEF MovedTo
<1>3. CASE p.failed /\ TransitionStep(Step, "skipped") /\ p' = [p EXCEPT !.spos = @ + 1]
  <2>1. p.spos + 1 \in Nat
    BY <1>1, LocalTypes
  <2>2. p' \in Locals
    BY <1>1, <1>3, <2>1 DEF Locals
  <2>3. p'.pc = "step" /\ SameJob /\ p'.tolerated = p.tolerated /\ p'.closing = p.closing
        /\ p'.broken = p.broken /\ p'.spos = p.spos + 1 /\ p'.failed = p.failed
    BY <1>1, <1>3 DEF Locals, SameJob, SameRun
  <2> QED BY <1>1, <1>3, <2>2, <2>3 DEF NextSpos
<1> QED BY <1>2, <1>3 DEF NextStep

\* A refused transition is an error of the attempt.
LEMMA RefusedMoves ==
    ASSUME WorkerShape, StepRefused
    PROVE  p.pc = "step" /\ AtJob /\ Quiet /\ Errs("attemptError")
BY ErrFields DEF StepRefused, FailJob, At, AtJob, Attempting

\* The command of a step ends.
LEMMA CommandMoves ==
    ASSUME WorkerShape, FinishStep
    PROVE  /\ p.pc = "run" /\ AtJob
           /\ \/ TransitionStep(Step, "succeeded") /\ NextSpos /\ p'.failed = p.failed
              \/ /\ cancelRequested[p.run]
                 /\ TransitionStep(Step, "cancelled") /\ Closing(1, "cancelled", "attemptEnd")
              \/ /\ TransitionStep(Step, "failed") /\ NextSpos
                 /\ p'.failed = (p.failed \/ Step \notin AllowFailure)
<1>1. p.pc = "run" /\ AtJob /\ p \in Locals /\ "step" \in Places
  BY DEF FinishStep, At, AtJob, Attempting, WorkerShape, Places
<1>2. Len(StepSeq[Job]) \in Nat /\ "cancelled" \in Terminal /\ p.spos \in 1..Len(StepSeq[Job])
  BY <1>1, JobIsThere, StepIsThere, Lists DEF Terminal
<1>3. CASE cancelRequested[p.run] /\ CloseCancelled
  <2>1. p.spos + 1 \in Nat /\ (p.spos + 1)..Len(StepSeq[Job]) \subseteq 1..Len(StepSeq[Job])
    BY <1>2
  <2>2. TransitionStep(Step, "cancelled") /\ Closing(p.spos + 1, "cancelled", "attemptEnd")
    BY <1>1, <1>2, <1>3, <2>1, CloseFields DEF CloseCancelled, Closing
  <2>3. Closing(1, "cancelled", "attemptEnd")
    BY <2>1, <2>2 DEF Closing
  <2> QED BY <1>1, <1>3, <2>2, <2>3
<1>4. ASSUME NEW failed \in BOOLEAN, p' = [p EXCEPT !.pc = "step", !.spos = @ + 1, !.failed = failed]
      PROVE  NextSpos /\ p'.failed = failed
  <2>1. p.spos + 1 \in Nat
    BY <1>2
  <2>2. p' \in Locals
    BY <1>1, <1>4, <2>1 DEF Locals
  <2>3. p'.pc = "step" /\ SameJob /\ p'.tolerated = p.tolerated /\ p'.closing = p.closing
        /\ p'.broken = p.broken /\ p'.spos = p.spos + 1 /\ p'.failed = failed
    BY <1>1, <1>4 DEF Locals, SameJob, SameRun
  <2> QED BY <2>2, <2>3 DEF NextSpos
<1>5. p.failed \in BOOLEAN
  BY <1>1, LocalTypes
<1>6. CASE TransitionStep(Step, "succeeded") /\ p' = [p EXCEPT !.pc = "step", !.spos = @ + 1]
  <2>1. p' = [p EXCEPT !.pc = "step", !.spos = @ + 1, !.failed = p.failed]
    BY <1>1, <1>6 DEF Locals
  <2>2. NextSpos /\ p'.failed = p.failed
    BY <1>4, <1>5, <2>1
  <2> QED BY <1>1, <1>6, <2>2
<1>7. CASE /\ TransitionStep(Step, "failed")
           /\ p' = [p EXCEPT !.pc = "step", !.spos = @ + 1, !.failed = @ \/ Step \notin AllowFailure]
  <2> DEFINE failed == p.failed \/ Step \notin AllowFailure
  <2>1. failed \in BOOLEAN
    OBVIOUS
  <2>2. p' = [p EXCEPT !.pc = "step", !.spos = @ + 1, !.failed = failed]
    BY <1>7
  <2> HIDE DEF failed
  <2>3. NextSpos /\ p'.failed = failed
    BY <1>4, <2>1, <2>2
  <2> QED BY <1>1, <1>7, <2>3 DEF failed
<1> QED BY <1>3, <1>6, <1>7 DEF FinishStep

\* A job whose steps are over ends, and succeeds only without a failed step.
LEMMA FinishJobMoves ==
    ASSUME WorkerShape, FinishJob
    PROVE  /\ p.pc = "step" /\ ~MoreSteps /\ AtJob
           /\ \E status \in {"succeeded", "failed"} :
                /\ status = "succeeded" => ~p.failed
                /\ TransitionJob(Job, status)
                /\ p' \in Locals /\ p'.pc = "attemptEnd" /\ SameJob /\ p'.closing = status
                /\ p'.tolerated = p.tolerated /\ p'.broken = p.broken
<1>1. p.pc = "step" /\ ~MoreSteps /\ AtJob /\ p \in Locals /\ "attemptEnd" \in Places
  BY DEF FinishJob, At, AtJob, Attempting, WorkerShape, Places
<1>2. PICK status \in {"succeeded", "failed"} :
          /\ status = "succeeded" => ~p.failed
          /\ TransitionJob(Job, status)
          /\ p' = [p EXCEPT !.pc = "attemptEnd", !.closing = status]
  BY DEF FinishJob
<1>3. status \in Outcome
  BY DEF Outcome, Terminal
<1>4. p' \in Locals
  BY <1>1, <1>2, <1>3 DEF Locals
<1>5. /\ p'.pc = "attemptEnd" /\ SameJob /\ p'.closing = status
      /\ p'.tolerated = p.tolerated /\ p'.broken = p.broken
  BY <1>1, <1>2 DEF Locals, SameJob, SameRun
<1> QED BY <1>1, <1>2, <1>4, <1>5

\* An attempt that ended with an error is taken for failed.
Failing == /\ p' \in Locals /\ p'.pc = "attemptEnd" /\ SameJob /\ p'.closing = "failed"
           /\ p'.tolerated = p.tolerated /\ p'.broken = TRUE

\* An attempt with an error counts as failed.
LEMMA FailingFields ==
    ASSUME WorkerShape, p.pc = "attemptError", AttemptFailed
    PROVE  AtJob /\ Failing
<1>1. AtJob /\ p \in Locals /\ "attemptEnd" \in Places /\ p.broken = TRUE /\ "failed" \in Outcome
  BY LocalTypes DEF AtJob, Attempting, WorkerShape, Places, Outcome, Terminal
<1>2. p' \in Locals
  BY <1>1 DEF AttemptFailed, Locals
<1>3. /\ p'.pc = "attemptEnd" /\ SameJob /\ p'.closing = "failed"
      /\ p'.tolerated = p.tolerated /\ p'.broken = p.broken
  BY <1>1 DEF AttemptFailed, Locals, SameJob, SameRun
<1> QED BY <1>1, <1>2, <1>3 DEF Failing

\* The job of such an attempt is marked failed.
LEMMA ErrorMoves ==
    ASSUME WorkerShape, RecordJobError
    PROVE  p.pc = "attemptError" /\ AtJob /\ TransitionJob(Job, "failed") /\ Failing
BY FailingFields DEF RecordJobError, At

\* An attempt ends with another one to come, within the policy, or for good.
LEMMA EndMoves ==
    ASSUME WorkerShape, EndAttempt
    PROVE  /\ p.pc = "attemptEnd" /\ AtJob
           /\ \/ MayRetry /\ FinishJobAttempt(Job, TRUE) /\ MovedTo("reset")
              \/ FinishJobAttempt(Job, FALSE) /\ MovedTo("leave")
<1>1. p \in Locals /\ "reset" \in Places /\ "leave" \in Places
  BY DEF WorkerShape, Places
<1> QED BY <1>1, GotoFields DEF EndAttempt, At, AtJob, Attempting, MovedTo

\* executeRun goes on, cancels the rest, or returns the error.
LEMMA LeaveMoves ==
    ASSUME WorkerShape, LeaveJob
    PROVE  /\ p.pc = "leave" /\ AtJob /\ Quiet /\ gate' = gate
           /\ \/ envLease' = <<>> /\ envOverdue' = FALSE
              \/ UNCHANGED <<envLease, envOverdue>>
           /\ \/ Released
              \/ ~p.broken /\ p.closing # "cancelled" /\ p' = Note("job", p.closing)
              \/ /\ ~p.broken /\ p.closing = "cancelled"
                 /\ p' \in Locals /\ p'.pc = "cancelRest" /\ p'.pos = 1 /\ SameRun
                 /\ p'.tolerated = p.tolerated /\ p'.seen = [p.seen EXCEPT ![Job] = "cancelled"]
<1>1. /\ p.pc = "leave" /\ AtJob /\ Quiet /\ gate' = gate /\ p \in Locals /\ "cancelRest" \in Places
      /\ \/ envLease' = <<>> /\ envOverdue' = FALSE
         \/ UNCHANGED <<envLease, envOverdue>>
  BY DEF LeaveJob, At, AtJob, Attempting, WorkerShape, Places
<1>2. Job \in Jobs /\ "cancelled" \in Terminal \cup {"manual"} /\ p.tolerated \in SUBSET Jobs
  BY <1>1, JobIsThere, LocalTypes DEF Terminal
<1>3. CASE /\ ~p.broken /\ p.closing = "cancelled"
           /\ p' = [Note("cancelRest", "cancelled") EXCEPT !.pos = 1]
  <2>1. Noted("cancelRest", "cancelled", 1, p.tolerated)
    BY <1>1, <1>3 DEF Noted, Note, NextJob, Locals
  <2>2. /\ p' \in Locals /\ p'.pc = "cancelRest" /\ p'.pos = 1 /\ SameRun
        /\ p'.tolerated = p.tolerated /\ p'.seen = [p.seen EXCEPT ![Job] = "cancelled"]
    BY <1>1, <1>2, <2>1, NoteFields
  <2>3. ~p.broken /\ p.closing = "cancelled"
    BY <1>3
  <2> QED BY <1>1, <2>2, <2>3
<1>4. CASE Abandon
  BY <1>1, <1>4, ReturnFields DEF Outside
<1>5. CASE ~p.broken /\ p.closing # "cancelled" /\ p' = Note("job", p.closing)
  BY <1>1, <1>5
<1> QED BY <1>3, <1>4, <1>5 DEF LeaveJob

\* A failed job is reset for its next attempt, or the reset is refused.
LEMMA RetryMoves ==
    ASSUME WorkerShape, RetryJob
    PROVE  /\ p.pc = "reset" /\ AtJob
           /\ \/ /\ ResetJobForRetry(Job)
                 /\ p' \in Locals /\ p'.pc = "attempt" /\ SameJob /\ SameRest
              \/ jobStatus[Job] # "failed" /\ Quiet /\ Errs("leave")
<1>1. p.pc = "reset" /\ AtJob /\ p \in Locals /\ "attempt" \in Places
  BY DEF RetryJob, At, AtJob, Attempting, WorkerShape, Places
<1>2. CASE ResetJobForRetry(Job) /\ p' = [p EXCEPT !.pc = "attempt", !.broken = FALSE]
  <2>1. p' \in Locals
    BY <1>1, <1>2 DEF Locals
  <2>2. p'.pc = "attempt" /\ SameJob /\ SameRest
    BY <1>1, <1>2 DEF Locals, SameJob, SameRun, SameRest
  <2> QED BY <1>1, <1>2, <2>1, <2>2
<1>3. CASE jobStatus[Job] # "failed" /\ p' = [p EXCEPT !.pc = "leave", !.broken = TRUE] /\ Quiet
  BY <1>1, <1>3, ErrFields
<1> QED BY <1>2, <1>3 DEF RetryJob

\* A failing store call is an error of the attempt, of the retry loop or of the run.
LEMMA FaultMoves ==
    ASSUME WorkerShape, StoreCallFails
    PROVE  /\ Quiet /\ UNCHANGED deployVars /\ faults' = faults + 1
           /\ \/ InExecuteJob /\ AtJob /\ Errs("attemptError")
              \/ p.pc = "attemptError" /\ AtJob /\ Failing
              \/ InRetryLoop /\ AtJob /\ Errs("leave")
              \/ Released
<1>1. InExecuteJob \/ InRetryLoop => AtJob
  BY DEF InExecuteJob, InRetryLoop, AtJob, Attempting, At
<1>2. Quiet /\ UNCHANGED deployVars /\ faults' = faults + 1
  BY DEF StoreCallFails
<1>3. CASE InExecuteJob /\ FailJob
  BY <1>1, <1>2, <1>3, ErrFields DEF FailJob
<1>4. CASE p.pc = "attemptError" /\ AttemptFailed
  BY <1>2, <1>4, FailingFields
<1>5. CASE InRetryLoop /\ p' = [p EXCEPT !.pc = "leave", !.broken = TRUE]
  BY <1>1, <1>2, <1>5, ErrFields
<1>6. CASE InExecuteRun /\ Abandon
  BY <1>2, <1>6, ReturnFields DEF InExecuteRun, At, Outside
<1> QED BY <1>3, <1>4, <1>5, <1>6 DEF StoreCallFails, At

-----------------------------------------------------------------------------
(* The local variables *)

\* Every kind of move keeps the local variables in shape.
LEMMA GoneShape == ASSUME Gone PROVE WorkerShape'
BY DEF Gone, WorkerShape, Preparing, Attempting, Outside

\* Giving the run back keeps the local variables in shape.
LEMMA ReleasedShape == ASSUME WorkerShape, Released PROVE WorkerShape'
BY NoneAssumption DEF Released, SameRun, WorkerShape, Preparing, Attempting, Outside

\* Closing a job keeps the local variables in shape.
LEMMA ClosingShape ==
    ASSUME WorkerShape, AtJob, NEW first \in {1, 2}, NEW status \in {"failed", "cancelled", "skipped"},
           NEW after \in {"attemptEnd", "job", "cancelRest", "abort"}, Closing(first, status, after),
           after \in {"job", "abort"} => status # "cancelled"
    PROVE  WorkerShape'
<1>1. first..Len(StepSeq[Job]) \subseteq 1..Len(StepSeq[Job])
  BY JobIsThere, Lists
<1>2. Job' = Job
  BY JobStays DEF Closing
<1> QED BY <1>1, <1>2, JobIsThere, NoneAssumption
        DEF Closing, SameJob, SameRun, WorkerShape, Preparing, Attempting, Outside

\* An error keeps the local variables in shape.
LEMMA ErrsShape ==
    ASSUME WorkerShape, AtJob, NEW x \in {"attemptError", "leave"}, Errs(x)
    PROVE  WorkerShape'
BY JobIsThere, NoneAssumption
   DEF Errs, SameJob, SameRun, SameRest, WorkerShape, Preparing, Attempting, Outside

\* The end of an attempt keeps the local variables in shape.
LEMMA EndsShape ==
    ASSUME WorkerShape, AtJob, p' \in Locals, p'.pc = "attemptEnd", SameJob
    PROVE  WorkerShape'
BY JobIsThere, NoneAssumption DEF SameJob, SameRun, WorkerShape, Preparing, Attempting, Outside

\* Moving on with the same job keeps the local variables in shape.
LEMMA MovedShape ==
    ASSUME WorkerShape, AtJob,
           NEW x \in {"prepare", "acquire", "awaitGate", "awaitEnvironment",
                      "attempt", "start", "attemptEnd", "reset", "leave"},
           p' \in Locals, p'.pc = x, SameJob, p'.closing = p.closing,
           Preparing' => p.closing = "none"
    PROVE  WorkerShape'
BY JobIsThere, NoneAssumption DEF SameJob, SameRun, WorkerShape, Preparing, Attempting, Outside

\* Going on to another job keeps the local variables in shape.
LEMMA AdvancedShape ==
    ASSUME WorkerShape, AtJob, NEW x \in {"job", "cancelRest", "abort"},
           p' \in Locals, p'.pc = x, p'.pos = p.pos + 1 \/ p'.pos = 1, SameRun,
           x = "job" => p'.closing = "none"
    PROVE  WorkerShape'
<1>1. p'.pos \in 1..(Len(JobSeq[p.run]) + 1)
  BY JobIsThere, Lists
<1> QED BY <1>1, JobIsThere, NoneAssumption DEF SameRun, WorkerShape, Preparing, Attempting, Outside

\* Going on to the next step keeps the local variables in shape.
LEMMA SposShape ==
    ASSUME WorkerShape, AtJob, p.pc = "run" \/ (p.pc = "step" /\ MoreSteps), NextSpos
    PROVE  WorkerShape'
<1>1. p'.spos \in 1..(Len(StepSeq[Job]) + 1)
  BY StepIsThere, JobIsThere, Lists DEF NextSpos
<1>2. Job' = Job
  BY JobStays DEF NextSpos
<1> QED BY <1>1, <1>2, JobIsThere, NoneAssumption
        DEF NextSpos, SameJob, SameRun, WorkerShape, Preparing, Attempting, Outside

\* Every step keeps the local variables in shape.
LEMMA ShapeStep ==
    ASSUME StoreInv, WorkerShape, PassedJobsAreOver, Next
    PROVE  WorkerShape'
<1>1. ASSUME PassFinishedJob PROVE WorkerShape'
  BY <1>1, PassMoves, AdvancedShape DEF Advanced
<1>2. ASSUME SkipJob PROVE WorkerShape'
  BY <1>2, SkipMoves, ClosingShape
<1>3. ASSUME MeetManualJob PROVE WorkerShape'
  BY <1>3, ManualMoves, AdvancedShape, ReleasedShape DEF Advanced
<1>4. ASSUME ChooseJob PROVE WorkerShape'
  BY <1>4, ChooseMoves, JobIsThere, NoneAssumption
  DEF SameJob, SameRun, WorkerShape, Preparing, Attempting, Outside
<1>5. ASSUME CheckCancelled PROVE WorkerShape'
  <2>1. p.closing = "none"
    BY <1>5, CheckMoves DEF WorkerShape, Preparing
  <2> QED BY <1>5, <2>1, CheckMoves, MovedShape, AdvancedShape DEF MovedTo, SameRest
<1>6. ASSUME Prepare PROVE WorkerShape'
  <2>1. p.closing = "none"
    BY <1>6, PrepareMoves DEF WorkerShape, Preparing
  <2> QED BY <1>6, <2>1, PrepareMoves, MovedShape, ClosingShape DEF MovedTo, SameRest
<1>7. ASSUME AcquireEnvironment PROVE WorkerShape'
  <2>1. p.closing = "none"
    BY <1>7, AcquireMoves DEF WorkerShape, Preparing
  <2> QED BY <1>7, <2>1, AcquireMoves, MovedShape DEF MovedTo, SameRest
<1>8. ASSUME Park \/ FinishRun PROVE WorkerShape'
  BY <1>8, ParkMoves, FinishMoves, ReleasedShape
<1>9. ASSUME CancelRemaining PROVE WorkerShape'
  BY <1>9, CancelMoves, ClosingShape, AdvancedShape, ReleasedShape
<1>10. ASSUME AbortRun PROVE WorkerShape'
  BY <1>10, AbortMoves, ClosingShape, AdvancedShape, ReleasedShape
<1>11. ASSUME SkipStep PROVE WorkerShape'
  <2>1. Job' = Job
    BY <1>11, SkipStepMoves, JobStays
  <2> QED BY <1>11, <2>1, SkipStepMoves, JobIsThere, NoneAssumption
          DEF SameJob, SameRun, WorkerShape, Preparing, Attempting, Outside
<1>12. ASSUME CloseJob PROVE WorkerShape'
  <2>1. CASE MovedTo("attemptEnd")
    BY <1>12, <2>1, CloseJobMoves, EndsShape DEF MovedTo
  <2>2. CASE Advanced(p.closing, p.tolerated)
    BY <1>12, <2>2, CloseJobMoves, AdvancedShape DEF Advanced
  <2>3. CASE /\ p.after \in {"cancelRest", "abort"}
             /\ p' \in Locals /\ p'.pc = p.after /\ p'.pos = p.pos + 1 /\ SameRun
    BY <1>12, <2>3, CloseJobMoves, AdvancedShape
  <2> QED BY <1>12, <2>1, <2>2, <2>3, CloseJobMoves
<1>13. ASSUME BeginAttempt PROVE WorkerShape'
  <2>1. p'.pc = "start"
    BY <1>13, BeginMoves DEF MovedTo
  <2> QED BY <1>13, <2>1, BeginMoves, MovedShape DEF MovedTo, SameRest, Preparing
<1>14. ASSUME StartJob PROVE WorkerShape'
  <2>1. Job' = Job /\ Len(StepSeq[Job]) \in Nat
    BY <1>14, StartMoves, JobStays, JobIsThere, Lists
  <2> QED BY <1>14, <2>1, StartMoves, JobIsThere, NoneAssumption
          DEF SameJob, SameRun, WorkerShape, Preparing, Attempting, Outside
<1>15. ASSUME FailSetup PROVE WorkerShape'
  BY <1>15, SetupMoves, ClosingShape, ErrsShape
<1>16. ASSUME StopBeforeStep PROVE WorkerShape'
  BY <1>16, StopMoves, ClosingShape, ErrsShape
<1>17. ASSUME NextStep PROVE WorkerShape'
  <2>1. CASE MovedTo("run")
    <3>1. Job' = Job
      BY <2>1, JobStays DEF MovedTo
    <3> QED BY <1>17, <2>1, <3>1, StepMoves, JobIsThere, StepIsThere, NoneAssumption
            DEF MovedTo, SameJob, SameRun, SameRest, WorkerShape, Preparing, Attempting, Outside
  <2> QED BY <1>17, <2>1, StepMoves, SposShape
<1>18. ASSUME StepRefused PROVE WorkerShape'
  BY <1>18, RefusedMoves, ErrsShape
<1>19. ASSUME FinishStep PROVE WorkerShape'
  BY <1>19, CommandMoves, ClosingShape, SposShape
<1>20. ASSUME FinishJob \/ RecordJobError PROVE WorkerShape'
  BY <1>20, FinishJobMoves, ErrorMoves, EndsShape DEF Failing
<1>21. ASSUME EndAttempt PROVE WorkerShape'
  <2>1. ~Preparing'
    BY <1>21, EndMoves DEF MovedTo, Preparing
  <2> QED BY <1>21, <2>1, EndMoves, MovedShape DEF MovedTo, SameRest
<1>22. ASSUME LeaveJob PROVE WorkerShape'
  <2>1. CASE p' = Note("job", p.closing) /\ ~p.broken
    <3>1. "job" \in Places /\ p \in Locals /\ Job \in Jobs
      BY <1>22, LeaveMoves, JobIsThere DEF Places, WorkerShape
    <3>2. p.closing \in Terminal \cup {"manual"}
      BY <1>22, <2>1, LeaveMoves DEF PassedJobsAreOver
    <3> QED BY <1>22, <2>1, <3>1, <3>2, LeaveMoves, PlainNote, AdvancedShape
  <2> QED BY <1>22, <2>1, LeaveMoves, AdvancedShape, ReleasedShape
<1>23. ASSUME RetryJob PROVE WorkerShape'
  <2>1. CASE ResetJobForRetry(Job) /\ p' \in Locals /\ p'.pc = "attempt" /\ SameJob /\ SameRest
    <3>1. ~Preparing'
      BY <2>1 DEF Preparing
    <3> QED BY <1>23, <2>1, <3>1, RetryMoves, MovedShape DEF SameRest
  <2> QED BY <1>23, <2>1, RetryMoves, ErrsShape
<1>24. ASSUME StoreCallFails PROVE WorkerShape'
  BY <1>24, FaultMoves, ErrsShape, EndsShape, ReleasedShape DEF Failing
<1>25. ASSUME LoadRun PROVE WorkerShape'
  <2>1. p.closing = "none" /\ Len(JobSeq[p.run]) \in Nat
    BY <1>25, LoadMoves, Lists DEF WorkerShape
  <2> QED BY <1>25, <2>1, LoadMoves, NoneAssumption
          DEF SameRun, WorkerShape, Preparing, Attempting, Outside
<1>26. ASSUME EstablishLease PROVE WorkerShape'
  <2>1. CASE HeartbeatRunWorker(p.run, p.me) /\ p' \in Locals /\ p'.pc = "load" /\ SameJob /\ SameRest
    BY <1>26, <2>1, LeaseMoves, NoneAssumption
    DEF SameJob, SameRun, SameRest, WorkerShape, Preparing, Attempting, Outside
  <2> QED BY <1>26, <2>1, LeaseMoves, GoneShape
<1>27. ASSUME Claim PROVE WorkerShape'
  <2>1. ASSUME NEW r \in Runs, Claimed(r) PROVE WorkerShape'
    BY <2>1, NoneAssumption, ShapeAssumption
    DEF Claimed, SameRest, WorkerShape, Preparing, Attempting, Outside
  <2> QED BY <1>27, <2>1, ClaimMoves, GoneShape
<1>28. ASSUME GoneMove \/ Release \/ Crash PROVE WorkerShape'
  BY <1>28, GoneMoves, ReleaseMoves, CrashMoves, GoneShape
<1>29. ASSUME UNCHANGED p PROVE WorkerShape'
  BY <1>29 DEF WorkerShape, Preparing, Attempting, Job, Step
<1> QED
  BY <1>1, <1>2, <1>3, <1>4, <1>5, <1>6, <1>7, <1>8, <1>9, <1>10, <1>11, <1>12, <1>13, <1>14,
     <1>15, <1>16, <1>17, <1>18, <1>19, <1>20, <1>21, <1>22, <1>23, <1>24, <1>25, <1>26, <1>27,
     <1>28, <1>29
  DEF Next, WorkerStep, GoneMove, Heartbeat, HeartbeatEnvironment, ApiCall, DecideGate,
      EnvLeaseExpires, Expire

-----------------------------------------------------------------------------
(* The worker and the store *)

\* The job that the worker is at belongs to a running run, so it does not wait.
LEMMA RunIsRunning ==
    ASSUME StoreInv, WorkerShape, RunIsHeld, AtJob
    PROVE  /\ Held /\ runStatus[p.run] = "running" /\ RunOf[Job] = p.run /\ Job \in Jobs
           /\ \A j \in Jobs : RunOf[j] = p.run => jobStatus[j] \notin {"waiting", Absent}
<1>1. Held /\ RunOf[Job] = p.run /\ Job \in Jobs /\ p.run \in Runs
  BY JobIsThere DEF Held
<1>2. runStatus[p.run] = "running"
  BY <1>1 DEF RunIsHeld
<1>3. \A j \in Jobs : RunOf[j] = p.run => jobStatus[j] # "waiting"
  BY <1>2 DEF StoreInv, WaitRowsMatchJobs
<1>4. \A j \in Jobs : RunOf[j] = p.run => jobStatus[j] # Absent
  BY <1>2 DEF StoreInv, GraphExistsWithRun, Absent
<1> QED BY <1>1, <1>2, <1>3, <1>4

\* Every step of the service is a step that the store allows its callers.
LEMMA StoreRefinement ==
    ASSUME StoreInv, WorkerShape, RunIsHeld, Next
    PROVE  [StoreNext]_storeVars
<1> USE DEF Quiet
<1>1. ASSUME Quiet PROVE [StoreNext]_storeVars
  BY <1>1
<1>2. ASSUME NEW next \in Terminal \cup {"running"}, AtJob, TransitionJob(Job, next)
      PROVE  StoreNext
  <2>1. \/ jobStatus[Job] \in {"queued", "running"}
        \/ jobStatus[Job] = "manual" /\ runStatus[RunOf[Job]] = "running"
    BY <1>2, RunIsRunning DEF TransitionJob, CanTransition
  <2> QED BY <1>2, <2>1, JobIsThere DEF StoreNext, ManagerStep, Requested
<1>3. ASSUME NEW s \in Steps, NEW next \in Terminal \cup {"running"}, TransitionStep(s, next)
      PROVE  StoreNext
  BY <1>3 DEF StoreNext, ManagerStep, Requested
<1>4. ASSUME p.run \in Runs, p.run # None, p.pc # "release", NEW next \in Terminal,
             TransitionRun(p.run, next)
      PROVE  StoreNext
  <2>1. runStatus[p.run] = "running"
    BY <1>4 DEF RunIsHeld, Held
  <2> QED BY <1>4, <2>1 DEF StoreNext, ManagerStep
<1>5. ASSUME Recover PROVE [StoreNext]_storeVars
  BY <1>5 DEF Recover, StoreNext, ManagerStep
<1>6. ASSUME ResumeWaitingJobs PROVE [StoreNext]_storeVars
  <2>1. ASSUME NEW wait \in p.waits, ResumeJob(wait[1]) PROVE StoreNext
    <3>1. p.waits \subseteq Jobs \X {"gate", "concurrency"}
      BY LocalTypes DEF WorkerShape
    <3>2. wait[1] \in Jobs
      BY <2>1, <3>1
    <3> QED BY <2>1, <3>2 DEF StoreNext, ManagerStep
  <2> QED BY <1>6, <2>1 DEF ResumeWaitingJobs
<1>7. ASSUME Claim PROVE [StoreNext]_storeVars
  BY <1>7, ClaimMoves DEF Claimed, StoreNext, ManagerStep
<1>8. ASSUME EstablishLease \/ Release \/ Heartbeat PROVE [StoreNext]_storeVars
  <2>1. p.run # None /\ p.pc \notin {"lease", "release"} => p.run \in Runs /\ p.me \in Workers
    BY LocalTypes DEF WorkerShape, Outside
  <2> QED BY <1>8, <2>1, LeaseMoves, ReleaseMoves DEF Heartbeat, StoreNext, ManagerStep
<1>9. ASSUME Park \/ MeetManualJob PROVE [StoreNext]_storeVars
  <2>1. (Manual[Job] = "blocking") \in BOOLEAN
    OBVIOUS
  <2> QED BY <1>9, <2>1, ParkMoves, ManualMoves, JobIsThere DEF StoreNext, ManagerStep
<1>10. ASSUME FinishRun \/ CancelRemaining \/ AbortRun PROVE [StoreNext]_storeVars
  <2>1. {"succeeded", "failed", "cancelled"} \subseteq Terminal
    BY DEF Terminal
  <2> QED BY <1>10, <1>4, <2>1, FinishMoves, CancelMoves, AbortMoves
<1>11. ASSUME CloseJob \/ StartJob \/ FinishJob \/ RecordJobError PROVE [StoreNext]_storeVars
  <2>1. {"succeeded", "failed", "cancelled", "skipped"} \subseteq Terminal
    BY DEF Terminal
  <2> QED BY <1>11, <1>2, <2>1, CloseJobMoves, StartMoves, FinishJobMoves, ErrorMoves
<1>12. ASSUME SkipStep \/ FailSetup \/ StopBeforeStep \/ NextStep \/ FinishStep
       PROVE  [StoreNext]_storeVars
  <2>1. {"succeeded", "failed", "cancelled", "skipped"} \subseteq Terminal
    BY DEF Terminal
  <2>2. ASSUME SkipStep PROVE StoreNext
    BY <1>3, <2>1, <2>2, SkipStepMoves
  <2>3. ASSUME FailSetup PROVE [StoreNext]_storeVars
    BY <1>3, <2>1, <2>3, SetupMoves, JobIsThere, Lists
  <2>4. ASSUME StopBeforeStep PROVE [StoreNext]_storeVars
    BY <1>3, <2>1, <2>4, StopMoves, StepIsThere
  <2>5. ASSUME NextStep PROVE [StoreNext]_storeVars
    BY <1>3, <2>1, <2>5, StepMoves, StepIsThere
  <2>6. ASSUME FinishStep PROVE [StoreNext]_storeVars
    BY <1>3, <2>1, <2>6, CommandMoves, StepIsThere
  <2> QED BY <1>12, <2>2, <2>3, <2>4, <2>5, <2>6
<1>13. ASSUME BeginAttempt \/ EndAttempt \/ RetryJob PROVE [StoreNext]_storeVars
  BY <1>13, BeginMoves, EndMoves, RetryMoves, JobIsThere DEF StoreNext, ManagerStep
<1>14. ASSUME ApiCall \/ \E r \in Runs : Expire(r) PROVE [StoreNext]_storeVars
  BY <1>14, ShapeAssumption DEF ApiCall, Expire, StoreNext, ApiStep
<1> QED
  BY <1>1, <1>5, <1>6, <1>7, <1>8, <1>9, <1>10, <1>11, <1>12, <1>13, <1>14
  DEF Next, WorkerStep, HeartbeatEnvironment, DecideGate, EnvLeaseExpires, StoreCallFails, Crash,
      Restart, ListJobWaits, LoadRun, PassFinishedJob, SkipJob, ChooseJob, CheckCancelled, Prepare,
      AcquireEnvironment, StepRefused, LeaveJob

USE DEF runVars, leaseVars, manualVars, attemptVars

\* The invariant of the store holds again after a step of the service.
LEMMA StoreInvStep ==
    ASSUME StoreInv, WorkerShape, RunIsHeld, Next
    PROVE  StoreInv'
<1>1. [StoreNext]_storeVars
  BY StoreRefinement
<1>2. CASE StoreNext
  <2>1. TypeOK'
    BY <1>2, TypeStep DEF StoreInv
  <2> QED BY <1>2, <2>1, GraphStep, WakerStep, WaitRowsStep DEF StoreInv
<1>3. CASE UNCHANGED storeVars
  BY <1>3 DEF storeVars, StoreInv, TypeOK, GraphExistsWithRun, WaitingRunHasOneWaker,
     WaitRowsMatchJobs, RunningRunIsClaimed, Parked, RunOfStep
<1> QED BY <1>1, <1>2, <1>3

-----------------------------------------------------------------------------
(* The run, the environment and the gate *)

\* Who changes the claim and the lease of a run, and how it leaves the running status
LEMMA HeldStep ==
    ASSUME StoreInv, WorkerShape, RunIsHeld, Next
    PROVE  RunIsHeld'
<1> USE DEF RunIsHeld, Held, StoreInv, TypeOK
<1>1. ASSUME Gone \/ Released PROVE RunIsHeld'
  BY <1>1 DEF Gone, Released
<1>2. ASSUME UNCHANGED <<runStatus, claimedBy, leaseOwner>>, SameRun, p.pc \notin {"lease", "release"},
             p.run # None, p.run \in Runs
      PROVE  RunIsHeld'
  BY <1>2 DEF SameRun
<1>3. ASSUME AtJob, SameRun, UNCHANGED <<runStatus, claimedBy, leaseOwner>> PROVE RunIsHeld'
  <2>1. p.pc # "lease"
    BY <1>3 DEF AtJob, Preparing, Attempting
  <2> QED BY <1>2, <1>3, <2>1, JobIsThere
<1>4. ASSUME NEW r \in Runs, Claimed(r) PROVE RunIsHeld'
  BY <1>4 DEF Claimed
<1>5. ASSUME EstablishLease PROVE RunIsHeld'
  BY <1>1, <1>5, LeaseMoves DEF HeartbeatRunWorker, SameJob, SameRun
<1>6. ASSUME LoadRun PROVE RunIsHeld'
  <2>1. p.run # None
    BY <1>6, LoadMoves, ShapeAssumption
  <2> QED BY <1>2, <1>6, <2>1, LoadMoves DEF Quiet, storeVars
<1>7. ASSUME Heartbeat PROVE RunIsHeld'
  <2>1. p.run \in Runs
    BY <1>7, LocalTypes DEF Heartbeat, WorkerShape
  <2> QED BY <1>7, <2>1 DEF Heartbeat, HeartbeatRunWorker
<1>8. ASSUME NEW r \in Runs, UNCHANGED p,
             EnqueueRun(r) \/ RequestRunCancellation(r) \/ LeaseExpires(r)
      PROVE  RunIsHeld'
  <2>1. Held => p.run \in Runs
    BY LocalTypes DEF WorkerShape
  <2>2. CASE EnqueueRun(r)
    BY <1>8, <2>1, <2>2 DEF EnqueueRun, Absent
  <2>3. CASE RequestRunCancellation(r) /\ runStatus[r] = "running"
    BY <1>8, <2>1, <2>3 DEF RequestRunCancellation
  <2>4. CASE RequestRunCancellation(r) /\ runStatus[r] # "running"
    BY <1>8, <2>1, <2>4 DEF RequestRunCancellation
  <2>5. CASE LeaseExpires(r)
    BY <1>8, <2>1, <2>5 DEF LeaseExpires
  <2> QED BY <1>8, <2>2, <2>3, <2>4, <2>5
<1>9. ASSUME NEW j \in Jobs, UNCHANGED p, PlayManualJob(j) PROVE RunIsHeld'
  <2>1. Held => p.run \in Runs
    BY LocalTypes DEF WorkerShape
  <2>2. RunOf[j] \in Runs /\ runStatus[RunOf[j]] # "running"
    BY <1>9, RowKeys DEF PlayManualJob
  <2>3. \A r \in Runs : r # RunOf[j] =>
           runStatus'[r] = runStatus[r] /\ claimedBy'[r] = claimedBy[r] /\ leaseOwner'[r] = leaseOwner[r]
    BY <1>9, <2>2 DEF PlayManualJob
  <2> QED BY <1>9, <2>1, <2>2, <2>3
<1>10. ASSUME UNCHANGED <<p, storeVars>> PROVE RunIsHeld'
  BY <1>10 DEF storeVars
<1>11. ASSUME MeetManualJob PROVE RunIsHeld'
  <2>1. CASE Released
    BY <1>1, <2>1
  <2>2. CASE Manual[Job] = "optional" /\ Advanced("manual", p.tolerated \cup {Job})
    <3>1. UNCHANGED <<runStatus, claimedBy, leaseOwner>>
      BY <1>11, <2>2, ManualMoves, JobIsThere DEF PauseManualJob, Quiet, storeVars
    <3> QED BY <1>3, <1>11, <2>2, <3>1, ManualMoves DEF Advanced
  <2> QED BY <1>11, <2>1, <2>2, ManualMoves
<1>12. ASSUME CancelRemaining \/ AbortRun PROVE RunIsHeld'
  BY <1>1, <1>3, <1>12, CancelMoves, AbortMoves DEF Closing, SameJob, Quiet, storeVars
<1>13. ASSUME LeaveJob PROVE RunIsHeld'
  <2>1. CASE Released
    BY <1>1, <2>1
  <2>2. CASE p' = Note("job", p.closing)
    <3>1. SameRun
      BY <2>2, LocalTypes DEF WorkerShape, Note, NextJob, SameRun, Locals
    <3> QED BY <1>3, <1>13, <3>1, LeaveMoves DEF Quiet, storeVars
  <2> QED BY <1>3, <1>13, <2>1, <2>2, LeaveMoves DEF Quiet, storeVars
<1>14. ASSUME Claim \/ GoneMove \/ Release \/ Crash \/ Park \/ FinishRun PROVE RunIsHeld'
  BY <1>1, <1>4, <1>14, ClaimMoves, GoneMoves, ReleaseMoves, CrashMoves, ParkMoves, FinishMoves
<1>15. ASSUME \/ PassFinishedJob \/ SkipJob \/ ChooseJob \/ CheckCancelled \/ Prepare
              \/ AcquireEnvironment
       PROVE  RunIsHeld'
  BY <1>3, <1>15, PassMoves, SkipMoves, ChooseMoves, CheckMoves, PrepareMoves, AcquireMoves
  DEF Advanced, Closing, MovedTo, SameJob, Quiet, storeVars
<1>16. ASSUME SkipStep \/ CloseJob \/ BeginAttempt \/ StartJob PROVE RunIsHeld'
  BY <1>3, <1>16, SkipStepMoves, CloseJobMoves, BeginMoves, StartMoves
  DEF Advanced, Closing, MovedTo, SameJob, TransitionStep, TransitionJob, StartJobAttempt
<1>17. ASSUME FailSetup \/ StopBeforeStep \/ NextStep \/ StepRefused \/ FinishStep PROVE RunIsHeld'
  BY <1>3, <1>17, SetupMoves, StopMoves, StepMoves, RefusedMoves, CommandMoves
  DEF Closing, MovedTo, Errs, NextSpos, SameJob, TransitionStep, Quiet, storeVars
<1>18. ASSUME FinishJob \/ RecordJobError \/ EndAttempt \/ RetryJob PROVE RunIsHeld'
  BY <1>3, <1>18, FinishJobMoves, ErrorMoves, EndMoves, RetryMoves
  DEF Failing, MovedTo, Errs, SameJob, TransitionJob, FinishJobAttempt, ResetJobForRetry, Quiet, storeVars
<1>19. ASSUME StoreCallFails PROVE RunIsHeld'
  BY <1>1, <1>3, <1>19, FaultMoves DEF Failing, Errs, SameJob, Quiet, storeVars
<1> HIDE DEF RunIsHeld, Held, StoreInv, TypeOK
<1> QED
  BY <1>5, <1>6, <1>7, <1>8, <1>9, <1>10, <1>11, <1>12, <1>13, <1>14, <1>15, <1>16, <1>17, <1>18, <1>19,
     ShapeAssumption
  DEF Next, WorkerStep, GoneMove, HeartbeatEnvironment, ApiCall, DecideGate, EnvLeaseExpires, Expire,
      Quiet

\* Gates stay open, and nobody but the worker moves an environment's lease.
LEMMA EnvironmentStep ==
    ASSUME StoreInv, WorkerShape, EnvironmentIsHeld, Next
    PROVE  EnvironmentIsHeld'
<1> USE DEF EnvironmentIsHeld
<1>1. ASSUME ~Attempting', p'.pc # "acquire" PROVE EnvironmentIsHeld'
  BY <1>1
<1>2. ASSUME Gone \/ Released \/ (p' \in Locals /\ p'.pc \in {"job", "cancelRest", "abort", "check"})
      PROVE  EnvironmentIsHeld'
  BY <1>2 DEF Gone, Released, Attempting, Outside
<1>3. ASSUME Attempting, SameJob, UNCHANGED <<gate, envLease>>, p'.pc # "acquire"
      PROVE  EnvironmentIsHeld'
  BY <1>3, JobStays DEF SameJob, SameRun
<1>4. ASSUME UNCHANGED <<p, gate, envLease>> PROVE EnvironmentIsHeld'
  BY <1>4 DEF Attempting, Job
<1>5. ASSUME DecideGate PROVE EnvironmentIsHeld'
  <2>1. PICK j \in Gated, decision \in {"open", "refused"} :
           gate[j] = "closed" /\ gate' = [gate EXCEPT ![j] = decision]
    BY <1>5 DEF DecideGate
  <2>2. UNCHANGED <<p, envLease>>
    BY <1>5 DEF DecideGate
  <2> QED BY <2>1, <2>2 DEF Attempting, Job
<1>6. ASSUME Prepare, UNCHANGED deployVars PROVE EnvironmentIsHeld'
  <2>1. CASE Closing(1, "failed", "job")
    BY <1>1, <2>1 DEF Closing, Attempting
  <2>2. CASE MovedTo("attempt") /\ Job \notin Gated
    BY <2>2, JobStays DEF MovedTo
  <2>3. CASE MovedTo("acquire") /\ Job \in Gated /\ gate[Job] = "open"
    BY <1>6, <2>3, JobStays DEF MovedTo, Attempting, deployVars
  <2>4. CASE MovedTo("awaitGate")
    BY <1>1, <2>4 DEF MovedTo, Attempting
  <2> QED BY <1>6, <2>1, <2>2, <2>3, <2>4, PrepareMoves
<1>7. ASSUME AcquireEnvironment PROVE EnvironmentIsHeld'
  <2>1. CASE MovedTo("attempt") /\ envLease' = <<Job, p.me>>
    BY <1>7, <2>1, AcquireMoves, JobStays DEF MovedTo, SameJob, SameRun
  <2>2. CASE MovedTo("awaitEnvironment")
    BY <1>1, <2>2 DEF MovedTo, Attempting
  <2> QED BY <1>7, <2>1, <2>2, AcquireMoves
<1>8. ASSUME UNCHANGED deployVars, SkipJob \/ CancelRemaining \/ AbortRun PROVE EnvironmentIsHeld'
  BY <1>1, <1>2, <1>8, SkipMoves, CancelMoves, AbortMoves DEF Closing, Attempting
<1>9. ASSUME UNCHANGED deployVars, SkipStep PROVE EnvironmentIsHeld'
  <2>1. Attempting' => Attempting
    BY <1>9, SkipStepMoves DEF Attempting
  <2> QED BY <1>1, <1>3, <1>9, <2>1, SkipStepMoves DEF deployVars
<1>10. ASSUME UNCHANGED deployVars, CloseJob PROVE EnvironmentIsHeld'
  <2>1. CASE p.after = "attemptEnd" /\ MovedTo("attemptEnd")
    <3>1. Attempting
      BY <1>10, <2>1, CloseJobMoves DEF Attempting
    <3> QED BY <1>3, <1>10, <2>1, <3>1 DEF MovedTo, deployVars
  <2>2. CASE p' \in Locals /\ p'.pc \in {"job", "cancelRest", "abort"}
    BY <1>2, <2>2
  <2> QED BY <1>10, <2>1, <2>2, CloseJobMoves DEF Advanced
<1>11. ASSUME LeaveJob PROVE EnvironmentIsHeld'
  <2>1. CASE p' = Note("job", p.closing)
    <3>1. p'.pc = "job"
      BY <2>1, LocalTypes DEF WorkerShape, Note, NextJob, Locals
    <3> QED BY <1>1, <3>1 DEF Attempting
  <2> QED BY <1>2, <1>11, <2>1, LeaveMoves
<1>12. ASSUME UNCHANGED deployVars,
              BeginAttempt \/ StartJob \/ FailSetup \/ StopBeforeStep \/ NextStep \/ StepRefused
       PROVE  EnvironmentIsHeld'
  <2>1. Attempting /\ SameJob /\ p'.pc # "acquire"
    BY <1>12, BeginMoves, StartMoves, SetupMoves, StopMoves, StepMoves, RefusedMoves
    DEF Attempting, MovedTo, Closing, Errs, NextSpos
  <2> QED BY <1>3, <1>12, <2>1 DEF deployVars
<1>13. ASSUME UNCHANGED deployVars,
              FinishStep \/ FinishJob \/ RecordJobError \/ EndAttempt \/ RetryJob
       PROVE  EnvironmentIsHeld'
  <2>1. Attempting /\ SameJob /\ p'.pc # "acquire"
    BY <1>13, CommandMoves, FinishJobMoves, ErrorMoves, EndMoves, RetryMoves
    DEF Attempting, MovedTo, Closing, Errs, NextSpos, Failing
  <2> QED BY <1>3, <1>13, <2>1 DEF deployVars
<1>14. ASSUME StoreCallFails PROVE EnvironmentIsHeld'
  <2>1. CASE SameJob /\ (InExecuteJob \/ InRetryLoop \/ p.pc = "attemptError") /\ p'.pc # "acquire"
    <3>1. Attempting
      BY <2>1 DEF InExecuteJob, InRetryLoop, Attempting, At
    <3> QED BY <1>3, <1>14, <2>1, <3>1, FaultMoves DEF deployVars
  <2> QED BY <1>2, <1>14, <2>1, FaultMoves DEF Errs, Failing
<1>15. ASSUME UNCHANGED deployVars, EstablishLease \/ LoadRun \/ Claim PROVE EnvironmentIsHeld'
  <2>1. ~Attempting' /\ p'.pc # "acquire"
    BY <1>15, LeaseMoves, LoadMoves, ClaimMoves DEF Gone, Claimed, Outside, Attempting
  <2> QED BY <1>1, <2>1
<1>16. ASSUME GoneMove \/ Release \/ Crash \/ Park \/ FinishRun \/ PassFinishedJob \/ ChooseJob
       PROVE  EnvironmentIsHeld'
  BY <1>2, <1>16, GoneMoves, ReleaseMoves, CrashMoves, ParkMoves, FinishMoves, PassMoves, ChooseMoves
  DEF Advanced
<1>17. ASSUME MeetManualJob PROVE EnvironmentIsHeld'
  BY <1>2, <1>17, ManualMoves DEF Advanced
<1>18. ASSUME UNCHANGED deployVars, CheckCancelled PROVE EnvironmentIsHeld'
  BY <1>1, <1>2, <1>18, CheckMoves DEF MovedTo, Attempting
<1> HIDE DEF EnvironmentIsHeld
<1> QED
  BY <1>4, <1>5, <1>6, <1>7, <1>8, <1>9, <1>10, <1>11, <1>12, <1>13, <1>14, <1>15, <1>16, <1>17, <1>18
  DEF Next, WorkerStep, GoneMove, Heartbeat, HeartbeatEnvironment, ApiCall, EnvLeaseExpires, Expire,
      deployVars

\* Every step keeps gates, the environment's lease and the faults in range.
LEMMA DeployTypeStep ==
    ASSUME WorkerShape, DeployTypeOK, EnvironmentIsHeld, Next
    PROVE  DeployTypeOK'
<1> USE DEF DeployTypeOK
<1>1. ASSUME UNCHANGED <<deployVars, faults>> PROVE DeployTypeOK'
  BY <1>1 DEF deployVars
<1>2. ASSUME StoreCallFails \/ Crash PROVE DeployTypeOK'
  <2>1. faults < MaxFaults /\ faults' = faults + 1 /\ UNCHANGED deployVars
    BY <1>2 DEF StoreCallFails, Crash
  <2> QED BY <2>1, ShapeAssumption DEF deployVars
<1>3. ASSUME AcquireEnvironment \/ LeaveJob, UNCHANGED faults, EnvironmentIsHeld PROVE DeployTypeOK'
  <2>1. AcquireEnvironment => <<Job, p.me>> \in Gated \X Workers
    BY <1>3, AcquireMoves, JobIsThere DEF EnvironmentIsHeld
  <2> QED BY <1>3, <2>1, AcquireMoves, LeaveMoves
<1>4. ASSUME DecideGate \/ EnvLeaseExpires \/ HeartbeatEnvironment PROVE DeployTypeOK'
  BY <1>4 DEF DecideGate, EnvLeaseExpires, HeartbeatEnvironment
<1> HIDE DEF DeployTypeOK
<1> QED
  BY <1>1, <1>2, <1>3, <1>4
  DEF Next, WorkerStep, Heartbeat, ApiCall, Expire, Restart

-----------------------------------------------------------------------------
(* What is running *)

\* No job or command of the worker's run is running unless the worker is at it.
LEMMA NothingRuns ==
    ASSUME OnlyCurrentRuns, Held
    PROVE  /\ ~Working => \A j \in Jobs : RunOf[j] = p.run => jobStatus[j] # "running"
           /\ p.pc \notin {"run", "attemptError", "attemptEnd", "reset", "leave"} =>
                \A s \in Steps : RunOfStep(s) = p.run => stepStatus[s] # "running"
           /\ ~Working => \A s \in Steps : RunOfStep(s) = p.run => stepStatus[s] # "running"
BY DEF OnlyCurrentRuns, Working

\* A job that was left without an error is over, and the pass goes on.
LEMMA LeaveOn ==
    ASSUME WorkerShape, PassedJobsAreOver, p.pc = "leave", ~p.broken, p' = Note("job", p.closing)
    PROVE  Advanced(p.closing, p.tolerated) /\ p.closing \in Terminal
<1>1. AtJob /\ p \in Locals /\ "job" \in Places /\ p.closing \in Terminal
  BY DEF AtJob, Attempting, WorkerShape, Places, PassedJobsAreOver
<1> QED BY <1>1, JobIsThere, PlainNote DEF Advanced

\* The only step that may become running is the worker's, and so for jobs.
LEMMA CurrentStep ==
    ASSUME StoreInv, WorkerShape, RunIsHeld, OnlyCurrentRuns, PassedJobsAreOver, Next
    PROVE  OnlyCurrentRuns'
<1> USE DEF StoreInv, TypeOK
<1> DEFINE NoJobStarts  == \A j \in Jobs : jobStatus'[j] = "running" => jobStatus[j] = "running"
           NoStepStarts == \A s \in Steps : stepStatus'[s] = "running" => stepStatus[s] = "running"
<1> USE DEF RunOfStep
<1>1. ASSUME ~Held' \/ UNCHANGED p, NoJobStarts, NoStepStarts,
             \A r \in Runs : runStatus[r] = "running" => runStatus'[r] = "running"
      PROVE  OnlyCurrentRuns'
  <2>1. UNCHANGED p => UNCHANGED <<Held, Working, Job, Step>>
    BY DEF Held, Working, Job, Step
  <2>2. \A j \in Jobs : RunOf[j] \in Runs
    BY RowKeys
  <2>3. \A s \in Steps : RunOf[JobOf[s]] \in Runs
    BY RowKeys
  <2>4. CASE ~Held'
    BY <1>1, <2>2, <2>3, <2>4 DEF OnlyCurrentRuns
  <2>5. CASE UNCHANGED p
    BY <1>1, <2>1, <2>2, <2>3, <2>5 DEF OnlyCurrentRuns
  <2> QED BY <1>1, <2>4, <2>5
<1>2. ASSUME Held, ~Working, NoJobStarts, NoStepStarts, runStatus' = runStatus, SameRun
      PROVE  OnlyCurrentRuns'
  BY <1>2, NothingRuns DEF OnlyCurrentRuns, SameRun
<1>3. ASSUME Held, ~Working, Released, UNCHANGED stepStatus, NoJobStarts,
             \A r \in Runs : r # p.run => runStatus'[r] = runStatus[r]
      PROVE  OnlyCurrentRuns'
  BY <1>3, NothingRuns, RowKeys DEF OnlyCurrentRuns, Released, Held
\* The job may go on running; a command only if it is the error that is on its way.
<1>4. ASSUME AtJob, SameJob, Working', NoJobStarts, NoStepStarts, runStatus' = runStatus,
             \/ p.pc \in {"setupFailed", "step", "close", "start"}
             \/ p'.pc \in {"attemptError", "attemptEnd", "reset", "leave"} /\ p'.broken
             \/ \A s \in Steps : RunOfStep(s) = p.run => stepStatus'[s] # "running"
      PROVE  OnlyCurrentRuns'
  <2>1. Job' = Job /\ p'.run = p.run /\ Held
    BY <1>4, JobStays, JobIsThere DEF SameJob, SameRun, Held
  <2>2. \A j \in Jobs : jobStatus'[j] = "running" =>
            runStatus'[RunOf[j]] = "running" /\ (Held' /\ RunOf[j] = p'.run => Working' /\ j = Job')
    BY <1>4, <2>1 DEF OnlyCurrentRuns
  <2>3. \A s \in Steps : stepStatus'[s] = "running" =>
          /\ stepStatus[s] = "running" /\ runStatus'[RunOfStep(s)] = "running"
          /\ RunOfStep(s) = p.run => JobOf[s] = Job
    BY <1>4, <2>1 DEF OnlyCurrentRuns
  <2>4. \A s \in Steps : stepStatus'[s] = "running" /\ RunOfStep(s) = p.run =>
            p'.pc \in {"attemptError", "attemptEnd", "reset", "leave"} /\ p'.broken
    BY <1>4, <2>1, <2>3, NothingRuns
  <2> QED BY <2>1, <2>2, <2>3, <2>4 DEF OnlyCurrentRuns
\* The worker's job and command end.
<1>5. ASSUME AtJob, SameRun, runStatus' = runStatus, NoJobStarts, NoStepStarts,
             \A j \in Jobs : RunOf[j] = p.run => jobStatus'[j] # "running",
             \/ \A s \in Steps : RunOfStep(s) = p.run => stepStatus'[s] # "running"
             \/ SameJob /\ p'.pc \in {"attemptError", "attemptEnd", "reset", "leave"} /\ p'.broken
      PROVE  OnlyCurrentRuns'
  <2>1. Held /\ p'.run = p.run
    BY <1>5, JobIsThere DEF SameRun, Held
  <2>2. SameJob => Job' = Job
    BY JobStays
  <2>3. \A s \in Steps : stepStatus'[s] = "running" =>
          /\ stepStatus[s] = "running" /\ runStatus'[RunOfStep(s)] = "running"
          /\ RunOfStep(s) = p.run => JobOf[s] = Job
    BY <1>5, <2>1 DEF OnlyCurrentRuns
  <2>4. \A j \in Jobs : jobStatus'[j] = "running" =>
            runStatus'[RunOf[j]] = "running" /\ RunOf[j] # p.run
    BY <1>5, <2>1 DEF OnlyCurrentRuns
  <2> QED BY <1>5, <2>1, <2>2, <2>3, <2>4 DEF OnlyCurrentRuns
<1> HIDE DEF RunOfStep
<1>6. ASSUME Quiet PROVE NoJobStarts /\ NoStepStarts /\ runStatus' = runStatus
  BY <1>6 DEF Quiet, storeVars
<1>7. ASSUME NEW next \in Terminal, AtJob, TransitionJob(Job, next)
      PROVE  /\ NoJobStarts /\ NoStepStarts /\ runStatus' = runStatus
             /\ \A j \in Jobs : RunOf[j] = p.run => jobStatus'[j] # "running"
  <2>1. Job \in Jobs /\ Held /\ next # "running"
    BY <1>7, JobIsThere DEF Held, Terminal
  <2>2. jobStatus' = [jobStatus EXCEPT ![Job] = next] /\ UNCHANGED <<stepStatus, runStatus>>
    BY <1>7 DEF TransitionJob
  <2> QED BY <2>1, <2>2 DEF OnlyCurrentRuns
<1>8. ASSUME NEW s \in Steps, NEW next \in Terminal, TransitionStep(s, next)
      PROVE  NoJobStarts /\ NoStepStarts /\ runStatus' = runStatus /\ stepStatus'[s] # "running"
  BY <1>8 DEF TransitionStep, Terminal

<1>9. ASSUME Gone \/ Released PROVE ~Held'
  BY <1>9 DEF Gone, Released, Held
<1>10. ASSUME Recover PROVE OnlyCurrentRuns'
  <2>1. Gone
    BY <1>10, GoneMoves DEF GoneMove
  <2>2. CASE Quiet
    BY <1>1, <1>6, <1>9, <2>1, <2>2
  <2>3. CASE RecoverExpiredRunWorkers
    <3>1. \A j \in Jobs : jobStatus'[j] = "running" =>
             jobStatus[j] = "running" /\ ~Expired(RunOf[j])
      BY <2>3 DEF RecoverExpiredRunWorkers, Interrupted, Requeued, Interrupt
    <3>2. \A s \in Steps : stepStatus'[s] = "running" =>
             stepStatus[s] = "running" /\ ~Expired(RunOfStep(s))
      BY <2>3 DEF RecoverExpiredRunWorkers, Interrupted, Interrupt, HasActiveStep
    <3>3. \A r \in Runs : ~Expired(r) => runStatus'[r] = runStatus[r]
      BY <2>3 DEF RecoverExpiredRunWorkers, Interrupted, Requeued
    <3> QED BY <1>9, <2>1, <3>1, <3>2, <3>3, RowKeys DEF OnlyCurrentRuns
  <2> QED BY <1>10, <2>2, <2>3 DEF Recover
<1>11. ASSUME ResumeWaitingJobs PROVE OnlyCurrentRuns'
  <2>1. Gone
    BY <1>11, GoneMoves DEF GoneMove
  <2>2. CASE Quiet
    BY <1>1, <1>6, <1>9, <2>1, <2>2
  <2>3. ASSUME NEW wait \in p.waits, ResumeJob(wait[1]) PROVE OnlyCurrentRuns'
    <3>1. p.waits \subseteq Jobs \X {"gate", "concurrency"}
      BY LocalTypes DEF WorkerShape
    <3>2. wait[1] \in Jobs /\ RunOf[wait[1]] \in Runs
      BY <2>3, <3>1, RowKeys
    <3>3. /\ NoJobStarts /\ NoStepStarts
          /\ \A r \in Runs : runStatus[r] = "running" => runStatus'[r] = "running"
      BY <2>3, <3>2 DEF ResumeJob
    <3> QED BY <1>1, <1>9, <2>1, <3>3
  <2> QED BY <1>11, <2>2, <2>3 DEF ResumeWaitingJobs
<1>12. ASSUME NEW r \in Runs, Claimed(r) PROVE OnlyCurrentRuns'
  <2>1. UNCHANGED <<jobStatus, stepStatus>> /\ p'.run = r /\ runStatus[r] = "queued"
        /\ runStatus' = [runStatus EXCEPT ![r] = "running"]
    BY <1>12 DEF Claimed
  <2>2. \A j \in Jobs : jobStatus[j] = "running" => RunOf[j] # r
    BY <2>1 DEF OnlyCurrentRuns
  <2>3. \A s \in Steps : stepStatus[s] = "running" => RunOfStep(s) # r
    BY <2>1 DEF OnlyCurrentRuns
  <2> QED BY <2>1, <2>2, <2>3, RowKeys DEF OnlyCurrentRuns
<1>13. ASSUME NEW r \in Runs, UNCHANGED p, EnqueueRun(r) \/ RequestRunCancellation(r)
       PROVE  OnlyCurrentRuns'
  <2>1. CASE EnqueueRun(r)
    <3>1. /\ NoJobStarts /\ NoStepStarts
          /\ \A q \in Runs : runStatus[q] = "running" => runStatus'[q] = "running"
      BY <2>1 DEF EnqueueRun, SetStatus, Absent
    <3> QED BY <1>1, <1>13, <3>1
  <2>2. CASE RequestRunCancellation(r) /\ runStatus[r] = "running"
    <3>1. NoJobStarts /\ NoStepStarts /\ runStatus' = runStatus
      BY <2>2 DEF RequestRunCancellation
    <3> QED BY <1>1, <1>13, <3>1
  <2>3. CASE RequestRunCancellation(r) /\ runStatus[r] # "running"
    <3>1. /\ NoJobStarts /\ NoStepStarts
          /\ \A q \in Runs : runStatus[q] = "running" => runStatus'[q] = "running"
      BY <2>3 DEF RequestRunCancellation, SetStatus
    <3> QED BY <1>1, <1>13, <3>1
  <2> QED BY <1>13, <2>1, <2>2, <2>3
<1>14. ASSUME NEW j \in Jobs, UNCHANGED p, PlayManualJob(j) PROVE OnlyCurrentRuns'
  <2>1. RunOf[j] \in Runs /\ runStatus[RunOf[j]] # "running"
    BY <1>14, RowKeys DEF PlayManualJob
  <2>2. /\ NoJobStarts /\ NoStepStarts
        /\ \A r \in Runs : runStatus[r] = "running" => runStatus'[r] = "running"
    BY <1>14, <2>1 DEF PlayManualJob, SetStatus
  <2> QED BY <1>1, <1>14, <2>2
\* Nothing runs, and the worker keeps its run or gives it back.
<1>15. ASSUME EstablishLease \/ LoadRun \/ Claim \/ Release \/ Crash \/ ListJobWaits \/ Restart
       PROVE  OnlyCurrentRuns'
  <2>1. CASE EstablishLease
    <3>1. p.pc = "lease" /\ (p.run \in Runs => Held) /\ ~Working
      BY <2>1, LeaseMoves, ShapeAssumption DEF Held, Working
    <3>2. CASE Gone /\ Quiet
      BY <1>1, <1>6, <1>9, <3>2
    <3>3. CASE HeartbeatRunWorker(p.run, p.me) /\ p.run \in Runs /\ SameJob
      BY <1>2, <3>1, <3>3 DEF HeartbeatRunWorker, SameJob
    <3> QED BY <2>1, <3>2, <3>3, LeaseMoves
  <2>2. CASE LoadRun
    <3>1. Held /\ ~Working /\ Quiet /\ SameRun
      BY <2>2, LoadMoves, ShapeAssumption DEF Held, Working
    <3> QED BY <1>2, <1>6, <3>1
  <2>3. CASE Claim
    BY <1>1, <1>6, <1>9, <1>12, <2>3, ClaimMoves
  <2>4. CASE Release
    BY <1>1, <1>9, <2>4, ReleaseMoves DEF ReleaseRunWorker
  <2>5. CASE Crash
    BY <1>1, <1>6, <1>9, <2>5, CrashMoves
  <2>6. CASE ListJobWaits \/ Restart
    BY <1>1, <1>6, <1>9, <2>6, GoneMoves DEF GoneMove, ListJobWaits, Restart
  <2> QED BY <1>15, <2>1, <2>2, <2>3, <2>4, <2>5, <2>6
<1>16. ASSUME AtJob PROVE Held
  BY <1>16, JobIsThere DEF Held
<1>17. ASSUME \/ PassFinishedJob \/ SkipJob \/ ChooseJob \/ CheckCancelled \/ Prepare
              \/ AcquireEnvironment
       PROVE  OnlyCurrentRuns'
  <2>1. AtJob /\ Quiet /\ SameRun /\ ~Working
    BY <1>17, PassMoves, SkipMoves, ChooseMoves, CheckMoves, PrepareMoves, AcquireMoves
    DEF Advanced, Closing, MovedTo, SameJob, Working
  <2> QED BY <1>2, <1>6, <1>16, <2>1
<1>18. ASSUME MeetManualJob PROVE OnlyCurrentRuns'
  <2>1. AtJob /\ Held /\ ~Working /\ Job \in Jobs /\ RunOf[Job] = p.run
    BY <1>16, <1>18, ManualMoves, JobIsThere DEF Working
  <2>2. UNCHANGED stepStatus /\ NoJobStarts
        /\ \A r \in Runs : r # p.run => runStatus'[r] = runStatus[r]
    BY <1>18, <2>1, ManualMoves DEF PauseManualJob, Quiet, storeVars
  <2>3. CASE Released
    BY <1>3, <2>1, <2>2, <2>3
  <2>4. CASE Manual[Job] = "optional" /\ Advanced("manual", p.tolerated \cup {Job})
    <3>1. runStatus' = runStatus
      BY <1>18, <2>1, <2>4, ManualMoves DEF PauseManualJob, Quiet, storeVars
    <3> QED BY <1>2, <2>1, <2>2, <2>4, <3>1 DEF Advanced
  <2> QED BY <1>18, <2>3, <2>4, ManualMoves
<1>19. ASSUME Park \/ FinishRun PROVE OnlyCurrentRuns'
  <2>1. Released /\ ~Working /\ Held
    BY <1>19, ParkMoves, FinishMoves DEF Working, Held, Released
  <2>2. CASE Park
    <3>1. PICK reason \in {"gate", "concurrency"} : PauseJob(Job, reason)
      BY <2>2, ParkMoves
    <3>2. Job \in Jobs /\ RunOf[Job] = p.run
      BY <2>2, ParkMoves, JobIsThere
    <3>3. UNCHANGED stepStatus /\ NoJobStarts
          /\ \A r \in Runs : r # p.run => runStatus'[r] = runStatus[r]
      BY <3>1, <3>2 DEF PauseJob
    <3> QED BY <1>3, <2>1, <3>3
  <2>3. CASE FinishRun
    BY <1>3, <2>1, <2>3, FinishMoves DEF TransitionRun
  <2> QED BY <1>19, <2>2, <2>3
<1>20. ASSUME CancelRemaining \/ AbortRun PROVE OnlyCurrentRuns'
  <2>1. ~Working /\ p.pc # "release"
    BY <1>20, CancelMoves, AbortMoves DEF Working
  <2>2. CASE AtJob /\ Quiet /\ SameRun
    BY <1>2, <1>6, <1>16, <2>1, <2>2
  <2>3. CASE Released /\ (TransitionRun(p.run, "cancelled") \/ TransitionRun(p.run, "failed"))
    BY <1>3, <2>1, <2>3 DEF TransitionRun, Released, Held
  <2> QED BY <1>20, <2>2, <2>3, CancelMoves, AbortMoves DEF Closing, SameJob
\* The job starts, runs its commands, and ends.
<1>21. ASSUME BeginAttempt PROVE OnlyCurrentRuns'
  <2>1. AtJob /\ ~Working /\ SameRun /\ UNCHANGED <<runStatus, jobStatus, stepStatus>>
    BY <1>21, BeginMoves DEF Working, MovedTo, SameJob, StartJobAttempt
  <2> QED BY <1>2, <1>16, <2>1
<1>22. ASSUME StartJob PROVE OnlyCurrentRuns'
  <2>1. /\ AtJob /\ Held /\ p.pc = "start" /\ ~Working /\ SameJob /\ p'.pc \in {"step", "setupFailed"}
        /\ jobStatus' = [jobStatus EXCEPT ![Job] = "running"] /\ UNCHANGED <<runStatus, stepStatus>>
    BY <1>16, <1>22, StartMoves DEF Working, TransitionJob
  <2>2. Job \in Jobs /\ RunOf[Job] = p.run /\ runStatus[p.run] = "running" /\ Job' = Job /\ Working'
    BY <2>1, JobIsThere, JobStays DEF RunIsHeld, Working
  <2>3. \A j \in Jobs : jobStatus'[j] = "running" =>
          runStatus[RunOf[j]] = "running" /\ (RunOf[j] = p.run => j = Job)
    BY <2>1, <2>2, NothingRuns DEF OnlyCurrentRuns
  <2>4. \A s \in Steps : stepStatus'[s] = "running" =>
          runStatus[RunOfStep(s)] = "running" /\ RunOfStep(s) # p.run
    BY <2>1, NothingRuns DEF OnlyCurrentRuns
  <2> QED BY <2>1, <2>2, <2>3, <2>4 DEF OnlyCurrentRuns, SameJob, SameRun
<1>23. ASSUME NextStep PROVE OnlyCurrentRuns'
  <2>0. AtJob /\ Held /\ p.pc = "step" /\ Step \in Steps /\ JobOf[Step] = Job /\ RunOf[Job] = p.run
    BY <1>16, <1>23, StepMoves, StepIsThere, JobIsThere
  <2>1. CASE TransitionStep(Step, "running") /\ MovedTo("run")
    <3>1. /\ UNCHANGED <<runStatus, jobStatus>> /\ stepStatus' = [stepStatus EXCEPT ![Step] = "running"]
          /\ p'.pc = "run" /\ SameJob /\ p'.spos = p.spos
      BY <2>1 DEF TransitionStep, MovedTo, SameRest
    <3>2. Job' = Job /\ Step' = Step /\ Working' /\ runStatus[p.run] = "running"
      BY <2>0, <3>1, JobStays DEF Step, Working, RunIsHeld
    <3>3. RunOfStep(Step) = p.run
      BY <2>0 DEF RunOfStep
    <3>4. \A s \in Steps : stepStatus'[s] = "running" =>
            runStatus[RunOfStep(s)] = "running" /\ (RunOfStep(s) = p.run => s = Step)
      BY <2>0, <3>1, <3>2, <3>3, NothingRuns DEF OnlyCurrentRuns
    <3>5. \A j \in Jobs : jobStatus'[j] = "running" =>
            runStatus[RunOf[j]] = "running" /\ (RunOf[j] = p.run => j = Job)
      BY <2>0, <3>1 DEF OnlyCurrentRuns
    <3> QED BY <2>0, <3>1, <3>2, <3>4, <3>5 DEF OnlyCurrentRuns, SameJob, SameRun
  <2>2. CASE TransitionStep(Step, "skipped") /\ NextSpos
    <3>1. SameJob /\ Working' /\ UNCHANGED jobStatus
      BY <2>2 DEF NextSpos, Working, TransitionStep
    <3>2. NoStepStarts /\ runStatus' = runStatus
      BY <1>8, <2>0, <2>2 DEF Terminal
    <3> QED BY <1>4, <2>0, <3>1, <3>2
  <2> QED BY <1>23, <2>1, <2>2, StepMoves
<1>24. ASSUME SkipStep \/ FailSetup \/ StopBeforeStep \/ StepRefused PROVE OnlyCurrentRuns'
  <2>1. AtJob /\ SameJob /\ p.pc \in {"setupFailed", "step", "close", "start"}
    BY <1>24, SkipStepMoves, SetupMoves, StopMoves, RefusedMoves DEF Closing, Errs
  <2>2. Quiet \/ \E s \in Steps, next \in Terminal : TransitionStep(s, next)
    <3>1. Job \in Jobs /\ {"skipped", "failed", "cancelled"} \subseteq Terminal
      BY <2>1, JobIsThere DEF Terminal
    <3>2. 1 \in 1..Len(StepSeq[Job]) => StepSeq[Job][1] \in Steps
      BY <3>1, Lists
    <3>3. CASE SkipStep
      BY <3>1, <3>3, SkipStepMoves
    <3>4. CASE FailSetup
      BY <3>1, <3>2, <3>4, SetupMoves
    <3>5. CASE StopBeforeStep
      BY <3>1, <3>5, StopMoves, StepIsThere
    <3>6. CASE StepRefused
      BY <3>6, RefusedMoves
    <3> QED BY <1>24, <3>3, <3>4, <3>5, <3>6
  <2>3. NoJobStarts /\ NoStepStarts /\ runStatus' = runStatus
    BY <1>6, <1>8, <2>2 DEF TransitionStep
  <2>4. CASE Working'
    BY <1>4, <2>1, <2>3, <2>4
  <2>5. CASE ~Working'
    <3>1. ~Working
      BY <1>24, <2>5, SkipStepMoves, SetupMoves, StopMoves, RefusedMoves DEF Working, Closing, Errs
    <3> QED BY <1>2, <1>16, <2>1, <2>3, <3>1 DEF SameJob
  <2> QED BY <2>4, <2>5
<1>25. ASSUME FinishStep PROVE OnlyCurrentRuns'
  <2>0. AtJob /\ Held /\ p.pc = "run" /\ Step \in Steps
    BY <1>16, <1>25, CommandMoves, StepIsThere
  <2>1. PICK next \in Terminal : TransitionStep(Step, next)
    BY <1>25, CommandMoves DEF Terminal
  <2>2. SameJob /\ Working'
    BY <1>25, CommandMoves DEF NextSpos, Closing, Working
  <2>3. NoStepStarts /\ runStatus' = runStatus /\ stepStatus'[Step] # "running" /\ jobStatus' = jobStatus
    BY <1>8, <2>0, <2>1 DEF TransitionStep
  <2>4. \A s \in Steps : RunOfStep(s) = p.run => stepStatus'[s] # "running"
    BY <2>0, <2>3 DEF OnlyCurrentRuns
  <2> QED BY <1>4, <2>0, <2>2, <2>3, <2>4
<1>26. ASSUME CloseJob \/ FinishJob \/ RecordJobError PROVE OnlyCurrentRuns'
  <2>1. AtJob /\ SameRun /\ \E next \in Terminal : TransitionJob(Job, next)
    BY <1>26, CloseJobMoves, FinishJobMoves, ErrorMoves
    DEF Terminal, MovedTo, Advanced, SameJob, Failing
  <2>2. /\ NoJobStarts /\ runStatus' = runStatus /\ stepStatus' = stepStatus
        /\ \A j \in Jobs : RunOf[j] = p.run => jobStatus'[j] # "running"
    BY <1>7, <2>1 DEF TransitionJob
  <2>3. CASE p.pc \in {"close", "step"}
    BY <1>5, <1>16, <2>1, <2>2, <2>3, NothingRuns
  <2>4. CASE Failing
    BY <1>5, <2>1, <2>2, <2>4 DEF Failing
  <2> QED BY <1>26, <2>3, <2>4, CloseJobMoves, FinishJobMoves, ErrorMoves
<1>27. ASSUME EndAttempt PROVE OnlyCurrentRuns'
  <2>1. /\ AtJob /\ p.pc = "attemptEnd" /\ SameJob /\ p'.pc \in {"reset", "leave"} /\ p'.broken = p.broken
        /\ UNCHANGED <<runStatus, jobStatus, stepStatus>>
    BY <1>27, EndMoves DEF MovedTo, FinishJobAttempt
  <2>2. CASE p.broken
    BY <1>4, <2>1, <2>2 DEF Working
  <2>3. CASE ~p.broken
    BY <1>2, <1>16, <2>1, <2>3 DEF Working, SameJob
  <2> QED BY <2>2, <2>3
<1>28. ASSUME RetryJob PROVE OnlyCurrentRuns'
  <2>0. AtJob /\ Held /\ Job \in Jobs /\ p.pc = "reset"
    BY <1>16, <1>28, RetryMoves, JobIsThere
  <2>1. CASE Quiet /\ Errs("leave")
    BY <1>4, <1>6, <2>0, <2>1 DEF Errs, Working
  <2>2. CASE ResetJobForRetry(Job) /\ SameJob
    <3>1. /\ NoJobStarts /\ NoStepStarts /\ runStatus' = runStatus
          /\ jobStatus[Job] # "running" /\ \A s \in Steps : JobOf[s] = Job => stepStatus'[s] # "running"
      BY <2>0, <2>2 DEF ResetJobForRetry
    <3>2. \A j \in Jobs : RunOf[j] = p.run => jobStatus'[j] # "running"
      BY <2>0, <3>1 DEF OnlyCurrentRuns
    <3>3. \A s \in Steps : RunOfStep(s) = p.run => stepStatus'[s] # "running"
      BY <2>0, <3>1 DEF OnlyCurrentRuns
    <3> QED BY <1>5, <2>0, <2>2, <3>1, <3>2, <3>3 DEF SameJob
  <2> QED BY <1>28, <2>1, <2>2, RetryMoves
<1>29. ASSUME LeaveJob PROVE OnlyCurrentRuns'
  <2>0. AtJob /\ Held /\ p.pc = "leave" /\ Quiet
    BY <1>16, <1>29, LeaveMoves
  <2>1. CASE Released
    BY <1>1, <1>6, <1>9, <2>0, <2>1
  <2>2. CASE ~p.broken /\ SameRun
    BY <1>2, <1>6, <2>0, <2>2 DEF Working
  <2> QED BY <1>29, <2>0, <2>1, <2>2, LeaveMoves, LeaveOn DEF Advanced
<1>30. ASSUME StoreCallFails PROVE OnlyCurrentRuns'
  <2>1. NoJobStarts /\ NoStepStarts /\ runStatus' = runStatus
    BY <1>6, <1>30, FaultMoves
  <2>2. CASE Released
    BY <1>1, <1>9, <2>1, <2>2
  <2>3. CASE AtJob /\ (Errs("attemptError") \/ Errs("leave") \/ Failing)
    BY <1>4, <2>1, <2>3 DEF Errs, Failing, Working
  <2> QED BY <1>30, <2>2, <2>3, FaultMoves
<1>31. ASSUME UNCHANGED <<p, runStatus, jobStatus, stepStatus>> PROVE OnlyCurrentRuns'
  BY <1>1, <1>31
<1> HIDE DEF StoreInv, TypeOK
<1> QED
  BY <1>10, <1>11, <1>13, <1>14, <1>15, <1>17, <1>18, <1>19, <1>20, <1>21, <1>22, <1>23, <1>24, <1>25,
     <1>26, <1>27, <1>28, <1>29, <1>30, <1>31, ShapeAssumption
  DEF Next, WorkerStep, Heartbeat, HeartbeatEnvironment, ApiCall, DecideGate, EnvLeaseExpires, Expire,
      Quiet, storeVars, HeartbeatRunWorker, LeaseExpires

-----------------------------------------------------------------------------
(* What a step leaves alone *)

\* Steps of others do not touch what the worker is executing.
Elsewhere == \/ Heartbeat \/ HeartbeatEnvironment \/ ApiCall \/ DecideGate \/ EnvLeaseExpires
             \/ \E r \in Runs : Expire(r)
LeftToWorker ==
    /\ UNCHANGED <<p, manualState, attemptNo, faults>>
    /\ Held => /\ \A j \in Jobs : RunOf[j] = p.run =>
                     jobStatus'[j] = jobStatus[j] /\ (j \in played' <=> j \in played)
               /\ \A s \in Steps : RunOfStep(s) = p.run => stepStatus'[s] = stepStatus[s]

\* Operators, heartbeats and time leave the jobs and steps of the worker's run alone.
LEMMA ElsewhereFrame ==
    ASSUME StoreInv, WorkerShape, RunIsHeld, Elsewhere
    PROVE  LeftToWorker
<1> USE RowKeys DEF StoreInv, TypeOK, LeftToWorker
<1>1. Held => p.run \in Runs /\ runStatus[p.run] = "running"
  BY LocalTypes DEF WorkerShape, Held, RunIsHeld
<1>2. CASE UNCHANGED <<p, jobStatus, stepStatus, manualVars, attemptVars, faults>>
  BY <1>2
<1>3. ASSUME NEW r \in Runs, UNCHANGED <<p, faults>>, EnqueueRun(r) PROVE LeftToWorker
  <2>1. Held => r # p.run
    BY <1>1, <1>3 DEF EnqueueRun, Absent
  <2>2. \A j \in Jobs : RunOf[j] # r => jobStatus'[j] = jobStatus[j]
    BY <1>3 DEF EnqueueRun, SetStatus, JobsOf
  <2>3. \A s \in Steps : RunOfStep(s) # r => stepStatus'[s] = stepStatus[s]
    BY <1>3 DEF EnqueueRun
  <2> QED BY <1>3, <2>1, <2>2, <2>3 DEF EnqueueRun
<1>4. ASSUME NEW r \in Runs, UNCHANGED <<p, faults>>, RequestRunCancellation(r) PROVE LeftToWorker
  <2>1. CASE runStatus[r] = "running"
    BY <1>4, <2>1 DEF RequestRunCancellation
  <2>2. CASE runStatus[r] # "running"
    <3>1. Held => r # p.run
      BY <1>1, <2>2
    <3>2. \A j \in Jobs : RunOf[j] # r => jobStatus'[j] = jobStatus[j]
      BY <1>4, <2>2 DEF RequestRunCancellation, SetStatus, JobsOf
    <3>3. \A s \in Steps : RunOfStep(s) # r => stepStatus'[s] = stepStatus[s]
      BY <1>4, <2>2 DEF RequestRunCancellation, SetStatus
    <3> QED BY <1>4, <3>1, <3>2, <3>3 DEF RequestRunCancellation
  <2> QED BY <2>1, <2>2
<1>5. ASSUME NEW j \in Jobs, UNCHANGED <<p, faults>>, PlayManualJob(j) PROVE LeftToWorker
  <2>1. Held => RunOf[j] # p.run
    BY <1>1, <1>5 DEF PlayManualJob
  <2>2. \A k \in Jobs : k # j => jobStatus'[k] = jobStatus[k] /\ (k \in played' <=> k \in played)
    BY <1>5 DEF PlayManualJob
  <2>3. \A s \in Steps : JobOf[s] # j => stepStatus'[s] = stepStatus[s]
    BY <1>5 DEF PlayManualJob, SetStatus, StepsOf
  <2> QED BY <1>5, <2>1, <2>2, <2>3 DEF PlayManualJob, RunOfStep
<1> HIDE DEF StoreInv, TypeOK, LeftToWorker
<1> QED
  BY <1>2, <1>3, <1>4, <1>5, ShapeAssumption
  DEF Elsewhere, Heartbeat, HeartbeatRunWorker, HeartbeatEnvironment, ApiCall, DecideGate,
      EnvLeaseExpires, Expire, LeaseExpires, Quiet, storeVars

\* A worker at a job changes no other one, and no run but its own.
AtJobStep ==
    \/ PassFinishedJob \/ SkipJob \/ MeetManualJob \/ ChooseJob \/ CheckCancelled \/ Prepare
    \/ AcquireEnvironment \/ Park \/ SkipStep \/ CloseJob \/ BeginAttempt \/ StartJob \/ FailSetup
    \/ StopBeforeStep \/ NextStep \/ StepRefused \/ FinishStep \/ FinishJob \/ RecordJobError
    \/ EndAttempt \/ RetryJob \/ LeaveJob
    \/ (CancelRemaining /\ MoreJobs) \/ (AbortRun /\ MoreJobs)
OthersLeft ==
    /\ \A r \in Runs : r # p.run => runStatus'[r] = runStatus[r]
    /\ runStatus'[p.run] \in {runStatus[p.run], "waiting"}
    /\ \A j \in Jobs : j # Job => /\ jobStatus'[j] = jobStatus[j] /\ attemptNo'[j] = attemptNo[j]
                                  /\ manualState'[j] = manualState[j]
    /\ \A s \in Steps : JobOf[s] # Job => stepStatus'[s] = stepStatus[s]
    /\ UNCHANGED <<cancelRequested, played>>

\* A step of the worker at a job changes rows of that job and of its run only.
LEMMA AtJobFrame ==
    ASSUME StoreInv, WorkerShape, AtJobStep
    PROVE  AtJob /\ OthersLeft
<1> USE DEF OthersLeft
<1>1. AtJob
  <2>1. CASE \/ PassFinishedJob \/ SkipJob \/ MeetManualJob \/ ChooseJob \/ CheckCancelled \/ Prepare
             \/ AcquireEnvironment \/ Park \/ SkipStep \/ CloseJob \/ BeginAttempt \/ StartJob
    BY <2>1, PassMoves, SkipMoves, ManualMoves, ChooseMoves, CheckMoves, PrepareMoves, AcquireMoves,
       ParkMoves, SkipStepMoves, CloseJobMoves, BeginMoves, StartMoves
  <2>2. CASE \/ FailSetup \/ StopBeforeStep \/ NextStep \/ StepRefused \/ FinishStep \/ FinishJob
             \/ RecordJobError \/ EndAttempt \/ RetryJob \/ LeaveJob
             \/ (CancelRemaining /\ MoreJobs) \/ (AbortRun /\ MoreJobs)
    BY <2>2, SetupMoves, StopMoves, StepMoves, RefusedMoves, CommandMoves, FinishJobMoves, ErrorMoves,
       EndMoves, RetryMoves, LeaveMoves, CancelMoves, AbortMoves
  <2> QED BY <2>1, <2>2 DEF AtJobStep
<1>2. Job \in Jobs /\ RunOf[Job] = p.run /\ p.run \in Runs
  BY <1>1, JobIsThere
<1>3. ASSUME Quiet PROVE OthersLeft
  BY <1>3 DEF Quiet, storeVars
<1>4. ASSUME NEW next, TransitionJob(Job, next) PROVE OthersLeft
  BY <1>2, <1>4 DEF TransitionJob, StoreInv, TypeOK
<1>5. ASSUME NEW s \in Steps, JobOf[s] = Job, NEW next, TransitionStep(s, next) PROVE OthersLeft
  BY <1>5 DEF TransitionStep, StoreInv, TypeOK
<1>6. ASSUME MeetManualJob \/ Park PROVE OthersLeft
  BY <1>2, <1>3, <1>6, ManualMoves, ParkMoves DEF PauseManualJob, PauseJob, StoreInv, TypeOK
<1>7. ASSUME BeginAttempt \/ EndAttempt \/ RetryJob PROVE OthersLeft
  BY <1>2, <1>3, <1>7, BeginMoves, EndMoves, RetryMoves
  DEF StartJobAttempt, FinishJobAttempt, ResetJobForRetry, StoreInv, TypeOK
<1>8. ASSUME CloseJob \/ StartJob \/ FinishJob \/ RecordJobError PROVE OthersLeft
  BY <1>4, <1>8, CloseJobMoves, StartMoves, FinishJobMoves, ErrorMoves
<1>9. ASSUME SkipStep \/ FailSetup \/ StopBeforeStep PROVE OthersLeft
  <2>1. 1 \in 1..Len(StepSeq[Job]) => StepSeq[Job][1] \in Steps /\ JobOf[StepSeq[Job][1]] = Job
    BY <1>2, Lists
  <2> QED BY <1>3, <1>5, <1>9, <2>1, SkipStepMoves, SetupMoves, StopMoves, StepIsThere
<1>10. ASSUME NextStep \/ FinishStep PROVE OthersLeft
  BY <1>3, <1>5, <1>10, StepMoves, CommandMoves, StepIsThere
<1>11. ASSUME (CancelRemaining /\ MoreJobs) \/ (AbortRun /\ MoreJobs) \/ LeaveJob PROVE OthersLeft
  BY <1>3, <1>11, CancelMoves, AbortMoves, LeaveMoves
<1>12. ASSUME \/ PassFinishedJob \/ SkipJob \/ ChooseJob \/ CheckCancelled \/ Prepare
              \/ AcquireEnvironment \/ StepRefused
       PROVE  OthersLeft
  BY <1>3, <1>12, PassMoves, SkipMoves, ChooseMoves, CheckMoves, PrepareMoves, AcquireMoves, RefusedMoves
<1> HIDE DEF OthersLeft
<1> QED
  BY <1>1, <1>6, <1>7, <1>8, <1>9, <1>10, <1>11, <1>12 DEF AtJobStep

\* A worker that is at no job: it loses its run, or has just got it.
Between == \/ GoneMove \/ Claim \/ EstablishLease \/ Release \/ LoadRun \/ Crash
           \/ FinishRun \/ (CancelRemaining /\ ~MoreJobs) \/ (AbortRun /\ ~MoreJobs)

\* Every step is of one of these four kinds.
LEMMA AllSteps ==
    ASSUME Next
    PROVE  \/ Elsewhere \/ Between \/ AtJobStep \/ StoreCallFails
BY DEF Next, WorkerStep, Elsewhere, Between, AtJobStep, GoneMove

\* What such a step does to the worker's variables
LEMMA BetweenMoves ==
    ASSUME StoreInv, WorkerShape, Between
    PROVE  \/ p.run = None /\ Gone /\ (GoneMove \/ (Claim /\ Quiet))
           \/ \E r \in Runs : Claimed(r)
           \/ (EstablishLease \/ Crash) /\ Gone /\ Quiet
           \/ Release /\ Gone /\ ReleaseRunWorker(p.run, p.me)
           \/ /\ EstablishLease /\ p.pc = "lease" /\ HeartbeatRunWorker(p.run, p.me)
              /\ p' \in Locals /\ p'.pc = "load" /\ SameJob /\ SameRest
           \/ LoadRun
           \/ /\ p.run \in Runs /\ p.run # None /\ ~MoreJobs /\ Released
              /\ \/ p.pc = "job" /\ FinishRun
                 \/ p.pc = "cancelRest" /\ TransitionRun(p.run, "cancelled")
                 \/ p.pc = "abort" /\ TransitionRun(p.run, "failed")
<1>1. CASE GoneMove \/ Claim
  BY <1>1, GoneMoves, ClaimMoves
<1>2. CASE EstablishLease \/ Release \/ Crash \/ LoadRun
  BY <1>2, LeaseMoves, ReleaseMoves, CrashMoves
<1>3. CASE FinishRun
  BY <1>3, FinishMoves
<1>4. CASE CancelRemaining /\ ~MoreJobs
  BY <1>4, CancelMoves
<1>5. CASE AbortRun /\ ~MoreJobs
  BY <1>5, AbortMoves
<1> QED BY <1>1, <1>2, <1>3, <1>4, <1>5 DEF Between

-----------------------------------------------------------------------------
(* The notes of the worker *)

\* A status is noted when the job is passed, and a noted job is not touched again.
LEMMA NotesStep ==
    ASSUME StoreInv, WorkerShape, RunIsHeld, NotesAreTrue, PassedJobsAreOver, Next
    PROVE  NotesAreTrue'
<1>1. ASSUME ~Held' PROVE NotesAreTrue'
  BY <1>1 DEF NotesAreTrue
<1>2. ASSUME Gone \/ Released PROVE NotesAreTrue'
  BY <1>1, <1>2 DEF Gone, Released, Held
<1>3. ASSUME AtJob
      PROVE  Held /\ Held' = (p'.run # None /\ p'.pc # "release")
             /\ (MainPass \/ Aborting \/ p.pc = "close" => p.seen[Job] = "none")
             /\ Job \in Jobs /\ RunOf[Job] = p.run /\ p.run \in Runs /\ p.pos \in 1..Len(JobSeq[p.run])
  <2>1. Held /\ p.pos \in 1..Len(JobSeq[p.run]) /\ Job = JobSeq[p.run][p.pos]
        /\ Job \in Jobs /\ RunOf[Job] = p.run /\ p.run \in Runs
    BY <1>3, JobIsThere DEF Held
  <2>2. ~(p.pos < p.pos)
    BY <2>1, Lists
  <2> QED BY <2>1, <2>2 DEF NotesAreTrue, Held
\* The worker stays at its job, or leaves it without a note.
<1>4. ASSUME AtJob, SameRun, OthersLeft, p'.seen = p.seen, p.seen[Job] = "none" \/ UNCHANGED jobStatus,
             Aborting' => Aborting, MainPass' => MainPass /\ p'.pos = p.pos,
             p'.pc = "close" => p'.pos = p.pos /\ p.seen[Job] = "none"
      PROVE  NotesAreTrue'
  <2>1. \A j \in Jobs : p'.seen[j] # "none" =>
           /\ p'.seen[j] = jobStatus'[j] /\ RunOf[j] = p'.run
           /\ p'.seen[j] = "manual" => Manual[j] = "optional"
    BY <1>3, <1>4 DEF NotesAreTrue, OthersLeft, SameRun
  <2>2. Aborting' => \A j \in Jobs : p'.seen[j] = "none"
    BY <1>3, <1>4 DEF NotesAreTrue
  <2>3. MainPass' => \A i \in 1..Len(JobSeq[p'.run]) :
                        i < p'.pos <=> p'.seen[JobSeq[p'.run][i]] # "none"
    BY <1>3, <1>4 DEF NotesAreTrue, SameRun
  <2>4. p'.pc = "close" => p'.seen[Job'] = "none"
    BY <1>4 DEF SameRun, Job
  <2> QED BY <2>1, <2>2, <2>3, <2>4 DEF NotesAreTrue
<1>5. ASSUME AtJob, SameJob, OthersLeft, MainPass, ~Aborting' PROVE NotesAreTrue'
  BY <1>3, <1>4, <1>5 DEF SameJob
\* The job is passed.
<1>6. ASSUME AtJob, MainPass, OthersLeft, NEW status \in Terminal \cup {"manual"}, NEW tolerated,
             Advanced(status, tolerated), jobStatus'[Job] = status,
             status = "manual" => Manual[Job] = "optional"
      PROVE  NotesAreTrue'
  <2>1. /\ p.run \in Runs /\ p.pos \in 1..Len(JobSeq[p.run]) /\ Job \in Jobs /\ RunOf[Job] = p.run
        /\ \A i \in 1..Len(JobSeq[p.run]) : JobSeq[p.run][i] = Job => i = p.pos
        /\ Job = JobSeq[p.run][p.pos] /\ Held
        /\ \A i \in 1..Len(JobSeq[p.run]) : JobSeq[p.run][i] \in Jobs
        /\ Len(JobSeq[p.run]) \in Nat
    BY <1>3, <1>6, JobIsThere, Lists
  <2>2. p'.seen[Job] = status /\ \A j \in Jobs : j # Job => p'.seen[j] = p.seen[j]
    BY <1>6, <2>1, LocalTypes DEF Advanced, WorkerShape
  <2>3. p'.pc = "job" /\ p'.pos = p.pos + 1 /\ p'.run = p.run /\ status # "none"
    BY <1>6 DEF Advanced, SameRun, Terminal
  <2>4. \A j \in Jobs : p'.seen[j] # "none" =>
           /\ p'.seen[j] = jobStatus'[j] /\ RunOf[j] = p'.run
           /\ p'.seen[j] = "manual" => Manual[j] = "optional"
    BY <1>6, <2>1, <2>2, <2>3 DEF NotesAreTrue, OthersLeft
  <2>5. \A i \in 1..Len(JobSeq[p.run]) : i < p.pos <=> p.seen[JobSeq[p.run][i]] # "none"
    BY <1>6, <2>1 DEF NotesAreTrue
  <2>6. ASSUME NEW i \in 1..Len(JobSeq[p.run])
        PROVE  i < p.pos + 1 <=> p'.seen[JobSeq[p.run][i]] # "none"
    <3>1. CASE i = p.pos
      BY <2>1, <2>2, <2>3, <3>1
    <3>2. CASE i # p.pos
      <4>1. i < p.pos + 1 <=> i < p.pos
        BY <2>1, <3>2
      <4> QED BY <2>1, <2>2, <2>5, <3>2, <4>1
    <3> QED BY <3>1, <3>2
  <2>7. ~Aborting'
    BY <2>3 DEF Aborting
  <2> QED BY <2>3, <2>4, <2>6, <2>7 DEF NotesAreTrue
<1>7. ASSUME Elsewhere PROVE NotesAreTrue'
  <2>1. LeftToWorker
    BY <1>7, ElsewhereFrame
  <2> QED BY <2>1 DEF LeftToWorker, NotesAreTrue, Held, MainPass, Aborting, Preparing, Attempting, Job
<1>8. ASSUME Between PROVE NotesAreTrue'
  <2>1. ASSUME \A j \in Jobs : p'.seen[j] = "none", p'.pc \in {"lease", "load"} \/ p'.pos = 1,
               p'.pc \in {"lease", "load", "job", "abort"}, p'.run \in Runs
        PROVE  NotesAreTrue'
    <3>1. \A i \in 1..Len(JobSeq[p'.run]) : JobSeq[p'.run][i] \in Jobs /\ ~(i < 1)
      BY <2>1, Lists
    <3>2. MainPass' => p'.pos = 1
      BY <2>1 DEF MainPass, Preparing, Attempting
    <3> QED BY <2>1, <3>1, <3>2 DEF NotesAreTrue
  <2>2. ASSUME LoadRun PROVE NotesAreTrue'
    <3>1. p.pc = "load" /\ p'.seen = p.seen /\ p'.pos = 1 /\ p'.pc \in {"job", "abort"} /\ p'.run \in Runs
      BY <2>2, LoadMoves DEF SameRun
    <3> QED BY <2>1, <3>1 DEF WorkerShape
  <2>3. ASSUME NEW r \in Runs, Claimed(r) PROVE NotesAreTrue'
    BY <2>1, <2>3 DEF Claimed
  <2>4. ASSUME p.pc = "lease", p' \in Locals, p'.pc = "load", SameJob PROVE NotesAreTrue'
    <3>1. p.run \in Runs
      BY <2>4, LocalTypes DEF WorkerShape, Outside
    <3> QED BY <2>1, <2>4, <3>1 DEF SameJob, SameRun, WorkerShape
  <2> QED BY <1>2, <1>8, <2>2, <2>3, <2>4, BetweenMoves
<1>9. ASSUME StoreCallFails PROVE NotesAreTrue'
  <2>1. OthersLeft
    BY <1>9, FaultMoves DEF Quiet, storeVars, OthersLeft
  <2>2. InExecuteJob \/ InRetryLoop \/ p.pc = "attemptError" => MainPass
    BY DEF InExecuteJob, InRetryLoop, MainPass, Attempting, At
  <2>3. Errs("attemptError") \/ Errs("leave") \/ Failing => SameJob /\ ~Aborting'
    BY DEF Errs, Failing, Aborting
  <2> QED BY <1>2, <1>5, <1>9, <2>1, <2>2, <2>3, FaultMoves
<1>10. ASSUME AtJobStep PROVE NotesAreTrue'
  <2> USE <1>10
  <2>0. AtJob /\ OthersLeft
    BY AtJobFrame
  <2>1. CASE ChooseJob \/ AcquireEnvironment \/ Prepare \/ SkipJob \/ BeginAttempt \/ StartJob
    <3>1. SameJob /\ MainPass /\ ~Aborting'
      BY <2>1, ChooseMoves, AcquireMoves, PrepareMoves, SkipMoves, BeginMoves, StartMoves
      DEF MovedTo, Closing, MainPass, Preparing, Attempting, Aborting
    <3> QED BY <1>5, <2>0, <3>1
  <2>2. CASE FailSetup \/ StopBeforeStep \/ NextStep \/ StepRefused \/ FinishStep
    <3>1. SameJob /\ MainPass /\ ~Aborting'
      BY <2>2, SetupMoves, StopMoves, StepMoves, RefusedMoves, CommandMoves
      DEF MovedTo, Closing, Errs, NextSpos, MainPass, Attempting, Aborting
    <3> QED BY <1>5, <2>0, <3>1
  <2>3. CASE FinishJob \/ RecordJobError \/ EndAttempt \/ RetryJob
    <3>1. SameJob /\ MainPass /\ ~Aborting'
      BY <2>3, FinishJobMoves, ErrorMoves, EndMoves, RetryMoves
      DEF MovedTo, Failing, Errs, MainPass, Attempting, Aborting
    <3> QED BY <1>5, <2>0, <3>1
  <2>4. CASE CheckCancelled
    <3>1. CASE MovedTo("prepare")
      <4>1. SameJob /\ MainPass /\ ~Aborting'
        BY <2>4, <3>1, CheckMoves DEF MovedTo, MainPass, Preparing, Aborting
      <4> QED BY <1>5, <2>0, <4>1
    <3>2. CASE Quiet /\ p'.pc = "cancelRest" /\ SameRun /\ p'.seen = p.seen
      BY <1>4, <2>0, <3>2 DEF Quiet, storeVars, Aborting, MainPass, Preparing, Attempting
    <3> QED BY <2>4, <3>1, <3>2, CheckMoves
  <2>5. CASE SkipStep
    <3>1. SameJob /\ p.pc = "close" /\ MainPass' = MainPass /\ Aborting' = Aborting
      BY <2>5, SkipStepMoves DEF MainPass, Aborting, Preparing, Attempting
    <3>2. p.seen[Job] = "none"
      BY <1>3, <2>0, <3>1
    <3> QED BY <1>4, <2>0, <3>1, <3>2 DEF SameJob
  <2>6. CASE CloseJob
    <3>1. p.pc = "close" /\ p.seen[Job] = "none" /\ Job \in Jobs
          /\ jobStatus'[Job] = p.closing /\ p.closing \in Terminal /\ p.closing # "manual"
      BY <1>3, <2>0, <2>6, CloseJobMoves DEF TransitionJob, StoreInv, TypeOK, Terminal
    <3>2. CASE p.after = "attemptEnd" /\ MovedTo("attemptEnd")
      BY <1>5, <2>0, <3>1, <3>2 DEF MovedTo, MainPass, Attempting, Aborting
    <3>3. CASE p.after = "job" /\ Advanced(p.closing, p.tolerated)
      BY <1>6, <2>0, <3>1, <3>3 DEF MainPass
    <3>4. CASE p.after \in {"cancelRest", "abort"} /\ p'.pc = p.after /\ SameRun /\ p'.seen = p.seen
      BY <1>4, <2>0, <3>1, <3>4 DEF Aborting, MainPass, Preparing, Attempting
    <3> QED BY <2>6, <3>2, <3>3, <3>4, CloseJobMoves
  <2>7. CASE CancelRemaining /\ MoreJobs
    <3>1. UNCHANGED jobStatus /\ SameRun /\ p'.seen = p.seen /\ ~Aborting' /\ ~MainPass'
          /\ (p'.pc = "close" => p'.pos = p.pos /\ p.seen[Job] = "none")
      BY <2>7, CancelMoves
      DEF Quiet, storeVars, Closing, SameJob, Aborting, MainPass, Preparing, Attempting
    <3> QED BY <1>4, <2>0, <3>1
  <2>8. CASE AbortRun /\ MoreJobs
    <3>1. UNCHANGED jobStatus /\ SameRun /\ p'.seen = p.seen /\ Aborting /\ ~MainPass'
          /\ (p'.pc = "close" => p'.pos = p.pos)
      BY <2>8, AbortMoves
      DEF Quiet, storeVars, Closing, SameJob, Aborting, MainPass, Preparing, Attempting
    <3> QED BY <1>3, <1>4, <2>0, <3>1
  <2>9. CASE PassFinishedJob
    <3>1. /\ MainPass /\ Advanced(jobStatus[Job], p.tolerated) /\ jobStatus[Job] \in Terminal
          /\ jobStatus' = jobStatus /\ jobStatus[Job] # "manual"
      BY <2>9, PassMoves DEF MainPass, Quiet, storeVars, Terminal
    <3> QED BY <1>6, <2>0, <3>1
  <2>10. CASE MeetManualJob
    <3>1. MainPass /\ jobStatus'[Job] = "manual"
      BY <1>3, <2>0, <2>10, ManualMoves
      DEF MainPass, Quiet, storeVars, PauseManualJob, StoreInv, TypeOK
    <3> QED BY <1>2, <1>6, <2>0, <2>10, <3>1, ManualMoves
  <2>11. CASE LeaveJob
    <3>1. p.pc = "leave" /\ MainPass /\ jobStatus' = jobStatus /\ Job \in Jobs
      BY <1>3, <2>0, <2>11, LeaveMoves DEF MainPass, Attempting, Quiet, storeVars
    <3>2. CASE ~p.broken /\ p' = Note("job", p.closing)
      <4>1. p.closing \in Terminal /\ jobStatus[Job] = p.closing /\ p.closing # "manual"
            /\ Advanced(p.closing, p.tolerated)
        BY <3>1, <3>2, LeaveOn DEF PassedJobsAreOver, Terminal
      <4> QED BY <1>6, <2>0, <3>1, <4>1
    <3>3. CASE /\ ~p.broken /\ p.closing = "cancelled"
               /\ p'.pc = "cancelRest" /\ SameRun
               /\ p'.seen = [p.seen EXCEPT ![Job] = "cancelled"]
      <4>1. jobStatus[Job] = "cancelled"
        BY <3>1, <3>3 DEF PassedJobsAreOver
      <4>2. p'.seen[Job] = "cancelled" /\ \A j \in Jobs : j # Job => p'.seen[j] = p.seen[j]
        BY <3>1, <3>3, LocalTypes DEF WorkerShape
      <4>3. \A j \in Jobs : p'.seen[j] # "none" =>
               /\ p'.seen[j] = jobStatus'[j] /\ RunOf[j] = p'.run
               /\ p'.seen[j] = "manual" => Manual[j] = "optional"
        BY <1>3, <2>0, <3>1, <3>3, <4>1, <4>2 DEF NotesAreTrue, SameRun
      <4>4. ~MainPass' /\ ~Aborting' /\ p'.pc # "close"
        BY <3>3 DEF MainPass, Aborting, Preparing, Attempting
      <4> QED BY <4>3, <4>4 DEF NotesAreTrue
    <3> QED BY <1>2, <2>11, <3>2, <3>3, LeaveMoves
  <2>12. CASE Park
    BY <1>2, <2>12, ParkMoves
  <2> QED BY <2>1, <2>2, <2>3, <2>4, <2>5, <2>6, <2>7, <2>8, <2>9, <2>10, <2>11, <2>12 DEF AtJobStep
<1> QED BY <1>7, <1>8, <1>9, <1>10, AllSteps

-----------------------------------------------------------------------------
(* Jobs that are passed and runs that are decided *)

\* The passes that close jobs leave nothing pending behind them.
LEMMA PassedStep ==
    ASSUME StoreInv, WorkerShape, RunIsHeld, OnlyCurrentRuns, NotesAreTrue, PassedJobsAreOver, Next
    PROVE  PassedJobsAreOver'
<1> DEFINE Passing == {"cancelRest", "abort", "attemptEnd", "leave", "reset"}
<1>1. ASSUME p'.pc \notin Passing, p'.pc = "close" => p'.after \notin {"cancelRest", "abort"}
      PROVE  PassedJobsAreOver'
  BY <1>1 DEF PassedJobsAreOver, Cancelling, Aborting
<1>2. ASSUME Gone \/ Released PROVE PassedJobsAreOver'
  BY <1>1, <1>2 DEF Gone, Released, Outside
<1>3. ASSUME p'.pos = 1, p'.pc \in {"job", "cancelRest", "abort"}, p'.run \in Runs
      PROVE  PassedJobsAreOver'
  BY <1>3, Lists DEF PassedJobsAreOver
\* The pass stays at the job, or goes on behind it.
<1>4. ASSUME AtJob, SameRun, OthersLeft, Cancelling \/ Aborting,
             p'.pc \in {"close", "cancelRest", "abort"},
             \/ p'.pos = p.pos
             \/ p'.pos = p.pos + 1 /\ jobStatus'[Job] \in Terminal \cup {"manual"}
      PROVE  PassedJobsAreOver'
  <2>1. /\ p.run \in Runs /\ p.pos \in 1..Len(JobSeq[p.run]) /\ Job = JobSeq[p.run][p.pos]
        /\ \A i \in 1..Len(JobSeq[p.run]) : JobSeq[p.run][i] \in Jobs
        /\ \A i \in 1..Len(JobSeq[p.run]) : JobSeq[p.run][i] = Job => i = p.pos
        /\ Len(JobSeq[p.run]) \in Nat
    BY <1>4, JobIsThere, Lists
  <2>2. ASSUME NEW i \in 1..Len(JobSeq[p.run]), i < p'.pos
        PROVE  jobStatus'[JobSeq[p.run][i]] \in Terminal \cup {"manual"}
    <3>1. CASE i = p.pos
      BY <1>4, <2>1, <2>2, <3>1
    <3>2. CASE i # p.pos
      <4>1. i < p.pos /\ JobSeq[p.run][i] # Job
        BY <1>4, <2>1, <2>2, <3>2
      <4> QED BY <1>4, <2>1, <4>1 DEF PassedJobsAreOver, OthersLeft
    <3> QED BY <3>1, <3>2
  <2> QED BY <1>4, <2>2 DEF PassedJobsAreOver, SameRun
\* The attempt ends.
<1>5. ASSUME AtJob, p'.pc \in {"attemptEnd", "leave"},
             p'.broken \/ (SameJob /\ p'.closing \in Terminal /\ jobStatus'[Job] = p'.closing)
      PROVE  PassedJobsAreOver'
  BY <1>5, JobStays DEF PassedJobsAreOver, Cancelling, Aborting
<1>6. ASSUME Elsewhere PROVE PassedJobsAreOver'
  <2>1. LeftToWorker
    BY <1>6, ElsewhereFrame
  <2>2. CASE Held
    <3>1. p.run \in Runs /\ \A i \in 1..Len(JobSeq[p.run]) :
             JobSeq[p.run][i] \in Jobs /\ RunOf[JobSeq[p.run][i]] = p.run
      BY <2>2, LocalTypes, Lists DEF Held, WorkerShape
    <3>2. p.pc \in {"attemptEnd", "leave", "reset"} => Job \in Jobs /\ RunOf[Job] = p.run
      BY JobIsThere DEF AtJob, Attempting
    <3> QED BY <2>1, <2>2, <3>1, <3>2
            DEF LeftToWorker, PassedJobsAreOver, Cancelling, Aborting, Job
  <2>3. CASE ~Held
    BY <1>1, <2>1, <2>3, LocalTypes DEF LeftToWorker, WorkerShape, Held, Outside
  <2> QED BY <2>2, <2>3
<1>7. ASSUME Between PROVE PassedJobsAreOver'
  <2>1. LoadRun => p'.pos = 1 /\ p'.pc \in {"job", "cancelRest", "abort"} /\ p'.run \in Runs
    BY LoadMoves DEF SameRun
  <2> QED BY <1>1, <1>2, <1>3, <1>7, <2>1, BetweenMoves DEF Claimed
<1>8. ASSUME StoreCallFails PROVE PassedJobsAreOver'
  BY <1>1, <1>2, <1>5, <1>8, FaultMoves DEF Errs, Failing
<1>9. ASSUME AtJobStep PROVE PassedJobsAreOver'
  <2> USE <1>9
  <2>0. /\ AtJob /\ OthersLeft /\ Job \in Jobs
        /\ \A next \in Terminal : TransitionJob(Job, next) => jobStatus'[Job] = next
    BY AtJobFrame, JobIsThere DEF TransitionJob, StoreInv, TypeOK
  <2>1. CASE \/ PassFinishedJob \/ SkipJob \/ MeetManualJob \/ ChooseJob \/ Prepare \/ AcquireEnvironment
             \/ Park \/ BeginAttempt \/ StartJob
    BY <1>1, <1>2, <2>1, PassMoves, SkipMoves, ManualMoves, ChooseMoves, PrepareMoves, AcquireMoves,
       ParkMoves, BeginMoves, StartMoves
    DEF Advanced, Closing, MovedTo
  <2>2. CASE FailSetup \/ StopBeforeStep \/ NextStep \/ StepRefused \/ FinishStep
    BY <1>1, <2>2, SetupMoves, StopMoves, StepMoves, RefusedMoves, CommandMoves
    DEF Closing, MovedTo, Errs, NextSpos
  <2>3. CASE CheckCancelled
    <3>1. p.run \in Runs
      BY <2>0, JobIsThere
    <3> QED BY <1>1, <1>3, <2>3, <3>1, CheckMoves DEF MovedTo, SameRun
  <2>4. CASE SkipStep
    <3>1. CASE Cancelling \/ Aborting
      BY <1>4, <2>0, <2>4, <3>1, SkipStepMoves DEF SameJob
    <3>2. CASE ~Cancelling /\ ~Aborting
      BY <1>1, <2>4, <3>2, SkipStepMoves DEF Cancelling, Aborting
    <3> QED BY <3>1, <3>2
  <2>5. CASE CloseJob
    <3>1. p.pc = "close" /\ p.closing \in Terminal /\ jobStatus'[Job] = p.closing
      BY <2>0, <2>5, CloseJobMoves DEF Terminal
    <3>2. CASE MovedTo("attemptEnd")
      BY <1>5, <2>0, <3>1, <3>2 DEF MovedTo, SameRest
    <3>3. CASE Advanced(p.closing, p.tolerated)
      BY <1>1, <3>3 DEF Advanced
    <3>4. CASE p.after \in {"cancelRest", "abort"} /\ p'.pc = p.after /\ p'.pos = p.pos + 1 /\ SameRun
      BY <1>4, <2>0, <3>1, <3>4 DEF Cancelling, Aborting
    <3> QED BY <2>5, <3>2, <3>3, <3>4, CloseJobMoves
  <2>6. CASE CancelRemaining /\ MoreJobs
    <3>1. Cancelling /\ Quiet /\ SameRun /\ p'.pc \in {"close", "cancelRest"} /\ jobStatus' = jobStatus
      BY <2>6, CancelMoves DEF Cancelling, Closing, SameJob, Quiet, storeVars
    <3>2. CASE p'.pos = p.pos
      BY <1>4, <2>0, <3>1, <3>2
    <3>3. CASE p'.pos = p.pos + 1 /\ (p.seen[Job] # "none" \/ jobStatus[Job] # "queued")
      <4>1. Held /\ RunOf[Job] = p.run /\ jobStatus[Job] \notin {"waiting", Absent}
        BY <2>0, RunIsRunning
      <4>2. jobStatus[Job] # "running"
        BY <2>0, <2>6, <4>1, NothingRuns, CancelMoves DEF Working
      <4>3. p.seen[Job] # "none" => jobStatus[Job] \in Terminal \cup {"manual"}
        BY <2>0, <4>1, LocalTypes DEF NotesAreTrue, WorkerShape
      <4>4. p.seen[Job] = "none" => jobStatus[Job] \in Terminal \cup {"manual"}
        BY <2>0, <3>3, <4>1, <4>2 DEF StoreInv, TypeOK, Status, Absent
      <4> QED BY <1>4, <2>0, <3>1, <3>3, <4>3, <4>4
    <3> QED BY <2>6, <3>2, <3>3, CancelMoves DEF Closing, SameJob
  <2>7. CASE AbortRun /\ MoreJobs
    <3>1. Aborting /\ SameRun /\ p'.pc \in {"close", "abort"} /\ jobStatus' = jobStatus
          /\ (p'.pos = p.pos \/ (p'.pos = p.pos + 1 /\ jobStatus[Job] \in Terminal))
      BY <2>7, AbortMoves DEF Aborting, Closing, SameJob, Quiet, storeVars
    <3> QED BY <1>4, <2>0, <3>1
  <2>8. CASE FinishJob
    <3>1. PICK status \in {"succeeded", "failed"} :
             /\ TransitionJob(Job, status) /\ p'.pc = "attemptEnd" /\ SameJob /\ p'.closing = status
      BY <2>8, FinishJobMoves
    <3>2. status \in Terminal
      BY DEF Terminal
    <3> QED BY <1>5, <2>0, <3>1, <3>2
  <2>9. CASE RecordJobError
    BY <1>5, <2>0, <2>9, ErrorMoves DEF Failing
  <2>10. CASE EndAttempt
    <3>1. p.pc = "attemptEnd" /\ UNCHANGED <<jobStatus, attemptNo>>
      BY <2>10, EndMoves DEF FinishJobAttempt
    <3>2. CASE MayRetry /\ MovedTo("reset")
      <4>1. Job' = Job /\ p'.closing = p.closing /\ p'.broken = p.broken /\ p'.pc = "reset"
        BY <3>2, JobStays DEF MovedTo, SameRest
      <4> QED BY <3>1, <3>2, <4>1 DEF PassedJobsAreOver, MayRetry, Cancelling, Aborting
    <3>3. CASE MovedTo("leave")
      BY <1>5, <2>0, <3>1, <3>3 DEF MovedTo, SameRest, PassedJobsAreOver
    <3> QED BY <2>10, <3>2, <3>3, EndMoves
  <2>11. CASE RetryJob
    BY <1>1, <1>5, <2>0, <2>11, RetryMoves DEF Errs
  <2>12. CASE LeaveJob
    <3>1. p.run \in Runs
      BY <2>0, JobIsThere
    <3> QED BY <1>1, <1>2, <1>3, <2>12, <3>1, LeaveMoves, LeaveOn DEF Advanced, SameRun
  <2> QED BY <2>1, <2>2, <2>3, <2>4, <2>5, <2>6, <2>7, <2>8, <2>9, <2>10, <2>11, <2>12 DEF AtJobStep
<1> QED BY <1>6, <1>7, <1>8, <1>9, AllSteps

\* A run is decided when its jobs are, and they do not come back.
LEMMA DecidedStep ==
    ASSUME StoreInv, WorkerShape, RunIsHeld, OnlyCurrentRuns, NotesAreTrue, PassedJobsAreOver,
           DecidedRunsAreOver, Next
    PROVE  DecidedRunsAreOver'
<1> USE RowKeys DEF StoreInv, TypeOK
<1>1. ASSUME \A j \in Jobs :
                \/ runStatus'[RunOf[j]] \notin Terminal
                \/ runStatus'[RunOf[j]] = runStatus[RunOf[j]] /\ jobStatus'[j] = jobStatus[j]
                \/ jobStatus'[j] \notin {"queued", "running", "waiting"}
      PROVE  DecidedRunsAreOver'
  BY <1>1 DEF DecidedRunsAreOver
<1>2. ASSUME AtJobStep PROVE DecidedRunsAreOver'
  <2>1. AtJob /\ OthersLeft
    BY <1>2, AtJobFrame
  <2>2. runStatus[p.run] = "running" /\ RunOf[Job] = p.run /\ Job \in Jobs
    BY <2>1, RunIsRunning
  <2> QED BY <1>1, <2>1, <2>2 DEF OthersLeft, Terminal
<1>3. ASSUME UNCHANGED <<runStatus, jobStatus>> PROVE DecidedRunsAreOver'
  BY <1>1, <1>3
\* The end of a run: every job is over.
<1>4. ASSUME p.run \in Runs, NEW next \in Terminal, TransitionRun(p.run, next),
             \A i \in 1..Len(JobSeq[p.run]) : jobStatus[JobSeq[p.run][i]] \in Terminal \cup {"manual"}
      PROVE  DecidedRunsAreOver'
  <2>1. ASSUME NEW j \in Jobs, RunOf[j] = p.run PROVE jobStatus[j] \in Terminal \cup {"manual"}
    <3>0. p.run \in Runs
      BY <1>4
    <3>1. PICK i \in 1..Len(JobSeq[p.run]) : JobSeq[p.run][i] = j
      BY <2>1, <3>0, ListedJob
    <3> QED BY <1>4, <3>1
  <2>2. UNCHANGED jobStatus /\ \A r \in Runs : r # p.run => runStatus'[r] = runStatus[r]
    BY <1>4 DEF TransitionRun
  <2>3. \A status \in Terminal \cup {"manual"} : status \notin {"queued", "running", "waiting"}
    BY DEF Terminal
  <2> QED BY <1>1, <2>1, <2>2, <2>3
<1>5. ASSUME Recover PROVE DecidedRunsAreOver'
  <2>1. CASE RecoverExpiredRunWorkers
    <3>1. ASSUME NEW j \in Jobs, Interrupted(RunOf[j]) PROVE jobStatus'[j] \notin {"queued", "running", "waiting"}
      <4>1. jobStatus'[j] = Interrupt(jobStatus[j]) /\ runStatus[RunOf[j]] = "running"
        BY <2>1, <3>1 DEF RecoverExpiredRunWorkers, Interrupted, Expired
      <4>2. jobStatus[j] # "waiting"
        BY <4>1 DEF WaitRowsMatchJobs
      <4> QED BY <4>1, <4>2 DEF Interrupt
    <3>2. ASSUME NEW j \in Jobs, Requeued(RunOf[j]) PROVE runStatus'[RunOf[j]] \notin Terminal
      BY <2>1, <3>2 DEF RecoverExpiredRunWorkers, Interrupted, Requeued, Terminal
    <3>3. ASSUME NEW j \in Jobs, ~Interrupted(RunOf[j]), ~Requeued(RunOf[j])
          PROVE  runStatus'[RunOf[j]] = runStatus[RunOf[j]] /\ jobStatus'[j] = jobStatus[j]
      BY <2>1, <3>3 DEF RecoverExpiredRunWorkers
    <3> QED BY <1>1, <3>1, <3>2, <3>3
  <2> QED BY <1>3, <1>5, <2>1 DEF Recover, Quiet, storeVars
<1>6. ASSUME ResumeWaitingJobs PROVE DecidedRunsAreOver'
  <2>1. ASSUME NEW wait \in p.waits, ResumeJob(wait[1]) PROVE DecidedRunsAreOver'
    <3>1. p.waits \subseteq Jobs \X {"gate", "concurrency"}
      BY LocalTypes DEF WorkerShape
    <3>2. wait[1] \in Jobs
      BY <2>1, <3>1
    <3>3. runStatus[RunOf[wait[1]]] = "waiting"
      BY <2>1, <3>2 DEF ResumeJob, WaitRowsMatchJobs
    <3>4. runStatus'[RunOf[wait[1]]] = "queued"
          /\ (\A r \in Runs : r # RunOf[wait[1]] => runStatus'[r] = runStatus[r])
          /\ (\A j \in Jobs : j # wait[1] => jobStatus'[j] = jobStatus[j])
      BY <2>1, <3>2, <3>3 DEF ResumeJob
    <3> QED BY <1>1, <3>2, <3>4 DEF Terminal
  <2> QED BY <1>3, <1>6, <2>1 DEF ResumeWaitingJobs, Quiet, storeVars
<1>7. ASSUME Between PROVE DecidedRunsAreOver'
  <2>1. CASE GoneMove
    BY <1>3, <1>5, <1>6, <2>1 DEF GoneMove, ListJobWaits, Restart, Quiet, storeVars
  <2>2. ASSUME NEW r \in Runs, Claimed(r) PROVE DecidedRunsAreOver'
    BY <1>1, <2>2 DEF Claimed, Terminal
  <2>3. CASE p.run \in Runs /\ ~MoreJobs /\ FinishRun
    <3>1. p.pc = "job" /\ \E next \in Terminal : TransitionRun(p.run, next)
      BY <2>3, FinishMoves DEF Terminal
    <3>2. Held /\ MainPass /\ Len(JobSeq[p.run]) \in Nat /\ p.pos \in Nat
      BY <2>3, <3>1, FinishMoves, Lists, LocalTypes DEF Held, MainPass, WorkerShape
    <3>3. \A i \in 1..Len(JobSeq[p.run]) : i < p.pos /\ JobSeq[p.run][i] \in Jobs
      BY <2>3, <3>2, Lists DEF MoreJobs
    <3>4. \A i \in 1..Len(JobSeq[p.run]) : p.seen[JobSeq[p.run][i]] # "none"
      BY <3>2, <3>3 DEF NotesAreTrue
    <3>5. \A i \in 1..Len(JobSeq[p.run]) : jobStatus[JobSeq[p.run][i]] \in Terminal \cup {"manual"}
      BY <3>2, <3>3, <3>4, LocalTypes DEF NotesAreTrue, WorkerShape
    <3> QED BY <1>4, <2>3, <3>1, <3>5
  <2>4. CASE /\ p.run \in Runs /\ ~MoreJobs
             /\ \/ p.pc = "cancelRest" /\ TransitionRun(p.run, "cancelled")
                \/ p.pc = "abort" /\ TransitionRun(p.run, "failed")
    <3>1. Len(JobSeq[p.run]) \in Nat /\ p.pos \in Nat /\ {"cancelled", "failed"} \subseteq Terminal
      BY <2>4, Lists, LocalTypes DEF WorkerShape, Terminal
    <3>2. \A i \in 1..Len(JobSeq[p.run]) : i < p.pos
      BY <2>4, <3>1 DEF MoreJobs
    <3>3. Cancelling \/ Aborting
      BY <2>4 DEF Cancelling, Aborting
    <3> QED BY <1>4, <2>4, <3>1, <3>2, <3>3 DEF PassedJobsAreOver
  <2>5. CASE Quiet \/ ReleaseRunWorker(p.run, p.me) \/ HeartbeatRunWorker(p.run, p.me)
    BY <1>3, <2>5 DEF Quiet, storeVars, ReleaseRunWorker, HeartbeatRunWorker
  <2>6. LoadRun => Quiet
    BY LoadMoves
  <2> QED BY <1>7, <2>1, <2>2, <2>3, <2>4, <2>5, <2>6, BetweenMoves
<1>8. ASSUME NEW r \in Runs, EnqueueRun(r) \/ RequestRunCancellation(r) PROVE DecidedRunsAreOver'
  <2>1. CASE EnqueueRun(r)
    <3>1. \A j \in Jobs : RunOf[j] # r => jobStatus'[j] = jobStatus[j]
      BY <2>1 DEF EnqueueRun, SetStatus, JobsOf
    <3> QED BY <1>1, <2>1, <3>1 DEF EnqueueRun, Terminal
  <2>2. CASE RequestRunCancellation(r) /\ runStatus[r] = "running"
    BY <1>3, <2>2 DEF RequestRunCancellation
  <2>3. CASE RequestRunCancellation(r) /\ runStatus[r] # "running"
    <3>1. \A j \in Jobs : RunOf[j] # r => jobStatus'[j] = jobStatus[j]
      BY <2>3 DEF RequestRunCancellation, SetStatus, JobsOf
    <3>2. \A j \in Jobs : RunOf[j] = r => jobStatus[j] # "running"
      BY <2>3 DEF OnlyCurrentRuns
    <3>3. ASSUME NEW j \in Jobs, RunOf[j] = r PROVE jobStatus'[j] \notin {"queued", "waiting", "running"}
      <4>1. jobStatus' = SetStatus(jobStatus, JobsOf(r), {"queued", "waiting"}, "cancelled")
        BY <2>3 DEF RequestRunCancellation
      <4>2. jobStatus'[j] = IF jobStatus[j] \in {"queued", "waiting"} THEN "cancelled" ELSE jobStatus[j]
        BY <3>3, <4>1 DEF SetStatus, JobsOf
      <4> QED BY <3>2, <3>3, <4>2
    <3> QED BY <1>1, <2>3, <3>1, <3>3 DEF RequestRunCancellation
  <2> QED BY <1>8, <2>1, <2>2, <2>3
<1>9. ASSUME NEW j \in Jobs, PlayManualJob(j) PROVE DecidedRunsAreOver'
  BY <1>1, <1>9 DEF PlayManualJob, Terminal
<1>10. ASSUME StoreCallFails PROVE DecidedRunsAreOver'
  BY <1>3, <1>10 DEF StoreCallFails, Quiet, storeVars
<1>11. ASSUME Elsewhere PROVE DecidedRunsAreOver'
  <2> HIDE DEF StoreInv, TypeOK
  <2> QED BY <1>3, <1>8, <1>9, <1>11, ShapeAssumption
          DEF Elsewhere, Heartbeat, HeartbeatRunWorker, HeartbeatEnvironment, ApiCall, DecideGate,
              EnvLeaseExpires, Expire, LeaseExpires, Quiet, storeVars
<1> HIDE DEF StoreInv, TypeOK
<1> QED BY <1>2, <1>7, <1>10, <1>11, AllSteps

-----------------------------------------------------------------------------
(* Manual jobs, and the leave to fail *)

\* Where a worker is at a job that it prepares or attempts, it has chosen it before.
LEMMA ChosenBefore ==
    ASSUME StoreInv, WorkerShape, Next, (Preparing \/ Attempting)'
    PROVE  /\ Job' = Job /\ p'.seen = p.seen
           /\ \/ (Preparing \/ Attempting) /\ p'.tolerated = p.tolerated
              \/ ChooseJob
<1> USE DEF Preparing, Attempting
<1>1. ASSUME UNCHANGED p PROVE Job' = Job
  BY <1>1 DEF Job
<1>2. CASE Elsewhere
  <2>1. UNCHANGED p
    BY <1>2 DEF Elsewhere, Heartbeat, HeartbeatEnvironment, ApiCall, DecideGate, EnvLeaseExpires, Expire
  <2> QED BY <1>1, <2>1
<1>3. CASE Between
  BY <1>3, BetweenMoves, LoadMoves DEF Gone, Released, Outside, Claimed
<1>4. CASE StoreCallFails
  BY <1>4, FaultMoves, JobStays
  DEF Errs, Failing, Released, InExecuteJob, InRetryLoop, At, SameJob, SameRest
<1>5. CASE AtJobStep
  <2>1. CASE \/ PassFinishedJob \/ SkipJob \/ MeetManualJob \/ ChooseJob \/ CheckCancelled \/ Prepare
    BY <2>1, PassMoves, SkipMoves, ManualMoves, ChooseMoves, CheckMoves, PrepareMoves, JobStays
    DEF Advanced, Closing, MovedTo, Released, SameJob, SameRest
  <2>2. CASE AcquireEnvironment \/ Park \/ BeginAttempt \/ StartJob \/ SkipStep \/ CloseJob
    BY <2>2, AcquireMoves, ParkMoves, BeginMoves, StartMoves, SkipStepMoves, CloseJobMoves, JobStays
    DEF Advanced, MovedTo, Released, SameJob, SameRest
  <2>3. CASE FailSetup \/ StopBeforeStep \/ NextStep \/ StepRefused \/ FinishStep
    BY <2>3, SetupMoves, StopMoves, StepMoves, RefusedMoves, CommandMoves, JobStays
    DEF Closing, MovedTo, Errs, NextSpos, SameJob, SameRest
  <2>4. CASE FinishJob \/ RecordJobError \/ EndAttempt \/ RetryJob
    BY <2>4, FinishJobMoves, ErrorMoves, EndMoves, RetryMoves, JobStays
    DEF MovedTo, Failing, Errs, SameJob, SameRest
  <2>5. CASE LeaveJob
    <3>1. p' = Note("job", p.closing) => p'.pc = "job"
      BY LocalTypes DEF WorkerShape, Note, NextJob, Locals
    <3> QED BY <2>5, <3>1, LeaveMoves DEF Released
  <2>6. CASE (CancelRemaining /\ MoreJobs) \/ (AbortRun /\ MoreJobs)
    BY <2>6, CancelMoves, AbortMoves DEF Closing
  <2> QED BY <1>5, <2>1, <2>2, <2>3, <2>4, <2>5, <2>6 DEF AtJobStep
<1> HIDE DEF Preparing, Attempting
<1> QED BY <1>2, <1>3, <1>4, <1>5, AllSteps

\* The command of the step has been started.
Started == {"running", "succeeded", "failed"}

\* Only the pass over the jobs makes a job manual, and only a play ends that.
LEMMA ManualStep ==
    ASSUME StoreInv, WorkerShape, RunIsHeld, ManualJobsWait, Next
    PROVE  ManualJobsWait'
<1> USE DEF StoreInv, TypeOK
<1>0. ASSUME NEW j \in Jobs, played \subseteq played', AwaitsPlay(j)' PROVE AwaitsPlay(j)
  BY <1>0 DEF AwaitsPlay
<1>1. ASSUME UNCHANGED manualState, played \subseteq played',
             \A j \in Jobs : jobStatus'[j] = "manual" =>
                jobStatus[j] = "manual" /\ (j \in played' => j \in played),
             \A s \in Steps : stepStatus'[s] \in Started =>
                stepStatus[s] \in Started \/ ~AwaitsPlay(JobOf[s])
      PROVE  ManualJobsWait'
  <2>1. \A j \in Jobs : manualState'[j] # "none" => manualState'[j] = Manual[j]
    BY <1>1 DEF ManualJobsWait
  <2>2. \A j \in Jobs : jobStatus'[j] = "manual" => manualState'[j] # "none" /\ j \notin played'
    BY <1>1 DEF ManualJobsWait
  <2>3. ASSUME NEW s \in Steps, AwaitsPlay(JobOf[s])' PROVE stepStatus'[s] \notin Started
    BY <1>0, <1>1, <2>3, RowKeys DEF ManualJobsWait, Started
  <2>4. (Preparing \/ Attempting)' => ~AwaitsPlay(Job)'
    <3>1. ASSUME (Preparing \/ Attempting)' PROVE ~AwaitsPlay(Job)
      BY <3>1, ChosenBefore, ChooseMoves DEF ManualJobsWait
    <3>2. (Preparing \/ Attempting)' => Job' = Job
      BY ChosenBefore
    <3> QED BY <1>1, <3>1, <3>2 DEF AwaitsPlay
  <2> QED BY <2>1, <2>2, <2>3, <2>4 DEF ManualJobsWait, Started
<1>2. ASSUME UNCHANGED <<jobStatus, stepStatus, manualState, played>> PROVE ManualJobsWait'
  BY <1>1, <1>2
<1>3. ASSUME NEW next \in Terminal \cup {"running", "waiting"}, NEW j \in Jobs,
             jobStatus' = [jobStatus EXCEPT ![j] = next], UNCHANGED <<stepStatus, manualState, played>>
      PROVE  ManualJobsWait'
  BY <1>1, <1>3 DEF Terminal
<1>4. ASSUME NEW s \in Steps, NEW next \in Status, TransitionStep(s, next),
             next \in Started => ~AwaitsPlay(JobOf[s])
      PROVE  ManualJobsWait'
  BY <1>1, <1>4 DEF TransitionStep
<1>5. CASE Between
  <2>1. CASE RecoverExpiredRunWorkers
    <3>1. UNCHANGED <<manualState, played>>
          /\ (\A j \in Jobs : jobStatus'[j] = "manual" => jobStatus[j] = "manual")
      BY <2>1 DEF RecoverExpiredRunWorkers, Interrupt
    <3>2. \A s \in Steps : stepStatus'[s] \in Started => stepStatus[s] \in Started
      BY <2>1 DEF RecoverExpiredRunWorkers, Interrupt, Started
    <3> QED BY <1>1, <3>1, <3>2
  <2>2. ASSUME NEW wait, ResumeJob(wait[1]) PROVE ManualJobsWait'
    <3>1. UNCHANGED <<stepStatus, manualState, played>>
          /\ (\A j \in Jobs : jobStatus'[j] = "manual" => jobStatus[j] = "manual")
      BY <2>2 DEF ResumeJob
    <3> QED BY <1>1, <3>1
  <2>3. GoneMove => \/ RecoverExpiredRunWorkers \/ Quiet \/ \E wait : ResumeJob(wait[1])
    BY DEF GoneMove, Recover, ResumeWaitingJobs, ListJobWaits, Restart
  <2>4. LoadRun \/ (Claim /\ Quiet) => Quiet
    BY LoadMoves
  <2>5. ASSUME NEW r \in Runs, Claimed(r) PROVE ManualJobsWait'
    BY <1>2, <2>5 DEF Claimed
  <2>6. CASE \/ Quiet \/ ReleaseRunWorker(p.run, p.me) \/ HeartbeatRunWorker(p.run, p.me)
             \/ TransitionRun(p.run, "cancelled") \/ TransitionRun(p.run, "failed")
             \/ TransitionRun(p.run, "succeeded")
    BY <1>2, <2>6 DEF Quiet, storeVars, ReleaseRunWorker, HeartbeatRunWorker, TransitionRun
  <2> QED BY <1>5, <2>1, <2>2, <2>3, <2>4, <2>5, <2>6, BetweenMoves, FinishMoves
<1>6. CASE StoreCallFails
  BY <1>2, <1>6 DEF StoreCallFails, Quiet, storeVars
<1>7. CASE Elsewhere
  <2>1. ASSUME NEW r \in Runs, EnqueueRun(r) PROVE ManualJobsWait'
    <3>1. UNCHANGED <<manualState, played>>
          /\ (\A j \in Jobs : jobStatus'[j] = "manual" => jobStatus[j] = "manual")
          /\ (\A s \in Steps : stepStatus'[s] \in Started => stepStatus[s] \in Started)
      BY <2>1 DEF EnqueueRun, SetStatus, Started
    <3> QED BY <1>1, <3>1
  <2>2. ASSUME NEW r \in Runs, RequestRunCancellation(r) PROVE ManualJobsWait'
    <3>1. UNCHANGED <<manualState, played>>
          /\ (\A j \in Jobs : jobStatus'[j] = "manual" => jobStatus[j] = "manual")
      BY <2>2 DEF RequestRunCancellation, SetStatus
    <3>2. \A s \in Steps : stepStatus'[s] \in Started => stepStatus[s] \in Started
      BY <2>2 DEF RequestRunCancellation, SetStatus, Started
    <3> QED BY <1>1, <3>1, <3>2
  <2>3. ASSUME NEW j \in Jobs, PlayManualJob(j) PROVE ManualJobsWait'
    <3>1. UNCHANGED manualState /\ played \subseteq played'
          /\ (\A k \in Jobs : jobStatus'[k] = "manual" =>
                jobStatus[k] = "manual" /\ (k \in played' => k \in played))
      BY <2>3 DEF PlayManualJob
    <3>2. \A s \in Steps : stepStatus'[s] \in Started => stepStatus[s] \in Started
      BY <2>3 DEF PlayManualJob, SetStatus, Started
    <3> QED BY <1>1, <3>1, <3>2
  <2> HIDE DEF StoreInv, TypeOK
  <2> QED BY <1>2, <1>7, <2>1, <2>2, <2>3, ShapeAssumption
          DEF Elsewhere, Heartbeat, HeartbeatRunWorker, HeartbeatEnvironment, ApiCall, DecideGate,
              EnvLeaseExpires, Expire, LeaseExpires, Quiet, storeVars
<1>8. CASE AtJobStep
  <2> USE <1>8
  <2> HIDE DEF StoreInv, TypeOK
  <2>0. AtJob /\ Job \in Jobs
    BY AtJobFrame, JobIsThere
  <2>1. CASE MeetManualJob
    <3>0. p.pc = "job" /\ AwaitsPlay(Job) /\ Manual[Job] \in {"blocking", "optional"}
      BY <2>1, ManualMoves
    <3>1. CASE Quiet
      BY <1>2, <3>1 DEF Quiet, storeVars
    <3>2. CASE PauseManualJob(Job, Manual[Job] = "blocking")
      <4>1. /\ manualState' = [manualState EXCEPT ![Job] = Manual[Job]]
            /\ jobStatus' = [jobStatus EXCEPT ![Job] = "manual"]
            /\ UNCHANGED <<stepStatus, played>>
        BY <3>0, <3>2 DEF PauseManualJob
      <4>2. manualState \in [Jobs -> {"none", "blocking", "optional"}] /\ jobStatus \in [Jobs -> Status \cup {Absent}]
        BY DEF StoreInv, TypeOK
      <4>3. \A j \in Jobs : manualState'[j] # "none" => manualState'[j] = Manual[j]
        BY <4>1, <4>2 DEF ManualJobsWait
      <4>4. \A j \in Jobs : jobStatus'[j] = "manual" => manualState'[j] # "none" /\ j \notin played'
        BY <2>0, <3>0, <4>1, <4>2 DEF ManualJobsWait, AwaitsPlay
      <4>5. ~(Preparing \/ Attempting)'
        BY <2>1, ManualMoves DEF Released, Advanced, Preparing, Attempting
      <4> QED BY <4>1, <4>3, <4>4, <4>5 DEF ManualJobsWait, AwaitsPlay
    <3> QED BY <2>1, <3>1, <3>2, ManualMoves
  <2>2. CASE Park
    <3>1. jobStatus' = [jobStatus EXCEPT ![Job] = "waiting"]
          /\ UNCHANGED <<stepStatus, manualState, played>>
      BY <2>2, ParkMoves DEF PauseJob
    <3> QED BY <1>3, <2>0, <3>1
  <2>3. CASE CloseJob \/ StartJob \/ FinishJob \/ RecordJobError
    <3>1. \E next \in Terminal \cup {"running"} : TransitionJob(Job, next)
      BY <2>3, CloseJobMoves, StartMoves, FinishJobMoves, ErrorMoves DEF Terminal
    <3> QED BY <1>3, <2>0, <3>1 DEF TransitionJob
  <2>4. CASE SkipStep
    <3>1. "skipped" \in Status /\ "skipped" \notin Started
      BY DEF Status, Terminal, Started
    <3> QED BY <1>4, <2>4, <3>1, SkipStepMoves
  <2>5. CASE FailSetup \/ StopBeforeStep \/ NextStep \/ FinishStep
    <3>1. Attempting
      BY <2>5, SetupMoves, StopMoves, StepMoves, CommandMoves DEF Attempting
    <3>2. ~AwaitsPlay(Job)
      BY <3>1 DEF ManualJobsWait
    <3>3. 1 \in 1..Len(StepSeq[Job]) => StepSeq[Job][1] \in Steps /\ JobOf[StepSeq[Job][1]] = Job
      BY <2>0, Lists
    <3>4. {"skipped", "failed", "cancelled", "running", "succeeded"} \subseteq Status
      BY DEF Status, Terminal
    <3>5. Quiet \/ \E s \in Steps, next \in Status : JobOf[s] = Job /\ TransitionStep(s, next)
      <4>1. CASE FailSetup
        BY <3>3, <3>4, <4>1, SetupMoves
      <4>2. CASE StopBeforeStep
        BY <3>4, <4>2, StopMoves, StepIsThere
      <4>3. CASE NextStep
        BY <3>4, <4>3, StepMoves, StepIsThere
      <4>4. CASE FinishStep
        BY <3>4, <4>4, CommandMoves, StepIsThere
      <4> QED BY <2>5, <4>1, <4>2, <4>3, <4>4
    <3> QED BY <1>2, <1>4, <3>2, <3>5 DEF Quiet, storeVars
  <2>6. CASE RetryJob
    <3>1. ~AwaitsPlay(Job)
      BY <2>6, RetryMoves DEF ManualJobsWait, Attempting
    <3>2. CASE ResetJobForRetry(Job)
      <4>1. UNCHANGED <<manualState, played>>
            /\ (\A j \in Jobs : jobStatus'[j] = "manual" => jobStatus[j] = "manual")
            /\ (\A s \in Steps : stepStatus'[s] \in Started => stepStatus[s] \in Started)
        BY <3>2 DEF ResetJobForRetry, StoreInv, TypeOK, Started
      <4> QED BY <1>1, <4>1
    <3> QED BY <1>2, <2>6, <3>2, RetryMoves DEF Quiet, storeVars
  <2>7. CASE \/ PassFinishedJob \/ SkipJob \/ ChooseJob \/ CheckCancelled \/ Prepare
             \/ AcquireEnvironment \/ StepRefused \/ LeaveJob \/ BeginAttempt \/ EndAttempt
             \/ (CancelRemaining /\ MoreJobs) \/ (AbortRun /\ MoreJobs)
    <3>1. UNCHANGED <<jobStatus, stepStatus, manualState, played>>
      BY <2>7, PassMoves, SkipMoves, ChooseMoves, CheckMoves, PrepareMoves, AcquireMoves, RefusedMoves,
         LeaveMoves, BeginMoves, EndMoves, CancelMoves, AbortMoves
      DEF Quiet, storeVars, StartJobAttempt, FinishJobAttempt
    <3> QED BY <1>2, <3>1
  <2> QED BY <2>1, <2>2, <2>3, <2>4, <2>5, <2>6, <2>7 DEF AtJobStep
<1> QED BY <1>5, <1>6, <1>7, <1>8, AllSteps

\* The worker gives leave to fail as the definition does.
LEMMA LeaveStep ==
    ASSUME StoreInv, WorkerShape, ManualJobsWait, PassedJobsAreOver, LeaveIsGiven, Next
    PROVE  LeaveIsGiven'
<1> USE DEF LeaveIsGiven
<1>0. \A j \in Jobs : DecisionAllows(j) => MayFail(j)
  BY DEF ManualJobsWait, DecisionAllows, PersistedAllow, MayFail
<1>1. ASSUME p'.tolerated \subseteq p.tolerated PROVE LeaveIsGiven'
  BY <1>1 DEF MayFail
<1>2. ASSUME Gone \/ Released PROVE LeaveIsGiven'
  BY <1>2 DEF Gone, Released
<1>3. CASE Elsewhere
  <2>1. UNCHANGED p
    BY <1>3 DEF Elsewhere, Heartbeat, HeartbeatEnvironment, ApiCall, DecideGate, EnvLeaseExpires, Expire
  <2> QED BY <1>1, <2>1
<1>4. CASE Between
  <2>1. CASE LoadRun
    <3>1. \A j \in p'.tolerated : j \in Jobs /\ PersistedAllow(j)
      BY <2>1, LoadMoves DEF JobsOf
    <3> QED BY <1>0, <3>1 DEF DecisionAllows, MayFail
  <2> QED BY <1>1, <1>2, <1>4, <2>1, BetweenMoves DEF Claimed, SameRest
<1>5. CASE StoreCallFails
  BY <1>1, <1>2, <1>5, FaultMoves DEF Errs, Failing, SameRest
<1>6. CASE AtJobStep
  <2>1. CASE ChooseJob
    <3>1. p'.tolerated = Tolerate(Job, DecisionAllows(Job)) /\ Job \in Jobs
      BY <2>1, ChooseMoves, JobIsThere
    <3>2. CASE DecisionAllows(Job)
      BY <1>0, <3>1, <3>2 DEF Tolerate, MayFail
    <3>3. CASE ~DecisionAllows(Job)
      BY <1>1, <3>1, <3>3 DEF Tolerate
    <3> QED BY <3>2, <3>3
  <2>2. CASE MeetManualJob
    <3>1. CASE Manual[Job] = "optional" /\ p'.tolerated = p.tolerated \cup {Job}
      BY <3>1 DEF MayFail
    <3> QED BY <1>2, <2>2, <3>1, ManualMoves DEF Advanced
  <2>3. CASE PassFinishedJob \/ SkipJob \/ CheckCancelled \/ Prepare \/ AcquireEnvironment \/ Park
    BY <1>1, <1>2, <2>3, PassMoves, SkipMoves, CheckMoves, PrepareMoves, AcquireMoves, ParkMoves
    DEF Advanced, Closing, MovedTo, SameRest
  <2>4. CASE BeginAttempt \/ StartJob \/ SkipStep \/ CloseJob
    BY <1>1, <2>4, BeginMoves, StartMoves, SkipStepMoves, CloseJobMoves DEF Advanced, MovedTo, SameRest
  <2>5. CASE FailSetup \/ StopBeforeStep \/ NextStep \/ StepRefused \/ FinishStep
    BY <1>1, <2>5, SetupMoves, StopMoves, StepMoves, RefusedMoves, CommandMoves
    DEF Closing, MovedTo, Errs, NextSpos, SameRest
  <2>6. CASE FinishJob \/ RecordJobError \/ EndAttempt \/ RetryJob
    BY <1>1, <2>6, FinishJobMoves, ErrorMoves, EndMoves, RetryMoves DEF MovedTo, Failing, Errs, SameRest
  <2>7. CASE LeaveJob
    BY <1>1, <1>2, <2>7, LeaveMoves, LeaveOn DEF Advanced
  <2>8. CASE (CancelRemaining /\ MoreJobs) \/ (AbortRun /\ MoreJobs)
    BY <1>1, <2>8, CancelMoves, AbortMoves DEF Closing
  <2> QED BY <1>6, <2>1, <2>2, <2>3, <2>4, <2>5, <2>6, <2>7, <2>8 DEF AtJobStep
<1> HIDE DEF LeaveIsGiven
<1> QED BY <1>3, <1>4, <1>5, <1>6, AllSteps

\* All jobs of a run are noted when the worker decides it.
LEMMA AllNoted ==
    ASSUME StoreInv, WorkerShape, NotesAreTrue, FinishRun
    PROVE  /\ p.run \in Runs /\ Held /\ p.pc = "job"
           /\ \A j \in Jobs : RunOf[j] = p.run => p.seen[j] # "none" /\ p.seen[j] = jobStatus[j]
<1>1. p.pc = "job" /\ Held /\ MainPass /\ p.run \in Runs /\ ~MoreJobs
  BY FinishMoves DEF Held, MainPass
<1>2. Len(JobSeq[p.run]) \in Nat /\ p.pos \in Nat
  BY <1>1, Lists, LocalTypes DEF WorkerShape
<1>3. \A i \in 1..Len(JobSeq[p.run]) : i < p.pos
  BY <1>1, <1>2 DEF MoreJobs
<1>4. ASSUME NEW j \in Jobs, RunOf[j] = p.run
      PROVE  p.seen[j] # "none" /\ p.seen[j] = jobStatus[j]
  <2>1. PICK i \in 1..Len(JobSeq[p.run]) : JobSeq[p.run][i] = j
    BY <1>1, <1>4, ListedJob
  <2>2. p.seen[j] # "none"
    BY <1>1, <1>3, <2>1 DEF NotesAreTrue
  <2> QED BY <1>1, <1>4, <2>2 DEF NotesAreTrue
<1> QED BY <1>1, <1>4

\* A run that becomes or stays succeeded
LEMMA SucceededRuns ==
    ASSUME StoreInv, WorkerShape, RunIsHeld, NotesAreTrue, Next, NEW r \in Runs,
           runStatus'[r] = "succeeded"
    PROVE  \/ /\ FinishRun /\ r = p.run /\ UNCHANGED <<jobStatus, cancelRequested>>
              /\ \A j \in JobsOf(p.run) : p.seen[j] = "failed" => j \in p.tolerated
           \/ /\ runStatus[r] = "succeeded"
              /\ \A j \in Jobs : RunOf[j] = r => jobStatus'[j] = jobStatus[j]
<1> USE DEF StoreInv, TypeOK
<1> DEFINE Stays == /\ runStatus[r] = "succeeded"
                    /\ \A j \in Jobs : RunOf[j] = r => jobStatus'[j] = jobStatus[j]
           Ends  == /\ FinishRun /\ r = p.run /\ UNCHANGED <<jobStatus, cancelRequested>>
                    /\ \A j \in JobsOf(p.run) : p.seen[j] = "failed" => j \in p.tolerated
<1>1. CASE UNCHANGED <<runStatus, jobStatus>>
  BY <1>1
<1>2. CASE AtJobStep
  <2>1. AtJob /\ OthersLeft
    BY <1>2, AtJobFrame
  <2>2. runStatus[p.run] = "running" /\ RunOf[Job] = p.run
    BY <2>1, RunIsRunning
  <2> QED BY <2>1, <2>2 DEF OthersLeft
<1>3. CASE StoreCallFails
  BY <1>1, <1>3 DEF StoreCallFails, Quiet, storeVars
<1>4. CASE Between
  <2>1. CASE RecoverExpiredRunWorkers
    <3>1. ~Expired(r) /\ runStatus[r] = "succeeded"
      BY <2>1 DEF RecoverExpiredRunWorkers, Interrupted, Requeued
    <3>2. \A j \in Jobs : RunOf[j] = r => jobStatus'[j] = jobStatus[j]
      BY <2>1, <3>1 DEF RecoverExpiredRunWorkers, Interrupted, Requeued
    <3> QED BY <3>1, <3>2
  <2>2. ASSUME NEW wait \in p.waits, ResumeJob(wait[1]) PROVE Stays
    <3>1. p.waits \subseteq Jobs \X {"gate", "concurrency"}
      BY LocalTypes DEF WorkerShape
    <3>2. wait[1] \in Jobs /\ RunOf[wait[1]] \in Runs
      BY <2>2, <3>1, RowKeys
    <3>3. runStatus[RunOf[wait[1]]] = "waiting"
      BY <2>2, <3>2 DEF ResumeJob, WaitRowsMatchJobs
    <3> QED BY <2>2, <3>2, <3>3 DEF ResumeJob
  <2>3. GoneMove => RecoverExpiredRunWorkers \/ Quiet \/ \E wait \in p.waits : ResumeJob(wait[1])
    BY DEF GoneMove, Recover, ResumeWaitingJobs, ListJobWaits, Restart
  <2>4. LoadRun => Quiet
    BY LoadMoves
  <2>5. CASE \E q \in Runs : Claimed(q)
    BY <2>5 DEF Claimed
  <2>6. CASE p.run \in Runs /\ (TransitionRun(p.run, "cancelled") \/ TransitionRun(p.run, "failed"))
    BY <2>6 DEF TransitionRun
  <2>7. CASE FinishRun
    <3>1. p.run \in Runs
      BY <2>7, FinishMoves
    <3>2. UNCHANGED <<jobStatus, cancelRequested>>
      BY <2>7, FinishMoves DEF TransitionRun
    <3>3. CASE r = p.run
      <4>1. ~TransitionRun(p.run, "failed")
        BY <3>1, <3>3 DEF TransitionRun
      <4> QED BY <2>7, <3>2, <3>3, <4>1, FinishMoves
    <3>4. CASE r # p.run
      BY <2>7, <3>1, <3>2, <3>4, FinishMoves DEF TransitionRun
    <3> QED BY <3>3, <3>4
  <2>8. CASE Quiet \/ ReleaseRunWorker(p.run, p.me) \/ HeartbeatRunWorker(p.run, p.me)
    BY <1>1, <2>8 DEF Quiet, storeVars, ReleaseRunWorker, HeartbeatRunWorker
  <2> QED BY <1>4, <2>1, <2>2, <2>3, <2>4, <2>5, <2>6, <2>7, <2>8, BetweenMoves
<1>5. CASE Elsewhere
  <2>1. ASSUME NEW q \in Runs, EnqueueRun(q) PROVE Stays
    BY <2>1 DEF EnqueueRun, SetStatus, JobsOf
  <2>2. ASSUME NEW q \in Runs, RequestRunCancellation(q) PROVE Stays
    <3>1. CASE runStatus[q] = "running"
      BY <2>2, <3>1 DEF RequestRunCancellation
    <3>2. CASE runStatus[q] # "running"
      BY <2>2, <3>2 DEF RequestRunCancellation, SetStatus, JobsOf
    <3> QED BY <3>1, <3>2
  <2>3. ASSUME NEW j \in Jobs, PlayManualJob(j) PROVE Stays
    BY <2>3, RowKeys DEF PlayManualJob
  <2> HIDE DEF StoreInv, TypeOK
  <2> QED BY <1>1, <1>5, <2>1, <2>2, <2>3, ShapeAssumption
          DEF Elsewhere, Heartbeat, HeartbeatRunWorker, HeartbeatEnvironment, ApiCall, DecideGate,
              EnvLeaseExpires, Expire, LeaseExpires, Quiet, storeVars
<1> QED BY <1>2, <1>3, <1>4, <1>5, AllSteps

\* A run succeeds over a failed job only where the job may fail.
LEMMA FailuresStep ==
    ASSUME StoreInv, WorkerShape, RunIsHeld, NotesAreTrue, LeaveIsGiven, FailuresMayBe, Next
    PROVE  FailuresMayBe'
<1>1. SUFFICES ASSUME NEW j \in Jobs, runStatus'[RunOf[j]] = "succeeded", jobStatus'[j] = "failed"
               PROVE  MayFail(j)
  BY DEF FailuresMayBe, MayFail
<1>2. RunOf[j] \in Runs
  BY RowKeys
<1>3. CASE /\ FinishRun /\ RunOf[j] = p.run /\ UNCHANGED <<jobStatus, cancelRequested>>
           /\ \A k \in JobsOf(p.run) : p.seen[k] = "failed" => k \in p.tolerated
  BY <1>1, <1>3, AllNoted DEF LeaveIsGiven, JobsOf
<1>4. CASE runStatus[RunOf[j]] = "succeeded" /\ jobStatus'[j] = jobStatus[j]
  BY <1>1, <1>4 DEF FailuresMayBe
<1> QED BY <1>1, <1>2, <1>3, <1>4, SucceededRuns

\* What the chosen job needs stays met while the worker is at it.
LEMMA NeedsStep ==
    ASSUME StoreInv, WorkerShape, NotesAreTrue, NeedsAreMet, Next
    PROVE  NeedsAreMet'
<1>1. SUFFICES ASSUME (Preparing \/ Attempting)', Job' \notin Always, NEW d \in Needs[Job']
               PROVE  DependencyMet(d)'
  BY DEF NeedsAreMet
<1>2. Job' = Job /\ p'.seen = p.seen
  BY <1>1, ChosenBefore
<1>3. CASE (Preparing \/ Attempting) /\ p'.tolerated = p.tolerated
  BY <1>1, <1>2, <1>3 DEF NeedsAreMet, DependencyMet
<1>4. CASE ChooseJob
  <2>1. AtJob /\ p.pc = "job" /\ Runnable(Job) /\ p'.tolerated = Tolerate(Job, DecisionAllows(Job))
    BY <1>4, ChooseMoves
  <2>2. p.pos \in 1..Len(JobSeq[p.run]) /\ Job = JobSeq[p.run][p.pos] /\ Held /\ MainPass /\ p.run \in Runs
    BY <2>1, JobIsThere DEF Held, MainPass
  <2>3. ~(p.pos < p.pos)
    BY <2>2, Lists
  <2>4. p.seen[Job] = "none"
    BY <2>2, <2>3 DEF NotesAreTrue
  <2>5. DependencyMet(d)
    BY <1>1, <1>2, <2>1 DEF Runnable
  <2>6. d # Job
    BY <2>4, <2>5 DEF DependencyMet
  <2> QED BY <1>2, <2>1, <2>5, <2>6 DEF DependencyMet, Tolerate
<1> QED BY <1>1, <1>3, <1>4, ChosenBefore

-----------------------------------------------------------------------------
(* Steps that have run *)

\* The steps before the worker's keep their status; the worker's own ends with `next`.
SameSteps == \A i \in 1..Len(StepSeq[Job]) :
    i < p.spos => stepStatus'[StepSeq[Job][i]] = stepStatus[StepSeq[Job][i]]
StepEnds(next) ==
    /\ p'.spos = p.spos + 1 /\ stepStatus'[Step] = next
    /\ next \in {"succeeded", "failed", "skipped"}
    /\ next = "skipped" => p'.failed
    /\ next = "failed" /\ ~p'.failed => Step \in AllowFailure

\* A worker at a step has just started its job, or comes from the step before.
LEMMA StepProgress ==
    ASSUME StoreInv, WorkerShape, RunIsHeld, Next, p'.pc \in {"step", "run"}
    PROVE  /\ Job' = Job /\ Job \in Jobs
           /\ \/ p'.pc = "step" /\ p'.spos = 1
              \/ /\ p.pc \in {"step", "run"} /\ SameSteps /\ p'.failed = p.failed /\ p'.spos = p.spos
              \/ /\ p.pc \in {"step", "run"} /\ SameSteps /\ (p'.failed \/ ~p.failed)
                 /\ p.spos \in 1..Len(StepSeq[Job]) /\ Step = StepSeq[Job][p.spos]
                 /\ \E next \in {"succeeded", "failed", "skipped"} : StepEnds(next)
<1> USE DEF StoreInv, TypeOK
<1>1. ASSUME AtJob PROVE /\ Job \in Jobs
                         /\ \A i \in 1..Len(StepSeq[Job]) : StepSeq[Job][i] \in Steps
  BY <1>1, JobIsThere, Lists
<1>2. CASE Elsewhere
  <2>1. LeftToWorker
    BY <1>2, ElsewhereFrame
  <2>2. p' = p /\ p.pc \in {"step", "run"} /\ AtJob /\ Held
    BY <2>1, JobIsThere DEF LeftToWorker, AtJob, Attempting, Held
  <2>3. \A i \in 1..Len(StepSeq[Job]) : StepSeq[Job][i] \in Steps /\ RunOfStep(StepSeq[Job][i]) = p.run
    BY <2>2, JobIsThere, Lists DEF RunOfStep
  <2> QED BY <1>1, <2>1, <2>2, <2>3 DEF LeftToWorker, SameSteps, Job
<1>3. CASE Between
  BY <1>3, BetweenMoves, LoadMoves DEF Gone, Released, Outside, Claimed
<1>4. CASE StoreCallFails
  BY <1>4, FaultMoves DEF Errs, Failing, Released
<1>5. CASE AtJobStep
  <2>0. AtJob
    BY <1>5, AtJobFrame
  <2>1. CASE StartJob
    <3>1. /\ p.pc = "start" /\ SameJob
          /\ p'.pc = "step" => p'.spos = 1
      BY <2>1, StartMoves
    <3>2. Job' = Job
      BY <3>1, JobStays
    <3>3. p'.pc = "step"
      BY <2>1, StartMoves
    <3> QED BY <1>1, <2>0, <3>1, <3>2, <3>3
  <2>2. CASE NextStep \/ FinishStep
    <3>1. /\ p.pc \in {"step", "run"} /\ p.spos \in 1..Len(StepSeq[Job]) /\ Step = StepSeq[Job][p.spos]
          /\ Step \in Steps /\ \A i \in 1..Len(StepSeq[Job]) : StepSeq[Job][i] = Step => i = p.spos
          /\ Len(StepSeq[Job]) \in Nat
      BY <1>1, <2>0, <2>2, StepMoves, CommandMoves, StepIsThere, Lists
    <3>2. ASSUME NEW next, TransitionStep(Step, next) PROVE SameSteps /\ stepStatus'[Step] = next
      <4>1. \A s \in Steps : s # Step => stepStatus'[s] = stepStatus[s]
        BY <3>2 DEF TransitionStep
      <4>2. stepStatus'[Step] = next
        BY <3>1, <3>2 DEF TransitionStep
      <4>3. \A i \in 1..Len(StepSeq[Job]) : i < p.spos => StepSeq[Job][i] # Step /\ StepSeq[Job][i] \in Steps
        BY <1>1, <2>0, <3>1
      <4> QED BY <4>1, <4>2, <4>3 DEF SameSteps
    <3>3. MovedTo("run") \/ NextSpos => Job' = Job
      BY JobStays DEF MovedTo, NextSpos
    <3>4. CASE TransitionStep(Step, "running") /\ MovedTo("run")
      BY <1>1, <2>0, <3>1, <3>2, <3>3, <3>4 DEF MovedTo, SameRest
    <3>5. CASE p.failed /\ TransitionStep(Step, "skipped") /\ NextSpos /\ p'.failed = p.failed
      <4>1. StepEnds("skipped")
        BY <3>2, <3>5 DEF StepEnds, NextSpos
      <4> QED BY <1>1, <2>0, <3>1, <3>2, <3>3, <3>5, <4>1
    <3>6. CASE TransitionStep(Step, "succeeded") /\ NextSpos /\ p'.failed = p.failed
      <4>1. StepEnds("succeeded")
        BY <3>2, <3>6 DEF StepEnds, NextSpos
      <4>2. p'.failed \/ ~p.failed
        BY <3>6, LocalTypes DEF WorkerShape
      <4> QED BY <1>1, <2>0, <3>1, <3>2, <3>3, <3>6, <4>1, <4>2
    <3>7. CASE /\ TransitionStep(Step, "failed") /\ NextSpos
               /\ p'.failed = (p.failed \/ Step \notin AllowFailure)
      <4>1. StepEnds("failed")
        BY <3>2, <3>7 DEF StepEnds, NextSpos
      <4>2. p'.failed \/ ~p.failed
        BY <3>7, LocalTypes DEF WorkerShape
      <4> QED BY <1>1, <2>0, <3>1, <3>2, <3>3, <3>7, <4>1, <4>2
    <3>8. ~Closing(1, "cancelled", "attemptEnd")
      BY DEF Closing
    <3> QED BY <2>2, <3>4, <3>5, <3>6, <3>7, <3>8, StepMoves, CommandMoves
  <2>3. CASE \/ PassFinishedJob \/ SkipJob \/ MeetManualJob \/ ChooseJob \/ CheckCancelled \/ Prepare
    BY <2>3, PassMoves, SkipMoves, ManualMoves, ChooseMoves, CheckMoves, PrepareMoves
    DEF Advanced, Closing, MovedTo, Released
  <2>4. CASE AcquireEnvironment \/ Park \/ BeginAttempt \/ SkipStep \/ CloseJob
    BY <2>4, AcquireMoves, ParkMoves, BeginMoves, SkipStepMoves, CloseJobMoves
    DEF Advanced, MovedTo, Released
  <2>5. CASE FailSetup \/ StopBeforeStep \/ StepRefused
    BY <2>5, SetupMoves, StopMoves, RefusedMoves DEF Closing, Errs
  <2>6. CASE FinishJob \/ RecordJobError \/ EndAttempt \/ RetryJob
    BY <2>6, FinishJobMoves, ErrorMoves, EndMoves, RetryMoves DEF MovedTo, Failing, Errs
  <2>7. CASE LeaveJob
    <3>1. p' = Note("job", p.closing) => p'.pc = "job"
      BY LocalTypes DEF WorkerShape, Note, NextJob, Locals
    <3> QED BY <2>7, <3>1, LeaveMoves DEF Released
  <2>8. CASE (CancelRemaining /\ MoreJobs) \/ (AbortRun /\ MoreJobs)
    BY <2>8, CancelMoves, AbortMoves DEF Closing
  <2> QED BY <1>5, <2>1, <2>2, <2>3, <2>4, <2>5, <2>6, <2>7, <2>8 DEF AtJobStep
<1> QED BY <1>2, <1>3, <1>4, <1>5, AllSteps

\* Only FinishJob makes a job succeeded, and its steps do not change any more.
LEMMA SucceededJobs ==
    ASSUME StoreInv, WorkerShape, RunIsHeld, SuccessIsEarned, Next, NEW j \in Jobs,
           jobStatus'[j] = "succeeded"
    PROVE  \/ /\ jobStatus[j] = "succeeded"
              /\ \A s \in Steps : JobOf[s] = j => stepStatus'[s] = stepStatus[s]
           \/ FinishJob /\ j = Job /\ ~p.failed /\ UNCHANGED stepStatus
<1> USE DEF StoreInv, TypeOK
<1> DEFINE Stays == /\ jobStatus[j] = "succeeded"
                    /\ \A s \in Steps : JobOf[s] = j => stepStatus'[s] = stepStatus[s]
           Ends  == FinishJob /\ j = Job /\ ~p.failed /\ UNCHANGED stepStatus
<1>1. CASE UNCHANGED <<jobStatus, stepStatus>>
  BY <1>1
<1>2. ASSUME NEW s \in Steps, NEW next, TransitionStep(s, next) PROVE Stays
  <2>1. stepStatus[s] \notin {"succeeded", "failed"} /\ UNCHANGED jobStatus
        /\ \A q \in Steps : q # s => stepStatus'[q] = stepStatus[q]
    BY <1>2 DEF TransitionStep, CanTransition
  <2>2. jobStatus[j] = "succeeded"
    BY <2>1
  <2>3. JobOf[s] # j
    BY <2>1, <2>2 DEF SuccessIsEarned, Good
  <2> QED BY <2>1, <2>2, <2>3
<1>3. ASSUME NEW k \in Jobs, NEW next, jobStatus' = [jobStatus EXCEPT ![k] = next], next # "succeeded",
             UNCHANGED stepStatus
      PROVE  Stays
  BY <1>3
<1>4. CASE Between
  <2>1. CASE RecoverExpiredRunWorkers
    <3>1. jobStatus[j] = "succeeded"
      BY <2>1 DEF RecoverExpiredRunWorkers, Interrupt
    <3>2. \A s \in Steps : JobOf[s] = j => stepStatus'[s] = stepStatus[s]
      BY <2>1, <3>1 DEF RecoverExpiredRunWorkers, Interrupt, SuccessIsEarned, Good
    <3> QED BY <3>1, <3>2
  <2>2. ASSUME NEW wait \in p.waits, ResumeJob(wait[1]) PROVE Stays
    BY <2>2 DEF ResumeJob
  <2>3. GoneMove => RecoverExpiredRunWorkers \/ Quiet \/ \E wait \in p.waits : ResumeJob(wait[1])
    BY DEF GoneMove, Recover, ResumeWaitingJobs, ListJobWaits, Restart
  <2>4. LoadRun => Quiet
    BY LoadMoves
  <2>5. CASE \E q \in Runs : Claimed(q)
    BY <1>1, <2>5 DEF Claimed
  <2>6. CASE \/ Quiet \/ ReleaseRunWorker(p.run, p.me) \/ HeartbeatRunWorker(p.run, p.me)
             \/ TransitionRun(p.run, "cancelled") \/ TransitionRun(p.run, "failed")
             \/ TransitionRun(p.run, "succeeded")
    BY <1>1, <2>6 DEF Quiet, storeVars, ReleaseRunWorker, HeartbeatRunWorker, TransitionRun
  <2> QED BY <1>4, <2>1, <2>2, <2>3, <2>4, <2>5, <2>6, BetweenMoves, FinishMoves
<1>5. CASE StoreCallFails
  BY <1>1, <1>5 DEF StoreCallFails, Quiet, storeVars
<1>6. CASE Elsewhere
  <2>1. ASSUME NEW r \in Runs, EnqueueRun(r) PROVE Stays
    <3>1. jobStatus[j] = "succeeded"
      BY <2>1 DEF EnqueueRun, SetStatus
    <3>2. RunOf[j] # r
      BY <2>1, <3>1 DEF EnqueueRun, GraphExistsWithRun, Absent
    <3> QED BY <2>1, <3>1, <3>2 DEF EnqueueRun, RunOfStep
  <2>2. ASSUME NEW r \in Runs, RequestRunCancellation(r) PROVE Stays
    <3>1. CASE runStatus[r] = "running"
      BY <2>2, <3>1 DEF RequestRunCancellation
    <3>2. CASE runStatus[r] # "running"
      <4>1. jobStatus[j] = "succeeded"
        BY <2>2, <3>2 DEF RequestRunCancellation, SetStatus
      <4>2. \A s \in Steps : stepStatus[s] # "queued" => stepStatus'[s] = stepStatus[s]
        BY <2>2, <3>2 DEF RequestRunCancellation, SetStatus
      <4>3. \A s \in Steps : JobOf[s] = j => stepStatus[s] # "queued"
        BY <4>1 DEF SuccessIsEarned, Good
      <4> QED BY <4>1, <4>2, <4>3
    <3> QED BY <3>1, <3>2
  <2>3. ASSUME NEW k \in Jobs, PlayManualJob(k) PROVE Stays
    BY <2>3 DEF PlayManualJob, SetStatus, StepsOf
  <2> HIDE DEF StoreInv, TypeOK
  <2> QED BY <1>1, <1>6, <2>1, <2>2, <2>3, ShapeAssumption
          DEF Elsewhere, Heartbeat, HeartbeatRunWorker, HeartbeatEnvironment, ApiCall, DecideGate,
              EnvLeaseExpires, Expire, LeaseExpires, Quiet, storeVars
<1>7. CASE AtJobStep
  <2> HIDE DEF StoreInv, TypeOK
  <2>0. AtJob /\ Job \in Jobs
    BY <1>7, AtJobFrame, JobIsThere
  <2>1. CASE MeetManualJob \/ Park
    <3>1. \/ Quiet
          \/ UNCHANGED stepStatus /\ jobStatus' = [jobStatus EXCEPT ![Job] = "manual"]
          \/ UNCHANGED stepStatus /\ jobStatus' = [jobStatus EXCEPT ![Job] = "waiting"]
      BY <2>1, ManualMoves, ParkMoves DEF PauseManualJob, PauseJob
    <3> QED BY <1>1, <1>3, <2>0, <3>1 DEF Quiet, storeVars
  <2>2. CASE CloseJob \/ StartJob \/ RecordJobError
    <3>1. \E next : next # "succeeded" /\ TransitionJob(Job, next)
      BY <2>2, CloseJobMoves, StartMoves, ErrorMoves
    <3> QED BY <1>3, <2>0, <3>1 DEF TransitionJob
  <2>3. CASE FinishJob
    <3>1. PICK status \in {"succeeded", "failed"} :
            (status = "succeeded" => ~p.failed) /\ TransitionJob(Job, status)
      BY <2>3, FinishJobMoves
    <3>2. jobStatus' = [jobStatus EXCEPT ![Job] = status] /\ UNCHANGED stepStatus
      BY <3>1 DEF TransitionJob
    <3>3. CASE status = "failed"
      BY <1>3, <2>0, <3>2, <3>3
    <3>4. CASE status = "succeeded"
      <4>1. CASE j = Job
        BY <2>3, <3>1, <3>2, <3>4, <4>1
      <4>2. CASE j # Job
        BY <3>2, <4>2 DEF StoreInv, TypeOK
      <4> QED BY <4>1, <4>2
    <3> QED BY <3>3, <3>4
  <2>4. CASE SkipStep \/ FailSetup \/ StopBeforeStep \/ NextStep \/ FinishStep
    <3>1. 1 \in 1..Len(StepSeq[Job]) => StepSeq[Job][1] \in Steps
      BY <2>0, Lists
    <3>2. Quiet \/ \E s \in Steps : \E next : TransitionStep(s, next)
      <4>1. CASE SkipStep
        BY <4>1, SkipStepMoves
      <4>2. CASE FailSetup
        BY <3>1, <4>2, SetupMoves
      <4>3. CASE StopBeforeStep
        BY <4>3, StopMoves, StepIsThere
      <4>4. CASE NextStep
        BY <4>4, StepMoves, StepIsThere
      <4>5. CASE FinishStep
        BY <4>5, CommandMoves, StepIsThere
      <4> QED BY <2>4, <4>1, <4>2, <4>3, <4>4, <4>5
    <3> QED BY <1>1, <1>2, <3>2 DEF Quiet, storeVars
  <2>5. CASE RetryJob
    <3>1. CASE ResetJobForRetry(Job)
      BY <2>0, <3>1 DEF ResetJobForRetry, StoreInv, TypeOK
    <3> QED BY <1>1, <2>5, <3>1, RetryMoves DEF Quiet, storeVars
  <2>6. CASE \/ PassFinishedJob \/ SkipJob \/ ChooseJob \/ CheckCancelled \/ Prepare
             \/ AcquireEnvironment \/ StepRefused \/ LeaveJob \/ BeginAttempt \/ EndAttempt
             \/ (CancelRemaining /\ MoreJobs) \/ (AbortRun /\ MoreJobs)
    <3>1. UNCHANGED <<jobStatus, stepStatus>>
      BY <2>6, PassMoves, SkipMoves, ChooseMoves, CheckMoves, PrepareMoves, AcquireMoves, RefusedMoves,
         LeaveMoves, BeginMoves, EndMoves, CancelMoves, AbortMoves
      DEF Quiet, storeVars, StartJobAttempt, FinishJobAttempt
    <3> QED BY <1>1, <3>1
  <2> QED BY <1>7, <2>1, <2>2, <2>3, <2>4, <2>5, <2>6 DEF AtJobStep
<1> QED BY <1>4, <1>5, <1>6, <1>7, AllSteps

\* A succeeded job has run every step that it had to.
LEMMA SuccessStep ==
    ASSUME StoreInv, WorkerShape, RunIsHeld, SuccessIsEarned, Next
    PROVE  SuccessIsEarned'
<1> DEFINE Later(x) == stepStatus'[x] = "succeeded" \/ (stepStatus'[x] = "failed" /\ x \in AllowFailure)
<1>1. ASSUME NEW s \in Steps, jobStatus'[JobOf[s]] = "succeeded" PROVE Later(s)
  <2>0. JobOf[s] \in Jobs
    BY RowKeys
  <2>1. CASE jobStatus[JobOf[s]] = "succeeded" /\ stepStatus'[s] = stepStatus[s]
    BY <2>1 DEF SuccessIsEarned, Good
  <2>2. CASE FinishJob /\ JobOf[s] = Job /\ ~p.failed /\ UNCHANGED stepStatus
    <3>1. AtJob /\ p.pc = "step" /\ ~MoreSteps /\ Job \in Jobs
      BY <2>2, FinishJobMoves, JobIsThere
    <3>2. PICK i \in 1..Len(StepSeq[Job]) : StepSeq[Job][i] = s
      BY <2>2, <3>1, ListedStep
    <3>3. Len(StepSeq[Job]) \in Nat /\ p.spos \in Nat
      BY <3>1, Lists, LocalTypes DEF WorkerShape
    <3>4. i < p.spos
      BY <3>1, <3>3 DEF MoreSteps
    <3>5. Good(s)
      BY <2>2, <3>1, <3>2, <3>4 DEF SuccessIsEarned
    <3> QED BY <2>2, <3>5 DEF Good
  <2> QED BY <1>1, <2>0, <2>1, <2>2, SucceededJobs
<1>2. ASSUME p'.pc \in {"step", "run"}, ~p'.failed, NEW i \in 1..Len(StepSeq[Job']), i < p'.spos
      PROVE  Later(StepSeq[Job'][i])
  <2>0. Job' = Job /\ Job \in Jobs /\ Len(StepSeq[Job]) \in Nat /\ i \in Nat
    BY <1>2, StepProgress, Lists
  <2>1. ASSUME SameSteps, i < p.spos, ~p.failed, p.pc \in {"step", "run"} PROVE Later(StepSeq[Job][i])
    <3>1. Good(StepSeq[Job][i])
      BY <1>2, <2>0, <2>1 DEF SuccessIsEarned
    <3>2. stepStatus'[StepSeq[Job][i]] = stepStatus[StepSeq[Job][i]]
      BY <1>2, <2>0, <2>1 DEF SameSteps
    <3> QED BY <3>1, <3>2 DEF Good
  <2>2. CASE p'.spos = 1
    BY <1>2, <2>0, <2>2
  <2>3. CASE SameSteps /\ p'.failed = p.failed /\ p'.spos = p.spos /\ p.pc \in {"step", "run"}
    BY <1>2, <2>0, <2>1, <2>3
  <2>4. CASE /\ p.pc \in {"step", "run"} /\ SameSteps /\ (p'.failed \/ ~p.failed)
             /\ p.spos \in 1..Len(StepSeq[Job]) /\ Step = StepSeq[Job][p.spos]
             /\ \E next \in {"succeeded", "failed", "skipped"} : StepEnds(next)
    <3>1. PICK next \in {"succeeded", "failed", "skipped"} : StepEnds(next)
      BY <2>4
    <3>2. CASE i < p.spos
      BY <1>2, <2>0, <2>1, <2>4, <3>2
    <3>3. CASE i = p.spos
      BY <1>2, <2>0, <2>4, <3>1, <3>3 DEF StepEnds, Good
    <3>4. i < p.spos \/ i = p.spos
      BY <1>2, <2>0, <2>4, <3>1 DEF StepEnds
    <3> QED BY <3>2, <3>3, <3>4
  <2> QED BY <1>2, <2>0, <2>2, <2>3, <2>4, StepProgress
<1> QED BY <1>1, <1>2 DEF SuccessIsEarned, Good

-----------------------------------------------------------------------------
(* How the status of a job changes *)

JobChange(j) ==
    \/ Recover /\ jobStatus[j] \notin Terminal /\ jobStatus'[j] \in {"failed", "skipped", "queued"}
    \/ ResumeWaitingJobs /\ jobStatus[j] = "waiting" /\ jobStatus'[j] = "queued"
    \/ EnqueueRun(RunOf[j]) /\ jobStatus[j] = Absent /\ jobStatus'[j] = "queued"
    \/ /\ RequestRunCancellation(RunOf[j]) /\ UNCHANGED p /\ runStatus[RunOf[j]] # "running"
       /\ jobStatus[j] \in {"queued", "waiting"} /\ jobStatus'[j] = "cancelled"
    \/ PlayManualJob(j) /\ jobStatus[j] = "manual" /\ jobStatus'[j] = "queued"
    \/ /\ j = Job /\ AtJob
       /\ \/ MeetManualJob /\ jobStatus[j] \notin Terminal /\ jobStatus'[j] = "manual"
          \/ Park /\ jobStatus[j] \notin Terminal /\ jobStatus'[j] = "waiting"
          \/ StartJob /\ jobStatus[j] \notin Terminal /\ jobStatus'[j] = "running"
          \/ CloseJob /\ jobStatus'[j] = p.closing
          \/ FinishJob /\ jobStatus'[j] \in {"succeeded", "failed"}
          \/ RecordJobError /\ jobStatus'[j] = "failed"
          \/ RetryJob /\ jobStatus[j] = "failed" /\ jobStatus'[j] = "queued" /\ p'.pc = "attempt"

\* Nothing else changes the status of a job.
LEMMA JobChanges ==
    ASSUME StoreInv, WorkerShape, RunIsHeld, Next, NEW j \in Jobs, jobStatus'[j] # jobStatus[j]
    PROVE  JobChange(j)
<1> USE DEF StoreInv, TypeOK
<1>1. CASE AtJobStep
  <2>0. AtJob /\ Job \in Jobs /\ j = Job
    BY <1>1, AtJobFrame, JobIsThere DEF OthersLeft
  <2>1. ASSUME NEW next, TransitionJob(Job, next)
        PROVE  jobStatus[Job] \notin Terminal /\ jobStatus'[Job] = next
    BY <2>0, <2>1 DEF TransitionJob, CanTransition, Terminal
  <2> HIDE DEF StoreInv, TypeOK
  <2>2. CASE MeetManualJob
    <3>1. PauseManualJob(Job, Manual[Job] = "blocking")
      BY <2>0, <2>2, ManualMoves DEF Quiet, storeVars
    <3>2. jobStatus[Job] \notin Terminal /\ jobStatus'[Job] = "manual"
      BY <2>0, <3>1 DEF PauseManualJob, Terminal, StoreInv, TypeOK
    <3> QED BY <2>0, <2>2, <3>2 DEF JobChange
  <2>3. CASE Park
    <3>1. jobStatus[Job] \notin Terminal /\ jobStatus'[Job] = "waiting"
      BY <2>0, <2>3, ParkMoves DEF PauseJob, Terminal, StoreInv, TypeOK
    <3> QED BY <2>0, <2>3, <3>1 DEF JobChange
  <2>4. CASE StartJob
    BY <2>0, <2>1, <2>4, StartMoves DEF JobChange
  <2>5. CASE CloseJob
    BY <2>0, <2>1, <2>5, CloseJobMoves DEF JobChange
  <2>6. CASE FinishJob
    <3>1. jobStatus'[Job] \in {"succeeded", "failed"}
      BY <2>1, <2>6, FinishJobMoves
    <3> QED BY <2>0, <2>6, <3>1 DEF JobChange
  <2>7. CASE RecordJobError
    BY <2>0, <2>1, <2>7, ErrorMoves DEF JobChange
  <2>8. CASE RetryJob
    <3>1. ResetJobForRetry(Job) /\ p'.pc = "attempt"
      BY <2>0, <2>8, RetryMoves DEF Quiet, storeVars
    <3>2. jobStatus[Job] = "failed" /\ jobStatus'[Job] = "queued"
      BY <2>0, <3>1 DEF ResetJobForRetry, StoreInv, TypeOK
    <3> QED BY <2>0, <2>8, <3>1, <3>2 DEF JobChange
  <2>9. CASE SkipStep \/ FailSetup \/ StopBeforeStep \/ NextStep \/ FinishStep
    <3>1. UNCHANGED jobStatus
      BY <2>9, SkipStepMoves, SetupMoves, StopMoves, StepMoves, CommandMoves
      DEF TransitionStep, Quiet, storeVars
    <3> QED BY <3>1
  <2>10. CASE \/ PassFinishedJob \/ SkipJob \/ ChooseJob \/ CheckCancelled \/ Prepare
              \/ AcquireEnvironment \/ StepRefused \/ LeaveJob \/ BeginAttempt \/ EndAttempt
              \/ (CancelRemaining /\ MoreJobs) \/ (AbortRun /\ MoreJobs)
    <3>1. UNCHANGED jobStatus
      BY <2>10, PassMoves, SkipMoves, ChooseMoves, CheckMoves, PrepareMoves, AcquireMoves, RefusedMoves,
         LeaveMoves, BeginMoves, EndMoves, CancelMoves, AbortMoves
      DEF Quiet, storeVars, StartJobAttempt, FinishJobAttempt
    <3> QED BY <3>1
  <2> QED BY <1>1, <2>2, <2>3, <2>4, <2>5, <2>6, <2>7, <2>8, <2>9, <2>10 DEF AtJobStep
<1>2. CASE Recover
  <2>1. RecoverExpiredRunWorkers
    BY <1>2 DEF Recover, Quiet, storeVars
  <2>2. jobStatus[j] \in {"running", "queued"} /\ jobStatus'[j] \in {"failed", "skipped", "queued"}
    BY <2>1 DEF RecoverExpiredRunWorkers, Interrupt
  <2> QED BY <1>2, <2>2 DEF JobChange, Terminal
<1>3. CASE ResumeWaitingJobs
  <2>1. PICK wait : ResumeJob(wait[1])
    BY <1>3 DEF ResumeWaitingJobs, Quiet, storeVars
  <2>2. jobStatus[j] = "waiting" /\ jobStatus'[j] = "queued"
    BY <2>1 DEF ResumeJob
  <2> QED BY <1>3, <2>2 DEF JobChange
<1>4. CASE Between /\ ~Recover /\ ~ResumeWaitingJobs
  <2>1. LoadRun => Quiet
    BY LoadMoves
  <2>2. GoneMove => Quiet
    BY <1>4 DEF GoneMove, ListJobWaits, Restart
  <2>3. CASE \E q \in Runs : Claimed(q)
    BY <2>3 DEF Claimed
  <2>4. CASE \/ Quiet \/ ReleaseRunWorker(p.run, p.me) \/ HeartbeatRunWorker(p.run, p.me)
             \/ TransitionRun(p.run, "cancelled") \/ TransitionRun(p.run, "failed")
             \/ TransitionRun(p.run, "succeeded")
    BY <2>4 DEF Quiet, storeVars, ReleaseRunWorker, HeartbeatRunWorker, TransitionRun
  <2> QED BY <1>4, <2>1, <2>2, <2>3, <2>4, BetweenMoves, FinishMoves
<1>5. CASE StoreCallFails
  BY <1>5 DEF StoreCallFails, Quiet, storeVars
<1>6. CASE Elsewhere
  <2>1. ASSUME NEW r \in Runs, EnqueueRun(r) PROVE JobChange(j)
    <3>1. RunOf[j] = r /\ jobStatus[j] = Absent /\ jobStatus'[j] = "queued"
      BY <2>1 DEF EnqueueRun, SetStatus, JobsOf
    <3> QED BY <2>1, <3>1 DEF JobChange
  <2>2. ASSUME NEW r \in Runs, UNCHANGED p, RequestRunCancellation(r) PROVE JobChange(j)
    <3>1. /\ RunOf[j] = r /\ runStatus[r] # "running"
          /\ jobStatus[j] \in {"queued", "waiting"} /\ jobStatus'[j] = "cancelled"
      BY <2>2 DEF RequestRunCancellation, SetStatus, JobsOf
    <3> QED BY <2>2, <3>1 DEF JobChange
  <2>3. ASSUME NEW k \in Jobs, PlayManualJob(k) PROVE JobChange(j)
    <3>1. j = k /\ jobStatus[j] = "manual" /\ jobStatus'[j] = "queued"
      BY <2>3 DEF PlayManualJob
    <3> QED BY <2>3, <3>1 DEF JobChange
  <2> HIDE DEF StoreInv, TypeOK
  <2> QED BY <1>6, <2>1, <2>2, <2>3, ShapeAssumption
          DEF Elsewhere, Heartbeat, HeartbeatRunWorker, HeartbeatEnvironment, ApiCall, DecideGate,
              EnvLeaseExpires, Expire, LeaseExpires, Quiet, storeVars
<1> HIDE DEF StoreInv, TypeOK
<1> QED BY <1>1, <1>2, <1>3, <1>4, <1>5, <1>6, AllSteps

\* A worker with a run has had it before, or has just claimed it.
LEMMA HeldBefore ==
    ASSUME StoreInv, WorkerShape, Next, Held'
    PROVE  (Held /\ p'.run = p.run) \/ \E r \in Runs : Claimed(r)
<1>1. CASE Elsewhere
  BY <1>1 DEF Elsewhere, Heartbeat, HeartbeatEnvironment, ApiCall, DecideGate, EnvLeaseExpires, Expire, Held
<1>2. CASE Between
  <2>1. p.pc \in {"lease", "load"} => Held
    BY DEF WorkerShape, Held, Outside
  <2> QED BY <1>2, <2>1, BetweenMoves, LoadMoves DEF Gone, Released, Held, SameJob, SameRun
<1>3. CASE StoreCallFails
  BY <1>3, FaultMoves, JobIsThere DEF Errs, Failing, Released, SameJob, SameRun, Held
<1>4. CASE AtJobStep
  <2>0. Held
    BY <1>4, AtJobFrame, JobIsThere DEF Held
  <2>1. CASE \/ PassFinishedJob \/ SkipJob \/ MeetManualJob \/ ChooseJob \/ CheckCancelled \/ Prepare
    BY <2>0, <2>1, PassMoves, SkipMoves, ManualMoves, ChooseMoves, CheckMoves, PrepareMoves
    DEF Advanced, Closing, MovedTo, Released, SameJob, SameRun
  <2>2. CASE AcquireEnvironment \/ Park \/ BeginAttempt \/ StartJob \/ SkipStep \/ CloseJob
    BY <2>0, <2>2, AcquireMoves, ParkMoves, BeginMoves, StartMoves, SkipStepMoves, CloseJobMoves
    DEF Advanced, MovedTo, Released, SameJob, SameRun
  <2>3. CASE FailSetup \/ StopBeforeStep \/ NextStep \/ StepRefused \/ FinishStep
    BY <2>0, <2>3, SetupMoves, StopMoves, StepMoves, RefusedMoves, CommandMoves
    DEF Closing, MovedTo, Errs, NextSpos, SameJob, SameRun
  <2>4. CASE FinishJob \/ RecordJobError \/ EndAttempt \/ RetryJob
    BY <2>0, <2>4, FinishJobMoves, ErrorMoves, EndMoves, RetryMoves
    DEF MovedTo, Failing, Errs, SameJob, SameRun
  <2>5. CASE LeaveJob
    <3>1. p' = Note("job", p.closing) => SameRun
      BY LocalTypes DEF WorkerShape, Note, NextJob, Locals, SameRun
    <3> QED BY <2>0, <2>5, <3>1, LeaveMoves DEF Released, SameRun
  <2>6. CASE (CancelRemaining /\ MoreJobs) \/ (AbortRun /\ MoreJobs)
    BY <2>0, <2>6, CancelMoves, AbortMoves DEF Closing, SameJob, SameRun
  <2> QED BY <1>4, <2>1, <2>2, <2>3, <2>4, <2>5, <2>6 DEF AtJobStep
<1> QED BY <1>1, <1>2, <1>3, <1>4, AllSteps

-----------------------------------------------------------------------------
(* Cancelled jobs *)

\* A request to cancel is never taken back.
LEMMA RequestsStay ==
    ASSUME StoreInv, WorkerShape, RunIsHeld, Next, NEW r \in Runs, cancelRequested[r]
    PROVE  cancelRequested'[r]
<1>1. [StoreNext]_storeVars
  BY StoreRefinement
<1>2. CASE UNCHANGED cancelRequested
  BY <1>2
<1>3. ASSUME NEW q \in Runs, RequestRunCancellation(q) PROVE cancelRequested'[r]
  BY <1>3 DEF RequestRunCancellation, StoreInv, TypeOK
<1>4. CASE ManagerStep
  BY <1>4, <1>2
  DEF ManagerStep, ClaimNextQueuedRun, TransitionRun, TransitionJob, TransitionStep, HeartbeatRunWorker,
      ReleaseRunWorker, RecoverExpiredRunWorkers, PauseJob, ResumeJob, PauseManualJob, StartJobAttempt,
      ResetJobForRetry, FinishJobAttempt
<1>5. CASE ApiStep
  BY <1>2, <1>3, <1>5 DEF ApiStep, EnqueueRun, PlayManualJob
<1>6. CASE \E q \in Runs : LeaseExpires(q)
  BY <1>2, <1>6 DEF LeaseExpires
<1> QED BY <1>1, <1>2, <1>4, <1>5, <1>6 DEF StoreNext, storeVars

\* A worker that is about to mark its run cancelled stays on that way.
LEMMA EndStays ==
    ASSUME StoreInv, WorkerShape, Next, EndsCancelled, Held'
    PROVE  EndsCancelled'
<1> USE DEF EndsCancelled, Cancelling
<1>1. CASE Elsewhere
  BY <1>1 DEF Elsewhere, Heartbeat, HeartbeatEnvironment, ApiCall, DecideGate, EnvLeaseExpires, Expire
<1>2. CASE Between
  BY <1>2, BetweenMoves, LoadMoves, FinishMoves DEF Gone, Released, Claimed, Held, Outside
<1>3. CASE StoreCallFails
  BY <1>3, FaultMoves
  DEF Errs, Failing, Released, InExecuteJob, InRetryLoop, At, SameJob, SameRest, Held
<1>4. CASE AtJobStep
  <2>1. CASE SkipStep \/ CloseJob \/ EndAttempt
    BY <2>1, SkipStepMoves, CloseJobMoves, EndMoves
    DEF MovedTo, Advanced, SameJob, SameRest, MayRetry
  <2>2. CASE LeaveJob
    BY <2>2, LeaveMoves DEF Released, Held
  <2>3. CASE (CancelRemaining /\ MoreJobs) \/ (AbortRun /\ MoreJobs)
    BY <2>3, CancelMoves, AbortMoves DEF Closing
  <2>4. CASE \/ PassFinishedJob \/ SkipJob \/ MeetManualJob \/ ChooseJob \/ CheckCancelled \/ Prepare
             \/ AcquireEnvironment \/ Park \/ BeginAttempt \/ StartJob
    BY <2>4, PassMoves, SkipMoves, ManualMoves, ChooseMoves, CheckMoves, PrepareMoves, AcquireMoves,
       ParkMoves, BeginMoves, StartMoves
  <2>5. CASE \/ FailSetup \/ StopBeforeStep \/ NextStep \/ StepRefused \/ FinishStep \/ FinishJob
             \/ RecordJobError \/ RetryJob
    BY <2>5, SetupMoves, StopMoves, StepMoves, RefusedMoves, CommandMoves, FinishJobMoves, ErrorMoves,
       RetryMoves
  <2> QED BY <1>4, <2>1, <2>2, <2>3, <2>4, <2>5 DEF AtJobStep
<1> HIDE DEF EndsCancelled, Cancelling
<1> QED BY <1>1, <1>2, <1>3, <1>4, AllSteps

\* The worker has decided to cancel.
CancelsJobs == Cancelling \/ (Attempting /\ p.closing = "cancelled")

\* A worker cancels only what it was asked to, or what ran out of time.
LEMMA CancelReason ==
    ASSUME StoreInv, WorkerShape, Next, CancelsJobs => MayCancel(p.run), CancelsJobs'
    PROVE  p'.run = p.run /\ p.run \in Runs /\ MayCancel(p.run)
<1> USE DEF CancelsJobs, Cancelling, Attempting
<1>1. CASE Elsewhere
  <2>1. p' = p
    BY <1>1 DEF Elsewhere, Heartbeat, HeartbeatEnvironment, ApiCall, DecideGate, EnvLeaseExpires, Expire
  <2>2. CancelsJobs /\ p.pc \notin Outside
    BY <2>1 DEF Outside
  <2>3. p.run \in Runs
    BY <2>2, LocalTypes DEF WorkerShape
  <2> QED BY <2>1, <2>2, <2>3
<1>2. CASE Between
  BY <1>2, BetweenMoves, LoadMoves DEF Gone, Released, Claimed, Outside
<1>3. CASE StoreCallFails
  BY <1>3, FaultMoves, JobIsThere
  DEF Errs, Failing, Released, InExecuteJob, InRetryLoop, At, SameJob, SameRun, SameRest
<1>4. CASE AtJobStep
  <2>0. AtJob /\ p.run \in Runs /\ RunOf[Job] = p.run
    BY <1>4, AtJobFrame, JobIsThere
  <2>1. CASE SkipStep \/ CloseJob \/ EndAttempt \/ BeginAttempt \/ RetryJob
    BY <2>0, <2>1, SkipStepMoves, CloseJobMoves, EndMoves, BeginMoves, RetryMoves
    DEF MovedTo, Advanced, SameJob, SameRun, SameRest, Errs
  <2>2. CASE LeaveJob
    <3>1. p' = Note("job", p.closing) => p'.pc = "job"
      BY LocalTypes DEF WorkerShape, Note, NextJob, Locals
    <3> QED BY <2>0, <2>2, <3>1, LeaveMoves DEF Released, SameRun
  <2>3. CASE (CancelRemaining /\ MoreJobs) \/ (AbortRun /\ MoreJobs)
    BY <2>0, <2>3, CancelMoves, AbortMoves DEF Closing, SameJob, SameRun
  <2>4. CASE CheckCancelled \/ Prepare \/ AcquireEnvironment
    <3>1. p.closing = "none"
      BY <2>4, CheckMoves, PrepareMoves, AcquireMoves DEF WorkerShape, Preparing
    <3> QED BY <2>0, <2>4, <3>1, CheckMoves, PrepareMoves, AcquireMoves
            DEF MovedTo, Closing, MayCancel, SameJob, SameRun, SameRest
  <2>5. CASE PassFinishedJob \/ SkipJob \/ MeetManualJob \/ ChooseJob \/ Park
    BY <2>5, PassMoves, SkipMoves, ManualMoves, ChooseMoves, ParkMoves DEF Advanced, Closing, Released
  <2>6. CASE StopBeforeStep
    <3>1. Job \in Timed => MayTimeOut(p.run)
      BY <2>0 DEF MayTimeOut
    <3> QED BY <2>0, <2>6, <3>1, StopMoves DEF Closing, Errs, MayCancel, SameJob, SameRun, SameRest
  <2>7. CASE FinishStep \/ FailSetup \/ NextStep
    BY <2>0, <2>7, CommandMoves, SetupMoves, StepMoves
    DEF Closing, Errs, NextSpos, MovedTo, MayCancel, SameJob, SameRun, SameRest
  <2>8. CASE StartJob \/ StepRefused \/ FinishJob \/ RecordJobError
    BY <2>0, <2>8, StartMoves, RefusedMoves, FinishJobMoves, ErrorMoves
    DEF Errs, Failing, SameJob, SameRun, SameRest
  <2> QED BY <1>4, <2>1, <2>2, <2>3, <2>4, <2>5, <2>6, <2>7, <2>8 DEF AtJobStep
<1> HIDE DEF CancelsJobs, Cancelling, Attempting
<1> QED BY <1>1, <1>2, <1>3, <1>4, AllSteps

\* A job is cancelled by a request or by a deadline.
LEMMA CancelledStep ==
    ASSUME StoreInv, WorkerShape, RunIsHeld, NotesAreTrue, CancelledForAReason, Next
    PROVE  CancelledForAReason'
<1> DEFINE Reason(j) == \/ MayTimeOut(RunOf[j])
                        \/ /\ cancelRequested'[RunOf[j]]
                           /\ runStatus'[RunOf[j]] # "succeeded"
                           /\ Held' /\ RunOf[j] = p'.run => EndsCancelled'
<1>1. CancelsJobs' => /\ p'.run = p.run /\ p.run \in Runs
                      /\ MayTimeOut(p.run) \/ cancelRequested'[p.run]
  <2>1. CancelsJobs => MayCancel(p.run)
    BY DEF CancelledForAReason, CancelsJobs
  <2>2. MayCancel(p.run) /\ p.run \in Runs => MayTimeOut(p.run) \/ cancelRequested'[p.run]
    BY RequestsStay DEF MayCancel
  <2> QED BY <2>1, <2>2, CancelReason
<1>2. ASSUME NEW j \in Jobs, jobStatus'[j] = "cancelled" PROVE Reason(j)
  <2>0. RunOf[j] \in Runs
    BY RowKeys
  <2>1. CASE jobStatus[j] = "cancelled" /\ ~MayTimeOut(RunOf[j])
    <3>1. /\ cancelRequested[RunOf[j]] /\ runStatus[RunOf[j]] # "succeeded"
          /\ Held /\ RunOf[j] = p.run => EndsCancelled
      BY <2>1 DEF CancelledForAReason
    <3>2. cancelRequested'[RunOf[j]]
      BY <2>0, <3>1, RequestsStay
    <3>3. ~(FinishRun /\ RunOf[j] = p.run)
      BY <3>1, AllNoted DEF EndsCancelled, Cancelling
    <3>4. runStatus'[RunOf[j]] # "succeeded"
      BY <2>0, <3>1, <3>3, SucceededRuns
    <3>5. ASSUME Held', RunOf[j] = p'.run PROVE EndsCancelled'
      <4>1. ~\E r \in Runs : Claimed(r)
        BY <3>1, <3>5 DEF Claimed
      <4> QED BY <3>1, <3>5, <4>1, HeldBefore, EndStays
    <3> QED BY <3>2, <3>4, <3>5
  <2>2. CASE jobStatus[j] # "cancelled"
    <3>1. CASE RequestRunCancellation(RunOf[j]) /\ UNCHANGED p /\ runStatus[RunOf[j]] # "running"
      <4>1. cancelRequested'[RunOf[j]] /\ runStatus'[RunOf[j]] = "cancelled"
        BY <2>0, <3>1 DEF RequestRunCancellation, StoreInv, TypeOK
      <4>2. ~(Held' /\ RunOf[j] = p'.run)
        BY <3>1 DEF Held, RunIsHeld
      <4> QED BY <4>1, <4>2
    <3>2. CASE j = Job /\ AtJob /\ CloseJob /\ p.closing = "cancelled"
      <4>1. /\ p.pc = "close" /\ p.after \in {"attemptEnd", "cancelRest"} /\ EndsCancelled'
            /\ UNCHANGED runStatus /\ UNCHANGED cancelRequested
        BY <3>2, CloseJobMoves
        DEF MovedTo, SameRest, TransitionJob, EndsCancelled, Cancelling
      <4>2. MayCancel(p.run)
        BY <3>2, <4>1 DEF CancelledForAReason, Cancelling, Attempting
      <4>3. RunOf[j] = p.run /\ runStatus[p.run] = "running"
        BY <3>2, RunIsRunning
      <4> QED BY <4>1, <4>2, <4>3 DEF MayCancel
    <3> QED BY <1>2, <2>2, <3>1, <3>2, JobChanges DEF JobChange
  <2> QED BY <2>1, <2>2
<1> QED BY <1>1, <1>2 DEF CancelledForAReason, CancelsJobs, MayCancel, MayTimeOut

-----------------------------------------------------------------------------
(* The order of the steps *)

\* The step is recovered, queued or skipped as pending, played, worked at, or reset.
StepChange(s) ==
    \/ stepStatus[s] = "running" /\ stepStatus'[s] = "failed" /\ Recover
    \/ stepStatus[s] \in {"queued", Absent} /\ stepStatus'[s] \in {"queued", "skipped"}
    \/ PlayManualJob(JobOf[s]) /\ stepStatus[s] = "skipped" /\ stepStatus'[s] = "queued"
    \/ /\ AtJob /\ JobOf[s] = Job /\ stepStatus[s] \notin Terminal
       /\ \/ stepStatus'[s] \in {"skipped", "cancelled"}
          \/ s = StepSeq[Job][1] /\ stepStatus'[s] = "failed"
          \/ /\ p.pc = "run" \/ (p.pc = "step" /\ MoreSteps)
             /\ s = Step /\ stepStatus'[s] \in {"running", "succeeded", "failed"}
    \/ AtJob /\ JobOf[s] = Job /\ ResetJobForRetry(Job)

\* Nothing else changes the status of a step.
LEMMA StepChanges ==
    ASSUME StoreInv, WorkerShape, RunIsHeld, Next, NEW s \in Steps, stepStatus'[s] # stepStatus[s]
    PROVE  StepChange(s)
<1> USE DEF StoreInv, TypeOK
<1>0. JobOf[s] \in Jobs /\ RunOfStep(s) \in Runs
  BY RowKeys
<1>1. CASE AtJobStep
  <2>0. AtJob /\ Job \in Jobs /\ JobOf[s] = Job
    BY <1>1, AtJobFrame, JobIsThere DEF OthersLeft
  <2>1. ASSUME NEW q \in Steps, NEW next, TransitionStep(q, next)
        PROVE  q = s /\ stepStatus[s] \notin Terminal /\ stepStatus'[s] = next
    BY <2>1 DEF TransitionStep, CanTransition, Terminal
  <2> HIDE DEF StoreInv, TypeOK
  <2>2. CASE SkipStep
    BY <2>0, <2>1, <2>2, SkipStepMoves DEF StepChange
  <2>3. CASE FailSetup
    <3>1. 1 \in 1..Len(StepSeq[Job]) => StepSeq[Job][1] \in Steps
      BY <2>0, Lists
    <3>2. 1 \in 1..Len(StepSeq[Job]) /\ TransitionStep(StepSeq[Job][1], "failed")
      BY <2>3, SetupMoves DEF Quiet, storeVars
    <3> QED BY <2>0, <2>1, <3>1, <3>2 DEF StepChange
  <2>4. CASE StopBeforeStep
    <3>1. TransitionStep(Step, "cancelled") /\ Step \in Steps
      BY <2>4, StopMoves, StepIsThere DEF Quiet, storeVars
    <3> QED BY <2>0, <2>1, <3>1 DEF StepChange
  <2>5. CASE NextStep
    <3>1. Step \in Steps /\ p.pc = "step" /\ MoreSteps
      BY <2>5, StepMoves, StepIsThere
    <3>2. TransitionStep(Step, "running") \/ TransitionStep(Step, "skipped")
      BY <2>5, StepMoves
    <3> QED BY <2>0, <2>1, <3>1, <3>2 DEF StepChange
  <2>6. CASE FinishStep
    <3>1. Step \in Steps /\ p.pc = "run"
      BY <2>6, CommandMoves, StepIsThere
    <3>2. \E next \in {"succeeded", "failed", "cancelled"} : TransitionStep(Step, next)
      BY <2>6, CommandMoves
    <3> QED BY <2>0, <2>1, <3>1, <3>2 DEF StepChange
  <2>7. CASE RetryJob
    <3>1. ResetJobForRetry(Job)
      BY <2>7, RetryMoves DEF Quiet, storeVars
    <3> QED BY <2>0, <3>1 DEF StepChange
  <2>8. CASE MeetManualJob \/ Park \/ CloseJob \/ StartJob \/ FinishJob \/ RecordJobError
    <3>1. UNCHANGED stepStatus
      BY <2>8, ManualMoves, ParkMoves, CloseJobMoves, StartMoves, FinishJobMoves, ErrorMoves
      DEF Quiet, storeVars, TransitionJob, PauseManualJob, PauseJob
    <3> QED BY <3>1
  <2>9. CASE \/ PassFinishedJob \/ SkipJob \/ ChooseJob \/ CheckCancelled \/ Prepare
             \/ AcquireEnvironment \/ StepRefused \/ LeaveJob \/ BeginAttempt \/ EndAttempt
             \/ (CancelRemaining /\ MoreJobs) \/ (AbortRun /\ MoreJobs)
    <3>1. UNCHANGED stepStatus
      BY <2>9, PassMoves, SkipMoves, ChooseMoves, CheckMoves, PrepareMoves, AcquireMoves, RefusedMoves,
         LeaveMoves, BeginMoves, EndMoves, CancelMoves, AbortMoves
      DEF Quiet, storeVars, StartJobAttempt, FinishJobAttempt
    <3> QED BY <3>1
  <2> QED BY <1>1, <2>2, <2>3, <2>4, <2>5, <2>6, <2>7, <2>8, <2>9 DEF AtJobStep
<1>2. CASE Between
  <2>1. CASE RecoverExpiredRunWorkers /\ Recover
    <3>1. stepStatus'[s] = Interrupt(stepStatus[s])
      BY <2>1 DEF RecoverExpiredRunWorkers
    <3> QED BY <2>1, <3>1 DEF StepChange, Interrupt
  <2>2. ASSUME NEW wait \in p.waits, ResumeJob(wait[1]) PROVE StepChange(s)
    BY <2>2 DEF ResumeJob
  <2>3. GoneMove => \/ RecoverExpiredRunWorkers /\ Recover
                    \/ Quiet \/ \E wait \in p.waits : ResumeJob(wait[1])
    BY DEF GoneMove, Recover, ResumeWaitingJobs, ListJobWaits, Restart
  <2>4. LoadRun => Quiet
    BY LoadMoves
  <2>5. CASE \E q \in Runs : Claimed(q)
    BY <2>5 DEF Claimed
  <2>6. CASE \/ Quiet \/ ReleaseRunWorker(p.run, p.me) \/ HeartbeatRunWorker(p.run, p.me)
             \/ TransitionRun(p.run, "cancelled") \/ TransitionRun(p.run, "failed")
             \/ TransitionRun(p.run, "succeeded")
    BY <2>6 DEF Quiet, storeVars, ReleaseRunWorker, HeartbeatRunWorker, TransitionRun
  <2> QED BY <1>2, <2>1, <2>2, <2>3, <2>4, <2>5, <2>6, BetweenMoves, FinishMoves
<1>3. CASE StoreCallFails
  BY <1>3 DEF StoreCallFails, Quiet, storeVars
<1>4. CASE Elsewhere
  <2>1. ASSUME NEW r \in Runs, EnqueueRun(r) PROVE StepChange(s)
    <3>1. RunOfStep(s) = r /\ stepStatus'[s] = "queued" /\ runStatus[r] = Absent
      BY <2>1 DEF EnqueueRun
    <3>2. stepStatus[s] = Absent
      BY <3>1 DEF GraphExistsWithRun
    <3> QED BY <3>1, <3>2 DEF StepChange
  <2>2. ASSUME NEW r \in Runs, RequestRunCancellation(r) PROVE StepChange(s)
    <3>1. stepStatus[s] = "queued" /\ stepStatus'[s] = "skipped"
      BY <2>2 DEF RequestRunCancellation, SetStatus
    <3> QED BY <3>1 DEF StepChange
  <2>3. ASSUME NEW k \in Jobs, PlayManualJob(k) PROVE StepChange(s)
    <3>1. JobOf[s] = k /\ stepStatus[s] = "skipped" /\ stepStatus'[s] = "queued"
      BY <2>3 DEF PlayManualJob, SetStatus, StepsOf
    <3> QED BY <2>3, <3>1 DEF StepChange
  <2> HIDE DEF StoreInv, TypeOK
  <2> QED BY <1>4, <2>1, <2>2, <2>3, ShapeAssumption
          DEF Elsewhere, Heartbeat, HeartbeatRunWorker, HeartbeatEnvironment, ApiCall, DecideGate,
              EnvLeaseExpires, Expire, LeaseExpires, Quiet, storeVars
<1> HIDE DEF StoreInv, TypeOK
<1> QED BY <1>1, <1>2, <1>3, <1>4, AllSteps

\* A step that is over stays so, unless its job starts over or has just been played.
LEMMA OverStays ==
    ASSUME StoreInv, WorkerShape, RunIsHeld, ManualJobsWait, Next, NEW j \in Jobs,
           NEW s \in Steps, JobOf[s] = j, NEW t \in Steps, JobOf[t] = j,
           stepStatus[s] \in Terminal, stepStatus[t] \in Started, stepStatus'[t] \in Started
    PROVE  stepStatus'[s] \in Terminal
<1>1. SUFFICES ASSUME stepStatus'[s] # stepStatus[s] PROVE FALSE
  OBVIOUS
<1>2. ASSUME ResetJobForRetry(j) PROVE FALSE
  BY <1>2 DEF ResetJobForRetry, Started
<1>3. ASSUME PlayManualJob(j) PROVE FALSE
  <2>1. AwaitsPlay(j)
    BY <1>3 DEF PlayManualJob, ManualJobsWait, AwaitsPlay
  <2> QED BY <2>1 DEF ManualJobsWait, Started
<1> QED BY <1>1, <1>2, <1>3, StepChanges DEF StepChange, Terminal, Absent

\* The steps of a job run in their order.
LEMMA OrderStep ==
    ASSUME StoreInv, WorkerShape, RunIsHeld, ManualJobsWait, StepsInOrder, Next
    PROVE  StepsInOrder'
<1>1. ASSUME NEW j \in Jobs, NEW i \in 1..Len(StepSeq[j]), NEW k \in 1..Len(StepSeq[j]), i < k,
             stepStatus'[StepSeq[j][k]] \in Started
      PROVE  stepStatus'[StepSeq[j][i]] \in Terminal
  <2> DEFINE s == StepSeq[j][i]
             t == StepSeq[j][k]
  <2>0. /\ s \in Steps /\ JobOf[s] = j /\ t \in Steps /\ JobOf[t] = j /\ i \in Nat /\ k \in Nat
        /\ s # t
    BY <1>1, Lists
  <2>1. CASE stepStatus[t] \in Started
    <3>1. stepStatus[s] \in Terminal
      BY <1>1, <2>1 DEF StepsInOrder, StepsRunInOrder, Started
    <3> QED BY <1>1, <2>0, <2>1, <3>1, OverStays
  <2>2. CASE stepStatus[t] \notin Started
    <3>1. StepChange(t)
      BY <1>1, <2>0, <2>2, StepChanges
    <3>2. ~ResetJobForRetry(j)
      BY <1>1, <2>0 DEF ResetJobForRetry, Started
    <3>3. CASE AtJob /\ j = Job /\ t = StepSeq[Job][1]
      <4>1. k = 1
        BY <2>0, <3>3, Lists
      <4> QED BY <1>1, <2>0, <4>1
    <3>4. CASE AtJob /\ j = Job /\ t = Step /\ (p.pc = "run" \/ (p.pc = "step" /\ MoreSteps))
      <4>1. k = p.spos /\ p.pc \in {"step", "run"}
        BY <3>4, StepIsThere
      <4>2. stepStatus[s] \in Terminal
        BY <1>1, <3>4, <4>1 DEF StepsInOrder
      <4>3. stepStatus[t] \notin Terminal
        BY <1>1, <2>0, <2>2, <3>1, <3>2 DEF StepChange, Terminal, Started, Absent
      <4>4. stepStatus'[s] = stepStatus[s]
        <5>1. SUFFICES ASSUME stepStatus'[s] # stepStatus[s] PROVE FALSE
          OBVIOUS
        <5>2. StepChange(s)
          BY <2>0, <5>1, StepChanges
        <5>3. PlayManualJob(j)
          BY <2>0, <3>2, <4>2, <5>2 DEF StepChange, Terminal, Absent
        <5>4. stepStatus'[t] \notin Started
          BY <2>0, <2>2, <5>3 DEF PlayManualJob, SetStatus, Started, StoreInv, TypeOK
        <5> QED BY <1>1, <5>4
      <4> QED BY <4>2, <4>4
    <3> QED BY <1>1, <2>0, <2>2, <3>1, <3>2, <3>3, <3>4 DEF StepChange, Started
  <2> QED BY <2>1, <2>2
<1>2. ASSUME p'.pc \in {"step", "run"}, NEW i \in 1..Len(StepSeq[Job']), i < p'.spos
      PROVE  stepStatus'[StepSeq[Job'][i]] \in Terminal
  <2>0. Job' = Job /\ Job \in Jobs /\ Len(StepSeq[Job]) \in Nat /\ i \in Nat
    BY <1>2, StepProgress, Lists
  <2>1. ASSUME SameSteps, i < p.spos, p.pc \in {"step", "run"}
        PROVE  stepStatus'[StepSeq[Job][i]] \in Terminal
    <3>1. stepStatus[StepSeq[Job][i]] \in Terminal
      BY <1>2, <2>0, <2>1 DEF StepsInOrder
    <3>2. stepStatus'[StepSeq[Job][i]] = stepStatus[StepSeq[Job][i]]
      BY <1>2, <2>0, <2>1 DEF SameSteps
    <3> QED BY <3>1, <3>2
  <2>2. CASE p'.spos = 1
    BY <1>2, <2>0, <2>2
  <2>3. CASE SameSteps /\ p'.spos = p.spos /\ p.pc \in {"step", "run"}
    BY <1>2, <2>0, <2>1, <2>3
  <2>4. CASE /\ p.pc \in {"step", "run"} /\ SameSteps
             /\ p.spos \in 1..Len(StepSeq[Job]) /\ Step = StepSeq[Job][p.spos]
             /\ \E next \in {"succeeded", "failed", "skipped"} : StepEnds(next)
    <3>1. PICK next \in {"succeeded", "failed", "skipped"} : StepEnds(next)
      BY <2>4
    <3>2. CASE i < p.spos
      BY <1>2, <2>0, <2>1, <2>4, <3>2
    <3>3. CASE i = p.spos
      BY <1>2, <2>0, <2>4, <3>1, <3>3 DEF StepEnds, Terminal
    <3>4. i < p.spos \/ i = p.spos
      BY <1>2, <2>0, <2>4, <3>1 DEF StepEnds
    <3> QED BY <3>2, <3>3, <3>4
  <2> QED BY <1>2, <2>0, <2>2, <2>3, <2>4, StepProgress
<1> QED BY <1>1, <1>2 DEF StepsInOrder, StepsRunInOrder, Started

-----------------------------------------------------------------------------
(* The number of attempts *)

\* Faults are only counted up.
LEMMA FaultsGrow == ASSUME Next PROVE faults' = faults \/ faults' = faults + 1
BY DEF Next, WorkerStep, Heartbeat, HeartbeatEnvironment, ApiCall, DecideGate, EnvLeaseExpires, Expire,
       StoreCallFails, Crash, Restart

\* Only BeginAttempt inserts an attempt.
LEMMA AttemptNumbers ==
    ASSUME StoreInv, WorkerShape, RunIsHeld, Next
    PROVE  UNCHANGED attemptNo \/ (AtJobStep /\ BeginAttempt)
<1>1. CASE Elsewhere
  BY <1>1, ElsewhereFrame DEF LeftToWorker
<1>2. CASE StoreCallFails
  BY <1>2 DEF StoreCallFails, Quiet, storeVars
<1>3. CASE Between
  <2>1. GoneMove => UNCHANGED attemptNo
    BY DEF GoneMove, Recover, ResumeWaitingJobs, ListJobWaits, Restart, RecoverExpiredRunWorkers,
           ResumeJob, Quiet, storeVars
  <2>2. LoadRun => Quiet
    BY LoadMoves
  <2>3. CASE \E q \in Runs : Claimed(q)
    BY <2>3 DEF Claimed
  <2>4. CASE \/ Quiet \/ ReleaseRunWorker(p.run, p.me) \/ HeartbeatRunWorker(p.run, p.me)
             \/ TransitionRun(p.run, "cancelled") \/ TransitionRun(p.run, "failed")
             \/ TransitionRun(p.run, "succeeded")
    BY <2>4 DEF Quiet, storeVars, ReleaseRunWorker, HeartbeatRunWorker, TransitionRun
  <2> QED BY <1>3, <2>1, <2>2, <2>3, <2>4, BetweenMoves, FinishMoves
<1>4. CASE AtJobStep /\ ~BeginAttempt
  <2>1. CASE MeetManualJob \/ Park \/ CloseJob \/ StartJob \/ FinishJob \/ RecordJobError
    BY <2>1, ManualMoves, ParkMoves, CloseJobMoves, StartMoves, FinishJobMoves, ErrorMoves
    DEF Quiet, storeVars, TransitionJob, PauseManualJob, PauseJob
  <2>2. CASE SkipStep \/ FailSetup \/ StopBeforeStep \/ NextStep \/ FinishStep
    BY <2>2, SkipStepMoves, SetupMoves, StopMoves, StepMoves, CommandMoves
    DEF Quiet, storeVars, TransitionStep
  <2>3. CASE \/ PassFinishedJob \/ SkipJob \/ ChooseJob \/ CheckCancelled \/ Prepare
             \/ AcquireEnvironment \/ StepRefused \/ LeaveJob \/ EndAttempt \/ RetryJob
             \/ (CancelRemaining /\ MoreJobs) \/ (AbortRun /\ MoreJobs)
    BY <2>3, PassMoves, SkipMoves, ChooseMoves, CheckMoves, PrepareMoves, AcquireMoves, RefusedMoves,
       LeaveMoves, EndMoves, RetryMoves, CancelMoves, AbortMoves
    DEF Quiet, storeVars, FinishJobAttempt, ResetJobForRetry
  <2> QED BY <1>4, <2>1, <2>2, <2>3 DEF AtJobStep
<1> QED BY <1>1, <1>2, <1>3, <1>4, AllSteps

\* An attempt ends with the job, or by a fault.
LEMMA AttemptGoesOn ==
    ASSUME StoreInv, WorkerShape, RunIsHeld, Next, InAttempt
    PROVE  \/ InAttempt' /\ Job' = Job
           \/ faults' = faults + 1
           \/ jobStatus'[Job] \in Terminal
<1> USE DEF InAttempt
<1>0. AtJob /\ Job \in Jobs
  BY JobIsThere DEF AtJob, Attempting
<1>1. CASE Elsewhere
  <2>1. p' = p
    BY <1>1 DEF Elsewhere, Heartbeat, HeartbeatEnvironment, ApiCall, DecideGate, EnvLeaseExpires, Expire
  <2> QED BY <2>1 DEF Job
<1>2. CASE StoreCallFails
  BY <1>2, FaultMoves
<1>3. CASE Between
  <2>1. CASE Crash
    BY <2>1, CrashMoves
  <2>2. CASE Claim \/ EstablishLease \/ LoadRun \/ Release \/ GoneMove
    BY <2>2, ClaimMoves, LeaseMoves, LoadMoves, JobIsThere, <1>0, GoneMoves
    DEF Claimed, Claim, Release, At
  <2> QED BY <1>3, <2>1, <2>2, FinishMoves, CancelMoves, AbortMoves DEF Between
<1>4. CASE AtJobStep
  <2>1. ASSUME NEW next \in Terminal, TransitionJob(Job, next) PROVE jobStatus'[Job] \in Terminal
    BY <1>0, <2>1 DEF TransitionJob, StoreInv, TypeOK
  <2>2. CASE CloseJob \/ FinishJob \/ RecordJobError
    BY <2>1, <2>2, CloseJobMoves, FinishJobMoves, ErrorMoves DEF Terminal
  <2>3. CASE StartJob \/ FailSetup \/ StopBeforeStep \/ NextStep \/ StepRefused \/ FinishStep \/ SkipStep
    BY <2>3, JobStays, StartMoves, SetupMoves, StopMoves, StepMoves, RefusedMoves, CommandMoves,
       SkipStepMoves
    DEF Closing, Errs, MovedTo, NextSpos
  <2>4. CASE \/ PassFinishedJob \/ SkipJob \/ MeetManualJob \/ ChooseJob \/ CheckCancelled \/ Prepare
             \/ AcquireEnvironment \/ Park \/ BeginAttempt \/ EndAttempt \/ RetryJob \/ LeaveJob
             \/ (CancelRemaining /\ MoreJobs) \/ (AbortRun /\ MoreJobs)
    BY <2>4, PassMoves, SkipMoves, ManualMoves, ChooseMoves, CheckMoves, PrepareMoves, AcquireMoves,
       ParkMoves, BeginMoves, EndMoves, RetryMoves, LeaveMoves, CancelMoves, AbortMoves
  <2> QED BY <1>4, <2>2, <2>3, <2>4 DEF AtJobStep
<1> QED BY <1>1, <1>2, <1>3, <1>4, AllSteps

\* An attempt beyond the policy is one that a fault made necessary.
LEMMA AttemptsStep ==
    ASSUME StoreInv, WorkerShape, DeployTypeOK, RunIsHeld, PassedJobsAreOver, AttemptsAreCounted, Next
    PROVE  AttemptsAreCounted'
<1> DEFINE Goal(j) ==
      /\ attemptNo'[j] <= Retries[j] + 1 + faults'
      /\ jobStatus'[j] \notin Terminal =>
           attemptNo'[j] <= Retries[j] + faults' \/ (InAttempt' /\ j = Job')
<1>0. /\ faults \in Nat /\ faults' \in Nat /\ faults <= faults'
      /\ \A j \in Jobs : attemptNo[j] \in Nat /\ Retries[j] \in Nat
  <2>1. faults \in Nat
    BY ShapeAssumption DEF DeployTypeOK
  <2>2. \A j \in Jobs : attemptNo[j] \in Nat
    BY DEF StoreInv, TypeOK
  <2>3. Retries \in [Jobs -> 0..2]
    BY ShapeAssumption
  <2>4. \A j \in Jobs : Retries[j] \in Nat
    BY <2>3
  <2> QED BY <2>1, <2>2, <2>4, FaultsGrow
<1>1. ASSUME NEW j \in Jobs, AtJobStep, BeginAttempt, j = Job PROVE Goal(j)
  <2>1. /\ p.pc = "attempt" /\ AtJob /\ jobStatus[j] = "queued" /\ attemptNo'[j] = attemptNo[j] + 1
        /\ p'.pc = "start" /\ Job' = Job
    BY <1>1, BeginMoves, JobStays DEF StartJobAttempt, MovedTo, StoreInv, TypeOK
  <2>2. attemptNo[j] <= Retries[j] + faults
    BY <2>1 DEF AttemptsAreCounted, InAttempt, Terminal
  <2> QED BY <1>0, <1>1, <2>1, <2>2 DEF InAttempt
<1>2. ASSUME NEW j \in Jobs, attemptNo'[j] = attemptNo[j] PROVE Goal(j)
  <2>1. attemptNo'[j] <= Retries[j] + 1 + faults'
    BY <1>0, <1>2 DEF AttemptsAreCounted
  <2>2. ASSUME jobStatus'[j] \notin Terminal, jobStatus[j] \notin Terminal
        PROVE  attemptNo'[j] <= Retries[j] + faults' \/ (InAttempt' /\ j = Job')
    <3>1. CASE attemptNo[j] <= Retries[j] + faults
      BY <1>0, <1>2, <3>1
    <3>2. CASE InAttempt /\ j = Job
      <4>1. CASE faults' = faults + 1
        BY <1>0, <1>2, <4>1 DEF AttemptsAreCounted
      <4> QED BY <2>2, <3>2, <4>1, AttemptGoesOn
    <3> QED BY <2>2, <3>1, <3>2 DEF AttemptsAreCounted
  <2>3. ASSUME jobStatus'[j] \notin Terminal, jobStatus[j] \in Terminal
        PROVE  attemptNo'[j] <= Retries[j] + faults'
    <3>1. CASE RetryJob /\ j = Job
      <4>1. attemptNo[j] <= Retries[j]
        BY <3>1, RetryMoves DEF PassedJobsAreOver
      <4> QED BY <1>0, <1>2, <4>1
    <3> QED BY <2>3, <3>1, JobChanges, CloseJobMoves DEF JobChange, Terminal, Absent
  <2> QED BY <2>1, <2>2, <2>3
<1>3. ASSUME NEW j \in Jobs PROVE Goal(j)
  <2>1. CASE attemptNo'[j] = attemptNo[j]
    BY <1>2, <2>1
  <2>2. CASE attemptNo'[j] # attemptNo[j]
    <3>1. AtJobStep /\ BeginAttempt
      BY <2>2, AttemptNumbers
    <3>2. j = Job
      BY <2>2, <3>1, AtJobFrame DEF OthersLeft
    <3> QED BY <1>1, <3>1, <3>2
  <2> QED BY <2>1, <2>2
<1> QED BY <1>3 DEF AttemptsAreCounted

-----------------------------------------------------------------------------
(* The start of a job *)

\* What a job needs is met in the tables at the time it starts.
LEMMA StartsAfterNeeds ==
    ASSUME StoreInv, WorkerShape, RunIsHeld, NotesAreTrue, LeaveIsGiven, NeedsAreMet, Next,
           NEW j \in Jobs \ Always, jobStatus[j] # "running", jobStatus'[j] = "running",
           NEW d \in Needs[j]
    PROVE  \/ jobStatus[d] = "succeeded"
           \/ jobStatus[d] = "failed" /\ MayFail(d)
           \/ jobStatus[d] = "manual" /\ Manual[d] = "optional"
<1>1. StartJob /\ j = Job
  BY JobChanges, CloseJobMoves DEF JobChange
<1>2. AtJob /\ p.pc = "start" /\ Held
  BY <1>1, StartMoves, JobIsThere DEF Held
<1>3. d \in Jobs
  BY ShapeAssumption
<1>4. DependencyMet(d)
  BY <1>1, <1>2 DEF NeedsAreMet, Attempting
<1>5. p.seen[d] = jobStatus[d] /\ (p.seen[d] = "manual" => Manual[d] = "optional")
  BY <1>2, <1>3, <1>4 DEF NotesAreTrue, DependencyMet
<1> QED BY <1>4, <1>5 DEF DependencyMet, LeaveIsGiven

-----------------------------------------------------------------------------
(* The invariant *)

\* A fresh service with empty tables satisfies the invariant.
LEMMA ManagerInit == ASSUME Init PROVE ManagerInv
<1> USE DEF Init
<1>1. StoreInv
  BY StoreInvInit
<1>2. PICK w \in Workers : p = Idle("recover", w)
  OBVIOUS
<1>3. /\ p \in Locals /\ p.pc = "recover" /\ p.me = w /\ p.run = None /\ p.pos = 0
      /\ p.closing = "none" /\ p.tolerated = {} /\ \A j \in Jobs : p.seen[j] = "none"
  <2> DEFINE Seen == [j \in Jobs |-> "none"]
  <2>1. Seen \in Notes /\ "none" \in Outcome /\ "none" \in Caller /\ {} \in Waits
        /\ {} \in JobSet /\ {} \in StepSet /\ {} \in Positions /\ "recover" \in Places
    BY DEF Notes, Outcome, Caller, Waits, JobSet, StepSet, Positions, Places, Outside
  <2>2. \A j \in Jobs : Seen[j] = "none" OBVIOUS
  <2>3. w \in SomeWorker /\ None \in SomeRun
    BY DEF SomeWorker, SomeRun
  <2>4. p = [pc |-> "recover", me |-> w, run |-> None, waits |-> {}, pos |-> 0, seen |-> Seen,
             tolerated |-> {}, loaded |-> {}, spos |-> 0, failed |-> FALSE, skips |-> {},
             closing |-> "none", after |-> "none", broken |-> FALSE]
    BY <1>2 DEF Idle
  <2> HIDE DEF Seen
  <2>5. p \in Locals
    BY <2>1, <2>3, <2>4 DEF Locals
  <2> QED BY <2>2, <2>4, <2>5
<1>4. ~Held /\ ~Preparing /\ ~Attempting /\ ~Cancelling /\ ~Aborting
  BY <1>3 DEF Held, Preparing, Attempting, Cancelling, Aborting
<1>5. WorkerShape
  BY <1>3, <1>4, NoneAssumption DEF WorkerShape, Outside
<1>6. DeployTypeOK
  <2>1. gate \in [Gated -> {"open", "closed", "refused"}]
    OBVIOUS
  <2>2. MaxFaults \in Nat
    BY ShapeAssumption
  <2>3. faults \in 0..MaxFaults
    BY <2>2
  <2> QED BY <2>1, <2>3 DEF DeployTypeOK
<1>7. /\ \A r \in Runs : runStatus[r] = Absent
      /\ \A j \in Jobs : /\ jobStatus[j] = Absent /\ manualState[j] = "none" /\ attemptNo[j] = 0
      /\ \A s \in Steps : stepStatus[s] = Absent
  BY DEF StoreInit
<1>8. RunIsHeld /\ EnvironmentIsHeld /\ NotesAreTrue /\ PassedJobsAreOver /\ NeedsAreMet
  BY <1>3, <1>4
  DEF RunIsHeld, EnvironmentIsHeld, NotesAreTrue, PassedJobsAreOver, NeedsAreMet
<1>9. OnlyCurrentRuns /\ DecidedRunsAreOver /\ ManualJobsWait
  BY <1>4, <1>7, RowKeys DEF OnlyCurrentRuns, DecidedRunsAreOver, ManualJobsWait, Absent, Terminal
<1>10. LeaveIsGiven /\ FailuresMayBe /\ SuccessIsEarned /\ CancelledForAReason
  BY <1>3, <1>4, <1>7, RowKeys
  DEF LeaveIsGiven, FailuresMayBe, SuccessIsEarned, CancelledForAReason, Absent
<1>11. StepsInOrder
  <2>1. \A j \in Jobs : \A i \in 1..Len(StepSeq[j]) : stepStatus[StepSeq[j][i]] = Absent
    BY <1>7, Lists
  <2> QED BY <1>3, <2>1 DEF StepsInOrder, StepsRunInOrder, Absent
<1>12. AttemptsAreCounted
  <2>1. Retries \in [Jobs -> 0..2]
    BY ShapeAssumption
  <2>2. \A j \in Jobs : Retries[j] \in Nat
    BY <2>1
  <2> QED BY <1>7, <2>2 DEF AttemptsAreCounted
<1> QED BY <1>1, <1>5, <1>6, <1>8, <1>9, <1>10, <1>11, <1>12 DEF ManagerInv

\* A step that changes nothing
LEMMA ManagerStutter == ASSUME ManagerInv, UNCHANGED vars PROVE ManagerInv'
<1> USE DEF ManagerInv, vars
<1>1. UNCHANGED storeVars /\ UNCHANGED <<p, gate, envLease, envOverdue, faults>>
  BY DEF deployVars
<1>2. /\ UNCHANGED <<runVars, jobStatus, stepStatus, leaseVars, waitReason, manualVars, attemptVars>>
      /\ UNCHANGED <<cancelRequested, played, attemptNo>>
  BY <1>1 DEF storeVars
<1>3. UNCHANGED <<Held, Preparing, Attempting, Working, MainPass, Cancelling, Aborting, InAttempt>>
  BY <1>1 DEF Held, Preparing, Attempting, Working, MainPass, Cancelling, Aborting, InAttempt
<1>4. Job' = Job /\ Step' = Step
  BY <1>1 DEF Job, Step
<1>5. StoreInv'
  BY <1>2 DEF StoreInv, TypeOK, GraphExistsWithRun, WaitingRunHasOneWaker, WaitRowsMatchJobs,
     RunningRunIsClaimed, Parked, RunOfStep
<1>6. WorkerShape' /\ DeployTypeOK' /\ RunIsHeld' /\ EnvironmentIsHeld'
  BY <1>1, <1>2, <1>3, <1>4 DEF WorkerShape, DeployTypeOK, RunIsHeld, EnvironmentIsHeld
<1>7. OnlyCurrentRuns' /\ NotesAreTrue'
  BY <1>1, <1>2, <1>3, <1>4 DEF OnlyCurrentRuns, NotesAreTrue, RunOfStep
<1>8. PassedJobsAreOver' /\ DecidedRunsAreOver' /\ ManualJobsWait'
  BY <1>1, <1>2, <1>3, <1>4 DEF PassedJobsAreOver, DecidedRunsAreOver, ManualJobsWait, AwaitsPlay
<1>9. LeaveIsGiven' /\ FailuresMayBe' /\ SuccessIsEarned'
  BY <1>1, <1>2, <1>3, <1>4 DEF LeaveIsGiven, FailuresMayBe, SuccessIsEarned, Good, MayFail
<1>10. CancelledForAReason' /\ StepsInOrder' /\ AttemptsAreCounted' /\ NeedsAreMet'
  BY <1>1, <1>2, <1>3, <1>4
  DEF CancelledForAReason, EndsCancelled, MayCancel, MayTimeOut, StepsInOrder, StepsRunInOrder,
      AttemptsAreCounted, NeedsAreMet, DependencyMet
<1> QED BY <1>5, <1>6, <1>7, <1>8, <1>9, <1>10

\* No step of the service, of its operators or of time breaks the invariant.
LEMMA ManagerNext == ASSUME ManagerInv, Next PROVE ManagerInv'
BY StoreInvStep, ShapeStep, DeployTypeStep, HeldStep, EnvironmentStep, CurrentStep, NotesStep,
   PassedStep, DecidedStep, ManualStep, LeaveStep, FailuresStep, SuccessStep, CancelledStep,
   OrderStep, AttemptsStep, NeedsStep
DEF ManagerInv

\* The invariant holds of the worker, over every schedule, crash and request.
THEOREM ManagerInvariant == Spec => []ManagerInv
<1>1. Init => ManagerInv
  BY ManagerInit
<1>2. ManagerInv /\ [Next]_vars => ManagerInv'
  BY ManagerNext, ManagerStutter
<1> QED BY <1>1, <1>2, PTL DEF Spec

-----------------------------------------------------------------------------
(* The theorems *)

\* The local variables of the worker goroutine stay in range at every place of
\* the code, so no list of jobs or steps is ever indexed outside its bounds.
THEOREM WorkerTypeCorrect == Spec => []WorkerTypeOK
<1>1. ASSUME ManagerInv PROVE WorkerTypeOK
  <2> USE <1>1 DEF ManagerInv
  <2>1. /\ p.pc \in Places /\ p.me \in Workers \cup {None} /\ p.run \in Runs \cup {None}
        /\ p.pos \in Nat /\ (At("down") <=> p.me = None)
    BY LocalTypes DEF WorkerShape, At
  <2>2. ASSUME AtJob PROVE p.pos \in 0..(Len(JobSeq[p.run]) + 1) /\ MoreJobs
    <3>1. p.pos \in 1..Len(JobSeq[p.run]) /\ Len(JobSeq[p.run]) \in Nat
      BY <2>2, JobIsThere, Lists
    <3> QED BY <3>1 DEF MoreJobs
  <2>3. ASSUME Executing PROVE p.pos \in 0..(Len(JobSeq[p.run]) + 1)
    <3>1. p.run \in Runs /\ Len(JobSeq[p.run]) \in Nat /\ p.pc \notin Outside
      BY <2>1, <2>3, Lists DEF Executing, WorkerShape
    <3>2. CASE p.pc = "load"
      BY <3>1, <3>2 DEF WorkerShape
    <3>3. CASE p.pc \in {"job", "cancelRest", "abort"}
      BY <3>1, <3>3 DEF WorkerShape
    <3>4. CASE AtJob
      BY <2>2, <3>4
    <3> QED BY <2>1, <2>3, <3>1, <3>2, <3>3, <3>4
            DEF Executing, Places, AtJob, Preparing, Attempting
  <2>4. p.pc \in {"check", "prepare", "acquire", "awaitGate", "awaitEnvironment", "attempt",
                  "start", "step", "run", "attemptEnd", "reset", "leave", "close"} => MoreJobs
    BY <2>2 DEF AtJob, Preparing, Attempting
  <2> QED BY <2>1, <2>3, <2>4 DEF WorkerTypeOK, DeployTypeOK, Places, Outside
<1> QED BY <1>1, ManagerInvariant, PTL

\* Nobody takes the run or the environment from under a worker that executes:
\* recovery, cancellation, plays, expired leases and other workers included.
THEOREM ClaimsAreAlwaysHonoured == Spec => []ClaimsAreHonoured
<1>1. ASSUME ManagerInv PROVE ClaimsAreHonoured
  BY <1>1 DEF ManagerInv, ClaimsAreHonoured, ExecutorHoldsRun, Executing, RunIsHeld, Held,
     DeploysOnlyWithLease, EnvironmentIsHeld, Attempting, At
<1> QED BY <1>1, ManagerInvariant, PTL

\* No job or command goes on outside a running run, and no decided run leaves
\* work behind.
THEOREM NoWorkIsLeftBehind == Spec => []NoWorkOutsideRunningRun
<1>1. ASSUME ManagerInv PROVE NoWorkOutsideRunningRun
  BY <1>1 DEF ManagerInv, NoWorkOutsideRunningRun, OnlyCurrentRuns, DecidedRunsAreOver
<1> QED BY <1>1, ManagerInvariant, PTL

\* A run is reported as succeeded only where its jobs and their steps are what
\* its definition accepts.
THEOREM SuccessIsAlwaysHonest == Spec => []SucceededRunIsHonest
<1>1. ASSUME ManagerInv PROVE SucceededRunIsHonest
  BY <1>1 DEF ManagerInv, SucceededRunIsHonest, CancelledForAReason, MayTimeOut, FailuresMayBe,
     SuccessIsEarned, Good, StepsOf
<1> QED BY <1>1, ManagerInvariant, PTL

\* Steps run in their order, and attempts beyond the policy have a fault each.
THEOREM CommandsAreAlwaysOrderly == Spec => []CommandsAreOrderly
<1>1. ASSUME ManagerInv PROVE CommandsAreOrderly
  BY <1>1 DEF ManagerInv, CommandsAreOrderly, StepsInOrder, AttemptsAreCounted, AttemptsWithinPolicy
<1> QED BY <1>1, ManagerInvariant, PTL

\* The promises of the worker together.
THEOREM ManagerIsSafe == Spec => []ManagerSafety
<1>1. ClaimsAreHonoured /\ NoWorkOutsideRunningRun /\ SucceededRunIsHonest /\ CommandsAreOrderly
      => ManagerSafety
  BY DEF ManagerSafety
<1> QED BY <1>1, ClaimsAreAlwaysHonoured, NoWorkIsLeftBehind, SuccessIsAlwaysHonest,
           CommandsAreAlwaysOrderly, PTL

\* The worker, its operators, its crashes and its failing calls use the store
\* only as the store's own specification allows: all of its theorems hold here.
THEOREM WorkerImplementsStore == Spec => UsesStoreAsSpecified
<1>1. Init => StoreInit
  BY DEF Init
<1>2. ManagerInv /\ [Next]_vars => [StoreNext]_storeVars
  <2>1. ManagerInv /\ Next => [StoreNext]_storeVars
    BY StoreRefinement DEF ManagerInv
  <2>2. UNCHANGED vars => UNCHANGED storeVars
    BY DEF vars
  <2> QED BY <2>1, <2>2
<1> QED BY <1>1, <1>2, ManagerInvariant, PTL DEF Spec, UsesStoreAsSpecified, StoreSpec

\* A job starts only over needs that are met, however often the run was parked,
\* requeued, retried or recovered in between.
THEOREM JobsAlwaysStartAfterNeeds == Spec => JobsStartAfterNeeds
<1> DEFINE Met == \A j \in Jobs \ Always :
                    jobStatus[j] # "running" /\ jobStatus'[j] = "running" =>
                      \A d \in Needs[j] :
                         \/ jobStatus[d] = "succeeded"
                         \/ jobStatus[d] = "failed" /\ MayFail(d)
                         \/ jobStatus[d] = "manual" /\ Manual[d] = "optional"
<1>1. ManagerInv /\ [Next]_vars => [Met]_vars
  <2>1. ManagerInv /\ Next => Met
    BY StartsAfterNeeds DEF ManagerInv
  <2> QED BY <2>1
<1> QED BY <1>1, ManagerInvariant, PTL DEF Spec, JobsStartAfterNeeds
=============================================================================
