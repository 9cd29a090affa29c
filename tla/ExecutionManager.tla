-------------------------- MODULE ExecutionManager --------------------------
(***************************************************************************)
(* The execution worker of the service (internal/execution/manager.go and  *)
(* retry.go) on top of the store tables: it claims queued runs, executes   *)
(* their jobs one after the other, parks them on gates and manual jobs,    *)
(* retries, cancels, and recovers what an earlier process left behind.     *)
(*                                                                         *)
(* There is one worker goroutine per service process and one live process  *)
(* per state directory (docs/SERVICE.md).  Every store call is a step of   *)
(* its own, so API transactions, a crash or a failing store call may come  *)
(* between any two of them.  All deployment jobs target one environment.   *)
(*                                                                         *)
(* A definition marked "Mutant" is a bug that could have been made in the  *)
(* next one; no specification uses it (README, section Mutants).           *)
(***************************************************************************)
EXTENDS RunStore, SequencesExt

CONSTANTS
    JobSeq,        \* jobs of a run in graph order
    StepSeq,       \* steps of a job in graph order
    Needs,         \* jobs.dependency_keys
    Always,        \* jobs and steps whose condition holds after a failure too
    Manual,        \* "no", "blocking" or "optional" (rules and when: manual)
    AllowFailure,  \* jobs with jobs.allow_failure, steps with steps.allow_failure
    RuleAllow,     \* jobs whose matching rule allows failure
    Gated,         \* jobs with a deployment target, all in one environment
    Containers,    \* jobs that need a container runtime
    Publishers,    \* jobs that save caches or artifacts
    Timed,         \* jobs with a timeout
    Retries,       \* boundedRetryCount of the job's retry policy
    Cancellable,   \* bound: runs an operator may cancel
    MaxFaults      \* bound: process crashes and failing store calls

ASSUME ShapeAssumption ==
    /\ None \notin Runs
    /\ \A r \in Runs : /\ JobSeq[r] \in Seq(Jobs) /\ IsInjective(JobSeq[r])
                      /\ ToSet(JobSeq[r]) = JobsOf(r)
    /\ \A j \in Jobs : /\ StepSeq[j] \in Seq(Steps) /\ IsInjective(StepSeq[j])
                      /\ ToSet(StepSeq[j]) = StepsOf(j)
    /\ Needs \in [Jobs -> SUBSET Jobs]
    /\ Manual \in [Jobs -> {"no", "blocking", "optional"}]
    /\ Gated \subseteq Jobs /\ Cancellable \subseteq Runs
    /\ Retries \in [Jobs -> 0..2]
    /\ MaxFaults \in Nat

VARIABLES
    p,          \* the worker goroutine: program counter and local variables
    gate,       \* EvaluateEnvironmentAccess: "open", "closed" for now, "refused"
    envLease,   \* environment_leases row: <<job, owner>>; <<>> when there is none
    envOverdue, \* its expires_at passed
    faults

deployVars == <<gate, envLease, envOverdue>>
vars == <<storeVars, p, deployVars, faults>>

Idle(pc, w) ==
    [pc |-> pc, me |-> w, run |-> None,
     waits  |-> {},                          \* ListJobWaits snapshot
     pos    |-> 0,                           \* index of the current job
     seen   |-> [j \in Jobs |-> "none"],     \* statuses
     tolerated |-> {},                       \* allowedFailure
     loaded |-> {},                          \* steps queued in the loaded graph
     spos   |-> 0, failed |-> FALSE,         \* index of the step, jobFailed
     skips  |-> {}, closing |-> "none", after |-> "none",
     broken |-> FALSE]                       \* err # nil

Init ==
    /\ StoreInit
    /\ gate = [j \in Gated |-> "closed"]   \* unprotected: DecideGate opens it at once
    /\ envLease = <<>> /\ envOverdue = FALSE
    /\ faults = 0
    /\ \E w \in Workers : p = Idle("recover", w)

Job   == JobSeq[p.run][p.pos]
Step  == StepSeq[Job][p.spos]
At(pc)   == p.pc = pc
Goto(pc) == p' = [p EXCEPT !.pc = pc]
\* On to the next job: the local variables of executeJob go out of scope.
NextJob(pc) == [p EXCEPT !.pc = pc, !.pos = @ + 1, !.spos = 0, !.failed = FALSE,
                         !.closing = "none", !.after = "none"]
Note(pc, status) == [NextJob(pc) EXCEPT !.seen[Job] = status]
MoreJobs   == p.pos <= Len(JobSeq[p.run])
MoreSteps  == p.spos <= Len(StepSeq[Job])
Quiet      == UNCHANGED storeVars

\* executeRun returns nil or err; executeJob returns err.
\* Mutant: the deferred release does not know its worker any more.
ReturnAnonymous == p' = [Idle("release", None) EXCEPT !.run = p.run]
Return   == p' = [Idle("release", p.me) EXCEPT !.run = p.run]
Abandon  == p' = [Idle("release", p.me) EXCEPT !.run = p.run, !.broken = TRUE]
FailJob  == p' = [p EXCEPT !.pc = "attemptError", !.broken = TRUE]

-----------------------------------------------------------------------------
(* ProcessNext: recover, resume, claim *)

\* Mutant: nobody looks for lost claims.
RecoverNever == At("recover") /\ Goto("list") /\ Quiet

Recover ==
    /\ At("recover")
    /\ \/ RecoverExpiredRunWorkers
       \/ (\A r \in Runs : ~Expired(r)) /\ Quiet
    /\ Goto("list")

ListJobWaits ==
    /\ At("list")
    /\ p' = [p EXCEPT !.pc = "resume",
                      !.waits = {<<j, waitReason[j]>> :
                                   j \in {k \in Jobs : waitReason[k] # "none"}}]
    /\ Quiet

Awake(wait) == gate[wait[1]] # "closed" \/ wait[2] = "concurrency"

\* A wait whose job is not waiting any more is an error, and the service stops.
ResumeWaitingJobs ==
    /\ At("resume")
    /\ \/ p.waits = {} /\ Goto("claim") /\ Quiet
       \/ \E wait \in p.waits :
            \/ /\ Awake(wait) /\ ResumeJob(wait[1])
               /\ p' = [p EXCEPT !.waits = @ \ {wait}]
            \/ /\ Awake(wait) /\ jobStatus[wait[1]] # "waiting"
               /\ p' = Idle("down", None) /\ Quiet
            \/ /\ ~Awake(wait)
               /\ p' = [p EXCEPT !.waits = @ \ {wait}] /\ Quiet

Claim ==
    /\ At("claim")
    /\ \/ /\ ClaimNextQueuedRun(p.me)
          /\ \E r \in Runs :
               /\ runStatus'[r] # runStatus[r]
               /\ p' = [p EXCEPT !.pc = "lease", !.run = r]
       \/ (\A r \in Runs : ~Claimable(r)) /\ Goto("recover") /\ Quiet

\* Mutant: the first heartbeat is left to the ticker.
EstablishLeaseLater == At("lease") /\ Goto("load") /\ Quiet

EstablishLease ==
    /\ At("lease")
    /\ \/ HeartbeatRunWorker(p.run, p.me) /\ Goto("load")
       \/ leaseOwner[p.run] \notin {None, p.me} /\ p' = Idle("down", None) /\ Quiet

\* The renewing goroutine of the run's lease
Heartbeat ==
    /\ p.run # None /\ p.pc \notin {"lease", "release"}
    /\ HeartbeatRunWorker(p.run, p.me)
    /\ UNCHANGED <<p, deployVars, faults>>

\* Mutant: the claim goes with the lease.
ReleaseUnclaim ==
    /\ At("release")
    /\ leaseOwner' = [leaseOwner EXCEPT ![p.run] = None]
    /\ claimedBy' = [claimedBy EXCEPT ![p.run] = None]
    /\ p' = IF p.broken THEN Idle("down", None) ELSE Idle("recover", p.me)
    /\ UNCHANGED <<arrivals, runStatus, cancelRequested, jobStatus, stepStatus, overdue,
                   waitReason, manualVars, attemptVars>>

Release ==
    /\ At("release")
    /\ ReleaseRunWorker(p.run, p.me)
    /\ p' = IF p.broken THEN Idle("down", None) ELSE Idle("recover", p.me)

-----------------------------------------------------------------------------
(* executeRun *)

PersistedAllow(j) ==
    IF manualState[j] # "none" THEN manualState[j] = "optional" ELSE j \in AllowFailure

\* Workspace and secrets are ready, or every job is skipped and the run fails.
LoadRun ==
    /\ At("load")
    /\ \E pc \in {"job", "abort"} :
         p' = [p EXCEPT !.pc = pc, !.pos = 1,
                        !.tolerated = {j \in JobsOf(p.run) : PersistedAllow(j)},
                        !.loaded = {s \in Steps : stepStatus[s] = "queued"}]
    /\ Quiet

\* Skip the pending steps (by position), set the job's status, go on at pc `after`.
Close(first, status, after) ==
    [p EXCEPT !.pc = "close", !.closing = status, !.after = after,
              !.skips = {i \in first..Len(StepSeq[Job]) : StepSeq[Job][i] \in p.loaded}]

\* Mutant: a dependency is met when it is over.
DependencyOver(d) == p.seen[d] \in Terminal \cup {"manual"}
DependencyMet(d) ==
    \/ p.seen[d] = "succeeded"
    \/ p.seen[d] \in {"failed", "manual"} /\ d \in p.tolerated
Runnable(j) == j \in Always \/ \A d \in Needs[j] : DependencyMet(d)

\* Mutant: leave to fail is never taken back.
TolerateAlways(j, allowed) == p.tolerated \cup {j}
Tolerate(j, allowed) == IF allowed THEN p.tolerated \cup {j} ELSE p.tolerated \ {j}

PassFinishedJob ==
    /\ At("job") /\ MoreJobs
    /\ jobStatus[Job] \in Terminal
    /\ p' = Note("job", jobStatus[Job]) /\ Quiet

SkipJob ==
    /\ At("job") /\ MoreJobs
    /\ jobStatus[Job] \notin Terminal
    /\ ~Runnable(Job)
    /\ p' = Close(1, "skipped", "job") /\ Quiet

\* Mutant: plays are not looked up.
AwaitsPlayForever(j) == Manual[j] # "no"
AwaitsPlay(j) == Manual[j] # "no" /\ j \notin played

MeetManualJob ==
    /\ At("job") /\ MoreJobs
    /\ jobStatus[Job] \notin Terminal
    /\ Runnable(Job) /\ AwaitsPlay(Job)
    /\ \/ jobStatus[Job] = "manual" /\ Quiet
       \/ PauseManualJob(Job, Manual[Job] = "blocking")
    /\ \/ Manual[Job] = "blocking" /\ Return
       \/ /\ Manual[Job] = "optional"
          /\ p' = [Note("job", "manual") EXCEPT !.tolerated = Tolerate(Job, TRUE)]

\* The decision's AllowFailure: of the manual job played, or static or by rule.
DecisionAllows(j) == PersistedAllow(j) \/ (Manual[j] = "no" /\ j \in RuleAllow)

ChooseJob ==
    /\ At("job") /\ MoreJobs
    /\ jobStatus[Job] \notin Terminal
    /\ Runnable(Job) /\ ~AwaitsPlay(Job)
    /\ p' = [p EXCEPT !.pc = "check",
                      !.tolerated = Tolerate(Job, DecisionAllows(Job))]
    /\ Quiet

CheckCancelled ==
    /\ At("check")
    /\ \/ cancelRequested[p.run] /\ p' = [p EXCEPT !.pc = "cancelRest", !.pos = 1]
       \/ ~cancelRequested[p.run] /\ Goto("prepare")
    /\ Quiet

\* Mutant: deployment jobs are prepared like any other job.
PrepareUngated == At("prepare") /\ Goto("attempt") /\ Quiet

\* prepareDeploymentJob: fail on a refused gate, wait for a closed one
Prepare ==
    /\ At("prepare")
    /\ \/ Job \notin Gated /\ Goto("attempt")
       \/ Job \in Gated /\ gate[Job] = "open" /\ Goto("acquire")
       \/ Job \in Gated /\ gate[Job] = "closed" /\ Goto("awaitGate")
       \/ Job \in Gated /\ gate[Job] = "refused" /\ p' = Close(1, "failed", "job")
    /\ Quiet

\* Take the environment, or wait for its holder.
AcquireEnvironment ==
    /\ At("acquire")
    /\ IF envOverdue \/ envLease \in {<<>>, <<Job, p.me>>}
         THEN envLease' = <<Job, p.me>> /\ envOverdue' = FALSE /\ Goto("attempt")
         ELSE Goto("awaitEnvironment") /\ UNCHANGED <<envLease, envOverdue>>
    /\ Quiet /\ UNCHANGED gate

Park ==
    /\ \/ At("awaitGate") /\ PauseJob(Job, "gate")
       \/ At("awaitEnvironment") /\ PauseJob(Job, "concurrency")
    /\ Return

FinishRun ==
    /\ At("job") /\ ~MoreJobs
    /\ TransitionRun(p.run,
         IF \E j \in JobsOf(p.run) : p.seen[j] = "failed" /\ j \notin p.tolerated
           THEN "failed" ELSE "succeeded")
    /\ Return

-----------------------------------------------------------------------------
(* skipJob, failJobSetup, cancelRemaining: closing jobs that do not run *)

SkipStep ==
    /\ At("close")
    /\ \E i \in p.skips :
         /\ \A k \in p.skips : i <= k
         /\ TransitionStep(StepSeq[Job][i], "skipped")
         /\ p' = [p EXCEPT !.skips = @ \ {i}]

CloseJob ==
    /\ At("close") /\ p.skips = {}
    /\ TransitionJob(Job, p.closing)
    /\ \/ p.after = "attemptEnd" /\ Goto("attemptEnd")
       \/ p.after = "job" /\ p' = Note("job", p.closing)
       \/ p.after \in {"cancelRest", "abort"} /\ p' = NextJob(p.after)

\* Mutant: the run is cancelled before its jobs.
CancelAtOnce == At("cancelRest") /\ TransitionRun(p.run, "cancelled") /\ Return

CancelRemaining ==
    /\ At("cancelRest")
    /\ \/ /\ MoreJobs
          /\ IF p.seen[Job] = "none" /\ jobStatus[Job] = "queued"
               THEN p' = Close(1, "cancelled", "cancelRest")
               ELSE p' = NextJob("cancelRest")
          /\ Quiet
       \/ ~MoreJobs /\ TransitionRun(p.run, "cancelled") /\ Return

\* Mutant: the run is failed before its jobs.
AbortAtOnce == At("abort") /\ TransitionRun(p.run, "failed") /\ Return

AbortRun ==
    /\ At("abort")
    /\ \/ /\ MoreJobs
          /\ IF jobStatus[Job] \in Terminal
               THEN p' = NextJob("abort")
               ELSE p' = Close(1, "skipped", "abort")
          /\ Quiet
       \/ ~MoreJobs /\ TransitionRun(p.run, "failed") /\ Return

-----------------------------------------------------------------------------
(* executeJobWithRetry and executeJob *)

BeginAttempt ==
    /\ At("attempt")
    /\ StartJobAttempt(Job)
    /\ Goto("start")

\* Mutant: a job starts with its last step.
StartJobAtLastStep ==
    /\ At("start")
    /\ TransitionJob(Job, "running")
    /\ p' = [p EXCEPT !.pc = "step", !.spos = Len(StepSeq[Job]), !.failed = FALSE]

StartJob ==
    /\ At("start")
    /\ TransitionJob(Job, "running")
    /\ p' \in {[p EXCEPT !.pc = "step", !.spos = 1, !.failed = FALSE]}
              \cup (IF Job \in Containers THEN {[p EXCEPT !.pc = "setupFailed"]} ELSE {})

\* failJobSetup; its store calls fail on a job recovered with finished steps
FailSetup ==
    /\ At("setupFailed")
    /\ LET steps == StepSeq[Job] IN
       \/ steps = <<>> /\ p' = Close(1, "failed", "attemptEnd") /\ Quiet
       \/ /\ steps # <<>>
          /\ \/ /\ TransitionStep(Head(steps), "failed")
                /\ p' = Close(2, "failed", "attemptEnd")
             \/ ~CanTransition(stepStatus[Head(steps)], "failed") /\ FailJob /\ Quiet

CloseCancelled ==
    /\ TransitionStep(Step, "cancelled")
    /\ p' = Close(p.spos + 1, "cancelled", "attemptEnd")

\* A cancelled run, or a deadline that passes right behind isCancelled, cancels
\* the job; a deadline that passes before makes isCancelled itself fail.
StopBeforeStep ==
    /\ At("step") /\ MoreSteps
    /\ \/ cancelRequested[p.run] /\ CloseCancelled
       \/ Job \in Timed /\ CloseCancelled
       \/ Job \in Timed /\ FailJob /\ Quiet

NextStep ==
    /\ At("step") /\ MoreSteps
    /\ ~cancelRequested[p.run]
    /\ \/ /\ ~p.failed \/ Step \in Always
          /\ TransitionStep(Step, "running")
          /\ Goto("run")
       \/ /\ p.failed /\ Step \notin Always
          /\ TransitionStep(Step, "skipped")
          /\ p' = [p EXCEPT !.spos = @ + 1]

\* The next transition is refused: the step was finished by an earlier process.
StepRefused ==
    /\ At("step") /\ MoreSteps
    /\ stepStatus[Step] \in Terminal
    /\ FailJob /\ Quiet

\* The command of the step ends, by itself, by the deadline or by cancellation.
FinishStep ==
    /\ At("run")
    /\ \/ /\ TransitionStep(Step, "succeeded")
          /\ p' = [p EXCEPT !.pc = "step", !.spos = @ + 1]
       \/ cancelRequested[p.run] /\ CloseCancelled
       \/ /\ ~cancelRequested[p.run]
          /\ TransitionStep(Step, "failed")
          /\ p' = [p EXCEPT !.pc = "step", !.spos = @ + 1,
                            !.failed = @ \/ Step \notin AllowFailure]

\* Saving caches and artifacts may still fail a job whose steps succeeded.
FinishJob ==
    /\ At("step") /\ ~MoreSteps
    /\ \E status \in {"succeeded", "failed"} :
         /\ p.failed => status = "failed"
         /\ status = "failed" => p.failed \/ Job \in Publishers
         /\ TransitionJob(Job, status)
         /\ p' = [p EXCEPT !.pc = "attemptEnd", !.closing = status]

\* status == "": the job is marked failed, and an error of doing so ignored
AttemptFailed  == p' = [p EXCEPT !.pc = "attemptEnd", !.closing = "failed"]
RecordJobError == At("attemptError") /\ TransitionJob(Job, "failed") /\ AttemptFailed

\* Mutant: the retries are counted from the second attempt.
MayRetryOnceMore == p.closing = "failed" /\ attemptNo[Job] <= Retries[Job] + 1
\* The failure kind and exit code decide whether the policy matches.
MayRetry == p.closing = "failed" /\ attemptNo[Job] <= Retries[Job]

EndAttempt ==
    /\ At("attemptEnd")
    /\ \/ MayRetry /\ FinishJobAttempt(Job, TRUE) /\ Goto("reset")
       \/ FinishJobAttempt(Job, FALSE) /\ Goto("leave")

\* Back in executeRun: give the environment back, whatever the outcome; not to
\* have it any more is an error.
LeaveJob ==
    LET mine == envLease = <<Job, p.me>>
        err  == p.broken \/ (Job \in Gated /\ ~mine)
    IN
    /\ At("leave")
    /\ IF mine THEN envLease' = <<>> /\ envOverdue' = FALSE
               ELSE UNCHANGED <<envLease, envOverdue>>
    /\ \/ err /\ Abandon
       \/ /\ ~err /\ p.closing = "cancelled"
          /\ p' = [Note("cancelRest", "cancelled") EXCEPT !.pos = 1]
       \/ /\ ~err /\ p.closing # "cancelled"
          /\ p' = Note("job", p.closing)
    /\ Quiet /\ UNCHANGED gate

\* A job that could not be marked failed is not reset.
RetryJob ==
    /\ At("reset")
    /\ \/ ResetJobForRetry(Job) /\ p' = [p EXCEPT !.pc = "attempt", !.broken = FALSE]
       \/ jobStatus[Job] # "failed" /\ p' = [p EXCEPT !.pc = "leave", !.broken = TRUE] /\ Quiet

-----------------------------------------------------------------------------
(* Faults and the whole system *)

InExecuteJob == \/ p.pc \in {"start", "setupFailed", "step", "run"}
                \/ (At("close") /\ p.after = "attemptEnd")
InRetryLoop  == p.pc \in {"attempt", "attemptEnd", "reset"}
InExecuteRun == \/ p.pc \in {"load", "job", "check", "prepare", "acquire", "awaitGate",
                              "awaitEnvironment", "cancelRest", "abort", "leave"}
                \/ (At("close") /\ p.after # "attemptEnd")

\* The renewing goroutine of the environment's lease
HeartbeatEnvironment ==
    /\ InExecuteJob \/ InRetryLoop \/ At("attemptError")
    /\ envLease = <<Job, p.me>> /\ envOverdue' = FALSE
    /\ Quiet /\ UNCHANGED <<p, gate, envLease, faults>>

\* A store call fails (SQLite error, context cancelled by a lost heartbeat).
StoreCallFails ==
    /\ faults < MaxFaults
    /\ faults' = faults + 1
    /\ \/ InExecuteJob /\ FailJob
       \/ At("attemptError") /\ AttemptFailed
       \/ InRetryLoop /\ p' = [p EXCEPT !.pc = "leave", !.broken = TRUE]
       \/ InExecuteRun /\ Abandon
    /\ Quiet /\ UNCHANGED deployVars

\* The process dies or is shut down: Service.Run does not wait for the worker.
Crash ==
    /\ faults < MaxFaults
    /\ ~At("down")
    /\ faults' = faults + 1
    /\ p' = Idle("down", None) /\ Quiet /\ UNCHANGED deployVars

\* The service manager starts a new process, with any process id.
Restart ==
    /\ At("down")
    /\ \E w \in Workers : p' = Idle("recover", w)
    /\ Quiet /\ UNCHANGED <<deployVars, faults>>

WorkerStep ==
    /\ \/ AcquireEnvironment \/ LeaveJob
       \/ /\ \/ Recover \/ ListJobWaits \/ ResumeWaitingJobs \/ Claim \/ EstablishLease
             \/ Release \/ LoadRun \/ PassFinishedJob \/ SkipJob \/ MeetManualJob \/ ChooseJob
             \/ CheckCancelled \/ Prepare \/ Park \/ FinishRun \/ SkipStep \/ CloseJob
             \/ CancelRemaining \/ AbortRun \/ BeginAttempt \/ StartJob \/ FailSetup
             \/ StopBeforeStep \/ NextStep \/ StepRefused \/ FinishStep \/ FinishJob
             \/ RecordJobError \/ EndAttempt \/ RetryJob
          /\ UNCHANGED deployVars
    /\ UNCHANGED faults

ApiCall ==
    /\ \/ \E r \in Runs : EnqueueRun(r)
       \/ \E r \in Cancellable : RequestRunCancellation(r)
       \/ \E j \in Jobs : PlayManualJob(j)
    /\ UNCHANGED <<p, deployVars, faults>>
Expire(r) == LeaseExpires(r) /\ UNCHANGED <<p, deployVars, faults>>

\* An approval is decided, or a wait timer ends.
DecideGate ==
    /\ \E j \in Gated, decision \in {"open", "refused"} :
         gate[j] = "closed" /\ gate' = [gate EXCEPT ![j] = decision]
    /\ Quiet /\ UNCHANGED <<p, envLease, envOverdue, faults>>

EnvLeaseExpires ==
    /\ envLease # <<>> /\ envOverdue' = TRUE
    /\ Quiet /\ UNCHANGED <<p, gate, envLease, faults>>

Next == \/ WorkerStep \/ Heartbeat \/ HeartbeatEnvironment \/ ApiCall \/ DecideGate
        \/ EnvLeaseExpires
        \/ \E r \in Runs : Expire(r)
        \/ StoreCallFails \/ Crash \/ Restart

Spec == Init /\ [][Next]_vars

\* A live worker keeps going, a stopped service is restarted
\* (deploy/git-ci.service), and clocks advance.  Operators owe nothing.
FairSpec == /\ Spec
            /\ WF_vars(WorkerStep) /\ WF_vars(Restart) /\ WF_vars(EnvLeaseExpires)
            /\ \A r \in Runs : WF_vars(Expire(r))

-----------------------------------------------------------------------------
(* Properties *)

Executing == p.run # None /\ p.pc \notin {"lease", "release"}

\* The worker's local variables stay in range and fit its program counter.
WorkerTypeOK ==
    /\ p.pc \in {"down", "recover", "list", "resume", "claim", "lease", "load", "job", "check",
                 "prepare", "acquire", "awaitGate", "awaitEnvironment", "attempt", "start",
                 "setupFailed", "step", "run", "attemptError", "attemptEnd", "reset", "leave",
                 "close", "cancelRest", "abort", "release"}
    /\ p.me \in Workers \cup {None} /\ (At("down") <=> p.me = None)
    /\ p.run \in Runs \cup {None}
    /\ Executing => p.pos \in 0..(Len(JobSeq[p.run]) + 1)
    /\ p.pc \in {"check", "prepare", "acquire", "awaitGate", "awaitEnvironment", "attempt",
                 "start", "step", "run", "attemptEnd", "reset", "leave", "close"} => MoreJobs
    /\ gate \in [Gated -> {"open", "closed", "refused"}]
    /\ envLease \in {<<>>} \cup (Gated \X Workers) /\ envOverdue \in BOOLEAN
    /\ faults \in 0..MaxFaults

\* While the worker executes a run, the run is running, claimed and leased by
\* this worker: no recovery pass, API call or stale lease of an earlier process
\* takes the run from under it (ProcessNext, RecoverExpiredRunWorkers).
ExecutorHoldsRun ==
    Executing => /\ runStatus[p.run] = "running"
                 /\ claimedBy[p.run] = p.me
                 /\ leaseOwner[p.run] = p.me

\* A running job or command belongs to a running run, and a decided run leaves
\* no job that could still be executed, whatever crashed, failed or was
\* cancelled on the way (executeRun, cancelRemaining, failInterruptedRun).
NoWorkOutsideRunningRun ==
    /\ \A j \in Jobs : jobStatus[j] = "running" => runStatus[RunOf[j]] = "running"
    /\ \A s \in Steps : stepStatus[s] = "running" => runStatus[RunOfStep(s)] = "running"
    /\ \A j \in Jobs : runStatus[RunOf[j]] \in Terminal =>
                          jobStatus[j] \notin {"queued", "running", "waiting"}

MayFail(j) == j \in AllowFailure \cup RuleAllow \/ Manual[j] = "optional"

\* A run reported as succeeded has only failed jobs that may fail, and each of
\* its succeeded jobs has run every step that it had to.  It has no cancelled
\* job either, except one: a deadline that passes right behind isCancelled
\* cancels the job, and after a crash before the run is marked cancelled too the
\* next worker takes the cancelled job for finished and the run for succeeded
\* (executeRun's result loop, persistedJobFailureAllowed after a restart).
SucceededRunIsHonest ==
    \A j \in Jobs : runStatus[RunOf[j]] = "succeeded" =>
        /\ jobStatus[j] = "cancelled" => \E k \in Timed : RunOf[k] = RunOf[j]
        /\ jobStatus[j] = "failed" => MayFail(j)
        /\ jobStatus[j] = "succeeded" => \A s \in StepsOf(j) :
              \/ stepStatus[s] = "succeeded"
              \/ stepStatus[s] = "failed" /\ s \in AllowFailure

\* A job is started only when what it needs has succeeded, failed with leave to
\* fail, or is an optional manual job, over all pauses, crashes and retries
\* (dependencyState, evaluateJobExecution).
JobsStartAfterNeeds ==
    [][\A j \in Jobs \ Always :
         jobStatus[j] # "running" /\ jobStatus'[j] = "running" =>
           \A d \in Needs[j] :
              \/ jobStatus[d] = "succeeded"
              \/ jobStatus[d] = "failed" /\ MayFail(d)
              \/ jobStatus[d] = "manual" /\ Manual[d] = "optional"
      ]_vars

\* "Gate protected environments, serialize delivery" (registry.go): a command of a
\* deployment job runs only with the gate open and the environment leased to that
\* very job and worker (prepareDeploymentJob, AcquireEnvironmentLease).
DeploysOnlyWithLease ==
    At("run") /\ Job \in Gated => gate[Job] = "open" /\ envLease = <<Job, p.me>>

\* The steps of a job run one after the other in their order, also when a job
\* is picked up again after a crash, a retry or a manual play (executeJob).
StepsRunInOrder ==
    \A j \in Jobs : \A i, k \in 1..Len(StepSeq[j]) :
        i < k /\ stepStatus[StepSeq[j][k]] \in {"running", "succeeded", "failed"} =>
            stepStatus[StepSeq[j][i]] \in Terminal

\* Automatic retries stay within the policy: an attempt beyond it is one that a
\* crash or failing store call made necessary (retryPolicyMatches).
AttemptsWithinPolicy ==
    \A j \in Jobs : attemptNo[j] <= Retries[j] + 1 + faults

\* What the worker works on is its own: the run, and the environment that it
\* deploys to.
ClaimsAreHonoured == ExecutorHoldsRun /\ DeploysOnlyWithLease

\* Commands follow each other in their order and only as often as the policy
\* and the faults explain.
CommandsAreOrderly == StepsRunInOrder /\ AttemptsWithinPolicy

\* The promises of the worker together.
ManagerSafety ==
    ClaimsAreHonoured /\ NoWorkOutsideRunningRun /\ SucceededRunIsHonest /\ CommandsAreOrderly

\* The worker uses the store as StoreNext allows any caller to.
UsesStoreAsSpecified == StoreSpec

\* Once faults cease, a queued or running run gets decided or parks on a wait,
\* unless it has been asked to stop while no worker held it.
RunsSettle ==
    \A r \in Runs :
        runStatus[r] \in {"queued", "running"} ~>
            \/ runStatus[r] \in Terminal \cup {"waiting"}
            \/ runStatus[r] = "queued" /\ cancelRequested[r]

\* "RequestRunCancellation records a durable cancellation signal. [...] Running
\* workers read the signal and perform their own orderly cancellation."
\* (execution.go): a run asked to stop comes to an end.
CancellationCompletes ==
    \A r \in Runs : cancelRequested[r] ~> runStatus[r] \in Terminal

\* "run worker lease must match active claim" (migrations/0006): a running run is
\* leased by the worker that claimed it or by nobody.
LeaseMatchesActiveClaim ==
    \A r \in Runs : runStatus[r] = "running" => leaseOwner[r] \in {None, claimedBy[r]}

\* "Evaluate ordered [...] when, and allow_failure contracts." (registry.go): the
\* result loop of executeRun fails a run only for a job that may not fail.
RuleFailuresAreAllowed ==
    [][\A r \in Runs :
         At("job") /\ runStatus[r] = "running" /\ runStatus'[r] = "failed" =>
           \E j \in JobsOf(r) : jobStatus[j] = "failed" /\ ~MayFail(j)
      ]_vars

\* "Queued and waiting runs are cancelled transactionally, including their
\* pending graph" (execution.go): a cancelled run has no pending job.
CancelledRunHasNoPendingJob ==
    \A j \in Jobs : runStatus[RunOf[j]] = "cancelled" =>
        jobStatus[j] \notin {"queued", "waiting", "manual", "running"}
=============================================================================
