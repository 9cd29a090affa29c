--------------------------- MODULE DeploymentGate ---------------------------
(***************************************************************************)
(* One deployment environment, the jobs that target it and the workers     *)
(* that execute them: protection policy, approval requests and decisions,  *)
(* the wait timer, the environment lease with its heartbeat, and the       *)
(* deployment row with its event history beside the status of the job      *)
(* (store/environments.go, environment_approvals.go, environment_leases.go *)
(* and deployment_execution.go; prepareDeploymentJob and its callers in    *)
(* execution/manager.go).                                                  *)
(*                                                                         *)
(* Every job is the only job of its run, with one command.  Time is kept   *)
(* as remaining time and as age, so that it needs no bound.  A definition  *)
(* marked "Mutant" is a bug that could have been made in the next one.     *)
(***************************************************************************)
EXTENDS Naturals, Sequences

CONSTANTS
    Jobs, Workers, None,
    OnMain,        \* jobs whose run has a ref the allow list names
    Grouped,       \* jobs with a concurrency group of their own
    Policies,      \* settings an operator may give the environment
    FirstPolicy,
    TTL,           \* environmentLeaseTTL
    MaxAge,        \* longest wait timer; ages saturate there
    Prompt,        \* store calls and heartbeats take no time to speak of
    MaxEdits,      \* bound: edits of the environment
    MaxFaults      \* bound: crashes

VARIABLES
    policy,        \* the environments row
    run, job,      \* runs.status, jobs.status
    command,       \* the job's only step
    flagged,       \* runs.cancellation_requested
    wait,          \* job_waits.reason
    request,       \* environment_approval_requests.status, "none" without a row
    decision,      \* environment_approval_decisions, "none" without a row
    runAge, requestAge,
    deployment,    \* deployments.status, "none" without a row
    history,       \* deployment_events.status, oldest first
    holder, left,  \* environment_leases: <<job, worker>>, time until expires_at
    groupBusy,     \* another run holds the concurrency group
    wk,            \* by worker, the variables of executeRun: where it is, its job, the
                   \* concurrency mode it read, the reason it will pause for, and for
                   \* how long it may trust its last renewal
    edits, faults

execVars   == <<run, job, command, flagged, wait>>
gateVars   == <<policy, request, decision, runAge, requestAge, edits>>
auditVars  == <<deployment, history>>
leaseRow   == <<holder, left>>
workerVars == <<wk, faults>>
vars == <<execVars, gateVars, auditVars, leaseRow, groupBusy, workerVars>>

Terminal == {"succeeded", "failed", "cancelled", "skipped"}

\* A worker outside executeRun.
Out(l) == [pc |-> l, job |-> None, preempts |-> FALSE, why |-> "none", trust |-> 0]

Init ==
    /\ policy = FirstPolicy
    /\ run = [j \in Jobs |-> "absent"]
    /\ job = [j \in Jobs |-> "queued"]
    /\ command = [j \in Jobs |-> "queued"]
    /\ flagged = [j \in Jobs |-> FALSE]
    /\ wait = [j \in Jobs |-> "none"]
    /\ request = [j \in Jobs |-> "none"]
    /\ decision = [j \in Jobs |-> "none"]
    /\ runAge = [j \in Jobs |-> 0]
    /\ requestAge = [j \in Jobs |-> 0]
    /\ deployment = [j \in Jobs |-> "none"]
    /\ history = [j \in Jobs |-> <<>>]
    /\ holder = None /\ left = 0
    /\ groupBusy = FALSE
    /\ wk = [w \in Workers |-> Out("idle")]
    /\ edits = 0 /\ faults = 0

-----------------------------------------------------------------------------
(* The gate *)

NeedsApproval(p) == p.protected /\ p.approvals > 0

\* The anchor of the timer is the request, or the run if none is needed.
WaitAge(j) == IF policy.approvals > 0 THEN requestAge[j] ELSE runAge[j]

Verdict(j) ==
    CASE ~policy.protected                     -> "ready"
      [] policy.mainOnly /\ j \notin OnMain    -> "ref_not_allowed"
      [] policy.approvals > 0 /\ request[j] \in {"none", "pending"} -> "approval_required"
      [] policy.approvals > 0 /\ request[j] = "rejected"            -> "approval_rejected"
      [] WaitAge(j) < policy.timer             -> "wait_timer"
      [] OTHER                                 -> "ready"

Refusals == {"ref_not_allowed", "approval_rejected"}

\* An administrator overwrites the whole policy, whoever waits or deploys.
UpsertEnvironment(p) ==
    /\ edits < MaxEdits
    /\ p # policy
    /\ policy' = p
    /\ edits' = edits + 1
    /\ UNCHANGED <<execVars, request, decision, runAge, requestAge, auditVars,
                   leaseRow, groupBusy, workerVars>>

\* Mutant: an invented status.
RequestedOddly(j) == [request EXCEPT ![j] = IF @ = "none" THEN "requested" ELSE @]
\* INSERT ... ON CONFLICT(job_id) DO NOTHING
Requested(j) == [request EXCEPT ![j] = IF @ = "none" THEN "pending" ELSE @]
RequestedAt(j) == [requestAge EXCEPT ![j] = IF request[j] = "none" THEN 0 ELSE @]

\* Mutant: a late decision replaces the one that was made.
DecideAgain(j, d) ==
    /\ request[j] # "none" /\ request[j] # d
    /\ request' = [request EXCEPT ![j] = d]
    /\ decision' = [decision EXCEPT ![j] = d]
    /\ UNCHANGED <<execVars, policy, runAge, requestAge, edits, auditVars,
                   leaseRow, groupBusy, workerVars>>
\* One decision row; the same decision again changes nothing, another is refused.
DecideEnvironmentApproval(j, d) ==
    /\ request[j] = "pending"
    /\ request' = [request EXCEPT ![j] = d]
    /\ decision' = [decision EXCEPT ![j] = d]
    /\ UNCHANGED <<execVars, policy, runAge, requestAge, edits, auditVars,
                   leaseRow, groupBusy, workerVars>>

-----------------------------------------------------------------------------
(* Deployment rows and their events *)

ValidDeploymentTransition(from, to) ==
    \/ from = "queued"  /\ to \in {"running", "failed", "cancelled", "skipped"}
    \/ from = "running" /\ to \in {"succeeded", "failed", "cancelled"}

RecordDeployment(j, to) ==
    /\ deployment' = [deployment EXCEPT ![j] = to]
    /\ history' = [history EXCEPT ![j] = Append(@, to)]

\* Mutant: the status changes without an event.
RecordSilently(rows, from, to) ==
    /\ deployment' = [j \in Jobs |-> IF j \in rows /\ deployment[j] = from THEN to
                                     ELSE deployment[j]]
    /\ UNCHANGED history
\* The rows in rows that have the given status get another one, with an event.
RecordDeployments(rows, from, to) ==
    LET hit == {j \in rows : deployment[j] = from} IN
    /\ deployment' = [j \in Jobs |-> IF j \in hit THEN to ELSE deployment[j]]
    /\ history' = [j \in Jobs |-> IF j \in hit THEN Append(history[j], to) ELSE history[j]]

\* Deployments that have not begun are cancelled with a queued or waiting run.
RequestRunCancellation(j) ==
    /\ ~flagged[j]
    /\ run[j] \in {"queued", "waiting", "running"}
    /\ flagged' = [flagged EXCEPT ![j] = TRUE]
    /\ IF run[j] = "running"
       THEN UNCHANGED <<run, job, command, wait, auditVars>>
       ELSE /\ run' = [run EXCEPT ![j] = "cancelled"]
            /\ job' = [job EXCEPT ![j] = IF @ \in {"queued", "waiting"} THEN "cancelled" ELSE @]
            /\ command' = [command EXCEPT ![j] = IF @ = "queued" THEN "skipped" ELSE @]
            /\ wait' = [wait EXCEPT ![j] = "none"]
            /\ RecordDeployments({j}, "queued", "cancelled")

Enqueue(j) ==
    /\ run[j] = "absent"
    /\ run' = [run EXCEPT ![j] = "queued"]
    /\ runAge' = [runAge EXCEPT ![j] = 0]
    /\ UNCHANGED <<job, command, flagged, wait, policy, request, decision, requestAge,
                   edits, auditVars, leaseRow, groupBusy, workerVars>>

CancelByOperator(j) ==
    /\ RequestRunCancellation(j)
    /\ UNCHANGED <<gateVars, leaseRow, groupBusy, workerVars>>

-----------------------------------------------------------------------------
(* The worker: executeRun and prepareDeploymentJob, one transaction at a time *)

Goto(w, l) == wk' = [wk EXCEPT ![w].pc = l]

\* The goroutine returns: it forgets the job and its lease.
Leave(w, l) == wk' = [wk EXCEPT ![w] = Out(l)]

At(w, l) == wk[w].pc = l
Mine(w)  == <<wk[w].job, w>>

Claim(w, j) ==
    /\ At(w, "idle")
    /\ run[j] = "queued" /\ ~flagged[j]
    /\ run' = [run EXCEPT ![j] = "running"]
    /\ wk' = [wk EXCEPT ![w].pc = "check", ![w].job = j]
    /\ UNCHANGED <<job, command, flagged, wait, gateVars, auditVars,
                   leaseRow, groupBusy, faults>>

\* executeRun skips a finished job and cancels a flagged run before its next job.
CheckRun(w) ==
    LET j == wk[w].job IN
    /\ At(w, "check")
    /\ \/ /\ job[j] \in Terminal
          /\ Goto(w, "settle")
          /\ UNCHANGED execVars
       \/ /\ job[j] \notin Terminal /\ flagged[j]
          /\ command' = [command EXCEPT ![j] = "skipped"]
          /\ job' = [job EXCEPT ![j] = "cancelled"]
          /\ run' = [run EXCEPT ![j] = "cancelled"]
          /\ Leave(w, "idle")
          /\ UNCHANGED <<flagged, wait>>
       \/ /\ job[j] \notin Terminal /\ ~flagged[j]
          /\ Goto(w, "ensure")
          /\ UNCHANGED execVars
    /\ UNCHANGED <<gateVars, auditVars, leaseRow, groupBusy, faults>>

\* EnsureEnvironmentForJob reads the policy, EnsureDeploymentForJob inserts once.
EnsureDeployment(w) ==
    LET j == wk[w].job IN
    /\ At(w, "ensure")
    /\ IF deployment[j] = "none" THEN RecordDeployment(j, "queued") ELSE UNCHANGED auditVars
    /\ wk' = [wk EXCEPT ![w].pc = IF NeedsApproval(policy) THEN "request" ELSE "evaluate",
                        ![w].preempts = policy.cancelInProgress]
    /\ UNCHANGED <<execVars, gateVars, leaseRow, groupBusy, faults>>

\* A policy that lost its approvals since it was read is an error of the service.
RequestApproval(w) ==
    /\ At(w, "request")
    /\ IF NeedsApproval(policy)
       THEN /\ request' = Requested(wk[w].job)
            /\ requestAge' = RequestedAt(wk[w].job)
            /\ Goto(w, "evaluate")
       ELSE Leave(w, "down") /\ UNCHANGED <<request, requestAge>>
    /\ UNCHANGED <<execVars, policy, decision, runAge, edits, auditVars,
                   leaseRow, groupBusy, faults>>

EvaluateAccess(w) ==
    LET verdict == Verdict(wk[w].job) IN
    /\ At(w, "evaluate")
    /\ wk' = [wk EXCEPT
                 ![w].pc = IF verdict = "ready" THEN "acquire"
                           ELSE IF verdict \in Refusals THEN "refuse" ELSE "park",
                 ![w].why = IF verdict = "wait_timer" THEN "timer" ELSE "approval"]
    /\ UNCHANGED <<execVars, gateVars, auditVars, leaseRow, groupBusy, faults>>

\* failProtectedJob: the steps are skipped and the job fails, then its deployment.
Refuse(w) ==
    LET j == wk[w].job IN
    /\ At(w, "refuse")
    /\ command' = [command EXCEPT ![j] = "skipped"]
    /\ job' = [job EXCEPT ![j] = "failed"]
    /\ Goto(w, "refused")
    /\ UNCHANGED <<run, flagged, wait, gateVars, auditVars, leaseRow, groupBusy, faults>>

FailDeployment(w) ==
    /\ At(w, "refused")
    /\ IF ValidDeploymentTransition(deployment[wk[w].job], "failed")
       THEN /\ RecordDeployment(wk[w].job, "failed")
            /\ Goto(w, "settle")
       ELSE Leave(w, "down") /\ UNCHANGED auditVars
    /\ UNCHANGED <<execVars, gateVars, leaseRow, groupBusy, faults>>

\* PauseJob
Park(w) ==
    LET j == wk[w].job IN
    /\ At(w, "park")
    /\ job' = [job EXCEPT ![j] = "waiting"]
    /\ run' = [run EXCEPT ![j] = "waiting"]
    /\ wait' = [wait EXCEPT ![j] = wk[w].why]
    /\ Leave(w, "idle")
    /\ UNCHANGED <<command, flagged, gateVars, auditVars, leaseRow, groupBusy, faults>>

\* Mutant: the row is taken whoever holds it.
MayTakeAlways(c) == TRUE
MayTake(c) == holder \in {None, c} \/ left = 0

\* AcquireEnvironmentLease asks the gate again, and takes the row if it may.
AcquireLease(w) ==
    /\ At(w, "acquire")
    /\ \/ /\ Verdict(wk[w].job) # "ready"
          /\ Leave(w, "down")
          /\ UNCHANGED leaseRow
       \/ /\ Verdict(wk[w].job) = "ready" /\ MayTake(Mine(w))
          /\ holder' = Mine(w) /\ left' = TTL
          /\ wk' = [wk EXCEPT ![w].pc = "start", ![w].trust = TTL]
       \/ /\ Verdict(wk[w].job) = "ready" /\ ~MayTake(Mine(w))
          /\ IF wk[w].preempts /\ holder[1] # wk[w].job
             THEN wk' = [wk EXCEPT ![w].pc = "preempt", ![w].why = holder[1]]
             ELSE wk' = [wk EXCEPT ![w].pc = "park", ![w].why = "concurrency"]
          /\ UNCHANGED leaseRow
    /\ UNCHANGED <<execVars, gateVars, auditVars, groupBusy, faults>>

\* cancel_in_progress: ask for the cancellation of the run that was seen holding it
Preempt(w) ==
    /\ At(w, "preempt")
    /\ \/ RequestRunCancellation(wk[w].why)
       \/ /\ flagged[wk[w].why] \/ run[wk[w].why] \in Terminal
          /\ UNCHANGED <<execVars, auditVars>>
    /\ wk' = [wk EXCEPT ![w].pc = "park", ![w].why = "concurrency"]
    /\ UNCHANGED <<gateVars, leaseRow, groupBusy, faults>>

DropLease(c) == holder' = IF holder = c THEN None ELSE holder

\* Unreadable secrets, or a deployment that was closed, stop the service here.
StartDeployment(w) ==
    LET j == wk[w].job IN
    /\ At(w, "start")
    /\ \/ /\ deployment[j] = "queued" /\ RecordDeployment(j, "running")
          /\ Goto(w, "group")
          /\ UNCHANGED holder
       \/ /\ deployment[j] = "running"
          /\ Goto(w, "group")
          /\ UNCHANGED <<auditVars, holder>>
       \/ /\ DropLease(Mine(w))
          /\ Leave(w, "down")
          /\ faults < MaxFaults \/ deployment[j] \in Terminal
          /\ UNCHANGED auditVars
    /\ faults' = IF wk'[w].pc = "down" /\ deployment[j] \notin Terminal THEN faults + 1 ELSE faults
    /\ UNCHANGED <<execVars, gateVars, left, groupBusy>>

\* acquireJobConcurrency blocks here, and no heartbeat is running yet.
EnterGroup(w) ==
    /\ At(w, "group")
    /\ wk[w].job \in Grouped => ~groupBusy
    /\ job' = [job EXCEPT ![wk[w].job] = "running"]
    /\ Goto(w, "work")
    /\ UNCHANGED <<run, command, flagged, wait, gateVars, auditVars,
                   leaseRow, groupBusy, faults>>

\* The group's other user comes and goes.
GroupChanges ==
    /\ Grouped # {}
    /\ groupBusy' = ~groupBusy
    /\ UNCHANGED <<execVars, gateVars, auditVars, leaseRow, workerVars>>

\* executeJob polls the cancellation before the command; the poll fails when
\* the heartbeat has ended the job's context, and the service stops.
StartCommand(w) ==
    LET j == wk[w].job IN
    /\ At(w, "work") /\ command[j] = "queued"
    /\ command' = [command EXCEPT ![j] = IF flagged[j] THEN "cancelled" ELSE "running"]
    /\ job' = [job EXCEPT ![j] = IF flagged[j] THEN "cancelled" ELSE @]
    /\ Goto(w, IF flagged[j] THEN "release" ELSE "work")
    /\ UNCHANGED <<run, flagged, wait, gateVars, auditVars, leaseRow, groupBusy, faults>>

FinishCommand(w, result) ==
    LET j == wk[w].job IN
    /\ At(w, "work") /\ command[j] = "running"
    /\ result = "cancelled" => flagged[j]
    /\ command' = [command EXCEPT ![j] = result]
    /\ job' = [job EXCEPT ![j] = result]
    /\ Goto(w, "release")
    /\ UNCHANGED <<run, flagged, wait, gateVars, auditVars, leaseRow, groupBusy, faults>>

\* heartbeatEnvironment: the renewal is an acquisition, gate included.
RenewLease(w) ==
    /\ At(w, "work")
    /\ Verdict(wk[w].job) = "ready" /\ MayTake(Mine(w))
    /\ holder' = Mine(w) /\ left' = TTL
    /\ wk' = [wk EXCEPT ![w].trust = TTL]
    /\ UNCHANGED <<execVars, gateVars, auditVars, groupBusy, faults>>

\* Mutant: a heartbeat that is refused is tried again later.
LoseLeaseNever(w) == FALSE /\ UNCHANGED vars
\* A refused renewal ends the job's context: the command is killed, the lease
\* released, and the failing store calls stop the service.
LoseLease(w) ==
    /\ At(w, "work")
    /\ Verdict(wk[w].job) # "ready" \/ ~MayTake(Mine(w))
    /\ DropLease(Mine(w))
    /\ Leave(w, "down")
    /\ UNCHANGED <<execVars, gateVars, auditVars, left, groupBusy, faults>>

\* A lease that was lost by the end of the job is an error, too.
ReleaseLease(w) ==
    /\ At(w, "release")
    /\ DropLease(Mine(w))
    /\ IF holder = Mine(w)
       THEN wk' = [wk EXCEPT ![w].pc = "record", ![w].trust = 0]
       ELSE Leave(w, "down")
    /\ UNCHANGED <<execVars, gateVars, auditVars, left, groupBusy, faults>>

\* Mutant: the deployment is said to have succeeded when its job has ended.
OutcomeOfEnd(j) == "succeeded"
Outcome(j) == job[j]

RecordOutcome(w) ==
    LET j == wk[w].job IN
    /\ At(w, "record")
    /\ IF ValidDeploymentTransition(deployment[j], Outcome(j))
       THEN /\ RecordDeployment(j, Outcome(j))
            /\ Goto(w, "settle")
       ELSE Leave(w, "down") /\ UNCHANGED auditVars
    /\ UNCHANGED <<execVars, gateVars, leaseRow, groupBusy, faults>>

\* A run whose job was cancelled before a crash counts as succeeded.
Settle(w) ==
    LET j == wk[w].job IN
    /\ At(w, "settle")
    /\ run' = [run EXCEPT ![j] = IF job[j] = "failed" THEN "failed"
                                 ELSE IF job[j] = "cancelled" /\ flagged[j] THEN "cancelled"
                                 ELSE "succeeded"]
    /\ Leave(w, "idle")
    /\ UNCHANGED <<job, command, flagged, wait, gateVars, auditVars,
                   leaseRow, groupBusy, faults>>

-----------------------------------------------------------------------------
(* The pass before every claim, and what happens around the worker *)

Executed(j) == \E w \in Workers : wk[w].job = j

\* RecoverExpiredRunWorkers, for a run whose worker is gone
RecoverRun(j) ==
    /\ run[j] = "running" /\ ~Executed(j)
    /\ \E w \in Workers : At(w, "idle")
    /\ IF command[j] = "running"
       THEN /\ run' = [run EXCEPT ![j] = "failed"]
            /\ job' = [job EXCEPT ![j] = "failed"]
            /\ command' = [command EXCEPT ![j] = "failed"]
            /\ RecordDeployments({j}, "running", "failed")
       ELSE /\ run' = [run EXCEPT ![j] = "queued"]
            /\ job' = [job EXCEPT ![j] = IF @ = "running" THEN "queued" ELSE @]
            /\ UNCHANGED <<command, auditVars>>
    /\ UNCHANGED <<flagged, wait, gateVars, leaseRow, groupBusy, workerVars>>

\* Mutant: a wait is resumed to go on, never to be refused.
ResumableToGoOn(j) == Verdict(j) = "ready"
Resumable(j) == Verdict(j) \in {"ready"} \cup Refusals \/ wait[j] = "concurrency"

\* resumeWaitingJobs, for one wait: ask for an approval that is now needed,
\* evaluate, and queue the run again if its job has something to do.
ResumeWaitingJob(j) ==
    /\ wait[j] # "none"
    /\ \E w \in Workers : At(w, "idle")
    /\ IF NeedsApproval(policy)
       THEN request' = Requested(j) /\ requestAge' = RequestedAt(j)
       ELSE UNCHANGED <<request, requestAge>>
    /\ IF Resumable(j)
       THEN /\ wait' = [wait EXCEPT ![j] = "none"]
            /\ job' = [job EXCEPT ![j] = "queued"]
            /\ run' = [run EXCEPT ![j] = "queued"]
       ELSE UNCHANGED <<wait, job, run>>
    /\ UNCHANGED <<command, flagged, policy, decision, runAge, edits,
                   auditVars, leaseRow, groupBusy, workerVars>>

Crash(w) ==
    /\ faults < MaxFaults
    /\ wk[w].pc \notin {"idle", "down"}
    /\ Leave(w, "down")
    /\ faults' = faults + 1
    /\ UNCHANGED <<execVars, gateVars, auditVars, leaseRow, groupBusy>>

Restart(w) ==
    /\ At(w, "down")
    /\ Goto(w, "idle")
    /\ UNCHANGED <<execVars, gateVars, auditVars, leaseRow, groupBusy, faults>>

Less(n) == IF n = 0 THEN 0 ELSE n - 1
Older(age) == IF age = MaxAge THEN age ELSE age + 1

\* Waiting for a group takes as long as it takes; so does a command, under its
\* heartbeat.  Everything else is prompt, if Prompt.
MayWait(w) ==
    \/ At(w, "idle") \/ At(w, "down")
    \/ At(w, "group") /\ wk[w].job \in Grouped /\ groupBusy
    \/ At(w, "work") /\ command[wk[w].job] = "running" /\ wk[w].trust > 1

Tick ==
    /\ Prompt => \A w \in Workers : MayWait(w)
    /\ left' = Less(left)
    /\ wk' = [w \in Workers |-> [wk[w] EXCEPT !.trust = Less(@)]]
    /\ runAge' = [j \in Jobs |-> Older(runAge[j])]
    /\ requestAge' = [j \in Jobs |-> IF request[j] = "none" THEN 0 ELSE Older(requestAge[j])]
    /\ <<left, wk, runAge, requestAge>>' # <<left, wk, runAge, requestAge>>
    /\ UNCHANGED <<execVars, policy, request, decision, edits, auditVars,
                   holder, groupBusy, faults>>

WorkerStep(w) ==
    \/ CheckRun(w) \/ EnsureDeployment(w) \/ RequestApproval(w) \/ EvaluateAccess(w)
    \/ Refuse(w) \/ FailDeployment(w) \/ Park(w) \/ AcquireLease(w) \/ Preempt(w)
    \/ StartDeployment(w) \/ EnterGroup(w) \/ StartCommand(w)
    \/ LoseLease(w) \/ ReleaseLease(w) \/ RecordOutcome(w) \/ Settle(w)

ServiceStep ==
    \/ \E w \in Workers : WorkerStep(w) \/ RenewLease(w) \/ Restart(w) \/ Crash(w)
    \/ \E w \in Workers, j \in Jobs : Claim(w, j)
    \/ \E w \in Workers, result \in Terminal \ {"skipped"} : FinishCommand(w, result)
    \/ \E j \in Jobs : RecoverRun(j) \/ ResumeWaitingJob(j)

OperatorStep ==
    \/ \E j \in Jobs : Enqueue(j) \/ CancelByOperator(j)
    \/ \E j \in Jobs, d \in {"approved", "rejected"} : DecideEnvironmentApproval(j, d)
    \/ \E p \in Policies : UpsertEnvironment(p)

Next == ServiceStep \/ OperatorStep \/ GroupChanges \/ Tick

Spec == Init /\ [][Next]_vars

\* The goroutines run, the clock moves, the process is restarted by systemd and
\* every pass recovers and resumes; operators and commands owe nothing.
Fairness ==
    /\ WF_vars(Tick)
    /\ \A w \in Workers : WF_vars(WorkerStep(w)) /\ WF_vars(Restart(w))
    /\ \A j \in Jobs : /\ WF_vars(RecoverRun(j)) /\ SF_vars(ResumeWaitingJob(j))
                       /\ SF_vars(\E w \in Workers : Claim(w, j))

FairSpec == Spec /\ Fairness

-----------------------------------------------------------------------------
(* Properties *)

\* Every variable holds what its column or its goroutine may hold.
GateTypeOK ==
    /\ policy \in Policies
    /\ run \in [Jobs -> Terminal \cup {"absent", "queued", "waiting", "running"}]
    /\ job \in [Jobs -> Terminal \cup {"queued", "waiting", "running"}]
    /\ wait \in [Jobs -> {"none", "approval", "timer", "concurrency"}]
    /\ request \in [Jobs -> {"none", "pending", "approved", "rejected"}]
    /\ deployment \in [Jobs -> Terminal \cup {"none", "queued", "running"}]
    /\ holder \in (Jobs \X Workers) \cup {None}
    /\ \A w \in Workers : wk[w].job \in Jobs \cup {None} /\ wk[w].trust \in 0..TTL

Working(w) == At(w, "work") /\ command[wk[w].job] = "running"

\* Two commands never deploy to one environment at the same time, as long as
\* heartbeats are punctual and no job waits for a group of its own between the
\* lease and the first heartbeat (AcquireEnvironmentLease, heartbeatEnvironment).
OneDeploymentAtATime ==
    Prompt /\ Grouped = {} => \A v, w \in Workers : Working(v) /\ Working(w) => v = w

\* An approval is decided once, and its audit row says what was decided, also
\* when two operators decide at once (DecideEnvironmentApproval).
DecisionsAreFinal ==
    [][\A j \in Jobs : decision[j] # "none" =>
          decision'[j] = decision[j] /\ request'[j] = decision[j]]_vars

\* A deployment is never reported better than its job ended, although the two
\* are written apart and recovery, cancellation and the gate write them as well
\* (TransitionDeployment, failInterruptedRun, failProtectedJob).
DeploymentIsHonest ==
    \A j \in Jobs :
        /\ deployment[j] = "succeeded" => job[j] = "succeeded"
        /\ deployment[j] = "cancelled" => job[j] \in {"cancelled", "failed"}
        /\ deployment[j] = "failed" => job[j] = "failed"

\* The audit trail of a deployment is one path of its life cycle, that leads to
\* its status; five writers append to it (deployment_events).
HistoryIsOnePath ==
    \A j \in Jobs :
        /\ deployment[j] = (IF history[j] = <<>> THEN "none" ELSE history[j][Len(history[j])])
        /\ \A i \in 1..(Len(history[j]) - 1) :
             ValidDeploymentTransition(history[j][i], history[j][i + 1])

\* One deployment at a time, reported as its job ended, along one path
\* (AcquireEnvironmentLease, TransitionDeployment, deployment_events).
DeploymentsAreHonest == GateTypeOK /\ OneDeploymentAtATime /\ DeploymentIsHonest /\ HistoryIsOnePath

\* When a policy no longer admits a job, the job's command does not go on for
\* ever (heartbeatEnvironment evaluates the gate again).
RevokedDeploymentStops ==
    \A w \in Workers :
        (Working(w) /\ Verdict(wk[w].job) # "ready") ~> (~Working(w) \/ Verdict(wk[w].job) = "ready")

\* Every run is decided in the end, waits for an operator's decision, or for a
\* command that does not end (resumeWaitingJobs, ClaimNextQueuedRun).  A run
\* whose cancellation was requested may be stranded: ExecutionManager shows it.
RunsAreServed ==
    \A j \in Jobs : run[j] = "queued" ~>
        (run[j] \in Terminal \/ wait[j] = "approval" \/ flagged[j] \/ \E w \in Workers : Working(w))

Lease == INSTANCE ExpiringLease WITH
    Clients <- Jobs \X Workers,
    trust <- [c \in Jobs \X Workers |-> IF wk[c[2]].job = c[1] THEN wk[c[2]].trust ELSE 0]

\* The environment lease is an expiring lease: nobody trusts a lease that
\* another job took over (AcquireEnvironmentLease, ReleaseEnvironmentLease).
ImplementsLease == Lease!Spec

=============================================================================
