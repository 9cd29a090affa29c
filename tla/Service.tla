------------------------------ MODULE Service ------------------------------
(***************************************************************************)
(* The components of the service beside the execution of a claimed run,    *)
(* each with its own instance.  Here they share no row (what they do to    *)
(* the same run is in ExecutionManager), so a behaviour follows one part,  *)
(* chosen at the start, and leaves the others where they start.            *)
(*                                                                         *)
(* Where a component has a module of theorems, that is the module that is  *)
(* instantiated, so that they can be cited of the service                  *)
(* (Service_proofs); its specification is that of the component.           *)
(***************************************************************************)
EXTENDS ExpiringLease, FiniteSets, Sequences

CONSTANTS
    Workers,
    Jobs, GateWorkers, OnMain, GateGrouped, Policies, FirstPolicy, GateTTL, MaxAge, GatePrompt,
    GateMaxEdits, GateMaxFaults,
    GroupsRuns, CancelInProgress, GroupsTTL, GroupsPrompt, GroupsMaxFaults,
    PipesRuns, PipesWorkers, Bridges, Mirrored, Cancels, PipesMaxFaults,
    DispatchWorkflows, Roots, Targets, Unavailable, DispatchGrouped, MaxDepth,
    DispatchMaxSyncs, DispatchMaxFaults,
    Schedules, Period, Changes, MaxClock, SchedMaxEdits, SchedMaxErrors,
    SchedMaxFaults,
    CommitWorkflows, Branches, Commits, Main, WatchedPaths, Content, Filter, Broken, CommitForce,
    CommitMaxEdits, CommitMaxFaults,
    Deliveries, HooksRequests, Wanted, HooksGrouped, MaxSends, HooksMaxErrors, MaxHangups,
    HooksMaxFaults,
    FirstStatus, Sources, Keys, LineageRequests, MaxRuns, LineageMaxSyncs, MaxReopens,
    MaxFailures

VARIABLES
    part,
    gatePolicy, gateRun, job, command, gateFlagged, wait, request, decision, runAge,
    requestAge, deployment, history, gateHolder, gateLeft, groupBusy, gateWk,
    gateEdits, gateFaults,
    groupsRun, groupsFlagged, caller, listed, groupsHolder, groupsLeft,
    groupsWk, groupsFaults, crossed, groupsStray,
    pipesRun, pipesFlagged, bridge, cascade, pipesWk, pipesFaults,
    dispatchRun, dispatch, active, dispatchWk, dispatchSyncs, dispatchFaults,
    dispatchStray, dropped,
    clock, schedRow, claim, project, wish, started, schedWk, schedEdits,
    schedErrors, schedFaults,
    head, gone, commitPolicy, commitRuns, commitWk, op, commitEdits,
    commitFaults,
    hooksRow, hooksRuns, hooksReq, answers, sends, hooksErrors, hangups, hooksFaults, hurt,
    source, revision, rows, lineageReq, lineageSyncs, reopens, failures

Gate == INSTANCE DeploymentGate_proofs WITH
    Workers <- GateWorkers, Grouped <- GateGrouped, TTL <- GateTTL, Prompt <- GatePrompt, MaxEdits <-
    GateMaxEdits, MaxFaults <- GateMaxFaults, policy <- gatePolicy, run <- gateRun,
    flagged <- gateFlagged, holder <- gateHolder, left <- gateLeft, wk <- gateWk,
    edits <- gateEdits, faults <- gateFaults

Groups == INSTANCE ConcurrencyGroups_proofs WITH
    Runs <- GroupsRuns, TTL <- GroupsTTL, Prompt <- GroupsPrompt, MaxFaults <-
    GroupsMaxFaults, run <- groupsRun, flagged <- groupsFlagged, holder <-
    groupsHolder, left <- groupsLeft, wk <- groupsWk, faults <- groupsFaults, stray <-
    groupsStray

Pipes == INSTANCE ChildPipelines_proofs WITH
    Runs <- PipesRuns, Workers <- PipesWorkers, MaxFaults <- PipesMaxFaults, run <- pipesRun, flagged <-
    pipesFlagged, wk <- pipesWk, faults <- pipesFaults

Dispatch == INSTANCE WorkflowDispatch WITH
    Workflows <- DispatchWorkflows, Grouped <- DispatchGrouped, MaxSyncs <-
    DispatchMaxSyncs, MaxFaults <- DispatchMaxFaults, run <- dispatchRun, wk <-
    dispatchWk, syncs <- dispatchSyncs, faults <- dispatchFaults, stray <- dispatchStray

Sched == INSTANCE Scheduler WITH
    MaxEdits <- SchedMaxEdits, MaxErrors <- SchedMaxErrors, MaxFaults <-
    SchedMaxFaults, row <- schedRow, wk <- schedWk, edits <- schedEdits, errors <-
    schedErrors, faults <- schedFaults

Commit == INSTANCE CommitTriggers WITH
    Workflows <- CommitWorkflows, Paths <- WatchedPaths, Force <- CommitForce, MaxEdits <- CommitMaxEdits, MaxFaults <-
    CommitMaxFaults, policy <- commitPolicy, runs <- commitRuns, wk <- commitWk,
    edits <- commitEdits, faults <- commitFaults

Hooks == INSTANCE WebhookDeliveries WITH
    Requests <- HooksRequests, Grouped <- HooksGrouped, MaxErrors <- HooksMaxErrors, MaxFaults <-
    HooksMaxFaults, row <- hooksRow, runs <- hooksRuns, req <- hooksReq, errors <-
    hooksErrors, faults <- hooksFaults

Lineage == INSTANCE RunLineage_proofs WITH
    Requests <- LineageRequests, MaxSyncs <- LineageMaxSyncs, req <- lineageReq,
    syncs <- lineageSyncs

gateVars == <<gatePolicy, gateRun, job, command, gateFlagged, wait, request, decision,
    runAge, requestAge, deployment, history, gateHolder, gateLeft, groupBusy, gateWk,
    gateEdits, gateFaults>>

groupsVars == <<groupsRun, groupsFlagged, caller, listed, groupsHolder, groupsLeft,
    groupsWk, groupsFaults, crossed, groupsStray>>

pipesVars == <<pipesRun, pipesFlagged, bridge, cascade, pipesWk, pipesFaults>>

dispatchVars == <<dispatchRun, dispatch, active, dispatchWk, dispatchSyncs,
    dispatchFaults, dispatchStray, dropped>>

schedVars == <<clock, schedRow, claim, project, wish, started, schedWk,
    schedEdits, schedErrors, schedFaults>>

commitVars == <<head, gone, commitPolicy, commitRuns, commitWk, op,
    commitEdits, commitFaults>>

hooksVars == <<hooksRow, hooksRuns, hooksReq, answers, sends, hooksErrors, hangups,
    hooksFaults, hurt>>

lineageVars == <<source, revision, rows, lineageReq, lineageSyncs, reopens, failures>>

vars == <<part, leaseVars, gateVars, groupsVars, pipesVars, dispatchVars, schedVars,
commitVars, hooksVars, lineageVars>>

ServiceInit ==
    /\ part \in {"lease", "gate", "groups", "pipes", "dispatch", "sched", "commit", "hooks", "lineage"}
    /\ Init /\ Gate!Init /\ Groups!Init /\ Pipes!Init /\ Dispatch!Init
    /\ Sched!Init /\ Commit!Init /\ Hooks!Init /\ Lineage!Init
    /\ \A s \in Sources : source[s] = FirstStatus

ServiceNext ==
    \/ /\ part = "lease" /\ Next
       /\ UNCHANGED <<part, gateVars, groupsVars, pipesVars, dispatchVars, schedVars, commitVars, hooksVars, lineageVars>>
    \/ /\ part = "gate" /\ Gate!Next
       /\ UNCHANGED <<part, leaseVars, groupsVars, pipesVars, dispatchVars, schedVars, commitVars, hooksVars, lineageVars>>
    \/ /\ part = "groups" /\ Groups!Next
       /\ UNCHANGED <<part, leaseVars, gateVars, pipesVars, dispatchVars, schedVars, commitVars, hooksVars, lineageVars>>
    \/ /\ part = "pipes" /\ Pipes!Next
       /\ UNCHANGED <<part, leaseVars, gateVars, groupsVars, dispatchVars, schedVars, commitVars, hooksVars, lineageVars>>
    \/ /\ part = "dispatch" /\ Dispatch!Next
       /\ UNCHANGED <<part, leaseVars, gateVars, groupsVars, pipesVars, schedVars, commitVars, hooksVars, lineageVars>>
    \/ /\ part = "sched" /\ Sched!Next
       /\ UNCHANGED <<part, leaseVars, gateVars, groupsVars, pipesVars, dispatchVars, commitVars, hooksVars, lineageVars>>
    \/ /\ part = "commit" /\ Commit!Next
       /\ UNCHANGED <<part, leaseVars, gateVars, groupsVars, pipesVars, dispatchVars, schedVars, hooksVars, lineageVars>>
    \/ /\ part = "hooks" /\ Hooks!Next
       /\ UNCHANGED <<part, leaseVars, gateVars, groupsVars, pipesVars, dispatchVars, schedVars, commitVars, lineageVars>>
    \/ /\ part = "lineage" /\ Lineage!Next
       /\ UNCHANGED <<part, leaseVars, gateVars, groupsVars, pipesVars, dispatchVars, schedVars, commitVars, hooksVars>>

ServiceSpec == ServiceInit /\ [][ServiceNext]_vars

\* What each component owes (its FairSpec), as long as it is the part.
FairServiceSpec ==
    /\ ServiceSpec
    /\ WF_gateVars(part = "gate" /\ Gate!Tick)
    /\ \A w \in GateWorkers : /\ WF_gateVars(part = "gate" /\ Gate!WorkerStep(w))
                              /\ WF_gateVars(part = "gate" /\ Gate!Restart(w))
    /\ \A j \in Jobs : /\ WF_gateVars(part = "gate" /\ Gate!RecoverRun(j))
                       /\ SF_gateVars(part = "gate" /\ Gate!ResumeWaitingJob(j))
                       /\ SF_gateVars(part = "gate" /\ \E w \in GateWorkers : Gate!Claim(w, j))
    /\ WF_groupsVars(part = "groups" /\ Groups!Tick)
    /\ \A w \in Workers : /\ WF_groupsVars(part = "groups" /\ Groups!WorkerStep(w))
                          /\ WF_dispatchVars(part = "dispatch" /\ Dispatch!WorkerStep(w))
                          /\ WF_schedVars(part = "sched" /\ Sched!WorkerStep(w))
    /\ \A r \in GroupsRuns : /\ WF_groupsVars(part = "groups" /\ Groups!CallerStep(r))
                             /\ WF_groupsVars(part = "groups" /\ Groups!RecoverRun(r))
    /\ \A w \in PipesWorkers : WF_pipesVars(part = "pipes" /\ Pipes!WorkerStep(w))
    /\ \A r \in PipesRuns : WF_pipesVars(part = "pipes" /\ Pipes!RecoverRun(r))
    /\ WF_pipesVars(part = "pipes" /\ Pipes!CascadeStep)
    /\ \A r \in Dispatch!Runs : WF_dispatchVars(part = "dispatch" /\ Dispatch!RecoverRun(r))
    /\ WF_schedVars(part = "sched" /\ Sched!Tick)
    /\ WF_commitVars(part = "commit" /\ Commit!ServiceStep)
-----------------------------------------------------------------------------
(* What the theorems assume of the constants *)

ASSUME LeasesLive == Gate!Sensible /\ Groups!Sensible
ASSUME PipesTree  == Pipes!Tree
ASSUME EventsSensible == Dispatch!Sensible /\ Sched!Sensible /\ Commit!Sensible /\ Hooks!Sensible

-----------------------------------------------------------------------------
(* Properties *)

\* Two commands never deploy to one environment at once, as long as heartbeats
\* are punctual; no deployment is reported better than its job ended, and its
\* events are one path of its life cycle (AcquireEnvironmentLease,
\* TransitionDeployment, failInterruptedRun, deployment_events).
DeploymentsAreHonest ==
    part = "gate" => Gate!DeploymentsAreHonest

\* An approval is decided once (DecideEnvironmentApproval).
DecisionsAreFinal == Gate!DecisionsAreFinal

\* The leases of environments and of concurrency groups are expiring leases:
\* nobody trusts a lease that another took over (AcquireEnvironmentLease,
\* AcquireExecutionConcurrency).
LeasesExpire == Gate!ImplementsLease /\ Groups!ImplementsLease

\* Superseding leaves the newest run of a group, unless it came while another
\* caller was about to list or an older run that waits asked it to give way; and
\* of two pending runs one is about to go, unless the caller or worker that had
\* to see to it was cut off, or one of them was running then and is queued again
\* (cancelSupersededConcurrencyRuns, waitForExecutionConcurrency).
GroupsKeepOneRun ==
    /\ part = "groups" => Groups!GroupTypeOK /\ Groups!NewestRunIsLeft /\ Groups!OnePendingRun
    /\ part = "dispatch" => Dispatch!DispatchTypeOK /\ Dispatch!OnePendingPerGroup

\* A run waits exactly while one of its bridges does, and a mirroring bridge
\* tells what its child did (insertChildPipelineLink,
\* ReconcileCompletedChildPipelines).
PipelinesAgree ==
    part = "pipes" => Pipes!PipelinesAgree

\* A due time, a commit or a delivery starts one run at most, whatever crashes
\* or is sent again; a late pass skips no due time, and a settled delivery says
\* what happened (ClaimDueWorkflowSchedules, migration 0009, Deliver).
EventsStartOneRun ==
    /\ part = "sched" => Sched!ScheduleTypeOK /\ Sched!DueTimesStartOnce /\ Sched!NoOccurrenceSkipped
    /\ part = "commit" => Commit!TriggerTypeOK /\ Commit!CommitRunsOnce
    /\ part = "hooks" => Hooks!DeliveryTypeOK /\ Hooks!DeliveredOnce /\ Hooks!SettledRowsAreHonest

\* A key starts one run, an answer is the replay that was asked for, a source
\* has one live replay, and what was found eligible is enqueued or loses to
\* another request (docs/API_V1.md:180, replayForKey, EvaluateJobReplay).
RequestsAreAnswered == part = "lineage" => Lineage!RequestsAreAnswered

\* A replay is enqueued only from a source that has ended
\* (0008_replay_guards.sql).
ReplaysTerminalSource == Lineage!ReplaysTerminalSource

\* Workflows that trigger each other stop; a dispatch is marked only when all
\* its targets that stayed active have their run; a commit the watch records
\* was run by every workflow whose paths differ, unless the policy was edited
\* meanwhile; an event that the provider may forget has started its run, or is
\* known as a delivery that failed (dispatchCompletedWorkflow, changedPaths,
\* Deliver).
NothingIsLost ==
    /\ [](/\ part = "dispatch" => Dispatch!ChainsEnd /\ Dispatch!MarkedMeansStarted
          /\ part = "hooks" => Hooks!AnsweredEventsAreRun)
    /\ [][part = "commit" => Commit!NoChangePassedUnrun]_commitVars

\* Nobody waits for ever: for an environment (but for an operator), for a
\* group, for a child pipeline; and a command whose policy no longer admits it
\* ends (resumeWaitingJobs, waitForExecutionConcurrency,
\* ReconcileCompletedChildPipelines, heartbeatEnvironment).
WaitersAreServed ==
    /\ part = "gate" => Gate!RunsAreServed /\ Gate!RevokedDeploymentStops
    /\ part = "groups" => Groups!GroupDrains
    /\ part = "pipes" => Pipes!TreeSettles

\* Every event that should start a run does: the end of a run for its targets,
\* a due schedule, a commit that a branch stays at
\* (reconcileWorkflowRunDispatches, ProcessDue, triggers/manager.go).
EventsAreRun ==
    /\ part = "dispatch" => Dispatch!CompletionsAreAnnounced
    /\ part = "sched" => Sched!DueSchedulesRun
    /\ part = "commit" => Commit!WatchedHeadIsRun
=============================================================================
