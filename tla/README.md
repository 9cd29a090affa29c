# git-ci: specifications of the execution service and its definitions

git-ci runs CI pipelines. As a CLI it parses a provider's workflow file and
executes it; as a service (`git-ci serve`, `internal/service`) it keeps runs in
SQLite, executes them with worker goroutines, gates deployments, starts runs on
schedules, commits, webhooks and the end of other runs, and lets operators act
through an HTTP API. These modules specify what is hardest to get right in it:
the life of a run, with an operator acting at any moment and a process that may
die between any two transactions; what starts, waits for, supersedes or copies a
run; and the decisions that turn a definition into jobs.

Contents: [inventory](#inventory), [modules and their order](#modules-and-their-order),
[modules and code](#modules-and-code), [properties](#properties), [runs](#runs),
[bounds](#bounds), [fairness](#fairness), [proofs](#proofs),
[findings](#findings), [disagreements](#other-disagreements),
[mutants](#mutants), [what is not modelled](#not-modelled).

## Inventory

`PROJECT.json` lists every component with its sources. Those with state or rules
of their own, what makes each hard, and what makes it correct:

| component | state and operations | interacts with | hard behaviour | correct when |
|---|---|---|---|---|
| run, job and step tables (`store/execution.go`) | status, claim, cancellation flag; enqueue, claim, transition, cancel | everything | API and worker transactions interleave | statuses of run, jobs and steps agree; decided runs are final |
| waits and worker leases (`store/execution_waits.go`) | `job_waits`, `run_worker_leases`; pause, resume, heartbeat, recover | manager, cancellation | crash, expiry while alive | no lost run, no lost wakeup, no command replayed |
| manual jobs (`store/manual_jobs.go`) | `manual_job_states`, `manual_job_plays` | manager, API | a finished run is reopened | played at the right time, nothing runs twice |
| job attempts (`store/job_attempts.go`) | `job_attempts` | retry loop | crash in an attempt | retries within the policy |
| execution manager (`execution/manager.go`, `retry.go`) | the variables of `executeRun` | the store, gates | every store call may fail, stale snapshots | the executor holds its run; order, dependencies, outcome; runs settle |
| environments and deployments (`store/environment*.go`, `deployment_execution.go`) | policy, approvals, wait timer, one lease, deployment rows | manager, operators | edits while waiting, lapsing leases | one deployment at a time behind an open gate; histories are honest |
| concurrency groups (`store/execution_concurrency.go`) | a lease per group | enqueue, cancellation | list-then-cancel, blocking waits | one holder; superseding leaves a run |
| child pipelines (`*/child_pipelines.go`) | links from bridge to child run | cancellation both ways | several reconcilers, crashes | the bridge mirrors the child, trees settle |
| `workflow_run` dispatch (`*/workflow_runs.go`) | outbox rows | enqueue, sync | crash between enqueue and mark | each completion starts its targets once; chains end |
| lineage (`store/run_lineage.go`) | replay and rollback links, keys | enqueue | overlapping requests, stale eligibility | a key names one run; a copy is complete |
| schedules (`scheduler/`) | claims, next due time | enqueue, edits | crash between enqueue and advance | a due time starts one run |
| commit triggers (`triggers/`) | last seen commit | enqueue, git | edits during a pass | a commit starts a workflow once, none is passed unrun |
| webhooks (`webhooks/`) | deliveries | enqueue | redelivery, hang-up | one run per delivery |
| trigger policies (`triggerpolicy/`) | none | webhooks, triggers | ordered patterns, partial path lists | the last pattern decides |
| conditions, matrix, rules (`executionsemantics/`, `evaluateJobExecution`) | none | discovery, manager | mixed types, include and exclude, rules beside needs | the meaning of the precedences; nothing starts behind a bad need |
| discovery (`execution/discovery.go`, `reusable_workflow.go`, `composite_action.go`; `parsers/gitlab.go`) | none | parsers | includes, variants, nested calls, scopes | no job and no need is lost, cycles are found |
| step output (`captureLines`, `workflow_command.go`, `log_sections.go`) | log rows, sections, masks | two goroutines per step | two streams, four transactions per line | whole, nested, masked; steps end |
| container sessions (`docker_session.go`) | containers and networks of a job | retry loop, step timeouts | lost answers, kills behind a returned step | nothing left behind; a found service is ready |
| workspaces, archives, caches, artifacts (`workspace.go`, `archive.go`, `execution_data.go`) | directories, files, rows | retry loop, janitor | crash between file and row | entries whole and immutable, runs isolated |
| releases (`store/releases.go`, `httpapi/releases.go`) | rows, audit events | git tags, runs | handlers of several accesses, hang-up | a published release stays; one per tag |
| audit report (`store/audit.go`) | none | events that arrive | pages of a moving list | pages skip nothing, bars count what they span |
| key files (`auth/auth.go`, `secrets/manager.go`) | three files | services that start at once | crash in the middle of a file | services agree; a token is told once |
| sessions (`auth/auth.go`, `httpapi/`) | cookie, form tokens | tabs of one browser | restart, overlapping login and logout | changes go back to a login |
| secrets (`secrets/manager.go`) | encrypted rows | runs, approvals | edits between list, read and use | values are of their time; an environment guards its own |
| step outputs (`output_command.go`, `runtime_command_files.go`, `dotenv.go`) | the maps of one call of `executeRun` | steps, retries, later jobs | retries, pauses, files that an earlier job left | a step is given what its attempt wrote, a job what the last attempt of its needs did |
| local run (`handlers/run.go`, `toposort.go`) | results of jobs | runners | cycles, levels in parallel | a job runs after its needs; failure is told |
| runners (`runners/`) | containers, networks, pods, a script in `/tmp`, the redirection of `--quiet` | the container engine, shells | parallel jobs of one second, lost answers, deadlines | nothing stays behind, a job runs its own script, success is real |
| service lifecycle (`service/service.go`) | the goroutines of a process | all | shutdown does not wait for the worker | same as after a crash |

Sequential or stateless, without a module: the text of the parsers,
configuration and inventory, rendering, the static site and the release tools.

The worker, `Manager.Run`, loops over `ProcessNext`: recover runs whose lease ran
out, reconcile child pipelines and dispatches, resume waiting jobs, claim the
oldest queued run, establish a lease, execute it, release. While it executes, a
goroutine renews the lease. HTTP handlers change the same tables in transactions
of their own: there is no lock but SQLite's, and the worker sees their effects
only where it reads. A run that has to wait (gate, environment in use, blocking
manual job, mirrored child) is given up: `executeRun` returns, and another pass
starts it over from the rows, with fresh local variables.

The hazards of this design, each with its source line and the properties that
would catch it, are in `PROJECT.json` under `hazards`.

## Modules and their order

Written in this order, so that each rests on what is already checked:

1. `RunStore`, the execution tables and their transactions for any caller.
2. `ExecutionManager` EXTENDS `RunStore`: the worker, with crashes, failing
   calls, gates, manual jobs, cancellation, retries. It is shown to implement
   `StoreSpec`, the abstract specification of step 1; `ExecutionManager_proofs`
   proves the safety of the store first, then this and the worker's.
3. `ExpiringLease`, what a lease table promises, and `ExpiringLease_proofs`.
   `DeploymentGate` and `ConcurrencyGroups` implement it (INSTANCE ... WITH), each
   with its own clients and clock; `DeploymentGate_proofs` and
   `ConcurrencyGroups_proofs` prove it.
4. The other components that start or end runs: `ChildPipelines`,
   `WorkflowDispatch`, `Scheduler`, `CommitTriggers`, `WebhookDeliveries`,
   `RunLineage`; `ChildPipelines_proofs` and `RunLineage_proofs`. `Service`
   composes the modules of 3 and 4; `Service_proofs` carries their theorems over
   to the composition and proves those of webhooks, schedules, commits and
   dispatched workflows.
5. Decisions, as operators against reference definitions: `TriggerPolicy`,
   `CronExpression`, `LineageGraphs`, `MatrixExpansion`, `Conditions`,
   `JobDecision`, and the state machines of discovery, `JobGraph`,
   `ReusableCalls`, `CompositeActions`.
6. What serves one job or one request: `LocalRun`, `ContainerRunners`,
   `StepScripts`, `StepOutput`, `RuntimeOutputs`, `ContainerSession`, `RunData`, `ProjectReleases`, `AuditReport`, `ServiceKeys`,
   `AdminSessions`, `JobSecrets`.

`Admission` composes the modules of 5 and 6 that let something in (`TriggerPolicy`,
`JobDecision`, `ServiceKeys`, `AdminSessions`, `JobSecrets`), as `Service` does those of
3 and 4, and `Admission_proofs` proves theorems about them; `MCComponents` extends it
with the others. The instances of a composition share no row: what they do to one run is
already in `ExecutionManager` (a gate's verdict, a cancellation, a requeue), so a
behaviour chooses one part and follows it, which keeps the state graph a sum instead of
a product. Each module keeps its copy of the run's status with the transitions of
`RunStore` that concern it.

Left for later: the parsers of CircleCI, Travis and Drone as far as they order jobs;
bootstrap and synchronisation of a project (`httpapi/projects.go`).

## Modules and code

### RunStore

One variable per column that decides something: `runStatus`, `cancelRequested`,
`claimedBy` (table `runs`), `jobStatus`, `stepStatus`, `leaseOwner`
(`run_worker_leases`), `waitReason` (`job_waits`), `manualState` and `played`
(`manual_job_states`, `manual_job_plays`), `attemptNo` and `attemptStatus`
(newest row of `job_attempts`); `arrivals` is the order of `created_at`. A row that
does not exist is `Absent`, `None` or `"none"`. Time appears as one bit per run,
`overdue`: the lease's `expires_at` has passed, or, when there is no lease row,
`claimed_at` is older than the lease time.

One action is one transaction; its guard is the conjunction of the checks that
otherwise roll it back. Triggers of the schema are guards too: the claim triggers
of migration 0006 make `HeartbeatRunWorker` demand a running run claimed by the
same worker. `RecoverExpiredRunWorkers` treats all expired runs in one step, as
the transaction does.

`StoreNext` lets the callers act in any order and with any arguments, restricted
only by what the code of the callers can ask for at all: `TransitionRun` is called
for a running run with a terminal status, `TransitionJob` never asks for
`waiting`, `manual` or `queued`. It is the environment-independent contract of the
store; `ExecutionManager` is one user of it.

### ExecutionManager

`p` is the worker goroutine: a program counter and the local variables that
survive a store call. Program counter values follow the call chain:

| pc | code |
|---|---|
| `recover`, `list`, `resume`, `claim`, `lease`, `release` | `ProcessNext`, `resumeWaitingJobs` |
| `load`, `job`, `check`, `prepare`, `acquire`, `awaitGate`, `awaitEnvironment`, `leave` | `executeRun`, `prepareDeploymentJob` |
| `attempt`, `attemptError`, `attemptEnd`, `reset` | `executeJobWithRetry` |
| `start`, `setupFailed`, `step`, `run` | `executeJob`, `failJobSetup` |
| `close` | `skipSteps` and the job transition after it, for all its callers |
| `cancelRest`, `abort` | `cancelRemaining`, `failWorkspaceSetup` and the secrets failure |
| `down` | no process |

`p.seen` is `statuses`, `p.tolerated` is `allowedFailure`, `p.waits` the snapshot
of `ListJobWaits`, `p.loaded` the steps that `GetRunGraph` returned as queued,
`p.broken` a non-nil error on its way up. A loop over store calls takes one step
per call. Reads of `item.Job.Status` from the loaded graph are reads of the table:
while a run is executed, no other transaction changes its jobs before the worker
reaches them (`ExecutorHoldsRun` is what this rests on; it is checked and proved). The
steps' loaded statuses do go stale inside an attempt, hence `p.loaded`.

`Heartbeat` and `HeartbeatEnvironment` are the goroutines that renew leases. `StoreCallFails` is any error that a store
call or a cancelled context can return, at any place, with the cleanup the callers
do. `Crash` is the end of a process at any place, and shutdown too, because
`Service.Run` does not wait for the worker. `Restart` starts a process with the
same or another process id, as `worker_id` is derived from it.

The outcome of a command, of container setup, of publishing, and whether a
failure matches the retry policy are nondeterministic. So are operators: they
enqueue, cancel, play and decide gates at any time. `gate` is the verdict of
`EvaluateEnvironmentAccess`, which moves once from closed to open or refused; an
unprotected environment is a gate that opens before anybody looks.

### The components of the service

`DeploymentGate` has the environment's row, its newest approval request, the wait timer,
the lease, the deployment row and its history beside the job, and for every worker a
program counter through `prepareDeploymentJob`, the wait for a group, the command and
its end. Remaining times and ages are counters, so time needs no bound.
`ConcurrencyGroups` has the callers of `cancelSupersededConcurrencyRuns` (list, then
cancel one by one; they overlap, and each may fail or die in between) and the workers of
`waitForExecutionConcurrency`. `ChildPipelines` has a tree of runs, their bridges,
`executeChildPipelineTrigger`, `ReconcileCompletedChildPipelines` (select, then settle
in transactions of their own) and the cascade. `WorkflowDispatch` names a run by the
chain of workflows that led to it, because the database's unique link does. `Scheduler`
keeps a pass's copy of the rows it claimed. In `CommitTriggers` a commit is a tree, what
it holds at each path, so that a later commit may bring back what an earlier one had
changed, and `Diff` is what `git diff` says of two commits: nothing of what came and
went between them. Commits are numbered as they are made; a branch may be moved back and
a commit be collected. A pass compares its two heads once and goes through all
workflows, as `processPolicy` does; each of its calls may fail, an enqueue also after
the run is in the table. `WebhookDeliveries` has a goroutine per request, a provider
that may hang up or send again, and calls that fail; `HooksGrouped` are the deliveries
whose workflow has a concurrency group, where `enqueueTriggered` may fail with the run
queued. `RunLineage` splits a request into lookup, evaluation and transaction, with the
triggers of migrations 0007 and 0008 in the last.

### Definitions and decisions

A text is kept only as far as decisions distinguish it. `Conditions` parses tokens;
`fmt.Sprint`, number parsing, order and regular expressions are tables over the texts
that are tried, so that equality of a number and a text is what the code makes of it.
`TriggerPolicy` has a push as the trees of its commits, with what its payload says of
them: which it lists, whether it gives their number, whether it names a commit to start
from and git has that one. The watch compares the two ends; the webhook takes what the
payload lists of each commit, or asks git for the two ends when paths matter, are not
told, and both ends are named (`AsksGit`). `MatrixExpansion` has both expansions, the
service's and the CLI's. `JobDecision` takes the answers of conditions and has the order
in which `evaluateJobExecution` asks. `JobGraph` starts from documents, follows `Parse`,
`mergeCI` and `normalizeDefinitionRecursive` with a stack of frames (one per child
pipeline) and removes jobs of degree zero in name order. `ReusableCalls` and
`CompositeActions` do the same for calls and actions; what was written where travels
with every text, so that a property can ask whether it is still read in that place.

### What serves a job or a request

`ContainerRunners` has the docker runner, the podman runner, and the podman runner over
docker's command, one per job of a local run: each call of the engine may fail, take
effect and be reported as failed, or meet the job's deadline, and names carry the second
in which they were made. `StepScripts` has the shells below them: one per step
(`bash.go`) or one per job (`buildJobScript`), with kinds of lines in the place of
commands. `RuntimeOutputs` has `runtimeOutputContext` from `newRuntimeOutputContext` to
`finishJob`, with retries, pauses and the file of a dotenv report; a value is the job,
attempt and step that wrote it, so that a property can ask whose it is; a step with
`always()` runs behind a failed one. `StepOutput` has the command, its two streams, a
capture goroutine per stream with one step per transaction, the copier of a container,
and a second attempt on the same step rows. `ContainerSession` has the setup in the
order of `newDockerJobSession`, docker calls that fail or lose their answer, the kill
behind a step that ran out of time, `Close`, and a retry. `RunData` has the restore,
build, capture, JUnit report and save of jobs of two workers and the janitor, with file
operations and rows as separate steps: `Record` is the row that is inserted or loses to
another, `RecordFails` the `INSERT` that fails or is not read again, whereupon the
archive is removed. `LocalRun` has both loops of `run`, with runners that cannot be
created. `ProjectReleases` has one step per database access of a handler. `AuditReport`
has the three queries of a page. `ServiceKeys` has the three steps in which a file is
made (`OpenFile` with `O_EXCL`, write, sync) for services that start at once.
`AdminSessions` has the cookie of a browser and what each tab was rendered with.
`JobSecrets` has the list and the reads of `ResolveProject` and of an environment's
secrets.

### MC modules

`MCRunStore` and `MCExecutionManager` (one run, two jobs, three steps, two process
ids; or two runs for one environment) give the constants values; the
configurations of `MCExecutionManager` give the same graph different features.
`MCService` gives `Service`, which holds its instances and its properties, the small
sets of two configurations; `MCComponents` holds all three for its parts and for those of
`Admission`. As a behaviour of these follows one part, the parts share the variables `x1`
to `x20` (`x12` in `Admission`), each as many of them as it declares; the others stay 0.
The three jobs of two
stages of `MCStageOrder` are at the end of `JobGraph`.

## Properties

Of the store: `TypeOK`; `WaitingRunHasOneWaker` (a waiting run has exactly one job
that can be woken, so there is no lost wakeup); `WaitRowsMatchJobs`;
`RunningRunIsClaimed`; `DecidedRunsStayDecided`; `CommandNeverReplayed`. That a run's
rows exist with it, `GraphExistsWithRun`, is part of the inductive invariant and proved.

Of the worker: `WorkerTypeOK`; `ClaimsAreHonoured` (status, claim and lease stay with
the worker while it executes, although recovery, the API and earlier processes act,
and it deploys only with the environment's lease); `NoWorkOutsideRunningRun`;
`SucceededRunIsHonest`; `JobsStartAfterNeeds`; `CommandsAreOrderly` (steps in order,
attempts within the policy); `ManagerSafety`, their conjunction; `RunsSettle`
(liveness); and refinement: `UsesStoreAsSpecified`, that the worker's behaviours
satisfy `StoreSpec`, so every invariant proved of the store holds of the system.

`SucceededRunIsHonest` states an exception that the code makes: a job whose
deadline passes right behind `isCancelled` is cancelled although nobody cancelled
the run. If the process dies before the run is closed too, the next worker finds a
cancelled job, takes it for finished and reports the run as succeeded. The
property pins that exception to jobs with a timeout.

The properties of `Service`, `Admission` and `MCComponents` are conjunctions, by promise, of
the named properties of their parts:

| property | promise | parts |
|---|---|---|
| `TrustIsBacked`, `LeasesExpire` | nobody trusts a lease that another took over; both users of leases implement `ExpiringLease` | lease, gate, groups |
| `DeploymentsAreHonest`, `DecisionsAreFinal` | one deployment at a time while heartbeats are punctual; histories are one path; an approval is decided once | gate |
| `GroupsKeepOneRun` | superseding leaves the newest run of a group, unless two callers or a waiting older run crossed; of two pending runs one is about to go, unless who had to see to it was cut off | groups, dispatch |
| `PipelinesAgree` | a run waits exactly while a bridge does; mirrors are honest | pipes |
| `EventsStartOneRun`, `NothingIsLost`, `EventsAreRun` | an event starts one run at most; a commit that is recorded was run by every workflow whose paths differ from the last recorded one, an answered delivery was run or is known as not accepted; what is due is run in the end | schedules, commits, webhooks, dispatch |
| `RequestsAreAnswered`, `ReplaysTerminalSource` | a key names one run and the answer is what was asked; what was found eligible is enqueued or loses to another | lineage |
| `WaitersAreServed` | no run waits for ever for an environment, group or child; a revoked deployment stops | gate, groups, pipes |
| `MatrixRunsWhatItSays`, `ConditionsMeanWhatTheySay`, `JobsStartAsWritten`, `CronMeansItsFields` | an algorithm agrees with a definition stated without its loops | decisions |
| `FiltersAdmitWhatTheySay` | the last pattern decides; paths are asked for wherever they matter; where webhook and watch disagree on a push, the payload says why | trigger policies |
| `GraphsAreWhole` | discovery, calls, actions and copies lose no job, need, step or scope, and refuse only cycles that exist | graphs |
| `LocalRunIsHonest` | order, width of levels, exit status and end of a local run; what failures stop, which is not the same one by one and in parallel; runners clean up, run each job's own script and report no success that was none; steps keep to themselves, the runners agree on portable jobs | local run, runners, scripts |
| `OutputIsKept` | the log is whole and masked, sections nest; steps end; sessions leave nothing behind and find their services; what steps hand on is of the right attempt and job, and none is dropped | output, containers, runtime outputs |
| `RunDataIsWhole` | archives and rows name each other across crashes and retries (but for a row that could not be read again), entries are immutable, branches, runs and attempts are kept apart | run data |
| `ReleasesAreWhatWasBuilt` | a release is what was built and tagged and stays once published; the audit log tells it, and its pages skip nothing | releases, report |
| `LoginsHoldTogether` | services of a directory agree on its keys; a change goes back to a login that was not logged out | keys, sessions |
| `SecretsAreOfTheirTime` | a run that reads secrets while they change gets values they had, and those of an environment only with leave | secrets |

The code does not keep some of these promises in every case. Where it does not, the
conjunct itself names the exception, never only a configuration, and the behaviour is told
[below](#other-disagreements). Five conjuncts speak of punctual heartbeats, of fresh lists,
of an unedited definition or of a source that is not played again: `Prompt` and
`Grouped = {}` in `OneDeploymentAtATime`, `ListsStayFresh` in `WaitingParentHasBridge` and
`TreeSettles`, `revision = 1` in `EligibleIsEnqueued` and `reopens = 0` in
`ReplaysTerminalSource`. Others name the very runs or deliveries that were affected, by
variables that only remember: `crossed` (the newest run of a group came while another
caller was about to list, or an older run that waits asked it to give way), `stray` (a run
whose superseding was cut off, or which ran then and is queued again), `dropped` (a
workflow that was not active for a time), `hurt` (a delivery whose request failed, hung up
or died), `abandoned` (what an interrupted or failed writer of run data left). The runs let
all of these happen, two workers and overlapping callers included.

## Runs

| run | module, configuration | distinct states | shows |
|---|---|---|---|
| `store` | `MCRunStore` | 705 000 | the store properties against callers in any order |
| `pipeline` | `MCExecutionManager`, `MCPipeline` | 343 000 | retry, timeout, container setup, publishing, rule leave, a gated second job, one fault |
| `manual_jobs` | `MCExecutionManager`, `MCManualJobs` | 215 000 | an optional manual deployment played after success, a blocking manual job, a gate, a retry, a timeout, one fault; liveness |
| `two_runs` | `MCExecutionManager`, `MCTwoRuns` | 203 000 | two deployments of two runs compete for an environment, and both runs settle; their safety is `ManagerIsSafe` |
| `service` | `MCService` | 515 000 | the safety of each component that starts, gates or ends runs, with overlapping callers, edits, synchronisations, crashes and failing calls |
| `service_live` | `MCService`, `MCServiceLive` | 72 000 | what these must do in the end; that nothing is lost when calls fail, die or hang up; safety that needs longer histories of fewer actors |
| `components` | `MCComponents` | 624 000 | decisions over all small inputs; what serves a job or a request |
| `stranded_cancel`, `pending_graph`, `stale_lease`, `rule_allow` | `MCExecutionManager` | | [findings](#findings) 1 to 4, each a violated property |
| `stage_order` | `JobGraph`, `MCStageOrder` | | finding 5 |

Deadlock is checked in the runs of the store and the worker: a store with all runs
decided still answers releases, and a worker with nothing to do keeps polling. The
others switch it off, because a decision has no next step, a local run ends, and
requests and faults are used up.

## Bounds

- `MaxAttempts` caps `job_attempts`, by job. In `store` the job with a step may have
  one attempt, because attempts touch other state only through `ResetJobForRetry`,
  which one attempt reaches. In the worker's runs it is 5 (4 in `two_runs`), above
  what policy and faults allow, so it is never the reason why a step is disabled.
- `...MaxFaults` caps crashes and failing calls, per part. One fault can fall between
  any two steps; the liveness of child pipelines uses two, so recovery itself is hit.
  `...MaxErrors`, `MaxHangups`, `MaxFailures` cap refusals of single calls,
  `...MaxEdits`, `...MaxSyncs`, `MaxReopens`, `MaxMoves`, `MaxRekeys` what operators
  do, `MaxSends`, `MaxRequests`, `MaxServed`, `MaxLogins` what clients ask for,
  `MaxClock`, `MaxNow`, `MaxTime`, `MaxPages`, `MaxMade`, `MaxKeys`, `MaxRuns` the
  values that grow. Each is at least two where two of a kind can meet (two
  requests, two logins, a key and its successor, two pages and the end of the list).
- `service_live` leaves out what its questions do not need: schedules and workflows are not
  edited there, so that `NothingIsLost` meets a synchronisation during a dispatch only in its
  proof; edits of a commit policy are in both runs.
- Cycles are bounded by the code's own limits, made small: `MaxDepth` (chains of
  workflows, nesting of calls and actions), `MaxJobs`, `MaxChildren`, `MaxUnique`,
  `PageSize`, `BucketCount`, `MaxParallel`; inputs reach each limit and pass it.
- `Cancellable` lists the runs an operator may cancel.
- Two worker ids are enough: a restart has the id of the dead process or not. The
  `store` run declares them symmetric, the `service` run its workers, two workflows and two
  requests (`Alike`), which no constant tells apart and which only safety is asked of; a
  liveness run never uses symmetry.
- Two jobs, one of which needs the other, give each rule of the job loop a
  predecessor and a successor; two steps give each rule of the step loop the same.
  Two runs of a group with a caller each are the least that can cancel each other, and two
  workers are the least of which one waits for the other; three members of a family have one
  that is parent and child.
- Three commits over two paths, the second of which is undone by the third, tell the
  difference of two heads from what was touched between them; the branch moves on between
  any two polls or is moved back. Pushes of two commits over trees of two contents do the
  same for webhooks.
- Leases and sessions last one or two ticks: a lease is renewed, about to lapse, or
  lapsed.
- Decisions are checked over all inputs of a small grammar: matrices of two
  dimensions with an include and an exclude, expressions of up to three operands,
  cron fields of a calendar of two minutes and two hours, patterns over two or three
  names, graphs of up to three jobs with up to two levels of files.
- Two jobs of one name or of two share an engine, a second or both; three kinds of
  lines in a step and two steps in a job show what one step leaves for the next; runs of
  two and three jobs with up to two attempts show what one job leaves for another.

## Fairness

Worker: `FairSpec` assumes that a live worker keeps taking steps (`WF` of
`WorkerStep`: `Manager.Run` loops and polls with a ticker), that a stopped service is
started again (`Restart=on-failure` in `deploy/git-ci.service`), and that clocks
advance (leases expire unless they are renewed). Nothing is assumed of operators, of
gates, of the heartbeat, or of faults, which are finite. `RunsSettle` therefore
counts a run that waits as settled, and it also excuses a queued run with a pending
cancellation request, which is finding 1.

Service: the same for each loop and its clock. `DeploymentGate` needs strong fairness
of resuming and claiming one particular run: both are enabled again and again while
other runs are resumed or claimed, and the loop visits all waits and takes the oldest
run. `ConcurrencyGroups` assumes that callers finish (a caller is one function),
`CommitTriggers` that the poller's ticker goes on, `Scheduler` that its pass and its
clock do. `ContainerSession` assumes that a kill that was sent lands. `StepOutput`
assumes that the program goes on unless it blocks on output and that each capture
goroutine runs. `LocalRun` and `StepScripts` have weak fairness of their next step. Requests of clients
have none: they may hang up anywhere.

## Proofs

`ExecutionManager_proofs` proves of the store for every set of runs, jobs, steps and workers, of any
size, and every `MaxAttempts`:

| theorem | statement |
|---|---|
| `TypeCorrect` | `StoreSpec => []TypeOK` |
| `StoreInvariant` | `StoreSpec => []StoreInv` |
| `WakerAlwaysExists`, `WaitRowsAlwaysMatch`, `GraphAlwaysExists`, `RunningAlwaysClaimed` | its parts |
| `DecidedRunsAreFinal` | `StoreSpec => DecidedRunsStayDecided` |
| `CommandsAreNotReplayed` | `StoreSpec => CommandNeverReplayed` |

Assumed are only `GraphAssumption` (each job belongs to a run, each step to a job),
`NoneAssumption` (NULL is not a worker id) and `BoundAssumption`.

`StoreInv` is the conjunction of the type invariant and the four relations. None of
these is inductive alone. That a waiting run has a parked job survives `ResumeJob`
only because there is exactly one, and there is exactly one because a run that
parks was running and had none; `WaitRowsMatchJobs` is what makes `ResumeJob`'s run
a waiting one. Each conjunct has its lemma with one case per action: `TypeStep`,
`GraphStep`, `WakerStep` (on `NothingParked` and `OneJobParked`), `WaitRowsStep`.
The two action theorems follow from the invariant, again by cases:
`DecidedRunsAreFinal` needs `WakerStep`'s part that a parked job's run is waiting
or cancelled, and that recovery selects running runs only.

It proves of the worker for any runs, jobs, steps and workers, any job graph, retry
policy and number of faults:

| theorem | statement |
|---|---|
| `ManagerInvariant` | `Spec => []ManagerInv` |
| `WorkerTypeCorrect` | `Spec => []WorkerTypeOK` |
| `ClaimsAreAlwaysHonoured` | `Spec => []ClaimsAreHonoured` |
| `NoWorkIsLeftBehind` | `Spec => []NoWorkOutsideRunningRun` |
| `SuccessIsAlwaysHonest` | `Spec => []SucceededRunIsHonest` |
| `CommandsAreAlwaysOrderly` | `Spec => []CommandsAreOrderly` |
| `ManagerIsSafe` | `Spec => []ManagerSafety`, the four above |
| `JobsAlwaysStartAfterNeeds` | `Spec => JobsStartAfterNeeds` |
| `WorkerImplementsStore` | `Spec => UsesStoreAsSpecified`, that is `StoreSpec` |

`ShapeAssumption` is added to the store's assumptions: the lists `JobSeq` and `StepSeq`
name each job of a run and each step of a job once, needs are jobs, the deployment
jobs are jobs, retries are 0 to 2 (`boundedRetryCount`) and NULL is no run id.

The invariant has the following parts, each with a lemma that no step breaks it.

| part of `ManagerInv` | why it is needed |
|---|---|
| `StoreInv` | carried over by `StoreRefinement`, which needs the next three: `TransitionRun` and `PauseJob` are allowed to callers that hold a running run |
| `WorkerShape`, `DeployTypeOK` | the position fits the program counter: there is a current job wherever the code reads it, and it belongs to the run |
| `RunIsHeld` | recovery requeues expired runs only, and the worker that gives up a run has no claim on it any more; it includes the pc `lease`, where the run is claimed and not yet leased |
| `EnvironmentIsHeld` | from the first attempt to `LeaveJob`, not just while a command runs |
| `OnlyCurrentRuns` | what makes a decided run free of running jobs: nothing but the job (and the step) under the program counter runs in the worker's run |
| `NotesAreTrue` | `p.seen` is what `jobStatus` says, up to the position: nobody changes a job behind the worker's back, so `FinishRun` decides on the table |
| `PassedJobsAreOver` | the closing passes leave only jobs that are over, and a job that is retried had failed within its policy |
| `DecidedRunsAreOver` | the second half of `NoWorkOutsideRunningRun` |
| `ManualJobsWait` | no step of a job has started before its play, so that a play cannot put steps out of order |
| `LeaveIsGiven`, `FailuresMayBe` | leave to fail in `p.tolerated` comes from the definition |
| `SuccessIsEarned` | in the middle of a job: every step behind the position is good unless `jobFailed` is set |
| `CancelledForAReason` | a worker that has cancelled a job without a deadline is on its way to cancel the run, and a requested run is not claimed again |
| `StepsInOrder` | in the middle of a job: every step behind the position is over |
| `AttemptsAreCounted` | a job that is not over has an attempt to spare, unless the worker is in one |
| `NeedsAreMet` | between the choice of a job and its start, over every store call in between |

The proofs of the steps do not look into the actions. For each action a lemma
(`...Moves`) says what it does to the local variables and which transaction it makes;
frame lemmas bound what a step can disturb (`ElsewhereFrame` for operators and time,
`AtJobFrame` for the worker, `JobChanges` and `StepChanges` for the tables). To make
this possible `p.skips` holds positions, `ShapeAssumption` says that lists are
without repetition, and TLC checked every part of `ManagerInv` as an invariant of the
runs `pipeline`, `manual_jobs` and `two_runs` before it was proved.

`ExpiringLease_proofs` proves for any clients and any time to live that the row
backs whoever trusts it (`LeaseIsBacked`) and that two clients never work under one
lease (`LeaseIsExclusive`), from `TTLAssumption` and `NoClient`. The inductive
invariant says that what a client still trusts is at most what is left in the row and
that the row names that client: exclusion alone is not inductive, because it says
nothing of the client that is about to take a lapsed row.

`ConcurrencyGroups_proofs` carries this over to the workflow concurrency groups:
`GroupImplementsLease` is the refinement `Spec => ImplementsLease` for any runs,
workers and settings, whatever crashes, with `TTL \in Nat` as its only assumption. Each
worker's step maps to `Acquire`, `Release` or `Forget` of the pair (run, worker), or to
a stutter. The argument needs `GroupInv`: a worker that idles, waits or is dead trusts
nothing, so that the run in its entry may change without a trace in the lease, and one
that executes or releases has a run.

`DeploymentGate_proofs` proves, for any jobs, workers and policies and any number of
edits and faults:

| theorem | statement |
|---|---|
| `GateInvariant` | `Spec => []GateInv` |
| `GateImplementsLease` | `Spec => ImplementsLease` |
| `DecisionsAreAlwaysFinal` | `Spec => DecisionsAreFinal` |
| `DeploymentsAreAlwaysHonest` | `Spec => []DeploymentsAreHonest` |

Their hypothesis `Sensible` says that a lease lives for at least one tick, that the
first policy is a policy and that NULL is no job and no lease holder. That a
deployment is what its job became is not inductive: between the job's end and
`TransitionDeployment` the two differ, and how far they may is a matter of where the
worker is (`WorkerFits`) and of what an operator's cancellation may do meanwhile
(`JobFits`). Each action has a lemma on the worker that takes it, and `JobStep`
bounds what it can disturb for all other jobs. Exclusion is not proved again: the
gate is mapped to `ExpiringLease` with the pairs (job, worker) as clients, and
`ExpiringLease_proofs` is instantiated under that mapping, so that `LeaseIsExclusive`
speaks of the gate. What is added is `TrustInv`, that a worker that deploys still
trusts its lease when heartbeats are prompt and no wait for a group lies between.

`ChildPipelines_proofs` proves for any runs and workers and any number of faults:

| theorem | statement |
|---|---|
| `PipelineInvariant` | `Spec => []PipelineInv` |
| `PipelinesAlwaysAgree` | `Spec => []PipelinesAgree` |

The hypothesis `Tree` says that each child has one parent, that mirrored bridges are
bridges and that NULL is no run; depth and width are free. That a parent succeeds only
if its mirrored children did needs that the worker passed finished bridges only
(`PassedBridgesEnded`) and that no bridge of a running parent is cancelled
(`BridgesTellTheOutcome`). That a waiting parent has a bridge to wake it needs that it
has just one (`OneBridgeWaits`) and that what a reconciler has listed is still
waited for (`ListsAreFresh`). The last one fails with two workers and two mirrored
bridges of one parent; this is how the divergence [below](#other-disagreements) was
found, and why `ListsStayFresh` is a condition.

The answers to repeated requests are proved for any clients, keys and bounds, without
an assumption on the constants:

| module | theorem | statement |
|---|---|---|
| `Service_proofs` | `DeliveryStartsOneRun` | `ServiceSpec => []Hooks!DeliveredOnce` |
| | `SettledRowsStayHonest` | `ServiceSpec => []Hooks!SettledRowsAreHonest` |
| `RunLineage_proofs` | `LineageInvariant` | `Spec => []LineageInv` |
| | `KeyAlwaysNamesOneRun` | `Spec => []KeyNamesOneRun` |
| | `AnswersAreAsked` | `Spec => []AnswerIsWhatWasAsked` |
| | `OneReplayIsLive` | `Spec => []OneActiveReplay` |
| | `AnswerInvariant` | `Spec => []AnswerInv` |
| | `RequestsAreAlwaysAnswered` | `Spec => []RequestsAreAnswered` |
| | `EndedSourcesAreReplayed` | `Spec => ReplaysTerminalSource` |

That a delivery starts one run is not inductive: a second request could be about to
start the next one. `DeliveryInv` adds that one request at most works for a delivery,
that its row is `received` meanwhile, and that each place of that request knows whether
the run was started. `LineageInv` states the unique key and the triggers of
`run_lineage` by position and ties each answered request to the row of its key
and source; the theorems on keys, answers and live replays follow from it. `AnswerInv`
adds what lies between evaluation and transaction: a source that was found eligible
stays ended unless it is played (`EndedSources`), and only a taken key makes a refused
request look again, unless the definition was synchronised meanwhile
(`RefusedHaveRows`). The run `service` checks the same properties on small
instances, those of webhooks as part of `EventsStartOneRun`.

`Service_proofs` proves of the composition what the runs `service` and `service_live`
check of it:

| theorem | statement |
|---|---|
| `DeploymentsStayHonest` | `ServiceSpec => []DeploymentsAreHonest` |
| `DecisionsStayFinal` | `ServiceSpec => DecisionsAreFinal` |
| `BothLeasesExpire` | `ServiceSpec => LeasesExpire` |
| `PipelinesKeepAgreeing` | `ServiceSpec => []PipelinesAgree` |
| `RequestsStayAnswered` | `ServiceSpec => []RequestsAreAnswered` |
| `SourcesStayEnded` | `ServiceSpec => ReplaysTerminalSource` |

Whatever part a behaviour follows, each component sees steps of its own or none, so
the service implements its specification (the lemmas `GatePart` to `HooksPart`, one for
each part). `Service` instantiates the modules that hold a component's theorems, which
then speak of the component's variables in the service. Their hypotheses are the
assumptions `LeasesLive`, `PipesTree` and `EventsSensible` on the constants of
`Service`, which TLC evaluates in both runs: leases live, a child has one parent,
every schedule recurs, commits are numbered from 1, targets are workflows, NULL is no
delivery. The composition adds no step in which two components act together; that is
what `ExecutionManager` is for.

What starts runs has its invariants in `Service_proofs` itself:

| theorem | statement | inductive invariant |
|---|---|---|
| `SchedulesStartOnce` | `Coordinated => (ServiceSpec => [](Sched!ScheduleTypeOK /\ Sched!DueTimesStartOnce))` | `SchedInv` |
| `CommitsRunOnce` | `ServiceSpec => [](Commit!TriggerTypeOK /\ Commit!CommitRunsOnce)` | `CommitInv` |
| `ChainsAlwaysEnd` | `ServiceSpec => [](Dispatch!DispatchTypeOK /\ Dispatch!ChainsEnd)` | `DispatchInv` |
| `EventsAlwaysStartOneRun` | `Undisturbed => (ServiceSpec => []EventsStartOneRun)` | these, `GridInv`, `DeliveryInv` |
| `GroupsAlwaysKeepOneRun` | `ServiceSpec => []GroupsKeepOneRun` | `SurvivalInv`, `DispatchInv` with `OnePendingPerGroup` |
| `NothingIsEverLost` | `ServiceSpec => NothingIsLost` | `DispatchInv`, `StartedInv`, `CommitInv`, `WatchInv`, `DeliveryInv`, `AnsweredInv` |

`SupersedingLeavesARun` of `ConcurrencyGroups_proofs` is the part of
`GroupsAlwaysKeepOneRun` that is about workflow groups: `Sensible => (Spec => [](GroupTypeOK
/\ NewestRunIsLeft /\ OnePendingRun))`, for any number of callers that overlap, fail and
die. `Sensible` says that runs are numbers and that a lease lives some number of ticks.

Two of these theorems have a hypothesis, a condition under which the code keeps the promise;
without it it does not, as [below](#other-disagreements), or the words of the property do not
apply. Both hold in `MCService.cfg`, where TLC checks the same properties.

| hypothesis | says | without it |
|---|---|---|
| `Coordinated` | one service, or nobody edits a schedule | an edit drops the claim of a pass at work, and another service starts the due time again |
| `Undisturbed` | no enqueue of a schedule fails, no schedule is edited, the operator acts at most once | a failed start is retried a minute later and its time is passed over; an edit starts the count afresh |

None of these properties but `OnePendingPerGroup` is inductive. What `SchedInv` adds to "no
due time starts twice" is that a schedule is in flight in one pass only, that its row cannot
be claimed meanwhile (`OneFlight`), and that what is in flight or may be claimed is later
than all that was started. `GridInv` says which occurrence each of them is. `CommitInv`
says that a pass that is about to enqueue has not done so yet. `WatchInv` is the loop
invariant of `processPolicy`: a pass that has resolved a new commit has the difference of the
two heads, and every workflow whose filter meets it is still to be checked or has its run of
that commit; that the policy may be edited and the branch be moved while the pass is at work
does not matter, as it goes by what it read. `StartedInv` is the loop invariant of
`dispatchCompletedWorkflow`: a target that the worker has dropped has its run or was not active
for a time, so that only a finished dispatch is marked, and `DispatchInv` says that a worker's
source is a run that has ended and is not too deep, also if another worker has marked it
meanwhile. `AnsweredInv` says that a delivery's row is settled, is in the hands of one request,
or belongs to a request that was cut off, and that a failed one is never answered as accepted.
`SurvivalInv` says that runs come in their order and nobody knows of one that has not come, that
the newest run is neither flagged nor in anybody's list, and that no
caller but its own is about to list, unless callers or a waiting run crossed; and that of two
runs that could be claimed one is about to be cancelled by the other's caller. That a run which
is enqueued while no other caller is about to list stays out of every list is where the order
"insert, then list" of `enqueueTriggered` counts.

`Admission_proofs` proves for any policies and pushes, any contracts of jobs, any
number of services, tabs, logins and mishaps:

| theorem | statement |
|---|---|
| `JobsAlwaysStartAsWritten` | `AdmissionSpec => []JobsStartAsWritten` |
| `LoginsAlwaysHoldTogether` | `AdmissionSpec => LoginsHoldTogether` |
| `WebhooksDisagreeForAReason` | `AdmissionSpec => []`(the conjuncts of `FiltersAdmitWhatTheySay` but `LastPatternDecides`) |

`AdmissionSpec` lets a part that is elsewhere do what it likes, so every behaviour of
the run `components` is one of it and the theorems speak of that run too. They assume
that needs and contracts have the shape in which they are frozen (`DecisionSensible`),
that NULL is no number and no file (`KeysSensible`), that a session lasts some number of
ticks (`SessionsSensible`), and that a push is a sequence of commits, any number of
them, with what its payload tells (`PushesSensible`). What a decision is does not depend
on the step that takes it, so `JobsStartAsWritten` follows from the shape of the input;
its lemmas compare two decisions, one of them about an altered job, and rest on
`OneDecides`: at most one rule decides. `WebhooksDisagreeForAReason` rests on what
relates the two ways in which paths are told: a path in which the ends of a push differ
was touched by some commit of it, the first after which it differs (`LeastOne`,
`SomeCommitTouched`), but not the other way round. So the webhook admits what the watch
admits whenever its payload tells every commit and stands on the old head, and its net
difference from git is the watch's own. That services agree is not inductive. `KeysInv`
adds what each has in memory by how far it has come (`HeldSoFar`), that a file under the
pen holds the secret its writer drew and is not whole (`WritersOwn`), that a secret that
was drawn is nowhere else until it is written (`DrawnIsFresh`), and that a token that is
not told yet is known to its maker only (`TokensAreUntold`), a file that was cut short
included. `SessionsInv` adds that a login whose cookie is still to come has not been
used (`PendingIsUnused`) and that the cookie is of a login, with its key and its end,
and of none that was logged out (`CookieIsOfALogin`).

Only model-checked: liveness of the worker and of the services (the prover has no rules
for fairness here), `LastPatternDecides`, `SecretsAreOfTheirTime`, and the other
components of `MCComponents`. Most of theirs are recursive functions and folds compared
with references over all inputs of a grammar (`MatrixExpansion`, `Conditions`,
`JobGraph` and others): what those compute for every input is an induction over data,
which the provers here cannot do; so is the order in which a run's secrets are listed.
The other properties of `MCComponents` are properties of one job or one request, which
small instances cover well.

## Findings

1. **A cancellation can get stuck** (`stranded_cancel`, `CancellationCompletes`).
   `executeRun` reads the flag once per job. A request that arrives between that
   read and `PauseJob` finds the run `running`, sets the flag and leaves the rest
   to the worker; `PauseJob` then parks the run. When the gate opens, `ResumeJob`
   queues it, but `ClaimNextQueuedRun` takes only runs without the flag. Asking
   again returns early because the flag is set. A crash that makes recovery requeue
   a flagged run ends in the same place.
2. **A cancelled run keeps a pending job** (`pending_graph`,
   `CancelledRunHasNoPendingJob`). The transaction that cancels a waiting run
   updates jobs that are queued or waiting, not the blocking manual job it waits
   for.
3. **A stale lease meets a new claim** (`stale_lease`, `LeaseMatchesActiveClaim`).
   `PauseManualJob`, unlike `PauseJob`, leaves the lease row. After a crash before
   the release, a play and a claim by a process with another id, the first
   heartbeat is refused and the service stops with an error, again and again until
   the old lease has expired.
4. **Leave to fail from a rule is forgotten** (`rule_allow`,
   `RuleFailuresAreAllowed`). It lives in a local map of `executeRun`; when a later
   job pauses the run, the next pass reads the static `allow_failure` only, and a
   tolerated failure fails the run.
5. **Stages impose no order** (`stage_order`, `StagesAreOrdered`).
   `internal/compatibility/registry.go:99` promises that stage ordering is normalised
   into the graph. `normalizeDefinitionRecursive` makes edges of needs only, so jobs
   of a file without `needs` run in the order of their names.

## Other disagreements

Met while modelling, outside of the runs that show a violation: what a property
excuses, or what a document promises and the code does otherwise. The code is named
by its function.

Leases and groups:
- The heartbeat of an environment's lease starts after the wait for the job's group
  (`prepareDeploymentJob` and `acquireJobConcurrency` in `executeRun`); the lease may
  lapse in that wait and the job then fails with "lease ownership was lost".
- `cancelSupersededConcurrencyRuns` lists and cancels in separate transactions. Two
  runs enqueued at once may cancel each other, so that none is left, and a run that was
  claimed between is cancelled although it had begun. `waitForExecutionConcurrency` with
  `cancel_in_progress` lets an older waiting run cancel a newer holder. A caller that fails or
  dies between insert and cancellation leaves two pending runs, as does a run that was running
  when others were superseded and is requeued by recovery.
- `enqueueTriggered` supersedes when its run is in the table. If that fails it returns an
  error and the run is queued all the same: a webhook's delivery is recorded as failed and has
  its run, a check of commits is repeated.
- A run that is cancelled while requeued leaves its deployment `running`, because
  `cancelRemaining` skips the job without its deployment.

Runs that start runs:
- `ReconcileCompletedChildPipelines` works on a list that may be stale. With two
  workers and two mirrored bridges of one parent, both may list the first bridge;
  one settles it and goes on to start the second, the other then finds the bridge
  settled, updates nothing there, and requeues the parent all the same, which waits
  for the second bridge by now (the two updates have a guard each). The parent is
  then claimed, met with a bridge that still waits, left `running` and recovered,
  over and over; as it is never `waiting` again, no reconciler finds its bridge.
  The comment promises that calling it before every claim "makes a crash after child
  completion recoverable".
- A bridge that is prepared after the last look at the cancellation flag starts its
  child all the same; the child is cancelled with the next cascade, if there is one.
- `dispatchCompletedWorkflow` supersedes runs only for a link it has just made, so a
  crash between the two loses the supersede. A target that cannot be validated fails
  the dispatch each time, and the targets behind it are never started.
- `ClaimDueWorkflowSchedules` does not take back a claim that a dead process left; the
  schedule rests until it is edited. A schedule deleted during a pass ends the pass.
  The update at the end of a pass writes back what the pass had read: it re-enables a
  schedule that was disabled meanwhile, also that of a project whose deactivation is
  documented to disable it (`docs/API_V1.md:135-139`), and the run of a claimed
  schedule starts in a deactivated project.
- An edit of a schedule drops its claim while a pass works on it. With a second service
  a due time may then start twice, or a later one before it (TLC finds the starts
  1, 2, 2 and 2, 1), although the comment of `ClaimDueWorkflowSchedules` has the claim
  "remain durable" until `UpdateWorkflowSchedule` records the next run: the operator's
  edit is the same call as the pass's. A pass that fails on a deactivated project sets the next run one minute
  after its own time, so that after a reactivation a run may start at a time that the
  cron expression does not name.
- `processPolicy` compares with the last seen commit. When that commit was
  collected, or one workflow cannot be enqueued, the check fails on every pass.
- `changedPaths` compares the last recorded head with the present one. A change that is
  undone before the next poll is in no difference: the commits are recorded and no workflow
  with a path filter runs, also if the change alone would have started it.
- `Deliver` records a delivery first. If the request then fails or hangs up, the
  provider's retry is answered as a duplicate and no run starts.
- Webhook and watch may decide differently about one push. `collectChangedPaths` joins the
  paths of every commit, so that a webhook runs a workflow for a path that the push changed and
  restored, and misses a path that a forced push took away. A payload without `size` is read as
  one of 0 commits, so a list that is cut short passes for the whole. Without a list that is
  whole, `Deliver` asks git only if both ends are named; a `before` that git refuses (the zeros
  of a new branch, a commit the checkout has not) fails the delivery, and one that is missing
  admits no workflow that filters paths.
- `EnqueueReplay` evaluates eligibility outside of its transaction: a
  synchronisation or a play in between turns an eligible source into an error. The
  replay of a job that triggers a child is offered and then refused. Rollback targets
  are documented to be of the same workflow (`docs/API_V1.md:215`); only project and
  environment are compared.

Decisions:
- `README.md:293` counts four jobs for its matrix; its include extends a combination, so
  three are made. The CLI applies includes before excludes, the service after.
  `formatMatrixJobName` "creates a unique name", which two combinations may share.
- `matrix.x == 1` is false for a coordinate written `"1"`; the order of values of
  mixed types is not transitive.
- In `evaluateJobExecution`, GitLab's `when: on_failure` and `when: always` give no
  leave to start behind a failed need, a rule whose condition errs is passed over,
  rules with `changes` or `exists` are refused at run time although
  `compatibility/registry.go:102` lists them, and `except:` without refs excludes
  every run. `failure()` and `success()` look at direct needs only.
- A `PATCH` of an environment writes every field, also those it did not name.

Discovery:
- `dependencies` makes an edge only for a job without `needs`; `extends` is read and
  never resolved (`compatibility/registry.go:110` says it is); files included by an
  included file are not read; variables, stages and defaults of an included file
  count only where the main file has none; `default:` loses tags, timeout and
  interruptible.
- A call of a reusable workflow copies its `if` to every child and does not unwrap
  `${{ }}` when it joins two conditions; outputs of the called workflow are not
  mapped (`compatibility/registry.go:89`); `continue-on-error` of the caller reaches
  the last jobs only; its environment, timeout and concurrency are dropped; a secret
  passed by expression is looked up among the callee's; a null input takes the zero of
  its type and not its default. With `always()` on a caller every child runs.
- In a composite action an output of the workflow's step, passed as an input, is
  captured by the action's own step of the same id.

Output and containers:
- A line longer than a mebibyte ends the capture of its stream: a command on the host
  blocks until it is cancelled, one in a container for ever, as does a cancelled
  container command that still has output. A line of stderr may be stored before a
  mask that stdout set earlier. A retried job opens sections on the rows of the first
  attempt, which may be closed by the second.
- A job container without services is named `-job`, which docker refuses. Names are
  cut to 63 characters and lose their time stamp, so a leftover container blocks the
  retry. A step that runs out of time kills the container of the whole job behind it.
  A crash leaves containers and networks: their label is never looked up.

Run data:
- Any error of `CreateArtifact` or `PutCacheEntry` removes the archive, also when the row was
  inserted and only reading it back failed. The row then has no archive: the key of the cache
  stays taken, so that a restore warns (a declared cache) or fails the step and nothing is ever
  saved under it again, and the artifact cannot be fetched while a retry of its job conflicts
  with the row. A JUnit report that cannot be read fails the job behind its artifact, with
  which the retry then conflicts.
- `cacheRefs` returns the refs in the order of their text, so the default branch may
  be asked before the run's own. An artifact of a failed attempt makes its retry fail
  on the name, and with `when: on_failure` stays after the retry succeeded; two jobs
  with artifacts of one name conflict. A cache with `when: on_failure` or `always` is
  never saved after a failure. `expires_at` is not enforced. Archives without rows and
  temporary files survive a crash; `CleanupRecovered` removes the temporary directory
  that another process is filling. `cache: key: files:` becomes one constant key and of
  several caches the first is kept.

Records:
- Two edits of different fields of a release: the later writes back the field that the
  earlier changed. A tag may move between its resolution and the release. Audit events
  are written after the change, without a look at the error: a hang-up loses one, a
  publication that is repeated writes another, and their order need not be that of the
  changes.
- The window of each page of the audit report ends at the time of its request: an
  event may appear on two pages, never on none, as long as the client reads until a
  short page; one that stops by `total` may miss some.
- A start that reads a key file while another makes it fails; a crash in the middle of
  a file makes every later start fail until it is removed. The secret key has no retry
  when the file appears under it, unlike those of `auth`. A token made in a start that
  fails later is never shown.
- `DELETE /api/v1/session` is documented to end a session (`docs/API_V1.md:43`); it
  clears the cookie, and the token stays valid until its time. A logout in one tab
  beside a login in another may clear the new session.
- A secret deleted between the list and its read fails the run. A job of an
  environment reads the project's secrets again, so that jobs of one run may have
  different values.

Outputs of steps:
- A paused run goes on with a new `runtimeOutputContext`: outputs and dotenv reports of
  the jobs before the pause are empty for those behind it. An attempt that cannot be set
  up leaves the outputs of the one before.
- A matrix job also keeps its outputs under its source key, which is nobody's need:
  needs are the keys of instances. A job's condition and group are evaluated while
  `context.steps` still holds the steps of the job before.
- A dotenv report is whatever file lies in the workspace, also of an earlier attempt or
  job. An empty one leaves the variables of the first attempt.

Local run:
- `docs/VALIDATION.md:48` has "failing step -> exit 1"; with
  `--continue-on-error` the sequential loop of `run` ends with exit 0 all the same, but a
  runner that cannot be created ends it with an error at once, whatever the flag says.
- `compatibility/registry.go:106` has scripts executed with their "allow-failure contracts".
  `runJobsParallel` does not look at `AllowFailure`, unlike `runJobsSequential`: with `--parallel` any failure sets the exit
  status and, without `--continue-on-error`, no job of a later level starts, needed or not.
- In a container a step that is to continue on error and is written as a block
  (`run: |`) ends the job: ` || true` lands on a line of its own, which is no command.
  Without the line feed it forgives the last line only. Exports and directories of a
  step stay for the steps behind it, and `exit 0` ends the job with success.
- The bash runner looks at the job's time between two steps only, and at
  `config.Timeout` only. The deadline of a step kills its shell, and `executeCommand` goes
  on to wait for the output of what the shell has started; attempts of a retry have no
  deadline. `failure()` is never true there, and containers ignore conditions.
  `parsers/gitlab.go:794` has an after_script "typically run regardless"; no runner runs
  a step behind one that failed.
- The podman runner passes over `uses`, starts no services over docker's command, and
  when `wait` fails reads the exit code of a container that may still run, which is 0.
  Its script is a file named by the second, which two parallel jobs may share. The docker
  runner notes a service only once it has started, and ignores `AllowFailure`, which the
  podman runner honours.
- A sequential run keeps the containers of all its jobs until it ends.

## Mutants

Definitions marked "Mutant" stand before the definition they vary and are not used
by any specification. Each is a bug that could have been made there: a dropped
guard, a missing deletion, a count that is off by one, two transactions in the
wrong order. Putting one in the place of its original makes TLC violate the
property `PROJECT.json` names for it, which shows that the property watches that
code.

## Not modelled

- Failure allowed by exit code (it is persisted with the attempt and behaves like
  static `allow_failure`). `ExecutionManager` has `Always` and its absence as
  conditions; what a condition says is in `Conditions`, what follows from it in
  `JobDecision`.
- Bridge jobs in `ExecutionManager`: a bridge waits without a `job_waits` row, so
  `WaitRowsMatchJobs` speaks of the other jobs only; `ChildPipelines` has them.
- The gate in `ExecutionManager` is a verdict; `DeploymentGate` has how it comes about.
- Two live service processes on one state directory: `docs/SERVICE.md` rules them
  out. A dead process's claim and leases do meet the next process. A process has one
  worker loop (`service.go:176`); the modules of the service allow several, which
  covers also a second service, so what holds there holds with one.
- The text of files: YAML, expressions inside strings, dotenv, what commands do; the
  parsers of CircleCI, Travis and Drone, which translate one file into one structure.
- Dry runs, image names and resource limits of the runners; `init`, `list`, `clean`, `env`, `config`, `discover`, rendering,
  the static site, release tools, configuration and inventory: pure input and output.
- Registration, bootstrap and synchronisation of projects beyond what schedules,
  triggers and lineage see of them.
- Cryptography, path checks, archive formats, constant-time comparisons.
- Moved files, which git names by their new path alone. Steps behind a failed one in
  `RunData`; they are in `RuntimeOutputs` and `JobDecision`.
- Wall-clock times: a lease of `RunStore` may expire at any moment, and heartbeats may
  come late; elsewhere time is a counter.
