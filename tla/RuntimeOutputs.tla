---------------------------- MODULE RuntimeOutputs ----------------------------
(***************************************************************************)
(* What the steps of a run hand to later steps and jobs: outputs, variables *)
(* and PATH entries written to the command files, summaries, and the dotenv *)
(* reports of GitLab jobs (execution/output_command.go,                    *)
(* runtime_command_files.go, dotenv.go, and executeRun, executeJob and     *)
(* executeStepInRuntime of manager.go).  All of it but the summaries is    *)
(* kept in memory: a run that pauses at a manual job starts again with     *)
(* nothing.  A value is the <<job, attempt, step>> that wrote it; each     *)
(* step has one output, one variable and one file of variables to write.   *)
(* A definition marked "Mutant" is a bug that could have been made in the  *)
(* next one; no specification uses it.                                     *)
(***************************************************************************)
EXTENDS Integers, FiniteSets, FiniteSetsExt, SequencesExt, TLC

CONSTANTS
    None,
    RuntimePlans,  \* the runs that are tried: sequences of jobs
    MaxOutputs,    \* maxGitHubOutputBytes, in outputs
    MaxSummaries,  \* maxGitHubStepSummaries
    MaxMishaps     \* bound of failures

VARIABLES
    plan,
    phase,         \* "deciding", "paused", "starting", "steps", "ended"
    job, attempt, at,
    failed,        \* jobFailed of executeJob
    steps,         \* runtimeOutputContext: outputs by the id of the step
    bytes, environment, paths, summaryCount,
    jobs,          \* outputs by the key, and by the source, of the job
    dotenvs, order,
    file,          \* the dotenv file in the workspace: [kind, by]
    summaries,     \* of the store, by job and step
    status,        \* of each job: [state, attempt]
    seen,          \* history: what the last command was given
    lost,          \* history: jobs that ended before the last pause
    mishaps

stepContext == <<steps, bytes, environment, paths, summaryCount>>
runContext == <<jobs, dotenvs, order>>
vars == <<plan, phase, job, attempt, at, failed, stepContext, runContext, file, summaries, status, seen, lost, mishaps>>

Empty == [k \in {} |-> None]
Job == plan[job]
Step == Job.steps[at]
Me == <<job, attempt, at>>
Held(f, k) == IF k \in DOMAIN f THEN f[k] ELSE None
Key(j) == <<"job", j>>

Init ==
    /\ plan \in RuntimePlans
    /\ phase = "deciding" /\ job = 1 /\ attempt = 0 /\ at = 0 /\ failed = FALSE
    /\ steps = Empty /\ bytes = 0 /\ environment = None /\ paths = <<>> /\ summaryCount = 0
    /\ jobs = Empty /\ dotenvs = Empty /\ order = <<>>
    /\ file = [kind |-> "gone", by |-> None]
    /\ summaries = Empty
    /\ status = [j \in DOMAIN plan |-> [state |-> "queued", attempt |-> 0]]
    /\ seen = None /\ lost = {} /\ mishaps = {}

Mishap(kind) == Cardinality(mishaps) < MaxMishaps /\ mishaps' = mishaps \cup {<<kind, job, attempt', at>>}
Had(kind, j) == \E m \in mishaps : m[1] = kind /\ m[2] = j

-----------------------------------------------------------------------------
(* executeRun *)

EndJob(state) ==
    /\ status' = [status EXCEPT ![job] = [state |-> state, attempt |-> attempt']]
    /\ job' = job + 1 /\ phase' = IF job = Len(plan) THEN "ended" ELSE "deciding"

\* Which jobs run is the matter of JobDecision: here a job runs after a need
\* that failed only if it says so.
IsWanted == Job.always \/ \A k \in Job.needs : status[k].state = "succeeded"
Decide ==
    /\ phase = "deciding" /\ attempt' = 0
    /\ IF ~IsWanted THEN EndJob("skipped")
       ELSE phase' = (IF Job.manual THEN "paused" ELSE "starting") /\ UNCHANGED <<job, status>>
    /\ UNCHANGED <<plan, at, failed, stepContext, runContext, file, summaries, seen, lost, mishaps>>

\* The run that goes on is a new call of executeRun: newRuntimeOutputContext.
Resume ==
    /\ phase = "paused" /\ phase' = "starting"
    /\ steps' = Empty /\ bytes' = 0 /\ environment' = None /\ paths' = <<>> /\ summaryCount' = 0
    /\ jobs' = Empty /\ dotenvs' = Empty /\ order' = <<>>
    /\ lost' = 1..(job - 1)
    /\ seen' = None
    /\ UNCHANGED <<plan, job, attempt, at, failed, file, summaries, status, mishaps>>

-----------------------------------------------------------------------------
(* executeJobWithRetry, executeJob *)

EndAttempt(ok) ==
    IF ~ok /\ attempt' < Job.attempts THEN phase' = "starting" /\ UNCHANGED <<job, status>>
    ELSE EndJob(IF ok THEN "succeeded" ELSE "failed")

\* beginJob
Start ==
    /\ phase = "starting"
    /\ attempt' = attempt + 1 /\ at' = 1 /\ failed' = FALSE
    /\ steps' = Empty /\ bytes' = 0 /\ environment' = None /\ paths' = <<>> /\ summaryCount' = 0
    /\ \/ phase' = "steps" /\ UNCHANGED <<job, status, mishaps>>
       \/ Mishap("setup") /\ EndAttempt(FALSE)
    /\ UNCHANGED <<plan, runContext, file, summaries, seen, lost>>

InSteps == phase = "steps" /\ at <= Len(Job.steps)

\* After a failure only the steps run that say always().
StepIsWanted == failed => Step.always
SkipStep ==
    /\ InSteps /\ ~StepIsWanted
    /\ at' = at + 1
    /\ UNCHANGED <<plan, phase, job, attempt, failed, stepContext, runContext, file, summaries, status, seen, lost, mishaps>>

\* Before a step, or in one that then fails: no job of the run follows.
CancelJob ==
    /\ phase' = "ended"
    /\ status' = [status EXCEPT ![job] = [state |-> "cancelled", attempt |-> attempt]]
    /\ UNCHANGED <<at, failed>>
Cancel ==
    /\ InSteps /\ CancelJob
    /\ UNCHANGED <<plan, job, attempt, stepContext, runContext, file, summaries, seen, lost, mishaps>>

-----------------------------------------------------------------------------
(* A step *)

\* dotenvEnvironment; of two reports the later one prevails.
Inherited(k) ==
    CASE Job.dependencies # None -> k \in Job.dependencies
      [] Job.dependencies = None /\ Job.needs # {} -> k \in Job.needs \ Job.without
      [] OTHER -> plan[k].stage # Job.stage
InheritedDotenv ==
    LET chosen == SelectSeq(order, Inherited)
    IN IF Job.gitlab /\ chosen # <<>> THEN dotenvs[Last(chosen)] ELSE None

\* expressionValues, runtimeEnvironment, runtimePaths
Given == [by |-> Me, steps |-> steps, needs |-> [k \in Job.needs |-> Held(jobs, Key(k))],
          environment |-> environment, paths |-> paths, dotenv |-> InheritedDotenv]

\* The command, whose exit is taken by finishCommand together with its files.
WritesFile == file' = IF Step.file = "keep" THEN file ELSE [kind |-> Step.file, by |-> Me]

\* Mutant: each file is taken on its own.
TakenSeparately == Step.environment # "bad"
RuntimeFilesAreGood == Step.environment # "bad" /\ Step.path # "bad"

\* consumeGitHubRuntimeFiles; an entry that is there already moves to the front.
ConsumeRuntimeFiles ==
    /\ environment' = IF RuntimeFilesAreGood /\ Step.environment = "some" THEN Me ELSE environment
    /\ paths' = IF RuntimeFilesAreGood /\ Step.path \notin {None, "bad"}
                THEN <<Step.path>> \o SelectSeq(paths, LAMBDA p : p # Step.path) ELSE paths

\* A summary that is refused fails nothing; its place is taken before it is
\* stored.
TakeSummary ==
    IF Step.summary # "some" \/ summaryCount >= MaxSummaries THEN UNCHANGED <<summaryCount, summaries, mishaps>>
    ELSE /\ summaryCount' = summaryCount + 1
         /\ \/ summaries' = (<<job, at>> :> Me) @@ summaries /\ UNCHANGED mishaps
            \/ Mishap("unstored") /\ UNCHANGED summaries

\* parseGitHubOutput
Written == IF Step.output = "some" THEN <<Me>> ELSE <<>>
\* applyStepOutputMappings: of a composite action the output is that of one of
\* its steps, also where its own could not be read.
Outputs == IF Step.maps # None THEN <<Held(steps, Step.maps)>> ELSE Written

\* recordStep: what is refused has been counted.
Recorded(outputs) == Step.id # None /\ outputs # <<>>
Fits(outputs) == Recorded(outputs) => bytes + 1 <= MaxOutputs
RecordStep(outputs) ==
    /\ bytes' = IF Recorded(outputs) THEN bytes + 1 ELSE bytes
    /\ steps' = IF Recorded(outputs) /\ Fits(outputs) THEN (Step.id :> outputs[1]) @@ steps ELSE steps

EndStep(ok) ==
    \/ failed' = (failed \/ (~ok /\ ~Step.lax)) /\ at' = at + 1 /\ UNCHANGED <<phase, status>>
    \/ ~ok /\ CancelJob

RunStep ==
    /\ InSteps /\ StepIsWanted
    /\ seen' = Given
    /\ WritesFile /\ ConsumeRuntimeFiles
    /\ UNCHANGED attempt /\ TakeSummary
    /\ RecordStep(Outputs)
    /\ \E ok \in CASE Step.exit = "ok" -> {TRUE} [] Step.exit = "bad" -> {FALSE} [] OTHER -> BOOLEAN :
         EndStep(ok /\ Step.output # "bad" /\ RuntimeFilesAreGood /\ Fits(Outputs))
    /\ UNCHANGED <<plan, job, runContext, lost>>

\* prepareGitHubRuntimeFiles fails: the command is not run, the mappings of a
\* composite action are applied all the same.
StepIsNotPrepared ==
    /\ InSteps /\ StepIsWanted
    /\ UNCHANGED attempt /\ Mishap("unprepared")
    /\ RecordStep(IF Step.maps = None THEN <<>> ELSE Outputs)
    /\ EndStep(FALSE)
    /\ UNCHANGED <<plan, job, environment, paths, summaryCount, runContext, file, summaries, seen, lost>>

-----------------------------------------------------------------------------
(* The end of a job *)

\* loadGitLabDotenvReport, recordDotenv: whoever wrote the file, and an empty
\* report leaves that of an earlier attempt.
ReportIsGood == Job.report => file.kind \in {"good", "empty"}
RecordDotenv ==
    IF Job.report /\ file.kind = "good"
    THEN /\ dotenvs' = (job :> file.by) @@ dotenvs
         /\ order' = IF job \in DOMAIN dotenvs THEN order ELSE Append(order, job)
    ELSE UNCHANGED <<dotenvs, order>>

\* Mutant: the outputs of a job are kept once and for all.
FirstOutputs(j, k, value) == IF k \in DOMAIN jobs THEN jobs[k] ELSE value
\* finishJob, after whatever has failed.
FinalOutputs(j, k, value) == value
FinishJob ==
    jobs' = IF Job.exposes = None THEN jobs
            ELSE LET keys == {Key(job)} \cup (IF Job.source = None THEN {} ELSE {<<"source", Job.source>>})
                 IN [k \in keys |-> FinalOutputs(job, k, Held(steps, Job.exposes))] @@ jobs

Finish ==
    /\ phase = "steps" /\ at > Len(Job.steps)
    /\ RecordDotenv /\ FinishJob
    /\ UNCHANGED attempt
    /\ \/ EndAttempt(~failed /\ ReportIsGood) /\ UNCHANGED mishaps
       \/ Mishap("not captured") /\ EndAttempt(FALSE)
    /\ UNCHANGED <<plan, at, failed, stepContext, file, summaries, seen, lost>>

Next ==
    \/ Decide \/ Resume \/ Start
    \/ SkipStep \/ Cancel \/ RunStep \/ StepIsNotPrepared
    \/ Finish

-----------------------------------------------------------------------------
(* Properties *)

\* No more is kept than allowed; paths and reports are there once.
OutputsTypeOK ==
    /\ job \in 1..(Len(plan) + 1) /\ summaryCount \in 0..MaxSummaries
    /\ Cardinality(DOMAIN steps) <= MaxOutputs /\ Cardinality(DOMAIN steps) <= bytes
    /\ IsInjective(paths) /\ IsInjective(order) /\ ToSet(order) = DOMAIN dotenvs

\* What a step is given by its job was written by an earlier step of the same
\* attempt, one whose command files were all good.
StepsSeeTheirAttempt ==
    seen # None =>
        LET j == seen.by[1]
            earlier(v) == v = None \/ (v[1] = j /\ v[2] = seen.by[2] /\ v[3] < seen.by[3])
        IN /\ earlier(seen.environment) /\ \A id \in DOMAIN seen.steps : earlier(seen.steps[id])
           /\ seen.environment # None => plan[j].steps[seen.environment[3]].path # "bad"

\* At the end of a job that did not fail every output of a step is there, the
\* last one of an id, and the paths are there with the newest first; a step
\* that may fail can have failed.
Writers(j, Wrote(_)) == {s \in DOMAIN plan[j].steps : Wrote(plan[j].steps[s])}
NothingIsDropped ==
    (phase = "steps" /\ at > Len(Job.steps) /\ ~failed /\ \A s \in DOMAIN Job.steps : ~Job.steps[s].lax) =>
        LET lastOf(id) == Max(Writers(job, LAMBDA s : s.id = id /\ (s.output = "some" \/ s.maps # None)))
            added(p) == Max(Writers(job, LAMBDA s : s.path = p))
        IN /\ \A s \in Writers(job, LAMBDA s : s.id # None /\ s.output = "some" /\ s.maps = None) :
                lastOf(Job.steps[s].id) = s => Held(steps, Job.steps[s].id) = <<job, attempt, s>>
           /\ \A s \in Writers(job, LAMBDA s : s.path # None) : Job.steps[s].path \in ToSet(paths)
           /\ \A i \in DOMAIN paths : \A k \in 1..(i - 1) : added(paths[k]) > added(paths[i])

\* What a job needs from another is of that job's last attempt, and is there
\* if the job succeeded; only an attempt that could not be set up leaves the
\* outputs of the one before, and a pause of the run loses those of the jobs
\* that had ended.
NeedsAreOfTheLastAttempt ==
    seen # None => \A k \in DOMAIN seen.needs :
        LET v == seen.needs[k]
            exposed == Writers(k, LAMBDA s : s.id = plan[k].exposes)
        IN /\ v # None => v[1] = k /\ (v[2] = status[k].attempt \/ Had("setup", k))
           /\ \A s \in exposed :
                (/\ status[k].state = "succeeded" /\ k \notin lost
                 /\ plan[k].exposes # None /\ exposed = {s}
                 /\ plan[k].steps[s].output = "some" /\ plan[k].steps[s].maps = None /\ ~plan[k].steps[s].lax)
                => v = <<k, status[k].attempt, s>>

\* A GitLab job is given the variables of the latest job before it that it
\* takes reports from, as that job wrote them last; if that job left the file
\* alone, they are whatever the file in the workspace had.
TakesFrom(j, k) ==
    CASE plan[j].dependencies # None -> k \in plan[j].dependencies
      [] plan[j].dependencies = None /\ plan[j].needs # {} -> k \in plan[j].needs \ plan[j].without
      [] OTHER -> plan[k].stage # plan[j].stage
DotenvIsOfTheLatest ==
    (seen # None /\ plan[seen.by[1]].gitlab) =>
        LET j == seen.by[1]
            from == {k \in (1..(j - 1)) \ lost : TakesFrom(j, k) /\ plan[k].report /\ status[k].attempt > 0}
            touching(k) == Writers(k, LAMBDA s : s.file # "keep")
            wrote(k) == /\ status[k].state = "succeeded" /\ touching(k) # {}
                        /\ LET s == plan[k].steps[Max(touching(k))] IN s.file = "good" /\ ~s.lax
        IN /\ from = {} => seen.dotenv = None
           /\ (from # {} /\ wrote(Max(from))) => seen.dotenv = <<Max(from), status[Max(from)].attempt, Max(touching(Max(from)))>>

\* The summaries of a job that succeeded are those of its last attempt, of the
\* first steps that wrote one.
SummariesAreOfTheLastAttempt ==
    \A j \in DOMAIN plan : \A s \in Writers(j, LAMBDA t : t.summary = "some" /\ ~t.lax) :
        (/\ status[j].state = "succeeded" /\ ~Had("unstored", j)
         /\ Cardinality({t \in Writers(j, LAMBDA u : u.summary = "some") : t < s}) < MaxSummaries)
        => Held(summaries, <<j, s>>) = <<j, status[j].attempt, s>>

\* An attempt in which nothing goes wrong succeeds, whatever the attempts
\* before it have left: nothing of theirs counts against it.
RetriesStartAfresh ==
    \A j \in DOMAIN plan :
        (/\ \A s \in DOMAIN plan[j].steps :
                LET t == plan[j].steps[s] IN t.exit = "ok" /\ "bad" \notin {t.output, t.environment, t.path}
         /\ Cardinality(Writers(j, LAMBDA s : s.id # None /\ (s.output = "some" \/ s.maps # None))) <= MaxOutputs
         /\ ~plan[j].report
         /\ \A m \in mishaps : (m[2] = j /\ m[3] = status[j].attempt) => m[1] = "unstored")
        => status[j].state # "failed"
=============================================================================
