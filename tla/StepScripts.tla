----------------------------- MODULE StepScripts -----------------------------
(***************************************************************************)
(* The steps of a job under the three runners of `git ci run`.  The bash   *)
(* runner gives each step a shell of its own (runners/bash.go); the docker *)
(* and the podman runner write all steps of a job into one script, which   *)
(* one shell of the container runs under `set -e` (buildJobScript of       *)
(* runners/docker.go and runners/podman.go).  What a line does is one of a *)
(* few kinds.                                                              *)
(* A definition marked "Mutant" is a bug that could have been made in the  *)
(* next one; no specification uses it.                                     *)
(***************************************************************************)
EXTENDS Integers, Sequences

CONSTANTS
    None,
    Engines,  \* of "bash", "docker", "podman"
    StepJobs  \* the jobs that are tried: [steps, layers, limited]

VARIABLES
    engine, job,
    phase,    \* "between" steps, in a "shell", "orphaned", "ended"
    at,       \* the step
    line,     \* of the step
    attempt,  \* executeWithRetry
    cwd,      \* "root" or "sub", the directory that the workdir has
    value,    \* of a variable in the shell: the step that set it last, or a layer
    late,     \* the job has taken longer than config.Timeout
    ran,      \* history: the lines that were run
    failed,   \* steps whose last attempt failed
    outcome

shellVars == <<line, attempt, cwd, value>>
vars == <<engine, job, phase, at, shellVars, late, ran, failed, outcome>>

\* A line is a command that succeeds ("good"), fails ("bad") or may do either
\* ("flaky"), `cd sub` ("cd"), an export of the variable ("export"), `exit 0`
\* ("exit"), or a command that never ends ("hang").

Bash == engine = "bash"
Steps == job.steps
Step == Steps[at]

\* buildStepEnvironment over mergeEnvironments, buildEnvironment of the others:
\* a later layer wins.  The bash runner has no container.
Layers == IF Bash THEN <<"job", "config">> ELSE <<"job", "config", "container">>
BaseValue ==
    LET given == {i \in DOMAIN Layers : Layers[i] \in job.layers}
    IN IF given = {} THEN <<"layer", None>> ELSE <<"layer", Layers[CHOOSE i \in given : \A k \in given : k <= i]>>

Init ==
    /\ engine \in Engines /\ job \in StepJobs
    /\ phase = "between" /\ at = 1 /\ line = 0 /\ attempt = 1 /\ cwd = "root"
    /\ value = BaseValue /\ late = FALSE /\ ran = <<>> /\ failed = {} /\ outcome = None

-----------------------------------------------------------------------------
(* From step to step *)

EndJob(result) == phase' = "ended" /\ outcome' = result /\ UNCHANGED <<at, shellVars>>
NextStep ==
    /\ at' = at + 1 /\ phase' = "between" /\ line' = 0 /\ attempt' = 1
    /\ cwd' = IF Bash \/ (phase = "shell" /\ Step.dir) THEN "root" ELSE cwd
    /\ value' = IF Bash THEN BaseValue ELSE value
    /\ UNCHANGED outcome
Passed == NextStep /\ UNCHANGED failed

\* Mutant: the step that fails is not the last one.
FailedOn == failed' = failed \cup {at} /\ NextStep
Failed ==
    /\ failed' = failed \cup {at}
    /\ IF Bash /\ Step.lax THEN NextStep ELSE EndJob("failed")

Between == phase = "between" /\ at <= Len(Steps)

\* RunJob of the bash runner looks at the time between two steps only.
OutOfTime ==
    /\ Bash /\ Between /\ late
    /\ EndJob("failed") /\ UNCHANGED <<engine, job, late, ran, failed>>

Continues == Between /\ ~(Bash /\ late)

\* shouldRunStep, which the scripts of the containers do without; a step
\* without anything to do.
Skipped == (Bash /\ Step.never) \/ (Step.lines = <<>> /\ Step.uses = "")
SkipStep ==
    /\ Continues /\ Skipped
    /\ Passed /\ UNCHANGED <<engine, job, late, ran>>

\* runActionStep, and what the scripts have in its place: a checkout fails if
\* the fetch does, a tool if its installation does; others are passed over.
CanFail == CASE engine = "bash" -> {"checkout"} [] engine = "docker" -> {"tool"} [] engine = "podman" -> {}
UseStep ==
    /\ Continues /\ ~Skipped /\ Step.uses # ""
    /\ \/ Passed
       \/ /\ Step.uses \in CanFail
          /\ IF Bash THEN Failed ELSE failed' = failed \cup {at} /\ EndJob("failed")
    /\ UNCHANGED <<engine, job, late, ran>>

\* What the step sets goes before what it finds.
OwnDirectory(found) == IF Step.dir THEN "sub" ELSE found
OwnValue(found) == IF Step.sets THEN <<"step", at>> ELSE found

\* prepareCommand; `cd` and `export` in front of the step's lines.
EnterShell ==
    /\ line' = 1 /\ attempt' = 1 /\ phase' = "shell"
    /\ cwd' = OwnDirectory(cwd) /\ value' = OwnValue(value)
    /\ UNCHANGED <<at, failed, outcome>>
RunStep ==
    /\ Continues /\ ~Skipped /\ Step.uses = ""
    /\ IF Step.dir /\ cwd = "sub" THEN failed' = failed \cup {at} /\ EndJob("failed") ELSE EnterShell
    /\ UNCHANGED <<engine, job, late, ran>>

FinishJob ==
    /\ phase = "between" /\ at > Len(Steps)
    /\ EndJob("ok") /\ UNCHANGED <<engine, job, late, ran, failed>>

-----------------------------------------------------------------------------
(* In a shell *)

InShell == phase = "shell" /\ line <= Len(Step.lines)
Kind == Step.lines[line]
Log(ok) == ran' = Append(ran, [step |-> at, line |-> line, cwd |-> cwd, value |-> value, ok |-> ok])
NextLine == line' = line + 1 /\ UNCHANGED <<phase, at, attempt, failed, outcome>>

\* executeWithRetry gives the command a new shell.
Retries == Bash /\ Step.attempts > 1
TryAgain ==
    /\ line' = 1 /\ attempt' = attempt + 1
    /\ cwd' = OwnDirectory("root") /\ value' = OwnValue(BaseValue)
    /\ UNCHANGED <<phase, at, failed, outcome>>

\* ` || true` is written after the last character of the step: it is part of
\* the last line, or, after the line feed that ends a block, a line of its own
\* that no shell accepts.
Forgiven == ~Bash /\ Step.lax /\ ~Step.block /\ line = Len(Step.lines)
ShellFails ==
    IF Retries /\ attempt < Step.attempts THEN TryAgain
    ELSE IF Forgiven THEN line' = line + 1 /\ failed' = failed \cup {at} /\ UNCHANGED <<phase, at, attempt, cwd, value, outcome>>
    ELSE Failed

Command ==
    /\ InShell
    /\ \/ Kind \in {"good", "flaky"} /\ Log(TRUE) /\ NextLine /\ UNCHANGED <<cwd, value>>
       \/ Kind \in {"bad", "flaky"} /\ Log(FALSE) /\ ShellFails
    /\ UNCHANGED <<engine, job, late>>

ChangeDirectory ==
    /\ InShell /\ Kind = "cd"
    /\ IF cwd = "root" THEN Log(TRUE) /\ NextLine /\ cwd' = "sub" /\ UNCHANGED value
                       ELSE Log(FALSE) /\ ShellFails
    /\ UNCHANGED <<engine, job, late>>

Export ==
    /\ InShell /\ Kind = "export"
    /\ Log(TRUE) /\ NextLine /\ value' = <<"step", at>> /\ UNCHANGED <<cwd, engine, job, late>>

\* The shell that ends is the step's, or the job's.
Exit ==
    /\ InShell /\ Kind = "exit"
    /\ Log(TRUE) /\ (IF Bash THEN Passed ELSE EndJob("ok") /\ UNCHANGED failed)
    /\ UNCHANGED <<engine, job, late>>

EndShell ==
    /\ phase = "shell" /\ line > Len(Step.lines)
    /\ IF ~Bash /\ Step.lax /\ Step.block THEN failed' = failed \cup {at} /\ EndJob("failed") ELSE Passed
    /\ UNCHANGED <<engine, job, late, ran>>

\* Mutant: the deadline goes with the first attempt, also if there is no other.
KillsNever == FALSE

\* exec.CommandContext kills the shell; executeCommand goes on to read the
\* output, which a command that the shell has started keeps open.  The attempts
\* of executeWithRetry have no deadline.
Kills == Bash /\ Step.timed /\ ~Retries
StepTimeout ==
    /\ InShell /\ Kills
    /\ \/ Failed
       \/ /\ Kind = "hang" /\ phase' = "orphaned"
          /\ UNCHANGED <<at, shellVars, failed, outcome>>
    /\ UNCHANGED <<engine, job, late, ran>>

\* The deadline of the job passes while a step runs.
TakeLong ==
    /\ InShell /\ Bash /\ job.limited /\ ~late /\ late' = TRUE
    /\ UNCHANGED <<engine, job, phase, at, shellVars, ran, failed, outcome>>

Next ==
    \/ OutOfTime \/ SkipStep \/ UseStep \/ RunStep \/ FinishJob
    \/ Command \/ ChangeDirectory \/ Export \/ Exit \/ EndShell
    \/ StepTimeout \/ TakeLong

-----------------------------------------------------------------------------
(* Properties *)

\* The lines of a job are run in their order, from the first of each step, and
\* none of a step that is not run.
ScriptsTypeOK ==
    /\ at \in 1..(Len(Steps) + 1) /\ failed \subseteq 1..Len(Steps)
    /\ (outcome # None) <=> (phase = "ended")
    /\ \A i \in DOMAIN ran :
        LET r == ran[i] p == ran[i - 1]
        IN \/ r.line = 1 /\ (i = 1 \/ p.step < r.step)
           \/ i > 1 /\ p.step = r.step /\ r.line = p.line + 1
           \/ i > 1 /\ p.step = r.step /\ r.line = 1 /\ ~p.ok /\ Bash

\* What a line finds is what its step gives it and its earlier lines made.  Where
\* they say nothing, the bash runner gives it the job's own; in a container it is
\* what the steps that were run before have left: the variable as the last of them
\* set it, and the directory that one of them changed to.
StepsKeepToThemselves ==
    \A i \in DOMAIN ran :
        LET r == ran[i]
            s == Steps[r.step]
            before(kind) == \E n \in 1..(r.line - 1) : s.lines[n] = kind
            did(k, kind) == \E n \in 1..(i - 1) : ran[n].step = k /\ ran[n].ok /\ Steps[k].lines[ran[n].line] = kind
            setters == {k \in 1..(r.step - 1) : did(k, "export") \/ (Steps[k].sets /\ \E n \in 1..(i - 1) : ran[n].step = k)}
            last == CHOOSE k \in setters : \A m \in setters : m <= k
            moved == \E k \in 1..(r.step - 1) : did(k, "cd")
        IN /\ r.value = IF s.sets \/ before("export") THEN <<"step", r.step>>
                        ELSE IF Bash \/ setters = {} THEN BaseValue ELSE <<"step", last>>
           /\ r.cwd = IF s.dir \/ before("cd") \/ (~Bash /\ moved) THEN "sub" ELSE "root"

\* After a step that failed and was not to be ignored no other is run, those
\* that are always to run included; one that is ignored ends no job of the bash
\* runner.
FailureIsTheLast ==
    \A k \in failed :
        \/ Steps[k].lax
        \/ outcome = "failed" /\ \A i \in DOMAIN ran : ran[i].step <= k

\* A job that succeeds has run every line of every step, save for one that was
\* ignored or passed over, or left with `exit 0`; there the shell of a
\* container leaves the steps that follow.
SuccessIsEveryStep ==
    outcome = "ok" =>
        \A k \in DOMAIN Steps :
            \/ Steps[k].never /\ Bash
            \/ Steps[k].uses # "" \/ Steps[k].lax
            \/ \E i \in DOMAIN ran : ran[i].step <= k /\ Steps[ran[i].step].lines[ran[i].line] = "exit" /\ (Bash => ran[i].step = k)
            \/ \A n \in DOMAIN Steps[k].lines : \E i \in DOMAIN ran : ran[i].step = k /\ ran[i].line = n /\ ran[i].ok

\* A job that uses nothing in which the runners differ ends alike under all of
\* them: it fails exactly if a line of a step fails that is not ignored.  They
\* differ in conditions, actions, limits, in a directory that a line changes, in
\* `exit`, and in a step that is ignored and is a block or has a line before
\* its last.
Portable ==
    /\ ~job.limited
    /\ \A k \in DOMAIN Steps :
        LET s == Steps[k]
        IN /\ ~s.never /\ s.uses = "" /\ ~s.timed
           /\ \A i \in DOMAIN s.lines : s.lines[i] \in {"good", "bad", "export"}
           /\ s.lax => ~s.block /\ Len(s.lines) = 1
PortableJobsAgree ==
    (Portable /\ outcome # None) =>
        (outcome = "failed" <=> \E k \in DOMAIN Steps : ~Steps[k].lax /\ \E i \in DOMAIN Steps[k].lines : Steps[k].lines[i] = "bad")

\* A job ends, or it is at a command that never ends: with its shell, where no
\* deadline is kept (in a container, or in a step with attempts), or without it,
\* where the deadline of the step has ended the shell and not the command.
EndsOrHangs ==
    \/ phase = "ended"
    \/ /\ at \in DOMAIN Steps /\ line \in DOMAIN Step.lines /\ Kind = "hang"
       /\ phase = IF Bash /\ Step.timed /\ Step.attempts = 1 THEN "orphaned" ELSE "shell"
=============================================================================
