------------------------------ MODULE LocalRun ------------------------------
(***************************************************************************)
(* `git ci run`: the jobs are put in order (Kahn's algorithm) and run one  *)
(* by one, or grouped into levels and run in parallel, each level behind a *)
(* semaphore (handlers/toposort.go, handlers/run.go).  The order in which  *)
(* Go walks a map is arbitrary.  What a job does is external: it succeeds  *)
(* or it fails, and so is its runner, which docker or podman may refuse.   *)
(* A definition marked "Mutant" is a bug that could have been made in the  *)
(* next one; no specification uses it.                                     *)
(***************************************************************************)
EXTENDS Naturals, Sequences, FiniteSets

CONSTANTS
    Jobs,
    Gone,        \* names of needs that were filtered out
    Graphs,      \* the graphs that are tried: functions from Jobs
    MaxParallel, \* --max-parallel
    None

VARIABLES
    flags,            \* --parallel, --continue-on-error
    needs, allow,     \* job.Needs, job.AllowFailure
    phase,            \* "sort", "run", "done", "cycle"
    inDegree,
    queue, sorted,    \* topologicalSort
    levels,           \* groupByDependencyLevel
    remaining,        \* jobs whose inDegree is still in the map
    current,          \* index of the job, or of the level, that is run
    waiting, running, \* parallel: goroutines before and behind the semaphore
    started, ended,   \* history
    failed,           \* failedJobs
    failures,         \* failureCount
    exit

graphVars == <<flags, needs, allow>>
sortVars == <<inDegree, queue, sorted, levels, remaining>>
runVars == <<current, waiting, running, started, ended, failed, failures, exit>>
vars == <<graphVars, phase, sortVars, runVars>>

Parallel == flags.parallel
KeepGoing == flags.keepGoing

Known(j) == needs[j] \cap Jobs
Dependents(j) == {k \in Jobs : j \in needs[k]}
\* The orders in which a map is walked.
Orders(S) == {f \in [1..Cardinality(S) -> S] : \A x \in S : \E i \in DOMAIN f : f[i] = x}

Init ==
    /\ flags \in [parallel : BOOLEAN, keepGoing : BOOLEAN]
    /\ needs \in Graphs
    /\ allow \in SUBSET Jobs
    /\ phase = "sort"
    /\ inDegree = [j \in Jobs |-> Cardinality(Known(j))]
    /\ queue \in Orders({j \in Jobs : inDegree[j] = 0})
    /\ sorted = <<>> /\ levels = <<>> /\ remaining = Jobs
    /\ current = 1 /\ waiting = {} /\ running = {}
    /\ started = {} /\ ended = {} /\ failed = {} /\ failures = 0 /\ exit = None

Sorting == phase = "sort"

\* One turn of the loop of topologicalSort.
\* Mutant: a dependent is ready when one of its needs is sorted.
ReadyAny(j) == {k \in Dependents(j) : inDegree[k] > 0}
Ready(j) == {k \in Dependents(j) : inDegree[k] = 1}

Dequeue ==
    /\ ~Parallel /\ Sorting /\ queue # <<>>
    /\ LET j == Head(queue) IN
         /\ sorted' = Append(sorted, j)
         /\ inDegree' = [k \in Jobs |-> IF k \in Dependents(j) THEN inDegree[k] - 1 ELSE inDegree[k]]
         /\ \E o \in Orders(Ready(j)) : queue' = Tail(queue) \o o
    /\ UNCHANGED <<graphVars, phase, levels, remaining, runVars>>

\* Mutant: a graph of which a part was sorted is accepted.
AllSortedSome == sorted # <<>>
AllSorted == Len(sorted) = Cardinality(Jobs)

EndSort ==
    /\ ~Parallel /\ Sorting /\ queue = <<>>
    /\ phase' = IF AllSorted THEN "run" ELSE "cycle"
    /\ UNCHANGED <<graphVars, sortVars, runVars>>

\* One turn of the loop of groupByDependencyLevel.
Level == {j \in remaining : inDegree[j] = 0}

GroupLevel ==
    /\ Parallel /\ Sorting /\ remaining # {}
    /\ IF Level = {}
       THEN phase' = "cycle" /\ UNCHANGED sortVars
       ELSE /\ levels' = Append(levels, Level)
            /\ remaining' = remaining \ Level
            /\ inDegree' = [k \in Jobs |-> inDegree[k] - Cardinality(needs[k] \cap Level)]
            /\ UNCHANGED <<phase, queue, sorted>>
    /\ UNCHANGED <<graphVars, runVars>>

EndGrouping ==
    /\ Parallel /\ Sorting /\ remaining = {}
    /\ phase' = "run"
    /\ UNCHANGED <<graphVars, sortVars, runVars>>

\* Mutant: no job is skipped.
SkipNever(j) == FALSE
ShouldSkipJob(j) == ~KeepGoing /\ needs[j] \cap failed # {}

\* Mutant: failures are printed only.
FinishOk(e) == phase' = "done" /\ exit' = "ok"
Finish(e) == phase' = "done" /\ exit' = e

Failed(j) == failed' = failed \cup {j} /\ failures' = failures + 1

\* Mutant: the first failure ends the run, allowed or not.
StopsAnyhow(j) == ~KeepGoing
Stops(j) == ~KeepGoing /\ j \notin allow

\* createRunner returned an error: the run is over, whatever --continue-on-error says.
CreateRunnerFails == Finish("no runner")

RunSequential ==
    /\ ~Parallel /\ phase = "run" /\ current <= Len(sorted)
    /\ LET j == sorted[current] IN
         \/ /\ ShouldSkipJob(j)
            /\ Failed(j) /\ current' = current + 1
            /\ UNCHANGED <<phase, started, ended, exit>>
         \/ /\ ~ShouldSkipJob(j)
            /\ started' = started \cup {j} /\ ended' = ended \cup {j}
            /\ current' = current + 1
            /\ \/ UNCHANGED <<phase, failed, failures, exit>>
               \/ /\ Failed(j)
                  /\ IF Stops(j) THEN Finish("error") ELSE UNCHANGED <<phase, exit>>
         \/ /\ ~ShouldSkipJob(j) /\ CreateRunnerFails
            /\ UNCHANGED <<current, started, ended, failed, failures>>
    /\ UNCHANGED <<graphVars, sortVars, waiting, running>>

EndSequential ==
    /\ ~Parallel /\ phase = "run" /\ current > Len(sorted)
    /\ Finish("ok")
    /\ UNCHANGED <<graphVars, sortVars, current, waiting, running, started, ended, failed, failures>>

Idle == waiting = {} /\ running = {}

\* The goroutines of a level are launched once.
StartLevel ==
    /\ Parallel /\ phase = "run" /\ current <= Len(levels)
    /\ levels[current] \cap (waiting \cup started \cup failed) = {}
    /\ LET skipped == {j \in levels[current] : ShouldSkipJob(j)} IN
         /\ waiting' = waiting \cup (levels[current] \ skipped)
         /\ failed' = failed \cup skipped
         /\ failures' = failures + Cardinality(skipped)
    /\ UNCHANGED <<graphVars, phase, sortVars, current, running, started, ended, exit>>

\* Mutant: no semaphore.
NoSlots == TRUE
Slot == Cardinality(running) < MaxParallel

Acquire(j) ==
    /\ j \in waiting /\ Slot
    /\ waiting' = waiting \ {j} /\ running' = running \cup {j}
    /\ started' = started \cup {j}
    /\ UNCHANGED <<graphVars, phase, sortVars, current, ended, failed, failures, exit>>

\* A goroutine sends the result of its job: an error of createRunner is one, too.
EndJob(j) ==
    /\ j \in running
    /\ running' = running \ {j} /\ ended' = ended \cup {j}
    /\ Failed(j) \/ UNCHANGED <<failed, failures>>
    /\ UNCHANGED <<graphVars, phase, sortVars, current, waiting, started, exit>>

\* wg.Wait, and the results drained.
\* Mutant: the next level does not wait for the whole level.
LevelHalfDone == levels[current] \cap ended # {}
\* Mutant: a job that fails sends no result.
LevelAllOk == Idle /\ levels[current] \subseteq ended \ failed
LevelDone == Idle /\ levels[current] \subseteq ended \cup failed

EndLevel ==
    /\ Parallel /\ phase = "run" /\ current <= Len(levels) /\ LevelDone
    /\ IF (failures > 0 /\ ~KeepGoing) \/ current = Len(levels)
       THEN Finish(IF failures > 0 THEN "error" ELSE "ok") /\ UNCHANGED current
       ELSE current' = current + 1 /\ UNCHANGED <<phase, exit>>
    /\ UNCHANGED <<graphVars, sortVars, waiting, running, started, ended, failed, failures>>

Next ==
    \/ Dequeue \/ EndSort \/ GroupLevel \/ EndGrouping
    \/ RunSequential \/ EndSequential \/ StartLevel \/ EndLevel
    \/ \E j \in Jobs : Acquire(j) \/ EndJob(j)

\* The program takes its steps, and the jobs come to an end.
Spec == Init /\ [][Next]_vars /\ WF_vars(Next)

-----------------------------------------------------------------------------
(* Properties *)

Ended == phase \in {"done", "cycle"}
Reach(j) ==
    LET own(k) == needs[k] \cap Jobs
        r[n \in Nat] == IF n = 0 THEN own(j) ELSE r[n - 1] \cup UNION {own(k) : k \in r[n - 1]}
    IN r[Cardinality(Jobs)]
Cyclic == \E j \in Jobs : j \in Reach(j)

\* Nothing is sorted or started twice, and the run does not end before its
\* jobs.
LocalTypeOK ==
    /\ running \cup ended \subseteq started /\ started \subseteq Jobs
    /\ waiting \cap started = {} /\ running \cap ended = {}
    /\ Sorting => started = {}
    /\ \A i, h \in DOMAIN sorted : sorted[i] = sorted[h] => i = h
    /\ Ended => Idle
    /\ exit = None <=> phase # "done"

\* A job starts after all it needs has ended or was given up
\* (README.md:297 "once their dependencies complete").
StartsAfterNeeds ==
    \A j \in started' \ started : Known(j) \subseteq ended \cup failed

\* Without --continue-on-error nothing runs that needs a failed job.
FailureStopsDependents ==
    ~KeepGoing => \A j \in started : Known(j) \cap failed = {}

\* A cycle is reported, and only a cycle (README.md:297 "Circular
\* dependencies are detected and reported").
CyclesReported ==
    /\ phase = "cycle" => Cyclic
    /\ phase \in {"run", "done"} => ~Cyclic

\* A level holds the jobs whose longest chain of needs has its length, and
\* no more run at once than --max-parallel.
LevelsAreTight ==
    Parallel =>
        /\ \A i \in DOMAIN levels : \A j \in levels[i] :
             /\ \A k \in Known(j) : \E h \in 1..(i - 1) : k \in levels[h]
             /\ i > 1 => Known(j) \cap levels[i - 1] # {}
        /\ Cardinality(running) <= MaxParallel

\* A run that ends well has run every job.
OkMeansAllRan == exit = "ok" => ended \cup failed = Jobs

\* One by one, what has not run at the end needs something that failed, if every
\* failure was allowed (run.go:174 "failed (allowed)"), unless a runner could not
\* be created.
AllowedFailureContinues ==
    (~Parallel /\ phase = "done" /\ exit # "no runner" /\ (failed \cap ended) \subseteq allow) =>
        \A j \in Jobs \ ended : Reach(j) \cap failed \cap ended # {}

\* In parallel, any failure holds back the jobs of later levels, and only those:
\* also one that is allowed, which run.go:309-322 does not look at, and also from
\* jobs that do not need it.  With --continue-on-error every job runs.
FailureStopsLaterLevels ==
    Parallel =>
        /\ ~KeepGoing => \A i \in DOMAIN levels : levels[i] \cap started # {} =>
                            \A h \in 1..(i - 1) : levels[h] \cap failed = {} /\ levels[h] \subseteq ended
        /\ phase = "done" => \A i \in DOMAIN levels : levels[i] \subseteq ended \/
                                (~KeepGoing /\ \E h \in 1..(i - 1) : levels[h] \cap failed # {})

\* A failure that is not allowed shows in the exit status
\* (docs/VALIDATION.md:48 "failing step -> exit 1"), except where the jobs
\* run one by one under --continue-on-error: runJobsSequential returns nil.
\* In parallel an allowed one shows as well.
FailureIsTold ==
    phase = "done" =>
        /\ (failed \cap ended) \ allow # {} => exit # "ok" \/ (KeepGoing /\ ~Parallel)
        /\ Parallel => (exit = "ok" <=> failed = {})
=============================================================================
