--------------------------- MODULE LineageGraphs ---------------------------
(***************************************************************************)
(* What a replay or a rollback copies: the job and all it depends on, and  *)
(* which earlier deployments a deployment may be rolled back to            *)
(* (store/run_lineage.go).  The graph of one run and a pair of deployments *)
(* are chosen in Init; nothing moves.                                      *)
(* A definition marked "Mutant" is a bug that could have been made in the  *)
(* next one; no specification uses it.                                     *)
(***************************************************************************)
EXTENDS Naturals, FiniteSets

CONSTANTS
    Jobs,        \* the jobs of the source (or target) run
    Graphs,      \* the dependencies that are tried: functions from Jobs
    None

VARIABLES
    deps,        \* jobs.dependency_keys_json
    deploys,     \* jobs with a deployment target
    commands,    \* jobs with a rollback command, which must deploy
    src, tgt     \* the deployment rolled back, and the one rolled back to

vars == <<deps, deploys, commands, src, tgt>>

\* visit: a job, then its dependencies, each once.
\* Mutant: the dependencies of dependencies are forgotten.
ClosureShallow(j) == {j} \cup deps[j]
Closure(j) ==
    LET visit[n \in Nat] ==
          IF n = 0 THEN {j} ELSE visit[n - 1] \cup UNION {deps[k] : k \in visit[n - 1]}
    IN visit[Cardinality(Jobs)]

RollbackJobs(j) == Closure(j)

\* rollbackGraph: the target job has a command, and nothing else it needs
\* deploys.
\* Mutant: deployments among the dependencies are let through.
RollbackGraphAny(j) == j # None /\ j \in commands
RollbackGraph(j) ==
    /\ j # None
    /\ j \in commands
    /\ RollbackJobs(j) \cap deploys = {j}

EndedDeployment(d) == d.status \in {"succeeded", "failed", "cancelled"}

\* Mutant: a later deployment is accepted.
ValidAnyTime(s, t) ==
    /\ s.id # t.id /\ EndedDeployment(s)
    /\ s.environment = t.environment /\ t.status = "succeeded"
ValidateRollbackPair(s, t) ==
    /\ s.id # t.id
    /\ EndedDeployment(s)
    /\ s.environment = t.environment
    /\ t.status = "succeeded"
    /\ t.created <= s.created

\* EvaluateDeploymentRollback lists the target; the requests check it again.
Listed(s, t) ==
    /\ EndedDeployment(s)
    /\ t.id # s.id /\ t.environment = s.environment /\ t.status = "succeeded"
    /\ t.job # None /\ t.created <= s.created
    /\ RollbackGraph(t.job)

Enqueued(s, t) == ValidateRollbackPair(s, t) /\ RollbackGraph(t.job)

\* validateAcyclicDependencies: each job finds its dependencies in the run.
EnqueueRunAccepts(js) == \A j \in js : deps[j] \subseteq js

Acyclic == \A j \in Jobs : \A k \in deps[j] : j \notin Closure(k)

Deployment(i) ==
    [id : {i}, environment : {"staging", "production"}, created : 1..2,
     status : {"running", "succeeded", "failed", "cancelled"}, job : Jobs \cup {None}]

\* A run the service stored, and two deployments of its project.
Init ==
    /\ deps \in Graphs
    /\ Acyclic
    /\ deploys \in SUBSET Jobs
    /\ commands \in SUBSET deploys
    /\ src \in {d \in Deployment(1) : d.job = None /\ d.created = 1 /\ d.environment = "production"}
    /\ tgt \in Deployment(2)

Next == UNCHANGED vars
Spec == Init /\ [][Next]_vars

-----------------------------------------------------------------------------
(* Properties *)

Closed(js) == \A j \in js : deps[j] \subseteq js

\* A replay copies the smallest set of jobs that holds the source job and
\* needs nothing outside itself (cloneReplayJobs).
CopiesWhatIsNeeded ==
    \A j \in Jobs :
        /\ j \in Closure(j) /\ Closed(Closure(j))
        /\ \A js \in SUBSET Jobs : (j \in js /\ Closed(js)) => Closure(j) \subseteq js

\* What EvaluateJobReplay offers of an ended run is a run that can be stored
\* (run_lineage.go:369 "replay can be enqueued").  A job that only starts a
\* child pipeline has no steps and is copied without it: such a replay is
\* offered and refused, and no graph here has one.
ReplayCanBeStored == \A j \in Jobs : EnqueueRunAccepts(Closure(j))

\* A target is listed exactly if the request for it is accepted
\* (EvaluateDeploymentRollback and EnqueueDeploymentRollback).
ListedIsAccepted == Listed(src, tgt) <=> Enqueued(src, tgt)

\* A rollback deploys once, to the environment of the source, and nothing
\* else it runs deploys (TestRollbackRejectsCrossEnvironmentAndDeploymentAncestor).
RollbackDeploysOnce ==
    Enqueued(src, tgt) =>
        /\ RollbackJobs(tgt.job) \cap deploys = {tgt.job}
        /\ Closed(RollbackJobs(tgt.job))
        /\ tgt.environment = src.environment
=============================================================================
