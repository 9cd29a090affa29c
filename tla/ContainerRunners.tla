--------------------------- MODULE ContainerRunners ---------------------------
(***************************************************************************)
(* The runners of `git ci run --docker` and `--podman`: one per job, over  *)
(* one engine (runners/docker.go, runners/podman.go, and the redirection   *)
(* of --quiet in quiet_redirect.go; handlers/run.go decides when a runner  *)
(* is made and cleaned up).  A runner brings up a network or a pod, the    *)
(* services, the container of the job, waits for it, and removes what it   *)
(* has kept a note of.  A call may fail, take effect and be reported as    *)
(* failed, or end with the job's timeout.  The podman runner drives        *)
(* docker's command where there is no podman: engine "cli".                *)
(* A definition marked "Mutant" is a bug that could have been made in the  *)
(* next one; no specification uses it.                                     *)
(***************************************************************************)
EXTENDS Integers, FiniteSets, TLC

CONSTANTS
    None,
    Jobs,        \* 1..n, in the order of a sequential run
    Setups,      \* what is tried: [engine, parallel, quiet, timeout, name, services, allow]
    MaxSeconds,  \* bound of the clock
    MaxMishaps   \* bound of failures

VARIABLES
    setup,
    clock,       \* in seconds: resources are named by it
    phase,       \* where RunJob of each job is
    expired,     \* the deadline of its context has passed
    todo,        \* services that are not started yet
    containers,  \* of the engine: [name, job, role, state, file]
    groups,      \* networks and pods of the engine: [name, job]
    tracked,     \* r.containers
    joined,      \* r.serviceNetworks, r.pods
    path,        \* podman: the second in the name of the job's script
    files,       \* podman: the scripts in /tmp, each the inode of a job
    text,        \* podman: of each inode, whose script it holds
    ran, code,   \* of each job, the script that was run and how it ended
    outcome,
    redirect,    \* quietRef.count
    mishaps      \* of each job

engineVars == <<containers, groups, ran, code>>
fileVars == <<path, files, text>>
runnerVars == <<expired, todo, tracked, joined>>
vars == <<setup, clock, phase, engineVars, fileVars, runnerVars, outcome, redirect, mishaps>>

Init ==
    /\ setup \in Setups
    /\ clock = 0 /\ redirect = 0
    /\ phase = [j \in Jobs |-> "idle"] /\ outcome = [j \in Jobs |-> None]
    /\ expired = [j \in Jobs |-> FALSE] /\ todo = setup.services
    /\ containers = {} /\ groups = {}
    /\ tracked = [j \in Jobs |-> {}] /\ joined = [j \in Jobs |-> {}]
    /\ path = [j \in Jobs |-> None] /\ files = [s \in {} |-> None] /\ text = [j \in Jobs |-> None]
    /\ ran = [j \in Jobs |-> None] /\ code = [j \in Jobs |-> None]
    /\ mishaps = [j \in Jobs |-> {}]

Docker == setup.engine = "docker"
Happened == UNION {{<<j, m>> : m \in mishaps[j]} : j \in Jobs}
Mishap(j, kind) ==
    /\ Cardinality(Happened) < MaxMishaps
    /\ mishaps' = [mishaps EXCEPT ![j] = @ \cup {kind}]

\* A call with the job's context: it fails once the deadline has passed.
Answers(j) == ~expired[j] /\ UNCHANGED mishaps
Fails(j) == (expired[j] /\ UNCHANGED mishaps) \/ Mishap(j, "failed")

Goto(j, p) == phase' = [phase EXCEPT ![j] = p]
Return(j, result) == Goto(j, "ended") /\ outcome' = [outcome EXCEPT ![j] = result]

-----------------------------------------------------------------------------
(* The loop over the jobs, and the redirection *)

\* runJobsSequential stops at a job that failed and was not allowed to.
Stops(j) == outcome[j] = "no runner" \/ (outcome[j] \in {"failed", "timeout"} /\ j \notin setup.allow)
Ended(j) == phase[j] \in {"ended", "done"}
CanStart(j) == setup.parallel \/ \A k \in Jobs : k < j => Ended(k) /\ ~Stops(k)
Over == (\E j \in Jobs : Ended(j) /\ Stops(j)) \/ \A j \in Jobs : Ended(j)

\* The defers of a sequential run wait for its end, and run in reverse order.
CanClean(j) == setup.parallel \/ (Over /\ \A k \in Jobs : k > j => phase[k] \in {"idle", "done"})

AcquireQuietRedirect == redirect' = IF setup.quiet THEN redirect + 1 ELSE redirect
\* Mutant: the first runner that ends restores the output.
ReleaseAll == redirect' = 0
ReleaseQuietRedirect == redirect' = IF redirect = 0 THEN 0 ELSE redirect - 1

\* NewDockerRunner, NewPodmanRunner.  A runner that cannot be made gives back
\* what it acquired; /dev/null is only opened for the first.
NewRunner(j) ==
    /\ phase[j] = "idle" /\ CanStart(j)
    /\ \/ Goto(j, "image") /\ AcquireQuietRedirect /\ UNCHANGED <<outcome, mishaps>>
       \/ /\ setup.quiet /\ redirect = 0 /\ Mishap(j, "no /dev/null")
          /\ Goto(j, "image") /\ UNCHANGED <<redirect, outcome>>
       \/ /\ Mishap(j, "no engine")
          /\ Goto(j, "done") /\ outcome' = [outcome EXCEPT ![j] = "no runner"]
          /\ UNCHANGED redirect
    /\ UNCHANGED <<setup, clock, engineVars, fileVars, runnerVars>>

-----------------------------------------------------------------------------
(* Image, network or pod, services *)

\* The podman runner over docker's command starts no services.
WantsGroup(j) == setup.services[j] # {} /\ setup.engine # "cli"
Prepared == IF Docker THEN "create" ELSE "script"

\* imageExists, pullImage
Image(j) ==
    /\ phase[j] = "image"
    /\ \/ Answers(j) /\ Goto(j, IF WantsGroup(j) THEN "group" ELSE Prepared) /\ UNCHANGED outcome
       \/ Fails(j) /\ Return(j, "failed")
    /\ UNCHANGED <<setup, clock, engineVars, fileVars, runnerVars, redirect>>

\* createServiceNetwork, createPod: the engine refuses a name it has.
Group(j) ==
    /\ phase[j] = "group"
    /\ LET name == <<setup.name[j], clock>>
           taken == \E g \in groups : g.name = name
           made == groups \cup {[name |-> name, job |-> j]}
       IN \/ /\ Answers(j) /\ ~taken
             /\ groups' = made /\ joined' = [joined EXCEPT ![j] = {name}]
             /\ Goto(j, "services") /\ UNCHANGED outcome
          \/ /\ (taken /\ Answers(j)) \/ Fails(j)
             /\ Return(j, "failed") /\ UNCHANGED <<groups, joined>>
          \/ /\ ~taken /\ Mishap(j, "lost group")
             /\ groups' = made /\ Return(j, "failed") /\ UNCHANGED joined
    /\ UNCHANGED <<setup, clock, containers, ran, code, fileVars, expired, todo, tracked, redirect>>

Running(cs, j) == {c \in cs : c.job = j /\ c.state = "running"}

\* cleanupServiceNetwork; a network that a running container is on stays.
GroupsWithout(cs, j) ==
    IF Docker /\ ~expired[j] /\ Running(cs, j) = {} THEN {g \in groups : g.name \notin joined[j]} ELSE groups

\* One turn of startServiceContainers or startServices.  Services have no part
\* of the job in their names.
Service(j) ==
    /\ phase[j] = "services"
    /\ \E s \in todo[j] :
         LET name == <<"svc", s, clock>>
             taken == \E c \in containers : c.name = name
             new(state) == containers \cup {[name |-> name, job |-> j, role |-> s, state |-> state, file |-> None]}
         IN \/ /\ Answers(j) /\ ~taken
               /\ containers' = new("running")
               /\ tracked' = [tracked EXCEPT ![j] = @ \cup {name}]
               /\ todo' = [todo EXCEPT ![j] = @ \ {s}]
               /\ UNCHANGED <<groups, phase, outcome>>
            \/ /\ \/ ((taken /\ Answers(j)) \/ Fails(j)) /\ UNCHANGED containers
                  \/ ~taken /\ Mishap(j, "unstarted") /\ containers' = new("created")
               /\ groups' = GroupsWithout(containers', j)
               /\ Return(j, "failed") /\ UNCHANGED <<tracked, todo>>
    /\ UNCHANGED <<setup, clock, ran, code, fileVars, expired, joined, redirect>>

ServicesUp(j) ==
    /\ phase[j] = "services" /\ todo[j] = {}
    /\ Goto(j, Prepared)
    /\ UNCHANGED <<setup, clock, engineVars, fileVars, runnerVars, outcome, redirect, mishaps>>

-----------------------------------------------------------------------------
(* The container of the job *)

\* os.WriteFile of runContainer: an existing file is written over.
OverwrittenScript(j) == [text EXCEPT ![IF clock \in DOMAIN files THEN files[clock] ELSE j] = j]

WriteScript(j) ==
    /\ phase[j] = "script"
    /\ \/ /\ UNCHANGED mishaps
          /\ files' = files @@ (clock :> j)
          /\ text' = OverwrittenScript(j)
          /\ path' = [path EXCEPT ![j] = clock]
          /\ Goto(j, "create") /\ UNCHANGED outcome
       \/ Mishap(j, "failed") /\ Return(j, "failed") /\ UNCHANGED fileVars
    /\ UNCHANGED <<setup, clock, engineVars, runnerVars, redirect>>

NameOf(j) == <<"job", setup.name[j], clock>>
\* Mutant: the name of the script is made again for the mount.
MountedAnew(j) == IF clock \in DOMAIN files THEN files[clock] ELSE None
Mounted(j) == IF path[j] \in DOMAIN files THEN files[path[j]] ELSE None
Taken(j) == \E c \in containers : c.name = NameOf(j)
WithJob(j, state) ==
    containers \cup {[name |-> NameOf(j), job |-> j, role |-> "job", state |-> state, file |-> Mounted(j)]}

\* createContainer, and the note RunJob keeps of it.
CreateContainer(j) ==
    /\ Docker /\ phase[j] = "create"
    /\ \/ /\ Answers(j) /\ ~Taken(j)
          /\ containers' = WithJob(j, "created") /\ tracked' = [tracked EXCEPT ![j] = @ \cup {NameOf(j)}]
          /\ Goto(j, "start") /\ UNCHANGED outcome
       \/ /\ (Taken(j) /\ Answers(j)) \/ Fails(j)
          /\ Return(j, "failed") /\ UNCHANGED <<containers, tracked>>
       \/ ~Taken(j) /\ Mishap(j, "lost") /\ containers' = WithJob(j, "created")
          /\ Return(j, "failed") /\ UNCHANGED tracked
    /\ UNCHANGED <<setup, clock, groups, ran, code, fileVars, expired, todo, joined, redirect>>

StateOf(cs, j, from, state) == {IF c.job = j /\ c.role = "job" /\ c.state = from THEN [c EXCEPT !.state = state] ELSE c : c \in cs}

StartContainer(j) ==
    /\ phase[j] = "start"
    /\ \/ /\ Answers(j) /\ containers' = StateOf(containers, j, "created", "running")
          /\ Goto(j, "logs") /\ UNCHANGED outcome
       \/ Fails(j) /\ Return(j, "failed") /\ UNCHANGED containers
    /\ UNCHANGED <<setup, clock, groups, ran, code, fileVars, runnerVars, redirect>>

\* `run -d` of runContainer.  podman does not mount a file that is gone;
\* docker puts a directory in its place.
RunContainer(j) ==
    /\ ~Docker /\ phase[j] = "create"
    /\ LET refused == Taken(j) \/ (setup.engine = "podman" /\ Mounted(j) = None)
       IN \/ /\ Answers(j) /\ ~refused
             /\ containers' = WithJob(j, "running") /\ tracked' = [tracked EXCEPT ![j] = @ \cup {NameOf(j)}]
             /\ UNCHANGED outcome
          \/ /\ \/ ((refused /\ Answers(j)) \/ Fails(j)) /\ UNCHANGED containers
                \/ ~refused /\ Mishap(j, "lost") /\ containers' = WithJob(j, "running")
             /\ outcome' = [outcome EXCEPT ![j] = "failed"] /\ UNCHANGED tracked
    /\ Goto(j, "unlink")
    /\ UNCHANGED <<setup, clock, groups, ran, code, fileVars, expired, todo, joined, redirect>>

\* The deferred os.Remove of runContainer, by name.
RemoveScript(j) ==
    /\ phase[j] = "unlink"
    /\ files' = [s \in DOMAIN files \ {path[j]} |-> files[s]]
    /\ Goto(j, IF outcome[j] = None THEN "wait" ELSE "ended")
    /\ UNCHANGED <<setup, clock, engineVars, path, text, runnerVars, outcome, redirect, mishaps>>

-----------------------------------------------------------------------------
(* The engine: the shell of a job's container reads its script and ends *)

\* A directory in the place of the script.
NoScript == 0

Execute(j) ==
    /\ ran[j] = None /\ \E c \in Running(containers, j) : c.role = "job"
    /\ LET mine == CHOOSE c \in Running(containers, j) : c.role = "job"
       IN ran' = [ran EXCEPT ![j] = IF Docker THEN j ELSE IF mine.file = None THEN NoScript ELSE text[mine.file]]
    /\ UNCHANGED <<setup, clock, phase, containers, groups, code, fileVars, runnerVars, outcome, redirect, mishaps>>

Exit(j) ==
    /\ ran[j] # None /\ code[j] = None /\ \E c \in Running(containers, j) : c.role = "job"
    /\ \E n \in IF ran[j] = NoScript THEN {1} ELSE {0, 1} : code' = [code EXCEPT ![j] = n]
    /\ containers' = StateOf(containers, j, "running", "exited")
    /\ UNCHANGED <<setup, clock, phase, groups, ran, fileVars, runnerVars, outcome, redirect, mishaps>>

-----------------------------------------------------------------------------
(* Waiting *)

Exited(j) == \E c \in containers : c.job = j /\ c.role = "job" /\ c.state = "exited"

\* streamLogs ends with the container, with an error or with the deadline; an
\* error does not end the job.
Logs(j) ==
    /\ phase[j] = "logs"
    /\ (Exited(j) /\ UNCHANGED mishaps) \/ Fails(j)
    /\ Goto(j, "wait")
    /\ UNCHANGED <<setup, clock, engineVars, fileVars, runnerVars, outcome, redirect>>

\* The container is stopped with a context of its own.
TimedOut(j) ==
    /\ expired[j] /\ UNCHANGED mishaps
    /\ containers' = StateOf(containers, j, "running", "stopped")
    /\ Return(j, "timeout")

\* The select of RunJob takes any case that is ready.
DockerWait(j) ==
    /\ Docker /\ phase[j] = "wait"
    /\ \/ /\ Exited(j) /\ UNCHANGED <<containers, mishaps>>
          /\ Return(j, IF code[j] = 0 THEN "ok" ELSE "failed")
       \/ TimedOut(j)
       \/ Mishap(j, "failed") /\ Return(j, "failed") /\ UNCHANGED containers
    /\ UNCHANGED <<setup, clock, groups, ran, code, fileVars, runnerVars, redirect>>

\* getExitCode, where `wait` fails: the status is 0 as long as the container
\* runs.
InspectedCode(j) == IF Exited(j) THEN code[j] ELSE 0
ResultOf(j, n) == IF n = 0 \/ j \in setup.allow THEN "ok" ELSE "failed"

\* waitContainer
PodmanWait(j) ==
    /\ ~Docker /\ phase[j] = "wait"
    /\ \/ Exited(j) /\ Answers(j) /\ Return(j, ResultOf(j, code[j])) /\ UNCHANGED containers
       \/ TimedOut(j)
       \/ ~expired[j] /\ Mishap(j, "inspected") /\ Return(j, ResultOf(j, InspectedCode(j))) /\ UNCHANGED containers
       \/ ~expired[j] /\ Mishap(j, "failed") /\ Return(j, "failed") /\ UNCHANGED containers
    /\ UNCHANGED <<setup, clock, groups, ran, code, fileVars, runnerVars, redirect>>

-----------------------------------------------------------------------------
(* Cleanup *)

Cleaning(j) == phase[j] = "ended" /\ CanClean(j)

RemoveContainer(j) ==
    /\ Cleaning(j)
    /\ \E n \in tracked[j] :
         /\ tracked' = [tracked EXCEPT ![j] = @ \ {n}]
         /\ \/ containers' = {c \in containers : c.name # n} /\ UNCHANGED mishaps
            \/ Mishap(j, "unremoved") /\ UNCHANGED containers
    /\ UNCHANGED <<setup, clock, phase, groups, ran, code, fileVars, expired, todo, joined, outcome, redirect>>

\* Mutant: the networks go before the containers.
GroupsFirst(j) == joined[j] # {}
ContainersGone(j) == tracked[j] = {}

\* A pod goes with all its containers, a network only if no running container
\* is on it.
RemoveGroup(j) ==
    /\ Cleaning(j) /\ ContainersGone(j)
    /\ \E n \in joined[j] :
         /\ joined' = [joined EXCEPT ![j] = @ \ {n}]
         /\ \/ /\ UNCHANGED mishaps
               /\ IF Docker /\ Running(containers, j) # {}
                  THEN UNCHANGED <<groups, containers>>
                  ELSE /\ groups' = {g \in groups : g.name # n}
                       /\ containers' = IF Docker THEN containers ELSE {c \in containers : c.job # j}
            \/ Mishap(j, "unremoved") /\ UNCHANGED <<groups, containers>>
    /\ UNCHANGED <<setup, clock, phase, ran, code, fileVars, expired, todo, tracked, outcome, redirect>>

EndCleanup(j) ==
    /\ Cleaning(j) /\ tracked[j] = {} /\ joined[j] = {}
    /\ ReleaseQuietRedirect /\ Goto(j, "done")
    /\ UNCHANGED <<setup, clock, engineVars, fileVars, runnerVars, outcome, mishaps>>

-----------------------------------------------------------------------------
Expire(j) ==
    /\ setup.timeout /\ ~expired[j] /\ phase[j] \notin {"idle", "ended", "done"}
    /\ expired' = [expired EXCEPT ![j] = TRUE]
    /\ UNCHANGED <<setup, clock, phase, engineVars, fileVars, todo, tracked, joined, outcome, redirect, mishaps>>

Tick ==
    /\ clock < MaxSeconds /\ clock' = clock + 1
    /\ UNCHANGED <<setup, phase, engineVars, fileVars, runnerVars, outcome, redirect, mishaps>>

Next ==
    \/ Tick
    \/ \E j \in Jobs :
        \/ NewRunner(j) \/ Image(j) \/ Group(j) \/ Service(j) \/ ServicesUp(j)
        \/ WriteScript(j) \/ CreateContainer(j) \/ StartContainer(j) \/ RunContainer(j) \/ RemoveScript(j)
        \/ Execute(j) \/ Exit(j) \/ Logs(j) \/ DockerWait(j) \/ PodmanWait(j)
        \/ RemoveContainer(j) \/ RemoveGroup(j) \/ EndCleanup(j) \/ Expire(j)

-----------------------------------------------------------------------------
(* Properties *)

\* A runner keeps a note of nothing that is another job's.
RunnersTypeOK ==
    /\ clock \in 0..MaxSeconds /\ redirect \in 0..Cardinality(Jobs)
    /\ \A c, d \in containers : c.name = d.name => c = d
    /\ \A j \in Jobs : \A c \in containers : c.name \in tracked[j] => c.job = j
    /\ \A j \in Jobs : phase[j] \in {"ended", "done"} <=> (outcome[j] # None /\ phase[j] # "unlink")

\* After the cleanup the engine has nothing of the job but what the runner could
\* not know of or the engine did not remove: the job's container if its creation
\* was reported as failed, a service of docker that was created and did not start,
\* a network or pod whose creation was reported as failed.  A pod that is removed
\* takes all of its containers along.
NothingStaysBehind ==
    \A j \in Jobs : phase[j] = "done" /\ "unremoved" \notin mishaps[j] =>
        /\ \A c \in containers : c.job = j =>
             /\ IF c.role = "job" THEN "lost" \in mishaps[j]
                ELSE Docker /\ c.state = "created" /\ "unstarted" \in mishaps[j]
             /\ ~(setup.engine = "podman" /\ setup.services[j] # {})
        /\ \A g \in groups : g.job = j => "lost group" \in mishaps[j]

\* A container runs the script of its own job.  Only two jobs of podman that
\* write their scripts in one second, side by side, share the name of the file:
\* one may run the script of the other, or, where docker's command mounts a
\* directory for a file that the other has removed, none, and fail.
EachRunsItsOwn ==
    \A j \in Jobs : ran[j] \notin {None, j} =>
        /\ ~Docker /\ setup.parallel
        /\ \E k \in Jobs \ {j} : path[k] = path[j] /\ ran[j] \in {k, NoScript}
        /\ ran[j] = NoScript => setup.engine = "cli" /\ code[j] # 0

\* A job that is reported as successful has run to its end and succeeded, or
\* was allowed to fail, or `wait` failed and the status of a container that
\* runs was read.
SuccessIsReal ==
    \A j \in Jobs : outcome[j] = "ok" =>
        \/ code[j] = 0
        \/ ~Docker /\ (j \in setup.allow \/ "inspected" \in mishaps[j])

\* The container of a job runs beside every service of the job; the podman
\* runner over docker's command leaves the services out.
ServicesBeforeTheJob ==
    \A c \in containers :
        (c.role = "job" /\ c.state = "running" /\ phase[c.job] \in {"logs", "wait"} /\ WantsGroup(c.job)) =>
            \A s \in setup.services[c.job] : \E d \in Running(containers, c.job) : d.role = s

\* --quiet holds until the last runner is cleaned up, and no longer, if
\* /dev/null could be opened.
QuietToTheEnd ==
    (\A j \in Jobs : "no /dev/null" \notin mishaps[j]) =>
        redirect = IF setup.quiet THEN Cardinality({j \in Jobs : phase[j] \notin {"idle", "done"}}) ELSE 0
=============================================================================
