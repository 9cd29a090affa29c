-------------------------- MODULE ContainerSession --------------------------
(***************************************************************************)
(* The containers of one job (execution/docker_session.go, and the loop    *)
(* over the steps of execution/manager.go that uses them).  A session      *)
(* starts a network, the services one after the other and the container of *)
(* the job; the steps run in that container, or on the host beside the     *)
(* services; the session is closed when the attempt is over, and a retry   *)
(* starts another.  A step that runs out of time returns at once, while    *)
(* the container is killed behind it.  Docker may refuse a call, may do    *)
(* what a call asked and lose the answer, and a container may exit.        *)
(* A definition marked "Mutant" is a bug that could have been made in the  *)
(* next one; no specification uses it.                                     *)
(***************************************************************************)
EXTENDS Integers, Sequences, FiniteSets, SequencesExt

CONSTANTS
    Contracts,          \* [valid, container, services]: a service is [health, port]
    StepLists,          \* sequences of [lax, always, timed]
    MaxAttempts,        \* attempts of the job
    MaxFaults           \* faults of Docker, of the containers and of the worker (a bound)

VARIABLES
    contract, steps,
    attempt,
    phase,              \* what the job is about to do
    which,              \* the service being started, 0 for the job's own container
    containers,         \* Docker's: container -> state
    networks,           \* Docker's: attempts that have a network
    session,            \* what the session knows: [containers, network]
    seen,               \* containers found ready in this attempt
    results,            \* of the steps of this attempt
    alive,              \* steps whose command runs in the container
    kills,              \* attempts whose container is about to be killed
    late,               \* the context of the job is done: cancelled or timed out
    failed,
    outcome,
    faults,
    excused             \* containers and networks that Docker lost or would not remove

dockerVars == <<containers, networks>>
stepVars == <<results, alive, kills>>
jobVars == <<contract, steps, attempt>>
fateVars == <<late, failed, outcome>>
faultVars == <<faults, excused>>
vars == <<jobVars, phase, which, dockerVars, session, seen, stepVars, fateVars, faultVars>>

NoSession == [containers |-> <<>>, network |-> FALSE]

Init ==
    /\ contract \in Contracts /\ steps \in StepLists
    /\ attempt = 1 /\ phase = "validate" /\ which = 0
    /\ session = NoSession /\ seen = {} /\ results = <<>> /\ alive = {} /\ failed = FALSE /\ outcome = ""
    /\ containers = [k \in {} |-> ""] /\ networks = {} /\ kills = {}
    /\ late = FALSE /\ faults = 0 /\ excused = {}

Container(n, i) == <<"container", n, i>>
Network(n) == <<"network", n, 0>>
Command(n) == <<"command", n, 0>>
Own == Container(attempt, 0)
Key == Container(attempt, which)
StateOf(key) == IF key \in DOMAIN containers THEN containers[key] ELSE "gone"
Up(key) == StateOf(key) \in {"running", "healthy", "unhealthy"}
Health == IF which = 0 THEN FALSE ELSE contract.services[which].health

CountFault == faults < MaxFaults /\ faults' = faults + 1

-----------------------------------------------------------------------------
(* Setting up *)

\* failJobSetup, after Close has removed what the session knows
SetupFails == phase' = "closing" /\ outcome' = "failed"

Validate ==
    /\ phase = "validate"
    /\ IF contract.valid
       THEN phase' = "network" /\ UNCHANGED outcome
       ELSE phase' = "closed" /\ outcome' = "failed"
    /\ UNCHANGED <<jobVars, which, dockerVars, session, seen, stepVars, late, failed, faultVars>>

HasServices == contract.services # <<>>

MakeNetwork ==
    /\ phase = "network" /\ ~late
    /\ phase' = "pull"
    /\ IF HasServices
       THEN networks' = networks \cup {attempt} /\ session' = [session EXCEPT !.network = TRUE] /\ which' = 1
       ELSE UNCHANGED <<networks, session, which>>
    /\ UNCHANGED <<jobVars, containers, seen, stepVars, fateVars, faultVars>>

Pull ==
    /\ phase = "pull" /\ ~late
    /\ phase' = "create"
    /\ UNCHANGED <<jobVars, which, dockerVars, session, seen, stepVars, fateVars, faultVars>>

\* The job's container is named after the network.
Nameless == which = 0 /\ ~HasServices

Create ==
    /\ phase = "create" /\ ~late /\ ~Nameless
    /\ containers' = [k \in DOMAIN containers \cup {Key} |-> IF k = Key THEN "created" ELSE containers[k]]
    /\ session' = [session EXCEPT !.containers = Append(@, which)]
    /\ phase' = "start"
    /\ UNCHANGED <<jobVars, which, networks, seen, stepVars, fateVars, faultVars>>

\* The instant at the end of a name is cut off: what an attempt left behind
\* takes the names of the next.
NameIsTaken == \E n \in 1..(attempt - 1) : Container(n, which) \in DOMAIN containers

\* Without a network the name begins with a dash, which Docker refuses.
NameIsRefused ==
    /\ phase = "create" /\ (Nameless \/ NameIsTaken)
    /\ SetupFails
    /\ UNCHANGED <<jobVars, which, dockerVars, session, seen, stepVars, late, failed, faultVars>>

\* The call is lost after Docker did what it asks: nobody knows the container.
CreateIsLost ==
    /\ phase = "create" /\ ~Nameless /\ CountFault
    /\ containers' = [k \in DOMAIN containers \cup {Key} |-> IF k = Key THEN "created" ELSE containers[k]]
    /\ excused' = excused \cup {Key}
    /\ SetupFails
    /\ UNCHANGED <<jobVars, which, networks, session, seen, stepVars, late, failed>>

StartContainer ==
    /\ phase = "start" /\ ~late
    /\ containers' = [containers EXCEPT ![Key] = "running"]
    /\ phase' = "ready"
    /\ UNCHANGED <<jobVars, which, networks, session, seen, stepVars, fateVars, faultVars>>

\* Mutant: a container with a health check is ready once it runs.
ReadyIfUp == Up(Key)

\* waitReady: half a second of running is enough where there is no health check.
Ready == IF Health THEN StateOf(Key) = "healthy" ELSE Up(Key)

AfterThis ==
    IF which # 0 /\ which < Len(contract.services) THEN phase' = "pull" /\ which' = which + 1
    ELSE IF which # 0 /\ contract.container THEN phase' = "pull" /\ which' = 0
    ELSE phase' = "step" /\ which' = 0

WaitEnds ==
    /\ phase = "ready" /\ ~late /\ Ready
    /\ seen' = seen \cup {which}
    /\ IF which # 0 /\ contract.services[which].port
       THEN phase' = "ports" /\ UNCHANGED which
       ELSE AfterThis
    /\ UNCHANGED <<jobVars, dockerVars, session, stepVars, fateVars, faultVars>>

\* captureServicePorts: what exited publishes no port; beside a job's container
\* no port need be published.
CapturePorts ==
    /\ phase = "ports" /\ ~late
    /\ IF contract.container \/ Up(Key)
       THEN AfterThis /\ UNCHANGED outcome
       ELSE SetupFails /\ UNCHANGED which
    /\ UNCHANGED <<jobVars, dockerVars, session, seen, stepVars, late, failed, faultVars>>

\* It exited, is unhealthy, or its health check takes too long
\* (containerReadyTimeout).
ComesUp == Up(Key) /\ ~(Health /\ StateOf(Key) \in {"running", "unhealthy"})

SettingUp == {"network", "pull", "create", "start", "ready", "ports"}

\* A call fails because the job is late, or the container is not coming up.
SetupGivesUp ==
    /\ phase \in SettingUp
    /\ late \/ (phase = "ready" /\ ~ComesUp)
    /\ SetupFails
    /\ UNCHANGED <<jobVars, which, dockerVars, session, seen, stepVars, late, failed, faultVars>>

\* Docker refuses a call.
DockerRefuses ==
    /\ phase \in SettingUp /\ CountFault
    /\ SetupFails
    /\ UNCHANGED <<jobVars, which, dockerVars, session, seen, stepVars, late, failed, excused>>

-----------------------------------------------------------------------------
(* The steps *)

Step == steps[Len(results) + 1]
Record(result) == results' = Append(results, result)

\* Docker takes the command, if the container is there to run it.
BeginStep ==
    /\ phase = "step" /\ ~late /\ Len(results) < Len(steps) /\ (Step.always \/ ~failed)
    /\ IF ~contract.container
       THEN phase' = "exec" /\ UNCHANGED <<stepVars, failed>>
       ELSE IF Up(Own)
       THEN phase' = "exec" /\ alive' = alive \cup {Len(results) + 1} /\ UNCHANGED <<results, kills, failed>>
       ELSE Record("failed") /\ failed' = (failed \/ ~Step.lax) /\ UNCHANGED <<phase, alive, kills>>
    /\ UNCHANGED <<jobVars, which, dockerVars, session, seen, late, outcome, faultVars>>

SkipStep ==
    /\ phase = "step" /\ ~late /\ Len(results) < Len(steps) /\ ~Step.always /\ failed
    /\ Record("skipped")
    /\ UNCHANGED <<jobVars, phase, which, dockerVars, session, seen, alive, kills, fateVars,
                   faultVars>>

\* The command ends by itself, or because its container does.
CommandEnds ==
    /\ phase = "exec" /\ ~late
    /\ \E ok \in BOOLEAN :
        /\ (ok /\ contract.container) => Len(results) + 1 \in alive
        /\ Record(IF ok THEN "succeeded" ELSE "failed")
        /\ failed' = (failed \/ (~ok /\ ~Step.lax))
    /\ alive' = alive \ {Len(results) + 1}
    /\ phase' = "step"
    /\ UNCHANGED <<jobVars, which, dockerVars, session, seen, kills, late, outcome, faultVars>>

\* Mutant: the command is left to itself.
KillNothing == kills

KillBehind == IF contract.container THEN kills \cup {attempt} ELSE kills

\* The step runs out of time, or the job does: Exec returns, and a goroutine
\* kills the container.
StepTimesOut ==
    /\ phase = "exec" /\ (Step.timed \/ late)
    /\ Record("failed") /\ failed' = (failed \/ ~Step.lax)
    /\ kills' = KillBehind
    /\ phase' = "step"
    /\ UNCHANGED <<jobVars, which, dockerVars, session, seen, alive, late, outcome, faultVars>>

\* The connection breaks: the step failed, and its command goes on.
StreamBreaks ==
    /\ phase = "exec" /\ contract.container /\ CountFault
    /\ Record("failed") /\ failed' = (failed \/ ~Step.lax)
    /\ excused' = excused \cup {Command(attempt)}
    /\ phase' = "step"
    /\ UNCHANGED <<jobVars, which, dockerVars, session, seen, alive, kills, late, outcome>>

StepsEnd ==
    /\ phase = "step" /\ (late \/ Len(results) = Len(steps))
    /\ outcome' = IF Len(results) < Len(steps) THEN "cancelled" ELSE IF failed THEN "failed" ELSE "succeeded"
    /\ phase' = "closing"
    /\ UNCHANGED <<jobVars, which, dockerVars, session, seen, stepVars, late, failed, faultVars>>

-----------------------------------------------------------------------------
(* Docker, the containers and the clock *)

Exits(key) ==
    /\ containers' = [containers EXCEPT ![key] = "exited"]
    /\ alive' = IF key = Own THEN {} ELSE alive

\* The kill of a goroutine arrives, at a container that may be gone.
KillLands ==
    /\ \E n \in kills :
        /\ kills' = kills \ {n}
        /\ IF Up(Container(n, 0)) THEN Exits(Container(n, 0)) ELSE UNCHANGED <<containers, alive>>
    /\ UNCHANGED <<jobVars, phase, which, networks, session, seen, results, fateVars, faultVars>>

KillFails ==
    /\ CountFault
    /\ \E n \in kills : kills' = kills \ {n} /\ excused' = excused \cup {Command(n)}
    /\ UNCHANGED <<jobVars, phase, which, dockerVars, session, seen, results, alive, fateVars>>

ContainerExits ==
    /\ CountFault
    /\ \E key \in DOMAIN containers : Up(key) /\ Exits(key)
    /\ UNCHANGED <<jobVars, phase, which, networks, session, seen, results, kills, fateVars,
                   excused>>

HealthChanges ==
    /\ phase = "ready" /\ Health /\ StateOf(Key) = "running"
    /\ \E state \in {"healthy", "unhealthy"} : containers' = [containers EXCEPT ![Key] = state]
    /\ UNCHANGED <<jobVars, phase, which, networks, session, seen, stepVars, fateVars, faultVars>>

\* The run is cancelled, or the job runs out of time.
JobIsLate ==
    /\ ~late /\ phase \notin {"closing", "closed", "crashed"} /\ CountFault
    /\ late' = TRUE
    /\ UNCHANGED <<jobVars, phase, which, dockerVars, session, seen, stepVars, failed, outcome,
                   excused>>

Crash ==
    /\ phase \notin {"closed", "crashed"} /\ CountFault
    /\ phase' = "crashed" /\ kills' = {}
    /\ UNCHANGED <<jobVars, which, dockerVars, session, seen, results, alive, fateVars, excused>>

-----------------------------------------------------------------------------
(* Close, and the next attempt *)

\* Mutant: the network first.
NetworkFirst ==
    IF session.network THEN Network(attempt)
    ELSE Container(attempt, Last(session.containers))

\* Close: the container of the job, the services from the last, the network
NextRemoved ==
    IF session.containers # <<>> THEN Container(attempt, Last(session.containers))
    ELSE Network(attempt)

Forgotten(key) ==
    IF key[1] = "network" THEN [session EXCEPT !.network = FALSE]
    ELSE [session EXCEPT !.containers = Front(@)]

\* Docker does not remove a network with a running container.
InUse == \E key \in DOMAIN containers : key[2] = attempt /\ Up(key)

Close ==
    /\ phase = "closing" /\ session # NoSession
    /\ LET key == NextRemoved
       IN /\ session' = Forgotten(key)
          /\ IF key[1] = "network"
             THEN /\ networks' = IF InUse THEN networks ELSE networks \ {attempt}
                  /\ UNCHANGED <<containers, alive>>
             ELSE /\ containers' = [k \in DOMAIN containers \ {key} |-> containers[k]]
                  /\ alive' = IF key = Own THEN {} ELSE alive
                  /\ UNCHANGED networks
    /\ UNCHANGED <<jobVars, phase, which, seen, results, kills, fateVars, faultVars>>

\* What fails to be removed is not tried again.
CloseFails ==
    /\ phase = "closing" /\ session # NoSession /\ CountFault
    /\ session' = Forgotten(NextRemoved)
    /\ excused' = excused \cup {NextRemoved}
    /\ UNCHANGED <<jobVars, phase, which, dockerVars, seen, stepVars, fateVars>>

Closed ==
    /\ phase = "closing" /\ session = NoSession
    /\ phase' = "closed"
    /\ UNCHANGED <<jobVars, which, dockerVars, session, seen, stepVars, fateVars, faultVars>>

\* The retry policy of the job gives it another attempt.
Retry ==
    /\ phase = "closed" /\ outcome = "failed" /\ ~late /\ attempt < MaxAttempts
    /\ attempt' = attempt + 1 /\ phase' = "validate" /\ which' = 0
    /\ session' = NoSession /\ seen' = {} /\ results' = <<>> /\ alive' = {} /\ failed' = FALSE /\ outcome' = ""
    /\ UNCHANGED <<contract, steps, dockerVars, kills, late, faultVars>>

SessionStep ==
    \/ Validate \/ MakeNetwork \/ Pull \/ Create \/ NameIsRefused \/ StartContainer \/ WaitEnds \/ CapturePorts
    \/ SetupGivesUp \/ BeginStep \/ SkipStep \/ CommandEnds \/ StepTimesOut \/ StepsEnd \/ Close \/ Closed \/ Retry

Next ==
    \/ SessionStep
    \/ CreateIsLost \/ DockerRefuses \/ StreamBreaks
    \/ KillLands \/ KillFails \/ ContainerExits \/ HealthChanges \/ JobIsLate \/ Crash \/ CloseFails

Spec == Init /\ [][Next]_vars
FairSpec == Spec /\ WF_vars(SessionStep) /\ WF_vars(KillLands)

-----------------------------------------------------------------------------
(* Properties *)

SessionTypeOK ==
    /\ attempt \in 1..MaxAttempts /\ which \in 0..Len(contract.services)
    /\ phase \in SettingUp \cup {"validate", "step", "exec", "closing", "closed", "crashed"}
    /\ DOMAIN containers \subseteq {Container(n, i) : n \in 1..MaxAttempts, i \in 0..Len(contract.services)}
    /\ networks \subseteq 1..MaxAttempts /\ kills \subseteq 1..MaxAttempts /\ faults \in 0..MaxFaults
    /\ alive \subseteq 1..Len(steps) /\ Len(results) <= Len(steps)

\* When an attempt is over its containers and its network are gone, but for
\* those that Docker lost or would not remove (newDockerJobSession's
\* cleanupOnError, Close).
NothingIsLeftBehind ==
    phase = "closed" =>
        /\ DOMAIN containers \subseteq excused
        /\ \A n \in networks : Network(n) \in excused \/ \E key \in excused : key[1] = "container" /\ key[2] = n

\* A command is sent only when every service of the job, and the container of
\* the job, were found ready in this attempt (startServices, waitReady).
StepsFindTheirServices ==
    phase = "exec" =>
        /\ 1..Len(contract.services) \subseteq seen
        /\ contract.container => 0 \in seen

\* A service with a health check was healthy when it was found ready.
FoundReadyIsHealthy ==
    \A i \in seen \ {0} :
        contract.services[i].health => StateOf(Container(attempt, i)) \in {"healthy", "exited", "gone"}

\* The command of an earlier step runs beside that of a later one only until
\* the kill of its container lands, or where the connection or the kill failed
\* (Exec returns before its goroutine has killed).
CommandsDoNotPileUp ==
    phase # "crashed" =>
        \A i \in alive : i <= Len(results) => attempt \in kills \/ Command(attempt) \in excused

\* Once the container of the job is dead, no step of the attempt succeeds: a
\* step that ran out of time takes those that may still run with it (Exec).
NoStepOutlivesTheContainer ==
    (contract.container /\ results' # results /\ results' # <<>> /\ Last(results') = "succeeded") => Up(Own)

\* The session is over, as it is in the end whatever happens.
SessionEnded == phase \in {"closed", "crashed"}
=============================================================================
