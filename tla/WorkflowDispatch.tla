-------------------------- MODULE WorkflowDispatch --------------------------
(***************************************************************************)
(* The outbox of finished runs and the workers that start the workflows    *)
(* that wait for them (on: workflow_run): store/workflow_runs.go with the  *)
(* triggers of migration 0009, execution/workflow_runs.go.  A link is      *)
(* unique per source run and target workflow, so a run is named by the     *)
(* chain of workflows that led to it.                                      *)
(* A definition marked "Mutant" is a bug that could have been made in the  *)
(* next one; no specification uses it.                                     *)
(***************************************************************************)
EXTENDS Naturals, Sequences, SequencesExt

CONSTANTS
    Workflows, Workers, None,
    Roots,         \* the workflows somebody starts by hand
    Targets,       \* by workflow, the workflows its completion triggers
    Unavailable,   \* workflows for which this host has no runner
    Grouped,       \* workflows with a concurrency group
    MaxDepth,      \* workflowRunMaxDepth
    MaxSyncs,      \* bound: changes of the set of active workflows
    MaxFaults      \* bound: workers that die

VARIABLES
    run,           \* runs.status, by chain
    dispatch,      \* workflow_run_dispatches: "none", "pending" or "done"
    active,        \* workflows.active
    wk,            \* by worker: pc, dispatches to do, source, targets, run
    syncs, faults,
    stray,         \* history: runs whose superseding was cut off, or requeued
    dropped        \* history: workflows that were not active at some time

past == <<stray, dropped>>
vars == <<run, dispatch, active, wk, syncs, faults, past>>

Runs == {c \in UNION {[1..n -> Workflows] : n \in 1..(MaxDepth + 2)} :
            c[1] \in Roots /\ \A i \in 1..(Len(c) - 1) : c[i + 1] \in Targets[c[i]]}
Terminal == {"finished", "cancelled"}
Depth(c) == Len(c) - 1
Out(l) == [pc |-> l, todo |-> {}, source |-> <<>>, left |-> {}, run |-> <<>>]

\* What the proofs assume of the constants: workflows follow workflows.
Sensible ==
    /\ Targets \in [Workflows -> SUBSET Workflows]
    /\ MaxDepth \in Nat

Init ==
    /\ run = [c \in Runs |-> "absent"]
    /\ dispatch = [c \in Runs |-> "none"]
    /\ active = Workflows
    /\ wk = [w \in Workers |-> Out("idle")]
    /\ syncs = 0 /\ faults = 0
    /\ stray = {} /\ dropped = {}

\* Mutant: a cancelled run is announced to nobody.
SetStatusQuietly(f) ==
    /\ run' = f
    /\ dispatch' = [c \in Runs |->
           IF f[c] = "finished" /\ dispatch[c] = "none" THEN "pending" ELSE dispatch[c]]

\* The trigger workflow_run_dispatch_terminal: INSERT OR IGNORE.
SetStatus(f) ==
    /\ run' = f
    /\ dispatch' = [c \in Runs |->
           IF f[c] \in Terminal /\ dispatch[c] = "none" THEN "pending" ELSE dispatch[c]]

Start(c) ==
    /\ Depth(c) = 0 /\ run[c] = "absent" /\ c[1] \in active
    /\ SetStatus([run EXCEPT ![c] = "queued"])
    /\ UNCHANGED <<active, wk, syncs, faults, past>>

SyncProject(t) ==
    /\ syncs < MaxSyncs
    /\ active' = IF t \in active THEN active \ {t} ELSE active \cup {t}
    /\ syncs' = syncs + 1
    /\ dropped' = dropped \cup {t}
    /\ UNCHANGED <<run, dispatch, wk, faults, stray>>

-----------------------------------------------------------------------------
At(w, l)    == wk[w].pc = l
Leave(w, l) == wk' = [wk EXCEPT ![w] = Out(l)]
Child(w, t) == Append(wk[w].source, t)

ListPendingWorkflowRunDispatches(w) ==
    /\ At(w, "idle")
    /\ wk' = [wk EXCEPT ![w].pc = "dispatch", ![w].todo = {c \in Runs : dispatch[c] = "pending"}]
    /\ UNCHANGED <<run, dispatch, active, syncs, faults, past>>

\* Mutant: the chain may have one level more.
TooDeepLate(c) == Depth(c) > MaxDepth
TooDeep(c) == Depth(c) >= MaxDepth

\* Mutant: a workflow that is in the chain already is left out.
ChosenFresh(c) == {t \in Targets[Last(c)] \cap active : t \notin ToSet(c)}
Chosen(c) == Targets[Last(c)] \cap active

LoadSource(w) ==
    /\ At(w, "dispatch")
    /\ \E c \in wk[w].todo :
         IF TooDeep(c)
         THEN /\ dispatch' = [dispatch EXCEPT ![c] = "done"]
              /\ wk' = [wk EXCEPT ![w].todo = @ \ {c}]
         ELSE /\ wk' = [wk EXCEPT ![w].pc = "target", ![w].source = c, ![w].left = Chosen(c)]
              /\ UNCHANGED dispatch
    /\ UNCHANGED <<run, active, syncs, faults, past>>

\* A target that this host cannot run ends the pass, and with it the service.
LookUpTarget(w) ==
    /\ At(w, "target")
    /\ \E t \in wk[w].left :
         \/ /\ run[Child(w, t)] # "absent"
            /\ wk' = [wk EXCEPT ![w].left = @ \ {t}]
         \/ /\ run[Child(w, t)] = "absent" /\ t \in Unavailable
            /\ Leave(w, "dead")
         \/ /\ run[Child(w, t)] = "absent" /\ t \notin Unavailable
            /\ wk' = [wk EXCEPT ![w].pc = "enqueue", ![w].run = Child(w, t)]
    /\ UNCHANGED <<run, dispatch, active, syncs, faults, past>>

\* EnqueueRun with its link: unique, and refused once the dispatch is marked.
EnqueueTarget(w) ==
    /\ At(w, "enqueue")
    /\ LET c == wk[w].run
           t == Last(c)
           handled(l) == wk' = [wk EXCEPT ![w].pc = l, ![w].left = @ \ {t}]
       IN  \/ /\ run[c] # "absent"
              /\ handled("target") /\ UNCHANGED <<run, dispatch>>
           \/ /\ run[c] = "absent" /\ dispatch[wk[w].source] = "done"
              /\ Leave(w, "dead") /\ UNCHANGED <<run, dispatch>>
           \/ /\ run[c] = "absent" /\ dispatch[wk[w].source] = "pending"
              /\ SetStatus([run EXCEPT ![c] = "queued"])
              /\ handled(IF t \in Grouped THEN "supersede" ELSE "target")
    /\ UNCHANGED <<active, syncs, faults, past>>

\* The cancellations one by one are those of ConcurrencyGroups.
\* Mutant: only runs of the same source are looked at.
SupersededSelf(c) == {o \in Runs \ {c} : Front(o) = Front(c) /\ run[o] = "queued"}
Superseded(c) == {o \in Runs \ {c} : Last(o) = Last(c) /\ run[o] = "queued"}

CancelSuperseded(w) ==
    /\ At(w, "supersede")
    /\ SetStatus([c \in Runs |-> IF c \in Superseded(wk[w].run) THEN "cancelled" ELSE run[c]])
    /\ wk' = [wk EXCEPT ![w].pc = "target"]
    /\ UNCHANGED <<active, syncs, faults, past>>

MarkWorkflowRunDispatched(w) ==
    /\ At(w, "target") /\ wk[w].left = {}
    /\ dispatch' = [dispatch EXCEPT ![wk[w].source] = "done"]
    /\ wk' = [wk EXCEPT ![w].pc = "dispatch", ![w].todo = @ \ {wk[w].source}]
    /\ UNCHANGED <<run, active, syncs, faults, past>>

ClaimNextQueuedRun(w) ==
    /\ At(w, "dispatch") /\ wk[w].todo = {}
    /\ IF \A c \in Runs : run[c] # "queued"
       THEN Leave(w, "idle") /\ UNCHANGED <<run, dispatch>>
       ELSE \E c \in Runs :
              /\ run[c] = "queued"
              /\ SetStatus([run EXCEPT ![c] = "running"])
              /\ wk' = [wk EXCEPT ![w] = [Out("execute") EXCEPT !.run = c]]
    /\ UNCHANGED <<active, syncs, faults, past>>

FinishRun(w) ==
    /\ At(w, "execute")
    /\ SetStatus([run EXCEPT ![wk[w].run] = "finished"])
    /\ Leave(w, "idle")
    /\ UNCHANGED <<active, syncs, faults, past>>

Crash(w) ==
    /\ faults < MaxFaults
    /\ faults' = faults + 1
    /\ Leave(w, "dead")
    /\ stray' = IF At(w, "supersede") THEN stray \cup {wk[w].run} ELSE stray
    /\ UNCHANGED <<run, dispatch, active, syncs, dropped>>

Restart(w) ==
    /\ At(w, "dead")
    /\ Leave(w, "idle")
    /\ UNCHANGED <<run, dispatch, active, syncs, faults, past>>

\* RecoverExpiredRunWorkers: requeued, or failed in the middle of a command
RecoverRun(c) ==
    /\ run[c] = "running"
    /\ \A w \in Workers : At(w, "execute") => wk[w].run # c
    /\ \E s \in {"queued", "finished"} : SetStatus([run EXCEPT ![c] = s])
    /\ stray' = stray \cup {c}
    /\ UNCHANGED <<active, wk, syncs, faults, dropped>>

WorkerStep(w) ==
    \/ ListPendingWorkflowRunDispatches(w) \/ LoadSource(w) \/ LookUpTarget(w)
    \/ EnqueueTarget(w) \/ CancelSuperseded(w) \/ MarkWorkflowRunDispatched(w)
    \/ ClaimNextQueuedRun(w) \/ FinishRun(w) \/ Restart(w)

Next ==
    \/ \E w \in Workers : WorkerStep(w) \/ Crash(w)
    \/ \E c \in Runs : Start(c) \/ RecoverRun(c)
    \/ \E t \in Workflows : SyncProject(t)

Spec == Init /\ [][Next]_vars

\* Every worker goes on and is restarted, and a dead worker's run is recovered.
FairSpec ==
    /\ Spec
    /\ \A w \in Workers : WF_vars(WorkerStep(w))
    /\ \A c \in Runs : WF_vars(RecoverRun(c))

-----------------------------------------------------------------------------
(* Properties *)

\* Every variable holds what its column or its goroutine may hold.
DispatchTypeOK ==
    /\ run \in [Runs -> Terminal \cup {"absent", "queued", "running"}]
    /\ dispatch \in [Runs -> {"none", "pending", "done"}]
    /\ \A c \in Runs : dispatch[c] # "none" <=> run[c] \in Terminal

\* Workflows that trigger each other stop after MaxDepth generations
\* (TestWorkflowRunChainStopsAfterThreeDownstreamLevels).
ChainsEnd == \A c \in Runs : Depth(c) > MaxDepth => run[c] = "absent"

\* A dispatch is marked only when all its targets have their run, also when
\* two workers share the work and one dies; only a target that was not active
\* for a time may be passed over (dispatchCompletedWorkflow).
MarkedMeansStarted ==
    \A c \in Runs : dispatch[c] = "done" /\ ~TooDeep(c) =>
        \A t \in Targets[Last(c)] \ dropped : run[Append(c, t)] # "absent"

\* Every target that can run here and stayed active is started when its source
\* has finished (compatibility/registry.go: "Dispatch durable downstream
\* workflows from terminal local runs").
CompletionsAreAnnounced ==
    \A c \in Runs : \A t \in Targets[Last(c)] \ Unavailable :
        Depth(c) < MaxDepth =>
            (run[c] \in Terminal ~> run[Append(c, t)] # "absent" \/ t \in dropped)

\* Of two dispatched runs of a group one is pending at most, or a worker is
\* about to supersede for one of them; but a run whose worker died in between,
\* or which was running then and is queued again, may stay beside another
\* (cancelSupersededConcurrencyRuns after EnqueueRun, RecoverExpiredRunWorkers).
OnePendingPerGroup ==
    \A c, o \in Runs :
        /\ c # o /\ Last(c) = Last(o) /\ Last(c) \in Grouped
        /\ Depth(c) > 0 /\ Depth(o) > 0 /\ run[c] = "queued" /\ run[o] = "queued"
        => \/ {c, o} \cap stray # {}
           \/ \E w \in Workers : At(w, "supersede") /\ wk[w].run \in {c, o}
=============================================================================
