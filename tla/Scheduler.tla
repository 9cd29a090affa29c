----------------------------- MODULE Scheduler -----------------------------
(***************************************************************************)
(* Cron schedules: the pass that claims due schedules, enqueues their runs *)
(* and advances them (scheduler/manager.go), the two tables it works on    *)
(* (store/configuration.go), and the operator who edits, deletes or        *)
(* deactivates in between (store/projects.go).  A pass works from the rows *)
(* it read when it claimed.                                                *)
(* A definition marked "Mutant" is a bug that could have been made in the  *)
(* next one; no specification uses it.                                     *)
(***************************************************************************)
EXTENDS Integers, Sequences, FiniteSetsExt

CONSTANTS
    Schedules, Workers, None,
    Period,      \* by schedule: its cron expression fires at the multiples
    Changes,     \* what the operator may do: "edit", "delete", "deactivate"
    MaxClock,    \* bound: the minutes that pass
    MaxEdits,    \* bound: changes by the operator
    MaxErrors,   \* bound: enqueues that fail (no checkout, no runner, git)
    MaxFaults    \* bound: services that die

VARIABLES
    clock,
    row,       \* schedules: there, active, next_run_at
    claim,     \* schedule_claims.due_at
    project,   \* projects.active
    wish,      \* history: is the schedule meant to be active?
    started,   \* history: the due times whose run was enqueued
    wk,        \* by worker: pc, the pass's now, claims to handle, current one
    edits, errors, faults

rows == <<row, claim, project, wish>>
vars == <<clock, rows, started, wk, edits, errors, faults>>

\* What the proofs assume of the constants: every schedule recurs.
Sensible ==
    /\ Period \in [Schedules -> Nat \ {0}]
    /\ MaxClock \in Nat

Out(l) == [pc |-> l, now |-> 0, todo |-> {}, cur |-> None]
NoTime == 0

\* Expression.Next: the first occurrence strictly later.
NextAfter(s, t) == (t \div Period[s] + 1) * Period[s]

Init ==
    /\ clock = 0
    /\ row = [s \in Schedules |-> [there |-> TRUE, active |-> TRUE, next |-> NextAfter(s, 0)]]
    /\ claim = [s \in Schedules |-> NoTime]
    /\ project = TRUE
    /\ wish = [s \in Schedules |-> TRUE]
    /\ started = [s \in Schedules |-> <<>>]
    /\ wk = [w \in Workers |-> Out("idle")]
    /\ edits = 0 /\ errors = 0 /\ faults = 0

Tick ==
    /\ clock < MaxClock /\ clock' = clock + 1
    /\ UNCHANGED <<rows, started, wk, edits, errors, faults>>

-----------------------------------------------------------------------------
(* One pass: ProcessDue *)

At(w, l)    == wk[w].pc = l
Leave(w, l) == wk' = [wk EXCEPT ![w] = Out(l)]

\* Mutant: a schedule that somebody claimed is due as well.
DueAnyway == {s \in Schedules : row[s].there /\ row[s].active /\ row[s].next \in 1..clock}
\* Mutant: a schedule is due before its time.
DueEarly == {s \in Schedules : row[s].there /\ row[s].active /\ row[s].next > 0 /\ claim[s] = NoTime}
Due == {s \in Schedules :
           row[s].there /\ row[s].active /\ row[s].next \in 1..clock /\ claim[s] = NoTime}

ClaimDueWorkflowSchedules(w) ==
    /\ At(w, "idle") /\ Due # {}
    /\ claim' = [s \in Schedules |-> IF s \in Due THEN row[s].next ELSE claim[s]]
    /\ wk' = [wk EXCEPT ![w] =
           [pc |-> "next", now |-> clock, cur |-> None,
            todo |-> {[schedule |-> s, due |-> row[s].next, active |-> row[s].active] : s \in Due}]]
    /\ UNCHANGED <<clock, row, project, wish, started, edits, errors, faults>>

NextClaim(w) ==
    /\ At(w, "next")
    /\ IF wk[w].todo = {} THEN Leave(w, "idle")
       ELSE \E c \in wk[w].todo :
              wk' = [wk EXCEPT ![w].pc = "check", ![w].cur = c, ![w].todo = @ \ {c}]
    /\ UNCHANGED <<clock, rows, started, edits, errors, faults>>

\* EnqueueTriggered reads the project first; what follows may fail as well.
CheckProject(w) ==
    /\ At(w, "check")
    /\ \/ project /\ wk' = [wk EXCEPT ![w].pc = "insert"] /\ UNCHANGED errors
       \/ ~project /\ wk' = [wk EXCEPT ![w].pc = "retry"] /\ UNCHANGED errors
       \/ /\ errors < MaxErrors /\ errors' = errors + 1
          /\ wk' = [wk EXCEPT ![w].pc = "retry"]
    /\ UNCHANGED <<clock, rows, started, edits, faults>>

EnqueueRun(w) ==
    /\ At(w, "insert")
    /\ LET c == wk[w].cur IN
         started' = [started EXCEPT ![c.schedule] = Append(@, c.due)]
    /\ wk' = [wk EXCEPT ![w].pc = "advance"]
    /\ UNCHANGED <<clock, rows, edits, errors, faults>>

\* Mutant: the schedule is advanced from the time of the pass.
AdvancedSkipping(w) == IF At(w, "retry") THEN wk[w].now + 1 ELSE NextAfter(wk[w].cur.schedule, wk[w].now)
Advanced(w) ==
    IF At(w, "retry") THEN wk[w].now + 1 ELSE NextAfter(wk[w].cur.schedule, wk[w].cur.due)

\* Mutant: the claim is kept.
ReleasedNever(s) == claim[s]
Released(s) == NoTime

Found(s) == row[s].there

\* The pass writes the row as it read it, with a new next_run_at.
AdvanceSchedule(w) ==
    /\ wk[w].pc \in {"advance", "retry"}
    /\ LET s == wk[w].cur.schedule IN
         IF Found(s)
         THEN /\ row' = [row EXCEPT ![s].active = wk[w].cur.active, ![s].next = Advanced(w)]
              /\ claim' = [claim EXCEPT ![s] = Released(s)]
              /\ wk' = [wk EXCEPT ![w].pc = "next", ![w].cur = None]
         ELSE Leave(w, "dead") /\ UNCHANGED <<row, claim>>
    /\ UNCHANGED <<clock, project, wish, started, edits, errors, faults>>

Crash(w) ==
    /\ faults < MaxFaults /\ faults' = faults + 1
    /\ Leave(w, "dead")
    /\ UNCHANGED <<clock, rows, started, edits, errors>>

Restart(w) ==
    /\ At(w, "dead") /\ Leave(w, "idle")
    /\ UNCHANGED <<clock, rows, started, edits, errors, faults>>

-----------------------------------------------------------------------------
(* The operator *)

Change(kind) ==
    /\ kind \in Changes /\ edits < MaxEdits /\ edits' = edits + 1
    /\ UNCHANGED <<clock, started, wk, errors, faults>>

\* An active schedule gets the next time after now; its claim is dropped.
UpdateWorkflowSchedule(s, on) ==
    /\ Change("edit") /\ row[s].there
    /\ row' = [row EXCEPT ![s].active = on,
                          ![s].next = IF on THEN NextAfter(s, clock) ELSE NoTime]
    /\ claim' = [claim EXCEPT ![s] = NoTime]
    /\ wish' = [wish EXCEPT ![s] = on]
    /\ UNCHANGED project

DeleteWorkflowSchedule(s) ==
    /\ Change("delete") /\ row[s].there
    /\ row' = [row EXCEPT ![s] = [there |-> FALSE, active |-> FALSE, next |-> NoTime]]
    /\ claim' = [claim EXCEPT ![s] = NoTime]
    /\ wish' = [wish EXCEPT ![s] = FALSE]
    /\ UNCHANGED project

\* The runs it asks about may have ended by then.
DeactivateProject ==
    /\ Change("deactivate") /\ project
    /\ project' = FALSE
    /\ row' = [s \in Schedules |-> [row[s] EXCEPT !.active = FALSE, !.next = NoTime]]
    /\ claim' = [s \in Schedules |-> NoTime]
    /\ wish' = [s \in Schedules |-> FALSE]

ReactivateProject ==
    /\ Change("deactivate") /\ ~project
    /\ project' = TRUE
    /\ UNCHANGED <<row, claim, wish>>

WorkerStep(w) ==
    \/ ClaimDueWorkflowSchedules(w) \/ NextClaim(w) \/ CheckProject(w)
    \/ EnqueueRun(w) \/ AdvanceSchedule(w) \/ Restart(w)

Next ==
    \/ Tick \/ DeactivateProject \/ ReactivateProject
    \/ \E w \in Workers : WorkerStep(w) \/ Crash(w)
    \/ \E s \in Schedules :
         \/ DeleteWorkflowSchedule(s)
         \/ \E on \in BOOLEAN : UpdateWorkflowSchedule(s, on)

Spec == Init /\ [][Next]_vars

\* A pass every 20 seconds; a service that ended is restarted.
FairSpec == Spec /\ WF_vars(Tick) /\ \A w \in Workers : WF_vars(WorkerStep(w))

-----------------------------------------------------------------------------
(* Properties *)

\* Every column and every worker's position holds what it may hold; a claim
\* and a time to run belong to rows that exist.
ScheduleTypeOK ==
    /\ clock \in 0..MaxClock /\ project \in BOOLEAN
    /\ \A s \in Schedules :
         /\ row[s].there \in BOOLEAN /\ row[s].active \in BOOLEAN /\ row[s].next \in Nat
         /\ claim[s] \in 0..clock
         /\ ~row[s].there => (claim[s] = NoTime /\ ~row[s].active)
    /\ \A w \in Workers : wk[w].pc \in {"idle", "next", "check", "insert", "advance", "retry", "dead"}

\* No due time starts two runs, and they start in order, whatever crashes
\* (ClaimDueWorkflowSchedules: the claim is inserted with the read).
DueTimesStartOnce ==
    \A s \in Schedules : \A i, j \in 1..Len(started[s]) :
        i < j => started[s][i] < started[s][j]

\* After a late pass every missed occurrence is caught up, none is skipped
\* (ProcessDue advances from the due time, not from now).
NoOccurrenceSkipped ==
    \A s \in Schedules : \A i \in 1..Len(started[s]) : started[s][i] = i * Period[s]

\* A schedule that is due is started while it stays active
\* (store/configuration.go: "A claim remains durable across a restart until
\* UpdateWorkflowSchedule records the next run").
DueSchedulesRun ==
    \A s \in Schedules : \A t \in 1..MaxClock :
        t % Period[s] = 0 =>
            ((clock >= t) ~> (t \in {started[s][i] : i \in 1..Len(started[s])} \/ ~wish[s]))

=============================================================================
