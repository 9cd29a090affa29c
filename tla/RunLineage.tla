----------------------------- MODULE RunLineage -----------------------------
(***************************************************************************)
(* Replays and rollbacks: a request names a source (a job, a step, a pair  *)
(* of deployments) and an idempotency key, is looked up, evaluated and     *)
(* enqueued in steps of its own (manager.go, store/run_lineage.go), and    *)
(* the triggers of migrations 0007 and 0008 decide once more inside the    *)
(* transaction.  A key stands for the pair (actor, idempotency_key).       *)
(* A definition marked "Mutant" is a bug that could have been made in the  *)
(* next one; no specification uses it.                                     *)
(***************************************************************************)
EXTENDS Naturals, Sequences, FiniteSets

CONSTANTS
    Sources,     \* what can be replayed or rolled back
    Keys,        \* (actor, idempotency key)
    Requests,    \* requests in flight at the same time
    None,
    MaxRuns,     \* bound: runs of lineage
    MaxSyncs,    \* bound: SyncProject calls after the source ran
    MaxReopens,  \* bound: plays of an optional manual job of a finished source
    MaxFailures  \* bound: commits that cannot be resolved, requests that die

VARIABLES
    source,      \* by source: its status
    revision,    \* workflows.revision; the sources ran with revision 1
    rows,        \* run_lineage joined to runs, in the order of insertion
    req,         \* by request: pc, key, source, confirm, answer
    syncs, reopens, failures

vars == <<source, revision, rows, req, syncs, reopens, failures>>
counters == <<syncs, reopens, failures>>

Live == {"queued", "waiting", "running"}
Free == [pc |-> "free", key |-> None, source |-> None, confirm |-> FALSE, answer |-> 0]

Init ==
    /\ source \in [Sources -> {"running", "succeeded", "failed"}]
    /\ revision = 1 /\ rows = <<>>
    /\ req = [q \in Requests |-> Free]
    /\ syncs = 0 /\ reopens = 0 /\ failures = 0

At(q, l) == req[q].pc = l
Goto(q, l) == req' = [req EXCEPT ![q].pc = l]
Returned(q, n) == req' = [req EXCEPT ![q].pc = "returned", ![q].answer = n]

RowsOf(k) == {n \in DOMAIN rows : rows[n].key = k}
Active(s) == \E n \in DOMAIN rows : rows[n].source = s /\ rows[n].status \in Live

\* Mutant: the payload of a known key is not compared.
AnyPayload(q, n) == TRUE
SamePayload(q, n) == rows[n].source = req[q].source

\* existingReplayRun, existingRollbackRun.
Existing(q) ==
    LET n == CHOOSE i \in RowsOf(req[q].key) : TRUE IN
      IF SamePayload(q, n) THEN Returned(q, n) ELSE Goto(q, "conflict")

Request(q, k, s) ==
    /\ req[q].pc \in {"free", "returned", "refused", "conflict", "broken"}
    /\ \E c \in BOOLEAN :
         req' = [req EXCEPT ![q] =
                   [pc |-> "lookup", key |-> k, source |-> s, confirm |-> c, answer |-> 0]]
    /\ UNCHANGED <<source, revision, rows, counters>>

\* The manager looks the key up and resolves the pinned commit with git.
LookupAndResolve(q) ==
    /\ At(q, "lookup")
    /\ \/ Goto(q, "store") /\ UNCHANGED failures
       \/ /\ RowsOf(req[q].key) = {} /\ failures < MaxFailures
          /\ failures' = failures + 1 /\ Goto(q, "refused")
    /\ UNCHANGED <<source, revision, rows, syncs, reopens>>

GetRunLineageByIdempotency(q) ==
    /\ At(q, "store")
    /\ IF RowsOf(req[q].key) # {} THEN Existing(q) ELSE Goto(q, "evaluate")
    /\ UNCHANGED <<source, revision, rows, counters>>

\* Mutant: a source that runs may be replayed.
EligibleIfIdle(s) == ~Active(s)
Eligible(s) ==
    /\ source[s] \in {"succeeded", "failed"}
    /\ ~Active(s)

\* evaluateReplay; validateRollbackPair and the query for a live rollback.
Evaluate(q) ==
    /\ At(q, "evaluate")
    /\ LET s == req[q].source IN
         Goto(q, IF Eligible(s) /\ (source[s] = "succeeded" => req[q].confirm)
                 THEN "enqueue" ELSE "refused")
    /\ UNCHANGED <<source, revision, rows, counters>>

\* Mutant: the key is not unique.
KeyUnchecked(k) == TRUE
KeyFree(k) == RowsOf(k) = {}

\* Mutant: the triggers on live runs were not written.
NoActiveTrigger(s) == TRUE
ActiveTrigger(s) == ~Active(s)

\* UNIQUE (actor, idempotency_key) and the triggers: no live run of the
\* source, and the run has the revision the source ran with.
Accepted(k, s) ==
    /\ KeyFree(k)
    /\ ActiveTrigger(s)
    /\ revision = 1

\* Mutant: the error of the transaction is dropped.
AbortedUnseen(q) == Returned(q, Len(rows) + 1)
\* Mutant: the error of the trigger is not told from others.
AbortedAnyhow(q) == Goto(q, "again")
Aborted(q) == Goto(q, IF ActiveTrigger(req[q].source) THEN "again" ELSE "lost")

EnqueueRun(q) ==
    /\ At(q, "enqueue") /\ Len(rows) < MaxRuns
    /\ LET k == req[q].key  s == req[q].source IN
         IF Accepted(k, s)
         THEN /\ rows' = Append(rows, [key |-> k, source |-> s, status |-> "queued"])
              /\ Returned(q, Len(rows) + 1)
         ELSE Aborted(q) /\ UNCHANGED rows
    /\ UNCHANGED <<source, revision, counters>>

\* After a failed transaction the key is looked up once more; a trigger on
\* live runs tells a conflict, any other error is returned as it is.
LookupAgain(q) ==
    /\ req[q].pc \in {"again", "lost"}
    /\ IF RowsOf(req[q].key) # {} THEN Existing(q)
       ELSE Goto(q, IF At(q, "lost") THEN "conflict" ELSE "broken")
    /\ UNCHANGED <<source, revision, rows, counters>>

\* The worker takes a run of lineage on, and ends it.
Advance(n, st) ==
    /\ rows[n].status \in Live /\ rows[n].status # st
    /\ rows' = [rows EXCEPT ![n].status = st]
    /\ UNCHANGED <<source, revision, req, counters>>

EndSource(s) ==
    /\ source[s] = "running"
    /\ \E st \in {"succeeded", "failed"} : source' = [source EXCEPT ![s] = st]
    /\ UNCHANGED <<revision, rows, req, counters>>

\* PlayManualJob of an optional manual job takes its succeeded run back to work.
PlayJob(s) ==
    /\ source[s] = "succeeded" /\ reopens < MaxReopens
    /\ reopens' = reopens + 1
    /\ source' = [source EXCEPT ![s] = "running"]
    /\ UNCHANGED <<revision, rows, req, syncs, failures>>

\* UpsertWorkflow gives every workflow it finds a new revision.
SyncProject ==
    /\ syncs < MaxSyncs
    /\ syncs' = syncs + 1 /\ revision' = revision + 1
    /\ UNCHANGED <<source, rows, req, reopens, failures>>

\* The client hangs up, or the service dies with its requests.
Die(q) ==
    /\ req[q].pc \in {"lookup", "store", "evaluate", "enqueue", "again", "lost"}
    /\ failures < MaxFailures
    /\ failures' = failures + 1
    /\ req' = [req EXCEPT ![q] = Free]
    /\ UNCHANGED <<source, revision, rows, syncs, reopens>>

Handle(q) ==
    \/ LookupAndResolve(q) \/ GetRunLineageByIdempotency(q) \/ Evaluate(q)
    \/ EnqueueRun(q) \/ LookupAgain(q) \/ Die(q)

Next ==
    \/ SyncProject
    \/ \E s \in Sources : EndSource(s) \/ PlayJob(s)
    \/ \E n \in DOMAIN rows, st \in {"running", "waiting", "succeeded"} : Advance(n, st)
    \/ \E q \in Requests : Handle(q) \/ \E k \in Keys, s \in Sources : Request(q, k, s)

Spec == Init /\ [][Next]_vars

-----------------------------------------------------------------------------
(* Properties *)

\* A request that was answered with a run was answered with a run of lineage.
LineageTypeOK ==
    /\ \A n \in DOMAIN rows : rows[n].key \in Keys /\ rows[n].source \in Sources
    /\ \A q \in Requests : At(q, "returned") => req[q].answer \in DOMAIN rows

\* A key starts one run, and every request that uses it is answered with that
\* run, or not at all (docs/API_V1.md:180 "Reusing the same key returns the
\* original replay").
KeyNamesOneRun ==
    /\ \A k \in Keys : Cardinality(RowsOf(k)) <= 1
    /\ \A p, q \in Requests :
         (At(p, "returned") /\ At(q, "returned") /\ req[p].key = req[q].key)
           => req[p].answer = req[q].answer

\* The run a request is answered with replays what the request asked for.
AnswerIsWhatWasAsked ==
    \A q \in Requests : At(q, "returned") => rows[req[q].answer].source = req[q].source

\* A source has one live replay at most (docs/API_V1.md:181 "a second active
\* replay with a different key conflicts").
OneActiveReplay ==
    \A s \in Sources :
        Cardinality({n \in DOMAIN rows : rows[n].source = s /\ rows[n].status \in Live}) <= 1

\* A replay is enqueued only from a source that has ended, unless one of its
\* manual jobs was played after the evaluation
\* (0008_replay_guards.sql:1 "immutable descendants of a terminal source").
ReplaysTerminalSource ==
    [][\A s \in Sources : reopens = 0 /\ Len(rows') > Len(rows) /\ rows'[Len(rows')].source = s
                            => source[s] # "running"]_vars

\* What was evaluated as eligible is enqueued, or loses to another request, if
\* the project is as it was when the source ran (run_lineage.go:369 "replay can
\* be enqueued").
EligibleIsEnqueued == revision = 1 => \A q \in Requests : ~At(q, "broken")

\* A key starts one run, an answer is the replay that was asked for, a source
\* has one live replay, and what was found eligible is enqueued or loses to
\* another request (docs/API_V1.md:180, replayForKey, EvaluateJobReplay).
RequestsAreAnswered ==
    /\ LineageTypeOK
    /\ KeyNamesOneRun
    /\ AnswerIsWhatWasAsked
    /\ OneActiveReplay
    /\ EligibleIsEnqueued
=============================================================================
