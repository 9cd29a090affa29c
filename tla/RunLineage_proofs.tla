------------------------- MODULE RunLineage_proofs -------------------------
(* One run per key, one live replay per source, for any requests and bounds. *)
EXTENDS RunLineage, FiniteSetTheorems, TLAPS

Places == {"free", "lookup", "store", "evaluate", "enqueue", "again", "lost",
           "returned", "refused", "conflict", "broken"}
Row == [key : Keys, source : Sources, status : Live \cup {"succeeded"}]

Asked == [pc : Places, key : Keys \cup {None}, source : Sources \cup {None},
          confirm : BOOLEAN, answer : Nat]

\* What rows and requests may hold; a request that was made has a key and a source.
Typed ==
    /\ rows \in Seq(Row)
    /\ req \in [Requests -> Asked]
    /\ \A q \in Requests : ~At(q, "free") => req[q].key \in Keys /\ req[q].source \in Sources

\* UNIQUE (actor, idempotency_key).
KeysAreUnique == \A m, n \in DOMAIN rows : rows[m].key = rows[n].key => m = n

\* The triggers on live runs.
LiveAreUnique ==
    \A m, n \in DOMAIN rows :
        (rows[m].source = rows[n].source /\ rows[m].status \in Live /\ rows[n].status \in Live) => m = n

\* A request is answered with the row of its key, which has its source.
AnswersHaveRows ==
    \A q \in Requests : At(q, "returned") =>
        /\ req[q].answer \in DOMAIN rows
        /\ rows[req[q].answer].key = req[q].key
        /\ rows[req[q].answer].source = req[q].source

LineageInv == Typed /\ KeysAreUnique /\ LiveAreUnique /\ AnswersHaveRows

\* No request was made yet.
LEMMA InitLineage == Init => LineageInv
BY DEF Init, LineageInv, Typed, KeysAreUnique, LiveAreUnique, AnswersHaveRows, Free, Places, Asked, At

\* A request that is answered keeps its key and its source.
LEMMA ReturnedKeeps ==
    ASSUME req \in [Requests -> Asked], NEW q \in Requests, NEW n \in Nat, Returned(q, n)
    PROVE  /\ req' \in [Requests -> Asked]
           /\ req'[q].pc = "returned" /\ req'[q].answer = n
           /\ req'[q].key = req[q].key /\ req'[q].source = req[q].source
           /\ \A r \in Requests \ {q} : req'[r] = req[r]
<1> DEFINE done == [req[q] EXCEPT !.pc = "returned", !.answer = n]
<1>1. req[q] \in Asked
    OBVIOUS
<1>2. /\ done \in Asked /\ done.pc = "returned" /\ done.answer = n
      /\ done.key = req[q].key /\ done.source = req[q].source
    BY <1>1 DEF Asked, Places
<1>3. req' = [req EXCEPT ![q] = done]
    BY DEF Returned
<1> HIDE DEF done
<1> QED
    BY <1>2, <1>3

\* A request that moves on without an answer, while the rows stay, keeps the invariant.
LEMMA MoveKeeps ==
    ASSUME LineageInv, UNCHANGED rows, NEW q \in Requests, NEW l \in Places \ {"free", "returned"},
           ~At(q, "free"), Goto(q, l)
    PROVE  LineageInv'
BY DEF LineageInv, Typed, KeysAreUnique, LiveAreUnique, AnswersHaveRows, Asked, At, Goto

\* The row that a known key has is the answer, or the request conflicts (existingReplayRun).
LEMMA ExistingKeeps ==
    ASSUME LineageInv, UNCHANGED rows, NEW q \in Requests, ~At(q, "free"),
           RowsOf(req[q].key) # {}, Existing(q)
    PROVE  LineageInv'
<1> DEFINE n == CHOOSE i \in RowsOf(req[q].key) : TRUE
<1>1. n \in DOMAIN rows /\ rows[n].key = req[q].key /\ n \in Nat
    BY DEF RowsOf, LineageInv, Typed
<1>2. CASE SamePayload(q, n)
    <2>1. Returned(q, n)
        BY <1>2 DEF Existing
    <2>3. rows[n].source = req[q].source
        BY <1>2 DEF SamePayload
    <2> HIDE DEF n
    <2>4. /\ req' \in [Requests -> Asked]
          /\ req'[q].pc = "returned" /\ req'[q].answer = n
          /\ req'[q].key = req[q].key /\ req'[q].source = req[q].source
          /\ \A r \in Requests \ {q} : req'[r] = req[r]
        BY <1>1, <2>1, ReturnedKeeps DEF LineageInv, Typed
    <2>5. Typed' /\ KeysAreUnique' /\ LiveAreUnique'
        BY <2>4 DEF LineageInv, Typed, KeysAreUnique, LiveAreUnique, At
    <2>6. AnswersHaveRows'
        BY <1>1, <2>3, <2>4 DEF LineageInv, AnswersHaveRows, At
    <2> QED
        BY <2>5, <2>6 DEF LineageInv
<1>3. CASE ~SamePayload(q, n)
    <2>1. Goto(q, "conflict")
        BY <1>3 DEF Existing
    <2> QED
        BY <2>1, MoveKeeps DEF Places
<1> QED
    BY <1>2, <1>3

\* A row is appended only if its key is new and its source has no live row (Accepted).
LEMMA EnqueueKeeps ==
    ASSUME LineageInv, NEW q \in Requests, EnqueueRun(q)
    PROVE  LineageInv'
<1> DEFINE k == req[q].key
           s == req[q].source
           new == [key |-> k, source |-> s, status |-> "queued"]
<1>1. ~At(q, "free") /\ At(q, "enqueue") /\ k \in Keys /\ s \in Sources
    BY DEF EnqueueRun, At, LineageInv, Typed
<1>2. CASE Accepted(k, s)
    <2>1. /\ rows' = Append(rows, new)
          /\ req' = [req EXCEPT ![q].pc = "returned", ![q].answer = Len(rows) + 1]
        BY <1>2 DEF EnqueueRun, Returned
    <2>2. new \in Row
        BY <1>1 DEF Row, Live
    <2>3. /\ rows \in Seq(Row) /\ rows' \in Seq(Row) /\ Len(rows') = Len(rows) + 1
          /\ DOMAIN rows' = DOMAIN rows \cup {Len(rows) + 1}
          /\ rows'[Len(rows) + 1] = new
          /\ \A i \in DOMAIN rows : rows'[i] = rows[i] /\ i # Len(rows) + 1
        BY <2>1, <2>2 DEF LineageInv, Typed
    <2>4. \A i \in DOMAIN rows : rows[i].key # k
        BY <1>2 DEF Accepted, KeyFree, RowsOf
    <2>5. \A i \in DOMAIN rows : ~(rows[i].source = s /\ rows[i].status \in Live)
        BY <1>2 DEF Accepted, ActiveTrigger, Active
    <2>6. new.key = k /\ new.source = s /\ new.status = "queued"
        OBVIOUS
    <2> HIDE DEF new
    <2>7. KeysAreUnique'
        BY <2>3, <2>4, <2>6 DEF LineageInv, KeysAreUnique
    <2>8. LiveAreUnique'
        BY <2>3, <2>5, <2>6 DEF LineageInv, LiveAreUnique
    <2>9. Returned(q, Len(rows) + 1) /\ Len(rows) + 1 \in Nat
        BY <1>2, <2>3 DEF EnqueueRun
    <2>10. /\ req' \in [Requests -> Asked]
           /\ req'[q].pc = "returned" /\ req'[q].answer = Len(rows) + 1
           /\ req'[q].key = k /\ req'[q].source = s
           /\ \A r \in Requests \ {q} : req'[r] = req[r]
        BY <2>9, ReturnedKeeps DEF LineageInv, Typed
    <2>11. Typed'
        BY <1>1, <2>3, <2>10 DEF LineageInv, Typed, At
    <2>12. AnswersHaveRows'
        BY <2>3, <2>6, <2>10 DEF LineageInv, AnswersHaveRows, At
    <2> QED
        BY <2>7, <2>8, <2>11, <2>12 DEF LineageInv
<1>3. CASE ~Accepted(k, s)
    <2>1. UNCHANGED rows /\ Aborted(q)
        BY <1>3 DEF EnqueueRun
    <2> QED
        BY <1>1, <2>1, MoveKeeps DEF Aborted, Places
<1> QED
    BY <1>2, <1>3

\* A run of lineage that moves on keeps its key and source, and was live (Advance).
LEMMA AdvanceKeeps ==
    ASSUME LineageInv, NEW n \in DOMAIN rows, NEW st \in {"running", "waiting", "succeeded"}, Advance(n, st)
    PROVE  LineageInv'
<1>1. /\ rows' \in Seq(Row) /\ DOMAIN rows' = DOMAIN rows /\ req' = req
      /\ \A i \in DOMAIN rows :
            /\ rows'[i].key = rows[i].key /\ rows'[i].source = rows[i].source
            /\ rows'[i].status \in Live => rows[i].status \in Live
    <2>1. /\ rows \in Seq(Row) /\ rows[n] \in Row /\ req' = req
          /\ rows' = [rows EXCEPT ![n] = [rows[n] EXCEPT !.status = st]]
          /\ rows[n].status \in Live
        BY DEF Advance, LineageInv, Typed
    <2>2. [rows[n] EXCEPT !.status = st] \in Row
        BY <2>1 DEF Row, Live
    <2>3. rows' \in Seq(Row) /\ DOMAIN rows' = DOMAIN rows
        BY <2>1, <2>2
    <2>4. ASSUME NEW i \in DOMAIN rows
          PROVE  /\ rows'[i].key = rows[i].key /\ rows'[i].source = rows[i].source
                 /\ rows'[i].status \in Live => rows[i].status \in Live
        BY <2>1 DEF Row
    <2> QED
        BY <2>1, <2>3, <2>4
<1> QED
    BY <1>1 DEF LineageInv, Typed, KeysAreUnique, LiveAreUnique, AnswersHaveRows, At

\* Every step of a request, a worker or an operator keeps the invariant.
LEMMA StepLineage == LineageInv /\ [Next]_vars => LineageInv'
<1> SUFFICES ASSUME LineageInv, [Next]_vars PROVE LineageInv'
    OBVIOUS
<1>1. ASSUME UNCHANGED <<rows, req>> PROVE LineageInv'
    BY <1>1 DEF LineageInv, Typed, KeysAreUnique, LiveAreUnique, AnswersHaveRows, At
<1>2. ASSUME NEW q \in Requests, Handle(q) PROVE LineageInv'
    <2>1. CASE LookupAndResolve(q)
        BY <2>1, MoveKeeps DEF LookupAndResolve, At, Places
    <2>2. CASE GetRunLineageByIdempotency(q)
        BY <2>2, MoveKeeps, ExistingKeeps DEF GetRunLineageByIdempotency, At, Places
    <2>3. CASE Evaluate(q)
        <3>1. PICK l \in {"enqueue", "refused"} : Goto(q, l)
            BY <2>3 DEF Evaluate
        <3> QED
            BY <2>3, <3>1, MoveKeeps DEF Evaluate, At, Places
    <2>4. CASE EnqueueRun(q)
        BY <2>4, EnqueueKeeps
    <2>5. CASE LookupAgain(q)
        BY <2>5, MoveKeeps, ExistingKeeps DEF LookupAgain, At, Places
    <2>6. CASE Die(q)
        BY <2>6 DEF Die, LineageInv, Typed, KeysAreUnique, LiveAreUnique, AnswersHaveRows, At, Free, Places, Asked
    <2> QED
        BY <1>2, <2>1, <2>2, <2>3, <2>4, <2>5, <2>6 DEF Handle
<1>3. ASSUME NEW q \in Requests, NEW k \in Keys, NEW s \in Sources, Request(q, k, s) PROVE LineageInv'
    BY <1>3 DEF Request, LineageInv, Typed, KeysAreUnique, LiveAreUnique, AnswersHaveRows, Asked, At, Places
<1>4. ASSUME NEW n \in DOMAIN rows, NEW st \in {"running", "waiting", "succeeded"}, Advance(n, st)
      PROVE  LineageInv'
    BY <1>4, AdvanceKeeps
<1>5. ASSUME SyncProject \/ (\E s \in Sources : EndSource(s) \/ PlayJob(s)) \/ UNCHANGED vars PROVE LineageInv'
    BY <1>1, <1>5 DEF SyncProject, EndSource, PlayJob, vars
<1> QED
    BY <1>2, <1>3, <1>4, <1>5 DEF Next

\* The invariant holds in every behaviour.
THEOREM LineageInvariant == Spec => []LineageInv
BY InitLineage, StepLineage, PTL DEF Spec

\* A set of positions without two members has one at most.
LEMMA AtMostOne ==
    ASSUME NEW S, \A m, n \in S : m = n
    PROVE  Cardinality(S) <= 1
<1>1. CASE S = {}
    BY <1>1, FS_EmptySet
<1>2. ASSUME NEW m \in S PROVE Cardinality(S) <= 1
    <2>1. S = {m}
        BY <1>2
    <2>2. Cardinality(S) = 1
        BY <2>1, FS_Singleton, Zenon
    <2> QED
        BY <2>2
<1> QED
    BY <1>1, <1>2

\* However requests overlap, fail or die, a key starts one run, and whoever uses it is answered
\* with that run (replayForKey, UNIQUE (actor, idempotency_key)).
THEOREM KeyAlwaysNamesOneRun == Spec => []KeyNamesOneRun
<1>1. LineageInv => KeyNamesOneRun
    <2> SUFFICES ASSUME LineageInv PROVE KeyNamesOneRun
        OBVIOUS
    <2>1. ASSUME NEW k \in Keys PROVE Cardinality(RowsOf(k)) <= 1
        BY AtMostOne DEF LineageInv, KeysAreUnique, RowsOf
    <2>2. ASSUME NEW p \in Requests, NEW q \in Requests, At(p, "returned"), At(q, "returned"),
                 req[p].key = req[q].key
          PROVE  req[p].answer = req[q].answer
        BY <2>2 DEF LineageInv, AnswersHaveRows, KeysAreUnique
    <2> QED
        BY <2>1, <2>2 DEF KeyNamesOneRun
<1> QED
    BY LineageInvariant, <1>1, PTL

\* The run that a request is answered with has the source it asked for (existingReplayRun).
THEOREM AnswersAreAsked == Spec => []AnswerIsWhatWasAsked
<1>1. LineageInv => AnswerIsWhatWasAsked
    BY DEF LineageInv, AnswersHaveRows, AnswerIsWhatWasAsked
<1> QED
    BY LineageInvariant, <1>1, PTL

\* A source has one live replay (the triggers of migrations 0007 and 0008).
THEOREM OneReplayIsLive == Spec => []OneActiveReplay
<1>1. LineageInv => OneActiveReplay
    BY AtMostOne DEF LineageInv, LiveAreUnique, OneActiveReplay
<1> QED
    BY LineageInvariant, <1>1, PTL

\* An eligible source has ended, and is not taken back to work unless it is played (PlayJob).
EndedSources ==
    /\ source \in [Sources -> {"running", "succeeded", "failed"}] /\ reopens \in Nat
    /\ reopens = 0 => \A q \in Requests : At(q, "enqueue") => source[req[q].source] # "running"

\* Without a new revision, only a key that is taken sends a request to look again.
RefusedHaveRows ==
    /\ revision \in Nat \ {0}
    /\ revision = 1 => \A q \in Requests : /\ At(q, "again") => RowsOf(req[q].key) # {}
                                           /\ ~At(q, "broken")

AnswerInv == LineageInv /\ EndedSources /\ RefusedHaveRows

\* A request keeps its key and its source while it moves.
LEMMA GotoMoves ==
    ASSUME LineageInv, NEW q \in Requests, NEW l, Goto(q, l)
    PROVE  /\ req'[q].pc = l /\ req'[q].key = req[q].key /\ req'[q].source = req[q].source
           /\ \A r \in Requests \ {q} : req'[r] = req[r]
BY DEF Goto, LineageInv, Typed, Asked

\* Rows stay, so a key that is taken stays taken.
LEMMA TakenKeysStayTaken ==
    ASSUME LineageInv, [Next]_vars, NEW k \in Keys, RowsOf(k) # {}
    PROVE  RowsOf(k)' # {}
<1>1. PICK n \in DOMAIN rows : rows[n].key = k
    BY DEF RowsOf
<1>2. CASE rows' = rows
    BY <1>1, <1>2 DEF RowsOf
<1>3. CASE \E q \in Requests : EnqueueRun(q) /\ rows' # rows
    <2>1. PICK e : rows' = Append(rows, e)
        BY <1>3 DEF EnqueueRun
    <2>2. n \in DOMAIN rows' /\ rows'[n] = rows[n]
        BY <1>1, <2>1 DEF LineageInv, Typed
    <2> QED
        BY <1>1, <2>2 DEF RowsOf
<1>4. CASE \E i \in DOMAIN rows, st \in {"running", "waiting", "succeeded"} : Advance(i, st)
    <2>1. PICK i \in DOMAIN rows, st \in {"running", "waiting", "succeeded"} : Advance(i, st)
        BY <1>4
    <2>2. n \in DOMAIN rows' /\ rows'[n].key = rows[n].key
        BY <1>1, <2>1 DEF Advance, LineageInv, Typed, Row
    <2> QED
        BY <1>1, <2>2 DEF RowsOf
<1> QED
    BY <1>2, <1>3, <1>4 DEF Next, SyncProject, EndSource, PlayJob, Handle, LookupAndResolve, GetRunLineageByIdempotency,
        Evaluate, EnqueueRun, LookupAgain, Die, Request, vars

\* The evaluation sees an ended source; until a play it does not begin again.
LEMMA EndedStep == ASSUME LineageInv, EndedSources, [Next]_vars PROVE EndedSources'
<1>1. ASSUME UNCHANGED <<source, req, reopens>> PROVE EndedSources'
    BY <1>1 DEF EndedSources, At
<1>2. ASSUME NEW q \in Requests, UNCHANGED <<source, reopens>>,
             \A r \in Requests \ {q} : req'[r] = req[r],
             req'[q].pc = "enqueue" => source[req'[q].source] # "running"
      PROVE  EndedSources'
    BY <1>2 DEF EndedSources, At
<1>3. ASSUME NEW q \in Requests, Handle(q) PROVE EndedSources'
    <2>1. CASE LookupAndResolve(q)
        <3>1. PICK l \in {"store", "refused"} : Goto(q, l)
            BY <2>1 DEF LookupAndResolve
        <3> QED
            BY <2>1, <3>1, <1>2, GotoMoves DEF LookupAndResolve
    <2>2. CASE GetRunLineageByIdempotency(q)
        BY <2>2, <1>2, GotoMoves DEF GetRunLineageByIdempotency, Existing, Returned, counters, LineageInv, Typed, Asked
    <2>3. CASE Evaluate(q)
        <3>1. PICK l \in {"enqueue", "refused"} : Goto(q, l) /\ (l = "enqueue" => Eligible(req[q].source))
            BY <2>3 DEF Evaluate
        <3> QED
            BY <2>3, <3>1, <1>2, GotoMoves DEF Evaluate, Eligible, counters
    <2>4. CASE EnqueueRun(q)
        <3>1. req'[q].pc # "enqueue" /\ \A r \in Requests \ {q} : req'[r] = req[r]
            BY <2>4, GotoMoves DEF EnqueueRun, Aborted, Returned, LineageInv, Typed, Asked
        <3> QED
            BY <2>4, <3>1, <1>2 DEF EnqueueRun, counters
    <2>5. CASE LookupAgain(q)
        <3>1. req'[q].pc # "enqueue" /\ \A r \in Requests \ {q} : req'[r] = req[r]
            BY <2>5, GotoMoves DEF LookupAgain, Existing, Returned, LineageInv, Typed, Asked
        <3> QED
            BY <2>5, <3>1, <1>2 DEF LookupAgain, counters
    <2>6. CASE Die(q)
        BY <2>6, <1>2 DEF Die, Free, LineageInv, Typed
    <2> QED
        BY <1>3, <2>1, <2>2, <2>3, <2>4, <2>5, <2>6 DEF Handle
<1>4. ASSUME NEW q \in Requests, NEW k \in Keys, NEW s \in Sources, Request(q, k, s) PROVE EndedSources'
    BY <1>4, <1>2 DEF Request, counters, LineageInv, Typed
<1>5. ASSUME NEW s \in Sources, EndSource(s) PROVE EndedSources'
    BY <1>5 DEF EndSource, EndedSources, At, counters
<1>6. ASSUME NEW s \in Sources, PlayJob(s) PROVE EndedSources'
    BY <1>6 DEF PlayJob, EndedSources
<1> QED
    BY <1>1, <1>3, <1>4, <1>5, <1>6 DEF Next, SyncProject, Advance, vars, counters

\* A transaction that fails although no run of the source is live failed for its key (Aborted).
LEMMA RefusedStep == ASSUME LineageInv, RefusedHaveRows, [Next]_vars PROVE RefusedHaveRows'
<1>1. ASSUME UNCHANGED <<revision, req>> PROVE RefusedHaveRows'
    <2> SUFFICES ASSUME revision = 1, NEW q \in Requests, At(q, "again") PROVE RowsOf(req[q].key)' # {}
        BY <1>1 DEF RefusedHaveRows, At
    <2>1. req[q].key \in Keys /\ RowsOf(req[q].key) # {} /\ req' = req
        BY <1>1 DEF LineageInv, Typed, RefusedHaveRows, At
    <2> QED
        BY <2>1, TakenKeysStayTaken DEF RowsOf
<1>2. ASSUME NEW q \in Requests, UNCHANGED revision,
             \A r \in Requests \ {q} : req'[r] = req[r],
             revision = 1 => /\ req'[q].pc = "again" => RowsOf(req[q].key) # {} /\ req'[q].key = req[q].key
                             /\ req'[q].pc # "broken",
             req[q].key \in Keys \/ req'[q].pc # "again"
      PROVE  RefusedHaveRows'
    <2> SUFFICES ASSUME revision = 1, NEW r \in Requests
                 PROVE  (/\ req[r].pc = "again" => RowsOf(req[r].key) # {}
                         /\ req[r].pc # "broken")'
        BY <1>2 DEF RefusedHaveRows, At
    <2>1. CASE r = q
        BY <1>2, <2>1, TakenKeysStayTaken DEF RowsOf
    <2>2. CASE r # q
        <3>1. req'[r] = req[r] /\ req[r].pc # "broken" /\ (req[r].pc = "again" => RowsOf(req[r].key) # {} /\ req[r].key \in Keys)
            BY <1>2, <2>2 DEF RefusedHaveRows, At, LineageInv, Typed
        <3> QED
            BY <3>1, TakenKeysStayTaken DEF RowsOf
    <2> QED
        BY <2>1, <2>2
<1>3. ASSUME NEW q \in Requests, Handle(q) PROVE RefusedHaveRows'
    <2>1. CASE LookupAndResolve(q)
        <3>1. PICK l \in {"store", "refused"} : Goto(q, l)
            BY <2>1 DEF LookupAndResolve
        <3> QED
            BY <2>1, <3>1, <1>2, GotoMoves DEF LookupAndResolve
    <2>2. CASE GetRunLineageByIdempotency(q)
        BY <2>2, <1>2, GotoMoves DEF GetRunLineageByIdempotency, Existing, Returned, LineageInv, Typed, Asked
    <2>3. CASE Evaluate(q)
        <3>1. PICK l \in {"enqueue", "refused"} : Goto(q, l)
            BY <2>3 DEF Evaluate
        <3> QED
            BY <2>3, <3>1, <1>2, GotoMoves DEF Evaluate
    <2>4. CASE EnqueueRun(q)
        <3>1. CASE Accepted(req[q].key, req[q].source)
            BY <2>4, <3>1, <1>2 DEF EnqueueRun, Returned, LineageInv, Typed, Asked
        <3>2. CASE ~Accepted(req[q].key, req[q].source)
            <4>1. PICK l \in {"again", "lost"} : Goto(q, l) /\ (l = "again" => ActiveTrigger(req[q].source))
                BY <2>4, <3>2 DEF EnqueueRun, Aborted
            <4>2. l = "again" /\ revision = 1 => RowsOf(req[q].key) # {}
                BY <3>2, <4>1 DEF Accepted, KeyFree
            <4>3. req[q].key \in Keys /\ UNCHANGED revision
                BY <2>4 DEF EnqueueRun, At, LineageInv, Typed
            <4> QED
                BY <4>1, <4>2, <4>3, <1>2, GotoMoves
        <3> QED
            BY <3>1, <3>2
    <2>5. CASE LookupAgain(q)
        <3>1. UNCHANGED revision /\ (At(q, "again") /\ revision = 1 => RowsOf(req[q].key) # {})
            BY <2>5 DEF LookupAgain, RefusedHaveRows
        <3>2. CASE RowsOf(req[q].key) # {}
            BY <2>5, <3>1, <3>2, <1>2, GotoMoves DEF LookupAgain, Existing, Returned, LineageInv, Typed, Asked
        <3>3. CASE RowsOf(req[q].key) = {}
            <4>1. PICK l \in {"conflict", "broken"} : Goto(q, l) /\ (l = "broken" => At(q, "again"))
                BY <2>5, <3>3 DEF LookupAgain, At
            <4> QED
                BY <3>1, <3>3, <4>1, <1>2, GotoMoves
        <3> QED
            BY <3>2, <3>3
    <2>6. CASE Die(q)
        BY <2>6, <1>2 DEF Die, Free, LineageInv, Typed
    <2> QED
        BY <1>3, <2>1, <2>2, <2>3, <2>4, <2>5, <2>6 DEF Handle
<1>4. ASSUME NEW q \in Requests, NEW k \in Keys, NEW s \in Sources, Request(q, k, s) PROVE RefusedHaveRows'
    BY <1>4, <1>2 DEF Request, LineageInv, Typed
<1>5. ASSUME SyncProject PROVE RefusedHaveRows'
    BY <1>5 DEF SyncProject, RefusedHaveRows
<1> QED
    BY <1>1, <1>3, <1>4, <1>5 DEF Next, EndSource, PlayJob, Advance, vars, counters

\* What is answered, evaluated and refused holds together in every behaviour.
THEOREM AnswerInvariant == Spec => []AnswerInv
<1>1. Init => AnswerInv
    <2> SUFFICES ASSUME Init PROVE AnswerInv
        OBVIOUS
    <2>1. EndedSources /\ RefusedHaveRows
        BY DEF Init, EndedSources, RefusedHaveRows, At, Free
    <2> QED
        BY <2>1, InitLineage DEF AnswerInv
<1>2. AnswerInv /\ [Next]_vars => AnswerInv'
    BY StepLineage, EndedStep, RefusedStep DEF AnswerInv
<1> QED
    BY <1>1, <1>2, PTL DEF Spec

\* All that a request is promised, however requests overlap, fail or die and
\* whatever is synchronised and played (replayForKey, EvaluateJobReplay).
THEOREM RequestsAreAlwaysAnswered == Spec => []RequestsAreAnswered
<1>1. AnswerInv => LineageTypeOK /\ EligibleIsEnqueued
    <2> SUFFICES ASSUME AnswerInv PROVE LineageTypeOK /\ EligibleIsEnqueued
        OBVIOUS
    <2>1. \A n \in DOMAIN rows : rows[n] \in Row
        BY DEF AnswerInv, LineageInv, Typed
    <2>2. LineageTypeOK
        BY <2>1 DEF AnswerInv, LineageInv, AnswersHaveRows, LineageTypeOK, Row
    <2>3. EligibleIsEnqueued
        BY DEF AnswerInv, RefusedHaveRows, EligibleIsEnqueued
    <2> QED
        BY <2>2, <2>3
<1> QED
    BY <1>1, AnswerInvariant, KeyAlwaysNamesOneRun, AnswersAreAsked, OneReplayIsLive, PTL DEF RequestsAreAnswered

\* What is replayed has ended, unless it was played since it was evaluated (EvaluateJobReplay).
THEOREM EndedSourcesAreReplayed == Spec => ReplaysTerminalSource
<1> DEFINE Terminal == \A s \in Sources : reopens = 0 /\ Len(rows') > Len(rows) /\ rows'[Len(rows')].source = s
                                            => source[s] # "running"
<1>1. AnswerInv /\ [Next]_vars => [Terminal]_vars
    <2> SUFFICES ASSUME AnswerInv, Next, reopens = 0, NEW s \in Sources, Len(rows') > Len(rows),
                        rows'[Len(rows')].source = s
                 PROVE  source[s] # "running"
        OBVIOUS
    <2>1. \/ UNCHANGED rows
          \/ \E q \in Requests : EnqueueRun(q)
          \/ \E n \in DOMAIN rows, st \in {"running", "waiting", "succeeded"} : Advance(n, st)
        BY DEF Next, SyncProject, EndSource, PlayJob, Handle, LookupAndResolve, GetRunLineageByIdempotency, Evaluate,
            LookupAgain, Die, Request
    <2>2. rows \in Seq(Row)
        BY DEF AnswerInv, LineageInv, Typed
    <2>3. PICK q \in Requests : EnqueueRun(q)
        BY <2>1, <2>2 DEF Advance
    <2>4. rows' = Append(rows, [key |-> req[q].key, source |-> req[q].source, status |-> "queued"])
        BY <2>3 DEF EnqueueRun
    <2>5. req[q].source = s
        BY <2>2, <2>4
    <2> QED
        BY <2>3, <2>5 DEF EnqueueRun, AnswerInv, EndedSources
<1> QED
    BY <1>1, AnswerInvariant, PTL DEF Spec, ReplaysTerminalSource
=============================================================================
