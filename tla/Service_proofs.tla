--------------------------- MODULE Service_proofs ---------------------------
(***************************************************************************)
(* Proofs about the service as it is composed.  Whatever part a behaviour  *)
(* follows, each component sees steps of its own or nothing, so the        *)
(* service implements the specification of each (the ...Part lemmas) and   *)
(* the theorems about a component, in the module that Service              *)
(* instantiates, are theorems about the service.  What starts runs         *)
(* (webhooks, schedules, commits and the ends of other runs) has no such   *)
(* modules: its invariants are proved here, with the names they have in    *)
(* Service.  What a theorem assumes of the constants has a name            *)
(* (Coordinated, Undisturbed) and stands before the invariant that needs   *)
(* it.                                                                     *)
(***************************************************************************)
EXTENDS Service, SequenceTheorems, TLAPS

-----------------------------------------------------------------------------
(* The service implements the specification of each component *)

\* The environment gate takes a step of its own, or none.
LEMMA GatePart == ServiceSpec => Gate!Spec
<1>1. ServiceInit => Gate!Init
    BY DEF ServiceInit
<1>2. [ServiceNext]_vars => [Gate!Next]_Gate!vars
    BY DEF ServiceNext, vars, gateVars, Gate!vars, Gate!execVars, Gate!gateVars, Gate!auditVars, Gate!leaseRow, Gate!workerVars
<1> QED
    BY <1>1, <1>2, PTL DEF ServiceSpec, Gate!Spec

\* So do the concurrency groups,
LEMMA GroupsPart == ServiceSpec => Groups!Spec
<1>1. ServiceInit => Groups!Init
    BY DEF ServiceInit
<1>2. [ServiceNext]_vars => [Groups!Next]_Groups!vars
    BY DEF ServiceNext, vars, groupsVars, Groups!vars, Groups!runVars, Groups!callerVars, Groups!leaseRow, Groups!past
<1> QED
    BY <1>1, <1>2, PTL DEF ServiceSpec, Groups!Spec

\* the child pipelines,
LEMMA PipesPart == ServiceSpec => Pipes!Spec
<1>1. ServiceInit => Pipes!Init
    BY DEF ServiceInit
<1>2. [ServiceNext]_vars => [Pipes!Next]_Pipes!vars
    BY DEF ServiceNext, vars, pipesVars, Pipes!vars, Pipes!runVars
<1> QED
    BY <1>1, <1>2, PTL DEF ServiceSpec, Pipes!Spec

\* the replays,
LEMMA LineagePart == ServiceSpec => Lineage!Spec
<1>1. ServiceInit => Lineage!Init
    BY DEF ServiceInit
<1>2. [ServiceNext]_vars => [Lineage!Next]_Lineage!vars
    BY DEF ServiceNext, vars, lineageVars, Lineage!vars
<1> QED
    BY <1>1, <1>2, PTL DEF ServiceSpec, Lineage!Spec

\* the schedules,
LEMMA SchedPart == ServiceSpec => Sched!Spec
<1>1. ServiceInit => Sched!Init
    BY DEF ServiceInit
<1>2. [ServiceNext]_vars => [Sched!Next]_Sched!vars
    BY DEF ServiceNext, vars, schedVars, Sched!vars, Sched!rows
<1> QED
    BY <1>1, <1>2, PTL DEF ServiceSpec, Sched!Spec

\* the commit triggers
LEMMA CommitPart == ServiceSpec => Commit!Spec
<1>1. ServiceInit => Commit!Init
    BY DEF ServiceInit
<1>2. [ServiceNext]_vars => [Commit!Next]_Commit!vars
    BY DEF ServiceNext, vars, commitVars, Commit!vars, Commit!gitVars
<1> QED
    BY <1>1, <1>2, PTL DEF ServiceSpec, Commit!Spec

\* the workflows that follow others,
LEMMA DispatchPart == ServiceSpec => Dispatch!Spec
<1>1. ServiceInit => Dispatch!Init
    BY DEF ServiceInit
<1>2. [ServiceNext]_vars => [Dispatch!Next]_Dispatch!vars
    BY DEF ServiceNext, vars, dispatchVars, Dispatch!vars, Dispatch!past
<1> QED
    BY <1>1, <1>2, PTL DEF ServiceSpec, Dispatch!Spec

\* and the webhooks.
LEMMA HooksPart == ServiceSpec => Hooks!Spec
<1>1. ServiceInit => Hooks!Init
    BY DEF ServiceInit
<1>2. [ServiceNext]_vars => [Hooks!Next]_Hooks!vars
    BY DEF ServiceNext, vars, hooksVars, Hooks!vars
<1> QED
    BY <1>1, <1>2, PTL DEF ServiceSpec, Hooks!Spec

-----------------------------------------------------------------------------
(* Webhook deliveries: which request works for one, and what it has done *)

HooksWorking == {"match", "enqueue", "accept", "fail"}

\* What the rows, runs and requests may hold.
HooksTyped ==
    /\ hooksRow \in [Deliveries -> {"absent", "received", "accepted", "failed"}]
    /\ hooksRuns \in [Deliveries -> {0, 1}]
    /\ hooksReq \in [HooksRequests ->
           [pc : {"free", "record"} \cup HooksWorking, delivery : Deliveries \cup {None}]]
    /\ \A q \in HooksRequests :
           /\ hooksReq[q].pc # "free" => hooksReq[q].delivery \in Deliveries
           /\ hooksReq[q].pc = "free" => hooksReq[q].delivery = None

\* One request works for a delivery, while its row is received, and it knows whether the run was
\* started.
OneRequestWorks ==
    /\ \A q \in HooksRequests : hooksReq[q].pc \in HooksWorking =>
        /\ hooksRow[hooksReq[q].delivery] = "received"
        /\ hooksReq[q].pc = "accept" =>
               (hooksRuns[hooksReq[q].delivery] = 1 <=> hooksReq[q].delivery \in Wanted)
        /\ hooksReq[q].pc \in {"match", "enqueue"} => hooksRuns[hooksReq[q].delivery] = 0
        /\ hooksReq[q].pc = "fail" =>
               (hooksRuns[hooksReq[q].delivery] = 0 \/ hooksReq[q].delivery \in HooksGrouped)
        /\ hooksReq[q].pc = "enqueue" => hooksReq[q].delivery \in Wanted
    /\ \A q, r \in HooksRequests :
        /\ hooksReq[q].pc \in HooksWorking /\ hooksReq[r].pc \in HooksWorking
        /\ hooksReq[q].delivery = hooksReq[r].delivery
        => q = r

\* A row that is not there has no run.
NoneBeforeTheRow == \A d \in Deliveries : hooksRow[d] = "absent" => hooksRuns[d] = 0

DeliveryInv == HooksTyped /\ OneRequestWorks /\ NoneBeforeTheRow /\ Hooks!SettledRowsAreHonest

\* Nothing was sent yet.
LEMMA InitDelivery == Hooks!Init => DeliveryInv
BY DEF Hooks!Init, DeliveryInv, HooksTyped, OneRequestWorks, NoneBeforeTheRow,
       Hooks!SettledRowsAreHonest, Hooks!Free, HooksWorking

\* A request, a hang-up or a crash keeps the invariant.
LEMMA StepDelivery == DeliveryInv /\ [Hooks!Next]_Hooks!vars => DeliveryInv'
<1> SUFFICES ASSUME DeliveryInv, [Hooks!Next]_Hooks!vars PROVE DeliveryInv'
    OBVIOUS
<1> USE DEF DeliveryInv, HooksTyped, OneRequestWorks, NoneBeforeTheRow,
            Hooks!SettledRowsAreHonest, Hooks!Free, HooksWorking, Hooks!At
<1>1. ASSUME NEW q \in HooksRequests, NEW d \in Deliveries, Hooks!Send(q, d) PROVE DeliveryInv'
    BY <1>1 DEF Hooks!Send
<1>2. ASSUME NEW q \in HooksRequests, Hooks!RecordWebhookDelivery(q) PROVE DeliveryInv'
    <2> DEFINE d == hooksReq[q].delivery
    <2>1. d \in Deliveries /\ hooksRuns' = hooksRuns
        BY <1>2 DEF Hooks!RecordWebhookDelivery, Hooks!counters
    <2>2. CASE Hooks!Recorded(d)
        BY <1>2, <2>1, <2>2 DEF Hooks!RecordWebhookDelivery, Hooks!Answer
    <2>3. CASE ~Hooks!Recorded(d)
        <3>1. /\ hooksRow[d] = "absent"
              /\ hooksRow' = [hooksRow EXCEPT ![d] = "received"]
              /\ hooksReq' = [hooksReq EXCEPT ![q].pc = "match"]
            BY <1>2, <2>1, <2>3 DEF Hooks!RecordWebhookDelivery, Hooks!Recorded, Hooks!Goto
        <3>2. \A r \in HooksRequests : hooksReq[r].pc \in HooksWorking => hooksReq[r].delivery # d
            BY <3>1
        <3> QED
            BY <2>1, <3>1, <3>2
    <2> QED
        BY <2>2, <2>3
<1>3. ASSUME NEW q \in HooksRequests, Hooks!MatchPolicy(q) PROVE DeliveryInv'
    BY <1>3 DEF Hooks!MatchPolicy, Hooks!Fails, Hooks!Goto
<1>4. ASSUME NEW q \in HooksRequests, Hooks!EnqueueTriggered(q) PROVE DeliveryInv'
    BY <1>4 DEF Hooks!EnqueueTriggered, Hooks!Fails, Hooks!Goto
<1>5. ASSUME NEW q \in HooksRequests, Hooks!TransitionWebhookDelivery(q) PROVE DeliveryInv'
    BY <1>5 DEF Hooks!TransitionWebhookDelivery, Hooks!Answer, Hooks!Settled, Hooks!counters
<1>6. ASSUME NEW q \in HooksRequests, Hooks!HangUp(q) PROVE DeliveryInv'
    BY <1>6 DEF Hooks!HangUp
<1>7. CASE Hooks!Crash
    BY <1>7 DEF Hooks!Crash
<1>8. CASE UNCHANGED Hooks!vars
    BY <1>8 DEF Hooks!vars
<1> QED
    BY <1>1, <1>2, <1>3, <1>4, <1>5, <1>6, <1>7, <1>8 DEF Hooks!Next, Hooks!Handle

\* The invariant implies the component's type invariant.
LEMMA DeliveryTypes == ASSUME Hooks!Sensible PROVE DeliveryInv => Hooks!DeliveryTypeOK
<1> SUFFICES ASSUME DeliveryInv PROVE Hooks!DeliveryTypeOK
    OBVIOUS
<1>1. ASSUME NEW q \in HooksRequests, NEW r \in HooksRequests, hooksReq[q].delivery \in Deliveries,
             hooksReq[q].delivery = hooksReq[r].delivery, ~Hooks!At(q, "record"), ~Hooks!At(r, "record")
      PROVE  q = r
    <2>1. hooksReq[q].pc \in HooksWorking /\ hooksReq[r].pc \in HooksWorking
        BY <1>1 DEF Hooks!At, Hooks!Sensible, DeliveryInv, HooksTyped
    <2> QED
        BY <1>1, <2>1 DEF DeliveryInv, OneRequestWorks
<1>2. ASSUME NEW q \in HooksRequests, hooksReq[q].pc \in {"match", "enqueue", "accept", "fail"}
      PROVE  hooksRow[hooksReq[q].delivery] = "received"
    BY <1>2 DEF DeliveryInv, OneRequestWorks, HooksWorking
<1> QED
    BY <1>1, <1>2 DEF Hooks!DeliveryTypeOK, DeliveryInv, HooksTyped

\* A delivery that is answered has a row; a row that is not settled has its request, or its
\* request was cut off; one that failed was hurt, and is never answered as accepted.
AnsweredInv ==
    /\ answers \in [Deliveries -> SUBSET {"accepted", "duplicate", "error"}]
    /\ \A q \in HooksRequests : hooksReq[q].pc = "fail" => hooksReq[q].delivery \in hurt
    /\ \A d \in Deliveries :
        /\ hooksRow[d] = "failed" => d \in hurt
        /\ hooksRow[d] = "absent" => answers[d] = {}
        /\ "accepted" \in answers[d] => hooksRow[d] = "accepted"
        /\ hooksRow[d] = "received" =>
               \/ d \in hurt
               \/ \E q \in HooksRequests : hooksReq[q].delivery = d /\ hooksReq[q].pc \in HooksWorking

\* Nothing was sent or answered yet.
LEMMA InitAnswered == Hooks!Init => AnsweredInv
BY DEF Hooks!Init, AnsweredInv, Hooks!Free

\* A request that works goes on to settle its row, and only then answers; one that fails or is
\* cut off is remembered.
LEMMA StepAnswered == DeliveryInv /\ AnsweredInv /\ [Hooks!Next]_Hooks!vars => AnsweredInv'
<1> SUFFICES ASSUME DeliveryInv, AnsweredInv, [Hooks!Next]_Hooks!vars PROVE AnsweredInv'
    OBVIOUS
<1> USE DEF DeliveryInv, HooksTyped, AnsweredInv, Hooks!Free, HooksWorking, Hooks!At
<1>1. ASSUME NEW q \in HooksRequests, NEW d \in Deliveries, Hooks!Send(q, d) PROVE AnsweredInv'
    <2>1. /\ hooksReq[q].pc = "free" /\ UNCHANGED <<hooksRow, answers, hurt>>
          /\ hooksReq' = [hooksReq EXCEPT ![q] = [pc |-> "record", delivery |-> d]]
        BY <1>1 DEF Hooks!Send
    <2> QED
        BY <2>1
<1>2. ASSUME NEW q \in HooksRequests, Hooks!RecordWebhookDelivery(q) PROVE AnsweredInv'
    <2> DEFINE d == hooksReq[q].delivery
    <2>1. d \in Deliveries /\ hooksReq[q].pc = "record" /\ hurt' = hurt
        BY <1>2 DEF Hooks!RecordWebhookDelivery
    <2>2. CASE Hooks!Recorded(d)
        <3>1. /\ hooksRow[d] # "absent" /\ hooksRow' = hooksRow
              /\ hooksReq' = [hooksReq EXCEPT ![q] = Hooks!Free]
              /\ answers' = [answers EXCEPT ![d] = @ \cup {"duplicate"}]
            BY <1>2, <2>2 DEF Hooks!RecordWebhookDelivery, Hooks!Answer, Hooks!Recorded
        <3>2. \A r \in HooksRequests : r # q => hooksReq'[r] = hooksReq[r]
            BY <3>1
        <3>3. hooksReq'[q].pc = "free"
            BY <3>1
        <3>4. /\ answers' \in [Deliveries -> SUBSET {"accepted", "duplicate", "error"}]
              /\ \A e \in Deliveries : "accepted" \in answers'[e] <=> "accepted" \in answers[e]
              /\ \A e \in Deliveries : hooksRow[e] = "absent" => answers'[e] = {}
            BY <2>1, <3>1
        <3> QED
            BY <2>1, <3>1, <3>2, <3>3, <3>4
    <2>3. CASE ~Hooks!Recorded(d)
        <3>1. /\ hooksRow[d] = "absent" /\ answers' = answers
              /\ hooksRow' = [hooksRow EXCEPT ![d] = "received"]
              /\ hooksReq' = [hooksReq EXCEPT ![q].pc = "match"]
            BY <1>2, <2>3 DEF Hooks!RecordWebhookDelivery, Hooks!Recorded, Hooks!Goto
        <3>2. /\ \A r \in HooksRequests : r # q => hooksReq'[r] = hooksReq[r]
              /\ hooksReq'[q].pc = "match" /\ hooksReq'[q].delivery = d
            BY <3>1
        <3> QED
            BY <2>1, <3>1, <3>2
    <2> QED
        BY <2>2, <2>3
<1>3. ASSUME NEW q \in HooksRequests, Hooks!MatchPolicy(q) \/ Hooks!EnqueueTriggered(q) PROVE AnsweredInv'
    <2> DEFINE d == hooksReq[q].delivery
    <2>1. /\ hooksReq[q].pc \in {"match", "enqueue"} /\ UNCHANGED <<hooksRow, answers>>
          /\ \E l \in HooksWorking :
                /\ hooksReq' = [hooksReq EXCEPT ![q].pc = l]
                /\ hurt' = IF l = "fail" THEN hurt \cup {d} ELSE hurt
        BY <1>3 DEF Hooks!MatchPolicy, Hooks!EnqueueTriggered, Hooks!Fails, Hooks!Goto
    <2> QED
        BY <2>1
<1>4. ASSUME NEW q \in HooksRequests, Hooks!TransitionWebhookDelivery(q) PROVE AnsweredInv'
    <2> DEFINE d == hooksReq[q].delivery
    <2>1. d \in Deliveries /\ hooksReq[q].pc \in {"accept", "fail"} /\ hooksRow[d] = "received" /\ hurt' = hurt
        BY <1>4 DEF Hooks!TransitionWebhookDelivery, OneRequestWorks
    <2>2. /\ hooksRow' = [hooksRow EXCEPT ![d] = IF hooksReq[q].pc = "accept" THEN "accepted" ELSE "failed"]
          /\ hooksReq' = [hooksReq EXCEPT ![q] = Hooks!Free]
          /\ answers' = [answers EXCEPT ![d] =
                            @ \cup {IF hooksReq[q].pc = "accept" THEN "accepted" ELSE "error"}]
        BY <1>4, <2>1 DEF Hooks!TransitionWebhookDelivery, Hooks!Settled, Hooks!Answer
    <2>3. \A r \in HooksRequests : r # q => hooksReq'[r] = hooksReq[r]
        BY <2>2
    <2> QED
        BY <2>1, <2>2, <2>3
<1>5. ASSUME NEW q \in HooksRequests, Hooks!HangUp(q) PROVE AnsweredInv'
    BY <1>5 DEF Hooks!HangUp
<1>6. CASE Hooks!Crash
    <2>1. \A q \in HooksRequests : hooksReq[q].pc \in HooksWorking => hooksReq[q].delivery \in hurt'
        BY <1>6 DEF Hooks!Crash
    <2>2. /\ UNCHANGED <<hooksRow, answers>> /\ hurt \subseteq hurt'
          /\ \A q \in HooksRequests : hooksReq'[q].pc = "free"
        BY <1>6 DEF Hooks!Crash
    <2> QED
        BY <2>1, <2>2
<1>7. CASE UNCHANGED Hooks!vars
    BY <1>7 DEF Hooks!vars
<1> QED
    BY <1>1, <1>2, <1>3, <1>4, <1>5, <1>6, <1>7 DEF Hooks!Next, Hooks!Handle

\* What is answered and no request works for is settled or was cut off: if it was wanted it was
\* run, or it is known as hurt.
LEMMA AnsweredMeansRun == ASSUME Hooks!Sensible PROVE DeliveryInv /\ AnsweredInv => Hooks!AnsweredEventsAreRun
<1> SUFFICES ASSUME DeliveryInv, AnsweredInv, NEW d \in Wanted,
                    Hooks!Quiet(d), answers[d] \cap {"accepted", "duplicate"} # {}
             PROVE  \/ hooksRuns[d] = 1
                    \/ d \in hurt /\ hooksRow[d] # "accepted" /\ "accepted" \notin answers[d]
    BY DEF Hooks!AnsweredEventsAreRun
<1>1. d \in Deliveries
    BY DEF Hooks!Sensible
<1>2. CASE hooksRow[d] = "accepted"
    BY <1>1, <1>2 DEF DeliveryInv, Hooks!SettledRowsAreHonest
<1>3. CASE hooksRow[d] # "accepted"
    BY <1>1, <1>3 DEF AnsweredInv, DeliveryInv, HooksTyped, Hooks!Quiet
<1> QED
    BY <1>2, <1>3

-----------------------------------------------------------------------------
(* Schedules: a due time starts one run *)

\* One service, or nobody who edits a schedule.
Alone == \A v, w \in Workers : v = w
Coordinated == Alone \/ "edit" \notin Changes

\* A pass is busy with the claim it handles; it has that one and those to do in flight.
SchedBusy == {"check", "insert", "advance", "retry"}
SchedClaims == [schedule : Schedules, due : Nat \ {0}, active : BOOLEAN]
SchedRow == [there : BOOLEAN, active : BOOLEAN, next : Nat]
SchedWorkspace == [pc : {"idle", "next", "dead"} \cup SchedBusy, now : Nat, todo : SUBSET SchedClaims, cur : SchedClaims \cup {None}]
SchedFlight(w) == schedWk[w].todo \cup {c \in {schedWk[w].cur} : schedWk[w].pc \in SchedBusy}

\* What the rows, claims and passes may hold.
SchedTyped ==
    /\ clock \in 0..MaxClock /\ project \in BOOLEAN
    /\ schedRow \in [Schedules -> SchedRow]
    /\ claim \in [Schedules -> Nat]
    /\ \A s \in Schedules : claim[s] <= clock /\ (~schedRow[s].there => (claim[s] = Sched!NoTime /\ ~schedRow[s].active))
    /\ started \in [Schedules -> Seq(Nat)]
    /\ schedWk \in [Workers -> SchedWorkspace]
    /\ \A w \in Workers : /\ schedWk[w].now <= clock
                          /\ schedWk[w].pc \in {"idle", "dead"} => schedWk[w].todo = {}
                          /\ schedWk[w].pc \in SchedBusy => schedWk[w].cur \in SchedClaims

\* What a pass has claimed was due at its time, no other pass has it, and its
\* row cannot be claimed meanwhile: an operator's edit drops the claim, so
\* then no other service may be there.
OneFlight ==
    /\ \A w \in Workers : \A c \in SchedFlight(w) :
        /\ c.due <= schedWk[w].now
        /\ schedRow[c.schedule].active /\ claim[c.schedule] = Sched!NoTime => Alone /\ c.due < schedRow[c.schedule].next
    /\ \A w \in Workers : schedWk[w].pc \in SchedBusy => schedWk[w].cur \notin schedWk[w].todo
    /\ \A w, v \in Workers : \A c \in SchedFlight(w), d \in SchedFlight(v) :
        c.schedule = d.schedule => w = v /\ c = d

\* What may be claimed and what is in flight is later than all that was
\* started, so that it can be started in its turn.
StartedBefore(s, t) == \A i \in 1..Len(started[s]) : started[s][i] < t

NextIsLater ==
    \A s \in Schedules : (schedRow[s].active /\ claim[s] = Sched!NoTime) => StartedBefore(s, schedRow[s].next)

FlightIsLater ==
    \A w \in Workers :
        /\ \A c \in schedWk[w].todo : StartedBefore(c.schedule, c.due)
        /\ schedWk[w].pc \in {"check", "insert", "retry"} => StartedBefore(schedWk[w].cur.schedule, schedWk[w].cur.due)
        /\ schedWk[w].pc = "advance" => StartedBefore(schedWk[w].cur.schedule, schedWk[w].cur.due + 1)

NotAhead == \A s \in Schedules : StartedBefore(s, clock + 1)

SchedInv == SchedTyped /\ OneFlight /\ NextIsLater /\ FlightIsLater /\ NotAhead /\ Sched!DueTimesStartOnce

\* Expression.Next is later than the time it is asked for.
LEMMA NextMultiple ==
    ASSUME NEW p \in Nat \ {0}, NEW t \in Nat
    PROVE  (t \div p + 1) * p \in Nat /\ t < (t \div p + 1) * p
<1>1. t \div p \in Nat
    OBVIOUS
<1>2. t < (t \div p + 1) * p
    OBVIOUS
<1> QED
    BY <1>1, <1>2

\* The same, of a schedule.
LEMMA NextIsAfter ==
    ASSUME Sched!Sensible, NEW s \in Schedules, NEW t \in Nat
    PROVE  Sched!NextAfter(s, t) \in Nat /\ t < Sched!NextAfter(s, t)
BY NextMultiple DEF Sched!NextAfter, Sched!Sensible

\* Nothing has been claimed or started.
LEMMA InitSched == ASSUME Sched!Sensible PROVE Sched!Init => SchedInv
<1> SUFFICES ASSUME Sched!Init PROVE SchedInv
    OBVIOUS
<1>1. \A s \in Schedules : Sched!NextAfter(s, 0) \in Nat
    BY NextIsAfter
<1>2. SchedTyped
    BY <1>1 DEF Sched!Sensible, Sched!Init, SchedWorkspace, SchedTyped, Sched!Out, Sched!NoTime, SchedBusy, SchedRow
<1>3. \A w \in Workers : SchedFlight(w) = {}
    BY DEF Sched!Init, SchedFlight, Sched!Out, SchedBusy
<1> QED
    BY <1>2, <1>3 DEF Sched!Sensible, Sched!Init, SchedInv, OneFlight, NextIsLater, FlightIsLater, StartedBefore, NotAhead, Sched!DueTimesStartOnce, Sched!Out, SchedBusy

\* A worker that ends its pass, dies or is restarted forgets what it claimed.
LEMMA Leaving ==
    ASSUME SchedInv, NEW w \in Workers, NEW l \in {"idle", "dead"}, schedWk' = [schedWk EXCEPT ![w] = Sched!Out(l)],
           UNCHANGED <<clock, Sched!rows, started>>
    PROVE  SchedInv'
<1> USE DEF SchedInv
<1>1. /\ schedWk'[w] = Sched!Out(l) /\ \A v \in Workers : v # w => schedWk'[v] = schedWk[v]
      /\ SchedFlight(w)' = {} /\ \A v \in Workers : v # w => SchedFlight(v)' = SchedFlight(v)
    BY DEF SchedWorkspace, SchedTyped, SchedFlight, Sched!Out, SchedBusy
<1>2. SchedTyped'
    BY DEF SchedWorkspace, SchedTyped, Sched!Out, SchedBusy, Sched!rows
<1>3. OneFlight'
    BY <1>1 DEF OneFlight, Sched!Out, SchedBusy, Sched!rows
<1>4. FlightIsLater'
    <2>1. started' = started /\ schedWk'[w].todo = {} /\ schedWk'[w].pc \in {"idle", "dead"}
        BY <1>1 DEF Sched!Out
    <2> QED
        BY <1>1, <2>1 DEF FlightIsLater, StartedBefore
<1> QED
    BY <1>2, <1>3, <1>4 DEF Sched!rows, NextIsLater, StartedBefore, NotAhead, Sched!DueTimesStartOnce

\* A pass, the operator or a crash keeps the invariant.
LEMMA StepSched == ASSUME Sched!Sensible, Coordinated PROVE SchedInv /\ [Sched!Next]_Sched!vars => SchedInv'
<1> SUFFICES ASSUME SchedInv, [Sched!Next]_Sched!vars PROVE SchedInv'
    OBVIOUS
<1> USE DEF SchedInv
<1>1. CASE Sched!Tick
    BY <1>1 DEF Sched!Sensible, Sched!Tick, Sched!rows, SchedWorkspace, SchedTyped, OneFlight, SchedFlight, NextIsLater, FlightIsLater, StartedBefore, NotAhead, Sched!DueTimesStartOnce, SchedBusy
<1>2. CASE Sched!DeactivateProject
    <2>1. /\ \A s \in Schedules : /\ schedRow'[s] = [there |-> schedRow[s].there, active |-> FALSE, next |-> Sched!NoTime]
                                  /\ claim'[s] = Sched!NoTime
          /\ DOMAIN schedRow' = Schedules /\ DOMAIN claim' = Schedules
          /\ schedRow' = [s \in Schedules |-> schedRow'[s]] /\ claim' = [s \in Schedules |-> claim'[s]]
        BY <1>2 DEF Sched!DeactivateProject, SchedTyped, SchedRow
    <2>2. UNCHANGED <<clock, started, schedWk>> /\ project' = FALSE
        BY <1>2 DEF Sched!DeactivateProject, Sched!Change
    <2>3. \A v \in Workers : SchedFlight(v)' = SchedFlight(v)
        BY <2>2 DEF SchedFlight
    <2>4. SchedTyped'
        <3>1. \A s \in Schedules : schedRow'[s] \in SchedRow /\ claim'[s] \in Nat
            <4>1. \A s \in Schedules : schedRow[s].there \in BOOLEAN
                BY DEF SchedTyped, SchedRow
            <4> QED
                <5> TAKE s \in Schedules
                <5>1. schedRow'[s] = [there |-> schedRow[s].there, active |-> FALSE, next |-> 0] /\ claim'[s] = 0 /\ schedRow[s].there \in BOOLEAN
                    BY <2>1, <4>1 DEF Sched!NoTime
                <5> QED
                    BY <5>1 DEF SchedRow
        <3>2. schedRow' \in [Schedules -> SchedRow] /\ claim' \in [Schedules -> Nat]
            BY <2>1, <3>1
        <3>3. \A s \in Schedules : claim'[s] <= clock /\ (~schedRow'[s].there => claim'[s] = Sched!NoTime /\ ~schedRow'[s].active)
            BY <2>1, Sched!Sensible DEF SchedTyped, Sched!NoTime, Sched!Sensible
        <3> QED
            BY <2>2, <3>2, <3>3 DEF SchedTyped
    <2>5. \A v \in Workers : \A c \in SchedFlight(v) : c.schedule \in Schedules
        BY DEF SchedFlight, SchedTyped, SchedWorkspace, SchedClaims
    <2> QED
        BY <2>1, <2>2, <2>3, <2>4, <2>5 DEF OneFlight, NextIsLater, FlightIsLater, StartedBefore, NotAhead, Sched!DueTimesStartOnce
<1>3. CASE Sched!ReactivateProject
    BY <1>3 DEF Sched!ReactivateProject, Sched!Change, SchedWorkspace, SchedTyped, OneFlight, SchedFlight, NextIsLater, FlightIsLater, StartedBefore, NotAhead, Sched!DueTimesStartOnce
<1>4. ASSUME NEW s \in Schedules, Sched!DeleteWorkflowSchedule(s) PROVE SchedInv'
    <2>1. SchedTyped'
        BY <1>4 DEF Sched!DeleteWorkflowSchedule, Sched!Change, SchedWorkspace, SchedTyped, Sched!NoTime, SchedRow
    <2>2. /\ UNCHANGED <<clock, started, schedWk>> /\ ~schedRow'[s].active
          /\ \A u \in Schedules : u # s => schedRow'[u] = schedRow[u] /\ claim'[u] = claim[u]
        BY <1>4 DEF Sched!DeleteWorkflowSchedule, Sched!Change, SchedTyped
    <2>3. \A v \in Workers : \A c \in SchedFlight(v) : c.schedule \in Schedules
        BY DEF SchedFlight, SchedTyped, SchedWorkspace, SchedClaims
    <2>4. OneFlight'
        BY <2>2, <2>3 DEF OneFlight, SchedFlight
    <2>5. NextIsLater'
        BY <2>2 DEF NextIsLater, StartedBefore
    <2>6. FlightIsLater' /\ NotAhead' /\ Sched!DueTimesStartOnce'
        BY <2>2 DEF FlightIsLater, StartedBefore, NotAhead, Sched!DueTimesStartOnce
    <2> QED
        BY <2>1, <2>4, <2>5, <2>6
<1>5. ASSUME NEW s \in Schedules, NEW on \in BOOLEAN, Sched!UpdateWorkflowSchedule(s, on) PROVE SchedInv'
    <2> DEFINE at == Sched!NextAfter(s, clock)
    <2> HIDE DEF SchedInv
    <2>0. schedRow \in [Schedules -> SchedRow] /\ claim \in [Schedules -> Nat] /\ schedRow[s] \in SchedRow
        BY DEF SchedInv, SchedTyped
    <2>1. /\ Alone /\ schedRow[s].there /\ clock \in Nat
          /\ UNCHANGED <<clock, started, schedWk, project>>
          /\ \A r \in Schedules : r # s => schedRow'[r] = schedRow[r] /\ claim'[r] = claim[r]
          /\ schedRow'[s].there /\ schedRow'[s].active = on /\ schedRow'[s].next = (IF on THEN at ELSE Sched!NoTime) /\ claim'[s] = Sched!NoTime
          /\ schedRow'[s] = [schedRow[s] EXCEPT !.active = on, !.next = IF on THEN at ELSE Sched!NoTime]
          /\ schedRow' = [schedRow EXCEPT ![s] = schedRow'[s]] /\ claim' = [claim EXCEPT ![s] = Sched!NoTime]
        <3>1. Alone /\ schedRow[s].there /\ UNCHANGED <<clock, started, schedWk, project>>
            BY <1>5 DEF Sched!UpdateWorkflowSchedule, Sched!Change, Coordinated
        <3>2. clock \in Nat
            BY DEF SchedInv, SchedTyped, Sched!Sensible
        <3>3. schedRow' = [schedRow EXCEPT ![s] = [schedRow[s] EXCEPT !.active = on, !.next = IF on THEN at ELSE Sched!NoTime]]
            BY <1>5, <2>0 DEF Sched!UpdateWorkflowSchedule
        <3>4. schedRow'[s].there /\ schedRow'[s].active = on /\ schedRow'[s].next = (IF on THEN at ELSE Sched!NoTime)
            BY <2>0, <3>1, <3>3 DEF SchedRow
        <3>5. claim' = [claim EXCEPT ![s] = Sched!NoTime]
            BY <1>5 DEF Sched!UpdateWorkflowSchedule
        <3> QED
            BY <2>0, <3>1, <3>2, <3>3, <3>4, <3>5
    <2> USE DEF SchedInv
    <2>2. at \in Nat /\ clock < at
        BY <2>1, NextIsAfter
    <2>3. SchedTyped'
        <3>1. schedRow'[s] \in SchedRow /\ claim'[s] \in Nat /\ claim'[s] <= clock /\ schedRow'[s].there
            <4>1. (IF on THEN at ELSE Sched!NoTime) \in Nat /\ schedRow[s] \in SchedRow /\ on \in BOOLEAN
                BY <2>0, <2>2 DEF Sched!NoTime
            <4>2. schedRow'[s] \in SchedRow
                BY <2>1, <4>1 DEF SchedRow
            <4> QED
                BY <2>1, <4>2 DEF Sched!NoTime
        <3> QED
            BY <2>1, <3>1 DEF SchedTyped
    <2>4. \A v \in Workers : SchedFlight(v)' = SchedFlight(v)
        BY <2>1 DEF SchedFlight
    <2>5. \A v \in Workers : \A c \in SchedFlight(v) : c.schedule \in Schedules /\ c.due \in Nat /\ c.due <= schedWk[v].now /\ schedWk[v].now <= clock /\ schedWk[v].now \in Nat
        BY DEF OneFlight, SchedFlight, SchedTyped, SchedWorkspace, SchedClaims
    <2>6. \A v \in Workers : \A c \in SchedFlight(v) : c.schedule = s => c.due < at
        BY <2>1, <2>2, <2>5
    <2>7. OneFlight'
        <3>1. \A v \in Workers : \A c \in SchedFlight(v) :
                schedRow'[c.schedule].active /\ claim'[c.schedule] = Sched!NoTime => Alone /\ c.due < schedRow'[c.schedule].next
            <4> SUFFICES ASSUME NEW v \in Workers, NEW c \in SchedFlight(v), schedRow'[c.schedule].active, claim'[c.schedule] = Sched!NoTime
                         PROVE  Alone /\ c.due < schedRow'[c.schedule].next
                OBVIOUS
            <4>1. CASE c.schedule = s
                <5>1. c.due < at /\ schedRow'[s].next = at
                    BY <2>1, <2>6, <4>1
                <5> QED
                    BY <2>1, <4>1, <5>1
            <4>2. CASE c.schedule # s
                BY <2>1, <2>5, <4>2 DEF OneFlight
            <4> QED
                BY <4>1, <4>2
        <3> QED
            BY <2>1, <2>4, <3>1 DEF OneFlight
    <2>8. StartedBefore(s, at)
        <3>1. \A i \in 1..Len(started[s]) : started[s][i] \in Nat
            BY DEF SchedTyped
        <3> QED
            BY <2>1, <2>2, <3>1 DEF NotAhead, StartedBefore
    <2>9. NextIsLater'
        <3> SUFFICES ASSUME NEW r \in Schedules, schedRow'[r].active, claim'[r] = Sched!NoTime
                     PROVE  \A i \in 1..Len(started[r]) : started[r][i] < schedRow'[r].next
            BY <2>1 DEF NextIsLater, StartedBefore
        <3>1. CASE r = s
            <4>1. schedRow'[s].next = at
                BY <2>1, <3>1
            <4> QED
                BY <2>8, <3>1, <4>1 DEF StartedBefore
        <3>2. CASE r # s
            BY <2>1, <3>2 DEF NextIsLater, StartedBefore
        <3> QED
            BY <3>1, <3>2
    <2> QED
        BY <2>1, <2>3, <2>7, <2>9 DEF FlightIsLater, NotAhead, StartedBefore, Sched!DueTimesStartOnce
<1>6. ASSUME NEW w \in Workers, Sched!ClaimDueWorkflowSchedules(w) PROVE SchedInv'
    <2> DEFINE C(s) == [schedule |-> s, due |-> schedRow[s].next, active |-> schedRow[s].active]
    <2>1. schedWk' = [schedWk EXCEPT ![w] = [pc |-> "next", now |-> clock, cur |-> None, todo |-> {C(s) : s \in Sched!Due}]]
        BY <1>6 DEF Sched!ClaimDueWorkflowSchedules
    <2>2. /\ Sched!Due \subseteq Schedules
          /\ \A s \in Sched!Due : C(s) \in SchedClaims /\ schedRow[s].next <= clock /\ schedRow[s].active /\ schedRow[s].there /\ claim[s] = Sched!NoTime
        BY DEF Sched!Due, SchedClaims, SchedWorkspace, SchedTyped, SchedRow
    <2>3. SchedTyped'
        <3>1. schedWk'[w] = [pc |-> "next", now |-> clock, cur |-> None, todo |-> {C(s) : s \in Sched!Due}]
            BY <2>1 DEF SchedWorkspace, SchedTyped
        <3>2. {C(s) : s \in Sched!Due} \in SUBSET SchedClaims
            BY <2>2
        <3>3. schedWk'[w] \in SchedWorkspace
            BY <3>1, <3>2 DEF SchedTyped, SchedWorkspace
        <3>4. claim' \in [Schedules -> Nat] /\ \A s \in Schedules : claim'[s] <= clock /\ (~schedRow[s].there => claim'[s] = Sched!NoTime)
            BY <1>6, <2>2 DEF Sched!ClaimDueWorkflowSchedules, SchedWorkspace, SchedTyped, SchedRow
        <3> QED
            BY <1>6, <2>1, <3>1, <3>3, <3>4 DEF Sched!ClaimDueWorkflowSchedules, SchedWorkspace, SchedTyped, SchedBusy
    <2>4. SchedFlight(w) = {} /\ SchedFlight(w)' = {C(s) : s \in Sched!Due} /\ \A v \in Workers : v # w => (SchedFlight(v)' = SchedFlight(v) /\ schedWk'[v] = schedWk[v])
        BY <1>6, <2>1 DEF SchedFlight, SchedWorkspace, SchedTyped, Sched!ClaimDueWorkflowSchedules, Sched!At, SchedBusy
    <2>5. \A v \in Workers : \A c \in SchedFlight(v) : c.schedule \notin Sched!Due /\ c.schedule \in Schedules
        <3> SUFFICES ASSUME NEW v \in Workers, NEW c \in SchedFlight(v) PROVE c.schedule \notin Sched!Due /\ c.schedule \in Schedules
            OBVIOUS
        <3>1. c.schedule \in Schedules
            BY DEF SchedFlight, SchedWorkspace, SchedTyped, SchedClaims
        <3>2. ASSUME c.schedule \in Sched!Due PROVE FALSE
            <4>1. Alone
                BY <2>2, <3>2 DEF OneFlight
            <4> QED
                BY <2>4, <4>1 DEF Alone
        <3> QED
            BY <3>1, <3>2
    <2>6. \A s \in Sched!Due : claim'[s] # Sched!NoTime
        BY <1>6, <2>2 DEF Sched!ClaimDueWorkflowSchedules, Sched!Due, Sched!NoTime
    <2>7. \A v \in Workers : \A c \in SchedFlight(v)' :
            /\ c.due <= schedWk'[v].now
            /\ schedRow'[c.schedule].active /\ claim'[c.schedule] = Sched!NoTime => Alone /\ c.due < schedRow'[c.schedule].next
        <3> SUFFICES ASSUME NEW v \in Workers, NEW c \in SchedFlight(v)'
                     PROVE  /\ c.due <= schedWk'[v].now
                            /\ schedRow'[c.schedule].active /\ claim'[c.schedule] = Sched!NoTime =>
                                   Alone /\ c.due < schedRow'[c.schedule].next
            OBVIOUS
        <3>1. CASE v = w
            BY <3>1, <2>1, <2>2, <2>4, <2>6 DEF SchedWorkspace, SchedTyped
        <3>2. CASE v # w
            BY <3>2, <1>6, <2>4, <2>5 DEF Sched!ClaimDueWorkflowSchedules, OneFlight
        <3> QED
            BY <3>1, <3>2
    <2>8. OneFlight'
        <3>1. \A v, u \in Workers : \A c \in SchedFlight(v)', d \in SchedFlight(u)' :
                c.schedule = d.schedule => v = u /\ c = d
            BY <2>4, <2>5 DEF OneFlight
        <3>2. \A v \in Workers : schedWk'[v].pc \in SchedBusy => schedWk'[v].cur \notin schedWk'[v].todo
            BY <2>1, <2>4 DEF OneFlight, SchedWorkspace, SchedTyped, SchedBusy
        <3> QED
            BY <2>7, <3>1, <3>2 DEF OneFlight
    <2>9. NextIsLater'
        BY <1>6 DEF NextIsLater, StartedBefore, Sched!ClaimDueWorkflowSchedules, Sched!Due, SchedWorkspace, SchedTyped
    <2>10. FlightIsLater'
        <3>1. \A s \in Sched!Due : StartedBefore(s, schedRow[s].next)
            BY <2>2 DEF NextIsLater
        <3>2. started' = started /\ schedWk'[w].pc = "next" /\ \A c \in schedWk'[w].todo : \E s \in Sched!Due : c.schedule = s /\ c.due = schedRow[s].next
            BY <1>6, <2>1, <2>2 DEF Sched!ClaimDueWorkflowSchedules, SchedTyped
        <3> QED
            BY <2>4, <3>1, <3>2 DEF FlightIsLater, StartedBefore
    <2> QED
        BY <1>6, <2>3, <2>8, <2>9, <2>10 DEF Sched!ClaimDueWorkflowSchedules, NotAhead, StartedBefore, Sched!DueTimesStartOnce
<1>7. ASSUME NEW w \in Workers, Sched!NextClaim(w) PROVE SchedInv'
    <2>1. schedWk[w].pc = "next" /\ UNCHANGED <<clock, Sched!rows, started>>
        BY <1>7 DEF Sched!NextClaim, Sched!At
    <2>2. CASE schedWk[w].todo = {}
        BY <1>7, <2>1, <2>2, Leaving DEF Sched!NextClaim, Sched!Leave
    <2>3. CASE schedWk[w].todo # {}
        <3>1. PICK c \in schedWk[w].todo : schedWk' = [schedWk EXCEPT ![w].pc = "check", ![w].cur = c, ![w].todo = @ \ {c}]
            BY <1>7, <2>3 DEF Sched!NextClaim
        <3>2. c \in SchedClaims
            BY DEF SchedWorkspace, SchedTyped
        <3>3. /\ schedWk'[w] = [schedWk[w] EXCEPT !.pc = "check", !.cur = c, !.todo = @ \ {c}]
              /\ schedWk'[w].pc = "check" /\ schedWk'[w].cur = c /\ schedWk'[w].todo = schedWk[w].todo \ {c} /\ schedWk'[w].now = schedWk[w].now
              /\ \A v \in Workers : v # w => schedWk'[v] = schedWk[v]
            BY <3>1 DEF SchedWorkspace, SchedTyped
        <3>4. SchedTyped'
            <4>1. schedWk'[w] \in SchedWorkspace
                BY <3>2, <3>3 DEF SchedWorkspace, SchedTyped, SchedBusy
            <4> QED
                BY <2>1, <3>1, <3>2, <3>3, <4>1 DEF SchedWorkspace, SchedTyped, SchedBusy, Sched!rows
        <3>5. \A v \in Workers : SchedFlight(v)' = SchedFlight(v) /\ schedWk'[v].now = schedWk[v].now
            <4>1. SchedFlight(w)' = SchedFlight(w)
                BY <2>1, <3>1, <3>3 DEF SchedFlight, SchedBusy
            <4> QED
                BY <3>3, <4>1 DEF SchedFlight
        <3>6. OneFlight'
            <4>1. \A v \in Workers : schedWk'[v].pc \in SchedBusy => schedWk'[v].cur \notin schedWk'[v].todo
                BY <3>3 DEF OneFlight
            <4> QED
                BY <2>1, <3>5, <4>1 DEF OneFlight, Sched!rows
        <3>7. FlightIsLater'
            BY <2>1, <3>3 DEF FlightIsLater, StartedBefore
        <3> QED
            BY <2>1, <3>4, <3>6, <3>7 DEF Sched!rows, NextIsLater, StartedBefore, NotAhead, Sched!DueTimesStartOnce
    <2> QED
        BY <2>2, <2>3
<1>8. ASSUME NEW w \in Workers, Sched!CheckProject(w) PROVE SchedInv'
    <2>1. PICK l \in {"insert", "retry"} : schedWk' = [schedWk EXCEPT ![w].pc = l]
        BY <1>8 DEF Sched!CheckProject
    <2>2. schedWk[w].pc = "check" /\ UNCHANGED <<clock, Sched!rows, started>>
        BY <1>8 DEF Sched!CheckProject, Sched!At
    <2>3. /\ schedWk'[w] = [schedWk[w] EXCEPT !.pc = l]
          /\ schedWk'[w].pc = l /\ schedWk'[w].cur = schedWk[w].cur /\ schedWk'[w].todo = schedWk[w].todo /\ schedWk'[w].now = schedWk[w].now
          /\ \A v \in Workers : v # w => schedWk'[v] = schedWk[v]
        BY <2>1 DEF SchedTyped, SchedWorkspace
    <2>4. SchedTyped'
        <3>1. schedWk'[w] \in SchedWorkspace
            BY <2>3 DEF SchedTyped, SchedWorkspace, SchedBusy
        <3> QED
            BY <2>1, <2>2, <2>3, <3>1 DEF SchedTyped, SchedBusy, Sched!rows
    <2>5. \A v \in Workers : SchedFlight(v)' = SchedFlight(v) /\ schedWk'[v].now = schedWk[v].now
        BY <2>2, <2>3 DEF SchedFlight, SchedBusy
    <2>6. OneFlight'
        <3>1. \A v \in Workers : schedWk'[v].pc \in SchedBusy => schedWk'[v].cur \notin schedWk'[v].todo
            BY <2>2, <2>3 DEF OneFlight, SchedBusy
        <3> QED
            BY <2>2, <2>5, <3>1 DEF OneFlight, Sched!rows
    <2>7. FlightIsLater'
        BY <2>2, <2>3 DEF FlightIsLater, StartedBefore
    <2> QED
        BY <2>2, <2>4, <2>6, <2>7 DEF Sched!rows, NextIsLater, StartedBefore, NotAhead, Sched!DueTimesStartOnce
<1>9. ASSUME NEW w \in Workers, Sched!EnqueueRun(w) PROVE SchedInv'
    <2> DEFINE c == schedWk[w].cur  n == Len(started[c.schedule])
    <2>1. /\ c \in SchedClaims /\ c \in SchedFlight(w) /\ schedWk[w].pc = "insert" /\ StartedBefore(c.schedule, c.due)
          /\ started' = [started EXCEPT ![c.schedule] = Append(@, c.due)]
          /\ schedWk' = [schedWk EXCEPT ![w].pc = "advance"]
          /\ UNCHANGED <<clock, schedRow, claim, project>>
        BY <1>9 DEF Sched!EnqueueRun, Sched!At, SchedWorkspace, SchedTyped, SchedFlight, SchedBusy, FlightIsLater, Sched!rows
    <2>2. c.schedule \in Schedules /\ c.due \in Nat /\ started[c.schedule] \in Seq(Nat)
        BY <2>1 DEF SchedClaims, SchedWorkspace, SchedTyped
    <2>3. SchedTyped'
        <3>1. /\ schedWk'[w] = [schedWk[w] EXCEPT !.pc = "advance"] /\ schedWk'[w] \in SchedWorkspace /\ \A v \in Workers : v # w => schedWk'[v] = schedWk[v]
            BY <2>1 DEF SchedTyped, SchedWorkspace, SchedBusy
        <3>2. schedWk' \in [Workers -> SchedWorkspace]
            BY <2>1, <3>1 DEF SchedTyped
        <3>3. started' \in [Schedules -> Seq(Nat)]
            BY <2>1, <2>2 DEF SchedTyped
        <3> QED
            BY <2>1, <3>1, <3>2, <3>3 DEF SchedTyped, SchedBusy
    <2>4. \A v \in Workers : SchedFlight(v)' = SchedFlight(v) /\ schedWk'[v].now = schedWk[v].now /\ schedWk'[v].todo = schedWk[v].todo /\ schedWk'[v].cur = schedWk[v].cur
        BY <2>1 DEF SchedWorkspace, SchedTyped, SchedFlight, SchedBusy
    <2>5. OneFlight'
        BY <2>1, <2>4 DEF OneFlight, SchedWorkspace, SchedTyped, SchedBusy
    <2>6. /\ \A s \in Schedules : s # c.schedule => started'[s] = started[s]
          /\ n \in Nat /\ Len(started'[c.schedule]) = n + 1 /\ started'[c.schedule][n + 1] = c.due
          /\ \A i \in 1..n : started'[c.schedule][i] = started[c.schedule][i]
        BY <2>1, <2>2 DEF SchedWorkspace, SchedTyped
    <2>7. /\ \A i \in 1..(n + 1) : started'[c.schedule][i] < c.due + 1
          /\ \A i, j \in 1..(n + 1) : i < j => started'[c.schedule][i] < started'[c.schedule][j]
        <3>1. \A i \in 1..n : started[c.schedule][i] \in Nat /\ started[c.schedule][i] < c.due
            BY <2>1, <2>2 DEF StartedBefore
        <3>2. \A i \in 1..(n + 1) : i \in 1..n \/ i = n + 1
            BY <2>6
        <3>3. \A i, j \in 1..n : i < j => started[c.schedule][i] < started[c.schedule][j]
            BY <2>2 DEF NotAhead, StartedBefore, Sched!DueTimesStartOnce
        <3>4. \A i \in 1..n : started'[c.schedule][i] < started'[c.schedule][n + 1]
            BY <2>6, <3>1
        <3>5. \A i, j \in 1..(n + 1) : i < j => i \in 1..n /\ (j \in 1..n \/ j = n + 1)
            BY <2>6
        <3>6. \A i \in 1..(n + 1) : started'[c.schedule][i] < c.due + 1
            <4>1. ASSUME NEW i \in 1..n PROVE started'[c.schedule][i] < c.due + 1
                <5>1. started'[c.schedule][i] = started[c.schedule][i] /\ started[c.schedule][i] \in Nat /\ started[c.schedule][i] < c.due
                    BY <2>6, <3>1
                <5>2. \A x \in Nat, d \in Nat : x < d => x < d + 1
                    OBVIOUS
                <5> QED
                    BY <2>2, <5>1, <5>2
            <4>2. started'[c.schedule][n + 1] < c.due + 1
                BY <2>2, <2>6
            <4> QED
                BY <3>2, <4>1, <4>2
        <3>7. ASSUME NEW i \in 1..(n + 1), NEW j \in 1..(n + 1), i < j
              PROVE  started'[c.schedule][i] < started'[c.schedule][j]
            BY <2>6, <3>3, <3>4, <3>5, <3>7
        <3> QED
            BY <3>6, <3>7
    <2>8. Sched!DueTimesStartOnce'
        BY <2>6, <2>7 DEF NotAhead, StartedBefore, Sched!DueTimesStartOnce
    <2>9. FlightIsLater'
        <3>1. \A v \in Workers : \A d \in SchedFlight(v) : (v # w \/ d # c) => d.schedule # c.schedule /\ d.schedule \in Schedules
            BY <2>1, <2>2 DEF OneFlight, SchedFlight, SchedTyped, SchedClaims, SchedWorkspace
        <3>2. \A s \in Schedules : s # c.schedule => \A i \in 1..Len(started'[s]) : started'[s][i] = started[s][i] /\ Len(started'[s]) = Len(started[s])
            BY <2>6
        <3>3. \A d \in schedWk'[w].todo : d # c /\ d \in SchedFlight(w)
            BY <2>1, <2>4 DEF OneFlight, SchedFlight, SchedBusy
        <3>4. schedWk'[w].pc = "advance" /\ \A v \in Workers : v # w => schedWk'[v] = schedWk[v]
            BY <2>1 DEF SchedTyped
        <3>5. \A v \in Workers : \A d \in schedWk[v].todo : d \in SchedFlight(v)
            BY DEF SchedFlight
        <3>6. \A v \in Workers : schedWk[v].pc \in SchedBusy => schedWk[v].cur \in SchedFlight(v)
            BY DEF SchedFlight
        <3>7. ASSUME NEW v \in Workers, v # w
              PROVE  /\ \A d \in schedWk'[v].todo : StartedBefore(d.schedule, d.due)'
                     /\ schedWk'[v].pc \in {"check", "insert", "retry"} => StartedBefore(schedWk[v].cur.schedule, schedWk[v].cur.due)'
                     /\ schedWk'[v].pc = "advance" => StartedBefore(schedWk[v].cur.schedule, schedWk[v].cur.due + 1)'
            <4>1. schedWk'[v] = schedWk[v]
                BY <3>4, <3>7
            <4>2. ASSUME NEW d \in SchedFlight(v), NEW t, StartedBefore(d.schedule, t)
                  PROVE  \A i \in 1..Len(started'[d.schedule]) : started'[d.schedule][i] < t
                BY <3>1, <3>2, <3>7, <4>2 DEF StartedBefore
            <4>3. \A d \in schedWk'[v].todo : StartedBefore(d.schedule, d.due)'
                BY <3>5, <4>1, <4>2 DEF FlightIsLater, StartedBefore
            <4>4. schedWk[v].pc \in {"check", "insert", "retry"} => StartedBefore(schedWk[v].cur.schedule, schedWk[v].cur.due)'
                BY <3>6, <4>1, <4>2 DEF FlightIsLater, StartedBefore, SchedBusy
            <4>5. schedWk[v].pc = "advance" => StartedBefore(schedWk[v].cur.schedule, schedWk[v].cur.due + 1)'
                BY <3>6, <4>1, <4>2 DEF FlightIsLater, StartedBefore, SchedBusy
            <4> QED
                BY <4>1, <4>3, <4>4, <4>5
        <3>8. \A d \in schedWk'[w].todo : StartedBefore(d.schedule, d.due)'
            BY <2>4, <3>1, <3>2, <3>3 DEF FlightIsLater, StartedBefore
        <3>9. StartedBefore(schedWk[w].cur.schedule, schedWk[w].cur.due + 1)'
            BY <2>4, <2>6, <2>7 DEF StartedBefore
        <3> QED
            BY <3>4, <3>7, <3>8, <3>9 DEF FlightIsLater
    <2>10. NextIsLater'
        <3>1. schedRow[c.schedule].active /\ claim[c.schedule] = Sched!NoTime => c.due < schedRow[c.schedule].next /\ StartedBefore(c.schedule, schedRow[c.schedule].next)
            BY <2>1, <2>2 DEF OneFlight, NextIsLater
        <3>2. \A i \in 1..(n + 1) : i \in 1..n \/ i = n + 1
            BY <2>6
        <3>3. schedRow[c.schedule].active /\ claim[c.schedule] = Sched!NoTime => \A i \in 1..(n + 1) : started'[c.schedule][i] < schedRow[c.schedule].next
            BY <2>6, <3>1, <3>2 DEF StartedBefore
        <3> QED
            BY <2>1, <2>6, <3>3 DEF NextIsLater, StartedBefore
    <2>11. NotAhead'
        <3>1. schedWk[w].now \in Nat /\ clock \in Nat /\ c.due <= schedWk[w].now /\ schedWk[w].now <= clock
            BY <2>1 DEF OneFlight, SchedTyped, SchedWorkspace, Sched!Sensible
        <3>2. c.due < clock + 1
            BY <2>2, <3>1
        <3>3. \A i \in 1..(n + 1) : i \in 1..n \/ i = n + 1
            BY <2>6
        <3>4. \A i \in 1..(n + 1) : started'[c.schedule][i] < clock + 1
            BY <2>2, <2>6, <3>2, <3>3 DEF NotAhead, StartedBefore
        <3> QED
            BY <2>1, <2>6, <3>4 DEF NotAhead, StartedBefore
    <2> QED
        BY <2>3, <2>5, <2>8, <2>9, <2>10, <2>11
<1>10. ASSUME NEW w \in Workers, Sched!AdvanceSchedule(w) PROVE SchedInv'
    <2> DEFINE c == schedWk[w].cur  s == c.schedule
    <2>1. /\ schedWk[w].pc \in {"advance", "retry"} /\ c \in SchedClaims /\ c \in SchedFlight(w) /\ s \in Schedules /\ c.due \in Nat
          /\ UNCHANGED <<clock, project, started>>
        BY <1>10 DEF Sched!AdvanceSchedule, SchedTyped, SchedWorkspace, SchedClaims, SchedFlight, SchedBusy
    <2>2. CASE ~Sched!Found(s)
        BY <1>10, <2>1, <2>2, Leaving DEF Sched!AdvanceSchedule, Sched!Leave, Sched!rows
    <2>3. CASE Sched!Found(s)
        <3>1. /\ schedRow' = [schedRow EXCEPT ![s].active = c.active, ![s].next = Sched!Advanced(w)]
              /\ claim' = [claim EXCEPT ![s] = Sched!NoTime]
              /\ schedWk' = [schedWk EXCEPT ![w].pc = "next", ![w].cur = None]
            BY <1>10, <2>3 DEF Sched!AdvanceSchedule, Sched!Released
        <3>2. Sched!Advanced(w) \in Nat /\ c.due < Sched!Advanced(w)
            <4>1. schedWk[w].now \in Nat /\ c.due <= schedWk[w].now
                BY <2>1 DEF SchedTyped, SchedWorkspace, OneFlight
            <4>2. schedWk[w].now + 1 \in Nat /\ c.due < schedWk[w].now + 1
                BY <2>1, <4>1
            <4>3. Sched!NextAfter(s, c.due) \in Nat /\ c.due < Sched!NextAfter(s, c.due)
                BY <2>1, NextIsAfter
            <4> QED
                BY <4>2, <4>3 DEF Sched!Advanced, Sched!At
        <3>3. StartedBefore(s, Sched!Advanced(w))
            <4>1. StartedBefore(s, c.due + 1)
                BY <2>1 DEF FlightIsLater, StartedBefore, SchedTyped
            <4> QED
                <5>1. \A i \in 1..Len(started[s]) : started[s][i] \in Nat
                    <6>1. started[s] \in Seq(Nat)
                        BY <2>1 DEF SchedTyped
                    <6> QED
                        BY <6>1
                <5> QED
                    BY <2>1, <3>2, <4>1, <5>1 DEF StartedBefore
        <3>4. /\ schedWk'[w] = [schedWk[w] EXCEPT !.pc = "next", !.cur = None]
              /\ schedWk'[w].pc = "next" /\ schedWk'[w].todo = schedWk[w].todo /\ schedWk'[w].now = schedWk[w].now /\ schedWk'[w] \in SchedWorkspace
              /\ \A v \in Workers : v # w => schedWk'[v] = schedWk[v]
            BY <3>1 DEF SchedTyped, SchedWorkspace
        <3>5. /\ schedRow'[s] = [there |-> TRUE, active |-> c.active, next |-> Sched!Advanced(w)] /\ claim'[s] = Sched!NoTime
              /\ \A r \in Schedules : r # s => schedRow'[r] = schedRow[r] /\ claim'[r] = claim[r]
            BY <2>1, <2>3, <3>1 DEF SchedTyped, Sched!Found, SchedRow
        <3>6. SchedTyped'
            <4>1. schedWk' \in [Workers -> SchedWorkspace] /\ claim' \in [Schedules -> Nat]
                BY <2>1, <3>1, <3>4 DEF SchedTyped, Sched!NoTime
            <4>2. schedRow'[s] \in SchedRow
                BY <2>1, <3>2, <3>5 DEF SchedClaims, SchedRow
            <4>3. schedRow' \in [Schedules -> SchedRow]
                BY <2>1, <3>1, <4>2 DEF SchedTyped
            <4> QED
                <5>1. \A r \in Schedules : claim'[r] <= clock /\ (~schedRow'[r].there => claim'[r] = Sched!NoTime /\ ~schedRow'[r].active)
                    <6>1. /\ claim'[s] <= clock /\ (~schedRow'[s].there => claim'[s] = Sched!NoTime /\ ~schedRow'[s].active)
                        <7>1. clock \in Nat /\ 0 <= clock
                            BY DEF SchedTyped, Sched!Sensible
                        <7> QED
                            BY <3>5, <7>1 DEF Sched!NoTime
                    <6>2. ASSUME NEW r \in Schedules, r # s PROVE claim'[r] <= clock /\ (~schedRow'[r].there => claim'[r] = Sched!NoTime /\ ~schedRow'[r].active)
                        BY <3>5, <6>2 DEF SchedTyped
                    <6> QED
                        BY <6>1, <6>2
                <5>2. \A v \in Workers :
                        /\ schedWk'[v].now <= clock
                        /\ schedWk'[v].pc \in {"idle", "dead"} => schedWk'[v].todo = {}
                        /\ schedWk'[v].pc \in SchedBusy => schedWk'[v].cur \in SchedClaims
                    BY <3>4 DEF SchedTyped, SchedBusy
                <5> QED
                    BY <2>1, <4>1, <4>3, <5>1, <5>2 DEF SchedTyped
        <3>7. /\ \A v \in Workers : v # w => SchedFlight(v)' = SchedFlight(v)
              /\ SchedFlight(w)' = schedWk[w].todo
            BY <3>4 DEF SchedFlight, SchedBusy
        <3>8. \A v \in Workers : \A d \in SchedFlight(v)' : d \in SchedFlight(v) /\ d.schedule # s /\ d.schedule \in Schedules
            <4>1. \A v \in Workers : \A d \in SchedFlight(v)' : d \in SchedFlight(v) /\ (v # w \/ d # c)
                BY <2>1, <3>7 DEF OneFlight, SchedFlight, SchedBusy
            <4>2. \A v \in Workers : \A d \in SchedFlight(v) : d.schedule \in Schedules
                BY DEF SchedFlight, SchedTyped, SchedWorkspace, SchedClaims
            <4> QED
                BY <2>1, <4>1, <4>2 DEF OneFlight
        <3>9. OneFlight'
            <4>1. \A v \in Workers : schedWk'[v].now = schedWk[v].now /\ (schedWk'[v].pc \in SchedBusy => schedWk'[v].cur \notin schedWk'[v].todo)
                BY <3>4 DEF OneFlight, SchedBusy
            <4> QED
                BY <3>5, <3>8, <4>1 DEF OneFlight
        <3>10. FlightIsLater'
            BY <2>1, <3>4 DEF FlightIsLater, StartedBefore
        <3>11. NextIsLater'
            BY <2>1, <3>3, <3>5 DEF NextIsLater, StartedBefore
        <3> QED
            BY <2>1, <3>6, <3>9, <3>10, <3>11 DEF NotAhead, StartedBefore, Sched!DueTimesStartOnce
    <2> QED
        BY <2>2, <2>3
<1>11. ASSUME NEW w \in Workers, Sched!Crash(w) PROVE SchedInv'
    BY <1>11, Leaving DEF Sched!Crash, Sched!Leave
<1>12. ASSUME NEW w \in Workers, Sched!Restart(w) PROVE SchedInv'
    BY <1>12, Leaving DEF Sched!Restart, Sched!Leave
<1>13. CASE UNCHANGED Sched!vars
    BY <1>13 DEF Sched!vars, Sched!rows, SchedWorkspace, SchedTyped, OneFlight, SchedFlight, NextIsLater, FlightIsLater, StartedBefore, NotAhead, Sched!DueTimesStartOnce
<1> QED
    BY <1>1, <1>2, <1>3, <1>4, <1>5, <1>6, <1>7, <1>8, <1>9, <1>10, <1>11, <1>12, <1>13 DEF Sched!Next, Sched!WorkerStep

\* The invariant implies the component's type invariant.
LEMMA SchedTypes == ASSUME Sched!Sensible PROVE SchedInv => Sched!ScheduleTypeOK
BY DEF SchedInv, SchedTyped, Sched!ScheduleTypeOK, SchedRow, SchedWorkspace, SchedBusy, Sched!NoTime, Sched!Sensible

-----------------------------------------------------------------------------
(* Schedules: no occurrence is skipped *)

\* No enqueue fails, and the operator changes one thing at most, no schedule.
Undisturbed == SchedMaxErrors = 0 /\ SchedMaxEdits \in {0, 1} /\ "edit" \notin Changes

\* The next occurrence to be started.
Expected(s) == (Len(started[s]) + 1) * Period[s]

\* The project is inactive only because the operator changed it.
NothingFailed ==
    /\ schedErrors = 0 /\ schedEdits \in Nat
    /\ schedEdits = 0 => project

\* While the project is active, what may be claimed and what is in flight is
\* the next occurrence, and a schedule is advanced from the last one started.
OnGrid ==
    /\ project => \A s \in Schedules : schedRow[s].active /\ claim[s] = Sched!NoTime => schedRow[s].next = Expected(s)
    /\ \A w \in Workers :
        /\ project => \A c \in schedWk[w].todo : c.due = Expected(c.schedule)
        /\ schedWk[w].pc = "check" /\ project => schedWk[w].cur.due = Expected(schedWk[w].cur.schedule)
        /\ schedWk[w].pc = "insert" => schedWk[w].cur.due = Expected(schedWk[w].cur.schedule)
        /\ schedWk[w].pc = "advance" => schedWk[w].cur.due = Len(started[schedWk[w].cur.schedule]) * Period[schedWk[w].cur.schedule]
        /\ schedWk[w].pc = "retry" => ~project

GridInv == NothingFailed /\ OnGrid /\ Sched!NoOccurrenceSkipped

\* The occurrence after the k-th is the next multiple of the period.
LEMMA MultipleOfPeriod ==
    ASSUME NEW p \in Nat \ {0}, NEW k \in Nat
    PROVE  ((k * p) \div p + 1) * p = (k + 1) * p
<1>1. (k * p) \div p = k
    OBVIOUS
<1> QED
    BY <1>1

\* The first occurrence is the first multiple of the period.
LEMMA InitGrid == ASSUME Sched!Sensible PROVE Sched!Init => GridInv
<1> SUFFICES ASSUME Sched!Init PROVE GridInv
    OBVIOUS
<1>1. \A s \in Schedules : Sched!NextAfter(s, 0) = Period[s]
    <2> TAKE s \in Schedules
    <2>1. Period[s] \in Nat \ {0}
        BY DEF Sched!Sensible
    <2>2. ((0 * Period[s]) \div Period[s] + 1) * Period[s] = (0 + 1) * Period[s]
        BY <2>1, MultipleOfPeriod
    <2>3. 0 * Period[s] = 0 /\ (0 + 1) * Period[s] = Period[s]
        BY <2>1
    <2> QED
        BY <2>2, <2>3 DEF Sched!NextAfter
<1>2. \A s \in Schedules : Len(started[s]) = 0 /\ Expected(s) = Period[s]
    BY DEF Sched!Init, Expected, Sched!Sensible
<1>3. NothingFailed
    BY DEF NothingFailed, Sched!Init
<1>4. OnGrid
    BY <1>1, <1>2 DEF Sched!Init, OnGrid, Sched!Out
<1>5. Sched!NoOccurrenceSkipped
    BY <1>2 DEF Sched!NoOccurrenceSkipped
<1> QED
    BY <1>3, <1>4, <1>5 DEF GridInv

\* A pass starts the next occurrence, and advances to the one after it.
LEMMA StepGrid == ASSUME Sched!Sensible, Undisturbed PROVE SchedInv /\ GridInv /\ [Sched!Next]_Sched!vars => GridInv'
<1> SUFFICES ASSUME SchedInv, GridInv, [Sched!Next]_Sched!vars PROVE GridInv'
    OBVIOUS
<1> USE DEF GridInv
<1>1. CASE Sched!Tick
    BY <1>1 DEF Sched!Tick, Sched!rows, NothingFailed, OnGrid, Sched!NoOccurrenceSkipped, Expected
<1>2. CASE Sched!DeactivateProject
    <2>1. NothingFailed'
        <3>1. schedEdits' = schedEdits + 1 /\ schedErrors' = schedErrors
            BY <1>2 DEF Sched!DeactivateProject, Sched!Change
        <3> QED
            BY <3>1 DEF NothingFailed
    <2>2. UNCHANGED <<started, schedWk>> /\ project' = FALSE
        BY <1>2 DEF Sched!DeactivateProject, Sched!Change
    <2> QED
        BY <2>1, <2>2 DEF OnGrid, Sched!NoOccurrenceSkipped, Expected
<1>3. CASE Sched!ReactivateProject
    BY <1>3 DEF Sched!ReactivateProject, Sched!Change, Undisturbed, NothingFailed
<1>4. ASSUME NEW s \in Schedules, Sched!DeleteWorkflowSchedule(s) PROVE GridInv'
    <2>1. NothingFailed' /\ UNCHANGED <<started, schedWk, project>>
        BY <1>4 DEF Sched!DeleteWorkflowSchedule, Sched!Change, NothingFailed
    <2>2. \A r \in Schedules : schedRow'[r].active => r # s /\ schedRow'[r] = schedRow[r] /\ claim'[r] = claim[r]
        BY <1>4 DEF Sched!DeleteWorkflowSchedule, SchedInv, SchedTyped
    <2> QED
        BY <2>1, <2>2 DEF OnGrid, Sched!NoOccurrenceSkipped, Expected
<1>5. ASSUME NEW s \in Schedules, NEW on \in BOOLEAN, Sched!UpdateWorkflowSchedule(s, on) PROVE GridInv'
    BY <1>5 DEF Sched!UpdateWorkflowSchedule, Sched!Change, Undisturbed
<1>6. ASSUME NEW w \in Workers, Sched!ClaimDueWorkflowSchedules(w) PROVE GridInv'
    <2>1. /\ UNCHANGED <<schedRow, project, started>> /\ NothingFailed'
          /\ schedWk'[w].pc = "next" /\ \A v \in Workers : v # w => schedWk'[v] = schedWk[v]
        BY <1>6 DEF Sched!ClaimDueWorkflowSchedules, NothingFailed, SchedInv, SchedTyped
    <2>2. \A c \in schedWk'[w].todo : \E s \in Schedules : s \in Sched!Due /\ c.schedule = s /\ c.due = schedRow[s].next
        BY <1>6 DEF Sched!ClaimDueWorkflowSchedules, Sched!Due, SchedInv, SchedTyped
    <2>3. \A s \in Schedules : s \in Sched!Due => schedRow[s].active /\ claim[s] = Sched!NoTime
        BY DEF Sched!Due
    <2>4. \A s \in Schedules : claim'[s] = Sched!NoTime => claim[s] = Sched!NoTime
        BY <1>6 DEF Sched!ClaimDueWorkflowSchedules, Sched!Due, Sched!NoTime, SchedInv, SchedTyped, SchedRow
    <2>5. OnGrid'
        <3>1. \A s : Expected(s)' = Expected(s)
            BY <2>1 DEF Expected
        <3> QED
            BY <2>1, <2>2, <2>3, <2>4, <3>1 DEF OnGrid
    <2> QED
        BY <2>1, <2>5 DEF Sched!NoOccurrenceSkipped
<1>7. ASSUME NEW w \in Workers, Sched!NextClaim(w) PROVE GridInv'
    <2>1. schedWk[w].pc = "next" /\ UNCHANGED <<Sched!rows, started, schedEdits, schedErrors>>
        BY <1>7 DEF Sched!NextClaim, Sched!At
    <2>2. \A v \in Workers : v # w => schedWk'[v] = schedWk[v]
        BY <1>7 DEF Sched!NextClaim, Sched!Leave, SchedInv, SchedTyped
    <2>3. \/ schedWk'[w].pc = "idle" /\ schedWk'[w].todo = {}
          \/ schedWk'[w].pc = "check" /\ schedWk'[w].cur \in schedWk[w].todo /\ schedWk'[w].todo \subseteq schedWk[w].todo
        <3>1. CASE schedWk[w].todo = {}
            BY <1>7, <3>1 DEF Sched!NextClaim, Sched!Leave, Sched!Out, SchedInv, SchedTyped
        <3>2. CASE schedWk[w].todo # {}
            <4>1. PICK c \in schedWk[w].todo : schedWk' = [schedWk EXCEPT ![w].pc = "check", ![w].cur = c, ![w].todo = @ \ {c}]
                BY <1>7, <3>2 DEF Sched!NextClaim
            <4>2. schedWk'[w].pc = "check" /\ schedWk'[w].cur = c /\ schedWk'[w].todo = schedWk[w].todo \ {c}
                BY <4>1 DEF SchedInv, SchedTyped, SchedWorkspace
            <4> QED
                BY <4>2
        <3> QED
            BY <3>1, <3>2
    <2>4. \A s : Expected(s)' = Expected(s)
        BY <2>1 DEF Expected
    <2>5. OnGrid'
        BY <2>1, <2>2, <2>3, <2>4 DEF OnGrid, Sched!rows
    <2> QED
        BY <2>1, <2>5 DEF NothingFailed, Sched!NoOccurrenceSkipped, Sched!rows
<1>8. ASSUME NEW w \in Workers, Sched!CheckProject(w) PROVE GridInv'
    <2>1. schedWk[w].pc = "check" /\ UNCHANGED <<Sched!rows, started, schedEdits, schedErrors>>
        BY <1>8 DEF Sched!CheckProject, Sched!At, NothingFailed, Undisturbed
    <2>2. \A v \in Workers : v # w => schedWk'[v] = schedWk[v]
        BY <1>8 DEF Sched!CheckProject, SchedInv, SchedTyped
    <2>3. /\ schedWk'[w].todo = schedWk[w].todo /\ schedWk'[w].cur = schedWk[w].cur
          /\ (project /\ schedWk'[w].pc = "insert") \/ (~project /\ schedWk'[w].pc = "retry")
        BY <1>8 DEF Sched!CheckProject, NothingFailed, Undisturbed, SchedInv, SchedTyped, SchedWorkspace
    <2>4. \A s : Expected(s)' = Expected(s)
        BY <2>1 DEF Expected
    <2>5. OnGrid'
        BY <2>1, <2>2, <2>3, <2>4 DEF OnGrid, Sched!rows
    <2> QED
        BY <2>1, <2>5 DEF NothingFailed, Sched!NoOccurrenceSkipped, Sched!rows
<1>9. ASSUME NEW w \in Workers, Sched!EnqueueRun(w) PROVE GridInv'
    <2> DEFINE c == schedWk[w].cur  s == c.schedule  n == Len(started[s])
    <2>1. /\ schedWk[w].pc = "insert" /\ c \in SchedClaims /\ c \in SchedFlight(w) /\ s \in Schedules /\ c.due \in Nat
          /\ started' = [started EXCEPT ![s] = Append(@, c.due)]
          /\ UNCHANGED <<schedRow, claim, project, schedEdits, schedErrors>>
        BY <1>9 DEF Sched!EnqueueRun, Sched!At, Sched!rows, SchedInv, SchedTyped, SchedClaims, SchedFlight, SchedBusy
    <2>2. /\ \A v \in Workers : v # w => schedWk'[v] = schedWk[v]
          /\ schedWk'[w].pc = "advance" /\ schedWk'[w].todo = schedWk[w].todo /\ schedWk'[w].cur = c
        BY <1>9 DEF Sched!EnqueueRun, SchedInv, SchedTyped, SchedWorkspace
    <2>3. started[s] \in Seq(Nat) /\ n \in Nat
        BY <2>1 DEF SchedInv, SchedTyped
    <2>4. /\ \A r \in Schedules : r # s => started'[r] = started[r]
          /\ Len(started'[s]) = n + 1 /\ started'[s][n + 1] = c.due
          /\ \A i \in 1..n : started'[s][i] = started[s][i]
        BY <2>1, <2>3 DEF SchedInv, SchedTyped
    <2>5. c.due = (n + 1) * Period[s]
        BY <2>1 DEF OnGrid, Expected
    <2>6. \A r \in Schedules : r # s => Expected(r)' = Expected(r)
        BY <2>4 DEF Expected
    <2>7. \A v \in Workers : \A d \in SchedFlight(v) : (v # w \/ d # c) => d.schedule # s /\ d.schedule \in Schedules
        BY <2>1 DEF SchedInv, OneFlight, SchedFlight, SchedTyped, SchedWorkspace, SchedClaims
    <2>8. project /\ schedRow[s].active => claim[s] # Sched!NoTime
        <3>1. schedRow[s].active /\ claim[s] = Sched!NoTime => c.due < schedRow[s].next
            BY <2>1 DEF SchedInv, OneFlight
        <3>2. project /\ schedRow[s].active /\ claim[s] = Sched!NoTime => schedRow[s].next = c.due
            BY <2>1 DEF OnGrid
        <3> QED
            BY <2>1, <3>1, <3>2
    <2>9. \A v \in Workers : \A d \in schedWk[v].todo : d.schedule # s /\ d.schedule \in Schedules
        <3>1. \A v \in Workers : \A d \in schedWk[v].todo : d \in SchedFlight(v) /\ (v = w => d # c)
            BY <2>1 DEF SchedInv, OneFlight, SchedFlight, SchedBusy
        <3> QED
            BY <2>7, <3>1
    <2>10. \A v \in Workers : v # w /\ schedWk[v].pc \in SchedBusy => schedWk[v].cur.schedule # s /\ schedWk[v].cur.schedule \in Schedules
        BY <2>7 DEF SchedFlight
    <2>11. OnGrid'
        <3>1. project => \A r \in Schedules : schedRow[r].active /\ claim[r] = Sched!NoTime => schedRow[r].next = Expected(r)'
            BY <2>6, <2>8 DEF OnGrid
        <3>2. ASSUME NEW v \in Workers, v # w
              PROVE  /\ project => \A d \in schedWk[v].todo : d.due = Expected(d.schedule)'
                     /\ schedWk[v].pc = "check" /\ project => schedWk[v].cur.due = Expected(schedWk[v].cur.schedule)'
                     /\ schedWk[v].pc = "insert" => schedWk[v].cur.due = Expected(schedWk[v].cur.schedule)'
                     /\ schedWk[v].pc = "advance" =>
                            schedWk[v].cur.due = Len(started'[schedWk[v].cur.schedule]) * Period[schedWk[v].cur.schedule]
                     /\ schedWk[v].pc = "retry" => ~project
            <4>1. project => \A d \in schedWk[v].todo : d.due = Expected(d.schedule)'
                BY <2>6, <2>9 DEF OnGrid
            <4>2. ASSUME schedWk[v].pc \in SchedBusy
                  PROVE  /\ Expected(schedWk[v].cur.schedule)' = Expected(schedWk[v].cur.schedule)
                         /\ Len(started'[schedWk[v].cur.schedule]) = Len(started[schedWk[v].cur.schedule])
                <5>1. schedWk[v].cur.schedule # s /\ schedWk[v].cur.schedule \in Schedules
                    BY <2>10, <3>2, <4>2
                <5>2. started'[schedWk[v].cur.schedule] = started[schedWk[v].cur.schedule]
                    BY <2>4, <5>1
                <5> QED
                    BY <5>2, <2>2, <3>2 DEF Expected
            <4> QED
                BY <4>1, <4>2 DEF OnGrid, SchedBusy
        <3>3. project => \A d \in schedWk[w].todo : d.due = Expected(d.schedule)'
            BY <2>6, <2>9 DEF OnGrid
        <3>4. c.due = Len(started'[s]) * Period[s]
            BY <2>4, <2>5
        <3> QED
            BY <2>1, <2>2, <3>1, <3>2, <3>3, <3>4 DEF OnGrid
    <2>12. Sched!NoOccurrenceSkipped'
        <3>1. \A i \in 1..(n + 1) : started'[s][i] = i * Period[s]
            <4>1. \A i \in 1..n : started[s][i] = i * Period[s]
                BY <2>1 DEF Sched!NoOccurrenceSkipped
            <4>2. \A i \in 1..(n + 1) : i \in 1..n \/ i = n + 1
                BY <2>3
            <4> QED
                BY <2>4, <2>5, <4>1, <4>2
        <3> QED
            BY <2>4, <3>1 DEF Sched!NoOccurrenceSkipped
    <2> QED
        BY <2>1, <2>11, <2>12 DEF NothingFailed
<1>10. ASSUME NEW w \in Workers, Sched!AdvanceSchedule(w) PROVE GridInv'
    <2> DEFINE c == schedWk[w].cur  s == c.schedule
    <2>1. /\ schedWk[w].pc \in {"advance", "retry"} /\ s \in Schedules
          /\ UNCHANGED <<project, started, schedEdits, schedErrors>>
        BY <1>10 DEF Sched!AdvanceSchedule, SchedInv, SchedTyped, SchedWorkspace, SchedClaims, SchedBusy
    <2>2. \A v \in Workers : v # w => schedWk'[v] = schedWk[v]
        BY <1>10 DEF Sched!AdvanceSchedule, Sched!Leave, SchedInv, SchedTyped
    <2>3. schedWk'[w].pc \in {"next", "dead"} /\ schedWk'[w].todo \subseteq schedWk[w].todo
        <3>1. CASE Sched!Found(s)
            <4>1. schedWk' = [schedWk EXCEPT ![w].pc = "next", ![w].cur = None]
                BY <1>10, <3>1 DEF Sched!AdvanceSchedule
            <4> QED
                BY <4>1 DEF SchedInv, SchedTyped, SchedWorkspace
        <3>2. CASE ~Sched!Found(s)
            BY <1>10, <3>2 DEF Sched!AdvanceSchedule, Sched!Leave, Sched!Out, SchedInv, SchedTyped
        <3> QED
            BY <3>1, <3>2
    <2>4. \A r : Expected(r)' = Expected(r)
        BY <2>1 DEF Expected
    <2>5. \A r \in Schedules : r # s => schedRow'[r] = schedRow[r] /\ claim'[r] = claim[r]
        BY <1>10 DEF Sched!AdvanceSchedule, SchedInv, SchedTyped
    <2>6. project /\ schedRow'[s].active /\ claim'[s] = Sched!NoTime => schedRow'[s].next = Expected(s)
        <3>1. CASE Sched!Found(s)
            <4>1. schedRow'[s].next = Sched!Advanced(w)
                BY <1>10, <2>1, <3>1 DEF Sched!AdvanceSchedule, SchedInv, SchedTyped, SchedRow
            <4>2. CASE schedWk[w].pc = "advance"
                <5>1. c.due = Len(started[s]) * Period[s] /\ Sched!Advanced(w) = Sched!NextAfter(s, c.due)
                    BY <4>2 DEF OnGrid, Sched!Advanced, Sched!At
                <5>2. Len(started[s]) \in Nat /\ Period[s] \in Nat \ {0}
                    BY <2>1 DEF SchedInv, SchedTyped, Sched!Sensible
                <5>3. Sched!NextAfter(s, c.due) = Expected(s)
                    BY <5>1, <5>2, MultipleOfPeriod DEF Sched!NextAfter, Expected
                <5> QED
                    BY <4>1, <5>1, <5>3
            <4>3. CASE schedWk[w].pc = "retry"
                BY <4>3 DEF OnGrid
            <4> QED
                BY <2>1, <4>2, <4>3
        <3>2. CASE ~Sched!Found(s)
            BY <1>10, <2>1, <3>2 DEF Sched!AdvanceSchedule, Sched!Found, SchedInv, SchedTyped
        <3> QED
            BY <3>1, <3>2
    <2>7. OnGrid'
        BY <2>1, <2>2, <2>3, <2>4, <2>5, <2>6 DEF OnGrid
    <2> QED
        BY <2>1, <2>7 DEF NothingFailed, Sched!NoOccurrenceSkipped
<1>11. ASSUME NEW w \in Workers, Sched!Crash(w) \/ Sched!Restart(w) PROVE GridInv'
    <2>1. UNCHANGED <<Sched!rows, started, schedEdits, schedErrors>> /\ \A v \in Workers : v # w => schedWk'[v] = schedWk[v]
        BY <1>11 DEF Sched!Crash, Sched!Restart, Sched!Leave, SchedInv, SchedTyped
    <2>2. schedWk'[w].todo = {} /\ schedWk'[w].pc \in {"idle", "dead"}
        BY <1>11 DEF Sched!Crash, Sched!Restart, Sched!Leave, Sched!Out, SchedInv, SchedTyped, SchedWorkspace
    <2>3. \A s : Expected(s)' = Expected(s)
        BY <2>1 DEF Expected
    <2>4. OnGrid'
        BY <2>1, <2>2, <2>3 DEF OnGrid, Sched!rows
    <2> QED
        BY <2>1, <2>4 DEF NothingFailed, Sched!NoOccurrenceSkipped, Sched!rows
<1>12. CASE UNCHANGED Sched!vars
    BY <1>12 DEF Sched!vars, Sched!rows, NothingFailed, OnGrid, Expected, Sched!NoOccurrenceSkipped
<1> QED
    BY <1>1, <1>2, <1>3, <1>4, <1>5, <1>6, <1>7, <1>8, <1>9, <1>10, <1>11, <1>12 DEF Sched!Next, Sched!WorkerStep

-----------------------------------------------------------------------------
(* Commit triggers: a workflow runs once for a commit *)

\* What the columns, the pass and the operator may hold; nothing is needed of
\* the paths it found and of what it has left to do.
CommitTyped ==
    /\ head \in [Branches -> Commits] /\ \A b \in Branches : head[b] \notin gone
    /\ commitPolicy \in [ref : Branches, enabled : BOOLEAN, last : Commits \cup {Commit!Nothing}]
    /\ commitRuns \in [Commit!Wfs \X Commits -> Nat]
    /\ commitWk \in [pc : {"idle", "resolve", "workflow", "enqueue", "error"},
               policy : [ref : Branches, enabled : BOOLEAN, last : Commits \cup {Commit!Nothing}],
               sha : Commits \cup {Commit!Nothing}, paths : {commitWk.paths}, left : {commitWk.left}]
    /\ op \in [pc : {"idle", "store"}, ref : Branches, sha : Commits \cup {Commit!Nothing}]
    /\ op.pc = "store" => op.sha \in Commits

\* A pass that has something left is about a commit it resolved, and starts only what was not
\* started.
PassIsOfItsCommit ==
    /\ commitWk.pc \in {"workflow", "enqueue"} => commitWk.sha \in Commits
    /\ commitWk.left # <<>> => commitWk.sha \in Commits /\ commitWk.sha # commitWk.policy.last
    /\ commitWk.pc = "resolve" => commitWk.left = <<>>
    /\ commitWk.pc = "enqueue" => commitWk.left # <<>>
    /\ commitWk.pc = "enqueue" /\ Head(commitWk.left) \in Commit!Wfs => commitRuns[<<Head(commitWk.left), commitWk.sha>>] = 0

CommitInv == CommitTyped /\ PassIsOfItsCommit /\ Commit!CommitRunsOnce

\* The watch starts at the first commit, with no run.
LEMMA InitCommit == ASSUME Commit!Sensible PROVE Commit!Init => CommitInv
<1> SUFFICES ASSUME Commit!Init PROVE CommitInv
    OBVIOUS
<1>1. head \in [Branches -> Commits] /\ \A b \in Branches : head[b] \notin gone
    BY DEF Commit!Init, Commit!Sensible
<1>2. commitPolicy \in [ref : Branches, enabled : BOOLEAN, last : Commits \cup {Commit!Nothing}]
    BY DEF Commit!Init, Commit!Sensible
<1>3. commitRuns \in [Commit!Wfs \X Commits -> Nat] /\ Commit!CommitRunsOnce
    BY DEF Commit!Init, Commit!CommitRunsOnce
<1>4. /\ commitWk \in [pc : {"idle", "resolve", "workflow", "enqueue", "error"},
                 policy : [ref : Branches, enabled : BOOLEAN, last : Commits \cup {Commit!Nothing}],
                 sha : Commits \cup {Commit!Nothing}, paths : {commitWk.paths}, left : {commitWk.left}]
      /\ commitWk.pc = "idle" /\ commitWk.left = <<>>
    BY DEF Commit!Init, Commit!Sensible, Commit!Nothing
<1>5. op \in [pc : {"idle", "store"}, ref : Branches, sha : Commits \cup {Commit!Nothing}] /\ op.pc = "idle"
    BY DEF Commit!Init, Commit!Sensible, Commit!Nothing
<1> QED
    BY <1>1, <1>2, <1>3, <1>4, <1>5 DEF CommitInv, CommitTyped, PassIsOfItsCommit

\* People who commit, the service's pass, a crash and the operator keep the invariant.
LEMMA StepCommit == ASSUME Commit!Sensible PROVE CommitInv /\ [Commit!Next]_Commit!vars => CommitInv'
<1> SUFFICES ASSUME CommitInv, [Commit!Next]_Commit!vars PROVE CommitInv'
    OBVIOUS
<1> USE DEF CommitInv
<1>1. ASSUME NEW b \in Branches, NEW c \in Commits, Commit!Commit(b, c) PROVE CommitInv'
    BY <1>1 DEF Commit!Commit, CommitTyped, PassIsOfItsCommit, Commit!CommitRunsOnce
<1>2. ASSUME NEW b \in Branches, NEW c \in Commits, Commit!ForcePush(b, c) PROVE CommitInv'
    <2>1. head' = [head EXCEPT ![b] = c] /\ c \notin gone /\ UNCHANGED <<commitPolicy, commitRuns, commitWk, op>>
        BY <1>2 DEF Commit!ForcePush
    <2>2. gone' = gone \/ gone' = gone \cup {d \in c..head[b] : \A e \in Branches : d > head'[e]}
        BY <1>2 DEF Commit!ForcePush
    <2>3. head' \in [Branches -> Commits]
        BY <2>1 DEF CommitTyped
    <2>4. \A e \in Branches : head'[e] \notin gone /\ head'[e] \in Nat
        BY <2>1, <2>3 DEF CommitTyped, Commit!Sensible
    <2>5. \A e \in Branches : head'[e] \notin gone'
        BY <2>2, <2>4
    <2> QED
        BY <2>1, <2>3, <2>5 DEF CommitTyped, PassIsOfItsCommit, Commit!CommitRunsOnce
<1>3. CASE Commit!ListEnabledProjectCommitTriggers
    BY <1>3 DEF Commit!ListEnabledProjectCommitTriggers, Commit!Out, Commit!gitVars, CommitTyped, PassIsOfItsCommit, Commit!CommitRunsOnce, Commit!Nothing
<1>4. CASE Commit!ResolveBranchCommit
    <2> DEFINE sha == head[commitWk.policy.ref]
    <2>1. sha \in Commits /\ commitWk.pc = "resolve" /\ commitWk.left = <<>> /\ UNCHANGED <<Commit!gitVars, commitPolicy, commitRuns, op>>
        BY <1>4 DEF Commit!ResolveBranchCommit, Commit!At, CommitTyped, PassIsOfItsCommit
    <2>2. \/ commitWk' = [commitWk EXCEPT !.pc = "workflow", !.sha = sha]
          \/ commitWk' = [commitWk EXCEPT !.pc = "error", !.sha = sha]
          \/ /\ commitWk.policy.last # sha
             /\ commitWk' = [[commitWk EXCEPT !.pc = "workflow", !.sha = sha] EXCEPT !.paths = Commit!Diff(commitWk.policy.last, sha), !.left = CommitWorkflows]
        BY <1>4 DEF Commit!ResolveBranchCommit
    <2>3. CommitTyped'
        BY <2>1, <2>2 DEF CommitTyped, Commit!gitVars
    <2>4. PassIsOfItsCommit'
        BY <2>1, <2>2 DEF CommitTyped, PassIsOfItsCommit
    <2> QED
        BY <2>1, <2>3, <2>4 DEF Commit!CommitRunsOnce
<1>5. CASE Commit!CheckWorkflow
    <2>1. commitWk.pc = "workflow" /\ commitWk.left # <<>> /\ UNCHANGED <<Commit!gitVars, commitPolicy, commitRuns, op>>
        BY <1>5 DEF Commit!CheckWorkflow, Commit!At
    <2>2. commitWk.sha \in Commits
        BY <2>1 DEF CommitTyped, PassIsOfItsCommit
    <2>3. \/ commitWk' = [commitWk EXCEPT !.left = Tail(@)]
          \/ commitWk' = [commitWk EXCEPT !.pc = "enqueue"] /\ ~(commitRuns[<<Head(commitWk.left), commitWk.sha>>] > 0)
        BY <1>5 DEF Commit!CheckWorkflow, Commit!CommitTriggeredRunExists
    <2>4. Head(commitWk.left) \in Commit!Wfs => commitRuns[<<Head(commitWk.left), commitWk.sha>>] \in Nat
        BY <2>2 DEF CommitTyped
    <2>5. CommitTyped'
        BY <2>1, <2>2, <2>3 DEF CommitTyped, Commit!gitVars
    <2>6. PassIsOfItsCommit'
        <3>1. Head(commitWk.left) \in Commit!Wfs /\ ~(commitRuns[<<Head(commitWk.left), commitWk.sha>>] > 0) => commitRuns[<<Head(commitWk.left), commitWk.sha>>] = 0
            BY <2>4
        <3>2. CASE commitWk' = [commitWk EXCEPT !.left = Tail(@)]
            <4>1. commitWk'.pc = "workflow" /\ commitWk'.sha = commitWk.sha /\ commitWk'.policy = commitWk.policy
                BY <2>1, <3>2 DEF CommitTyped
            <4> QED
                BY <2>1, <4>1 DEF PassIsOfItsCommit
        <3>3. CASE commitWk' = [commitWk EXCEPT !.pc = "enqueue"] /\ ~(commitRuns[<<Head(commitWk.left), commitWk.sha>>] > 0)
            <4>1. commitWk'.pc = "enqueue" /\ commitWk'.sha = commitWk.sha /\ commitWk'.policy = commitWk.policy /\ commitWk'.left = commitWk.left
                BY <2>1, <3>3 DEF CommitTyped
            <4> QED
                BY <2>1, <3>1, <3>3, <4>1 DEF PassIsOfItsCommit
        <3> QED
            BY <2>3, <3>2, <3>3
    <2> QED
        BY <2>1, <2>5, <2>6 DEF Commit!CommitRunsOnce
<1>6. CASE Commit!EnqueueTriggered \/ Commit!EnqueueFailsLate
    <2> DEFINE w == Head(commitWk.left)
    <2>1. commitWk.pc = "enqueue" /\ commitWk.left # <<>> /\ commitWk.sha \in Commits /\ UNCHANGED <<Commit!gitVars, commitPolicy, op>>
        BY <1>6 DEF Commit!EnqueueTriggered, Commit!EnqueueFailsLate, Commit!At, PassIsOfItsCommit
    <2>3. \/ commitWk' = [commitWk EXCEPT !.pc = "error"] /\ commitRuns' = commitRuns
          \/ /\ commitRuns' = [commitRuns EXCEPT ![<<w, commitWk.sha>>] = @ + 1]
             /\ \/ commitWk' = [commitWk EXCEPT !.pc = "workflow", !.left = Tail(@)]
                \/ commitWk' = [commitWk EXCEPT !.pc = "error"]
        BY <1>6 DEF Commit!EnqueueTriggered, Commit!EnqueueFailsLate
    <2>4. ASSUME NEW x \in Commit!Wfs \X Commits PROVE commitRuns'[x] \in Nat /\ commitRuns'[x] <= 1
        <3>1. commitRuns[x] \in Nat /\ commitRuns[x] <= 1
            BY DEF CommitTyped, Commit!CommitRunsOnce
        <3>2. CASE x = <<w, commitWk.sha>>
            <4>1. w \in Commit!Wfs /\ commitRuns[x] = 0
                BY <2>1, <3>2 DEF PassIsOfItsCommit
            <4>2. commitRuns'[x] = commitRuns[x] \/ commitRuns'[x] = commitRuns[x] + 1
                BY <2>3, <3>2 DEF CommitTyped
            <4> QED
                BY <4>1, <4>2
        <3>3. CASE x # <<w, commitWk.sha>>
            BY <2>3, <3>1, <3>3 DEF CommitTyped
        <3> QED
            BY <3>2, <3>3
    <2>5. commitRuns' \in [Commit!Wfs \X Commits -> Nat] /\ \A x \in Commit!Wfs \X Commits : commitRuns'[x] <= 1
        <3>1. DOMAIN commitRuns' = Commit!Wfs \X Commits /\ commitRuns' = [x \in Commit!Wfs \X Commits |-> commitRuns'[x]]
            BY <2>3 DEF CommitTyped
        <3> QED
            BY <2>4, <3>1
    <2>6. CommitTyped'
        <3>1. commitWk' \in [pc : {"idle", "resolve", "workflow", "enqueue", "error"},
                       policy : [ref : Branches, enabled : BOOLEAN, last : Commits \cup {Commit!Nothing}],
                       sha : Commits \cup {Commit!Nothing}, paths : {commitWk'.paths}, left : {commitWk'.left}]
            BY <2>3 DEF CommitTyped
        <3> QED
            BY <2>1, <2>5, <3>1 DEF CommitTyped, Commit!gitVars
    <2>7. PassIsOfItsCommit'
        BY <2>1, <2>3 DEF CommitTyped, PassIsOfItsCommit
    <2> QED
        BY <2>5, <2>6, <2>7 DEF Commit!CommitRunsOnce
<1>7. CASE Commit!RecordCheck
    <2>1. commitWk.pc = "error" \/ commitWk.pc = "workflow"
        BY <1>7 DEF Commit!RecordCheck, Commit!At
    <2>2. Commit!Observed \in Commits \cup {Commit!Nothing}
        BY <2>1 DEF Commit!Observed, Commit!At, CommitTyped, PassIsOfItsCommit
    <2>3. /\ commitPolicy' = [commitPolicy EXCEPT !.last = Commit!Observed]
          /\ commitWk' = [pc |-> "idle", policy |-> commitPolicy, sha |-> 0, paths |-> {}, left |-> <<>>]
          /\ UNCHANGED <<Commit!gitVars, commitRuns, op>>
        BY <1>7 DEF Commit!RecordCheck, Commit!Out, Commit!Nothing
    <2>4. commitPolicy' \in [ref : Branches, enabled : BOOLEAN, last : Commits \cup {Commit!Nothing}]
        BY <2>2, <2>3 DEF CommitTyped
    <2>5. /\ commitWk' \in [pc : {"idle", "resolve", "workflow", "enqueue", "error"},
                     policy : [ref : Branches, enabled : BOOLEAN, last : Commits \cup {Commit!Nothing}],
                     sha : Commits \cup {Commit!Nothing}, paths : {commitWk'.paths}, left : {commitWk'.left}]
          /\ commitWk'.pc = "idle" /\ commitWk'.left = <<>>
        BY <2>3 DEF CommitTyped, Commit!Nothing
    <2>6. CommitTyped'
        BY <2>3, <2>4, <2>5 DEF CommitTyped, Commit!gitVars
    <2> QED
        BY <2>3, <2>5, <2>6 DEF PassIsOfItsCommit, Commit!CommitRunsOnce
<1>8. CASE Commit!CrashAndRestart
    BY <1>8 DEF Commit!CrashAndRestart, Commit!Out, Commit!gitVars, CommitTyped, PassIsOfItsCommit, Commit!CommitRunsOnce, Commit!Nothing
<1>9. ASSUME NEW b \in Branches, Commit!ReadBaseline(b) PROVE CommitInv'
    BY <1>9 DEF Commit!ReadBaseline, Commit!gitVars, CommitTyped, PassIsOfItsCommit, Commit!CommitRunsOnce
<1>10. ASSUME NEW on \in BOOLEAN, Commit!UpsertProjectCommitTrigger(on) PROVE CommitInv'
    BY <1>10 DEF Commit!UpsertProjectCommitTrigger, Commit!gitVars, CommitTyped, PassIsOfItsCommit, Commit!CommitRunsOnce, Commit!Nothing
<1>11. CASE UNCHANGED Commit!vars
    BY <1>11 DEF Commit!vars, Commit!gitVars, CommitTyped, PassIsOfItsCommit, Commit!CommitRunsOnce
<1>12. CASE Commit!CheckFails
    <2>1. /\ commitWk' = [commitWk EXCEPT !.pc = "error"]
          /\ UNCHANGED <<Commit!gitVars, commitPolicy, commitRuns, op>>
        BY <1>12 DEF Commit!CheckFails
    <2>2. CommitTyped'
        BY <2>1 DEF CommitTyped, Commit!gitVars
    <2>3. PassIsOfItsCommit'
        BY <2>1 DEF CommitTyped, PassIsOfItsCommit
    <2> QED
        BY <2>1, <2>2, <2>3 DEF Commit!CommitRunsOnce
<1> QED
    BY <1>1, <1>2, <1>3, <1>4, <1>5, <1>6, <1>7, <1>8, <1>9, <1>10, <1>11, <1>12 DEF Commit!Next, Commit!ServiceStep

\* The invariant implies the component's type invariant.
LEMMA CommitTypes == ASSUME Commit!Sensible PROVE CommitInv => Commit!TriggerTypeOK
BY DEF CommitInv, CommitTyped, PassIsOfItsCommit, Commit!TriggerTypeOK, Commit!Sensible, Commit!Nothing

-----------------------------------------------------------------------------
(* Commit triggers: no change is passed unrun *)

\* The elements of a sequence.
Among(s) == {s[i] : i \in 1..Len(s)}

\* A pass that has resolved a new commit has what changed since the last one, and who asks for
\* that is still to be checked, or has its run.
WatchInv ==
    /\ commitWk.left \in Seq(Commit!Wfs)
    /\ commitWk.pc \in {"workflow", "enqueue"} /\ commitWk.policy.last \notin {commitWk.sha, Commit!Nothing} =>
          /\ commitWk.paths = Commit!Diff(commitWk.policy.last, commitWk.sha)
          /\ \A w \in Commit!Wfs : Commit!Asks(w, commitWk.policy.last, commitWk.sha) =>
                w \in Among(commitWk.left) \/ commitRuns[<<w, commitWk.sha>>] > 0

\* Nothing was pushed yet.
LEMMA InitWatch == Commit!Init => WatchInv
BY DEF Commit!Init, WatchInv

\* What is among a sequence is its head or among its tail.
LEMMA HeadAndTail ==
    ASSUME NEW S, NEW s \in Seq(S), s # <<>>
    PROVE  /\ Head(s) \in S /\ Tail(s) \in Seq(S) /\ Head(s) \in Among(s)
           /\ \A x \in Among(s) : x = Head(s) \/ x \in Among(Tail(s))
<1>1. Head(s) = s[1] /\ 1 \in 1..Len(s) /\ Tail(s) \in Seq(S) /\ Len(Tail(s)) = Len(s) - 1 /\ Len(s) \in Nat
    OBVIOUS
<1>2. \A i \in 1..Len(s) : s[i] \in S
    OBVIOUS
<1>3. ASSUME NEW i \in 1..Len(s), i # 1 PROVE s[i] \in Among(Tail(s))
    <2>1. i - 1 \in 1..Len(Tail(s))
        BY <1>1, <1>3
    <2>2. Tail(s)[i - 1] = s[i]
        BY <1>1, <1>3
    <2> QED
        BY <2>1, <2>2 DEF Among
<1> QED
    BY <1>1, <1>2, <1>3 DEF Among

\* A check drops a workflow that has its run or does not ask; git, the operator and what fails
\* disturb no pass that goes on.
LEMMA StepWatch == ASSUME Commit!Sensible PROVE CommitInv /\ WatchInv /\ [Commit!Next]_Commit!vars => WatchInv'
<1> SUFFICES ASSUME CommitInv, WatchInv, [Commit!Next]_Commit!vars PROVE WatchInv'
    OBVIOUS
<1> USE DEF CommitInv
<1>1. ASSUME UNCHANGED <<commitWk, commitRuns>> PROVE WatchInv'
    BY <1>1 DEF WatchInv
<1>2. ASSUME commitWk'.pc \notin {"workflow", "enqueue"}, commitWk'.left \in {<<>>, commitWk.left} PROVE WatchInv'
    <2>1. commitWk.left \in Seq(Commit!Wfs)
        BY DEF WatchInv
    <2>2. <<>> \in Seq(Commit!Wfs)
        OBVIOUS
    <2>3. commitWk'.left \in Seq(Commit!Wfs)
        BY ONLY <1>2, <2>1, <2>2
    <2> QED
        BY ONLY <1>2, <2>3 DEF WatchInv
<1>3. CASE \/ Commit!ListEnabledProjectCommitTriggers \/ Commit!RecordCheck \/ Commit!CrashAndRestart
           \/ Commit!CheckFails \/ Commit!EnqueueFailsLate
    <2>1. commitWk'.pc \notin {"workflow", "enqueue"} /\ commitWk'.left \in {<<>>, commitWk.left}
        <3>1. CASE Commit!ListEnabledProjectCommitTriggers \/ Commit!RecordCheck \/ Commit!CrashAndRestart
            BY <3>1 DEF Commit!ListEnabledProjectCommitTriggers, Commit!RecordCheck, Commit!CrashAndRestart, Commit!Out
        <3>2. CASE Commit!CheckFails \/ Commit!EnqueueFailsLate
            <4>1. commitWk' = [commitWk EXCEPT !.pc = "error"]
                BY <3>2 DEF Commit!CheckFails, Commit!EnqueueFailsLate
            <4> QED
                BY <4>1 DEF CommitTyped
        <3> QED
            BY <1>3, <3>1, <3>2
    <2> QED
        BY <1>2, <2>1
<1>4. CASE Commit!ResolveBranchCommit
    <2> DEFINE sha == head[commitWk.policy.ref]  last == commitWk.policy.last
    <2>1. commitWk.left = <<>>
        BY <1>4 DEF Commit!ResolveBranchCommit, Commit!At, PassIsOfItsCommit
    <2>2. CASE last \in {sha, Commit!Nothing} /\ commitWk' = [commitWk EXCEPT !.pc = "workflow", !.sha = sha]
        <3>1. commitWk'.policy = commitWk.policy /\ commitWk'.sha = sha /\ commitWk'.left = <<>>
            BY <2>1, <2>2 DEF CommitTyped
        <3> QED
            BY <2>2, <3>1 DEF WatchInv
    <2>3. CASE commitWk' = [commitWk EXCEPT !.pc = "error", !.sha = sha]
        <3>1. commitWk'.pc = "error" /\ commitWk'.left = commitWk.left
            BY <2>3 DEF CommitTyped
        <3> QED
            BY <1>2, <3>1
    <2>4. CASE commitWk' = [[commitWk EXCEPT !.pc = "workflow", !.sha = sha]
                               EXCEPT !.paths = Commit!Diff(last, sha), !.left = CommitWorkflows]
        <3>1. /\ commitWk'.policy = commitWk.policy /\ commitWk'.sha = sha
              /\ commitWk'.left = CommitWorkflows /\ commitWk'.paths = Commit!Diff(last, sha)
            BY <2>4 DEF CommitTyped
        <3>2. Among(CommitWorkflows) = Commit!Wfs /\ CommitWorkflows \in Seq(Commit!Wfs)
            BY DEF Among, Commit!Wfs, Commit!Sensible
        <3> QED
            BY <3>1, <3>2 DEF WatchInv
    <2> QED
        BY <1>4, <2>2, <2>3, <2>4 DEF Commit!ResolveBranchCommit
<1>5. CASE Commit!CheckWorkflow
    <2>1. commitWk.pc = "workflow" /\ commitWk.left # <<>> /\ UNCHANGED commitRuns
        BY <1>5 DEF Commit!CheckWorkflow, Commit!At
    <2>2. commitWk.left \in Seq(Commit!Wfs)
        BY DEF WatchInv
    <2>3. PICK h \in Commit!Wfs : h = Head(commitWk.left)
        BY <2>1, <2>2, HeadAndTail
    <2>4. CASE commitWk' = [commitWk EXCEPT !.pc = "enqueue"]
        <3>1. /\ commitWk'.pc = "enqueue" /\ commitWk'.policy = commitWk.policy /\ commitWk'.sha = commitWk.sha
              /\ commitWk'.left = commitWk.left /\ commitWk'.paths = commitWk.paths
            BY <2>4 DEF CommitTyped
        <3> QED
            BY <2>1, <3>1 DEF WatchInv
    <2>5. CASE /\ ~(Commit!Accepts(h) /\ ~Commit!CommitTriggeredRunExists(h, commitWk.sha))
               /\ commitWk' = [commitWk EXCEPT !.left = Tail(@)]
        <3>1. /\ commitWk'.policy = commitWk.policy /\ commitWk'.sha = commitWk.sha
              /\ commitWk'.left = Tail(commitWk.left) /\ commitWk'.paths = commitWk.paths
            BY <2>5 DEF CommitTyped
        <3>2. Tail(commitWk.left) \in Seq(Commit!Wfs) /\ \A w \in Among(commitWk.left) : w = h \/ w \in Among(Tail(commitWk.left))
            BY <2>1, <2>2, <2>3, HeadAndTail
        <3>3. ASSUME commitWk.policy.last \notin {commitWk.sha, Commit!Nothing},
                     Commit!Asks(h, commitWk.policy.last, commitWk.sha)
              PROVE  commitRuns[<<h, commitWk.sha>>] > 0
            <4>1. commitWk.paths = Commit!Diff(commitWk.policy.last, commitWk.sha) /\ Filter[h] \subseteq WatchedPaths
                BY <2>1, <3>3 DEF WatchInv, Commit!Sensible
            <4>2. Commit!Accepts(h)
                BY <3>3, <4>1 DEF Commit!Asks, Commit!Accepts, Commit!Diff
            <4> QED
                BY <2>5, <4>2 DEF Commit!CommitTriggeredRunExists
        <3> QED
            BY <2>1, <3>1, <3>2, <3>3 DEF WatchInv
    <2> QED
        BY <1>5, <2>3, <2>4, <2>5 DEF Commit!CheckWorkflow
<1>6. CASE Commit!EnqueueTriggered
    <2>1. commitWk.pc = "enqueue" /\ commitWk.left # <<>> /\ commitWk.sha \in Commits
        BY <1>6 DEF Commit!EnqueueTriggered, Commit!At, PassIsOfItsCommit
    <2>2. commitWk.left \in Seq(Commit!Wfs)
        BY DEF WatchInv
    <2>3. PICK h \in Commit!Wfs : h = Head(commitWk.left)
        BY <2>1, <2>2, HeadAndTail
    <2>4. CASE commitWk' = [commitWk EXCEPT !.pc = "error"]
        <3>1. commitWk'.pc = "error" /\ commitWk'.left = commitWk.left
            BY <2>4 DEF CommitTyped
        <3> QED
            BY <1>2, <3>1
    <2>5. CASE /\ commitRuns' = [commitRuns EXCEPT ![<<h, commitWk.sha>>] = @ + 1]
               /\ commitWk' = [commitWk EXCEPT !.pc = "workflow", !.left = Tail(@)]
        <3>1. /\ commitWk'.policy = commitWk.policy /\ commitWk'.sha = commitWk.sha
              /\ commitWk'.left = Tail(commitWk.left) /\ commitWk'.paths = commitWk.paths
            BY <2>5 DEF CommitTyped
        <3>2. Tail(commitWk.left) \in Seq(Commit!Wfs) /\ \A w \in Among(commitWk.left) : w = h \/ w \in Among(Tail(commitWk.left))
            BY <2>1, <2>2, <2>3, HeadAndTail
        <3>3. ASSUME NEW w \in Commit!Wfs
              PROVE  commitRuns'[<<w, commitWk.sha>>] > 0 <=> w = h \/ commitRuns[<<w, commitWk.sha>>] > 0
            <4>1. commitRuns[<<w, commitWk.sha>>] \in Nat
                BY <2>1 DEF CommitTyped
            <4>2. commitRuns'[<<w, commitWk.sha>>] =
                      IF w = h THEN commitRuns[<<w, commitWk.sha>>] + 1 ELSE commitRuns[<<w, commitWk.sha>>]
                BY <2>1, <2>5 DEF CommitTyped
            <4> QED
                BY <4>1, <4>2
        <3> QED
            BY <2>1, <3>1, <3>2, <3>3 DEF WatchInv
    <2> QED
        BY <1>6, <2>3, <2>4, <2>5 DEF Commit!EnqueueTriggered
<1>7. CASE \E b \in Branches : Commit!ReadBaseline(b) \/ \E c \in Commits : Commit!Commit(b, c) \/ Commit!ForcePush(b, c)
    BY <1>1, <1>7 DEF Commit!ReadBaseline, Commit!Commit, Commit!ForcePush
<1>8. CASE \E on \in BOOLEAN : Commit!UpsertProjectCommitTrigger(on)
    BY <1>1, <1>8 DEF Commit!UpsertProjectCommitTrigger
<1>9. CASE UNCHANGED Commit!vars
    BY <1>1, <1>9 DEF Commit!vars
<1> QED
    BY <1>3, <1>4, <1>5, <1>6, <1>7, <1>8, <1>9 DEF Commit!Next, Commit!ServiceStep

\* Only the end of a check and the operator record a commit, and a check that went through has
\* no workflow left.
LEMMA RecordedIsRun == CommitInv /\ WatchInv /\ [Commit!Next]_Commit!vars => Commit!NoChangePassedUnrun
<1> SUFFICES ASSUME CommitInv, WatchInv, [Commit!Next]_Commit!vars, commitWk' # commitWk,
                    commitWk.policy = commitPolicy, Commit!Nothing # commitPolicy.last,
                    commitPolicy'.last # commitPolicy.last,
                    NEW w \in Commit!Wfs, Commit!Asks(w, commitPolicy.last, commitPolicy'.last)
             PROVE  commitRuns[<<w, commitPolicy'.last>>] > 0
    BY DEF Commit!NoChangePassedUnrun
<1>1. Commit!RecordCheck
    BY DEF Commit!Next, Commit!ServiceStep, Commit!ListEnabledProjectCommitTriggers, Commit!ResolveBranchCommit,
       Commit!CheckWorkflow, Commit!EnqueueTriggered, Commit!EnqueueFailsLate, Commit!CheckFails, Commit!CrashAndRestart,
       Commit!ReadBaseline, Commit!Commit, Commit!ForcePush, Commit!UpsertProjectCommitTrigger, Commit!vars
<1>2. commitPolicy'.last = Commit!Observed
    BY <1>1 DEF Commit!RecordCheck, CommitInv, CommitTyped
<1>3. commitWk.pc = "workflow" /\ commitWk.left = <<>> /\ commitPolicy'.last = commitWk.sha
    BY <1>1, <1>2 DEF Commit!RecordCheck, Commit!Observed, Commit!At
<1>4. w \notin Among(commitWk.left)
    BY <1>3 DEF Among
<1> QED
    BY <1>3, <1>4 DEF WatchInv

-----------------------------------------------------------------------------
(* Workflows that follow others: types, and chains that end *)

\* What runs and passes may hold.
DispatchPcs == {"idle", "dispatch", "target", "enqueue", "supersede", "execute", "dead"}
RunStatus == Dispatch!Terminal \cup {"absent", "queued", "running"}
DispatchPass ==
    [pc : DispatchPcs, todo : SUBSET Dispatch!Runs, source : Dispatch!Runs \cup {<<>>},
     left : SUBSET DispatchWorkflows, run : Dispatch!Runs \cup {<<>>}]

\* A run has an outbox exactly when it has ended.
DispatchRowsTyped ==
    /\ dispatchRun \in [Dispatch!Runs -> RunStatus]
    /\ dispatch \in [Dispatch!Runs -> {"none", "pending", "done"}]
    /\ \A c \in Dispatch!Runs : dispatch[c] # "none" <=> dispatchRun[c] \in Dispatch!Terminal

\* What a worker has in hand: outboxes that were written, a source and its
\* targets, a run to enqueue, to supersede for, or to execute.
Fits(p) ==
    /\ \A c \in p.todo : dispatch[c] # "none"
    /\ p.pc \in {"target", "enqueue", "supersede"} =>
          /\ p.source \in Dispatch!Runs /\ ~Dispatch!TooDeep(p.source) /\ dispatch[p.source] # "none"
          /\ p.left \subseteq Targets[Dispatch!Last(p.source)]
    /\ p.pc = "enqueue" => \E t \in p.left : p.run = Append(p.source, t)
    /\ p.pc = "supersede" => p.run \in Dispatch!Runs
    /\ p.pc = "execute" => p.run \in Dispatch!Runs /\ dispatchRun[p.run] # "absent"

DispatchPassTyped ==
    /\ dispatchWk \in [Workers -> DispatchPass]
    /\ \A w \in Workers : Fits(dispatchWk[w])

DispatchInv == DispatchRowsTyped /\ DispatchPassTyped /\ Dispatch!ChainsEnd

\* A run is a path of the graph of workflows, from a root.
LEMMA RunFacts ==
    ASSUME Dispatch!Sensible, NEW c \in Dispatch!Runs
    PROVE  /\ c \in Seq(DispatchWorkflows) /\ Len(c) \in 1..(MaxDepth + 2)
           /\ Dispatch!Last(c) \in DispatchWorkflows /\ Dispatch!Last(c) = c[Len(c)] /\ c[1] \in Roots
           /\ \A i \in 1..(Len(c) - 1) : c[i + 1] \in Targets[c[i]]
<1>1. PICK n \in 1..(MaxDepth + 2) : c \in [1..n -> DispatchWorkflows]
    BY DEF Dispatch!Runs
<1>2. c \in Seq(DispatchWorkflows) /\ Len(c) = n
    BY <1>1 DEF Dispatch!Sensible
<1>3. c[1] \in Roots /\ \A i \in 1..(Len(c) - 1) : c[i + 1] \in Targets[c[i]]
    BY DEF Dispatch!Runs
<1>4. Dispatch!Last(c) = c[Len(c)]
    BY DEF Dispatch!Last
<1> QED
    BY <1>1, <1>2, <1>3, <1>4 DEF Dispatch!Sensible

\* A run that is not too deep has a run for each of its targets.
LEMMA ChildIsRun ==
    ASSUME Dispatch!Sensible, NEW c \in Dispatch!Runs, ~Dispatch!TooDeep(c), NEW t \in Targets[Dispatch!Last(c)]
    PROVE  /\ Append(c, t) \in Dispatch!Runs
           /\ Dispatch!Depth(Append(c, t)) <= MaxDepth
           /\ Dispatch!Last(Append(c, t)) = t
<1> DEFINE n == Len(c)  d == Append(c, t)
<1>1. /\ c \in Seq(DispatchWorkflows) /\ n \in 1..(MaxDepth + 2) /\ Dispatch!Last(c) \in DispatchWorkflows /\ Dispatch!Last(c) = c[n] /\ c[1] \in Roots
      /\ \A i \in 1..(n - 1) : c[i + 1] \in Targets[c[i]]
    BY RunFacts
<1>2. n - 1 < MaxDepth /\ n \in Nat /\ MaxDepth \in Nat
    BY <1>1 DEF Dispatch!TooDeep, Dispatch!Depth, Dispatch!Sensible
<1>3. t \in DispatchWorkflows
    BY <1>1 DEF Dispatch!Sensible
<1>4. d \in Seq(DispatchWorkflows) /\ Len(d) = n + 1 /\ d[n + 1] = t /\ \A i \in 1..n : d[i] = c[i]
    BY <1>1, <1>3
<1>5. n + 1 \in 1..(MaxDepth + 2)
    BY <1>2
<1>6. d \in [1..(n + 1) -> DispatchWorkflows]
    <2>1. d \in [1..Len(d) -> DispatchWorkflows]
        BY <1>4, LenProperties
    <2> QED
        BY <1>4, <2>1
<1>7. d[1] \in Roots
    BY <1>1, <1>4
<1>8. ASSUME NEW i \in 1..(Len(d) - 1) PROVE d[i + 1] \in Targets[d[i]]
    <2>1. i \in 1..n
        BY <1>2, <1>4
    <2>2. CASE i = n
        BY <1>1, <1>4, <2>1, <2>2
    <2>3. CASE i # n
        <3>1. i \in 1..(n - 1) /\ i + 1 \in 1..n
            BY <1>2, <2>1, <2>3
        <3> QED
            BY <1>1, <1>4, <2>1, <3>1
    <2> QED
        BY <2>2, <2>3
<1> HIDE DEF n, d
<1>9. d \in Dispatch!Runs
    BY <1>5, <1>6, <1>7, <1>8 DEF Dispatch!Runs
<1>10. Dispatch!Depth(d) <= MaxDepth /\ Dispatch!Last(d) = t
    BY <1>2, <1>4 DEF Dispatch!Depth, Dispatch!Last
<1> QED
    BY <1>9, <1>10 DEF d

\* Nothing was started yet.
LEMMA InitDispatch == ASSUME Dispatch!Sensible PROVE Dispatch!Init => DispatchInv
BY DEF Dispatch!Init, DispatchInv, DispatchRowsTyped, DispatchPassTyped, Fits, Dispatch!ChainsEnd, DispatchPass, DispatchPcs, RunStatus, Dispatch!Out, Dispatch!Terminal

\* Rows that only go on.
RowsGo ==
    /\ \A c \in Dispatch!Runs : dispatch[c] # "none" => dispatch'[c] # "none"
    /\ \A c \in Dispatch!Runs : dispatchRun[c] # "absent" => dispatchRun'[c] # "absent"

\* Nobody moves,
LEMMA RowsChange ==
    ASSUME DispatchPassTyped, UNCHANGED dispatchWk, RowsGo
    PROVE  DispatchPassTyped'
BY DEF DispatchPassTyped, Fits, DispatchPass, RowsGo

\* one moves,
LEMMA OneMoves ==
    ASSUME DispatchPassTyped, RowsGo, NEW w \in Workers, dispatchWk' \in [Workers -> DispatchPass], Fits(dispatchWk[w])',
           \A v \in Workers : v # w => dispatchWk'[v] = dispatchWk[v]
    PROVE  DispatchPassTyped'
<1>1. ASSUME NEW v \in Workers, v # w PROVE Fits(dispatchWk[v])'
    <2>1. dispatchWk'[v] = dispatchWk[v] /\ Fits(dispatchWk[v]) /\ dispatchWk[v] \in DispatchPass
        BY <1>1 DEF DispatchPassTyped
    <2> QED
        BY <2>1 DEF Fits, RowsGo, DispatchPass
<1> QED
    BY <1>1 DEF DispatchPassTyped

\* or one leaves.
LEMMA PassEnds ==
    ASSUME DispatchPassTyped, RowsGo, NEW w \in Workers, NEW l \in {"idle", "dead"}, Dispatch!Leave(w, l)
    PROVE  DispatchPassTyped'
<1>1. dispatchWk'[w] = Dispatch!Out(l) /\ dispatchWk' \in [Workers -> DispatchPass] /\ \A v \in Workers : v # w => dispatchWk'[v] = dispatchWk[v]
    BY DEF DispatchPassTyped, Dispatch!Leave, Dispatch!Out, DispatchPass, DispatchPcs
<1>2. Fits(dispatchWk[w])'
    BY <1>1 DEF Fits, Dispatch!Out
<1> QED
    BY <1>1, <1>2, OneMoves

\* The trigger keeps the rows as they should be, if ended runs stay ended.
LEMMA StatusIsAnnounced ==
    ASSUME DispatchRowsTyped, NEW f \in [Dispatch!Runs -> RunStatus], Dispatch!SetStatus(f),
           \A c \in Dispatch!Runs : dispatchRun[c] \in Dispatch!Terminal => f[c] \in Dispatch!Terminal,
           \A c \in Dispatch!Runs : dispatchRun[c] # "absent" => f[c] # "absent"
    PROVE  /\ DispatchRowsTyped' /\ dispatchRun' = f /\ RowsGo
           /\ \A c \in Dispatch!Runs : dispatch'[c] = "done" <=> dispatch[c] = "done"
BY DEF DispatchRowsTyped, Dispatch!SetStatus, RunStatus, Dispatch!Terminal, RowsGo

\* A person, a worker's pass or its death keeps the invariant.
LEMMA StepDispatch == ASSUME Dispatch!Sensible PROVE DispatchInv /\ [Dispatch!Next]_Dispatch!vars => DispatchInv'
<1> SUFFICES ASSUME DispatchInv, [Dispatch!Next]_Dispatch!vars PROVE DispatchInv'
    OBVIOUS
<1> USE DEF DispatchInv
<1>1. ASSUME NEW c \in Dispatch!Runs, Dispatch!Start(c) PROVE DispatchInv'
    <2> DEFINE f == [dispatchRun EXCEPT ![c] = "queued"]
    <2>1. Dispatch!SetStatus(f) /\ dispatchRun[c] = "absent" /\ Dispatch!Depth(c) = 0 /\ UNCHANGED dispatchWk
        BY <1>1 DEF Dispatch!Start
    <2>2. f \in [Dispatch!Runs -> RunStatus] /\ \A d \in Dispatch!Runs : dispatchRun[d] \in Dispatch!Terminal => f[d] \in Dispatch!Terminal
        BY <2>1 DEF DispatchRowsTyped, RunStatus, Dispatch!Terminal
    <2>3. \A d \in Dispatch!Runs : (dispatchRun[d] # "absent" => f[d] # "absent") /\ (d # c => f[d] = dispatchRun[d])
        BY <2>1 DEF DispatchRowsTyped
    <2> HIDE DEF f
    <2>4. DispatchRowsTyped' /\ DispatchPassTyped' /\ dispatchRun' = f
        BY <2>1, <2>2, <2>3, StatusIsAnnounced, RowsChange
    <2>5. \A d \in Dispatch!Runs : Dispatch!Depth(d) > MaxDepth => d # c
        BY <2>1 DEF Dispatch!Sensible
    <2>6. Dispatch!ChainsEnd'
        BY <2>3, <2>4, <2>5 DEF Dispatch!ChainsEnd
    <2> QED
        BY <2>4, <2>6
<1>2. ASSUME NEW t \in DispatchWorkflows, Dispatch!SyncProject(t) PROVE DispatchInv'
    BY <1>2, RowsChange DEF Dispatch!SyncProject, DispatchRowsTyped, Dispatch!ChainsEnd, RowsGo
<1>3. ASSUME NEW w \in Workers, Dispatch!ListPendingWorkflowRunDispatches(w) PROVE DispatchInv'
    <2> DEFINE T == {c \in Dispatch!Runs : dispatch[c] = "pending"}
    <2>1. dispatchWk' = [dispatchWk EXCEPT ![w].pc = "dispatch", ![w].todo = T] /\ UNCHANGED <<dispatchRun, dispatch>>
        BY <1>3 DEF Dispatch!ListPendingWorkflowRunDispatches
    <2>2. T \in SUBSET Dispatch!Runs /\ \A c \in T : dispatch'[c] # "none"
        BY <2>1
    <2> HIDE DEF T
    <2>3. /\ dispatchWk' \in [Workers -> DispatchPass] /\ dispatchWk'[w].pc = "dispatch" /\ dispatchWk'[w].todo = T
          /\ \A v \in Workers : v # w => dispatchWk'[v] = dispatchWk[v]
        BY <2>1, <2>2 DEF DispatchPassTyped, DispatchPass, DispatchPcs
    <2>4. Fits(dispatchWk[w])'
        BY <2>2, <2>3 DEF Fits
    <2> QED
        BY <2>1, <2>3, <2>4, OneMoves DEF DispatchRowsTyped, Dispatch!ChainsEnd, RowsGo
<1>4. ASSUME NEW w \in Workers, Dispatch!LoadSource(w) PROVE DispatchInv'
    <2>1. PICK c \in dispatchWk[w].todo :
             \/ /\ dispatch' = [dispatch EXCEPT ![c] = "done"]
                /\ dispatchWk' = [dispatchWk EXCEPT ![w].todo = @ \ {c}]
             \/ /\ ~Dispatch!TooDeep(c) /\ dispatch' = dispatch
                /\ dispatchWk' = [dispatchWk EXCEPT ![w].pc = "target", ![w].source = c, ![w].left = Dispatch!Chosen(c)]
        BY <1>4 DEF Dispatch!LoadSource
    <2>2. /\ c \in Dispatch!Runs /\ dispatchRun' = dispatchRun /\ dispatchWk[w].pc = "dispatch" /\ dispatchWk[w].todo \subseteq Dispatch!Runs
          /\ dispatch[c] # "none" /\ \A d \in dispatchWk[w].todo : dispatch[d] # "none"
        BY <1>4 DEF DispatchPassTyped, DispatchPass, Dispatch!LoadSource, Dispatch!At, Fits
    <2>3. DispatchRowsTyped' /\ RowsGo
        BY <2>1, <2>2 DEF DispatchRowsTyped, RowsGo
    <2>4. CASE dispatchWk' = [dispatchWk EXCEPT ![w].todo = @ \ {c}]
        <3>1. /\ dispatchWk' \in [Workers -> DispatchPass] /\ dispatchWk'[w].pc = "dispatch" /\ dispatchWk'[w].todo \subseteq dispatchWk[w].todo
              /\ \A v \in Workers : v # w => dispatchWk'[v] = dispatchWk[v]
            BY <2>2, <2>4 DEF DispatchPassTyped, DispatchPass
        <3>2. Fits(dispatchWk[w])'
            BY <2>2, <2>3, <3>1 DEF Fits, RowsGo
        <3> QED
            BY <2>2, <2>3, <3>1, <3>2, OneMoves DEF Dispatch!ChainsEnd
    <2>5. CASE ~Dispatch!TooDeep(c) /\ dispatchWk' = [dispatchWk EXCEPT ![w].pc = "target", ![w].source = c, ![w].left = Dispatch!Chosen(c)]
        <3> DEFINE T == Dispatch!Chosen(c)
        <3>1. T \subseteq Targets[Dispatch!Last(c)] /\ T \subseteq DispatchWorkflows
            BY <2>2, RunFacts DEF Dispatch!Chosen, Dispatch!Sensible
        <3> HIDE DEF T
        <3>2. /\ dispatchWk' \in [Workers -> DispatchPass] /\ dispatchWk'[w].pc = "target" /\ dispatchWk'[w].todo = dispatchWk[w].todo
              /\ dispatchWk'[w].source = c /\ dispatchWk'[w].left = T
              /\ \A v \in Workers : v # w => dispatchWk'[v] = dispatchWk[v]
            BY <2>2, <2>5, <3>1 DEF DispatchPassTyped, DispatchPass, DispatchPcs, T
        <3>3. Fits(dispatchWk[w])'
            BY <2>2, <2>3, <2>5, <3>1, <3>2 DEF Fits, RowsGo
        <3> QED
            BY <2>2, <2>3, <3>2, <3>3, OneMoves DEF Dispatch!ChainsEnd
    <2> QED
        BY <2>1, <2>4, <2>5
<1>5. ASSUME NEW w \in Workers, Dispatch!LookUpTarget(w) PROVE DispatchInv'
    <2>1. dispatchWk[w].pc = "target" /\ UNCHANGED <<dispatchRun, dispatch>> /\ dispatchWk[w].todo \subseteq Dispatch!Runs /\ Fits(dispatchWk[w]) /\ RowsGo
        BY <1>5 DEF Dispatch!LookUpTarget, Dispatch!At, DispatchPassTyped, DispatchPass, RowsGo
    <2>2. PICK t \in dispatchWk[w].left : \/ dispatchWk' = [dispatchWk EXCEPT ![w].left = @ \ {t}]
                                  \/ Dispatch!Leave(w, "dead")
                                  \/ dispatchWk' = [dispatchWk EXCEPT ![w].pc = "enqueue", ![w].run = Dispatch!Child(w, t)]
        BY <1>5 DEF Dispatch!LookUpTarget
    <2>3. Dispatch!Child(w, t) = Append(dispatchWk[w].source, t) /\ Dispatch!Child(w, t) \in Dispatch!Runs
        BY <2>1, ChildIsRun DEF Fits, Dispatch!Child
    <2>4. CASE dispatchWk' = [dispatchWk EXCEPT ![w].left = @ \ {t}]
        <3>1. /\ dispatchWk' \in [Workers -> DispatchPass] /\ dispatchWk'[w].pc = "target" /\ dispatchWk'[w].todo = dispatchWk[w].todo
              /\ dispatchWk'[w].source = dispatchWk[w].source /\ dispatchWk'[w].left \subseteq dispatchWk[w].left
              /\ \A v \in Workers : v # w => dispatchWk'[v] = dispatchWk[v]
            BY <2>1, <2>4 DEF DispatchPassTyped, DispatchPass
        <3>2. Fits(dispatchWk[w])'
            BY <2>1, <3>1 DEF Fits
        <3> QED
            BY <2>1, <3>1, <3>2, OneMoves DEF DispatchRowsTyped, Dispatch!ChainsEnd
    <2>5. CASE Dispatch!Leave(w, "dead")
        BY <2>1, <2>5, PassEnds DEF DispatchRowsTyped, Dispatch!ChainsEnd
    <2>6. CASE dispatchWk' = [dispatchWk EXCEPT ![w].pc = "enqueue", ![w].run = Dispatch!Child(w, t)]
        <3> DEFINE d == Dispatch!Child(w, t)
        <3>1. d \in Dispatch!Runs /\ d = Append(dispatchWk[w].source, t)
            BY <2>3
        <3>2. dispatchWk' = [dispatchWk EXCEPT ![w].pc = "enqueue", ![w].run = d]
            BY <2>6
        <3> HIDE DEF d
        <3>3. /\ dispatchWk' \in [Workers -> DispatchPass] /\ dispatchWk'[w].pc = "enqueue" /\ dispatchWk'[w].todo = dispatchWk[w].todo
              /\ dispatchWk'[w].source = dispatchWk[w].source /\ dispatchWk'[w].left = dispatchWk[w].left /\ dispatchWk'[w].run = d
              /\ \A v \in Workers : v # w => dispatchWk'[v] = dispatchWk[v]
            BY <3>1, <3>2 DEF DispatchPassTyped, DispatchPass, DispatchPcs
        <3>4. Fits(dispatchWk[w])'
            BY <2>1, <2>2, <3>1, <3>3 DEF Fits
        <3> QED
            BY <2>1, <3>3, <3>4, OneMoves DEF DispatchRowsTyped, Dispatch!ChainsEnd
    <2> QED
        BY <2>2, <2>4, <2>5, <2>6
<1>6. ASSUME NEW w \in Workers, Dispatch!EnqueueTarget(w) PROVE DispatchInv'
    <2>1. dispatchWk[w].pc = "enqueue" /\ active' = active /\ Fits(dispatchWk[w]) /\ dispatchWk[w].todo \subseteq Dispatch!Runs
        BY <1>6 DEF Dispatch!EnqueueTarget, Dispatch!At, DispatchPassTyped, DispatchPass
    <2>2. PICK t \in dispatchWk[w].left : dispatchWk[w].run = Append(dispatchWk[w].source, t)
        BY <2>1 DEF Fits
    <2> DEFINE c == dispatchWk[w].run
    <2>3. c \in Dispatch!Runs /\ Dispatch!Last(c) = t /\ Dispatch!Depth(c) <= MaxDepth
        BY <2>1, <2>2, ChildIsRun DEF Fits
    <2>4. \/ dispatchWk' = [dispatchWk EXCEPT ![w].pc = "target", ![w].left = @ \ {t}] /\ UNCHANGED <<dispatchRun, dispatch>>
          \/ Dispatch!Leave(w, "dead") /\ UNCHANGED <<dispatchRun, dispatch>>
          \/ \E l \in {"target", "supersede"} :
                /\ dispatchWk' = [dispatchWk EXCEPT ![w].pc = l, ![w].left = @ \ {t}]
                /\ dispatchRun[c] = "absent" /\ Dispatch!SetStatus([dispatchRun EXCEPT ![c] = "queued"])
        BY <1>6, <2>3 DEF Dispatch!EnqueueTarget
    <2> HIDE DEF c
    <2>5. ASSUME NEW l \in {"target", "supersede"}, dispatchWk' = [dispatchWk EXCEPT ![w].pc = l, ![w].left = @ \ {t}], RowsGo
          PROVE  DispatchPassTyped'
        <3>1. /\ dispatchWk' \in [Workers -> DispatchPass] /\ dispatchWk'[w].pc = l /\ dispatchWk'[w].todo = dispatchWk[w].todo
              /\ dispatchWk'[w].source = dispatchWk[w].source /\ dispatchWk'[w].left \subseteq dispatchWk[w].left /\ dispatchWk'[w].run = c
              /\ \A v \in Workers : v # w => dispatchWk'[v] = dispatchWk[v]
            BY <2>1, <2>5 DEF DispatchPassTyped, DispatchPass, DispatchPcs, c
        <3>2. Fits(dispatchWk[w])'
            BY <2>1, <2>3, <2>5, <3>1 DEF Fits, RowsGo
        <3> QED
            BY <2>5, <3>1, <3>2, OneMoves
    <2>6. CASE dispatchWk' = [dispatchWk EXCEPT ![w].pc = "target", ![w].left = @ \ {t}] /\ UNCHANGED <<dispatchRun, dispatch>>
        <3>1. RowsGo
            BY <2>6 DEF RowsGo
        <3> QED
            BY <2>5, <2>6, <3>1 DEF DispatchRowsTyped, Dispatch!ChainsEnd
    <2>7. CASE Dispatch!Leave(w, "dead") /\ UNCHANGED <<dispatchRun, dispatch>>
        BY <2>7, PassEnds DEF DispatchRowsTyped, Dispatch!ChainsEnd, RowsGo
    <2>8. ASSUME NEW l \in {"target", "supersede"}, dispatchWk' = [dispatchWk EXCEPT ![w].pc = l, ![w].left = @ \ {t}],
                 dispatchRun[c] = "absent", Dispatch!SetStatus([dispatchRun EXCEPT ![c] = "queued"])
          PROVE  DispatchInv'
        <3> DEFINE f == [dispatchRun EXCEPT ![c] = "queued"]
        <3>1. f \in [Dispatch!Runs -> RunStatus] /\ \A d \in Dispatch!Runs : dispatchRun[d] \in Dispatch!Terminal => f[d] \in Dispatch!Terminal
            BY <2>3, <2>8 DEF DispatchRowsTyped, RunStatus, Dispatch!Terminal
        <3>2. \A d \in Dispatch!Runs : (dispatchRun[d] # "absent" => f[d] # "absent") /\ (d # c => f[d] = dispatchRun[d])
            BY <2>3, <2>8 DEF DispatchRowsTyped
        <3>3. Dispatch!SetStatus(f)
            BY <2>8
        <3> HIDE DEF f
        <3>4. DispatchRowsTyped' /\ dispatchRun' = f /\ RowsGo
            BY <3>1, <3>2, <3>3, StatusIsAnnounced
        <3>5. DispatchPassTyped'
            BY <2>5, <2>8, <3>4
        <3>6. \A d \in Dispatch!Runs : Dispatch!Depth(d) > MaxDepth => d # c
            BY <2>3, RunFacts DEF Dispatch!Depth, Dispatch!Sensible
        <3>7. Dispatch!ChainsEnd'
            BY <3>2, <3>4, <3>6 DEF Dispatch!ChainsEnd
        <3> QED
            BY <3>4, <3>5, <3>7
    <2> QED
        BY <2>4, <2>6, <2>7, <2>8
<1>7. ASSUME NEW w \in Workers, Dispatch!CancelSuperseded(w) PROVE DispatchInv'
    <2> DEFINE r == dispatchWk[w].run  f == [c \in Dispatch!Runs |-> IF c \in Dispatch!Superseded(r) THEN "cancelled" ELSE dispatchRun[c]]
    <2>1. dispatchWk[w].pc = "supersede" /\ dispatchWk' = [dispatchWk EXCEPT ![w].pc = "target"] /\ Dispatch!SetStatus(f) /\ Fits(dispatchWk[w])
        BY <1>7 DEF Dispatch!CancelSuperseded, Dispatch!At, DispatchPassTyped
    <2>2. f \in [Dispatch!Runs -> RunStatus] /\ \A d \in Dispatch!Runs : dispatchRun[d] \in Dispatch!Terminal => f[d] \in Dispatch!Terminal
        BY DEF DispatchRowsTyped, RunStatus, Dispatch!Terminal
    <2>3. \A d \in Dispatch!Runs : dispatchRun[d] = "absent" <=> f[d] = "absent"
        BY DEF Dispatch!Superseded
    <2> HIDE DEF f
    <2>4. DispatchRowsTyped' /\ dispatchRun' = f /\ RowsGo
        BY <2>1, <2>2, <2>3, StatusIsAnnounced
    <2>5. /\ dispatchWk' \in [Workers -> DispatchPass] /\ dispatchWk'[w].pc = "target" /\ dispatchWk'[w].todo = dispatchWk[w].todo /\ dispatchWk[w].todo \subseteq Dispatch!Runs
          /\ dispatchWk'[w].source = dispatchWk[w].source /\ dispatchWk'[w].left = dispatchWk[w].left
          /\ \A v \in Workers : v # w => dispatchWk'[v] = dispatchWk[v]
        BY <2>1 DEF DispatchPassTyped, DispatchPass, DispatchPcs
    <2>6. Fits(dispatchWk[w])'
        BY <2>1, <2>4, <2>5 DEF Fits, RowsGo
    <2> QED
        BY <2>3, <2>4, <2>5, <2>6, OneMoves DEF Dispatch!ChainsEnd
<1>8. ASSUME NEW w \in Workers, Dispatch!MarkWorkflowRunDispatched(w) PROVE DispatchInv'
    <2> DEFINE c == dispatchWk[w].source
    <2>1. /\ dispatchWk[w].pc = "target" /\ dispatch' = [dispatch EXCEPT ![c] = "done"] /\ dispatchRun' = dispatchRun
          /\ dispatchWk' = [dispatchWk EXCEPT ![w].pc = "dispatch", ![w].todo = @ \ {c}] /\ Fits(dispatchWk[w])
        BY <1>8 DEF Dispatch!MarkWorkflowRunDispatched, Dispatch!At, DispatchPassTyped
    <2>2. c \in Dispatch!Runs /\ dispatch[c] # "none"
        BY <2>1 DEF Fits
    <2> HIDE DEF c
    <2>3. DispatchRowsTyped' /\ RowsGo
        BY <2>1, <2>2 DEF DispatchRowsTyped, RowsGo
    <2>4. /\ dispatchWk' \in [Workers -> DispatchPass] /\ dispatchWk'[w].pc = "dispatch" /\ dispatchWk'[w].todo \subseteq dispatchWk[w].todo /\ dispatchWk[w].todo \subseteq Dispatch!Runs
          /\ \A v \in Workers : v # w => dispatchWk'[v] = dispatchWk[v]
        BY <2>1 DEF DispatchPassTyped, DispatchPass, DispatchPcs
    <2>5. Fits(dispatchWk[w])'
        BY <2>1, <2>3, <2>4 DEF Fits, RowsGo
    <2> QED
        BY <2>1, <2>3, <2>4, <2>5, OneMoves DEF Dispatch!ChainsEnd
<1>9. ASSUME NEW w \in Workers, Dispatch!ClaimNextQueuedRun(w) PROVE DispatchInv'
    <2>1. CASE Dispatch!Leave(w, "idle") /\ UNCHANGED <<dispatchRun, dispatch>>
        BY <2>1, PassEnds DEF DispatchRowsTyped, Dispatch!ChainsEnd, RowsGo
    <2>2. ASSUME NEW c \in Dispatch!Runs, dispatchRun[c] = "queued", Dispatch!SetStatus([dispatchRun EXCEPT ![c] = "running"]),
                 dispatchWk' = [dispatchWk EXCEPT ![w] = [Dispatch!Out("execute") EXCEPT !.run = c]]
          PROVE  DispatchInv'
        <3> DEFINE f == [dispatchRun EXCEPT ![c] = "running"]
        <3>1. f \in [Dispatch!Runs -> RunStatus] /\ \A d \in Dispatch!Runs : dispatchRun[d] \in Dispatch!Terminal => f[d] \in Dispatch!Terminal
            BY <2>2 DEF DispatchRowsTyped, RunStatus, Dispatch!Terminal
        <3>2. \A d \in Dispatch!Runs : dispatchRun[d] = "absent" <=> f[d] = "absent"
            BY <2>2 DEF DispatchRowsTyped
        <3>3. Dispatch!SetStatus(f)
            BY <2>2
        <3> HIDE DEF f
        <3>4. DispatchRowsTyped' /\ dispatchRun' = f /\ RowsGo
            BY <3>1, <3>2, <3>3, StatusIsAnnounced
        <3>5. /\ dispatchWk' \in [Workers -> DispatchPass] /\ dispatchWk'[w].pc = "execute" /\ dispatchWk'[w].todo = {} /\ dispatchWk'[w].run = c
              /\ \A v \in Workers : v # w => dispatchWk'[v] = dispatchWk[v]
            BY <2>2 DEF DispatchPassTyped, DispatchPass, DispatchPcs, Dispatch!Out
        <3>6. Fits(dispatchWk[w])'
            BY <2>2, <3>2, <3>4, <3>5 DEF Fits
        <3> QED
            BY <3>2, <3>4, <3>5, <3>6, OneMoves DEF Dispatch!ChainsEnd
    <2> QED
        BY <1>9, <2>1, <2>2 DEF Dispatch!ClaimNextQueuedRun
<1>10. ASSUME NEW w \in Workers, Dispatch!FinishRun(w) PROVE DispatchInv'
    <2> DEFINE c == dispatchWk[w].run  f == [dispatchRun EXCEPT ![c] = "finished"]
    <2>1. dispatchWk[w].pc = "execute" /\ Dispatch!SetStatus(f) /\ Dispatch!Leave(w, "idle")
        BY <1>10 DEF Dispatch!FinishRun, Dispatch!At
    <2>2. c \in Dispatch!Runs /\ dispatchRun[c] # "absent"
        BY <2>1 DEF DispatchPassTyped, Fits
    <2>3. f \in [Dispatch!Runs -> RunStatus] /\ \A d \in Dispatch!Runs : dispatchRun[d] \in Dispatch!Terminal => f[d] \in Dispatch!Terminal
        BY <2>2 DEF DispatchRowsTyped, RunStatus, Dispatch!Terminal
    <2>4. \A d \in Dispatch!Runs : dispatchRun[d] = "absent" <=> f[d] = "absent"
        BY <2>2 DEF DispatchRowsTyped
    <2> HIDE DEF f
    <2>5. DispatchRowsTyped' /\ dispatchRun' = f /\ RowsGo
        BY <2>1, <2>3, <2>4, StatusIsAnnounced
    <2> QED
        BY <2>1, <2>4, <2>5, PassEnds DEF Dispatch!ChainsEnd
<1>11. ASSUME NEW c \in Dispatch!Runs, Dispatch!RecoverRun(c) PROVE DispatchInv'
    <2>1. PICK s \in {"queued", "finished"} : Dispatch!SetStatus([dispatchRun EXCEPT ![c] = s]) /\ UNCHANGED dispatchWk /\ dispatchRun[c] = "running"
        BY <1>11 DEF Dispatch!RecoverRun
    <2> DEFINE f == [dispatchRun EXCEPT ![c] = s]
    <2>2. f \in [Dispatch!Runs -> RunStatus] /\ \A d \in Dispatch!Runs : dispatchRun[d] \in Dispatch!Terminal => f[d] \in Dispatch!Terminal
        BY <2>1 DEF DispatchRowsTyped, RunStatus, Dispatch!Terminal
    <2>3. \A d \in Dispatch!Runs : dispatchRun[d] = "absent" <=> f[d] = "absent"
        BY <2>1 DEF DispatchRowsTyped
    <2>4. Dispatch!SetStatus(f)
        BY <2>1
    <2> HIDE DEF f
    <2>5. DispatchRowsTyped' /\ dispatchRun' = f /\ RowsGo
        BY <2>2, <2>3, <2>4, StatusIsAnnounced
    <2> QED
        BY <2>1, <2>3, <2>5, RowsChange DEF Dispatch!ChainsEnd
<1>12. ASSUME NEW w \in Workers, Dispatch!Crash(w) \/ Dispatch!Restart(w) PROVE DispatchInv'
    <2>1. UNCHANGED <<dispatchRun, dispatch>> /\ (Dispatch!Leave(w, "dead") \/ Dispatch!Leave(w, "idle"))
        BY <1>12 DEF Dispatch!Crash, Dispatch!Restart
    <2>2. RowsGo
        BY <2>1 DEF RowsGo
    <2> QED
        BY <2>1, <2>2, PassEnds DEF DispatchRowsTyped, Dispatch!ChainsEnd
<1>13. CASE UNCHANGED Dispatch!vars
    BY <1>13, RowsChange DEF Dispatch!vars, DispatchRowsTyped, Dispatch!ChainsEnd, RowsGo
<1> QED
    BY <1>1, <1>2, <1>3, <1>4, <1>5, <1>6, <1>7, <1>8, <1>9, <1>10, <1>11, <1>12, <1>13 DEF Dispatch!Next, Dispatch!WorkerStep

\* The invariant implies the component's type invariant.
LEMMA DispatchTypes == DispatchRowsTyped => Dispatch!DispatchTypeOK
BY DEF DispatchRowsTyped, Dispatch!DispatchTypeOK, RunStatus

-----------------------------------------------------------------------------
(* Workflows that follow others: one pending run of a group *)

\* Nothing is queued.
LEMMA InitPending == Dispatch!Init => Dispatch!OnePendingPerGroup
BY DEF Dispatch!Init, Dispatch!OnePendingPerGroup

\* Steps that queue no dispatched run of a group but a stray one, and after which who supersedes
\* still does, or its run is stray.
LEMMA NothingQueued ==
    ASSUME Dispatch!OnePendingPerGroup, dispatchStray \subseteq dispatchStray',
           \A c \in Dispatch!Runs : dispatchRun'[c] = "queued" =>
               \/ dispatchRun[c] = "queued" \/ c \in dispatchStray'
               \/ Dispatch!Last(c) \notin DispatchGrouped \/ ~(Dispatch!Depth(c) > 0),
           \A w \in Workers : dispatchWk[w].pc = "supersede" =>
               \/ dispatchWk[w].run \in dispatchStray'
               \/ dispatchWk'[w].pc = "supersede" /\ dispatchWk'[w].run = dispatchWk[w].run
    PROVE  Dispatch!OnePendingPerGroup'
<1> SUFFICES ASSUME NEW c \in Dispatch!Runs, NEW o \in Dispatch!Runs, c # o,
                    Dispatch!Last(c) = Dispatch!Last(o), Dispatch!Last(c) \in DispatchGrouped,
                    Dispatch!Depth(c) > 0, Dispatch!Depth(o) > 0,
                    dispatchRun'[c] = "queued", dispatchRun'[o] = "queued", {c, o} \cap dispatchStray' = {}
             PROVE  \E w \in Workers : dispatchWk'[w].pc = "supersede" /\ dispatchWk'[w].run \in {c, o}
    BY DEF Dispatch!OnePendingPerGroup, Dispatch!At, Dispatch!Last, Dispatch!Depth
<1>1. dispatchRun[c] = "queued" /\ dispatchRun[o] = "queued" /\ {c, o} \cap dispatchStray = {}
    OBVIOUS
<1>2. PICK w \in Workers : dispatchWk[w].pc = "supersede" /\ dispatchWk[w].run \in {c, o}
    BY <1>1 DEF Dispatch!OnePendingPerGroup, Dispatch!At
<1> QED
    BY <1>2

\* Who enqueues a run of a group is the one who supersedes for it, and it leaves no other pending.
LEMMA StepPending ==
    ASSUME Dispatch!Sensible
    PROVE  DispatchInv /\ Dispatch!OnePendingPerGroup /\ [Dispatch!Next]_Dispatch!vars => Dispatch!OnePendingPerGroup'
<1> SUFFICES ASSUME DispatchInv, Dispatch!OnePendingPerGroup, [Dispatch!Next]_Dispatch!vars
             PROVE  Dispatch!OnePendingPerGroup'
    OBVIOUS
<1> USE DEF DispatchInv
<1>1. ASSUME NEW c \in Dispatch!Runs, Dispatch!Start(c) PROVE Dispatch!OnePendingPerGroup'
    <2>1. /\ dispatchRun' = [dispatchRun EXCEPT ![c] = "queued"] /\ Dispatch!Depth(c) = 0
          /\ UNCHANGED <<dispatchWk, dispatchStray>>
        BY <1>1 DEF Dispatch!Start, Dispatch!SetStatus, Dispatch!past
    <2> QED
        BY <2>1, NothingQueued DEF DispatchRowsTyped
<1>2. ASSUME NEW w \in Workers,
             \A v \in Workers : v # w => dispatchWk'[v] = dispatchWk[v],
             dispatchWk[w].pc # "supersede", dispatchStray' = dispatchStray,
             \A c \in Dispatch!Runs : dispatchRun'[c] = "queued" => dispatchRun[c] = "queued"
      PROVE  Dispatch!OnePendingPerGroup'
    BY <1>2, NothingQueued
<1>3. ASSUME NEW w \in Workers,
             \/ Dispatch!ListPendingWorkflowRunDispatches(w) \/ Dispatch!LoadSource(w) \/ Dispatch!LookUpTarget(w)
             \/ Dispatch!MarkWorkflowRunDispatched(w) \/ Dispatch!Restart(w)
      PROVE  Dispatch!OnePendingPerGroup'
    <2>1. dispatchWk[w].pc # "supersede" /\ UNCHANGED <<dispatchRun, dispatchStray>>
        BY <1>3 DEF Dispatch!ListPendingWorkflowRunDispatches, Dispatch!LoadSource, Dispatch!LookUpTarget,
           Dispatch!MarkWorkflowRunDispatched, Dispatch!Restart, Dispatch!At, Dispatch!past
    <2>2. \A v \in Workers : v # w => dispatchWk'[v] = dispatchWk[v]
        BY <1>3 DEF Dispatch!ListPendingWorkflowRunDispatches, Dispatch!LoadSource, Dispatch!LookUpTarget,
           Dispatch!MarkWorkflowRunDispatched, Dispatch!Restart, Dispatch!Leave, DispatchPassTyped
    <2> QED
        BY <1>2, <2>1, <2>2
<1>4. ASSUME NEW w \in Workers, Dispatch!ClaimNextQueuedRun(w) \/ Dispatch!FinishRun(w)
      PROVE  Dispatch!OnePendingPerGroup'
    <2>1. dispatchWk[w].pc # "supersede" /\ UNCHANGED dispatchStray
        BY <1>4 DEF Dispatch!ClaimNextQueuedRun, Dispatch!FinishRun, Dispatch!At, Dispatch!past
    <2>2. \A v \in Workers : v # w => dispatchWk'[v] = dispatchWk[v]
        BY <1>4 DEF Dispatch!ClaimNextQueuedRun, Dispatch!FinishRun, Dispatch!Leave, DispatchPassTyped
    <2>3. \A c \in Dispatch!Runs : dispatchRun'[c] = "queued" => dispatchRun[c] = "queued"
        BY <1>4 DEF Dispatch!ClaimNextQueuedRun, Dispatch!FinishRun, Dispatch!SetStatus, DispatchRowsTyped
    <2> QED
        BY <1>2, <2>1, <2>2, <2>3
<1>5. ASSUME NEW w \in Workers, Dispatch!EnqueueTarget(w) PROVE Dispatch!OnePendingPerGroup'
    <2>1. dispatchWk[w].pc = "enqueue" /\ Fits(dispatchWk[w]) /\ UNCHANGED dispatchStray
        BY <1>5 DEF Dispatch!EnqueueTarget, Dispatch!At, DispatchPassTyped, Dispatch!past
    <2>2. PICK t \in dispatchWk[w].left : dispatchWk[w].run = Append(dispatchWk[w].source, t)
        BY <2>1 DEF Fits
    <2> DEFINE c == dispatchWk[w].run
    <2>3. c \in Dispatch!Runs /\ Dispatch!Last(c) = t
        BY <2>1, <2>2, ChildIsRun DEF Fits
    <2>4. \/ /\ UNCHANGED dispatchRun
             /\ dispatchWk' = [dispatchWk EXCEPT ![w].pc = "target", ![w].left = @ \ {t}] \/ Dispatch!Leave(w, "dead")
          \/ /\ dispatchRun' = [dispatchRun EXCEPT ![c] = "queued"]
             /\ dispatchWk' = [dispatchWk EXCEPT ![w].pc = IF t \in DispatchGrouped THEN "supersede" ELSE "target",
                                                 ![w].left = @ \ {t}]
        BY <1>5, <2>3 DEF Dispatch!EnqueueTarget, Dispatch!SetStatus
    <2> HIDE DEF c
    <2>5. dispatchWk \in [Workers -> DispatchPass]
        BY DEF DispatchPassTyped
    <2>6. \A v \in Workers : v # w => dispatchWk'[v] = dispatchWk[v]
        BY <2>4, <2>5 DEF Dispatch!Leave
    <2>7. CASE UNCHANGED dispatchRun
        BY <1>2, <2>1, <2>6, <2>7
    <2>8. CASE t \notin DispatchGrouped /\ dispatchRun' = [dispatchRun EXCEPT ![c] = "queued"]
        BY <2>1, <2>3, <2>6, <2>8, NothingQueued DEF DispatchRowsTyped
    <2>9. CASE /\ dispatchRun' = [dispatchRun EXCEPT ![c] = "queued"]
               /\ dispatchWk' = [dispatchWk EXCEPT ![w].pc = "supersede", ![w].left = @ \ {t}]
        <3>1. dispatchWk'[w].pc = "supersede" /\ dispatchWk'[w].run = c
            BY <2>5, <2>9 DEF DispatchPass, c
        <3>2. \A d \in Dispatch!Runs : d # c => dispatchRun'[d] = dispatchRun[d]
            BY <2>9 DEF DispatchRowsTyped
        <3> SUFFICES ASSUME NEW d \in Dispatch!Runs, NEW o \in Dispatch!Runs, d # o,
                            Dispatch!Last(d) = Dispatch!Last(o), Dispatch!Last(d) \in DispatchGrouped,
                            Dispatch!Depth(d) > 0, Dispatch!Depth(o) > 0,
                            dispatchRun'[d] = "queued", dispatchRun'[o] = "queued", {d, o} \cap dispatchStray = {}
                     PROVE  \E v \in Workers : dispatchWk'[v].pc = "supersede" /\ dispatchWk'[v].run \in {d, o}
            BY <2>1 DEF Dispatch!OnePendingPerGroup, Dispatch!At, Dispatch!Last, Dispatch!Depth
        <3>3. CASE c \in {d, o}
            BY <3>1, <3>3
        <3>4. CASE c \notin {d, o}
            <4>1. PICK v \in Workers : dispatchWk[v].pc = "supersede" /\ dispatchWk[v].run \in {d, o}
                BY <3>2, <3>4 DEF Dispatch!OnePendingPerGroup, Dispatch!At
            <4> QED
                BY <2>1, <2>6, <4>1
        <3> QED
            BY <3>3, <3>4
    <2> QED
        BY <2>4, <2>7, <2>8, <2>9
<1>6. ASSUME NEW w \in Workers, Dispatch!CancelSuperseded(w) PROVE Dispatch!OnePendingPerGroup'
    <2> DEFINE r == dispatchWk[w].run
    <2>1. /\ dispatchWk[w].pc = "supersede" /\ dispatchWk' = [dispatchWk EXCEPT ![w].pc = "target"] /\ UNCHANGED dispatchStray
          /\ dispatchRun' = [c \in Dispatch!Runs |-> IF c \in Dispatch!Superseded(r) THEN "cancelled" ELSE dispatchRun[c]]
        BY <1>6 DEF Dispatch!CancelSuperseded, Dispatch!At, Dispatch!SetStatus, Dispatch!past
    <2>2. \A v \in Workers : v # w => dispatchWk'[v] = dispatchWk[v]
        BY <2>1 DEF DispatchPassTyped
    <2> HIDE DEF r
    <2> SUFFICES ASSUME NEW c \in Dispatch!Runs, NEW o \in Dispatch!Runs, c # o,
                        Dispatch!Last(c) = Dispatch!Last(o), Dispatch!Last(c) \in DispatchGrouped,
                        Dispatch!Depth(c) > 0, Dispatch!Depth(o) > 0,
                        dispatchRun'[c] = "queued", dispatchRun'[o] = "queued", {c, o} \cap dispatchStray = {}
                 PROVE  \E v \in Workers : dispatchWk'[v].pc = "supersede" /\ dispatchWk'[v].run \in {c, o}
        BY <2>1 DEF Dispatch!OnePendingPerGroup, Dispatch!At, Dispatch!Last, Dispatch!Depth
    <2>3. /\ dispatchRun[c] = "queued" /\ dispatchRun[o] = "queued"
          /\ c \notin Dispatch!Superseded(r) /\ o \notin Dispatch!Superseded(r)
        BY <2>1
    <2>4. r \notin {c, o}
        BY <2>3 DEF Dispatch!Superseded
    <2>5. PICK v \in Workers : dispatchWk[v].pc = "supersede" /\ dispatchWk[v].run \in {c, o}
        BY <2>3 DEF Dispatch!OnePendingPerGroup, Dispatch!At
    <2> QED
        BY <2>2, <2>4, <2>5 DEF r
<1>7. ASSUME NEW c \in Dispatch!Runs, Dispatch!RecoverRun(c) PROVE Dispatch!OnePendingPerGroup'
    <2>1. /\ dispatchStray' = dispatchStray \cup {c} /\ UNCHANGED dispatchWk
          /\ \E s \in {"queued", "finished"} : dispatchRun' = [dispatchRun EXCEPT ![c] = s]
        BY <1>7 DEF Dispatch!RecoverRun, Dispatch!SetStatus
    <2> QED
        BY <2>1, NothingQueued DEF DispatchRowsTyped
<1>8. ASSUME NEW w \in Workers, Dispatch!Crash(w) PROVE Dispatch!OnePendingPerGroup'
    <2>1. /\ UNCHANGED dispatchRun
          /\ dispatchStray' = IF dispatchWk[w].pc = "supersede" THEN dispatchStray \cup {dispatchWk[w].run} ELSE dispatchStray
          /\ \A v \in Workers : v # w => dispatchWk'[v] = dispatchWk[v]
        BY <1>8 DEF Dispatch!Crash, Dispatch!At, Dispatch!Leave, DispatchPassTyped
    <2> QED
        BY <2>1, NothingQueued
<1>9. CASE UNCHANGED Dispatch!vars \/ \E t \in DispatchWorkflows : Dispatch!SyncProject(t)
    BY <1>9, NothingQueued DEF Dispatch!vars, Dispatch!past, Dispatch!SyncProject
<1> QED
    BY <1>1, <1>3, <1>4, <1>5, <1>6, <1>7, <1>8, <1>9 DEF Dispatch!Next, Dispatch!WorkerStep

-----------------------------------------------------------------------------
(* Workflows that follow others: marked dispatches have their runs *)

\* Every workflow is active or was not for a time, and of the others those that a worker has
\* dropped as targets have their run.
StartedInv ==
    /\ DispatchWorkflows \subseteq active \cup dropped
    /\ \A w \in Workers : dispatchWk[w].pc \in {"target", "enqueue", "supersede"} =>
           \A t \in Targets[Dispatch!Last(dispatchWk[w].source)] \ (dispatchWk[w].left \cup dropped) :
               dispatchRun[Append(dispatchWk[w].source, t)] # "absent"
    /\ Dispatch!MarkedMeansStarted

\* Nothing is marked.
LEMMA InitStarted == Dispatch!Init => StartedInv
BY DEF Dispatch!Init, StartedInv, Dispatch!MarkedMeansStarted, Dispatch!Out

\* A worker that holds a target keeps its source, and its targets their runs.
LEMMA StartedStay ==
    ASSUME StartedInv, RowsGo, UNCHANGED <<active, dropped>>, Dispatch!Sensible, DispatchInv,
           \A c \in Dispatch!Runs : dispatch'[c] = "done" => dispatch[c] = "done" \/ Dispatch!TooDeep(c),
           \A w \in Workers : dispatchWk'[w].pc \in {"target", "enqueue", "supersede"} =>
               /\ dispatchWk[w].pc \in {"target", "enqueue", "supersede"}
               /\ dispatchWk'[w].source = dispatchWk[w].source /\ dispatchWk'[w].left = dispatchWk[w].left
    PROVE  StartedInv'
<1>1. ASSUME NEW w \in Workers, dispatchWk'[w].pc \in {"target", "enqueue", "supersede"}, NEW t \in Targets[Dispatch!Last(dispatchWk'[w].source)] \ (dispatchWk'[w].left \cup dropped)
      PROVE  dispatchRun'[Append(dispatchWk'[w].source, t)] # "absent"
    <2>1. dispatchWk[w].pc \in {"target", "enqueue", "supersede"} /\ dispatchWk'[w].source = dispatchWk[w].source /\ t \in Targets[Dispatch!Last(dispatchWk[w].source)] \ (dispatchWk[w].left \cup dropped)
        BY <1>1
    <2>2. dispatchRun[Append(dispatchWk[w].source, t)] # "absent" /\ Append(dispatchWk[w].source, t) \in Dispatch!Runs
        BY <2>1, ChildIsRun DEF StartedInv, DispatchInv, DispatchPassTyped, Fits
    <2> QED
        BY <2>1, <2>2 DEF RowsGo
<1>2. ASSUME NEW c \in Dispatch!Runs, dispatch'[c] = "done", ~Dispatch!TooDeep(c), NEW t \in Targets[Dispatch!Last(c)] \ dropped
      PROVE  dispatchRun'[Append(c, t)] # "absent"
    <2>1. dispatchRun[Append(c, t)] # "absent" /\ Append(c, t) \in Dispatch!Runs
        BY <1>2, ChildIsRun DEF StartedInv, Dispatch!MarkedMeansStarted
    <2> QED
        BY <2>1 DEF RowsGo
<1>3. Dispatch!MarkedMeansStarted'
    BY <1>2 DEF Dispatch!MarkedMeansStarted, Dispatch!TooDeep, Dispatch!Depth
<1> QED
    BY <1>1, <1>3 DEF StartedInv

\* A worker drops a target when its run is there, and marks when none is left.
LEMMA StepStarted == ASSUME Dispatch!Sensible PROVE DispatchInv /\ StartedInv /\ [Dispatch!Next]_Dispatch!vars => StartedInv'
<1> SUFFICES ASSUME DispatchInv, StartedInv, [Dispatch!Next]_Dispatch!vars PROVE StartedInv'
    OBVIOUS
<1> USE DEF DispatchInv
<1>1. ASSUME NEW f \in [Dispatch!Runs -> RunStatus], Dispatch!SetStatus(f),
             \A c \in Dispatch!Runs : dispatchRun[c] \in Dispatch!Terminal => f[c] \in Dispatch!Terminal,
             \A c \in Dispatch!Runs : dispatchRun[c] # "absent" => f[c] # "absent"
      PROVE  dispatchRun' = f /\ RowsGo /\ \A c \in Dispatch!Runs : dispatch'[c] = "done" => dispatch[c] = "done"
    BY <1>1, StatusIsAnnounced
<1>2. ASSUME UNCHANGED <<dispatchRun, dispatch>>
      PROVE  RowsGo /\ \A c \in Dispatch!Runs : dispatch'[c] = "done" => dispatch[c] = "done"
    BY <1>2 DEF RowsGo
<1>3. ASSUME NEW c \in Dispatch!Runs, Dispatch!Start(c) PROVE StartedInv'
    <2> DEFINE f == [dispatchRun EXCEPT ![c] = "queued"]
    <2>1. Dispatch!SetStatus(f) /\ dispatchRun[c] = "absent" /\ UNCHANGED <<dispatchWk, active, dropped>>
        BY <1>3 DEF Dispatch!Start, Dispatch!past
    <2>2. /\ f \in [Dispatch!Runs -> RunStatus] /\ \A d \in Dispatch!Runs : dispatchRun[d] \in Dispatch!Terminal => f[d] \in Dispatch!Terminal
          /\ \A d \in Dispatch!Runs : dispatchRun[d] # "absent" => f[d] # "absent"
        BY <2>1 DEF DispatchRowsTyped, RunStatus, Dispatch!Terminal
    <2> HIDE DEF f
    <2> QED
        BY <1>1, <2>1, <2>2, StartedStay
<1>4. ASSUME NEW t \in DispatchWorkflows, Dispatch!SyncProject(t) PROVE StartedInv'
    <2>1. /\ UNCHANGED <<dispatchRun, dispatch, dispatchWk>> /\ dropped' = dropped \cup {t}
          /\ active' = active \ {t} \/ active' = active \cup {t}
        BY <1>4 DEF Dispatch!SyncProject
    <2>2. DispatchWorkflows \subseteq active' \cup dropped'
        BY <2>1 DEF StartedInv
    <2>3. Dispatch!MarkedMeansStarted'
        BY <2>1 DEF StartedInv, Dispatch!MarkedMeansStarted, Dispatch!TooDeep, Dispatch!Depth
    <2> QED
        BY <2>1, <2>2, <2>3 DEF StartedInv
<1>5. ASSUME NEW w \in Workers, Dispatch!ListPendingWorkflowRunDispatches(w) PROVE StartedInv'
    <2>1. /\ dispatchWk'[w].pc = "dispatch" /\ UNCHANGED <<dispatchRun, dispatch, active, dropped>>
          /\ \A v \in Workers : v # w => dispatchWk'[v] = dispatchWk[v]
        BY <1>5 DEF Dispatch!ListPendingWorkflowRunDispatches, Dispatch!past, DispatchPassTyped, DispatchPass
    <2> QED
        BY <1>2, <2>1, StartedStay
<1>6. ASSUME NEW w \in Workers, Dispatch!LoadSource(w) PROVE StartedInv'
    <2>1. PICK c \in dispatchWk[w].todo :
             \/ /\ Dispatch!TooDeep(c) /\ dispatch' = [dispatch EXCEPT ![c] = "done"]
                /\ dispatchWk' = [dispatchWk EXCEPT ![w].todo = @ \ {c}]
             \/ /\ ~Dispatch!TooDeep(c) /\ dispatch' = dispatch
                /\ dispatchWk' = [dispatchWk EXCEPT ![w].pc = "target", ![w].source = c, ![w].left = Dispatch!Chosen(c)]
        BY <1>6 DEF Dispatch!LoadSource, Dispatch!past
    <2>2. /\ c \in Dispatch!Runs /\ dispatchRun' = dispatchRun /\ dispatchWk[w].pc = "dispatch" /\ dispatch[c] # "none" /\ UNCHANGED <<active, dropped>>
        BY <1>6 DEF DispatchPassTyped, DispatchPass, Dispatch!LoadSource, Dispatch!past, Dispatch!At, Fits
    <2>3. RowsGo
        BY <2>1, <2>2 DEF DispatchRowsTyped, RowsGo
    <2>4. CASE Dispatch!TooDeep(c) /\ dispatch' = [dispatch EXCEPT ![c] = "done"] /\ dispatchWk' = [dispatchWk EXCEPT ![w].todo = @ \ {c}]
        <3>1. dispatchWk'[w].pc = "dispatch" /\ \A v \in Workers : v # w => dispatchWk'[v] = dispatchWk[v]
            BY <2>2, <2>4 DEF DispatchPassTyped, DispatchPass
        <3>2. \A d \in Dispatch!Runs : dispatch'[d] = "done" => dispatch[d] = "done" \/ Dispatch!TooDeep(d)
            BY <2>4 DEF DispatchRowsTyped
        <3> QED
            BY <2>2, <2>3, <3>1, <3>2, StartedStay
    <2>5. CASE dispatch' = dispatch /\ dispatchWk' = [dispatchWk EXCEPT ![w].pc = "target", ![w].source = c, ![w].left = Dispatch!Chosen(c)]
        <3>1. Targets[Dispatch!Last(c)] \subseteq Dispatch!Chosen(c) \cup dropped
            BY <2>2, RunFacts DEF Dispatch!Chosen, Dispatch!Sensible, StartedInv
        <3> DEFINE T == Dispatch!Chosen(c)
        <3>2. Targets[Dispatch!Last(c)] \ (T \cup dropped) = {}
            BY <3>1
        <3>3. dispatchWk' = [dispatchWk EXCEPT ![w].pc = "target", ![w].source = c, ![w].left = T]
            BY <2>5
        <3> HIDE DEF T
        <3>4. dispatchWk'[w].source = c /\ dispatchWk'[w].left = T /\ \A v \in Workers : v # w => dispatchWk'[v] = dispatchWk[v]
            BY <3>3 DEF DispatchPassTyped, DispatchPass
        <3>5. \A v \in Workers : dispatchWk'[v].pc \in {"target", "enqueue", "supersede"} =>
                 \A t \in Targets[Dispatch!Last(dispatchWk'[v].source)] \ (dispatchWk'[v].left \cup dropped) : dispatchRun'[Append(dispatchWk'[v].source, t)] # "absent"
            BY <2>2, <3>2, <3>4 DEF StartedInv
        <3>6. Dispatch!MarkedMeansStarted'
            BY <2>2, <2>5 DEF StartedInv, Dispatch!MarkedMeansStarted, Dispatch!TooDeep, Dispatch!Depth
        <3> QED
            BY <2>2, <3>5, <3>6 DEF StartedInv
    <2> QED
        BY <2>1, <2>4, <2>5
<1>7. ASSUME NEW w \in Workers, NEW t \in dispatchWk[w].left, dispatchWk[w].pc \in {"target", "enqueue"},
             dispatchWk'[w].source = dispatchWk[w].source, dispatchWk'[w].left = dispatchWk[w].left \ {t}, dispatchRun'[Append(dispatchWk[w].source, t)] # "absent",
             \A v \in Workers : v # w => dispatchWk'[v] = dispatchWk[v],
             RowsGo, \A c \in Dispatch!Runs : dispatch'[c] = "done" => dispatch[c] = "done", UNCHANGED <<active, dropped>>
      PROVE  StartedInv'
    <2>1. ASSUME NEW v \in Workers, dispatchWk'[v].pc \in {"target", "enqueue", "supersede"}, NEW u \in Targets[Dispatch!Last(dispatchWk'[v].source)] \ (dispatchWk'[v].left \cup dropped)
          PROVE  dispatchRun'[Append(dispatchWk'[v].source, u)] # "absent"
        <3>1. CASE v = w /\ u = t
            BY <1>7, <3>1
        <3>2. CASE v # w \/ u # t
            <4>1. dispatchWk[v].pc \in {"target", "enqueue", "supersede"} /\ dispatchWk'[v].source = dispatchWk[v].source /\ u \in Targets[Dispatch!Last(dispatchWk[v].source)] \ (dispatchWk[v].left \cup dropped)
                BY <1>7, <2>1, <3>2
            <4>2. dispatchRun[Append(dispatchWk[v].source, u)] # "absent" /\ Append(dispatchWk[v].source, u) \in Dispatch!Runs
                BY <4>1, ChildIsRun DEF StartedInv, DispatchPassTyped, Fits
            <4> QED
                BY <1>7, <4>1, <4>2 DEF RowsGo
        <3> QED
            BY <3>1, <3>2
    <2>2. ASSUME NEW c \in Dispatch!Runs, dispatch'[c] = "done", ~Dispatch!TooDeep(c), NEW u \in Targets[Dispatch!Last(c)] \ dropped
          PROVE  dispatchRun'[Append(c, u)] # "absent"
        <3>1. dispatchRun[Append(c, u)] # "absent" /\ Append(c, u) \in Dispatch!Runs
            BY <1>7, <2>2, ChildIsRun DEF StartedInv, Dispatch!MarkedMeansStarted
        <3> QED
            BY <1>7, <3>1 DEF RowsGo
    <2>3. Dispatch!MarkedMeansStarted'
        BY <1>7, <2>2 DEF Dispatch!MarkedMeansStarted, Dispatch!TooDeep, Dispatch!Depth
    <2> QED
        BY <1>7, <2>1, <2>3 DEF StartedInv
<1>8. ASSUME NEW w \in Workers, Dispatch!LookUpTarget(w) PROVE StartedInv'
    <2>1. dispatchWk[w].pc = "target" /\ UNCHANGED <<dispatchRun, dispatch, active, dropped>> /\ dispatchWk[w] \in DispatchPass
        BY <1>8 DEF Dispatch!LookUpTarget, Dispatch!past, Dispatch!At, DispatchPassTyped
    <2>2. PICK t \in dispatchWk[w].left : \/ dispatchRun[Dispatch!Child(w, t)] # "absent" /\ dispatchWk' = [dispatchWk EXCEPT ![w].left = @ \ {t}]
                                  \/ Dispatch!Leave(w, "dead")
                                  \/ dispatchWk' = [dispatchWk EXCEPT ![w].pc = "enqueue", ![w].run = Dispatch!Child(w, t)]
        BY <1>8 DEF Dispatch!LookUpTarget, Dispatch!past
    <2>3. \A v \in Workers : v # w => dispatchWk'[v] = dispatchWk[v]
        BY <2>2 DEF DispatchPassTyped, Dispatch!Leave
    <2>4. CASE dispatchRun[Dispatch!Child(w, t)] # "absent" /\ dispatchWk' = [dispatchWk EXCEPT ![w].left = @ \ {t}]
        <3>1. dispatchWk'[w].source = dispatchWk[w].source /\ dispatchWk'[w].left = dispatchWk[w].left \ {t} /\ dispatchRun'[Append(dispatchWk[w].source, t)] # "absent"
            BY <2>1, <2>4 DEF DispatchPassTyped, DispatchPass, Dispatch!Child
        <3> QED
            BY <1>2, <1>7, <2>1, <2>3, <3>1
    <2>5. CASE Dispatch!Leave(w, "dead")
        <3>1. dispatchWk'[w].pc = "dead"
            BY <2>5 DEF Dispatch!Leave, Dispatch!Out, DispatchPassTyped
        <3> QED
            BY <1>2, <2>1, <2>3, <3>1, StartedStay
    <2>6. CASE dispatchWk' = [dispatchWk EXCEPT ![w].pc = "enqueue", ![w].run = Dispatch!Child(w, t)]
        <3>1. dispatchWk'[w].source = dispatchWk[w].source /\ dispatchWk'[w].left = dispatchWk[w].left
            BY <2>1, <2>6 DEF DispatchPassTyped, DispatchPass
        <3> QED
            BY <1>2, <2>1, <2>3, <3>1, StartedStay
    <2> QED
        BY <2>2, <2>4, <2>5, <2>6
<1>9. ASSUME NEW w \in Workers, Dispatch!EnqueueTarget(w) PROVE StartedInv'
    <2>1. dispatchWk[w].pc = "enqueue" /\ UNCHANGED <<active, dropped>> /\ Fits(dispatchWk[w]) /\ dispatchWk[w] \in DispatchPass
        BY <1>9 DEF Dispatch!EnqueueTarget, Dispatch!past, Dispatch!At, DispatchPassTyped
    <2>2. PICK t \in dispatchWk[w].left : dispatchWk[w].run = Append(dispatchWk[w].source, t)
        BY <2>1 DEF Fits
    <2> DEFINE c == dispatchWk[w].run
    <2>3. c \in Dispatch!Runs /\ Dispatch!Last(c) = t
        BY <2>1, <2>2, ChildIsRun DEF Fits
    <2>4. \/ dispatchRun[c] # "absent" /\ dispatchWk' = [dispatchWk EXCEPT ![w].pc = "target", ![w].left = @ \ {t}] /\ UNCHANGED <<dispatchRun, dispatch>>
          \/ Dispatch!Leave(w, "dead") /\ UNCHANGED <<dispatchRun, dispatch>>
          \/ \E l \in {"target", "supersede"} :
                /\ dispatchWk' = [dispatchWk EXCEPT ![w].pc = l, ![w].left = @ \ {t}]
                /\ dispatchRun[c] = "absent" /\ Dispatch!SetStatus([dispatchRun EXCEPT ![c] = "queued"])
        BY <1>9, <2>3 DEF Dispatch!EnqueueTarget, Dispatch!past
    <2> HIDE DEF c
    <2>5. \A v \in Workers : v # w => dispatchWk'[v] = dispatchWk[v]
        BY <2>4 DEF DispatchPassTyped, Dispatch!Leave
    <2>6. CASE dispatchRun[c] # "absent" /\ dispatchWk' = [dispatchWk EXCEPT ![w].pc = "target", ![w].left = @ \ {t}] /\ UNCHANGED <<dispatchRun, dispatch>>
        <3>1. dispatchWk'[w].source = dispatchWk[w].source /\ dispatchWk'[w].left = dispatchWk[w].left \ {t} /\ dispatchRun'[Append(dispatchWk[w].source, t)] # "absent"
            BY <2>1, <2>2, <2>6 DEF DispatchPassTyped, DispatchPass, c
        <3> QED
            BY <1>2, <1>7, <2>1, <2>5, <2>6, <3>1
    <2>7. CASE Dispatch!Leave(w, "dead") /\ UNCHANGED <<dispatchRun, dispatch>>
        <3>1. dispatchWk'[w].pc = "dead"
            BY <2>7 DEF Dispatch!Leave, Dispatch!Out, DispatchPassTyped
        <3> QED
            BY <1>2, <2>1, <2>5, <2>7, <3>1, StartedStay
    <2>8. ASSUME NEW l \in {"target", "supersede"}, dispatchWk' = [dispatchWk EXCEPT ![w].pc = l, ![w].left = @ \ {t}],
                 dispatchRun[c] = "absent", Dispatch!SetStatus([dispatchRun EXCEPT ![c] = "queued"])
          PROVE  StartedInv'
        <3> DEFINE f == [dispatchRun EXCEPT ![c] = "queued"]
        <3>1. /\ f \in [Dispatch!Runs -> RunStatus] /\ \A d \in Dispatch!Runs : dispatchRun[d] \in Dispatch!Terminal => f[d] \in Dispatch!Terminal
              /\ \A d \in Dispatch!Runs : dispatchRun[d] # "absent" => f[d] # "absent"
              /\ f[c] = "queued"
            BY <2>3, <2>8 DEF DispatchRowsTyped, RunStatus, Dispatch!Terminal
        <3>2. Dispatch!SetStatus(f)
            BY <2>8
        <3> HIDE DEF f
        <3>3. RowsGo /\ dispatchRun' = f /\ \A d \in Dispatch!Runs : dispatch'[d] = "done" => dispatch[d] = "done"
            BY <1>1, <3>1, <3>2
        <3>4. dispatchWk'[w].source = dispatchWk[w].source /\ dispatchWk'[w].left = dispatchWk[w].left \ {t}
            BY <2>1, <2>8 DEF DispatchPassTyped, DispatchPass
        <3>5. dispatchRun'[Append(dispatchWk[w].source, t)] # "absent"
            BY <2>2, <3>1, <3>3 DEF c
        <3> QED
            BY <1>7, <2>1, <2>5, <3>3, <3>4, <3>5
    <2> QED
        BY <2>4, <2>6, <2>7, <2>8
<1>10. ASSUME NEW w \in Workers, Dispatch!CancelSuperseded(w) PROVE StartedInv'
    <2> DEFINE r == dispatchWk[w].run  f == [c \in Dispatch!Runs |-> IF c \in Dispatch!Superseded(r) THEN "cancelled" ELSE dispatchRun[c]]
    <2>1. dispatchWk[w].pc = "supersede" /\ dispatchWk' = [dispatchWk EXCEPT ![w].pc = "target"] /\ Dispatch!SetStatus(f) /\ UNCHANGED <<active, dropped>>
        BY <1>10 DEF Dispatch!CancelSuperseded, Dispatch!past, Dispatch!At
    <2>2. f \in [Dispatch!Runs -> RunStatus] /\ \A d \in Dispatch!Runs : (dispatchRun[d] \in Dispatch!Terminal => f[d] \in Dispatch!Terminal)
        BY DEF DispatchRowsTyped, RunStatus, Dispatch!Terminal
    <2>3. \A d \in Dispatch!Runs : dispatchRun[d] # "absent" => f[d] # "absent"
        BY DEF Dispatch!Superseded
    <2> HIDE DEF f
    <2>4. dispatchWk'[w].source = dispatchWk[w].source /\ dispatchWk'[w].left = dispatchWk[w].left /\ \A v \in Workers : v # w => dispatchWk'[v] = dispatchWk[v]
        BY <2>1 DEF DispatchPassTyped, DispatchPass
    <2> QED
        BY <1>1, <2>1, <2>2, <2>3, <2>4, StartedStay
<1>11. ASSUME NEW w \in Workers, Dispatch!MarkWorkflowRunDispatched(w) PROVE StartedInv'
    <2> DEFINE c == dispatchWk[w].source
    <2>1. /\ dispatchWk[w].pc = "target" /\ dispatchWk[w].left = {} /\ dispatch' = [dispatch EXCEPT ![c] = "done"] /\ UNCHANGED <<dispatchRun, active, dropped>>
          /\ dispatchWk' = [dispatchWk EXCEPT ![w].pc = "dispatch", ![w].todo = @ \ {c}]
        BY <1>11 DEF Dispatch!MarkWorkflowRunDispatched, Dispatch!past, Dispatch!At
    <2>2. \A t \in Targets[Dispatch!Last(c)] \ dropped : dispatchRun[Append(c, t)] # "absent"
        BY <2>1 DEF StartedInv
    <2> HIDE DEF c
    <2>3. dispatchWk'[w].pc = "dispatch" /\ \A v \in Workers : v # w => dispatchWk'[v] = dispatchWk[v]
        BY <2>1 DEF DispatchPassTyped, DispatchPass
    <2>4. \A d \in Dispatch!Runs : d # c => dispatch'[d] = dispatch[d]
        BY <2>1 DEF DispatchRowsTyped
    <2>5. Dispatch!MarkedMeansStarted'
        BY <2>1, <2>2, <2>4 DEF StartedInv, Dispatch!MarkedMeansStarted, Dispatch!TooDeep, Dispatch!Depth
    <2> QED
        BY <2>1, <2>3, <2>5 DEF StartedInv
<1>12. ASSUME NEW w \in Workers, Dispatch!ClaimNextQueuedRun(w) PROVE StartedInv'
    <2>1. dispatchWk[w].pc = "dispatch" /\ UNCHANGED <<active, dropped>>
        BY <1>12 DEF Dispatch!ClaimNextQueuedRun, Dispatch!past, Dispatch!At
    <2>2. CASE Dispatch!Leave(w, "idle") /\ UNCHANGED <<dispatchRun, dispatch>>
        <3>1. dispatchWk'[w].pc = "idle" /\ \A v \in Workers : v # w => dispatchWk'[v] = dispatchWk[v]
            BY <2>2 DEF Dispatch!Leave, Dispatch!Out, DispatchPassTyped
        <3> QED
            BY <1>2, <2>1, <2>2, <3>1, StartedStay
    <2>3. ASSUME NEW c \in Dispatch!Runs, dispatchRun[c] = "queued", Dispatch!SetStatus([dispatchRun EXCEPT ![c] = "running"]),
                 dispatchWk' = [dispatchWk EXCEPT ![w] = [Dispatch!Out("execute") EXCEPT !.run = c]]
          PROVE  StartedInv'
        <3> DEFINE f == [dispatchRun EXCEPT ![c] = "running"]
        <3>1. /\ f \in [Dispatch!Runs -> RunStatus] /\ \A d \in Dispatch!Runs : dispatchRun[d] \in Dispatch!Terminal => f[d] \in Dispatch!Terminal
              /\ \A d \in Dispatch!Runs : dispatchRun[d] # "absent" => f[d] # "absent"
            BY <2>3 DEF DispatchRowsTyped, RunStatus, Dispatch!Terminal
        <3>2. Dispatch!SetStatus(f)
            BY <2>3
        <3> HIDE DEF f
        <3>3. dispatchWk'[w].pc = "execute" /\ \A v \in Workers : v # w => dispatchWk'[v] = dispatchWk[v]
            BY <2>3 DEF Dispatch!Out, DispatchPassTyped
        <3> QED
            BY <1>1, <2>1, <3>1, <3>2, <3>3, StartedStay
    <2> QED
        BY <1>12, <2>2, <2>3 DEF Dispatch!ClaimNextQueuedRun, Dispatch!past
<1>13. ASSUME NEW w \in Workers, Dispatch!FinishRun(w) PROVE StartedInv'
    <2> DEFINE c == dispatchWk[w].run  f == [dispatchRun EXCEPT ![c] = "finished"]
    <2>1. dispatchWk[w].pc = "execute" /\ Dispatch!SetStatus(f) /\ Dispatch!Leave(w, "idle") /\ UNCHANGED <<active, dropped>>
        BY <1>13 DEF Dispatch!FinishRun, Dispatch!past, Dispatch!At
    <2>2. c \in Dispatch!Runs /\ dispatchRun[c] # "absent"
        BY <2>1 DEF DispatchPassTyped, Fits
    <2>3. /\ f \in [Dispatch!Runs -> RunStatus] /\ \A d \in Dispatch!Runs : dispatchRun[d] \in Dispatch!Terminal => f[d] \in Dispatch!Terminal
          /\ \A d \in Dispatch!Runs : dispatchRun[d] # "absent" => f[d] # "absent"
        BY <2>2 DEF DispatchRowsTyped, RunStatus, Dispatch!Terminal
    <2> HIDE DEF f
    <2>4. dispatchWk'[w].pc = "idle" /\ \A v \in Workers : v # w => dispatchWk'[v] = dispatchWk[v]
        BY <2>1 DEF Dispatch!Leave, Dispatch!Out, DispatchPassTyped
    <2> QED
        BY <1>1, <2>1, <2>3, <2>4, StartedStay
<1>14. ASSUME NEW c \in Dispatch!Runs, Dispatch!RecoverRun(c) PROVE StartedInv'
    <2>1. PICK s \in {"queued", "finished"} : Dispatch!SetStatus([dispatchRun EXCEPT ![c] = s]) /\ UNCHANGED <<dispatchWk, active, dropped>> /\ dispatchRun[c] = "running"
        BY <1>14 DEF Dispatch!RecoverRun
    <2> DEFINE f == [dispatchRun EXCEPT ![c] = s]
    <2>2. /\ f \in [Dispatch!Runs -> RunStatus] /\ \A d \in Dispatch!Runs : dispatchRun[d] \in Dispatch!Terminal => f[d] \in Dispatch!Terminal
          /\ \A d \in Dispatch!Runs : dispatchRun[d] # "absent" => f[d] # "absent"
        BY <2>1 DEF DispatchRowsTyped, RunStatus, Dispatch!Terminal
    <2>3. Dispatch!SetStatus(f)
        BY <2>1
    <2> HIDE DEF f
    <2> QED
        BY <1>1, <2>1, <2>2, <2>3, StartedStay
<1>15. ASSUME NEW w \in Workers, Dispatch!Crash(w) \/ Dispatch!Restart(w) PROVE StartedInv'
    <2>1. UNCHANGED <<dispatchRun, dispatch, active, dropped>> /\ (Dispatch!Leave(w, "dead") \/ Dispatch!Leave(w, "idle"))
        BY <1>15 DEF Dispatch!Crash, Dispatch!Restart, Dispatch!past
    <2>2. dispatchWk'[w].pc \in {"dead", "idle"} /\ \A v \in Workers : v # w => dispatchWk'[v] = dispatchWk[v]
        BY <2>1 DEF Dispatch!Leave, Dispatch!Out, DispatchPassTyped
    <2> QED
        BY <1>2, <2>1, <2>2, StartedStay
<1>16. CASE UNCHANGED Dispatch!vars
    BY <1>2, <1>16, StartedStay DEF Dispatch!vars, Dispatch!past
<1> QED
    BY <1>3, <1>4, <1>5, <1>6, <1>8, <1>9, <1>10, <1>11, <1>12, <1>13, <1>14, <1>15, <1>16 DEF Dispatch!Next, Dispatch!WorkerStep

-----------------------------------------------------------------------------
(* The theorems of the components, of the service *)

\* No deployment is reported better than its job ended, its events are one path
\* of its life cycle, and two commands deploy at once only when a heartbeat was
\* late (AcquireEnvironmentLease, TransitionDeployment, deployment_events).
THEOREM DeploymentsStayHonest == ServiceSpec => []DeploymentsAreHonest
<1>1. Gate!Spec => []Gate!DeploymentsAreHonest
    BY LeasesLive, Gate!DeploymentsAreAlwaysHonest
<1>2. Gate!DeploymentsAreHonest => DeploymentsAreHonest
    BY DEF DeploymentsAreHonest
<1> QED
    BY <1>1, <1>2, GatePart, PTL

\* An approval is decided once, whoever decides beside (DecideEnvironmentApproval).
THEOREM DecisionsStayFinal == ServiceSpec => DecisionsAreFinal
BY LeasesLive, Gate!DecisionsAreAlwaysFinal, GatePart DEF DecisionsAreFinal

\* The leases of environments and of concurrency groups are expiring leases
\* (AcquireEnvironmentLease, AcquireExecutionConcurrency and their callers).
THEOREM BothLeasesExpire == ServiceSpec => LeasesExpire
<1>1. Gate!Spec => Gate!ImplementsLease
    BY LeasesLive, Gate!GateImplementsLease
<1>2. Groups!Spec => Groups!ImplementsLease
    BY LeasesLive, Groups!GroupImplementsLease DEF Groups!Sensible
<1> QED
    BY <1>1, <1>2, GatePart, GroupsPart, PTL DEF LeasesExpire

\* Parents and child pipelines agree about each other (insertChildPipelineLink,
\* ReconcileCompletedChildPipelines).
THEOREM PipelinesKeepAgreeing == ServiceSpec => []PipelinesAgree
<1>1. Pipes!Spec => []Pipes!PipelinesAgree
    BY PipesTree, Pipes!PipelinesAlwaysAgree
<1>2. Pipes!PipelinesAgree => PipelinesAgree
    BY DEF PipelinesAgree
<1> QED
    BY <1>1, <1>2, PipesPart, PTL

\* Requests for replays get what they are promised (replayForKey, EvaluateJobReplay).
THEOREM RequestsStayAnswered == ServiceSpec => []RequestsAreAnswered
<1>1. Lineage!RequestsAreAnswered => RequestsAreAnswered
    BY DEF RequestsAreAnswered
<1> QED
    BY <1>1, Lineage!RequestsAreAlwaysAnswered, LineagePart, PTL

\* What is replayed has ended, unless it was played since it was evaluated (0008_replay_guards.sql).
THEOREM SourcesStayEnded == ServiceSpec => ReplaysTerminalSource
BY Lineage!EndedSourcesAreReplayed, LineagePart DEF ReplaysTerminalSource

\* However often a delivery is sent, whoever hangs up and whenever the service dies, it starts one
\* run at most (Deliver, RecordWebhookDelivery).
THEOREM DeliveryStartsOneRun == ServiceSpec => []Hooks!DeliveredOnce
<1>1. DeliveryInv => Hooks!DeliveredOnce
    BY DEF DeliveryInv, HooksTyped, Hooks!DeliveredOnce
<1> QED
    BY InitDelivery, StepDelivery, HooksPart, <1>1, PTL DEF Hooks!Spec

\* A settled row says whether the run was started (TransitionWebhookDelivery).
THEOREM SettledRowsStayHonest == ServiceSpec => []Hooks!SettledRowsAreHonest
<1>1. DeliveryInv => Hooks!SettledRowsAreHonest
    BY DEF DeliveryInv
<1> QED
    BY InitDelivery, StepDelivery, HooksPart, <1>1, PTL DEF Hooks!Spec

-----------------------------------------------------------------------------
(* Groups and events, of the service *)

\* Superseding leaves the newest run of a group, unless it came while another caller was about to
\* list or an older run that waits asked it to give way, and of two pending runs one is about to
\* go, but for runs whose caller was cut off or that are queued again; however many callers and
\* workers there are and whatever fails or dies (cancelSupersededConcurrencyRuns,
\* waitForExecutionConcurrency).
THEOREM GroupsAlwaysKeepOneRun == ServiceSpec => []GroupsKeepOneRun
<1>1. Groups!Spec => [](Groups!GroupTypeOK /\ Groups!NewestRunIsLeft /\ Groups!OnePendingRun)
    BY LeasesLive, Groups!SupersedingLeavesARun
<1>2. Dispatch!Init => DispatchInv /\ Dispatch!OnePendingPerGroup
    BY EventsSensible, InitDispatch, InitPending
<1>3. DispatchInv /\ Dispatch!OnePendingPerGroup /\ [Dispatch!Next]_Dispatch!vars
      => DispatchInv' /\ Dispatch!OnePendingPerGroup'
    BY EventsSensible, StepDispatch, StepPending
<1>4. DispatchInv => Dispatch!DispatchTypeOK
    BY DispatchTypes DEF DispatchInv
<1>5. ServiceSpec => [](Dispatch!DispatchTypeOK /\ Dispatch!OnePendingPerGroup)
    BY <1>2, <1>3, <1>4, DispatchPart, PTL DEF Dispatch!Spec
<1>6. /\ Groups!GroupTypeOK /\ Groups!NewestRunIsLeft /\ Groups!OnePendingRun
      /\ Dispatch!DispatchTypeOK /\ Dispatch!OnePendingPerGroup
      => GroupsKeepOneRun
    BY DEF GroupsKeepOneRun
<1> QED
    BY <1>1, <1>5, <1>6, GroupsPart, PTL

\* Workflows that trigger each other stop after MaxDepth generations, whoever
\* dies and whatever is synchronised (workflowRunMaxDepth).
THEOREM ChainsAlwaysEnd == ServiceSpec => [](Dispatch!DispatchTypeOK /\ Dispatch!ChainsEnd)
<1>1. Dispatch!Init => DispatchInv
    BY EventsSensible, InitDispatch
<1>2. DispatchInv /\ [Dispatch!Next]_Dispatch!vars => DispatchInv'
    BY EventsSensible, StepDispatch
<1>3. DispatchInv => Dispatch!DispatchTypeOK /\ Dispatch!ChainsEnd
    BY DispatchTypes DEF DispatchInv
<1> QED
    BY <1>1, <1>2, <1>3, DispatchPart, PTL DEF Dispatch!Spec

\* No due time starts two runs, whenever services die, as long as one service
\* runs, or nobody edits a schedule (ClaimDueWorkflowSchedules).
THEOREM SchedulesStartOnce ==
    Coordinated => (ServiceSpec => [](Sched!ScheduleTypeOK /\ Sched!DueTimesStartOnce))
<1> SUFFICES ASSUME Coordinated PROVE ServiceSpec => [](Sched!ScheduleTypeOK /\ Sched!DueTimesStartOnce)
    OBVIOUS
<1>1. Sched!Init => SchedInv
    BY EventsSensible, InitSched
<1>2. SchedInv /\ [Sched!Next]_Sched!vars => SchedInv'
    BY EventsSensible, StepSched
<1>3. SchedInv => Sched!ScheduleTypeOK /\ Sched!DueTimesStartOnce
    BY EventsSensible, SchedTypes DEF SchedInv
<1> QED
    BY <1>1, <1>2, <1>3, SchedPart, PTL DEF Sched!Spec

\* A workflow has one commit run per commit, whatever is pushed, changed or
\* dies meanwhile (CommitTriggeredRunExists, migration 0009).
THEOREM CommitsRunOnce == ServiceSpec => [](Commit!TriggerTypeOK /\ Commit!CommitRunsOnce)
<1>1. Commit!Init => CommitInv
    BY EventsSensible, InitCommit
<1>2. CommitInv /\ [Commit!Next]_Commit!vars => CommitInv'
    BY EventsSensible, StepCommit
<1>3. CommitInv => Commit!TriggerTypeOK /\ Commit!CommitRunsOnce
    BY EventsSensible, CommitTypes DEF CommitInv
<1> QED
    BY <1>1, <1>2, <1>3, CommitPart, PTL DEF Commit!Spec

\* A late pass skips no due time, when no enqueue fails and the operator does one
\* thing at most and edits no schedule (ProcessDue advances from the due time);
\* with what holds of commits and deliveries anyway, every event starts one run.
THEOREM EventsAlwaysStartOneRun == Undisturbed => (ServiceSpec => []EventsStartOneRun)
<1> SUFFICES ASSUME Undisturbed PROVE ServiceSpec => []EventsStartOneRun
    OBVIOUS
<1>1. Coordinated
    BY DEF Undisturbed, Coordinated
<1>2. ServiceSpec => [](Sched!ScheduleTypeOK /\ Sched!DueTimesStartOnce)
    BY <1>1, SchedulesStartOnce
<1>3. Sched!Init => SchedInv /\ GridInv
    BY EventsSensible, InitSched, InitGrid
<1>4. SchedInv /\ GridInv /\ [Sched!Next]_Sched!vars => SchedInv' /\ GridInv'
    BY <1>1, EventsSensible, StepSched, StepGrid
<1>5. SchedInv /\ GridInv => Sched!NoOccurrenceSkipped
    BY DEF GridInv
<1>6. ServiceSpec => []Sched!NoOccurrenceSkipped
    BY <1>3, <1>4, <1>5, SchedPart, PTL DEF Sched!Spec
<1>7. DeliveryInv => Hooks!DeliveryTypeOK /\ Hooks!DeliveredOnce /\ Hooks!SettledRowsAreHonest
    BY EventsSensible, DeliveryTypes DEF DeliveryInv, HooksTyped, Hooks!DeliveredOnce
<1>8. ServiceSpec => [](Hooks!DeliveryTypeOK /\ Hooks!DeliveredOnce /\ Hooks!SettledRowsAreHonest)
    BY InitDelivery, StepDelivery, HooksPart, <1>7, PTL DEF Hooks!Spec
<1>9. /\ Sched!ScheduleTypeOK /\ Sched!DueTimesStartOnce /\ Sched!NoOccurrenceSkipped
      /\ Commit!TriggerTypeOK /\ Commit!CommitRunsOnce
      /\ Hooks!DeliveryTypeOK /\ Hooks!DeliveredOnce /\ Hooks!SettledRowsAreHonest
      => EventsStartOneRun
    BY DEF EventsStartOneRun
<1> QED
    BY <1>2, <1>6, <1>8, <1>9, CommitsRunOnce, PTL

\* Workflows that trigger each other stop; a dispatch is marked only when all its targets that
\* stayed active have their run; a check that records a commit has a run of it for every workflow
\* whose paths differ from the commit recorded before, unless the policy was edited meanwhile; an
\* event that the provider may forget was run, or its delivery is known as one that failed or was
\* cut off; whoever dies, hangs up or pushes between any two steps (dispatchCompletedWorkflow,
\* processPolicy, Deliver).
THEOREM NothingIsEverLost == ServiceSpec => NothingIsLost
<1>1. Dispatch!Init => DispatchInv /\ StartedInv
    BY EventsSensible, InitDispatch, InitStarted
<1>2. DispatchInv /\ StartedInv /\ [Dispatch!Next]_Dispatch!vars => DispatchInv' /\ StartedInv'
    BY EventsSensible, StepDispatch, StepStarted
<1>3. DispatchInv /\ StartedInv => Dispatch!ChainsEnd /\ Dispatch!MarkedMeansStarted
    BY DEF DispatchInv, StartedInv
<1>4. ServiceSpec => [](Dispatch!ChainsEnd /\ Dispatch!MarkedMeansStarted)
    BY <1>1, <1>2, <1>3, DispatchPart, PTL DEF Dispatch!Spec
<1>5. DeliveryInv /\ AnsweredInv /\ [Hooks!Next]_Hooks!vars => DeliveryInv' /\ AnsweredInv'
    BY StepDelivery, StepAnswered
<1>6. DeliveryInv /\ AnsweredInv => Hooks!AnsweredEventsAreRun
    BY EventsSensible, AnsweredMeansRun
<1>7. ServiceSpec => []Hooks!AnsweredEventsAreRun
    BY InitDelivery, InitAnswered, <1>5, <1>6, HooksPart, PTL DEF Hooks!Spec
<1>8. ServiceSpec => [](/\ part = "dispatch" => Dispatch!ChainsEnd /\ Dispatch!MarkedMeansStarted
                        /\ part = "hooks" => Hooks!AnsweredEventsAreRun)
    BY <1>4, <1>7, PTL
<1>9. Commit!Init => CommitInv /\ WatchInv
    BY EventsSensible, InitCommit, InitWatch
<1>10. CommitInv /\ WatchInv /\ [Commit!Next]_Commit!vars => CommitInv' /\ WatchInv'
    BY EventsSensible, StepCommit, StepWatch
<1>11. CommitInv /\ WatchInv /\ [Commit!Next]_Commit!vars => [part = "commit" => Commit!NoChangePassedUnrun]_commitVars
    BY RecordedIsRun
<1>12. ServiceSpec => [][part = "commit" => Commit!NoChangePassedUnrun]_commitVars
    BY <1>9, <1>10, <1>11, CommitPart, PTL DEF Commit!Spec
<1> QED
    BY <1>8, <1>12, PTL DEF NothingIsLost
=============================================================================
