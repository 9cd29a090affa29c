------------------------- MODULE WebhookDeliveries -------------------------
(***************************************************************************)
(* A provider delivers events to one endpoint and sends a delivery again   *)
(* while it has no good answer; every request records the delivery, starts *)
(* the run and settles the row (webhooks/manager.go,                       *)
(* store/webhook_transition.go).  Requests run at the same time, a client  *)
(* may hang up (the request's context ends its store calls) and the        *)
(* service may die.  The provider is external.                             *)
(* A definition marked "Mutant" is a bug that could have been made in the  *)
(* next one; no specification uses it.                                     *)
(***************************************************************************)
EXTENDS Naturals

CONSTANTS
    Deliveries,  \* provider_delivery_id
    Requests,    \* HTTP requests in flight at the same time
    Wanted,      \* deliveries whose event the workflow's policy accepts
    Grouped,     \* deliveries whose workflow has a concurrency group
    None,
    MaxSends,    \* bound: times the provider sends one delivery
    MaxErrors,   \* bound: enqueues and path lookups that fail
    MaxHangups,  \* bound: clients that hang up
    MaxFaults    \* bound: service deaths

VARIABLES
    row,         \* webhook_deliveries.status
    runs,        \* history: the runs a delivery started
    req,         \* by request: pc, delivery
    answers,     \* by delivery, the answers the provider got
    sends, errors, hangups, faults,
    hurt         \* history: deliveries with a request that failed or was cut off

vars == <<row, runs, req, answers, sends, errors, hangups, faults, hurt>>
counters == <<sends, errors, hangups, faults>>

\* What the proofs assume of the constants.
Sensible == None \notin Deliveries /\ Wanted \subseteq Deliveries

Free == [pc |-> "free", delivery |-> None]

Init ==
    /\ row = [d \in Deliveries |-> "absent"]
    /\ runs = [d \in Deliveries |-> 0]
    /\ req = [q \in Requests |-> Free]
    /\ answers = [d \in Deliveries |-> {}]
    /\ sends = [d \in Deliveries |-> 0]
    /\ errors = 0 /\ hangups = 0 /\ faults = 0
    /\ hurt = {}

At(q, l) == req[q].pc = l
Goto(q, l) == req' = [req EXCEPT ![q].pc = l]
Answer(q, a) ==
    /\ req' = [req EXCEPT ![q] = Free]
    /\ answers' = [answers EXCEPT ![req[q].delivery] = @ \cup {a}]

\* The provider sends again until it reads an answer below 300.
Send(q, d) ==
    /\ At(q, "free") /\ sends[d] < MaxSends
    /\ answers[d] \cap {"accepted", "duplicate"} = {}
    /\ sends' = [sends EXCEPT ![d] = @ + 1]
    /\ req' = [req EXCEPT ![q] = [pc |-> "record", delivery |-> d]]
    /\ UNCHANGED <<row, runs, answers, errors, hangups, faults, hurt>>

\* Mutant: the row is looked up first and inserted later.
RecordedLater(d) == row[d] \in {"accepted", "failed"}
Recorded(d) == row[d] # "absent"

\* INSERT ... ON CONFLICT DO NOTHING; a known delivery is answered at once.
RecordWebhookDelivery(q) ==
    /\ At(q, "record")
    /\ LET d == req[q].delivery IN
         IF Recorded(d)
         THEN Answer(q, "duplicate") /\ UNCHANGED row
         ELSE /\ row' = [row EXCEPT ![d] = "received"]
              /\ Goto(q, "match") /\ UNCHANGED answers
    /\ UNCHANGED <<runs, counters, hurt>>

Fails(q) ==
    /\ errors < MaxErrors /\ errors' = errors + 1
    /\ hurt' = hurt \cup {req[q].delivery}
    /\ Goto(q, "fail")

\* Policy, and the changed paths it may need from git.
MatchPolicy(q) ==
    /\ At(q, "match")
    /\ \/ /\ Goto(q, IF req[q].delivery \in Wanted THEN "enqueue" ELSE "accept")
          /\ UNCHANGED <<errors, hurt>>
       \/ Fails(q)
    /\ UNCHANGED <<row, runs, answers, sends, hangups, faults>>

\* It also fails when the run is queued and superseding fails.
EnqueueTriggered(q) ==
    /\ At(q, "enqueue")
    /\ \/ /\ runs' = [runs EXCEPT ![req[q].delivery] = @ + 1]
          /\ \/ Goto(q, "accept") /\ UNCHANGED <<errors, hurt>>
             \/ req[q].delivery \in Grouped /\ Fails(q)
       \/ Fails(q) /\ UNCHANGED runs
    /\ UNCHANGED <<row, answers, sends, hangups, faults>>

\* Mutant: a failed delivery is settled as accepted.
SettledAccepted(q) == "accepted"
Settled(q) == IF At(q, "accept") THEN "accepted" ELSE "failed"

\* Only a received row is settled; another answer of the store is a conflict.
TransitionWebhookDelivery(q) ==
    /\ req[q].pc \in {"accept", "fail"}
    /\ LET d == req[q].delivery IN
         /\ row' = IF row[d] = "received" THEN [row EXCEPT ![d] = Settled(q)] ELSE row
         /\ Answer(q, IF At(q, "accept") /\ row[d] = "received" THEN "accepted" ELSE "error")
    /\ UNCHANGED <<runs, counters, hurt>>

\* The answer is lost and the request's later store calls fail.
HangUp(q) ==
    /\ ~At(q, "free") /\ hangups < MaxHangups
    /\ hangups' = hangups + 1
    /\ hurt' = hurt \cup {req[q].delivery}
    /\ req' = [req EXCEPT ![q] = Free]
    /\ UNCHANGED <<row, runs, answers, sends, errors, faults>>

Crash ==
    /\ faults < MaxFaults /\ faults' = faults + 1
    /\ hurt' = hurt \cup {req[q].delivery : q \in {r \in Requests : ~At(r, "free")}}
    /\ req' = [q \in Requests |-> Free]
    /\ UNCHANGED <<row, runs, answers, sends, errors, hangups>>

Handle(q) ==
    \/ RecordWebhookDelivery(q) \/ MatchPolicy(q)
    \/ EnqueueTriggered(q) \/ TransitionWebhookDelivery(q)

Next ==
    \/ Crash
    \/ \E q \in Requests : Handle(q) \/ HangUp(q) \/ \E d \in Deliveries : Send(q, d)

Spec == Init /\ [][Next]_vars

-----------------------------------------------------------------------------
(* Properties *)

Quiet(d) == \A q \in Requests : req[q].delivery # d

\* One request at most works for a delivery, and only while its row is
\* received.
DeliveryTypeOK ==
    /\ row \in [Deliveries -> {"absent", "received", "accepted", "failed"}]
    /\ \A q, r \in Requests :
         /\ req[q].delivery \in Deliveries /\ req[r].delivery = req[q].delivery
         /\ ~At(q, "record") /\ ~At(r, "record")
         => q = r
    /\ \A q \in Requests : req[q].pc \in {"match", "enqueue", "accept", "fail"} =>
         row[req[q].delivery] = "received"

\* A delivery starts one run at most, however often and however close
\* together it is sent (TestManagerCreateStoresOnlyTokenHashAndDeliversOnce).
DeliveredOnce == \A d \in Deliveries : runs[d] <= 1

\* What the row says of a settled delivery is what happened; only that of a
\* workflow with a concurrency group may be failed and have its run
\* (enqueueTriggered supersedes when the run is queued).
SettledRowsAreHonest ==
    \A d \in Deliveries :
        /\ row[d] = "accepted" => (runs[d] = 1 <=> d \in Wanted)
        /\ row[d] = "failed" => (runs[d] = 0 \/ d \in Grouped)

\* An event that the provider may forget has started its run; but a delivery
\* that failed or was cut off is known from then on, and sending it again is
\* answered as a duplicate: then its row says that it was not accepted
\* (compatibility/registry.go: "signed endpoints apply workflow admission and
\* enqueue deduplicated push or pull-request runs").
AnsweredEventsAreRun ==
    \A d \in Wanted :
        (Quiet(d) /\ answers[d] \cap {"accepted", "duplicate"} # {}) =>
            \/ runs[d] = 1
            \/ d \in hurt /\ row[d] # "accepted" /\ "accepted" \notin answers[d]
=============================================================================
