---------------------------- MODULE JobDecision ----------------------------
(***************************************************************************)
(* Whether a job starts, waits for a person or is skipped                  *)
(* (execution/manager.go, evaluateJobExecution): its needs, its condition, *)
(* its rules in order, its only and except selectors and its "when".       *)
(* A condition is the answer it gives: "" is none, "true", "false" and     *)
(* "error" name no status function, "always" and "failure" do, and what    *)
(* could not be compiled is "unsupported".                                 *)
(* A definition marked "Mutant" is a bug that could have been made in the  *)
(* next one; no specification uses it.                                     *)
(***************************************************************************)
EXTENDS Integers, Sequences, FiniteSets, SequencesExt

CONSTANTS
    Inputs  \* what is tried: [needs, contract, run], where
            \* needs is a sequence of [status, allowed, optional],
            \* contract the job as it was frozen: [present, condition, rules, only,
            \* except, when, allow, play, blocking], and run is [ref, trigger]

(***************************************************************************)
(* What is frozen of a need, a rule, a selector and a job                  *)
(***************************************************************************)
Condition == {"", "true", "false", "error", "always", "failure", "unsupported"}
Need == [status : STRING, allowed : BOOLEAN, optional : BOOLEAN]
Rule == [condition : Condition, when : STRING, allow : BOOLEAN, files : BOOLEAN]
Selector == [given : BOOLEAN, refs : SUBSET STRING]
Contract ==
    [present : BOOLEAN, condition : Condition, rules : Seq(Rule), only : Selector, except : Selector,
     when : STRING, allow : BOOLEAN, play : BOOLEAN, blocking : BOOLEAN]

Sensible == \A i \in Inputs : i.needs \in Seq(Need) /\ i.contract \in Contract

VARIABLES
    needs, contract, run,
    decision    \* what evaluateJobExecution returns

vars == <<needs, contract, run, decision>>

-----------------------------------------------------------------------------
(* Needs.  "missing" is a job that has no status yet. *)

Tolerable(n) ==
    \/ n.status = "succeeded"
    \/ n.status \in {"failed", "manual"} /\ n.allowed
    \/ n.status = "skipped" /\ n.optional

\* dependencyState
Ready(ns) == \A i \in DOMAIN ns : ns[i].status # "missing"
Successful(ns) == \A i \in DOMAIN ns : ns[i].status # "missing" /\ Tolerable(ns[i])
SomeFailed(ns) == \E i \in DOMAIN ns : ns[i].status = "failed" /\ ~Tolerable(ns[i])

-----------------------------------------------------------------------------
(* Conditions *)

UsesStatusFunction(condition) == condition \in {"always", "failure"}

\* evaluateConditionContract: what cannot be evaluated does not hold.
Holds(condition, ns) ==
    CASE condition = "unsupported" -> FALSE
      [] condition = "" -> Successful(ns)
      [] condition = "failure" -> SomeFailed(ns)
      [] condition = "always" -> TRUE
      [] OTHER -> Successful(ns) /\ condition = "true"

-----------------------------------------------------------------------------
(* Rules and selectors *)

RefKind == "branches" :> "branch" @@ "tags" :> "tag"

\* matchesRefSelector: no selector matches everything.
Selected(selectors, r) ==
    \/ selectors = {}
    \/ \E s \in selectors :
         CASE s \in DOMAIN RefKind -> r.ref.kind = RefKind[s]
           [] s = "merge_requests" -> r.trigger \in {"pull_request", "merge_request"}
           [] s = "schedules" -> r.trigger = "schedule"
           [] OTHER -> s = r.ref.name

\* A rule decides if it matches, cannot be compiled or needs the files of the
\* checkout.
\* Mutant: a rule that cannot be compiled is passed over.
DecidesTolerant(rule, ns) == rule.files \/ Holds(rule.condition, ns)
Decides(rule, ns) == rule.files \/ rule.condition = "unsupported" \/ Holds(rule.condition, ns)

\* The place of the first rule that decides, if there is one
Deciding(rules, ns) ==
    {i \in DOMAIN rules : Decides(rules[i], ns) /\ \A j \in 1..(i - 1) : ~Decides(rules[j], ns)}

Skip(allow) == [run |-> FALSE, manual |-> FALSE, blocking |-> FALSE, allow |-> allow]
Start(allow) == [Skip(allow) EXCEPT !.run = TRUE]

\* resolvePlayedManualJob
Wait(c, allow) ==
    IF c.play THEN Start(~c.blocking) ELSE [Skip(allow) EXCEPT !.manual = TRUE, !.blocking = ~allow]

ByRule(c, rule) ==
    IF rule.files \/ rule.condition = "unsupported" THEN Skip(c.allow)
    ELSE CASE rule.when = "manual" -> Wait(c, rule.allow)
           [] rule.when \in {"never", "delayed"} -> Skip(c.allow)
           [] OTHER -> Start(c.allow \/ rule.allow)

ByRules(c, ns) ==
    LET found == Deciding(c.rules, ns)
    IN IF found = {} THEN Skip(c.allow) ELSE ByRule(c, c.rules[CHOOSE i \in found : TRUE])

ByWhen(c) ==
    CASE c.when = "manual" -> Wait(c, c.allow)
      [] c.when \in {"never", "delayed"} -> Skip(c.allow)
      [] OTHER -> Start(c.allow)

Unselected(c, r) ==
    \/ c.only.given /\ ~Selected(c.only.refs, r)
    \/ c.except.given /\ Selected(c.except.refs, r)

\* Without a contract its needs alone decide.
Refused(c, ns) == ~Ready(ns) \/ ~Holds(IF c.present THEN c.condition ELSE "", ns)

Evaluate(c, ns, r) ==
    IF Refused(c, ns) THEN Skip(c.allow)
    ELSE CASE ~c.present -> Start(c.allow)
           [] c.present /\ c.rules # <<>> -> ByRules(c, ns)
           [] OTHER -> IF Unselected(c, r) THEN Skip(c.allow) ELSE ByWhen(c)

-----------------------------------------------------------------------------
Init ==
    /\ \E i \in Inputs : needs = i.needs /\ contract = i.contract /\ run = i.run
    /\ decision = Skip(FALSE)

\* The executor asks for a job that has not ended yet.
Decide ==
    /\ decision = Skip(FALSE)
    /\ decision' = Evaluate(contract, needs, run)
    /\ UNCHANGED <<needs, contract, run>>

Next == Decide

Spec == Init /\ [][Next]_vars

-----------------------------------------------------------------------------
(* Properties *)

Conditions(c) == {c.condition} \cup {c.rules[i].condition : i \in DOMAIN c.rules}

\* A need that ends worse never makes a job start: whoever starts behind a
\* need that went wrong would have started had it succeeded, unless one of its
\* conditions asks for the status (dependencyState, evaluateConditionContract).
WorseNeedsStartNothing ==
    (contract.present => \A q \in Conditions(contract) : ~UsesStatusFunction(q)) =>
        \A i \in DOMAIN needs :
            Evaluate(contract, needs, run).run
                => Evaluate(contract, [needs EXCEPT ![i].status = "succeeded"], run).run

\* Without a status function in its condition a job starts, or asks to be
\* played, only when each need succeeded, failed or waits with leave to do so,
\* or was skipped and is optional.
StartsBehindGoodNeeds ==
    LET d == Evaluate(contract, needs, run)
        excused(n) == (n.allowed /\ n.status \in {"failed", "manual"}) \/ (n.optional /\ n.status = "skipped")
    IN d.run \/ d.manual =>
        \/ contract.present /\ UsesStatusFunction(contract.condition)
        \/ \A i \in DOMAIN needs : needs[i].status = "succeeded" \/ excused(needs[i])

\* What this program does not understand takes leave away and never gives it:
\* no job starts or waits that would not, had the condition or the rule been
\* understood (the fail-closed returns of evaluateJobExecution).
UnsupportedFailsClosed ==
    LET d == Evaluate(contract, needs, run)
        unread(q) == [contract EXCEPT !.condition = q]
        unreadRule(i) == [contract EXCEPT !.rules[i].condition = "unsupported"]
        unreadFiles(i) == [contract EXCEPT !.rules[i].files = TRUE]
        stricter(e) == (e.run => d.run) /\ (e.manual => d.manual)
    IN contract.present =>
        /\ stricter(Evaluate(unread("unsupported"), needs, run))
        /\ \A i \in DOMAIN contract.rules :
              /\ stricter(Evaluate(unreadRule(i), needs, run))
              /\ stricter(Evaluate(unreadFiles(i), needs, run))

\* A rule that matches decides for every rule behind it, and rules decide
\* whatever "when", only and except say (first match).
FirstMatchDecides ==
    contract.present =>
        \A i \in DOMAIN contract.rules :
            Holds(contract.rules[i].condition, needs) =>
                Evaluate(contract, needs, run)
                    = Evaluate([contract EXCEPT !.rules = SubSeq(@, 1, i), !.when = "never",
                                                !.only.given = FALSE, !.except.given = FALSE], needs, run)

\* A person is asked once: a job that was played starts if it would have been
\* asked for, and otherwise is decided as if it had not been played; its
\* failure is tolerated exactly if it did not block the run
\* (resolvePlayedManualJob).
PlayedOnce ==
    LET asked == Evaluate([contract EXCEPT !.play = FALSE], needs, run)
        played == Evaluate([contract EXCEPT !.play = TRUE], needs, run)
    IN /\ ~played.manual /\ ~(asked.run /\ asked.manual)
       /\ IF asked.manual THEN played.run /\ played.allow = ~contract.blocking ELSE played = asked
=============================================================================
