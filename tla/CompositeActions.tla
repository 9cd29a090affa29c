-------------------------- MODULE CompositeActions --------------------------
(***************************************************************************)
(* How the steps of a GitHub job that use an action of the sources become  *)
(* the steps of that action (execution/composite_action.go).  The steps of *)
(* an action are read by what the step that uses it passes, their ids and  *)
(* the references to them are given a scope of their own, and a last step  *)
(* maps the outputs of the action for the step that used it.               *)
(* A definition marked "Mutant" is a bug that could have been made in the  *)
(* next one; no specification uses it.                                     *)
(***************************************************************************)
EXTENDS Integers, Sequences, FiniteSets, SequencesExt, FiniteSetsExt, Functions

CONSTANTS
    None,
    ActionProjects,     \* [steps, actions]: the steps of a job, and the actions by name
    MaxDepth,           \* maxCompositeActionDepth
    MaxUnique           \* maxCompositeActionUnique

(***************************************************************************)
(* An action is [inputs, outputs, steps]: an input is [required, default], *)
(* an output a text.  A step is [id, uses, with, env, cond, run, lax]: it  *)
(* uses the action of that name, or None and runs a text; its condition is *)
(* the conjunction of a sequence of texts.  A text is ("text", x, 0), the  *)
(* expression ("input", name, 0), the output ("step", id, scope) of a      *)
(* step, or Null.  The scope of what the workflow wrote is 0.  An expanded *)
(* step also has its place, the indices that lead to it, which only the    *)
(* properties read.                                                        *)
(***************************************************************************)

VARIABLES
    sources,
    frames,             \* the actions being expanded, the innermost last
    sequence,           \* scopes given
    unique,             \* the actions that were used
    outcome             \* "", "ok" or why the workflow was refused

vars == <<sources, frames, sequence, unique, outcome>>

Null == <<"null", "", 0>>
NoId == <<"", 0>>

Init ==
    /\ sources \in ActionProjects
    /\ frames = <<[action |-> "", scope |-> 0, caller |-> None, place |-> <<>>, next |-> 1,
                   todo |-> [i \in DOMAIN sources.steps |-> [sources.steps[i] EXCEPT !.id = <<@, 0>>]], done |-> <<>>]>>
    /\ sequence = 0 /\ unique = {} /\ outcome = ""

-----------------------------------------------------------------------------
(* Texts *)

\* resolveCompositeInputs: what is passed need not be declared.
InputsOf(step, inputs) ==
    [n \in DOMAIN step.with \cup DOMAIN inputs |->
        IF n \in DOMAIN step.with THEN step.with[n]
        ELSE IF inputs[n].default # Null THEN inputs[n].default ELSE <<"text", "", 0>>]

InputsGiven(step, inputs) ==
    \A n \in DOMAIN inputs : n \in DOMAIN step.with \/ inputs[n].default # Null \/ ~inputs[n].required

\* resolveCompositeString
Known(text, inputs) == text[1] = "input" => text[2] \in DOMAIN inputs
Resolved(text, inputs) == IF text[1] = "input" THEN inputs[text[2]] ELSE text

\* rewriteCompositeStepOutputString
Scoped(text, ids, scope) ==
    IF text[1] = "step" /\ text[2] \in ids /\ text[3] = 0 THEN <<"step", text[2], scope>> ELSE text

IdsOf(action) == {action.steps[i].id : i \in DOMAIN action.steps} \ {""}

Texts(step) == {step.run} \cup Range(step.cond) \cup Range(step.env) \cup Range(step.with)

\* mergeCompositeEnvironment
Merged(parent, child) ==
    [n \in DOMAIN parent \cup DOMAIN child |-> IF n \in DOMAIN child THEN child[n] ELSE parent[n]]

\* Mutant: the variables of the caller prevail.
ChildOfCaller(template, caller, inputs, ids, scope, action) ==
    LET Read(text) == Scoped(Resolved(text, inputs), ids, scope)
        Each(f) == [n \in DOMAIN f |-> Read(f[n])]
    IN [template EXCEPT !.id = IF @ = "" THEN NoId ELSE <<@, scope>>,
            !.run = Read(@), !.with = Each(@), !.cond = caller.cond \o [i \in DOMAIN @ |-> Read(@[i])],
            !.env = Merged(Merged(Each(@), caller.env), "path" :> <<"text", action, 0>>)]

\* resolveCompositeStep, rewriteCompositeStepOutputs, and what the step takes
\* from the one that uses its action: its condition and its variables.  A
\* reference that came in as an input is rewritten like one of the action.
Child(template, caller, inputs, ids, scope, action) ==
    LET Read(text) == Scoped(Resolved(text, inputs), ids, scope)
        Each(f) == [n \in DOMAIN f |-> Read(f[n])]
    IN [template EXCEPT !.id = IF @ = "" THEN NoId ELSE <<@, scope>>,
            !.run = Read(@), !.with = Each(@), !.cond = caller.cond \o [i \in DOMAIN @ |-> Read(@[i])],
            !.env = Merged(Merged(caller.env, Each(@)), "path" :> <<"text", action, 0>>)]

-----------------------------------------------------------------------------
(* Expansion *)

Top == Last(frames)

Refuse(why) ==
    /\ outcome' = why
    /\ UNCHANGED <<sources, frames, sequence, unique>>

\* normalizeCompositeReference, loadManifest
Loads(name) == name \in DOMAIN sources.actions

\* The checks of expandAction, in their order
Refusal(step) ==
    CASE Len(frames) > MaxDepth                                  -> "depth"
      [] step.lax                                                -> "unsupported"
      [] step.uses \in {frames[i].action : i \in DOMAIN frames}  -> "cycle"
      [] step.uses \notin unique /\ Cardinality(unique) >= MaxUnique -> "too many"
      [] ~Loads(step.uses)                                       -> "no action"
      [] sources.actions[step.uses].steps = <<>>                 -> "no steps"
      [] ~InputsGiven(step, sources.actions[step.uses].inputs)   -> "input"
      [] OTHER                                                   -> ""

\* The checks of the steps of an action
Proper(action, inputs) ==
    /\ \A i \in DOMAIN action.steps : \A text \in Texts(action.steps[i]) : Known(text, inputs)
    /\ \A i, j \in DOMAIN action.steps : action.steps[i].id = action.steps[j].id => i = j \/ action.steps[i].id = ""

\* A step that uses no action of the sources is left as it is.
Keep ==
    /\ outcome = "" /\ Top.todo # <<>> /\ Head(Top.todo).uses = None
    /\ frames' = Front(frames) \o
            <<[Top EXCEPT !.todo = Tail(@), !.next = @ + 1,
                   !.done = Append(@, [step |-> Head(Top.todo), place |-> Append(Top.place, Top.next),
                                       outputs |-> [n \in {} |-> Null]])]>>
    /\ UNCHANGED <<sources, sequence, unique, outcome>>

\* Mutant: the scope is the depth.
ScopeByDepth == Len(frames)

ScopeBySequence == sequence + 1

Enter ==
    /\ outcome = "" /\ Top.todo # <<>> /\ Head(Top.todo).uses # None
    /\ LET step == Head(Top.todo)
           action == sources.actions[step.uses]
           inputs == InputsOf(step, action.inputs)
       IN IF Refusal(step) # ""
          THEN Refuse(Refusal(step))
          ELSE IF ~Proper(action, inputs)
          THEN Refuse("steps")
          ELSE /\ sequence' = sequence + 1
               /\ unique' = unique \cup {step.uses}
               /\ frames' = Append(frames,
                      [action |-> step.uses, scope |-> ScopeBySequence, caller |-> step,
                       place |-> Append(Top.place, Top.next), next |-> 1, done |-> <<>>,
                       todo |-> [i \in DOMAIN action.steps |->
                                    Child(action.steps[i], step, inputs, IdsOf(action), ScopeBySequence, step.uses)]])
               /\ UNCHANGED <<sources, outcome>>

\* Mutant: the outputs name the steps as the action does.
OutputsAsWritten(action, inputs, scope) ==
    [n \in DOMAIN action.outputs |-> Resolved(action.outputs[n], inputs)]

OutputsOf(action, inputs, scope) ==
    [n \in DOMAIN action.outputs |-> Scoped(Resolved(action.outputs[n], inputs), IdsOf(action), scope)]

\* The step that maps the outputs, if there are any and the caller has an id
OutputSteps(action, inputs) ==
    IF DOMAIN action.outputs = {} \/ Top.caller.id[1] = "" THEN <<>>
    ELSE <<[step |-> [Top.caller EXCEPT !.uses = None, !.with = [n \in {} |-> Null], !.run = <<"text", "", 0>>],
            place |-> Append(Top.place, Top.next),
            outputs |-> OutputsOf(action, inputs, Top.scope)]>>

\* The end of expandAction
Leave ==
    /\ outcome = "" /\ Top.todo = <<>> /\ Len(frames) > 1
    /\ LET action == sources.actions[Top.action]
           inputs == InputsOf(Top.caller, action.inputs)
       IN IF \E n \in DOMAIN action.outputs : ~Known(action.outputs[n], inputs)
          THEN Refuse("output")
          ELSE /\ frames' = SubSeq(frames, 1, Len(frames) - 2)
                            \o <<[frames[Len(frames) - 1] EXCEPT !.todo = Tail(@), !.next = @ + 1,
                                     !.done = @ \o Top.done \o OutputSteps(action, inputs)]>>
               /\ UNCHANGED <<sources, sequence, unique, outcome>>

Finish ==
    /\ outcome = "" /\ Top.todo = <<>> /\ Len(frames) = 1
    /\ outcome' = "ok"
    /\ UNCHANGED <<sources, frames, sequence, unique>>

Next == Keep \/ Enter \/ Leave \/ Finish

Spec == Init /\ [][Next]_vars

-----------------------------------------------------------------------------
(* Properties *)

ActionsTypeOK ==
    /\ sources \in ActionProjects /\ sequence \in Nat
    /\ unique \subseteq DOMAIN sources.actions /\ Cardinality(unique) <= MaxUnique
    /\ Len(frames) \in 1..(MaxDepth + 1)
    /\ \A i, j \in DOMAIN frames : frames[i].action = frames[j].action => i = j

Earlier(p, q) ==
    \/ p # q /\ IsPrefix(p, q)
    \/ \E i \in 1..Min({Len(p), Len(q)}) : p[i] < q[i] /\ \A j \in 1..(i - 1) : p[j] = q[j]

StepsIn(name) == IF name = "" THEN sources.steps ELSE sources.actions[name].steps

\* The ways through the actions: the indices of the steps that use them, with
\* the actions they use, from the workflow on.
Ways[n \in Nat] ==
    IF n = 0 THEN {[place |-> <<>>, via |-> <<"">>]}
    ELSE UNION {{[place |-> Append(w.place, i), via |-> Append(w.via, StepsIn(Last(w.via))[i].uses)] :
                    i \in {j \in DOMAIN StepsIn(Last(w.via)) : StepsIn(Last(w.via))[j].uses # None}} : w \in Ways[n - 1]}

AllWays == UNION {Ways[n] : n \in 0..MaxDepth}
Uses == {w \in AllWays : w.place # <<>>}
Leaves ==
    UNION {{[place |-> Append(w.place, i), via |-> w.via] :
                i \in {j \in DOMAIN StepsIn(Last(w.via)) : StepsIn(Last(w.via))[j].uses = None}} : w \in AllWays}

\* The n-th step on a way, and the number of the use that the n-th action of a
\* way is entered by, in the order in which a reader meets the uses
StepOn(way, n) == StepsIn(way.via[n])[way.place[n]]
NumberOf(way, n) ==
    LET use == SubSeq(way.place, 1, n - 1)
    IN IF use = <<>> THEN 0 ELSE Cardinality({w \in Uses : w.place = use \/ Earlier(w.place, use)})

IdsIn(name) == {StepsIn(name)[i].id : i \in DOMAIN StepsIn(name)} \ {""}

\* Where a text in the n-th action of a way comes from: an input is what the use
\* passes, as it is written there.
Origin(way, n, text) ==
    LET Back[i \in Nat] ==
            IF i = 0 THEN [text |-> text, level |-> n]
            ELSE LET at == Back[i - 1]
                 IN IF at.text[1] # "input" \/ at.level = 1 THEN at
                    ELSE LET inputs == sources.actions[way.via[at.level]].inputs
                         IN [text |-> InputsOf(StepOn(way, at.level - 1), inputs)[at.text[2]], level |-> at.level - 1]
    IN Back[n]

\* What it means in the job: a step is the one of the action that names it, in
\* the use that the way goes through.
Meaning(way, n, text) ==
    LET origin == Origin(way, n, text)
    IN Scoped(origin.text, IdsIn(way.via[origin.level]), NumberOf(way, origin.level))

\* A step that was named outside, and that an action on the way has one of
Captured(way, n, text, value) ==
    LET meaning == Meaning(way, n, text)
    IN /\ meaning[1] = "step" /\ meaning[3] = 0
       /\ \E m \in 2..n : meaning[2] \in IdsIn(way.via[m]) /\ value = <<"step", meaning[2], NumberOf(way, m)>>

Means(way, n, text, value) == value = Meaning(way, n, text) \/ Captured(way, n, text, value)

PlacesOfOutputs ==
    {Append(w.place, Len(StepsIn(Last(w.via))) + 1) :
        w \in {u \in Uses : DOMAIN sources.actions[Last(u.via)].outputs # {} /\ StepOn(u, Len(u.place)).id # ""}}

\* The expanded job has each step that its actions have, once for each use, in
\* the order in which they are written, and the outputs of a use after its steps
\* (expandSteps, expandAction).
EveryStepInItsPlace ==
    outcome = "ok" =>
        /\ {Top.done[i].place : i \in DOMAIN Top.done} = {l.place : l \in Leaves} \cup PlacesOfOutputs
        /\ \A i, j \in DOMAIN Top.done : i < j => Earlier(Top.done[i].place, Top.done[j].place)

\* What a step reads is what its author wrote: an input is what the step that
\* uses the action passed, and the output of a step is that of the step of the
\* same use.  The condition of a step holds only if those of the uses around it
\* do, and its own variables prevail over theirs.  One reading is not kept: a
\* step of the workflow that is passed as an input is taken for the step of the
\* same id of the action (resolveCompositeStep, rewriteCompositeStepOutputs).
StepsReadAsWritten ==
    outcome = "ok" =>
        \A leaf \in Leaves : \A i \in DOMAIN Top.done : Top.done[i].place = leaf.place =>
            LET step == Top.done[i].step
                n == Len(leaf.place)
                From[m \in Nat] == IF m = 0 THEN 0 ELSE From[m - 1] + Len(StepOn(leaf, m).cond)
            IN /\ Means(leaf, n, StepOn(leaf, n).run, step.run)
               /\ Len(step.cond) = From[n]
               /\ \A m \in 1..n : \A j \in DOMAIN StepOn(leaf, m).cond :
                    Means(leaf, m, StepOn(leaf, m).cond[j], step.cond[From[m - 1] + j])
               /\ \A m \in 1..n : \A v \in DOMAIN StepOn(leaf, m).env :
                    (\A o \in (m + 1)..n : v \notin DOMAIN StepOn(leaf, o).env) =>
                        Means(leaf, m, StepOn(leaf, m).env[v], step.env[v])
               /\ n > 1 => step.env["path"] = <<"text", leaf.via[n], 0>>

\* The outputs of a use are those its action declares, of the steps of that use
\* (expandAction).
OutputsAreOfTheUse ==
    outcome = "ok" =>
        \A use \in Uses : \A i \in DOMAIN Top.done :
            (Top.done[i].place = Append(use.place, Len(StepsIn(Last(use.via))) + 1)) =>
                LET n == Len(use.via)
                    outputs == sources.actions[Last(use.via)].outputs
                IN /\ DOMAIN Top.done[i].outputs = DOMAIN outputs
                   /\ \A o \in DOMAIN outputs : Means(use, n, outputs[o], Top.done[i].outputs[o])
                   /\ Top.done[i].step.id = <<StepOn(use, n - 1).id, NumberOf(use, n - 1)>>

\* No two steps of an expanded job share an id, if none of the workflow do.
IdsAreDistinct ==
    \A i, j \in DOMAIN Top.done :
        (Top.done[i].step.id = Top.done[j].step.id /\ Top.done[i].step.id[1] # "" /\ Top.done[i].step.id[2] # 0) => i = j
=============================================================================
