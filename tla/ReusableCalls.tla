---------------------------- MODULE ReusableCalls ----------------------------
(***************************************************************************)
(* How the jobs of a GitHub workflow that call another workflow of the     *)
(* project become the jobs of that workflow (parsers/github.go;            *)
(* execution/reusable_workflow.go).  The callers of a file are expanded in *)
(* the order of their keys, and the callers of a called file before its    *)
(* own jobs are put in the place of the job that called it.                *)
(* A definition marked "Mutant" is a bug that could have been made in the  *)
(* next one; no specification uses it.                                     *)
(***************************************************************************)
EXTENDS Integers, Sequences, FiniteSets, SequencesExt, FiniteSetsExt, Functions

CONSTANTS
    None,
    CallProjects,       \* projects: file -> workflow, for the files they have
    Root,               \* the workflow that is discovered
    MaxDepth,           \* maxReusableWorkflowDepth
    MaxUnique           \* maxReusableWorkflows

(***************************************************************************)
(* A workflow is [contract, env, jobs].  Its contract, None if it is not   *)
(* to be called, is [inputs, secrets]: for an input [required, kind,       *)
(* default], for a secret whether it is required.  A key is a sequence of  *)
(* numbers: "build/test" is the key of the job "test" of the workflow that *)
(* "build" calls.  A job is [needs, cond, env, lax, matrix, call], its     *)
(* condition the conjunction of a sequence of texts, its call None or      *)
(* [file, with, inherit, secrets].  A text is ("text", x), the expression  *)
(* ("input", name) or ("secret", name), or Null.                           *)
(***************************************************************************)

VARIABLES
    workflows,
    frames,             \* the workflows being expanded, the innermost last
    unique,             \* the workflows that were called
    outcome             \* "", "ok" or why the workflow was refused

vars == <<workflows, frames, unique, outcome>>

Null == <<"null", "">>
Text(x) == <<"text", x>>
Literal(text) == text[1] = "text"

Earlier(k, l) ==
    \/ k # l /\ IsPrefix(k, l)
    \/ \E i \in 1..Min({Len(k), Len(l)}) : k[i] < l[i] /\ \A j \in 1..(i - 1) : k[j] = l[j]

\* The keys are taken before the first call is expanded.
Callers(jobs) == SetToSortSeq({k \in DOMAIN jobs : jobs[k].call # None}, Earlier)

Frame(file, by) ==
    [file |-> file, by |-> by, jobs |-> workflows[file].jobs, todo |-> Callers(workflows[file].jobs),
     replaced |-> [k \in {} |-> {}]]

\* GithubParser.Validate, and the name of a workflow is not modelled.
Valid(workflow) ==
    /\ DOMAIN workflow.jobs # {}
    /\ \A k \in DOMAIN workflow.jobs : workflow.jobs[k].needs \subseteq DOMAIN workflow.jobs

Init ==
    /\ workflows \in CallProjects /\ Valid(workflows[Root])
    /\ frames = <<Frame(Root, <<>>)>> /\ unique = {} /\ outcome = ""

-----------------------------------------------------------------------------
(* What a call passes *)

\* Mutant: a null that is passed counts as nothing passed.
PassedNoNull(call, inputs, n) ==
    IF n \in DOMAIN call.with /\ call.with[n] # Null THEN call.with[n] ELSE inputs[n].default

Passed(call, inputs, n) == IF n \in DOMAIN call.with THEN call.with[n] ELSE inputs[n].default

ZeroOf(kind) == CASE kind = "boolean" -> Text("false") [] kind = "number" -> Text("0") [] OTHER -> Text("")

\* normalizeReusableInput: an expression is taken as it is.
Fits(text, kind) ==
    Literal(text) => CASE kind = "boolean" -> text[2] \in {"true", "false", "0", "1"}
                       [] kind = "number"  -> text[2] \in {"0", "1"}
                       [] OTHER            -> TRUE

Normal(text, kind) ==
    IF Literal(text) /\ kind = "boolean" THEN Text(IF text[2] \in {"true", "1"} THEN "true" ELSE "false")
    ELSE text

\* resolveReusableInputs
InputsAccepted(call, inputs) ==
    /\ DOMAIN call.with \subseteq DOMAIN inputs
    /\ \A n \in DOMAIN inputs :
        LET text == Passed(call, inputs, n)
        IN IF text = Null THEN ~inputs[n].required ELSE Fits(text, inputs[n].kind)

InputsOf(call, inputs) ==
    [n \in DOMAIN inputs |->
        LET text == Passed(call, inputs, n)
        IN IF text = Null THEN ZeroOf(inputs[n].kind) ELSE Normal(text, inputs[n].kind)]

\* resolveReusableSecrets
SecretsAccepted(call, secrets) ==
    \/ call.inherit
    \/ /\ DOMAIN call.secrets \subseteq DOMAIN secrets
       /\ \A n \in DOMAIN secrets : secrets[n] => n \in DOMAIN call.secrets

SecretsOf(call, secrets) ==
    [n \in DOMAIN secrets |-> IF n \in DOMAIN call.secrets THEN call.secrets[n] ELSE Text("")]

\* resolveReusableJobTemplates replaces the inputs first, and looks for secrets
\* in the result.
WithInputs(text, inputs) ==
    IF text[1] = "input" /\ text[2] \in DOMAIN inputs THEN inputs[text[2]] ELSE text

Replaced(text, call, contract) ==
    LET given == WithInputs(text, InputsOf(call, contract.inputs))
        secrets == SecretsOf(call, contract.secrets)
    IN IF given[1] = "secret" /\ ~call.inherit /\ given[2] \in DOMAIN secrets THEN secrets[given[2]] ELSE given

Declared(text, call, contract) ==
    /\ text[1] = "input" => text[2] \in DOMAIN contract.inputs
    /\ LET given == WithInputs(text, InputsOf(call, contract.inputs))
       IN given[1] = "secret" => call.inherit \/ given[2] \in DOMAIN contract.secrets

-----------------------------------------------------------------------------
(* Expansion *)

Top == Last(frames)
Ancestors == {frames[i].file : i \in DOMAIN frames}

\* resolve: the file of a call is a workflow of the project.
Resolves(call) == call.file \in DOMAIN workflows

\* readReusableWorkflowMetadata
Callable(call) == workflows[call.file].contract # None

\* The checks of expand, in their order
Refusal(job) ==
    LET call == job.call
    IN CASE job.matrix                                     -> "matrix"
         [] Len(frames) > MaxDepth                         -> "depth"
         [] ~Resolves(call)                                -> "no file"
         [] call.file \in Ancestors                        -> "cycle"
         [] Cardinality(unique \cup {call.file}) > MaxUnique -> "too many"
         [] ~Callable(call)                                -> "not callable"
         [] ~InputsAccepted(call, workflows[call.file].contract.inputs) -> "inputs"
         [] ~SecretsAccepted(call, workflows[call.file].contract.secrets) -> "secrets"
         [] ~Valid(workflows[call.file])                       -> "invalid"
         [] OTHER                                          -> ""

Enter ==
    /\ outcome = "" /\ Top.todo # <<>>
    /\ LET job == Top.jobs[Head(Top.todo)]
       IN IF Refusal(job) # ""
          THEN outcome' = Refusal(job) /\ UNCHANGED <<frames, unique>>
          ELSE /\ frames' = Append(frames, Frame(job.call.file, Head(Top.todo)))
               /\ unique' = unique \cup {job.call.file}
               /\ UNCHANGED outcome
    /\ UNCHANGED workflows

\* Mutant: a need of a call becomes a need of the first of its last jobs.
RewrittenToOne(frame) ==
    [k \in DOMAIN frame.jobs |->
        [frame.jobs[k] EXCEPT !.needs =
            UNION {IF n \in DOMAIN frame.replaced
                   THEN {t \in frame.replaced[n] : \A u \in frame.replaced[n] \ {t} : Earlier(t, u)}
                   ELSE {n} : n \in @}]]

\* rewriteReusableDependencies: a call is needed by its last jobs.
Rewritten(frame) ==
    [k \in DOMAIN frame.jobs |->
        [frame.jobs[k] EXCEPT !.needs =
            UNION {IF n \in DOMAIN frame.replaced THEN frame.replaced[n] ELSE {n} : n \in @}]]

Terminals(jobs) == DOMAIN jobs \ UNION {jobs[k].needs : k \in DOMAIN jobs}

\* mergeReusableEnvironment
Merged(global, local) ==
    [n \in DOMAIN global \cup DOMAIN local |-> IF n \in DOMAIN local THEN local[n] ELSE global[n]]

\* The texts of a job, those of the environment of its workflow included
Texts(job, env) == Range(job.cond) \cup Range(Merged(env, job.env))

\* Mutant: the condition of the caller is read in the called workflow.
ChildCombinedFirst(jobs, k, by, caller, workflow) ==
    LET job == jobs[k]
        Read(text) == Replaced(text, caller.call, workflow.contract)
        root == job.needs = {}
    IN [job EXCEPT !.needs = IF root THEN caller.needs ELSE {by \o n : n \in @},
            !.cond = [i \in 1..(Len(caller.cond) + Len(@)) |-> Read((caller.cond \o @)[i])],
            !.env = LET env == Merged(workflow.env, @) IN [n \in DOMAIN env |-> Read(env[n])],
            !.lax = @ \/ (caller.lax /\ k \in Terminals(jobs))]

\* One job of expandReusableCall
Child(jobs, k, by, caller, workflow) ==
    LET job == jobs[k]
        Read(text) == Replaced(text, caller.call, workflow.contract)
        root == job.needs = {}
    IN [job EXCEPT !.needs = IF root THEN caller.needs ELSE {by \o n : n \in @},
            !.cond = caller.cond \o [i \in DOMAIN @ |-> Read(@[i])],
            !.env = LET env == Merged(workflow.env, @) IN [n \in DOMAIN env |-> Read(env[n])],
            !.lax = @ \/ (caller.lax /\ k \in Terminals(jobs))]

Finish ==
    /\ outcome = "" /\ Top.todo = <<>> /\ Len(frames) = 1
    /\ frames' = <<[Top EXCEPT !.jobs = Rewritten(Top)]>>
    /\ outcome' = "ok"
    /\ UNCHANGED <<workflows, unique>>

\* The jobs of the workflow take the place of the job that called it.
Leave ==
    /\ outcome = "" /\ Top.todo = <<>> /\ Len(frames) > 1
    /\ LET jobs == Rewritten(Top)
           by == Top.by
           frame == frames[Len(frames) - 1]
           caller == frame.jobs[by]
           workflow == workflows[Top.file]
           rest == [k \in DOMAIN frame.jobs \ {by} |-> frame.jobs[k]]
           children == [k \in {by \o l : l \in DOMAIN jobs} |->
                            Child(jobs, SubSeq(k, Len(by) + 1, Len(k)), by, caller, workflow)]
       IN IF \E k \in DOMAIN jobs : \E text \in Texts(jobs[k], workflow.env) :
                ~Declared(text, caller.call, workflow.contract)
          THEN outcome' = "undeclared" /\ UNCHANGED frames
          ELSE IF DOMAIN children \cap DOMAIN rest # {}
          THEN outcome' = "conflict" /\ UNCHANGED frames
          ELSE /\ frames' = SubSeq(frames, 1, Len(frames) - 2)
                            \o <<[frame EXCEPT !.jobs = [k \in DOMAIN rest \cup DOMAIN children |->
                                                            IF k \in DOMAIN rest THEN rest[k] ELSE children[k]],
                                     !.todo = Tail(@),
                                     !.replaced = [k \in DOMAIN @ \cup {by} |->
                                         IF k = by THEN {by \o t : t \in Terminals(jobs)} ELSE @[k]]]>>
               /\ UNCHANGED outcome
    /\ UNCHANGED <<workflows, unique>>

Next == Enter \/ Finish \/ Leave

Spec == Init /\ [][Next]_vars

-----------------------------------------------------------------------------
(* Properties *)

CallsTypeOK ==
    /\ workflows \in CallProjects /\ unique \subseteq DOMAIN workflows /\ Cardinality(unique) <= MaxUnique
    /\ Len(frames) \in 1..(MaxDepth + 1)
    /\ \A i, j \in DOMAIN frames : frames[i].file = frames[j].file => i = j
    /\ \A i \in DOMAIN frames : Range(frames[i].todo) \subseteq DOMAIN frames[i].jobs

\* The ways through the files, from the workflow to a job: the keys of the
\* calls and of the job, with the file of each.
Keys == UNION {DOMAIN workflows[f].jobs : f \in DOMAIN workflows}

Chains[n \in Nat] ==
    IF n = 0 THEN {[keys |-> <<>>, via |-> <<Root>>]}
    ELSE {[keys |-> Append(c.keys, k), via |-> Append(c.via, workflows[Last(c.via)].jobs[k].call.file)] :
            <<c, k>> \in {d \in Chains[n - 1] \X Keys :
                            /\ d[2] \in DOMAIN workflows[Last(d[1].via)].jobs
                            /\ workflows[Last(d[1].via)].jobs[d[2]].call # None}}

Leaves ==
    {[keys |-> Append(c.keys, k), via |-> c.via] :
        <<c, k>> \in {d \in (UNION {Chains[n] : n \in 0..MaxDepth}) \X Keys :
                        /\ d[2] \in DOMAIN workflows[Last(d[1].via)].jobs
                        /\ workflows[Last(d[1].via)].jobs[d[2]].call = None}}

KeyOf(leaf) == FoldLeft(LAMBDA a, b : a \o b, <<>>, leaf.keys)
JobAt(leaf, i) == workflows[leaf.via[i]].jobs[leaf.keys[i]]

\* The jobs that come before k, directly or not
Reached(jobs, k) ==
    LET Grow[n \in Nat] ==
            IF n = 0 THEN jobs[k].needs
            ELSE LET grown == Grow[n - 1] IN grown \cup UNION {jobs[m].needs : m \in grown}
    IN Grow[Cardinality(DOMAIN jobs)]

Acyclic(jobs) == \A k \in DOMAIN jobs : k \notin Reached(jobs, k)

\* An accepted workflow has the jobs that its files have, and no others
\* (expandReusableCall).
NoJobIsLost ==
    outcome = "ok" => DOMAIN frames[1].jobs = {KeyOf(leaf) : leaf \in Leaves}

\* A job waits for the jobs its file makes it wait for, and for those its
\* callers wait for: for every job of a workflow that is needed, and for no
\* job of another one.  A cycle in a file is not lost on the way
\* (expandReusableCall, rewriteReusableDependencies).
CallsWaitAsJobs ==
    (outcome = "ok" /\ Acyclic(frames[1].jobs)) =>
        \A leaf \in Leaves :
            LET n == Len(leaf.keys)
                Awaited(other) ==
                    \E i \in 1..Min({n, Len(other.keys)}) :
                        /\ SubSeq(other.keys, 1, i - 1) = SubSeq(leaf.keys, 1, i - 1)
                        /\ other.keys[i] \in Reached(workflows[leaf.via[i]].jobs, leaf.keys[i])
            IN /\ \A i \in 1..n : Acyclic(workflows[leaf.via[i]].jobs)
               /\ Reached(frames[1].jobs, KeyOf(leaf)) = {KeyOf(other) : other \in {o \in Leaves : Awaited(o)}}

\* What a text of the i-th file on the way to a leaf comes to in the workflow
InRoot(leaf, i, text) ==
    LET Up[j \in Nat] ==
            IF j = 0 THEN text
            ELSE Replaced(Up[j - 1], JobAt(leaf, i - j).call, workflows[leaf.via[i - j + 1]].contract)
    IN Up[i - 1]

\* Each text of a job is read in the file that has it: a condition or a
\* variable of a called workflow by what its caller passed, one of the caller
\* by what its own caller passed; the condition of a job holds only if those of
\* its callers do; and a job is allowed to fail only if its file or one of its
\* callers says so (resolveReusableJobTemplates, combineReusableConditions).
TextsKeepTheirFile ==
    outcome = "ok" =>
        \A leaf \in Leaves :
            LET job == frames[1].jobs[KeyOf(leaf)]
                n == Len(leaf.keys)
                Own(i) == JobAt(leaf, i).cond
                Conds[i \in Nat] ==
                    IF i = 0 THEN <<>>
                    ELSE Conds[i - 1] \o [j \in DOMAIN Own(i) |-> InRoot(leaf, i, Own(i)[j])]
            IN /\ job.cond = Conds[n]
               /\ job.lax => \E i \in 1..n : JobAt(leaf, i).lax
               /\ \A v \in DOMAIN JobAt(leaf, n).env : job.env[v] = InRoot(leaf, n, JobAt(leaf, n).env[v])

\* A variable of an accepted workflow never holds an input of a called one, and
\* what a boolean input was given in so many words is true or false
\* (normalizeReusableInput).
InputsAreResolved ==
    outcome = "ok" =>
        \A leaf \in {l \in Leaves : Len(l.keys) > 1} :
            LET n == Len(leaf.keys)
                env == JobAt(leaf, n).env
                inputs == workflows[leaf.via[n]].contract.inputs
                with == JobAt(leaf, n - 1).call.with
            IN \A v \in DOMAIN env :
                /\ frames[1].jobs[KeyOf(leaf)].env[v][1] # "null"
                /\ (env[v][1] = "input" /\ env[v][2] \in DOMAIN with /\ with[env[v][2]] = Null) =>
                        frames[1].jobs[KeyOf(leaf)].env[v] = ZeroOf(inputs[env[v][2]].kind)
                /\ (env[v][1] = "input" /\ inputs[env[v][2]].kind = "boolean" /\ env[v][2] \in DOMAIN with
                        /\ Literal(with[env[v][2]])) =>
                        frames[1].jobs[KeyOf(leaf)].env[v] \in {Text("true"), Text("false")}
=============================================================================
