--------------------------- MODULE MCComponents ---------------------------
(***************************************************************************)
(* The parts of the program that share no state with each other: those     *)
(* that turn a definition into decisions (jobs, conditions, schedules,     *)
(* graphs) and those that serve one job or one request.  A behaviour       *)
(* follows one part from one input, chosen at the start, so all parts use  *)
(* the same variables: each as many as it has, in the order of its         *)
(* VARIABLES, and the others stay 0.  Those that let something in are in   *)
(* Admission.                                                              *)
(***************************************************************************)
EXTENDS Admission, TLC

CONSTANTS
    KeyOrder, MaxDimensions, MaxVariants, MatrixJobs,
    MinutesPerHour, HoursPerDay, MonthDays, Years, FieldsOf,
    GraphJobs, CopiesGraphs,
    RunJobs, Gone, LocalGraphs, MaxParallel,
    TriedTexts, Lower, Numerals, RegexMatches, Compiles, Inside, Cases,
    Commands, OutputMaxAttempts, MaxSections, MaxAnnotations, OutputMaxFaults,
    Projects, GraphRoot, MaxJobs, GraphMaxDepth, MaxChildren,
    CallProjects, CallsRoot, CallsMaxDepth, CallsMaxUnique,
    ActionProjects, ActionsMaxDepth, ActionsMaxUnique,
    Contracts, StepLists, SessionMaxAttempts, SessionMaxFaults,
    Plans, DefaultRefs, DataMaxFaults,
    Clients, ReleasedRuns, Project, Tags, Commits, FirstTags, Ids, Drafts, Statuses,
    Wanted, Edits, MaxRequests, MaxMoves, MaxTime,
    EventIds, Spans, PageSize, BucketCount, DefaultSpan, MaxNow, MaxPages,
    RunnerJobs, Setups, MaxSeconds, RunnersMaxMishaps,
    Engines, StepJobs,
    RuntimePlans, MaxOutputs, MaxSummaries, RuntimeMaxMishaps

VARIABLES x13, x14, x15, x16, x17, x18, x19, x20

Matrix == INSTANCE MatrixExpansion WITH
    Jobs <- MatrixJobs, job <- x1, variants <- x2, local <- x3, done <- x4
Cron == INSTANCE CronExpression WITH
    expr <- x1, after <- x2
Copies == INSTANCE LineageGraphs WITH
    Jobs <- GraphJobs, Graphs <- CopiesGraphs, deps <- x1, deploys <- x2, commands
    <- x3, src <- x4, tgt <- x5
Local == INSTANCE LocalRun WITH
    Jobs <- RunJobs, Graphs <- LocalGraphs, flags <- x1, needs <- x2, allow <- x3,
    phase <- x4, inDegree <- x5, queue <- x6, sorted <- x7, levels <- x8, remaining
    <- x9, current <- x10, waiting <- x11, running <- x12, started <- x13, ended <-
    x14, failed <- x15, failures <- x16, exit <- x17
Cond == INSTANCE Conditions WITH
    Texts <- TriedTexts, Matches <- RegexMatches, case <- x1, result <- x2,
    tolerated <- x3
Output == INSTANCE StepOutput WITH
    MaxAttempts <- OutputMaxAttempts, MaxFaults <- OutputMaxFaults, place <- x1,
    script <- x2, attempt <- x3, written <- x4, command <- x5, signal <- x6, pipe <-
    x7, wire <- x8, held <- x9, capture <- x10, stopped <- x11, masked <- x12, open
    <- x13, counted <- x14, noted <- x15, log <- x16, sections <- x17, annotations
    <- x18, ended <- x19, faults <- x20
Graph == INSTANCE JobGraph WITH
    Root <- GraphRoot, MaxDepth <- GraphMaxDepth, project <- x1, frames <- x2,
    children <- x3, built <- x4, outcome <- x5, cycle <- x6
Calls == INSTANCE ReusableCalls WITH
    Root <- CallsRoot, MaxDepth <- CallsMaxDepth, MaxUnique <- CallsMaxUnique,
    workflows <- x1, frames <- x2, unique <- x3, outcome <- x4
Actions == INSTANCE CompositeActions WITH
    MaxDepth <- ActionsMaxDepth, MaxUnique <- ActionsMaxUnique, sources <- x1,
    frames <- x2, sequence <- x3, unique <- x4, outcome <- x5
Session == INSTANCE ContainerSession WITH
    MaxAttempts <- SessionMaxAttempts, MaxFaults <- SessionMaxFaults, contract <-
    x1, steps <- x2, attempt <- x3, phase <- x4, which <- x5, containers <- x6,
    networks <- x7, session <- x8, seen <- x9, results <- x10, alive <- x11, kills
    <- x12, late <- x13, failed <- x14, outcome <- x15, faults <- x16, excused <-
    x17
Data == INSTANCE RunData WITH
    MaxFaults <- DataMaxFaults, plan <- x1, phase <- x2, job <- x3, attempt <- x4,
    at <- x5, failed <- x6, begun <- x7, orders <- x8, made <- x9, opened <- x10,
    workspaces <- x11, temporary <- x12, objects <- x13, artifacts <- x14, caches <-
    x15, restored <- x16, outcomes <- x17, down <- x18, abandoned <- x19, faults <-
    x20
Releases == INSTANCE ProjectReleases WITH
    Runs <- ReleasedRuns, active <- x1, status <- x2, tags <- x3, pointed <- x4,
    releases <- x5, used <- x6, request <- x7, audit <- x8, lost <- x9, now <- x10,
    requests <- x11, moves <- x12
Report == INSTANCE AuditReport WITH
    time <- x1, recorded <- x2, report <- x3, span <- x4, pages <- x5, first <- x6
Runners == INSTANCE ContainerRunners WITH
    Jobs <- RunnerJobs, MaxMishaps <- RunnersMaxMishaps, setup <- x1, clock <- x2,
    phase <- x3, expired <- x4, todo <- x5, containers <- x6, groups <- x7, tracked
    <- x8, joined <- x9, path <- x10, files <- x11, text <- x12, ran <- x13, code <-
    x14, outcome <- x15, redirect <- x16, mishaps <- x17
Scripts == INSTANCE StepScripts WITH
    engine <- x1, job <- x2, phase <- x3, at <- x4, line <- x5, attempt <- x6, cwd
    <- x7, value <- x8, late <- x9, ran <- x10, failed <- x11, outcome <- x12
Runtime == INSTANCE RuntimeOutputs WITH
    MaxMishaps <- RuntimeMaxMishaps, plan <- x1, phase <- x2, job <- x3, attempt <-
    x4, at <- x5, failed <- x6, steps <- x7, bytes <- x8, environment <- x9, paths
    <- x10, summaryCount <- x11, jobs <- x12, dotenvs <- x13, order <- x14, file <-
    x15, summaries <- x16, status <- x17, seen <- x18, lost <- x19, mishaps <- x20

\* The variables from a number on, which the part does not use.
rest18 == <<x18, x19, x20>>
rest13 == <<x13, x14, x15, x16, x17, rest18>>
rest10 == <<x10, x11, x12, rest13>>
rest9 == <<x9, rest10>>
rest7 == <<x7, x8, rest9>>
rest6 == <<x6, rest7>>
rest5 == <<x5, rest6>>
rest4 == <<x4, rest5>>
rest3 == <<x3, rest4>>
vars == <<part, x1, x2, rest3>>


-----------------------------------------------------------------------------
(* Small sets *)

CONSTANTS a, b, c, x

Order == <<"go", "os", "tag">>
Entries(keys) == UNION {[d -> {1, 2}] : d \in (SUBSET keys) \ {{}}}
Matrices == UNION {[d -> {<<1>>, <<1, 2>>}] : d \in {{"go"}, {"go", "os"}}}
SeqsOf(S, n) == UNION {[1..i -> S] : i \in 0..n}
GitHub(includes, excludes, ms) ==
    [matrix : ms, include : includes, exclude : excludes, groups : {<<>>}, total : {0}]
NoDimensions == [k \in {} |-> k]
GitLab(groups, totals) ==
    [matrix : {NoDimensions}, include : {<<>>}, exclude : {<<>>}, groups : groups, total : totals]
MatrixSample ==
    GitHub(SeqsOf(Entries({"os", "tag"}), 2), SeqsOf(Entries({"os"}), 1), Matrices)
    \cup GitHub(SeqsOf(Entries({"go", "tag"}), 1), SeqsOf(Entries({"go", "os"}), 2), Matrices)
    \cup GitHub({<<>>}, {<<>>}, {"go" :> <<1, 1>>, "go" :> <<>>})
    \cup GitHub(SeqsOf(Entries({"os", "tag"}), 2) \ {<<>>}, {<<>>}, {NoDimensions})
    \cup GitLab(SeqsOf(Matrices, 2), 0..7)

Star == {[base |-> <<>>, step |-> 0]}
Every(n) == {[base |-> <<>>, step |-> n]}
Exactly(v) == {[base |-> <<v, v>>, step |-> 0]}
Between(v, w, n) == {[base |-> <<v, w>>, step |-> n]}
Months == <<5, 4>>
Tried == [minute |-> {Star, Exactly(1)},
          hour |-> {Star, Exactly(0)},
          day |-> {Star, Exactly(4), Every(1), Every(2), Exactly(2) \cup Between(3, 31, 2)},
          month |-> {Star, Exactly(2)},
          weekday |-> {Star, Exactly(7), Every(2), Between(1, 5, 3), Exactly(0) \cup Between(2, 3, 0)}]

Files   == {"a", "b"}
AllRefs == {[kind |-> "branch", name |-> "main"], [kind |-> "branch", name |-> "dev"],
            [kind |-> "tag", name |-> "v1"], [kind |-> "none", name |-> ""]}
Pat(neg, hits) == [neg |-> neg, hits |-> hits]
Orders  == {<<>>, <<Pat(FALSE, {"a"})>>, <<Pat(FALSE, {"a", "b"}), Pat(TRUE, {"a"})>>,
            <<Pat(TRUE, {"a"}), Pat(FALSE, {"a"})>>}
OnMain  == {<<>>, <<Pat(FALSE, {"main"})>>}
Anything == [event |-> "push", evaluable |-> TRUE, actions |-> {}, branches |-> <<>>,
             branchesIgnore |-> <<>>, tags |-> <<>>, tagsIgnore |-> <<>>, paths |-> <<>>,
             pathsIgnore |-> <<>>]
Some    == {[Anything EXCEPT !.branches = refs, !.paths = ps, !.pathsIgnore = ign] :
               refs \in OnMain, ps \in Orders, ign \in {<<>>, <<Pat(FALSE, {"b"})>>}}
Others  == {[Anything EXCEPT !.event = "pull_request"], [Anything EXCEPT !.evaluable = FALSE],
            [Anything EXCEPT !.branchesIgnore = <<Pat(FALSE, {"dev"})>>],
            [Anything EXCEPT !.tags = <<Pat(FALSE, {"v1"})>>, !.paths = <<Pat(FALSE, {"a"})>>]}
AllPolicies == Some \cup Others
TreeOf(changed) == [p \in Files |-> IF p \in changed THEN 1 ELSE 0]
\* One commit, or two of which the second may undo, go on or change another path
Stories == {<<{"a"}>>, <<{"a", "b"}>>, <<{}>>,
            <<{"a"}, {}>>, <<{"a"}, {"a", "b"}>>, <<{"a"}, {"b"}>>, <<{"b"}, {"a", "b"}>>, <<{"a", "b"}, {"b"}>>}
Tell(listed, shown, count, before) == [listed |-> listed, shown |-> shown, count |-> count, before |-> before]
Tellings(n) == {Tell(FALSE, {}, 0, before) : before \in {"known", "missing", "unusable"}}
               \cup {Tell(TRUE, {n}, n, before) : before \in {"known", "missing", "unusable"}}
               \cup {Tell(TRUE, 1..n, n, "known"), Tell(TRUE, {n}, 0, "known"), Tell(TRUE, {}, n, "known")}
PushOf(ref, onto, story, t) ==
    [ref |-> ref, old |-> TreeOf({}), onto |-> TreeOf(onto), commits |-> [i \in DOMAIN story |-> TreeOf(story[i])],
     listed |-> t.listed, shown |-> t.shown, count |-> t.count, before |-> t.before]
SomePushes == UNION {{PushOf(ref, onto, story, t) : ref \in AllRefs, onto \in {{}, {"b"}}, t \in Tellings(Len(story))} :
                         story \in Stories}

ThreeJobs == {a, b, c}
Ordered == {g \in [ThreeJobs -> SUBSET ThreeJobs] : g[a] = {} /\ g[b] \subseteq {a} /\ g[c] \subseteq {a, b}}

OneGone == {x}
Shapes == {g \in [ThreeJobs -> SUBSET (ThreeJobs \cup OneGone)] :
              g[a] \in {{}, {c}} /\ g[b] \in {{}, {a}, {x}} /\ g[c] \in SUBSET {a, b} \cup {{c}}}

ByteOrder == <<"", "/a/", "0", "1", "10", "9", "<nil>", "A", "a", "false", "true">>
LowerCase == [t \in ToSet(ByteOrder) |-> IF t = "A" THEN "a" ELSE t]
Numbers == ("0" :> 0) @@ ("1" :> 1) @@ ("9" :> 9) @@ ("10" :> 10)
Patterns == {"/a/"}
Matching == {<<"/a/", "a">>, <<"/a/", "false">>}
Substrings == {<<s, s>> : s \in ToSet(ByteOrder)} \cup {<<"", s>> : s \in ToSet(ByteOrder)} \cup {<<"1", "10">>, <<"a", "false">>}
Val(type, text, num) == [type |-> type, text |-> text, num |-> num]
Nil == Val("null", "<nil>", 0)
Text(s) == Val("string", s, 0)
Num(s) == Val("number", s, Numbers[s])
Tok(kind, name, value) == [kind |-> kind, name |-> name, value |-> value]
Op(k) == Tok(k, "", Nil)
Id(n) == Tok("id", n, Nil)
Lit(v) == Tok("value", "", v)
Regex == Lit(Val("regex", "/a/", 0))
Ops == {Op("&&"), Op("||"), Op("=="), Op("<")}
Grammar ==
    SeqsOf({Op(k) : k \in {"(", ")", "!", "&&", "||", "==", ","}} \cup {Id("x"), Id("success")}, 4)
    \cup {<<Id("x"), o1, Id("y"), o2, Id("x"), o3, Id("y")>> : o1, o2, o3 \in Ops}
    \cup {<<Id("x"), o1, Op("!"), Id("y"), o2, Op("("), Id("x"), o3, Id("y"), Op(")")>> : o1, o2, o3 \in Ops}
    \cup {<<Id(f), Op("("), Id("x"), o1, Id("y"), Op(")")>> : f \in {"contains", "always"}, o1 \in Ops \cup {Op(",")}}
Expressions ==
    {<<Id("x"), o, Id("y")>> : o \in Ops \cup {Op(">="), Op("=~"), Op("!~")}}
    \cup {<<Op("!"), Id("x")>>, <<Id("x"), Op("=~"), Regex>>, <<Id("x"), Op("||"), Id("y"), Op("&&"), Id("x")>>,
          <<Id("contains"), Op("("), Id("x"), Op(","), Id("y"), Op(")")>>,
          <<Id("failure"), Op("("), Op(")"), Op("||"), Id("x")>>}
SomeValues == {Nil, Val("bool", "true", 1), Val("bool", "false", 0), Text(""), Text("1"), Text("10"), Text("a"),
               Text("A"), Text("/a/"), Num("0"), Num("9"), Num("10"), Val("int64", "10", 10)}
Contexts(tokens, values, success, fold, raw) ==
    [tokens : tokens, values : values, success : success, fold : fold, raw : raw]
ConditionCases ==
    Contexts(Grammar, {"x" :> Text("a")}, {TRUE}, {FALSE}, {"true"})
    \cup Contexts({<<>>}, {"x" :> Text("a")}, {TRUE}, {FALSE}, ToSet(ByteOrder))
    \cup Contexts(Expressions, [{"x"} -> SomeValues] \cup [{"y"} -> SomeValues], BOOLEAN, BOOLEAN, {"0"})
    \cup Contexts(Expressions, [{"x", "y"} -> SomeValues], {TRUE}, BOOLEAN, {"0"})

Need(statuses) == [status : statuses, allowed : BOOLEAN, optional : BOOLEAN]
AnyNeed == Need({"missing", "succeeded", "failed", "manual", "skipped", "cancelled"})
BadNeed == [status |-> "failed", allowed |-> FALSE, optional |-> FALSE]
FewNeeds == {<<>>, <<BadNeed>>, <<[BadNeed EXCEPT !.allowed = TRUE]>>, <<[BadNeed EXCEPT !.optional = TRUE]>>}
AllConditions == {"", "true", "false", "error", "always", "failure", "unsupported"}
Rule(condition, when, ok, files) ==
    [condition |-> condition, when |-> when, allow |-> ok, files |-> files]
SomeRules ==
    {Rule(q, "on_success", FALSE, FALSE) : q \in AllConditions}
    \cup {Rule(q, "manual", ok, FALSE) : q \in {"", "always"}, ok \in BOOLEAN}
    \cup {Rule(q, "never", FALSE, FALSE) : q \in {"true", "failure"}} \cup {Rule("true", "on_success", TRUE, TRUE)}
Plain == [present |-> TRUE, condition |-> "", rules |-> <<>>, only |-> [given |-> FALSE, refs |-> {}],
          except |-> [given |-> FALSE, refs |-> {}], when |-> "", allow |-> FALSE, play |-> FALSE, blocking |-> TRUE]
Selectors == {[given |-> FALSE, refs |-> {}]} \cup
    {[given |-> TRUE, refs |-> s] : s \in {{}, {"branches"}, {"tags", "main"}, {"merge_requests"}, {"schedules"}}}
SomeRuns == [ref : AllRefs, trigger : {"push", "schedule", "pull_request"}]
OneRun == CHOOSE r \in SomeRuns : TRUE
SomeInputs(needs, contracts, where) == [needs : needs, contract : contracts, run : where]
Conditioned == {[Plain EXCEPT !.condition = q] : q \in AllConditions} \cup {[Plain EXCEPT !.present = FALSE]}
Ruled ==
    {[Plain EXCEPT !.condition = q, !.rules = rs, !.play = (pb # <<>>), !.blocking = (pb # <<FALSE>>),
                   !.allow = (pb = <<FALSE>>)] :
        q \in {"", "always"}, rs \in SeqsOf(SomeRules, 2), pb \in {<<>>, <<TRUE>>, <<FALSE>>}}
Selected ==
    {[Plain EXCEPT !.only = o, !.except = e, !.when = w, !.allow = ok] :
        o \in Selectors, e \in Selectors, w \in {"", "manual", "never"}, ok \in BOOLEAN}
JobInputs ==
    SomeInputs(SeqsOf(AnyNeed, 2), Conditioned, {OneRun})
    \cup SomeInputs(FewNeeds, Ruled, {OneRun})
    \cup SomeInputs({<<>>}, Selected, SomeRuns)

Out(k) == [stream |-> "out", kind |-> k]
Err(k) == [stream |-> "err", kind |-> k]
OutOnly(ks) == [i \in DOMAIN ks |-> Out(ks[i])]
SomeCommands ==
    [place : {"host"}, script :
        SeqsOf({Out("group"), Out("endgroup"), Err("text")}, 2) \cup {
            OutOnly(<<"group", "group", "endgroup", "endgroup">>), OutOnly(<<"group", "endgroup", "group", "endgroup">>),
            OutOnly(<<"mask", "secret">>), OutOnly(<<"stop", "mask", "secret">>), OutOnly(<<"stop", "note", "group">>),
            OutOnly(<<"stop", "resume", "mask", "secret">>), OutOnly(<<"note", "note">>),
            <<Out("huge"), Err("text"), Out("text")>>}]
    \cup [place : {"container"}, script :
        SeqsOf({Out("huge"), Out("text"), Err("text")}, 2) \cup {OutOnly(<<"note", "secret">>)}]

PlainJob == [stage |-> None, script |-> "some", needs |-> [n \in {} |-> FALSE], dependencies |-> {}, parallel |-> 0,
             trigger |-> None]
Needing(ns) == [PlainJob EXCEPT !.needs = [n \in ns |-> FALSE]]
Doc(jobs, stages, include) == [jobs |-> jobs, stages |-> stages, before |-> FALSE, include |-> include]
OneFile(jobs) == "root" :> Doc(jobs, <<>>, <<>>)
AnyThreeNeeds == {OneFile([n \in 1..3 |-> Needing(g[n])]) : g \in [1..3 -> SUBSET (1..3)]}
Instanced ==
    {OneFile((1 :> [PlainJob EXCEPT !.needs = 2 :> FALSE, !.parallel = i])
             @@ (2 :> [PlainJob EXCEPT !.needs = 3 :> TRUE, !.parallel = j])) : i, j \in {0, 2, 3, 4}}
Optional ==
    {OneFile((1 :> [PlainJob EXCEPT !.needs = 2 :> o])
             @@ (2 :> [PlainJob EXCEPT !.needs = 3 :> TRUE, !.script = s])
             @@ (4 :> [PlainJob EXCEPT !.needs = ns, !.dependencies = {1}])) :
        o \in BOOLEAN, s \in {"none", "empty", "some"}, ns \in {5 :> TRUE, [n \in {} |-> FALSE]}}
Bridge(file, strategy) ==
    [PlainJob EXCEPT !.script = "none", !.trigger = [kind |-> "local", file |-> file, strategy |-> strategy]]
Nestings ==
    {("root" :> Doc((1 :> Needing({})) @@ (2 :> Bridge("kid", "mirror")) @@ (3 :> Bridge(f1, "async")), <<>>, <<>>))
     @@ ("kid" :> Doc((1 :> Bridge(f2, "depend")) @@ (2 :> Needing({})), <<>>, <<>>))
     @@ ("sub" :> Doc(1 :> f3, <<>>, <<>>)) :
        f1, f2 \in {"root", "kid", "sub", "gone"}, f3 \in {Needing({}), Bridge("root", "async"), Bridge("sub", "async")}}
Bridges ==
    {OneFile(1 :> [Bridge("kid", "mirror") EXCEPT !.parallel = 2]), OneFile(1 :> Bridge("kid", "later")),
     OneFile(1 :> [PlainJob EXCEPT !.trigger = [kind |-> "project", file |-> "kid", strategy |-> "async"]])}
Included ==
    {("root" :> Doc((1 :> Needing(ns)), stages, files))
     @@ ("p" :> Doc((1 :> Needing({})) @@ (2 :> Needing({1})) @@ (3 :> [PlainJob EXCEPT !.script = "none"]),
                    <<"build">>, <<"q">>))
     @@ ("q" :> Doc((2 :> Needing({})) @@ (3 :> [PlainJob EXCEPT !.stage = "build"]), <<"test">>, <<>>)) :
        ns \in {{}, {2}, {3}}, stages \in {<<>>, <<"build">>},
        files \in {<<>>, <<"p">>, <<"q">>, <<"p", "q">>, <<"q", "p">>, <<"p", "gone">>}}
SomeProjects == AnyThreeNeeds \cup Instanced \cup Optional \cup Nestings \cup Bridges \cup Included

NoText == [n \in {} |-> <<"", "">>]
PlainCalled == [needs |-> {}, cond |-> <<>>, env |-> NoText, lax |-> FALSE, matrix |-> FALSE, call |-> None]
CallOf(file) == [file |-> file, with |-> NoText, inherit |-> FALSE, secrets |-> NoText]
Calling(file, ns) == [PlainCalled EXCEPT !.needs = ns, !.call = CallOf(file)]
Flow(terms, jobs) == [contract |-> terms, env |-> NoText, jobs |-> jobs]
Open == [inputs |-> [n \in {} |-> None], secrets |-> [n \in {} |-> FALSE]]
JobsOf(file) == [k \in {<<i>> : i \in DOMAIN file} |-> file[k[1]]]
Awaiting(ns) == [PlainCalled EXCEPT !.needs = {<<i>> : i \in ns}]
KidGraphs ==
    {<<Awaiting({})>>, <<Awaiting({}), Awaiting({1})>>, <<Awaiting({}), Awaiting({})>>,
     <<Awaiting({2}), Awaiting({}), Awaiting({2})>>, <<Awaiting({2}), Awaiting({1})>>,
     <<Awaiting({}), Awaiting({1}), Awaiting({1}), Awaiting({2, 3})>>}
CallGraphs ==
    {("root" :> Flow(None, JobsOf([i \in 1..3 |-> [Awaiting(g[i]) EXCEPT !.call = IF i \in calls THEN CallOf("kid") ELSE None]])))
     @@ ("kid" :> Flow(Open, JobsOf(kid))) :
        g \in {<<n1, n2, n3>> : n1 \in {{}, {3}}, n2 \in {{}, {1}, {3}}, n3 \in {{}, {1}, {1, 2}}},
        calls \in {{1}, {1, 2}, {1, 3}}, kid \in KidGraphs}
CallChains ==
    {("root" :> Flow(None, JobsOf(<<Calling("kid", {}), Calling(f1, {<<1>>})>>)))
     @@ ("kid" :> Flow(Open, JobsOf(<<[Awaiting({}) EXCEPT !.lax = TRUE], [Calling(f2, {<<1>>}) EXCEPT !.lax = lax]>>)))
     @@ ("sub" :> Flow(Open, JobsOf(<<j3, Awaiting({1})>>))) :
        f1, f2 \in {"root", "kid", "sub", "gone"}, lax \in BOOLEAN,
        j3 \in {Awaiting({}), Awaiting({3}), Calling("root", {}), Calling("other", {})}}
    \cup {("root" :> Flow(None, (<<1>> :> Calling("kid", {})) @@ (<<1, 1>> :> Awaiting({}))))
          @@ ("kid" :> Flow(terms, <<1>> :> [PlainCalled EXCEPT !.matrix = m])) : terms \in {None, Open}, m \in BOOLEAN}
    \cup {"root" :> Flow(None, <<1>> :> [Calling("kid", {}) EXCEPT !.matrix = TRUE]),
          ("root" :> Flow(None, JobsOf(<<Calling("kid", {}), Calling("sub", {}), Calling("mid", {})>>)))
          @@ [f \in {"kid", "sub", "mid"} |-> Flow(Open, <<1>> :> PlainCalled)]}
CallContracts ==
    {[inputs |-> "a" :> [required |-> i[1], kind |-> i[2], default |-> i[3]], secrets |-> "s" :> i[4]] :
        i \in {<<TRUE, "", <<"null", "">>, FALSE>>, <<FALSE, "boolean", <<"text", "1">>, TRUE>>,
               <<FALSE, "number", <<"null", "">>, FALSE>>}}
PassedOn ==
    {[CallOf("kid") EXCEPT !.with = w, !.inherit = s = <<"", "">>, !.secrets = IF s[1] = "secret" THEN "s" :> s ELSE NoText] :
        w \in {NoText, "a" :> <<"text", "0">>, "a" :> <<"text", "x">>, "a" :> <<"input", "a">>, "a" :> <<"null", "">>,
               "a" :> <<"secret", "s">>, "z" :> <<"text", "1">>},
        s \in {<<"", "">>, <<"text", "">>, <<"secret", "t">>}}
CallTexts ==
    {("root" :> Flow(None, <<1>> :> [PlainCalled EXCEPT !.call = call, !.cond = <<<<"input", "a">>>>, !.lax = TRUE]))
     @@ ("kid" :> [Flow(terms, (<<1>> :> [Calling("sub", {}) EXCEPT !.cond = <<<<"input", "a">>>>,
                                       !.call.with = "a" :> inner, !.call.secrets = "s" :> <<"secret", "s">>])
                                  @@ (<<2>> :> [Awaiting({1}) EXCEPT !.cond = <<text>>, !.env = "v" :> text])) EXCEPT !.env = "w" :> <<"input", "a">>])
     @@ ("sub" :> Flow(terms, <<1>> :> [PlainCalled EXCEPT !.env = "v" :> text, !.cond = <<text>>])) :
        call \in PassedOn, terms \in CallContracts, inner \in {<<"input", "a">>, <<"text", "true">>},
        text \in {<<"input", "a">>, <<"secret", "s">>, <<"input", "b">>}}
SomeCallProjects == CallGraphs \cup CallChains \cup CallTexts

Unset == [n \in {} |-> <<"", "", 0>>]
RunOf(id, text) == [id |-> id, uses |-> None, with |-> Unset, env |-> Unset, cond |-> <<>>, run |-> text, lax |-> FALSE]
Said(word) == <<"text", word, 0>>
StepOf(id) == <<"step", id, 0>>
UseOf(id, name, text) == [RunOf(id, Said("")) EXCEPT !.uses = name, !.with = IF text[1] = "null" THEN Unset ELSE "a" :> text]
Manifest(required, default, outputs, list) ==
    [inputs |-> "a" :> [required |-> required, default |-> default], outputs |-> outputs, steps |-> list]
NoOutputs == Unset
ActionTexts ==
    {[steps |-> <<RunOf("x", Said("")), [UseOf(id, "outer", passedText) EXCEPT !.cond = IF lax THEN <<passedText>> ELSE <<>>,
                                             !.env = ("v" :> Said("caller")) @@ ("u" :> passedText)],
                  UseOf("w", "inner", Said("again")), RunOf("", StepOf("use"))>>,
      actions |-> ("outer" :> Manifest(required, default, "o" :> StepOf("x"),
                        <<RunOf("x", <<"input", "a", 0>>),
                          [UseOf("y", "inner", between) EXCEPT !.env = "v" :> <<"input", "a", 0>>, !.cond = <<StepOf("x")>>],
                          RunOf("", StepOf("y"))>>))
                  @@ ("inner" :> Manifest(FALSE, Said("d"), outs, <<RunOf("x", <<"input", "a", 0>>), RunOf("", StepOf("x"))>>))] :
        id \in {"", "use"}, lax \in BOOLEAN, passedText \in {<<"null", "", 0>>, Said("p"), StepOf("x"), StepOf("q")},
        required \in BOOLEAN, default \in {<<"null", "", 0>>, Said("e")}, between \in {<<"input", "a", 0>>, StepOf("x"), StepOf("q")},
        outs \in {NoOutputs, "o" :> <<"input", "a", 0>>}}
ActionNests ==
    {[steps |-> <<[UseOf("", u1, Said("p")) EXCEPT !.lax = lax], UseOf("", u2, Said("p"))>>,
      actions |-> [n \in {"k", "l", "m"} |->
                        Manifest(FALSE, Said("d"), IF n = "m" THEN "o" :> last ELSE NoOutputs,
                                 CASE n = "k" -> <<UseOf("", u3, Said("p")), RunOf("x", last)>>
                                   [] n = "l" -> <<RunOf("x", Said("")), UseOf(two, "m", Said("p"))>>
                                   [] n = "m" -> IF lax THEN <<>> ELSE <<UseOf("", u3, Said("p"))>>)]] :
        u1, u2 \in {"k", "l", "m"}, u3 \in {"k", "l", "m", "gone", None}, lax \in BOOLEAN, two \in {"x", "y"},
        last \in {Said(""), <<"input", "b", 0>>}}
SomeActionProjects == ActionTexts \cup ActionNests

Serving(health, port) == [health |-> health, port |-> port]
ContractOf(container, services) == [valid |-> TRUE, container |-> container, services |-> services]
SomeContracts ==
    {ContractOf(TRUE, <<>>), ContractOf(TRUE, <<Serving(TRUE, FALSE), Serving(FALSE, TRUE)>>),
     ContractOf(FALSE, <<Serving(TRUE, TRUE)>>), [ContractOf(TRUE, <<>>) EXCEPT !.valid = FALSE]}
Timed(isLax, isTimed) == [lax |-> isLax, always |-> FALSE, timed |-> isTimed]
SomeStepLists ==
    {<<Timed(TRUE, TRUE), Timed(FALSE, FALSE)>>,
     <<Timed(FALSE, TRUE), [Timed(FALSE, FALSE) EXCEPT !.always = TRUE], Timed(FALSE, FALSE)>>}

Doing(kind, key) == [kind |-> kind, key |-> key, fallback |-> <<>>]
PlainWork == [gate |-> FALSE, cache |-> None, artifact |-> None, attempts |-> 1, steps |-> <<Doing("build", <<>>)>>]
Caching(policy, key, prefixes) == [policy |-> policy, key |-> key, fallback |-> prefixes, when |-> ""]
Cached(policy, key, prefixes) == [PlainWork EXCEPT !.cache = Caching(policy, key, prefixes)]
Capturing(when, reports) == [name |-> <<"a">>, when |-> when, reports |-> reports]
PlanOf(ref, jobs) == [ref |-> ref, jobs |-> jobs]
Loads == [PlainWork EXCEPT !.steps = <<Doing("download", <<"a">>)>>]
SomePlans ==
    {<<PlanOf(2, <<Cached("pull-push", <<"k", "1">>, <<>>)>>), PlanOf(i[1], <<Cached("pull-push", i[2], <<<<"k">>>>)>>)>> :
        i \in {<<2, <<"k", "1">>>>, <<3, <<"k", "2">>>>}}
    \cup {<<PlanOf(3, <<Cached("push", <<"k">>, <<>>)>>), PlanOf(4, <<Cached("pull", <<"k", "2">>, <<<<"k">>>>)>>)>>}
    \cup {<<PlanOf(2, <<[PlainWork EXCEPT !.steps = <<Doing("cache", <<"k">>), Doing("build", <<>>), Doing("upload", <<"a">>)>>]>>),
            PlanOf(2, <<[PlainWork EXCEPT !.steps = <<Doing("restore", <<"k">>), Doing("save", <<"k">>)>>]>>)>>}
    \cup {<<PlanOf(2, <<[PlainWork EXCEPT !.artifact = Capturing(i[1], i[2]), !.attempts = 2], [Loads EXCEPT !.gate = TRUE]>>)>> :
            i \in {<<"", TRUE>>, <<"always", FALSE>>, <<"on_failure", FALSE>>}}
    \cup {<<PlanOf(2, <<[PlainWork EXCEPT !.artifact = Capturing("", FALSE)]>>), PlanOf(2, <<Loads>>)>>}

BuiltRuns == <<[project |-> 1, commit |-> 1], [project |-> 1, commit |-> 2], [project |-> 1, commit |-> 1], [project |-> 2, commit |-> 1]>>
ADraft(t, p) == [run |-> 3, tag |-> t, commit |-> 1, name |-> t, pre |-> p, state |-> "draft", time |-> 0]
SomeDrafts == {<<ADraft(2, FALSE), ADraft(3, FALSE)>>}
FirstStatuses == {<<"running", "succeeded", "succeeded", "succeeded">>}
OneTag == {<<1>>}
AskedFor == {[run |-> r, tag |-> 1, pre |-> FALSE] : r \in {1, 2, 4}}
SomeEdits == {[name |-> None, pre |-> TRUE]}

SomeSpans == {None, 2}

Setup(engine, parallel, timeout, names, services, allow) ==
    [engine |-> engine, parallel |-> parallel, quiet |-> TRUE, timeout |-> timeout,
     name |-> names, services |-> services, allow |-> allow]
SomeSetups ==
    {Setup(engine, FALSE, engine # "cli", <<1, 1>>, <<{"db"}, {}>>, {1}) : engine \in {"docker", "podman", "cli"}}
    \cup {Setup("docker", TRUE, FALSE, <<1, 2>>, <<{"db"}, {"db"}>>, {1}),
          Setup("podman", TRUE, FALSE, <<1, 1>>, <<{}, {}>>, {})}

Lines(lines) ==
    [never |-> FALSE, uses |-> "", lines |-> lines, block |-> FALSE, lax |-> FALSE, dir |-> FALSE, sets |-> FALSE,
     timed |-> FALSE, attempts |-> 1]
SomeLines == {<<>>, <<"good">>, <<"bad">>, <<"good", "bad">>, <<"cd", "good">>, <<"export", "good">>, <<"exit">>, <<"good", "hang">>}
SomeSteps ==
    {Lines(l) : l \in SomeLines}
    \cup {[Lines(<<"bad">>) EXCEPT !.never = TRUE], [Lines(<<>>) EXCEPT !.uses = "checkout"], [Lines(<<>>) EXCEPT !.uses = "tool"]}
    \cup {[Lines(l) EXCEPT !.lax = TRUE, !.block = isBlock] : l \in {<<"good">>, <<"bad", "good">>, <<"flaky">>}, isBlock \in BOOLEAN}
    \cup {[Lines(l) EXCEPT !.dir = TRUE, !.sets = TRUE] : l \in {<<"good">>, <<"cd">>}}
    \cup {[Lines(<<"flaky", "hang">>) EXCEPT !.timed = TRUE, !.attempts = n, !.lax = isLax] : n \in {1, 2}, isLax \in BOOLEAN}
    \cup {[Lines(<<"good", "flaky">>) EXCEPT !.attempts = 2], [Lines(<<"good">>) EXCEPT !.timed = TRUE]}
SomeStepJobs ==
    {[steps |-> <<s, t>>, layers |-> {"job", "container"}, limited |-> FALSE] : s, t \in SomeSteps}
    \cup {[steps |-> <<s, Lines(<<"good">>)>>, layers |-> l, limited |-> TRUE] : s \in SomeSteps, l \in {{}, {"job", "config"}}}

Writing(id, exit) ==
    [id |-> id, output |-> "some", maps |-> None, environment |-> "none", path |-> None, summary |-> "none",
     file |-> "keep", exit |-> exit, lax |-> FALSE, always |-> FALSE]
Reading == Writing(None, "ok")
Working(list) ==
    [needs |-> {}, gitlab |-> FALSE, dependencies |-> None, without |-> {}, stage |-> "test", report |-> FALSE,
     exposes |-> None, source |-> None, always |-> FALSE, manual |-> FALSE, attempts |-> 1, steps |-> list]
Twice(list) == [Working(list) EXCEPT !.attempts = 2]
FilePlans ==
    {<<Twice(<<[Writing("x", exit) EXCEPT !.environment = "some", !.path = p, !.summary = s, !.lax = TRUE],
               [Writing("y", "flaky") EXCEPT !.path = "q", !.summary = "some"],
               [Writing(id, "ok") EXCEPT !.summary = "some", !.path = "p"]>>)>> :
        exit \in {"ok", "flaky"}, p \in {"p", "bad"}, s \in {"some", "bad"}, id \in {"x", None}}
    \cup {<<Twice(<<[Writing("x", "ok") EXCEPT !.environment = "some", !.path = "p"],
                    [Writing("x", "flaky") EXCEPT !.output = o, !.environment = "some", !.path = "q", !.summary = "some"],
                    [Reading EXCEPT !.path = "p", !.environment = e, !.always = e = "none"]>>)>> : o \in {"some", "bad"}, e \in {"none", "bad"}}
    \cup {<<Working(<<[Writing("x", "ok") EXCEPT !.lax = TRUE, !.output = o],
                      [Writing("y", "flaky") EXCEPT !.maps = "x", !.output = o], Reading>>)>> : o \in {"some", "bad"}}
    \cup {<<Twice(<<[Writing("x", "ok") EXCEPT !.summary = "some"], Writing("y", "ok"), Reading>>)>>}
NeedPlans ==
    {<<[Twice(<<[Writing("x", "flaky") EXCEPT !.lax = isLax], [Reading EXCEPT !.exit = "flaky"]>>)
            EXCEPT !.exposes = "x", !.source = "build"],
       [Working(<<Reading>>) EXCEPT !.needs = {1}, !.always = isAlways, !.manual = isManual]>> :
        isLax, isAlways, isManual \in BOOLEAN}
Reporting(kind, exit) ==
    [Twice(<<[Reading EXCEPT !.file = kind], [Reading EXCEPT !.exit = exit]>>)
        EXCEPT !.gitlab = TRUE, !.report = TRUE, !.stage = "build", !.always = TRUE]
DotenvPlans ==
    {<<Reporting(first, "flaky"), [Reporting(second, "ok") EXCEPT !.stage = "test"],
       [Working(<<Reading>>) EXCEPT !.gitlab = TRUE, !.needs = t[1], !.without = t[2], !.dependencies = t[3],
                                    !.manual = t[4], !.always = TRUE]>> :
        first \in {"good", "empty", "bad", "gone"}, second \in {"keep", "good"},
        t \in {<<{}, {}, None, FALSE>>, <<{1, 2}, {2}, None, FALSE>>, <<{1, 2}, {}, None, TRUE>>, <<{1, 2}, {}, {1}, FALSE>>}}
SomeRuntimePlans == FilePlans \cup NeedPlans \cup DotenvPlans

-----------------------------------------------------------------------------
(* Specification *)

Unused18 == x18 = 0 /\ x19 = 0 /\ x20 = 0
Unused13 == x13 = 0 /\ x14 = 0 /\ x15 = 0 /\ x16 = 0 /\ x17 = 0 /\ Unused18
Unused10 == x10 = 0 /\ x11 = 0 /\ x12 = 0 /\ Unused13
Unused9 == x9 = 0 /\ Unused10
Unused7 == x7 = 0 /\ x8 = 0 /\ Unused9
Unused6 == x6 = 0 /\ Unused7
Unused5 == x5 = 0 /\ Unused6
Unused4 == x4 = 0 /\ Unused5
Unused3 == x3 = 0 /\ Unused4

ComponentsInit ==
    \/ AdmissionInit /\ Unused13
    \/ part = "matrix" /\ Matrix!Init /\ Unused5
    \/ part = "cron" /\ Cron!Init /\ Unused3
    \/ part = "copies" /\ Copies!Init /\ Unused6
    \/ part = "local" /\ Local!Init /\ Unused18
    \/ part = "cond" /\ Cond!Init /\ Unused4
    \/ part = "output" /\ Output!Init
    \/ part = "graph" /\ Graph!Init /\ Unused7
    \/ part = "calls" /\ Calls!Init /\ Unused5
    \/ part = "actions" /\ Actions!Init /\ Unused6
    \/ part = "session" /\ Session!Init /\ Unused18
    \/ part = "data" /\ Data!Init
    \/ part = "releases" /\ Releases!Init /\ Unused13
    \/ part = "report" /\ Report!Init /\ Unused7
    \/ part = "runners" /\ Runners!Init /\ Unused18
    \/ part = "scripts" /\ Scripts!Init /\ Unused13
    \/ part = "runtime" /\ Runtime!Init

ComponentsNext ==
    \/ AdmissionNext /\ UNCHANGED rest13
    \/ part = "matrix" /\ Matrix!Next /\ UNCHANGED <<part, rest5>>
    \/ part = "cron" /\ Cron!Next /\ UNCHANGED <<part, rest3>>
    \/ part = "copies" /\ Copies!Next /\ UNCHANGED <<part, rest6>>
    \/ part = "local" /\ Local!Next /\ UNCHANGED <<part, rest18>>
    \/ part = "cond" /\ Cond!Next /\ UNCHANGED <<part, rest4>>
    \/ part = "output" /\ Output!Next /\ UNCHANGED part
    \/ part = "graph" /\ Graph!Next /\ UNCHANGED <<part, rest7>>
    \/ part = "calls" /\ Calls!Next /\ UNCHANGED <<part, rest5>>
    \/ part = "actions" /\ Actions!Next /\ UNCHANGED <<part, rest6>>
    \/ part = "session" /\ Session!Next /\ UNCHANGED <<part, rest18>>
    \/ part = "data" /\ Data!Next /\ UNCHANGED part
    \/ part = "releases" /\ Releases!Next /\ UNCHANGED <<part, rest13>>
    \/ part = "report" /\ Report!Next /\ UNCHANGED <<part, rest7>>
    \/ part = "runners" /\ Runners!Next /\ UNCHANGED <<part, rest18>>
    \/ part = "scripts" /\ Scripts!Next /\ UNCHANGED <<part, rest13>>
    \/ part = "runtime" /\ Runtime!Next /\ UNCHANGED part

ComponentsSpec ==
    /\ ComponentsInit /\ [][ComponentsNext]_vars
    /\ WF_vars(part = "local" /\ Local!Next /\ UNCHANGED <<part, rest18>>)
    /\ WF_vars(part = "scripts" /\ Scripts!Next /\ UNCHANGED <<part, rest13>>)
    /\ WF_vars(part = "output" /\ Output!Program /\ UNCHANGED part)
    /\ \A s \in Output!Streams : WF_vars(part = "output" /\ Output!Capture(s) /\ UNCHANGED part)
    /\ WF_vars(part = "session" /\ Session!SessionStep /\ UNCHANGED <<part, rest18>>)
    /\ WF_vars(part = "session" /\ Session!KillLands /\ UNCHANGED <<part, rest18>>)

-----------------------------------------------------------------------------
(* Properties *)

\* Of a matrix exactly the combinations run that its dimensions, includes and
\* excludes name, no more of them than allowed, in a local run as in the
\* service (ExpandMatrix, expandGitHubMatrix, compatibleInclude,
\* handlers/matrix.go).
MatrixRunsWhatItSays ==
    /\ part = "matrix" =>
        /\ Matrix!MatrixTypeOK
        /\ Matrix!ExcludedNeverRuns
        /\ Matrix!NothingElseLost
        /\ Matrix!IncludesReachTheirTargets
        /\ Matrix!LocalAgrees

\* A field stands for values that exist, a step counts from the start of its
\* range, and a day matches if it matches one of two restricted fields
\* (parseField, Expression.Matches). Next is the first matching minute
\* strictly after the given one (Expression.Next).
CronMeansItsFields ==
    /\ [](part = "cron" =>
            /\ Cron!FieldTypeOK
            /\ Cron!StepsFromTheStart
            /\ Cron!DayOrWeekday)
    /\ [][part = "cron" => Cron!NoOccurrenceSkipped]_vars

\* A replay copies the smallest closed set of jobs and can be stored; a
\* rollback is offered exactly if it is accepted, and deploys once; the graph
\* of a workflow has every job and every need, in one order, with the child of
\* each bridge, or is refused for a cycle it has
\* (normalizeDefinitionRecursive, deterministicTopologicalOrder, mergeCI,
\* cloneReplayJobs, EvaluateJobReplay, EvaluateDeploymentRollback,
\* rollbackGraph).
GraphsAreWhole ==
    /\ part = "copies" =>
        /\ Copies!CopiesWhatIsNeeded
        /\ Copies!ReplayCanBeStored
        /\ Copies!ListedIsAccepted
        /\ Copies!RollbackDeploysOnce
    /\ part = "graph" =>
        /\ Graph!GraphTypeOK
        /\ Graph!OrderIsTheGraphs
        /\ Graph!NeedsReachEveryInstance
        /\ Graph!CyclesAreReal
        /\ Graph!OwnJobsPrevail
        /\ Graph!ChildrenAreComplete
    /\ part = "calls" =>
        /\ Calls!CallsTypeOK
        /\ Calls!NoJobIsLost
        /\ Calls!CallsWaitAsJobs
        /\ Calls!TextsKeepTheirFile
        /\ Calls!InputsAreResolved
    /\ part = "actions" =>
        /\ Actions!ActionsTypeOK
        /\ Actions!EveryStepInItsPlace
        /\ Actions!StepsReadAsWritten
        /\ Actions!OutputsAreOfTheUse
        /\ Actions!IdsAreDistinct

\* A cycle is reported and only a cycle; a level is tight and as wide as
\* --max-parallel allows; a failed job stops its dependents and shows in the
\* exit status; one by one an allowed failure stops nothing, side by side any
\* failure holds back the later levels; a run that ends well has run every job
\* (topologicalSort, groupByDependencyLevel, runJobsParallel,
\* runJobsSequential). A job starts after all it needs has ended or was given
\* up, and every local run ends (topologicalSort, runJobsParallel).
\* In a container a job that is reported as successful was, its services were
\* up, it ran its own script, and its runner leaves nothing behind, but for
\* what the engine did not tell it of; --quiet holds until the last runner is
\* cleaned up (RunJob and Cleanup of runners/docker.go and runners/podman.go,
\* quiet_redirect.go).  The steps of a job run in order up to the first that
\* fails, alike under the three runners where nothing is used in which they
\* differ, and end unless a command does not (runners/bash.go, buildJobScript).
LocalRunIsHonest ==
    /\ [](part = "local" =>
            /\ Local!LocalTypeOK
            /\ Local!CyclesReported
            /\ Local!LevelsAreTight
            /\ Local!FailureStopsDependents
            /\ Local!AllowedFailureContinues
            /\ Local!FailureStopsLaterLevels
            /\ Local!FailureIsTold
            /\ Local!OkMeansAllRan)
    /\ [][part = "local" => Local!StartsAfterNeeds]_vars
    /\ <>(part = "local" => Local!Ended)
    /\ [](part = "runners" =>
            /\ Runners!RunnersTypeOK
            /\ Runners!NothingStaysBehind
            /\ Runners!EachRunsItsOwn
            /\ Runners!SuccessIsReal
            /\ Runners!ServicesBeforeTheJob
            /\ Runners!QuietToTheEnd)
    /\ [](part = "scripts" =>
            /\ Scripts!ScriptsTypeOK
            /\ Scripts!StepsKeepToThemselves
            /\ Scripts!FailureIsTheLast
            /\ Scripts!SuccessIsEveryStep
            /\ Scripts!PortableJobsAgree)
    /\ <>(part = "scripts" => Scripts!EndsOrHangs)

\* An expression has the meaning of its precedences, an answer never rests on
\* a context that is not there, equality and order agree, and a matrix
\* coordinate counts as the boolean, number or text that it is (parseOr,
\* variableNode, equalValues, compareValues, EvaluateContinueOnError).
ConditionsMeanWhatTheySay ==
    /\ part = "cond" =>
        /\ Cond!ParsesAsWritten
        /\ Cond!AnswersRestOnWhatIsThere
        /\ Cond!ComparisonsAgree
        /\ Cond!BareIsBoolean
        /\ Cond!MatrixNumbersCompare

\* The log has the lines of each stream in their order and without a gap, all
\* of them if the step succeeded; sections nest and point at their lines; a
\* masked secret stays masked; silenced commands do nothing; a step ends, also
\* a cancelled one, unless the copier of a container is left with a frame
\* nobody takes (captureLines, workflowCommandState, executeContainerCommand).
\* What a step or a job is given of earlier ones was written by this attempt
\* or by the last one of the job it needs, and nothing of it is dropped, but
\* for what a pause of the run loses (runtimeOutputContext, executeJob).
OutputIsKept ==
    /\ [](part = "output" =>
            /\ Output!OutputTypeOK
            /\ Output!LogIsWhole
            /\ Output!SectionsNest
            /\ Output!SectionsPointAtTheirLines
            /\ Output!MaskedFromThenOn
            /\ Output!SilenceIsKept)
    /\ [](part = "output" => Output!Undisturbed) => <>(part = "output" => Output!StepEnded)
    /\ (part = "output" /\ Output!StepCancelled) ~> (part = "output" => Output!EndedOrAbandoned)
    /\ [](part = "runtime" =>
            /\ Runtime!OutputsTypeOK
            /\ Runtime!StepsSeeTheirAttempt
            /\ Runtime!NothingIsDropped
            /\ Runtime!NeedsAreOfTheLastAttempt
            /\ Runtime!DotenvIsOfTheLatest
            /\ Runtime!SummariesAreOfTheLastAttempt
            /\ Runtime!RetriesStartAfresh)
    /\ [](part = "session" =>
            /\ Session!SessionTypeOK
            /\ Session!NothingIsLeftBehind
            /\ Session!StepsFindTheirServices
            /\ Session!FoundReadyIsHealthy
            /\ Session!CommandsDoNotPileUp)
    /\ [][part = "session" => Session!NoStepOutlivesTheContainer]_vars
    /\ <>[](part = "session" => Session!SessionEnded)

\* Across crashes between the two writes, failures of the disk and the store,
\* retries and the janitor: an archive has its row unless a crash came between,
\* a row its archive unless it was inserted and could not be read again, the
\* artifact of a job that succeeded is of its last attempt and has its archive,
\* an entry is never changed, a cache comes from the run's branch or a default
\* one, no run reads the files of another, and a run that is over leaves no
\* workspace (PutCacheEntry, CreateArtifact, captureJobArtifact, restoreCache,
\* Acquire, cleanupTerminalWorkspace).
RunDataIsWhole ==
    /\ [](part = "data" =>
            /\ Data!RunDataTypeOK
            /\ Data!WorkspaceIsWhole
            /\ Data!RowsHaveTheirArchives
            /\ Data!ArchivesHaveTheirRows
            /\ Data!CachesStayOnTheirBranch
            /\ Data!RunsAreIsolated
            /\ Data!ArtifactIsOfTheAttempt
            /\ Data!TerminalRunsLeaveNoWorkspace)
    /\ [][part = "data" => Data!EntriesAreImmutable]_vars

\* A release stands for the commit that was built and tagged, a tag has one,
\* and a published one is neither edited nor deleted, whatever its editors had
\* read; the audit log tells of each change once it is over, and its pages,
\* bars and totals agree with it while events arrive (CreateRelease,
\* UpdateRelease, DeleteDraftRelease, PublishRelease, ListAudit,
\* auditHistogram).
ReleasesAreWhatWasBuilt ==
    /\ [](part = "releases" =>
            /\ Releases!ReleasesTypeOK
            /\ Releases!ReleaseNamesWhatWasBuilt
            /\ Releases!OneReleaseOfATag
            /\ Releases!LatestIsOne
            /\ Releases!AuditTellsWhatHappened)
    /\ [][part = "releases" => Releases!PublishedStays]_vars
    /\ [][part = "releases" => Releases!LatestOnlyAdvances]_vars
    /\ [](part = "report" =>
            /\ Report!ReportTypeOK
            /\ Report!PagesSkipNothing
            /\ Report!BarsCountWhatTheySpan
            /\ Report!TotalsAgree)

=============================================================================
