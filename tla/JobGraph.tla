------------------------------ MODULE JobGraph ------------------------------
(***************************************************************************)
(* How the files of a GitLab project become the graphs of jobs that are    *)
(* enqueued (parsers/gitlab.go; execution/discovery.go,                    *)
(* normalizeDefinitionRecursive, deterministicTopologicalOrder,            *)
(* findDependencyCycle, normalizeLocalChildPipeline).  A file is parsed,   *)
(* merged with the files it includes and validated; its jobs are expanded  *)
(* into variants, their dependencies into edges between variants, and the  *)
(* graph is sorted.  A job that triggers a child pipeline has the file of  *)
(* that pipeline normalised in the same way before its own is finished.    *)
(* A definition marked "Mutant" is a bug that could have been made in the  *)
(* next one; no specification uses it.                                     *)
(***************************************************************************)
EXTENDS Integers, Sequences, FiniteSets, SequencesExt, FiniteSetsExt, TLC

CONSTANTS
    None,
    Projects,           \* projects: file -> document, for the files they have
    Root,               \* .gitlab-ci.yml
    MaxJobs,            \* jobs of one definition, 256 in the code
    MaxDepth,           \* maxChildPipelineDepth
    MaxChildren         \* maxChildPipelines

(***************************************************************************)
(* A document is [jobs, stages, before, include]: its jobs by name (names  *)
(* are numbers, in their alphabetical order), the stages it declares,      *)
(* whether it has a before_script for every job, and the files it          *)
(* includes.  A job is [stage, script, needs, dependencies, parallel,      *)
(* trigger]: script is "none", "empty" or "some", needs tells of each      *)
(* needed job whether it is optional, parallel is 0 or the number of       *)
(* instances, trigger is None or [kind, file, strategy].                   *)
(***************************************************************************)

VARIABLES
    project,
    frames,             \* the files being normalised, the innermost last
    children,           \* childPipelineExpansionState.count
    built,              \* the definitions that are finished
    outcome,            \* "", "ok" or why the workflow was refused
    cycle               \* the cycle that was reported

vars == <<project, frames, children, built, outcome, cycle>>

NoGraph == [k \in {} |-> {}]
Frame(file, by) ==
    [file |-> file, by |-> by, phase |-> "parse", jobs |-> [n \in {} |-> None], edges |-> NoGraph,
     indegree |-> [k \in {} |-> 0], ready |-> <<>>, order |-> <<>>, kids |-> [k \in {} |-> None],
     stack |-> <<>>, visited |-> {}]

Init ==
    /\ project \in Projects
    /\ frames = <<Frame(Root, None)>> /\ children = 0 /\ built = {} /\ outcome = "" /\ cycle = <<>>

-----------------------------------------------------------------------------
(* The parser *)

\* parseJob: a job without a script is a bridge, or it is skipped.
Kept(doc) ==
    [n \in {m \in DOMAIN doc.jobs : doc.jobs[m].script # "none" \/ doc.jobs[m].trigger # None} |-> doc.jobs[n]]

\* Mutant: the file included last wins.
MergedLastWins(doc, sources) ==
    LET files == <<doc>> \o sources
        names == UNION {DOMAIN Kept(files[i]) : i \in DOMAIN files}
    IN [n \in names |-> Kept(files[CHOOSE i \in DOMAIN files : /\ n \in DOMAIN Kept(files[i])
                                                               /\ \A j \in DOMAIN files : n \in DOMAIN Kept(files[j]) => j <= i])[n]]

\* mergeCI, of one included file after the other: what is there is kept.
Merged(doc, sources) ==
    FoldLeft(LAMBDA jobs, source : [n \in DOMAIN jobs \cup DOMAIN Kept(source) |->
                                        IF n \in DOMAIN jobs THEN jobs[n] ELSE Kept(source)[n]],
             Kept(doc), sources)

MergedStages(doc, sources) ==
    FoldLeft(LAMBDA stages, source : IF stages = <<>> THEN source.stages ELSE stages, doc.stages, sources)

\* convertJob: artifacts of other jobs are needs where no need is given.
EffectiveNeeds(job) ==
    IF DOMAIN job.needs = {} THEN [n \in job.dependencies |-> FALSE] ELSE job.needs

\* convertScriptsToSteps: the before_script of an included file is not merged.
HasSteps(doc, job) == doc.before \/ job.script = "some"

\* Validate
Valid(doc, jobs, stages) ==
    /\ jobs # [n \in {} |-> None]
    /\ \A n \in DOMAIN jobs :
        /\ HasSteps(doc, jobs[n]) \/ jobs[n].trigger # None
        /\ jobs[n].stage # None /\ stages # <<>> => jobs[n].stage \in Range(stages)
        /\ LET needs == EffectiveNeeds(jobs[n])
           IN \A m \in DOMAIN needs : m \in DOMAIN jobs \/ needs[m]

-----------------------------------------------------------------------------
(* Variants and edges *)

Instances(jobs, n) ==
    IF jobs[n].parallel = 0 THEN {<<n, 0>>} ELSE {<<n, i>> : i \in 1..jobs[n].parallel}

KeysOf(jobs) == UNION {Instances(jobs, n) : n \in DOMAIN jobs}

\* Mutant: a need of a job with instances waits for the first of them.
EdgesToFirst(jobs) ==
    [k \in KeysOf(jobs) |->
        LET needs == EffectiveNeeds(jobs[k[1]])
        IN {<<m, IF jobs[m].parallel = 0 THEN 0 ELSE 1>> : m \in DOMAIN needs \cap DOMAIN jobs}
            \cup {<<m, 0>> : m \in {o \in DOMAIN needs \ DOMAIN jobs : ~needs[o]}}]

\* expandDependencyKeys, expandOptionalNeeds, pruneMissingOptionalDependencies
Edges(jobs) ==
    [k \in KeysOf(jobs) |->
        LET needs == EffectiveNeeds(jobs[k[1]])
        IN UNION {Instances(jobs, m) : m \in DOMAIN needs \cap DOMAIN jobs}
            \cup {<<m, 0>> : m \in {o \in DOMAIN needs \ DOMAIN jobs : ~needs[o]}}]

Before(k, l) == k[1] < l[1] \/ (k[1] = l[1] /\ k[2] < l[2])
Sorted(keys) == SetToSortSeq(keys, Before)
Least(keys) == CHOOSE k \in keys : \A l \in keys \ {k} : Before(k, l)

-----------------------------------------------------------------------------
(* The steps of the innermost file *)

Top == Last(frames)
Goto(frame) == frames' = Front(frames) \o <<frame>>
In(phase) == outcome = "" /\ Top.phase = phase

Refuse(why) ==
    /\ outcome' = why
    /\ UNCHANGED <<project, frames, children, built, cycle>>

\* validateGitLabIncludes; the includes of an included file are neither checked
\* nor followed.
IncludesExist(doc) == \A i \in DOMAIN doc.include : doc.include[i] \in DOMAIN project

Parse ==
    /\ In("parse")
    /\ LET doc == project[Top.file]
           sources == [i \in DOMAIN doc.include |-> project[doc.include[i]]]
           jobs == Merged(doc, sources)
       IN IF ~IncludesExist(doc)
          THEN Refuse("include")
          ELSE IF ~Valid(doc, jobs, MergedStages(doc, sources))
          THEN Refuse("invalid")
          ELSE /\ Goto([Top EXCEPT !.phase = "expand", !.jobs = jobs])
               /\ UNCHANGED <<project, children, built, outcome, cycle>>

\* normalizeDefinitionRecursive, and the start of deterministicTopologicalOrder
Expand ==
    /\ In("expand")
    /\ LET keys == KeysOf(Top.jobs)
           edges == Edges(Top.jobs)
       IN IF Cardinality(keys) > MaxJobs
          THEN Refuse("too many jobs")
          ELSE IF \E k \in keys : ~(edges[k] \subseteq keys)
          THEN Refuse("missing")
          ELSE /\ Goto([Top EXCEPT !.phase = "sort", !.edges = edges,
                            !.indegree = [k \in keys |-> Cardinality(edges[k])],
                            !.ready = Sorted({k \in keys : edges[k] = {}})])
               /\ UNCHANGED <<project, children, built, outcome, cycle>>

\* Mutant: a job is ready as soon as one of its needs is.
FreedByOne(frame, key) ==
    {k \in DOMAIN frame.edges : key \in frame.edges[k] /\ frame.indegree[k] > 0}

Freed(frame, key) ==
    {k \in DOMAIN frame.edges : key \in frame.edges[k] /\ frame.indegree[k] = 1}

\* The loop of deterministicTopologicalOrder, insertSorted
Pop ==
    /\ In("sort") /\ Top.ready # <<>>
    /\ LET key == Head(Top.ready)
       IN Goto([Top EXCEPT !.order = Append(@, key),
                    !.ready = Sorted(Range(Tail(@)) \cup Freed(Top, key)),
                    !.indegree = [k \in DOMAIN @ |-> IF key \in Top.edges[k] THEN @[k] - 1 ELSE @[k]]])
    /\ UNCHANGED <<project, children, built, outcome, cycle>>

SortEnds ==
    /\ In("sort") /\ Top.ready = <<>>
    /\ Goto([Top EXCEPT !.phase = IF Len(Top.order) = Cardinality(DOMAIN Top.edges) THEN "children" ELSE "search"])
    /\ UNCHANGED <<project, children, built, outcome, cycle>>

\* findDependencyCycle, one key at a time
Visit ==
    /\ In("search")
    /\ LET unseen == DOMAIN Top.edges \ Top.visited
           next == IF Top.stack = <<>> THEN unseen ELSE Top.edges[Last(Top.stack)] \ Top.visited
       IN IF next = {}
          THEN /\ IF Top.stack = <<>>
                  THEN outcome' = "cycle" /\ UNCHANGED frames
                  ELSE /\ Goto([Top EXCEPT !.visited = @ \cup {Last(Top.stack)}, !.stack = Front(@)])
                       /\ UNCHANGED outcome
               /\ UNCHANGED cycle
          ELSE LET key == Least(next)
               IN IF key \in Range(Top.stack)
                  THEN /\ cycle' = Append(SubSeq(Top.stack, CHOOSE i \in DOMAIN Top.stack : Top.stack[i] = key, Len(Top.stack)), key)
                       /\ outcome' = "cycle" /\ UNCHANGED frames
                  ELSE /\ Goto([Top EXCEPT !.stack = Append(@, key)])
                       /\ UNCHANGED <<outcome, cycle>>
    /\ UNCHANGED <<project, children, built>>

-----------------------------------------------------------------------------
(* Child pipelines *)

Bridges(frame) == SelectSeq(frame.order, LAMBDA k : frame.jobs[k[1]].trigger # None /\ k \notin DOMAIN frame.kids)

\* Mutant: the root file is no ancestor.
AncestorsBelowRoot == {frames[i].file : i \in 2..Len(frames)}

Ancestors == {frames[i].file : i \in DOMAIN frames}

\* normalizeLocalChildPipeline, in the order of its checks
ChildRefusal(job) ==
    CASE job.parallel > 1                             -> "matrix bridge"
      [] job.trigger.kind # "local"                   -> "kind"
      [] Len(frames) - 1 >= MaxDepth                  -> "depth"
      [] job.trigger.strategy \notin {"async", "mirror", "depend"} -> "strategy"
      [] job.trigger.file \notin DOMAIN project       -> "no file"
      [] job.trigger.file \in Ancestors               -> "child cycle"
      [] children >= MaxChildren                      -> "too many children"
      [] OTHER                                        -> ""

EnterChild ==
    /\ In("children") /\ Bridges(Top) # <<>>
    /\ LET key == Head(Bridges(Top))
           refusal == ChildRefusal(Top.jobs[key[1]])
       IN IF refusal # ""
          THEN Refuse(refusal)
          ELSE /\ frames' = Append(frames, Frame(Top.jobs[key[1]].trigger.file, key))
               /\ children' = children + 1
               /\ UNCHANGED <<project, built, outcome, cycle>>

Definition(frame) ==
    [file |-> frame.file, depth |-> Len(frames) - 1, jobs |-> frame.jobs, edges |-> frame.edges, order |-> frame.order,
     kids |-> frame.kids]

\* The definition is finished, and belongs to the bridge it was entered for.
Leave ==
    /\ In("children") /\ Bridges(Top) = <<>>
    /\ built' = built \cup {Definition(Top)}
    /\ IF Len(frames) = 1
       THEN outcome' = "ok" /\ UNCHANGED frames
       ELSE /\ frames' = SubSeq(frames, 1, Len(frames) - 2)
                            \o <<[frames[Len(frames) - 1] EXCEPT !.kids = (Top.by :> Top.file) @@ @]>>
            /\ UNCHANGED outcome
    /\ UNCHANGED <<project, children, cycle>>

Next == Parse \/ Expand \/ Pop \/ SortEnds \/ Visit \/ EnterChild \/ Leave

Spec == Init /\ [][Next]_vars

-----------------------------------------------------------------------------
(* Properties *)

GraphTypeOK ==
    /\ project \in Projects /\ children \in 0..MaxChildren
    /\ Len(frames) \in 1..(MaxDepth + 1)
    /\ \A i \in DOMAIN frames :
        /\ frames[i].file \in DOMAIN project
        /\ frames[i].phase \in {"parse", "expand", "sort", "search", "children"}
        /\ Range(frames[i].order) \cup Range(frames[i].ready) \subseteq DOMAIN frames[i].edges

\* The order of a definition has each of its jobs once, every job after the
\* jobs it needs, and of the jobs that could come next the first one by key:
\* two readings of one file give one order (deterministicTopologicalOrder).
OrderIsTheGraphs ==
    \A d \in built :
        /\ Range(d.order) = DOMAIN d.edges /\ Len(d.order) = Cardinality(DOMAIN d.edges)
        /\ \A i \in DOMAIN d.order :
            LET done == {d.order[j] : j \in 1..(i - 1)}
            IN /\ d.edges[d.order[i]] \subseteq done
               /\ d.order[i] = Least({k \in DOMAIN d.edges \ done : d.edges[k] \subseteq done})

\* Each instance of a job waits for every instance of each job that the file
\* says it needs, unless that job is optional and absent (expandDependencyKeys,
\* pruneMissingOptionalDependencies).
NeedsReachEveryInstance ==
    \A d \in built : \A k \in DOMAIN d.edges :
        LET needs == EffectiveNeeds(d.jobs[k[1]])
        IN \A m \in DOMAIN needs :
            /\ m \notin DOMAIN d.jobs => needs[m]
            /\ m \in DOMAIN d.jobs => \A l \in Instances(d.jobs, m) : l \in d.edges[k]

\* A graph is refused as cyclic only if it is, and the cycle that is reported
\* is one: each of its jobs needs the next, and the last is the first
\* (findDependencyCycle).
CyclesAreReal ==
    outcome = "cycle" =>
        /\ Len(cycle) >= 2 /\ cycle[1] = Last(cycle)
        /\ \A i \in 1..(Len(cycle) - 1) : cycle[i + 1] \in Top.edges[cycle[i]]

\* What a file says of a job prevails over what it includes, and the first
\* included file over the later ones (mergeCI).
OwnJobsPrevail ==
    \A i \in DOMAIN frames : frames[i].phase # "parse" =>
        LET doc == project[frames[i].file]
            files == <<doc>> \o [j \in DOMAIN doc.include |-> project[doc.include[j]]]
        IN \A n \in DOMAIN frames[i].jobs :
            \E j \in DOMAIN files :
                /\ n \in DOMAIN files[j].jobs /\ frames[i].jobs[n] = files[j].jobs[n]
                /\ \A h \in 1..(j - 1) : n \in DOMAIN files[h].jobs =>
                        files[h].jobs[n].script = "none" /\ files[h].jobs[n].trigger = None

\* No file is its own ancestor; an accepted workflow has a definition for the
\* child of every bridge, within the depth (normalizeLocalChildPipeline).
ChildrenAreComplete ==
    /\ \A i, j \in DOMAIN frames : frames[i].file = frames[j].file => i = j
    /\ outcome = "ok" =>
        \A d \in built :
            /\ d.depth <= MaxDepth
            /\ \A k \in DOMAIN d.edges : d.jobs[k[1]].trigger # None =>
                /\ k \in DOMAIN d.kids /\ d.kids[k] = d.jobs[k[1]].trigger.file
                /\ \E e \in built : e.file = d.kids[k] /\ e.depth = d.depth + 1

\* A job without needs comes after the jobs of the stages before its own
\* (compatibility/registry.go:99, "Normalize stage ordering, needs,
\* dependencies, and artifact edges into one DAG").  The stages are kept for
\* display; the sort knows the needs only.
StagesAreOrdered ==
    \A d \in built :
        LET stages == MergedStages(project[d.file], [i \in DOMAIN project[d.file].include |-> project[project[d.file].include[i]]])
            At(k) == CHOOSE s \in DOMAIN stages : stages[s] = d.jobs[k[1]].stage
            Staged(k) == \E s \in DOMAIN stages : stages[s] = d.jobs[k[1]].stage
        IN \A i, j \in DOMAIN d.order :
            /\ i < j
            /\ Staged(d.order[i]) /\ Staged(d.order[j])
            /\ DOMAIN EffectiveNeeds(d.jobs[d.order[i][1]]) = {}
            => At(d.order[i]) <= At(d.order[j])

-----------------------------------------------------------------------------
(* An instance for MCStageOrder.cfg: three jobs of two stages that need *)
(* nothing or their neighbour.                                          *)

StageNames == <<"build", "test">>

StagedJob(stage, needs) ==
    [stage |-> stage, script |-> "some", needs |-> [n \in needs |-> FALSE], dependencies |-> {}, parallel |-> 0,
     trigger |-> None]

StagedProjects ==
    {"root" :> [jobs |-> [n \in 1..3 |-> StagedJob(stages[n], IF n = needy THEN {4 - n} ELSE {})],
                stages |-> StageNames, before |-> FALSE, include |-> <<>>] :
        stages \in [1..3 -> Range(StageNames)], needy \in {0, 1, 3}}
=============================================================================
