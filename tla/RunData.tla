------------------------------ MODULE RunData ------------------------------
(***************************************************************************)
(* What runs leave on disk: their workspaces (execution/workspace.go), the *)
(* archives of artifacts and caches (execution/archive.go) and the rows    *)
(* that name them (store/execution_data.go), as the jobs of two workers    *)
(* use them (execution/execution_data.go).  A file stands for what a job   *)
(* builds; its content is the attempt that wrote it.  An archive is        *)
(* written before its row, and a crash may come between the two.           *)
(* A definition marked "Mutant" is a bug that could have been made in the  *)
(* next one; no specification uses it.                                     *)
(***************************************************************************)
EXTENDS Integers, Sequences, FiniteSets, SequencesExt

CONSTANTS
    Plans,              \* sequences of runs: [ref, jobs]
    DefaultRefs,        \* the names of the default branch; a ref is its place in the order of strings
    MaxFaults,          \* crashes, failures of the disk and of the store (a bound)
    None

VARIABLES
    plan,
    phase,              \* of a run and the worker that has it
    job, attempt, at,   \* the job, its attempt, the steps that were done
    failed,             \* a step of this attempt failed
    begun,              \* a job was interrupted after its first step
    orders,             \* archives to make before the worker goes on
    made,               \* the archive that has no row yet
    opened,             \* the gate of a job was opened
    workspaces,         \* run -> None or [whole, file]
    temporary,          \* runs with a workspace that is being made
    objects,            \* number -> [kind, file]
    artifacts,          \* rows [run, name, object, by]
    caches,             \* rows [ref, key, object], in the order of their insertion
    restored,           \* run -> what its last restore answered
    outcomes,           \* run -> the outcomes of its jobs
    down,               \* a worker is to be started again
    abandoned,          \* archives and workspaces an interrupted worker left, rows that lost their archive
    faults

jobVars == <<job, attempt, at, failed, begun, orders, made, opened, restored, outcomes>>
diskVars == <<workspaces, temporary, objects>>
rowVars == <<artifacts, caches>>
faultVars == <<down, abandoned, faults>>
vars == <<plan, phase, jobVars, diskVars, rowVars, faultVars>>

Runs == DOMAIN plan
Nothing == [asked |-> <<>>, found |-> FALSE, key |-> <<>>, ref |-> 0, object |-> 0]

Init ==
    /\ plan \in Plans
    /\ phase = [r \in Runs |-> "queued"]
    /\ job = [r \in Runs |-> 1] /\ attempt = [r \in Runs |-> 0] /\ at = [r \in Runs |-> 0]
    /\ failed = [r \in Runs |-> FALSE] /\ begun = [r \in Runs |-> FALSE]
    /\ orders = [r \in Runs |-> <<>>] /\ made = [r \in Runs |-> 0] /\ opened = [r \in Runs |-> FALSE]
    /\ workspaces = [r \in Runs |-> None] /\ temporary = {} /\ objects = <<>>
    /\ artifacts = {} /\ caches = <<>>
    /\ restored = [r \in Runs |-> Nothing] /\ outcomes = [r \in Runs |-> <<>>]
    /\ down = FALSE /\ abandoned = {} /\ faults = 0

Job(r) == plan[r].jobs[job[r]]
Step(r) == Job(r).steps[at[r] + 1]
Order(r) == Head(orders[r])
Me(r) == <<r, job[r], attempt[r]>>
File(r) == workspaces[r].file

Goto(r, where) == phase' = [phase EXCEPT ![r] = where]
Write(r, content) == workspaces' = [workspaces EXCEPT ![r].file = content]
CountFault == faults < MaxFaults /\ faults' = faults + 1

-----------------------------------------------------------------------------
(* The workspace of a run *)

\* Acquire: a workspace that is there is taken again; another is made beside.
Acquire(r) ==
    /\ phase[r] = "queued"
    /\ IF workspaces[r] # None
       THEN Goto(r, "job") /\ UNCHANGED temporary
       ELSE Goto(r, "making") /\ temporary' = temporary \cup {r}
    /\ UNCHANGED <<plan, jobVars, workspaces, objects, rowVars, faultVars>>

\* Mutant: the sources are unpacked in the place of the workspace.
UnpackInPlace(r) == workspaces' = [workspaces EXCEPT ![r] = [whole |-> FALSE, file |-> None]]

Unpack(r) == UNCHANGED workspaces

Unpacks(r) ==
    /\ phase[r] = "making" /\ r \in temporary
    /\ Goto(r, "unpacked") /\ Unpack(r)
    /\ UNCHANGED <<plan, jobVars, temporary, objects, rowVars, faultVars>>

MoveIn(r) ==
    /\ phase[r] = "unpacked" /\ r \in temporary
    /\ workspaces' = [workspaces EXCEPT ![r] = [whole |-> TRUE, file |-> None]]
    /\ temporary' = temporary \ {r}
    /\ Goto(r, "job")
    /\ UNCHANGED <<plan, jobVars, objects, rowVars, faultVars>>

\* failWorkspaceSetup: another worker cleaned up, or Git failed.
SetupFails(r) ==
    /\ phase[r] \in {"making", "unpacked"}
    /\ \/ r \notin temporary /\ UNCHANGED faults
       \/ r \in temporary /\ CountFault
    /\ temporary' = temporary \ {r}
    /\ Goto(r, "terminal")
    /\ UNCHANGED <<plan, jobVars, workspaces, objects, rowVars, down, abandoned>>

\* cleanupTerminalWorkspace
Cleanup(r) ==
    /\ phase[r] = "terminal"
    /\ workspaces' = [workspaces EXCEPT ![r] = None]
    /\ Goto(r, "done")
    /\ UNCHANGED <<plan, jobVars, temporary, objects, rowVars, faultVars>>

-----------------------------------------------------------------------------
(* Caches *)

CacheWriteRef(r) == plan[r].ref

\* Mutant: the caches of every branch.
RefsOfAll(r) == {caches[i].ref : i \in DOMAIN caches}

\* cacheRefs, in the order of strings (sortedUnique)
CacheRefs(r) == {CacheWriteRef(r)} \cup DefaultRefs

Exact(ref, key) == {i \in DOMAIN caches : caches[i].ref = ref /\ caches[i].key = key}
Prefixed(ref, prefix) == {i \in DOMAIN caches : caches[i].ref = ref /\ IsPrefix(prefix, caches[i].key)}
Latest(S) == CHOOSE i \in S : \A k \in S : k <= i

\* FindCacheEntry at one ref: the key itself, then the first prefix with an entry.
FoundAt(ref, key, prefixes) ==
    IF Exact(ref, key) # {} THEN Latest(Exact(ref, key))
    ELSE LET hits == SelectSeq(prefixes, LAMBDA p : Prefixed(ref, p) # {})
         IN IF hits = <<>> THEN 0 ELSE Latest(Prefixed(ref, Head(hits)))

Find(refs, key, prefixes) ==
    LET hit == {ref \in refs : FoundAt(ref, key, prefixes) # 0}
    IN IF hit = {} THEN 0 ELSE FoundAt(CHOOSE ref \in hit : \A o \in hit : ref <= o, key, prefixes)

Answer(r, key, prefixes) ==
    LET i == Find(CacheRefs(r), key, prefixes)
    IN IF i = 0 THEN [Nothing EXCEPT !.asked = key]
       ELSE [asked |-> key, found |-> TRUE, key |-> caches[i].key, ref |-> caches[i].ref, object |-> caches[i].object]

\* The row is there and its archive is not.
IsGone(answer) == answer.found /\ objects[answer.object] = None

\* restoreCache: the archive is unpacked over what is in the workspace.
Restore(r, answer) ==
    /\ restored' = [restored EXCEPT ![r] = IF IsGone(answer) THEN Nothing ELSE answer]
    /\ IF answer.found /\ ~IsGone(answer) THEN Write(r, objects[answer.object].file) ELSE UNCHANGED workspaces

Allows(policy, operation) == policy \in {operation, "pull-push"}

-----------------------------------------------------------------------------
(* The attempt of a job *)

\* A declared cache that cannot be unpacked is a warning.  Of an interrupted
\* job the first step was done, which is not undone: the attempt fails.
BeginJob(r) ==
    /\ phase[r] = "job" /\ job[r] <= Len(plan[r].jobs) /\ (Job(r).gate => opened[r])
    /\ attempt' = [attempt EXCEPT ![r] = @ + 1]
    /\ at' = [at EXCEPT ![r] = 0]
    /\ LET cache == Job(r).cache
       IN IF cache # None /\ Allows(cache.policy, "pull")
          THEN Restore(r, Answer(r, cache.key, cache.fallback))
          ELSE UNCHANGED <<restored, workspaces>>
    /\ failed' = [failed EXCEPT ![r] = begun[r]]
    /\ begun' = [begun EXCEPT ![r] = FALSE]
    /\ Goto(r, IF begun[r] THEN "ended" ELSE "step")
    /\ UNCHANGED <<plan, job, orders, made, opened, outcomes, temporary, objects, rowVars,
                   faultVars>>

Ready(r, kind) == phase[r] = "step" /\ ~failed[r] /\ at[r] < Len(Job(r).steps) /\ Step(r).kind = kind

StepDone(r, ok) ==
    /\ at' = [at EXCEPT ![r] = @ + 1]
    /\ failed' = [failed EXCEPT ![r] = @ \/ ~ok]

\* A command that builds: it writes, and may fail.
Build(r) ==
    /\ Ready(r, "build")
    /\ Write(r, Me(r))
    /\ \E ok \in BOOLEAN : StepDone(r, ok)
    /\ UNCHANGED <<plan, phase, job, attempt, begun, orders, made, opened, restored, outcomes,
                   temporary, objects, rowVars, faultVars>>

\* actions/cache/restore, and the first half of actions/cache
RestoreStep(r) ==
    /\ Ready(r, "restore") \/ Ready(r, "cache")
    /\ LET answer == Answer(r, Step(r).key, Step(r).fallback)
       IN Restore(r, answer) /\ StepDone(r, ~IsGone(answer))
    /\ UNCHANGED <<plan, phase, job, attempt, begun, orders, made, opened, outcomes, temporary,
                   objects, rowVars, faultVars>>

\* actions/upload-artifact and actions/cache/save
ArchiveStep(r) ==
    /\ Ready(r, "upload") \/ Ready(r, "save")
    /\ LET kind == IF Step(r).kind = "upload" THEN "artifact" ELSE "cache"
       IN orders' = [orders EXCEPT ![r] = <<[kind |-> kind, name |-> Step(r).key]>>]
    /\ Goto(r, "archive")
    /\ UNCHANGED <<plan, job, attempt, at, failed, begun, made, opened, restored, outcomes,
                   diskVars, rowVars, faultVars>>

\* Mutant: the artifacts of all runs.
RowsOfAll(r) == artifacts

\* GetRunArtifactByName, ListRunArtifacts
RowsOf(r) == {row \in artifacts : row.run = r}

\* actions/download-artifact, by its name
Download(r) ==
    /\ Ready(r, "download")
    /\ LET rows == {row \in RowsOf(r) : row.name = Step(r).key}
       IN IF \A row \in rows : objects[row.object] = None
          THEN StepDone(r, FALSE) /\ UNCHANGED workspaces
          ELSE StepDone(r, TRUE) /\ \E row \in rows : Write(r, objects[row.object].file)
    /\ UNCHANGED <<plan, phase, job, attempt, begun, orders, made, opened, restored, outcomes,
                   temporary, objects, rowVars, faultVars>>

\* cacheWhenMatches: asked only after success
SaveWhen(cache) == cache.when # "on_failure"

SavesOf(r) ==
    LET cache == Job(r).cache
        declared == IF cache # None /\ Allows(cache.policy, "push") /\ SaveWhen(cache)
                    THEN <<[kind |-> "cache", name |-> cache.key]>> ELSE <<>>
        both == SelectSeq(Job(r).steps, LAMBDA s : s.kind = "cache")
    IN declared \o [i \in DOMAIN both |-> [kind |-> "cache", name |-> both[i].key]]

ArtifactWhen(when, succeeded) ==
    CASE when = "always" -> TRUE [] when = "on_failure" -> ~succeeded [] OTHER -> succeeded

CaptureOf(r, succeeded) ==
    LET artifact == Job(r).artifact
    IN IF artifact # None /\ (ArtifactWhen(artifact.when, succeeded) \/ artifact.reports)
       THEN <<[kind |-> "artifact", name |-> artifact.name]>> ELSE <<>>

\* saveJobCaches if the steps succeeded, then captureJobArtifact
StepsEnd(r) ==
    /\ phase[r] = "step" /\ (failed[r] \/ at[r] = Len(Job(r).steps))
    /\ orders' = [orders EXCEPT ![r] = (IF failed[r] THEN <<>> ELSE SavesOf(r)) \o CaptureOf(r, ~failed[r])]
    /\ at' = [at EXCEPT ![r] = Len(Job(r).steps) + 1]
    /\ Goto(r, "archive")
    /\ UNCHANGED <<plan, job, attempt, failed, begun, made, opened, restored, outcomes, diskVars,
                   rowVars, faultVars>>

-----------------------------------------------------------------------------
(* Archives *)

\* Whether the order belongs to a step or to the end of the job.
InStep(r) == at[r] <= Len(Job(r).steps)

\* A cache that is not saved at the end of the job leaves the other caches out,
\* and the artifact is that of a job that failed.
OrderDone(r, ok) ==
    /\ orders' = [orders EXCEPT ![r] =
           IF ok \/ InStep(r) \/ Order(r).kind = "artifact" THEN Tail(@) ELSE CaptureOf(r, FALSE)]
    /\ IF InStep(r)
       THEN StepDone(r, ok) /\ Goto(r, "step")
       ELSE failed' = [failed EXCEPT ![r] = @ \/ ~ok] /\ Goto(r, "archive") /\ UNCHANGED at

IsSaved(r) == Order(r).kind = "cache" /\ Exact(CacheWriteRef(r), Order(r).name) # {}

\* The cache is there, or no file matches.
NothingToArchive(r) ==
    /\ phase[r] = "archive" /\ orders[r] # <<>> /\ (IsSaved(r) \/ File(r) = None)
    /\ OrderDone(r, TRUE)
    /\ UNCHANGED <<plan, job, attempt, begun, made, opened, restored, outcomes, diskVars, rowVars,
                   faultVars>>

\* CreateZip, CreateTarGz: a temporary file is renamed when it is complete.
Archive(r) ==
    /\ phase[r] = "archive" /\ orders[r] # <<>> /\ ~IsSaved(r) /\ File(r) # None
    /\ objects' = Append(objects, [kind |-> Order(r).kind, file |-> File(r)])
    /\ made' = [made EXCEPT ![r] = Len(objects) + 1]
    /\ Goto(r, "record")
    /\ UNCHANGED <<plan, job, attempt, at, failed, begun, orders, opened, restored, outcomes,
                   workspaces, temporary, rowVars, faultVars>>

ArchiveFails(r) ==
    /\ phase[r] = "archive" /\ orders[r] # <<>> /\ ~IsSaved(r) /\ File(r) # None /\ CountFault
    /\ OrderDone(r, FALSE)
    /\ UNCHANGED <<plan, job, attempt, begun, made, opened, restored, outcomes, diskVars, rowVars,
                   down, abandoned>>

NameIsTaken(r) ==
    \/ Order(r).kind = "cache" /\ IsSaved(r)
    \/ Order(r).kind = "artifact" /\ \E row \in RowsOf(r) : row.name = Order(r).name

Insert(r) ==
    IF Order(r).kind = "cache"
    THEN /\ caches' = Append(caches, [ref |-> CacheWriteRef(r), key |-> Order(r).name, object |-> made[r]])
         /\ UNCHANGED artifacts
    ELSE /\ artifacts' = artifacts \cup {[run |-> r, name |-> Order(r).name, object |-> made[r], by |-> Me(r)]}
         /\ UNCHANGED caches

\* Mutant: the archive of the row that is there goes.
RemoveOther(r) ==
    objects' = [i \in DOMAIN objects |->
        IF \E n \in DOMAIN caches : caches[n].object = i /\ caches[n].key = Order(r).name THEN None ELSE objects[i]]

\* archives.Remove: the archive that found no row goes.
RemoveArchive(r) == objects' = [objects EXCEPT ![made[r]] = None]

\* Mutant: an artifact that is there is good enough.
ConflictIsFine(r) == TRUE

\* A cache that another run saved meanwhile is as good; an artifact is refused.
ConflictOK(r) == Order(r).kind = "cache"

\* captureArtifact reads the reports of a job when its artifact has its row: one
\* that is malformed fails the job, and the artifact stays.
ReportsRead(r) ==
    IF Order(r).kind = "artifact" /\ ~InStep(r) /\ Job(r).artifact.reports THEN BOOLEAN ELSE {TRUE}

Record(r) ==
    /\ phase[r] = "record"
    /\ made' = [made EXCEPT ![r] = 0]
    /\ IF NameIsTaken(r)
       THEN RemoveArchive(r) /\ OrderDone(r, ConflictOK(r)) /\ UNCHANGED rowVars
       ELSE Insert(r) /\ (\E ok \in ReportsRead(r) : OrderDone(r, ok)) /\ UNCHANGED objects
    /\ UNCHANGED <<plan, job, attempt, begun, opened, restored, outcomes, workspaces, temporary,
                   faultVars>>

\* Mutant: an archive without a row is no failure.
ErrorIsFine(r) == TRUE

\* Any other error of CreateArtifact and PutCacheEntry
ErrorOK(r) == FALSE

\* Any error removes the archive: the row was not inserted, or it was and could
\* not be read again (also when the time limit of the job came between).
RecordFails(r) ==
    /\ phase[r] = "record" /\ CountFault
    /\ made' = [made EXCEPT ![r] = 0]
    /\ RemoveArchive(r) /\ OrderDone(r, ErrorOK(r))
    /\ \/ UNCHANGED <<rowVars, abandoned>>
       \/ ~NameIsTaken(r) /\ Insert(r) /\ abandoned' = abandoned \cup {<<"row", made[r]>>}
    /\ UNCHANGED <<plan, job, attempt, begun, opened, restored, outcomes, workspaces, temporary, down>>

-----------------------------------------------------------------------------
(* The end of an attempt, of a job and of the run *)

ArchivesDone(r) ==
    /\ phase[r] = "archive" /\ orders[r] = <<>>
    /\ Goto(r, "ended")
    /\ UNCHANGED <<plan, jobVars, diskVars, rowVars, faultVars>>

Retry(r) ==
    /\ phase[r] = "ended" /\ failed[r] /\ attempt[r] < Job(r).attempts
    /\ at' = [at EXCEPT ![r] = 0]
    /\ Goto(r, "job")
    /\ UNCHANGED <<plan, job, attempt, failed, begun, orders, made, opened, restored, outcomes,
                   diskVars, rowVars, faultVars>>

JobEnds(r) ==
    /\ phase[r] = "ended" /\ (failed[r] => attempt[r] >= Job(r).attempts)
    /\ outcomes' = [outcomes EXCEPT ![r] = Append(@, IF failed[r] THEN "failed" ELSE "succeeded")]
    /\ job' = [job EXCEPT ![r] = @ + 1] /\ attempt' = [attempt EXCEPT ![r] = 0]
    /\ opened' = [opened EXCEPT ![r] = FALSE]
    /\ Goto(r, IF failed[r] \/ job[r] = Len(plan[r].jobs) THEN "terminal" ELSE "job")
    /\ UNCHANGED <<plan, at, failed, begun, orders, made, restored, diskVars, rowVars, faultVars>>

\* The job waits for an approval; the run leaves its worker.
Park(r) ==
    /\ phase[r] = "job" /\ Job(r).gate /\ ~opened[r]
    /\ Goto(r, "waiting")
    /\ UNCHANGED <<plan, jobVars, diskVars, rowVars, faultVars>>

Resume(r) ==
    /\ phase[r] = "waiting"
    /\ opened' = [opened EXCEPT ![r] = TRUE]
    /\ Goto(r, "queued")
    /\ UNCHANGED <<plan, job, attempt, at, failed, begun, orders, made, restored, outcomes,
                   diskVars, rowVars, faultVars>>

\* A waiting run that is cancelled is terminal at once: no worker cleans up.
CancelWaiting(r) ==
    /\ phase[r] = "waiting"
    /\ Goto(r, "done")
    /\ abandoned' = abandoned \cup {<<"workspace", r>>}
    /\ UNCHANGED <<plan, jobVars, diskVars, rowVars, down, faults>>

-----------------------------------------------------------------------------
(* Crashes *)

Working(r) == phase[r] \notin {"queued", "waiting", "done", "crashed", "broken"}

\* "broken": a step was running.
Stopped(r) ==
    CASE phase[r] = "terminal"                              -> {"done"}
      [] phase[r] = "step" /\ at[r] < Len(Job(r).steps)     -> {"broken", "crashed"}
      [] phase[r] \in {"archive", "record"} /\ InStep(r)    -> {"broken"}
      [] OTHER                                              -> {"crashed"}

Crash(r) ==
    /\ Working(r) /\ ~down /\ CountFault
    /\ down' = TRUE
    /\ \E how \in Stopped(r) : Goto(r, how)
    /\ abandoned' = abandoned \cup {<<"workspace", r>>}
                        \cup IF made[r] = 0 THEN {} ELSE {<<"object", made[r]>>}
    /\ UNCHANGED <<plan, jobVars, diskVars, rowVars>>

\* RecoverExpiredRunWorkers: a run whose step was running failed, another is
\* queued again.
Recover(r) ==
    /\ phase[r] \in {"crashed", "broken"}
    /\ made' = [made EXCEPT ![r] = 0] /\ orders' = [orders EXCEPT ![r] = <<>>]
    /\ begun' = [begun EXCEPT ![r] = job[r] <= Len(plan[r].jobs) /\ attempt[r] > 0 /\ at[r] > 0]
    /\ Goto(r, IF phase[r] = "crashed" THEN "queued" ELSE "done")
    /\ UNCHANGED <<plan, job, attempt, at, failed, opened, restored, outcomes, diskVars, rowVars,
                   faultVars>>

\* CleanupRecovered, when a worker starts
Restart ==
    /\ down /\ down' = FALSE
    /\ workspaces' = [r \in Runs |-> IF phase[r] = "done" THEN None ELSE workspaces[r]]
    /\ temporary' = {}
    /\ UNCHANGED <<plan, phase, jobVars, objects, rowVars, abandoned, faults>>

RunStep(r) ==
    \/ Acquire(r) \/ Unpacks(r) \/ MoveIn(r) \/ Cleanup(r)
    \/ BeginJob(r) \/ Build(r) \/ RestoreStep(r) \/ ArchiveStep(r) \/ Download(r) \/ StepsEnd(r)
    \/ NothingToArchive(r) \/ Archive(r) \/ Record(r) \/ ArchivesDone(r)
    \/ Retry(r) \/ JobEnds(r) \/ Park(r) \/ Recover(r)

Next ==
    \/ \E r \in Runs : RunStep(r) \/ SetupFails(r) \/ ArchiveFails(r) \/ RecordFails(r) \/ Resume(r) \/ CancelWaiting(r) \/ Crash(r)
    \/ Restart

Spec == Init /\ [][Next]_vars

-----------------------------------------------------------------------------
(* Properties *)

RunDataTypeOK ==
    /\ temporary \subseteq Runs /\ faults \in 0..MaxFaults
    /\ \A r \in Runs : made[r] \in 0..Len(objects) /\ job[r] \in 1..(Len(plan[r].jobs) + 1)
    /\ \A row \in artifacts : row.run \in Runs /\ row.object \in DOMAIN objects
    /\ \A i \in DOMAIN caches : caches[i].object \in DOMAIN objects

\* Jobs work in a workspace that holds all of its commit, also when a worker
\* stopped while it was made (Acquire renames a temporary directory).
WorkspaceIsWhole ==
    \A r \in Runs : phase[r] \in {"job", "step", "archive", "record", "ended"} =>
        workspaces[r] # None /\ workspaces[r].whole

\* The row of an artifact or of a cache has its archive, of its kind, unless the
\* worker inserted it, could not read it again and removed the archive; two rows
\* never share one (the order of captureArtifact and saveCache).
RowObjects == {row.object : row \in artifacts} \cup {caches[i].object : i \in DOMAIN caches}
HasArchive(object, kind) ==
    IF objects[object] = None THEN <<"row", object>> \in abandoned ELSE objects[object].kind = kind
RowsHaveTheirArchives ==
    /\ \A row \in artifacts : HasArchive(row.object, "artifact")
    /\ \A i \in DOMAIN caches : HasArchive(caches[i].object, "cache")
    /\ Cardinality(RowObjects) = Cardinality(artifacts) + Len(caches)

\* An archive without a row is one whose row comes next, or that an interrupted
\* worker left: nothing removes those (archives.Remove, newArchiveManager).
ArchivesHaveTheirRows ==
    \A i \in DOMAIN objects : objects[i] # None =>
        \/ i \in RowObjects \/ <<"object", i>> \in abandoned
        \/ \E r \in Runs : made[r] = i

\* A job restores what runs of its branch, or of the default branch, saved, and
\* asks for a hit only what has its key or one of its prefixes (FindCacheEntry).
CachesStayOnTheirBranch ==
    \A r \in Runs : restored[r].found =>
        /\ objects[restored[r].object] # None
        /\ LET writer == objects[restored[r].object].file[1]
           IN plan[writer].ref \in {plan[r].ref} \cup DefaultRefs

\* What lies in the workspace of a run was built by it, or came from a cache
\* (workspaces, and RowsOf by run).
RunsAreIsolated ==
    \A r \in Runs : workspaces[r] # None /\ File(r) # None =>
        \/ File(r)[1] = r
        \/ \E i \in DOMAIN caches :
            /\ caches[i].ref \in {plan[r].ref} \cup DefaultRefs
            /\ objects[caches[i].object] # None /\ objects[caches[i].object].file = File(r)

\* The artifact of a job that captures it on success was captured by the attempt
\* that succeeded, never by one that failed before, and its archive is there
\* (captureArtifact's conflict and its errors).
ArtifactIsOfTheAttempt ==
    \A r \in Runs : phase[r] = "ended" /\ ~failed[r] /\ CaptureOf(r, TRUE) # <<>> =>
        \A row \in RowsOf(r) : row.name = Job(r).artifact.name =>
            row.by[2] = job[r] /\ row.by[3] = attempt[r] /\ objects[row.object] # None

\* A run that is over keeps no workspace, but for one that was cancelled while
\* it waited or whose worker stopped (cleanupTerminalWorkspace).
TerminalRunsLeaveNoWorkspace ==
    \A r \in Runs : phase[r] = "done" /\ workspaces[r] # None => <<"workspace", r>> \in abandoned

\* The entry of a cache key is never replaced, nor its archive rewritten.
EntriesAreImmutable ==
    /\ IsPrefix(caches, caches') /\ artifacts \subseteq artifacts'
    /\ \A i \in DOMAIN objects : objects'[i] \in {objects[i], None}
=============================================================================
