-------------------------- MODULE ProjectReleases --------------------------
(***************************************************************************)
(* The releases of a project (store/releases.go, migration 0018) as the    *)
(* requests of several clients make, edit, publish and delete them         *)
(* (httpapi/releases.go), and the audit events they leave                  *)
(* (store/audit.go).  A handler makes its accesses to the database one by  *)
(* one, and the client may hang up between any two of them, as the service *)
(* may stop.  Names and notes are one field.                               *)
(* A definition marked "Mutant" is a bug that could have been made in the  *)
(* next one; no specification uses it.                                     *)
(***************************************************************************)
EXTENDS Integers, FiniteSets

CONSTANTS
    Clients,
    Runs,               \* run -> [project, commit]
    Project,            \* the project whose releases these are
    Tags, Commits,      \* of its local checkout
    FirstTags,          \* what its tags may be at first
    Ids,                \* identifiers of releases, drawn at random
    Drafts, Statuses,   \* the drafts the project may have already, what its runs may be at first
    Wanted, Edits,      \* what is asked for: [run, tag, pre], and [name, pre] with None for a field left out
    MaxRequests, MaxMoves, MaxTime,     \* bounds
    None

VARIABLES
    active,             \* the project is registered
    status,             \* of each run
    tags,               \* tag -> commit or None
    pointed,            \* <<tag, commit>>: what a tag has resolved to (history)
    releases,           \* id -> the row
    used,               \* identifiers that were drawn (history)
    request,            \* client -> where its handler stands
    audit,              \* the audit events; their order is left out
    lost,               \* identifiers of which some change left no event (history)
    now, requests, moves

repoVars == <<active, status, tags, pointed, moves>>
rowVars == <<releases, used>>
auditVars == <<audit, lost>>
vars == <<repoVars, rowVars, request, auditVars, now, requests>>

Idle == [op |-> "none", at |-> "idle", id |-> None, run |-> None, tag |-> None, commit |-> None,
         name |-> None, pre |-> None]

Init ==
    /\ active = TRUE
    /\ releases \in Drafts /\ used = DOMAIN releases
    /\ status \in Statuses
    /\ \A id \in used : status[releases[id].run] = "succeeded"
    /\ tags \in FirstTags
    /\ pointed = {<<t, tags[t]>> : t \in Tags}
                    \cup {<<releases[id].tag, releases[id].commit>> : id \in used}
    /\ request = [c \in Clients |-> Idle]
    /\ audit = {[action |-> "created", id |-> id] : id \in used} /\ lost = {}
    /\ now = 1 /\ requests = 0 /\ moves = 0

Goes(c, place) == request' = [request EXCEPT ![c].at = place]
Ends(c) == request' = [request EXCEPT ![c] = Idle]
Exists(c) == request[c].id \in DOMAIN releases
Row(c) == releases[request[c].id]
IsDraft(c) == Exists(c) /\ Row(c).state = "draft"

-----------------------------------------------------------------------------
(* What changes around the requests. *)

EndRun(r) ==
    /\ status[r] = "running"
    /\ \E s \in {"succeeded", "failed"} : status' = [status EXCEPT ![r] = s]
    /\ UNCHANGED <<active, tags, pointed, moves, rowVars, request, auditVars, now, requests>>

\* The operator moves, makes or deletes a tag of the checkout.
MoveTag(t, target) ==
    /\ moves < MaxMoves /\ tags[t] # target
    /\ tags' = [tags EXCEPT ![t] = target]
    /\ pointed' = IF target = None THEN pointed ELSE pointed \cup {<<t, target>>}
    /\ moves' = moves + 1
    /\ UNCHANGED <<active, status, rowVars, request, auditVars, now, requests>>

Deactivate ==
    /\ active /\ moves < MaxMoves
    /\ active' = FALSE /\ moves' = moves + 1
    /\ UNCHANGED <<status, tags, pointed, rowVars, request, auditVars, now, requests>>

Tick ==
    /\ now < MaxTime /\ now' = now + 1
    /\ UNCHANGED <<repoVars, rowVars, request, auditVars, requests>>

-----------------------------------------------------------------------------
(* A new release: the tag is resolved before the transaction. *)

Starts(c, fields) ==
    /\ request[c].at = "idle"
    /\ requests < MaxRequests /\ requests' = requests + 1
    /\ request' = [request EXCEPT ![c] = fields]
    /\ UNCHANGED <<repoVars, rowVars, auditVars, now>>

Owned(r) == Runs[r].project = Project

BeginCreate(c, w) ==
    Starts(c, IF ~active \/ ~Owned(w.run) THEN Idle
              ELSE [Idle EXCEPT !.op = "created", !.at = "resolve", !.run = w.run, !.tag = w.tag,
                                !.pre = w.pre, !.name = w.tag])

\* Mutant: the commit of the run is taken for that of the tag.
ResolveByRun(c) == Runs[request[c].run].commit
Resolve(c) == tags[request[c].tag]

ResolveTagCommit(c) ==
    /\ request[c].op = "created" /\ request[c].at = "resolve"
    /\ \/ /\ tags[request[c].tag] = None
          /\ Ends(c)
       \/ /\ tags[request[c].tag] # None
          /\ request' = [request EXCEPT ![c].commit = Resolve(c), ![c].at = "write"]
    /\ UNCHANGED <<repoVars, rowVars, auditVars, now, requests>>

\* Mutant: the commit that was resolved is not compared with that of the run.
IsBuiltAny(c) == status[request[c].run] = "succeeded" /\ Owned(request[c].run)
IsBuilt(c) ==
    /\ Owned(request[c].run)
    /\ status[request[c].run] = "succeeded"
    /\ Runs[request[c].run].commit = request[c].commit

Taken(t) == \E id \in DOMAIN releases : releases[id].tag = t

Put(id, row) == releases' = [i \in DOMAIN releases \cup {id} |-> IF i = id THEN row ELSE releases[i]]

CreateRelease(c) ==
    /\ request[c].op = "created" /\ request[c].at = "write"
    /\ \/ /\ ~active \/ ~IsBuilt(c)
          /\ Ends(c)
          /\ UNCHANGED rowVars
       \/ /\ active /\ IsBuilt(c) /\ Taken(request[c].tag)
          /\ Ends(c)
          /\ UNCHANGED rowVars
       \/ /\ active /\ IsBuilt(c) /\ ~Taken(request[c].tag)
          /\ \E id \in Ids \ used :
                /\ Put(id, [run |-> request[c].run, tag |-> request[c].tag, commit |-> request[c].commit,
                            name |-> request[c].name, pre |-> request[c].pre, state |-> "draft", time |-> 0])
                /\ used' = used \cup {id}
                /\ request' = [request EXCEPT ![c].id = id, ![c].at = "reread"]
    /\ UNCHANGED <<repoVars, auditVars, now, requests>>

-----------------------------------------------------------------------------
(* An edit: the fields it leaves out are those of an earlier read. *)

BeginPatch(c, id, edit) ==
    LET row == releases[id] IN
    /\ id \in DOMAIN releases
    /\ Starts(c, [Idle EXCEPT !.op = "updated", !.at = "check", !.id = id,
                              !.name = IF edit.name = None THEN row.name ELSE edit.name,
                              !.pre = IF edit.pre = None THEN row.pre ELSE edit.pre])

BeginDelete(c, id) ==
    /\ id \in DOMAIN releases
    /\ Starts(c, [Idle EXCEPT !.op = "deleted", !.at = "check", !.id = id])

\* UpdateRelease and DeleteDraftRelease look at the state in a read of their own.
Check(c) ==
    /\ request[c].op \in {"updated", "deleted"} /\ request[c].at = "check"
    /\ IF IsDraft(c) THEN Goes(c, "write") ELSE Ends(c)
    /\ UNCHANGED <<repoVars, rowVars, auditVars, now, requests>>

\* Mutant: the statement trusts the state that was read before.
MayWriteIfThere(c) == Exists(c)
MayWrite(c) == IsDraft(c)

UpdateRelease(c) ==
    /\ request[c].op = "updated" /\ request[c].at = "write"
    /\ \/ /\ MayWrite(c)
          /\ Put(request[c].id, [Row(c) EXCEPT !.name = request[c].name, !.pre = request[c].pre])
          /\ Goes(c, "reread")
       \/ /\ ~MayWrite(c)
          /\ Ends(c)
          /\ UNCHANGED releases
    /\ UNCHANGED <<used, repoVars, auditVars, now, requests>>

DeleteDraftRelease(c) ==
    /\ request[c].op = "deleted" /\ request[c].at = "write"
    /\ \/ /\ MayWrite(c)
          /\ releases' = [i \in DOMAIN releases \ {request[c].id} |-> releases[i]]
          /\ Goes(c, "audit")
       \/ /\ ~MayWrite(c)
          /\ Ends(c)
          /\ UNCHANGED releases
    /\ UNCHANGED <<used, repoVars, auditVars, now, requests>>

-----------------------------------------------------------------------------
(* Publication, in one transaction; a second one changes nothing. *)

\* Mutant: a release that is published already gets the time of the last publication.
PublishedAgain(row) == [row EXCEPT !.state = "published", !.time = now]
Published(row) == IF row.state = "published" THEN row ELSE [row EXCEPT !.state = "published", !.time = now]

PublishRelease(c, id) ==
    /\ request[c].at = "idle" /\ requests < MaxRequests
    /\ requests' = requests + 1
    /\ id \in DOMAIN releases
    /\ Put(id, Published(releases[id]))
    /\ request' = [request EXCEPT ![c] = [Idle EXCEPT !.op = "published", !.at = "reread", !.id = id]]
    /\ UNCHANGED <<used, repoVars, auditVars, now>>

\* Each change ends with a read of the row, which another request may have deleted.
Reread(c) ==
    /\ request[c].at = "reread"
    /\ \/ /\ Exists(c)
          /\ Goes(c, "audit")
          /\ UNCHANGED lost
       \/ /\ ~Exists(c)
          /\ Ends(c)
          /\ lost' = lost \cup {request[c].id}
    /\ UNCHANGED <<repoVars, rowVars, audit, now, requests>>

-----------------------------------------------------------------------------
(* The audit event; that it could not be recorded is not told. *)

RecordAudit(c) ==
    /\ request[c].at = "audit"
    /\ Ends(c)
    /\ \/ /\ audit' = audit \cup {[action |-> request[c].op, id |-> request[c].id]}
          /\ UNCHANGED lost
       \/ /\ lost' = lost \cup {request[c].id}
          /\ UNCHANGED audit
    /\ UNCHANGED <<repoVars, rowVars, now, requests>>

\* The client hangs up, or the service stops: no later access is made.
Abandon(c) ==
    /\ request[c].at # "idle"
    /\ Ends(c)
    /\ lost' = IF request[c].at \in {"reread", "audit"} THEN lost \cup {request[c].id} ELSE lost
    /\ UNCHANGED <<repoVars, rowVars, audit, now, requests>>

Next ==
    \/ Tick \/ Deactivate
    \/ \E r \in DOMAIN Runs : EndRun(r)
    \/ \E t \in Tags, target \in Commits \cup {None} : MoveTag(t, target)
    \/ \E c \in Clients :
        \/ \E w \in Wanted : BeginCreate(c, w)
        \/ \E id \in Ids, edit \in Edits : BeginPatch(c, id, edit)
        \/ \E id \in Ids : BeginDelete(c, id)
        \/ \E id \in Ids : PublishRelease(c, id)
        \/ ResolveTagCommit(c) \/ CreateRelease(c) \/ Check(c) \/ UpdateRelease(c)
        \/ DeleteDraftRelease(c) \/ Reread(c) \/ RecordAudit(c) \/ Abandon(c)

Spec == Init /\ [][Next]_vars

-----------------------------------------------------------------------------
(* GetLatestRelease: the newest by time, then by identifier. *)

Eligible == {id \in DOMAIN releases : releases[id].state = "published" /\ ~releases[id].pre}
\* Mutant: releases of one time are not told apart.
IsNewerAny(a, b) == releases[a].time > releases[b].time
IsNewer(a, b) == releases[a].time > releases[b].time \/ (releases[a].time = releases[b].time /\ a > b)
Latest == {id \in Eligible : \A other \in Eligible \ {id} : IsNewer(id, other)}

-----------------------------------------------------------------------------
(* Types and properties. *)

ReleasesTypeOK ==
    /\ DOMAIN releases \subseteq used /\ used \subseteq Ids
    /\ \A id \in DOMAIN releases : (releases[id].state = "draft") = (releases[id].time = 0)
    /\ lost \subseteq used

\* A release names a run of its project that succeeded, at the commit its tag stood at when it
\* was resolved (createRelease, CreateRelease, releases_source_run_insert).
ReleaseNamesWhatWasBuilt ==
    \A id \in DOMAIN releases :
        LET row == releases[id] IN
        /\ Owned(row.run) /\ status[row.run] = "succeeded"
        /\ row.commit = Runs[row.run].commit
        /\ <<row.tag, row.commit>> \in pointed

\* No tag has two releases (UNIQUE (project_id, tag_name)).
OneReleaseOfATag ==
    \A a, b \in DOMAIN releases : releases[a].tag = releases[b].tag => a = b

\* What was published is neither edited nor deleted, whatever its editors had read before
\* (UpdateRelease, DeleteDraftRelease, releases_published_update).
PublishedStays ==
    \A id \in DOMAIN releases :
        releases[id].state = "published" => id \in DOMAIN releases' /\ releases'[id] = releases[id]

\* From the first publication on a project has one latest release, and only the publication of
\* one that is as new replaces it (GetLatestRelease).
LatestIsOne == Eligible # {} => Cardinality(Latest) = 1
LatestOnlyAdvances ==
    \A id \in Latest :
        /\ Latest' # {}
        /\ \A next \in Latest' : releases'[next].time >= releases[id].time

\* The audit log tells only of what happened, and what it does not tell of was cut short
\* (recordReleaseAudit).
AuditTellsWhatHappened ==
    LET Told(id, action) == [action |-> action, id |-> id] \in audit
        Pending(id, action) == \E c \in Clients :
            /\ request[c].id = id /\ request[c].op = action
            /\ request[c].at \in {"reread", "audit"}
    IN /\ \A event \in audit :
            /\ event.action = "deleted" => event.id \in used \ DOMAIN releases
            /\ event.action = "published" => event.id \in DOMAIN releases /\ releases[event.id].time > 0
       /\ \A id \in used \ lost :
            /\ Told(id, "created") \/ Pending(id, "created")
            /\ id \notin DOMAIN releases => Told(id, "deleted") \/ Pending(id, "deleted")
            /\ id \in Eligible => Told(id, "published") \/ Pending(id, "published")
=============================================================================
