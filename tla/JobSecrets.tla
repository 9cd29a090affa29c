----------------------------- MODULE JobSecrets -----------------------------
(***************************************************************************)
(* The secrets of a project and of an environment, as they are edited      *)
(* (store/configuration.go, store/environment_secrets.go) while a run      *)
(* reads them for its jobs (secrets/manager.go).  A run lists the names    *)
(* first and then reads the rows one by one; a job of an environment does  *)
(* so again, for both kinds, once its environment lets it.  A value stands *)
(* for an edit, and is encrypted with the key the service has.             *)
(* A definition marked "Mutant" is a bug that could have been made in the  *)
(* next one; no specification uses it.                                     *)
(***************************************************************************)
EXTENDS Integers, Sequences, FiniteSets, SequencesExt

CONSTANTS
    SecretNames,        \* numbers, in the order of names
    MaxEdits, MaxRekeys,        \* bounds
    None

VARIABLES
    rows,               \* [id, kind, name, value, key]
    edits,              \* how many edits were made: the value of the last one
    secretKey,          \* the key of the service, by number
    ready,              \* the environment lets the job
    reader,             \* where the run stands: [doing, kind, ids, values]
    runValues,          \* what its jobs without an environment use
    jobValues,          \* what the job of the environment uses
    outcome,            \* None, or why the run or the job could not go on
    allowed,            \* the environment let the job when it was asked (history)
    present,            \* rows that were there at some time since the reading began (history)
    began,              \* the identifiers there were when it began (history)
    deleted             \* a row was deleted since then (history)

readVars == <<reader, runValues, jobValues, outcome, allowed>>
sinceVars == <<present, began, deleted>>
vars == <<rows, edits, secretKey, ready, readVars, sinceVars>>

Kinds == {"project", "environment"}
NoValues == <<>>
Reading(doing, kind, ids, values) == [doing |-> doing, kind |-> kind, ids |-> ids, values |-> values]
Idle == Reading("idle", "project", <<>>, NoValues)

RowOf(kind, name) == {r \in rows : r.kind = kind /\ r.name = name}
Fresh(kind, name) == [id |-> edits + 1, kind |-> kind, name |-> name, value |-> edits + 1, key |-> secretKey]

Init ==
    /\ edits = 2 /\ secretKey = 1
    /\ rows = {[id |-> 1, kind |-> "project", name |-> 1, value |-> 1, key |-> 1],
               [id |-> 2, kind |-> "environment", name |-> 1, value |-> 2, key |-> 1]}
    /\ ready = TRUE
    /\ reader = Idle /\ runValues = NoValues /\ jobValues = NoValues
    /\ outcome = None /\ allowed = FALSE
    /\ present = {} /\ began = {} /\ deleted = FALSE

-----------------------------------------------------------------------------
(* Edits.  A secret that is written again keeps its identifier. *)

\* Mutant: the row is replaced.
WrittenAnew(old, new) == new
Written(old, new) == [new EXCEPT !.id = old.id]

UpsertSecret(kind, name) ==
    /\ edits < MaxEdits /\ edits' = edits + 1
    /\ LET old == RowOf(kind, name)
           new == IF old = {} THEN Fresh(kind, name)
                  ELSE Written(CHOOSE r \in old : TRUE, Fresh(kind, name))
       IN /\ rows' = (rows \ old) \cup {new}
          /\ present' = present \cup {new}
    /\ UNCHANGED <<secretKey, ready, readVars, began, deleted>>

DeleteSecret(row) ==
    /\ row \in rows /\ edits < MaxEdits /\ edits' = edits + 1
    /\ rows' = rows \ {row} /\ deleted' = TRUE
    /\ UNCHANGED <<secretKey, ready, readVars, present, began>>

\* An edit or a decision changes what the environment asks for.
ChangeAccess ==
    /\ edits < MaxEdits /\ edits' = edits + 1
    /\ ready' = ~ready
    /\ UNCHANGED <<rows, secretKey, readVars, sinceVars>>

\* The key file was removed, and the service started on a new one before it takes the run.
Rekey ==
    /\ reader = Idle /\ outcome = None
    /\ secretKey < MaxRekeys + 1 /\ secretKey' = secretKey + 1
    /\ UNCHANGED <<rows, edits, ready, readVars, sinceVars>>

-----------------------------------------------------------------------------
(* ResolveProject and ResolveForJob. *)

Listed(kind) ==
    LET of == {r \in rows : r.kind = kind}
    IN [i \in 1..Cardinality(of) |-> SetToSortSeq(of, LAMBDA a, b : a.name < b.name)[i].id]

\* executeRun begins with the secrets of the project.
ResolveRun ==
    /\ reader.doing = "idle" /\ outcome = None
    /\ reader' = Reading("run", "project", Listed("project"), NoValues)
    /\ present' = rows /\ began' = {r.id : r \in rows} /\ deleted' = FALSE
    /\ UNCHANGED <<rows, edits, secretKey, ready, runValues, jobValues, outcome, allowed>>

\* Mutant: a job that must wait reads its secrets nevertheless.
MayReadAlways == TRUE
MayRead == ready

\* prepareDeploymentJob: the environment is asked, then the secrets of the project are read again.
ResolveForJob ==
    /\ reader.doing = "between"
    /\ allowed' = ready
    /\ \/ /\ MayRead
          /\ reader' = Reading("job", "project", Listed("project"), NoValues)
          /\ present' = rows /\ began' = {r.id : r \in rows} /\ deleted' = FALSE
          /\ UNCHANGED outcome
       \/ /\ ~MayRead
          /\ outcome' = "not ready"
          /\ reader' = Idle
          /\ UNCHANGED sinceVars
    /\ UNCHANGED <<rows, edits, secretKey, ready, runValues, jobValues>>

\* One row by its identifier; one that is gone, or of another key, ends the reading.
ReadRow ==
    LET row == CHOOSE r \in rows : r.id = Head(reader.ids)
        found == \E r \in rows : r.id = Head(reader.ids)
    IN
    /\ reader.ids # <<>>
    /\ \/ /\ found /\ row.key = secretKey
          /\ reader' = [reader EXCEPT !.ids = Tail(@),
                                      !.values = Append(@, [kind |-> row.kind, name |-> row.name,
                                                            value |-> row.value])]
          /\ UNCHANGED outcome
       \/ /\ found /\ row.key # secretKey
          /\ outcome' = "cannot decrypt"
          /\ reader' = Idle
       \/ /\ ~found
          /\ outcome' = "not found"
          /\ reader' = Idle
    /\ UNCHANGED <<rows, edits, secretKey, ready, runValues, jobValues, allowed, sinceVars>>

RunResolved ==
    /\ reader.doing = "run" /\ reader.ids = <<>>
    /\ runValues' = reader.values
    /\ reader' = Reading("between", "project", <<>>, NoValues)
    /\ UNCHANGED <<rows, edits, secretKey, ready, jobValues, outcome, allowed, sinceVars>>

\* resolveEnvironment
ListEnvironment ==
    /\ reader.doing = "job" /\ reader.kind = "project" /\ reader.ids = <<>>
    /\ reader' = Reading("job", "environment", Listed("environment"), reader.values)
    /\ UNCHANGED <<rows, edits, secretKey, ready, runValues, jobValues, outcome, allowed, sinceVars>>

\* What is written last into the map of a job is what it uses.
\* Mutant: a name that the project has is kept.
UsedFirst(values, name) ==
    LET of == SelectSeq(values, LAMBDA v : v.name = name) IN of[1]
Used(values, name) ==
    LET of == SelectSeq(values, LAMBDA v : v.name = name) IN of[Len(of)]

JobResolved ==
    /\ reader.doing = "job" /\ reader.kind = "environment" /\ reader.ids = <<>>
    /\ jobValues' = [name \in {v.name : v \in ToSet(reader.values)} |-> Used(reader.values, name)]
    /\ outcome' = "resolved" /\ reader' = Idle
    /\ UNCHANGED <<rows, edits, secretKey, ready, runValues, allowed, sinceVars>>

Next ==
    \/ \E kind \in Kinds, name \in SecretNames : UpsertSecret(kind, name)
    \/ \E row \in rows : DeleteSecret(row)
    \/ ChangeAccess \/ Rekey
    \/ ResolveRun \/ ResolveForJob \/ ReadRow \/ RunResolved \/ ListEnvironment \/ JobResolved

Spec == Init /\ [][Next]_vars

-----------------------------------------------------------------------------
(* Types and properties. *)

SecretsTypeOK ==
    /\ \A a, b \in rows : a.kind = b.kind /\ a.name = b.name => a = b
    /\ \A a, b \in rows : a.id = b.id => a = b
    /\ reader.doing \in {"idle", "run", "between", "job"}

\* An edit of a secret never fails a run that is reading it; only a deletion does, or a key that is
\* no longer that of the row (ON CONFLICT DO UPDATE keeps the identifier that was listed).
OnlyDeletionFailsAReader ==
    /\ outcome = "not found" => deleted
    /\ outcome = "cannot decrypt" => \E r \in present : r.key # secretKey

\* A job uses values that its secrets had while it read them, the environment's own before those of
\* its project (ResolveForJob).
ValuesAreOfTheirTime ==
    outcome = "resolved" =>
        \A name \in DOMAIN jobValues :
            /\ \E r \in present :
                r.name = name /\ r.value = jobValues[name].value /\ r.kind = jobValues[name].kind
            /\ RowOf("environment", name) # {} /\ RowOf("environment", name) \subseteq {r \in rows : r.id \in began}
                => jobValues[name].kind = "environment"

\* The secrets of an environment are given only to a job it let when it was asked
\* (EvaluateEnvironmentAccess in ResolveForJob).
EnvironmentSecretsAreGuarded ==
    outcome = "resolved" => allowed
=============================================================================
