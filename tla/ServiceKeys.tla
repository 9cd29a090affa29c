---------------------------- MODULE ServiceKeys ----------------------------
(***************************************************************************)
(* The files that a service makes when it is first started: the key of its *)
(* sessions and the admin token (auth/auth.go), and the key that its       *)
(* secrets are encrypted with (secrets/manager.go).  Several services may  *)
(* be started in one directory; each reads a file or makes it, in three    *)
(* steps, and any of them may be interrupted.                              *)
(* A definition marked "Mutant" is a bug that could have been made in the  *)
(* next one; no specification uses it.                                     *)
(***************************************************************************)
EXTENDS Integers, FiniteSets

CONSTANTS
    Services,
    MaxMade,            \* secrets that are drawn (a bound)
    MaxMishaps,         \* interruptions, failures and removals (a bound)
    None

VARIABLES
    file,               \* name -> None or [secret, whole]
    at,                 \* service -> "down", "up" or [name, doing] while it starts
    held,               \* service -> what it has read or made: name -> secret
    drawn,              \* service -> the secret it draws for the file it is making
    made,               \* how many secrets were drawn
    new,                \* service -> the token that this start has made
    told,               \* token -> how many services have shown it
    outdated,           \* <<service, name>>: it holds the secret of a file that was removed (history)
    mishaps

vars == <<file, at, held, drawn, made, new, told, outdated, mishaps>>

\* In the order in which they are opened.
Names == {"session", "token", "secret"}
Following == [session |-> "token", token |-> "secret"]
Doing(name, doing) == [name |-> name, doing |-> doing]
IsAt(s, name, doing) == at[s].name = name /\ at[s].doing = doing
Down == Doing("none", "down")
Up == Doing("none", "up")
Starting(s) == at[s] \notin {Down, Up}
Nothing == [n \in Names |-> None]

Init ==
    /\ file = Nothing
    /\ at = [s \in Services |-> Down]
    /\ held = [s \in Services |-> Nothing] /\ drawn = [s \in Services |-> None]
    /\ new = [s \in Services |-> None]
    /\ made = 0 /\ told = [k \in 1..MaxMade |-> 0]
    /\ outdated = {} /\ mishaps = 0

Start(s) ==
    /\ at[s] = Down
    /\ at' = [at EXCEPT ![s] = Doing("session", "read")]
    /\ UNCHANGED <<file, held, drawn, made, new, told, outdated, mishaps>>

\* Mutant: a token that was found is kept to be shown as well.
KeptToShowAlways(s, name, secret, isNew) == IF name = "token" THEN secret ELSE new[s]
KeptToShow(s, name, secret, isNew) == IF name = "token" /\ isNew THEN secret ELSE new[s]

\* The service has one secret more; with the last it is up, and shows the token that it made.
Has(s, name, secret, isNew) ==
    /\ held' = [held EXCEPT ![s][name] = secret]
    /\ outdated' = outdated \ {<<s, name>>}
    /\ drawn' = [drawn EXCEPT ![s] = None]
    /\ new' = [new EXCEPT ![s] = KeptToShow(s, name, secret, isNew)]
    /\ \/ /\ name # "secret"
          /\ at' = [at EXCEPT ![s] = Doing(Following[name], "read")]
          /\ UNCHANGED told
       \/ /\ name = "secret"
          /\ at' = [at EXCEPT ![s] = Up]
          /\ told' = IF new[s] = None THEN told ELSE [told EXCEPT ![new[s]] = @ + 1]

\* A start that fails leaves nothing in memory.
Leaves(s) ==
    /\ at' = [at EXCEPT ![s] = Down]
    /\ held' = [held EXCEPT ![s] = Nothing]
    /\ drawn' = [drawn EXCEPT ![s] = None] /\ new' = [new EXCEPT ![s] = None]
    /\ outdated' = {o \in outdated : o[1] # s}

\* A file that is not there is to be made; one that is cut short ends the start.
\* Mutant: what is there is taken for the secret.
IsWholeAnyway(content) == TRUE
IsWhole(content) == content.whole

ReadFile(s, name) ==
    /\ IsAt(s, name, "read")
    /\ \/ /\ file[name] # None /\ IsWhole(file[name])
          /\ Has(s, name, file[name].secret, FALSE)
          /\ UNCHANGED made
       \/ /\ file[name] # None /\ ~IsWhole(file[name])
          /\ Leaves(s)
          /\ UNCHANGED <<made, told>>
       \/ /\ file[name] = None /\ made < MaxMade
          /\ made' = made + 1
          /\ drawn' = [drawn EXCEPT ![s] = made + 1]
          /\ at' = [at EXCEPT ![s] = Doing(name, "create")]
          /\ UNCHANGED <<held, new, told, outdated>>
    /\ UNCHANGED <<file, mishaps>>

\* O_EXCL: of two that make a file one finds that it exists.  The files of auth.go are then read
\* again; the start ends at the key of the secrets.
\* Mutant: the file is opened without O_EXCL.
MayCreateOver(name) == TRUE
MayCreate(name) == file[name] = None

CreateFile(s, name) ==
    /\ IsAt(s, name, "create")
    /\ \/ /\ MayCreate(name)
          /\ file' = [file EXCEPT ![name] = [secret |-> drawn[s], whole |-> FALSE]]
          /\ at' = [at EXCEPT ![s] = Doing(name, "write")]
          /\ UNCHANGED <<held, drawn, new, outdated>>
       \/ /\ ~MayCreate(name) /\ name # "secret"
          /\ at' = [at EXCEPT ![s] = Doing(name, "read")]
          /\ drawn' = [drawn EXCEPT ![s] = None]
          /\ UNCHANGED <<file, held, new, outdated>>
       \/ /\ ~MayCreate(name) /\ name = "secret"
          /\ Leaves(s)
          /\ UNCHANGED file
    /\ UNCHANGED <<made, told, mishaps>>

WriteFile(s, name) ==
    /\ IsAt(s, name, "write")
    /\ file' = [file EXCEPT ![name] = [secret |-> drawn[s], whole |-> TRUE]]
    /\ Has(s, name, drawn[s], TRUE)
    /\ UNCHANGED <<made, mishaps>>

\* The disk is full, or the file cannot be synced.  Only secrets/manager.go removes what it could
\* not write.
WriteFails(s, name) ==
    /\ IsAt(s, name, "write") /\ mishaps < MaxMishaps
    /\ mishaps' = mishaps + 1
    /\ Leaves(s)
    /\ \/ file' = [file EXCEPT ![name] = IF name = "secret" THEN None
                                         ELSE [secret |-> drawn[s], whole |-> FALSE]]
       \/ file' = [file EXCEPT ![name] = [secret |-> drawn[s], whole |-> TRUE]]
    /\ UNCHANGED <<made, told>>

Stop(s) ==
    /\ at[s] # Down
    /\ Starting(s) => mishaps < MaxMishaps
    /\ mishaps' = IF Starting(s) THEN mishaps + 1 ELSE mishaps
    /\ Leaves(s)
    /\ UNCHANGED <<file, made, told>>

\* The operator removes a file, to change the secret or because no service starts any more.
RemoveFile(name) ==
    /\ file[name] # None /\ mishaps < MaxMishaps
    /\ \A s \in Services : ~Starting(s)
    /\ mishaps' = mishaps + 1
    /\ file' = [file EXCEPT ![name] = None]
    /\ outdated' = outdated \cup {<<s, name>> : s \in {p \in Services : at[p] = Up}}
    /\ UNCHANGED <<at, held, drawn, made, new, told>>

Next ==
    \/ \E s \in Services :
        \/ Start(s) \/ Stop(s)
        \/ \E name \in Names : ReadFile(s, name) \/ CreateFile(s, name) \/ WriteFile(s, name) \/ WriteFails(s, name)
    \/ \E name \in Names : RemoveFile(name)

Spec == Init /\ [][Next]_vars

-----------------------------------------------------------------------------
(* Types and properties. *)

KeysTypeOK ==
    /\ \A name \in Names : file[name] # None => file[name].secret \in 1..made
    /\ \A s \in Services : at[s] = Up => \A name \in Names : held[s][name] \in 1..made

\* The services of one directory hold the secrets of its files, each of them whole, also when they
\* were started at once: a session or a stored secret of one is good for the other (loadOrCreateSecret,
\* loadOrCreateKey).
ServicesAgree ==
    \A s \in Services, name \in Names :
        held[s][name] # None /\ <<s, name>> \notin outdated =>
            file[name] = [secret |-> held[s][name], whole |-> TRUE]

\* A token is shown once, by the service that made it, and is the one on file: "An existing
\* stored token is never returned" (NewManager).
TokenIsToldOnce ==
    \A k \in DOMAIN told :
        /\ told[k] <= 1
        /\ told[k] = 1 /\ file["token"] # None /\ file["token"].secret = k => file["token"].whole

\* A file that is whole is not written again (O_EXCL).
FilesStay ==
    \A name \in Names :
        file[name] # None /\ file[name].whole => file'[name] \in {file[name], None}

-----------------------------------------------------------------------------
(* The inductive invariant *)

Drawn == 1..made

KeysTyped ==
    /\ made \in 0..MaxMade
    /\ file \in [Names -> {None} \cup [secret : Drawn, whole : BOOLEAN]]
    /\ at \in [Services -> {Down, Up} \cup [name : Names, doing : {"read", "create", "write"}]]
    /\ held \in [Services -> [Names -> {None} \cup Drawn]]
    /\ drawn \in [Services -> {None} \cup Drawn]
    /\ new \in [Services -> {None} \cup Drawn]
    /\ told \in [1..MaxMade -> {0, 1}]

\* What a service has in memory, by how far it has come
HeldSoFar ==
    \A s \in Services :
        /\ at[s] = Down => held[s] = Nothing
        /\ at[s] = Up \/ at[s].name \in {"token", "secret"} => held[s]["session"] # None
        /\ at[s] = Up \/ at[s].name = "secret" => held[s]["token"] # None
        /\ at[s] = Up => held[s]["secret"] # None
        /\ at[s] = Down \/ at[s].name \in {"session", "token"} => new[s] = None
        /\ drawn[s] # None <=> at[s].doing \in {"create", "write"}

\* A file that is being written is the writer's.
WritersOwn ==
    \A s \in Services, name \in Names :
        IsAt(s, name, "write") => file[name] = [secret |-> drawn[s], whole |-> FALSE]

\* A secret that is drawn is nowhere else yet.
DrawnIsFresh ==
    \A s \in Services : drawn[s] # None =>
        /\ \A t \in Services : (t # s => drawn[t] # drawn[s]) /\ new[t] # drawn[s]
        /\ \A name \in Names : file[name] # None /\ file[name].secret = drawn[s] => IsAt(s, name, "write")
        /\ told[drawn[s]] = 0

\* A token is told by the service that made it, once it is up, and not from a
\* file that was cut short.
TokensAreUntold ==
    /\ \A s \in Services : new[s] # None =>
        /\ \A t \in Services \ {s} : new[t] # new[s]
        /\ at[s] # Up => told[new[s]] = 0
    /\ \A k \in 1..MaxMade : k > made => told[k] = 0
    /\ file["token"] # None /\ ~file["token"].whole =>
        told[file["token"].secret] = 0 /\ \A s \in Services : new[s] # file["token"].secret

KeysInv ==
    KeysTyped /\ HeldSoFar /\ WritersOwn /\ DrawnIsFresh /\ TokensAreUntold /\ ServicesAgree
=============================================================================
