----------------------------- MODULE Admission -----------------------------
(***************************************************************************)
(* What is let in: an event by the policies of a workflow, a job by its    *)
(* needs, condition and rules, an administrator by the files of the        *)
(* service and a session, a job to the secrets of its project and of its   *)
(* environment.  These parts share no state: a behaviour follows one of    *)
(* them, chosen at the start, and all use the same variables, each as many *)
(* as it has, in the order of its VARIABLES, while the others stay 0.  A   *)
(* behaviour may also follow a part that is elsewhere (MCComponents).      *)
(***************************************************************************)
EXTENDS Integers, Sequences, FiniteSets, SequencesExt

CONSTANTS
    None,
    Paths, Contents, Policies, Pushes,
    Inputs,
    Services, MaxMade, MaxMishaps,
    Tabs, TTL, MaxClock, MaxLogins, MaxServed, MaxKeys,
    SecretNames, MaxEdits, MaxRekeys

VARIABLES part, x1, x2, x3, x4, x5, x6, x7, x8, x9, x10, x11, x12

Policy == INSTANCE TriggerPolicy WITH
    policies <- x1, push <- x2
Decision == INSTANCE JobDecision WITH
    needs <- x1, contract <- x2, run <- x3, decision <- x4
Keys == INSTANCE ServiceKeys WITH
    file <- x1, at <- x2, held <- x3, drawn <- x4, made <- x5, new <- x6, told <-
    x7, outdated <- x8, mishaps <- x9
Sessions == INSTANCE AdminSessions WITH
    clock <- x1, key <- x2, cookie <- x3, form <- x4, work <- x5, logins <- x6,
    ended <- x7, served <- x8
Secrets == INSTANCE JobSecrets WITH
    rows <- x1, edits <- x2, secretKey <- x3, ready <- x4, reader <- x5, runValues
    <- x6, jobValues <- x7, outcome <- x8, allowed <- x9, present <- x10, began <-
    x11, deleted <- x12

ASSUME PushesSensible == "unknown" \notin Paths /\ \A push \in Pushes : Policy!IsPush(push)
ASSUME DecisionSensible == Decision!Sensible
ASSUME KeysSensible == MaxMade \in Nat /\ None \notin Nat \cup [secret : Nat, whole : BOOLEAN]
ASSUME SessionsSensible == TTL \in Nat

\* The variables from a number on, which the part does not use.
free10 == <<x10, x11, x12>>
free9 == <<x9, free10>>
free5 == <<x5, x6, x7, x8, free9>>
free3 == <<x3, x4, free5>>
admissionVars == <<part, x1, x2, free3>>

-----------------------------------------------------------------------------
(* Specification *)

Free10 == x10 = 0 /\ x11 = 0 /\ x12 = 0
Free9 == x9 = 0 /\ Free10
Free5 == x5 = 0 /\ x6 = 0 /\ x7 = 0 /\ x8 = 0 /\ Free9
Free3 == x3 = 0 /\ x4 = 0 /\ Free5

AdmissionInit ==
    \/ part = "policy" /\ Policy!Init /\ Free3
    \/ part = "decision" /\ Decision!Init /\ Free5
    \/ part = "keys" /\ Keys!Init /\ Free10
    \/ part = "sessions" /\ Sessions!Init /\ Free9
    \/ part = "secrets" /\ Secrets!Init

AdmissionNext ==
    \/ part = "policy" /\ Policy!Next /\ UNCHANGED <<part, free3>>
    \/ part = "decision" /\ Decision!Next /\ UNCHANGED <<part, free5>>
    \/ part = "keys" /\ Keys!Next /\ UNCHANGED <<part, free10>>
    \/ part = "sessions" /\ Sessions!Next /\ UNCHANGED <<part, free9>>
    \/ part = "secrets" /\ Secrets!Next /\ UNCHANGED part

\* Whatever a part that is elsewhere does with the variables, it stays that part.
Elsewhere == part \notin {"policy", "decision", "keys", "sessions", "secrets"}

AdmissionStart == AdmissionInit \/ Elsewhere
AdmissionStep == AdmissionNext \/ (Elsewhere /\ UNCHANGED part)

AdmissionSpec == AdmissionStart /\ [][AdmissionStep]_admissionVars

-----------------------------------------------------------------------------
(* Properties *)

\* The last pattern that matches decides, paths are asked for where they
\* matter, a webhook and the local watch admit the same pushes of a branch
\* unless the payload is cut short, names nothing to start from, or names a
\* path that was restored, and a tag is never refused for its paths
\* (matchesOrdered, NeedsChangedPaths, Deliver, processPolicy, Match).
FiltersAdmitWhatTheySay ==
    /\ part = "policy" =>
        /\ Policy!LastPatternDecides
        /\ Policy!PathsAskedWhenTheyMatter
        /\ Policy!WebhookAgreesWithWatch
        /\ Policy!TagsIgnorePathFilters

\* A job starts behind no need that went wrong unless it asks for it, what is
\* not understood takes leave away and never gives it, the first rule that
\* matches decides, and a person is asked once (evaluateJobExecution).
JobsStartAsWritten ==
    /\ part = "decision" =>
        /\ Decision!WorseNeedsStartNothing
        /\ Decision!StartsBehindGoodNeeds
        /\ Decision!UnsupportedFailsClosed
        /\ Decision!FirstMatchDecides
        /\ Decision!PlayedOnce

\* Services of one directory agree on its keys, also when started at once or
\* cut short in the middle of a file, a token is shown once; and a change made
\* with a session goes back to a login, from the form it rendered, before
\* logout (loadOrCreateSecret, writeSecretFile, verifySession, csrfMatches,
\* ClearSession).
LoginsHoldTogether ==
    /\ [](part = "keys" =>
            /\ Keys!KeysTypeOK
            /\ Keys!ServicesAgree
            /\ Keys!TokenIsToldOnce)
    /\ [][part = "keys" => Keys!FilesStay]_admissionVars
    /\ [](part = "sessions" =>
            /\ Sessions!SessionsTypeOK
            /\ Sessions!ChangesGoBackToALogin
            /\ Sessions!FormsKeepTheirSession
            /\ Sessions!LogoutIsForAllTabs)

\* Between the list of a run's secrets, the reads one by one and their use,
\* secrets are edited, deleted and re-keyed: only a deletion or a new key
\* fails the reader, a job uses values its secrets had meanwhile, and those of
\* an environment only with its leave (ResolveProject, ResolveForJob,
\* resolveEnvironment).
SecretsAreOfTheirTime ==
    /\ [](part = "secrets" =>
            /\ Secrets!SecretsTypeOK
            /\ Secrets!OnlyDeletionFailsAReader
            /\ Secrets!ValuesAreOfTheirTime
            /\ Secrets!EnvironmentSecretsAreGuarded)

=============================================================================
