--------------------------- MODULE AdminSessions ---------------------------
(***************************************************************************)
(* The administrator's sessions (auth/auth.go) as the browser of one       *)
(* operator has them: login, the pages and forms of the site, logout       *)
(* (httpapi/api.go, httpapi/web.go).  The service keeps no session; a      *)
(* cookie says until when it holds and which form token belongs to it, and *)
(* is signed with the key of the service.  Several tabs share the cookie.  *)
(* A definition marked "Mutant" is a bug that could have been made in the  *)
(* next one; no specification uses it.                                     *)
(***************************************************************************)
EXTENDS Integers, Sequences, FiniteSets

CONSTANTS
    Tabs,
    TTL,                \* sessionTTL
    MaxClock, MaxLogins, MaxServed, MaxKeys,    \* bounds
    None

VARIABLES
    clock,
    key,                \* the key of the service, by number
    cookie,             \* None or [key, until, csrf]
    form,               \* tab -> None or the form token it was rendered with
    work,               \* tab -> what its request waits for
    logins,             \* the logins that are in the audit log: [key, issued], by form token (history)
    ended,              \* sessions that were logged out, and when (history)
    served              \* the changes that were made: [csrf, key, at, page] (history)

vars == <<clock, key, cookie, form, work, logins, ended, served>>

Init ==
    /\ clock = 1 /\ key = 1
    /\ cookie = None
    /\ form = [t \in Tabs |-> None] /\ work = [t \in Tabs |-> "idle"]
    /\ logins = <<>> /\ ended = {} /\ served = {}

\* Mutant: a session holds at the time it ends.
IsValidAtEnd(c) == c.key = key /\ clock <= c.until
IsValid(c) == c.key = key /\ clock < c.until

HasSession == cookie # None /\ IsValid(cookie)

TimeGoesOn ==
    /\ clock < MaxClock /\ clock' = clock + 1
    /\ UNCHANGED <<key, cookie, form, work, logins, ended, served>>

\* The service is started again, on its key or on a new one; the requests it had are gone.
StartAgain ==
    /\ key' \in {key, key + 1} /\ key' <= MaxKeys
    /\ key' # key \/ \E t \in Tabs : work[t] # "idle"
    /\ work' = [t \in Tabs |-> "idle"]
    /\ UNCHANGED <<clock, cookie, form, logins, ended, served>>

-----------------------------------------------------------------------------
(* Login: the token was right, the event is recorded, then the cookie is given. *)

Login(t) ==
    /\ work[t] = "idle" /\ Len(logins) < MaxLogins
    /\ \A other \in Tabs : work[other] # "issue"
    /\ logins' = Append(logins, [key |-> key, issued |-> 0])
    /\ work' = [work EXCEPT ![t] = "issue"]
    /\ UNCHANGED <<clock, key, cookie, form, ended, served>>

NewToken == Len(logins)

IssueSession(t) ==
    /\ work[t] = "issue"
    /\ cookie' = [key |-> key, until |-> clock + TTL, csrf |-> NewToken]
    /\ logins' = [logins EXCEPT ![NewToken].issued = clock]
    /\ work' = [work EXCEPT ![t] = "idle"]
    /\ UNCHANGED <<clock, key, form, ended, served>>

-----------------------------------------------------------------------------
(* Pages and forms. *)

\* A page is rendered with the token of the session that asks for it, which is read anew after
\* the session was found to be valid (renderAppSectionState, handleSession).
OpenPage(t) ==
    /\ work[t] = "idle" /\ HasSession
    /\ form' = [form EXCEPT ![t] = cookie.csrf]
    /\ UNCHANGED <<clock, key, cookie, work, logins, ended, served>>

\* Mutant: a form of any session will do.
FormMatchesAny(t) == form[t] # None
FormMatches(t) == form[t] = cookie.csrf

Submit(t) ==
    /\ work[t] = "idle" /\ form[t] # None
    /\ HasSession /\ FormMatches(t)
    /\ Cardinality(served) < MaxServed
    /\ served' = served \cup {[csrf |-> cookie.csrf, key |-> key, at |-> clock, page |-> form[t]]}
    /\ UNCHANGED <<clock, key, cookie, form, work, logins, ended>>

\* A form that is refused: the page stays, or the login page takes its place.
Refuse(t) ==
    /\ work[t] = "idle" /\ form[t] # None
    /\ ~HasSession
    /\ form' = [form EXCEPT ![t] = None]
    /\ UNCHANGED <<clock, key, cookie, work, logins, ended, served>>

\* Logout is a form too: its event is recorded, then the cookie is taken back.
Logout(t) ==
    /\ work[t] = "idle" /\ form[t] # None
    /\ HasSession /\ FormMatches(t)
    /\ work' = [work EXCEPT ![t] = "clear"]
    /\ UNCHANGED <<clock, key, cookie, form, logins, ended, served>>

\* Mutant: the cookie stays.
ClearedNot(t) == cookie
Cleared(t) == None

ClearSession(t) ==
    /\ work[t] = "clear"
    /\ cookie' = Cleared(t)
    /\ ended' = IF cookie = None THEN ended ELSE ended \cup {<<cookie.csrf, clock>>}
    /\ work' = [work EXCEPT ![t] = "idle"] /\ form' = [form EXCEPT ![t] = None]
    /\ UNCHANGED <<clock, key, logins, served>>

Next ==
    \/ TimeGoesOn \/ StartAgain
    \/ \E t \in Tabs :
        \/ Login(t) \/ IssueSession(t) \/ OpenPage(t) \/ Submit(t) \/ Refuse(t) \/ Logout(t) \/ ClearSession(t)

Spec == Init /\ [][Next]_vars

-----------------------------------------------------------------------------
(* Types and properties. *)

SessionsTypeOK ==
    /\ cookie # None => cookie.csrf \in DOMAIN logins /\ cookie.key \in 1..key
    /\ \A t \in Tabs : form[t] # None => form[t] \in DOMAIN logins

\* What is changed with a session goes back to a login that is in the audit log, with the key of
\* that time, and ends when its time is over (handleLogin, IssueSession, verifySession).
ChangesGoBackToALogin ==
    \A s \in served :
        /\ s.csrf \in DOMAIN logins /\ logins[s.csrf].key = s.key
        /\ logins[s.csrf].issued <= s.at /\ s.at < logins[s.csrf].issued + TTL

\* A form is accepted under the session it was rendered for only, also after another login in
\* another tab (csrfMatches).
FormsKeepTheirSession == \A s \in served : s.page = s.csrf

\* A browser makes no change with a session that one of its tabs has logged out (ClearSession).
LogoutIsForAllTabs == \A s \in served, e \in ended : s.csrf = e[1] => s.at <= e[2]

-----------------------------------------------------------------------------
(* The inductive invariant *)

Tokens == 1..NewToken
Pending == \E t \in Tabs : work[t] = "issue"

SessionsTyped ==
    /\ clock \in Nat /\ key \in Nat \ {0}
    /\ logins \in Seq([key : 1..key, issued : 0..clock])
    /\ cookie \in {None} \cup [key : Nat, until : Nat, csrf : Tokens]
    /\ form \in [Tabs -> {None} \cup Tokens]
    /\ work \in [Tabs -> {"idle", "issue", "clear"}]
    /\ served \subseteq [csrf : Tokens, key : Nat, at : 0..clock, page : Tokens]
    /\ ended \subseteq Tokens \X Nat

\* The newest login waits for its cookie: nothing was done with it.
PendingIsUnused ==
    Pending =>
        /\ \A t, u \in Tabs : work[t] = "issue" /\ work[u] = "issue" => t = u
        /\ NewToken > 0 /\ logins[NewToken].key = key
        /\ cookie # None => cookie.csrf # NewToken
        /\ \A s \in served : s.csrf # NewToken
        /\ \A e \in ended : e[1] # NewToken

\* The cookie is of a login and was not taken back.
CookieIsOfALogin ==
    cookie # None =>
        /\ cookie.key = logins[cookie.csrf].key
        /\ cookie.until = logins[cookie.csrf].issued + TTL
        /\ \A e \in ended : e[1] # cookie.csrf

SessionsInv ==
    /\ SessionsTyped /\ PendingIsUnused /\ CookieIsOfALogin
    /\ ChangesGoBackToALogin /\ FormsKeepTheirSession /\ LogoutIsForAllTabs
=============================================================================
