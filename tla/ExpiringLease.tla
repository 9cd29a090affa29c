---------------------------- MODULE ExpiringLease ----------------------------
(***************************************************************************)
(* What the lease tables of the store promise (environment_leases and      *)
(* execution_concurrency_leases): a client that took the lease, and whose  *)
(* last renewal is younger than the time to live, is the only such client. *)
(* Time is counted down, as remaining time, so that it needs no bound.     *)
(* DeploymentGate and ConcurrencyGroups are shown to implement this.       *)
(* A definition marked "Mutant" is a bug that could have been made in the  *)
(* next one; no specification uses it.                                     *)
(***************************************************************************)
EXTENDS Integers

CONSTANTS
    Clients,   \* (holder, owner) pairs: one holder executed by one worker
    None,      \* no row
    TTL        \* environmentLeaseTTL, executionConcurrencyTTL

ASSUME TTLAssumption == TTL \in Nat
ASSUME NoClient == None \notin Clients

VARIABLES
    holder,    \* who the row belongs to
    left,      \* the time until the row's expires_at
    trust      \* by client, the time for which it may trust its last renewal

leaseVars == <<holder, left, trust>>

Init ==
    /\ holder = None
    /\ left = 0
    /\ trust = [c \in Clients |-> 0]

\* Mutant: the countdown goes below zero.
LessAlways(n) == n - 1
Less(n) == IF n = 0 THEN 0 ELSE n - 1

Tick ==
    /\ left' = Less(left)
    /\ trust' = [c \in Clients |-> Less(trust[c])]
    /\ UNCHANGED holder

\* Mutant: the row is taken over whoever holds it.
AcquireAlways(c) ==
    /\ holder' = c
    /\ left' = TTL
    /\ trust' = [trust EXCEPT ![c] = TTL]
\* INSERT ... ON CONFLICT DO UPDATE ... WHERE expired or mine; also the renewal
Acquire(c) ==
    /\ holder \in {None, c} \/ left = 0
    /\ holder' = c
    /\ left' = TTL
    /\ trust' = [trust EXCEPT ![c] = TTL]

\* Mutant: the row is deleted whoever it belongs to.
ReleaseAny(c) ==
    /\ holder' = None
    /\ trust' = [trust EXCEPT ![c] = 0]
    /\ UNCHANGED left
\* DELETE ... WHERE holder and owner are mine
Release(c) ==
    /\ holder' = IF holder = c THEN None ELSE holder
    /\ trust' = [trust EXCEPT ![c] = 0]
    /\ UNCHANGED left

\* The client stops or dies; its row stays until it expires.
Forget(c) ==
    /\ trust' = [trust EXCEPT ![c] = 0]
    /\ UNCHANGED <<holder, left>>

Next == Tick \/ \E c \in Clients : Acquire(c) \/ Release(c) \/ Forget(c)

Spec == Init /\ [][Next]_leaseVars

-----------------------------------------------------------------------------
\* Every variable holds what its column may hold.
LeaseTypeOK ==
    /\ holder \in Clients \cup {None}
    /\ left \in Nat
    /\ trust \in [Clients -> Nat]

\* A client with time left is the holder, and the row outlasts its trust.
TrustIsBacked == \A c \in Clients : trust[c] > 0 => holder = c /\ trust[c] <= left

\* No two clients work under the lease at once, whoever crashed, released late
\* or took over (AcquireEnvironmentLease, AcquireExecutionConcurrency).
Exclusive == \A c, d \in Clients : trust[c] > 0 /\ trust[d] > 0 => c = d
=============================================================================
