------------------------ MODULE ExpiringLease_proofs ------------------------
(* Mutual exclusion of an expiring lease, for any clients and any TTL. *)
EXTENDS ExpiringLease, TLAPS

LeaseInv == LeaseTypeOK /\ TrustIsBacked

\* The empty table satisfies the invariant.
LEMMA InitLeaseInv == Init => LeaseInv
BY NoClient DEF Init, LeaseInv, LeaseTypeOK, TrustIsBacked

\* Every transaction and every passing moment keeps the invariant.
LEMMA StepLeaseInv == LeaseInv /\ [Next]_leaseVars => LeaseInv'
<1> SUFFICES ASSUME LeaseInv, [Next]_leaseVars PROVE LeaseInv'
    OBVIOUS
<1> USE TTLAssumption, NoClient DEF LeaseInv, LeaseTypeOK, TrustIsBacked
<1>1. CASE Tick
    BY <1>1 DEF Tick, Less
<1>2. ASSUME NEW c \in Clients, Acquire(c) PROVE LeaseInv'
    <2>1. LeaseTypeOK'
        BY <1>2 DEF Acquire
    <2>2. ASSUME NEW d \in Clients, trust'[d] > 0, d # c PROVE FALSE
        BY <1>2, <2>2 DEF Acquire
    <2>3. trust'[c] = TTL /\ holder' = c /\ left' = TTL
        BY <1>2 DEF Acquire
    <2> QED
        BY <2>1, <2>2, <2>3
<1>3. ASSUME NEW c \in Clients, Release(c) PROVE LeaseInv'
    BY <1>3 DEF Release
<1>4. ASSUME NEW c \in Clients, Forget(c) PROVE LeaseInv'
    BY <1>4 DEF Forget
<1>5. CASE UNCHANGED leaseVars
    BY <1>5 DEF leaseVars
<1> QED
    BY <1>1, <1>2, <1>3, <1>4, <1>5 DEF Next

\* The row always backs the trust of the client that relies on it, and so the
\* lease is exclusive whatever the number of clients and the time to live.
THEOREM LeaseIsBacked == Spec => []TrustIsBacked
<1>1. LeaseInv => TrustIsBacked
    BY DEF LeaseInv
<1> QED
    BY InitLeaseInv, StepLeaseInv, <1>1, PTL DEF Spec

\* Two clients never work under one lease (AcquireEnvironmentLease and
\* AcquireExecutionConcurrency, whose models implement this module).
THEOREM LeaseIsExclusive == Spec => []Exclusive
<1>1. LeaseInv => Exclusive
    BY DEF LeaseInv, LeaseTypeOK, TrustIsBacked, Exclusive
<1> QED
    BY InitLeaseInv, StepLeaseInv, <1>1, PTL DEF Spec
=============================================================================
