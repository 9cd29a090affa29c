---------------------- MODULE ConcurrencyGroups_proofs ----------------------
(* The lease of a concurrency group is an expiring lease, and superseding *)
(* leaves a run, for any runs, workers and bounds.                        *)
EXTENDS ConcurrencyGroups, TLAPS

\* A worker trusts the lease only while it has a run, from taking the lease to its release.
WorkersTrustTheirRun ==
    /\ wk \in [Workers -> [pc : {"idle", "wait", "execute", "release", "dead"}, run : Runs \cup {None},
                           last : Runs \cup {None}, trust : Nat]]
    /\ \A w \in Workers : wk[w].pc \in {"wait", "execute", "release"} => wk[w].run \in Runs
    /\ \A w \in Workers : wk[w].pc \in {"idle", "wait", "dead"} => wk[w].trust = 0

RowTypeOK == holder \in (Runs \X Workers) \cup {None} /\ left \in Nat

GroupInv == WorkersTrustTheirRun /\ RowTypeOK

\* The trust that the lease sees.
Trust == [c \in Runs \X Workers |-> IF wk[c[2]].run = c[1] THEN wk[c[2]].trust ELSE 0]

\* The group starts without a row and without trust.
LEMMA InitGroup == Init => GroupInv /\ Lease!Init
<1> SUFFICES ASSUME Init PROVE GroupInv /\ Lease!Init
    OBVIOUS
<1>1. GroupInv
    BY DEF Init, GroupInv, WorkersTrustTheirRun, RowTypeOK, Out
<1>2. \A c \in Runs \X Workers : (IF wk[c[2]].run = c[1] THEN wk[c[2]].trust ELSE 0) = 0
    BY DEF Init, Out
<1>3. Lease!Init
    BY <1>2 DEF Init, Lease!Init
<1> QED
    BY <1>1, <1>3

\* A step of one client is a step of the lease.
LEMMA ClientSteps ==
    ASSUME NEW c \in Runs \X Workers,
           \/ /\ holder \in {None, c} \/ left = 0
              /\ holder' = c /\ left' = TTL
              /\ Trust' = [Trust EXCEPT ![c] = TTL]
           \/ /\ holder' \in {holder, None}
              /\ holder' # holder => holder = c
              /\ left' = left
              /\ Trust' = [Trust EXCEPT ![c] = 0]
    PROVE  Lease!Next
<1>1. ASSUME holder \in {None, c} \/ left = 0, holder' = c, left' = TTL, Trust' = [Trust EXCEPT ![c] = TTL]
      PROVE  Lease!Next
    BY <1>1 DEF Lease!Next, Lease!Acquire, Trust
<1>2. ASSUME holder' = holder, left' = left, Trust' = [Trust EXCEPT ![c] = 0]
      PROVE  Lease!Next
    BY <1>2 DEF Lease!Next, Lease!Forget, Trust
<1>3. ASSUME holder' = None, holder = c, left' = left, Trust' = [Trust EXCEPT ![c] = 0]
      PROVE  Lease!Next
    BY <1>3 DEF Lease!Next, Lease!Release, Trust
<1> QED
    BY <1>1, <1>2, <1>3

\* What a worker does to its own entry, and to no other.
LEMMA OthersKeepTrust ==
    ASSUME NEW w \in Workers, \A v \in Workers \ {w} : wk'[v] = wk[v]
    PROVE  \A c \in Runs \X Workers : c[2] # w => Trust'[c] = Trust[c]
<1> SUFFICES ASSUME NEW c \in Runs \X Workers, c[2] # w PROVE Trust'[c] = Trust[c]
    OBVIOUS
<1>1. c[2] \in Workers \ {w}
    OBVIOUS
<1> QED
    BY <1>1 DEF Trust

\* Taking or renewing the lease is Acquire of the pair of run and worker.
LEMMA TakingAcquires ==
    ASSUME TTL \in Nat, GroupInv, NEW w \in Workers, wk[w].pc \in {"wait", "execute"}, MayTake(Mine(w)),
           holder' = Mine(w), left' = TTL,
           wk' = [wk EXCEPT ![w] = [wk[w] EXCEPT !.pc = "execute", !.trust = TTL]]
    PROVE  (WorkersTrustTheirRun /\ RowTypeOK)' /\ Lease!Next
<1> DEFINE me == Mine(w)
<1>1. me \in Runs \X Workers /\ me[1] = wk[w].run /\ me[2] = w
    BY DEF GroupInv, WorkersTrustTheirRun, Mine
<1>2. (WorkersTrustTheirRun /\ RowTypeOK)'
    BY <1>1 DEF GroupInv, WorkersTrustTheirRun, RowTypeOK
<1>3. wk'[w].run = wk[w].run /\ wk'[w].trust = TTL
    BY DEF GroupInv, WorkersTrustTheirRun
<1>4. \A c \in Runs \X Workers : Trust'[c] = IF c = me THEN TTL ELSE Trust[c]
    <2> SUFFICES ASSUME NEW c \in Runs \X Workers PROVE Trust'[c] = IF c = me THEN TTL ELSE Trust[c]
        OBVIOUS
    <2>1. CASE c[2] # w
        BY <1>1, <2>1, OthersKeepTrust DEF GroupInv, WorkersTrustTheirRun
    <2>2. CASE c[2] = w /\ c[1] = wk[w].run
        BY <1>1, <1>3, <2>2 DEF Trust
    <2>3. CASE c[2] = w /\ c[1] # wk[w].run
        BY <1>1, <1>3, <2>3 DEF Trust
    <2> QED
        BY <2>1, <2>2, <2>3
<1>a. /\ Trust = [c \in Runs \X Workers |-> Trust[c]]
      /\ Trust' = [c \in Runs \X Workers |-> Trust'[c]]
    BY DEF Trust
<1>5. Trust' = [Trust EXCEPT ![me] = TTL]
    BY <1>a, <1>1, <1>4
<1>6. holder \in {None, me} \/ left = 0
    BY DEF MayTake
<1> HIDE DEF me
<1>7. holder' = me /\ me \in Runs \X Workers
    BY <1>1 DEF me
<1>8. Lease!Next
    BY <1>5, <1>6, <1>7, ClientSteps
<1> QED
    BY <1>2, <1>8

\* A worker that is left without trust forgets the lease; one that had none stutters.
LEMMA LeavingForgets ==
    ASSUME GroupInv, NEW w \in Workers, NEW l \in {"idle", "dead"}, Leave(w, l), UNCHANGED left,
           holder' = (IF wk[w].pc = "release" /\ l = "idle" /\ holder = Mine(w) THEN None ELSE holder)
    PROVE  (WorkersTrustTheirRun /\ RowTypeOK)' /\ [Lease!Next]_Lease!leaseVars
<1>1. (WorkersTrustTheirRun /\ RowTypeOK)'
    BY DEF GroupInv, WorkersTrustTheirRun, RowTypeOK, Leave, Out
<1>2. wk'[w].trust = 0 /\ \A v \in Workers \ {w} : wk'[v] = wk[v]
    BY DEF GroupInv, WorkersTrustTheirRun, Leave, Out
<1>3. CASE wk[w].run \in Runs
    <2> DEFINE me == Mine(w)
    <2>1. me \in Runs \X Workers /\ me[1] = wk[w].run /\ me[2] = w
        BY <1>3 DEF Mine
    <2>2. \A c \in Runs \X Workers : Trust'[c] = IF c = me THEN 0 ELSE Trust[c]
        <3> SUFFICES ASSUME NEW c \in Runs \X Workers PROVE Trust'[c] = IF c = me THEN 0 ELSE Trust[c]
            OBVIOUS
        <3>1. CASE c[2] # w
            BY <1>2, <2>1, <3>1, OthersKeepTrust
        <3>2. CASE c[2] = w /\ c[1] = wk[w].run
            BY <1>2, <2>1, <3>2 DEF Trust
        <3>3. CASE c[2] = w /\ c[1] # wk[w].run
            BY <1>2, <2>1, <3>3 DEF Trust
        <3> QED
            BY <3>1, <3>2, <3>3
    <2>3. Trust' = [Trust EXCEPT ![me] = 0]
        BY <2>1, <2>2 DEF Trust
    <2> HIDE DEF me
    <2>4. /\ holder' \in {holder, None} /\ left' = left
          /\ holder' # holder => holder = me
        BY DEF me
    <2>5. me \in Runs \X Workers
        BY <2>1
    <2>6. Lease!Next
        BY <2>3, <2>4, <2>5, ClientSteps
    <2> QED
        BY <1>1, <2>6
<1>4. CASE wk[w].run \notin Runs
    <2>1. wk[w].pc # "release" /\ holder' = holder /\ wk[w].trust = 0
        BY <1>4 DEF GroupInv, WorkersTrustTheirRun
    <2>2. \A c \in Runs \X Workers : Trust'[c] = Trust[c]
        <3> SUFFICES ASSUME NEW c \in Runs \X Workers, c[2] = w PROVE Trust'[c] = Trust[c]
            BY <1>2, OthersKeepTrust
        <3> QED
            BY <1>2, <2>1 DEF Trust
    <2>3. Trust' = Trust
        BY <2>2 DEF Trust
    <2> QED
        BY <1>1, <2>1, <2>3 DEF Lease!leaseVars, Trust
<1> QED
    BY <1>3, <1>4

\* A worker that moves on with what it trusts does not touch the lease.
LEMMA MovingKeepsTrust ==
    ASSUME GroupInv, UNCHANGED leaseRow, NEW w \in Workers, NEW e,
           e \in [pc : {"wait", "execute", "release"}, run : Runs, last : Runs \cup {None}, trust : Nat],
           wk' = [wk EXCEPT ![w] = e], e.pc = "wait" => e.trust = 0,
           e.trust = wk[w].trust, e.run = wk[w].run \/ wk[w].trust = 0
    PROVE  (WorkersTrustTheirRun /\ RowTypeOK)' /\ UNCHANGED Lease!leaseVars
<1>1. (WorkersTrustTheirRun /\ RowTypeOK)'
    BY DEF GroupInv, WorkersTrustTheirRun, RowTypeOK, leaseRow
<1>2. wk'[w] = e /\ \A v \in Workers \ {w} : wk'[v] = wk[v]
    BY DEF GroupInv, WorkersTrustTheirRun
<1>3. \A c \in Runs \X Workers : Trust'[c] = Trust[c]
    <2> SUFFICES ASSUME NEW c \in Runs \X Workers, c[2] = w PROVE Trust'[c] = Trust[c]
        BY <1>2, OthersKeepTrust
    <2>1. Trust'[c] = IF e.run = c[1] THEN e.trust ELSE 0
        BY <1>2 DEF Trust
    <2>2. Trust[c] = IF wk[w].run = c[1] THEN wk[w].trust ELSE 0
        BY DEF Trust
    <2> QED
        BY <2>1, <2>2
<1>4. Trust' = Trust
    BY <1>3 DEF Trust
<1> QED
    BY <1>1, <1>4 DEF Lease!leaseVars, leaseRow, Trust

\* Callers and the recovery of runs touch neither the lease nor a worker.
LEMMA CallersKeepTrust ==
    ASSUME GroupInv, UNCHANGED <<wk, holder, left>>
    PROVE  (WorkersTrustTheirRun /\ RowTypeOK)' /\ UNCHANGED Lease!leaseVars
BY DEF GroupInv, WorkersTrustTheirRun, RowTypeOK, Lease!leaseVars

\* Time passes for the row and for every worker alike.
LEMMA TimePasses ==
    ASSUME GroupInv, Tick
    PROVE  (WorkersTrustTheirRun /\ RowTypeOK)' /\ Lease!Next
<1>1. \A w \in Workers : wk'[w] = [wk[w] EXCEPT !.trust = Less(wk[w].trust)]
    BY DEF Tick
<1>2. \A w \in Workers : wk[w].trust \in Nat /\ Less(wk[w].trust) \in Nat
    BY DEF GroupInv, WorkersTrustTheirRun, Less
<1>3. \A w \in Workers :
         /\ wk'[w] \in [pc : {"idle", "wait", "execute", "release", "dead"}, run : Runs \cup {None},
                        last : Runs \cup {None}, trust : Nat]
         /\ wk'[w].pc = wk[w].pc /\ wk'[w].run = wk[w].run /\ wk'[w].trust = Less(wk[w].trust)
    <2> DEFINE Entries == [pc : {"idle", "wait", "execute", "release", "dead"}, run : Runs \cup {None},
                           last : Runs \cup {None}, trust : Nat]
    <2>1. ASSUME NEW e \in Entries, NEW n \in Nat
          PROVE  LET f == [e EXCEPT !.trust = n]
                 IN  f \in Entries /\ f.pc = e.pc /\ f.run = e.run /\ f.trust = n
        OBVIOUS
    <2>2. \A w \in Workers : wk[w] \in Entries
        BY DEF GroupInv, WorkersTrustTheirRun
    <2> HIDE DEF Entries
    <2>3. \A w \in Workers : LET f == [wk[w] EXCEPT !.trust = Less(wk[w].trust)]
                           IN  /\ f \in Entries
                               /\ f.pc = wk[w].pc /\ f.run = wk[w].run /\ f.trust = Less(wk[w].trust)
        BY <1>2, <2>1, <2>2
    <2> QED
        BY <1>1, <2>3 DEF Entries
<1>4. WorkersTrustTheirRun'
    <2>1. wk' = [w \in Workers |-> wk'[w]]
        BY DEF Tick
    <2>2. wk' \in [Workers -> [pc : {"idle", "wait", "execute", "release", "dead"}, run : Runs \cup {None},
                              last : Runs \cup {None}, trust : Nat]]
        BY <1>3, <2>1
    <2>3. Less(0) = 0
        BY DEF Less
    <2> QED
        BY <1>3, <2>2, <2>3 DEF GroupInv, WorkersTrustTheirRun
<1>5. RowTypeOK' /\ left' = Less(left) /\ holder' = holder
    BY DEF Tick, GroupInv, RowTypeOK, Less
<1>6. \A c \in Runs \X Workers : Trust'[c] = IF Trust[c] = 0 THEN 0 ELSE Trust[c] - 1
    BY <1>3 DEF Trust, Less
<1>7. Lease!Next
    <2>1. Trust' = [c \in Runs \X Workers |-> IF Trust[c] = 0 THEN 0 ELSE Trust[c] - 1]
        BY <1>6 DEF Trust
    <2>2. left' = (IF left = 0 THEN 0 ELSE left - 1) /\ holder' = holder
        BY <1>5 DEF Less
    <2> QED
        BY <2>1, <2>2 DEF Lease!Next, Lease!Tick, Lease!Less, Trust
<1> QED
    BY <1>4, <1>5, <1>7

\* Every step of a worker is a step of the lease or leaves it alone.
LEMMA WorkerSteps ==
    ASSUME TTL \in Nat, GroupInv, NEW w \in Workers, WorkerStep(w) \/ RenewLease(w) \/ Crash(w)
    PROVE  GroupInv' /\ [Lease!Next]_Lease!leaseVars
<1>w. /\ wk[w] = [pc |-> wk[w].pc, run |-> wk[w].run, last |-> wk[w].last, trust |-> wk[w].trust]
      /\ wk[w] \in [pc : {"idle", "wait", "execute", "release", "dead"}, run : Runs \cup {None},
                    last : Runs \cup {None}, trust : Nat]
      /\ wk \in [Workers -> [pc : {"idle", "wait", "execute", "release", "dead"}, run : Runs \cup {None},
                             last : Runs \cup {None}, trust : Nat]]
    BY DEF GroupInv, WorkersTrustTheirRun
<1>1. ASSUME ClaimNextQueuedRun(w)
      PROVE  (WorkersTrustTheirRun /\ RowTypeOK)' /\ UNCHANGED Lease!leaseVars
    <2>1. PICK r \in Runs : wk' = [wk EXCEPT ![w].pc = "wait", ![w].run = r]
        BY <1>1 DEF ClaimNextQueuedRun
    <2> DEFINE e == [wk[w] EXCEPT !.pc = "wait", !.run = r]
    <2>2. /\ wk' = [wk EXCEPT ![w] = e]
          /\ wk[w].trust = 0 /\ e.trust = 0
          /\ e \in [pc : {"wait", "execute", "release"}, run : Runs, last : Runs \cup {None}, trust : Nat]
        BY <1>1, <1>w, <2>1 DEF ClaimNextQueuedRun, At, GroupInv, WorkersTrustTheirRun
    <2>3. UNCHANGED leaseRow
        BY <1>1 DEF ClaimNextQueuedRun
    <2> QED
        BY <2>2, <2>3, MovingKeepsTrust
<1>2. ASSUME AcquireExecutionConcurrency(w)
      PROVE  (WorkersTrustTheirRun /\ RowTypeOK)' /\ Lease!Next
    <2>1. wk' = [wk EXCEPT ![w] = [wk[w] EXCEPT !.pc = "execute", !.trust = TTL]]
        BY <1>2, <1>w DEF AcquireExecutionConcurrency
    <2> QED
        BY <1>2, <2>1, TakingAcquires DEF AcquireExecutionConcurrency, At
<1>3. ASSUME RenewLease(w)
      PROVE  (WorkersTrustTheirRun /\ RowTypeOK)' /\ Lease!Next
    <2>1. wk' = [wk EXCEPT ![w] = [wk[w] EXCEPT !.pc = "execute", !.trust = TTL]]
        BY <1>3, <1>w DEF RenewLease, At
    <2> QED
        BY <1>3, <2>1, TakingAcquires DEF RenewLease, At
<1>4. ASSUME CancelHolder(w)
      PROVE  (WorkersTrustTheirRun /\ RowTypeOK)' /\ UNCHANGED Lease!leaseVars
    <2> DEFINE e == [wk[w] EXCEPT !.last = holder[1]]
    <2>1. holder[1] \in Runs
        BY <1>4 DEF CancelHolder, MayTake, GroupInv, RowTypeOK
    <2>2. /\ wk' = [wk EXCEPT ![w] = e]
          /\ e.pc = "wait" /\ e.trust = wk[w].trust /\ e.run = wk[w].run /\ wk[w].trust = 0
          /\ e \in [pc : {"wait", "execute", "release"}, run : Runs, last : Runs \cup {None}, trust : Nat]
        BY <1>4, <1>w, <2>1 DEF CancelHolder, At, GroupInv, WorkersTrustTheirRun
    <2>3. UNCHANGED leaseRow
        BY <1>4 DEF CancelHolder
    <2> QED
        BY <2>2, <2>3, MovingKeepsTrust
<1>5. ASSUME FinishRun(w)
      PROVE  (WorkersTrustTheirRun /\ RowTypeOK)' /\ UNCHANGED Lease!leaseVars
    <2> DEFINE e == [wk[w] EXCEPT !.pc = "release"]
    <2>1. /\ wk' = [wk EXCEPT ![w] = e]
          /\ e.pc = "release" /\ e.trust = wk[w].trust /\ e.run = wk[w].run
          /\ e \in [pc : {"wait", "execute", "release"}, run : Runs, last : Runs \cup {None}, trust : Nat]
        BY <1>5, <1>w DEF FinishRun, At, GroupInv, WorkersTrustTheirRun
    <2>2. UNCHANGED leaseRow
        BY <1>5 DEF FinishRun
    <2> QED
        BY <2>1, <2>2, MovingKeepsTrust
<1>6. ASSUME LoseLease(w) \/ Crash(w)
      PROVE  (WorkersTrustTheirRun /\ RowTypeOK)' /\ [Lease!Next]_Lease!leaseVars
    <2>1. Leave(w, "dead") /\ UNCHANGED left /\ holder' = holder
        BY <1>6 DEF LoseLease, Crash, leaseRow
    <2> QED
        BY <2>1, LeavingForgets
<1>7. ASSUME ReleaseExecutionConcurrency(w) \/ Restart(w)
      PROVE  (WorkersTrustTheirRun /\ RowTypeOK)' /\ [Lease!Next]_Lease!leaseVars
    <2>1. /\ Leave(w, "idle") /\ UNCHANGED left
          /\ holder' = IF wk[w].pc = "release" /\ holder = Mine(w) THEN None ELSE holder
        BY <1>7 DEF ReleaseExecutionConcurrency, Restart, At, leaseRow
    <2> QED
        BY <2>1, LeavingForgets
<1> QED
    BY <1>1, <1>2, <1>3, <1>4, <1>5, <1>6, <1>7 DEF WorkerStep, GroupInv

\* Every step of the group is a step of the lease or leaves it alone.
LEMMA StepGroup ==
    ASSUME TTL \in Nat, GroupInv, [Next]_vars
    PROVE  GroupInv' /\ [Lease!Next]_Lease!leaseVars
<1>1. ASSUME NEW w \in Workers, WorkerStep(w) \/ RenewLease(w) \/ Crash(w)
      PROVE  GroupInv' /\ [Lease!Next]_Lease!leaseVars
    BY <1>1, WorkerSteps
<1>2. ASSUME NEW r \in Runs, EnqueueRun(r) \/ CallerStep(r) \/ CallerFails(r) \/ RecoverRun(r)
      PROVE  GroupInv' /\ [Lease!Next]_Lease!leaseVars
    <2>1. UNCHANGED <<wk, holder, left>>
        BY <1>2 DEF EnqueueRun, CallerStep, ListRuns, CancelSuperseded, CallerFails, RecoverRun, leaseRow
    <2> QED
        BY <2>1, CallersKeepTrust DEF GroupInv
<1>3. CASE Tick
    BY <1>3, TimePasses DEF GroupInv
<1>4. CASE UNCHANGED vars
    BY <1>4, CallersKeepTrust DEF vars, leaseRow, GroupInv
<1> QED
    BY <1>1, <1>2, <1>3, <1>4 DEF Next

\* The lease of a concurrency group implements the expiring lease, for any runs,
\* workers, settings and bounds (AcquireExecutionConcurrency and its callers).
THEOREM GroupImplementsLease ==
    ASSUME TTL \in Nat
    PROVE  Spec => ImplementsLease
<1>1. Init => GroupInv /\ Lease!Init
    BY InitGroup
<1>2. GroupInv /\ [Next]_vars => GroupInv' /\ [Lease!Next]_Lease!leaseVars
    BY StepGroup
<1> QED
    BY <1>1, <1>2, PTL DEF Spec, ImplementsLease, Lease!Spec
-----------------------------------------------------------------------------
(* Superseding leaves a run *)

\* What the runs and their callers may hold, and how long a worker trusts the lease.
RunsTyped ==
    /\ run \in [Runs -> Terminal \cup {"absent", "queued", "running"}]
    /\ flagged \in [Runs -> BOOLEAN]
    /\ caller \in [Runs -> {"idle", "list", "cancel"}]
    /\ listed \in [Runs -> SUBSET Runs]
    /\ crossed \in BOOLEAN
    /\ \A w \in Workers : wk[w].trust \in 0..TTL

\* Runs come in their order; callers, workers and the lease know only runs that came.
KnownRunsCame ==
    /\ \A a, b \in Runs : a < b /\ run[b] # "absent" => run[a] # "absent"
    /\ \A r \in Runs : run[r] = "absent" => ~flagged[r] /\ caller[r] = "idle"
    /\ \A r \in Runs : \A c \in listed[r] : run[c] # "absent"
    /\ \A w \in Workers : wk[w].pc \in {"wait", "execute", "release"} => run[wk[w].run] # "absent"
    /\ holder # None => run[holder[1]] # "absent"

\* Whoever may cancel the newest run crossed with it.
NewestIsSpared ==
    \A n \in Runs : IsNewest(n) =>
        /\ flagged[n] => crossed
        /\ \A r \in Runs : /\ r # n /\ caller[r] = "list" => crossed
                           /\ n \in listed[r] => crossed

SurvivalInv == RunsTyped /\ KnownRunsCame /\ NewestIsSpared /\ OnePendingRun

\* Nothing was enqueued.
LEMMA InitSurvival == ASSUME TTL \in Nat PROVE Init => SurvivalInv
<1> SUFFICES ASSUME Init PROVE SurvivalInv
    OBVIOUS
<1>1. RunsTyped
    <2>1. \A w \in Workers : wk[w].trust \in 0..TTL
        BY DEF Init, Out
    <2>2. /\ run \in [Runs -> Terminal \cup {"absent", "queued", "running"}]
          /\ caller \in [Runs -> {"idle", "list", "cancel"}]
          /\ listed \in [Runs -> SUBSET Runs]
        BY DEF Init, Terminal
    <2>3. flagged \in [Runs -> BOOLEAN] /\ crossed \in BOOLEAN
        BY DEF Init
    <2> QED
        BY <2>1, <2>2, <2>3 DEF RunsTyped
<1>2. KnownRunsCame
    BY DEF Init, KnownRunsCame, Out
<1>3. \A r \in Runs : run[r] = "absent"
    BY DEF Init
<1>4. NewestIsSpared
    BY <1>3 DEF NewestIsSpared, IsNewest
<1>5. OnePendingRun
    BY <1>3 DEF OnePendingRun, Claimable
<1> QED
    BY <1>1, <1>2, <1>4, <1>5 DEF SurvivalInv

\* A worker that gives way, ends or is started again keeps the trust within its bounds.
LEMMA StepTrust ==
    ASSUME TTL \in Nat, GroupInv, SurvivalInv, [Next]_vars
    PROVE  \A w \in Workers : wk'[w].trust \in 0..TTL
<1> USE DEF SurvivalInv, RunsTyped, GroupInv, WorkersTrustTheirRun
<1>1. ASSUME NEW v \in Workers, WorkerStep(v) \/ RenewLease(v) \/ Crash(v)
      PROVE  \A w \in Workers : wk'[w].trust \in 0..TTL
    <2>1. \A w \in Workers : w # v => wk'[w] = wk[w]
        BY <1>1 DEF WorkerStep, RenewLease, Crash, ClaimNextQueuedRun, AcquireExecutionConcurrency, CancelHolder,
           LoseLease, FinishRun, ReleaseExecutionConcurrency, Restart, Leave
    <2>2. wk'[v].trust \in {wk[v].trust, TTL, 0}
        <3>1. CASE ClaimNextQueuedRun(v)
            BY <3>1 DEF ClaimNextQueuedRun
        <3>2. CASE AcquireExecutionConcurrency(v) \/ RenewLease(v)
            BY <3>2 DEF AcquireExecutionConcurrency, RenewLease
        <3>3. CASE CancelHolder(v) \/ FinishRun(v)
            BY <3>3 DEF CancelHolder, FinishRun
        <3>4. CASE LoseLease(v) \/ ReleaseExecutionConcurrency(v) \/ Crash(v) \/ Restart(v)
            BY <3>4 DEF LoseLease, ReleaseExecutionConcurrency, Crash, Restart, Leave, Out
        <3> QED
            BY <1>1, <3>1, <3>2, <3>3, <3>4 DEF WorkerStep
    <2> QED
        BY <2>1, <2>2
<1>2. CASE Tick
    <2>1. \A w \in Workers : wk'[w].trust = Less(wk[w].trust)
        BY <1>2 DEF Tick
    <2> QED
        BY <2>1 DEF Less
<1>3. ASSUME wk' = wk
      PROVE  \A w \in Workers : wk'[w].trust \in 0..TTL
    BY <1>3
<1> QED
    BY <1>1, <1>2, <1>3 DEF Next, EnqueueRun, CallerStep, ListRuns, CancelSuperseded, CallerFails, RecoverRun, vars

\* A cancellation takes a run out of the queue and leaves the others alone.
LEMMA CancellationTakesOut ==
    ASSUME RunsTyped, NEW c \in Runs, run[c] # "absent", RequestRunCancellation(c)
    PROVE  /\ run' \in [Runs -> Terminal \cup {"absent", "queued", "running"}]
           /\ flagged' \in [Runs -> BOOLEAN]
           /\ \A r \in Runs : (run'[r] = "absent" <=> run[r] = "absent")
                             /\ (r # c => run'[r] = run[r] /\ flagged'[r] = flagged[r])
           /\ ~Claimable(c)'
<1>1. CASE flagged[c] \/ run[c] \in Terminal
    BY <1>1 DEF RequestRunCancellation, RunsTyped, Claimable, Terminal
<1>2. CASE ~(flagged[c] \/ run[c] \in Terminal)
    BY <1>2 DEF RequestRunCancellation, RunsTyped, Claimable, Terminal
<1> QED
    BY <1>1, <1>2

\* As long as no run comes the newest one stays it, and what came stays so.
LEMMA NewestStays ==
    ASSUME \A r \in Runs : run'[r] = "absent" <=> run[r] = "absent"
    PROVE  \A n \in Runs : IsNewest(n)' <=> IsNewest(n)
BY DEF IsNewest

\* A worker moves a run that it has, or asks one to give way, and the callers do not notice.
LEMMA WorkersSpare ==
    ASSUME GroupInv, SurvivalInv, NEW w \in Workers, WorkerStep(w) \/ RenewLease(w) \/ Crash(w),
           \A v \in Workers : wk'[v].trust \in 0..TTL
    PROVE  SurvivalInv'
<1> USE DEF SurvivalInv, GroupInv
<1>1. /\ UNCHANGED <<caller, listed, stray>>
      /\ \A v \in Workers : v # w => wk'[v] = wk[v]
    <2>1. UNCHANGED <<caller, listed, stray>>
        BY DEF WorkerStep, RenewLease, Crash, ClaimNextQueuedRun, AcquireExecutionConcurrency, CancelHolder, LoseLease,
           FinishRun, ReleaseExecutionConcurrency, Restart, callerVars, past
    <2>2. \A v \in Workers : v # w => wk'[v] = wk[v]
        BY DEF WorkerStep, RenewLease, Crash, ClaimNextQueuedRun, AcquireExecutionConcurrency, CancelHolder, LoseLease,
           FinishRun, ReleaseExecutionConcurrency, Restart, Leave, WorkersTrustTheirRun
    <2> QED
        BY <2>1, <2>2
<1> DEFINE Spared ==
         /\ run' \in [Runs -> Terminal \cup {"absent", "queued", "running"}]
         /\ flagged' \in [Runs -> BOOLEAN]
         /\ crossed' \in BOOLEAN
         /\ crossed => crossed'
         /\ \A r \in Runs : /\ run'[r] = "absent" <=> run[r] = "absent"
                            /\ Claimable(r)' => Claimable(r)
                            /\ run[r] = "absent" => flagged'[r] = flagged[r]
                            /\ IsNewest(r) /\ flagged'[r] => flagged[r] \/ crossed'
         /\ wk'[w].pc \in {"wait", "execute", "release"} => run[wk'[w].run] # "absent"
         /\ wk'[w].pc \in {"wait", "execute", "release"} => wk'[w].run \in Runs
         /\ holder' # None => run[holder'[1]] # "absent" /\ holder'[1] \in Runs
<1>2. ASSUME Spared PROVE SurvivalInv'
    <2>1. RunsTyped'
        <3>1. \A v \in Workers : wk'[v].trust \in 0..TTL
            OBVIOUS
        <3> QED
            BY <1>1, <1>2, <3>1 DEF RunsTyped
    <2>2. KnownRunsCame'
        <3>1. \A v \in Workers : wk'[v].pc \in {"wait", "execute", "release"} => run'[wk'[v].run] # "absent"
            BY <1>1, <1>2 DEF KnownRunsCame, WorkersTrustTheirRun
        <3>2. \A r \in Runs : run'[r] = "absent" => ~flagged'[r] /\ caller'[r] = "idle"
            BY <1>1, <1>2 DEF KnownRunsCame
        <3>3. \A r \in Runs : \A c \in listed'[r] : run'[c] # "absent"
            BY <1>1, <1>2 DEF KnownRunsCame, RunsTyped
        <3> QED
            BY <1>2, <3>1, <3>2, <3>3 DEF KnownRunsCame
    <2>3. NewestIsSpared'
        <3>1. \A n \in Runs : IsNewest(n)' <=> IsNewest(n)
            BY <1>2, NewestStays
        <3>2. \A n \in Runs : IsNewest(n) /\ flagged'[n] => crossed'
            BY <1>2 DEF NewestIsSpared
        <3> HIDE DEF Spared
        <3>3. crossed => crossed'
            BY <1>2 DEF Spared
        <3> QED
            BY <1>1, <3>1, <3>2, <3>3 DEF NewestIsSpared
    <2>4. OnePendingRun'
        <3>1. \A r \in Runs : Claimable(r)' => Claimable(r)
            BY <1>2
        <3> HIDE DEF Spared
        <3> QED
            BY <1>1, <3>1 DEF OnePendingRun
    <2> QED
        BY <2>1, <2>2, <2>3, <2>4
<1>3. ASSUME ClaimNextQueuedRun(w) PROVE Spared
    <2>1. PICK r \in Runs : /\ Claimable(r) /\ run' = [run EXCEPT ![r] = "running"]
                            /\ wk' = [wk EXCEPT ![w].pc = "wait", ![w].run = r]
        BY <1>3 DEF ClaimNextQueuedRun
    <2>2. wk'[w].run = r /\ run[r] = "queued"
        BY <2>1 DEF WorkersTrustTheirRun, Claimable
    <2>3. UNCHANGED <<flagged, holder, crossed>>
        BY <1>3 DEF ClaimNextQueuedRun, leaseRow, past
    <2> QED
        BY <2>1, <2>2, <2>3 DEF RunsTyped, KnownRunsCame, RowTypeOK, Claimable
<1>4. ASSUME AcquireExecutionConcurrency(w) \/ RenewLease(w) PROVE Spared
    <2>1. /\ UNCHANGED <<run, flagged, crossed>>
          /\ wk'[w].run = wk[w].run /\ wk[w].pc \in {"wait", "execute", "release"}
          /\ holder' = Mine(w)
        BY <1>4 DEF AcquireExecutionConcurrency, RenewLease, At, runVars, past, WorkersTrustTheirRun
    <2> QED
        BY <2>1 DEF RunsTyped, KnownRunsCame, WorkersTrustTheirRun, Mine, Claimable
<1>5. ASSUME CancelHolder(w) PROVE Spared
    <2> DEFINE c == holder[1]
    <2>1. c \in Runs /\ run[c] # "absent" /\ RequestRunCancellation(c)
        BY <1>5 DEF CancelHolder, MayTake, RowTypeOK, KnownRunsCame
    <2>2. /\ wk'[w].pc = wk[w].pc /\ wk'[w].run = wk[w].run
          /\ holder' = holder /\ crossed' = (crossed \/ IsNewest(c))
        BY <1>5 DEF CancelHolder, leaseRow, WorkersTrustTheirRun
    <2> HIDE DEF c
    <2>3. /\ run' \in [Runs -> Terminal \cup {"absent", "queued", "running"}]
          /\ flagged' \in [Runs -> BOOLEAN]
          /\ \A r \in Runs : /\ run'[r] = "absent" <=> run[r] = "absent"
                             /\ Claimable(r)' => Claimable(r)
                             /\ run[r] = "absent" => flagged'[r] = flagged[r]
                             /\ IsNewest(r) /\ flagged'[r] => flagged[r] \/ crossed'
        BY <2>1, <2>2, CancellationTakesOut DEF Claimable
    <2>4. crossed' \in BOOLEAN
        BY <2>2 DEF RunsTyped, IsNewest
    <2> QED
        BY <2>2, <2>3, <2>4 DEF KnownRunsCame, WorkersTrustTheirRun, RowTypeOK
<1>6. ASSUME FinishRun(w) PROVE Spared
    <2>1. /\ wk[w].pc = "execute" /\ wk'[w].run = wk[w].run
          /\ UNCHANGED <<flagged, holder, crossed>>
          /\ run' = [run EXCEPT ![wk[w].run] = IF flagged[wk[w].run] THEN "cancelled" ELSE "succeeded"]
        BY <1>6 DEF FinishRun, At, leaseRow, past, WorkersTrustTheirRun
    <2> QED
        BY <2>1 DEF RunsTyped, KnownRunsCame, WorkersTrustTheirRun, RowTypeOK, Claimable, Terminal
<1>7. ASSUME LoseLease(w) \/ ReleaseExecutionConcurrency(w) \/ Crash(w) \/ Restart(w) PROVE Spared
    <2>1. /\ UNCHANGED <<run, flagged, crossed>>
          /\ wk'[w].pc \in {"idle", "dead"}
          /\ holder' \in {holder, None}
        BY <1>7 DEF LoseLease, ReleaseExecutionConcurrency, Crash, Restart, Leave, Out, runVars, leaseRow, past,
           WorkersTrustTheirRun
    <2> QED
        BY <2>1 DEF RunsTyped, KnownRunsCame, RowTypeOK, Claimable
<1> HIDE DEF Spared
<1> QED
    BY <1>2, <1>3, <1>4, <1>5, <1>6, <1>7 DEF WorkerStep

\* So do the callers and the recovery of a run: a run that comes crosses with who is about to list.
LEMMA CallersSpare ==
    ASSUME Sensible, GroupInv, SurvivalInv, NEW r \in Runs,
           EnqueueRun(r) \/ CallerStep(r) \/ CallerFails(r) \/ RecoverRun(r),
           \A v \in Workers : wk'[v].trust \in 0..TTL
    PROVE  SurvivalInv'
<1> USE DEF SurvivalInv, GroupInv
<1>0. UNCHANGED <<wk, holder>>
    BY DEF EnqueueRun, CallerStep, ListRuns, CancelSuperseded, CallerFails, RecoverRun, leaseRow
<1>1. CASE EnqueueRun(r)
    <2>1. /\ run[r] = "absent" /\ run' = [run EXCEPT ![r] = "queued"]
          /\ caller' = [caller EXCEPT ![r] = "list"] /\ UNCHANGED <<flagged, listed, stray>>
          /\ crossed' = \E c \in Runs : caller[c] = "list"
          /\ \A c \in Runs : c < r => run[c] # "absent"
        BY <1>1 DEF EnqueueRun
    <2>2. RunsTyped'
        BY <2>1 DEF RunsTyped, Terminal
    <2>3. \A n \in Runs : IsNewest(n)' => n = r
        <3>1. ASSUME NEW n \in Runs, IsNewest(n)', n # r PROVE FALSE
            <4>1. run[n] # "absent" /\ r <= n
                BY <2>1, <3>1 DEF IsNewest, RunsTyped
            <4>2. r < n
                <5>1. r \in Nat /\ n \in Nat
                    BY <3>1 DEF Sensible
                <5> HIDE DEF SurvivalInv, GroupInv
                <5> QED
                    BY <3>1, <4>1, <5>1
            <4> QED
                BY <2>1, <4>1, <4>2 DEF KnownRunsCame
        <3> QED
            BY <3>1
    <2>4. KnownRunsCame'
        <3>1. \A a, b \in Runs : a < b /\ run'[b] # "absent" => run'[a] # "absent"
            BY <2>1 DEF KnownRunsCame, RunsTyped
        <3>2. \A w \in Workers : wk'[w].pc \in {"wait", "execute", "release"} => run'[wk'[w].run] # "absent"
            BY <1>0, <2>1 DEF KnownRunsCame, RunsTyped, WorkersTrustTheirRun
        <3>3. holder' # None => run'[holder'[1]] # "absent"
            BY <1>0, <2>1 DEF KnownRunsCame, RunsTyped, RowTypeOK
        <3>4. \A c \in Runs : run'[c] = "absent" => ~flagged'[c] /\ caller'[c] = "idle"
            BY <2>1 DEF KnownRunsCame, RunsTyped
        <3>5. \A d \in Runs : \A c \in listed'[d] : run'[c] # "absent"
            BY <2>1 DEF KnownRunsCame, RunsTyped
        <3> QED
            BY <3>1, <3>2, <3>3, <3>4, <3>5 DEF KnownRunsCame
    <2>5. NewestIsSpared'
        <3>1. ~flagged'[r] /\ \A d \in Runs : r \notin listed'[d]
            BY <2>1 DEF KnownRunsCame
        <3>2. \A d \in Runs : d # r /\ caller'[d] = "list" => crossed'
            BY <2>1 DEF RunsTyped
        <3> QED
            BY <2>3, <3>1, <3>2 DEF NewestIsSpared
    <2>6. OnePendingRun'
        <3>1. \A c \in Runs : c # r => (Claimable(c)' <=> Claimable(c)) /\ caller'[c] = caller[c]
            BY <2>1 DEF Claimable, RunsTyped
        <3>2. caller'[r] = "list"
            BY <2>1 DEF RunsTyped
        <3> QED
            BY <2>1, <3>1, <3>2 DEF OnePendingRun
    <2> QED
        BY <2>2, <2>4, <2>5, <2>6
<1>2. CASE ListRuns(r)
    <2>1. /\ UNCHANGED <<run, flagged, crossed, stray>> /\ caller[r] = "list"
          /\ listed' = [listed EXCEPT ![r] = Candidates(r)]
          /\ caller' = [caller EXCEPT ![r] = IF Candidates(r) = {} THEN "idle" ELSE "cancel"]
        BY <1>2 DEF ListRuns, runVars, past
    <2>2. /\ Candidates(r) \in SUBSET Runs /\ r \notin Candidates(r)
          /\ \A c \in Candidates(r) : run[c] # "absent"
          /\ \A c \in Runs : c # r /\ Claimable(c) => c \in Candidates(r)
        BY DEF Candidates, Statuses, Claimable
    <2> HIDE DEF Candidates
    <2>3. RunsTyped'
        BY <1>0, <2>1, <2>2 DEF RunsTyped
    <2>4. KnownRunsCame'
        <3>1. \A d \in Runs : listed'[d] = IF d = r THEN Candidates(r) ELSE listed[d]
            BY <2>1 DEF RunsTyped
        <3>2. \A d \in Runs : d # r => caller'[d] = caller[d]
            BY <2>1 DEF RunsTyped
        <3>3. run[r] # "absent"
            BY <2>1 DEF KnownRunsCame
        <3> QED
            BY <1>0, <2>1, <2>2, <3>1, <3>2, <3>3 DEF KnownRunsCame
    <2>5. NewestIsSpared'
        <3>1. ASSUME NEW n \in Runs, IsNewest(n)
              PROVE  /\ flagged[n] => crossed
                     /\ \A d \in Runs : /\ d # n /\ caller'[d] = "list" => crossed
                                        /\ n \in listed'[d] => crossed
            <4>1. \A d \in Runs : caller'[d] = "list" => d # r /\ caller[d] = "list"
                BY <2>1 DEF RunsTyped
            <4>2. \A d \in Runs : n \in listed'[d] => n \in listed[d] \/ (d = r /\ r # n)
                BY <2>1, <2>2 DEF RunsTyped
            <4> QED
                BY <2>1, <3>1, <4>1, <4>2 DEF NewestIsSpared
        <3>2. \A n \in Runs : IsNewest(n)' <=> IsNewest(n)
            BY <2>1, NewestStays
        <3> QED
            BY <2>1, <3>1, <3>2 DEF NewestIsSpared
    <2>6. OnePendingRun'
        <3>1. \A d \in Runs : d # r => caller'[d] = caller[d] /\ listed'[d] = listed[d]
            BY <2>1 DEF RunsTyped
        <3>2. listed'[r] = Candidates(r)
            BY <2>1 DEF RunsTyped
        <3>3. ASSUME NEW a \in Runs, NEW b \in Runs, a # b, Claimable(a), Claimable(b)
              PROVE  \/ {a, b} \cap stray # {}
                     \/ \E d \in {a, b} : caller'[d] = "list" \/ {a, b} \ {d} \subseteq listed'[d]
            <4>1. CASE r \in {a, b}
                BY <2>2, <3>2, <3>3, <4>1
            <4>2. CASE r \notin {a, b}
                BY <3>1, <3>3, <4>2 DEF OnePendingRun
            <4> QED
                BY <4>1, <4>2
        <3> QED
            BY <2>1, <3>3 DEF OnePendingRun, Claimable
    <2> QED
        BY <2>3, <2>4, <2>5, <2>6
<1>3. CASE CancelSuperseded(r)
    <2>1. PICK c \in listed[r] : RequestRunCancellation(c) /\ listed' = [listed EXCEPT ![r] = @ \ {c}]
        BY <1>3 DEF CancelSuperseded
    <2>2. /\ c \in Runs /\ run[c] # "absent" /\ caller[r] = "cancel" /\ run[r] # "absent"
          /\ UNCHANGED <<crossed, stray>>
          /\ caller' = [caller EXCEPT ![r] = IF listed'[r] = {} THEN "idle" ELSE "cancel"]
        BY <1>3, <2>1 DEF CancelSuperseded, past, RunsTyped, KnownRunsCame
    <2>3. /\ run' \in [Runs -> Terminal \cup {"absent", "queued", "running"}]
          /\ flagged' \in [Runs -> BOOLEAN]
          /\ \A d \in Runs : (run'[d] = "absent" <=> run[d] = "absent")
                            /\ (d # c => run'[d] = run[d] /\ flagged'[d] = flagged[d])
          /\ ~Claimable(c)'
        BY <2>1, <2>2, CancellationTakesOut
    <2>4. /\ caller' \in [Runs -> {"idle", "list", "cancel"}]
          /\ caller'[r] # "list" /\ \A d \in Runs : d # r => caller'[d] = caller[d]
        BY <2>2 DEF RunsTyped
    <2>5. /\ listed' \in [Runs -> SUBSET Runs]
          /\ \A d \in Runs : listed'[d] \subseteq listed[d] /\ listed[d] \ {c} \subseteq listed'[d]
        BY <2>1 DEF RunsTyped
    <2>6. RunsTyped'
        BY <1>0, <2>2, <2>3, <2>4, <2>5 DEF RunsTyped
    <2>7. KnownRunsCame'
        <3>1. \A d \in Runs : run'[d] = "absent" => ~flagged'[d] /\ caller'[d] = "idle"
            BY <2>2, <2>3, <2>4 DEF KnownRunsCame
        <3>2. \A d \in Runs : \A e \in listed'[d] : run'[e] # "absent"
            BY <2>3, <2>5 DEF KnownRunsCame, RunsTyped
        <3>3. \A w \in Workers : wk'[w].pc \in {"wait", "execute", "release"} => run'[wk'[w].run] # "absent"
            BY <1>0, <2>3 DEF KnownRunsCame, WorkersTrustTheirRun
        <3>4. holder' # None => run'[holder'[1]] # "absent"
            BY <1>0, <2>3 DEF KnownRunsCame, RowTypeOK
        <3> QED
            BY <2>3, <3>1, <3>2, <3>3, <3>4 DEF KnownRunsCame
    <2>8. NewestIsSpared'
        <3>1. \A n \in Runs : IsNewest(n) /\ flagged'[n] => crossed
            BY <2>1, <2>3 DEF NewestIsSpared
        <3> QED
            BY <2>2, <2>3, <2>4, <2>5, <3>1, NewestStays DEF NewestIsSpared
    <2>9. OnePendingRun'
        <3>1. \A d \in Runs : Claimable(d)' => d # c /\ Claimable(d)
            BY <2>3 DEF Claimable
        <3>2. ASSUME NEW a \in Runs, NEW b \in Runs, a # b, Claimable(a)', Claimable(b)'
              PROVE  \/ {a, b} \cap stray # {}
                     \/ \E d \in {a, b} : caller'[d] = "list" \/ {a, b} \ {d} \subseteq listed'[d]
            <4>1. c \notin {a, b} /\ Claimable(a) /\ Claimable(b)
                BY <3>1, <3>2
            <4>2. \/ {a, b} \cap stray # {}
                  \/ \E d \in {a, b} : caller[d] = "list" \/ {a, b} \ {d} \subseteq listed[d]
                BY <3>2, <4>1 DEF OnePendingRun
            <4> QED
                BY <2>2, <2>4, <2>5, <4>1, <4>2
        <3> QED
            BY <2>2, <3>2 DEF OnePendingRun
    <2> QED
        BY <2>6, <2>7, <2>8, <2>9
<1>4. CASE CallerFails(r)
    <2>1. /\ UNCHANGED <<run, flagged, crossed>> /\ stray' = stray \cup {r}
          /\ caller' = [caller EXCEPT ![r] = "idle"] /\ listed' = [listed EXCEPT ![r] = {}]
        BY <1>4 DEF CallerFails, runVars
    <2>2. /\ caller' \in [Runs -> {"idle", "list", "cancel"}] /\ listed' \in [Runs -> SUBSET Runs]
          /\ caller'[r] = "idle" /\ listed'[r] = {}
          /\ \A d \in Runs : d # r => caller'[d] = caller[d] /\ listed'[d] = listed[d]
        BY <2>1 DEF RunsTyped
    <2>3. RunsTyped'
        BY <1>0, <2>1, <2>2 DEF RunsTyped
    <2>4. KnownRunsCame'
        BY <1>0, <2>1, <2>2 DEF KnownRunsCame
    <2>5. NewestIsSpared'
        BY <2>1, <2>2, NewestStays DEF NewestIsSpared
    <2>6. OnePendingRun'
        BY <2>1, <2>2 DEF OnePendingRun, Claimable
    <2> QED
        BY <2>3, <2>4, <2>5, <2>6
<1>5. CASE RecoverRun(r)
    <2>1. /\ run[r] = "running" /\ run' = [run EXCEPT ![r] = "queued"]
          /\ UNCHANGED <<flagged, caller, listed, crossed>> /\ stray' = stray \cup {r}
        BY <1>5 DEF RecoverRun, callerVars
    <2>2. \A d \in Runs : /\ run'[d] = "absent" <=> run[d] = "absent"
                          /\ d # r => run'[d] = run[d]
        BY <2>1 DEF RunsTyped
    <2>3. RunsTyped'
        BY <1>0, <2>1 DEF RunsTyped
    <2>4. KnownRunsCame'
        <3>1. \A d \in Runs : \A e \in listed'[d] : run'[e] # "absent"
            BY <2>1, <2>2 DEF KnownRunsCame, RunsTyped
        <3>2. \A w \in Workers : wk'[w].pc \in {"wait", "execute", "release"} => run'[wk'[w].run] # "absent"
            BY <1>0, <2>2 DEF KnownRunsCame, WorkersTrustTheirRun
        <3>3. holder' # None => run'[holder'[1]] # "absent"
            BY <1>0, <2>2 DEF KnownRunsCame, RowTypeOK
        <3> QED
            BY <2>1, <2>2, <3>1, <3>2, <3>3 DEF KnownRunsCame
    <2>5. NewestIsSpared'
        BY <2>1, <2>2, NewestStays DEF NewestIsSpared
    <2>6. OnePendingRun'
        BY <2>1, <2>2 DEF OnePendingRun, Claimable
    <2> QED
        BY <2>3, <2>4, <2>5, <2>6
<1> QED
    BY <1>1, <1>2, <1>3, <1>4, <1>5 DEF CallerStep

\* Callers, workers and time keep the invariant.
LEMMA StepSurvival ==
    ASSUME Sensible, GroupInv, SurvivalInv, [Next]_vars
    PROVE  SurvivalInv'
<1>1. \A w \in Workers : wk'[w].trust \in 0..TTL
    BY StepTrust DEF Sensible
<1>2. ASSUME UNCHANGED <<run, flagged, caller, listed, holder, past>>,
             \A w \in Workers : wk'[w].pc = wk[w].pc /\ wk'[w].run = wk[w].run
      PROVE  SurvivalInv'
    <2>1. RunsTyped'
        BY <1>1, <1>2 DEF SurvivalInv, RunsTyped, past
    <2>2. KnownRunsCame'
        BY <1>2 DEF SurvivalInv, KnownRunsCame
    <2>3. NewestIsSpared' /\ OnePendingRun'
        BY <1>2 DEF SurvivalInv, NewestIsSpared, OnePendingRun, IsNewest, Claimable, past
    <2> QED
        BY <2>1, <2>2, <2>3 DEF SurvivalInv
<1>3. CASE Tick
    <2>1. \A w \in Workers : wk'[w].pc = wk[w].pc /\ wk'[w].run = wk[w].run
        BY <1>3 DEF Tick, GroupInv, WorkersTrustTheirRun
    <2> QED
        BY <1>2, <1>3, <2>1 DEF Tick, runVars, callerVars
<1>4. CASE UNCHANGED vars
    BY <1>2, <1>4 DEF vars, runVars, callerVars, leaseRow
<1> QED
    BY <1>1, <1>3, <1>4, WorkersSpare, CallersSpare DEF Next

\* Superseding leaves the newest run of a group unless it crossed with another caller or with an
\* older run that waits, and one of two pending runs is about to go unless a caller was cut off or
\* a run is queued again (cancelSupersededConcurrencyRuns); whatever runs are enqueued at once,
\* whatever fails or dies.
THEOREM SupersedingLeavesARun ==
    ASSUME Sensible
    PROVE  Spec => [](GroupTypeOK /\ NewestRunIsLeft /\ OnePendingRun)
<1>1. Init => GroupInv /\ SurvivalInv
    BY InitGroup, InitSurvival DEF Sensible
<1>2. GroupInv /\ SurvivalInv /\ [Next]_vars => GroupInv' /\ SurvivalInv'
    BY StepGroup, StepSurvival DEF Sensible
<1>3. GroupInv /\ SurvivalInv => GroupTypeOK /\ NewestRunIsLeft /\ OnePendingRun
    <2> SUFFICES ASSUME GroupInv, SurvivalInv PROVE GroupTypeOK /\ NewestRunIsLeft /\ OnePendingRun
        OBVIOUS
    <2>1. GroupTypeOK
        BY DEF GroupInv, WorkersTrustTheirRun, RowTypeOK, SurvivalInv, RunsTyped, GroupTypeOK
    <2>2. NewestRunIsLeft /\ OnePendingRun
        BY DEF SurvivalInv, NewestIsSpared, NewestRunIsLeft
    <2> QED
        BY <2>1, <2>2
<1> QED
    BY <1>1, <1>2, <1>3, PTL DEF Spec
=============================================================================
