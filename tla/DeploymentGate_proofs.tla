------------------------ MODULE DeploymentGate_proofs ------------------------
(***************************************************************************)
(* Proofs about the environment gate, for any jobs, workers, policies, and *)
(* any number of edits and faults.                                         *)
(*                                                                         *)
(* GateInv is the inductive invariant.  The Moves lemmas say what each     *)
(* step does to the worker that takes it; JobStep bounds what a step can   *)
(* disturb; the Lease steps map the gate to ExpiringLease, whose theorem   *)
(* on exclusion is used as it stands.                                      *)
(***************************************************************************)
EXTENDS DeploymentGate, TLAPS

LeaseProofs == INSTANCE ExpiringLease_proofs WITH
    Clients <- Jobs \X Workers,
    trust <- [c \in Jobs \X Workers |-> IF wk[c[2]].job = c[1] THEN wk[c[2]].trust ELSE 0]

-----------------------------------------------------------------------------
(* The inductive invariant *)

\* Between the claim and the job's start, and from there to the deployment's end
Preparing == {"ensure", "request", "evaluate", "refuse", "park", "acquire", "preempt", "start", "group"}
Deploying == {"group", "work", "release", "record"}
Places    == {"idle", "down", "check", "refused", "settle"} \cup Preparing \cup Deploying
Reasons   == {"approval", "timer", "concurrency"}
Statuses  == Terminal \cup {"queued", "running"}

WorkerTypeOK ==
    wk \in [Workers -> [pc : Places, job : Jobs \cup {None},
                        preempts : {p.cancelInProgress : p \in Policies} \cup {FALSE},
                        why : Jobs \cup Reasons \cup {"none"}, trust : 0..TTL]]

RowTypeOK ==
    /\ policy \in Policies
    /\ run \in [Jobs -> Terminal \cup {"absent", "queued", "waiting", "running"}]
    /\ job \in [Jobs -> Terminal \cup {"queued", "waiting", "running"}]
    /\ command \in [Jobs -> Statuses]
    /\ wait \in [Jobs -> {"none"} \cup Reasons]
    /\ deployment \in [Jobs -> Statuses \cup {"none"}]

LeaseTypeOK == holder \in (Jobs \X Workers) \cup {None} /\ left \in Nat

\* A job waits or runs only with its run, a command only with its job, and a
\* deployment is what its job can have become.
JobFits(j) ==
    /\ job[j] = "waiting" <=> run[j] = "waiting"
    /\ job[j] = "waiting" <=> wait[j] # "none"
    /\ job[j] = "running" => run[j] = "running"
    /\ command[j] = "running" => job[j] = "running"
    /\ deployment[j] = "queued" => job[j] \in {"queued", "waiting", "failed", "cancelled"}
    /\ deployment[j] = "succeeded" => job[j] = "succeeded"
    /\ deployment[j] = "cancelled" => job[j] \in {"cancelled", "failed"}
    /\ deployment[j] = "failed" => job[j] = "failed"

\* Where a worker is tells how far its job and the deployment are.
WorkerFits(w) ==
    LET j == wk[w].job IN
    /\ At(w, "idle") \/ At(w, "down") <=> j = None
    /\ j # None => run[j] = "running"
    /\ At(w, "check") => job[j] \in Terminal \cup {"queued"}
    /\ wk[w].pc \in Preparing => job[j] = "queued"
    /\ At(w, "work") => job[j] = "running"
    /\ At(w, "refused") => job[j] = "failed"
    /\ At(w, "release") \/ At(w, "record") => job[j] \in Terminal \ {"skipped"}
    /\ At(w, "settle") => job[j] \in Terminal
    /\ wk[w].pc \in Deploying => deployment[j] = "running"
    /\ At(w, "park") => wk[w].why \in Reasons
    /\ At(w, "preempt") => wk[w].why \in Jobs

\* No job is executed twice at a time.
OneWorkerEach == \A v, w \in Workers : wk[v].job = wk[w].job /\ wk[v].job # None => v = w

JobInv ==
    /\ \A j \in Jobs : JobFits(j)
    /\ \A w \in Workers : WorkerFits(w)
    /\ OneWorkerEach

AuditInv == history \in [Jobs -> Seq(Statuses)] /\ HistoryIsOnePath

\* A decision is the status of its request.
DecisionInv ==
    /\ request \in [Jobs -> {"none", "pending", "approved", "rejected"}]
    /\ decision \in [Jobs -> {"none", "approved", "rejected"}]
    /\ \A j \in Jobs : decision[j] # "none" => request[j] = decision[j]

\* A worker without a job trusts nothing, and the first heartbeat comes in time.
TrustInv ==
    \A w \in Workers :
        /\ wk[w].job = None => wk[w].trust = 0
        /\ Prompt /\ Grouped = {} /\ wk[w].pc \in {"start", "group", "work"} => wk[w].trust > 0

GateInv ==
    /\ WorkerTypeOK /\ RowTypeOK /\ LeaseTypeOK
    /\ JobInv /\ AuditInv /\ DecisionInv /\ TrustInv

\* The code's constants: a lease lives for a while, and None is no value of a row.
Sensible ==
    /\ TTL \in Nat \ {0}
    /\ FirstPolicy \in Policies
    /\ None \notin Jobs /\ None \notin Jobs \X Workers

-----------------------------------------------------------------------------
(* What a step does to the worker that takes it *)

OnlyWorker(w) == \A v \in Workers \ {w} : wk'[v] = wk[v]

Becomes(w, l, j, y, t) ==
    /\ WorkerTypeOK'
    /\ OnlyWorker(w)
    /\ wk'[w].pc = l /\ wk'[w].job = j /\ wk'[w].why = y /\ wk'[w].trust = t

Goes(w, l)   == Becomes(w, l, wk[w].job, wk[w].why, wk[w].trust)
Leaves(w, l) == Becomes(w, l, None, "none", 0)

\* A worker's entry is replaced by another of its type.
LEMMA EntryBecomes ==
    ASSUME WorkerTypeOK, NEW w \in Workers, NEW l \in Places, NEW j \in Jobs \cup {None},
           NEW m \in {p.cancelInProgress : p \in Policies} \cup {FALSE},
           NEW y \in Jobs \cup Reasons \cup {"none"}, NEW t \in 0..TTL,
           wk' = [wk EXCEPT ![w] = [pc |-> l, job |-> j, preempts |-> m, why |-> y, trust |-> t]]
    PROVE  Becomes(w, l, j, y, t)
BY DEF WorkerTypeOK, Becomes, OnlyWorker

\* Goto changes the place only.
LEMMA GotoMoves ==
    ASSUME WorkerTypeOK, NEW w \in Workers, NEW l \in Places, Goto(w, l)
    PROVE  Goes(w, l)
BY DEF Goto, WorkerTypeOK, Goes, Becomes, OnlyWorker

\* Leave forgets everything.
LEMMA LeaveMoves ==
    ASSUME WorkerTypeOK, Sensible, NEW w \in Workers, NEW l \in {"idle", "down"}, Leave(w, l)
    PROVE  Leaves(w, l)
<1>1. l \in Places /\ 0 \in 0..TTL
    BY DEF Places, Sensible
<1> QED
    BY <1>1, EntryBecomes DEF Leave, Leaves, Out

\* A claim sets the place and the job.
LEMMA ClaimMoves ==
    ASSUME WorkerTypeOK, NEW w \in Workers, NEW j \in Jobs, Claim(w, j)
    PROVE  Becomes(w, "check", j, wk[w].why, wk[w].trust)
BY DEF Claim, WorkerTypeOK, Becomes, OnlyWorker, Places

\* Reading the policy sends the worker to the approval or to the evaluation.
LEMMA EnsureMoves ==
    ASSUME WorkerTypeOK, RowTypeOK, NEW w \in Workers, EnsureDeployment(w)
    PROVE  \E l \in {"request", "evaluate"} : Goes(w, l)
<1>1. PICK l \in {"request", "evaluate"} :
         wk' = [wk EXCEPT ![w].pc = l, ![w].preempts = policy.cancelInProgress]
    BY DEF EnsureDeployment
<1>2. l \in Places /\ policy.cancelInProgress \in {p.cancelInProgress : p \in Policies} \cup {FALSE}
    BY DEF Places, Preparing, RowTypeOK
<1> QED
    BY <1>1, <1>2 DEF WorkerTypeOK, Goes, Becomes, OnlyWorker

\* A place and a reason change together.
LEMMA WhyMoves ==
    ASSUME WorkerTypeOK, NEW w \in Workers, NEW l \in Places, NEW y \in Jobs \cup Reasons,
           wk' = [wk EXCEPT ![w].pc = l, ![w].why = y]
    PROVE  Becomes(w, l, wk[w].job, y, wk[w].trust)
BY DEF WorkerTypeOK, Becomes, OnlyWorker

\* A place and the trust change together.
LEMMA TrustMoves ==
    ASSUME WorkerTypeOK, NEW w \in Workers, NEW l \in Places, NEW t \in 0..TTL,
           wk' = [wk EXCEPT ![w].pc = l, ![w].trust = t]
    PROVE  Becomes(w, l, wk[w].job, wk[w].why, t)
BY DEF WorkerTypeOK, Becomes, OnlyWorker

\* What the gate says moves the worker to the lease, the refusal or the wait.
LEMMA EvaluateMoves ==
    ASSUME WorkerTypeOK, NEW w \in Workers, EvaluateAccess(w)
    PROVE  \E l \in {"acquire", "refuse", "park"}, y \in Reasons : Becomes(w, l, wk[w].job, y, wk[w].trust)
<1>1. PICK l \in {"acquire", "refuse", "park"}, y \in Reasons : wk' = [wk EXCEPT ![w].pc = l, ![w].why = y]
    BY DEF EvaluateAccess, Reasons
<1>2. l \in Places
    BY DEF Places, Preparing
<1> QED
    BY <1>1, <1>2, WhyMoves

\* A refused acquisition pauses the job, or asks for the cancellation of the holder first.
LEMMA AcquireMoves ==
    ASSUME WorkerTypeOK, LeaseTypeOK, Sensible, NEW w \in Workers, AcquireLease(w)
    PROVE  \/ Leaves(w, "down") /\ UNCHANGED leaseRow
           \/ /\ MayTake(Mine(w)) /\ holder' = Mine(w) /\ left' = TTL
              /\ Becomes(w, "start", wk[w].job, wk[w].why, TTL)
           \/ /\ UNCHANGED leaseRow
              /\ \/ \E j \in Jobs : Becomes(w, "preempt", wk[w].job, j, wk[w].trust)
                 \/ Becomes(w, "park", wk[w].job, "concurrency", wk[w].trust)
<1>0. {"start", "preempt", "park"} \subseteq Places /\ TTL \in 0..TTL /\ "concurrency" \in Reasons
    BY DEF Places, Preparing, Sensible, Reasons
<1>1. CASE Leave(w, "down") /\ UNCHANGED leaseRow
    BY <1>1, LeaveMoves
<1>2. CASE /\ MayTake(Mine(w)) /\ holder' = Mine(w) /\ left' = TTL
           /\ wk' = [wk EXCEPT ![w].pc = "start", ![w].trust = TTL]
    BY <1>0, <1>2, TrustMoves
<1>3. CASE ~MayTake(Mine(w)) /\ UNCHANGED leaseRow
           /\ wk' = [wk EXCEPT ![w].pc = "preempt", ![w].why = holder[1]]
    <2>1. holder[1] \in Jobs
        BY <1>3 DEF MayTake, LeaseTypeOK
    <2> QED
        BY <1>0, <1>3, <2>1, WhyMoves
<1>4. CASE UNCHANGED leaseRow /\ wk' = [wk EXCEPT ![w].pc = "park", ![w].why = "concurrency"]
    BY <1>0, <1>4, WhyMoves
<1> QED
    BY <1>1, <1>2, <1>3, <1>4 DEF AcquireLease

\* A renewal restores the trust.
LEMMA RenewMoves ==
    ASSUME WorkerTypeOK, Sensible, NEW w \in Workers, RenewLease(w)
    PROVE  Becomes(w, "work", wk[w].job, wk[w].why, TTL)
<1>1. wk[w].pc = "work" /\ wk' = [wk EXCEPT ![w].trust = TTL] /\ TTL \in 0..TTL
    BY DEF RenewLease, At, Sensible
<1> QED
    BY <1>1 DEF WorkerTypeOK, Becomes, OnlyWorker

-----------------------------------------------------------------------------
(* What a step can disturb *)

\* The rows that tell how far a job is
rowVars == <<policy, run, job, command, wait, deployment, history>>

\* No row but those of job k changes.
OnlyRowsOf(k) ==
    \A j \in Jobs \ {k} :
        /\ run'[j] = run[j] /\ job'[j] = job[j] /\ command'[j] = command[j]
        /\ wait'[j] = wait[j] /\ deployment'[j] = deployment[j]

\* A worker that executes another job is not disturbed.
LEMMA OthersFit ==
    ASSUME NEW k, OnlyRowsOf(k), NEW v \in Workers, wk'[v] = wk[v], wk[v].job # k,
           wk[v].job \in Jobs \cup {None}, None \notin Jobs, WorkerFits(v)
    PROVE  WorkerFits(v)'
<1>1. CASE wk[v].job = None
    <2>1. At(v, "idle") \/ At(v, "down")
        BY <1>1 DEF WorkerFits
    <2> QED
        BY <1>1, <2>1 DEF WorkerFits, At, Preparing, Deploying
<1>2. CASE wk[v].job \in Jobs
    <2>1. /\ run'[wk[v].job] = run[wk[v].job] /\ job'[wk[v].job] = job[wk[v].job]
          /\ deployment'[wk[v].job] = deployment[wk[v].job]
        BY <1>2 DEF OnlyRowsOf
    <2> QED
        BY <1>2, <2>1 DEF WorkerFits, At
<1> QED
    BY <1>1, <1>2

\* A worker's step on the rows of one job that no other worker executes
LEMMA JobStep ==
    ASSUME WorkerTypeOK, Sensible, JobInv, NEW w \in Workers, OnlyWorker(w),
           NEW k \in Jobs, OnlyRowsOf(k), \A v \in Workers \ {w} : wk[v].job # k,
           wk'[w].job \in {wk[w].job, k, None}, WorkerFits(w)', JobFits(k)'
    PROVE  JobInv'
<1>1. ASSUME NEW j \in Jobs PROVE JobFits(j)'
    BY <1>1 DEF JobFits, JobInv, OnlyRowsOf
<1>2. ASSUME NEW v \in Workers PROVE WorkerFits(v)'
    BY <1>2, OthersFit DEF JobInv, OnlyWorker, WorkerTypeOK, Sensible
<1>3. OneWorkerEach'
    BY DEF OneWorkerEach, JobInv, OnlyWorker
<1> QED
    BY <1>1, <1>2, <1>3 DEF JobInv

\* A transaction on the rows of one job that nobody executes
LEMMA RowStep ==
    ASSUME WorkerTypeOK, Sensible, JobInv, UNCHANGED wk, NEW k \in Jobs, OnlyRowsOf(k),
           \A v \in Workers : wk[v].job # k, JobFits(k)'
    PROVE  JobInv'
<1>1. ASSUME NEW j \in Jobs PROVE JobFits(j)'
    BY <1>1 DEF JobFits, JobInv, OnlyRowsOf
<1>2. ASSUME NEW v \in Workers PROVE WorkerFits(v)'
    <2>1. wk'[v] = wk[v] /\ wk[v].job \in Jobs \cup {None} /\ WorkerFits(v)
        BY DEF JobInv, WorkerTypeOK
    <2> QED
        BY <2>1, OthersFit DEF Sensible
<1>3. OneWorkerEach'
    BY DEF OneWorkerEach, JobInv
<1> QED
    BY <1>1, <1>2, <1>3 DEF JobInv

\* A step that leaves every row alone keeps what the rows say.
LEMMA RowsUnchanged ==
    ASSUME UNCHANGED rowVars, JobInv
    PROVE  /\ \A k : OnlyRowsOf(k)
           /\ \A j \in Jobs : JobFits(j)'
BY DEF rowVars, OnlyRowsOf, JobInv, JobFits

\* A worker with a job is its only worker, and the run is running.
LEMMA WorkersJob ==
    ASSUME WorkerTypeOK, JobInv, NEW w \in Workers, wk[w].pc \notin {"idle", "down"}
    PROVE  /\ wk[w].job \in Jobs /\ wk[w].job # None /\ run[wk[w].job] = "running"
           /\ \A v \in Workers \ {w} : wk[v].job # wk[w].job
           /\ WorkerFits(w) /\ JobFits(wk[w].job)
<1>1. wk[w].job # None /\ WorkerFits(w)
    BY DEF JobInv, WorkerFits, At
<1>2. wk[w].job \in Jobs /\ run[wk[w].job] = "running"
    BY <1>1 DEF WorkerTypeOK, WorkerFits
<1> QED
    BY <1>1, <1>2 DEF JobInv, OneWorkerEach

\* Nobody executes a job whose run is not running.
LEMMA NotExecuted ==
    ASSUME WorkerTypeOK, Sensible, JobInv, NEW k \in Jobs, run[k] # "running"
    PROVE  \A v \in Workers : wk[v].job # k
<1> SUFFICES ASSUME NEW v \in Workers, wk[v].job = k PROVE FALSE
    OBVIOUS
<1>1. wk[v].job # None /\ WorkerFits(v)
    BY DEF JobInv, Sensible
<1> QED
    BY <1>1 DEF WorkerFits

-----------------------------------------------------------------------------
(* The audit trail *)

\* A deployment gets a status that its life cycle allows, with an event, or nothing happens.
Audited(j) ==
    \/ UNCHANGED auditVars
    \/ \E to \in Statuses : /\ deployment[j] = "none" \/ ValidDeploymentTransition(deployment[j], to)
                            /\ RecordDeployment(j, to)

\* The rows of one job
LEMMA OneRow ==
    ASSUME RowTypeOK, AuditInv, NEW j \in Jobs, NEW from, NEW to,
           RecordDeployments({j}, from, to)
    PROVE  IF deployment[j] = from THEN RecordDeployment(j, to) ELSE UNCHANGED auditVars
<1>1. CASE deployment[j] = from
    <2>1. {k \in {j} : deployment[k] = from} = {j}
        BY <1>1
    <2>2. /\ deployment' = [k \in Jobs |-> IF k \in {j} THEN to ELSE deployment[k]]
          /\ history' = [k \in Jobs |-> IF k \in {j} THEN Append(history[k], to) ELSE history[k]]
        BY <2>1 DEF RecordDeployments
    <2>3. deployment' = [deployment EXCEPT ![j] = to] /\ history' = [history EXCEPT ![j] = Append(@, to)]
        BY <2>2 DEF RowTypeOK, AuditInv
    <2> QED
        BY <1>1, <2>3 DEF RecordDeployment
<1>2. CASE deployment[j] # from
    <2>1. {k \in {j} : deployment[k] = from} = {}
        BY <1>2
    <2>2. /\ deployment' = [k \in Jobs |-> deployment[k]]
          /\ history' = [k \in Jobs |-> history[k]]
        BY <2>1 DEF RecordDeployments
    <2> QED
        BY <1>2, <2>2 DEF auditVars, RowTypeOK, AuditInv
<1> QED
    BY <1>1, <1>2

\* Appending an allowed status lengthens the path.
LEMMA PathGrows ==
    ASSUME NEW s \in Seq(Statuses), NEW to \in Statuses,
           \A i \in 1..(Len(s) - 1) : ValidDeploymentTransition(s[i], s[i + 1]),
           s = <<>> \/ ValidDeploymentTransition(s[Len(s)], to)
    PROVE  LET t == Append(s, to) IN
           /\ t \in Seq(Statuses) /\ t # <<>> /\ t[Len(t)] = to
           /\ \A i \in 1..(Len(t) - 1) : ValidDeploymentTransition(t[i], t[i + 1])
<1> DEFINE t == Append(s, to)
<1>1. t \in Seq(Statuses) /\ Len(t) = Len(s) + 1 /\ t[Len(s) + 1] = to /\ Len(s) \in Nat
    OBVIOUS
<1>2. \A i \in 1..Len(s) : t[i] = s[i]
    OBVIOUS
<1>3. ASSUME NEW i \in 1..(Len(t) - 1) PROVE ValidDeploymentTransition(t[i], t[i + 1])
    <2>1. CASE i < Len(s)
        BY <1>1, <1>2, <2>1
    <2>2. CASE i = Len(s)
        <3>1. s # <<>> /\ t[i] = s[Len(s)] /\ t[i + 1] = to
            BY <1>1, <1>2, <2>2
        <3> QED
            BY <3>1
    <2> QED
        BY <1>1, <2>1, <2>2
<1>4. t # <<>>
    BY <1>1
<1> QED
    BY <1>1, <1>3, <1>4

\* Whoever writes to the audit trail as the life cycle allows keeps it one path.
LEMMA AuditStep ==
    ASSUME RowTypeOK, AuditInv, NEW j \in Jobs, Audited(j)
    PROVE  AuditInv' /\ deployment' \in [Jobs -> Statuses \cup {"none"}]
<1>1. CASE UNCHANGED auditVars
    BY <1>1 DEF auditVars, AuditInv, HistoryIsOnePath, RowTypeOK, ValidDeploymentTransition
<1>2. ASSUME NEW to \in Statuses, RecordDeployment(j, to),
             deployment[j] = "none" \/ ValidDeploymentTransition(deployment[j], to)
      PROVE  AuditInv' /\ deployment' \in [Jobs -> Statuses \cup {"none"}]
    <2> DEFINE s == history[j]
               t == Append(s, to)
    <2>1. /\ s \in Seq(Statuses)
          /\ deployment[j] = (IF s = <<>> THEN "none" ELSE s[Len(s)])
          /\ \A i \in 1..(Len(s) - 1) : ValidDeploymentTransition(s[i], s[i + 1])
        BY DEF AuditInv, HistoryIsOnePath
    <2>2. s = <<>> \/ ValidDeploymentTransition(s[Len(s)], to)
        <3>1. s # <<>> => s[Len(s)] \in Statuses
            BY <2>1
        <3>2. "none" \notin Statuses
            BY DEF Statuses, Terminal
        <3> QED
            BY <1>2, <2>1, <3>1, <3>2
    <2>3. /\ t \in Seq(Statuses) /\ t # <<>> /\ t[Len(t)] = to
          /\ \A i \in 1..(Len(t) - 1) : ValidDeploymentTransition(t[i], t[i + 1])
        BY <2>1, <2>2, PathGrows
    <2>4. /\ history' = [history EXCEPT ![j] = t]
          /\ deployment' = [deployment EXCEPT ![j] = to]
        BY <1>2 DEF RecordDeployment
    <2> HIDE DEF s, t
    <2>5. /\ \A k \in Jobs : /\ history'[k] = IF k = j THEN t ELSE history[k]
                             /\ deployment'[k] = IF k = j THEN to ELSE deployment[k]
          /\ history' \in [Jobs -> Seq(Statuses)]
          /\ deployment' \in [Jobs -> Statuses \cup {"none"}]
        BY <2>3, <2>4 DEF AuditInv, RowTypeOK
    <2>6. ASSUME NEW k \in Jobs
          PROVE  /\ deployment'[k] = (IF history'[k] = <<>> THEN "none" ELSE history'[k][Len(history'[k])])
                 /\ \A i \in 1..(Len(history'[k]) - 1) :
                      ValidDeploymentTransition(history'[k][i], history'[k][i + 1])
        <3>1. CASE k = j
            BY <2>3, <2>5, <3>1
        <3>2. CASE k # j
            BY <2>5, <3>2 DEF AuditInv, HistoryIsOnePath
        <3> QED
            BY <3>1, <3>2
    <2>7. HistoryIsOnePath'
        BY <2>6 DEF HistoryIsOnePath, ValidDeploymentTransition
    <2> QED
        BY <2>5, <2>7 DEF AuditInv
<1> QED
    BY <1>1, <1>2 DEF Audited

-----------------------------------------------------------------------------
(* The rows, action by action *)

RowInv == WorkerTypeOK /\ RowTypeOK /\ JobInv /\ AuditInv

\* What the transaction of a worker on its own job has to keep
LEMMA OwnStep ==
    ASSUME Sensible, RowInv, NEW w \in Workers, wk[w].pc \notin {"idle", "down"},
           NEW j \in Jobs, j = wk[w].job,
           WorkerTypeOK', OnlyWorker(w), wk'[w].job \in {j, None}, OnlyRowsOf(j), Audited(j),
           deployment' \in [Jobs -> Statuses \cup {"none"}] => RowTypeOK',
           WorkerFits(w)', JobFits(j)'
    PROVE  RowInv'
<1>1. \A v \in Workers \ {w} : wk[v].job # j
    BY WorkersJob DEF RowInv
<1>2. JobInv'
    BY <1>1, JobStep DEF RowInv
<1>3. AuditInv' /\ deployment' \in [Jobs -> Statuses \cup {"none"}]
    BY AuditStep DEF RowInv
<1> QED
    BY <1>2, <1>3 DEF RowInv

\* A worker outside executeRun fits whatever the rows are.
LEMMA OutFits ==
    ASSUME Sensible, NEW w \in Workers, NEW l \in {"idle", "down"}, Leaves(w, l)
    PROVE  WorkerFits(w)'
BY DEF Leaves, Becomes, WorkerFits, At, Preparing, Deploying

\* A step that leaves the rows alone
LEMMA QuietStep ==
    ASSUME Sensible, RowInv, NEW w \in Workers, wk[w].pc \notin {"idle", "down"},
           WorkerTypeOK', OnlyWorker(w), wk'[w].job \in {wk[w].job, None}, WorkerFits(w)',
           UNCHANGED rowVars
    PROVE  RowInv'
<1>1. PICK j \in Jobs : j = wk[w].job
    BY WorkersJob DEF RowInv
<1>2. OnlyRowsOf(j) /\ JobFits(j)'
    BY RowsUnchanged DEF RowInv
<1>3. RowTypeOK'
    BY DEF RowInv, RowTypeOK, rowVars
<1> QED
    BY <1>1, <1>2, <1>3, OwnStep DEF Audited, auditVars, rowVars

\* Leaving executeRun over unchanged rows
LEMMA QuietLeave ==
    ASSUME Sensible, RowInv, NEW w \in Workers, wk[w].pc \notin {"idle", "down"},
           NEW l \in {"idle", "down"}, Leaves(w, l), UNCHANGED rowVars
    PROVE  RowInv'
BY OutFits, QuietStep DEF Leaves, Becomes

\* Moving on over unchanged rows
LEMMA QuietMove ==
    ASSUME Sensible, RowInv, NEW w \in Workers, wk[w].pc \notin {"idle", "down"},
           NEW l \in Places \ {"idle", "down"}, NEW y, NEW t, Becomes(w, l, wk[w].job, y, t),
           UNCHANGED rowVars,
           l = "check" => job[wk[w].job] \in Terminal \cup {"queued"},
           l \in Preparing => job[wk[w].job] = "queued",
           l = "work" => job[wk[w].job] = "running",
           l = "refused" => job[wk[w].job] = "failed",
           l \in {"release", "record"} => job[wk[w].job] \in Terminal \ {"skipped"},
           l = "settle" => job[wk[w].job] \in Terminal,
           l \in Deploying => deployment[wk[w].job] = "running",
           l = "park" => y \in Reasons,
           l = "preempt" => y \in Jobs
    PROVE  RowInv'
<1>1. wk[w].job # None /\ run[wk[w].job] = "running"
    BY WorkersJob DEF RowInv
<1>2. /\ wk'[w].pc = l /\ wk'[w].job = wk[w].job /\ wk'[w].why = y
      /\ run' = run /\ job' = job /\ deployment' = deployment
    BY DEF Becomes, rowVars
<1>3. WorkerFits(w)'
    BY <1>1, <1>2 DEF WorkerFits, At
<1> QED
    BY <1>2, <1>3, QuietStep DEF Becomes

\* On the way from the claim to the job's start
LEMMA QuietPreparation ==
    ASSUME Sensible, RowInv, NEW w \in Workers, wk[w].pc \notin {"idle", "down"},
           job[wk[w].job] = "queued", NEW l \in Preparing \ {"group"}, NEW y, NEW t,
           Becomes(w, l, wk[w].job, y, t), UNCHANGED rowVars,
           l = "park" => y \in Reasons, l = "preempt" => y \in Jobs
    PROVE  RowInv'
<1>1. l \in Places \ {"idle", "down", "check", "work", "refused", "release", "record", "settle"}
    BY DEF Places, Preparing
<1>2. l \notin Deploying
    BY DEF Preparing, Deploying
<1> QED
    BY <1>1, <1>2, QuietMove

\* The claim takes a run that nobody executes.
LEMMA ClaimKeepsRows ==
    ASSUME Sensible, RowInv, NEW w \in Workers, NEW j \in Jobs, Claim(w, j)
    PROVE  RowInv'
<1>1. Becomes(w, "check", j, wk[w].why, wk[w].trust)
    BY ClaimMoves DEF RowInv
<1>2. \A v \in Workers : wk[v].job # j
    BY NotExecuted DEF RowInv, Claim
<1>3. OnlyRowsOf(j) /\ RowTypeOK' /\ UNCHANGED auditVars
    BY DEF Claim, RowInv, RowTypeOK, OnlyRowsOf, auditVars, gateVars
<1>4. JobFits(j)
    BY DEF RowInv, JobInv
<1>5. /\ run[j] = "queued" /\ run'[j] = "running" /\ job' = job /\ wait' = wait /\ command' = command
      /\ deployment' = deployment
    BY DEF Claim, RowInv, RowTypeOK, auditVars
<1>6. job[j] \in Terminal \cup {"queued"}
    BY <1>4, <1>5 DEF JobFits, RowInv, RowTypeOK
<1>7. JobFits(j)'
    BY <1>4, <1>5, <1>6 DEF JobFits, Terminal
<1>8. WorkerFits(w)'
    BY <1>1, <1>5, <1>6 DEF WorkerFits, Becomes, At, Preparing, Deploying, Sensible
<1>9. JobInv'
    BY <1>1, <1>2, <1>3, <1>7, <1>8, JobStep DEF RowInv, Becomes
<1> QED
    BY <1>1, <1>3, <1>9, AuditStep DEF RowInv, Becomes, Audited

\* executeRun skips a finished job, or cancels the job of a flagged run.
LEMMA CheckRunKeepsRows ==
    ASSUME Sensible, RowInv, NEW w \in Workers, CheckRun(w)
    PROVE  RowInv'
<1>1. At(w, "check") /\ UNCHANGED <<auditVars, policy>>
    BY DEF CheckRun, gateVars
<1>2. PICK j \in Jobs : j = wk[w].job /\ JobFits(j) /\ job[j] \in Terminal \cup {"queued"}
    BY <1>1, WorkersJob DEF RowInv, At, WorkerFits
<1>3. CASE job[j] \in Terminal /\ Goto(w, "settle") /\ UNCHANGED execVars
    <2>1. Goes(w, "settle")
        BY <1>3, GotoMoves DEF RowInv, Places
    <2> QED
        BY <1>1, <1>2, <1>3, <2>1, QuietMove DEF Goes, At, Places, Preparing, Deploying, execVars, auditVars, rowVars
<1>4. CASE job[j] \notin Terminal /\ Goto(w, "ensure") /\ UNCHANGED execVars
    <2>1. Goes(w, "ensure")
        BY <1>4, GotoMoves DEF RowInv, Places, Preparing
    <2>2. job[wk[w].job] = "queued" /\ "ensure" \in Preparing \ {"group"}
        BY <1>2, <1>4 DEF Preparing
    <2> QED
        BY <1>1, <1>4, <2>1, <2>2, QuietPreparation DEF Goes, At, execVars, auditVars, rowVars
<1>5. CASE /\ job[j] \notin Terminal
           /\ command' = [command EXCEPT ![j] = "skipped"]
           /\ job' = [job EXCEPT ![j] = "cancelled"]
           /\ run' = [run EXCEPT ![j] = "cancelled"]
           /\ Leave(w, "idle")
           /\ UNCHANGED <<flagged, wait>>
    <2>1. Leaves(w, "idle") /\ WorkerFits(w)'
        BY <1>5, LeaveMoves, OutFits DEF RowInv
    <2>2. OnlyRowsOf(j) /\ (deployment' \in [Jobs -> Statuses \cup {"none"}] => RowTypeOK')
        BY <1>1, <1>2, <1>5 DEF RowInv, RowTypeOK, OnlyRowsOf, auditVars, Terminal, Statuses
    <2>3. JobFits(j)'
        BY <1>1, <1>2, <1>5 DEF RowInv, RowTypeOK, JobFits, auditVars, Terminal
    <2> QED
        BY <1>1, <1>2, <2>1, <2>2, <2>3, OwnStep DEF Leaves, Becomes, Audited, At
<1> QED
    BY <1>2, <1>3, <1>4, <1>5 DEF CheckRun

\* The deployment row begins as queued, with an event.
LEMMA EnsureDeploymentKeepsRows ==
    ASSUME Sensible, RowInv, NEW w \in Workers, EnsureDeployment(w)
    PROVE  RowInv'
<1>1. At(w, "ensure") /\ UNCHANGED <<execVars, policy>>
    BY DEF EnsureDeployment, gateVars
<1>2. PICK j \in Jobs : j = wk[w].job /\ run[j] = "running" /\ JobFits(j) /\ job[j] = "queued"
    BY <1>1, WorkersJob DEF RowInv, At, WorkerFits, Preparing
<1>3. PICK l \in {"request", "evaluate"} : Goes(w, l)
    BY EnsureMoves DEF RowInv
<1>4. \/ UNCHANGED auditVars
      \/ deployment[j] = "none" /\ RecordDeployment(j, "queued")
    BY <1>2 DEF EnsureDeployment
<1>5. Audited(j) /\ OnlyRowsOf(j)
    BY <1>1, <1>4 DEF Audited, OnlyRowsOf, RecordDeployment, auditVars, execVars, RowInv, RowTypeOK, Statuses
<1>6. JobFits(j)'
    BY <1>1, <1>2, <1>4 DEF JobFits, RecordDeployment, auditVars, execVars, RowInv, RowTypeOK
<1>7. deployment' \in [Jobs -> Statuses \cup {"none"}] => RowTypeOK'
    BY <1>1 DEF RowInv, RowTypeOK, execVars
<1>8. WorkerFits(w)'
    BY <1>1, <1>2, <1>3 DEF WorkerFits, Goes, Becomes, At, Preparing, Deploying, execVars, Sensible
<1> QED
    BY <1>1, <1>2, <1>3, <1>5, <1>6, <1>7, <1>8, OwnStep DEF Goes, Becomes, At

\* The gate only moves the worker.
LEMMA GateKeepsRows ==
    ASSUME Sensible, RowInv, LeaseTypeOK, NEW w \in Workers,
           RequestApproval(w) \/ EvaluateAccess(w) \/ AcquireLease(w)
    PROVE  RowInv'
<1>1. wk[w].pc \in {"request", "evaluate", "acquire"} /\ UNCHANGED rowVars
    BY DEF RequestApproval, EvaluateAccess, AcquireLease, gateVars, execVars, auditVars, rowVars, At
<1>2. job[wk[w].job] = "queued" /\ wk[w].pc \notin {"idle", "down"}
    BY <1>1, WorkersJob DEF RowInv, WorkerFits, Preparing
<1>3. CASE RequestApproval(w)
    <2>1. CASE Leave(w, "down")
        BY <1>1, <1>2, <2>1, LeaveMoves, QuietLeave DEF RowInv
    <2>2. CASE Goto(w, "evaluate")
        <3>1. "evaluate" \in Preparing \ {"group"} /\ "evaluate" \in Places
            BY DEF Preparing, Places
        <3>2. Goes(w, "evaluate")
            BY <2>2, <3>1, GotoMoves DEF RowInv
        <3> QED
            BY <1>1, <1>2, <3>1, <3>2, QuietPreparation DEF Goes
    <2> QED
        BY <1>3, <2>1, <2>2 DEF RequestApproval
<1>4. CASE EvaluateAccess(w)
    <2>1. PICK l \in {"acquire", "refuse", "park"}, y \in Reasons : Becomes(w, l, wk[w].job, y, wk[w].trust)
        BY <1>4, EvaluateMoves DEF RowInv
    <2>2. l \in Preparing \ {"group"} /\ l # "preempt"
        BY DEF Preparing
    <2> QED
        BY <1>1, <1>2, <2>1, <2>2, QuietPreparation
<1>5. CASE AcquireLease(w)
    <2>1. {"start", "park", "preempt"} \subseteq Preparing \ {"group"} /\ "concurrency" \in Reasons
        BY DEF Preparing, Reasons
    <2>2. CASE Leaves(w, "down")
        BY <1>1, <1>2, <2>2, QuietLeave
    <2>3. CASE Becomes(w, "start", wk[w].job, wk[w].why, TTL)
        BY <1>1, <1>2, <2>1, <2>3, QuietPreparation
    <2>4. CASE Becomes(w, "park", wk[w].job, "concurrency", wk[w].trust)
        BY <1>1, <1>2, <2>1, <2>4, QuietPreparation
    <2>5. ASSUME NEW j \in Jobs, Becomes(w, "preempt", wk[w].job, j, wk[w].trust) PROVE RowInv'
        BY <1>1, <1>2, <2>1, <2>5, QuietPreparation
    <2> QED
        BY <1>5, <2>2, <2>3, <2>4, <2>5, AcquireMoves DEF RowInv
<1> QED
    BY <1>3, <1>4, <1>5

\* A refused job fails before its deployment does.
LEMMA RefuseKeepsRows ==
    ASSUME Sensible, RowInv, NEW w \in Workers, Refuse(w)
    PROVE  RowInv'
<1>1. At(w, "refuse") /\ Goto(w, "refused") /\ UNCHANGED <<run, wait, auditVars, policy>>
    BY DEF Refuse, gateVars
<1>2. PICK j \in Jobs : j = wk[w].job /\ run[j] = "running" /\ JobFits(j) /\ job[j] = "queued"
    BY <1>1, WorkersJob DEF RowInv, At, WorkerFits, Preparing
<1>3. command' = [command EXCEPT ![j] = "skipped"] /\ job' = [job EXCEPT ![j] = "failed"]
    BY <1>2 DEF Refuse
<1>4. Goes(w, "refused")
    BY <1>1, GotoMoves DEF RowInv, Places
<1>5. Audited(j) /\ OnlyRowsOf(j) /\ RowTypeOK'
    BY <1>1, <1>3 DEF Audited, OnlyRowsOf, auditVars, RowInv, RowTypeOK, Statuses, Terminal
<1>6. JobFits(j)' /\ job'[j] = "failed"
    BY <1>1, <1>2, <1>3 DEF JobFits, auditVars, RowInv, RowTypeOK
<1>7. WorkerFits(w)'
    BY <1>1, <1>2, <1>4, <1>6 DEF WorkerFits, Goes, Becomes, At, Preparing, Deploying, Sensible
<1> QED
    BY <1>1, <1>2, <1>4, <1>5, <1>6, <1>7, OwnStep DEF Goes, Becomes, At

\* Job, run and wait row change together.
LEMMA ParkKeepsRows ==
    ASSUME Sensible, RowInv, NEW w \in Workers, Park(w)
    PROVE  RowInv'
<1>1. At(w, "park") /\ Leave(w, "idle") /\ UNCHANGED <<command, auditVars, policy>>
    BY DEF Park, gateVars
<1>2. PICK j \in Jobs : j = wk[w].job /\ JobFits(j) /\ job[j] = "queued" /\ wk[w].why \in Reasons
    BY <1>1, WorkersJob DEF RowInv, At, WorkerFits, Preparing
<1>3. /\ job' = [job EXCEPT ![j] = "waiting"] /\ run' = [run EXCEPT ![j] = "waiting"]
      /\ wait' = [wait EXCEPT ![j] = wk[w].why]
    BY <1>2 DEF Park
<1>4. Leaves(w, "idle") /\ WorkerFits(w)'
    BY <1>1, LeaveMoves, OutFits DEF RowInv
<1>5. Audited(j) /\ OnlyRowsOf(j) /\ RowTypeOK'
    BY <1>1, <1>2, <1>3 DEF Audited, OnlyRowsOf, auditVars, RowInv, RowTypeOK
<1>6. JobFits(j)'
    BY <1>1, <1>2, <1>3 DEF JobFits, auditVars, RowInv, RowTypeOK, Reasons
<1> QED
    BY <1>1, <1>2, <1>4, <1>5, <1>6, OwnStep DEF Leaves, Becomes, At

\* Failing, starting and ending the deployment of an unchanged job
LEMMA DeploymentKeepsRows ==
    ASSUME Sensible, RowInv, NEW w \in Workers, wk[w].pc \notin {"idle", "down"}, NEW to \in Statuses,
           RecordDeployment(wk[w].job, to), ValidDeploymentTransition(deployment[wk[w].job], to),
           NEW l \in Places, Goto(w, l), UNCHANGED <<execVars, policy>>,
           \/ l = "settle" /\ to = job[wk[w].job] /\ to \in {"succeeded", "failed", "cancelled"}
           \/ l = "group" /\ to = "running" /\ job[wk[w].job] = "queued"
    PROVE  RowInv'
<1>1. Goes(w, l)
    BY GotoMoves DEF RowInv
<1>2. PICK j \in Jobs : j = wk[w].job /\ run[j] = "running" /\ JobFits(j)
    BY WorkersJob DEF RowInv
<1>3. Audited(j) /\ OnlyRowsOf(j) /\ deployment'[j] = to
    BY <1>2 DEF Audited, OnlyRowsOf, RecordDeployment, execVars, RowInv, RowTypeOK
<1>4. deployment' \in [Jobs -> Statuses \cup {"none"}] => RowTypeOK'
    BY DEF RowInv, RowTypeOK, execVars
<1>5. JobFits(j)'
    BY <1>2, <1>3 DEF JobFits, execVars
<1>6. WorkerFits(w)'
    BY <1>1, <1>2, <1>3 DEF WorkerFits, Goes, Becomes, At, Preparing, Deploying, execVars, Sensible, Terminal
<1> QED
    BY <1>1, <1>2, <1>3, <1>4, <1>5, <1>6, OwnStep DEF Goes, Becomes

\* A deployment begins and ends as its job allows.
LEMMA AuditKeepsRows ==
    ASSUME Sensible, RowInv, NEW w \in Workers, FailDeployment(w) \/ StartDeployment(w) \/ RecordOutcome(w)
    PROVE  RowInv'
<1>1. wk[w].pc \in {"refused", "start", "record"} /\ UNCHANGED <<execVars, policy>>
    BY DEF FailDeployment, StartDeployment, RecordOutcome, gateVars, At
<1>2. WorkerFits(w) /\ wk[w].pc \notin {"idle", "down"} /\ {"settle", "group"} \subseteq Places
    BY <1>1, WorkersJob DEF RowInv, Places, Preparing
<1>3. CASE Leave(w, "down") /\ UNCHANGED auditVars
    BY <1>1, <1>2, <1>3, LeaveMoves, QuietLeave DEF RowInv, execVars, auditVars, rowVars
<1>4. CASE FailDeployment(w) /\ ~(Leave(w, "down") /\ UNCHANGED auditVars)
    <2>1. job[wk[w].job] = "failed"
        BY <1>2, <1>4 DEF FailDeployment, WorkerFits
    <2>2. /\ RecordDeployment(wk[w].job, "failed") /\ Goto(w, "settle")
          /\ ValidDeploymentTransition(deployment[wk[w].job], "failed")
        BY <1>4 DEF FailDeployment
    <2>3. "failed" \in Statuses
        BY DEF Statuses, Terminal
    <2> QED
        BY <1>1, <1>2, <2>1, <2>2, <2>3, DeploymentKeepsRows
<1>5. CASE RecordOutcome(w) /\ ~(Leave(w, "down") /\ UNCHANGED auditVars)
    <2>1. job[wk[w].job] \in {"succeeded", "failed", "cancelled"}
        BY <1>2, <1>5 DEF RecordOutcome, WorkerFits, Terminal
    <2>2. /\ RecordDeployment(wk[w].job, job[wk[w].job]) /\ Goto(w, "settle")
          /\ ValidDeploymentTransition(deployment[wk[w].job], job[wk[w].job])
        BY <1>5 DEF RecordOutcome, Outcome
    <2>3. job[wk[w].job] \in Statuses
        BY <2>1 DEF Statuses, Terminal
    <2> QED
        BY <1>1, <1>2, <2>1, <2>2, <2>3, DeploymentKeepsRows
<1>6. CASE StartDeployment(w) /\ ~(Leave(w, "down") /\ UNCHANGED auditVars)
    <2>1. job[wk[w].job] = "queued" /\ Goto(w, "group")
        BY <1>2, <1>6 DEF StartDeployment, WorkerFits, At, Preparing
    <2>2. CASE deployment[wk[w].job] = "queued" /\ RecordDeployment(wk[w].job, "running")
        <3>1. "running" \in Statuses /\ ValidDeploymentTransition(deployment[wk[w].job], "running")
            BY <2>2 DEF Statuses, ValidDeploymentTransition
        <3> QED
            BY <1>1, <1>2, <2>1, <2>2, <3>1, DeploymentKeepsRows
    <2>3. CASE deployment[wk[w].job] = "running" /\ UNCHANGED auditVars
        <3>1. Goes(w, "group")
            BY <1>2, <2>1, GotoMoves DEF RowInv
        <3>2. "group" \in Places \ {"idle", "down", "check", "work", "refused", "release", "record", "settle",
                                    "park", "preempt"}
            BY <1>2
        <3> QED
            BY <1>1, <1>2, <2>1, <2>3, <3>1, <3>2, QuietMove DEF Goes, execVars, auditVars, rowVars
    <2> QED
        BY <1>6, <2>2, <2>3 DEF StartDeployment
<1> QED
    BY <1>3, <1>4, <1>5, <1>6 DEF FailDeployment, StartDeployment, RecordOutcome

\* The job runs while its deployment does, and ends before it.
LEMMA JobKeepsRows ==
    ASSUME Sensible, RowInv, NEW w \in Workers,
           \/ EnterGroup(w)
           \/ StartCommand(w)
           \/ \E result \in Terminal \ {"skipped"} : FinishCommand(w, result)
    PROVE  RowInv'
<1>1. wk[w].pc \in {"group", "work"} /\ UNCHANGED <<run, wait, auditVars, policy>>
    BY DEF EnterGroup, StartCommand, FinishCommand, gateVars, At
<1>2. PICK j \in Jobs :
         /\ j = wk[w].job /\ run[j] = "running" /\ JobFits(j) /\ deployment[j] = "running"
         /\ job[j] \in {"queued", "running"}
    BY <1>1, WorkersJob DEF RowInv, WorkerFits, Preparing, Deploying, At
<1>3. PICK l \in {"work", "release"}, s \in {"running", "succeeded", "failed", "cancelled"}, c \in Statuses :
         /\ Goto(w, l) /\ job' = [job EXCEPT ![j] = s] /\ command' = [command EXCEPT ![j] = c]
         /\ l = "work" => s = "running"
         /\ l = "release" => s # "running" /\ c # "running"
    <2>1. CASE EnterGroup(w)
        <3>1. command[j] \in Statuses /\ command' = [command EXCEPT ![j] = command[j]]
            BY <1>2, <2>1 DEF EnterGroup, RowInv, RowTypeOK
        <3> QED
            BY <1>2, <2>1, <3>1 DEF EnterGroup
    <2>2. CASE StartCommand(w)
        <3>1. job[j] = "running"
            BY <1>2, <2>2, WorkersJob DEF StartCommand, RowInv, WorkerFits, At
        <3>2. CASE flagged[j]
            BY <1>2, <2>2, <3>2 DEF StartCommand, Statuses, Terminal
        <3>3. CASE ~flagged[j]
            BY <1>2, <2>2, <3>1, <3>3 DEF StartCommand, Statuses
        <3> QED
            BY <3>2, <3>3
    <2>3. ASSUME NEW result \in Terminal \ {"skipped"}, FinishCommand(w, result)
          PROVE  /\ Goto(w, "release") /\ job' = [job EXCEPT ![j] = result]
                 /\ command' = [command EXCEPT ![j] = result]
                 /\ result \in Statuses /\ result \in {"succeeded", "failed", "cancelled"}
        BY <1>2, <2>3 DEF FinishCommand, Statuses, Terminal
    <2> QED
        BY <2>1, <2>2, <2>3
<1>4. Goes(w, l)
    BY <1>3, GotoMoves DEF RowInv, Places, Deploying
<1>5. Audited(j) /\ OnlyRowsOf(j) /\ RowTypeOK'
    BY <1>1, <1>3 DEF Audited, OnlyRowsOf, auditVars, RowInv, RowTypeOK, Terminal
<1>6. /\ run'[j] = "running" /\ job'[j] = s /\ command'[j] = c
      /\ wait'[j] = wait[j] /\ deployment'[j] = "running"
    BY <1>1, <1>2, <1>3 DEF auditVars, RowInv, RowTypeOK
<1>7. JobFits(j)'
    BY <1>2, <1>3, <1>6 DEF JobFits
<1>8. WorkerFits(w)'
    BY <1>2, <1>3, <1>4, <1>6 DEF WorkerFits, Goes, Becomes, At, Preparing, Sensible, Terminal
<1> QED
    BY <1>1, <1>2, <1>4, <1>5, <1>7, <1>8, OwnStep DEF Goes, Becomes

\* Renewals, losses, releases and crashes leave the rows alone.
LEMMA HeartbeatKeepsRows ==
    ASSUME Sensible, RowInv, NEW w \in Workers,
           RenewLease(w) \/ LoseLease(w) \/ ReleaseLease(w) \/ Crash(w)
    PROVE  RowInv'
<1>1. UNCHANGED rowVars /\ wk[w].pc \notin {"idle", "down"}
    BY DEF RenewLease, LoseLease, ReleaseLease, Crash, gateVars, execVars, auditVars, rowVars, At
<1>2. WorkerFits(w)
    BY <1>1, WorkersJob DEF RowInv
<1>3. CASE Leave(w, "down")
    BY <1>1, <1>3, LeaveMoves, QuietLeave DEF RowInv
<1>4. CASE RenewLease(w)
    <2>1. /\ "work" \in Places \ ({"idle", "down", "check", "refused", "release", "record", "settle",
                                 "park", "preempt"} \cup Preparing)
          /\ job[wk[w].job] = "running" /\ deployment[wk[w].job] = "running"
        BY <1>2, <1>4 DEF RenewLease, WorkerFits, At, Places, Preparing, Deploying
    <2> QED
        BY <1>1, <1>4, <2>1, RenewMoves, QuietMove DEF RowInv
<1>5. CASE ReleaseLease(w) /\ ~Leave(w, "down")
    <2>1. /\ "record" \in Places \ ({"idle", "down", "check", "refused", "work", "settle",
                                   "park", "preempt"} \cup Preparing)
          /\ job[wk[w].job] \in Terminal \ {"skipped"} /\ deployment[wk[w].job] = "running"
        BY <1>2, <1>5 DEF ReleaseLease, WorkerFits, At, Places, Preparing, Deploying
    <2>2. wk' = [wk EXCEPT ![w].pc = "record", ![w].trust = 0] /\ 0 \in 0..TTL
        BY <1>5 DEF ReleaseLease, Sensible
    <2>3. Becomes(w, "record", wk[w].job, wk[w].why, 0)
        BY <2>1, <2>2, TrustMoves DEF RowInv
    <2> QED
        BY <1>1, <2>1, <2>3, QuietMove
<1> QED
    BY <1>3, <1>4, <1>5 DEF LoseLease, Crash

\* The run is decided when its job has ended.
LEMMA SettleKeepsRows ==
    ASSUME Sensible, RowInv, NEW w \in Workers, Settle(w)
    PROVE  RowInv'
<1>1. At(w, "settle") /\ Leave(w, "idle") /\ UNCHANGED <<job, command, wait, auditVars, policy>>
    BY DEF Settle, gateVars
<1>2. PICK j \in Jobs : j = wk[w].job /\ JobFits(j) /\ job[j] \in Terminal
    BY <1>1, WorkersJob DEF RowInv, At, WorkerFits
<1>3. PICK r \in {"failed", "cancelled", "succeeded"} : run' = [run EXCEPT ![j] = r]
    BY <1>2 DEF Settle
<1>4. Leaves(w, "idle") /\ WorkerFits(w)'
    BY <1>1, LeaveMoves, OutFits DEF RowInv
<1>5. Audited(j) /\ OnlyRowsOf(j) /\ RowTypeOK'
    BY <1>1, <1>3 DEF Audited, OnlyRowsOf, auditVars, RowInv, RowTypeOK, Terminal
<1>6. run'[j] = r
    BY <1>3 DEF RowInv, RowTypeOK
<1>7. JobFits(j)'
    BY <1>1, <1>2, <1>6 DEF JobFits, auditVars, Terminal
<1> QED
    BY <1>1, <1>2, <1>4, <1>5, <1>7, OwnStep DEF Leaves, Becomes, At

\* A restarted worker has no job.
LEMMA RestartKeepsRows ==
    ASSUME Sensible, RowInv, NEW w \in Workers, Restart(w)
    PROVE  RowInv' /\ Becomes(w, "idle", None, wk[w].why, wk[w].trust)
<1>1. UNCHANGED rowVars /\ wk[w].job = None
    BY DEF Restart, gateVars, execVars, auditVars, rowVars, RowInv, JobInv, WorkerFits
<1>2. Goes(w, "idle")
    BY GotoMoves DEF Restart, RowInv, Places
<1>3. WorkerFits(w)'
    BY <1>1, <1>2 DEF WorkerFits, Goes, Becomes, At, Preparing, Deploying
<1>4. RowTypeOK'
    BY <1>1 DEF RowInv, RowTypeOK, rowVars
<1>5. JobInv'
    <2>1. ASSUME NEW v \in Workers PROVE WorkerFits(v)'
        <3>1. CASE v # w
            <4>1. WorkerFits(v) /\ wk'[v] = wk[v]
                BY <1>2, <2>1, <3>1 DEF RowInv, JobInv, Goes, Becomes, OnlyWorker
            <4> QED
                BY <1>1, <4>1 DEF WorkerFits, At, rowVars
        <3> QED
            BY <1>3, <3>1
    <2>2. OneWorkerEach'
        BY <1>1, <1>2 DEF OneWorkerEach, RowInv, JobInv, Goes, Becomes, OnlyWorker
    <2> QED
        BY <1>1, <2>1, <2>2, RowsUnchanged DEF RowInv, JobInv
<1>6. AuditInv'
    BY <1>1 DEF RowInv, AuditInv, rowVars, HistoryIsOnePath, ValidDeploymentTransition
<1> QED
    BY <1>1, <1>2, <1>4, <1>5, <1>6 DEF RowInv, Goes, Becomes

\* A transaction of the store, of the pass or of an operator, on a run nobody executes
LEMMA StoreStep ==
    ASSUME Sensible, RowInv, UNCHANGED wk, NEW j \in Jobs, OnlyRowsOf(j), Audited(j),
           \A v \in Workers : wk[v].job # j,
           deployment' \in [Jobs -> Statuses \cup {"none"}] => RowTypeOK', JobFits(j)'
    PROVE  RowInv'
<1>1. WorkerTypeOK'
    BY DEF RowInv, WorkerTypeOK
<1>2. JobInv'
    BY RowStep DEF RowInv
<1>3. AuditInv' /\ deployment' \in [Jobs -> Statuses \cup {"none"}]
    BY AuditStep DEF RowInv
<1> QED
    BY <1>1, <1>2, <1>3 DEF RowInv

\* Nothing happens to the rows.
LEMMA RowsStutter ==
    ASSUME RowInv, UNCHANGED <<rowVars, wk>>
    PROVE  RowInv'
<1>1. WorkerTypeOK' /\ RowTypeOK'
    BY DEF RowInv, WorkerTypeOK, RowTypeOK, rowVars
<1>2. JobInv'
    <2>1. ASSUME NEW v \in Workers PROVE WorkerFits(v)'
        <3>1. WorkerFits(v)
            BY DEF RowInv, JobInv
        <3> QED
            BY <3>1 DEF WorkerFits, At, rowVars
    <2> QED
        BY <2>1, RowsUnchanged DEF RowInv, JobInv, OneWorkerEach
<1>3. AuditInv'
    BY DEF RowInv, AuditInv, rowVars, HistoryIsOnePath, ValidDeploymentTransition
<1> QED
    BY <1>1, <1>2, <1>3 DEF RowInv

\* Recovery fails the run with its command, or queues it again.
LEMMA RecoverKeepsRows ==
    ASSUME Sensible, RowInv, NEW j \in Jobs, RecoverRun(j)
    PROVE  RowInv'
<1>1. /\ run[j] = "running" /\ JobFits(j) /\ (\A v \in Workers : wk[v].job # j)
      /\ UNCHANGED <<wait, policy, wk>>
    BY DEF RecoverRun, Executed, gateVars, workerVars, RowInv, JobInv
<1>2. CASE command[j] = "running"
    <2>1. /\ run' = [run EXCEPT ![j] = "failed"]
          /\ job' = [job EXCEPT ![j] = "failed"]
          /\ command' = [command EXCEPT ![j] = "failed"]
          /\ RecordDeployments({j}, "running", "failed")
        BY <1>2 DEF RecoverRun
    <2>2. job[j] = "running"
        BY <1>1, <1>2 DEF JobFits
    <2>3. IF deployment[j] = "running" THEN RecordDeployment(j, "failed") ELSE UNCHANGED auditVars
        BY <2>1, OneRow DEF RowInv
    <2>4. Audited(j) /\ OnlyRowsOf(j)
        BY <1>1, <2>1, <2>3 DEF Audited, OnlyRowsOf, RecordDeployment, auditVars, RowInv, RowTypeOK,
           ValidDeploymentTransition, Statuses, Terminal
    <2>5. deployment' \in [Jobs -> Statuses \cup {"none"}] => RowTypeOK'
        BY <1>1, <2>1 DEF RowInv, RowTypeOK, Statuses, Terminal
    <2>6. /\ run'[j] = "failed" /\ job'[j] = "failed" /\ command'[j] = "failed" /\ wait'[j] = wait[j]
          /\ deployment'[j] = IF deployment[j] = "running" THEN "failed" ELSE deployment[j]
        BY <1>1, <2>1, <2>3 DEF RowInv, RowTypeOK, RecordDeployment, auditVars
    <2>7. JobFits(j)'
        BY <1>1, <2>2, <2>6 DEF JobFits
    <2> QED
        BY <1>1, <2>4, <2>5, <2>7, StoreStep
<1>3. CASE command[j] # "running"
    <2>1. /\ run' = [run EXCEPT ![j] = "queued"]
          /\ job' = [job EXCEPT ![j] = IF @ = "running" THEN "queued" ELSE @]
          /\ UNCHANGED <<command, auditVars>>
        BY <1>3 DEF RecoverRun
    <2>2. Audited(j) /\ OnlyRowsOf(j) /\ RowTypeOK'
        BY <1>1, <2>1 DEF Audited, OnlyRowsOf, auditVars, RowInv, RowTypeOK
    <2>3. /\ run'[j] = "queued" /\ job'[j] = IF job[j] = "running" THEN "queued" ELSE job[j]
          /\ command'[j] = command[j] /\ wait'[j] = wait[j] /\ deployment'[j] = deployment[j]
        BY <1>1, <2>1 DEF RowInv, RowTypeOK, auditVars
    <2>4. JobFits(j)'
        BY <1>1, <1>3, <2>3 DEF JobFits
    <2> QED
        BY <1>1, <2>2, <2>4, StoreStep
<1> QED
    BY <1>2, <1>3

\* A resumed job is queued with its run.
LEMMA ResumeKeepsRows ==
    ASSUME Sensible, RowInv, NEW j \in Jobs, ResumeWaitingJob(j)
    PROVE  RowInv'
<1>1. wait[j] # "none" /\ JobFits(j) /\ UNCHANGED <<command, auditVars, policy, wk, flagged>>
    BY DEF ResumeWaitingJob, workerVars, RowInv, JobInv
<1>2. run[j] = "waiting" /\ job[j] = "waiting" /\ \A v \in Workers : wk[v].job # j
    BY <1>1, NotExecuted DEF JobFits, RowInv
<1>3. CASE UNCHANGED <<wait, job, run>>
    BY <1>1, <1>3, RowsStutter DEF auditVars, rowVars
<1>4. CASE /\ wait' = [wait EXCEPT ![j] = "none"]
           /\ job' = [job EXCEPT ![j] = "queued"]
           /\ run' = [run EXCEPT ![j] = "queued"]
    <2>1. Audited(j) /\ OnlyRowsOf(j) /\ RowTypeOK'
        BY <1>1, <1>4 DEF Audited, OnlyRowsOf, auditVars, RowInv, RowTypeOK
    <2>2. /\ run'[j] = "queued" /\ job'[j] = "queued" /\ wait'[j] = "none"
          /\ command'[j] = command[j] /\ deployment'[j] = deployment[j]
        BY <1>1, <1>4 DEF RowInv, RowTypeOK, auditVars
    <2>3. JobFits(j)'
        BY <1>1, <1>2, <2>2 DEF JobFits
    <2> QED
        BY <1>1, <1>2, <2>1, <2>3, StoreStep
<1> QED
    BY <1>3, <1>4 DEF ResumeWaitingJob

\* A new run is queued.
LEMMA EnqueueKeepsRows ==
    ASSUME Sensible, RowInv, NEW j \in Jobs, Enqueue(j)
    PROVE  RowInv'
<1>1. /\ run[j] = "absent" /\ run' = [run EXCEPT ![j] = "queued"] /\ JobFits(j)
      /\ UNCHANGED <<job, command, wait, auditVars, policy, wk>>
    BY DEF Enqueue, workerVars, RowInv, JobInv
<1>2. \A v \in Workers : wk[v].job # j
    BY <1>1, NotExecuted DEF RowInv
<1>3. Audited(j) /\ OnlyRowsOf(j) /\ RowTypeOK'
    BY <1>1 DEF Audited, OnlyRowsOf, auditVars, RowInv, RowTypeOK
<1>4. run'[j] = "queued"
    BY <1>1 DEF RowInv, RowTypeOK
<1>5. JobFits(j)'
    BY <1>1, <1>4 DEF JobFits, auditVars
<1> QED
    BY <1>1, <1>2, <1>3, <1>5, StoreStep

\* What a request for cancellation does to the rows
LEMMA CancellationMoves ==
    ASSUME Sensible, RowInv, NEW j \in Jobs, RequestRunCancellation(j), UNCHANGED policy
    PROVE  \/ UNCHANGED rowVars
           \/ /\ run[j] # "running" /\ OnlyRowsOf(j) /\ Audited(j) /\ JobFits(j)'
              /\ deployment' \in [Jobs -> Statuses \cup {"none"}] => RowTypeOK'
<1> SUFFICES ASSUME ~UNCHANGED rowVars
             PROVE  /\ run[j] # "running" /\ OnlyRowsOf(j) /\ Audited(j) /\ JobFits(j)'
                    /\ deployment' \in [Jobs -> Statuses \cup {"none"}] => RowTypeOK'
    OBVIOUS
<1>1. /\ run[j] \in {"queued", "waiting"} /\ JobFits(j)
      /\ run' = [run EXCEPT ![j] = "cancelled"]
      /\ job' = [job EXCEPT ![j] = IF @ \in {"queued", "waiting"} THEN "cancelled" ELSE @]
      /\ command' = [command EXCEPT ![j] = IF @ = "queued" THEN "skipped" ELSE @]
      /\ wait' = [wait EXCEPT ![j] = "none"]
      /\ RecordDeployments({j}, "queued", "cancelled")
    BY DEF RequestRunCancellation, RowInv, JobInv, auditVars, rowVars
<1>2. IF deployment[j] = "queued" THEN RecordDeployment(j, "cancelled") ELSE UNCHANGED auditVars
    BY <1>1, OneRow DEF RowInv
<1>3. Audited(j) /\ OnlyRowsOf(j)
    BY <1>1, <1>2 DEF Audited, OnlyRowsOf, RecordDeployment, auditVars, RowInv, RowTypeOK,
       ValidDeploymentTransition, Statuses, Terminal
<1>4. deployment' \in [Jobs -> Statuses \cup {"none"}] => RowTypeOK'
    BY <1>1 DEF RowInv, RowTypeOK, Statuses, Terminal
<1>5. /\ run'[j] = "cancelled" /\ wait'[j] = "none"
      /\ job'[j] = IF job[j] \in {"queued", "waiting"} THEN "cancelled" ELSE job[j]
      /\ command'[j] = IF command[j] = "queued" THEN "skipped" ELSE command[j]
      /\ deployment'[j] = IF deployment[j] = "queued" THEN "cancelled" ELSE deployment[j]
    BY <1>1, <1>2 DEF RowInv, RowTypeOK, RecordDeployment, auditVars
<1>6. JobFits(j)'
    BY <1>1, <1>5 DEF JobFits
<1> QED
    BY <1>1, <1>3, <1>4, <1>6

\* An operator's request changes the rows of a run that is not executed, or a flag.
LEMMA CancelKeepsRows ==
    ASSUME Sensible, RowInv, NEW j \in Jobs, CancelByOperator(j)
    PROVE  RowInv'
<1>1. RequestRunCancellation(j) /\ UNCHANGED <<policy, wk>>
    BY DEF CancelByOperator, gateVars, workerVars
<1>2. CASE UNCHANGED rowVars
    BY <1>1, <1>2, RowsStutter
<1>3. CASE ~UNCHANGED rowVars
    <2>1. /\ run[j] # "running" /\ OnlyRowsOf(j) /\ Audited(j) /\ JobFits(j)'
          /\ deployment' \in [Jobs -> Statuses \cup {"none"}] => RowTypeOK'
        BY <1>1, <1>3, CancellationMoves
    <2> QED
        BY <1>1, <2>1, NotExecuted, StoreStep DEF RowInv
<1> QED
    BY <1>2, <1>3

\* The holder is asked to cancel, then the worker pauses its own job.
LEMMA PreemptMoves ==
    ASSUME WorkerTypeOK, NEW w \in Workers, Preempt(w)
    PROVE  Becomes(w, "park", wk[w].job, "concurrency", wk[w].trust)
<1>1. "park" \in Places /\ "concurrency" \in Reasons
    BY DEF Places, Preparing, Reasons
<1> QED
    BY <1>1, WhyMoves DEF Preempt

\* The request of a preempting worker concerns the run of another job.
LEMMA PreemptKeepsRows ==
    ASSUME Sensible, RowInv, NEW w \in Workers, Preempt(w)
    PROVE  RowInv'
<1>1. Becomes(w, "park", wk[w].job, "concurrency", wk[w].trust) /\ UNCHANGED policy
    BY PreemptMoves DEF Preempt, gateVars, RowInv
<1>2. /\ wk[w].pc \notin {"idle", "down"} /\ wk[w].why \in Jobs
      /\ wk[w].job \in Jobs /\ wk[w].job # None /\ run[wk[w].job] = "running" /\ job[wk[w].job] = "queued"
    BY WorkersJob DEF Preempt, At, WorkerFits, RowInv, Preparing
<1>3. CASE UNCHANGED rowVars
    <2>1. "park" \in Preparing \ {"group"} /\ "concurrency" \in Reasons
        BY DEF Preparing, Reasons
    <2> QED
        BY <1>1, <1>2, <1>3, <2>1, QuietPreparation
<1>4. CASE ~UNCHANGED rowVars
    <2>1. PICK k \in Jobs : k = wk[w].why
        BY <1>2
    <2>2. RequestRunCancellation(k)
        BY <1>1, <1>4, <2>1 DEF Preempt, execVars, auditVars, rowVars
    <2>3. /\ run[k] # "running" /\ OnlyRowsOf(k) /\ Audited(k) /\ JobFits(k)'
          /\ deployment' \in [Jobs -> Statuses \cup {"none"}] => RowTypeOK'
        BY <1>1, <1>4, <2>2, CancellationMoves
    <2>4. /\ run'[wk[w].job] = "running" /\ job'[wk[w].job] = "queued"
        BY <1>2, <2>3 DEF OnlyRowsOf
    <2>5. WorkerFits(w)'
        BY <1>1, <1>2, <2>4 DEF WorkerFits, Becomes, At, Preparing, Deploying, Reasons
    <2>6. JobInv'
        BY <1>1, <2>3, <2>5, NotExecuted, JobStep DEF RowInv, Becomes
    <2> QED
        BY <1>1, <2>3, <2>6, AuditStep DEF RowInv, Becomes
<1> QED
    BY <1>3, <1>4

\* Time passes for every worker alike.
LEMMA TickMoves ==
    ASSUME WorkerTypeOK, Sensible, Tick
    PROVE  /\ WorkerTypeOK'
           /\ \A w \in Workers : /\ wk'[w].pc = wk[w].pc /\ wk'[w].job = wk[w].job /\ wk'[w].why = wk[w].why
                                 /\ wk'[w].trust = Less(wk[w].trust)
<1> DEFINE Entries == [pc : Places, job : Jobs \cup {None},
                       preempts : {p.cancelInProgress : p \in Policies} \cup {FALSE},
                       why : Jobs \cup Reasons \cup {"none"}, trust : 0..TTL]
<1>1. ASSUME NEW e \in Entries, NEW n \in 0..TTL
      PROVE  LET f == [e EXCEPT !.trust = n]
             IN  f \in Entries /\ f.pc = e.pc /\ f.job = e.job /\ f.why = e.why /\ f.trust = n
    OBVIOUS
<1>2. \A w \in Workers : wk[w] \in Entries /\ wk[w].trust \in 0..TTL
    BY DEF WorkerTypeOK
<1>3. \A w \in Workers : Less(wk[w].trust) \in 0..TTL
    <2>1. ASSUME NEW n \in 0..TTL PROVE Less(n) \in 0..TTL
        BY DEF Less, Sensible
    <2> QED
        BY <1>2, <2>1
<1> HIDE DEF Entries
<1>4. \A w \in Workers : LET f == [wk[w] EXCEPT !.trust = Less(wk[w].trust)]
                         IN  /\ f \in Entries /\ f.pc = wk[w].pc /\ f.job = wk[w].job /\ f.why = wk[w].why
                             /\ f.trust = Less(wk[w].trust)
    BY <1>1, <1>2, <1>3
<1>5. wk' = [w \in Workers |-> [wk[w] EXCEPT !.trust = Less(wk[w].trust)]]
    BY DEF Tick
<1>6. wk' \in [Workers -> Entries]
    BY <1>4, <1>5
<1> QED
    BY <1>4, <1>5, <1>6 DEF WorkerTypeOK, Entries

\* Time changes no row.
LEMMA TickKeepsRows ==
    ASSUME Sensible, RowInv, Tick
    PROVE  RowInv'
<1>1. UNCHANGED rowVars
    BY DEF Tick, execVars, auditVars, rowVars
<1>2. RowTypeOK' /\ AuditInv'
    BY <1>1 DEF RowInv, RowTypeOK, AuditInv, rowVars, HistoryIsOnePath, ValidDeploymentTransition
<1>3. ASSUME NEW v \in Workers PROVE WorkerFits(v)'
    <2>1. WorkerFits(v) /\ wk'[v].pc = wk[v].pc /\ wk'[v].job = wk[v].job /\ wk'[v].why = wk[v].why
        BY TickMoves DEF RowInv, JobInv
    <2> QED
        BY <1>1, <2>1 DEF WorkerFits, At, rowVars
<1>4. OneWorkerEach'
    BY TickMoves DEF RowInv, JobInv, OneWorkerEach
<1> QED
    BY <1>1, <1>2, <1>3, <1>4, TickMoves, RowsUnchanged DEF RowInv, JobInv

\* A policy changes no row but its own.
LEMMA PolicyKeepsRows ==
    ASSUME Sensible, RowInv, NEW p \in Policies, UpsertEnvironment(p)
    PROVE  RowInv'
<1>1. UNCHANGED <<run, job, command, wait, deployment, history, wk>> /\ policy' = p
    BY DEF UpsertEnvironment, execVars, auditVars, workerVars
<1>2. RowTypeOK' /\ AuditInv'
    BY <1>1 DEF RowInv, RowTypeOK, AuditInv, HistoryIsOnePath, ValidDeploymentTransition
<1>3. ASSUME NEW v \in Workers PROVE WorkerFits(v)'
    <2>1. WorkerFits(v)
        BY DEF RowInv, JobInv
    <2> QED
        BY <1>1, <2>1 DEF WorkerFits, At
<1>4. \A j \in Jobs : JobFits(j)'
    BY <1>1 DEF RowInv, JobInv, JobFits
<1>5. WorkerTypeOK'
    BY <1>1 DEF RowInv, WorkerTypeOK
<1> QED
    BY <1>1, <1>2, <1>3, <1>4, <1>5 DEF RowInv, JobInv, OneWorkerEach

\* The rows of jobs, deployments and events, over every step
LEMMA RowsStep ==
    ASSUME Sensible, RowInv, LeaseTypeOK, [Next]_vars
    PROVE  RowInv'
<1>1. ASSUME NEW w \in Workers, WorkerStep(w) \/ RenewLease(w) \/ Restart(w) \/ Crash(w)
      PROVE  RowInv'
    BY <1>1, CheckRunKeepsRows, EnsureDeploymentKeepsRows, GateKeepsRows, RefuseKeepsRows, ParkKeepsRows,
       PreemptKeepsRows, AuditKeepsRows, JobKeepsRows, HeartbeatKeepsRows, SettleKeepsRows, RestartKeepsRows
       DEF WorkerStep
<1>2. ASSUME NEW w \in Workers, NEW j \in Jobs, Claim(w, j) PROVE RowInv'
    BY <1>2, ClaimKeepsRows
<1>3. ASSUME NEW w \in Workers, NEW result \in Terminal \ {"skipped"}, FinishCommand(w, result) PROVE RowInv'
    BY <1>3, JobKeepsRows
<1>4. ASSUME NEW j \in Jobs, RecoverRun(j) \/ ResumeWaitingJob(j) \/ Enqueue(j) \/ CancelByOperator(j)
      PROVE  RowInv'
    BY <1>4, RecoverKeepsRows, ResumeKeepsRows, EnqueueKeepsRows, CancelKeepsRows
<1>5. ASSUME NEW j \in Jobs, NEW d \in {"approved", "rejected"}, DecideEnvironmentApproval(j, d)
      PROVE  RowInv'
    BY <1>5, RowsStutter DEF DecideEnvironmentApproval, execVars, auditVars, workerVars, rowVars
<1>6. ASSUME NEW p \in Policies, UpsertEnvironment(p) PROVE RowInv'
    BY <1>6, PolicyKeepsRows
<1>7. CASE GroupChanges \/ UNCHANGED vars
    BY <1>7, RowsStutter DEF GroupChanges, vars, gateVars, execVars, auditVars, workerVars, rowVars
<1> QED
    BY <1>1, <1>2, <1>3, <1>4, <1>5, <1>6, <1>7, TickKeepsRows DEF Next, ServiceStep, OperatorStep

-----------------------------------------------------------------------------
(* Decisions *)

\* Nobody but DecideEnvironmentApproval decides, and it decides once.
LEMMA DecisionStep ==
    ASSUME DecisionInv, [Next]_vars
    PROVE  /\ DecisionInv'
           /\ \A j \in Jobs : decision[j] # "none" => decision'[j] = decision[j] /\ request'[j] = decision[j]
<1>1. CASE UNCHANGED <<request, decision>>
    BY <1>1 DEF DecisionInv
<1>2. ASSUME NEW j, request' = Requested(j), UNCHANGED decision
      PROVE  /\ DecisionInv'
             /\ \A i \in Jobs : decision[i] # "none" => decision'[i] = decision[i] /\ request'[i] = decision[i]
    BY <1>2 DEF DecisionInv, Requested
<1>3. ASSUME NEW j \in Jobs, NEW d \in {"approved", "rejected"}, DecideEnvironmentApproval(j, d)
      PROVE  /\ DecisionInv'
             /\ \A i \in Jobs : decision[i] # "none" => decision'[i] = decision[i] /\ request'[i] = decision[i]
    BY <1>3 DEF DecisionInv, DecideEnvironmentApproval
<1>4. ASSUME NEW w \in Workers, WorkerStep(w) \/ RenewLease(w) \/ Restart(w) \/ Crash(w)
      PROVE  \/ UNCHANGED <<request, decision>>
             \/ request' = Requested(wk[w].job) /\ UNCHANGED decision
    BY <1>4 DEF WorkerStep, CheckRun, EnsureDeployment, RequestApproval, EvaluateAccess, Refuse, FailDeployment,
       Park, AcquireLease, Preempt, StartDeployment, EnterGroup, StartCommand, LoseLease, ReleaseLease,
       RecordOutcome, Settle, RenewLease, Restart, Crash, gateVars
<1>5. ASSUME NEW w \in Workers, NEW j \in Jobs, Claim(w, j) PROVE UNCHANGED <<request, decision>>
    BY <1>5 DEF Claim, gateVars
<1>6. ASSUME NEW w \in Workers, NEW result \in Terminal \ {"skipped"}, FinishCommand(w, result)
      PROVE  UNCHANGED <<request, decision>>
    BY <1>6 DEF FinishCommand, gateVars
<1>7. ASSUME NEW j \in Jobs, RecoverRun(j) \/ ResumeWaitingJob(j) \/ Enqueue(j) \/ CancelByOperator(j)
      PROVE  \/ UNCHANGED <<request, decision>>
             \/ request' = Requested(j) /\ UNCHANGED decision
    BY <1>7 DEF RecoverRun, ResumeWaitingJob, Enqueue, CancelByOperator, gateVars
<1>8. ASSUME NEW p \in Policies, UpsertEnvironment(p) PROVE UNCHANGED <<request, decision>>
    BY <1>8 DEF UpsertEnvironment
<1>9. CASE GroupChanges \/ Tick \/ UNCHANGED vars
    BY <1>1, <1>9 DEF GroupChanges, Tick, vars, gateVars
<1> QED
    BY <1>1, <1>2, <1>3, <1>4, <1>5, <1>6, <1>7, <1>8, <1>9 DEF Next, ServiceStep, OperatorStep

-----------------------------------------------------------------------------
(* The lease *)

\* From the acquisition to the end of the command
Trusting == {"start", "group", "work"}

\* What a worker's step is for the lease
Keeps(w) ==
    /\ UNCHANGED leaseRow
    /\ wk'[w].job = wk[w].job /\ wk'[w].trust = wk[w].trust
    /\ wk'[w].pc \in Trusting => wk[w].pc \in Trusting

Enters(w) ==
    /\ UNCHANGED leaseRow
    /\ wk[w].job = None /\ wk'[w].job \in Jobs /\ wk'[w].trust = wk[w].trust /\ wk'[w].pc \notin Trusting

Takes(w) ==
    /\ MayTake(Mine(w)) /\ holder' = Mine(w) /\ left' = TTL
    /\ wk'[w].job = wk[w].job /\ wk'[w].trust = TTL

Forgets(w) ==
    /\ UNCHANGED holder \/ DropLease(Mine(w))
    /\ UNCHANGED left
    /\ wk'[w].trust = 0 /\ wk'[w].pc \notin Trusting

LeaseMove(w) ==
    /\ OnlyWorker(w)
    /\ \/ Keeps(w) \/ Enters(w)
       \/ wk[w].job \in Jobs /\ (Takes(w) \/ Forgets(w))

\* Moving on is nothing to the lease.
LEMMA GoesKeeps ==
    ASSUME NEW w \in Workers, NEW l, Goes(w, l), UNCHANGED leaseRow, l \in Trusting => wk[w].pc \in Trusting
    PROVE  LeaseMove(w)
BY DEF Goes, Becomes, LeaseMove, Keeps

\* Leaving forgets the lease, and may release it.
LEMMA LeavesForgets ==
    ASSUME NEW w \in Workers, NEW l \in {"idle", "down"}, Leaves(w, l), wk[w].job \in Jobs,
           UNCHANGED holder \/ DropLease(Mine(w)), UNCHANGED left
    PROVE  LeaseMove(w)
BY DEF Leaves, Becomes, LeaseMove, Forgets, Trusting

\* Every step of a worker keeps, takes or forgets the lease.
LEMMA WorkerLeaseMoves ==
    ASSUME Sensible, RowInv, LeaseTypeOK, NEW w \in Workers,
           \/ WorkerStep(w) \/ RenewLease(w) \/ Restart(w) \/ Crash(w)
           \/ \E j \in Jobs : Claim(w, j)
           \/ \E result \in Terminal \ {"skipped"} : FinishCommand(w, result)
    PROVE  LeaseMove(w)
<1> USE DEF RowInv
<1>p. {"settle", "ensure", "evaluate", "refused", "group", "work", "release", "idle"} \subseteq Places
    BY DEF Places, Preparing, Deploying
<1>j. wk[w].pc \notin {"idle", "down"} => wk[w].job \in Jobs
    BY WorkersJob
<1>1. CASE CheckRun(w) \/ RequestApproval(w) \/ Refuse(w) \/ FailDeployment(w) \/ RecordOutcome(w)
    <2>1. /\ \/ \E l \in {"settle", "ensure", "evaluate", "refused"} : Goto(w, l)
             \/ \E l \in {"idle", "down"} : Leave(w, l)
          /\ UNCHANGED leaseRow /\ wk[w].pc \notin {"idle", "down"}
        BY <1>1 DEF CheckRun, RequestApproval, Refuse, FailDeployment, RecordOutcome, At
    <2>2. ASSUME NEW l \in {"settle", "ensure", "evaluate", "refused"}, Goto(w, l) PROVE LeaseMove(w)
        BY <1>p, <2>1, <2>2, GotoMoves, GoesKeeps DEF Trusting
    <2>3. ASSUME NEW l \in {"idle", "down"}, Leave(w, l) PROVE LeaseMove(w)
        BY <1>j, <2>1, <2>3, LeaveMoves, LeavesForgets DEF leaseRow
    <2> QED
        BY <2>1, <2>2, <2>3
<1>2. CASE EnsureDeployment(w)
    <2>1. PICK l \in {"request", "evaluate"} : Goes(w, l)
        BY <1>2, EnsureMoves
    <2> QED
        BY <1>2, <2>1, GoesKeeps DEF EnsureDeployment, Trusting
<1>3. CASE EvaluateAccess(w)
    <2>1. PICK l \in {"acquire", "refuse", "park"}, y \in Reasons : Becomes(w, l, wk[w].job, y, wk[w].trust)
        BY <1>3, EvaluateMoves
    <2>2. UNCHANGED leaseRow
        BY <1>3 DEF EvaluateAccess
    <2> QED
        BY <2>1, <2>2 DEF Becomes, LeaseMove, Keeps, Trusting
<1>4. CASE Park(w) \/ Settle(w) \/ Crash(w) \/ LoseLease(w)
    <2>1. PICK l \in {"idle", "down"} :
             /\ Leave(w, l) /\ wk[w].pc \notin {"idle", "down"}
             /\ UNCHANGED left /\ (UNCHANGED holder \/ DropLease(Mine(w)))
        BY <1>4 DEF Park, Settle, Crash, LoseLease, At, leaseRow
    <2> QED
        BY <1>j, <2>1, LeaveMoves, LeavesForgets
<1>5. CASE AcquireLease(w)
    <2>1. wk[w].job \in Jobs /\ wk[w].pc \notin Trusting
        BY <1>5, <1>j DEF AcquireLease, At, Trusting
    <2>2. CASE Leaves(w, "down") /\ UNCHANGED leaseRow
        BY <2>1, <2>2, LeavesForgets DEF leaseRow
    <2>3. CASE /\ MayTake(Mine(w)) /\ holder' = Mine(w) /\ left' = TTL
               /\ Becomes(w, "start", wk[w].job, wk[w].why, TTL)
        BY <2>1, <2>3 DEF LeaseMove, Takes, Becomes
    <2>4. ASSUME NEW l \in {"preempt", "park"}, NEW y, Becomes(w, l, wk[w].job, y, wk[w].trust), UNCHANGED leaseRow
          PROVE  LeaseMove(w)
        BY <2>4 DEF LeaseMove, Keeps, Becomes, Trusting
    <2> QED
        BY <1>5, <2>2, <2>3, <2>4, AcquireMoves
<1>6. CASE Preempt(w)
    <2>1. Becomes(w, "park", wk[w].job, "concurrency", wk[w].trust) /\ UNCHANGED leaseRow
        BY <1>6, PreemptMoves DEF Preempt
    <2> QED
        BY <2>1 DEF LeaseMove, Keeps, Becomes, Trusting
<1>7. CASE StartDeployment(w)
    <2>1. wk[w].pc \in Trusting /\ wk[w].pc \notin {"idle", "down"} /\ UNCHANGED left
        BY <1>7 DEF StartDeployment, At, Trusting
    <2>2. CASE Goto(w, "group") /\ UNCHANGED holder
        BY <1>p, <2>1, <2>2, GotoMoves, GoesKeeps DEF leaseRow
    <2>3. CASE Leave(w, "down") /\ DropLease(Mine(w))
        BY <1>j, <2>1, <2>3, LeaveMoves, LeavesForgets
    <2> QED
        BY <1>7, <2>2, <2>3 DEF StartDeployment
<1>8. CASE EnterGroup(w) \/ StartCommand(w) \/ \E result \in Terminal \ {"skipped"} : FinishCommand(w, result)
    <2>1. PICK l \in {"work", "release"} : Goto(w, l) /\ UNCHANGED leaseRow /\ wk[w].pc \in Trusting
        BY <1>8 DEF EnterGroup, StartCommand, FinishCommand, At, Trusting
    <2> QED
        BY <1>p, <2>1, GotoMoves, GoesKeeps
<1>9. CASE RenewLease(w)
    <2>1. Becomes(w, "work", wk[w].job, wk[w].why, TTL) /\ wk[w].job \in Jobs
        BY <1>9, <1>j, RenewMoves DEF RenewLease, At
    <2> QED
        BY <1>9, <2>1 DEF RenewLease, LeaseMove, Takes, Becomes
<1>10. CASE ReleaseLease(w)
    <2>1. wk[w].job \in Jobs /\ DropLease(Mine(w)) /\ UNCHANGED left
        BY <1>10, <1>j DEF ReleaseLease, At
    <2>2. CASE Leave(w, "down")
        BY <2>1, <2>2, LeaveMoves, LeavesForgets
    <2>3. CASE wk' = [wk EXCEPT ![w].pc = "record", ![w].trust = 0]
        <3>1. "record" \in Places /\ 0 \in 0..TTL
            BY DEF Places, Deploying, Sensible
        <3>2. Becomes(w, "record", wk[w].job, wk[w].why, 0)
            BY <2>3, <3>1, TrustMoves
        <3> QED
            BY <2>1, <3>2 DEF LeaseMove, Forgets, Becomes, Trusting
    <2> QED
        BY <1>10, <2>2, <2>3 DEF ReleaseLease
<1>11. CASE Restart(w)
    <2>1. Goes(w, "idle") /\ UNCHANGED leaseRow
        BY <1>11, <1>p, GotoMoves DEF Restart
    <2> QED
        BY <2>1, GoesKeeps DEF Trusting
<1>12. ASSUME NEW j \in Jobs, Claim(w, j) PROVE LeaseMove(w)
    <2>1. Becomes(w, "check", j, wk[w].why, wk[w].trust) /\ UNCHANGED leaseRow
        BY <1>12, ClaimMoves DEF Claim
    <2>2. wk[w].job = None
        BY <1>12 DEF Claim, JobInv, WorkerFits
    <2> QED
        BY <2>1, <2>2 DEF LeaseMove, Enters, Becomes, Trusting
<1> QED
    BY <1>1, <1>2, <1>3, <1>4, <1>5, <1>6, <1>7, <1>8, <1>9, <1>10, <1>11, <1>12 DEF WorkerStep

\* The trust that the lease sees
Trust == [c \in Jobs \X Workers |-> IF wk[c[2]].job = c[1] THEN wk[c[2]].trust ELSE 0]

\* A step of one client is a step of the lease.
LEMMA ClientStep ==
    ASSUME NEW c \in Jobs \X Workers,
           \/ /\ holder \in {None, c} \/ left = 0
              /\ holder' = c /\ left' = TTL
              /\ Trust' = [Trust EXCEPT ![c] = TTL]
           \/ /\ holder' = holder \/ holder' = (IF holder = c THEN None ELSE holder)
              /\ left' = left
              /\ Trust' = [Trust EXCEPT ![c] = 0]
    PROVE  Lease!Next
BY DEF Lease!Next, Lease!Acquire, Lease!Release, Lease!Forget, Trust

\* A worker's entry decides on the trust of its own clients only.
LEMMA TrustOfOthers ==
    ASSUME NEW w \in Workers, OnlyWorker(w), NEW c \in Jobs \X Workers, c[2] # w
    PROVE  Trust'[c] = Trust[c]
<1>1. c[2] \in Workers \ {w}
    OBVIOUS
<1> QED
    BY <1>1 DEF Trust, OnlyWorker

\* What a worker does to the lease is a step of ExpiringLease.
LEMMA MoveIsLeaseStep ==
    ASSUME Sensible, WorkerTypeOK, LeaseTypeOK, TrustInv, NEW w \in Workers, LeaseMove(w)
    PROVE  LeaseTypeOK' /\ TrustInv' /\ [Lease!Next]_Lease!leaseVars
<1>1. OnlyWorker(w)
    BY DEF LeaseMove
<1>2. ASSUME wk[w].job \in Jobs PROVE Mine(w) \in Jobs \X Workers
    BY <1>2 DEF Mine
<1>3. LeaseTypeOK'
    BY <1>2 DEF LeaseMove, Keeps, Enters, Takes, Forgets, LeaseTypeOK, leaseRow, Sensible, DropLease
<1>4. TrustInv'
    BY <1>1 DEF TrustInv, LeaseMove, Keeps, Enters, Takes, Forgets, OnlyWorker, Sensible, Trusting
<1>5. CASE Keeps(w) \/ Enters(w)
    <2>1. \A c \in Jobs \X Workers : Trust'[c] = Trust[c]
        <3> SUFFICES ASSUME NEW c \in Jobs \X Workers, c[2] = w PROVE Trust'[c] = Trust[c]
            BY <1>1, TrustOfOthers
        <3> QED
            BY <1>5 DEF Keeps, Enters, Trust, TrustInv
    <2>2. Trust' = Trust
        BY <2>1 DEF Trust
    <2> QED
        BY <1>3, <1>4, <1>5, <2>2 DEF Keeps, Enters, Lease!leaseVars, leaseRow, Trust
<1>6. CASE wk[w].job \in Jobs /\ (Takes(w) \/ Forgets(w))
    <2>1. PICK me \in Jobs \X Workers : me = Mine(w) /\ me[1] = wk[w].job /\ me[2] = w
        BY <1>2, <1>6 DEF Mine
    <2>2. PICK t \in {TTL, 0} : wk'[w].trust = t /\ (t # 0 => Takes(w)) /\ (~Forgets(w) => t = TTL)
        BY <1>6 DEF Takes, Forgets
    <2>3. \A c \in Jobs \X Workers : Trust'[c] = IF c = me THEN t ELSE Trust[c]
        <3> SUFFICES ASSUME NEW c \in Jobs \X Workers PROVE Trust'[c] = IF c = me THEN t ELSE Trust[c]
            OBVIOUS
        <3>1. CASE c[2] # w
            BY <1>1, <2>1, <3>1, TrustOfOthers
        <3>2. CASE c = me
            BY <1>6, <2>1, <2>2, <3>2 DEF Trust, Takes, Forgets
        <3>3. CASE c[2] = w /\ c # me
            <4>1. c[1] # wk[w].job /\ Trust[c] = 0
                BY <2>1, <3>3 DEF Trust
            <4>2. Trust'[c] = IF wk'[w].job = c[1] THEN t ELSE 0
                BY <2>2, <3>3 DEF Trust
            <4> QED
                BY <1>6, <2>2, <3>3, <4>1, <4>2 DEF Takes
        <3> QED
            BY <3>1, <3>2, <3>3
    <2>4. Trust' = [Trust EXCEPT ![me] = t]
        BY <2>3 DEF Trust
    <2>5. ASSUME Takes(w) PROVE Lease!Next
        <3>1. ~Forgets(w) /\ t = TTL
            BY <2>2, <2>5 DEF Takes, Forgets, Sensible
        <3>2. (holder \in {None, me} \/ left = 0) /\ holder' = me /\ left' = TTL
            BY <2>1, <2>5 DEF Takes, MayTake
        <3> QED
            BY <2>4, <3>1, <3>2, ClientStep
    <2>6. ASSUME Forgets(w), ~Takes(w) PROVE Lease!Next
        <3>1. /\ t = 0 /\ left' = left
              /\ holder' = holder \/ holder' = (IF holder = me THEN None ELSE holder)
            BY <2>1, <2>2, <2>6 DEF Forgets, DropLease
        <3> QED
            BY <2>4, <3>1, ClientStep
    <2> QED
        BY <1>3, <1>4, <1>6, <2>5, <2>6
<1> QED
    BY <1>5, <1>6 DEF LeaseMove

\* Time passes for the row and for every worker alike.
LEMMA TickIsLeaseStep ==
    ASSUME Sensible, WorkerTypeOK, LeaseTypeOK, TrustInv, Tick
    PROVE  LeaseTypeOK' /\ TrustInv' /\ [Lease!Next]_Lease!leaseVars
<1>1. LeaseTypeOK' /\ left' = Less(left) /\ holder' = holder
    BY DEF Tick, LeaseTypeOK, Less
<1>2. \A w \in Workers : wk[w].trust \in Nat
    <2>1. \A w \in Workers : wk[w].trust \in 0..TTL
        BY DEF WorkerTypeOK
    <2> QED
        BY <2>1 DEF Sensible
<1>3. TrustInv'
    <2>1. ASSUME NEW w \in Workers, Prompt, Grouped = {}, wk[w].pc \in {"start", "group", "work"}
          PROVE  wk[w].trust > 1
        <3>1. MayWait(w)
            BY <2>1 DEF Tick
        <3> QED
            BY <2>1, <3>1 DEF MayWait, At
    <2>2. ASSUME NEW w \in Workers
          PROVE  /\ wk'[w].job = None => wk'[w].trust = 0
                 /\ Prompt /\ Grouped = {} /\ wk'[w].pc \in {"start", "group", "work"} => wk'[w].trust > 0
        BY <1>2, <2>1, TickMoves DEF TrustInv, Less
    <2> QED
        BY <2>2 DEF TrustInv
<1>4. \A c \in Jobs \X Workers : Trust'[c] = IF Trust[c] = 0 THEN 0 ELSE Trust[c] - 1
    BY TickMoves DEF Trust, Less
<1>5. Lease!Next
    <2>1. Trust' = [c \in Jobs \X Workers |-> IF Trust[c] = 0 THEN 0 ELSE Trust[c] - 1]
        BY <1>4 DEF Trust
    <2>2. left' = (IF left = 0 THEN 0 ELSE left - 1) /\ holder' = holder
        BY <1>1 DEF Less
    <2> QED
        BY <2>1, <2>2 DEF Lease!Next, Lease!Tick, Lease!Less, Trust
<1> QED
    BY <1>1, <1>3, <1>5

\* Every step of the gate acquires, releases or forgets the lease, or leaves it alone.
LEMMA LeaseStep ==
    ASSUME Sensible, RowInv, LeaseTypeOK, TrustInv, [Next]_vars
    PROVE  LeaseTypeOK' /\ TrustInv' /\ [Lease!Next]_Lease!leaseVars
<1>1. ASSUME NEW w \in Workers,
             \/ WorkerStep(w) \/ RenewLease(w) \/ Restart(w) \/ Crash(w)
             \/ \E j \in Jobs : Claim(w, j)
             \/ \E result \in Terminal \ {"skipped"} : FinishCommand(w, result)
      PROVE  LeaseTypeOK' /\ TrustInv' /\ [Lease!Next]_Lease!leaseVars
    BY <1>1, WorkerLeaseMoves, MoveIsLeaseStep DEF RowInv
<1>2. ASSUME UNCHANGED <<wk, holder, left>>
      PROVE  LeaseTypeOK' /\ TrustInv' /\ [Lease!Next]_Lease!leaseVars
    BY <1>2 DEF LeaseTypeOK, TrustInv, Lease!leaseVars
<1>3. ASSUME NEW j \in Jobs, RecoverRun(j) \/ ResumeWaitingJob(j) \/ Enqueue(j) \/ CancelByOperator(j)
      PROVE  UNCHANGED <<wk, holder, left>>
    BY <1>3 DEF RecoverRun, ResumeWaitingJob, Enqueue, CancelByOperator, leaseRow, workerVars
<1>4. ASSUME NEW j \in Jobs, NEW d \in {"approved", "rejected"}, DecideEnvironmentApproval(j, d)
      PROVE  UNCHANGED <<wk, holder, left>>
    BY <1>4 DEF DecideEnvironmentApproval, leaseRow, workerVars
<1>5. ASSUME NEW p \in Policies, UpsertEnvironment(p) PROVE UNCHANGED <<wk, holder, left>>
    BY <1>5 DEF UpsertEnvironment, leaseRow, workerVars
<1>6. CASE GroupChanges \/ UNCHANGED vars
    BY <1>2, <1>6 DEF GroupChanges, vars, leaseRow, workerVars
<1> QED
    BY <1>1, <1>2, <1>3, <1>4, <1>5, <1>6, TickIsLeaseStep DEF Next, ServiceStep, OperatorStep, RowInv

-----------------------------------------------------------------------------
(* The theorems *)

\* No row, no lease and no trust at the start
LEMMA InitGate == Sensible /\ Init => GateInv /\ Lease!Init
<1> SUFFICES ASSUME Sensible, Init PROVE GateInv /\ Lease!Init
    OBVIOUS
<1>1. WorkerTypeOK /\ RowTypeOK /\ LeaseTypeOK
    BY DEF Sensible, Init, WorkerTypeOK, RowTypeOK, LeaseTypeOK, Out, Places, Statuses
<1>2. JobInv
    BY DEF Init, JobInv, JobFits, WorkerFits, OneWorkerEach, Out, At, Preparing, Deploying
<1>3. AuditInv
    BY DEF Init, AuditInv, HistoryIsOnePath
<1>4. DecisionInv /\ TrustInv
    BY DEF Init, DecisionInv, TrustInv, Out
<1>5. \A c \in Jobs \X Workers : (IF wk[c[2]].job = c[1] THEN wk[c[2]].trust ELSE 0) = 0
    BY DEF Init, Out
<1>6. Lease!Init
    BY <1>5 DEF Init, Lease!Init
<1> QED
    BY <1>1, <1>2, <1>3, <1>4, <1>6 DEF GateInv

\* Every step keeps the invariant, and is a step of the lease or leaves it alone.
LEMMA StepGate ==
    Sensible /\ GateInv /\ [Next]_vars => GateInv' /\ [Lease!Next]_Lease!leaseVars
BY RowsStep, DecisionStep, LeaseStep DEF GateInv, RowInv

\* The inductive invariant holds in every reachable state, over every policy
\* change, decision, crash and expiry (prepareDeploymentJob and its callers).
THEOREM GateInvariant ==
    ASSUME Sensible
    PROVE  Spec => []GateInv
BY InitGate, StepGate, PTL DEF Spec

\* The environment lease implements the expiring lease, for any jobs, workers,
\* policies and time to live (AcquireEnvironmentLease, heartbeatEnvironment,
\* ReleaseEnvironmentLease): nobody trusts a lease that another job took over.
THEOREM GateImplementsLease ==
    ASSUME Sensible
    PROVE  Spec => ImplementsLease
BY InitGate, StepGate, PTL DEF Spec, ImplementsLease, Lease!Spec

\* What a decision said stays said, also when two operators decide at once, the
\* job is resumed or its run cancelled (DecideEnvironmentApproval).
THEOREM DecisionsAreAlwaysFinal ==
    ASSUME Sensible
    PROVE  Spec => DecisionsAreFinal
<1>1. GateInv /\ [Next]_vars =>
        [\A j \in Jobs : decision[j] # "none" =>
            decision'[j] = decision[j] /\ request'[j] = decision[j]]_vars
    BY DecisionStep DEF GateInv
<1> QED
    BY <1>1, GateInvariant, PTL DEF Spec, DecisionsAreFinal

\* Every deployment is reported as its job ended, along one path of its life
\* cycle, and no two commands deploy at once while heartbeats are punctual
\* (AcquireEnvironmentLease, TransitionDeployment, deployment_events).
THEOREM DeploymentsAreAlwaysHonest ==
    ASSUME Sensible
    PROVE  Spec => []DeploymentsAreHonest
<1>1. TTL \in Nat /\ None \notin Jobs \X Workers
    BY DEF Sensible
<1>2. Spec => []LeaseProofs!Exclusive
    <2>1. Lease!Spec => LeaseProofs!Spec
        BY PTL DEF Lease!Spec, LeaseProofs!Spec, Lease!Init, LeaseProofs!Init, Lease!Next, LeaseProofs!Next,
           Lease!leaseVars, LeaseProofs!leaseVars, Lease!Tick, LeaseProofs!Tick, Lease!Less, LeaseProofs!Less,
           Lease!Acquire, LeaseProofs!Acquire, Lease!Release, LeaseProofs!Release, Lease!Forget, LeaseProofs!Forget
    <2> QED
        BY <1>1, <2>1, GateImplementsLease, LeaseProofs!LeaseIsExclusive, PTL DEF ImplementsLease
<1>3. GateInv /\ LeaseProofs!Exclusive => DeploymentsAreHonest
    <2> SUFFICES ASSUME GateInv, LeaseProofs!Exclusive PROVE DeploymentsAreHonest
        OBVIOUS
    <2>1. GateTypeOK
        BY DEF GateInv, GateTypeOK, WorkerTypeOK, RowTypeOK, LeaseTypeOK, DecisionInv, Reasons, Statuses
    <2>2. OneDeploymentAtATime
        <3> SUFFICES ASSUME Prompt, Grouped = {}, NEW v \in Workers, NEW w \in Workers, Working(v), Working(w)
                     PROVE  v = w
            BY DEF OneDeploymentAtATime
        <3>1. wk[v].trust > 0 /\ wk[w].trust > 0 /\ wk[v].job \in Jobs /\ wk[w].job \in Jobs
            BY WorkersJob DEF GateInv, TrustInv, Working, At
        <3>2. /\ Mine(v) \in Jobs \X Workers /\ Trust[Mine(v)] > 0
              /\ Mine(w) \in Jobs \X Workers /\ Trust[Mine(w)] > 0
            BY <3>1 DEF Mine, Trust
        <3>3. Mine(v) = Mine(w)
            BY <3>2 DEF LeaseProofs!Exclusive, Trust
        <3> QED
            BY <3>3 DEF Mine
    <2>3. DeploymentIsHonest /\ HistoryIsOnePath
        BY DEF GateInv, JobInv, JobFits, AuditInv, DeploymentIsHonest
    <2> QED
        BY <2>1, <2>2, <2>3 DEF DeploymentsAreHonest
<1> QED
    BY <1>2, <1>3, GateInvariant, PTL
=============================================================================
