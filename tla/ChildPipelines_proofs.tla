------------------------ MODULE ChildPipelines_proofs ------------------------
(***************************************************************************)
(* Proofs about parent and child pipelines, for any tree of runs, workers, *)
(* cancellations and faults.                                               *)
(*                                                                         *)
(* PipelineInv is the inductive invariant.  Its first part holds always;   *)
(* FreshInv, on waiting parents, holds as long as the lists of finished    *)
(* children stay fresh (ListsStayFresh).  The Rows lemmas are about the    *)
(* tables, the Workers lemmas about the workers' local variables, the      *)
(* Fresh lemmas about both.                                                *)
(***************************************************************************)
EXTENDS ChildPipelines, TLAPS

-----------------------------------------------------------------------------
(* The inductive invariant *)

WorkerTypeOK ==
    wk \in [Workers -> [pc : {"idle", "settle", "execute"}, run : Runs \cup {None},
                        at : Nat \ {0}, links : SUBSET Children]]

RowTypeOK ==
    /\ run \in [Runs -> Terminal \cup {"absent", "queued", "running", "waiting"}]
    /\ bridge \in [Children -> Terminal \cup {"queued", "running", "waiting"}]
    /\ \A c \in Children : /\ bridge[c] = "waiting" => c \in Mirrored
                           /\ bridge[c] = "running" => c \notin Mirrored
    /\ cascade \subseteq {"request", "list"} \X Runs \X (Workers \cup {None})

\* A worker that executes has a run of its own, which is running.
WorkersOwnTheirRun ==
    \A w \in Workers :
        /\ At(w, "execute") <=> wk[w].run # None
        /\ At(w, "execute") => run[wk[w].run] = "running"
        /\ \A v \in Workers : wk[v].run = wk[w].run /\ wk[w].run # None => v = w

\* The bridges a worker passed are finished.
PassedBridgesEnded ==
    \A w \in Workers : At(w, "execute") =>
        \A i \in 1..(wk[w].at - 1) :
            i \in 1..Len(Bridges[wk[w].run]) => bridge[Bridges[wk[w].run][i]] \in Terminal

\* What is listed has ended.
ListedChildrenEnded ==
    \A w \in Workers :
        /\ ~At(w, "settle") => wk[w].links = {}
        /\ \A c \in wk[w].links : c \in Mirrored /\ run[c] \in Terminal

\* A finished bridge of a child is what the child became; a cancelled one has a cancelled parent.
BridgesTellTheOutcome ==
    \A c \in Children :
        /\ c \in Mirrored /\ bridge[c] \in {"succeeded", "failed"} => run[c] = bridge[c]
        /\ bridge[c] = "cancelled" => run[Parent(c)] = "cancelled"

\* What is listed is still waited for, if its parent waits.
ListsAreFresh ==
    \A w \in Workers : \A c \in wk[w].links : run[Parent(c)] = "waiting" => bridge[c] = "waiting"

OneBridgeWaits ==
    \A c, d \in Children :
        bridge[c] = "waiting" /\ bridge[d] = "waiting" /\ Parent(c) = Parent(d) => c = d

FreshInv == ListsStayFresh => WaitingParentHasBridge /\ OneBridgeWaits /\ ListsAreFresh

PipelineInv ==
    /\ WorkerTypeOK /\ RowTypeOK
    /\ WorkersOwnTheirRun /\ PassedBridgesEnded /\ ListedChildrenEnded
    /\ BridgesTellTheOutcome /\ MirrorsAreHonest /\ FreshInv

\* Each run has its own bridges, and each child one bridge that starts it.
Tree ==
    /\ Bridges \in [Runs -> Seq(Runs)]
    /\ \A r, s \in Runs : Kids(r) \cap Kids(s) # {} => r = s
    /\ Mirrored \subseteq Children
    /\ None \notin Runs

-----------------------------------------------------------------------------
(* The tree *)

\* A child knows its parent.
LEMMA ParentOfKid ==
    ASSUME Tree, NEW r \in Runs, NEW c \in Kids(r)
    PROVE  c \in Children /\ c \in Runs /\ Parent(c) = r
<1>1. c \in Children
    BY DEF Children
<1>2. c \in Runs
    BY DEF Tree, Kids
<1>3. \A s \in Runs : c \in Kids(s) => s = r
    BY DEF Tree
<1>4. Parent(c) = r
    BY <1>3 DEF Parent
<1> QED
    BY <1>1, <1>2, <1>4

\* A parent knows its child.
LEMMA KidOfParent ==
    ASSUME Tree, NEW c \in Children
    PROVE  Parent(c) \in Runs /\ c \in Kids(Parent(c)) /\ c \in Runs
<1>1. PICK r \in Runs : c \in Kids(r)
    BY DEF Children
<1> QED
    BY <1>1, ParentOfKid

\* The bridge at which a worker stands
LEMMA MyKidIsKid ==
    ASSUME Tree, WorkerTypeOK, WorkersOwnTheirRun, NEW w \in Workers, At(w, "execute"), MoreBridges(w)
    PROVE  /\ wk[w].run \in Runs /\ run[wk[w].run] = "running" /\ wk[w].at \in 1..Len(Bridges[wk[w].run])
           /\ MyKid(w) \in Kids(wk[w].run) /\ MyKid(w) \in Children /\ MyKid(w) \in Runs
           /\ Parent(MyKid(w)) = wk[w].run
<1>1. wk[w].run \in Runs /\ run[wk[w].run] = "running" /\ wk[w].at \in Nat \ {0}
    BY DEF WorkersOwnTheirRun, WorkerTypeOK
<1>2. Len(Bridges[wk[w].run]) \in Nat
    BY <1>1 DEF Tree
<1>3. wk[w].at \in 1..Len(Bridges[wk[w].run])
    BY <1>1, <1>2 DEF MoreBridges
<1>4. MyKid(w) \in Kids(wk[w].run)
    BY <1>3 DEF MyKid, Kids
<1> QED
    BY <1>1, <1>3, <1>4, ParentOfKid

-----------------------------------------------------------------------------
(* The tables *)

\* What has ended stays as it is.
Stays ==
    /\ \A r \in Runs : run[r] \in Terminal => run'[r] = run[r]
    /\ \A c \in Children : bridge[c] \in Terminal => bridge'[c] = bridge[c]

RowInv == RowTypeOK /\ BridgesTellTheOutcome /\ MirrorsAreHonest

RunStates    == Terminal \cup {"absent", "queued", "running", "waiting"}
BridgeStates == Terminal \cup {"queued", "running", "waiting"}

\* A step that keeps what has ended, and ends only what it may
LEMMA RowsKept ==
    ASSUME Tree, RowInv, Stays,
           run' \in [Runs -> RunStates], bridge' \in [Children -> BridgeStates],
           cascade' \subseteq {"request", "list"} \X Runs \X (Workers \cup {None}),
           \A c \in Children : bridge'[c] # bridge[c] =>
              /\ bridge'[c] = "waiting" => c \in Mirrored
              /\ bridge'[c] = "running" => c \notin Mirrored
              /\ c \in Mirrored /\ bridge'[c] \in {"succeeded", "failed"} => run'[c] = bridge'[c]
              /\ bridge'[c] = "cancelled" => run'[Parent(c)] = "cancelled",
           \A r \in Runs : run'[r] # run[r] /\ run'[r] = "succeeded" =>
              \A c \in Kids(r) : c \in Mirrored => run'[c] = "succeeded"
    PROVE  RowInv'
<1>1. RowTypeOK'
    BY DEF RowInv, RowTypeOK, RunStates, BridgeStates
<1>2. ASSUME NEW c \in Children
      PROVE  /\ c \in Mirrored /\ bridge'[c] \in {"succeeded", "failed"} => run'[c] = bridge'[c]
             /\ bridge'[c] = "cancelled" => run'[Parent(c)] = "cancelled"
    <2>1. CASE bridge'[c] # bridge[c]
        BY <2>1
    <2>2. CASE bridge'[c] = bridge[c]
        BY <2>2, KidOfParent DEF RowInv, BridgesTellTheOutcome, Stays, Terminal
    <2> QED
        BY <2>1, <2>2
<1>3. ASSUME NEW c \in Mirrored, run'[Parent(c)] = "succeeded" PROVE run'[c] = "succeeded"
    <2>1. c \in Children /\ Parent(c) \in Runs /\ c \in Kids(Parent(c)) /\ c \in Runs
        BY KidOfParent DEF Tree
    <2>2. CASE run'[Parent(c)] # run[Parent(c)]
        BY <1>3, <2>1, <2>2
    <2>3. CASE run'[Parent(c)] = run[Parent(c)]
        BY <1>3, <2>1, <2>3 DEF RowInv, MirrorsAreHonest, Stays, Terminal
    <2> QED
        BY <2>2, <2>3
<1>4. BridgesTellTheOutcome'
    BY <1>2 DEF BridgesTellTheOutcome, Parent, Kids
<1>5. MirrorsAreHonest'
    BY <1>2, <1>3 DEF MirrorsAreHonest, Parent, Kids, Tree
<1> QED
    BY <1>1, <1>4, <1>5 DEF RowInv

\* A cancellation ends a run that is not executed, and its open bridges.
LEMMA CancellationRows ==
    ASSUME Tree, RowInv, NEW r \in Runs, RequestRunCancellation(r)
    PROVE  \/ UNCHANGED <<run, bridge>>
           \/ /\ run[r] \in {"queued", "waiting"} /\ run' = [run EXCEPT ![r] = "cancelled"]
              /\ bridge' = [c \in Children |->
                     IF c \in Kids(r) /\ bridge[c] \in Open THEN "cancelled" ELSE bridge[c]]
BY DEF RequestRunCancellation, runVars

\* A cancellation in flight keeps the tables.
LEMMA CommitRows ==
    ASSUME Tree, RowInv, NEW e \in cascade, CommitCancellation(e)
    PROVE  RowInv' /\ Stays
<1>1. e \in {"request", "list"} \X Runs \X (Workers \cup {None})
    BY DEF RowInv, RowTypeOK
<1>2. PICK r \in Runs : r = e[2]
    BY <1>1
<1>3. cascade' \subseteq {"request", "list"} \X Runs \X (Workers \cup {None})
    BY <1>1 DEF CommitCancellation, RowInv, RowTypeOK
<1>4. CASE UNCHANGED <<run, bridge>>
    <2>1. Stays /\ run' \in [Runs -> RunStates] /\ bridge' \in [Children -> BridgeStates]
        BY <1>4 DEF Stays, RowInv, RowTypeOK, RunStates, BridgeStates
    <2> QED
        BY <1>3, <1>4, <2>1, RowsKept
<1>5. CASE /\ run[r] \in {"queued", "waiting"} /\ run' = [run EXCEPT ![r] = "cancelled"]
           /\ bridge' = [c \in Children |->
                  IF c \in Kids(r) /\ bridge[c] \in Open THEN "cancelled" ELSE bridge[c]]
    <2>1. Stays /\ run' \in [Runs -> RunStates] /\ bridge' \in [Children -> BridgeStates]
        BY <1>5 DEF Stays, RowInv, RowTypeOK, RunStates, BridgeStates, Terminal, Open
    <2>2. run'[r] = "cancelled"
        BY <1>5 DEF RowInv, RowTypeOK
    <2>3. ASSUME NEW c \in Children, bridge'[c] # bridge[c]
          PROVE  bridge'[c] = "cancelled" /\ run'[Parent(c)] = "cancelled"
        BY <1>5, <2>2, <2>3, ParentOfKid
    <2>4. \A s \in Runs : run'[s] # run[s] => run'[s] = "cancelled"
        BY <1>5 DEF RowInv, RowTypeOK
    <2> QED
        BY <1>3, <2>1, <2>3, <2>4, RowsKept
<1> QED
    BY <1>2, <1>4, <1>5, CancellationRows DEF CommitCancellation

\* Steps that change no table but the requests in flight
LEMMA QuietRows ==
    ASSUME Tree, RowInv, UNCHANGED <<run, bridge>>,
           cascade' \subseteq {"request", "list"} \X Runs \X (Workers \cup {None})
    PROVE  RowInv' /\ Stays
<1>1. Stays /\ run' \in [Runs -> RunStates] /\ bridge' \in [Children -> BridgeStates]
    BY DEF Stays, RowInv, RowTypeOK, RunStates, BridgeStates
<1> QED
    BY <1>1, RowsKept

\* Steps that change the status of one run and no bridge
LEMMA OneRunRows ==
    ASSUME Tree, RowInv, UNCHANGED <<bridge, cascade>>, NEW r \in Runs, NEW s \in RunStates,
           run' = [run EXCEPT ![r] = s], run[r] \notin Terminal,
           s = "succeeded" => \A c \in Kids(r) : c \in Mirrored => run[c] = "succeeded"
    PROVE  RowInv' /\ Stays
<1>1. Stays /\ run' \in [Runs -> RunStates] /\ bridge' \in [Children -> BridgeStates]
    BY DEF Stays, RowInv, RowTypeOK, RunStates, BridgeStates
<1>2. \A k \in Runs : run'[k] # run[k] => k = r /\ run'[k] = s
    BY DEF RowInv, RowTypeOK
<1>3. \A c \in Kids(r) : run[c] = "succeeded" => run'[c] = "succeeded"
    BY <1>1, ParentOfKid DEF Stays, Terminal
<1>4. cascade' \subseteq {"request", "list"} \X Runs \X (Workers \cup {None})
    BY DEF RowInv, RowTypeOK
<1>5. \A k \in Runs : run'[k] # run[k] /\ run'[k] = "succeeded" =>
         \A c \in Kids(k) : c \in Mirrored => run'[c] = "succeeded"
    BY <1>2, <1>3
<1> QED
    BY <1>1, <1>4, <1>5, RowsKept

\* A settled bridge says what its child became.
LEMMA SettleRows ==
    ASSUME Tree, RowInv, ListedChildrenEnded, NEW w \in Workers, SettleChildPipeline(w)
    PROVE  RowInv' /\ Stays
<1>1. PICK c \in wk[w].links :
         IF run[c] = "cancelled"
         THEN cascade' = cascade \cup {<<"request", Parent(c), w>>} /\ UNCHANGED runVars
         ELSE /\ bridge' = [bridge EXCEPT ![c] = IF @ = "waiting" THEN Outcome(c) ELSE @]
              /\ run' = [run EXCEPT ![Parent(c)] = IF @ = "waiting" THEN "queued" ELSE @]
              /\ UNCHANGED <<flagged, cascade>>
    BY DEF SettleChildPipeline
<1>2. c \in Mirrored /\ c \in Children /\ run[c] \in Terminal /\ Parent(c) \in Runs /\ c \in Runs
    BY KidOfParent DEF ListedChildrenEnded, Tree
<1>3. CASE run[c] = "cancelled"
    <2>1. cascade' \subseteq {"request", "list"} \X Runs \X (Workers \cup {None})
        BY <1>1, <1>2, <1>3 DEF RowInv, RowTypeOK
    <2> QED
        BY <1>1, <1>3, <2>1, QuietRows DEF runVars
<1>4. CASE run[c] # "cancelled"
    <2>1. /\ bridge' = [bridge EXCEPT ![c] = IF @ = "waiting" THEN run[c] ELSE @]
          /\ run' = [run EXCEPT ![Parent(c)] = IF @ = "waiting" THEN "queued" ELSE @]
          /\ cascade' = cascade
        BY <1>1, <1>4 DEF Outcome
    <2>2. Stays /\ run' \in [Runs -> RunStates] /\ bridge' \in [Children -> BridgeStates]
        BY <1>2, <2>1 DEF Stays, RowInv, RowTypeOK, RunStates, BridgeStates, Terminal
    <2>3. run'[c] = run[c]
        BY <1>2, <2>2 DEF Stays
    <2>4. \A d \in Children : bridge'[d] # bridge[d] => d = c /\ bridge'[d] = run[c]
        BY <1>2, <2>1 DEF RowInv, RowTypeOK
    <2>5. \A r \in Runs : run'[r] # run[r] => run'[r] = "queued"
        BY <1>2, <2>1 DEF RowInv, RowTypeOK
    <2>6. cascade' \subseteq {"request", "list"} \X Runs \X (Workers \cup {None})
        BY <2>1 DEF RowInv, RowTypeOK
    <2>7. \A d \in Children : bridge'[d] # bridge[d] =>
              /\ bridge'[d] = "waiting" => d \in Mirrored
              /\ bridge'[d] = "running" => d \notin Mirrored
              /\ d \in Mirrored /\ bridge'[d] \in {"succeeded", "failed"} => run'[d] = bridge'[d]
              /\ bridge'[d] = "cancelled" => run'[Parent(d)] = "cancelled"
        BY <1>2, <1>4, <2>3, <2>4 DEF Terminal
    <2> QED
        BY <2>2, <2>5, <2>6, <2>7, RowsKept
<1> QED
    BY <1>3, <1>4

\* A started child leaves its bridge open.
LEMMA StartChildRows ==
    ASSUME Tree, RowInv, WorkerTypeOK, WorkersOwnTheirRun, NEW w \in Workers, StartChild(w)
    PROVE  RowInv' /\ Stays
<1>1. At(w, "execute") /\ MoreBridges(w)
    BY DEF StartChild
<1>2. PICK c \in Children : c = MyKid(w)
    BY <1>1, MyKidIsKid
<1>3. PICK r \in Runs : r = wk[w].run
    BY <1>1, MyKidIsKid
<1>4. c \in Runs /\ run[r] = "running" /\ run[c] = "absent" /\ bridge[c] = "queued" /\ cascade' = cascade
    BY <1>1, <1>2, <1>3, MyKidIsKid DEF StartChild
<1>5. CASE c \in Mirrored
    <2>1. /\ run' = [run EXCEPT ![c] = "queued", ![r] = "waiting"]
          /\ bridge' = [bridge EXCEPT ![c] = "waiting"]
        BY <1>2, <1>3, <1>5 DEF StartChild
    <2>2. Stays /\ run' \in [Runs -> RunStates] /\ bridge' \in [Children -> BridgeStates]
        BY <1>4, <2>1 DEF Stays, RowInv, RowTypeOK, RunStates, BridgeStates, Terminal
    <2>3. \A d \in Children : bridge'[d] # bridge[d] => d = c /\ bridge'[d] = "waiting"
        BY <1>4, <2>1 DEF RowInv, RowTypeOK
    <2>4. \A k \in Runs : run'[k] # run[k] => run'[k] \in {"queued", "waiting"}
        BY <1>4, <2>1 DEF RowInv, RowTypeOK
    <2>5. cascade' \subseteq {"request", "list"} \X Runs \X (Workers \cup {None})
        BY <1>4 DEF RowInv, RowTypeOK
    <2> QED
        BY <1>5, <2>2, <2>3, <2>4, <2>5, RowsKept
<1>6. CASE c \notin Mirrored
    <2>1. run' = [run EXCEPT ![c] = "queued"] /\ UNCHANGED bridge
        BY <1>2, <1>6 DEF StartChild
    <2> QED
        BY <1>4, <2>1, OneRunRows DEF RunStates, Terminal
<1> QED
    BY <1>5, <1>6

\* A bridge that does not mirror its child may end before it.
LEMMA FinishAsyncRows ==
    ASSUME Tree, RowInv, WorkerTypeOK, WorkersOwnTheirRun, NEW w \in Workers, FinishAsyncBridge(w)
    PROVE  RowInv' /\ Stays
<1>1. PICK c \in Children : c = MyKid(w)
    BY MyKidIsKid DEF FinishAsyncBridge
<1>2. PICK s \in {"running", "succeeded"} : bridge' = [bridge EXCEPT ![c] = s]
    BY <1>1 DEF FinishAsyncBridge
<1>3. c \notin Mirrored /\ bridge[c] \notin Terminal /\ run' = run /\ cascade' = cascade
    BY <1>1 DEF FinishAsyncBridge, Terminal
<1>4. Stays /\ run' \in [Runs -> RunStates] /\ bridge' \in [Children -> BridgeStates]
    BY <1>2, <1>3 DEF Stays, RowInv, RowTypeOK, RunStates, BridgeStates, Terminal
<1>5. \A d \in Children : bridge'[d] # bridge[d] => d = c /\ bridge'[d] \in {"running", "succeeded"}
    BY <1>2 DEF RowInv, RowTypeOK
<1>6. cascade' \subseteq {"request", "list"} \X Runs \X (Workers \cup {None})
    BY <1>3 DEF RowInv, RowTypeOK
<1> QED
    BY <1>3, <1>4, <1>5, <1>6, RowsKept

\* A run past its last bridge has none that is open, and none that was cancelled.
LEMMA AllBridgesEnded ==
    ASSUME Tree, WorkerTypeOK, WorkersOwnTheirRun, PassedBridgesEnded, BridgesTellTheOutcome,
           NEW w \in Workers, At(w, "execute"), ~MoreBridges(w), NEW c \in Kids(wk[w].run)
    PROVE  bridge[c] \in {"succeeded", "failed"}
<1>1. wk[w].run \in Runs /\ run[wk[w].run] = "running" /\ wk[w].at \in Nat \ {0}
    BY DEF WorkersOwnTheirRun, WorkerTypeOK
<1>2. Len(Bridges[wk[w].run]) \in Nat
    BY <1>1 DEF Tree
<1>3. PICK i \in 1..Len(Bridges[wk[w].run]) : c = Bridges[wk[w].run][i]
    BY DEF Kids
<1>4. i \in 1..(wk[w].at - 1)
    BY <1>1, <1>2, <1>3 DEF MoreBridges
<1>5. bridge[c] \in Terminal
    BY <1>3, <1>4 DEF PassedBridgesEnded
<1>6. bridge[c] # "cancelled"
    BY <1>1, ParentOfKid DEF BridgesTellTheOutcome
<1> QED
    BY <1>5, <1>6 DEF Terminal

\* A run that succeeds has no mirrored child that did not.
LEMMA FinishRunRows ==
    ASSUME Tree, RowInv, WorkerTypeOK, WorkersOwnTheirRun, PassedBridgesEnded,
           NEW w \in Workers, FinishRun(w)
    PROVE  RowInv' /\ Stays
<1>1. PICK r \in Runs : r = wk[w].run
    BY DEF FinishRun, WorkersOwnTheirRun, WorkerTypeOK
<1>2. run[r] = "running" /\ UNCHANGED <<bridge, cascade>>
    BY <1>1 DEF FinishRun, WorkersOwnTheirRun
<1>3. PICK ok \in BOOLEAN : run' = [run EXCEPT ![r] = IF flagged[r] THEN "cancelled" ELSE Result(r, ok)]
    BY <1>1 DEF FinishRun
<1>4. PICK s \in Terminal : s = IF flagged[r] THEN "cancelled" ELSE Result(r, ok)
    BY DEF Result, Terminal
<1>5. ASSUME s = "succeeded", NEW c \in Kids(r), c \in Mirrored PROVE run[c] = "succeeded"
    <2>1. bridge[c] # "failed"
        BY <1>4, <1>5 DEF Result
    <2>2. bridge[c] = "succeeded"
        BY <1>1, <2>1, AllBridgesEnded DEF FinishRun, RowInv
    <2> QED
        BY <1>5, <2>2, ParentOfKid DEF RowInv, BridgesTellTheOutcome
<1>6. s \in RunStates /\ run[r] \notin Terminal
    BY <1>2 DEF RunStates, Terminal
<1> QED
    BY <1>2, <1>3, <1>4, <1>5, <1>6, OneRunRows

\* A recovered run is queued again, with the bridges that were running.
LEMMA RecoverRows ==
    ASSUME Tree, RowInv, NEW r \in Runs, RecoverRun(r)
    PROVE  RowInv' /\ Stays
<1>1. /\ run[r] = "running" /\ run' = [run EXCEPT ![r] = "queued"] /\ cascade' = cascade
      /\ bridge' = [c \in Children |->
                      IF c \in Kids(r) /\ bridge[c] = "running" THEN "queued" ELSE bridge[c]]
    BY DEF RecoverRun
<1>2. Stays /\ run' \in [Runs -> RunStates] /\ bridge' \in [Children -> BridgeStates]
    BY <1>1 DEF Stays, RowInv, RowTypeOK, RunStates, BridgeStates, Terminal
<1>3. \A c \in Children : bridge'[c] # bridge[c] => bridge'[c] = "queued"
    BY <1>1
<1>4. \A k \in Runs : run'[k] # run[k] => run'[k] = "queued"
    BY <1>1 DEF RowInv, RowTypeOK
<1>5. cascade' \subseteq {"request", "list"} \X Runs \X (Workers \cup {None})
    BY <1>1 DEF RowInv, RowTypeOK
<1> QED
    BY <1>2, <1>3, <1>4, <1>5, RowsKept

\* Every step keeps what the tables say of each other, and what has ended.
LEMMA StepRows ==
    ASSUME Tree, PipelineInv, Next
    PROVE  RowInv' /\ Stays
<1>i. RowInv
    BY DEF PipelineInv, RowInv
<1>c. cascade \subseteq {"request", "list"} \X Runs \X (Workers \cup {None})
    BY DEF PipelineInv, RowTypeOK
<1>1. ASSUME NEW r \in Runs, EnqueueRun(r) PROVE RowInv' /\ Stays
    <2>1. UNCHANGED <<bridge, cascade>> /\ run' = [run EXCEPT ![r] = "queued"] /\ run[r] = "absent"
        BY <1>1 DEF EnqueueRun
    <2> QED
        BY <1>i, <2>1, OneRunRows DEF RunStates, Terminal
<1>2. ASSUME NEW r \in Runs, CancelByOperator(r) PROVE RowInv' /\ Stays
    <2>1. /\ UNCHANGED <<run, bridge>>
          /\ cascade' \subseteq {"request", "list"} \X Runs \X (Workers \cup {None})
        BY <1>2, <1>c DEF CancelByOperator, runVars
    <2> QED
        BY <1>i, <2>1, QuietRows
<1>3. ASSUME NEW r \in Runs, RecoverRun(r) PROVE RowInv' /\ Stays
    BY <1>3, <1>i, RecoverRows
<1>4. ASSUME NEW w \in Workers, ListCompleted(w) \/ PassFinishedBridge(w) \/ MeetStartedChild(w)
      PROVE  RowInv' /\ Stays
    <2>1. UNCHANGED <<run, bridge, cascade>>
        BY <1>4 DEF ListCompleted, PassFinishedBridge, MeetStartedChild, runVars
    <2> QED
        BY <1>i, <1>c, <2>1, QuietRows
<1>5. ASSUME NEW w \in Workers, SettleChildPipeline(w) PROVE RowInv' /\ Stays
    BY <1>5, <1>i, SettleRows DEF PipelineInv
<1>6. ASSUME NEW w \in Workers, ClaimNextQueuedRun(w) PROVE RowInv' /\ Stays
    <2>1. CASE UNCHANGED run
        BY <1>6, <1>i, <1>c, <2>1, QuietRows DEF ClaimNextQueuedRun
    <2>2. CASE \E r \in Claimable : run' = [run EXCEPT ![r] = "running"]
        <3>1. PICK r \in Runs : run[r] = "queued" /\ run' = [run EXCEPT ![r] = "running"]
            BY <2>2 DEF Claimable
        <3>2. UNCHANGED <<bridge, cascade>>
            BY <1>6 DEF ClaimNextQueuedRun
        <3> QED
            BY <1>i, <3>1, <3>2, OneRunRows DEF RunStates, Terminal
    <2> QED
        BY <1>6, <2>1, <2>2 DEF ClaimNextQueuedRun
<1>7. ASSUME NEW w \in Workers, StartChild(w) PROVE RowInv' /\ Stays
    BY <1>7, <1>i, StartChildRows DEF PipelineInv
<1>8. ASSUME NEW w \in Workers, FinishAsyncBridge(w) PROVE RowInv' /\ Stays
    BY <1>8, <1>i, FinishAsyncRows DEF PipelineInv
<1>9. ASSUME NEW w \in Workers, FinishRun(w) PROVE RowInv' /\ Stays
    BY <1>9, <1>i, FinishRunRows DEF PipelineInv
<1>10. ASSUME NEW w \in Workers, Crash(w) PROVE RowInv' /\ Stays
    <2>1. /\ UNCHANGED <<run, bridge>>
          /\ cascade' \subseteq {"request", "list"} \X Runs \X (Workers \cup {None})
        BY <1>10, <1>c DEF Crash, runVars
    <2> QED
        BY <1>i, <2>1, QuietRows
<1>11. ASSUME NEW e \in cascade, CommitCancellation(e) PROVE RowInv' /\ Stays
    BY <1>11, <1>i, CommitRows
<1>12. ASSUME NEW e \in cascade, CascadeChildPipelineCancellation(e) PROVE RowInv' /\ Stays
    <2>1. e \in {"request", "list"} \X Runs \X (Workers \cup {None})
        BY <1>c
    <2>2. PICK r \in Runs, b \in Workers \cup {None} : r = e[2] /\ b = e[3]
        BY <2>1
    <2>3. cascade' = (cascade \ {e}) \cup {<<"request", c, b>> : c \in {k \in Kids(r) : run[k] # "absent"}}
        BY <1>12, <2>2 DEF CascadeChildPipelineCancellation
    <2>4. \A c \in Kids(r) : <<"request", c, b>> \in {"request", "list"} \X Runs \X (Workers \cup {None})
        BY <2>2, ParentOfKid
    <2>5. cascade' \subseteq {"request", "list"} \X Runs \X (Workers \cup {None})
        BY <1>c, <2>3, <2>4
    <2>6. UNCHANGED <<run, bridge>>
        BY <1>12 DEF CascadeChildPipelineCancellation, runVars
    <2> QED
        BY <1>i, <2>5, <2>6, QuietRows
<1>13. CASE LoseRequest
    <2>1. /\ UNCHANGED <<run, bridge>>
          /\ cascade' \subseteq {"request", "list"} \X Runs \X (Workers \cup {None})
        BY <1>13, <1>c DEF LoseRequest, runVars
    <2> QED
        BY <1>i, <2>1, QuietRows
<1> QED
    BY <1>1, <1>2, <1>3, <1>4, <1>5, <1>6, <1>7, <1>8, <1>9, <1>10, <1>11, <1>12, <1>13
       DEF Next, WorkerStep, CascadeStep

-----------------------------------------------------------------------------
(* The workers *)

WorkInv == WorkerTypeOK /\ WorkersOwnTheirRun /\ PassedBridgesEnded /\ ListedChildrenEnded

WorkerStates == [pc : {"idle", "settle", "execute"}, run : Runs \cup {None},
                 at : Nat \ {0}, links : SUBSET Children]

\* Where a worker may be after a step
Moved(w) ==
    /\ wk'[w].pc = "execute" <=> wk'[w].run # None
    /\ wk'[w].pc = "execute" =>
         /\ run'[wk'[w].run] = "running"
         /\ \A i \in 1..(wk'[w].at - 1) :
              i \in 1..Len(Bridges[wk'[w].run]) => bridge'[Bridges[wk'[w].run][i]] \in Terminal
    /\ wk'[w].pc # "settle" => wk'[w].links = {}
    /\ \A c \in wk'[w].links : c \in Mirrored /\ run'[c] \in Terminal

\* A worker that a step leaves alone keeps what it has, if its run goes on.
LEMMA Untouched ==
    ASSUME Tree, WorkInv, Stays, NEW w \in Workers, wk'[w] = wk[w],
           At(w, "execute") => run'[wk[w].run] = "running"
    PROVE  Moved(w)
<1>1. wk[w] \in WorkerStates
    BY DEF WorkInv, WorkerTypeOK, WorkerStates
<1>2. wk[w].pc = "execute" <=> wk[w].run # None
    BY DEF WorkInv, WorkersOwnTheirRun, At
<1>3. ASSUME wk[w].pc = "execute", NEW i \in 1..(wk[w].at - 1), i \in 1..Len(Bridges[wk[w].run])
      PROVE  bridge'[Bridges[wk[w].run][i]] \in Terminal
    <2>1. bridge[Bridges[wk[w].run][i]] \in Terminal
        BY <1>3 DEF WorkInv, PassedBridgesEnded, At
    <2>2. wk[w].run \in Runs
        BY <1>1, <1>2, <1>3 DEF WorkerStates
    <2>3. Bridges[wk[w].run][i] \in Children
        BY <1>3, <2>2, ParentOfKid DEF Kids
    <2> QED
        BY <2>1, <2>3 DEF Stays
<1>4. \A c \in wk[w].links : c \in Mirrored /\ run'[c] \in Terminal
    BY <1>1, KidOfParent DEF WorkInv, ListedChildrenEnded, Stays, WorkerStates
<1>5. wk[w].pc # "settle" => wk[w].links = {}
    BY DEF WorkInv, ListedChildrenEnded, At
<1> QED
    BY <1>2, <1>3, <1>4, <1>5 DEF Moved, At

\* Workers that are each where they may be
LEMMA WorkersKept ==
    ASSUME Tree, wk' \in [Workers -> WorkerStates], \A w \in Workers : Moved(w),
           \A v, w \in Workers : wk'[v].run = wk'[w].run /\ wk'[w].run # None => v = w
    PROVE  WorkInv'
<1>1. WorkerTypeOK'
    BY DEF WorkerTypeOK, WorkerStates, Children, Kids
<1>2. WorkersOwnTheirRun'
    BY DEF WorkersOwnTheirRun, Moved, At
<1>3. PassedBridgesEnded'
    BY DEF PassedBridgesEnded, Moved, At
<1>4. ListedChildrenEnded'
    BY DEF ListedChildrenEnded, Moved, At
<1> QED
    BY <1>1, <1>2, <1>3, <1>4 DEF WorkInv

\* Steps of the tables alone
LEMMA NobodyMoves ==
    ASSUME Tree, WorkInv, Stays, UNCHANGED wk,
           \A w \in Workers : At(w, "execute") => run'[wk[w].run] = "running"
    PROVE  WorkInv'
<1>1. \A w \in Workers : Moved(w)
    BY Untouched
<1>2. wk' \in [Workers -> WorkerStates]
    BY DEF WorkInv, WorkerTypeOK, WorkerStates
<1>3. \A v, w \in Workers : wk'[v].run = wk'[w].run /\ wk'[w].run # None => v = w
    BY DEF WorkInv, WorkersOwnTheirRun
<1> QED
    BY <1>1, <1>2, <1>3, WorkersKept

\* Steps of one worker
LEMMA OneMoves ==
    ASSUME Tree, WorkInv, Stays, NEW w \in Workers, NEW n \in WorkerStates, wk' = [wk EXCEPT ![w] = n],
           \A v \in Workers \ {w} : At(v, "execute") => run'[wk[v].run] = "running",
           n.pc = "execute" <=> n.run # None,
           n.pc = "execute" =>
             /\ run'[n.run] = "running"
             /\ \A v \in Workers \ {w} : wk[v].run # n.run
             /\ \A i \in 1..(n.at - 1) :
                  i \in 1..Len(Bridges[n.run]) => bridge'[Bridges[n.run][i]] \in Terminal,
           n.pc # "settle" => n.links = {},
           \A c \in n.links : c \in Mirrored /\ run'[c] \in Terminal
    PROVE  WorkInv'
<1>1. wk'[w] = n /\ \A v \in Workers \ {w} : wk'[v] = wk[v]
    BY DEF WorkInv, WorkerTypeOK
<1>2. wk' \in [Workers -> WorkerStates]
    BY DEF WorkInv, WorkerTypeOK, WorkerStates
<1>3. Moved(w)
    BY <1>1 DEF Moved
<1>4. \A v \in Workers \ {w} : Moved(v)
    BY <1>1, Untouched
<1>5. ASSUME NEW u \in Workers, NEW v \in Workers, wk'[u].run = wk'[v].run, wk'[v].run # None PROVE u = v
    <2>1. CASE u = w \/ v = w
        BY <1>1, <1>5, <2>1
    <2>2. CASE u # w /\ v # w
        BY <1>1, <1>5, <2>2 DEF WorkInv, WorkersOwnTheirRun
    <2> QED
        BY <2>1, <2>2
<1> QED
    BY <1>2, <1>3, <1>4, <1>5, WorkersKept

\* A worker that leaves its run
LEMMA WorkerLeaves ==
    ASSUME Tree, WorkInv, Stays, NEW w \in Workers, Leave(w),
           \A v \in Workers \ {w} : At(v, "execute") => run'[wk[v].run] = "running"
    PROVE  WorkInv'
<1>1. Out("idle") \in WorkerStates /\ Out("idle").pc = "idle" /\ Out("idle").run = None /\ Out("idle").links = {}
    BY DEF Out, WorkerStates
<1>2. PICK n \in WorkerStates : n = Out("idle")
    BY <1>1
<1>3. wk' = [wk EXCEPT ![w] = n]
    BY <1>2 DEF Leave
<1> QED
    BY <1>1, <1>2, <1>3, OneMoves

\* A run that somebody executes goes on.
LEMMA RunOfWorker ==
    ASSUME WorkInv, NEW v \in Workers, At(v, "execute")
    PROVE  wk[v].run \in Runs /\ run[wk[v].run] = "running"
BY DEF WorkInv, WorkersOwnTheirRun, WorkerTypeOK

\* Steps by which no run stops running
LEMMA TableWorkers ==
    ASSUME Tree, RowTypeOK, WorkInv, Stays, UNCHANGED wk,
           \A r \in Runs : run[r] = "running" => run'[r] = "running"
    PROVE  WorkInv'
BY RunOfWorker, NobodyMoves

\* A cancellation in flight ends no run that is executed.
LEMMA CommitWorkers ==
    ASSUME Tree, RowInv, WorkInv, Stays, NEW e \in cascade, CommitCancellation(e)
    PROVE  WorkInv'
<1>1. e \in {"request", "list"} \X Runs \X (Workers \cup {None})
    BY DEF RowInv, RowTypeOK
<1>2. PICK r \in Runs : r = e[2]
    BY <1>1
<1>3. \A k \in Runs : run[k] = "running" => run'[k] = "running"
    BY <1>2, CancellationRows DEF CommitCancellation, RowInv, RowTypeOK
<1> QED
    BY <1>3, TableWorkers DEF CommitCancellation, RowInv

\* A run is recovered only from nobody.
LEMMA RecoverWorkers ==
    ASSUME Tree, RowTypeOK, WorkInv, Stays, NEW r \in Runs, RecoverRun(r)
    PROVE  WorkInv'
<1>1. \A v \in Workers : At(v, "execute") => run'[wk[v].run] = "running"
    BY RunOfWorker DEF RecoverRun, RowTypeOK
<1> QED
    BY <1>1, NobodyMoves DEF RecoverRun

\* What is listed has ended.
LEMMA ListWorkers ==
    ASSUME Tree, RowTypeOK, WorkInv, Stays, NEW w \in Workers, ListCompleted(w)
    PROVE  WorkInv'
<1> DEFINE n == [wk[w] EXCEPT !.pc = "settle", !.links = {c \in Children : Completed(c)}]
<1>1. wk[w] \in WorkerStates
    BY DEF WorkInv, WorkerTypeOK, WorkerStates
<1>2. n \in WorkerStates /\ n.pc = "settle" /\ n.run = wk[w].run /\ n.links = {c \in Children : Completed(c)}
    BY <1>1 DEF WorkerStates
<1>3. n.run = None
    BY <1>2 DEF ListCompleted, At, WorkInv, WorkersOwnTheirRun
<1>4. wk' = [wk EXCEPT ![w] = n] /\ run' = run
    BY <1>1 DEF ListCompleted, runVars, WorkInv, WorkerTypeOK
<1>5. \A c \in n.links : c \in Mirrored /\ run'[c] \in Terminal
    BY <1>2, <1>4 DEF Completed
<1>6. \A v \in Workers \ {w} : At(v, "execute") => run'[wk[v].run] = "running"
    BY <1>4, RunOfWorker
<1> HIDE DEF n
<1> QED
    BY <1>2, <1>3, <1>4, <1>5, <1>6, OneMoves

\* A settled link is taken off the list.
LEMMA SettleWorkers ==
    ASSUME Tree, RowTypeOK, WorkInv, Stays, NEW w \in Workers, SettleChildPipeline(w)
    PROVE  WorkInv'
<1>1. PICK c \in wk[w].links :
         /\ wk' = [wk EXCEPT ![w].links = @ \ {c}]
         /\ IF run[c] = "cancelled" THEN UNCHANGED runVars
            ELSE run' = [run EXCEPT ![Parent(c)] = IF @ = "waiting" THEN "queued" ELSE @]
    BY DEF SettleChildPipeline
<1> DEFINE n == [wk[w] EXCEPT !.links = @ \ {c}]
<1>2. wk[w] \in WorkerStates /\ wk[w].pc = "settle"
    BY DEF WorkInv, WorkerTypeOK, WorkerStates, SettleChildPipeline, Settling, At
<1>3. n \in WorkerStates /\ n.pc = "settle" /\ n.run = wk[w].run /\ n.links = wk[w].links \ {c}
    BY <1>2 DEF WorkerStates
<1>4. n.run = None
    BY <1>2, <1>3 DEF At, WorkInv, WorkersOwnTheirRun
<1>5. wk' = [wk EXCEPT ![w] = n]
    BY <1>1, <1>2 DEF WorkInv, WorkerTypeOK
<1>6. \A d \in n.links : d \in Mirrored /\ run'[d] \in Terminal
    BY <1>2, <1>3, KidOfParent DEF WorkInv, ListedChildrenEnded, Stays, WorkerStates
<1>7. \A r \in Runs : run[r] = "running" => run'[r] = "running"
    BY <1>1 DEF runVars, RowTypeOK
<1>8. \A v \in Workers \ {w} : At(v, "execute") => run'[wk[v].run] = "running"
    BY <1>7, RunOfWorker
<1> HIDE DEF n
<1> QED
    BY <1>3, <1>4, <1>5, <1>6, <1>8, OneMoves

\* A claimed run had no worker.
LEMMA ClaimWorkers ==
    ASSUME Tree, RowTypeOK, WorkInv, Stays, NEW w \in Workers, ClaimNextQueuedRun(w)
    PROVE  WorkInv'
<1>1. CASE Leave(w) /\ UNCHANGED run
    BY <1>1, RunOfWorker, WorkerLeaves
<1>2. CASE \E r \in Claimable : /\ run' = [run EXCEPT ![r] = "running"]
                                /\ wk' = [wk EXCEPT ![w] = [Out("execute") EXCEPT !.run = r]]
    <2>1. PICK r \in Runs : /\ run[r] = "queued" /\ run' = [run EXCEPT ![r] = "running"]
                            /\ wk' = [wk EXCEPT ![w] = [Out("execute") EXCEPT !.run = r]]
        BY <1>2 DEF Claimable
    <2> DEFINE n == [Out("execute") EXCEPT !.run = r]
    <2>2. n \in WorkerStates /\ n.pc = "execute" /\ n.run = r /\ n.at = 1 /\ n.links = {}
        BY DEF Out, WorkerStates
    <2>3. r # None
        BY DEF Tree
    <2>4. run'[r] = "running"
        BY <2>1 DEF RowTypeOK
    <2>5. \A v \in Workers \ {w} : At(v, "execute") => run'[wk[v].run] = "running"
        BY <2>1, RunOfWorker DEF RowTypeOK
    <2>6. \A v \in Workers \ {w} : wk[v].run # r
        BY <2>1, <2>3, RunOfWorker DEF WorkInv, WorkersOwnTheirRun
    <2>7. wk' = [wk EXCEPT ![w] = n]
        BY <2>1
    <2> HIDE DEF n
    <2>8. \A i \in 1..(n.at - 1) : FALSE
        BY <2>2
    <2> QED
        BY <2>2, <2>3, <2>4, <2>5, <2>6, <2>7, <2>8, OneMoves
<1> QED
    BY <1>1, <1>2 DEF ClaimNextQueuedRun

\* A bridge that is passed has ended.
LEMMA PassWorkers ==
    ASSUME Tree, RowTypeOK, WorkInv, Stays, NEW w \in Workers, PassFinishedBridge(w)
    PROVE  WorkInv'
<1> DEFINE n == [wk[w] EXCEPT !.at = @ + 1]
<1>1. wk[w] \in WorkerStates /\ wk[w].pc = "execute" /\ wk[w].run # None /\ wk[w].links = {}
    BY DEF WorkInv, WorkerTypeOK, WorkerStates, WorkersOwnTheirRun, ListedChildrenEnded,
           PassFinishedBridge, At
<1>2. /\ n \in WorkerStates /\ n.pc = "execute" /\ n.run = wk[w].run /\ n.at = wk[w].at + 1
      /\ n.links = {}
    BY <1>1 DEF WorkerStates
<1>3. wk' = [wk EXCEPT ![w] = n] /\ UNCHANGED <<run, bridge>>
    BY <1>1 DEF PassFinishedBridge, Advance, runVars, WorkInv, WorkerTypeOK
<1>4. \A v \in Workers \ {w} : At(v, "execute") => run'[wk[v].run] = "running"
    BY <1>3, RunOfWorker
<1>5. run'[wk[w].run] = "running"
    BY <1>1, <1>3, RunOfWorker DEF At
<1>6. \A v \in Workers \ {w} : wk[v].run # wk[w].run
    BY <1>1 DEF WorkInv, WorkersOwnTheirRun
<1>7. ASSUME NEW i \in 1..((wk[w].at + 1) - 1), i \in 1..Len(Bridges[wk[w].run])
      PROVE  bridge'[Bridges[wk[w].run][i]] \in Terminal
    <2>1. wk[w].at \in Nat
        BY <1>1 DEF WorkerStates
    <2>2. i \in 1..(wk[w].at - 1) \/ i = wk[w].at
        BY <2>1
    <2>3. CASE i = wk[w].at
        BY <1>3, <2>3 DEF PassFinishedBridge, MyKid
    <2>4. CASE i \in 1..(wk[w].at - 1)
        BY <1>1, <1>3, <1>7, <2>4 DEF WorkInv, PassedBridgesEnded, At
    <2> QED
        BY <2>2, <2>3, <2>4
<1> HIDE DEF n
<1> QED
    BY <1>1, <1>2, <1>3, <1>4, <1>5, <1>6, <1>7, OneMoves

\* A worker leaves the parent that begins to wait.
LEMMA StartWorkers ==
    ASSUME Tree, RowTypeOK, WorkInv, Stays, NEW w \in Workers, StartChild(w)
    PROVE  WorkInv'
<1>1. At(w, "execute") /\ MoreBridges(w)
    BY DEF StartChild
<1>2. PICK c \in Runs : c = MyKid(w)
    BY <1>1, MyKidIsKid DEF WorkInv
<1>3. PICK r \in Runs : r = wk[w].run
    BY <1>1, MyKidIsKid DEF WorkInv
<1>4. run[c] = "absent"
    BY <1>2 DEF StartChild
<1>5. CASE c \in Mirrored
    <2>1. run' = [run EXCEPT ![c] = "queued", ![r] = "waiting"] /\ Leave(w)
        BY <1>2, <1>3, <1>5 DEF StartChild
    <2>2. ASSUME NEW v \in Workers \ {w}, At(v, "execute") PROVE run'[wk[v].run] = "running"
        <3>1. PICK k \in Runs : k = wk[v].run
            BY <2>2, RunOfWorker
        <3>2. run[k] = "running" /\ k # r
            BY <1>1, <1>3, <2>2, <3>1, RunOfWorker DEF WorkInv, WorkersOwnTheirRun
        <3> QED
            BY <1>4, <2>1, <3>1, <3>2 DEF RowTypeOK
    <2> QED
        BY <2>1, <2>2, WorkerLeaves
<1>6. CASE c \notin Mirrored
    <2>1. run' = [run EXCEPT ![c] = "queued"] /\ UNCHANGED wk
        BY <1>2, <1>6 DEF StartChild
    <2>2. \A k \in Runs : run[k] = "running" => run'[k] = "running"
        BY <1>4, <2>1 DEF RowTypeOK
    <2> QED
        BY <2>1, <2>2, TableWorkers
<1> QED
    BY <1>5, <1>6

\* A worker leaves the run that ends.
LEMMA FinishRunWorkers ==
    ASSUME Tree, RowTypeOK, WorkInv, Stays, NEW w \in Workers, FinishRun(w)
    PROVE  WorkInv'
<1>1. PICK r \in Runs : r = wk[w].run
    BY RunOfWorker DEF FinishRun
<1>2. PICK s \in Terminal : run' = [run EXCEPT ![r] = s]
    BY <1>1 DEF FinishRun, Result, Terminal
<1>3. ASSUME NEW v \in Workers \ {w}, At(v, "execute") PROVE run'[wk[v].run] = "running"
    <2>1. PICK k \in Runs : k = wk[v].run
        BY <1>3, RunOfWorker
    <2>2. run[k] = "running" /\ k # r
        BY <1>1, <1>3, <2>1, RunOfWorker DEF FinishRun, WorkInv, WorkersOwnTheirRun
    <2> QED
        BY <1>2, <2>1, <2>2 DEF RowTypeOK
<1> QED
    BY <1>3, WorkerLeaves DEF FinishRun

\* Every step leaves the workers with what they own.
LEMMA StepWorkers ==
    ASSUME Tree, PipelineInv, Next
    PROVE  WorkInv'
<1>i. RowInv /\ RowTypeOK /\ WorkInv
    BY DEF PipelineInv, RowInv, WorkInv
<1>s. Stays
    BY StepRows
<1>1. ASSUME NEW r \in Runs, EnqueueRun(r) \/ CancelByOperator(r) PROVE WorkInv'
    <2>1. UNCHANGED wk /\ \A k \in Runs : run[k] = "running" => run'[k] = "running"
        BY <1>1, <1>i DEF EnqueueRun, CancelByOperator, runVars, RowTypeOK
    <2> QED
        BY <1>i, <1>s, <2>1, TableWorkers
<1>2. ASSUME NEW r \in Runs, RecoverRun(r) PROVE WorkInv'
    BY <1>2, <1>i, <1>s, RecoverWorkers
<1>3. ASSUME NEW w \in Workers, ListCompleted(w) PROVE WorkInv'
    BY <1>3, <1>i, <1>s, ListWorkers
<1>4. ASSUME NEW w \in Workers, SettleChildPipeline(w) PROVE WorkInv'
    BY <1>4, <1>i, <1>s, SettleWorkers
<1>5. ASSUME NEW w \in Workers, ClaimNextQueuedRun(w) PROVE WorkInv'
    BY <1>5, <1>i, <1>s, ClaimWorkers
<1>6. ASSUME NEW w \in Workers, PassFinishedBridge(w) PROVE WorkInv'
    BY <1>6, <1>i, <1>s, PassWorkers
<1>7. ASSUME NEW w \in Workers, StartChild(w) PROVE WorkInv'
    BY <1>7, <1>i, <1>s, StartWorkers
<1>8. ASSUME NEW w \in Workers, MeetStartedChild(w) \/ Crash(w) PROVE WorkInv'
    <2>1. Leave(w) /\ run' = run
        BY <1>8 DEF MeetStartedChild, Crash, runVars
    <2> QED
        BY <1>i, <1>s, <2>1, RunOfWorker, WorkerLeaves
<1>9. ASSUME NEW w \in Workers, FinishAsyncBridge(w) PROVE WorkInv'
    BY <1>9, <1>i, <1>s, TableWorkers DEF FinishAsyncBridge
<1>10. ASSUME NEW w \in Workers, FinishRun(w) PROVE WorkInv'
    BY <1>10, <1>i, <1>s, FinishRunWorkers
<1>11. ASSUME NEW e \in cascade, CommitCancellation(e) PROVE WorkInv'
    BY <1>11, <1>i, <1>s, CommitWorkers
<1>12. ASSUME LoseRequest \/ \E e \in cascade : CascadeChildPipelineCancellation(e) PROVE WorkInv'
    BY <1>12, <1>i, <1>s, TableWorkers DEF LoseRequest, CascadeChildPipelineCancellation, runVars
<1> QED
    BY <1>1, <1>2, <1>3, <1>4, <1>5, <1>6, <1>7, <1>8, <1>9, <1>10, <1>11, <1>12
       DEF Next, WorkerStep, CascadeStep

-----------------------------------------------------------------------------
(* Waiting parents *)

Woken == \A r \in Runs : run[r] = "waiting" <=> \E c \in Kids(r) : bridge[c] = "waiting"

Fresh == Woken /\ OneBridgeWaits /\ ListsAreFresh

\* The same, stated of a parent and its bridges by their waiting alone
LEMMA FreshFrom ==
    ASSUME Tree,
           \A r \in Runs : run'[r] = "waiting" <=> \E c \in Kids(r) : bridge'[c] = "waiting",
           \A r \in Runs : \A c, d \in Kids(r) : bridge'[c] = "waiting" /\ bridge'[d] = "waiting" => c = d,
           \A w \in Workers : \A c \in wk'[w].links : run'[Parent(c)] = "waiting" => bridge'[c] = "waiting"
    PROVE  Fresh'
<1>1. Woken'
    BY DEF Woken, Kids
<1>2. \A c, d \in Children :
         bridge'[c] = "waiting" /\ bridge'[d] = "waiting" /\ Parent(c) = Parent(d) => c = d
    BY KidOfParent
<1>3. OneBridgeWaits'
    BY <1>2 DEF OneBridgeWaits, Children, Parent, Kids
<1>4. ListsAreFresh'
    BY DEF ListsAreFresh, Parent, Kids
<1> QED
    BY <1>1, <1>3, <1>4 DEF Fresh

\* At most one bridge of a run waits.
LEMMA OneKidWaits ==
    ASSUME Tree, Fresh, NEW r \in Runs, NEW c \in Kids(r), NEW d \in Kids(r),
           bridge[c] = "waiting", bridge[d] = "waiting"
    PROVE  c = d
BY ParentOfKid DEF Fresh, OneBridgeWaits

\* Steps by which nobody begins or stops waiting
LEMMA WaitingKept ==
    ASSUME Tree, WorkerTypeOK', Fresh,
           \A r \in Runs : run'[r] = "waiting" <=> run[r] = "waiting",
           \A c \in Children : bridge'[c] = "waiting" <=> bridge[c] = "waiting",
           \A w \in Workers : \A c \in wk'[w].links :
               c \in Children /\ (run[Parent(c)] = "waiting" => bridge[c] = "waiting")
    PROVE  Fresh'
<1>1. \A r \in Runs : \A c \in Kids(r) : bridge'[c] = "waiting" <=> bridge[c] = "waiting"
    BY ParentOfKid
<1>2. \A r \in Runs : run'[r] = "waiting" <=> \E c \in Kids(r) : bridge'[c] = "waiting"
    BY <1>1 DEF Fresh, Woken
<1>3. \A r \in Runs : \A c, d \in Kids(r) : bridge'[c] = "waiting" /\ bridge'[d] = "waiting" => c = d
    BY <1>1, OneKidWaits
<1>4. \A w \in Workers : \A c \in wk'[w].links : run'[Parent(c)] = "waiting" => bridge'[c] = "waiting"
    BY KidOfParent
<1> QED
    BY <1>2, <1>3, <1>4, FreshFrom

\* The lists of a worker after a step: none, what it had, or less
LEMMA ListsKept ==
    ASSUME Tree, WorkerTypeOK, Fresh, WorkerTypeOK',
           \A r \in Runs : run'[r] = "waiting" <=> run[r] = "waiting",
           \A c \in Children : bridge'[c] = "waiting" <=> bridge[c] = "waiting",
           \A w \in Workers : wk'[w].links \subseteq wk[w].links
    PROVE  Fresh'
<1>1. ASSUME NEW w \in Workers, NEW c \in wk'[w].links
      PROVE  c \in Children /\ (run[Parent(c)] = "waiting" => bridge[c] = "waiting")
    BY <1>1 DEF WorkerTypeOK, Fresh, ListsAreFresh
<1> QED
    BY <1>1, WaitingKept

\* The links of a worker that leaves are gone.
LEMMA LeaveLists ==
    ASSUME WorkerTypeOK, NEW w \in Workers, Leave(w) \/ UNCHANGED wk
    PROVE  \A v \in Workers : wk'[v].links \subseteq wk[v].links
<1>1. Out("idle").links = {}
    BY DEF Out
<1>2. CASE Leave(w)
    <2>1. \A v \in Workers : wk'[v] = IF v = w THEN Out("idle") ELSE wk[v]
        BY <1>2 DEF Leave, WorkerTypeOK
    <2> QED
        BY <1>1, <2>1
<1> QED
    BY <1>2

\* A cancelled parent and its bridges stop waiting together.
LEMMA CommitFresh ==
    ASSUME Tree, RowInv, WorkerTypeOK, Fresh, WorkerTypeOK', NEW e \in cascade, CommitCancellation(e)
    PROVE  Fresh'
<1>1. e \in {"request", "list"} \X Runs \X (Workers \cup {None})
    BY DEF RowInv, RowTypeOK
<1>2. PICK r \in Runs : r = e[2]
    BY <1>1
<1>3. UNCHANGED wk
    BY DEF CommitCancellation
<1>4. CASE UNCHANGED <<run, bridge>>
    BY <1>3, <1>4, ListsKept
<1>5. CASE /\ run[r] \in {"queued", "waiting"} /\ run' = [run EXCEPT ![r] = "cancelled"]
           /\ bridge' = [c \in Children |->
                  IF c \in Kids(r) /\ bridge[c] \in Open THEN "cancelled" ELSE bridge[c]]
    <2>1. run'[r] = "cancelled" /\ \A s \in Runs \ {r} : run'[s] = run[s]
        BY <1>5 DEF RowInv, RowTypeOK
    <2>2. \A c \in Kids(r) : bridge'[c] # "waiting"
        BY <1>5, ParentOfKid DEF Open
    <2>3. \A s \in Runs \ {r} : \A c \in Kids(s) : bridge'[c] = bridge[c]
        BY <1>5, ParentOfKid
    <2>4. \A s \in Runs : run'[s] = "waiting" <=> \E c \in Kids(s) : bridge'[c] = "waiting"
        BY <2>1, <2>2, <2>3 DEF Fresh, Woken
    <2>5. \A s \in Runs : \A c, d \in Kids(s) : bridge'[c] = "waiting" /\ bridge'[d] = "waiting" => c = d
        BY <2>2, <2>3, OneKidWaits
    <2>6. ASSUME NEW w \in Workers, NEW c \in wk'[w].links, run'[Parent(c)] = "waiting"
          PROVE  bridge'[c] = "waiting"
        <3>1. c \in Children /\ c \in wk[w].links
            BY <1>3, <2>6 DEF WorkerTypeOK
        <3>2. PICK s \in Runs : s = Parent(c) /\ c \in Kids(s)
            BY <3>1, KidOfParent
        <3>3. s # r /\ run[s] = "waiting"
            BY <2>1, <2>6, <3>2
        <3> QED
            BY <2>3, <3>1, <3>2, <3>3 DEF Fresh, ListsAreFresh
    <2> QED
        BY <2>4, <2>5, <2>6, FreshFrom
<1> QED
    BY <1>2, <1>4, <1>5, CancellationRows DEF CommitCancellation

\* The bridge that is settled is the one its parent waits for.
LEMMA SettleFresh ==
    ASSUME Tree, RowInv, WorkInv, Fresh, WorkerTypeOK', NEW w \in Workers, SettleChildPipeline(w)
    PROVE  Fresh'
<1>1. PICK c \in wk[w].links :
         /\ wk' = [wk EXCEPT ![w].links = @ \ {c}]
         /\ IF run[c] = "cancelled" THEN UNCHANGED runVars
            ELSE /\ bridge' = [bridge EXCEPT ![c] = IF @ = "waiting" THEN Outcome(c) ELSE @]
                 /\ run' = [run EXCEPT ![Parent(c)] = IF @ = "waiting" THEN "queued" ELSE @]
    BY DEF SettleChildPipeline
<1>2. c \in Children /\ run[c] \in Terminal
    BY DEF WorkInv, WorkerTypeOK, ListedChildrenEnded
<1>3. PICK r \in Runs : r = Parent(c) /\ c \in Kids(r)
    BY <1>2, KidOfParent
<1>4. \A v \in Workers : wk'[v].links \subseteq wk[v].links
    BY <1>1 DEF WorkInv, WorkerTypeOK
<1>5. CASE run[c] = "cancelled"
    BY <1>1, <1>4, <1>5, ListsKept DEF runVars, WorkInv
<1>6. CASE run[c] # "cancelled" /\ run[r] # "waiting"
    <2>1. bridge[c] # "waiting"
        BY <1>3, <1>6 DEF Fresh, Woken
    <2>2. UNCHANGED <<run, bridge>>
        BY <1>1, <1>2, <1>3, <1>6, <2>1 DEF RowInv, RowTypeOK
    <2> QED
        BY <1>4, <2>2, ListsKept DEF WorkInv
<1>7. CASE run[c] # "cancelled" /\ run[r] = "waiting"
    <2>1. bridge[c] = "waiting"
        BY <1>3, <1>7 DEF Fresh, ListsAreFresh
    <2>2. bridge' = [bridge EXCEPT ![c] = run[c]] /\ run' = [run EXCEPT ![r] = "queued"]
        BY <1>1, <1>3, <1>7, <2>1 DEF Outcome
    <2>3. run'[r] = "queued" /\ \A s \in Runs \ {r} : run'[s] = run[s]
        BY <2>2 DEF RowInv, RowTypeOK
    <2>4. bridge'[c] # "waiting" /\ \A d \in Children \ {c} : bridge'[d] = bridge[d]
        BY <1>2, <2>2 DEF RowInv, RowTypeOK, Terminal
    <2>5. \A d \in Kids(r) : bridge'[d] # "waiting"
        BY <1>3, <2>1, <2>4, OneKidWaits, ParentOfKid
    <2>6. \A s \in Runs \ {r} : \A d \in Kids(s) : bridge'[d] = bridge[d]
        BY <1>3, <2>4, ParentOfKid
    <2>7. \A s \in Runs : run'[s] = "waiting" <=> \E d \in Kids(s) : bridge'[d] = "waiting"
        BY <2>3, <2>5, <2>6 DEF Fresh, Woken
    <2>8. \A s \in Runs : \A b, d \in Kids(s) : bridge'[b] = "waiting" /\ bridge'[d] = "waiting" => b = d
        BY <2>5, <2>6, OneKidWaits
    <2>9. ASSUME NEW v \in Workers, NEW d \in wk'[v].links, run'[Parent(d)] = "waiting"
          PROVE  bridge'[d] = "waiting"
        <3>1. d \in Children /\ d \in wk[v].links
            BY <1>4, <2>9 DEF WorkInv, WorkerTypeOK
        <3>2. PICK s \in Runs : s = Parent(d) /\ d \in Kids(s)
            BY <3>1, KidOfParent
        <3>3. s # r /\ run[s] = "waiting"
            BY <2>3, <2>9, <3>2
        <3> QED
            BY <2>6, <3>1, <3>2, <3>3 DEF Fresh, ListsAreFresh
    <2> QED
        BY <2>7, <2>8, <2>9, FreshFrom
<1> QED
    BY <1>5, <1>6, <1>7

\* A parent begins to wait while no list speaks of it: with one worker none is
\* kept, with one such bridge its child has not begun.
LEMMA StartFresh ==
    ASSUME Tree, RowInv, WorkInv, ListsStayFresh, Fresh, WorkerTypeOK', NEW w \in Workers, StartChild(w)
    PROVE  Fresh'
<1>1. At(w, "execute") /\ MoreBridges(w)
    BY DEF StartChild
<1>2. PICK r \in Runs : r = wk[w].run
    BY <1>1, MyKidIsKid DEF WorkInv
<1>3. PICK c \in Kids(r) : c = MyKid(w) /\ c \in Children /\ c \in Runs /\ Parent(c) = r
    BY <1>1, <1>2, MyKidIsKid DEF WorkInv
<1>4. run[r] = "running" /\ run[c] = "absent" /\ bridge[c] = "queued"
    BY <1>1, <1>2, <1>3 DEF StartChild
<1>5. \A v \in Workers : wk'[v].links \subseteq wk[v].links
    BY <1>1, <1>3, LeaveLists DEF StartChild, WorkInv
<1>6. CASE c \notin Mirrored
    <2>1. run' = [run EXCEPT ![c] = "queued"] /\ UNCHANGED bridge
        BY <1>3, <1>6 DEF StartChild
    <2>2. \A k \in Runs : run'[k] = "waiting" <=> run[k] = "waiting"
        BY <1>4, <2>1 DEF RowInv, RowTypeOK
    <2> QED
        BY <1>5, <2>1, <2>2, ListsKept DEF WorkInv
<1>7. CASE c \in Mirrored
    <2>1. run' = [run EXCEPT ![c] = "queued", ![r] = "waiting"] /\ bridge' = [bridge EXCEPT ![c] = "waiting"]
        BY <1>2, <1>3, <1>7 DEF StartChild
    <2>2. run'[r] = "waiting" /\ \A s \in Runs \ {r} : run'[s] = "waiting" <=> run[s] = "waiting"
        BY <1>3, <1>4, <2>1 DEF RowInv, RowTypeOK
    <2>3. bridge'[c] = "waiting" /\ \A d \in Children \ {c} : bridge'[d] = bridge[d]
        BY <1>3, <2>1 DEF RowInv, RowTypeOK
    <2>4. \A d \in Kids(r) : bridge'[d] = "waiting" <=> d = c
        BY <1>4, <2>3, ParentOfKid DEF Fresh, Woken
    <2>5. \A s \in Runs \ {r} : \A d \in Kids(s) : bridge'[d] = bridge[d]
        BY <1>3, <2>3, ParentOfKid
    <2>6. \A s \in Runs : run'[s] = "waiting" <=> \E d \in Kids(s) : bridge'[d] = "waiting"
        BY <1>3, <2>2, <2>4, <2>5 DEF Fresh, Woken
    <2>7. \A s \in Runs : \A b, d \in Kids(s) : bridge'[b] = "waiting" /\ bridge'[d] = "waiting" => b = d
        BY <2>4, <2>5, OneKidWaits
    <2>8. ASSUME NEW v \in Workers, NEW d \in wk'[v].links, run'[Parent(d)] = "waiting"
          PROVE  bridge'[d] = "waiting"
        <3>1. d \in Children /\ d \in wk[v].links /\ d \in Mirrored /\ run[d] \in Terminal
            BY <1>5, <2>8 DEF WorkInv, WorkerTypeOK, ListedChildrenEnded
        <3>2. PICK s \in Runs : s = Parent(d) /\ d \in Kids(s)
            BY <3>1, KidOfParent
        <3>3. v # w
            BY <1>1, <3>1 DEF WorkInv, ListedChildrenEnded, At
        <3>4. \A b, k \in Mirrored : Parent(b) = Parent(k) => b = k
            BY <3>3 DEF ListsStayFresh
        <3>5. d # c
            BY <1>4, <3>1 DEF Terminal
        <3>6. s # r
            BY <1>3, <1>7, <3>1, <3>2, <3>4, <3>5
        <3>7. run[s] = "waiting"
            BY <2>2, <2>8, <3>2, <3>6
        <3> QED
            BY <2>5, <3>1, <3>2, <3>6, <3>7 DEF Fresh, ListsAreFresh
    <2> QED
        BY <2>6, <2>7, <2>8, FreshFrom
<1> QED
    BY <1>6, <1>7

\* What is listed is waited for.
LEMMA ListFresh ==
    ASSUME Tree, WorkInv, Fresh, WorkerTypeOK', NEW w \in Workers, ListCompleted(w)
    PROVE  Fresh'
<1>1. UNCHANGED <<run, bridge>>
    BY DEF ListCompleted, runVars
<1>2. ASSUME NEW v \in Workers, NEW c \in wk'[v].links
      PROVE  c \in Children /\ (run[Parent(c)] = "waiting" => bridge[c] = "waiting")
    <2>1. CASE v = w
        <3>1. wk'[v].links = {d \in Children : Completed(d)}
            BY <2>1 DEF ListCompleted, WorkInv, WorkerTypeOK
        <3> QED
            BY <1>2, <3>1 DEF Completed
    <2>2. CASE v # w
        <3>1. wk'[v] = wk[v]
            BY <2>2 DEF ListCompleted, WorkInv, WorkerTypeOK
        <3> QED
            BY <1>2, <3>1 DEF Fresh, ListsAreFresh, WorkInv, WorkerTypeOK
    <2> QED
        BY <2>1, <2>2
<1> QED
    BY <1>1, <1>2, WaitingKept

\* A claimed run was not waiting.
LEMMA ClaimFresh ==
    ASSUME Tree, RowInv, WorkInv, Fresh, WorkerTypeOK', NEW w \in Workers, ClaimNextQueuedRun(w)
    PROVE  Fresh'
<1>1. UNCHANGED bridge
    BY DEF ClaimNextQueuedRun
<1>2. CASE Leave(w) /\ UNCHANGED run
    BY <1>1, <1>2, LeaveLists, ListsKept DEF WorkInv
<1>3. CASE \E r \in Claimable : /\ run' = [run EXCEPT ![r] = "running"]
                                /\ wk' = [wk EXCEPT ![w] = [Out("execute") EXCEPT !.run = r]]
    <2>1. PICK r \in Runs : /\ run[r] = "queued" /\ run' = [run EXCEPT ![r] = "running"]
                            /\ wk' = [wk EXCEPT ![w] = [Out("execute") EXCEPT !.run = r]]
        BY <1>3 DEF Claimable
    <2>2. [Out("execute") EXCEPT !.run = r].links = {}
        BY DEF Out
    <2>3. \A v \in Workers : wk'[v].links \subseteq wk[v].links
        BY <2>1, <2>2 DEF WorkInv, WorkerTypeOK
    <2>4. \A k \in Runs : run'[k] = "waiting" <=> run[k] = "waiting"
        BY <2>1 DEF RowInv, RowTypeOK
    <2> QED
        BY <1>1, <2>3, <2>4, ListsKept DEF WorkInv
<1> QED
    BY <1>2, <1>3 DEF ClaimNextQueuedRun

\* A run that ends was not waiting.
LEMMA FinishRunFresh ==
    ASSUME Tree, RowInv, WorkInv, Fresh, WorkerTypeOK', NEW w \in Workers, FinishRun(w)
    PROVE  Fresh'
<1>1. PICK r \in Runs : r = wk[w].run /\ run[r] = "running"
    BY RunOfWorker DEF FinishRun
<1>2. PICK s \in Terminal : run' = [run EXCEPT ![r] = s]
    BY <1>1 DEF FinishRun, Result, Terminal
<1>3. \A k \in Runs : run'[k] = "waiting" <=> run[k] = "waiting"
    BY <1>1, <1>2 DEF RowInv, RowTypeOK, Terminal
<1> QED
    BY <1>3, LeaveLists, ListsKept DEF FinishRun, WorkInv

\* A bridge that does not mirror never waits.
LEMMA FinishAsyncFresh ==
    ASSUME Tree, RowInv, WorkInv, Fresh, WorkerTypeOK', NEW w \in Workers, FinishAsyncBridge(w)
    PROVE  Fresh'
<1>1. PICK c \in Children : c = MyKid(w)
    BY MyKidIsKid DEF FinishAsyncBridge, WorkInv
<1>2. PICK s \in {"running", "succeeded"} : bridge' = [bridge EXCEPT ![c] = s]
    BY <1>1 DEF FinishAsyncBridge
<1>3. bridge[c] # "waiting"
    BY <1>1 DEF FinishAsyncBridge
<1>4. \A d \in Children : bridge'[d] = "waiting" <=> bridge[d] = "waiting"
    BY <1>2, <1>3 DEF RowInv, RowTypeOK
<1> QED
    BY <1>4, ListsKept DEF FinishAsyncBridge, WorkInv

\* Every step keeps waiting parents with their bridges.
LEMMA StepFresh ==
    ASSUME Tree, PipelineInv, ListsStayFresh, Fresh, Next
    PROVE  Fresh'
<1>i. RowInv /\ WorkInv /\ WorkerTypeOK
    BY DEF PipelineInv, RowInv, WorkInv
<1>t. WorkerTypeOK'
    BY StepWorkers DEF WorkInv
<1>1. ASSUME NEW r \in Runs, EnqueueRun(r) \/ CancelByOperator(r) PROVE Fresh'
    <2>1. /\ UNCHANGED <<bridge, wk>>
          /\ \A k \in Runs : run'[k] = "waiting" <=> run[k] = "waiting"
        BY <1>1, <1>i DEF EnqueueRun, CancelByOperator, runVars, RowInv, RowTypeOK
    <2> QED
        BY <1>i, <1>t, <2>1, ListsKept
<1>2. ASSUME NEW r \in Runs, RecoverRun(r) PROVE Fresh'
    <2>1. \A k \in Runs : run'[k] = "waiting" <=> run[k] = "waiting"
        BY <1>2, <1>i DEF RecoverRun, RowInv, RowTypeOK
    <2>2. UNCHANGED wk /\ \A c \in Children : bridge'[c] = "waiting" <=> bridge[c] = "waiting"
        BY <1>2 DEF RecoverRun
    <2> QED
        BY <1>i, <1>t, <2>1, <2>2, ListsKept
<1>3. ASSUME NEW w \in Workers, ListCompleted(w) PROVE Fresh'
    BY <1>3, <1>i, <1>t, ListFresh
<1>4. ASSUME NEW w \in Workers, SettleChildPipeline(w) PROVE Fresh'
    BY <1>4, <1>i, <1>t, SettleFresh
<1>5. ASSUME NEW w \in Workers, ClaimNextQueuedRun(w) PROVE Fresh'
    BY <1>5, <1>i, <1>t, ClaimFresh
<1>6. ASSUME NEW w \in Workers, PassFinishedBridge(w) PROVE Fresh'
    <2>1. UNCHANGED <<run, bridge>> /\ \A v \in Workers : wk'[v].links \subseteq wk[v].links
        BY <1>6, <1>i DEF PassFinishedBridge, Advance, runVars, WorkerTypeOK
    <2> QED
        BY <1>i, <1>t, <2>1, ListsKept
<1>7. ASSUME NEW w \in Workers, StartChild(w) PROVE Fresh'
    BY <1>7, <1>i, <1>t, StartFresh
<1>8. ASSUME NEW w \in Workers, MeetStartedChild(w) \/ Crash(w) PROVE Fresh'
    <2>1. UNCHANGED <<run, bridge>> /\ Leave(w)
        BY <1>8 DEF MeetStartedChild, Crash, runVars
    <2> QED
        BY <1>i, <1>t, <2>1, LeaveLists, ListsKept
<1>9. ASSUME NEW w \in Workers, FinishAsyncBridge(w) PROVE Fresh'
    BY <1>9, <1>i, <1>t, FinishAsyncFresh
<1>10. ASSUME NEW w \in Workers, FinishRun(w) PROVE Fresh'
    BY <1>10, <1>i, <1>t, FinishRunFresh
<1>11. ASSUME NEW e \in cascade, CommitCancellation(e) PROVE Fresh'
    BY <1>11, <1>i, <1>t, CommitFresh
<1>12. ASSUME LoseRequest \/ \E e \in cascade : CascadeChildPipelineCancellation(e) PROVE Fresh'
    <2>1. UNCHANGED <<run, bridge, wk>>
        BY <1>12 DEF LoseRequest, CascadeChildPipelineCancellation, runVars
    <2> QED
        BY <1>i, <1>t, <2>1, ListsKept
<1> QED
    BY <1>1, <1>2, <1>3, <1>4, <1>5, <1>6, <1>7, <1>8, <1>9, <1>10, <1>11, <1>12
       DEF Next, WorkerStep, CascadeStep

-----------------------------------------------------------------------------
(* The theorems *)

\* Before the first run, nothing waits and nothing has ended.
LEMMA InitPipeline ==
    ASSUME Tree, Init
    PROVE  PipelineInv
<1>1. WorkerTypeOK
    BY DEF Init, WorkerTypeOK, Out
<1>2. RowTypeOK
    BY DEF Init, RowTypeOK
<1>3. \A w \in Workers : wk[w].pc = "idle" /\ wk[w].run = None /\ wk[w].links = {}
    BY DEF Init, Out
<1>4. WorkersOwnTheirRun /\ PassedBridgesEnded /\ ListedChildrenEnded
    BY <1>3 DEF WorkersOwnTheirRun, PassedBridgesEnded, ListedChildrenEnded, At
<1>5. BridgesTellTheOutcome
    BY DEF Init, BridgesTellTheOutcome
<1>6. MirrorsAreHonest
    BY KidOfParent DEF Init, MirrorsAreHonest, Tree
<1>7. FreshInv
    <2>1. WaitingParentHasBridge
        BY ParentOfKid DEF Init, WaitingParentHasBridge
    <2>2. OneBridgeWaits /\ ListsAreFresh
        BY <1>3 DEF Init, OneBridgeWaits, ListsAreFresh
    <2> QED
        BY <2>1, <2>2 DEF FreshInv
<1> QED
    BY <1>1, <1>2, <1>4, <1>5, <1>6, <1>7 DEF PipelineInv

\* PipelineInv is inductive.
LEMMA StepPipeline ==
    ASSUME Tree, PipelineInv, [Next]_vars
    PROVE  PipelineInv'
<1>i. RowInv /\ RowTypeOK /\ WorkInv /\ WorkerTypeOK
    BY DEF PipelineInv, RowInv, WorkInv
<1>1. RowInv' /\ WorkInv'
    <2>1. CASE Next
        BY <2>1, StepRows, StepWorkers
    <2>2. CASE UNCHANGED vars
        <3>1. UNCHANGED <<run, bridge, cascade, wk>>
            BY <2>2 DEF vars, runVars
        <3>2. RowInv' /\ Stays
            BY <1>i, <3>1, QuietRows DEF RowTypeOK
        <3> QED
            BY <1>i, <3>1, <3>2, TableWorkers
    <2> QED
        BY <2>1, <2>2
<1>2. ASSUME ListsStayFresh, Fresh PROVE Fresh'
    <2>1. CASE Next
        BY <1>2, <2>1, StepFresh
    <2>2. CASE UNCHANGED vars
        BY <1>i, <1>1, <1>2, <2>2, ListsKept DEF vars, runVars, WorkInv
    <2> QED
        BY <2>1, <2>2
<1>3. CASE ListsStayFresh
    <2>1. Fresh
        BY <1>3 DEF PipelineInv, FreshInv, WaitingParentHasBridge, Woken, Fresh
    <2>2. Fresh'
        BY <1>2, <1>3, <2>1
    <2>3. WaitingParentHasBridge'
        BY <2>2 DEF Fresh, Woken, WaitingParentHasBridge
    <2> QED
        BY <1>1, <2>2, <2>3 DEF PipelineInv, RowInv, WorkInv, FreshInv, Fresh
<1>4. CASE ~ListsStayFresh
    <2>1. ~ListsStayFresh'
        BY <1>4 DEF ListsStayFresh, Parent, Kids
    <2> QED
        BY <1>1, <2>1 DEF PipelineInv, RowInv, WorkInv, FreshInv
<1> QED
    BY <1>3, <1>4

\* PipelineInv holds of every reachable state.
THEOREM PipelineInvariant ==
    ASSUME Tree
    PROVE  Spec => []PipelineInv
<1>1. Init => PipelineInv
    BY InitPipeline
<1>2. PipelineInv /\ [Next]_vars => PipelineInv'
    BY StepPipeline
<1> QED
    BY <1>1, <1>2, PTL DEF Spec

\* Parents and children agree about each other: a run waits exactly while one
\* of its bridges does, unless its list of children may be stale; a mirroring
\* bridge tells what its child did; a parent succeeds only if the children it
\* mirrors did (insertChildPipelineLink, ReconcileCompletedChildPipelines).
THEOREM PipelinesAlwaysAgree ==
    ASSUME Tree
    PROVE  Spec => []PipelinesAgree
<1>1. PipelineInv => PipelinesAgree
    <2> SUFFICES ASSUME PipelineInv PROVE PipelinesAgree
        OBVIOUS
    <2>1. WaitingParentHasBridge
        BY DEF PipelineInv, FreshInv, WaitingParentHasBridge
    <2>2. \A k \in Children :
             bridge[k] \in Terminal \cup {"queued", IF k \in Mirrored THEN "waiting" ELSE "running"}
        BY DEF PipelineInv, RowTypeOK, Terminal
    <2>3. PipelineTypeOK
        BY <2>2 DEF PipelineInv, RowTypeOK, WorkerTypeOK, PipelineTypeOK
    <2> QED
        BY <2>1, <2>3 DEF PipelineInv, PipelinesAgree
<1> QED
    BY <1>1, PipelineInvariant, PTL
=============================================================================
