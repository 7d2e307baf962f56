--------------------------- MODULE RagStepProofs ---------------------------
(***************************************************************************)
(* Proofs about RagStep, for every number of executors, items and threads, *)
(* in either mode and however often executions crash, stop, are taken for  *)
(* dead or overlap: type correctness, the bound on the futures, what the    *)
(* counters owe to the rows, the promise of ResultSheet, and the           *)
(* coordinator's part of ItemFutures.                                      *)
(***************************************************************************)
EXTENDS RagStep, FiniteSetTheorems, TLAPS

Full == \A i \in Items : rows[i] # "none"

\* Where an execution is and what its pool may hold there: nothing outside the
\* loop, and in sequential mode a single item.
Shape(e) ==
  /\ pc[e] \in {"idle", "taken", "loading", "opening", "opened", "ready", "pick", "closing",
               "closed", "finishing"}
       => inFlight[e] = {}
  /\ e \notin Parallel => pc[e] \notin {"ready", "top", "wait"}
  /\ e \in Parallel => pc[e] # "pick"
  /\ e \notin Parallel => \A i, k \in inFlight[e] : i = k

\* No item is lost: until the loop ends an item without a row is still to be
\* produced or in flight, and after that there is none.
Covered(e) ==
  /\ pc[e] \in {"opening", "opened", "ready", "pick", "top", "wait", "record"} =>
       \A i \in Items : rows[i] = "none" => i \in todo[e] \cup inFlight[e]
  /\ pc[e] \in {"closing", "closed", "finishing"} => Full
  /\ pc[e] = "finishing" => progress.total = Cardinality(Items)

\* The parallel loop only runs dry when there is nothing left to submit.
Fed(e) ==
  pc[e] \in {"top", "wait", "record"} /\ e \in Parallel /\ todo[e] # {} /\ ~draining[e] =>
    inFlight[e] # {}

Bounded(e) == Cardinality(inFlight[e]) <= Concurrency

ExecInv(e) == PoolOK(e) /\ Shape(e) /\ Covered(e) /\ Fed(e) /\ Bounded(e)

\* A step that has succeeded has all its rows.
Done == status = "succeeded" => Full /\ progress.total = Cardinality(Items)

IInv == DbOK /\ LocalOK /\ (\A e \in Executors : ExecInv(e)) /\ Done

-----------------------------------------------------------------------------
(* What an action of one executor leaves alone *)

Same(d) ==
  /\ pc'[d] = pc[d] /\ todo'[d] = todo[d] /\ inFlight'[d] = inFlight[d]
  /\ future'[d] = future[d] /\ batch'[d] = batch[d] /\ draining'[d] = draining[d]
  /\ cause'[d] = cause[d]

RowsGrow ==
  /\ \A i \in Items : rows[i] # "none" => rows'[i] # "none"
  /\ progress.total = Cardinality(Items) => progress'.total = Cardinality(Items)

\* An execution nothing has been done to keeps its invariant as rows are added.
LEMMA Frame ==
  ASSUME NEW d \in Executors, ExecInv(d), Same(d), RowsGrow
  PROVE  ExecInv(d)'
<1>1. PoolOK(d)'
  BY DEF ExecInv, PoolOK, Same
<1>2. Shape(d)' /\ Fed(d)' /\ Bounded(d)'
  BY DEF ExecInv, Shape, Fed, Bounded, Same
<1>3. Covered(d)'
  BY DEF ExecInv, Covered, Full, Same, RowsGrow
<1> QED
  BY <1>1, <1>2, <1>3 DEF ExecInv

\* The step of one executor: its own invariant and the database's are enough.
LEMMA OneActs ==
  ASSUME IInv, NEW e \in Executors, DbOK', LocalOK', ExecInv(e)', Done',
         \A d \in Executors \ {e} : Same(d), RowsGrow
  PROVE  IInv'
<1>1. ASSUME NEW d \in Executors PROVE ExecInv(d)'
  BY <1>1, Frame DEF IInv
<1> QED
  BY <1>1 DEF IInv

\* ... and the database's is kept by a step that leaves it alone.
LEMMA DbKept ==
  ASSUME IInv, UNCHANGED db, crashes' \in Nat, signals' \in Nat, late' \in Nat, retries' \in Nat
  PROVE  DbOK' /\ Done' /\ RowsGrow
BY DEF IInv, DbOK, Done, Full, RowsGrow, db

\* The rows survive a change of the step's status alone.
LEMMA StatusChanged ==
  ASSUME IInv, UNCHANGED <<rows, progress>>, UNCHANGED budgets,
         status' \in {"pending", "running", "succeeded", "failed"}, attempt' \in Nat,
         shared' \in BOOLEAN, status' = "succeeded" => Full /\ progress.total = Cardinality(Items)
  PROVE  DbOK' /\ Done' /\ RowsGrow
BY DEF IInv, DbOK, Done, Full, RowsGrow, budgets

\* An executor that has left the step holds nothing.
LEMMA Forgotten ==
  ASSUME LocalOK, NEW e \in Executors, Forget(e), UNCHANGED stopping
  PROVE  LocalOK' /\ ExecInv(e)' /\ \A d \in Executors \ {e} : Same(d)
<1>1. LocalOK' /\ \A d \in Executors \ {e} : Same(d)
  BY DEF LocalOK, Forget, Goto, Same, Places, Futures, NoCount
<1>2. /\ pc'[e] = "idle" /\ todo'[e] = {} /\ inFlight'[e] = {} /\ batch'[e] = {}
      /\ future'[e] = [i \in Items |-> "none"] /\ cause'[e] = "none"
  BY DEF LocalOK, Forget, Goto
<1>3. PoolOK(e)'
  BY <1>2 DEF PoolOK
<1>4. Shape(e)' /\ Covered(e)' /\ Fed(e)'
  BY <1>2 DEF Shape, Covered, Fed
<1>5. Bounded(e)'
  BY <1>2, FS_EmptySet, RagAssumption DEF Bounded
<1> QED
  BY <1>1, <1>3, <1>4, <1>5 DEF ExecInv

-----------------------------------------------------------------------------
(* The initial state and the steps of an executor, in the program's order *)

LEMMA InitInv == Init => IInv
<1> SUFFICES ASSUME Init PROVE IInv
  OBVIOUS
<1>1. DbOK /\ LocalOK
  BY DEF Init, DbOK, LocalOK, Places, Futures, Stored, NoCount
<1>2. ASSUME NEW e \in Executors PROVE ExecInv(e)
  <2>1. PoolOK(e) /\ Shape(e) /\ Covered(e) /\ Fed(e)
    BY DEF Init, PoolOK, Shape, Covered, Fed
  <2>2. Bounded(e)
    BY FS_EmptySet, RagAssumption DEF Init, Bounded
  <2> QED
    BY <2>1, <2>2 DEF ExecInv
<1> QED
  BY <1>1, <1>2 DEF Init, Done, IInv

LEMMA TakeKeeps ==
  ASSUME IInv, NEW e \in Executors, Take(e)
  PROVE  IInv'
<1>1. LocalOK' /\ \A d \in Executors \ {e} : Same(d)
  BY DEF Take, Goto, IInv, LocalOK, DbOK, Same, Places, pool, drain
<1>2. ExecInv(e)'
  BY DEF Take, Goto, IInv, LocalOK, ExecInv, PoolOK, Shape, Covered, Fed, Bounded, pool, drain
<1>3. DbOK' /\ Done' /\ RowsGrow
  BY DbKept DEF Take, IInv, DbOK, budgets
<1> QED
  BY <1>1, <1>2, <1>3, OneActs

LEMMA BeginKeeps ==
  ASSUME IInv, NEW e \in Executors, Begin(e)
  PROVE  IInv'
<1>1. LocalOK' /\ \A d \in Executors \ {e} : Same(d)
  BY DEF Begin, Goto, IInv, LocalOK, DbOK, Same, Places, pool, drain
<1>2. ExecInv(e)'
  BY DEF Begin, Goto, IInv, LocalOK, ExecInv, PoolOK, Shape, Covered, Fed, Bounded, pool, drain
<1>3. attempt' \in Nat /\ shared' \in BOOLEAN
  BY DEF Begin, IInv, DbOK, LocalOK
<1>4. DbOK' /\ Done' /\ RowsGrow
  BY <1>3, StatusChanged DEF Begin
<1> QED
  BY <1>1, <1>2, <1>4, OneActs

LEMMA LoadKeeps ==
  ASSUME IInv, NEW e \in Executors, Load(e)
  PROVE  IInv'
<1>1. LocalOK' /\ \A d \in Executors \ {e} : Same(d)
  BY DEF Load, Goto, Missing, IInv, LocalOK, DbOK, Same, Places, drain
<1>2. /\ pc[e] = "loading" /\ pc'[e] = "opening" /\ todo'[e] = Missing
      /\ inFlight[e] = {} /\ inFlight'[e] = {}
  BY DEF Load, Goto, IInv, LocalOK, ExecInv, Shape
<1>3. PoolOK(e)'
  BY <1>2 DEF Load, IInv, ExecInv, PoolOK
<1>4. Shape(e)' /\ Covered(e)' /\ Fed(e)' /\ Bounded(e)'
  BY <1>2 DEF Load, Missing, IInv, ExecInv, Shape, Covered, Fed, Bounded, db
<1>5. DbOK' /\ Done' /\ RowsGrow
  BY DbKept DEF Load, IInv, DbOK, budgets
<1> QED
  BY <1>1, <1>3, <1>4, <1>5, OneActs DEF ExecInv

LEMMA HavingCounts ==
  ASSUME NEW o
  PROVE  IsFiniteSet(Having(o)) /\ Cardinality(Having(o)) \in Nat
<1>1. IsFiniteSet(Having(o))
  BY FS_Subset, RagAssumption DEF Having
<1> QED
  BY <1>1, FS_CardinalityType

\* The count of reconcile, at the opening and at the closing.
LEMMA CountKeeps ==
  ASSUME IInv, NEW e \in Executors, Count(e)
  PROVE  IInv'
<1>1. LocalOK' /\ \A d \in Executors \ {e} : Same(d)
  <2>1. [o \in Stored |-> Cardinality(Having(o))] \in [Stored -> Nat]
    BY HavingCounts
  <2>2. counted' \in [Executors -> [Stored -> Nat]]
    BY <2>1 DEF Count, IInv, LocalOK
  <2> QED
    BY <2>2 DEF Count, Goto, IInv, LocalOK, Same, Places, pool, drain
<1>2. ExecInv(e)'
  BY DEF Count, Goto, IInv, LocalOK, ExecInv, PoolOK, Shape, Covered, Full, Fed, Bounded, pool,
     drain, db
<1>3. DbOK' /\ Done' /\ RowsGrow
  BY DbKept DEF Count, IInv, DbOK, budgets
<1> QED
  BY <1>1, <1>2, <1>3, OneActs

\* The update of both reconciles.
LEMMA ReconcileKeeps ==
  ASSUME IInv, NEW e \in Executors, Reconcile(e), UNCHANGED budgets
  PROVE  /\ DbOK' /\ Done' /\ RowsGrow /\ progress'.total = Cardinality(Items)
         /\ counted' \in [Executors -> [Stored -> Nat]]
<1>1. Cardinality(Items) \in Nat
  BY FS_CardinalityType, RagAssumption
<1>2. counted[e].succeeded \in Nat /\ counted[e].failed \in Nat
  BY DEF IInv, LocalOK, Stored
<1>3. DbOK' /\ progress'.total = Cardinality(Items)
  BY <1>1, <1>2 DEF Reconcile, IInv, DbOK, budgets
<1>4. Done' /\ RowsGrow
  BY <1>3 DEF Reconcile, IInv, Done, Full, RowsGrow
<1>5. counted' \in [Executors -> [Stored -> Nat]]
  BY DEF Reconcile, NoCount, IInv, LocalOK
<1> QED
  BY <1>3, <1>4, <1>5

LEMMA OpenKeeps ==
  ASSUME IInv, NEW e \in Executors, Open(e)
  PROVE  IInv'
<1>1. LocalOK' /\ \A d \in Executors \ {e} : Same(d)
  BY RagAssumption, ReconcileKeeps DEF Open, Goto, IInv, LocalOK, Same, Places, pool, drain
<1>2. ExecInv(e)'
  BY DEF Open, Reconcile, Goto, IInv, LocalOK, ExecInv, PoolOK, Shape, Covered, Fed, Bounded,
     pool, drain
<1>3. DbOK' /\ Done' /\ RowsGrow
  BY ReconcileKeeps DEF Open
<1> QED
  BY <1>1, <1>2, <1>3, OneActs

LEMMA CloseKeeps ==
  ASSUME IInv, NEW e \in Executors, Close(e)
  PROVE  IInv'
<1>1. LocalOK' /\ \A d \in Executors \ {e} : Same(d)
  BY ReconcileKeeps DEF Close, Goto, IInv, LocalOK, Same, Places, pool, drain
<1>2. progress'.total = Cardinality(Items) /\ DbOK' /\ Done' /\ RowsGrow
  BY ReconcileKeeps DEF Close
<1>3. ExecInv(e)'
  BY <1>2 DEF Close, Reconcile, Goto, IInv, LocalOK, ExecInv, PoolOK, Shape, Covered, Full, Fed,
     Bounded, pool, drain
<1> QED
  BY <1>1, <1>2, <1>3, OneActs

-----------------------------------------------------------------------------
(* The pool *)

\* Steps of the coordinator that move it on without touching the pool.
LEMMA MoveKeeps ==
  ASSUME IInv, NEW e \in Executors,
         \/ EndSequential(e) \/ RefuseToStart(e) \/ Watch(e) \/ GiveUp(e)
         \/ Heartbeat(e) \/ EndParallel(e)
  PROVE  IInv'
<1> USE DEF Goto, Raise, LoopEnds, NoticeStop
<1>1. LocalOK' /\ (\A d \in Executors \ {e} : Same(d)) /\ UNCHANGED <<db, pool, budgets>>
  <2>1. CASE EndSequential(e) \/ EndParallel(e)
    BY <2>1 DEF EndSequential, EndParallel, IInv, LocalOK, Same, Places, pool, drain
  <2>2. CASE RefuseToStart(e) \/ GiveUp(e)
    BY <2>2 DEF RefuseToStart, GiveUp, IInv, LocalOK, Same, Places, pool, drain
  <2>3. CASE Watch(e) \/ Heartbeat(e)
    BY <2>3 DEF Watch, Heartbeat, IInv, LocalOK, Same, Places, pool, drain
  <2> QED
    BY <2>1, <2>2, <2>3
<1>2. CASE EndSequential(e)
  <2>1. inFlight[e] = {} /\ (todo[e] = {} => Full)
    BY <1>2 DEF EndSequential, IInv, ExecInv, Shape, Covered, Full
  <2>2. Full => Full'
    BY <1>1 DEF Full, db
  <2>3. /\ pc[e] = "pick" /\ pc'[e] \in {"unwinding", "closing"}
        /\ pc'[e] = "unwinding" <=> cause'[e] # "none"
    BY <1>2 DEF EndSequential, IInv, LocalOK, ExecInv, PoolOK
  <2>4. PoolOK(e)' /\ Shape(e)' /\ Fed(e)' /\ Bounded(e)'
    BY <1>1, <2>1, <2>3 DEF IInv, ExecInv, PoolOK, Shape, Fed, Bounded, pool
  <2>5. Covered(e)'
    BY <1>2, <2>1, <2>2 DEF EndSequential, IInv, LocalOK, Covered
  <2> QED
    BY <1>1, <2>4, <2>5, DbKept, OneActs DEF IInv, DbOK, ExecInv, budgets
<1>3. CASE EndParallel(e)
  <2>1. e \in Parallel
    BY <1>3 DEF EndParallel, IInv, ExecInv, Shape
  <2>2. inFlight[e] = {} /\ (~draining[e] => todo[e] = {})
    BY <1>3, <2>1 DEF EndParallel, IInv, ExecInv, Fed
  <2>3. ~draining[e] => Full
    BY <1>3, <2>2 DEF EndParallel, IInv, ExecInv, Covered, Full
  <2>4. Full => Full'
    BY <1>1 DEF Full, db
  <2>5. /\ pc[e] = "top" /\ pc'[e] \in {"unwinding", "closing"}
        /\ pc'[e] = "unwinding" <=> cause'[e] # "none"
    BY <1>3 DEF EndParallel, IInv, LocalOK, ExecInv, PoolOK
  <2>6. PoolOK(e)' /\ Shape(e)' /\ Fed(e)' /\ Bounded(e)'
    BY <1>1, <2>2, <2>5 DEF IInv, ExecInv, PoolOK, Shape, Fed, Bounded, pool
  <2>7. Covered(e)'
    BY <1>3, <2>3, <2>4 DEF EndParallel, IInv, LocalOK, Covered
  <2> QED
    BY <1>1, <2>6, <2>7, DbKept, OneActs DEF IInv, DbOK, ExecInv, budgets
<1>4. CASE RefuseToStart(e) \/ GiveUp(e)
  <2>1. ExecInv(e)'
    BY <1>1, <1>4 DEF RefuseToStart, GiveUp, IInv, LocalOK, ExecInv, PoolOK, Shape, Covered, Fed,
       Bounded, pool
  <2> QED
    BY <1>1, <2>1, DbKept, OneActs DEF IInv, DbOK, budgets
<1>5. CASE Watch(e) \/ Heartbeat(e)
  <2>0. /\ pc[e] \in {"top", "wait"} /\ pc'[e] \in {"top", "wait"} /\ UNCHANGED cause
        /\ draining[e] => draining'[e]
    BY <1>5 DEF Watch, Heartbeat, IInv, LocalOK, drain
  <2>1. ExecInv(e)'
    BY <1>1, <2>0 DEF IInv, ExecInv, PoolOK, Shape, Covered, Fed, Full, Bounded, pool, db
  <2> QED
    BY <1>1, <2>1, DbKept, OneActs DEF IInv, DbOK, budgets
<1> QED
  BY <1>2, <1>3, <1>4, <1>5

\* A thread completes its future.
LEMMA ClassifyKeeps ==
  ASSUME IInv, NEW e \in Executors, NEW i \in Items, Classify(e, i)
  PROVE  IInv'
<1>1. PICK f \in Futures \ {"none", "running"} : future' = [future EXCEPT ![e][i] = f]
  BY DEF Classify
<1>2. LocalOK' /\ \A d \in Executors \ {e} : Same(d)
  BY <1>1 DEF Classify, IInv, LocalOK, Same, drain
<1>3. /\ \A k \in Items : future'[e][k] # "none" <=> future[e][k] # "none"
      /\ UNCHANGED <<pc, todo, inFlight, batch, draining, cause>>
  <2>1. future[e][i] = "running" /\ future'[e] = [future[e] EXCEPT ![i] = f]
    BY <1>1 DEF Classify, IInv, LocalOK
  <2>2. \A k \in Items : future'[e][k] = IF k = i THEN f ELSE future[e][k]
    BY <2>1 DEF IInv, LocalOK
  <2> QED
    BY <2>1, <2>2 DEF Classify, drain
<1>4. ExecInv(e)'
  BY <1>3 DEF Classify, IInv, ExecInv, PoolOK, Shape, Covered, Fed, Full, Bounded, db
<1>5. DbOK' /\ Done' /\ RowsGrow
  BY DbKept DEF Classify, IInv, DbOK, budgets
<1> QED
  BY <1>2, <1>4, <1>5, OneActs

\* A batch is taken up, or dropped by an exception.
LEMMA CollectKeeps ==
  ASSUME IInv, NEW e \in Executors, Collect(e) \/ Reject(e)
  PROVE  IInv'
<1>1. LocalOK' /\ \A d \in Executors \ {e} : Same(d)
  <2>1. CASE Collect(e)
    <3>1. Completed(e) \subseteq Items
      BY DEF Completed, IInv, LocalOK
    <3> QED
      BY <2>1, <3>1 DEF Collect, NoticeStop, Goto, IInv, LocalOK, Same, Places
  <2>2. CASE Reject(e)
    BY <2>2 DEF Reject, Goto, Raise, NoCount, IInv, LocalOK, Same, Places, drain
  <2> QED
    BY <2>1, <2>2
<1>2. UNCHANGED <<todo, inFlight, future, db, budgets>> /\ batch'[e] \subseteq inFlight[e]
  BY DEF Collect, Reject, Completed, IInv, LocalOK
<1>3. CASE Collect(e)
  <2>1. pc[e] = "wait" /\ pc'[e] = "record" /\ cause' = cause /\ (draining[e] => draining'[e])
    BY <1>3 DEF Collect, NoticeStop, Goto, IInv, LocalOK
  <2>2. ExecInv(e)'
    BY <1>2, <2>1 DEF IInv, ExecInv, PoolOK, Shape, Covered, Fed, Full, Bounded, db
  <2> QED
    BY <1>1, <1>2, <2>2, DbKept, OneActs DEF IInv, DbOK, budgets
<1>4. CASE Reject(e)
  <2>1. pc'[e] = "unwinding" /\ cause'[e] = "stale"
    BY <1>4 DEF Reject, Raise, Goto, IInv, LocalOK
  <2>2. ExecInv(e)'
    BY <1>2, <2>1 DEF IInv, ExecInv, PoolOK, Shape, Covered, Fed, Bounded
  <2> QED
    BY <1>1, <1>2, <2>2, DbKept, OneActs DEF IInv, DbOK, budgets
<1> QED
  BY <1>3, <1>4

\* The future of a raising item is removed and the rest is left to the unwinding.
LEMMA RaisesKeeps ==
  ASSUME IInv, NEW e \in Executors, NEW i \in Items, RecordRaises(e, i)
  PROVE  IInv'
<1>1. LocalOK' /\ \A d \in Executors \ {e} : Same(d)
  BY DEF RecordRaises, Goto, Raise, IInv, LocalOK, Same, Places, Futures, drain
<1>2. /\ pc'[e] = "unwinding" /\ cause'[e] # "none" /\ batch'[e] = {}
      /\ inFlight'[e] = inFlight[e] \ {i} /\ todo' = todo
      /\ \A k \in Items : future'[e][k] = IF k = i THEN "none" ELSE future[e][k]
  BY DEF RecordRaises, Goto, Raise, IInv, LocalOK
<1>3. PoolOK(e)' /\ Shape(e)' /\ Covered(e)' /\ Fed(e)'
  BY <1>2 DEF IInv, ExecInv, PoolOK, Shape, Covered, Fed
<1>4. Bounded(e)'
  <2>1. IsFiniteSet(inFlight[e]) /\ inFlight'[e] \in SUBSET inFlight[e]
    BY <1>2, FS_Subset, RagAssumption DEF IInv, LocalOK
  <2> QED
    BY <2>1, FS_Subset, FS_CardinalityType, RagAssumption DEF IInv, ExecInv, Bounded
<1>5. DbOK' /\ Done' /\ RowsGrow
  BY DbKept DEF RecordRaises, IInv, DbOK, budgets
<1> QED
  BY <1>1, <1>3, <1>4, <1>5, OneActs DEF ExecInv

LEMMA PickKeeps ==
  ASSUME IInv, NEW e \in Executors, PickItem(e)
  PROVE  IInv'
<1>1. PICK i \in todo[e] :
        /\ todo'     = [todo EXCEPT ![e] = @ \ {i}]
        /\ inFlight' = [inFlight EXCEPT ![e] = {i}]
        /\ future'   = [future EXCEPT ![e][i] = "running"]
        /\ batch'    = [batch EXCEPT ![e] = {i}]
  BY DEF PickItem
<1>2. i \in Items
  BY <1>1 DEF IInv, LocalOK
<1>3. LocalOK' /\ \A d \in Executors \ {e} : Same(d)
  BY <1>1, <1>2 DEF PickItem, Goto, IInv, LocalOK, Same, Places, Futures, drain
<1>4. /\ pc[e] = "pick" /\ pc'[e] = "record" /\ cause' = cause /\ inFlight[e] = {} /\ e \notin Parallel
      /\ todo'[e] = todo[e] \ {i} /\ inFlight'[e] = {i} /\ batch'[e] = {i}
      /\ \A k \in Items : future'[e][k] = IF k = i THEN "running" ELSE future[e][k]
  BY <1>1, <1>2 DEF PickItem, Goto, IInv, LocalOK, ExecInv, Shape
<1>5. PoolOK(e)'
  BY <1>2, <1>4 DEF IInv, ExecInv, PoolOK
<1>6. Shape(e)' /\ Covered(e)' /\ Fed(e)'
  BY <1>4 DEF PickItem, IInv, ExecInv, Shape, Covered, Fed, db
<1>7. Bounded(e)'
  BY <1>4, FS_Singleton, RagAssumption DEF Bounded
<1>8. DbOK' /\ Done' /\ RowsGrow
  BY DbKept DEF PickItem, IInv, DbOK, budgets
<1> QED
  BY <1>3, <1>5, <1>6, <1>7, <1>8, OneActs DEF ExecInv

LEMMA FillKeeps ==
  ASSUME IInv, NEW e \in Executors, Fill(e)
  PROVE  IInv'
<1>1. PICK first \in SUBSET todo[e] :
        /\ Cardinality(first) <= Concurrency
        /\ first = todo[e] \/ Cardinality(first) = Concurrency
        /\ todo'     = [todo EXCEPT ![e] = @ \ first]
        /\ inFlight' = [inFlight EXCEPT ![e] = first]
        /\ future'   = [future EXCEPT ![e] = [i \in Items |-> IF i \in first THEN "running" ELSE "none"]]
  BY DEF Fill, Room
<1>2. first \subseteq Items
  BY <1>1 DEF IInv, LocalOK
<1>3. LocalOK' /\ \A d \in Executors \ {e} : Same(d)
  BY <1>1, <1>2 DEF Fill, Goto, IInv, LocalOK, Same, Places, Futures, drain
<1>4. /\ pc[e] = "ready" /\ pc'[e] = "top" /\ cause' = cause /\ inFlight[e] = {} /\ e \in Parallel
      /\ todo'[e] = todo[e] \ first /\ inFlight'[e] = first /\ batch' = batch
      /\ future'[e] = [i \in Items |-> IF i \in first THEN "running" ELSE "none"]
  BY <1>1 DEF Fill, Goto, IInv, LocalOK, ExecInv, Shape
<1>5. PoolOK(e)'
  BY <1>2, <1>4 DEF IInv, ExecInv, PoolOK
<1>6. Shape(e)' /\ Covered(e)'
  BY <1>4 DEF Fill, IInv, ExecInv, Shape, Covered, db
<1>7. Fed(e)' /\ Bounded(e)'
  BY <1>1, <1>4, FS_EmptySet, RagAssumption DEF Fed, Bounded
<1>8. DbOK' /\ Done' /\ RowsGrow
  BY DbKept DEF Fill, IInv, DbOK, budgets
<1> QED
  BY <1>3, <1>5, <1>6, <1>7, <1>8, OneActs DEF ExecInv

-----------------------------------------------------------------------------
(* Storing an outcome *)

LEMMA PersistKeeps ==
  ASSUME IInv, NEW e \in Executors, NEW i \in Items, future[e][i] \in Stored,
         Persist(e, i), UNCHANGED budgets
  PROVE  /\ DbOK' /\ Done' /\ RowsGrow
         /\ rows'[i] # "none" /\ \A k \in Items \ {i} : rows'[k] = rows[k]
<1> DEFINE outcome == future[e][i]
<1>0. outcome \in Stored /\ outcome # "none"
  BY DEF Stored
<1>1. /\ rows' = [rows EXCEPT ![i] = IF @ = "none" THEN outcome ELSE @]
      /\ progress' = IF rows[i] = "none" THEN [progress EXCEPT ![outcome] = @ + 1] ELSE progress
      /\ status = "running" /\ UNCHANGED <<status, attempt, shared>>
  BY DEF Persist, Inserted, Fenced
<1> HIDE DEF outcome
<1>2. DbOK'
  BY <1>0, <1>1 DEF IInv, DbOK, Stored, budgets
<1>3. /\ rows'[i] # "none" /\ \A k \in Items \ {i} : rows'[k] = rows[k]
      /\ progress'.total = progress.total
  BY <1>0, <1>1 DEF IInv, DbOK, Stored
<1> QED
  BY <1>1, <1>2, <1>3 DEF RowsGrow, Done

LEMMA SequentialKeeps ==
  ASSUME IInv, NEW e \in Executors, NEW i \in Items, RecordSequential(e, i)
  PROVE  IInv'
<1>1. LocalOK' /\ \A d \in Executors \ {e} : Same(d)
  BY DEF RecordSequential, Goto, IInv, LocalOK, Same, Places, Futures, drain
<1>2. /\ DbOK' /\ Done' /\ RowsGrow
      /\ rows'[i] # "none" /\ \A k \in Items \ {i} : rows'[k] = rows[k]
  BY PersistKeeps DEF RecordSequential
<1>3. /\ inFlight[e] = {i} /\ e \notin Parallel /\ pc[e] = "record"
      /\ pc'[e] = "pick" /\ todo' = todo /\ inFlight'[e] = {} /\ batch'[e] = {} /\ cause' = cause
  BY DEF RecordSequential, Goto, IInv, LocalOK, ExecInv, PoolOK, Shape
<1>4. \A k \in Items : future'[e][k] = IF k = i THEN "none" ELSE future[e][k]
  BY DEF RecordSequential, IInv, LocalOK
<1>5. PoolOK(e)'
  BY <1>3, <1>4 DEF IInv, ExecInv, PoolOK
<1>6. Shape(e)' /\ Covered(e)' /\ Fed(e)'
  BY <1>2, <1>3 DEF IInv, ExecInv, Shape, Covered, Fed
<1>7. Bounded(e)'
  BY <1>3, FS_EmptySet, RagAssumption DEF Bounded
<1> QED
  BY <1>1, <1>2, <1>5, <1>6, <1>7, OneActs DEF ExecInv

LEMMA ParallelKeeps ==
  ASSUME IInv, NEW e \in Executors, NEW i \in Items, RecordParallel(e, i)
  PROVE  IInv'
<1>1. /\ DbOK' /\ Done' /\ RowsGrow
      /\ rows'[i] # "none" /\ \A k \in Items \ {i} : rows'[k] = rows[k]
  BY PersistKeeps DEF RecordParallel
<1>2. /\ e \in Parallel /\ pc[e] = "record" /\ i \in inFlight[e] /\ pc'[e] \in {"top", "record"}
      /\ batch'[e] = batch[e] \ {i} /\ cause' = cause
      /\ draining'[e] = (draining[e] \/ stopping[e])
      /\ i \notin todo[e]
  BY DEF RecordParallel, Goto, IInv, LocalOK, ExecInv, PoolOK
<1>3. IsFiniteSet(inFlight[e])
  BY FS_Subset, RagAssumption DEF IInv, LocalOK
<1>4. IsFiniteSet(inFlight[e] \ {i}) /\ Cardinality(inFlight[e] \ {i}) = Cardinality(inFlight[e]) - 1
  BY <1>2, <1>3, FS_RemoveElement
<1>5. Cardinality(inFlight[e]) \in Nat /\ Cardinality(inFlight[e]) <= Concurrency
  BY <1>3, FS_CardinalityType DEF IInv, ExecInv, Bounded
<1>6. CASE draining[e] \/ stopping[e] \/ todo[e] = {}
  <2>1. /\ inFlight' = [inFlight EXCEPT ![e] = @ \ {i}]
        /\ future'   = [future EXCEPT ![e][i] = "none"]
        /\ todo' = todo
    BY <1>6 DEF RecordParallel
  <2>2. LocalOK' /\ \A d \in Executors \ {e} : Same(d)
    BY <2>1 DEF RecordParallel, Goto, IInv, LocalOK, Same, Places, Futures
  <2>3. /\ inFlight'[e] = inFlight[e] \ {i}
        /\ \A k \in Items : future'[e][k] = IF k = i THEN "none" ELSE future[e][k]
    BY <2>1 DEF IInv, LocalOK
  <2>4. PoolOK(e)' /\ Shape(e)'
    BY <1>2, <2>1, <2>3 DEF IInv, ExecInv, PoolOK, Shape
  <2>5. Covered(e)'
    BY <1>1, <1>2, <2>1, <2>3 DEF IInv, ExecInv, Covered
  <2>6. Fed(e)'
    BY <1>2, <1>6, <2>1 DEF IInv, LocalOK, Fed
  <2>7. Bounded(e)'
    BY <1>4, <1>5, <2>3, RagAssumption DEF Bounded
  <2> QED
    BY <1>1, <2>2, <2>4, <2>5, <2>6, <2>7, OneActs DEF ExecInv
<1>7. CASE ~(draining[e] \/ stopping[e] \/ todo[e] = {})
  <2>1. PICK next \in todo[e] :
          /\ inFlight' = [inFlight EXCEPT ![e] = (@ \ {i}) \cup {next}]
          /\ future'   = [future EXCEPT ![e][i] = "none", ![e][next] = "running"]
          /\ todo'     = [todo EXCEPT ![e] = @ \ {next}]
    BY <1>7 DEF RecordParallel, Advanced
  <2>2. next \in Items /\ next # i /\ next \notin inFlight[e]
    BY <1>2 DEF IInv, LocalOK, ExecInv, PoolOK
  <2>3. LocalOK' /\ \A d \in Executors \ {e} : Same(d)
    BY <2>1, <2>2 DEF RecordParallel, Goto, IInv, LocalOK, Same, Places, Futures
  <2>4. /\ inFlight'[e] = (inFlight[e] \ {i}) \cup {next}
        /\ todo'[e] = todo[e] \ {next}
        /\ \A k \in Items : future'[e][k] =
             IF k = next THEN "running" ELSE IF k = i THEN "none" ELSE future[e][k]
    BY <2>1, <2>2 DEF IInv, LocalOK
  <2>5. PoolOK(e)' /\ Shape(e)'
    BY <1>2, <2>2, <2>4 DEF IInv, ExecInv, PoolOK, Shape
  <2>6. Covered(e)' /\ Fed(e)'
    BY <1>1, <1>2, <2>2, <2>4 DEF IInv, ExecInv, Covered, Fed
  <2>7. Bounded(e)'
    <3>1. Cardinality((inFlight[e] \ {i}) \cup {next}) = Cardinality(inFlight[e] \ {i}) + 1
      BY <1>4, <2>2, FS_AddElement
    <3> QED
      BY <1>4, <1>5, <2>4, <3>1, RagAssumption DEF Bounded
  <2> QED
    BY <1>1, <2>3, <2>5, <2>6, <2>7, OneActs DEF ExecInv
<1> QED
  BY <1>6, <1>7

-----------------------------------------------------------------------------
(* The end of an execution and the environment *)

LEMMA LeaveKeeps ==
  ASSUME IInv, NEW e \in Executors, Finish(e) \/ Unwind(e) \/ Crash(e)
  PROVE  IInv'
<1>1. LocalOK' /\ ExecInv(e)' /\ \A d \in Executors \ {e} : Same(d)
  <2>1. Forget(e) /\ UNCHANGED stopping
    BY DEF Finish, Unwind, Crash
  <2> QED
    BY <2>1, Forgotten DEF IInv
<1>2. CASE Finish(e)
  <2>1. Full /\ progress.total = Cardinality(Items)
    BY <1>2 DEF Finish, IInv, ExecInv, Covered
  <2>2. DbOK' /\ Done' /\ RowsGrow
    BY <1>2, <2>1, StatusChanged DEF Finish, IInv, DbOK
  <2> QED
    BY <1>1, <2>2, OneActs
<1>3. CASE Unwind(e)
  <2>1. status' \in {status, "pending", "failed"}
    BY <1>3 DEF Unwind, StatusAfter, IInv, LocalOK, ExecInv, PoolOK
  <2>2. DbOK' /\ Done' /\ RowsGrow
    BY <1>3, <2>1, StatusChanged DEF Unwind, IInv, DbOK, Done
  <2> QED
    BY <1>1, <2>2, OneActs
<1>4. CASE Crash(e)
  BY <1>1, <1>4, DbKept, OneActs DEF Crash, IInv, DbOK
<1> QED
  BY <1>2, <1>3, <1>4

LEMMA SignalKeeps ==
  ASSUME IInv, NEW e \in Executors, Signal(e) \/ Restart(e)
  PROVE  IInv'
<1>1. LocalOK'
  BY DEF Signal, Restart, IInv, LocalOK, pool, drain
<1>2. \A d \in Executors : Same(d)
  BY DEF Signal, Restart, Same, pool, drain
<1>3. DbOK' /\ Done' /\ RowsGrow
  BY DbKept DEF Signal, Restart, IInv, DbOK, budgets
<1>4. \A d \in Executors : ExecInv(d)'
  BY <1>2, <1>3, Frame DEF IInv
<1> QED
  BY <1>1, <1>3, <1>4 DEF IInv

LEMMA OutsideKeeps ==
  ASSUME IInv, Recover \/ Retry
  PROVE  IInv'
<1>1. LocalOK' /\ \A d \in Executors : Same(d)
  BY DEF Recover, Retry, local, pool, drain, Same, IInv, LocalOK
<1>2. DbOK' /\ Done' /\ RowsGrow
  <2>1. /\ status' = "pending" /\ UNCHANGED <<attempt, rows, progress, shared, crashes, signals>>
        /\ late' \in Nat /\ retries' \in Nat
    BY DEF Recover, Retry, IInv, DbOK
  <2>2. DbOK'
    BY <2>1 DEF IInv, DbOK
  <2> QED
    BY <2>1, <2>2 DEF IInv, Done, Full, RowsGrow
<1>3. \A d \in Executors : ExecInv(d)'
  BY <1>1, <1>2, Frame DEF IInv
<1> QED
  BY <1>1, <1>2, <1>3 DEF IInv

LEMMA NextKeeps == IInv /\ [Next]_vars => IInv'
<1> SUFFICES ASSUME IInv, [Next]_vars PROVE IInv'
  OBVIOUS
<1>1. ASSUME NEW e \in Executors, Coordinate(e) PROVE IInv'
  <2>1. CASE Take(e) \/ Begin(e) \/ Load(e) \/ Count(e) \/ Open(e) \/ Close(e)
    BY <2>1, TakeKeeps, BeginKeeps, LoadKeeps, CountKeeps, OpenKeeps, CloseKeeps
  <2>2. CASE \/ EndSequential(e) \/ RefuseToStart(e) \/ Watch(e) \/ GiveUp(e)
             \/ Heartbeat(e) \/ EndParallel(e)
    BY <2>2, MoveKeeps
  <2>3. CASE PickItem(e) \/ Fill(e) \/ Collect(e) \/ Reject(e)
    BY <2>3, PickKeeps, FillKeeps, CollectKeeps
  <2>4. CASE \E i \in Items : RecordRaises(e, i) \/ RecordSequential(e, i) \/ RecordParallel(e, i)
    BY <2>4, RaisesKeeps, SequentialKeeps, ParallelKeeps
  <2>5. CASE Finish(e) \/ Unwind(e) \/ Restart(e)
    BY <2>5, LeaveKeeps, SignalKeeps
  <2> QED
    BY <1>1, <2>1, <2>2, <2>3, <2>4, <2>5 DEF Coordinate
<1>2. CASE UNCHANGED vars
  <2>1. LocalOK' /\ (\A d \in Executors : Same(d)) /\ UNCHANGED <<db, budgets>>
    BY <1>2 DEF vars, local, pool, drain, Same, IInv, LocalOK
  <2>2. DbOK' /\ Done' /\ RowsGrow
    BY <2>1, DbKept DEF IInv, DbOK, budgets
  <2>3. \A d \in Executors : ExecInv(d)'
    BY <2>1, <2>2, Frame DEF IInv
  <2> QED
    BY <2>1, <2>2, <2>3 DEF IInv
<1> QED
  BY <1>1, <1>2, LeaveKeeps, SignalKeeps, ClassifyKeeps, OutsideKeeps DEF Next

-----------------------------------------------------------------------------
(* Theorems *)

THEOREM InvHolds == Spec => []IInv
BY InitInv, NextKeeps, PTL DEF Spec

\* Rows, counters and pools keep their types; an item is never both waiting and
\* in flight.
THEOREM TypeCorrect == Spec => []TypeOK
<1>1. IInv => TypeOK
  BY DEF IInv, ExecInv, TypeOK
<1> QED
  BY <1>1, InvHolds, PTL

\* run never has more futures than RAG_ITEM_CONCURRENCY, however it is filled,
\* refilled and cut short.
THEOREM PoolBounded == Spec => []InFlightBounded
<1>1. IInv => InFlightBounded
  BY DEF IInv, ExecInv, Bounded, InFlightBounded
<1> QED
  BY <1>1, InvHolds, PTL

-----------------------------------------------------------------------------
(* The counters.  They follow from the rows by a second invariant: a count *)
(* taken by an execution that still holds the attempt is that of the rows, *)
(* for nobody else may store a row while no two executions share it.       *)

Counting(e) == pc[e] \in {"opened", "closed"}

Apart ==
  ~shared => \A d, e \in Executors :
               Executing(d) /\ Executing(e) /\ token[d] = token[e] => d = e

Behind ==
  /\ \A o \in Stored : progress[o] <= Cardinality(Having(o))
  /\ \A e \in Executors : Counting(e) =>
       \A o \in Stored : counted[e][o] <= Cardinality(Having(o))

Exact ==
  ~shared =>
    /\ \A o \in Stored : progress[o] = Cardinality(Having(o))
    /\ \A e \in Executors : Counting(e) /\ token[e] = attempt =>
         \A o \in Stored : counted[e][o] = Cardinality(Having(o))

Tally == Apart /\ Behind /\ Exact

LEMMA InitTally == Init => Tally
<1> SUFFICES ASSUME Init PROVE Tally
  OBVIOUS
<1>1. \A o \in Stored : Having(o) = {} /\ progress[o] = 0
  BY DEF Init, Having, Stored
<1>2. \A e \in Executors : ~Executing(e) /\ ~Counting(e)
  BY DEF Init, Executing, Counting
<1> QED
  BY <1>1, <1>2, FS_EmptySet DEF Tally, Apart, Behind, Exact

\* A step that leaves rows, counters and attempt alone, in which no execution
\* starts and none counts.
LEMMA TallyAside ==
  ASSUME Tally, UNCHANGED <<rows, progress, attempt, shared>>,
         \A d \in Executors :
           /\ Executing(d)' => Executing(d) /\ token'[d] = token[d]
           /\ Counting(d)' => Counting(d) /\ counted'[d] = counted[d]
  PROVE  Tally'
<1>1. \A o : Having(o)' = Having(o)
  BY DEF Having
<1>2. \A d \in Executors : Counting(d)' => Executing(d)'
  BY DEF Counting, Executing
<1>3. Apart'
  BY DEF Tally, Apart
<1>4. Behind'
  BY <1>1 DEF Tally, Behind
<1>5. Exact'
  BY <1>1, <1>2 DEF Tally, Exact
<1> QED
  BY <1>3, <1>4, <1>5 DEF Tally

\* An attempt that begins is new to the executions, or becomes shared.
LEMMA BeginTallies ==
  ASSUME IInv, Tally, NEW e \in Executors, Begin(e)
  PROVE  Tally'
<1>1. /\ pc' = [pc EXCEPT ![e] = "loading"] /\ token' = [token EXCEPT ![e] = seen[e] + 1]
      /\ attempt' = seen[e] + 1 /\ UNCHANGED <<rows, progress, counted>>
      /\ shared' = (shared \/ \E d \in Executors \ {e} : Executing(d) /\ token[d] = seen[e] + 1)
  BY DEF Begin, Goto
<1>2. /\ \A o : Having(o)' = Having(o)
      /\ pc'[e] = "loading" /\ token'[e] = seen[e] + 1
      /\ \A d \in Executors \ {e} : pc'[d] = pc[d] /\ token'[d] = token[d]
  BY <1>1 DEF Having, IInv, LocalOK
<1>3. /\ ~Counting(e)'
      /\ \A d \in Executors \ {e} : (Executing(d)' <=> Executing(d)) /\ (Counting(d)' <=> Counting(d))
      /\ \A d \in Executors : Counting(d) => Executing(d)
  BY <1>2 DEF Executing, Counting
<1>4. Apart'
  BY <1>1, <1>2, <1>3 DEF Tally, Apart
<1>5. Behind'
  BY <1>1, <1>2, <1>3 DEF Tally, Behind
<1>6. Exact'
  BY <1>1, <1>2, <1>3 DEF Tally, Exact
<1> QED
  BY <1>4, <1>5, <1>6 DEF Tally

LEMMA CountTallies ==
  ASSUME IInv, Tally, NEW e \in Executors, Count(e)
  PROVE  Tally'
<1>1. /\ UNCHANGED <<rows, progress, attempt, shared, token>>
      /\ counted' = [counted EXCEPT ![e] = [o \in Stored |-> Cardinality(Having(o))]]
      /\ pc[e] \in {"opening", "closing"}
      /\ pc' = [pc EXCEPT ![e] = pc'[e]]
  BY DEF Count, Goto, db, IInv, LocalOK
<1>2. /\ \A o : Having(o)' = Having(o)
      /\ \A o \in Stored : counted'[e][o] = Cardinality(Having(o))
      /\ \A d \in Executors \ {e} : pc'[d] = pc[d] /\ counted'[d] = counted[d]
  BY <1>1 DEF Having, IInv, LocalOK
<1>3. /\ \A d \in Executors : Executing(d)' => Executing(d)
      /\ \A d \in Executors \ {e} : Counting(d)' => Counting(d)
  BY <1>1, <1>2 DEF Executing, Counting
<1>4. \A o : Cardinality(Having(o)) \in Nat
  BY HavingCounts
<1>5. Apart'
  BY <1>1, <1>3 DEF Tally, Apart
<1>6. Behind'
  BY <1>1, <1>2, <1>3, <1>4 DEF Tally, Behind
<1>7. Exact'
  BY <1>1, <1>2, <1>3 DEF Tally, Exact
<1> QED
  BY <1>5, <1>6, <1>7 DEF Tally

\* What the fence lets through is what was counted.
LEMMA ReconcileTallies ==
  ASSUME IInv, Tally, NEW e \in Executors, Open(e) \/ Close(e)
  PROVE  Tally'
<1>1. /\ UNCHANGED <<rows, attempt, shared, token>> /\ token[e] = attempt
      /\ \A o \in Stored : progress'[o] = counted[e][o]
      /\ \A d \in Executors \ {e} : counted'[d] = counted[d]
  BY DEF Open, Close, Reconcile, Fenced, IInv, LocalOK, Stored
<1>2. /\ pc[e] \in {"opened", "closed"} /\ pc'[e] \in {"ready", "pick", "finishing"}
      /\ \A d \in Executors \ {e} : pc'[d] = pc[d]
  BY DEF Open, Close, Goto, IInv, LocalOK
<1>3. /\ Counting(e) /\ ~Counting(e)' /\ Executing(e)
      /\ \A d \in Executors \ {e} : Counting(d)' => Counting(d)
      /\ \A d \in Executors : Executing(d)' => Executing(d)
  BY <1>2 DEF Counting, Executing
<1>4. \A o : Having(o)' = Having(o)
  BY <1>1 DEF Having
<1>5. Apart'
  BY <1>1, <1>3 DEF Tally, Apart
<1>6. Behind'
  BY <1>1, <1>3, <1>4 DEF Tally, Behind
<1>7. Exact'
  BY <1>1, <1>3, <1>4 DEF Tally, Exact
<1> QED
  BY <1>5, <1>6, <1>7 DEF Tally

\* A row and its counter come together.
LEMMA PersistCounts ==
  ASSUME IInv, NEW e \in Executors, NEW i \in Items, future[e][i] \in Stored, Persist(e, i),
         NEW o \in Stored
  PROVE  \E n \in {0, 1} : /\ Cardinality(Having(o)') = Cardinality(Having(o)) + n
                           /\ progress'[o] = progress[o] + n
<1> DEFINE outcome == future[e][i]
<1>0. outcome \in Stored /\ outcome # "none" /\ Cardinality(Having(o)) \in Nat /\ progress[o] \in Nat
  BY HavingCounts DEF Stored, IInv, DbOK
<1>1. /\ rows' = [rows EXCEPT ![i] = IF @ = "none" THEN outcome ELSE @]
      /\ progress' = IF rows[i] = "none" THEN [progress EXCEPT ![outcome] = @ + 1] ELSE progress
  BY DEF Persist, Inserted
<1> HIDE DEF outcome
<1>2. CASE rows[i] # "none"
  <2>1. rows' = rows /\ progress' = progress
    BY <1>1, <1>2 DEF IInv, DbOK
  <2>2. Having(o)' = Having(o)
    BY <2>1 DEF Having
  <2> QED
    BY <1>0, <2>1, <2>2
<1>3. CASE rows[i] = "none" /\ o # outcome
  <2>1. Having(o)' = Having(o) /\ progress'[o] = progress[o]
    BY <1>0, <1>1, <1>3 DEF IInv, DbOK, Having, Stored
  <2> QED
    BY <1>0, <2>1
<1>4. CASE rows[i] = "none" /\ o = outcome
  <2>1. Having(o)' = Having(o) \cup {i} /\ progress'[o] = progress[o] + 1 /\ i \notin Having(o)
    BY <1>0, <1>1, <1>4 DEF IInv, DbOK, Having, Stored
  <2>2. Cardinality(Having(o) \cup {i}) = Cardinality(Having(o)) + 1
    BY <2>1, HavingCounts, FS_AddElement
  <2> QED
    BY <2>1, <2>2
<1> QED
  BY <1>2, <1>3, <1>4

\* A row is stored: no other execution that counts holds the attempt, or two do.
LEMMA PersistTallies ==
  ASSUME IInv, Tally, NEW e \in Executors, NEW i \in Items,
         RecordSequential(e, i) \/ RecordParallel(e, i)
  PROVE  Tally'
<1>1. /\ pc[e] = "record" /\ future[e][i] \in Stored /\ Persist(e, i)
      /\ pc'[e] \in {"pick", "top", "record"} /\ token[e] = attempt
      /\ \A d \in Executors \ {e} : pc'[d] = pc[d]
      /\ UNCHANGED <<token, counted, attempt, shared>>
  BY DEF RecordSequential, RecordParallel, Goto, Persist, Fenced, IInv, LocalOK
<1>2. \A o \in Stored :
        /\ Cardinality(Having(o)) \in Nat /\ progress[o] \in Nat
        /\ \A d \in Executors : counted[d][o] \in Nat
        /\ \E n \in {0, 1} : /\ Cardinality(Having(o)') = Cardinality(Having(o)) + n
                             /\ progress'[o] = progress[o] + n
  <2>1. \A o \in Stored : progress[o] \in Nat /\ \A d \in Executors : counted[d][o] \in Nat
    BY DEF IInv, DbOK, LocalOK, Stored
  <2> QED
    BY <1>1, <2>1, HavingCounts, PersistCounts
<1>3. /\ Executing(e) /\ ~Counting(e)'
      /\ \A d \in Executors : Counting(d)' => Counting(d) /\ Executing(d) /\ d # e
      /\ \A d \in Executors : Executing(d)' => Executing(d)
  BY <1>1 DEF Executing, Counting
<1>4. Apart'
  BY <1>1, <1>3 DEF Tally, Apart
<1>5. Behind'
  <2>1. \A o \in Stored : progress'[o] <= Cardinality(Having(o)')
    BY <1>2 DEF Tally, Behind
  <2>2. ASSUME NEW d \in Executors, Counting(d)', NEW o \in Stored
        PROVE  counted'[d][o] <= Cardinality(Having(o)')
    BY <1>1, <1>2, <1>3, <2>2 DEF Tally, Behind
  <2> QED
    BY <2>1, <2>2 DEF Behind
<1>6. Exact'
  <2> SUFFICES ASSUME ~shared PROVE Exact'
    BY <1>1 DEF Exact
  <2>1. \A o \in Stored : progress'[o] = Cardinality(Having(o)')
    BY <1>2 DEF Tally, Exact
  <2>2. \A d \in Executors : ~(Counting(d)' /\ token'[d] = attempt')
    BY <1>1, <1>3 DEF Tally, Apart
  <2> QED
    BY <2>1, <2>2 DEF Exact
<1> QED
  BY <1>4, <1>5, <1>6 DEF Tally

LEMMA NextTallies == IInv /\ Tally /\ [Next]_vars => Tally'
<1> SUFFICES ASSUME IInv, Tally, [Next]_vars PROVE Tally'
  OBVIOUS
<1>1. ASSUME NEW e \in Executors,
             Begin(e) \/ Count(e) \/ Open(e) \/ Close(e)
               \/ \E i \in Items : RecordSequential(e, i) \/ RecordParallel(e, i)
      PROVE  Tally'
  BY <1>1, BeginTallies, CountTallies, ReconcileTallies, PersistTallies
<1>2. ASSUME NEW e \in Executors, Finish(e) \/ Unwind(e) \/ Crash(e) PROVE Tally'
  <2>1. /\ UNCHANGED <<rows, progress, attempt, shared>> /\ pc'[e] = "idle"
        /\ \A d \in Executors \ {e} :
             pc'[d] = pc[d] /\ token'[d] = token[d] /\ counted'[d] = counted[d]
    BY <1>2 DEF Finish, Unwind, Crash, Forget, Goto, db, IInv, LocalOK
  <2> QED
    BY <2>1, TallyAside DEF Executing, Counting
<1>3. ASSUME NEW e \in Executors,
             \/ Load(e) \/ PickItem(e) \/ EndSequential(e) \/ Fill(e) \/ RefuseToStart(e)
             \/ Watch(e) \/ GiveUp(e) \/ Collect(e) \/ Heartbeat(e) \/ EndParallel(e)
             \/ Take(e) \/ Reject(e) \/ \E i \in Items : RecordRaises(e, i)
      PROVE  Tally'
  <2>1. /\ UNCHANGED <<rows, progress, attempt, shared, token>>
        /\ \A d \in Executors \ {e} : pc'[d] = pc[d] /\ counted'[d] = counted[d]
    BY <1>3 DEF Load, PickItem, EndSequential, Fill, RefuseToStart, Watch, GiveUp, Collect,
       Heartbeat, EndParallel, Take, Reject, RecordRaises, Raise, LoopEnds, Goto, db, IInv, LocalOK
  <2>2. ~Counting(e)' /\ (Executing(e)' => Executing(e))
    BY <1>3 DEF Load, PickItem, EndSequential, Fill, RefuseToStart, Watch, GiveUp, Collect,
       Heartbeat, EndParallel, Take, Reject, RecordRaises, Raise, LoopEnds, Goto, IInv, LocalOK,
       Counting, Executing
  <2>3. \A d \in Executors \ {e} : (Executing(d)' <=> Executing(d)) /\ (Counting(d)' <=> Counting(d))
    BY <2>1 DEF Executing, Counting
  <2> QED
    BY <2>1, <2>2, <2>3, TallyAside
<1>4. CASE \/ Recover \/ Retry \/ UNCHANGED vars
           \/ \E e \in Executors : Signal(e) \/ Restart(e)
           \/ \E e \in Executors, i \in Items : Classify(e, i)
  <2>1. UNCHANGED <<rows, progress, attempt, shared, pc, token, counted>>
    BY <1>4 DEF Recover, Retry, vars, local, db, Signal, Restart, Classify
  <2> QED
    BY <2>1, TallyAside DEF Executing, Counting
<1> QED
  BY <1>1, <1>2, <1>3, <1>4 DEF Next, Coordinate

\* The rows of a complete step are as many as its items.
LEMMA FullCount ==
  ASSUME IInv, Full
  PROVE  Cardinality(Having("succeeded")) + Cardinality(Having("failed")) = Cardinality(Items)
<1> DEFINE S == Having("succeeded")
           F == Having("failed")
<1>1. S \cup F = Items /\ S \cap F = {}
  BY DEF IInv, DbOK, Full, Having, Stored
<1>2. IsFiniteSet(S) /\ IsFiniteSet(F)
  BY HavingCounts
<1> HIDE DEF S, F
<1>3. Cardinality(S \cup F) = Cardinality(S) + Cardinality(F) - Cardinality(S \cap F)
  BY <1>2, FS_Union
<1>4. Cardinality(S) \in Nat /\ Cardinality(F) \in Nat /\ Cardinality({}) = 0
  BY <1>2, FS_CardinalityType, FS_EmptySet
<1>5. Cardinality(S \cup F) = Cardinality(Items) /\ Cardinality(S \cap F) = 0
  BY <1>1, <1>4
<1>6. Cardinality(S) + Cardinality(F) = Cardinality(Items)
  BY <1>3, <1>4, <1>5
<1> QED
  BY <1>6 DEF S, F

\* The counters the jobs API shows are never ahead of the result rows, for any
\* overlap of executions; while no two have held the same attempt they are the
\* rows, a count and its update being two steps, and a succeeded step shows all
\* its items as completed.
THEOREM CountersHold == Spec => []CountersMatchRows
<1>1. IInv /\ Tally => CountersMatchRows
  BY FullCount DEF IInv, Done, Tally, Behind, Exact, Stored, CountersMatchRows
<1> QED
  BY <1>1, InitTally, NextTallies, InvHolds, PTL DEF Spec

-----------------------------------------------------------------------------
(* The promise of ResultSheet *)

\* A step that leaves the rows alone opens, suspends or stutters, unless it
\* completes the step.
LEMMA RowsAlone ==
  ASSUME UNCHANGED rows, status' # "succeeded" \/ status' = status
  PROVE  [Sheet!Next]_(Sheet!svars)
<1>1. CASE StateOf(status') = "open"
  BY <1>1 DEF Sheet!Next, Sheet!Open
<1>2. CASE StateOf(status') = "closed"
  BY <1>2 DEF Sheet!Next, Sheet!Suspend
<1>3. CASE StateOf(status') = "complete"
  BY <1>3 DEF Sheet!svars, StateOf
<1> QED
  BY <1>1, <1>2, <1>3 DEF StateOf

\* An outcome that is stored is entered on the sheet, or was there before.
LEMMA StoringEnters ==
  ASSUME IInv, NEW e \in Executors, NEW i \in Items, future[e][i] \in Stored, Persist(e, i)
  PROVE  [Sheet!Next]_(Sheet!svars)
<1>1. /\ status = "running" /\ status' = status
      /\ rows' = [rows EXCEPT ![i] = IF @ = "none" THEN future[e][i] ELSE @]
  BY DEF Persist, Fenced
<1>2. CASE rows[i] = "none"
  BY <1>1, <1>2 DEF Sheet!Next, Sheet!Enter, StateOf, Stored
<1>3. CASE rows[i] # "none"
  <2>1. rows' = rows
    BY <1>1, <1>3 DEF IInv, DbOK
  <2> QED
    BY <1>1, <2>1 DEF Sheet!svars
<1> QED
  BY <1>2, <1>3

\* Each item gets one result row, entered while the step runs and never
\* altered, and the step succeeds only when every item has one: no overlap of
\* executions, crash, drain, recovery or retry breaks this.
THEOREM StepImplementsSheet == Spec => ImplementsSheet
<1>1. Init => Sheet!Init
  BY DEF Init, Sheet!Init, StateOf
<1>2. ASSUME IInv, [Next]_vars PROVE [Sheet!Next]_(Sheet!svars)
  <2>1. ASSUME NEW e \in Executors, Finish(e) PROVE [Sheet!Next]_(Sheet!svars)
    <3>1. Full
      BY <1>2, <2>1 DEF Finish, IInv, ExecInv, Covered
    <3> QED
      BY <2>1, <3>1 DEF Finish, Fenced, Full, Sheet!Next, Sheet!Complete, StateOf
  <2>2. ASSUME NEW e \in Executors, NEW i \in Items,
               RecordSequential(e, i) \/ RecordParallel(e, i)
        PROVE  [Sheet!Next]_(Sheet!svars)
    BY <1>2, <2>2, StoringEnters DEF RecordSequential, RecordParallel
  <2>3. ASSUME NEW e \in Executors, Unwind(e) PROVE [Sheet!Next]_(Sheet!svars)
    <3>1. status' \in {status, "pending", "failed"} /\ rows' = rows
      BY <1>2, <2>3 DEF Unwind, StatusAfter, IInv, LocalOK, ExecInv, PoolOK
    <3> QED
      BY <3>1, RowsAlone
  <2>4. CASE Recover \/ Retry \/ (\E e \in Executors : Begin(e))
    BY <2>4, RowsAlone DEF Recover, Retry, Begin
  <2>5. CASE UNCHANGED vars \/ (\E e \in Executors : Signal(e) \/ Crash(e))
             \/ (\E e \in Executors, i \in Items : Classify(e, i))
    BY <2>5, RowsAlone DEF vars, db, Signal, Crash, Classify
  <2>6. ASSUME NEW e \in Executors,
               \/ Take(e) \/ Load(e) \/ Count(e) \/ PickItem(e) \/ EndSequential(e) \/ Fill(e)
               \/ RefuseToStart(e) \/ Watch(e) \/ GiveUp(e) \/ Collect(e) \/ Heartbeat(e)
               \/ EndParallel(e) \/ Reject(e) \/ Restart(e)
               \/ \E i \in Items : RecordRaises(e, i)
        PROVE  [Sheet!Next]_(Sheet!svars)
    <3>1. UNCHANGED db
      BY <2>6 DEF Take, Load, Count, PickItem, EndSequential, Fill, RefuseToStart, Watch, GiveUp,
         Collect, Heartbeat, EndParallel, Reject, Restart, RecordRaises
    <3> QED
      BY <3>1, RowsAlone DEF db
  <2>7. ASSUME NEW e \in Executors, Open(e) \/ Close(e) PROVE [Sheet!Next]_(Sheet!svars)
    BY <2>7, RowsAlone DEF Open, Close, Reconcile
  <2> QED
    BY <1>2, <2>1, <2>2, <2>3, <2>4, <2>5, <2>6, <2>7 DEF Next, Coordinate
<1> QED
  BY <1>1, <1>2, InvHolds, PTL DEF Spec, Sheet!Spec, ImplementsSheet
-----------------------------------------------------------------------------
(* The promise of ItemFutures, in each executor *)

\* The coordinator takes resolutions and submits items.
LEMMA Hands ==
  ASSUME NEW e \in Executors, NEW out \in SUBSET Items, NEW back \in SUBSET Items,
         \A i \in out : future[e][i] = "none",
         \A i \in back : future[e][i] \in Stored \cup {"aborted", "rejected"},
         future'[e] = [i \in Items |-> IF i \in out THEN "running"
                                       ELSE IF i \in back THEN "none" ELSE future[e][i]],
         stopping'[e] = stopping[e]
  PROVE  Pool(e)!Next
<1>1. Pool(e)!Hand(out, back)
  BY DEF Pool!Hand, Pool!Resolved, Stored
<1> QED
  BY <1>1 DEF Pool!Next

LEMMA Submits ==
  ASSUME NEW e \in Executors, NEW out \in SUBSET Items, \A i \in out : future[e][i] = "none",
         future'[e] = [i \in Items |-> IF i \in out THEN "running" ELSE future[e][i]],
         stopping'[e] = stopping[e]
  PROVE  Pool(e)!Next
<1>1. Pool(e)!Hand(out, {})
  BY DEF Pool!Hand
<1> QED
  BY <1>1 DEF Pool!Next

LEMMA Takes ==
  ASSUME NEW e \in Executors, NEW i \in Items,
         future[e][i] \in Stored \cup {"aborted", "rejected"},
         future'[e] = [k \in Items |-> IF k = i THEN "none" ELSE future[e][k]],
         stopping'[e] = stopping[e]
  PROVE  Pool(e)!Next
<1>1. Pool(e)!Hand({}, {i})
  BY DEF Pool!Hand, Pool!Resolved, Stored
<1> QED
  BY <1>1 DEF Pool!Next

\* The futures are dropped, when the step is over or the process dies.
LEMMA Drops ==
  ASSUME NEW e \in Executors, future'[e] = [i \in Items |-> "none"], stopping'[e] = stopping[e]
  PROVE  Pool(e)!Next
BY DEF Pool!Next, Pool!Abandon, Pool!Nothing

\* What the coordinator of an executor does to the futures of its own.
LEMMA CoordinatorKeeps ==
  ASSUME IInv, NEW e \in Executors, Coordinate(e)
  PROVE  [Pool(e)!Next]_(Pool(e)!fvars)
<1>0. /\ stopping \in [Executors -> BOOLEAN] /\ future \in [Executors -> [Items -> Futures]]
      /\ PoolOK(e) /\ Shape(e)
  BY DEF IInv, LocalOK, ExecInv
<1>1. CASE \/ Take(e) \/ Begin(e) \/ Load(e) \/ Count(e) \/ Open(e) \/ EndSequential(e)
           \/ RefuseToStart(e) \/ Watch(e) \/ GiveUp(e) \/ Collect(e) \/ Heartbeat(e)
           \/ EndParallel(e) \/ Close(e) \/ Reject(e)
  <2>1. UNCHANGED <<future, stopping>>
    BY <1>1 DEF Take, Begin, Load, Count, Open, EndSequential, RefuseToStart, Watch, GiveUp, Collect,
       Heartbeat, EndParallel, Close, Reject, LoopEnds, Raise, pool
  <2> QED
    BY <2>1 DEF Pool!fvars
<1>2. CASE PickItem(e)
  <2>1. PICK i \in todo[e] : future' = [future EXCEPT ![e][i] = "running"]
    BY <1>2 DEF PickItem
  <2>2. i \in Items /\ future[e][i] = "none"
    BY <1>0, <2>1 DEF PoolOK, IInv, LocalOK
  <2>3. future'[e] = [k \in Items |-> IF k \in {i} THEN "running" ELSE future[e][k]]
    BY <1>0, <2>1
  <2> QED
    BY <1>2, <2>2, <2>3, Submits DEF PickItem
<1>3. CASE Fill(e)
  <2>1. PICK first \in SUBSET todo[e] :
          future' = [future EXCEPT ![e] = [i \in Items |-> IF i \in first THEN "running" ELSE "none"]]
    BY <1>3 DEF Fill
  <2>2. first \in SUBSET Items /\ \A i \in Items : future[e][i] = "none"
    BY <1>0, <1>3, <2>1 DEF Fill, Shape, PoolOK, IInv, LocalOK
  <2>3. future'[e] = [i \in Items |-> IF i \in first THEN "running" ELSE future[e][i]]
    BY <1>0, <2>1, <2>2
  <2> QED
    BY <1>3, <2>2, <2>3, Submits DEF Fill
<1>4. ASSUME NEW i \in Items, RecordRaises(e, i) \/ RecordSequential(e, i)
      PROVE  Pool(e)!Next
  <2>1. /\ future' = [future EXCEPT ![e][i] = "none"] /\ UNCHANGED stopping
        /\ future[e][i] \in Stored \cup {"aborted", "rejected"}
    BY <1>4 DEF RecordRaises, RecordSequential
  <2>2. future'[e] = [k \in Items |-> IF k = i THEN "none" ELSE future[e][k]]
    BY <1>0, <2>1
  <2> QED
    BY <2>1, <2>2, Takes
<1>5. ASSUME NEW i \in Items, RecordParallel(e, i) PROVE Pool(e)!Next
  <2>1. future[e][i] \in Stored /\ i \in inFlight[e] /\ UNCHANGED stopping
    BY <1>0, <1>5 DEF RecordParallel, PoolOK
  <2>2. CASE future' = [future EXCEPT ![e][i] = "none"]
    <3>1. future'[e] = [k \in Items |-> IF k = i THEN "none" ELSE future[e][k]]
      BY <1>0, <2>2
    <3> QED
      BY <2>1, <3>1, Takes
  <2>3. ASSUME NEW k \in todo[e],
               future' = [future EXCEPT ![e][i] = "none", ![e][k] = "running"]
        PROVE  Pool(e)!Next
    <3>1. k \in Items /\ future[e][k] = "none" /\ k # i
      BY <1>0, <2>1, <2>3 DEF PoolOK, IInv, LocalOK
    <3>2. future'[e] = [m \in Items |-> IF m \in {k} THEN "running"
                                        ELSE IF m \in {i} THEN "none" ELSE future[e][m]]
      BY <1>0, <2>3, <3>1
    <3> QED
      BY <2>1, <3>1, <3>2, Hands
  <2> QED
    BY <1>5, <2>2, <2>3 DEF RecordParallel
<1>6. CASE Finish(e) \/ Unwind(e)
  <2>1. future'[e] = [i \in Items |-> "none"] /\ stopping'[e] = stopping[e]
    BY <1>0, <1>6 DEF Finish, Unwind, Forget
  <2> QED
    BY <2>1, Drops
<1>7. CASE Restart(e)
  <2>1. future[e] = [i \in Items |-> "none"]
    BY <1>0, <1>7 DEF Restart, Shape, PoolOK
  <2>2. stopping'[e] = FALSE /\ future'[e] = future[e]
    BY <1>0, <1>7 DEF Restart, pool
  <2> QED
    BY <2>1, <2>2 DEF Pool!Next, Pool!Restart, Pool!Nothing
<1> QED
  BY <1>1, <1>2, <1>3, <1>4, <1>5, <1>6, <1>7 DEF Coordinate

\* No executor touches the futures of another one.
LEMMA OthersAside ==
  ASSUME IInv, NEW e \in Executors, Coordinate(e) \/ Signal(e) \/ Crash(e),
         NEW d \in Executors \ {e}
  PROVE  UNCHANGED <<future[d], stopping[d]>>
<1>0. stopping \in [Executors -> BOOLEAN] /\ future \in [Executors -> [Items -> Futures]]
  BY DEF IInv, LocalOK
<1>1. CASE Signal(e) \/ Crash(e) \/ Restart(e)
  BY <1>0, <1>1 DEF Signal, Crash, Restart, Forget, pool
<1>2. CASE Coordinate(e) /\ ~Restart(e)
  <2>1. UNCHANGED stopping
    BY <1>2 DEF Coordinate, Take, Begin, Load, Count, Open, PickItem, EndSequential, Fill,
       RefuseToStart, Watch, GiveUp, Collect, Heartbeat, EndParallel, RecordRaises,
       RecordSequential, RecordParallel, Close, Finish, Reject, Unwind
  <2>2. CASE PickItem(e) \/ Fill(e) \/ Finish(e) \/ Unwind(e)
    BY <1>0, <2>1, <2>2 DEF PickItem, Fill, Finish, Unwind, Forget
  <2>3. ASSUME NEW i \in Items,
               RecordRaises(e, i) \/ RecordSequential(e, i) \/ RecordParallel(e, i)
        PROVE  future'[d] = future[d]
    BY <1>0, <2>3 DEF RecordRaises, RecordSequential, RecordParallel
  <2>4. CASE \/ Take(e) \/ Begin(e) \/ Load(e) \/ Count(e) \/ Open(e) \/ EndSequential(e)
             \/ RefuseToStart(e) \/ Watch(e) \/ GiveUp(e) \/ Collect(e) \/ Heartbeat(e)
             \/ EndParallel(e) \/ Close(e) \/ Reject(e)
    BY <2>1, <2>4 DEF Take, Begin, Load, Count, Open, EndSequential, RefuseToStart, Watch, GiveUp,
       Collect, Heartbeat, EndParallel, Close, Reject, pool
  <2> QED
    BY <1>2, <2>1, <2>2, <2>3, <2>4 DEF Coordinate
<1> QED
  BY <1>1, <1>2

\* In each executor the coordinator and its threads keep to ItemFutures: no item
\* is submitted twice, none forgotten, and one given up was given up for a
\* shutdown that this process was told of.
THEOREM FuturesKept == Spec => PoolKeepsFutures
<1>1. Init => \A e \in Executors : Pool(e)!Init
  BY DEF Init, Pool!Init, Pool!Nothing
<1>2. ASSUME IInv, [Next]_vars, NEW d \in Executors PROVE [Pool(d)!Next]_(Pool(d)!fvars)
  <2>0. stopping \in [Executors -> BOOLEAN] /\ future \in [Executors -> [Items -> Futures]]
    BY <1>2 DEF IInv, LocalOK
  <2>1. ASSUME NEW e \in Executors, Coordinate(e) \/ Signal(e) \/ Crash(e)
        PROVE  [Pool(d)!Next]_(Pool(d)!fvars)
    <3>1. CASE e # d
      BY <1>2, <2>1, <3>1, OthersAside DEF Pool!fvars
    <3>2. CASE e = d /\ Coordinate(e)
      BY <1>2, <3>2, CoordinatorKeeps
    <3>3. CASE e = d /\ Signal(e)
      BY <2>0, <3>3 DEF Signal, pool, Pool!Next, Pool!Stop
    <3>4. CASE e = d /\ Crash(e)
      <4>1. future'[d] = [i \in Items |-> "none"] /\ stopping'[d] = stopping[d]
        BY <2>0, <3>4 DEF Crash, Forget
      <4> QED
        BY <4>1, Drops
    <3> QED
      BY <2>1, <3>1, <3>2, <3>3, <3>4
  <2>2. ASSUME NEW e \in Executors, NEW i \in Items, Classify(e, i)
        PROVE  [Pool(d)!Next]_(Pool(d)!fvars)
    <3>1. PICK f \in Futures \ {"none", "running"} :
            /\ f = "aborted" => stopping[e]
            /\ future' = [future EXCEPT ![e][i] = f]
      BY <2>2 DEF Classify
    <3>2. CASE e # d
      BY <2>0, <2>2, <3>1, <3>2 DEF Classify, Pool!fvars
    <3>3. CASE e = d
      <4>1. /\ future'[d] = [future[d] EXCEPT ![i] = f] /\ stopping'[d] = stopping[d]
            /\ future[d][i] = "running" /\ f \in {"succeeded", "failed", "aborted", "rejected"}
        BY <2>0, <2>2, <3>1, <3>3 DEF Classify, Futures, Stored
      <4>2. Pool(d)!Resolve(i, f)
        BY <3>1, <3>3, <4>1 DEF Pool!Resolve
      <4> QED
        BY <4>1, <4>2 DEF Pool!Next, Pool!Resolved
    <3> QED
      BY <3>2, <3>3
  <2>3. CASE Recover \/ Retry \/ UNCHANGED vars
    BY <2>3 DEF Recover, Retry, vars, local, pool, Pool!fvars
  <2> QED
    BY <1>2, <2>1, <2>2, <2>3 DEF Next
<1>3. IInv /\ [Next]_vars =>
        [\A e \in Executors : [Pool(e)!Next]_(Pool(e)!fvars)]_<<future, stopping>>
  BY <1>2
<1> QED
  BY <1>1, <1>3, InvHolds, PTL DEF Spec, PoolKeepsFutures
=============================================================================
