---------------------------- MODULE IngestProofs ----------------------------
(***************************************************************************)
(* Proofs about Ingest, for any set of selections, any limits and any      *)
(* payload sizes.                                                          *)
(***************************************************************************)
EXTENDS Ingest, FiniteSetTheorems, SequenceTheorems, TLAPS

(***************************************************************************)
(* Counting reserved bytes: ByteSet(J, n) has one element per byte, so its *)
(* cardinality is the sum of the sizes of the jobs in J, and a job enters  *)
(* or leaves J with exactly its own bytes.                                 *)
(***************************************************************************)

\* The set of bytes is finite, since selections and the budget are.
LEMMA ByteSetFinite ==
  ASSUME NEW J, NEW n
  PROVE  IsFiniteSet(ByteSet(J, n))
<1>1. IsFiniteSet(1..BudgetLimit)
  BY FS_Interval, BudgetLimitAssumption
<1>2. IsFiniteSet(Selections \X (1..BudgetLimit))
  BY <1>1, FS_Product, SelectionsAssumption
<1>3. QED
  BY <1>2, FS_Subset DEF ByteSet

\* A job that joins J adds its size (ByteBudget::try_reserve).
LEMMA ByteSetAdd ==
  ASSUME NEW J \in SUBSET Selections, NEW n \in [Selections -> Nat],
         NEW s \in Selections, s \notin J, n[s] <= BudgetLimit
  PROVE  Cardinality(ByteSet(J \cup {s}, n)) = Cardinality(ByteSet(J, n)) + n[s]
<1> DEFINE Own == {s} \X (1..n[s])
<1>1. IsFiniteSet(Own) /\ Cardinality(Own) = n[s]
  <2>1. n[s] \in Nat
    OBVIOUS
  <2>2. IsFiniteSet({s}) /\ Cardinality({s}) = 1
    BY FS_Singleton
  <2>3. IsFiniteSet(1..n[s]) /\ Cardinality(1..n[s]) = n[s]
    BY <2>1, FS_Interval
  <2>4. IsFiniteSet(Own) /\ Cardinality(Own) = 1 * n[s]
    BY <2>2, <2>3, FS_Product
  <2>5. QED
    BY <2>1, <2>4
<1>2. ByteSet(J \cup {s}, n) = ByteSet(J, n) \cup Own
  BY BudgetLimitAssumption DEF ByteSet
<1>3. ByteSet(J, n) \cap Own = {}
  BY DEF ByteSet
<1>4. Cardinality(ByteSet(J, n) \cap Own) = 0
  BY <1>3, FS_EmptySet
<1>5. Cardinality(ByteSet(J, n)) \in Nat
  BY ByteSetFinite, FS_CardinalityType
<1>6. Cardinality(ByteSet(J, n) \cup Own)
      = Cardinality(ByteSet(J, n)) + Cardinality(Own) - Cardinality(ByteSet(J, n) \cap Own)
  <2> HIDE DEF Own
  <2>1. IsFiniteSet(ByteSet(J, n))
    BY ByteSetFinite
  <2>2. QED
    BY <1>1, <2>1, FS_Union
<1>7. n[s] \in Nat
  OBVIOUS
<1>8. Cardinality(ByteSet(J \cup {s}, n)) = Cardinality(ByteSet(J, n) \cup Own)
  BY <1>2, Zenon
<1>9. QED
  <2> HIDE DEF Own
  <2>1. QED
    BY <1>1, <1>4, <1>5, <1>6, <1>7, <1>8

\* A job that leaves J returns its size (BytePermit's drop).
LEMMA ByteSetRemove ==
  ASSUME NEW J \in SUBSET Selections, NEW n \in [Selections -> Nat],
         NEW s \in J, n[s] <= BudgetLimit
  PROVE  /\ Cardinality(ByteSet(J \ {s}, n)) = Cardinality(ByteSet(J, n)) - n[s]
         /\ Cardinality(ByteSet(J, n)) - n[s] \in Nat
<1>1. (J \ {s}) \cup {s} = J
  OBVIOUS
<1>2. Cardinality(ByteSet(J, n)) = Cardinality(ByteSet(J \ {s}, n)) + n[s]
  BY <1>1, ByteSetAdd
<1>3. Cardinality(ByteSet(J \ {s}, n)) \in Nat
  BY ByteSetFinite, FS_CardinalityType
<1>4. QED
  BY <1>2, <1>3

\* The sizes of jobs outside J do not matter.
LEMMA ByteSetFrame ==
  ASSUME NEW J, NEW n, NEW m, \A s \in J : n[s] = m[s]
  PROVE  ByteSet(J, n) = ByteSet(J, m)
BY DEF ByteSet

-----------------------------------------------------------------------------
(***************************************************************************)
(* The inductive invariant.  The counters alone are not inductive: that a  *)
(* swap adds to ReservedBytes needs the job not to hold a permit yet, that *)
(* the worker's release is exact needs its job to hold one, and that it    *)
(* does not uncover another job needs each job to be in one place only.    *)
(***************************************************************************)

\* Each job is in one place, and its reader has left the enqueue loop.
OnePlace ==
    /\ \A i, j \in 1..Len(queue) : queue[i] = queue[j] => i = j
    /\ \A i \in 1..Len(queue) : queue[i] # worker
    /\ \A s \in InFlight : pc[s] \in {"exit", "done"}

\* The fate of a job follows its place.
FateByPlace ==
    /\ \A i \in 1..Len(queue) : fate[queue[i]] = "queued"
    /\ worker # None => fate[worker] \in {"queued", "stored", "discarded"}
    /\ \A s \in Selections : fate[s] = "queued" => s \in InFlight
    /\ \A s \in Selections : pc[s] \notin {"exit", "done"} => fate[s] = "pending"

\* What the reservation loop knows at its control points.
PermitFacts ==
    /\ \A s \in permits : bytes[s] <= BudgetLimit
    /\ \A s \in Selections : pc[s] = "send" => s \in permits

IInv == /\ TypeOK /\ GateExact /\ BudgetExact /\ PermitsCoverJobs
        /\ OnePlace /\ FateByPlace /\ PermitFacts

\* Init establishes the invariant.
LEMMA InitInv == Init => IInv
<1> SUFFICES ASSUME Init PROVE IInv
  OBVIOUS
<1>1. Admitted = {} /\ ReservedBytes = {} /\ InFlight = {}
  BY NoneAssumption DEF Init, Admitted, ReaderPoints, ReservedBytes, ByteSet, InFlight
<1>2. Cardinality(Admitted) = 0 /\ Cardinality(ReservedBytes) = 0
  BY <1>1, FS_EmptySet
<1>3. TypeOK
  BY DEF Init, TypeOK, Points, Fates
<1>4. GateExact /\ BudgetExact
  BY <1>2, MaxReadersAssumption, BudgetLimitAssumption DEF Init, GateExact, BudgetExact
<1>5. PermitsCoverJobs /\ OnePlace /\ FateByPlace /\ PermitFacts
  BY <1>1 DEF Init, PermitsCoverJobs, OnePlace, FateByPlace, PermitFacts, InFlight
<1>6. QED
  BY <1>3, <1>4, <1>5 DEF IInv

\* The holders of gate permits are finitely many.
LEMMA AdmittedFinite == IsFiniteSet(Admitted) /\ Cardinality(Admitted) \in Nat
<1>1. IsFiniteSet(Admitted)
  BY SelectionsAssumption, FS_Subset DEF Admitted
<1>2. QED
  BY <1>1, FS_CardinalityType

\* Every step keeps the gate's counter equal to the number of live readers:
\* a swap admits one, an exit or a failed spawn removes one, nothing else
\* moves a selection in or out.
LEMMA GateStep ==
  ASSUME TypeOK, GateExact, [Next]_vars
  PROVE  GateExact' /\ active' \in Nat
<1> USE DEF Points, HandlerPoints, ReaderPoints
<1> USE MaxReadersAssumption
<1>0. IsFiniteSet(Admitted) /\ Cardinality(Admitted) \in Nat
  BY AdmittedFinite
<1>1. ASSUME NEW s \in Selections, GateSwap(s) PROVE GateExact' /\ active' \in Nat
  <2>1. CASE active = seen[s] /\ active' = active + 1 /\ Goto(s, "pipe")
    <3>1. Admitted' = Admitted \cup {s} /\ s \notin Admitted
      BY <1>1, <2>1 DEF GateSwap, Goto, Admitted, TypeOK
    <3>2. Cardinality(Admitted') = Cardinality(Admitted) + 1
      BY <1>0, <3>1, FS_AddElement
    <3>3. active + 1 <= MaxReaders
      BY <1>1, <2>1 DEF GateSwap, TypeOK
    <3>4. active' = active + 1 /\ active \in Nat /\ active = Cardinality(Admitted)
      BY <2>1 DEF GateExact, TypeOK
    <3>5. QED
      BY <3>2, <3>3, <3>4 DEF GateExact
  <2>2. CASE UNCHANGED <<pc, active>>
    BY <2>2 DEF GateExact, Admitted, TypeOK
  <2>3. QED
    BY <1>1, <2>1, <2>2 DEF GateSwap
<1>2. ASSUME NEW s \in Selections, ShedPipe(s) \/ ReaderExit(s)
      PROVE  GateExact' /\ active' \in Nat
  <2>1. Admitted' = Admitted \ {s} /\ s \in Admitted
    BY <1>2 DEF ShedPipe, ReaderExit, Goto, Admitted, TypeOK
  <2>2. Cardinality(Admitted') = Cardinality(Admitted) - 1
    BY <1>0, <2>1, FS_RemoveElement
  <2>3. Cardinality(Admitted) # 0
    BY <1>0, <2>1, FS_EmptySet
  <2>4. active' = active - 1
    BY <1>2 DEF ShedPipe, ReaderExit
  <2>5. active \in Nat /\ active = Cardinality(Admitted) /\ active <= MaxReaders
    BY DEF GateExact, TypeOK
  <2> HIDE DEF TypeOK
  <2>6. QED
    BY <1>0, <2>2, <2>3, <2>4, <2>5 DEF GateExact
<1>3. ASSUME NEW s \in Selections,
             \/ Ignore(s) \/ GateLoad(s) \/ GateRefuse(s) \/ SpawnReader(s)
             \/ Drain(s) \/ Expire(s)
      PROVE  GateExact' /\ active' \in Nat
  <2>1. active' = active /\ Admitted' = Admitted
    BY <1>3 DEF Ignore, GateLoad, GateRefuse, SpawnReader, Drain, DrainToMemory,
       SpoolCreate, SpoolComplete, Reject, Expire, Goto, Admitted, TypeOK, loopVars
  <2>2. QED
    BY <2>1 DEF GateExact, TypeOK
<1>4. ASSUME NEW s \in Selections,
             \/ SizeCheck(s) \/ BudgetLoad(s) \/ BudgetRefuse(s) \/ BudgetSwap(s)
             \/ TrySend(s) \/ DeadlineCheck(s) \/ ReturnBytes(s)
      PROVE  GateExact' /\ active' \in Nat
  <2>1. active' = active /\ Admitted' = Admitted
    BY <1>4 DEF SizeCheck, BudgetLoad, BudgetRefuse, BudgetSwap, TrySend,
       DeadlineCheck, ReturnBytes, Goto, Admitted, TypeOK, loopVars
  <2>2. QED
    BY <2>1 DEF GateExact, TypeOK
<1>5. CASE Worker \/ Finished \/ UNCHANGED vars
  <2>1. active' = active /\ pc' = pc
    BY <1>5 DEF Worker, WorkerRecv, WorkerStore, WorkerRelease, Finished, vars, loopVars
  <2>2. QED
    BY <2>1 DEF GateExact, Admitted, TypeOK
<1>6. QED
  BY <1>1, <1>2, <1>3, <1>4, <1>5 DEF Next, Handler, Enqueue

\* The sizes recorded for jobs are natural numbers.
LEMMA BytesAreNat == TypeOK => bytes \in [Selections -> Nat]
<1>1. PayloadSizes \cup {0} \subseteq Nat
  BY PayloadSizesAssumption
<1>2. QED
  BY <1>1 DEF TypeOK

\* Every step keeps the budget's counter equal to the reserved bytes: a swap
\* adds the job's own bytes, the two drops of a permit return exactly them,
\* and a size is only recorded for a job without a permit.
LEMMA BudgetStep ==
  ASSUME IInv, [Next]_vars
  PROVE  BudgetExact' /\ used' \in Nat
<1> USE DEF IInv
<1>0. bytes \in [Selections -> Nat] /\ permits \in SUBSET Selections
  BY BytesAreNat DEF TypeOK
<1>1. ASSUME NEW s \in Selections, BudgetSwap(s) PROVE BudgetExact' /\ used' \in Nat
  <2>1. CASE used = seen[s] /\ used' = used + bytes[s] /\ permits' = permits \cup {s}
    <3>1. bytes' = bytes /\ used + bytes[s] <= BudgetLimit /\ used \in Nat /\ bytes[s] \in Nat
      BY <1>0, <1>1, <2>1 DEF BudgetSwap, TypeOK
    <3>2. s \notin permits
      BY <1>1 DEF BudgetSwap, PermitsCoverJobs, OnePlace
    <3>3. bytes[s] <= BudgetLimit
      BY <3>1, BudgetLimitAssumption
    <3>4. Cardinality(ByteSet(permits \cup {s}, bytes)) = Cardinality(ByteSet(permits, bytes)) + bytes[s]
      BY <1>0, <3>2, <3>3, ByteSetAdd
    <3>5. ReservedBytes' = ByteSet(permits \cup {s}, bytes)
      BY <2>1, <3>1 DEF ReservedBytes
    <3>6. used' = Cardinality(ReservedBytes')
      BY <2>1, <3>4, <3>5 DEF BudgetExact, ReservedBytes
    <3>7. QED
      BY <2>1, <3>1, <3>6 DEF BudgetExact
  <2>2. CASE UNCHANGED <<used, permits>>
    <3>1. bytes' = bytes
      BY <1>1 DEF BudgetSwap
    <3>2. QED
      BY <2>2, <3>1 DEF BudgetExact, ReservedBytes, TypeOK
  <2>3. QED
    BY <1>1, <2>1, <2>2 DEF BudgetSwap, budgetVars
<1>2. ASSUME NEW s \in permits, used' = used - bytes[s], permits' = permits \ {s}, bytes' = bytes
      PROVE  BudgetExact' /\ used' \in Nat
  <2>1. bytes[s] <= BudgetLimit
    BY DEF PermitFacts
  <2>2. /\ Cardinality(ByteSet(permits \ {s}, bytes)) = Cardinality(ByteSet(permits, bytes)) - bytes[s]
        /\ Cardinality(ByteSet(permits, bytes)) - bytes[s] \in Nat
    BY <1>0, <2>1, ByteSetRemove
  <2>3. ReservedBytes' = ByteSet(permits \ {s}, bytes)
    BY <1>2 DEF ReservedBytes
  <2>4. used' = Cardinality(ReservedBytes') /\ used' \in Nat
    BY <1>2, <2>2, <2>3 DEF BudgetExact, ReservedBytes
  <2>5. used' <= BudgetLimit
    BY <1>0, <1>2, <2>4, BudgetLimitAssumption DEF BudgetExact, TypeOK
  <2>6. QED
    BY <2>4, <2>5 DEF BudgetExact
<1>3. ASSUME NEW s \in Selections, ReturnBytes(s) PROVE BudgetExact' /\ used' \in Nat
  <2>1. CASE s \in permits
    BY <1>2, <1>3, <2>1 DEF ReturnBytes
  <2>2. CASE s \notin permits
    <3>1. used' = used /\ permits' = permits /\ bytes' = bytes
      BY <1>3, <2>2 DEF ReturnBytes
    <3>2. QED
      BY <3>1 DEF BudgetExact, ReservedBytes, TypeOK
  <2>3. QED
    BY <2>1, <2>2
<1>4. CASE WorkerRelease
  <2>1. worker \in permits
    BY <1>4 DEF WorkerRelease, PermitsCoverJobs, InFlight, TypeOK
  <2>2. QED
    BY <1>2, <1>4, <2>1 DEF WorkerRelease
<1>5. ASSUME NEW s \in Selections, DrainToMemory(s) \/ SpoolComplete(s)
      PROVE  BudgetExact' /\ used' \in Nat
  <2>1. used' = used /\ permits' = permits
    BY <1>5 DEF DrainToMemory, SpoolComplete, budgetVars
  <2>2. s \notin permits
    BY <1>5 DEF DrainToMemory, SpoolComplete, PermitsCoverJobs, OnePlace
  <2>3. \A t \in permits : bytes'[t] = bytes[t]
    BY <1>0, <1>5, <2>2 DEF DrainToMemory, SpoolComplete
  <2>4. ByteSet(permits, bytes') = ByteSet(permits, bytes)
    BY <2>3, ByteSetFrame
  <2>5. QED
    BY <2>1, <2>4 DEF BudgetExact, ReservedBytes, TypeOK
<1>6. ASSUME NEW s \in Selections,
             \/ Handler(s) \/ SpoolCreate(s) \/ Reject(s) \/ Expire(s) \/ SizeCheck(s)
             \/ BudgetLoad(s) \/ BudgetRefuse(s) \/ TrySend(s) \/ DeadlineCheck(s) \/ ReaderExit(s)
      PROVE  BudgetExact' /\ used' \in Nat
  <2>1. used' = used /\ permits' = permits /\ bytes' = bytes
    BY <1>6 DEF Handler, Ignore, GateLoad, GateRefuse, GateSwap, ShedPipe, SpawnReader,
       SpoolCreate, Reject, Expire, SizeCheck, BudgetLoad, BudgetRefuse, TrySend,
       DeadlineCheck, ReaderExit, budgetVars
  <2>2. QED
    BY <2>1 DEF BudgetExact, ReservedBytes, TypeOK
<1>7. CASE WorkerRecv \/ WorkerStore \/ Finished \/ UNCHANGED vars
  <2>1. used' = used /\ permits' = permits /\ bytes' = bytes
    BY <1>7 DEF WorkerRecv, WorkerStore, Finished, vars, budgetVars
  <2>2. QED
    BY <2>1 DEF BudgetExact, ReservedBytes, TypeOK
<1>8. QED
  BY <1>1, <1>3, <1>4, <1>5, <1>6, <1>7 DEF Next, Drain, Enqueue, Worker

\* Every step preserves the type invariant; the two counters that are
\* decremented stay natural because they are exact.
LEMMA TypeStep ==
  ASSUME IInv, [Next]_vars
  PROVE  TypeOK'
<1>0. TypeOK /\ active' \in Nat /\ used' \in Nat
  BY GateStep, BudgetStep DEF IInv
<1>1. ASSUME NEW s \in Selections, Handler(s) PROVE TypeOK'
  <2>1. CASE Ignore(s)
    BY <1>0, <2>1 DEF Ignore, Goto, Points, HandlerPoints, ReaderPoints, End, Fates, TypeOK,
       loopVars, budgetVars, queueVars, workerVars
  <2>2. CASE GateLoad(s)
    BY <1>0, <2>2 DEF GateLoad, Goto, Points, HandlerPoints, ReaderPoints, TypeOK,
       loopVars, budgetVars, queueVars, workerVars
  <2>3. CASE GateRefuse(s)
    BY <1>0, <2>3 DEF GateRefuse, Goto, Points, HandlerPoints, ReaderPoints, End, Fates, TypeOK,
       loopVars, budgetVars, queueVars, workerVars
  <2>4. CASE GateSwap(s)
    BY <1>0, <2>4 DEF GateSwap, Goto, Points, HandlerPoints, ReaderPoints, TypeOK,
       loopVars, budgetVars, queueVars, workerVars
  <2>5. CASE ShedPipe(s)
    BY <1>0, <2>5 DEF ShedPipe, Goto, Points, HandlerPoints, ReaderPoints, End, Fates, TypeOK,
       loopVars, budgetVars, queueVars, workerVars
  <2>6. CASE SpawnReader(s)
    BY <1>0, <2>6 DEF SpawnReader, Goto, Points, HandlerPoints, ReaderPoints, TypeOK,
       loopVars, budgetVars, queueVars, workerVars
  <2>7. QED
    BY <1>1, <2>1, <2>2, <2>3, <2>4, <2>5, <2>6 DEF Handler
<1>2. ASSUME NEW s \in Selections, Drain(s) \/ Expire(s) PROVE TypeOK'
  <2>1. CASE DrainToMemory(s)
    BY <1>0, <2>1 DEF DrainToMemory, Goto, Points, HandlerPoints, ReaderPoints, TypeOK,
       loopVars, budgetVars, queueVars, workerVars
  <2>2. CASE SpoolComplete(s)
    BY <1>0, <2>2 DEF SpoolComplete, Goto, Points, HandlerPoints, ReaderPoints, TypeOK,
       loopVars, budgetVars, queueVars, workerVars
  <2>3. CASE SpoolCreate(s)
    BY <1>0, <2>3 DEF SpoolCreate, Goto, Points, HandlerPoints, ReaderPoints, TypeOK,
       loopVars, budgetVars, queueVars, workerVars
  <2>4. CASE Reject(s)
    BY <1>0, <2>4 DEF Reject, Goto, Points, HandlerPoints, ReaderPoints, End, Fates, TypeOK,
       loopVars, budgetVars, queueVars, workerVars
  <2>5. CASE Expire(s)
    BY <1>0, <2>5 DEF Expire, TypeOK,
       loopVars, budgetVars, queueVars, workerVars
  <2>6. QED
    BY <1>2, <2>1, <2>2, <2>3, <2>4, <2>5 DEF Drain
<1>3. ASSUME NEW s \in Selections, Enqueue(s) PROVE TypeOK'
  <2>1. CASE SizeCheck(s)
    BY <1>0, <2>1 DEF SizeCheck, Goto, Points, HandlerPoints, ReaderPoints, TypeOK,
       loopVars, budgetVars, queueVars, workerVars
  <2>2. CASE BudgetLoad(s)
    BY <1>0, <2>2 DEF BudgetLoad, Goto, Points, HandlerPoints, ReaderPoints, TypeOK,
       loopVars, budgetVars, queueVars, workerVars
  <2>3. CASE BudgetRefuse(s)
    BY <1>0, <2>3 DEF BudgetRefuse, Goto, Points, HandlerPoints, ReaderPoints, TypeOK,
       loopVars, budgetVars, queueVars, workerVars
  <2>4. CASE BudgetSwap(s)
    BY <1>0, <2>4 DEF BudgetSwap, Goto, Points, HandlerPoints, ReaderPoints, TypeOK,
       loopVars, budgetVars, queueVars, workerVars
  <2>5. CASE DeadlineCheck(s)
    BY <1>0, <2>5 DEF DeadlineCheck, Goto, Points, HandlerPoints, ReaderPoints, TypeOK,
       loopVars, budgetVars, queueVars, workerVars
  <2>6. CASE ReturnBytes(s)
    BY <1>0, <2>6 DEF ReturnBytes, Goto, Points, HandlerPoints, ReaderPoints, End, Fates, TypeOK,
       loopVars, budgetVars, queueVars, workerVars
  <2>7. CASE ReaderExit(s)
    BY <1>0, <2>7 DEF ReaderExit, Goto, Points, HandlerPoints, ReaderPoints, TypeOK,
       loopVars, budgetVars, queueVars, workerVars
  <2>8. CASE TrySend(s)
    <3>0. /\ queue \in Seq(Selections) /\ arrivals \in Seq(Selections)
          /\ Append(queue, s) \in Seq(Selections) /\ Append(arrivals, s) \in Seq(Selections)
      BY <1>0 DEF TypeOK
    <3>a. \/ queue' = Append(queue, s) /\ arrivals' = Append(arrivals, s)
          \/ queue' = queue /\ arrivals' = arrivals
      BY <2>8 DEF TrySend, queueVars
    <3>1. queue' \in Seq(Selections) /\ arrivals' \in Seq(Selections)
      BY <3>0, <3>a
    <3>2. pc' \in [Selections -> Points] /\ fate' \in [Selections -> Fates]
      BY <1>0, <2>8 DEF TrySend, Goto, End, TypeOK, Points, HandlerPoints, ReaderPoints,
         Fates, queueVars
    <3>3. QED
      BY <1>0, <2>8, <3>1, <3>2 DEF TrySend, TypeOK, loopVars, budgetVars, workerVars
  <2>9. QED
    BY <1>3, <2>1, <2>2, <2>3, <2>4, <2>5, <2>6, <2>7, <2>8 DEF Enqueue
<1>4. CASE Worker
  <2>1. CASE WorkerRecv
    <3>1. queue \in Seq(Selections) /\ queue # <<>>
      BY <1>0, <2>1 DEF WorkerRecv, TypeOK
    <3>2. Tail(queue) \in Seq(Selections) /\ Head(queue) \in Selections
      BY <3>1
    <3>3. queue' \in Seq(Selections) /\ worker' \in Selections
      BY <2>1, <3>2 DEF WorkerRecv
    <3>4. QED
      BY <1>0, <2>1, <3>3 DEF WorkerRecv, TypeOK, loopVars, budgetVars
  <2>2. CASE WorkerStore
    BY <1>0, <2>2 DEF WorkerStore, End, TypeOK, Fates, loopVars, budgetVars, queueVars, workerVars
  <2>3. CASE WorkerRelease
    BY <1>0, <2>3 DEF WorkerRelease, TypeOK, loopVars, queueVars
  <2>4. QED
    BY <1>4, <2>1, <2>2, <2>3 DEF Worker
<1>5. CASE Finished \/ UNCHANGED vars
  <2>1. UNCHANGED vars
    BY <1>5 DEF Finished
  <2>2. QED
    BY <1>0, <2>1 DEF TypeOK, vars
<1>6. QED
  BY <1>1, <1>2, <1>3, <1>4, <1>5 DEF Next

\* The part of the invariant about where jobs and permits are.
JobInv == PermitsCoverJobs /\ OnePlace /\ FateByPlace /\ PermitFacts

\* A step that leaves queue and worker alone moves no job.
LEMMA SameJobs ==
  ASSUME UNCHANGED <<queue, worker>>
  PROVE  InFlight' = InFlight
BY DEF InFlight

\* What a step of the thread that handles s must respect when it neither
\* queues nor takes a job and grants or drops no permit.
LEMMA JobFrame ==
  ASSUME IInv, TypeOK', NEW s \in Selections,
         UNCHANGED <<queue, worker, permits>>,
         \A t \in Selections \ {s} : pc'[t] = pc[t] /\ fate'[t] = fate[t] /\ bytes'[t] = bytes[t],
         s \in permits => bytes'[s] = bytes[s],
         s \in InFlight => pc'[s] \in {"exit", "done"} /\ fate'[s] = fate[s],
         s \notin InFlight => fate'[s] # "queued",
         s \in permits /\ s \notin InFlight => pc'[s] \in {"send", "check", "dropped"},
         pc'[s] = "send" => s \in permits,
         pc'[s] \notin {"exit", "done"} => fate'[s] = "pending"
  PROVE  JobInv'
<1> USE DEF IInv, JobInv
<1>1. InFlight' = InFlight
  BY SameJobs
<1>2. PermitsCoverJobs'
  BY <1>1 DEF PermitsCoverJobs, TypeOK
<1>3. OnePlace'
  <2>1. \A t \in InFlight : t \in Selections
    BY DEF TypeOK, InFlight
  <2>2. \A t \in InFlight : pc'[t] \in {"exit", "done"}
    BY <2>1 DEF OnePlace
  <2>3. /\ \A i, j \in 1..Len(queue) : queue[i] = queue[j] => i = j
        /\ \A i \in 1..Len(queue) : queue[i] # worker
    BY DEF OnePlace
  <2>4. QED
    BY <1>1, <2>2, <2>3 DEF OnePlace
<1>4. FateByPlace'
  <2>1. \A i \in 1..Len(queue) : queue[i] \in Selections /\ queue[i] \in InFlight
    <3>1. \A i \in 1..Len(queue) : queue[i] \in Selections
      BY DEF TypeOK
    <3>2. QED
      BY <3>1 DEF InFlight
  <2>2. worker # None => worker \in Selections /\ worker \in InFlight
    BY DEF TypeOK, InFlight
  <2>3. QED
    BY <1>1, <2>1, <2>2 DEF FateByPlace
<1>5. PermitFacts'
  BY DEF PermitFacts, TypeOK
<1>6. QED
  BY <1>2, <1>3, <1>4, <1>5

\* Every step keeps each job in one place, covered by one permit.
LEMMA JobStep ==
  ASSUME IInv, [Next]_vars
  PROVE  JobInv'
<1> USE DEF IInv
<1>0. TypeOK'
  BY TypeStep
<1>a. ASSUME NEW s \in Selections, pc[s] \notin {"send", "check", "dropped", "exit", "done"}
      PROVE  s \notin InFlight /\ s \notin permits /\ fate[s] = "pending"
  BY <1>a DEF OnePlace, FateByPlace, PermitsCoverJobs
<1>b. ASSUME NEW s \in Selections, pc[s] \in {"send", "check", "dropped"}
      PROVE  s \notin InFlight /\ fate[s] = "pending"
  BY <1>b DEF OnePlace, FateByPlace
<1>1. ASSUME NEW s \in Selections, Handler(s) PROVE JobInv'
  <2>1. pc[s] \in {"offered", "gate", "pipe"}
    BY <1>1 DEF Handler, Ignore, GateLoad, GateRefuse, GateSwap, ShedPipe, SpawnReader
  <2>2. s \notin InFlight /\ s \notin permits /\ fate[s] = "pending"
    BY <1>a, <2>1
  <2>3. /\ UNCHANGED <<queue, worker, permits, bytes>>
        /\ \A t \in Selections \ {s} : pc'[t] = pc[t] /\ fate'[t] = fate[t]
        /\ pc'[s] # "send" /\ fate'[s] # "queued"
        /\ pc'[s] \notin {"exit", "done"} => fate'[s] = "pending"
    BY <1>1, <2>2 DEF Handler, Ignore, GateLoad, GateRefuse, GateSwap, ShedPipe,
       SpawnReader, Goto, End, TypeOK, budgetVars, queueVars, workerVars
  <2>4. QED
    BY <1>0, <2>2, <2>3, JobFrame
<1>2. ASSUME NEW s \in Selections, Drain(s) PROVE JobInv'
  <2>1. pc[s] \in {"drain", "spool"}
    BY <1>2 DEF Drain, DrainToMemory, SpoolCreate, SpoolComplete, Reject
  <2>2. s \notin InFlight /\ s \notin permits /\ fate[s] = "pending"
    BY <1>a, <2>1
  <2>3. /\ UNCHANGED <<queue, worker, permits>>
        /\ \A t \in Selections \ {s} : pc'[t] = pc[t] /\ fate'[t] = fate[t] /\ bytes'[t] = bytes[t]
        /\ pc'[s] # "send" /\ fate'[s] # "queued"
        /\ pc'[s] \notin {"exit", "done"} => fate'[s] = "pending"
    BY <1>2, <2>2 DEF Drain, DrainToMemory, SpoolCreate, SpoolComplete, Reject,
       Goto, End, TypeOK, budgetVars, queueVars, workerVars
  <2>4. QED
    BY <1>0, <2>2, <2>3, JobFrame
<1>3. ASSUME NEW s \in Selections, SizeCheck(s) \/ BudgetLoad(s) \/ BudgetRefuse(s)
      PROVE  JobInv'
  <2>1. pc[s] \in {"size", "load", "reserve"}
    BY <1>3 DEF SizeCheck, BudgetLoad, BudgetRefuse
  <2>2. s \notin InFlight /\ s \notin permits /\ fate[s] = "pending"
    BY <1>a, <2>1
  <2>3. /\ UNCHANGED <<queue, worker, permits, bytes, fate>>
        /\ \A t \in Selections \ {s} : pc'[t] = pc[t]
        /\ pc'[s] # "send"
    BY <1>3 DEF SizeCheck, BudgetLoad, BudgetRefuse, Goto, TypeOK, budgetVars, queueVars, workerVars
  <2>4. QED
    BY <1>0, <2>2, <2>3, JobFrame
<1>4. ASSUME NEW s \in Selections, DeadlineCheck(s) PROVE JobInv'
  <2>1. s \notin InFlight /\ fate[s] = "pending"
    BY <1>4, <1>b DEF DeadlineCheck
  <2>2. /\ UNCHANGED <<queue, worker, permits, bytes, fate>>
        /\ \A t \in Selections \ {s} : pc'[t] = pc[t]
        /\ pc'[s] = "send" => s \in permits
        /\ s \in permits => pc'[s] \in {"send", "dropped"}
    BY <1>4 DEF DeadlineCheck, Goto, TypeOK, budgetVars, queueVars, workerVars
  <2>3. QED
    BY <1>0, <2>1, <2>2, JobFrame
<1>5. ASSUME NEW s \in Selections, Expire(s) \/ ReaderExit(s) PROVE JobInv'
  <2>1. /\ UNCHANGED <<queue, worker, permits, bytes, fate>>
        /\ \A t \in Selections \ {s} : pc'[t] = pc[t]
        /\ pc'[s] = pc[s] \/ (pc[s] = "exit" /\ pc'[s] = "done")
    BY <1>5 DEF Expire, ReaderExit, Goto, TypeOK, budgetVars, queueVars, workerVars
  <2>2. s \in InFlight => pc'[s] \in {"exit", "done"}
    BY <2>1 DEF OnePlace
  <2>3. s \notin InFlight => fate[s] # "queued"
    BY DEF FateByPlace
  <2>4. s \in permits /\ s \notin InFlight => pc'[s] \in {"send", "check", "dropped"}
    BY <2>1 DEF PermitsCoverJobs
  <2>5. (pc'[s] = "send" => s \in permits) /\ (pc'[s] \notin {"exit", "done"} => fate'[s] = "pending")
    BY <2>1 DEF PermitFacts, FateByPlace
  <2>6. QED
    BY <1>0, <2>1, <2>2, <2>3, <2>4, <2>5, JobFrame
<1>6. ASSUME NEW s \in Selections, BudgetSwap(s) PROVE JobInv'
  <2>1. s \notin InFlight /\ s \notin permits /\ fate[s] = "pending"
    BY <1>6, <1>a DEF BudgetSwap
  <2>2. UNCHANGED <<queue, worker, bytes, fate>> /\ InFlight' = InFlight
    BY <1>6, SameJobs DEF BudgetSwap, queueVars, workerVars
  <2>3. CASE UNCHANGED <<pc, permits>>
    BY <2>2, <2>3 DEF JobInv, PermitsCoverJobs, OnePlace, FateByPlace, PermitFacts
  <2>4. CASE permits' = permits \cup {s} /\ Goto(s, "send")
    <3>1. \A t \in Selections : pc'[t] = IF t = s THEN "send" ELSE pc[t]
      BY <2>4 DEF Goto, TypeOK
    <3>2. bytes[s] <= BudgetLimit
      BY <1>6, BytesAreNat, BudgetLimitAssumption DEF BudgetSwap, TypeOK
    <3>3. PermitsCoverJobs' /\ PermitFacts'
      BY <2>2, <2>4, <3>1, <3>2 DEF PermitsCoverJobs, PermitFacts, TypeOK
    <3>4. OnePlace' /\ FateByPlace'
      BY <2>1, <2>2, <3>1 DEF OnePlace, FateByPlace, InFlight
    <3>5. QED
      BY <3>3, <3>4 DEF JobInv
  <2>5. QED
    BY <1>6, <2>3, <2>4 DEF BudgetSwap, budgetVars
<1>7. ASSUME NEW s \in Selections, ReturnBytes(s) PROVE JobInv'
  <2>1. s \notin InFlight /\ fate[s] = "pending"
    BY <1>7, <1>b DEF ReturnBytes
  <2>2. UNCHANGED <<queue, worker, bytes>> /\ InFlight' = InFlight /\ permits' = permits \ {s}
    BY <1>7, SameJobs DEF ReturnBytes, queueVars, workerVars
  <2>3. \A t \in Selections : /\ pc'[t] = IF t = s THEN "exit" ELSE pc[t]
                              /\ fate'[t] = IF t = s THEN "shedQueue" ELSE fate[t]
    BY <1>7 DEF ReturnBytes, Goto, End, TypeOK
  <2>4. PermitsCoverJobs' /\ PermitFacts'
    BY <2>1, <2>2, <2>3 DEF PermitsCoverJobs, PermitFacts, TypeOK
  <2>5. OnePlace'
    BY <2>1, <2>2, <2>3 DEF OnePlace, InFlight
  <2>6. \A i \in 1..Len(queue) : queue[i] \in Selections /\ queue[i] \in InFlight
    BY DEF TypeOK, InFlight
  <2>7. worker # None => worker \in Selections /\ worker \in InFlight
    BY DEF TypeOK, InFlight
  <2>8. FateByPlace'
    BY <2>1, <2>2, <2>3, <2>6, <2>7 DEF FateByPlace
  <2>9. QED
    BY <2>4, <2>5, <2>8 DEF JobInv
<1>8. ASSUME NEW s \in Selections, TrySend(s) PROVE JobInv'
  <2>1. s \notin InFlight /\ fate[s] = "pending" /\ s \in permits
    BY <1>8, <1>b DEF TrySend, PermitFacts
  <2>2. CASE UNCHANGED <<queue, fate>> /\ Goto(s, "check")
    <3>1. /\ UNCHANGED <<queue, worker, permits, bytes, fate>>
          /\ \A t \in Selections \ {s} : pc'[t] = pc[t]
          /\ pc'[s] = "check"
      BY <1>8, <2>2 DEF TrySend, Goto, TypeOK, budgetVars, workerVars
    <3>2. QED
      BY <1>0, <2>1, <3>1, JobFrame
  <2>3. CASE queue' = Append(queue, s) /\ Goto(s, "exit") /\ End(s, "queued")
    <3>1. UNCHANGED <<worker, permits, bytes>>
      BY <1>8 DEF TrySend, budgetVars, workerVars
    <3>2. \A t \in Selections : /\ pc'[t] = IF t = s THEN "exit" ELSE pc[t]
                                /\ fate'[t] = IF t = s THEN "queued" ELSE fate[t]
      BY <2>3 DEF Goto, End, TypeOK
    <3>3. /\ Len(queue') = Len(queue) + 1 /\ Len(queue) \in Nat
          /\ \A i \in 1..Len(queue) : queue'[i] = queue[i] /\ queue[i] \in Selections
          /\ queue'[Len(queue) + 1] = s
      BY <2>3 DEF TypeOK
    <3>4. InFlight' = InFlight \cup {s}
      BY <3>1, <3>3 DEF InFlight
    <3>5. \A i \in 1..Len(queue) : queue[i] \in InFlight /\ queue[i] # s
      BY <2>1, <3>3 DEF InFlight
    <3>6. worker # s /\ (worker # None => worker \in Selections)
      BY <2>1 DEF InFlight, TypeOK
    <3>7. PermitsCoverJobs' /\ PermitFacts'
      BY <2>1, <3>1, <3>2, <3>4 DEF PermitsCoverJobs, PermitFacts, TypeOK
    <3>8. OnePlace'
      <4>1. \A i \in 1..Len(queue') : i \in 1..Len(queue) \/ i = Len(queue) + 1
        BY <3>3
      <4>2. \A i, j \in 1..Len(queue') : queue'[i] = queue'[j] => i = j
        BY <3>3, <3>5, <4>1 DEF OnePlace
      <4>3. \A i \in 1..Len(queue') : queue'[i] # worker'
        BY <3>1, <3>3, <3>6, <4>1 DEF OnePlace
      <4>4. \A t \in InFlight' : pc'[t] \in {"exit", "done"}
        <5>1. \A t \in InFlight' : t \in Selections
          BY DEF InFlight
        <5>2. QED
          BY <3>2, <3>4, <5>1 DEF OnePlace
      <4>5. QED
        BY <4>2, <4>3, <4>4 DEF OnePlace
    <3>9. FateByPlace'
      <4>1. \A i \in 1..Len(queue') : i \in 1..Len(queue) \/ i = Len(queue) + 1
        BY <3>3
      <4>2. \A i \in 1..Len(queue') : fate'[queue'[i]] = "queued"
        BY <3>2, <3>3, <3>5, <4>1 DEF FateByPlace
      <4>3. worker' # None => fate'[worker'] \in {"queued", "stored", "discarded"}
        BY <3>1, <3>2, <3>6 DEF FateByPlace
      <4>4. /\ \A t \in Selections : fate'[t] = "queued" => t \in InFlight'
            /\ \A t \in Selections : pc'[t] \notin {"exit", "done"} => fate'[t] = "pending"
        BY <3>2, <3>4 DEF FateByPlace
      <4>5. QED
        BY <4>2, <4>3, <4>4 DEF FateByPlace
    <3>10. QED
      BY <3>7, <3>8, <3>9 DEF JobInv
  <2>4. QED
    BY <1>8, <2>2, <2>3 DEF TrySend, queueVars
<1>9. CASE WorkerRecv
  <2>1. UNCHANGED <<pc, fate, bytes, permits>> /\ worker = None /\ queue # <<>>
    BY <1>9 DEF WorkerRecv, budgetVars
  <2>2. /\ Len(queue') = Len(queue) - 1 /\ Len(queue) \in Nat \ {0}
        /\ \A i \in 1..Len(queue') : queue'[i] = queue[i + 1]
        /\ worker' = queue[1] /\ worker' \in Selections
        /\ \A i \in 1..Len(queue) : queue[i] \in Selections
    BY <1>9 DEF WorkerRecv, TypeOK
  <2>3. InFlight' = InFlight
    <3>1. \A t \in Selections : (\E i \in 1..Len(queue) : queue[i] = t)
                               => t = worker' \/ (\E i \in 1..Len(queue') : queue'[i] = t)
      <4> SUFFICES ASSUME NEW t \in Selections, NEW i \in 1..Len(queue), queue[i] = t, t # worker'
                   PROVE  \E j \in 1..Len(queue') : queue'[j] = t
        OBVIOUS
      <4>1. i - 1 \in 1..Len(queue') /\ queue'[i - 1] = t
        BY <2>2
      <4>2. QED
        BY <4>1
    <3>2. \A t \in Selections : t = worker' \/ (\E i \in 1..Len(queue') : queue'[i] = t)
                               => \E i \in 1..Len(queue) : queue[i] = t
      BY <2>2
    <3>3. QED
      BY <2>1, <3>1, <3>2, NoneAssumption DEF InFlight
  <2>4. PermitsCoverJobs' /\ PermitFacts'
    BY <2>1, <2>3 DEF PermitsCoverJobs, PermitFacts
  <2>5. OnePlace'
    <3>1. \A i \in 1..Len(queue') : i + 1 \in 1..Len(queue) /\ i + 1 # 1
      BY <2>2
    <3>2. 1 \in 1..Len(queue)
      BY <2>2
    <3>3. \A i, j \in 1..Len(queue') : queue'[i] = queue'[j] => i = j
      BY <2>2, <3>1 DEF OnePlace
    <3>4. \A i \in 1..Len(queue') : queue'[i] # worker'
      BY <2>2, <3>1, <3>2 DEF OnePlace
    <3>5. QED
      BY <2>1, <2>3, <3>3, <3>4 DEF OnePlace
  <2>6. FateByPlace'
    BY <2>1, <2>2, <2>3 DEF FateByPlace
  <2>7. QED
    BY <2>4, <2>5, <2>6 DEF JobInv
<1>10. CASE WorkerStore
  <2>1. worker \in Selections /\ worker \in InFlight
    BY <1>10 DEF WorkerStore, TypeOK, InFlight
  <2>2. UNCHANGED <<pc, queue, worker, bytes, permits>> /\ InFlight' = InFlight
    BY <1>10, SameJobs DEF WorkerStore, queueVars, workerVars, budgetVars
  <2>3. /\ fate'[worker] \in {"stored", "discarded"}
        /\ \A t \in Selections \ {worker} : fate'[t] = fate[t]
    BY <1>10, <2>1 DEF WorkerStore, End, TypeOK
  <2>4. PermitsCoverJobs' /\ PermitFacts' /\ OnePlace'
    BY <2>2 DEF PermitsCoverJobs, PermitFacts, OnePlace
  <2>5. \A i \in 1..Len(queue) : queue[i] \in Selections \ {worker}
    BY DEF OnePlace, TypeOK
  <2>6. pc[worker] \in {"exit", "done"}
    BY <2>1 DEF OnePlace
  <2>7. FateByPlace'
    BY <2>1, <2>2, <2>3, <2>5, <2>6 DEF FateByPlace
  <2>8. QED
    BY <2>4, <2>7 DEF JobInv
<1>11. CASE WorkerRelease
  <2>1. worker \in Selections /\ worker \in InFlight
    BY <1>11 DEF WorkerRelease, TypeOK, InFlight
  <2>2. /\ UNCHANGED <<pc, queue, fate, bytes>>
        /\ permits' = permits \ {worker} /\ worker' = None /\ fate[worker] # "queued"
    BY <1>11 DEF WorkerRelease, queueVars
  <2>3. InFlight' = InFlight \ {worker}
    BY <2>1, <2>2, NoneAssumption DEF InFlight, OnePlace
  <2>4. pc[worker] \in {"exit", "done"}
    BY <2>1 DEF OnePlace
  <2>5. PermitsCoverJobs' /\ PermitFacts'
    BY <2>2, <2>3, <2>4 DEF PermitsCoverJobs, PermitFacts
  <2>6. \A i \in 1..Len(queue) : queue[i] \in Selections
    BY DEF TypeOK
  <2>7. OnePlace'
    BY <2>2, <2>3, <2>6, NoneAssumption DEF OnePlace
  <2>8. FateByPlace'
    BY <2>2, <2>3 DEF FateByPlace
  <2>9. QED
    BY <2>5, <2>7, <2>8 DEF JobInv
<1>12. CASE Finished \/ UNCHANGED vars
  <2>1. UNCHANGED vars
    BY <1>12 DEF Finished
  <2>2. QED
    BY <2>1 DEF vars, JobInv, PermitsCoverJobs, OnePlace, FateByPlace, PermitFacts, InFlight
<1>13. QED
  BY <1>1, <1>2, <1>3, <1>4, <1>5, <1>6, <1>7, <1>8, <1>9, <1>10, <1>11, <1>12
     DEF Next, Enqueue, Worker

\* The inductive step.
LEMMA NextInv == IInv /\ [Next]_vars => IInv'
<1> SUFFICES ASSUME IInv, [Next]_vars PROVE IInv'
  OBVIOUS
<1>1. TypeOK' /\ BudgetExact' /\ JobInv'
  BY TypeStep, BudgetStep, JobStep
<1>2. GateExact'
  BY GateStep DEF IInv
<1>3. QED
  BY <1>1, <1>2 DEF IInv, JobInv

\* Every state of the ingestion path satisfies the inductive invariant.
THEOREM IngestInvariant == Spec => []IInv
BY InitInv, NextInv, PTL DEF Spec

\* Type correctness: in particular neither atomic counter ever wraps below
\* zero (ReaderPermit and BytePermit drops).
THEOREM IngestTypeCorrect == Spec => []TypeOK
<1>1. IInv => TypeOK
  BY DEF IInv
<1>2. QED
  BY <1>1, IngestInvariant, PTL

\* ReaderGate: the counter is exact and the reader limit holds, for every
\* number of selections and every limit.
THEOREM GateIsExact == Spec => []GateExact
<1>1. IInv => GateExact
  BY DEF IInv
<1>2. QED
  BY <1>1, IngestInvariant, PTL

\* ByteBudget: the counter is exact and the byte limit holds, for every set of
\* payload sizes.
THEOREM BudgetIsExact == Spec => []BudgetExact
<1>1. IInv => BudgetExact
  BY DEF IInv
<1>2. QED
  BY <1>1, IngestInvariant, PTL

\* Every queued or worked-on job is counted, and no permit outlives its job.
THEOREM PermitsAlwaysCoverJobs == Spec => []PermitsCoverJobs
<1>1. IInv => PermitsCoverJobs
  BY DEF IInv
<1>2. QED
  BY <1>1, IngestInvariant, PTL

\* The gate and the budget are exact and cover the jobs in flight, for every
\* number of selections, reader limit, queue and budget (ReaderGate,
\* ByteBudget, drop(permit)).
THEOREM PermitsAreExact == Spec => []PermitsExact
<1>1. IInv => PermitsExact
  BY DEF IInv, PermitsExact
<1>2. QED
  BY <1>1, IngestInvariant, PTL

-----------------------------------------------------------------------------
(***************************************************************************)
(* Spool files, loss counters and the order of the queue: a second         *)
(* invariant on top of IInv, which says where each job is.                 *)
(***************************************************************************)

\* A step keeps every spool file owned: a reader that gives its job up unlinks
\* the file in the same step, one that hands it over leaves it to the queue,
\* and the worker has consumed it before it lets the job go.
LEMMA FilesStep ==
  ASSUME IInv, SpoolFilesOwned, [Next]_vars
  PROVE  SpoolFilesOwned'
<1> USE DEF ReaderPoints, HandlerPoints
<1>0. /\ \A s \in files : s \in Selections
      /\ \A s \in InFlight : pc[s] \in {"exit", "done"}
      /\ \A s \in Selections : pc[s] \notin {"exit", "done"} => fate[s] = "pending"
  BY DEF IInv, TypeOK, OnePlace, FateByPlace
<1>t. /\ pc \in [Selections -> Points] /\ fate \in [Selections -> Fates]
      /\ queue \in Seq(Selections) /\ worker \in Selections \cup {None}
  BY DEF IInv, TypeOK
<1>1. ASSUME NEW s \in Selections, Handler(s) PROVE SpoolFilesOwned'
  <2>1. UNCHANGED <<queue, worker, files>> /\ pc[s] \in {"offered", "gate", "pipe"}
    BY <1>1 DEF Handler, Ignore, GateLoad, GateRefuse, GateSwap, ShedPipe, SpawnReader,
       queueVars, workerVars
  <2>2. \A t \in Selections \ {s} : pc'[t] = pc[t] /\ fate'[t] = fate[t]
    BY <1>t, <1>1 DEF Handler, Ignore, GateLoad, GateRefuse, GateSwap, ShedPipe, SpawnReader, Goto, End
  <2>3. s \notin files
    BY <1>0, <2>1 DEF SpoolFilesOwned
  <2>4. InFlight' = InFlight
    BY <2>1, SameJobs
  <2>5. QED
    BY <1>0, <2>1, <2>2, <2>3, <2>4 DEF SpoolFilesOwned
<1>2. ASSUME NEW s \in Selections, Drain(s) PROVE SpoolFilesOwned'
  <2>1. UNCHANGED <<queue, worker>> /\ files' \subseteq files \cup {s}
    BY <1>2 DEF Drain, DrainToMemory, SpoolCreate, SpoolComplete, Reject, queueVars, workerVars
  <2>2. \A t \in Selections \ {s} : pc'[t] = pc[t] /\ fate'[t] = fate[t]
    BY <1>t, <1>2 DEF Drain, DrainToMemory, SpoolCreate, SpoolComplete, Reject, Goto, End
  <2>3. s \in files' => pc'[s] \in {"spool", "size"}
    BY <1>t, <1>2 DEF Drain, DrainToMemory, SpoolCreate, SpoolComplete, Reject, Goto
  <2>4. InFlight' = InFlight
    BY <2>1, SameJobs
  <2>5. QED
    BY <1>0, <2>1, <2>2, <2>3, <2>4 DEF SpoolFilesOwned
<1>3. ASSUME NEW s \in Selections,
             \/ SizeCheck(s) \/ BudgetLoad(s) \/ BudgetRefuse(s) \/ BudgetSwap(s)
             \/ DeadlineCheck(s) \/ Expire(s)
      PROVE  SpoolFilesOwned'
  <2>1. UNCHANGED <<queue, worker, fate>> /\ files' \subseteq files
    BY <1>3 DEF SizeCheck, BudgetLoad, BudgetRefuse, BudgetSwap, DeadlineCheck, Expire,
       queueVars, workerVars
  <2>2. \A t \in Selections \ {s} : pc'[t] = pc[t]
    BY <1>t, <1>3 DEF SizeCheck, BudgetLoad, BudgetRefuse, BudgetSwap, DeadlineCheck, Expire, Goto
  <2>3. s \in files' => pc'[s] \in {"load", "reserve", "check", "send"}
    BY <1>t, <1>3 DEF SizeCheck, BudgetLoad, BudgetRefuse, BudgetSwap, DeadlineCheck, Expire, Goto
  <2>4. InFlight' = InFlight
    BY <2>1, SameJobs
  <2>5. QED
    BY <1>0, <2>1, <2>2, <2>3, <2>4 DEF SpoolFilesOwned
<1>4. ASSUME NEW s \in Selections, ReturnBytes(s) \/ ReaderExit(s) PROVE SpoolFilesOwned'
  <2>1. UNCHANGED <<queue, worker, files>> /\ pc[s] \in {"dropped", "exit"}
    BY <1>4 DEF ReturnBytes, ReaderExit, queueVars, workerVars
  <2>2. \A t \in Selections \ {s} : pc'[t] = pc[t] /\ fate'[t] = fate[t]
    BY <1>t, <1>4 DEF ReturnBytes, ReaderExit, Goto, End
  <2>3. pc[s] = "exit" => fate'[s] = fate[s]
    BY <1>4 DEF ReturnBytes, ReaderExit
  <2>4. InFlight' = InFlight
    BY <2>1, SameJobs
  <2>5. s \in files => s \in InFlight /\ fate[s] = "queued" /\ pc[s] = "exit"
    BY <1>0, <2>1 DEF SpoolFilesOwned
  <2>6. QED
    BY <1>0, <2>1, <2>2, <2>3, <2>4, <2>5 DEF SpoolFilesOwned
<1>5. ASSUME NEW s \in Selections, TrySend(s) PROVE SpoolFilesOwned'
  <2>1. UNCHANGED <<worker, files>>
    BY <1>5 DEF TrySend, workerVars
  <2>2. \A t \in Selections \ {s} : pc'[t] = pc[t] /\ fate'[t] = fate[t]
    BY <1>t, <1>5 DEF TrySend, Goto, End
  <2>3. CASE UNCHANGED queue /\ Goto(s, "check")
    <3>1. InFlight' = InFlight
      BY <2>1, <2>3, SameJobs
    <3>2. pc'[s] = "check"
      BY <1>t, <2>3 DEF Goto
    <3>3. QED
      BY <1>0, <2>1, <2>2, <3>1, <3>2 DEF SpoolFilesOwned
  <2>4. CASE queue' = Append(queue, s) /\ End(s, "queued")
    <3>1. /\ Len(queue') = Len(queue) + 1 /\ Len(queue) \in Nat
          /\ \A i \in 1..Len(queue) : queue'[i] = queue[i]
          /\ queue'[Len(queue) + 1] = s
      BY <1>t, <2>4
    <3>2. InFlight \subseteq InFlight' /\ s \in InFlight'
      BY <2>1, <3>1 DEF InFlight
    <3>3. fate'[s] = "queued"
      BY <1>t, <2>4 DEF End
    <3>4. QED
      BY <1>0, <2>1, <2>2, <3>2, <3>3 DEF SpoolFilesOwned
  <2>5. QED
    BY <1>5, <2>3, <2>4 DEF TrySend, queueVars
<1>6. CASE WorkerRecv
  <2>1. UNCHANGED <<pc, fate, files>> /\ worker = None /\ queue # <<>>
    BY <1>6 DEF WorkerRecv
  <2>2. /\ Len(queue') = Len(queue) - 1 /\ Len(queue) \in Nat \ {0}
        /\ \A i \in 1..Len(queue') : queue'[i] = queue[i + 1]
        /\ worker' = queue[1]
    BY <1>t, <1>6 DEF WorkerRecv
  <2>3. ASSUME NEW t \in InFlight PROVE t \in InFlight'
    <3>1. t \in Selections /\ t # worker
      BY <2>1, NoneAssumption DEF InFlight
    <3>2. PICK i \in 1..Len(queue) : queue[i] = t
      BY <2>3, <3>1 DEF InFlight
    <3>3. CASE i = 1
      BY <2>2, <3>1, <3>2, <3>3 DEF InFlight
    <3>4. CASE i # 1
      <4>1. i - 1 \in 1..Len(queue') /\ queue'[i - 1] = t
        BY <2>2, <3>2, <3>4
      <4>2. QED
        BY <3>1, <4>1 DEF InFlight
    <3>5. QED
      BY <3>3, <3>4
  <2>4. QED
    BY <2>1, <2>3 DEF SpoolFilesOwned
<1>7. CASE WorkerStore
  <2>1. UNCHANGED <<pc, queue, worker>> /\ files' = files \ {worker}
    BY <1>7 DEF WorkerStore, queueVars, workerVars
  <2>2. \A t \in Selections \ {worker} : fate'[t] = fate[t]
    BY <1>t, <1>7 DEF WorkerStore, End
  <2>3. InFlight' = InFlight
    BY <2>1, SameJobs
  <2>4. QED
    BY <1>0, <2>1, <2>2, <2>3 DEF SpoolFilesOwned
<1>8. CASE WorkerRelease
  <2>1. /\ UNCHANGED <<pc, queue, fate, files>> /\ worker' = None
        /\ worker # None /\ fate[worker] # "queued"
    BY <1>8 DEF WorkerRelease, queueVars
  <2>2. \A t \in InFlight : t # worker => t \in InFlight'
    BY <2>1 DEF InFlight
  <2>3. QED
    BY <2>1, <2>2 DEF SpoolFilesOwned
<1>9. CASE Finished \/ UNCHANGED vars
  BY <1>9 DEF Finished, vars, SpoolFilesOwned, InFlight
<1>10. QED
  BY <1>1, <1>2, <1>3, <1>4, <1>5, <1>6, <1>7, <1>8, <1>9 DEF Next, Enqueue, Worker

\* The selections of one fate are finitely many.
LEMMA WithFinite ==
  ASSUME NEW f, NEW x
  PROVE  /\ IsFiniteSet(With(f)) /\ Cardinality(With(f)) \in Nat
         /\ IsFiniteSet(With(f) \ {x}) /\ Cardinality(With(f) \ {x}) \in Nat
<1>1. IsFiniteSet(With(f)) /\ IsFiniteSet(With(f) \ {x})
  BY SelectionsAssumption, FS_Subset DEF With
<1>2. QED
  BY <1>1, FS_CardinalityType

\* A step that sheds, stores or releases one selection counts exactly that
\* one; every other step leaves the counters and the three fates alone.
LEMMA ShedsStep ==
  ASSUME IInv, ShedsCounted, [Next]_vars
  PROVE  ShedsCounted'
<1>t. /\ pc \in [Selections -> Points] /\ fate \in [Selections -> Fates]
      /\ worker \in Selections \cup {None}
      /\ shedReaders \in Nat /\ shedQueue \in Nat /\ ingress \in Nat
  BY DEF IInv, TypeOK
<1>0. /\ \A s \in Selections : pc[s] \notin {"exit", "done"} => fate[s] = "pending"
      /\ \A i \in 1..Len(queue) : fate[queue[i]] = "queued"
      /\ worker # None => fate[worker] \in {"queued", "stored", "discarded"}
  BY DEF IInv, FateByPlace
<1>c. /\ shedReaders = Cardinality(With("shedReader"))
      /\ shedQueue = Cardinality(With("shedQueue"))
      /\ ingress = Cardinality(With("stored") \ {worker})
  BY DEF ShedsCounted
<1>1. ASSUME NEW s \in Selections, GateRefuse(s) \/ ShedPipe(s) PROVE ShedsCounted'
  <2>1. /\ pc[s] \in {"gate", "pipe"} /\ fate' = [fate EXCEPT ![s] = "shedReader"]
        /\ shedReaders' = shedReaders + 1 /\ UNCHANGED <<shedQueue, ingress, worker>>
    BY <1>1 DEF GateRefuse, ShedPipe, End, workerVars
  <2>2. fate[s] = "pending"
    BY <1>0, <2>1
  <2>3. /\ With("shedReader")' = With("shedReader") \cup {s} /\ s \notin With("shedReader")
        /\ With("shedQueue")' = With("shedQueue") /\ With("stored")' = With("stored")
    BY <1>t, <2>1, <2>2 DEF With
  <2>4. Cardinality(With("shedReader")') = Cardinality(With("shedReader")) + 1
    BY <2>3, WithFinite, FS_AddElement
  <2>5. QED
    BY <1>c, <2>1, <2>3, <2>4 DEF ShedsCounted
<1>2. ASSUME NEW s \in Selections, ReturnBytes(s) PROVE ShedsCounted'
  <2>1. /\ pc[s] = "dropped" /\ fate' = [fate EXCEPT ![s] = "shedQueue"]
        /\ shedQueue' = shedQueue + 1 /\ UNCHANGED <<shedReaders, ingress, worker>>
    BY <1>2 DEF ReturnBytes, End, workerVars, loopVars
  <2>2. fate[s] = "pending"
    BY <1>0, <2>1
  <2>3. /\ With("shedQueue")' = With("shedQueue") \cup {s} /\ s \notin With("shedQueue")
        /\ With("shedReader")' = With("shedReader") /\ With("stored")' = With("stored")
    BY <1>t, <2>1, <2>2 DEF With
  <2>4. Cardinality(With("shedQueue")') = Cardinality(With("shedQueue")) + 1
    BY <2>3, WithFinite, FS_AddElement
  <2>5. QED
    BY <1>c, <2>1, <2>3, <2>4 DEF ShedsCounted
<1>3. ASSUME UNCHANGED <<shedReaders, shedQueue, ingress>>,
             With("shedReader")' = With("shedReader"), With("shedQueue")' = With("shedQueue"),
             (With("stored") \ {worker})' = With("stored") \ {worker}
      PROVE  ShedsCounted'
  BY <1>c, <1>3 DEF ShedsCounted
<1>4. ASSUME NEW s \in Selections, Ignore(s) \/ Reject(s) \/ TrySend(s) PROVE ShedsCounted'
  <2>1. /\ pc[s] \notin {"exit", "done"} /\ UNCHANGED <<shedReaders, shedQueue, ingress, worker>>
        /\ \/ fate' = fate
           \/ \E f \in {"ignored", "rejected", "queued"} : fate' = [fate EXCEPT ![s] = f]
    BY <1>4 DEF Ignore, Reject, TrySend, End, workerVars, loopVars
  <2>2. fate[s] = "pending"
    BY <1>0, <2>1
  <2>3. \A f \in {"shedReader", "shedQueue", "stored"} : With(f)' = With(f)
    BY <1>t, <2>1, <2>2 DEF With
  <2>4. QED
    BY <1>3, <2>1, <2>3
<1>5. ASSUME NEW s \in Selections,
             \/ GateLoad(s) \/ GateSwap(s) \/ SpawnReader(s) \/ DrainToMemory(s)
             \/ SpoolCreate(s) \/ SpoolComplete(s) \/ SizeCheck(s) \/ BudgetLoad(s)
             \/ BudgetRefuse(s) \/ BudgetSwap(s) \/ DeadlineCheck(s) \/ ReaderExit(s) \/ Expire(s)
      PROVE  ShedsCounted'
  <2>1. UNCHANGED <<fate, shedReaders, shedQueue, ingress, worker>>
    BY <1>5 DEF GateLoad, GateSwap, SpawnReader, DrainToMemory, SpoolCreate, SpoolComplete,
       SizeCheck, BudgetLoad, BudgetRefuse, BudgetSwap, DeadlineCheck, ReaderExit, Expire,
       workerVars, loopVars
  <2>2. QED
    BY <1>3, <2>1 DEF With
<1>6. CASE WorkerRecv
  <2>1. UNCHANGED <<fate, shedReaders, shedQueue, ingress>> /\ worker = None /\ queue # <<>>
    BY <1>6 DEF WorkerRecv, loopVars
  <2>2. worker' = queue[1] /\ 1 \in 1..Len(queue)
    BY <1>6, <2>1 DEF WorkerRecv, IInv, TypeOK
  <2>3. worker' \notin With("stored") /\ worker \notin With("stored")
    BY <1>0, <2>1, <2>2, NoneAssumption DEF With
  <2>4. QED
    BY <1>3, <2>1, <2>3 DEF With
<1>7. CASE WorkerStore
  <2>1. /\ worker # None /\ fate[worker] = "queued"
        /\ UNCHANGED <<shedReaders, shedQueue, ingress, worker>>
        /\ \E f \in {"stored", "discarded"} : fate' = [fate EXCEPT ![worker] = f]
    BY <1>7 DEF WorkerStore, End, loopVars, workerVars
  <2>2. With("shedReader")' = With("shedReader") /\ With("shedQueue")' = With("shedQueue")
    BY <1>t, <2>1 DEF With
  <2>3. (With("stored") \ {worker})' = With("stored") \ {worker}
    BY <1>t, <2>1 DEF With
  <2>4. QED
    BY <1>3, <2>1, <2>2, <2>3
<1>8. CASE WorkerRelease
  <2>1. /\ worker # None /\ worker' = None /\ UNCHANGED <<fate, shedReaders, shedQueue>>
        /\ ingress' = IF fate[worker] = "stored" THEN ingress + 1 ELSE ingress
    BY <1>8 DEF WorkerRelease, loopVars
  <2>2. /\ With("shedReader")' = With("shedReader") /\ With("shedQueue")' = With("shedQueue")
        /\ (With("stored") \ {worker})' = With("stored")
    BY <2>1, NoneAssumption DEF With
  <2>3. CASE fate[worker] = "stored"
    <3>1. worker \in With("stored")
      BY <1>t, <2>1, <2>3 DEF With
    <3>2. /\ With("stored") = (With("stored") \ {worker}) \cup {worker}
          /\ worker \notin With("stored") \ {worker}
      BY <3>1
    <3>3. Cardinality(With("stored")) = Cardinality(With("stored") \ {worker}) + 1
      BY <3>2, WithFinite, FS_AddElement
    <3>4. QED
      BY <1>c, <2>1, <2>2, <2>3, <3>3 DEF ShedsCounted
  <2>4. CASE fate[worker] # "stored"
    <3>1. With("stored") \ {worker} = With("stored")
      BY <2>4 DEF With
    <3>2. QED
      BY <1>3, <2>1, <2>2, <2>4, <3>1
  <2>5. QED
    BY <2>3, <2>4
<1>9. CASE Finished \/ UNCHANGED vars
  BY <1>3, <1>9 DEF Finished, vars, With
<1>10. QED
  BY <1>1, <1>2, <1>4, <1>5, <1>6, <1>7, <1>8, <1>9 DEF Next, Handler, Drain, Enqueue, Worker

\* No thread ends its selection without deciding what became of it.
Decided == \A s \in Selections : pc[s] \in {"exit", "done"} => fate[s] # "pending"

\* A step that leaves the fates alone and takes no thread to its end decides
\* nothing.
LEMMA DecidedFrame ==
  ASSUME Decided, fate' = fate,
         \A t \in Selections : pc'[t] \in {"exit", "done"} => pc[t] \in {"exit", "done"}
  PROVE  Decided'
BY DEF Decided

\* Each step that ends a handler or a reader sets its selection's fate, and no
\* step makes a fate pending again.
LEMMA DecidedStep ==
  ASSUME IInv, Decided, [Next]_vars
  PROVE  Decided'
<1>t. /\ pc \in [Selections -> Points] /\ fate \in [Selections -> Fates]
      /\ worker \in Selections \cup {None}
  BY DEF IInv, TypeOK
<1>1. ASSUME NEW s \in Selections, NEW f \in Fates \ {"pending"},
             fate' = [fate EXCEPT ![s] = f],
             \A t \in Selections \ {s} : pc'[t] = pc[t]
      PROVE  Decided'
  BY <1>t, <1>1 DEF Decided
<1>2. ASSUME NEW s \in Selections,
             Ignore(s) \/ GateRefuse(s) \/ ShedPipe(s) \/ Reject(s) \/ ReturnBytes(s)
      PROVE  Decided'
  <2>1. \E f \in Fates \ {"pending"} : fate' = [fate EXCEPT ![s] = f]
    BY <1>2 DEF Ignore, GateRefuse, ShedPipe, Reject, ReturnBytes, End, Fates
  <2>2. \A t \in Selections \ {s} : pc'[t] = pc[t]
    BY <1>t, <1>2 DEF Ignore, GateRefuse, ShedPipe, Reject, ReturnBytes, Goto
  <2>3. QED
    BY <1>1, <2>1, <2>2
<1>3. ASSUME NEW s \in Selections, TrySend(s) PROVE Decided'
  <2>1. CASE End(s, "queued")
    <3>1. fate' = [fate EXCEPT ![s] = "queued"] /\ "queued" \in Fates \ {"pending"}
      BY <2>1 DEF End, Fates
    <3>2. \A t \in Selections \ {s} : pc'[t] = pc[t]
      BY <1>t, <1>3 DEF TrySend, Goto
    <3>3. QED
      BY <1>1, <3>1, <3>2
  <2>2. CASE Goto(s, "check") /\ UNCHANGED fate
    <3>1. \A t \in Selections : pc'[t] \in {"exit", "done"} => pc[t] \in {"exit", "done"}
      BY <1>t, <2>2 DEF Goto
    <3>2. QED
      BY <2>2, <3>1, DecidedFrame
  <2>3. QED
    BY <1>3, <2>1, <2>2 DEF TrySend
<1>4. ASSUME NEW s \in Selections,
             \/ GateLoad(s) \/ GateSwap(s) \/ SpawnReader(s) \/ DrainToMemory(s)
             \/ SpoolCreate(s) \/ SpoolComplete(s) \/ SizeCheck(s) \/ BudgetLoad(s)
             \/ BudgetRefuse(s) \/ BudgetSwap(s) \/ DeadlineCheck(s) \/ ReaderExit(s) \/ Expire(s)
      PROVE  Decided'
  <2>1. fate' = fate
    BY <1>4 DEF GateLoad, GateSwap, SpawnReader, DrainToMemory, SpoolCreate, SpoolComplete,
       SizeCheck, BudgetLoad, BudgetRefuse, BudgetSwap, DeadlineCheck, ReaderExit, Expire
  <2>2. \A t \in Selections : pc'[t] \in {"exit", "done"} => pc[t] \in {"exit", "done"}
    BY <1>t, <1>4 DEF GateLoad, GateSwap, SpawnReader, DrainToMemory, SpoolCreate, SpoolComplete,
       SizeCheck, BudgetLoad, BudgetRefuse, BudgetSwap, DeadlineCheck, ReaderExit, Expire, Goto
  <2>3. QED
    BY <2>1, <2>2, DecidedFrame
<1>5. CASE WorkerStore
  <2>1. worker \in Selections /\ pc' = pc
        /\ \E f \in Fates \ {"pending"} : fate' = [fate EXCEPT ![worker] = f]
    BY <1>t, <1>5 DEF WorkerStore, End, Fates
  <2>2. QED
    BY <1>1, <2>1
<1>6. CASE WorkerRecv \/ WorkerRelease \/ Finished \/ UNCHANGED vars
  BY <1>6, DecidedFrame DEF WorkerRecv, WorkerRelease, Finished, vars
<1>7. QED
  BY <1>2, <1>3, <1>4, <1>5, <1>6 DEF Next, Handler, Drain, Enqueue, Worker

\* A thread that has decided its selection's fate left it in a counter, with
\* the queue or the worker, or in one of the three uncounted ways.
LEMMA DecidedIsNoneVanishes == IInv /\ Decided => NoneVanishes
BY DEF IInv, TypeOK, FateByPlace, Fates, Decided, NoneVanishes, Uncounted

\* The order of the queue, position by position: what waits is the end of what
\* arrived, and the worker's job is the arrival just before it.  ArrivalOrder
\* alone does not say that the positions it names exist.
Fifo ==
    /\ Len(queue) <= QueueCapacity
    /\ Len(queue) <= Len(arrivals)
    /\ \A i \in 1..Len(queue) : queue[i] = arrivals[Len(arrivals) - Len(queue) + i]
    /\ worker # None => /\ Len(queue) < Len(arrivals)
                        /\ worker = arrivals[Len(arrivals) - Len(queue)]

\* Only try_send adds to the queue, at its end; only recv takes from it, at
\* its head, and only when the worker's last job is done with.
LEMMA FifoStep ==
  ASSUME IInv, Fifo, [Next]_vars
  PROVE  Fifo'
<1>t. /\ queue \in Seq(Selections) /\ arrivals \in Seq(Selections)
      /\ Len(queue) \in Nat /\ Len(arrivals) \in Nat
  BY DEF IInv, TypeOK
<1>1. ASSUME NEW s \in Selections, TrySend(s) PROVE Fifo'
  <2>1. CASE UNCHANGED <<queue, arrivals>>
    BY <1>1, <2>1 DEF TrySend, workerVars, Fifo
  <2>2. CASE Len(queue) < QueueCapacity /\ queue' = Append(queue, s) /\ arrivals' = Append(arrivals, s)
    <3>1. /\ Len(queue') = Len(queue) + 1 /\ Len(arrivals') = Len(arrivals) + 1
          /\ \A i \in 1..Len(queue) : queue'[i] = queue[i]
          /\ \A i \in 1..Len(arrivals) : arrivals'[i] = arrivals[i]
          /\ queue'[Len(queue) + 1] = s /\ arrivals'[Len(arrivals) + 1] = s
      BY <1>t, <2>2
    <3>2. worker' = worker
      BY <1>1 DEF TrySend, workerVars
    <3>3. ASSUME NEW i \in 1..Len(queue')
          PROVE  queue'[i] = arrivals'[Len(arrivals') - Len(queue') + i]
      <4>1. CASE i = Len(queue) + 1
        BY <1>t, <3>1, <4>1
      <4>2. CASE i \in 1..Len(queue)
        BY <1>t, <3>1, <4>2 DEF Fifo
      <4>3. QED
        BY <1>t, <3>1, <4>1, <4>2
    <3>4. worker # None => /\ Len(queue') < Len(arrivals')
                           /\ worker = arrivals'[Len(arrivals') - Len(queue')]
      <4> SUFFICES ASSUME worker # None
                   PROVE  /\ Len(queue') < Len(arrivals')
                          /\ worker = arrivals'[Len(arrivals') - Len(queue')]
        OBVIOUS
      <4>1. Len(queue) < Len(arrivals) /\ worker = arrivals[Len(arrivals) - Len(queue)]
        BY DEF Fifo
      <4>2. /\ Len(arrivals) - Len(queue) \in 1..Len(arrivals)
            /\ Len(arrivals') - Len(queue') = Len(arrivals) - Len(queue)
        BY <1>t, <3>1, <4>1
      <4>3. QED
        BY <1>t, <3>1, <4>1, <4>2
    <3>5. Len(queue') <= QueueCapacity /\ Len(queue') <= Len(arrivals')
      BY <1>t, <2>2, <3>1, QueueCapacityAssumption DEF Fifo
    <3>6. QED
      BY <3>2, <3>3, <3>4, <3>5 DEF Fifo
  <2>3. QED
    BY <1>1, <2>1, <2>2 DEF TrySend, queueVars
<1>2. CASE WorkerRecv
  <2>1. /\ Len(queue') = Len(queue) - 1 /\ Len(queue) \in Nat \ {0}
        /\ \A i \in 1..Len(queue') : queue'[i] = queue[i + 1]
        /\ worker' = queue[1] /\ arrivals' = arrivals
    BY <1>t, <1>2 DEF WorkerRecv
  <2>2. ASSUME NEW i \in 1..Len(queue')
        PROVE  queue'[i] = arrivals'[Len(arrivals') - Len(queue') + i]
    <3>1. i + 1 \in 1..Len(queue)
      BY <2>1
    <3>2. Len(arrivals) - Len(queue) + (i + 1) = Len(arrivals') - Len(queue') + i
      BY <1>t, <2>1
    <3>3. QED
      BY <2>1, <3>1, <3>2 DEF Fifo
  <2>3. worker' = arrivals'[Len(arrivals') - Len(queue')]
    <3>1. 1 \in 1..Len(queue) /\ Len(arrivals) - Len(queue) + 1 = Len(arrivals') - Len(queue')
      BY <1>t, <2>1
    <3>2. QED
      BY <2>1, <3>1 DEF Fifo
  <2>4. Len(queue') <= QueueCapacity /\ Len(queue') < Len(arrivals')
    BY <1>t, <2>1, QueueCapacityAssumption DEF Fifo
  <2>5. QED
    BY <1>t, <2>1, <2>2, <2>3, <2>4 DEF Fifo
<1>3. CASE WorkerRelease
  BY <1>3 DEF WorkerRelease, queueVars, Fifo
<1>4. ASSUME NEW s \in Selections,
             \/ Handler(s) \/ Drain(s) \/ Expire(s) \/ SizeCheck(s) \/ BudgetLoad(s) \/ BudgetRefuse(s)
             \/ BudgetSwap(s) \/ DeadlineCheck(s) \/ ReturnBytes(s) \/ ReaderExit(s)
      PROVE  Fifo'
  <2>1. UNCHANGED <<queue, arrivals, worker>>
    BY <1>4 DEF Handler, Ignore, GateLoad, GateRefuse, GateSwap, ShedPipe, SpawnReader,
       Drain, DrainToMemory, SpoolCreate, SpoolComplete, Reject, Expire, SizeCheck, BudgetLoad,
       BudgetRefuse, BudgetSwap, DeadlineCheck, ReturnBytes, ReaderExit, queueVars, workerVars
  <2>2. QED
    BY <2>1 DEF Fifo
<1>5. CASE WorkerStore \/ Finished \/ UNCHANGED vars
  BY <1>5 DEF WorkerStore, Finished, vars, queueVars, workerVars, Fifo
<1>6. QED
  BY <1>1, <1>2, <1>3, <1>4, <1>5 DEF Next, Enqueue, Worker

\* Position by position is the same as the tail of the arrivals.
LEMMA FifoIsArrivalOrder == TypeOK /\ Fifo => ArrivalOrder
<1> SUFFICES ASSUME TypeOK, Fifo PROVE ArrivalOrder
  OBVIOUS
<1> DEFINE k == Len(arrivals) - Len(queue)
           rest == SubSeq(arrivals, k + 1, Len(arrivals))
<1>1. /\ queue \in Seq(Selections) /\ arrivals \in Seq(Selections)
      /\ Len(queue) \in Nat /\ Len(arrivals) \in Nat /\ k \in Nat /\ k <= Len(arrivals)
  BY DEF TypeOK, Fifo
<1>2. /\ rest \in Seq(Selections) /\ Len(rest) = Len(queue)
      /\ \A i \in 1..Len(queue) : rest[i] = arrivals[k + i]
  BY <1>1
<1>3. \A i \in 1..Len(queue) : queue[i] = rest[i]
  BY <1>2 DEF Fifo
<1>4. queue = rest
  <2> HIDE DEF rest, k
  <2>1. QED
    BY <1>1, <1>2, <1>3, SeqEqual
<1>5. QED
  BY <1>4 DEF Fifo, ArrivalOrder

\* The second invariant holds at the start and is kept by every step.
JobsAccounted == SpoolFilesOwned /\ ShedsCounted /\ Decided /\ Fifo

LEMMA AccountedInit == Init => JobsAccounted
<1> SUFFICES ASSUME Init PROVE JobsAccounted
  OBVIOUS
<1>1. With("shedReader") = {} /\ With("shedQueue") = {} /\ With("stored") \ {worker} = {}
  BY DEF Init, With
<1>2. ShedsCounted
  BY <1>1, FS_EmptySet DEF Init, ShedsCounted
<1>3. SpoolFilesOwned /\ Fifo /\ Decided
  BY QueueCapacityAssumption DEF Init, SpoolFilesOwned, Fifo, Decided
<1>4. QED
  BY <1>2, <1>3 DEF JobsAccounted

\* Files, sheds, fates and order are accounted for at every step, on top of
\* IInv.
THEOREM IngestAccounted == Spec => [](IInv /\ JobsAccounted)
<1>1. IInv /\ JobsAccounted /\ [Next]_vars => JobsAccounted'
  BY FilesStep, ShedsStep, DecidedStep, FifoStep DEF JobsAccounted
<1>2. QED
  BY <1>1, AccountedInit, InitInv, NextInv, PTL DEF Spec

\* Whatever the interleaving of readers and worker, a spool file on disk has a
\* live owner: no shed, rejected or discarded payload leaves one behind
\* (Unlink, Spooled's drop, store_spooled).
THEOREM FilesAlwaysOwned == Spec => []SpoolFilesOwned
<1>1. IInv /\ JobsAccounted => SpoolFilesOwned
  BY DEF JobsAccounted
<1>2. QED
  BY <1>1, IngestAccounted, PTL

\* Every shed is counted, jobs are handled in arrival order within the queue's
\* capacity, and only selections turned away, streams given up and jobs whose
\* storing failed end outside the counters, for any number of selections
\* (IngestStats, the bounded channel, DbWorker).
THEOREM QueueIsFaithful == Spec => []QueueFaithful
<1>1. IInv /\ JobsAccounted => QueueFaithful
  BY FifoIsArrivalOrder, DecidedIsNoneVanishes DEF IInv, JobsAccounted, QueueFaithful
<1>2. QED
  BY <1>1, IngestAccounted, PTL
=============================================================================
