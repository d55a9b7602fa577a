----------------------- MODULE GeneticTraining_proofs -----------------------
(***************************************************************************)
(* GeneticLock's sample queue loses no sample and forgets no batch,        *)
(* whatever its sizes and however many workers there are.  The facts about *)
(* sums come with those about the queries of the same class, which do not  *)
(* matter here.                                                            *)
(***************************************************************************)
EXTENDS GeneticTraining, EpochQuery_proofs

(* Every member and local variable keeps the type it has in the code.      *)
TypeOK ==
    /\ training_enabled_ \in BOOLEAN
    /\ stop_training_thread_ \in BOOLEAN
    /\ operation_count_ \in Nat
    /\ next_training_probe_operation_ \in Nat
    /\ pending_queries_ \in Nat
    /\ pending_mutex_ \in BOOLEAN
    /\ wpc \in [Workers -> WorkerPC]
    /\ counter \in [Workers -> Nat]
    /\ queries \in [Workers -> Nat]
    /\ tpc \in TrainerPC
    /\ current \in Nat
    /\ opc \in OwnerPC
    /\ sampled \in Nat
    /\ removed \in Nat

(* The trainer holds pending_mutex_ from the evaluation of its predicate   *)
(* until it blocks or leaves; nobody else keeps it over a step.  It is     *)
(* going to block only if no batch was together, and none gets together    *)
(* before it blocks, since that takes the mutex.                           *)
WaitInv ==
    /\ pending_mutex_ <=> tpc \in {"block", "decide"}
    /\ tpc = "block" => ~BatchTogether

(* The count that ScheduleNextTrainingProbe has read is not larger than    *)
(* the current one: the count is only reset while there is no trainer.     *)
StoreInv == tpc = "store" => current <= operation_count_

IInv ==
    /\ TypeOK
    /\ WaitInv
    /\ NoMissedBatch
    /\ StoreInv
    /\ ProbeIsNear

-----------------------------------------------------------------------------
(* The constructor establishes the inductive invariant.                    *)
LEMMA InitInv == Init => IInv
<1> SUFFICES ASSUME Init PROVE IInv
  OBVIOUS
<1>1. TypeOK
  BY DEF Init, TypeOK, WorkerPC, TrainerPC, OwnerPC
<1>2. WaitInv /\ NoMissedBatch /\ StoreInv
  BY DEF Init, WaitInv, NoMissedBatch, StoreInv
<1>3. ProbeIsNear
  BY TrainingAssumption DEF Init, ProbeIsNear
<1> QED
  BY <1>1, <1>2, <1>3 DEF IInv

(* A worker's step: only a flush touches the queue, under pending_mutex_,  *)
(* and if it completes a batch the worker is about to notify.              *)
LEMMA WorkerInv ==
    ASSUME IInv, NEW w \in Workers, WriteQuery(w) \/ WorkerStep(w)
    PROVE  IInv'
<1> USE TrainingAssumption
    DEF switchVars, probeVars, queueVars, workerVars, trainerVars,
        historyVars, WorkerPC, TrainerPC, BatchTogether
<1>1. TypeOK
  BY DEF IInv
<1>2. CASE WriteQuery(w)
  <2>1. TypeOK'
    BY <1>1, <1>2 DEF TypeOK, WriteQuery
  <2>2. WaitInv' /\ StoreInv' /\ ProbeIsNear'
    BY <1>1, <1>2
    DEF IInv, TypeOK, WaitInv, StoreInv, ProbeIsNear, WriteQuery
  <2>3. NoMissedBatch'
    BY <1>1, <1>2 DEF IInv, TypeOK, NoMissedBatch, WriteQuery
  <2> QED
    BY <2>1, <2>2, <2>3 DEF IInv
<1>3. CASE NotSampled(w)
  <2>1. TypeOK'
    BY <1>1, <1>3 DEF TypeOK, NotSampled
  <2>2. WaitInv' /\ StoreInv' /\ ProbeIsNear'
    BY <1>3 DEF IInv, WaitInv, StoreInv, ProbeIsNear, NotSampled
  <2>3. NoMissedBatch'
    BY <1>1, <1>3 DEF IInv, TypeOK, NoMissedBatch, NotSampled
  <2> QED
    BY <2>1, <2>2, <2>3 DEF IInv
<1>4. CASE EnqueueTrainingSample(w)
  <2>1. TypeOK'
    BY <1>1, <1>4 DEF TypeOK, EnqueueTrainingSample
  <2>2. WaitInv' /\ StoreInv' /\ ProbeIsNear'
    BY <1>4 DEF IInv, WaitInv, StoreInv, ProbeIsNear, EnqueueTrainingSample
  <2>3. NoMissedBatch'
    BY <1>1, <1>4 DEF IInv, TypeOK, NoMissedBatch, EnqueueTrainingSample
  <2> QED
    BY <2>1, <2>2, <2>3 DEF IInv
<1>5. CASE FlushTrainingSamples(w)
  <2>1. TypeOK'
    BY <1>1, <1>5 DEF TypeOK, FlushTrainingSamples, ClearBuffer
  <2>2. WaitInv' /\ StoreInv' /\ ProbeIsNear'
    BY <1>5 DEF IInv, WaitInv, StoreInv, ProbeIsNear, FlushTrainingSamples
  <2>3. NoMissedBatch'
    <3>1. (pending_queries_ >= training_batch_size_)' => wpc'[w] = "notify"
      BY <1>1, <1>5 DEF TypeOK, FlushTrainingSamples, ShouldNotify
    <3> QED
      BY <3>1 DEF NoMissedBatch
  <2> QED
    BY <2>1, <2>2, <2>3 DEF IInv
<1>6. CASE NotifyBatch(w)
  <2>1. TypeOK'
    BY <1>1, <1>6 DEF TypeOK, NotifyBatch, Notified
  <2>2. /\ WaitInv' /\ StoreInv' /\ ProbeIsNear' /\ NoMissedBatch'
    BY <1>6
    DEF IInv, WaitInv, StoreInv, ProbeIsNear, NoMissedBatch, NotifyBatch,
        Notified
  <2> QED
    BY <2>1, <2>2 DEF IInv
<1> QED
  BY <1>2, <1>3, <1>4, <1>5, <1>6 DEF WorkerStep

(* The steps of TrainingLoop, and a wakeup without a notification.         *)
LEMMA TrainerInv ==
    ASSUME IInv, TrainerStep \/ SpuriousWakeup
    PROVE  IInv'
<1> USE TrainingAssumption
    DEF switchVars, probeVars, queueVars, workerVars, trainerVars,
        historyVars, TrainerPC, TrainerStep, CheckPredicate, Block, StopLoop,
        TakeBatch, Trained, LoadOperationCount, StoreNextProbe, SpuriousWakeup
<1>1. TypeOK
  BY DEF IInv
<1>2. TypeOK'
  <2>1. ASSUME CheckPredicate PROVE TypeOK'
    BY <1>1, <2>1 DEF TypeOK
  <2>2. ASSUME Block \/ StopLoop PROVE TypeOK'
    BY <1>1, <2>2 DEF TypeOK
  <2>3. ASSUME TakeBatch PROVE TypeOK'
    <3>1. tpc' \in TrainerPC /\ pending_mutex_' \in BOOLEAN
      BY <2>3
    <3>2. pending_queries_' \in Nat /\ removed' \in Nat
      BY <1>1, <2>3 DEF TypeOK
    <3> QED
      BY <1>1, <2>3, <3>1, <3>2 DEF TypeOK
  <2>4. ASSUME Trained \/ SpuriousWakeup PROVE TypeOK'
    BY <1>1, <2>4 DEF TypeOK
  <2>5. ASSUME LoadOperationCount PROVE TypeOK'
    BY <1>1, <2>5 DEF TypeOK
  <2>6. ASSUME StoreNextProbe PROVE TypeOK'
    BY <1>1, <2>6 DEF TypeOK
  <2> QED
    BY <2>1, <2>2, <2>3, <2>4, <2>5, <2>6
<1>3. WaitInv'
  BY <1>1 DEF IInv, TypeOK, WaitInv, BatchTogether
<1>4. NoMissedBatch'
  BY DEF IInv, WaitInv, NoMissedBatch, BatchTogether
<1>5. StoreInv' /\ ProbeIsNear'
  BY <1>1 DEF IInv, TypeOK, StoreInv, ProbeIsNear
<1> QED
  BY <1>2, <1>3, <1>4, <1>5 DEF IInv

(* The owner's operations.                                                 *)
LEMMA OwnerInv ==
    ASSUME IInv,
           \/ StartRebuilder \/ StopRebuilder \/ StopStep \/ FlushTraining
           \/ SetTrainingEnabled \/ ResetRuntimeStats
    PROVE  IInv'
<1> USE TrainingAssumption
    DEF switchVars, probeVars, queueVars, workerVars, trainerVars,
        historyVars, TrainerPC, OwnerPC, joinable, Notified, StopStep,
        StartRebuilder, StopRebuilder, SignalStop, NotifyStop, Join,
        ClearPending, FlushTraining, SetTrainingEnabled, ResetRuntimeStats
<1>1. TypeOK
  BY DEF IInv
<1>2. TypeOK'
  <2>1. ASSUME StartRebuilder PROVE TypeOK'
    BY <1>1, <2>1 DEF TypeOK
  <2>2. ASSUME StopRebuilder \/ SignalStop PROVE TypeOK'
    BY <1>1, <2>2 DEF TypeOK
  <2>3. ASSUME NotifyStop \/ Join PROVE TypeOK'
    BY <1>1, <2>3 DEF TypeOK
  <2>4. ASSUME ClearPending PROVE TypeOK'
    BY <1>1, <2>4 DEF TypeOK
  <2>5. ASSUME FlushTraining PROVE TypeOK'
    BY <1>1, <2>5 DEF TypeOK
  <2>6. ASSUME SetTrainingEnabled PROVE TypeOK'
    BY <1>1, <2>6 DEF TypeOK
  <2>7. ASSUME ResetRuntimeStats PROVE TypeOK'
    BY <1>1, <2>7 DEF TypeOK
  <2> QED
    BY <2>1, <2>2, <2>3, <2>4, <2>5, <2>6, <2>7
<1>3. WaitInv'
  BY <1>1 DEF IInv, TypeOK, WaitInv, BatchTogether
<1>4. NoMissedBatch'
  BY <1>1 DEF IInv, TypeOK, NoMissedBatch, BatchTogether
<1>5. StoreInv' /\ ProbeIsNear'
  BY <1>1 DEF IInv, TypeOK, StoreInv, ProbeIsNear
<1> QED
  BY <1>2, <1>3, <1>4, <1>5 DEF IInv

(* IInv holds in every state of the queue.                                 *)
THEOREM InductiveInvariant == Spec => []IInv
<1>1. IInv /\ [Next]_vars => IInv'
  <2> SUFFICES ASSUME IInv, [Next]_vars PROVE IInv'
    OBVIOUS
  <2>1. CASE Next
    BY <2>1, WorkerInv, TrainerInv, OwnerInv DEF Next
  <2>2. CASE UNCHANGED vars
    BY <2>2
    DEF vars, switchVars, probeVars, queueVars, workerVars, trainerVars,
        historyVars, IInv, TypeOK, WaitInv, NoMissedBatch, StoreInv,
        ProbeIsNear, BatchTogether
  <2> QED
    BY <2>1, <2>2
<1> QED
  BY <1>1, InitInv, PTL DEF Spec

(* No batch is forgotten: the predicate is evaluated and the trainer       *)
(* blocked under the mutex that a flush takes, so whoever completes a      *)
(* batch while the trainer waits has yet to notify it.                     *)
THEOREM BatchNotMissed == Spec => []NoMissedBatch
<1>1. IInv => NoMissedBatch
  BY DEF IInv
<1> QED
  BY <1>1, InductiveInvariant, PTL

(* Training is never put off for longer than the gap, although the probe   *)
(* is computed from a count that was read earlier.                         *)
THEOREM ProbeNear == Spec => []ProbeIsNear
<1>1. IInv => ProbeIsNear
  BY DEF IInv
<1> QED
  BY <1>1, InductiveInvariant, PTL

(* What a step does to the samples: those of at most one worker move, and  *)
(* none appears or disappears on its way from the worker's buffer through  *)
(* the queue to a batch.                                                   *)
Elsewhere == sampled - pending_queries_ - removed
SampleStep ==
    \/ UNCHANGED queries /\ Elsewhere' = Elsewhere
    \/ \E w \in Workers :
          /\ queries' = [queries EXCEPT ![w] = queries'[w]]
          /\ Elsewhere' - queries'[w] = Elsewhere - queries[w]

(* Every step of the code conserves the samples.                           *)
LEMMA StepsConserveSamples == Spec => [][SampleStep]_vars
<1>1. TypeOK /\ Next => SampleStep
  <2> SUFFICES ASSUME TypeOK, Next PROVE SampleStep
    OBVIOUS
  <2> USE DEF historyVars, queueVars, workerVars, Elsewhere
  <2>1. /\ sampled \in Nat /\ pending_queries_ \in Nat /\ removed \in Nat
        /\ queries \in [Workers -> Nat]
    BY DEF TypeOK
  <2>2. ASSUME NEW w \in Workers, EnqueueTrainingSample(w) PROVE SampleStep
    <3>1. /\ queries' = [queries EXCEPT ![w] = queries'[w]]
          /\ queries'[w] = queries[w] + 1
      BY <2>1, <2>2 DEF EnqueueTrainingSample
    <3>2. Elsewhere' - queries'[w] = Elsewhere - queries[w]
      BY <2>1, <2>2, <3>1 DEF EnqueueTrainingSample
    <3> QED
      BY <3>1, <3>2 DEF SampleStep
  <2>3. ASSUME NEW w \in Workers, FlushTrainingSamples(w) PROVE SampleStep
    <3>1. /\ queries' = [queries EXCEPT ![w] = queries'[w]]
          /\ queries'[w] = 0
      BY <2>1, <2>3 DEF FlushTrainingSamples, ClearBuffer
    <3>2. Elsewhere' - queries'[w] = Elsewhere - queries[w]
      BY <2>1, <2>3, <3>1 DEF FlushTrainingSamples
    <3> QED
      BY <3>1, <3>2 DEF SampleStep
  <2>4. ASSUME NEW w \in Workers, WriteQuery(w) \/ NotSampled(w) \/ NotifyBatch(w)
        PROVE  SampleStep
    BY <2>4 DEF WriteQuery, NotSampled, NotifyBatch, SampleStep
  <2>5. ASSUME TrainerStep \/ SpuriousWakeup PROVE SampleStep
    BY <2>1, <2>5
    DEF TrainerStep, CheckPredicate, Block, StopLoop, TakeBatch, Trained,
        LoadOperationCount, StoreNextProbe, SpuriousWakeup, SampleStep
  <2>6. ASSUME \/ StartRebuilder \/ StopRebuilder \/ StopStep \/ FlushTraining
               \/ SetTrainingEnabled \/ ResetRuntimeStats
        PROVE  SampleStep
    BY <2>1, <2>6
    DEF StartRebuilder, StopRebuilder, StopStep, SignalStop, NotifyStop, Join,
        ClearPending, FlushTraining, SetTrainingEnabled, ResetRuntimeStats,
        SampleStep
  <2> QED
    BY <2>2, <2>3, <2>4, <2>5, <2>6 DEF Next, WorkerStep
<1>2. IInv => TypeOK
  BY DEF IInv
<1> QED
  BY <1>1, <1>2, InductiveInvariant, PTL DEF Spec

-----------------------------------------------------------------------------
(* Sums over the workers                                                   *)

(* All the samples in buffers that hold f[w] samples each.                 *)
Buffered(f) == FoldFunction(+, 0, f)

EqualOn(T, f, g) == \A x \in T : f[x] = g[x]

(* They are added up one buffer after the other.                           *)
LEMMA FoldAddsUp ==
    ASSUME NEW S, IsFiniteSet(S), NEW f \in [S -> Nat]
    PROVE  \E h : AddsUp(h, S, f) /\ Buffered(f) = h[S]
<1> DEFINE G(g) == [s \in SUBSET S |->
                      IF s = {} THEN 0
                      ELSE f[CHOOSE x \in s : TRUE] + g[s \ {CHOOSE x \in s : TRUE}]]
           w == [s \in SUBSET S |-> f[CHOOSE x \in s : TRUE]]
           H(g) == [s \in SUBSET S |->
                      IF s = {} THEN 0 ELSE w[s] + g[s \ {CHOOSE x \in s : TRUE}]]
           h == CHOOSE g : g = G(g)
<1>1. DOMAIN f = S /\ \A x \in S : f[x] \in Nat
  OBVIOUS
<1>2. Buffered(f) = h[S]
  BY <1>1 DEF Buffered, FoldFunction, FoldFunctionOnSet, MapThenFoldSet
<1>3. \A s \in SUBSET S : w[s] = f[CHOOSE x \in s : TRUE]
  OBVIOUS
<1> HIDE DEF w
<1>4. \A g : G(g) = H(g)
  BY <1>3
<1>5. \E g : g = G(g)
  <2>1. PICK g : IsSum(g, S, w)
    BY SumExists
  <2>2. g = H(g)
    BY <2>1 DEF IsSum
  <2> HIDE DEF G, H
  <2> QED
    BY <1>4, <2>2
<1>6. h = G(h)
  <2> HIDE DEF G
  <2> QED
    BY <1>5
<1> HIDE DEF h
<1>7. AddsUp(h, S, f)
  BY <1>1, <1>6 DEF AddsUp
<1> QED
  BY <1>2, <1>7

(* Equal summands give equal sums.                                         *)
LEMMA EqualSums ==
    ASSUME NEW S, IsFiniteSet(S), NEW f, NEW g, NEW h, NEW k,
           AddsUp(h, S, f), AddsUp(k, S, g),
           NEW T \in SUBSET S, EqualOn(T, f, g)
    PROVE  h[T] = k[T]
<1> USE DEF EqualOn
<1> DEFINE first(s) == CHOOSE x \in s : TRUE
           N == {n \in Nat : \A s \in SUBSET T : Cardinality(s) = n => h[s] = k[s]}
<1>1. \A s \in SUBSET T : IsFiniteSet(s) /\ Cardinality(s) \in Nat /\ s \in SUBSET S
  BY FS_Subset, FS_CardinalityType
<1>2. \A s \in SUBSET T : s # {} =>
         /\ first(s) \in T /\ s \ {first(s)} \in SUBSET T
         /\ Cardinality(s \ {first(s)}) = Cardinality(s) - 1
         /\ Cardinality(s) # 0
  <2> SUFFICES ASSUME NEW s \in SUBSET T, s # {}
               PROVE  /\ first(s) \in T /\ s \ {first(s)} \in SUBSET T
                      /\ Cardinality(s \ {first(s)}) = Cardinality(s) - 1
                      /\ Cardinality(s) # 0
    OBVIOUS
  <2>1. first(s) \in s
    OBVIOUS
  <2>2. IsFiniteSet(s) /\ Cardinality(s) \in Nat
    BY <1>1
  <2> QED
    BY <2>1, <2>2, FS_RemoveElement, FS_EmptySet
<1>3. \A s \in SUBSET T :
         /\ h[s] = IF s = {} THEN 0 ELSE f[first(s)] + h[s \ {first(s)}]
         /\ k[s] = IF s = {} THEN 0 ELSE g[first(s)] + k[s \ {first(s)}]
  BY <1>1 DEF AddsUp
<1> HIDE DEF first
<1>4. 0 \in N
  <2> SUFFICES ASSUME NEW s \in SUBSET T, Cardinality(s) = 0 PROVE h[s] = k[s]
    OBVIOUS
  <2>1. s = {}
    BY <1>2
  <2> QED
    BY <1>3, <2>1
<1>5. ASSUME NEW n \in N PROVE n + 1 \in N
  <2> SUFFICES ASSUME NEW s \in SUBSET T, Cardinality(s) = n + 1 PROVE h[s] = k[s]
    OBVIOUS
  <2>1. CASE s = {}
    BY <1>3, <2>1
  <2>2. CASE s # {}
    <3>1. s \ {first(s)} \in SUBSET T /\ Cardinality(s \ {first(s)}) = n
      BY <1>2, <2>2
    <3>2. h[s \ {first(s)}] = k[s \ {first(s)}] /\ f[first(s)] = g[first(s)]
      BY <1>2, <2>2, <3>1
    <3> QED
      BY <1>3, <2>2, <3>2
  <2> QED
    BY <2>1, <2>2
<1>6. \A n \in Nat : n \in N
  <2> HIDE DEF N
  <2> QED
    BY <1>4, <1>5, SetInduction
<1>7. T \in SUBSET T /\ Cardinality(T) \in Nat
  BY <1>1
<1>8. Cardinality(T) \in N
  <2> HIDE DEF N
  <2> QED
    BY <1>6, <1>7
<1> QED
  BY <1>7, <1>8

(* When one summand changes, the sum changes by as much.                   *)
LEMMA FoldChange ==
    ASSUME NEW S, IsFiniteSet(S), NEW f \in [S -> Nat], NEW g \in [S -> Nat],
           NEW x \in S, \A y \in S \ {x} : f[y] = g[y]
    PROVE  /\ Buffered(f) \in Nat
           /\ Buffered(g) \in Nat
           /\ Buffered(g) - g[x] = Buffered(f) - f[x]
<1>1. PICK h : AddsUp(h, S, f) /\ Buffered(f) = h[S]
  BY FoldAddsUp
<1>2. PICK k : AddsUp(k, S, g) /\ Buffered(g) = k[S]
  BY FoldAddsUp
<1>3. AddsUpInAnyOrder(h, S, f) /\ AddsUpInAnyOrder(k, S, g)
  BY <1>1, <1>2, SumStep
<1>4. S \in SUBSET S /\ S \ {x} \in SUBSET S /\ EqualOn(S \ {x}, f, g)
  BY DEF EqualOn
<1>5. h[S \ {x}] = k[S \ {x}]
  BY <1>1, <1>2, <1>4, EqualSums
<1>6. /\ h[S] \in Nat /\ h[S \ {x}] \in Nat /\ h[S] = f[x] + h[S \ {x}]
      /\ k[S] \in Nat /\ k[S] = g[x] + k[S \ {x}]
  BY <1>3, <1>4 DEF AddsUpInAnyOrder
<1>7. f[x] \in Nat /\ g[x] \in Nat
  OBVIOUS
<1> QED
  BY <1>1, <1>2, <1>5, <1>6, <1>7

(* No sample is lost or counted twice between the workers' buffers, the    *)
(* queue, and the batches taken out of it, however their steps mix.        *)
THEOREM SamplesAreConserved == Spec => []SamplesConserved
<1>0. SamplesConserved <=> sampled = Buffered(queries) + pending_queries_ + removed
  BY Zenon DEF SamplesConserved, Buffered
<1>01. SamplesConserved' <=> (sampled = Buffered(queries) + pending_queries_ + removed)'
  BY <1>0, PTL
<1>1. Init => SamplesConserved
  <2> SUFFICES ASSUME Init PROVE SamplesConserved
    OBVIOUS
  <2>1. sampled = 0 /\ pending_queries_ = 0 /\ removed = 0
        /\ queries \in [Workers -> Nat] /\ \A w \in Workers : queries[w] = 0
    BY DEF Init
  <2>2. IsFiniteSet(Workers)
    BY TrainingAssumption
  <2>3. Buffered(queries) = 0
    <3>1. PICK h : AddsUp(h, Workers, queries) /\ Buffered(queries) = h[Workers]
      BY <2>1, <2>2, FoldAddsUp
    <3> DEFINE k == [s \in SUBSET Workers |-> 0]
    <3>2. AddsUp(k, Workers, queries)
      BY <2>1 DEF AddsUp
    <3>3. Workers \in SUBSET Workers /\ EqualOn(Workers, queries, queries)
      BY DEF EqualOn
    <3>4. k[Workers] = 0
      BY <3>3
    <3> HIDE DEF k
    <3>5. h[Workers] = k[Workers]
      BY <2>2, <3>1, <3>2, <3>3, EqualSums
    <3> QED
      BY <3>1, <3>4, <3>5
  <2> QED
    BY <1>0, <2>1, <2>3
<1>2. TypeOK /\ TypeOK' /\ SamplesConserved /\ [SampleStep]_vars => SamplesConserved'
  <2> SUFFICES ASSUME TypeOK, TypeOK', SamplesConserved, [SampleStep]_vars
               PROVE  SamplesConserved'
    OBVIOUS
  <2>1. /\ queries \in [Workers -> Nat] /\ queries' \in [Workers -> Nat]
        /\ sampled \in Nat /\ pending_queries_ \in Nat /\ removed \in Nat
        /\ sampled' \in Nat /\ pending_queries_' \in Nat /\ removed' \in Nat
    BY DEF TypeOK
  <2>2. IsFiniteSet(Workers)
    BY TrainingAssumption
  <2>3. sampled = Buffered(queries) + pending_queries_ + removed
    BY <1>0
  <2>4. Buffered(queries) \in Nat
    <3>1. PICK h : AddsUp(h, Workers, queries) /\ Buffered(queries) = h[Workers]
      BY <2>1, <2>2, FoldAddsUp
    <3>2. AddsUpInAnyOrder(h, Workers, queries)
      BY <2>2, <3>1, SumStep
    <3> QED
      BY <3>1, <3>2 DEF AddsUpInAnyOrder
  <2>5. SUFFICES sampled' = Buffered(queries') + pending_queries_' + removed'
    BY <1>01
  <2>6. CASE UNCHANGED queries /\ Elsewhere' = Elsewhere
    <3>1. Buffered(queries') = Buffered(queries)
      BY <2>6
    <3> QED
      BY <2>1, <2>3, <2>4, <2>6, <3>1 DEF Elsewhere
  <2>7. ASSUME NEW w \in Workers,
               queries' = [queries EXCEPT ![w] = queries'[w]],
               Elsewhere' - queries'[w] = Elsewhere - queries[w]
        PROVE  sampled' = Buffered(queries') + pending_queries_' + removed'
    <3>1. \A y \in Workers \ {w} : queries[y] = queries'[y]
      BY <2>1, <2>7
    <3>2. /\ Buffered(queries') \in Nat
          /\ Buffered(queries') - queries'[w] = Buffered(queries) - queries[w]
      BY <2>1, <2>2, <3>1, FoldChange
    <3>3. queries[w] \in Nat /\ queries'[w] \in Nat
      BY <2>1
    <3>4. (sampled' - pending_queries_' - removed') - queries'[w]
             = (sampled - pending_queries_ - removed) - queries[w]
      BY <2>7 DEF Elsewhere
    <3> DEFINE new == Buffered(queries')
               old == Buffered(queries)
    <3>5. /\ old \in Nat /\ new \in Nat /\ sampled = old + pending_queries_ + removed
          /\ new - queries'[w] = old - queries[w]
      BY <2>3, <2>4, <3>2
    <3> HIDE DEF new, old
    <3>6. (sampled - pending_queries_ - removed) - queries[w] = old - queries[w]
      BY <2>1, <3>3, <3>5
    <3>7. (sampled' - pending_queries_' - removed') - queries'[w] = new - queries'[w]
      BY <3>4, <3>5, <3>6
    <3>8. sampled' = new + pending_queries_' + removed'
      <4> DEFINE s == sampled'
                 p == pending_queries_'
                 r == removed'
                 q == queries'[w]
      <4>1. s \in Nat /\ p \in Nat /\ r \in Nat /\ q \in Nat /\ (s - p - r) - q = new - q
        BY <2>1, <3>3, <3>7
      <4> HIDE DEF s, p, r, q
      <4>2. s = new + p + r
        BY <3>5, <4>1
      <4> QED
        BY <4>2 DEF s, p, r
    <3> QED
      BY <3>8 DEF new
  <2>8. CASE UNCHANGED vars
    BY <2>3, <2>8 DEF vars, queueVars, workerVars, historyVars
  <2> QED
    BY <2>6, <2>7, <2>8 DEF SampleStep
<1>3. IInv => TypeOK
  BY DEF IInv
<1> QED
  BY <1>1, <1>2, <1>3, InductiveInvariant, StepsConserveSamples, PTL DEF Spec
=============================================================================
