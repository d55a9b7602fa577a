-------------------------- MODULE GeneticTraining --------------------------
(***************************************************************************)
(* How GeneticLock feeds its trainer: after its work a query may leave a   *)
(* sample in a buffer of its thread; full buffers go to pending_queries_;  *)
(* when a batch is together, training_cv_ wakes TrainingLoop, which takes  *)
(* everything that is pending.  StartRebuilder and StopRebuilder start and *)
(* join the thread.                                                        *)
(*                                                                         *)
(* Samples are counted, not told apart; whether a batch is skewed and      *)
(* whether training yields new cuts is left open.  The locking of a query  *)
(* and the installation of new cuts are in GeneticLock.tla.  A critical    *)
(* section of pending_mutex_ is one step, except the trainer's, which      *)
(* reads stop_training_thread_ while others may write it.                  *)
(***************************************************************************)
EXTENDS Integers, FiniteSets, Functions

CONSTANTS
    Workers,                    \* the threads that call WriteQuery
    training_batch_size_,       \* samples that make a batch (2048)
    kLocalTrainingFlushSize,    \* samples in a full local buffer (64)
    training_sample_rate_,      \* one query in so many is sampled (64)
    training_probe_gap_,        \* queries skipped after a vain probe
    MaxOperations,              \* bound: operation_count_
    MaxSamples                  \* bound: samples accepted before the last query

ASSUME TrainingAssumption ==
    /\ IsFiniteSet(Workers)
    /\ training_batch_size_ \in Nat \ {0}
    /\ kLocalTrainingFlushSize \in Nat \ {0}
    /\ training_sample_rate_ \in Nat \ {0}
    /\ training_probe_gap_ \in Nat
    /\ MaxOperations \in Nat
    /\ MaxSamples \in Nat

VARIABLES
    \* members of the object
    training_enabled_, stop_training_thread_, operation_count_,
    next_training_probe_operation_, pending_queries_, pending_mutex_,
    \* the thread_local counter and buffer of each worker, where it is
    wpc, counter, queries,
    \* TrainingLoop: where it is, the count read for the next probe
    tpc, current,
    \* where the owner of the object is in StopRebuilder
    opc,
    \* history: samples accepted, samples taken from the queue
    sampled, removed

switchVars  == <<training_enabled_, stop_training_thread_>>
probeVars   == <<operation_count_, next_training_probe_operation_>>
workerVars  == <<wpc, counter, queries>>
trainerVars == <<tpc, current>>
queueVars   == <<pending_queries_, pending_mutex_>>
historyVars == <<sampled, removed>>
vars == <<switchVars, probeVars, queueVars, workerVars, trainerVars,
          opc, historyVars>>

WorkerPC  == {"idle", "sample", "flush", "notify"}
TrainerPC == {"none", "check", "block", "waiting", "decide", "train", "store",
              "exited"}
OwnerPC   == {"run", "signal", "notify", "join", "clear"}

Init ==
    /\ training_enabled_ = FALSE
    /\ stop_training_thread_ = FALSE
    /\ operation_count_ = 0
    /\ next_training_probe_operation_ = 0
    /\ pending_queries_ = 0
    /\ pending_mutex_ = FALSE
    /\ wpc = [w \in Workers |-> "idle"]
    /\ counter = [w \in Workers |-> 0]
    /\ queries = [w \in Workers |-> 0]
    /\ tpc = "none"
    /\ current = 0
    /\ opc = "run"
    /\ sampled = 0
    /\ removed = 0

-----------------------------------------------------------------------------
(* The end of WriteQuery                                                   *)

(* The query's func has run and was counted.                               *)
WriteQuery(w) ==
    /\ wpc[w] = "idle"
    /\ operation_count_ < MaxOperations
    /\ sampled < MaxSamples
    /\ operation_count_' = operation_count_ + 1
    /\ wpc' = [wpc EXCEPT ![w] = "sample"]
    /\ UNCHANGED <<switchVars, next_training_probe_operation_, queueVars,
                   counter, queries, trainerVars, opc, historyVars>>

(* ShouldSampleTraining: whether it comes as far as its counter.           *)
Probing == training_enabled_ /\ operation_count_ >= next_training_probe_operation_

NotSampled(w) ==
    /\ wpc[w] = "sample"
    /\ \/ ~Probing /\ UNCHANGED counter
       \/ /\ Probing
          /\ (counter[w] + 1) % training_sample_rate_ # 0
          /\ counter' = [counter EXCEPT ![w] = @ + 1]
    /\ wpc' = [wpc EXCEPT ![w] = "idle"]
    /\ UNCHANGED <<switchVars, probeVars, queueVars, queries, trainerVars,
                   opc, historyVars>>

(* EnqueueTrainingSample: into the buffer of this thread.                  *)
EnqueueTrainingSample(w) ==
    /\ wpc[w] = "sample"
    /\ Probing
    /\ (counter[w] + 1) % training_sample_rate_ = 0
    /\ counter' = [counter EXCEPT ![w] = 0]
    /\ queries' = [queries EXCEPT ![w] = @ + 1]
    /\ sampled' = sampled + 1
    /\ wpc' = [wpc EXCEPT ![w] = IF queries'[w] >= kLocalTrainingFlushSize
                                 THEN "flush" ELSE "idle"]
    /\ UNCHANGED <<switchVars, probeVars, queueVars, trainerVars, opc,
                   removed>>

BatchTogether == pending_queries_ >= training_batch_size_

(* Mutant: the batch must be exceeded.                                     *)
NotifyIfExceeded(size) == size > training_batch_size_

ShouldNotify(size) == size >= training_batch_size_

(* Mutant: the local buffer is not cleared.                                *)
BufferKept(w) == UNCHANGED queries

ClearBuffer(w) == queries' = [queries EXCEPT ![w] = 0]

(* FlushTrainingSamples up to the release of pending_mutex_.               *)
FlushTrainingSamples(w) ==
    /\ wpc[w] = "flush"
    /\ ~pending_mutex_
    /\ pending_queries_' = pending_queries_ + queries[w]
    /\ ClearBuffer(w)
    /\ wpc' = [wpc EXCEPT ![w] = IF ShouldNotify(pending_queries_')
                                 THEN "notify" ELSE "idle"]
    /\ UNCHANGED <<switchVars, probeVars, pending_mutex_, counter,
                   trainerVars, opc, historyVars>>

(* Mutant: nobody is woken.                                                *)
NotifiedNobody == tpc

(* training_cv_.notify_one() reaches the trainer only if it is waiting;    *)
(* it then competes for pending_mutex_ and checks its predicate again.     *)
Notified == IF tpc = "waiting" THEN "check" ELSE tpc

NotifyBatch(w) ==
    /\ wpc[w] = "notify"
    /\ tpc' = Notified
    /\ wpc' = [wpc EXCEPT ![w] = "idle"]
    /\ UNCHANGED <<switchVars, probeVars, queueVars, counter, queries,
                   current, opc, historyVars>>

WorkerStep(w) ==
    \/ NotSampled(w) \/ EnqueueTrainingSample(w) \/ FlushTrainingSamples(w)
    \/ NotifyBatch(w)

-----------------------------------------------------------------------------
(* TrainingLoop                                                            *)

(* pending_mutex_ is taken and the predicate of the wait evaluated.        *)
CheckPredicate ==
    /\ tpc = "check"
    /\ ~pending_mutex_
    /\ pending_mutex_' = TRUE
    /\ tpc' = IF stop_training_thread_ \/ BatchTogether
              THEN "decide" ELSE "block"
    /\ UNCHANGED <<switchVars, probeVars, pending_queries_, workerVars,
                   current, opc, historyVars>>

(* The wait proper: the mutex is released and the thread blocked, at once. *)
Block ==
    /\ tpc = "block"
    /\ tpc' = "waiting"
    /\ pending_mutex_' = FALSE
    /\ UNCHANGED <<switchVars, probeVars, pending_queries_, workerVars,
                   current, opc, historyVars>>

(* A condition variable may wake its waiter for no reason.                 *)
SpuriousWakeup ==
    /\ tpc = "waiting"
    /\ tpc' = "check"
    /\ UNCHANGED <<switchVars, probeVars, queueVars, workerVars, current,
                   opc, historyVars>>

(* The wait is over: leave if told to stop, else take what is pending.     *)
StopLoop ==
    /\ tpc = "decide"
    /\ stop_training_thread_
    /\ tpc' = "exited"
    /\ pending_mutex_' = FALSE
    /\ UNCHANGED <<switchVars, probeVars, pending_queries_, workerVars,
                   current, opc, historyVars>>

TakeBatch ==
    /\ tpc = "decide"
    /\ ~stop_training_thread_
    /\ tpc' = "train"
    /\ removed' = removed + pending_queries_
    /\ pending_queries_' = 0
    /\ pending_mutex_' = FALSE
    /\ UNCHANGED <<switchVars, probeVars, workerVars, current, opc, sampled>>

(* TrainOnBatch has installed new cuts.                                    *)
Trained ==
    /\ tpc = "train"
    /\ tpc' = "check"
    /\ UNCHANGED <<switchVars, probeVars, queueVars, workerVars, current,
                   opc, historyVars>>

(* Either HasEnoughSkew has refused the batch or the cuts are the same:    *)
(* ScheduleNextTrainingProbe reads the count, and later sets the probe.    *)
LoadOperationCount ==
    /\ tpc = "train"
    /\ tpc' = IF training_probe_gap_ = 0 THEN "check" ELSE "store"
    /\ current' = operation_count_
    /\ UNCHANGED <<switchVars, probeVars, queueVars, workerVars, opc,
                   historyVars>>

StoreNextProbe ==
    /\ tpc = "store"
    /\ tpc' = "check"
    /\ next_training_probe_operation_' = current + training_probe_gap_
    /\ current' = 0
    /\ UNCHANGED <<switchVars, operation_count_, queueVars, workerVars, opc,
                   historyVars>>

TrainerStep ==
    \/ CheckPredicate \/ Block \/ StopLoop \/ TakeBatch \/ Trained
    \/ LoadOperationCount \/ StoreNextProbe

-----------------------------------------------------------------------------
(* The owner of the object                                                 *)

joinable == tpc # "none"

StartRebuilder ==
    /\ opc = "run"
    /\ ~joinable
    /\ stop_training_thread_' = FALSE
    /\ next_training_probe_operation_' = training_probe_gap_
    /\ training_enabled_' = TRUE
    /\ tpc' = "check"
    /\ UNCHANGED <<operation_count_, queueVars, workerVars, current, opc,
                   historyVars>>

(* StopRebuilder: two stores, a notification that may find nobody waiting, *)
(* the join, and the removal of what is pending.                           *)
StopRebuilder ==
    /\ opc = "run"
    /\ opc' = "signal"
    /\ training_enabled_' = FALSE
    /\ UNCHANGED <<stop_training_thread_, probeVars, queueVars, workerVars,
                   trainerVars, historyVars>>

SignalStop ==
    /\ opc = "signal"
    /\ opc' = "notify"
    /\ stop_training_thread_' = TRUE
    /\ UNCHANGED <<training_enabled_, probeVars, queueVars, workerVars,
                   trainerVars, historyVars>>

NotifyStop ==
    /\ opc = "notify"
    /\ opc' = IF joinable THEN "join" ELSE "clear"
    /\ tpc' = Notified
    /\ UNCHANGED <<switchVars, probeVars, queueVars, workerVars, current,
                   historyVars>>

Join ==
    /\ opc = "join"
    /\ opc' = "clear"
    /\ tpc = "exited"
    /\ tpc' = "none"
    /\ UNCHANGED <<switchVars, probeVars, queueVars, workerVars, current,
                   historyVars>>

ClearPending ==
    /\ opc = "clear"
    /\ opc' = "run"
    /\ ~pending_mutex_
    /\ removed' = removed + pending_queries_
    /\ pending_queries_' = 0
    /\ UNCHANGED <<switchVars, probeVars, pending_mutex_, workerVars,
                   trainerVars, sampled>>

StopStep == SignalStop \/ NotifyStop \/ Join \/ ClearPending

(* FlushTraining: what is pending is trained on by the caller (in vain,    *)
(* which puts off the next probe, or not).                                 *)
FlushTraining ==
    /\ opc = "run"
    /\ ~pending_mutex_
    /\ pending_queries_ > 0
    /\ removed' = removed + pending_queries_
    /\ pending_queries_' = 0
    /\ \/ UNCHANGED next_training_probe_operation_
       \/ /\ training_probe_gap_ > 0
          /\ next_training_probe_operation_' =
                operation_count_ + training_probe_gap_
    /\ UNCHANGED <<switchVars, operation_count_, pending_mutex_, workerVars,
                   trainerVars, opc, sampled>>

(* SetTrainingEnabled, which does nothing to the thread.                   *)
SetTrainingEnabled ==
    /\ opc = "run"
    /\ training_enabled_' \in BOOLEAN
    /\ UNCHANGED <<stop_training_thread_, probeVars, queueVars, workerVars,
                   trainerVars, opc, historyVars>>

(* Mutant: the probe keeps its old count.                                  *)
ResetRuntimeStatsHalf ==
    /\ opc = "run"
    /\ ~joinable
    /\ operation_count_' = 0
    /\ UNCHANGED <<next_training_probe_operation_, switchVars, queueVars,
                   workerVars, trainerVars, opc, historyVars>>

(* ResetRuntimeStats; its callers have no trainer running.                 *)
ResetRuntimeStats ==
    /\ opc = "run"
    /\ ~joinable
    /\ operation_count_' = 0
    /\ next_training_probe_operation_' = 0
    /\ UNCHANGED <<switchVars, queueVars, workerVars, trainerVars, opc,
                   historyVars>>

Next ==
    \/ \E w \in Workers : WriteQuery(w) \/ WorkerStep(w)
    \/ TrainerStep \/ SpuriousWakeup
    \/ StartRebuilder \/ StopRebuilder \/ StopStep
    \/ FlushTraining \/ SetTrainingEnabled \/ ResetRuntimeStats

Spec == Init /\ [][Next]_vars

(* A thread inside an operation, and the trainer, keep being scheduled; no *)
(* wakeup happens without a notification.                                  *)
Fairness ==
    /\ \A w \in Workers : WF_vars(WorkerStep(w))
    /\ WF_vars(TrainerStep)
    /\ WF_vars(StopStep)

FairSpec == Spec /\ Fairness

-----------------------------------------------------------------------------
(* Properties                                                              *)

(* Every accepted sample is in exactly one place: a thread's buffer, the   *)
(* queue, or what was taken out of it for training or by StopRebuilder.    *)
SamplesConserved ==
    sampled = FoldFunction(+, 0, queries) + pending_queries_ + removed

(* No batch is forgotten: if one is together while the trainer waits,      *)
(* somebody is about to notify it.                                         *)
NoMissedBatch ==
    tpc = "waiting" /\ BatchTogether
        => \E w \in Workers : wpc[w] = "notify"

(* The next probe is never further away than the gap, so training is never *)
(* put off for longer than that.                                           *)
ProbeIsNear ==
    next_training_probe_operation_ <= operation_count_ + training_probe_gap_

(* A batch that is together is taken, unless the thread is told to stop.   *)
BatchIsTaken ==
    (joinable /\ BatchTogether)
        ~> (~BatchTogether \/ stop_training_thread_)

(* StopRebuilder returns: the thread it has told to stop ends.             *)
StopReturns == opc = "join" ~> opc = "run"
=============================================================================
