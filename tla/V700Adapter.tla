---------------------------- MODULE V700Adapter -----------------------------
(***************************************************************************)
(* The adapter by which the benchmark uses a range lock as a dictionary:   *)
(* an array with a slot per key, every operation a WriteQuery over the     *)
(* slots it touches.  Composed of the harness (Microbench), the adapter    *)
(* and NaiveLock; DynamicLock and GeneticLock keep the same promise, see   *)
(* RangeLock.  LockTraits leaves Mutex at std::mutex; NaiveLock.tla has    *)
(* spinlock, which can do all that a std::mutex can and may also spin and  *)
(* be overtaken.  The body of each func is split where it first writes.    *)
(*                                                                         *)
(* stored_keys_ and thread_checksums_ are left out: nothing reads them but *)
(* the printed summary and the value pointers, of which the harness only   *)
(* asks whether they are no_value_.                                        *)
(***************************************************************************)
EXTENDS Microbench

CONSTANT kLockCnt

(* block_size_ divides by kLockCnt; the keys have an upper bound, maxkey.  *)
ASSUME AdapterAssumption ==
    /\ kLockCnt \in Nat \ {0}
    /\ \E maxkey \in Keys : \A k \in Keys : maxkey >= k

VARIABLES
    data_, present_, range_queries_,    \* members of AdapterImpl
    loaded,                             \* what a func has read, and where
    \* the lock and its queries, see NaiveLock
    locked_, operation_count_, npc, left, right, locked_count_

key_min_ == 0
key_max_ == Max(Keys) + 1

ComputeArraySize == IF key_max_ <= key_min_ THEN 1 ELSE key_max_ - key_min_ + 1
ArraySize == ComputeArraySize

ToIndex(key) ==
    CASE key <= key_min_ -> 0
      [] key >= key_max_ -> ArraySize - 1
      [] OTHER -> key - key_min_

Lock == INSTANCE NaiveLock

adapterVars == <<data_, present_, range_queries_, loaded>>
lockVars == <<locked_, operation_count_, npc, left, right, locked_count_>>
vars == <<benchVars, adapterVars, lockVars>>

Nothing == [index |-> -1, value |-> 0]

Init ==
    /\ BenchInit
    /\ Lock!LockInit
    /\ data_ = [p \in Lock!Positions |-> 0]
    /\ present_ = [p \in Lock!Positions |-> 0]
    /\ range_queries_ = 0
    /\ loaded = [t \in Threads |-> Nothing]

(* The keys of the dictionary.                                             *)
present == {k \in Keys : present_[ToIndex(k)] = 1}

(* insertIfAbsent, erase, find and rangeQuery start alike.                 *)
Operation(t) ==
    /\ StepCall(t, present)
    /\ Lock!WriteQuery(t, ToIndex(call'[t].key), ToIndex(call'[t].to))
    /\ UNCHANGED adapterVars

(* func up to its first write: the slot is looked at, or, in a range       *)
(* query, the slot to be incremented is picked in turn and read.           *)
FuncLoad(t) ==
    LET width == right[t] - left[t] + 1
        turn  == left[t] + (range_queries_ % width)
    IN
    /\ Lock!InFunc(t)
    /\ loaded[t] = Nothing
    /\ IF call[t].op = "range"
       THEN /\ range_queries_' = range_queries_ + 1
            /\ loaded' = [loaded EXCEPT
                            ![t] = [index |-> turn, value |-> data_[turn]]]
       ELSE /\ loaded' = [loaded EXCEPT
                            ![t] = [index |-> left[t],
                                    value |-> present_[left[t]]]]
            /\ UNCHANGED range_queries_
    /\ UNCHANGED <<benchVars, data_, present_>>

Put(t, there, value) ==
    /\ present_' = [present_ EXCEPT ![loaded[t].index] = there]
    /\ data_' = [data_ EXCEPT ![loaded[t].index] = value]

InsertIfAbsent(t) ==
    /\ call[t].op = "insert"
    /\ IF loaded[t].value = 1
       THEN Decide(t, "failure") /\ UNCHANGED <<present_, data_>>
       ELSE Effect(t, TRUE) /\ Put(t, 1, call[t].key)

Erase(t) ==
    /\ call[t].op = "remove"
    /\ IF loaded[t].value = 0
       THEN Decide(t, "failure") /\ UNCHANGED <<present_, data_>>
       ELSE Effect(t, FALSE) /\ Put(t, 0, 0)

Find(t) ==
    /\ call[t].op = "get"
    /\ Decide(t, IF loaded[t].value = 1 THEN "success" ELSE "failure")
    /\ UNCHANGED <<present_, data_>>

RangeQuery(t) ==
    /\ call[t].op = "range"
    /\ Decide(t, "success")
    /\ data_' = [data_ EXCEPT ![loaded[t].index] = loaded[t].value + 1]
    /\ UNCHANGED present_

(* The rest of func.                                                       *)
FuncStore(t) ==
    /\ loaded[t] # Nothing
    /\ Lock!FuncDone(t)
    /\ InsertIfAbsent(t) \/ Erase(t) \/ Find(t) \/ RangeQuery(t)
    /\ loaded' = [loaded EXCEPT ![t] = Nothing]
    /\ UNCHANGED <<mpc, stage, running, start, operCount, tpc, counter,
                   key_checksum, num_operations, curKeySum, range_queries_>>

Locking(t) == Lock!LockStep(t) /\ UNCHANGED <<benchVars, adapterVars>>

Return(t) ==
    /\ npc[t] = "idle"
    /\ StepReturn(t)
    /\ UNCHANGED <<adapterVars, lockVars>>

(* initThread and deinitThread of this adapter do nothing.                 *)
Loop(t) ==
    /\ Pre(t) \/ SeeStart(t) \/ IsStopped(t) \/ Post(t) \/ Leave(t)
    /\ UNCHANGED <<adapterVars, lockVars>>

ThreadStep(t) ==
    \/ Loop(t) \/ Operation(t) \/ Locking(t) \/ FuncLoad(t) \/ FuncStore(t)
    \/ Return(t)

MainStep == Main /\ UNCHANGED <<adapterVars, lockVars>>

Finished == mpc = "report" /\ UNCHANGED vars

Next == MainStep \/ Finished \/ \E t \in Threads : ThreadStep(t)

Spec == Init /\ [][Next]_vars

(* Every thread is scheduled, and a weak compare-and-exchange that is      *)
(* repeatedly tried on a free lock does not fail for ever.                 *)
FairSpec ==
    /\ Spec
    /\ WF_vars(MainStep)
    /\ \A t \in Threads :
          /\ WF_vars(ThreadStep(t))
          /\ SF_vars(Lock!Exchange(t) /\ UNCHANGED <<benchVars, adapterVars>>)

-----------------------------------------------------------------------------

(* The range lock under the adapter grants no two overlapping ranges.      *)
RangeLockSpec == Lock!RangeLockSpec

(* What a func has read is still true when it writes: the increment of a   *)
(* range query and the test of an insertion or a removal are not torn by   *)
(* another thread's func, though data_ and present_ are plain arrays.      *)
ReadStaysValid ==
    \A t \in Threads : loaded[t] # Nothing =>
        loaded[t].value = (IF call[t].op = "range" THEN data_ ELSE present_)
                              [loaded[t].index]

(* The adapter is a dictionary; range queries do not touch its contents.   *)
PointCall(c) == [op |-> c.op, key |-> c.key, seen |-> c.seen,
                 result |-> c.result]
pointCall == [t \in Threads |-> IF call[t].op \in {"none", "range"} THEN NoCall
                                                       ELSE PointCall(call[t])]
Dict == INSTANCE Dictionary WITH call <- pointCall
DictionarySpec == Dict!Spec

(* The benchmark comes to its end, although the locks it waits for are     *)
(* spinlocks that guarantee no turn: the operations are limited.           *)
BenchTerminates == <>(mpc = "report")
=============================================================================
