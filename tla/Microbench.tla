----------------------------- MODULE Microbench -----------------------------
(***************************************************************************)
(* The benchmark program of Benchmark-v700: main runs up to three stages   *)
(* (prefill, warm-up, test), each with its own threads, and adds up what   *)
(* they report.  Every thread initialises itself, waits for the common     *)
(* start, executes operations on the data structure until its share of the *)
(* stage's operations is used up, waits until all others are through, and  *)
(* deinitialises itself.  The data structure is left open: a module that   *)
(* extends this one says what initThread, an operation and deinitThread    *)
(* do.  The stop condition is an OperationCounter; Timer differs from it   *)
(* in when is_stopped turns true and in nothing a property is about.       *)
(***************************************************************************)
EXTENDS Integers, Sequences, FiniteSets, FiniteSetsExt

CONSTANTS
    MaxThreads,   \* BenchParameters::get_max_threads
    Keys,         \* the keys the argument generators draw from
    Stages        \* prefill, warm-up and test: the records described below

(* threads: get_num_threads; limit: commonOperationLimit; ops: what the    *)
(* thread loop draws from; attempts: number_of_attempts_ of the loop for   *)
(* prefilling, 1 for the default loop.                                     *)
Ops == {"insert", "remove", "get", "range"}

ASSUME BenchAssumption ==
    /\ MaxThreads \in Nat \ {0}
    /\ Keys \subseteq Nat \ {0}
    /\ Len(Stages) = 3
    /\ \A s \in 1 .. 3 :
          /\ Stages[s].threads \in 0 .. MaxThreads
          /\ Stages[s].limit \in Nat
          /\ Stages[s].ops \subseteq Ops
          /\ Stages[s].attempts \in Nat \ {0}
    /\ Stages[3].threads > 0

Threads == 0 .. MaxThreads - 1

VARIABLES
    mpc, stage,         \* main: its control point and the current stage
    running, start,     \* members of globals_t
    operCount,          \* counters_ of the OperationCounter
    tpc,                \* control point of ThreadLoop::run in each thread
    counter,            \* attempts made in this step (PrefillInsert)
    call,               \* the operation each thread is executing
    key_checksum,       \* GSTATS key_checksum, summed over the threads
    num_operations,     \* GSTATS num_operations, summed over the threads
    curKeySum           \* the key sum of the stages before

benchVars == <<mpc, stage, running, start, operCount, tpc, counter, call,
               key_checksum, num_operations, curKeySum>>

(* No operation, and an operation on a range of keys, from which the       *)
(* result is missing until it is decided.  seen is a history variable: the *)
(* answers to "is the key present?" that were right at some moment since   *)
(* the call.                                                               *)
NoCall == [op |-> "none"]
NewCall(o, lo, hi, there) ==
    [op |-> o, key |-> lo, to |-> hi, seen |-> {there}, result |-> "pending"]

BenchInit ==
    /\ mpc = "create"
    /\ stage = 1
    /\ running = 0
    /\ start = FALSE
    /\ operCount = [t \in Threads |-> 0]
    /\ tpc = [t \in Threads |-> "none"]
    /\ counter = [t \in Threads |-> 0]
    /\ call = [t \in Threads |-> NoCall]
    /\ key_checksum = 0
    /\ num_operations = 0
    /\ curKeySum = 0

-----------------------------------------------------------------------------
(* main: run and execute                                                   *)

Current == Stages[stage]
Workers == 0 .. Current.threads - 1

(* run leaves out a prefill or warm-up stage without threads.              *)
SkipStage ==
    /\ mpc = "create"
    /\ stage < 3
    /\ Workers = {}
    /\ stage' = stage + 1
    /\ UNCHANGED <<mpc, running, start, operCount, tpc, counter, call,
                   key_checksum, num_operations, curKeySum>>

CreateThreads ==
    /\ mpc = "create"
    /\ Workers # {}
    /\ mpc' = "wait"
    /\ tpc' = [t \in Threads |-> IF t \in Workers THEN "pre" ELSE tpc[t]]
    /\ UNCHANGED <<stage, running, start, operCount, counter, call,
                   key_checksum, num_operations, curKeySum>>

(* Mutant: the remainder of the division is dropped.                       *)
EqualShare(t) == Current.limit \div Current.threads

(* OperationCounter::start: the first limit % n threads do one more.       *)
Share(t) ==
    Current.limit \div Current.threads
        + (IF t < Current.limit % Current.threads THEN 1 ELSE 0)

(* All threads are ready: stopCondition->start, then g->start = true.      *)
StartThreads ==
    /\ mpc = "wait"
    /\ running >= Current.threads
    /\ mpc' = "join"
    /\ operCount' = [t \in Threads |->
                        IF t \in Workers THEN Share(t) ELSE operCount[t]]
    /\ start' = TRUE
    /\ UNCHANGED <<stage, running, tpc, counter, call, key_checksum,
                   num_operations, curKeySum>>

AllEnded == \A t \in Workers : tpc[t] = "ended"

(* All threads have been joined, and stopCondition->clean forgets their    *)
(* counters.  After prefill and warm-up run takes the statistics over and  *)
(* clears them; after the test they are reported.                          *)
JoinThreads ==
    /\ mpc = "join"
    /\ AllEnded
    /\ start' = FALSE
    /\ tpc' = [t \in Threads |-> "none"]
    /\ operCount' = [t \in Threads |-> 0]
    /\ counter' = [t \in Threads |-> 0]
    /\ IF stage < 3
       THEN /\ mpc' = "create"
            /\ stage' = stage + 1
            /\ curKeySum' = curKeySum + key_checksum
            /\ key_checksum' = 0
            /\ num_operations' = 0
       ELSE /\ mpc' = "report"
            /\ UNCHANGED <<stage, curKeySum, key_checksum, num_operations>>
    /\ UNCHANGED <<running, call>>

Main == SkipStage \/ CreateThreads \/ StartThreads \/ JoinThreads

-----------------------------------------------------------------------------
(* The threads: ThreadLoop::run                                            *)

To(t, from, to) == tpc[t] = from /\ tpc' = [tpc EXCEPT ![t] = to]

(* THREAD_MEASURED_PRE up to the spin: to be joined with initThread.       *)
Pre(t) ==
    /\ To(t, "pre", "ready")
    /\ running' = running + 1
    /\ UNCHANGED <<mpc, stage, start, operCount, counter, call, key_checksum,
                   num_operations, curKeySum>>

SeeStart(t) ==
    /\ To(t, "ready", "loop")
    /\ start
    /\ UNCHANGED <<mpc, stage, running, start, operCount, counter, call,
                   key_checksum, num_operations, curKeySum>>

(* stopCondition->is_stopped: --operCount < 0.                             *)
IsStopped(t) ==
    /\ To(t, "loop", IF operCount[t] - 1 < 0 THEN "post" ELSE "step")
    /\ operCount' = [operCount EXCEPT ![t] = @ - 1]
    /\ counter' = [counter EXCEPT ![t] = 0]
    /\ UNCHANGED <<mpc, stage, running, start, call, key_checksum,
                   num_operations, curKeySum>>

(* step: draw an operation and its arguments, and call the adapter.        *)
(* present says which keys the structure holds.                            *)
StepCall(t, present) ==
    /\ To(t, "step", "call")
    /\ \E o \in Current.ops, lo, hi \in Keys :
          /\ IF o = "range" THEN lo <= hi ELSE lo = hi
          /\ call' = [call EXCEPT ![t] = NewCall(o, lo, hi, lo \in present)]
    /\ UNCHANGED <<mpc, stage, running, start, operCount, counter,
                   key_checksum, num_operations, curKeySum>>

(* execute_insert, execute_remove, execute_get, execute_range_query after  *)
(* the adapter's return; the loop for prefilling tries another key when    *)
(* the insertion failed.                                                   *)
Delta(c) ==
    CASE c.op = "insert" /\ c.result = "success" -> c.key
      [] c.op = "remove" /\ c.result = "success" -> 0 - c.key
      [] OTHER -> 0

StepReturn(t) ==
    LET again == call[t].op = "insert" /\ call[t].result = "failure"
                     /\ counter[t] + 1 < Current.attempts IN
    /\ To(t, "call", IF again THEN "step" ELSE "loop")
    /\ call[t].result # "pending"
    /\ counter' = [counter EXCEPT ![t] = @ + 1]
    /\ key_checksum' = key_checksum + Delta(call[t])
    /\ num_operations' = num_operations + 1
    /\ call' = [call EXCEPT ![t] = NoCall]
    /\ UNCHANGED <<mpc, stage, running, start, operCount, curKeySum>>

(* THREAD_MEASURED_POST: no longer running, and then wait for the others.  *)
Post(t) ==
    /\ To(t, "post", "barrier")
    /\ running' = running - 1
    /\ UNCHANGED <<mpc, stage, start, operCount, counter, call, key_checksum,
                   num_operations, curKeySum>>

(* The spin on g->running has come to its end.  To be joined with          *)
(* deinitThread.                                                           *)
Leave(t) ==
    /\ To(t, "barrier", "ended")
    /\ running = 0
    /\ UNCHANGED <<mpc, stage, running, start, operCount, counter, call,
                   key_checksum, num_operations, curKeySum>>

(* What a data structure does to the calls in progress.  Decide: t's       *)
(* operation leaves the contents as they are and has its result.           *)
(* Effect: it makes key present (or absent) and succeeds; the operations   *)
(* on the same key that are under way see the change.                      *)
Decide(t, r) == call' = [call EXCEPT ![t].result = r]
Effect(t, there) ==
    call' = [u \in Threads |->
        IF u = t
        THEN [call[t] EXCEPT !.result = "success"]
        ELSE IF call[u] # NoCall /\ call[u].key = call[t].key
        THEN [call[u] EXCEPT !.seen = @ \cup {there}]
        ELSE call[u]]

-----------------------------------------------------------------------------

(* The sum that print_output reports at the end: what the threads have     *)
(* inserted and removed, stage by stage, adds up to the keys the structure *)
(* holds.  print_output compares the two only under USE_TREE_STATS, in     *)
(* code that does not compile as it stands (it names threadsKeySum).       *)
KeySumMatches(present) ==
    mpc = "report" => key_checksum + curKeySum = SumSet(present)

(* OperationCounter: its shares add up, so that a stage executes exactly   *)
(* the operations it was given, or more only when prefilling repeats       *)
(* failed insertions; none is lost between the threads' shares and the     *)
(* statistics.                                                             *)
OperationsCounted ==
    (mpc = "join" /\ \A t \in Workers : tpc[t] = "ended") =>
        IF Current.attempts = 1 THEN num_operations = Current.limit
        ELSE num_operations \in Current.limit .. Current.limit * Current.attempts
=============================================================================
