------------------------------ MODULE Example ------------------------------
(***************************************************************************)
(* example/main.cpp (also the README's example): kThreadCnt threads add 1  *)
(* to every element of an array, each increment inside a WriteQuery.  The  *)
(* lock is the abstract one that DynamicLock implements, RangeLock; what   *)
(* is added here is the client: the ranges it asks for, the loop of its    *)
(* func with the two halves of ++data[idx], and the check at the end.      *)
(***************************************************************************)
EXTENDS BlockMap, FiniteSets

CONSTANT Threads    \* the kThreadCnt threads

VARIABLES
    data,       \* the array that the lock guards
    i,          \* the loop variable of each thread
    running,    \* the positions each thread's func has been granted
    last,       \* the argument right of each func; left is i, clamped
    idx,        \* the loop variable of each func
    loaded      \* the value that ++data[idx] has read, Nothing outside

Nothing == -1

clientVars == <<i, running, last, idx>>
vars == <<data, clientVars, loaded>>

Init ==
    /\ data = [p \in Positions |-> 0]
    /\ i = [t \in Threads |-> 0]
    /\ running = [t \in Threads |-> {}]
    /\ last = [t \in Threads |-> 0]
    /\ idx = [t \in Threads |-> 0]
    /\ loaded = [t \in Threads |-> Nothing]

(* What RangeLock's Enter asks for: nobody else works on the range.        *)
Granted(t, range) == \A u \in Threads \ {t} : running[u] \cap range = {}

(* lock.WriteQuery(i, i + 1, AddOneToPoint): the range is clamped, then    *)
(* granted, and func is called with the clamped ends.                      *)
WriteQuery(t) ==
    LET request == <<i[t], i[t] + 1>>
        range   == ClampedLeft(request) .. ClampedRight(request)
    IN
    /\ running[t] = {}
    /\ i[t] < ArraySize
    /\ Granted(t, range)
    /\ running' = [running EXCEPT ![t] = range]
    /\ last' = [last EXCEPT ![t] = ClampedRight(request)]
    /\ idx' = [idx EXCEPT ![t] = ClampedLeft(request)]
    /\ UNCHANGED <<data, i, loaded>>

(* AddOneToPoint runs for idx = left; idx < right.                         *)
Load(t) ==
    /\ running[t] # {}
    /\ loaded[t] = Nothing
    /\ idx[t] < last[t]
    /\ loaded' = [loaded EXCEPT ![t] = data[idx[t]]]
    /\ UNCHANGED <<data, clientVars>>

Store(t) ==
    /\ loaded[t] # Nothing
    /\ data' = [data EXCEPT ![idx[t]] = loaded[t] + 1]
    /\ loaded' = [loaded EXCEPT ![t] = Nothing]
    /\ idx' = [idx EXCEPT ![t] = @ + 1]
    /\ UNCHANGED <<i, running, last>>

Return(t) ==
    /\ running[t] # {}
    /\ loaded[t] = Nothing
    /\ idx[t] >= last[t]
    /\ running' = [running EXCEPT ![t] = {}]
    /\ i' = [i EXCEPT ![t] = @ + 1]
    /\ UNCHANGED <<data, last, idx, loaded>>

Next == \E t \in Threads : WriteQuery(t) \/ Load(t) \/ Store(t) \/ Return(t)

Spec == Init /\ [][Next]_vars

-----------------------------------------------------------------------------

(* The check at the end of main: once every thread is through, each        *)
(* element has been incremented by every thread ("Incorrect result" is     *)
(* thrown otherwise).                                                      *)
Joined == \A t \in Threads : i[t] = ArraySize
CorrectResult ==
    Joined => \A p \in Positions : data[p] = Cardinality(Threads)
=============================================================================
