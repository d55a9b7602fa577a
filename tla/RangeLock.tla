----------------------------- MODULE RangeLock -----------------------------
(***************************************************************************)
(* What WriteQuery(left, right, func) promises its callers, whichever of   *)
(* the three locks (NaiveLock, DynamicLock, GeneticLock) implements it:    *)
(* func runs over the closed range left..right while no other thread's     *)
(* func runs over a range that shares a position with it.  Nothing is said *)
(* about how the range is protected, nor about when it is granted.         *)
(***************************************************************************)
EXTENDS Naturals

CONSTANTS
    Threads,    \* the threads that call WriteQuery
    Positions   \* the positions 0 .. array_size_ - 1 of the guarded data

VARIABLE
    running     \* running[t]: the positions t's func runs over, {} outside func

Init == running = [t \in Threads |-> {}]

(* The granted range is a closed interval of positions, disjoint from      *)
(* every range some other thread is working on.                            *)
Enter(t) ==
    /\ running[t] = {}
    /\ \E left, right \in Positions :
          /\ left <= right
          /\ \A u \in Threads \ {t} : running[u] \cap (left .. right) = {}
          /\ running' = [running EXCEPT ![t] = left .. right]

Leave(t) ==
    /\ running[t] # {}
    /\ running' = [running EXCEPT ![t] = {}]

Next == \E t \in Threads : Enter(t) \/ Leave(t)

Spec == Init /\ [][Next]_running
=============================================================================
