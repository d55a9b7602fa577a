---------------------------- MODULE Reclamation -----------------------------
(***************************************************************************)
(* What a record manager promises a data structure: a record that was      *)
(* retired is given back to the allocator only after every operation that  *)
(* was running when it was retired has ended.  An operation that starts    *)
(* later cannot reach the record any more.                                 *)
(***************************************************************************)
CONSTANTS Threads, Records

VARIABLES
    inOp,     \* the threads that are inside an operation
    limbo,    \* the records that are retired and not yet freed
    waits     \* waits[r]: the operations r still has to wait for

Init ==
    /\ inOp = {}
    /\ limbo = {}
    /\ waits = [r \in Records |-> {}]

StartOp(t) ==
    /\ t \notin inOp
    /\ inOp' = inOp \cup {t}
    /\ UNCHANGED <<limbo, waits>>

EndOp(t) ==
    /\ t \in inOp
    /\ inOp' = inOp \ {t}
    /\ waits' = [r \in Records |-> waits[r] \ {t}]
    /\ UNCHANGED limbo

Retire(t, r) ==
    /\ t \in inOp
    /\ r \notin limbo
    /\ limbo' = limbo \cup {r}
    /\ waits' = [waits EXCEPT ![r] = inOp]
    /\ UNCHANGED inOp

GraceOver(r) == waits[r] = {}

Free(freed) ==
    /\ freed # {}
    /\ freed \subseteq limbo
    /\ \A r \in freed : GraceOver(r)
    /\ limbo' = limbo \ freed
    /\ UNCHANGED <<inOp, waits>>

Next ==
    \/ \E t \in Threads : \/ StartOp(t) \/ EndOp(t)
                          \/ \E r \in Records : Retire(t, r)
    \/ \E freed \in SUBSET limbo : Free(freed)

Spec == Init /\ [][Next]_<<inOp, limbo, waits>>
=============================================================================
