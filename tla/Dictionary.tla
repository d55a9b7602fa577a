----------------------------- MODULE Dictionary -----------------------------
(***************************************************************************)
(* What the benchmark expects of a data structure behind its adapter:      *)
(* insertIfAbsent, erase and find behave as if each took effect in one     *)
(* step between its call and its return, on one set of keys.  An operation *)
(* that changes the set does so once and then succeeds; one that does not  *)
(* answers as was right at some moment during the operation.               *)
(***************************************************************************)
CONSTANTS Threads, Keys, NoCall

VARIABLES
    present,    \* the keys in the dictionary
    call        \* NoCall, or the operation each thread is executing

Init ==
    /\ present = {}
    /\ call = [t \in Threads |-> NoCall]

Found(there) == IF there THEN "success" ELSE "failure"

Call(t, o, k) ==
    /\ call[t] = NoCall
    /\ call' = [call EXCEPT
                  ![t] = [op |-> o, key |-> k, seen |-> {(k \in present)},
                          result |-> "pending"]]
    /\ UNCHANGED present

(* The set changes, and whoever is asking about the key may notice.        *)
Change(t, there) ==
    /\ call' = [u \in Threads |->
          IF u = t THEN [call[t] EXCEPT !.result = "success"]
          ELSE IF call[u] # NoCall /\ call[u].key = call[t].key
          THEN [call[u] EXCEPT !.seen = @ \cup {there}]
          ELSE call[u]]

Insert(t) ==
    /\ call[t].op = "insert"
    /\ call[t].key \notin present
    /\ present' = present \cup {call[t].key}
    /\ Change(t, TRUE)

Remove(t) ==
    /\ call[t].op = "remove"
    /\ call[t].key \in present
    /\ present' = present \ {call[t].key}
    /\ Change(t, FALSE)

(* A failing insert has seen the key, a failing remove has missed it, a    *)
(* get reports either.                                                     *)
Answer(t) ==
    /\ \/ call[t].op = "insert" /\ TRUE \in call[t].seen
             /\ call' = [call EXCEPT ![t].result = "failure"]
       \/ call[t].op = "remove" /\ FALSE \in call[t].seen
             /\ call' = [call EXCEPT ![t].result = "failure"]
       \/ call[t].op = "get" /\ \E there \in call[t].seen :
             call' = [call EXCEPT ![t].result = Found(there)]
    /\ UNCHANGED present

Return(t) ==
    /\ call[t] # NoCall
    /\ call[t].result # "pending"
    /\ call' = [call EXCEPT ![t] = NoCall]
    /\ UNCHANGED present

Next ==
    \E t \in Threads :
        \/ \E o \in {"insert", "remove", "get"}, k \in Keys : Call(t, o, k)
        \/ /\ call[t] # NoCall
           /\ call[t].result = "pending"
           /\ Insert(t) \/ Remove(t) \/ Answer(t)
        \/ Return(t)

Spec == Init /\ [][Next]_<<present, call>>
=============================================================================
