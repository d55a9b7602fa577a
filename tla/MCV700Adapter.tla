--------------------------- MODULE MCV700Adapter ----------------------------
(***************************************************************************)
(* Instance of V700Adapter for TLC: keys 1 and 2, so four slots (KEY_MIN   *)
(* and KEY_MAX have one each) in two blocks, with one key in each block; a *)
(* range query takes one lock or both.                                     *)
(***************************************************************************)
EXTENDS V700Adapter

(* One thread prefills, trying twice; no warm-up; two threads share an odd *)
(* number of operations.                                                   *)
MCStages ==
    <<[threads |-> 1, limit |-> 2, attempts |-> 2, ops |-> {"insert"}],
      [threads |-> 0, limit |-> 0, attempts |-> 1, ops |-> {}],
      [threads |-> 2, limit |-> 3, attempts |-> 1, ops |-> Ops]>>
=============================================================================
