---------------------------- MODULE MCTicketTree ----------------------------
(***************************************************************************)
(* Instance of TicketTree for TLC: two threads that insert, remove and     *)
(* look up two keys, after both were inserted, so that a removal's parent  *)
(* is another removal's node.                                              *)
(***************************************************************************)
EXTENDS TicketTree

MCStages ==
    <<[threads |-> 1, limit |-> 2, attempts |-> 2, ops |-> {"insert"}],
      [threads |-> 0, limit |-> 0, attempts |-> 1, ops |-> {}],
      [threads |-> 2, limit |-> 3, attempts |-> 1,
       ops |-> {"insert", "remove", "get"}]>>
=============================================================================
