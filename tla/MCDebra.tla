------------------------------ MODULE MCDebra -------------------------------
(***************************************************************************)
(* Instances of Debra for TLC: two threads, blocks of one or two records,  *)
(* a scan in every operation.                                              *)
(***************************************************************************)
EXTENDS Debra, TLC

Without == [threads |-> 0, limit |-> 0, attempts |-> 1, ops |-> {}]
With(n) == [threads |-> 2, limit |-> n, attempts |-> 1, ops |-> {"remove"}]

(* Enough operations for a record to be retired, made freeable and freed   *)
(* in one stage.                                                           *)
MCOneStage == <<Without, Without, With(9)>>

(* A warm-up and a test.                                                   *)
MCTwoStages == <<Without, With(6), With(6)>>

MCSymmetry == Permutations(Records)
=============================================================================
