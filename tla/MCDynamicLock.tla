--------------------------- MODULE MCDynamicLock ---------------------------
(***************************************************************************)
(* Instances of DynamicLock for TLC.  Seven positions in four blocks of    *)
(* two (the last block half empty) and two locks: the cuts can move so     *)
(* that a range lies in one partition, spans both, or is read inverted.    *)
(***************************************************************************)
EXTENDS DynamicLock, TLC

(* A range across the middle, given in the wrong order, and one that       *)
(* shares a block with it and runs past the end of the array.              *)
MCRequests == {<<5, 2>>, <<4, 9>>}

(* For the larger instances: only the range across the middle.             *)
MCOneRequest == {<<2, 5>>}

MCSymmetry == Permutations(Threads)
=============================================================================
