----------------------------- MODULE MCExample -----------------------------
(***************************************************************************)
(* Instances of Example for TLC: three threads that each walk over four    *)
(* elements (the code: 8 threads, 2^20 elements).                          *)
(***************************************************************************)
EXTENDS Example, TLC

MCSymmetry == Permutations(Threads)
=============================================================================
