-------------------------- MODULE MCDynamicStats --------------------------
(***************************************************************************)
(* An instance of DynamicStats for TLC: queries within the first block and *)
(* over the two in the middle (its ends in the wrong order) of four        *)
(* blocks, the last of which is shorter than the others.                   *)
(***************************************************************************)
EXTENDS DynamicStats, TLC

MCRequests == {<<0, 1>>, <<5, 2>>}
MCSymmetry == Permutations(Samplers)
=============================================================================
