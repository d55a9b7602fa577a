--------------------------- MODULE MCGeneticLock ---------------------------
(***************************************************************************)
(* Instance of GeneticLock for TLC: five positions in three blocks, the    *)
(* last of them half full, and two locks.                                  *)
(***************************************************************************)
EXTENDS GeneticLock

(* The middle block, given in the wrong order: the only block whose lock   *)
(* depends on the cuts.                                                    *)
MCRequests == {<<3, 2>>}
=============================================================================
