------------------------- MODULE MCGeneticTraining -------------------------
(***************************************************************************)
(* Instances of GeneticTraining for TLC.  Two workers, buffers of two      *)
(* samples and batches of four: a batch needs two full buffers, of one     *)
(* worker or of both.                                                      *)
(***************************************************************************)
EXTENDS GeneticTraining
=============================================================================
