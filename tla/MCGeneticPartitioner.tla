----------------------- MODULE MCGeneticPartitioner -----------------------
(***************************************************************************)
(* Instances of GeneticPartitioner for TLC: blocks of two positions,       *)
(* a point query on the first block and a query over the blocks 1 to 3.    *)
(***************************************************************************)
EXTENDS GeneticPartitioner

MCQueries == {<<0, 0>>, <<3, 7>>}
=============================================================================
