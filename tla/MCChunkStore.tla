---------------------------- MODULE MCChunkStore ----------------------------
(* Three chunks in a row under a cap of two, regions that fit and one that does not. *)
EXTENDS ChunkStore, TLC

Runs == {1 .. 2, 2 .. 3, 1 .. 3}
ContentSymmetry == Permutations(Contents)
=============================================================================
