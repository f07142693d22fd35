------------------------ MODULE MCDisplayOrchestrator ------------------------
(* Small instances of the display machine: two chunks and a threshold of   *)
(* one, so that an empty, a small and a large covering set all occur.      *)
EXTENDS DisplayOrchestrator, TLC

ChunkSymmetry == Permutations(Chunks)
=============================================================================
