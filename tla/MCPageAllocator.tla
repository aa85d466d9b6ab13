--------------------------- MODULE MCPageAllocator ---------------------------
(* An instance of PageAllocator.tla for TLC: three blocks, so that the moves *)
(* of one plan may have different destinations.                              *)
EXTENDS PageAllocator

SomeInos == Permutations(Inos)
=============================================================================
