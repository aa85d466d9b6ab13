------------------------- MODULE MCSimilarityGraph -------------------------
(* The bits of a hash and the inodes are interchangeable.                    *)
EXTENDS SimilarityGraph, TLC

BitsAndInos == Permutations(Bits) \cup Permutations(Inos)
=============================================================================
