------------------------------ MODULE MCLRUCache ------------------------------
(* An instance of LRUCache.tla for TLC.  Where nodes are allocated makes no  *)
(* difference.                                                               *)
EXTENDS LRUCache, TLC

AddressSymmetry == Permutations(Addresses)
=============================================================================
