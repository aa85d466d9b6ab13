----------------------------- MODULE MCLSMTree -----------------------------
(* A two-page block, four blocks, two keys and values of two lengths.        *)
(* The longest entries are as long as SmallEntries allows, and two of them   *)
(* would fill the block to the brim.                                         *)
EXTENDS LSMTree

CONSTANTS k1, k2, short, long

MCKeys == {k1, k2}
MCVals == {short, long}
MCKeyLen == [k \in MCKeys |-> 1]
SmallLen == [v \in {short, long, TOMBSTONE} |->
               IF v = short THEN 3 ELSE IF v = long THEN 11 ELSE 5]
=============================================================================
