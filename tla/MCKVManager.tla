---------------------------- MODULE MCKVManager ----------------------------
(* Instances of KVManager.tla for TLC.  Inode numbers are model values.      *)
EXTENDS KVManager

CONSTANTS i1, i2, b1, b2

OneIno   == {i1}
TwoInos  == {i1, i2}
Second   == {i2}
OneByte  == {b1}
TwoBytes == {b1, b2}
=============================================================================
