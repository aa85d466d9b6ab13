--------------------------- MODULE MCOnDiskFormats ---------------------------
(* An instance of OnDiskFormats.tla for TLC: five characters, three of which *)
(* weigh the same, as most of the 256 do.                                    *)
EXTENDS OnDiskFormats

FiveWeights == [c \in Chars |-> IF c <= 3 THEN 1 ELSE c - 2]
=============================================================================
