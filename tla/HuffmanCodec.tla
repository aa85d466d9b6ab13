---------------------------- MODULE HuffmanCodec ----------------------------
(* The Huffman codec (compress/huffman.rs): the tree built of the fixed      *)
(* weights of the characters, the codes read off it, a text encoded into     *)
(* bytes, and the bytes decoded bit by bit.                                  *)
(*                                                                           *)
(* The characters are listed in the order a HashMap iterates in, which is    *)
(* another one in every process; a codec encodes and decodes with the codes  *)
(* of one order.  The statistics it keeps (coefficient, efficiency) are left *)
(* out: nobody reads them.  A bit is 0 or 1.                                 *)
EXTENDS Integers, SequencesExt, FiniteSetsExt

CONSTANTS
  Chars,       \* characters (256)
  Weights,     \* CharWeightMap: 1, or 2 to 53 for the letters
  ByteBits,    \* bits in a byte (8)
  MaxText      \* bound: the longest text

ASSUME HuffmanCodecAssumption ==
  /\ IsFiniteSet(Chars) /\ Cardinality(Chars) > 1
  /\ Weights \in [Chars -> Nat \ {0}]
  /\ ByteBits \in Nat \ {0} /\ MaxText \in Nat

VARIABLES
  trees,      \* HuffmanTree::build's vector: the subtrees without a parent
  codes,      \* HuffmanBinaryMap.inner: the code of each character
  text,       \* what is encoded
  bytes,      \* encode's result
  buf,        \* the bits of the byte encode is filling
  coding,     \* "build", "encode", "decode" or "done"
  at,         \* bits decode has looked at
  tmp,        \* those it has not matched yet
  decoded     \* decode's result

codecVars == <<trees, codes, text, bytes, buf, coding, at, tmp, decoded>>

-----------------------------------------------------------------------------
(* The tree.  A subtree is its weight and the codes of the characters in it; *)
(* the subtrees without a parent are kept in the order of the vector.        *)

Leaf(c) == [weight |-> Weights[c], codes |-> [x \in {c} |-> <<>>]]

(* find_min: the first of those of least weight.                             *)
FirstMin(vec) ==
  CHOOSE k \in DOMAIN vec :
    /\ \A l \in DOMAIN vec : vec[k].weight <= vec[l].weight
    /\ \A l \in 1 .. k - 1 : vec[k].weight < vec[l].weight

JoinedLeft(left, right) ==                            \* mutant of Joined
  [weight |-> left.weight + right.weight,
   codes  |-> [c \in DOMAIN left.codes \cup DOMAIN right.codes |->
                 IF c \in DOMAIN left.codes THEN <<0>> \o left.codes[c] ELSE right.codes[c]]]

(* The new parent of two subtrees: a 0 leads to the left.                    *)
Joined(left, right) ==
  [weight |-> left.weight + right.weight,
   codes  |-> [c \in DOMAIN left.codes \cup DOMAIN right.codes |->
                 IF c \in DOMAIN left.codes THEN <<0>> \o left.codes[c]
                 ELSE <<1>> \o right.codes[c]]]

NothingCoded ==
  /\ codes = <<>> /\ text = <<>> /\ bytes = <<>> /\ buf = <<>>
  /\ coding = "build"
  /\ at = 0 /\ tmp = <<>> /\ decoded = <<>>

CodecInit ==
  /\ \E order \in SetToSeqs(Chars) : trees = [k \in DOMAIN order |-> Leaf(order[k])]
  /\ NothingCoded

(* A turn of build's loop: the two lightest subtrees get a parent.           *)
Join ==
  LET m1   == FirstMin(trees)
      rest == RemoveAt(trees, m1)
      m2   == FirstMin(rest)
  IN
  /\ coding = "build" /\ Len(trees) > 1
  /\ trees' = Append(RemoveAt(rest, m2), Joined(trees[m1], rest[m2]))
  /\ UNCHANGED <<codes, text, bytes, buf, coding, at, tmp, decoded>>

(* HuffmanBinaryMap::build: the codes of the one tree that is left.          *)
ReadCodes ==
  /\ coding = "build" /\ Len(trees) = 1
  /\ codes' = trees[1].codes
  /\ trees' = <<>>
  /\ coding' = "encode"
  /\ UNCHANGED <<text, bytes, buf, at, tmp, decoded>>

-----------------------------------------------------------------------------
(* A byte goes to the result when it is full.                                *)
EncodeChar(c) ==
  LET bits == buf \o codes[c]
      n    == Len(bits) \div ByteBits
  IN
  /\ coding = "encode" /\ Len(text) < MaxText
  /\ text' = Append(text, c)
  /\ bytes' = bytes \o [k \in 1 .. n |-> SubSeq(bits, (k - 1) * ByteBits + 1, k * ByteBits)]
  /\ buf' = SubSeq(bits, n * ByteBits + 1, Len(bits))
  /\ UNCHANGED <<trees, codes, coding, at, tmp, decoded>>

(* The last byte is filled with zeros; how many is not kept.  (An empty text *)
(* divides by zero in the statistics.)                                       *)
Padded(bits) == [k \in 1 .. ByteBits |-> IF k <= Len(bits) THEN bits[k] ELSE 0]

EndEncode ==
  /\ coding = "encode" /\ text # <<>>
  /\ bytes' = IF buf = <<>> THEN bytes ELSE Append(bytes, Padded(buf))
  /\ buf' = <<>>
  /\ coding' = "decode"
  /\ UNCHANGED <<trees, codes, text, at, tmp, decoded>>

(* The bits of all bytes, one behind the other.                              *)
BitString ==
  [k \in 1 .. ByteBits * Len(bytes) |-> bytes[(k - 1) \div ByteBits + 1][((k - 1) % ByteBits) + 1]]

(* One turn of decode's loop; decode_map.space is 0, so it takes every bit.  *)
DecodeBit ==
  LET bits  == Append(tmp, BitString[at + 1])
      match == {c \in Chars : codes[c] = bits}
  IN
  /\ coding = "decode" /\ at < Len(BitString)
  /\ at' = at + 1
  /\ tmp' = IF match = {} THEN bits ELSE <<>>
  /\ decoded' = IF match = {} THEN decoded ELSE Append(decoded, CHOOSE c \in match : TRUE)
  /\ UNCHANGED <<trees, codes, text, bytes, buf, coding>>

EndDecode ==
  /\ coding = "decode" /\ at = Len(BitString)
  /\ coding' = "done"
  /\ UNCHANGED <<trees, codes, text, bytes, buf, at, tmp, decoded>>

CodecNext ==
  Join \/ ReadCodes \/ (\E c \in Chars : EncodeChar(c)) \/ EndEncode \/ DecodeBit \/ EndDecode

CodecSpec == CodecInit /\ [][CodecNext]_codecVars

-----------------------------------------------------------------------------
(* Properties.                                                               *)

(* Whatever the order of the characters, a text is decoded as it was, but    *)
(* for characters that the zeros of the last byte may add behind it: the one *)
(* that is coded by zeros alone.                                             *)
DecodesText ==
  coding = "done" =>
    /\ IsPrefix(text, decoded)
    /\ \A k \in Len(text) + 1 .. Len(decoded) : 1 \notin ToSet(codes[decoded[k]])
=============================================================================
