----------------------------- MODULE FileStore -----------------------------
(* What the key-value layer promises to inodes: each data object is a byte   *)
(* sequence that can be overwritten, extended at its end, cut, and deleted.  *)
(* Where the bytes lie, and what the collector does to them, is invisible.   *)
EXTENDS Sequences, Integers

CONSTANTS
  Inos, Bytes,
  MaxLen        \* bound: the longest object

VARIABLE content   \* the bytes of each inode's data object; empty without one

Init == content = [i \in Inos |-> <<>>]

Overwrite(s, off, val) ==
  SubSeq(s, 1, off) \o val \o SubSeq(s, off + Len(val) + 1, Len(s))

Cut(s, off, n) == SubSeq(s, 1, off) \o SubSeq(s, off + n + 1, Len(s))

(* There are no holes: a write that starts beyond the end is dropped.        *)
Write(i, off, val) ==
  /\ off <= Len(content[i])
  /\ content' = [content EXCEPT ![i] = Overwrite(@, off, val)]

Remove(i, off, n) ==
  /\ off < Len(content[i])
  /\ content' = [content EXCEPT ![i] = Cut(@, off, n)]

Delete(i) == content' = [content EXCEPT ![i] = <<>>]

Next ==
  \/ \E i \in Inos, off \in 0..MaxLen, n \in 1..MaxLen, b \in Bytes :
       Write(i, off, [j \in 1..n |-> b])
  \/ \E i \in Inos, off \in 0..MaxLen, n \in 1..MaxLen : Remove(i, off, n)
  \/ \E i \in Inos : Delete(i)

Spec == Init /\ [][Next]_content
=============================================================================
