------------------------------- MODULE Flash -------------------------------
(* What the flash stack promises to the key-value layer: a page is blank     *)
(* until it is written, keeps what was written, and is blank again once its  *)
(* block is erased.  Caches and the write thread are invisible.              *)
EXTENDS Integers

CONSTANTS Vals, Blank, PagesPerBlock, BlockCount

Blocks == 0 .. BlockCount - 1
Pages  == 0 .. BlockCount * PagesPerBlock - 1

VARIABLE pages

Init == pages = [a \in Pages |-> Blank]

(* The caller programs a page only when it is erased.                        *)
Write(a, v) ==
  /\ pages[a] = Blank
  /\ pages' = [pages EXCEPT ![a] = v]

Erase(b) ==
  pages' = [a \in Pages |-> IF a \div PagesPerBlock = b THEN Blank ELSE pages[a]]

Next ==
  \/ \E a \in Pages, v \in Vals : Write(a, v)
  \/ \E b \in Blocks : Erase(b)

Spec == Init /\ [][Next]_pages
=============================================================================
