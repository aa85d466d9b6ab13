--------------------------- MODULE LRUCache_proofs ---------------------------
(* Proofs about the LRU cache for every capacity, and every set of keys,     *)
(* values and addresses.                                                     *)
EXTENDS LRUCache, Sequences, SequenceTheorems, FiniteSetTheorems, WellFoundedInduction, TLAPS

IsCache(c) ==
  /\ c = [head |-> c.head, tail |-> c.tail, size |-> c.size, map |-> c.map, nodes |-> c.nodes]
  /\ c.head \in Link /\ c.tail \in Link /\ c.size \in Nat
  /\ DOMAIN c.map \subseteq Keys /\ c.map \in [DOMAIN c.map -> Addresses]
  /\ DOMAIN c.nodes \subseteq Addresses /\ c.nodes \in [DOMAIN c.nodes -> Node]

(* WellLinked and the first half of NothingLeaks, of any cache.              *)
Linked(c) ==
  /\ \A n \in DOMAIN c.nodes :
       /\ IF c.nodes[n].next = Nil THEN c.tail = n
          ELSE c.nodes[n].next \in DOMAIN c.nodes /\ c.nodes[c.nodes[n].next].prev = n
       /\ IF c.nodes[n].prev = Nil THEN c.head = n
          ELSE c.nodes[n].prev \in DOMAIN c.nodes /\ c.nodes[c.nodes[n].prev].next = n
  /\ \A k \in DOMAIN c.map : c.nodes[c.map[k]].key = k

Mapped(c) ==
  /\ DOMAIN c.nodes = Range(c.map)
  /\ Cardinality(DOMAIN c.nodes) = c.size

(* The ends are nodes, and nothing lies beyond them.                         *)
Ended(c) ==
  /\ c.head = Nil <=> c.tail = Nil
  /\ c.head # Nil => c.head \in DOMAIN c.nodes /\ c.nodes[c.head].prev = Nil
  /\ c.tail # Nil => c.tail \in DOMAIN c.nodes /\ c.nodes[c.tail].next = Nil

(* The list has no cycle: its nodes can be numbered downwards.               *)
Descends(c, rank) ==
  \A n \in DOMAIN c.nodes : c.nodes[n].next # Nil => rank[c.nodes[n].next] < rank[n]
Acyclic(c) == \E rank \in [Addresses -> Nat] : Descends(c, rank)

IsList(c) == IsCache(c) /\ Linked(c) /\ Mapped(c) /\ Ended(c) /\ Acyclic(c)

IInv ==
  /\ IsList(cache)
  /\ cache.size <= Capacity
  /\ status = "running"

-----------------------------------------------------------------------------
LEMMA NilIsNoAddress == Nil \notin Addresses /\ IsFiniteSet(Addresses)
BY LRUCacheAssumption

LEMMA NodeOfKey ==
  ASSUME NEW c, IsList(c), NEW k \in DOMAIN c.map
  PROVE  c.map[k] \in DOMAIN c.nodes /\ c.nodes[c.map[k]].key = k
BY DEF IsList, IsCache, Linked, Mapped, Range

LEMMA KeyOfNode ==
  ASSUME NEW c, IsList(c), NEW n \in DOMAIN c.nodes
  PROVE  c.nodes[n].key \in DOMAIN c.map /\ c.map[c.nodes[n].key] = n
BY DEF IsList, IsCache, Linked, Mapped, Range

LEMMA NodeTypes ==
  ASSUME NEW c, IsList(c), NEW n \in DOMAIN c.nodes
  PROVE  /\ n \in Addresses /\ n # Nil
         /\ c.nodes[n] \in Node
         /\ c.nodes[n].next \in DOMAIN c.nodes \cup {Nil}
         /\ c.nodes[n].prev \in DOMAIN c.nodes \cup {Nil}
         /\ c.nodes[n].next # n /\ c.nodes[n].prev # n
<1>1. n \in Addresses /\ n # Nil /\ c.nodes[n] \in Node
  BY NilIsNoAddress DEF IsList, IsCache
<1>2. /\ c.nodes[n].next \in DOMAIN c.nodes \cup {Nil}
      /\ c.nodes[n].prev \in DOMAIN c.nodes \cup {Nil}
  BY DEF IsList, Linked
<1>3. PICK rank \in [Addresses -> Nat] : Descends(c, rank)
  BY DEF IsList, Acyclic
<1>4. c.nodes[n].next # n
  BY <1>1, <1>3 DEF Descends
<1>5. c.nodes[n].prev # n
  BY <1>1, <1>4 DEF IsList, Linked
<1>. QED
  BY <1>1, <1>2, <1>4, <1>5

(* A list that has a node has a last one.                                    *)
LEMMA TailExists ==
  ASSUME NEW c, IsList(c), DOMAIN c.nodes # {}
  PROVE  c.tail \in DOMAIN c.nodes
<1>1. PICK rank \in [Addresses -> Nat] : Descends(c, rank)
  BY DEF IsList, Acyclic
<1>. DEFINE ranks == {rank[n] : n \in DOMAIN c.nodes}
<1>2. ranks \subseteq Nat /\ ranks # {}
  BY DEF IsList, IsCache
<1>3. PICK r \in ranks : \A s \in ranks : ~(<<s, r>> \in OpToRel(<, Nat))
  BY <1>2, NatLessThanWellFounded, WFMin
<1>4. \A s \in ranks : ~(s < r)
  BY <1>2, <1>3, Zenon DEF OpToRel
<1>5. PICK n \in DOMAIN c.nodes : rank[n] = r
  OBVIOUS
<1>6. c.nodes[n].next = Nil
  <2>. SUFFICES ASSUME c.nodes[n].next # Nil PROVE FALSE
    OBVIOUS
  <2>1. c.nodes[n].next \in DOMAIN c.nodes /\ rank[c.nodes[n].next] < r
    BY <1>1, <1>5 DEF IsList, Linked, Descends
  <2>. QED
    BY <1>4, <2>1
<1>. QED
  BY <1>5, <1>6 DEF IsList, Linked

-----------------------------------------------------------------------------
(* Taking a node out.                                                        *)

(* The list without node n, its neighbours joined.                           *)
Relinked(c, n) ==
  [m \in DOMAIN c.nodes \ {n} |->
     [key  |-> c.nodes[m].key, elem |-> c.nodes[m].elem,
      next |-> IF m = c.nodes[n].prev THEN c.nodes[n].next ELSE c.nodes[m].next,
      prev |-> IF m = c.nodes[n].next THEN c.nodes[n].prev ELSE c.nodes[m].prev]]

Removed(c, n) ==
  [head  |-> IF c.nodes[n].prev = Nil THEN c.nodes[n].next ELSE c.head,
   tail  |-> IF c.nodes[n].next = Nil THEN c.nodes[n].prev ELSE c.tail,
   size  |-> c.size - 1,
   map   |-> [k \in DOMAIN c.map \ {c.nodes[n].key} |-> c.map[k]],
   nodes |-> Relinked(c, n)]

LEMMA RemovedIsCache ==
  ASSUME NEW c, IsList(c), NEW n \in DOMAIN c.nodes
  PROVE  IsCache(Removed(c, n)) /\ c.size \in Nat \ {0}
<1>. DEFINE d == Removed(c, n)
<1>1. IsFiniteSet(DOMAIN c.nodes)
  BY NilIsNoAddress, FS_Subset DEF IsList, IsCache
<1>2. c.size \in Nat \ {0}
  BY <1>1, FS_EmptySet DEF IsList, IsCache, Mapped
<1>3. /\ d.head \in Link /\ d.tail \in Link
  BY NodeTypes DEF Removed, IsList, IsCache, Link
<1>4. DOMAIN d.map \subseteq Keys /\ d.map \in [DOMAIN d.map -> Addresses]
  BY DEF Removed, IsList, IsCache
<1>5. DOMAIN d.nodes \subseteq Addresses /\ d.nodes \in [DOMAIN d.nodes -> Node]
  <2>1. d.nodes = Relinked(c, n)
    BY DEF Removed
  <2>2. c.nodes[n].next \in Link /\ c.nodes[n].prev \in Link
    BY NodeTypes DEF Node
  <2>3. \A m \in DOMAIN c.nodes : c.nodes[m] \in Node
    BY NodeTypes
  <2>4. DOMAIN Relinked(c, n) \subseteq Addresses
    BY NodeTypes DEF Relinked
  <2>5. Relinked(c, n) \in [DOMAIN Relinked(c, n) -> Node]
    BY <2>2, <2>3 DEF Relinked, Node
  <2>. QED
    BY <2>1, <2>4, <2>5
<1>6. d.size \in Nat
  BY <1>2 DEF Removed
<1>7. d = [head |-> d.head, tail |-> d.tail, size |-> d.size, map |-> d.map, nodes |-> d.nodes]
  BY DEF Removed
<1>. QED
  BY <1>2, <1>3, <1>4, <1>5, <1>6, <1>7 DEF IsCache

LEMMA RemovedLinked ==
  ASSUME NEW c, IsList(c), NEW n \in DOMAIN c.nodes
  PROVE  Linked(Removed(c, n)) /\ Ended(Removed(c, n))
<1>. DEFINE p == c.nodes[n].prev
            x == c.nodes[n].next
            N == Relinked(c, n)
            d == Removed(c, n)
<1>1. /\ n # Nil /\ Nil \notin DOMAIN c.nodes
      /\ p \in DOMAIN c.nodes \cup {Nil} /\ x \in DOMAIN c.nodes \cup {Nil}
      /\ p # n /\ x # n
  BY NodeTypes, NilIsNoAddress DEF IsList, IsCache
<1>2. /\ d.nodes = N /\ DOMAIN N = DOMAIN c.nodes \ {n}
      /\ d.head = (IF p = Nil THEN x ELSE c.head)
      /\ d.tail = (IF x = Nil THEN p ELSE c.tail)
  BY DEF Removed, Relinked
<1>3. \A m \in DOMAIN N :
        /\ N[m].next = IF m = p THEN x ELSE c.nodes[m].next
        /\ N[m].prev = IF m = x THEN p ELSE c.nodes[m].prev
        /\ N[m].key = c.nodes[m].key
  BY DEF Relinked
<1>4. /\ p # Nil => c.nodes[p].next = n
      /\ x # Nil => c.nodes[x].prev = n
      /\ p = Nil => c.head = n
      /\ x = Nil => c.tail = n
  BY DEF IsList, Linked
<1>5. ASSUME NEW m \in DOMAIN N
      PROVE  /\ m # p => c.nodes[m].next # n
             /\ m # x => c.nodes[m].prev # n
             /\ c.nodes[m].next \in DOMAIN c.nodes \cup {Nil}
             /\ c.nodes[m].prev \in DOMAIN c.nodes \cup {Nil}
  BY <1>1, <1>2 DEF IsList, Linked
<1>6. ASSUME NEW m \in DOMAIN N
      PROVE  IF N[m].next = Nil THEN d.tail = m
             ELSE N[m].next \in DOMAIN N /\ N[N[m].next].prev = m
  <2>1. CASE m = p
    BY <1>1, <1>2, <1>3, <1>4, <2>1
  <2>2. CASE m # p
    <3>1. N[m].next = c.nodes[m].next /\ c.nodes[m].next # n
      BY <1>3, <1>5, <2>2
    <3>2. CASE c.nodes[m].next = Nil
      <4>1. c.tail = m
        BY <1>2, <3>2 DEF IsList, Linked
      <4>2. x # Nil
        BY <4>1, <1>2, <1>4
      <4>. QED
        BY <3>1, <3>2, <4>1, <4>2, <1>2
    <3>3. CASE c.nodes[m].next # Nil
      <4>1. c.nodes[m].next \in DOMAIN N /\ c.nodes[c.nodes[m].next].prev = m
        BY <1>2, <3>1, <3>3 DEF IsList, Linked
      <4>2. c.nodes[m].next # x
        BY <4>1, <1>1, <1>2, <1>4
      <4>. QED
        BY <1>3, <3>1, <3>3, <4>1, <4>2
    <3>. QED
      BY <3>2, <3>3
  <2>. QED
    BY <2>1, <2>2
<1>7. ASSUME NEW m \in DOMAIN N
      PROVE  IF N[m].prev = Nil THEN d.head = m
             ELSE N[m].prev \in DOMAIN N /\ N[N[m].prev].next = m
  <2>1. CASE m = x
    BY <1>1, <1>2, <1>3, <1>4, <2>1
  <2>2. CASE m # x
    <3>1. N[m].prev = c.nodes[m].prev /\ c.nodes[m].prev # n
      BY <1>3, <1>5, <2>2
    <3>2. CASE c.nodes[m].prev = Nil
      <4>1. c.head = m
        BY <1>2, <3>2 DEF IsList, Linked
      <4>2. p # Nil
        BY <4>1, <1>2, <1>4
      <4>. QED
        BY <3>1, <3>2, <4>1, <4>2, <1>2
    <3>3. CASE c.nodes[m].prev # Nil
      <4>1. c.nodes[m].prev \in DOMAIN N /\ c.nodes[c.nodes[m].prev].next = m
        BY <1>2, <3>1, <3>3 DEF IsList, Linked
      <4>2. c.nodes[m].prev # p
        BY <4>1, <1>1, <1>2, <1>4
      <4>. QED
        BY <1>3, <3>1, <3>3, <4>1, <4>2
    <3>. QED
      BY <3>2, <3>3
  <2>. QED
    BY <2>1, <2>2
<1>8. ASSUME NEW k \in DOMAIN d.map PROVE N[d.map[k]].key = k
  <2>1. k \in DOMAIN c.map /\ k # c.nodes[n].key /\ d.map[k] = c.map[k]
    BY DEF Removed
  <2>2. c.map[k] \in DOMAIN c.nodes /\ c.nodes[c.map[k]].key = k
    BY <2>1, NodeOfKey
  <2>. QED
    BY <1>2, <1>3, <2>1, <2>2
<1>9. Linked(d)
  BY <1>2, <1>6, <1>7, <1>8 DEF Linked
<1>10. Ended(d)
  <2>. USE DEF IsList, Ended
  <2>1. d.head = Nil <=> d.tail = Nil
    BY <1>1, <1>2, <1>4
  <2>2. ASSUME d.head # Nil PROVE d.head \in DOMAIN N /\ N[d.head].prev = Nil
    <3>1. CASE p = Nil
      BY <1>1, <1>2, <1>3, <2>2, <3>1
    <3>2. CASE p # Nil
      <4>1. c.head \in DOMAIN c.nodes /\ c.nodes[c.head].prev = Nil /\ c.head # n
        BY <1>2, <2>2, <3>2
      <4>2. c.head # x
        BY <4>1, <1>1, <1>4
      <4>. QED
        BY <1>2, <1>3, <3>2, <4>1, <4>2
    <3>. QED
      BY <3>1, <3>2
  <2>3. ASSUME d.tail # Nil PROVE d.tail \in DOMAIN N /\ N[d.tail].next = Nil
    <3>1. CASE x = Nil
      BY <1>1, <1>2, <1>3, <2>3, <3>1
    <3>2. CASE x # Nil
      <4>1. c.tail \in DOMAIN c.nodes /\ c.nodes[c.tail].next = Nil /\ c.tail # n
        BY <1>2, <2>3, <3>2
      <4>2. c.tail # p
        BY <4>1, <1>1, <1>4
      <4>. QED
        BY <1>2, <1>3, <3>2, <4>1, <4>2
    <3>. QED
      BY <3>1, <3>2
  <2>. QED
    BY <1>2, <2>1, <2>2, <2>3
<1>. QED
  BY <1>9, <1>10

LEMMA RemovedIsList ==
  ASSUME NEW c, IsList(c), NEW n \in DOMAIN c.nodes
  PROVE  /\ IsList(Removed(c, n))
         /\ Removed(c, n).size = c.size - 1 /\ c.size \in Nat \ {0}
         /\ c.nodes[n].key \notin DOMAIN Removed(c, n).map
         /\ DOMAIN Removed(c, n).map \subseteq DOMAIN c.map
<1>. DEFINE d == Removed(c, n)
            x == c.nodes[n].next
<1>1. /\ d.nodes = Relinked(c, n) /\ DOMAIN d.nodes = DOMAIN c.nodes \ {n}
      /\ d.map = [k \in DOMAIN c.map \ {c.nodes[n].key} |-> c.map[k]]
      /\ d.size = c.size - 1
  BY DEF Removed, Relinked
<1>2. Mapped(d)
  <2>1. Range(d.map) = DOMAIN c.nodes \ {n}
    <3>1. \A k \in DOMAIN d.map : d.map[k] \in DOMAIN c.nodes \ {n}
      BY <1>1, NodeOfKey
    <3>2. \A m \in DOMAIN c.nodes \ {n} :
            c.nodes[m].key \in DOMAIN d.map /\ d.map[c.nodes[m].key] = m
      BY <1>1, KeyOfNode
    <3>. HIDE DEF d
    <3>. QED
      BY <3>1, <3>2 DEF Range
  <2>2. IsFiniteSet(DOMAIN c.nodes)
    BY NilIsNoAddress, FS_Subset DEF IsList, IsCache
  <2>3. Cardinality(DOMAIN c.nodes \ {n}) = Cardinality(DOMAIN c.nodes) - 1
    BY <2>2, FS_RemoveElement
  <2>. QED
    BY <1>1, <2>1, <2>3 DEF Mapped, IsList
<1>3. Acyclic(d)
  <2>1. PICK rank \in [Addresses -> Nat] : Descends(c, rank)
    BY DEF IsList, Acyclic
  <2>2. ASSUME NEW m \in DOMAIN d.nodes, d.nodes[m].next # Nil
        PROVE  rank[d.nodes[m].next] < rank[m]
    <3>1. m \in DOMAIN c.nodes /\ m \in Addresses /\ n \in Addresses
      BY <1>1, NodeTypes
    <3>2. CASE m = c.nodes[n].prev
      <4>0. m \in DOMAIN c.nodes \ {n} => Relinked(c, n)[m].next = x
        BY <3>2 DEF Relinked
      <4>1. d.nodes[m].next = x /\ x # Nil
        <5>. HIDE DEF d
        <5>. QED
          BY <1>1, <2>2, <4>0
      <4>2. c.nodes[m].next = n /\ n # Nil
        BY <3>1, <3>2, NodeTypes DEF IsList, Linked
      <4>3. rank[x] < rank[n] /\ rank[n] < rank[m]
        BY <2>1, <3>1, <4>1, <4>2 DEF Descends
      <4>4. x \in Addresses
        BY <4>1, NodeTypes DEF IsList, IsCache
      <4>5. rank[x] \in Nat /\ rank[n] \in Nat /\ rank[m] \in Nat
        BY <3>1, <4>4
      <4>. QED
        BY <4>1, <4>3, <4>5
    <3>3. CASE m # c.nodes[n].prev
      <4>1. d.nodes[m].next = c.nodes[m].next
        BY <1>1, <3>3 DEF Relinked
      <4>2. rank[c.nodes[m].next] < rank[m]
        BY <2>1, <2>2, <3>1, <4>1 DEF Descends
      <4>. QED
        BY <4>1, <4>2
    <3>. QED
      BY <3>2, <3>3
  <2>. QED
    BY <2>2 DEF Acyclic, Descends
<1>. QED
  BY <1>1, <1>2, <1>3, RemovedIsCache, RemovedLinked DEF IsList

(* Updates of a cache, field by field.                                       *)
Cell(h, t, s, m, N) == [head |-> h, tail |-> t, size |-> s, map |-> m, nodes |-> N]

LEMMA CellOf ==
  ASSUME NEW c, IsCache(c)
  PROVE  c = Cell(c.head, c.tail, c.size, c.map, c.nodes)
BY DEF IsCache, Cell

LEMMA UnmapCell ==
  ASSUME NEW h, NEW t, NEW s, NEW m, NEW N, NEW k
  PROVE  Unmapped(Cell(h, t, s, m, N), k) = Cell(h, t, s - 1, Restrict(m, DOMAIN m \ {k}), N)
<1>1. PICK z : z = s - 1
  OBVIOUS
<1>2. PICK y : y = Restrict(m, DOMAIN m \ {k})
  OBVIOUS
<1>3. [Cell(h, t, s, m, N) EXCEPT !.map = y, !.size = z] = Cell(h, t, z, y, N)
  <2>1. [Cell(h, t, s, m, N) EXCEPT !.map = y, !.size = z]
          = [[Cell(h, t, s, m, N) EXCEPT !.map = y] EXCEPT !.size = z]
    OBVIOUS
  <2>2. [Cell(h, t, s, m, N) EXCEPT !.map = y] = Cell(h, t, s, y, N)
    BY DEF Cell
  <2>3. [Cell(h, t, s, y, N) EXCEPT !.size = z] = Cell(h, t, z, y, N)
    BY DEF Cell
  <2>. QED
    BY <2>1, <2>2, <2>3
<1>4. Unmapped(Cell(h, t, s, m, N), k) = [Cell(h, t, s, m, N) EXCEPT !.map = y, !.size = z]
  BY <1>1, <1>2 DEF Unmapped, Cell
<1>. QED
  BY <1>1, <1>2, <1>3, <1>4

PrevSet(N, n, a) == [N EXCEPT ![n].prev = a]
NextSet(N, n, a) == [N EXCEPT ![n].next = a]

SetEnds(c, a, b)        == [c EXCEPT !.head = a, !.tail = b]
SetPrevNext(c, n, a, x, b) == [c EXCEPT !.nodes[n].prev = a, !.nodes[x].next = b]
SetNextPrev(c, n, a, x, b) == [c EXCEPT !.nodes[n].next = a, !.nodes[x].prev = b]
SetPrevHead(c, n, a, b) == [c EXCEPT !.nodes[n].prev = a, !.head = b]
SetNextTail(c, n, a, b) == [c EXCEPT !.nodes[n].next = a, !.tail = b]
SetPrev(c, n, a)        == [c EXCEPT !.nodes[n].prev = a]

LEMMA EndsCell ==
  ASSUME NEW h, NEW t, NEW s, NEW m, NEW N, NEW a, NEW b
  PROVE  SetEnds(Cell(h, t, s, m, N), a, b) = Cell(a, b, s, m, N)
<1>. USE DEF SetEnds
<1>1. [Cell(h, t, s, m, N) EXCEPT !.head = a, !.tail = b]
        = [[Cell(h, t, s, m, N) EXCEPT !.head = a] EXCEPT !.tail = b]
  OBVIOUS
<1>2. [Cell(h, t, s, m, N) EXCEPT !.head = a] = Cell(a, t, s, m, N)
  BY DEF Cell
<1>3. [Cell(a, t, s, m, N) EXCEPT !.tail = b] = Cell(a, b, s, m, N)
  BY DEF Cell
<1>. QED
  BY <1>1, <1>2, <1>3

LEMMA LinksCell ==
  ASSUME NEW h, NEW t, NEW s, NEW m, NEW N, NEW n, NEW x, NEW a, NEW b
  PROVE  /\ SetPrevNext(Cell(h, t, s, m, N), n, a, x, b)
               = Cell(h, t, s, m, NextSet(PrevSet(N, n, a), x, b))
         /\ SetNextPrev(Cell(h, t, s, m, N), n, a, x, b)
               = Cell(h, t, s, m, PrevSet(NextSet(N, n, a), x, b))
<1>. DEFINE cell == Cell(h, t, s, m, N)
<1>1. PICK y, z : y = [N EXCEPT ![n].prev = a] /\ z = [N EXCEPT ![n].next = a]
  OBVIOUS
<1>2. [cell EXCEPT !.nodes[n].prev = a, !.nodes[x].next = b]
        = [[cell EXCEPT !.nodes[n].prev = a] EXCEPT !.nodes[x].next = b]
  OBVIOUS
<1>3. [cell EXCEPT !.nodes[n].next = a, !.nodes[x].prev = b]
        = [[cell EXCEPT !.nodes[n].next = a] EXCEPT !.nodes[x].prev = b]
  OBVIOUS
<1>4. [cell EXCEPT !.nodes[n].prev = a] = Cell(h, t, s, m, y)
  BY <1>1 DEF Cell
<1>5. [cell EXCEPT !.nodes[n].next = a] = Cell(h, t, s, m, z)
  BY <1>1 DEF Cell
<1>6. [Cell(h, t, s, m, y) EXCEPT !.nodes[x].next = b] = Cell(h, t, s, m, [y EXCEPT ![x].next = b])
  BY DEF Cell
<1>7. [Cell(h, t, s, m, z) EXCEPT !.nodes[x].prev = b] = Cell(h, t, s, m, [z EXCEPT ![x].prev = b])
  BY DEF Cell
<1>8. [cell EXCEPT !.nodes[n].prev = a, !.nodes[x].next = b] = Cell(h, t, s, m, [y EXCEPT ![x].next = b])
  BY <1>2, <1>4, <1>6
<1>9. [cell EXCEPT !.nodes[n].next = a, !.nodes[x].prev = b] = Cell(h, t, s, m, [z EXCEPT ![x].prev = b])
  BY <1>3, <1>5, <1>7
<1>. QED
  BY <1>1, <1>8, <1>9 DEF SetPrevNext, SetNextPrev, PrevSet, NextSet

LEMMA LinkEndCell ==
  ASSUME NEW h, NEW t, NEW s, NEW m, NEW N, NEW n, NEW a, NEW b
  PROVE  /\ SetPrevHead(Cell(h, t, s, m, N), n, a, b) = Cell(b, t, s, m, PrevSet(N, n, a))
         /\ SetNextTail(Cell(h, t, s, m, N), n, a, b) = Cell(h, b, s, m, NextSet(N, n, a))
<1>. DEFINE cell == Cell(h, t, s, m, N)
<1>1. PICK y, z : y = [N EXCEPT ![n].prev = a] /\ z = [N EXCEPT ![n].next = a]
  OBVIOUS
<1>2. [cell EXCEPT !.nodes[n].prev = a, !.head = b]
        = [[cell EXCEPT !.nodes[n].prev = a] EXCEPT !.head = b]
  OBVIOUS
<1>3. [cell EXCEPT !.nodes[n].next = a, !.tail = b]
        = [[cell EXCEPT !.nodes[n].next = a] EXCEPT !.tail = b]
  OBVIOUS
<1>4. [cell EXCEPT !.nodes[n].prev = a] = Cell(h, t, s, m, y)
  BY <1>1 DEF Cell
<1>5. [cell EXCEPT !.nodes[n].next = a] = Cell(h, t, s, m, z)
  BY <1>1 DEF Cell
<1>6. [Cell(h, t, s, m, y) EXCEPT !.head = b] = Cell(b, t, s, m, y)
  BY DEF Cell
<1>7. [Cell(h, t, s, m, z) EXCEPT !.tail = b] = Cell(h, b, s, m, z)
  BY DEF Cell
<1>8. [cell EXCEPT !.nodes[n].prev = a, !.head = b] = Cell(b, t, s, m, y)
  BY <1>2, <1>4, <1>6
<1>9. [cell EXCEPT !.nodes[n].next = a, !.tail = b] = Cell(h, b, s, m, z)
  BY <1>3, <1>5, <1>7
<1>. QED
  BY <1>1, <1>8, <1>9 DEF SetPrevHead, SetNextTail, PrevSet, NextSet

LEMMA PrevCell ==
  ASSUME NEW h, NEW t, NEW s, NEW m, NEW N, NEW n, NEW a
  PROVE  SetPrev(Cell(h, t, s, m, N), n, a) = Cell(h, t, s, m, PrevSet(N, n, a))
BY DEF SetPrev, PrevSet, Cell

(* Once nothing refers to the node it is freed, and the removal is complete. *)
LEMMA DropCell ==
  ASSUME NEW c, IsList(c), NEW n \in DOMAIN c.nodes, NEW Q,
         DOMAIN Q = DOMAIN c.nodes,
         Q[n].next = Nil, Q[n].prev = Nil,
         \A m \in DOMAIN c.nodes \ {n} : Q[m] = Relinked(c, n)[m]
  PROVE  LET d == Removed(c, n)
             v == Cell(d.head, d.tail, d.size, d.map, Q)
         IN  n \notin Referenced(v) /\ Dropped(v, n) = d
<1>. DEFINE d == Removed(c, n)
            v == Cell(d.head, d.tail, d.size, d.map, Q)
<1>1. v.head = d.head /\ v.tail = d.tail /\ v.map = d.map /\ v.nodes = Q
  BY DEF Cell
<1>2. IsList(d) /\ d.nodes = Relinked(c, n) /\ DOMAIN d.nodes = DOMAIN c.nodes \ {n}
  <2>1. IsList(d)
    BY RemovedIsList
  <2>. QED
    BY <2>1 DEF Removed, Relinked
<1>3. n # Nil
  BY NodeTypes
<1>4. n \notin {d.head, d.tail}
  BY <1>2, <1>3 DEF IsList, Ended
<1>5. n \notin Range(d.map)
  BY <1>2 DEF IsList, Mapped
<1>6. ASSUME NEW m \in DOMAIN Q PROVE Q[m].next # n /\ Q[m].prev # n
  <2>1. CASE m = n
    BY <1>3, <2>1
  <2>2. CASE m # n
    <3>1. Q[m] = d.nodes[m] /\ m \in DOMAIN d.nodes
      BY <1>2, <2>2
    <3>. QED
      BY <1>2, <1>3, <3>1, NodeTypes
  <2>. QED
    BY <2>1, <2>2
<1>7. n \notin Referenced(v)
  <2>1. n \notin UNION {{Q[m].next, Q[m].prev} : m \in DOMAIN Q}
    BY <1>6
  <2>. HIDE DEF d, v
  <2>. QED
    BY <1>1, <1>4, <1>5, <2>1 DEF Referenced
<1>8. Restrict(Q, DOMAIN Q \ {n}) = d.nodes
  <2>1. Restrict(Q, DOMAIN Q \ {n}) = [m \in DOMAIN c.nodes \ {n} |-> Relinked(c, n)[m]]
    BY DEF Restrict
  <2>. QED
    BY <1>2, <2>1 DEF Relinked
<1>9. Dropped(v, n) = [v EXCEPT !.nodes = Restrict(v.nodes, DOMAIN v.nodes \ {n})]
  <2>. HIDE DEF v
  <2>. QED
    BY <1>7 DEF Dropped
<1>10. Dropped(v, n) = [v EXCEPT !.nodes = d.nodes]
  BY <1>1, <1>8, <1>9
<1>11. [v EXCEPT !.nodes = d.nodes] = Cell(d.head, d.tail, d.size, d.map, d.nodes)
  BY DEF Cell
<1>12. d = Cell(d.head, d.tail, d.size, d.map, d.nodes)
  BY <1>2, CellOf DEF IsList
<1>. QED
  BY <1>7, <1>10, <1>11, <1>12

(* delete, link by link, is the removal of the node from the list.           *)
LEMMA DeletedIsRemoved ==
  ASSUME NEW c, IsList(c), NEW n \in DOMAIN c.nodes
  PROVE  Deleted(c, n) = Removed(c, n)
<1>. DEFINE p == c.nodes[n].prev
            x == c.nodes[n].next
            k == c.nodes[n].key
            d == Removed(c, n)
            N == c.nodes
            cut == NextSet(PrevSet(N, n, Nil), n, Nil)
            u == [Unmapped(c, k) EXCEPT !.nodes[n].prev = Nil, !.nodes[n].next = Nil]
<1>1. /\ n \in Addresses /\ n # Nil /\ Nil \notin DOMAIN N
      /\ p \in DOMAIN N \cup {Nil} /\ x \in DOMAIN N \cup {Nil}
      /\ p # n /\ x # n
      /\ N \in [DOMAIN N -> Node]
  BY NodeTypes, NilIsNoAddress DEF IsList, IsCache
<1>2. /\ p # Nil => N[p].next = n
      /\ x # Nil => N[x].prev = n
      /\ p = Nil => c.head = n
      /\ x = Nil => c.tail = n
  BY DEF IsList, Linked
<1>3. u = Cell(c.head, c.tail, d.size, d.map, cut)
  <2>1. Unmapped(c, k) = Cell(c.head, c.tail, c.size - 1, Restrict(c.map, DOMAIN c.map \ {k}), N)
    BY CellOf, UnmapCell DEF IsList
  <2>2. Restrict(c.map, DOMAIN c.map \ {k}) = d.map /\ d.size = c.size - 1
    BY DEF Restrict, Removed
  <2>3. Unmapped(c, k) = Cell(c.head, c.tail, d.size, d.map, N)
    BY <2>1, <2>2
  <2>4. PICK c1 : c1 = Unmapped(c, k)
    OBVIOUS
  <2>5. c1 = Cell(c.head, c.tail, d.size, d.map, N)
    BY <2>3, <2>4
  <2>6. SetPrevNext(c1, n, Nil, n, Nil) = Cell(c.head, c.tail, d.size, d.map, cut)
    <3>. HIDE DEF d, N
    <3>. QED
      BY <2>5, LinksCell
  <2>. QED
    BY <2>4, <2>6 DEF SetPrevNext
<1>4. /\ DOMAIN cut = DOMAIN N
      /\ cut[n].next = Nil /\ cut[n].prev = Nil
      /\ \A m \in DOMAIN N \ {n} : cut[m] = N[m]
      /\ \A m \in DOMAIN N : cut[m] \in [key : Keys, elem : Vals, next : Link, prev : Link]
  BY <1>1 DEF Node, Link, PrevSet, NextSet
<1>5. \A m \in DOMAIN N \ {n} :
        Relinked(c, n)[m] = [key  |-> N[m].key, elem |-> N[m].elem,
                             next |-> IF m = p THEN x ELSE N[m].next,
                             prev |-> IF m = x THEN p ELSE N[m].prev]
  BY DEF Relinked
<1>6. \A m \in DOMAIN N \ {n} :
        N[m] = [key |-> N[m].key, elem |-> N[m].elem, next |-> N[m].next, prev |-> N[m].prev]
  BY <1>1 DEF Node
<1>7. d.head = (IF p = Nil THEN x ELSE c.head) /\ d.tail = (IF x = Nil THEN p ELSE c.tail)
  BY DEF Removed
<1>8. ASSUME NEW Q, NEW v,
             v = Cell(d.head, d.tail, d.size, d.map, Q), Deleted(c, n) = Dropped(v, n),
             DOMAIN Q = DOMAIN N, Q[n].next = Nil, Q[n].prev = Nil,
             \A m \in DOMAIN N \ {n} :
               Q[m] = [key  |-> N[m].key, elem |-> N[m].elem,
                       next |-> IF m = p THEN x ELSE N[m].next,
                       prev |-> IF m = x THEN p ELSE N[m].prev]
      PROVE  Deleted(c, n) = d
  <2>1. \A m \in DOMAIN N \ {n} : Q[m] = Relinked(c, n)[m]
    BY <1>5, <1>8
  <2>2. Dropped(Cell(d.head, d.tail, d.size, d.map, Q), n) = d
    BY <1>8, <2>1, DropCell
  <2>. QED
    BY <1>8, <2>2
<1>9. CASE p = Nil /\ x = Nil
  <2>1. Deleted(c, n) = Dropped([u EXCEPT !.head = Nil, !.tail = Nil], n)
    BY <1>9 DEF Deleted
  <2>2. [u EXCEPT !.head = Nil, !.tail = Nil] = Cell(d.head, d.tail, d.size, d.map, cut)
    <3>1. d.head = Nil /\ d.tail = Nil
      BY <1>7, <1>9
    <3>. HIDE DEF u, d, cut
    <3>2. SetEnds(u, Nil, Nil) = Cell(Nil, Nil, d.size, d.map, cut)
      BY <1>3, EndsCell
    <3>. QED
      BY <3>1, <3>2 DEF SetEnds
  <2>3. \A m \in DOMAIN N \ {n} : m # p /\ m # x
    BY <1>1, <1>9
  <2>4. \A m \in DOMAIN N \ {n} :
          cut[m] = [key  |-> N[m].key, elem |-> N[m].elem,
                    next |-> IF m = p THEN x ELSE N[m].next,
                    prev |-> IF m = x THEN p ELSE N[m].prev]
    BY <1>4, <1>6, <2>3
  <2>. HIDE DEF cut
  <2>. QED
    BY <1>4, <1>8, <2>1, <2>2, <2>4
<1>10. CASE p = Nil /\ x # Nil
  <2>. DEFINE Q == PrevSet(cut, x, Nil)
  <2>1. Deleted(c, n) = Dropped([u EXCEPT !.nodes[x].prev = Nil, !.head = x], n)
    BY <1>10 DEF Deleted
  <2>2. [u EXCEPT !.nodes[x].prev = Nil, !.head = x] = Cell(d.head, d.tail, d.size, d.map, Q)
    <3>1. d.head = x /\ d.tail = c.tail
      BY <1>7, <1>10
    <3>. HIDE DEF u, d, cut, p, x
    <3>2. SetPrevHead(u, x, Nil, x) = Cell(x, c.tail, d.size, d.map, Q)
      BY <1>3, LinkEndCell
    <3>. QED
      BY <3>1, <3>2 DEF SetPrevHead
  <2>3. DOMAIN Q = DOMAIN N /\ Q[n].next = Nil /\ Q[n].prev = Nil
    BY <1>1, <1>4, <1>10 DEF PrevSet, NextSet
  <2>4. \A m \in DOMAIN N \ {n} :
          Q[m] = [key  |-> N[m].key, elem |-> N[m].elem,
                  next |-> IF m = p THEN x ELSE N[m].next,
                  prev |-> IF m = x THEN p ELSE N[m].prev]
    BY <1>1, <1>4, <1>6, <1>10 DEF PrevSet, NextSet
  <2>. HIDE DEF Q
  <2>. QED
    BY <1>8, <2>1, <2>2, <2>3, <2>4
<1>11. CASE p # Nil /\ x = Nil
  <2>. DEFINE Q == NextSet(cut, p, Nil)
  <2>1. Deleted(c, n) = Dropped([u EXCEPT !.nodes[p].next = Nil, !.tail = p], n)
    BY <1>11 DEF Deleted
  <2>2. [u EXCEPT !.nodes[p].next = Nil, !.tail = p] = Cell(d.head, d.tail, d.size, d.map, Q)
    <3>1. d.head = c.head /\ d.tail = p
      BY <1>7, <1>11
    <3>. HIDE DEF u, d, cut, p, x
    <3>2. SetNextTail(u, p, Nil, p) = Cell(c.head, p, d.size, d.map, Q)
      BY <1>3, LinkEndCell
    <3>. QED
      BY <3>1, <3>2 DEF SetNextTail
  <2>3. DOMAIN Q = DOMAIN N /\ Q[n].next = Nil /\ Q[n].prev = Nil
    BY <1>1, <1>4, <1>11 DEF PrevSet, NextSet
  <2>4. \A m \in DOMAIN N \ {n} :
          Q[m] = [key  |-> N[m].key, elem |-> N[m].elem,
                  next |-> IF m = p THEN x ELSE N[m].next,
                  prev |-> IF m = x THEN p ELSE N[m].prev]
    BY <1>1, <1>4, <1>6, <1>11 DEF PrevSet, NextSet
  <2>. HIDE DEF Q
  <2>. QED
    BY <1>8, <2>1, <2>2, <2>3, <2>4
<1>12. CASE p # Nil /\ x # Nil
  <2>. DEFINE Q == PrevSet(NextSet(cut, p, x), x, p)
  <2>1. Deleted(c, n) = Dropped([u EXCEPT !.nodes[p].next = x, !.nodes[x].prev = p], n)
    BY <1>12 DEF Deleted
  <2>2. [u EXCEPT !.nodes[p].next = x, !.nodes[x].prev = p] = Cell(d.head, d.tail, d.size, d.map, Q)
    <3>1. d.head = c.head /\ d.tail = c.tail
      BY <1>7, <1>12
    <3>. HIDE DEF u, d, cut, p, x
    <3>2. SetNextPrev(u, p, x, x, p) = Cell(c.head, c.tail, d.size, d.map, Q)
      BY <1>3, LinksCell
    <3>. QED
      BY <3>1, <3>2 DEF SetNextPrev
  <2>3. DOMAIN Q = DOMAIN N /\ Q[n].next = Nil /\ Q[n].prev = Nil
    BY <1>1, <1>4, <1>12 DEF PrevSet, NextSet
  <2>4. \A m \in DOMAIN N \ {n} :
          Q[m] = [key  |-> N[m].key, elem |-> N[m].elem,
                  next |-> IF m = p THEN x ELSE N[m].next,
                  prev |-> IF m = x THEN p ELSE N[m].prev]
    <3>. DEFINE C == NextSet(cut, p, x)
    <3>1. /\ DOMAIN C = DOMAIN N
          /\ \A m \in DOMAIN N \ {n} :
               C[m] = [key  |-> N[m].key, elem |-> N[m].elem,
                       next |-> IF m = p THEN x ELSE N[m].next, prev |-> N[m].prev]
      BY <1>1, <1>4, <1>6, <1>12 DEF NextSet
    <3>. HIDE DEF C
    <3>2. Q = PrevSet(C, x, p)
      BY DEF C
    <3>. HIDE DEF Q, p, x
    <3>3. ASSUME NEW m \in DOMAIN N \ {n}
          PROVE  Q[m] = [key  |-> N[m].key, elem |-> N[m].elem,
                         next |-> IF m = p THEN x ELSE N[m].next,
                         prev |-> IF m = x THEN p ELSE N[m].prev]
      <4>1. /\ m \in DOMAIN C
            /\ C[m] = [key  |-> N[m].key, elem |-> N[m].elem,
                       next |-> IF m = p THEN x ELSE N[m].next, prev |-> N[m].prev]
        BY <3>1
      <4>2. CASE m = x
        <5>1. Q[m] = [C[m] EXCEPT !.prev = p]
          BY <3>2, <4>1, <4>2 DEF PrevSet
        <5>. QED
          BY <4>1, <4>2, <5>1
      <4>3. CASE m # x
        <5>1. Q[m] = C[m]
          BY <3>2, <4>1, <4>3 DEF PrevSet
        <5>. QED
          BY <4>1, <4>3, <5>1
      <4>. QED
        BY <4>2, <4>3
    <3>. QED
      BY <3>3
  <2>. HIDE DEF Q
  <2>. QED
    BY <1>8, <2>1, <2>2, <2>3, <2>4
<1>. QED
  BY <1>9, <1>10, <1>11, <1>12

(* pop_back's node has no reference left, and its removal is complete too.   *)
LEMMA PoppedIsRemoved ==
  ASSUME NEW c, IsList(c), c.tail \in DOMAIN c.nodes
  PROVE  /\ c.tail \notin Referenced(Popped(c))
         /\ Dropped(Popped(c), c.tail) = Removed(c, c.tail)
<1>. DEFINE n == c.tail
            p == c.nodes[n].prev
            x == c.nodes[n].next
            k == c.nodes[n].key
            d == Removed(c, n)
            N == c.nodes
            cut == PrevSet(N, n, Nil)
            u == [Unmapped(c, k) EXCEPT !.nodes[n].prev = Nil]
<1>1. /\ n \in Addresses /\ n # Nil /\ Nil \notin DOMAIN N
      /\ p \in DOMAIN N \cup {Nil} /\ p # n
      /\ N \in [DOMAIN N -> Node]
  BY NodeTypes, NilIsNoAddress DEF IsList, IsCache
<1>2. x = Nil
  BY <1>1 DEF IsList, Ended
<1>3. u = Cell(c.head, c.tail, d.size, d.map, cut)
  <2>1. Unmapped(c, k) = Cell(c.head, c.tail, c.size - 1, Restrict(c.map, DOMAIN c.map \ {k}), N)
    BY CellOf, UnmapCell DEF IsList
  <2>2. Restrict(c.map, DOMAIN c.map \ {k}) = d.map /\ d.size = c.size - 1
    BY DEF Restrict, Removed
  <2>3. PICK c1 : c1 = Unmapped(c, k)
    OBVIOUS
  <2>4. c1 = Cell(c.head, c.tail, d.size, d.map, N)
    BY <2>1, <2>2, <2>3
  <2>5. SetPrev(c1, n, Nil) = Cell(c.head, c.tail, d.size, d.map, cut)
    <3>. HIDE DEF d, N
    <3>. QED
      BY <2>4, PrevCell
  <2>. QED
    BY <2>3, <2>5 DEF SetPrev
<1>4. /\ DOMAIN cut = DOMAIN N
      /\ cut[n].next = Nil /\ cut[n].prev = Nil
      /\ \A m \in DOMAIN N \ {n} : cut[m] = N[m]
  BY <1>1, <1>2 DEF Node, Link, PrevSet
<1>5. \A m \in DOMAIN N \ {n} :
        Relinked(c, n)[m] = [key  |-> N[m].key, elem |-> N[m].elem,
                             next |-> IF m = p THEN Nil ELSE N[m].next, prev |-> N[m].prev]
  BY <1>1, <1>2 DEF Relinked
<1>6. \A m \in DOMAIN N \ {n} :
        N[m] = [key |-> N[m].key, elem |-> N[m].elem, next |-> N[m].next, prev |-> N[m].prev]
  BY <1>1 DEF Node
<1>7. d.head = (IF p = Nil THEN Nil ELSE c.head) /\ d.tail = p
  BY <1>2 DEF Removed
<1>8. CASE p = Nil
  <2>1. Popped(c) = [u EXCEPT !.head = Nil, !.tail = Nil]
    BY <1>8 DEF Popped
  <2>2. Popped(c) = Cell(d.head, d.tail, d.size, d.map, cut)
    <3>1. d.head = Nil /\ d.tail = Nil
      BY <1>7, <1>8
    <3>. HIDE DEF u, d, cut
    <3>2. SetEnds(u, Nil, Nil) = Cell(Nil, Nil, d.size, d.map, cut)
      BY <1>3, EndsCell
    <3>. QED
      BY <2>1, <3>1, <3>2 DEF SetEnds
  <2>3. \A m \in DOMAIN N \ {n} : cut[m] = Relinked(c, n)[m]
    BY <1>1, <1>4, <1>5, <1>6, <1>8
  <2>. HIDE DEF cut
  <2>. QED
    BY <1>4, <2>2, <2>3, DropCell
<1>9. CASE p # Nil
  <2>. DEFINE Q == NextSet(cut, p, Nil)
  <2>1. Popped(c) = [u EXCEPT !.nodes[p].next = Nil, !.tail = p]
    BY <1>9 DEF Popped
  <2>2. Popped(c) = Cell(d.head, d.tail, d.size, d.map, Q)
    <3>1. d.head = c.head /\ d.tail = p
      BY <1>7, <1>9
    <3>. HIDE DEF u, d, cut, p
    <3>2. SetNextTail(u, p, Nil, p) = Cell(c.head, p, d.size, d.map, Q)
      BY <1>3, LinkEndCell
    <3>. QED
      BY <2>1, <3>1, <3>2 DEF SetNextTail
  <2>3. DOMAIN Q = DOMAIN N /\ Q[n].next = Nil /\ Q[n].prev = Nil
    BY <1>1, <1>4 DEF NextSet
  <2>4. \A m \in DOMAIN N \ {n} : Q[m] = Relinked(c, n)[m]
    <3>1. ASSUME NEW m \in DOMAIN N \ {n}
          PROVE  Q[m] = [key  |-> N[m].key, elem |-> N[m].elem,
                         next |-> IF m = p THEN Nil ELSE N[m].next, prev |-> N[m].prev]
      <4>1. m \in DOMAIN cut /\ cut[m] = N[m]
        BY <1>4
      <4>2. N[m] = [key |-> N[m].key, elem |-> N[m].elem, next |-> N[m].next, prev |-> N[m].prev]
        BY <1>6
      <4>3. CASE m = p
        <5>. HIDE DEF cut, p
        <5>1. Q[m] = [cut[m] EXCEPT !.next = Nil]
          BY <4>1, <4>3 DEF NextSet
        <5>2. [N[m] EXCEPT !.next = Nil]
                = [key |-> N[m].key, elem |-> N[m].elem, next |-> Nil, prev |-> N[m].prev]
          BY <4>2
        <5>. QED
          BY <4>1, <4>3, <5>1, <5>2
      <4>4. CASE m # p
        <5>. HIDE DEF cut, p
        <5>1. Q[m] = cut[m]
          BY <4>1, <4>4 DEF NextSet
        <5>. QED
          BY <4>1, <4>2, <4>4, <5>1
      <4>. QED
        BY <4>3, <4>4
    <3>. QED
      BY <1>5, <3>1
  <2>. HIDE DEF Q
  <2>. QED
    BY <2>2, <2>3, <2>4, DropCell
<1>. QED
  BY <1>8, <1>9

-----------------------------------------------------------------------------
(* Putting an entry in front.                                                *)
LEMMA PushedIsList ==
  ASSUME NEW c, IsList(c), NEW n \in Addresses \ DOMAIN c.nodes,
         NEW k \in Keys \ DOMAIN c.map, NEW v \in Vals
  PROVE  IsList(Pushed(c, n, k, v)) /\ Pushed(c, n, k, v).size = c.size + 1
<1>. DEFINE d == Pushed(c, n, k, v)
            N == c.nodes
            h == c.head
<1>1. /\ n # Nil /\ Nil \notin DOMAIN N /\ N \in [DOMAIN N -> Node]
      /\ h \in DOMAIN N \cup {Nil}
  BY NilIsNoAddress DEF IsList, IsCache, Ended
<1>2. /\ d.head = n /\ d.tail = (IF h = Nil THEN n ELSE c.tail) /\ d.size = c.size + 1
      /\ d.map = [j \in DOMAIN c.map \cup {k} |-> IF j = k THEN n ELSE c.map[j]]
      /\ DOMAIN d.nodes = DOMAIN N \cup {n}
      /\ d.nodes[n] = [key |-> k, elem |-> v, next |-> h, prev |-> Nil]
      /\ \A m \in DOMAIN N :
           d.nodes[m] = IF m = h THEN [N[m] EXCEPT !.prev = n] ELSE N[m]
  BY <1>1 DEF Pushed
<1>3. ASSUME NEW m \in DOMAIN N
      PROVE  /\ d.nodes[m] \in Node
             /\ d.nodes[m].key = N[m].key /\ d.nodes[m].next = N[m].next
             /\ d.nodes[m].prev = IF m = h THEN n ELSE N[m].prev
  <2>1. N[m] \in Node /\ n \in Link
    BY <1>1 DEF Link
  <2>2. /\ [N[m] EXCEPT !.prev = n] \in Node
        /\ [N[m] EXCEPT !.prev = n].key = N[m].key
        /\ [N[m] EXCEPT !.prev = n].next = N[m].next
        /\ [N[m] EXCEPT !.prev = n].prev = n
    BY <2>1 DEF Node
  <2>3. d.nodes[m] = IF m = h THEN [N[m] EXCEPT !.prev = n] ELSE N[m]
    BY <1>2
  <2>. HIDE DEF d
  <2>. QED
    BY <2>1, <2>2, <2>3
<1>4. IsCache(d)
  <2>1. d.nodes[n] \in Node
    BY <1>1, <1>2 DEF Node, Link, IsList, IsCache
  <2>2. d.nodes = [m \in DOMAIN d.nodes |-> d.nodes[m]]
    BY DEF Pushed
  <2>3. d.nodes \in [DOMAIN d.nodes -> Node] /\ DOMAIN d.nodes \subseteq Addresses
    <3>1. \A m \in DOMAIN d.nodes : d.nodes[m] \in Node
      BY <1>2, <1>3, <2>1
    <3>2. DOMAIN d.nodes \subseteq Addresses
      BY <1>2 DEF IsList, IsCache
    <3>. HIDE DEF d
    <3>. QED
      BY <2>2, <3>1, <3>2
  <2>4. DOMAIN d.map \subseteq Keys /\ d.map \in [DOMAIN d.map -> Addresses]
    BY <1>2 DEF IsList, IsCache
  <2>5. d.head \in Link /\ d.tail \in Link /\ d.size \in Nat
    BY <1>2 DEF IsList, IsCache, Link
  <2>6. d = [head |-> d.head, tail |-> d.tail, size |-> d.size, map |-> d.map, nodes |-> d.nodes]
    BY DEF Pushed
  <2>. QED
    BY <2>3, <2>4, <2>5, <2>6 DEF IsCache
<1>5. /\ h = Nil => \A m \in DOMAIN N : N[m].prev # Nil /\ N[m].next # Nil
      /\ h # Nil => N[h].prev = Nil
      /\ h = Nil <=> c.tail = Nil
      /\ h # Nil => c.tail \in DOMAIN N /\ N[c.tail].next = Nil
  BY <1>1 DEF IsList, Linked, Ended
<1>6. Linked(d)
  <2>1. ASSUME NEW m \in DOMAIN d.nodes
        PROVE  IF d.nodes[m].next = Nil THEN d.tail = m
               ELSE d.nodes[m].next \in DOMAIN d.nodes /\ d.nodes[d.nodes[m].next].prev = m
    <3>1. CASE m = n
      BY <1>1, <1>2, <1>3, <3>1
    <3>2. CASE m # n
      <4>1. m \in DOMAIN N /\ d.nodes[m].next = N[m].next
        BY <1>2, <1>3, <3>2
      <4>2. CASE N[m].next = Nil
        BY <1>2, <1>5, <4>1, <4>2 DEF IsList, Linked
      <4>3. CASE N[m].next # Nil
        <5>1. N[m].next \in DOMAIN N /\ N[N[m].next].prev = m
          BY <4>1, <4>3 DEF IsList, Linked
        <5>2. N[m].next # h
          BY <1>1, <1>5, <4>1, <5>1
        <5>. QED
          BY <1>2, <1>3, <4>1, <4>3, <5>1, <5>2
      <4>. QED
        BY <4>2, <4>3
    <3>. QED
      BY <3>1, <3>2
  <2>2. ASSUME NEW m \in DOMAIN d.nodes
        PROVE  IF d.nodes[m].prev = Nil THEN d.head = m
               ELSE d.nodes[m].prev \in DOMAIN d.nodes /\ d.nodes[d.nodes[m].prev].next = m
    <3>1. CASE m = n
      BY <1>2, <3>1
    <3>2. CASE m # n /\ m = h
      BY <1>1, <1>2, <1>3, <3>2
    <3>3. CASE m # n /\ m # h
      <4>1. m \in DOMAIN N /\ d.nodes[m].prev = N[m].prev
        BY <1>2, <1>3, <3>3
      <4>2. N[m].prev \in DOMAIN N /\ N[N[m].prev].next = m
        BY <3>3, <4>1 DEF IsList, Linked
      <4>. QED
        BY <1>1, <1>2, <1>3, <4>1, <4>2
    <3>. QED
      BY <3>1, <3>2, <3>3
  <2>3. ASSUME NEW j \in DOMAIN d.map PROVE d.nodes[d.map[j]].key = j
    <3>1. CASE j = k
      BY <1>2, <3>1
    <3>2. CASE j # k
      BY <1>2, <1>3, <3>2, NodeOfKey
    <3>. QED
      BY <3>1, <3>2
  <2>. HIDE DEF d
  <2>. QED
    BY <2>1, <2>2, <2>3 DEF Linked
<1>7. Mapped(d)
  <2>1. Range(d.map) = DOMAIN d.nodes
    <3>1. \A j \in DOMAIN d.map : d.map[j] \in DOMAIN d.nodes
      BY <1>2, NodeOfKey
    <3>2. \A m \in DOMAIN N : N[m].key \in DOMAIN c.map /\ c.map[N[m].key] = m
      BY KeyOfNode
    <3>3. \A m \in DOMAIN d.nodes : \E j \in DOMAIN d.map : d.map[j] = m
      BY <1>2, <3>2
    <3>. HIDE DEF d
    <3>. QED
      BY <3>1, <3>3 DEF Range
  <2>2. IsFiniteSet(DOMAIN N)
    BY NilIsNoAddress, FS_Subset DEF IsList, IsCache
  <2>3. Cardinality(DOMAIN N \cup {n}) = Cardinality(DOMAIN N) + 1
    BY <2>2, FS_AddElement
  <2>4. Cardinality(DOMAIN d.nodes) = d.size
    BY <1>2, <2>3 DEF IsList, Mapped
  <2>. QED
    BY <2>1, <2>4 DEF Mapped
<1>8. Ended(d)
  <2>1. d.tail \in DOMAIN d.nodes /\ d.nodes[d.tail].next = Nil /\ d.tail # Nil
    BY <1>1, <1>2, <1>3, <1>5
  <2>2. d.head \in DOMAIN d.nodes /\ d.nodes[d.head].prev = Nil /\ d.head # Nil
    BY <1>1, <1>2
  <2>. QED
    BY <2>1, <2>2 DEF Ended
<1>9. Acyclic(d)
  <2>1. PICK rank \in [Addresses -> Nat] : Descends(c, rank)
    BY DEF IsList, Acyclic
  <2>. DEFINE r == [rank EXCEPT ![n] = IF h = Nil THEN 0 ELSE rank[h] + 1]
  <2>2. h # Nil => h \in Addresses /\ h # n
    BY <1>1 DEF IsList, IsCache
  <2>3. r \in [Addresses -> Nat]
    BY <2>1, <2>2
  <2>4. ASSUME NEW m \in DOMAIN d.nodes, d.nodes[m].next # Nil
        PROVE  r[d.nodes[m].next] < r[m]
    <3>1. CASE m = n
      <4>1. d.nodes[m].next = h /\ h # Nil
        BY <1>2, <2>4, <3>1
      <4>2. r[m] = rank[h] + 1 /\ r[h] = rank[h] /\ rank[h] \in Nat
        BY <2>1, <2>2, <3>1, <4>1
      <4>. QED
        BY <4>1, <4>2
    <3>2. CASE m # n
      <4>1. m \in DOMAIN N /\ d.nodes[m].next = N[m].next /\ m \in Addresses
        BY <1>2, <1>3, <3>2 DEF IsList, IsCache
      <4>2. N[m].next \in DOMAIN N
        BY <2>4, <4>1 DEF IsList, Linked
      <4>3. rank[N[m].next] < rank[m]
        BY <2>1, <2>4, <4>1 DEF Descends
      <4>4. r[m] = rank[m] /\ r[N[m].next] = rank[N[m].next]
        BY <3>2, <4>1, <4>2 DEF IsList, IsCache
      <4>. QED
        BY <4>1, <4>3, <4>4
    <3>. QED
      BY <3>1, <3>2
  <2>. HIDE DEF r, d
  <2>. QED
    BY <2>3, <2>4 DEF Acyclic, Descends
<1>. QED
  BY <1>2, <1>4, <1>6, <1>7, <1>8, <1>9 DEF IsList

-----------------------------------------------------------------------------
(* The invariant.                                                            *)
LEMMA InitIInv == Init => IInv
<1>. SUFFICES ASSUME Init PROVE IInv
  OBVIOUS
<1>1. /\ cache.head = Nil /\ cache.tail = Nil /\ cache.size = 0
      /\ cache.map = <<>> /\ cache.nodes = <<>> /\ status = "running"
  BY DEF Init
<1>2. DOMAIN cache.map = {} /\ DOMAIN cache.nodes = {}
  BY <1>1
<1>3. IsCache(cache)
  <2>1. cache = [head |-> cache.head, tail |-> cache.tail, size |-> cache.size,
                 map |-> cache.map, nodes |-> cache.nodes]
    BY DEF Init
  <2>2. cache.map \in [DOMAIN cache.map -> Addresses] /\ cache.nodes \in [DOMAIN cache.nodes -> Node]
    BY <1>1
  <2>. QED
    BY <1>1, <1>2, <2>1, <2>2 DEF IsCache, Link
<1>4. Linked(cache)
  BY <1>2 DEF Linked
<1>5. Mapped(cache)
  BY <1>1, <1>2, FS_EmptySet DEF Mapped, Range
<1>6. Ended(cache)
  BY <1>1 DEF Ended
<1>7. Acyclic(cache)
  <2>1. [a \in Addresses |-> 0] \in [Addresses -> Nat]
    OBVIOUS
  <2>. QED
    BY <1>2, <2>1 DEF Acyclic, Descends
<1>. QED
  BY <1>1, <1>3, <1>4, <1>5, <1>6, <1>7, LRUCacheAssumption DEF IInv, IsList

LEMMA PushStep ==
  ASSUME NEW c, IsList(c), c.size < Capacity,
         NEW k \in Keys \ DOMAIN c.map, NEW v \in Vals,
         PushFront(c, k, v)
  PROVE  IsList(cache') /\ cache'.size <= Capacity
<1>1. PICK n \in Addresses \ DOMAIN c.nodes : cache' = Pushed(c, n, k, v)
  BY DEF PushFront
<1>2. IsList(Pushed(c, n, k, v)) /\ Pushed(c, n, k, v).size = c.size + 1
  BY PushedIsList
<1>3. c.size \in Nat /\ Capacity \in Nat
  BY LRUCacheAssumption DEF IsList, IsCache
<1>. QED
  BY <1>1, <1>2, <1>3

(* Taking an entry out makes room for one in front.                          *)
LEMMA RemovedSmaller ==
  ASSUME IInv, NEW n \in DOMAIN cache.nodes
  PROVE  /\ IsList(Removed(cache, n))
         /\ Removed(cache, n).size < Capacity
         /\ DOMAIN Removed(cache, n).map = DOMAIN cache.map \ {cache.nodes[n].key}
<1>1. IsList(cache) /\ cache.size <= Capacity
  BY DEF IInv
<1>2. cache.size \in Nat \ {0} /\ Capacity \in Nat
  BY <1>1, RemovedIsCache, LRUCacheAssumption
<1>3. Removed(cache, n).size = cache.size - 1
  BY DEF Removed
<1>4. DOMAIN Removed(cache, n).map = DOMAIN cache.map \ {cache.nodes[n].key}
  BY DEF Removed
<1>. QED
  BY <1>1, <1>2, <1>3, <1>4, RemovedIsList

LEMMA MoveStep ==
  ASSUME IInv, NEW k \in DOMAIN cache.map, NEW v \in Vals,
         PushFront(Deleted(cache, cache.map[k]), k, v)
  PROVE  IsList(cache') /\ cache'.size <= Capacity
<1>. DEFINE n == cache.map[k]
<1>1. IsList(cache) /\ k \in Keys
  BY DEF IInv, IsList, IsCache
<1>2. n \in DOMAIN cache.nodes /\ cache.nodes[n].key = k
  BY <1>1, NodeOfKey
<1>3. Deleted(cache, n) = Removed(cache, n)
  BY <1>1, <1>2, DeletedIsRemoved
<1>4. PICK c : c = Removed(cache, n)
  OBVIOUS
<1>5. IsList(c) /\ c.size < Capacity /\ k \in Keys \ DOMAIN c.map
  BY <1>1, <1>2, <1>4, RemovedSmaller
<1>6. PushFront(c, k, v)
  BY <1>3, <1>4
<1>. QED
  BY <1>5, <1>6, PushStep

LEMMA GetStep ==
  ASSUME IInv, NEW k \in Keys, Get(k)
  PROVE  IInv'
<1>1. status' = "running"
  BY DEF IInv, Get
<1>2. CASE k \in DOMAIN cache.map
  <2>1. cache.map[k] \in DOMAIN cache.nodes
    BY <1>2, NodeOfKey DEF IInv
  <2>2. cache.nodes[cache.map[k]].elem \in Vals
    BY <2>1, NodeTypes DEF IInv, Node
  <2>3. PushFront(Deleted(cache, cache.map[k]), k, cache.nodes[cache.map[k]].elem)
    BY <1>2 DEF Get
  <2>. QED
    BY <1>1, <1>2, <2>2, <2>3, MoveStep DEF IInv
<1>3. CASE k \notin DOMAIN cache.map
  BY <1>1, <1>3 DEF Get, IInv
<1>. QED
  BY <1>2, <1>3

LEMMA PutUpdateStep ==
  ASSUME IInv, NEW k \in Keys, NEW v \in Vals, PutUpdate(k, v)
  PROVE  IInv'
<1>1. /\ status' = "running" /\ k \in DOMAIN cache.map
      /\ PushFront(Deleted(cache, cache.map[k]), k, v)
  BY DEF IInv, PutUpdate
<1>. QED
  BY <1>1, MoveStep DEF IInv

(* A full cache has a last node, and taking it out never aborts.             *)
LEMMA PutNewStep ==
  ASSUME IInv, NEW k \in Keys, NEW v \in Vals, PutNew(k, v)
  PROVE  IInv'
<1>1. /\ status = "running" /\ k \in Keys \ DOMAIN cache.map
      /\ IsList(cache) /\ cache.size <= Capacity
      /\ cache.size \in Nat /\ Capacity \in Nat \ {0}
  BY LRUCacheAssumption DEF IInv, PutNew, IsList, IsCache
<1>2. CASE cache.size = Capacity
  <2>. DEFINE t == cache.tail
  <2>1. DOMAIN cache.nodes # {}
    BY <1>1, <1>2, FS_EmptySet DEF IsList, Mapped
  <2>2. t \in DOMAIN cache.nodes
    BY <1>1, <2>1, TailExists
  <2>3. t \notin Referenced(Popped(cache)) /\ Dropped(Popped(cache), t) = Removed(cache, t)
    BY <1>1, <2>2, PoppedIsRemoved
  <2>4. PICK c : c = Removed(cache, t)
    OBVIOUS
  <2>5. PushFront(c, k, v) /\ status' = status
    BY <1>2, <2>3, <2>4 DEF PutNew
  <2>6. IsList(c) /\ c.size < Capacity /\ k \in Keys \ DOMAIN c.map
    BY <1>1, <2>2, <2>4, RemovedSmaller
  <2>. QED
    BY <1>1, <2>5, <2>6, PushStep DEF IInv
<1>3. CASE cache.size # Capacity
  <2>1. PushFront(cache, k, v) /\ status' = status
    BY <1>3 DEF PutNew
  <2>2. cache.size < Capacity
    BY <1>1, <1>3
  <2>. QED
    BY <1>1, <2>1, <2>2, PushStep DEF IInv
<1>. QED
  BY <1>2, <1>3

LEMMA RemoveStep ==
  ASSUME IInv, NEW k \in Keys, Remove(k)
  PROVE  IInv'
<1>. DEFINE n == cache.map[k]
<1>1. k \in DOMAIN cache.map /\ cache' = Deleted(cache, n) /\ status' = "running"
  BY DEF IInv, Remove
<1>2. n \in DOMAIN cache.nodes
  BY <1>1, NodeOfKey DEF IInv
<1>3. cache' = Removed(cache, n)
  BY <1>1, <1>2, DeletedIsRemoved DEF IInv
<1>4. PICK c : c = Removed(cache, n)
  OBVIOUS
<1>5. IsList(c) /\ c.size < Capacity /\ c.size \in Nat /\ Capacity \in Nat
  BY <1>2, <1>4, RemovedSmaller, LRUCacheAssumption DEF IsList, IsCache
<1>. QED
  BY <1>1, <1>3, <1>4, <1>5 DEF IInv

LEMMA IInvHolds == Spec => []IInv
<1>1. Init => IInv
  BY InitIInv
<1>2. IInv /\ [Next]_vars => IInv'
  <2>. SUFFICES ASSUME IInv, [Next]_vars PROVE IInv'
    OBVIOUS
  <2>1. ASSUME NEW k \in Keys, Get(k) PROVE IInv'
    BY <2>1, GetStep
  <2>2. ASSUME NEW k \in Keys, Remove(k) PROVE IInv'
    BY <2>2, RemoveStep
  <2>3. ASSUME NEW k \in Keys, NEW v \in Vals, PutUpdate(k, v) PROVE IInv'
    BY <2>3, PutUpdateStep
  <2>4. ASSUME NEW k \in Keys, NEW v \in Vals, PutNew(k, v) PROVE IInv'
    BY <2>4, PutNewStep
  <2>5. CASE UNCHANGED vars
    BY <2>5 DEF vars, IInv
  <2>. QED
    BY <2>1, <2>2, <2>3, <2>4, <2>5 DEF Next
<1>. QED
  BY <1>1, <1>2, PTL DEF Spec

-----------------------------------------------------------------------------
(* The two directions of the cache's list, its two ends and its map are one  *)
(* list after every get, put and remove of lru_cache.rs, whatever the        *)
(* capacity.                                                                 *)
THEOREM ListStaysLinked == Spec => []WellLinked
<1>1. IInv => WellLinked
  BY DEF IInv, IsList, Linked, WellLinked
<1>. QED
  BY <1>1, IInvHolds, PTL

(* No cycle of counted references keeps a node that left the cache, the      *)
(* capacity is never exceeded, and pop_back never aborts on a node that is   *)
(* still referred to.                                                        *)
THEOREM NoNodeLeaks == Spec => []NothingLeaks
<1>1. IInv => NothingLeaks
  BY DEF IInv, IsList, Mapped, NothingLeaks
<1>. QED
  BY <1>1, IInvHolds, PTL

-----------------------------------------------------------------------------
(* The nodes in the order of the list.                                       *)
IsOrder(c, w) ==
  /\ IsWalk(c, w)
  /\ \A i, j \in 1 .. c.size : w[i] = w[j] => i = j
  /\ \A n \in DOMAIN c.nodes : \E i \in 1 .. c.size : w[i] = n

OrderOf(c) == Entries(c, CHOOSE w \in [1 .. c.size -> DOMAIN c.nodes] : IsWalk(c, w))

LEMMA OrderState == Order = OrderOf(cache) /\ Order' = OrderOf(cache')
BY DEF Order, OrderOf

LEMMA WalkUnique ==
  ASSUME NEW c, c.size \in Nat, NEW w, NEW v, IsWalk(c, w), IsWalk(c, v)
  PROVE  w = v
<1>. DEFINE S == {i \in 1 .. c.size : w[i] # v[i]}
<1>1. S = {}
  <2>. SUFFICES ASSUME S # {} PROVE FALSE
    OBVIOUS
  <2>1. S \subseteq Nat
    OBVIOUS
  <2>2. PICK r \in S : \A s \in S : ~(<<s, r>> \in OpToRel(<, Nat))
    BY <2>1, NatLessThanWellFounded, WFMin
  <2>3. \A s \in S : ~(s < r)
    BY <2>1, <2>2, Zenon DEF OpToRel
  <2>. r \in 1 .. c.size /\ w[r] # v[r]
    OBVIOUS
  <2>. HIDE DEF S
  <2>4. CASE r = 1
    <3>1. c.size > 0
      BY <2>4
    <3>. QED
      BY <2>4, <3>1 DEF IsWalk
  <2>5. CASE r # 1
    <3>1. r - 1 \in 1 .. c.size - 1 /\ r - 1 \in 1 .. c.size /\ (r - 1) + 1 = r /\ r - 1 < r
      BY <2>5
    <3>2. w[r - 1] = v[r - 1]
      BY <2>3, <3>1 DEF S
    <3>3. w[r] = c.nodes[w[r - 1]].next /\ v[r] = c.nodes[v[r - 1]].next
      BY <3>1 DEF IsWalk
    <3>. QED
      BY <3>2, <3>3
  <2>. QED
    BY <2>4, <2>5
<1>. QED
  BY <1>1 DEF IsWalk

LEMMA OrderIs ==
  ASSUME NEW c, c.size \in Nat, NEW w, IsWalk(c, w)
  PROVE  OrderOf(c) = Entries(c, w)
<1>1. w \in [1 .. c.size -> DOMAIN c.nodes]
  BY DEF IsWalk
<1>2. PICK v : v = CHOOSE u \in [1 .. c.size -> DOMAIN c.nodes] : IsWalk(c, u)
  OBVIOUS
<1>3. IsWalk(c, v)
  BY <1>1, <1>2
<1>4. v = w
  BY <1>3, WalkUnique
<1>. QED
  BY <1>2, <1>4 DEF OrderOf

LEMMA WithoutIs ==
  ASSUME NEW S, NEW s \in Seq(S), NEW i \in 1 .. Len(s)
  PROVE  RM!Without(s, i) = [j \in 1 .. Len(s) - 1 |-> IF j < i THEN s[j] ELSE s[j + 1]]
<1>. DEFINE n == Len(s)
            a == SubSeq(s, 1, i - 1)
            b == SubSeq(s, i + 1, n)
<1>1. n \in Nat /\ i \in Int /\ \A j \in 1 .. n : s[j] \in S
  OBVIOUS
<1>2. /\ a \in Seq(S) /\ Len(a) = i - 1
      /\ \A j \in 1 .. i - 1 : a[j] = s[j]
  <2>1. /\ a \in Seq(S) /\ Len(a) = IF 1 <= i - 1 THEN (i - 1) - 1 + 1 ELSE 0
        /\ \A j \in 1 .. (i - 1) - 1 + 1 : a[j] = s[1 + j - 1]
    BY <1>1, SubSeqProperties
  <2>. HIDE DEF a
  <2>. QED
    BY <1>1, <2>1
<1>3. /\ b \in Seq(S) /\ Len(b) = n - i
      /\ \A j \in 1 .. n - i : b[j] = s[i + j]
  <2>1. /\ b \in Seq(S) /\ Len(b) = IF i + 1 <= n THEN n - (i + 1) + 1 ELSE 0
        /\ \A j \in 1 .. n - (i + 1) + 1 : b[j] = s[(i + 1) + j - 1]
    BY <1>1, SubSeqProperties
  <2>. HIDE DEF b
  <2>. QED
    BY <1>1, <2>1
<1>4. /\ a \o b \in Seq(S) /\ Len(a \o b) = n - 1
      /\ \A j \in 1 .. n - 1 : (a \o b)[j] = IF j < i THEN s[j] ELSE s[j + 1]
  <2>. HIDE DEF a, b
  <2>1. /\ a \o b \in Seq(S) /\ Len(a \o b) = Len(a) + Len(b)
        /\ \A j \in 1 .. Len(a) + Len(b) : (a \o b)[j] = IF j <= Len(a) THEN a[j] ELSE b[j - Len(a)]
    BY <1>2, <1>3, ConcatProperties
  <2>2. ASSUME NEW j \in 1 .. n - 1 PROVE (a \o b)[j] = IF j < i THEN s[j] ELSE s[j + 1]
    <3>1. CASE j < i
      BY <1>1, <1>2, <1>3, <2>1, <3>1
    <3>2. CASE ~(j < i)
      <4>1. j - (i - 1) \in 1 .. n - i /\ i + (j - (i - 1)) = j + 1 /\ ~(j <= i - 1)
        BY <1>1, <3>2
      <4>2. (a \o b)[j] = b[j - (i - 1)]
        BY <1>1, <1>2, <1>3, <2>1, <4>1
      <4>. QED
        BY <1>3, <3>2, <4>1, <4>2
    <3>. QED
      BY <3>1, <3>2
  <2>. QED
    BY <1>1, <1>2, <1>3, <2>1, <2>2
<1>5. RM!Without(s, i) = a \o b
  BY DEF RM!Without
<1>6. a \o b = [j \in 1 .. n - 1 |-> (a \o b)[j]]
  <2>1. PICK z : z = a \o b
    OBVIOUS
  <2>2. z \in Seq(S) /\ Len(z) = n - 1
    BY <1>4, <2>1
  <2>3. z = [j \in 1 .. n - 1 |-> z[j]]
    BY <2>2
  <2>. QED
    BY <2>1, <2>3
<1>. HIDE DEF a, b
<1>. QED
  BY <1>4, <1>5, <1>6

Entry == [key : Keys, elem : Vals]

LEMMA EntriesSeq ==
  ASSUME NEW c, IsList(c), NEW w, IsWalk(c, w)
  PROVE  /\ Entries(c, w) \in Seq(Entry)
         /\ Len(Entries(c, w)) = c.size /\ c.size \in Nat
         /\ \A i \in 1 .. c.size :
              Entries(c, w)[i] = [key |-> c.nodes[w[i]].key, elem |-> c.nodes[w[i]].elem]
<1>1. c.size \in Nat
  BY DEF IsList, IsCache
<1>2. \A i \in 1 .. c.size : w[i] \in DOMAIN c.nodes
  BY DEF IsWalk
<1>3. ASSUME NEW i \in 1 .. c.size
      PROVE  [key |-> c.nodes[w[i]].key, elem |-> c.nodes[w[i]].elem] \in Entry
  <2>1. c.nodes[w[i]].key \in Keys /\ c.nodes[w[i]].elem \in Vals
    BY <1>2, NodeTypes DEF Node
  <2>. QED
    BY <2>1 DEF Entry
<1>. DEFINE E == Entries(c, w)
<1>4. /\ DOMAIN E = 1 .. c.size
      /\ E = [i \in 1 .. c.size |-> E[i]]
      /\ \A i \in 1 .. c.size : E[i] = [key |-> c.nodes[w[i]].key, elem |-> c.nodes[w[i]].elem]
  BY DEF Entries
<1>. HIDE DEF E
<1>5. E \in [1 .. c.size -> Entry]
  BY <1>3, <1>4
<1>6. E \in Seq(Entry)
  BY <1>1, <1>5, SeqDef, Zenon
<1>7. Len(E) = c.size
  <2>1. Len(E) \in Nat /\ DOMAIN E = 1 .. Len(E)
    BY <1>6, LenProperties
  <2>. QED
    BY <1>1, <1>4, <2>1
<1>. QED
  BY <1>1, <1>4, <1>6, <1>7 DEF E

(* The node at each place is linked to those before and after it.            *)
LEMMA OrderLinks ==
  ASSUME NEW c, IsList(c), NEW w, IsOrder(c, w), NEW i \in 1 .. c.size
  PROVE  /\ c.size \in Nat
         /\ w[i] \in DOMAIN c.nodes
         /\ c.nodes[w[i]].next = IF i = c.size THEN Nil ELSE w[i + 1]
         /\ c.nodes[w[i]].prev = IF i = 1 THEN Nil ELSE w[i - 1]
         /\ w[1] = c.head /\ w[c.size] = c.tail
<1>1. /\ c.size \in Nat
      /\ \A j \in 1 .. c.size : w[j] \in DOMAIN c.nodes
      /\ \A j \in 1 .. c.size - 1 : c.nodes[w[j]].next = w[j + 1] /\ w[j + 1] \in DOMAIN c.nodes
      /\ w[1] = c.head
  BY DEF IsList, IsCache, IsOrder, IsWalk
<1>2. Nil \notin DOMAIN c.nodes
  BY NilIsNoAddress DEF IsList, IsCache
<1>3. w[c.size] = c.tail
  <2>1. c.tail \in DOMAIN c.nodes /\ c.nodes[c.tail].next = Nil
    BY <1>1, TailExists, <1>2 DEF IsList, Ended
  <2>2. PICK j \in 1 .. c.size : w[j] = c.tail
    BY <2>1 DEF IsOrder
  <2>3. j = c.size
    <3>. SUFFICES ASSUME j # c.size PROVE FALSE
      OBVIOUS
    <3>1. j \in 1 .. c.size - 1
      BY <1>1
    <3>. QED
      BY <1>1, <1>2, <2>1, <2>2, <3>1
  <2>. QED
    BY <2>2, <2>3
<1>4. c.nodes[w[i]].next = IF i = c.size THEN Nil ELSE w[i + 1]
  <2>1. CASE i = c.size
    BY <1>1, <1>2, <1>3, <2>1 DEF IsList, Ended
  <2>2. CASE i # c.size
    <3>1. i \in 1 .. c.size - 1
      BY <1>1, <2>2
    <3>. QED
      BY <1>1, <2>2, <3>1
  <2>. QED
    BY <2>1, <2>2
<1>5. c.nodes[w[i]].prev = IF i = 1 THEN Nil ELSE w[i - 1]
  <2>1. CASE i = 1
    BY <1>1, <1>2, <2>1 DEF IsList, Ended
  <2>2. CASE i # 1
    <3>1. i - 1 \in 1 .. c.size - 1 /\ i - 1 \in 1 .. c.size /\ (i - 1) + 1 = i
      BY <1>1, <2>2
    <3>2. c.nodes[w[i - 1]].next = w[i] /\ w[i] # Nil /\ w[i - 1] \in DOMAIN c.nodes
      BY <1>1, <1>2, <3>1
    <3>3. c.nodes[w[i]].prev = w[i - 1]
      BY <3>2 DEF IsList, Linked
    <3>. QED
      BY <2>2, <3>3
  <2>. QED
    BY <2>1, <2>2
<1>. QED
  BY <1>1, <1>3, <1>4, <1>5

(* Taking a node out takes its entry out of the order.                       *)
LEMMA RemovedOrder ==
  ASSUME NEW c, IsList(c), NEW w, IsOrder(c, w), NEW i \in 1 .. c.size
  PROVE  LET d == Removed(c, w[i])
         IN  \E u : IsOrder(d, u) /\ Entries(d, u) = RM!Without(Entries(c, w), i)
<1>. DEFINE n == w[i]
            d == Removed(c, n)
            u == [j \in 1 .. c.size - 1 |-> IF j < i THEN w[j] ELSE w[j + 1]]
            E == Entries(c, w)
<1>1. /\ c.size \in Nat /\ n \in DOMAIN c.nodes
      /\ \A j \in 1 .. c.size : w[j] \in DOMAIN c.nodes
      /\ \A j, l \in 1 .. c.size : w[j] = w[l] => j = l
      /\ \A m \in DOMAIN c.nodes : \E j \in 1 .. c.size : w[j] = m
  BY DEF IsList, IsCache, IsOrder, IsWalk
<1>2. /\ d.size = c.size - 1 /\ d.nodes = Relinked(c, n)
      /\ DOMAIN d.nodes = DOMAIN c.nodes \ {n}
      /\ d.head = IF c.nodes[n].prev = Nil THEN c.nodes[n].next ELSE c.head
  BY DEF Removed, Relinked
<1>3. \A j \in 1 .. c.size - 1 :
        /\ u[j] \in DOMAIN d.nodes
        /\ u[j] = w[IF j < i THEN j ELSE j + 1]
        /\ (IF j < i THEN j ELSE j + 1) \in 1 .. c.size
  <2>1. ASSUME NEW j \in 1 .. c.size - 1
        PROVE  /\ (IF j < i THEN j ELSE j + 1) \in 1 .. c.size
               /\ (IF j < i THEN j ELSE j + 1) # i
    BY <1>1
  <2>2. \A j \in 1 .. c.size - 1 : u[j] = w[IF j < i THEN j ELSE j + 1]
    OBVIOUS
  <2>. HIDE DEF d, u
  <2>. QED
    BY <1>1, <1>2, <2>1, <2>2
<1>4. u \in [1 .. d.size -> DOMAIN d.nodes]
  BY <1>2, <1>3
<1>5. d.size > 0 => u[1] = d.head
  <2>. SUFFICES ASSUME c.size - 1 > 0 PROVE u[1] = d.head
    BY <1>2
  <2>0. 1 \in 1 .. c.size - 1
    BY <1>1
  <2>1. CASE i = 1
    <3>1. c.nodes[n].prev = Nil /\ c.nodes[n].next = w[2]
      BY <1>1, <2>1, OrderLinks
    <3>. QED
      BY <1>1, <1>2, <2>0, <2>1, <3>1
  <2>2. CASE i # 1
    <3>1. c.nodes[n].prev = w[i - 1] /\ w[1] = c.head
      BY <2>2, OrderLinks
    <3>2. w[i - 1] # Nil
      <4>1. i - 1 \in 1 .. c.size
        BY <1>1, <2>2
      <4>. QED
        BY <1>1, <4>1, NodeTypes
    <3>. QED
      BY <1>1, <1>2, <2>0, <2>2, <3>1, <3>2
  <2>. QED
    BY <2>1, <2>2
<1>6. ASSUME NEW j \in 1 .. d.size - 1
      PROVE  u[j + 1] = d.nodes[u[j]].next
  <2>1. j \in 1 .. c.size - 1 /\ j + 1 \in 1 .. c.size - 1 /\ j \in 1 .. c.size /\ j + 1 \in 1 .. c.size
    BY <1>1, <1>2
  <2>2. d.nodes[u[j]].next =
          IF u[j] = c.nodes[n].prev THEN c.nodes[n].next ELSE c.nodes[u[j]].next
    <3>1. \A m \in DOMAIN c.nodes \ {n} :
            Relinked(c, n)[m].next = IF m = c.nodes[n].prev THEN c.nodes[n].next ELSE c.nodes[m].next
      BY DEF Relinked
    <3>. HIDE DEF d, u
    <3>. QED
      BY <1>2, <1>3, <2>1, <3>1
  <2>3. c.nodes[n].prev = IF i = 1 THEN Nil ELSE w[i - 1]
    BY OrderLinks
  <2>4. u[j] # Nil
    BY <1>2, <1>3, <2>1, NodeTypes
  <2>5. CASE j + 1 < i
    <3>1. u[j] = w[j] /\ u[j + 1] = w[j + 1]
      BY <2>1, <2>5
    <3>2. u[j] # c.nodes[n].prev
      BY <1>1, <2>1, <2>3, <2>4, <2>5, <3>1
    <3>3. c.nodes[w[j]].next = w[j + 1]
      BY <1>1, <2>1, OrderLinks
    <3>. QED
      BY <2>2, <3>1, <3>2, <3>3
  <2>6. CASE j + 1 = i
    <3>1. u[j] = w[i - 1] /\ u[j + 1] = w[i + 1] /\ i # 1
      <4>1. j = i - 1 /\ j < i /\ ~(j + 1 < i) /\ (j + 1) + 1 = i + 1 /\ i # 1
        BY <1>1, <2>1, <2>6
      <4>2. u[j] = w[j] /\ u[j + 1] = w[(j + 1) + 1]
        BY <2>1, <4>1
      <4>. HIDE DEF u
      <4>. QED
        BY <4>1, <4>2
    <3>2. i # c.size
      BY <1>1, <1>2, <2>6
    <3>3. c.nodes[n].next = w[i + 1]
      BY <3>2, OrderLinks
    <3>. QED
      BY <2>2, <2>3, <3>1, <3>3
  <2>7. CASE j >= i
    <3>1. u[j] = w[j + 1] /\ u[j + 1] = w[(j + 1) + 1]
      BY <1>1, <2>1, <2>7
    <3>2. u[j] # c.nodes[n].prev
      <4>1. i # 1 => i - 1 \in 1 .. c.size /\ i - 1 # j + 1
        BY <1>1, <2>1, <2>7
      <4>. HIDE DEF d, u
      <4>. QED
        BY <1>1, <2>1, <2>3, <2>4, <3>1, <4>1
    <3>3. c.nodes[w[j + 1]].next = w[(j + 1) + 1]
      <4>1. j + 1 # c.size
        BY <1>1, <1>2
      <4>. QED
        BY <2>1, <4>1, OrderLinks
    <3>. QED
      BY <2>2, <3>1, <3>2, <3>3
  <2>. QED
    BY <1>1, <2>1, <2>5, <2>6, <2>7
<1>7. \A j, l \in 1 .. d.size : u[j] = u[l] => j = l
  <2>. SUFFICES ASSUME NEW j \in 1 .. c.size - 1, NEW l \in 1 .. c.size - 1, u[j] = u[l]
                PROVE  j = l
    BY <1>2
  <2>1. (IF j < i THEN j ELSE j + 1) = (IF l < i THEN l ELSE l + 1)
    <3>. HIDE DEF u
    <3>. QED
      BY <1>1, <1>3
  <2>. QED
    BY <1>1, <2>1
<1>8. ASSUME NEW m \in DOMAIN d.nodes
      PROVE  \E j \in 1 .. d.size : u[j] = m
  <2>1. PICK l \in 1 .. c.size : w[l] = m
    BY <1>1, <1>2
  <2>2. l # i
    BY <1>2, <2>1
  <2>3. CASE l < i
    <3>1. l \in 1 .. d.size
      BY <1>1, <1>2, <2>3
    <3>2. u[l] = w[l]
      BY <1>2, <2>3, <3>1
    <3>. QED
      BY <2>1, <3>1, <3>2
  <2>4. CASE l > i
    <3>1. l - 1 \in 1 .. d.size /\ ~(l - 1 < i) /\ (l - 1) + 1 = l
      BY <1>1, <1>2, <2>4
    <3>2. u[l - 1] = w[l]
      BY <1>2, <3>1
    <3>. QED
      BY <2>1, <3>1, <3>2
  <2>5. l < i \/ l > i
    BY <2>2
  <2>. QED
    BY <2>3, <2>4, <2>5
<1>9. IsOrder(d, u)
  <2>. HIDE DEF d, u
  <2>. QED
    BY <1>4, <1>5, <1>6, <1>7, <1>8 DEF IsOrder, IsWalk
<1>10. Entries(d, u) = RM!Without(E, i)
  <2>0. IsWalk(c, w)
    BY DEF IsOrder
  <2>1. /\ E \in Seq(Entry) /\ Len(E) = c.size
        /\ \A j \in 1 .. c.size : E[j] = [key |-> c.nodes[w[j]].key, elem |-> c.nodes[w[j]].elem]
    BY <2>0, EntriesSeq
  <2>2. RM!Without(E, i) = [j \in 1 .. c.size - 1 |-> IF j < i THEN E[j] ELSE E[j + 1]]
    <3>. HIDE DEF E
    <3>. QED
      BY <2>1, WithoutIs
  <2>3. Entries(d, u) =
          [j \in 1 .. c.size - 1 |-> [key |-> d.nodes[u[j]].key, elem |-> d.nodes[u[j]].elem]]
    BY <1>2 DEF Entries
  <2>4. ASSUME NEW j \in 1 .. c.size - 1
        PROVE  [key |-> d.nodes[u[j]].key, elem |-> d.nodes[u[j]].elem]
                 = IF j < i THEN E[j] ELSE E[j + 1]
    <3>1. d.nodes[u[j]].key = c.nodes[u[j]].key /\ d.nodes[u[j]].elem = c.nodes[u[j]].elem
      <4>1. \A m \in DOMAIN c.nodes \ {n} :
              /\ Relinked(c, n)[m].key = c.nodes[m].key
              /\ Relinked(c, n)[m].elem = c.nodes[m].elem
        BY DEF Relinked
      <4>2. u[j] \in DOMAIN d.nodes
        BY <1>3
      <4>. HIDE DEF d, u
      <4>. QED
        BY <1>2, <4>1, <4>2
    <3>2. E[IF j < i THEN j ELSE j + 1] = [key |-> c.nodes[u[j]].key, elem |-> c.nodes[u[j]].elem]
      BY <1>3, <2>1
    <3>. QED
      BY <3>1, <3>2
  <2>. HIDE DEF d, u, E
  <2>. QED
    BY <2>2, <2>3, <2>4
<1>. QED
  BY <1>9, <1>10

(* An entry put in front comes first in the order.                           *)
LEMMA PushedOrder ==
  ASSUME NEW c, IsList(c), NEW w, IsOrder(c, w),
         NEW n \in Addresses \ DOMAIN c.nodes,
         NEW k \in Keys \ DOMAIN c.map, NEW v \in Vals
  PROVE  LET d == Pushed(c, n, k, v)
         IN  \E u : IsOrder(d, u) /\ Entries(d, u) = <<[key |-> k, elem |-> v]>> \o Entries(c, w)
<1>. DEFINE d == Pushed(c, n, k, v)
            u == [j \in 1 .. c.size + 1 |-> IF j = 1 THEN n ELSE w[j - 1]]
            e == [key |-> k, elem |-> v]
            E == Entries(c, w)
<1>1. /\ c.size \in Nat
      /\ \A j \in 1 .. c.size : w[j] \in DOMAIN c.nodes
      /\ \A j, l \in 1 .. c.size : w[j] = w[l] => j = l
      /\ \A m \in DOMAIN c.nodes : \E j \in 1 .. c.size : w[j] = m
  BY DEF IsList, IsCache, IsOrder, IsWalk
<1>2. /\ d.size = c.size + 1 /\ d.head = n
      /\ DOMAIN d.nodes = DOMAIN c.nodes \cup {n}
      /\ d.nodes[n] = [key |-> k, elem |-> v, next |-> c.head, prev |-> Nil]
      /\ \A m \in DOMAIN c.nodes :
           d.nodes[m] = IF m = c.head THEN [c.nodes[m] EXCEPT !.prev = n] ELSE c.nodes[m]
  BY DEF Pushed
<1>3. ASSUME NEW m \in DOMAIN c.nodes
      PROVE  /\ d.nodes[m].key = c.nodes[m].key /\ d.nodes[m].elem = c.nodes[m].elem
             /\ d.nodes[m].next = c.nodes[m].next
  <2>1. c.nodes[m] \in Node
    BY NodeTypes
  <2>2. /\ [c.nodes[m] EXCEPT !.prev = n].key = c.nodes[m].key
        /\ [c.nodes[m] EXCEPT !.prev = n].elem = c.nodes[m].elem
        /\ [c.nodes[m] EXCEPT !.prev = n].next = c.nodes[m].next
    BY <2>1 DEF Node
  <2>3. d.nodes[m] = IF m = c.head THEN [c.nodes[m] EXCEPT !.prev = n] ELSE c.nodes[m]
    BY <1>2
  <2>. HIDE DEF d
  <2>. QED
    BY <2>2, <2>3
<1>4. /\ 1 \in 1 .. c.size + 1 /\ u[1] = n
      /\ \A j \in 1 .. c.size : j + 1 \in 1 .. c.size + 1 /\ u[j + 1] = w[j]
      /\ \A j \in 1 .. c.size + 1 : j # 1 => j - 1 \in 1 .. c.size /\ u[j] = w[j - 1]
  BY <1>1
<1>5. u \in [1 .. d.size -> DOMAIN d.nodes]
  BY <1>1, <1>2, <1>4
<1>6. d.size > 0 => u[1] = d.head
  BY <1>2, <1>4
<1>7. ASSUME NEW j \in 1 .. d.size - 1
      PROVE  u[j + 1] = d.nodes[u[j]].next
  <2>1. j \in 1 .. c.size /\ u[j + 1] = w[j]
    BY <1>1, <1>2, <1>4
  <2>2. CASE j = 1
    <3>1. w[1] = c.head
      BY <2>1, <2>2, OrderLinks
    <3>. QED
      BY <1>2, <1>4, <2>1, <2>2, <3>1
  <2>3. CASE j # 1
    <3>1. j - 1 \in 1 .. c.size /\ (j - 1) + 1 = j /\ j - 1 # c.size /\ u[j] = w[j - 1]
      BY <1>1, <2>1, <2>3
    <3>2. c.nodes[w[j - 1]].next = w[j]
      BY <3>1, OrderLinks
    <3>3. d.nodes[w[j - 1]].next = c.nodes[w[j - 1]].next
      BY <1>1, <1>3, <3>1
    <3>. HIDE DEF d, u
    <3>. QED
      BY <2>1, <3>1, <3>2, <3>3
  <2>. QED
    BY <2>2, <2>3
<1>8. \A j, l \in 1 .. d.size : u[j] = u[l] => j = l
  <2>. SUFFICES ASSUME NEW j \in 1 .. c.size + 1, NEW l \in 1 .. c.size + 1, u[j] = u[l]
                PROVE  j = l
    BY <1>2
  <2>1. n \notin DOMAIN c.nodes
    OBVIOUS
  <2>2. CASE j = 1 \/ l = 1
    <3>1. \A m \in 1 .. c.size + 1 : m # 1 => u[m] \in DOMAIN c.nodes
      BY <1>1, <1>4
    <3>. HIDE DEF u
    <3>. QED
      BY <1>4, <2>1, <2>2, <3>1
  <2>3. CASE j # 1 /\ l # 1
    <3>1. j - 1 \in 1 .. c.size /\ l - 1 \in 1 .. c.size /\ w[j - 1] = w[l - 1]
      BY <1>4, <2>3
    <3>2. j - 1 = l - 1
      BY <1>1, <3>1
    <3>. QED
      BY <1>1, <3>2
  <2>. QED
    BY <2>2, <2>3
<1>9. \A m \in DOMAIN d.nodes : \E j \in 1 .. d.size : u[j] = m
  <2>. HIDE DEF d, u
  <2>. QED
    BY <1>1, <1>2, <1>4
<1>10. IsOrder(d, u)
  <2>. HIDE DEF d, u
  <2>. QED
    BY <1>5, <1>6, <1>7, <1>8, <1>9 DEF IsOrder, IsWalk
<1>11. Entries(d, u) = <<e>> \o E
  <2>0. IsWalk(c, w)
    BY DEF IsOrder
  <2>1. /\ E \in Seq(Entry) /\ Len(E) = c.size
        /\ \A j \in 1 .. c.size : E[j] = [key |-> c.nodes[w[j]].key, elem |-> c.nodes[w[j]].elem]
    BY <2>0, EntriesSeq
  <2>2. <<e>> \in Seq(Entry) /\ Len(<<e>>) = 1 /\ <<e>>[1] = e
    BY DEF e, Entry
  <2>. HIDE DEF e, E
  <2>3. /\ <<e>> \o E \in Seq(Entry) /\ Len(<<e>> \o E) = 1 + c.size
        /\ \A j \in 1 .. 1 + c.size :
             (<<e>> \o E)[j] = IF j <= 1 THEN <<e>>[j] ELSE E[j - 1]
    BY <2>1, <2>2, ConcatProperties
  <2>4. PICK z : z = <<e>> \o E
    OBVIOUS
  <2>5. z = [j \in 1 .. c.size + 1 |-> z[j]]
    <3>1. z \in Seq(Entry) /\ Len(z) = 1 + c.size
      BY <2>3, <2>4
    <3>. QED
      BY <1>1, <3>1
  <2>6. Entries(d, u) =
          [j \in 1 .. c.size + 1 |-> [key |-> d.nodes[u[j]].key, elem |-> d.nodes[u[j]].elem]]
    BY <1>2 DEF Entries
  <2>7. ASSUME NEW j \in 1 .. c.size + 1
        PROVE  [key |-> d.nodes[u[j]].key, elem |-> d.nodes[u[j]].elem] = z[j]
    <3>1. j \in 1 .. 1 + c.size /\ z[j] = IF j <= 1 THEN <<e>>[j] ELSE E[j - 1]
      BY <1>1, <2>3, <2>4
    <3>2. CASE j = 1
      BY <1>2, <1>4, <2>2, <3>1, <3>2 DEF e
    <3>3. CASE j # 1
      <4>1. j - 1 \in 1 .. c.size /\ u[j] = w[j - 1] /\ z[j] = E[j - 1]
        BY <1>1, <1>4, <3>1, <3>3
      <4>2. u[j] \in DOMAIN c.nodes
        BY <1>1, <4>1
      <4>. HIDE DEF d, u
      <4>. QED
        BY <1>3, <2>1, <4>1, <4>2
    <3>. QED
      BY <3>2, <3>3
  <2>. HIDE DEF d, u
  <2>. QED
    BY <2>4, <2>5, <2>6, <2>7
<1>. QED
  BY <1>10, <1>11

(* The entries are those of the map, each in one place.                      *)
LEMMA PlaceIs ==
  ASSUME NEW c, IsList(c), NEW w, IsOrder(c, w), NEW k
  PROVE  LET E == Entries(c, w)
             i == RM!PlaceOf(E, k)
         IN  /\ k \in RM!Held(E) <=> k \in DOMAIN c.map
             /\ k \in DOMAIN c.map =>
                  /\ i \in 1 .. c.size /\ w[i] = c.map[k]
                  /\ E[i] = [key |-> k, elem |-> c.nodes[c.map[k]].elem]
<1>. DEFINE E == Entries(c, w)
            i == RM!PlaceOf(E, k)
<1>1. /\ \A j \in 1 .. c.size : w[j] \in DOMAIN c.nodes
      /\ \A m \in DOMAIN c.nodes : \E j \in 1 .. c.size : w[j] = m
  BY DEF IsOrder, IsWalk
<1>2. /\ DOMAIN E = 1 .. c.size
      /\ \A j \in 1 .. c.size : E[j] = [key |-> c.nodes[w[j]].key, elem |-> c.nodes[w[j]].elem]
  BY DEF Entries
<1>. HIDE DEF E
<1>3. ASSUME NEW j \in 1 .. c.size
      PROVE  E[j].key = c.nodes[w[j]].key /\ E[j].elem = c.nodes[w[j]].elem
  <2>1. E[j] = [key |-> c.nodes[w[j]].key, elem |-> c.nodes[w[j]].elem]
    BY <1>2
  <2>. QED
    BY <2>1
<1>4. ASSUME NEW j \in DOMAIN E, E[j].key = k
      PROVE  k \in DOMAIN c.map /\ w[j] = c.map[k]
  BY <1>1, <1>2, <1>3, <1>4, KeyOfNode
<1>5. ASSUME k \in DOMAIN c.map
      PROVE  \E j \in DOMAIN E : E[j].key = k
  <2>1. c.map[k] \in DOMAIN c.nodes /\ c.nodes[c.map[k]].key = k
    BY <1>5, NodeOfKey
  <2>. QED
    BY <1>1, <1>2, <1>3, <2>1
<1>6. k \in RM!Held(E) <=> k \in DOMAIN c.map
  BY <1>4, <1>5 DEF RM!Held
<1>7. ASSUME k \in DOMAIN c.map
      PROVE  /\ i \in 1 .. c.size /\ w[i] = c.map[k]
             /\ E[i] = [key |-> k, elem |-> c.nodes[c.map[k]].elem]
  <2>1. i \in DOMAIN E /\ E[i].key = k
    BY <1>5, <1>7 DEF RM!PlaceOf
  <2>. HIDE DEF i
  <2>2. w[i] = c.map[k]
    BY <1>4, <2>1
  <2>. QED
    BY <1>2, <1>3, <2>1, <2>2
<1>. QED
  BY <1>6, <1>7 DEF E

(* The map's own invariant, with the order of its nodes.                     *)
HasOrder == \E w : IsOrder(cache, w)

LEMMA OrderAt ==
  ASSUME NEW c, IsList(c), NEW w, IsOrder(c, w)
  PROVE  OrderOf(c) = Entries(c, w)
<1>1. c.size \in Nat /\ IsWalk(c, w)
  BY DEF IsList, IsCache, IsOrder
<1>. QED
  BY <1>1, OrderIs

LEMMA PlaceInOrder ==
  ASSUME IInv, NEW w, IsOrder(cache, w), NEW k \in DOMAIN cache.map
  PROVE  LET i == RM!PlaceOf(Order, k)
         IN  /\ k \in RM!Held(Order)
             /\ i \in 1 .. cache.size /\ w[i] = cache.map[k]
             /\ Order[i] = [key |-> k, elem |-> cache.nodes[cache.map[k]].elem]
<1>1. Order = Entries(cache, w)
  BY OrderAt, OrderState DEF IInv
<1>. QED
  BY <1>1, PlaceIs DEF IInv

(* A removal, on the order.                                                  *)
LEMMA TakenOut ==
  ASSUME IInv, NEW w, IsOrder(cache, w), NEW i \in 1 .. cache.size
  PROVE  LET c == Removed(cache, w[i])
         IN  /\ IsList(c) /\ c.size < Capacity
             /\ DOMAIN c.map = DOMAIN cache.map \ {cache.nodes[w[i]].key}
             /\ \E u : IsOrder(c, u) /\ Entries(c, u) = RM!Without(Order, i)
<1>1. IsList(cache) /\ w[i] \in DOMAIN cache.nodes
  BY DEF IInv, IsOrder, IsWalk
<1>2. Order = Entries(cache, w)
  BY <1>1, OrderAt, OrderState
<1>. QED
  BY <1>1, <1>2, RemovedSmaller, RemovedOrder

(* An entry put in front of a list, on the order.                            *)
LEMMA PutInFront ==
  ASSUME NEW c, IsList(c), c.size < Capacity, NEW w, IsOrder(c, w),
         NEW k \in Keys \ DOMAIN c.map, NEW v \in Vals,
         PushFront(c, k, v)
  PROVE  HasOrder' /\ Order' = <<[key |-> k, elem |-> v]>> \o Entries(c, w)
<1>1. PICK n \in Addresses \ DOMAIN c.nodes : cache' = Pushed(c, n, k, v)
  BY DEF PushFront
<1>2. PICK u : /\ IsOrder(Pushed(c, n, k, v), u)
               /\ Entries(Pushed(c, n, k, v), u) = <<[key |-> k, elem |-> v]>> \o Entries(c, w)
  BY PushedOrder
<1>3. IsOrder(cache', u) /\ Entries(cache', u) = <<[key |-> k, elem |-> v]>> \o Entries(c, w)
  BY <1>1, <1>2
<1>4. IsList(cache')
  BY <1>1, PushedIsList
<1>. QED
  BY <1>3, <1>4, OrderAt, OrderState DEF HasOrder

LEMMA MovedToFront ==
  ASSUME IInv, HasOrder, NEW k \in DOMAIN cache.map, NEW v \in Vals,
         PushFront(Deleted(cache, cache.map[k]), k, v)
  PROVE  LET i == RM!PlaceOf(Order, k)
         IN  /\ HasOrder'
             /\ Order' = <<[key |-> k, elem |-> v]>> \o RM!Without(Order, i)
             /\ k \in RM!Held(Order)
             /\ Order[i] = [key |-> k, elem |-> cache.nodes[cache.map[k]].elem]
<1>. DEFINE i == RM!PlaceOf(Order, k)
<1>1. IsList(cache) /\ k \in Keys
  BY DEF IInv, IsList, IsCache
<1>2. PICK w : IsOrder(cache, w)
  BY DEF HasOrder
<1>4. /\ k \in RM!Held(Order)
      /\ i \in 1 .. cache.size /\ w[i] = cache.map[k]
      /\ Order[i] = [key |-> k, elem |-> cache.nodes[cache.map[k]].elem]
  BY <1>2, PlaceInOrder
<1>. HIDE DEF i
<1>5. cache.map[k] \in DOMAIN cache.nodes /\ cache.nodes[cache.map[k]].key = k
  BY <1>1, NodeOfKey
<1>6. PICK c : c = Removed(cache, w[i])
  OBVIOUS
<1>7. PushFront(c, k, v)
  BY <1>1, <1>4, <1>5, <1>6, DeletedIsRemoved
<1>8. /\ IsList(c) /\ c.size < Capacity
      /\ k \notin DOMAIN c.map
      /\ \E u : IsOrder(c, u) /\ Entries(c, u) = RM!Without(Order, i)
  BY <1>2, <1>4, <1>5, <1>6, TakenOut
<1>9. PICK u : IsOrder(c, u) /\ Entries(c, u) = RM!Without(Order, i)
  BY <1>8
<1>10. HasOrder' /\ Order' = <<[key |-> k, elem |-> v]>> \o Entries(c, u)
  BY <1>1, <1>7, <1>8, <1>9, PutInFront
<1>. QED
  BY <1>4, <1>9, <1>10 DEF i

-----------------------------------------------------------------------------
(* The refinement, action by action.                                         *)
LEMMA GetRefines ==
  ASSUME IInv, HasOrder, NEW k \in Keys, Get(k)
  PROVE  HasOrder' /\ RM!Get(k)
<1>. DEFINE i == RM!PlaceOf(Order, k)
<1>1. CASE k \in DOMAIN cache.map
  <2>1. cache.map[k] \in DOMAIN cache.nodes
    BY <1>1, NodeOfKey DEF IInv
  <2>2. cache.nodes[cache.map[k]].elem \in Vals
    BY <2>1, NodeTypes DEF IInv, Node
  <2>3. /\ PushFront(Deleted(cache, cache.map[k]), k, cache.nodes[cache.map[k]].elem)
        /\ result' = cache.nodes[cache.map[k]].elem
    BY <1>1 DEF Get
  <2>4. /\ HasOrder' /\ k \in RM!Held(Order)
        /\ Order' = <<[key |-> k, elem |-> cache.nodes[cache.map[k]].elem]>> \o RM!Without(Order, i)
        /\ Order[i] = [key |-> k, elem |-> cache.nodes[cache.map[k]].elem]
    BY <1>1, <2>2, <2>3, MovedToFront
  <2>5. Order' = <<Order[i]>> \o RM!Without(Order, i) /\ result' = Order[i].elem
    <3>. HIDE DEF i
    <3>. QED
      BY <2>3, <2>4
  <2>. QED
    BY <2>4, <2>5 DEF RM!Get
<1>2. CASE k \notin DOMAIN cache.map
  <2>1. cache' = cache /\ result' = None
    BY <1>2 DEF Get
  <2>2. HasOrder' /\ Order' = Order
    BY <2>1, OrderState DEF HasOrder
  <2>3. k \notin RM!Held(Order)
    <3>1. PICK w : IsOrder(cache, w)
      BY DEF HasOrder
    <3>2. Order = Entries(cache, w)
      BY <3>1, OrderAt, OrderState DEF IInv
    <3>. QED
      BY <1>2, <3>1, <3>2, PlaceIs DEF IInv
  <2>. QED
    BY <2>1, <2>2, <2>3 DEF RM!Get
<1>. QED
  BY <1>1, <1>2

LEMMA PutUpdateRefines ==
  ASSUME IInv, HasOrder, NEW k \in Keys, NEW v \in Vals, PutUpdate(k, v)
  PROVE  HasOrder' /\ RM!Put(k, v)
<1>. DEFINE i == RM!PlaceOf(Order, k)
<1>1. /\ k \in DOMAIN cache.map /\ result' = result
      /\ PushFront(Deleted(cache, cache.map[k]), k, v)
  BY DEF PutUpdate
<1>2. /\ HasOrder' /\ k \in RM!Held(Order)
      /\ Order' = <<[key |-> k, elem |-> v]>> \o RM!Without(Order, i)
  BY <1>1, MovedToFront
<1>3. RM!Rest(Order, k) = RM!Without(Order, i)
  BY <1>2 DEF RM!Rest
<1>. QED
  BY <1>1, <1>2, <1>3 DEF RM!Put

(* A full cache forgets the entry at the last place, and no other.           *)
LEMMA PutNewRefines ==
  ASSUME IInv, HasOrder, NEW k \in Keys, NEW v \in Vals, PutNew(k, v)
  PROVE  HasOrder' /\ RM!Put(k, v)
<1>1. /\ k \in Keys \ DOMAIN cache.map /\ result' = result
      /\ IsList(cache) /\ cache.size <= Capacity
      /\ cache.size \in Nat /\ Capacity \in Nat \ {0}
  BY LRUCacheAssumption DEF IInv, PutNew, IsList, IsCache
<1>2. PICK w : IsOrder(cache, w)
  BY DEF HasOrder
<1>3. Order = Entries(cache, w) /\ Len(Order) = cache.size
  <2>1. IsWalk(cache, w)
    BY <1>2 DEF IsOrder
  <2>2. Len(Entries(cache, w)) = cache.size
    BY <1>1, <2>1, EntriesSeq
  <2>. QED
    BY <1>1, <1>2, <2>2, OrderAt, OrderState
<1>4. k \notin RM!Held(Order)
  BY <1>1, <1>2, <1>3, PlaceIs
<1>5. CASE cache.size = Capacity
  <2>1. Capacity \in 1 .. cache.size
    BY <1>1, <1>5
  <2>2. w[Capacity] = cache.tail /\ cache.tail \in DOMAIN cache.nodes
    BY <1>1, <1>2, <1>5, <2>1, OrderLinks
  <2>3. PICK c : c = Removed(cache, w[Capacity])
    OBVIOUS
  <2>4. PushFront(c, k, v)
    <3>1. /\ cache.tail \notin Referenced(Popped(cache))
          /\ Dropped(Popped(cache), cache.tail) = Removed(cache, cache.tail)
      BY <1>1, <2>2, PoppedIsRemoved
    <3>. QED
      BY <1>5, <2>2, <2>3, <3>1 DEF PutNew
  <2>5. /\ IsList(c) /\ c.size < Capacity /\ k \notin DOMAIN c.map
        /\ \E u : IsOrder(c, u) /\ Entries(c, u) = RM!Without(Order, Capacity)
    BY <1>1, <1>2, <2>1, <2>3, TakenOut
  <2>6. PICK u : IsOrder(c, u) /\ Entries(c, u) = RM!Without(Order, Capacity)
    BY <2>5
  <2>7. HasOrder' /\ Order' = <<[key |-> k, elem |-> v]>> \o Entries(c, u)
    BY <1>1, <2>4, <2>5, <2>6, PutInFront
  <2>8. RM!Rest(Order, k) = RM!Without(Order, Capacity)
    BY <1>3, <1>4, <1>5 DEF RM!Rest
  <2>. QED
    BY <1>1, <2>6, <2>7, <2>8 DEF RM!Put
<1>6. CASE cache.size # Capacity
  <2>1. PushFront(cache, k, v) /\ cache.size < Capacity
    BY <1>1, <1>6 DEF PutNew
  <2>2. HasOrder' /\ Order' = <<[key |-> k, elem |-> v]>> \o Entries(cache, w)
    BY <1>1, <1>2, <2>1, PutInFront
  <2>3. RM!Rest(Order, k) = Order
    BY <1>3, <1>4, <1>6 DEF RM!Rest
  <2>. QED
    BY <1>1, <1>3, <2>2, <2>3 DEF RM!Put
<1>. QED
  BY <1>5, <1>6

LEMMA RemoveRefines ==
  ASSUME IInv, HasOrder, NEW k \in Keys, Remove(k)
  PROVE  HasOrder' /\ RM!Remove(k)
<1>. DEFINE i == RM!PlaceOf(Order, k)
<1>1. /\ k \in DOMAIN cache.map /\ result' = result
      /\ cache' = Deleted(cache, cache.map[k]) /\ IsList(cache)
  BY DEF Remove, IInv
<1>2. PICK w : IsOrder(cache, w)
  BY DEF HasOrder
<1>4. k \in RM!Held(Order) /\ i \in 1 .. cache.size /\ w[i] = cache.map[k]
  BY <1>1, <1>2, PlaceInOrder
<1>. HIDE DEF i
<1>5. cache' = Removed(cache, w[i])
  BY <1>1, <1>4, NodeOfKey, DeletedIsRemoved
<1>6. IsList(cache') /\ \E u : IsOrder(cache', u) /\ Entries(cache', u) = RM!Without(Order, i)
  BY <1>2, <1>4, <1>5, TakenOut
<1>7. HasOrder' /\ Order' = RM!Without(Order, i)
  BY <1>6, OrderAt, OrderState DEF HasOrder
<1>. QED
  BY <1>1, <1>4, <1>7 DEF RM!Remove, i

LEMMA InitRefines == Init => HasOrder /\ RM!Init
<1>. SUFFICES ASSUME Init PROVE HasOrder /\ RM!Init
  OBVIOUS
<1>1. cache.size = 0 /\ DOMAIN cache.nodes = {} /\ result = None
  BY DEF Init
<1>2. <<>> \in [1 .. cache.size -> DOMAIN cache.nodes]
  BY <1>1
<1>3. IsOrder(cache, <<>>)
  BY <1>1, <1>2 DEF IsOrder, IsWalk
<1>4. IsList(cache)
  BY InitIInv DEF IInv
<1>5. Entries(cache, <<>>) = <<>>
  BY <1>1 DEF Entries
<1>6. Order = <<>>
  BY <1>3, <1>4, <1>5, OrderAt, OrderState
<1>. QED
  BY <1>1, <1>3, <1>6 DEF HasOrder, RM!Init

(* Read from its head on, the list is the order of last use: get and put     *)
(* bring their entry to the front, remove and the eviction take theirs out,  *)
(* a get returns what was last put, and only the least recently used entry   *)
(* is ever evicted.                                                          *)
THEOREM KeepsRecencyOrder == Spec => ImplementsRecencyMap
<1>1. Init => HasOrder /\ RM!Init
  BY InitRefines
<1>2. IInv /\ HasOrder /\ [Next]_vars => HasOrder' /\ [RM!Next]_<<Order, result>>
  <2>. SUFFICES ASSUME IInv, HasOrder, [Next]_vars
                PROVE  HasOrder' /\ [RM!Next]_<<Order, result>>
    OBVIOUS
  <2>1. ASSUME NEW k \in Keys, Get(k) PROVE HasOrder' /\ RM!Next
    BY <2>1, GetRefines DEF RM!Next
  <2>2. ASSUME NEW k \in Keys, Remove(k) PROVE HasOrder' /\ RM!Next
    BY <2>2, RemoveRefines DEF RM!Next
  <2>3. ASSUME NEW k \in Keys, NEW v \in Vals, PutUpdate(k, v) PROVE HasOrder' /\ RM!Next
    BY <2>3, PutUpdateRefines DEF RM!Next
  <2>4. ASSUME NEW k \in Keys, NEW v \in Vals, PutNew(k, v) PROVE HasOrder' /\ RM!Next
    BY <2>4, PutNewRefines DEF RM!Next
  <2>5. CASE UNCHANGED vars
    <3>1. cache' = cache /\ result' = result
      BY <2>5 DEF vars
    <3>. QED
      BY <3>1, OrderState DEF HasOrder
  <2>. QED
    BY <2>1, <2>2, <2>3, <2>4, <2>5 DEF Next
<1>. QED
  BY <1>1, <1>2, IInvHolds, PTL DEF Spec, ImplementsRecencyMap, RM!Spec
=============================================================================
