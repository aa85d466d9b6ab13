----------------------- MODULE SimilarityGraph_proofs -----------------------
(* Proofs about the graph of similar files, for any hashes, inodes and bytes *)
(* and any number of nodes: it stays consistent, a graph built from the      *)
(* store has every node, and a query keeps to its radius.                    *)
EXTENDS SimilarityGraph, SequenceTheorems, FiniteSetTheorems, WellFoundedInduction, TLAPS

EdgeRec   == [to : NodeIds, weight : Nat]
NodeRec   == [id : NodeIds, inos : Seq(Inos), hash : Hashes, edges : SUBSET EdgeRec]
StoredRec == [inos : Seq(Inos), hash : Hashes]

Maps(D, V) == UNION {[S -> V] : S \in SUBSET D}

GraphRec ==
  [nodes : Seq(NodeRec), map : Maps(NodeIds, Nat), ino_map : Maps(Inos, NodeIds),
   stored : Maps(NodeIds, StoredRec)]

PlacesOf(g) == DOMAIN g.nodes
IdsOf(g) == {g.nodes[k].id : k \in PlacesOf(g)}
WeightOf(g, k, l) == Weight(g.nodes[k].hash, g.nodes[l].hash)
EdgeOf(g, k, l) == [to |-> g.nodes[l].id, weight |-> WeightOf(g, k, l)]

MapOk(g) ==
  /\ DOMAIN g.map = IdsOf(g)
  /\ \A k \in PlacesOf(g) : g.map[g.nodes[k].id] = k

HashesOk(g) == \A k, l \in PlacesOf(g) : g.nodes[k].hash = g.nodes[l].hash => k = l

EdgesOk(g) ==
  \A k \in PlacesOf(g) : \A e \in g.nodes[k].edges :
    \E l \in PlacesOf(g) \ {k} : e = EdgeOf(g, k, l) /\ EdgeOf(g, l, k) \in g.nodes[l].edges

(* Nodes whose hashes differ in at most two bits are joined directly.        *)
CloseJoined(g) ==
  \A k, l \in PlacesOf(g) : k # l /\ WeightOf(g, k, l) <= 2 => EdgeOf(g, k, l) \in g.nodes[k].edges

Consistent(g) == MapOk(g) /\ HashesOk(g) /\ EdgesOk(g) /\ CloseJoined(g)

(* The store has each node with its hash and an inode.                       *)
SavedAs(g, k, id, h) ==
  /\ g.nodes[k].inos # <<>>
  /\ id \in DOMAIN g.stored
  /\ g.stored[id].hash = h /\ g.stored[id].inos # <<>>
Saved(g) == \A k \in PlacesOf(g) : SavedAs(g, k, g.nodes[k].id, g.nodes[k].hash)

-----------------------------------------------------------------------------
LEMMA WeightIs ==
  ASSUME NEW a \in Hashes, NEW b \in Hashes
  PROVE  /\ Weight(a, b) \in Nat
         /\ Weight(a, b) = Weight(b, a)
         /\ Weight(a, b) = 0 <=> a = b
<1>1. IsFiniteSet((a \ b) \cup (b \ a))
  <2>1. (a \ b) \cup (b \ a) \in SUBSET Bits
    BY DEF Hashes
  <2>. QED
    BY <2>1, FS_Subset, SimilarityGraphAssumption
<1>2. (a \ b) \cup (b \ a) = (b \ a) \cup (a \ b)
  OBVIOUS
<1>3. (a \ b) \cup (b \ a) = {} <=> a = b
  BY DEF Hashes
<1>. QED
  BY <1>1, <1>2, <1>3, FS_CardinalityType, FS_EmptySet DEF Weight

(* Bits two hashes differ in are among those either differs in from a third. *)
LEMMA WeightTriangle ==
  ASSUME NEW a \in Hashes, NEW b \in Hashes, NEW c \in Hashes
  PROVE  Weight(a, c) <= Weight(a, b) + Weight(b, c)
<1>. DEFINE X == (a \ b) \cup (b \ a)
            Y == (b \ c) \cup (c \ b)
            Z == (a \ c) \cup (c \ a)
<1>1. Z \subseteq X \cup Y
  OBVIOUS
<1>2. IsFiniteSet(X) /\ IsFiniteSet(Y)
  <2>1. X \in SUBSET Bits /\ Y \in SUBSET Bits
    BY DEF Hashes
  <2>. QED
    BY <2>1, FS_Subset, SimilarityGraphAssumption
<1>. HIDE DEF X, Y, Z
<1>3. IsFiniteSet(X \cup Y) /\ Cardinality(X \cup Y) <= Cardinality(X) + Cardinality(Y)
  <2>1. /\ IsFiniteSet(X \cup Y) /\ IsFiniteSet(X \cap Y)
        /\ Cardinality(X \cup Y) = Cardinality(X) + Cardinality(Y) - Cardinality(X \cap Y)
    BY <1>2, FS_Union, FS_Subset, X \cap Y \subseteq X
  <2>. QED
    BY <1>2, <2>1, FS_CardinalityType
<1>4. Cardinality(Z) <= Cardinality(X \cup Y)
  BY <1>1, <1>3, FS_Subset
<1>5. Cardinality(Z) \in Nat /\ Cardinality(X) \in Nat /\ Cardinality(Y) \in Nat
  BY <1>1, <1>2, <1>3, FS_Subset, FS_CardinalityType
<1>6. Cardinality(Z) <= Cardinality(X) + Cardinality(Y)
  <2>1. Cardinality(X \cup Y) \in Nat
    BY <1>3, FS_CardinalityType
  <2>. QED
    BY <1>3, <1>4, <1>5, <2>1
<1>. QED
  BY <1>6 DEF Weight, X, Y, Z

-----------------------------------------------------------------------------
LEMMA MapsIs ==
  ASSUME NEW D, NEW V, NEW f
  PROVE  f \in Maps(D, V) <=> f \in [DOMAIN f -> V] /\ DOMAIN f \in SUBSET D
BY DEF Maps

LEMMA PutType ==
  ASSUME NEW D, NEW V, NEW f \in Maps(D, V), NEW x \in D, NEW v \in V
  PROVE  Put(f, x, v) \in Maps(D, V)
<1>1. f \in [DOMAIN f -> V] /\ DOMAIN f \in SUBSET D
  BY MapsIs
<1>2. Put(f, x, v) \in [DOMAIN f \cup {x} -> V] /\ DOMAIN f \cup {x} \in SUBSET D
  BY <1>1 DEF Put
<1>. QED
  BY <1>2 DEF Maps

LEMMA DropType ==
  ASSUME NEW D, NEW V, NEW f \in Maps(D, V), NEW S
  PROVE  Drop(f, S) \in Maps(D, V)
<1>1. f \in [DOMAIN f -> V] /\ DOMAIN f \in SUBSET D
  BY MapsIs
<1>2. Drop(f, S) \in [DOMAIN f \ S -> V] /\ DOMAIN f \ S \in SUBSET D
  BY <1>1 DEF Drop
<1>. QED
  BY <1>2 DEF Maps

LEMMA GraphFields ==
  ASSUME NEW g \in GraphRec
  PROVE  /\ g.nodes \in Seq(NodeRec) /\ g.map \in Maps(NodeIds, Nat)
         /\ g.ino_map \in Maps(Inos, NodeIds) /\ g.stored \in Maps(NodeIds, StoredRec)
         /\ Len(g.nodes) \in Nat /\ PlacesOf(g) = 1 .. Len(g.nodes)
         /\ \A k \in PlacesOf(g) :
              /\ g.nodes[k] \in NodeRec
              /\ g.nodes[k].id \in NodeIds /\ g.nodes[k].inos \in Seq(Inos)
              /\ g.nodes[k].hash \in Hashes /\ g.nodes[k].edges \in SUBSET EdgeRec
<1>1. /\ g.nodes \in Seq(NodeRec) /\ g.map \in Maps(NodeIds, Nat)
      /\ g.ino_map \in Maps(Inos, NodeIds) /\ g.stored \in Maps(NodeIds, StoredRec)
  BY DEF GraphRec
<1>2. Len(g.nodes) \in Nat /\ PlacesOf(g) = 1 .. Len(g.nodes)
  BY <1>1 DEF PlacesOf
<1>3. \A k \in PlacesOf(g) : g.nodes[k] \in NodeRec
  BY <1>1, <1>2
<1>4. \A x \in NodeRec :
        x.id \in NodeIds /\ x.inos \in Seq(Inos) /\ x.hash \in Hashes /\ x.edges \in SUBSET EdgeRec
  BY DEF NodeRec
<1>. QED
  BY <1>1, <1>2, <1>3, <1>4

LEMMA WeightOfIs ==
  ASSUME NEW g \in GraphRec, NEW k \in PlacesOf(g), NEW l \in PlacesOf(g)
  PROVE  WeightOf(g, k, l) \in Nat /\ WeightOf(g, k, l) = WeightOf(g, l, k)
BY GraphFields, WeightIs DEF WeightOf

(* A graph with the same nodes, but for their inodes, is as good.            *)
SameShape(g, t) ==
  /\ PlacesOf(t) = PlacesOf(g)
  /\ \A k \in PlacesOf(g) :
       /\ t.nodes[k].id = g.nodes[k].id /\ t.nodes[k].hash = g.nodes[k].hash
       /\ t.nodes[k].edges = g.nodes[k].edges
  /\ t.map = g.map

LEMMA SameShapeConsistent ==
  ASSUME NEW g, NEW t, SameShape(g, t), Consistent(g)
  PROVE  Consistent(t)
<1>1. IdsOf(t) = IdsOf(g)
  BY DEF SameShape, IdsOf
<1>2. MapOk(t)
  BY <1>1 DEF SameShape, Consistent, MapOk
<1>3. HashesOk(t)
  BY DEF SameShape, Consistent, HashesOk
<1>4. \A k, l \in PlacesOf(g) : WeightOf(t, k, l) = WeightOf(g, k, l) /\ EdgeOf(t, k, l) = EdgeOf(g, k, l)
  BY DEF SameShape, WeightOf, EdgeOf
<1>5. EdgesOk(t)
  BY <1>4 DEF SameShape, Consistent, EdgesOk
<1>6. CloseJoined(t)
  BY <1>4 DEF SameShape, Consistent, CloseJoined
<1>. QED
  BY <1>2, <1>3, <1>5, <1>6 DEF Consistent

-----------------------------------------------------------------------------
(* Nodes that are added.                                                     *)

(* Nodes typed one by one make a graph's nodes.                              *)
LEMMA NodeType ==
  ASSUME NEW id \in NodeIds, NEW inos \in Seq(Inos), NEW h \in Hashes, NEW edges \in SUBSET EdgeRec
  PROVE  [id |-> id, inos |-> inos, hash |-> h, edges |-> edges] \in NodeRec
BY DEF NodeRec

(* A node with other inodes, or with other edges.                            *)
LEMMA NodeExcept ==
  ASSUME NEW x \in NodeRec, NEW inos \in Seq(Inos), NEW edges \in SUBSET EdgeRec
  PROVE  /\ [x EXCEPT !.inos = inos] \in NodeRec
         /\ [x EXCEPT !.inos = inos].inos = inos
         /\ [x EXCEPT !.inos = inos].id = x.id
         /\ [x EXCEPT !.inos = inos].hash = x.hash
         /\ [x EXCEPT !.inos = inos].edges = x.edges
         /\ [x EXCEPT !.edges = edges] \in NodeRec
         /\ [x EXCEPT !.edges = edges].inos = x.inos
         /\ [x EXCEPT !.edges = edges].id = x.id
         /\ [x EXCEPT !.edges = edges].hash = x.hash
         /\ [x EXCEPT !.edges = edges].edges = edges
BY DEF NodeRec

LEMMA GraphMade ==
  ASSUME NEW nodes_ \in Seq(NodeRec), NEW map_ \in Maps(NodeIds, Nat),
         NEW inoMap \in Maps(Inos, NodeIds), NEW stored_ \in Maps(NodeIds, StoredRec)
  PROVE  [nodes |-> nodes_, map |-> map_, ino_map |-> inoMap, stored |-> stored_] \in GraphRec
BY DEF GraphRec

-----------------------------------------------------------------------------
(* A node gets an inode.                                                     *)

LEMMA PlaceOfIs ==
  ASSUME NEW g, NEW h, HasHash(g, h)
  PROVE  PlaceOf(g, h) \in PlacesOf(g) /\ g.nodes[PlaceOf(g, h)].hash = h
BY DEF HasHash, PlaceOf, PlacesOf

WithInos(g, k, inos) == [g.nodes EXCEPT ![k].inos = inos]

OtherInos(g, k, inos, u) ==
  /\ u \in Seq(NodeRec) /\ DOMAIN u = PlacesOf(g)
  /\ u[k].inos = inos
  /\ \A l \in PlacesOf(g) :
       /\ u[l].id = g.nodes[l].id /\ u[l].hash = g.nodes[l].hash
       /\ u[l].edges = g.nodes[l].edges
       /\ l # k => u[l].inos = g.nodes[l].inos

LEMMA InosReplaced ==
  ASSUME NEW g \in GraphRec, NEW k \in PlacesOf(g), NEW inos \in Seq(Inos)
  PROVE  OtherInos(g, k, inos, WithInos(g, k, inos))
<1>. DEFINE u == WithInos(g, k, inos)
<1>1. g.nodes \in Seq(NodeRec) /\ PlacesOf(g) = 1 .. Len(g.nodes) /\ Len(g.nodes) \in Nat
  BY GraphFields
<1>2. u = [l \in PlacesOf(g) |-> IF l = k THEN [g.nodes[k] EXCEPT !.inos = inos] ELSE g.nodes[l]]
  <2>1. g.nodes \in [1 .. Len(g.nodes) -> NodeRec] /\ DOMAIN g.nodes = PlacesOf(g)
    BY <1>1
  <2>2. u = [g.nodes EXCEPT ![k] = [g.nodes[k] EXCEPT !.inos = inos]]
    BY DEF WithInos
  <2>. HIDE DEF u
  <2>. QED
    BY <2>1, <2>2
<1>. HIDE DEF u
<1>3. [g.nodes[k] EXCEPT !.inos = inos] \in NodeRec
  BY GraphFields, NodeExcept
<1>4. u \in [1 .. Len(g.nodes) -> NodeRec] /\ DOMAIN u = PlacesOf(g)
  BY <1>1, <1>2, <1>3, GraphFields
<1>5. u \in Seq(NodeRec)
  BY <1>1, <1>4, SeqDef
<1>6. u[k] = [g.nodes[k] EXCEPT !.inos = inos] /\ \A l \in PlacesOf(g) : l # k => u[l] = g.nodes[l]
  BY <1>2
<1>. HIDE DEF NodeRec
<1>7. /\ u[k].inos = inos /\ u[k].id = g.nodes[k].id
      /\ u[k].hash = g.nodes[k].hash /\ u[k].edges = g.nodes[k].edges
  BY <1>6, GraphFields, NodeExcept
<1>. QED
  BY <1>4, <1>5, <1>6, <1>7 DEF OtherInos, u

LEMMA InoAdded ==
  ASSUME NEW g \in GraphRec, NEW k \in PlacesOf(g), NEW ino \in Inos, NEW t, t = AddIno(g, k, ino)
  PROVE  /\ t \in GraphRec /\ SameShape(g, t) /\ t.stored = g.stored
         /\ \A l \in PlacesOf(g) : g.nodes[l].inos # <<>> => t.nodes[l].inos # <<>>
<1>1. CASE Contains(g.nodes[k].inos, ino)
  BY <1>1 DEF AddIno, SameShape
<1>2. CASE ~Contains(g.nodes[k].inos, ino)
  <2>. DEFINE inos == Append(g.nodes[k].inos, ino)
              u == WithInos(g, k, inos)
  <2>1. inos \in Seq(Inos) /\ inos # <<>>
    <3>1. g.nodes[k].inos \in Seq(Inos)
      BY GraphFields
    <3>. QED
      BY <3>1, AppendProperties
  <2>. HIDE DEF inos
  <2>2. OtherInos(g, k, inos, u)
    BY <2>1, InosReplaced
  <2>3. Put(g.ino_map, ino, g.nodes[k].id) \in Maps(Inos, NodeIds)
    BY GraphFields, PutType
  <2>4. t = [g EXCEPT !.ino_map = Put(@, ino, g.nodes[k].id), !.nodes[k].inos = Append(@, ino)]
    BY <1>2 DEF AddIno
  <2>5. t = [nodes |-> u, map |-> g.map, ino_map |-> Put(g.ino_map, ino, g.nodes[k].id), stored |-> g.stored]
    BY <2>4 DEF GraphRec, inos, WithInos
  <2>. HIDE DEF u
  <2>6. t \in GraphRec
    BY <2>2, <2>3, <2>5, GraphFields, GraphMade DEF OtherInos
  <2>7. t.nodes = u /\ t.map = g.map /\ t.stored = g.stored
    BY <2>5
  <2>8. SameShape(g, t)
    BY <2>2, <2>7 DEF SameShape, PlacesOf, OtherInos
  <2>. QED
    BY <2>1, <2>2, <2>6, <2>7, <2>8 DEF OtherInos
<1>. QED
  BY <1>1, <1>2

LEMMA InoAddedGood ==
  ASSUME NEW g \in GraphRec, NEW k \in PlacesOf(g), NEW ino \in Inos, NEW t, t = AddIno(g, k, ino)
  PROVE  /\ Consistent(g) => Consistent(t)
         /\ Saved(g) => Saved(t)
<1>1. /\ SameShape(g, t) /\ t.stored = g.stored
      /\ \A l \in PlacesOf(g) : g.nodes[l].inos # <<>> => t.nodes[l].inos # <<>>
  BY InoAdded
<1>2. Saved(g) => Saved(t)
  BY <1>1 DEF SameShape, Saved, SavedAs
<1>. QED
  BY <1>1, <1>2, SameShapeConsistent

-----------------------------------------------------------------------------
(* A node is appended.                                                       *)

(* What AppendNode does to the nodes that were there.                        *)
JoinedTo(g, k, id, h) ==
  IF k \in Neighbours(g, h)
  THEN g.nodes[k].edges \cup {[to |-> id, weight |-> Weight(h, g.nodes[k].hash)]}
  ELSE g.nodes[k].edges

EdgesTo(g, h) == {[to |-> g.nodes[k].id, weight |-> Weight(h, g.nodes[k].hash)] : k \in Neighbours(g, h)}

Appended(g, t, id, ino, h) ==
  LET n == Len(g.nodes) IN
  /\ Len(t.nodes) = n + 1
  /\ \A k \in 1 .. n :
       /\ t.nodes[k].id = g.nodes[k].id /\ t.nodes[k].hash = g.nodes[k].hash
       /\ t.nodes[k].inos = g.nodes[k].inos
       /\ t.nodes[k].edges = JoinedTo(g, k, id, h)
  /\ t.nodes[n + 1].id = id /\ t.nodes[n + 1].hash = h /\ t.nodes[n + 1].inos = <<ino>>
  /\ t.nodes[n + 1].edges = EdgesTo(g, h)
  /\ t.map = Put(g.map, id, n + 1)
  /\ t.stored = Put(g.stored, id, [inos |-> <<ino>>, hash |-> h])

LEMMA NeighboursThere ==
  ASSUME NEW g, NEW h
  PROVE  Neighbours(g, h) \in SUBSET PlacesOf(g)
BY DEF Neighbours, Nearest, PlacesOf

LEMMA EdgesTyped ==
  ASSUME NEW g \in GraphRec, NEW id \in NodeIds, NEW h \in Hashes
  PROVE  /\ EdgesTo(g, h) \in SUBSET EdgeRec
         /\ \A k \in PlacesOf(g) : JoinedTo(g, k, id, h) \in SUBSET EdgeRec
<1>1. \A k \in PlacesOf(g) : Weight(h, g.nodes[k].hash) \in Nat
  BY GraphFields, WeightIs
<1>2. EdgesTo(g, h) \in SUBSET EdgeRec
  BY <1>1, NeighboursThere, GraphFields DEF EdgesTo, EdgeRec
<1>3. \A k \in PlacesOf(g) : [to |-> id, weight |-> Weight(h, g.nodes[k].hash)] \in EdgeRec
  BY <1>1 DEF EdgeRec
<1>4. \A k \in PlacesOf(g) : JoinedTo(g, k, id, h) \in SUBSET EdgeRec
  BY <1>3, GraphFields DEF JoinedTo
<1>. QED
  BY <1>2, <1>4

LEMMA NodeAppended ==
  ASSUME NEW g \in GraphRec, NEW id \in NodeIds, NEW ino \in Inos, NEW h \in Hashes, NEW t,
         t = AppendNode(g, id, ino, h)
  PROVE  t \in GraphRec /\ Appended(g, t, id, ino, h)
<1>. DEFINE n == Len(g.nodes)
            node == [id |-> id, inos |-> <<ino>>, hash |-> h, edges |-> EdgesTo(g, h)]
            old(k) == IF k \in Neighbours(g, h)
                      THEN [g.nodes[k] EXCEPT
                              !.edges = @ \cup {[to |-> id, weight |-> Weight(h, g.nodes[k].hash)]}]
                      ELSE g.nodes[k]
            joined == [k \in PlacesOf(g) |-> old(k)]
<1>1. n \in Nat /\ PlacesOf(g) = 1 .. n
  BY GraphFields
<1>2. t = [nodes |-> Append(joined, node), map |-> Put(g.map, id, n + 1),
           ino_map |-> Put(g.ino_map, ino, id), stored |-> Put(g.stored, id, [inos |-> <<ino>>, hash |-> h])]
  BY DEF AppendNode, PlacesOf, EdgesTo
<1>3. node \in NodeRec /\ [inos |-> <<ino>>, hash |-> h] \in StoredRec
  <2>1. <<ino>> \in Seq(Inos)
    OBVIOUS
  <2>2. EdgesTo(g, h) \in SUBSET EdgeRec
    BY EdgesTyped
  <2>3. node \in NodeRec
    BY <2>1, <2>2, NodeType
  <2>. QED
    BY <2>1, <2>3 DEF StoredRec
<1>4. ASSUME NEW k \in PlacesOf(g)
      PROVE  /\ old(k) \in NodeRec
             /\ old(k).id = g.nodes[k].id /\ old(k).hash = g.nodes[k].hash
             /\ old(k).inos = g.nodes[k].inos /\ old(k).edges = JoinedTo(g, k, id, h)
  <2>1. CASE k \in Neighbours(g, h)
    <3>. DEFINE edges == g.nodes[k].edges \cup {[to |-> id, weight |-> Weight(h, g.nodes[k].hash)]}
    <3>1. edges = JoinedTo(g, k, id, h)
      BY <2>1 DEF JoinedTo
    <3>2. old(k) = [g.nodes[k] EXCEPT !.edges = edges]
      BY <2>1
    <3>3. edges \in SUBSET EdgeRec
      BY <3>1, EdgesTyped
    <3>4. g.nodes[k] \in NodeRec /\ g.nodes[k].inos \in Seq(Inos)
      BY GraphFields
    <3>. HIDE DEF edges
    <3>5. /\ [g.nodes[k] EXCEPT !.edges = edges] \in NodeRec
          /\ [g.nodes[k] EXCEPT !.edges = edges].inos = g.nodes[k].inos
          /\ [g.nodes[k] EXCEPT !.edges = edges].id = g.nodes[k].id
          /\ [g.nodes[k] EXCEPT !.edges = edges].hash = g.nodes[k].hash
          /\ [g.nodes[k] EXCEPT !.edges = edges].edges = edges
      BY <3>3, <3>4, NodeExcept
    <3>. HIDE DEF old
    <3>. QED
      BY <3>1, <3>2, <3>5
  <2>2. CASE k \notin Neighbours(g, h)
    BY <2>2, GraphFields DEF JoinedTo
  <2>. QED
    BY <2>1, <2>2
<1>. HIDE DEF node, old
<1>5. joined \in Seq(NodeRec) /\ Len(joined) = n
  <2>1. joined \in [1 .. n -> NodeRec]
    BY <1>1, <1>4
  <2>. HIDE DEF joined
  <2>. QED
    BY <1>1, <2>1, SeqDef
<1>6. /\ Append(joined, node) \in Seq(NodeRec) /\ Len(Append(joined, node)) = n + 1
      /\ Append(joined, node)[n + 1] = node
      /\ \A k \in 1 .. n : Append(joined, node)[k] = old(k)
  <2>1. \A k \in 1 .. n : joined[k] = old(k)
    BY <1>1
  <2>. HIDE DEF joined
  <2>. QED
    BY <1>1, <1>3, <1>5, <2>1
<1>7. t \in GraphRec
  <2>1. Put(g.map, id, n + 1) \in Maps(NodeIds, Nat)
    <3>1. n + 1 \in Nat /\ g.map \in Maps(NodeIds, Nat)
      BY <1>1, GraphFields
    <3>. QED
      BY <3>1, PutType
  <2>2. Put(g.ino_map, ino, id) \in Maps(Inos, NodeIds)
    BY GraphFields, PutType
  <2>3. Put(g.stored, id, [inos |-> <<ino>>, hash |-> h]) \in Maps(NodeIds, StoredRec)
    BY <1>3, GraphFields, PutType
  <2>. HIDE DEF joined, n
  <2>. QED
    BY <1>2, <1>6, <2>1, <2>2, <2>3, GraphMade
<1>8. Appended(g, t, id, ino, h)
  <2>1. /\ t.nodes = Append(joined, node) /\ t.map = Put(g.map, id, n + 1)
        /\ t.stored = Put(g.stored, id, [inos |-> <<ino>>, hash |-> h])
    BY <1>2
  <2>2. node.id = id /\ node.hash = h /\ node.inos = <<ino>> /\ node.edges = EdgesTo(g, h)
    BY DEF node
  <2>. HIDE DEF joined
  <2>. QED
    BY <1>1, <1>4, <1>6, <2>1, <2>2 DEF Appended
<1>. QED
  BY <1>7, <1>8

(* A new node is joined to all within distance 2.                            *)
LEMMA CloseAreNeighbours ==
  ASSUME NEW g \in GraphRec, NEW h \in Hashes, NEW k \in PlacesOf(g), Weight(h, g.nodes[k].hash) <= 2
  PROVE  k \in Neighbours(g, h)
<1>1. \A l \in PlacesOf(g) : Weight(h, g.nodes[l].hash) \in Nat
  BY GraphFields, WeightIs
<1>2. CASE \E l \in PlacesOf(g) : Weight(h, g.nodes[l].hash) < 2
  BY <1>2 DEF Neighbours, PlacesOf
<1>3. CASE \A l \in PlacesOf(g) : ~(Weight(h, g.nodes[l].hash) < 2)
  <2>1. \A l \in PlacesOf(g) : Weight(h, g.nodes[k].hash) <= Weight(h, g.nodes[l].hash)
    BY <1>1, <1>3
  <2>2. k \in Nearest(g, h)
    BY <2>1 DEF Nearest, PlacesOf
  <2>. QED
    BY <1>3, <2>2 DEF Neighbours, PlacesOf
<1>. QED
  BY <1>2, <1>3

LEMMA AppendedGood ==
  ASSUME NEW g \in GraphRec, NEW id \in NodeIds, NEW ino \in Inos, NEW h \in Hashes,
         NEW t \in GraphRec, Appended(g, t, id, ino, h),
         id \notin IdsOf(g), ~HasHash(g, h)
  PROVE  /\ IdsOf(t) = IdsOf(g) \cup {id}
         /\ Consistent(g) => Consistent(t)
         /\ Saved(g) => Saved(t)
<1>. DEFINE n == Len(g.nodes)
            near == Neighbours(g, h)
<1>1. n \in Nat /\ PlacesOf(g) = 1 .. n /\ PlacesOf(t) = 1 .. n + 1 /\ n + 1 \notin 1 .. n
  <2>1. n \in Nat /\ PlacesOf(g) = 1 .. n
    BY GraphFields
  <2>2. PlacesOf(t) = 1 .. n + 1
    BY GraphFields DEF Appended
  <2>. QED
    BY <2>1, <2>2
<1>2. \A k \in PlacesOf(g) :
        /\ t.nodes[k].id = g.nodes[k].id /\ t.nodes[k].hash = g.nodes[k].hash
        /\ t.nodes[k].inos = g.nodes[k].inos
        /\ t.nodes[k].edges = JoinedTo(g, k, id, h)
  BY <1>1 DEF Appended
<1>3. /\ t.nodes[n + 1].id = id /\ t.nodes[n + 1].hash = h /\ t.nodes[n + 1].inos = <<ino>>
      /\ t.nodes[n + 1].edges = EdgesTo(g, h)
      /\ t.map = Put(g.map, id, n + 1)
      /\ t.stored = Put(g.stored, id, [inos |-> <<ino>>, hash |-> h])
  BY DEF Appended
<1>4. PlacesOf(t) = PlacesOf(g) \cup {n + 1} /\ n + 1 \notin PlacesOf(g)
  <2>. HIDE DEF n
  <2>. QED
    BY <1>1
<1>5. near \in SUBSET PlacesOf(g)
  BY NeighboursThere
<1>. HIDE DEF n, near
<1>6. IdsOf(t) = IdsOf(g) \cup {id}
  BY <1>2, <1>3, <1>4 DEF IdsOf
<1>7. n + 1 \in Nat /\ \A k \in PlacesOf(g) : g.nodes[k].id # id /\ g.nodes[k].hash # h /\ k # n + 1
  BY <1>1, <1>4 DEF IdsOf, HasHash, PlacesOf
<1>8. \A k, l \in PlacesOf(g) : WeightOf(t, k, l) = WeightOf(g, k, l) /\ EdgeOf(t, k, l) = EdgeOf(g, k, l)
  BY <1>2 DEF WeightOf, EdgeOf
<1>9. \A k \in PlacesOf(g) :
        /\ EdgeOf(t, n + 1, k) = [to |-> g.nodes[k].id, weight |-> Weight(h, g.nodes[k].hash)]
        /\ EdgeOf(t, k, n + 1) = [to |-> id, weight |-> Weight(h, g.nodes[k].hash)]
        /\ WeightOf(t, k, n + 1) = Weight(h, g.nodes[k].hash)
        /\ WeightOf(t, n + 1, k) = Weight(h, g.nodes[k].hash)
  <2>1. \A k \in PlacesOf(g) : Weight(h, g.nodes[k].hash) = Weight(g.nodes[k].hash, h)
    BY GraphFields, WeightIs
  <2>. QED
    BY <1>2, <1>3, <2>1 DEF WeightOf, EdgeOf
<1>10. \A k \in PlacesOf(g) :
         t.nodes[k].edges = IF k \in near THEN g.nodes[k].edges \cup {EdgeOf(t, k, n + 1)}
                            ELSE g.nodes[k].edges
  BY <1>2, <1>9 DEF JoinedTo, near
<1>11. t.nodes[n + 1].edges = {EdgeOf(t, n + 1, k) : k \in near}
  <2>1. t.nodes[n + 1].edges = {[to |-> g.nodes[k].id, weight |-> Weight(h, g.nodes[k].hash)] : k \in near}
    BY <1>3 DEF EdgesTo, near
  <2>2. \A k \in near :
          EdgeOf(t, n + 1, k) = [to |-> g.nodes[k].id, weight |-> Weight(h, g.nodes[k].hash)]
    BY <1>5, <1>9
  <2>. QED
    BY <2>1, <2>2
<1>12. ASSUME Consistent(g) PROVE MapOk(t)
  <2>1. g.map \in Maps(NodeIds, Nat) /\ MapOk(g)
    BY <1>12, GraphFields DEF Consistent
  <2>2. /\ DOMAIN t.map = DOMAIN g.map \cup {id} /\ t.map[id] = n + 1
        /\ \A y \in DOMAIN g.map : y # id => t.map[y] = g.map[y]
    <3>. DEFINE m == Put(g.map, id, n + 1)
    <3>1. /\ DOMAIN m = DOMAIN g.map \cup {id} /\ m[id] = n + 1
          /\ \A y \in DOMAIN g.map : y # id => m[y] = g.map[y]
      BY DEF Put
    <3>. QED
      BY <1>3, <3>1
  <2>3. \A k \in PlacesOf(g) : t.map[t.nodes[k].id] = k
    BY <1>2, <1>7, <2>1, <2>2 DEF MapOk, IdsOf
  <2>. QED
    BY <1>3, <1>4, <1>6, <2>1, <2>2, <2>3 DEF MapOk
<1>13. ASSUME Consistent(g) PROVE HashesOk(t)
  <2>1. HashesOk(g)
    BY <1>13 DEF Consistent
  <2>. QED
    BY <1>2, <1>3, <1>4, <1>7, <2>1 DEF HashesOk
<1>14. ASSUME Consistent(g) PROVE EdgesOk(t)
  <2>1. EdgesOk(g)
    BY <1>14 DEF Consistent
  <2>. SUFFICES ASSUME NEW k \in PlacesOf(t), NEW e \in t.nodes[k].edges
                PROVE  \E l \in PlacesOf(t) \ {k} : e = EdgeOf(t, k, l) /\ EdgeOf(t, l, k) \in t.nodes[l].edges
    BY DEF EdgesOk
  <2>2. CASE k \in PlacesOf(g) /\ e \in g.nodes[k].edges
    <3>1. PICK l \in PlacesOf(g) \ {k} : e = EdgeOf(g, k, l) /\ EdgeOf(g, l, k) \in g.nodes[l].edges
      BY <2>1, <2>2 DEF EdgesOk
    <3>2. e = EdgeOf(t, k, l) /\ EdgeOf(t, l, k) \in t.nodes[l].edges
      BY <1>8, <1>10, <2>2, <3>1
    <3>. QED
      BY <1>4, <3>1, <3>2
  <2>3. CASE k \in PlacesOf(g) /\ e \notin g.nodes[k].edges
    <3>1. k \in near /\ e = EdgeOf(t, k, n + 1)
      BY <1>10, <2>3
    <3>2. EdgeOf(t, n + 1, k) \in t.nodes[n + 1].edges
      BY <1>11, <3>1
    <3>. QED
      BY <1>4, <1>7, <2>3, <3>1, <3>2
  <2>4. CASE k = n + 1
    <3>1. PICK l \in near : e = EdgeOf(t, n + 1, l)
      BY <1>11, <2>4
    <3>2. EdgeOf(t, l, n + 1) \in t.nodes[l].edges
      BY <1>5, <1>10, <3>1
    <3>. QED
      BY <1>4, <1>5, <1>7, <2>4, <3>1, <3>2
  <2>. QED
    BY <1>4, <2>2, <2>3, <2>4
<1>15. ASSUME Consistent(g) PROVE CloseJoined(t)
  <2>1. CloseJoined(g)
    BY <1>15 DEF Consistent
  <2>. SUFFICES ASSUME NEW k \in PlacesOf(t), NEW l \in PlacesOf(t), k # l, WeightOf(t, k, l) <= 2
                PROVE  EdgeOf(t, k, l) \in t.nodes[k].edges
    BY DEF CloseJoined
  <2>2. CASE k \in PlacesOf(g) /\ l \in PlacesOf(g)
    <3>1. EdgeOf(g, k, l) \in g.nodes[k].edges
      BY <1>8, <2>1, <2>2 DEF CloseJoined
    <3>. QED
      BY <1>8, <1>10, <2>2, <3>1
  <2>3. CASE k = n + 1 /\ l \in PlacesOf(g)
    <3>1. l \in near
      BY <1>9, <2>3, CloseAreNeighbours DEF near
    <3>. QED
      BY <1>11, <2>3, <3>1
  <2>4. CASE k \in PlacesOf(g) /\ l = n + 1
    <3>1. k \in near
      BY <1>9, <2>4, CloseAreNeighbours DEF near
    <3>. QED
      BY <1>10, <2>4, <3>1
  <2>. QED
    BY <1>4, <2>2, <2>3, <2>4
<1>16. ASSUME Saved(g) PROVE Saved(t)
  <2>1. g.stored \in Maps(NodeIds, StoredRec) /\ [inos |-> <<ino>>, hash |-> h] \in StoredRec
    <3>1. <<ino>> \in Seq(Inos)
      OBVIOUS
    <3>. QED
      BY <3>1, GraphFields DEF StoredRec
  <2>2. /\ DOMAIN t.stored = DOMAIN g.stored \cup {id}
        /\ t.stored[id] = [inos |-> <<ino>>, hash |-> h]
        /\ \A y \in DOMAIN g.stored : y # id => t.stored[y] = g.stored[y]
    <3>. DEFINE m == Put(g.stored, id, [inos |-> <<ino>>, hash |-> h])
    <3>1. /\ DOMAIN m = DOMAIN g.stored \cup {id} /\ m[id] = [inos |-> <<ino>>, hash |-> h]
          /\ \A y \in DOMAIN g.stored : y # id => m[y] = g.stored[y]
      BY DEF Put
    <3>. QED
      BY <1>3, <3>1
  <2>3. \A k \in PlacesOf(g) : SavedAs(t, k, t.nodes[k].id, t.nodes[k].hash)
    BY <1>2, <1>7, <1>16, <2>2 DEF Saved, SavedAs
  <2>4. SavedAs(t, n + 1, id, h)
    <3>1. <<ino>> # <<>>
      OBVIOUS
    <3>2. t.stored[id].hash = h /\ t.stored[id].inos = <<ino>>
      BY <2>2
    <3>. QED
      BY <1>3, <2>2, <3>1, <3>2 DEF SavedAs
  <2>. QED
    BY <1>3, <1>4, <2>3, <2>4 DEF Saved
<1>. QED
  BY <1>6, <1>12, <1>13, <1>14, <1>15, <1>16 DEF Consistent

-----------------------------------------------------------------------------
(* insert_node keeps all of it, if the id is new or the hash is there.       *)

Fits(g, id, h) == HasHash(g, h) \/ id \notin IdsOf(g)

LEMMA NodeInserted ==
  ASSUME NEW g \in GraphRec, NEW id \in NodeIds, NEW ino \in Inos, NEW h \in Hashes, NEW t,
         t = InsertNode(g, id, ino, h)
  PROVE  /\ t \in GraphRec
         /\ \A x : HasHash(g, x) => HasHash(t, x)
         /\ HasHash(t, h)
         /\ Fits(g, id, h) =>
              /\ IdsOf(t) \subseteq IdsOf(g) \cup {id}
              /\ Consistent(g) => Consistent(t)
              /\ Saved(g) => Saved(t)
<1>1. CASE HasHash(g, h)
  <2>. DEFINE k == PlaceOf(g, h)
  <2>1. k \in PlacesOf(g) /\ t = AddIno(g, k, ino)
    BY <1>1, PlaceOfIs DEF InsertNode
  <2>. HIDE DEF k
  <2>2. t \in GraphRec /\ SameShape(g, t) /\ (Consistent(g) => Consistent(t)) /\ (Saved(g) => Saved(t))
    BY <2>1, InoAdded, InoAddedGood
  <2>3. IdsOf(t) = IdsOf(g) /\ \A x : HasHash(g, x) <=> HasHash(t, x)
    BY <2>2 DEF SameShape, IdsOf, HasHash, PlacesOf
  <2>. QED
    BY <1>1, <2>2, <2>3
<1>2. CASE ~HasHash(g, h)
  <2>1. t = AppendNode(g, id, ino, h)
    BY <1>2 DEF InsertNode
  <2>2. t \in GraphRec /\ Appended(g, t, id, ino, h)
    BY <2>1, NodeAppended
  <2>3. PlacesOf(g) = 1 .. Len(g.nodes) /\ PlacesOf(t) = 1 .. Len(g.nodes) + 1 /\ Len(g.nodes) \in Nat
    BY <2>2, GraphFields DEF Appended
  <2>4. \A k \in PlacesOf(g) : k \in PlacesOf(t) /\ t.nodes[k].hash = g.nodes[k].hash
    BY <2>2, <2>3 DEF Appended
  <2>5. Len(g.nodes) + 1 \in PlacesOf(t) /\ t.nodes[Len(g.nodes) + 1].hash = h
    BY <2>2, <2>3 DEF Appended
  <2>6. HasHash(t, h) /\ \A x : HasHash(g, x) => HasHash(t, x)
    BY <2>4, <2>5 DEF HasHash, PlacesOf
  <2>. QED
    BY <1>2, <2>2, <2>6, AppendedGood DEF Fits
<1>. QED
  BY <1>1, <1>2

-----------------------------------------------------------------------------
(* Nodes that are deleted.                                                   *)

(* Where a node was before the one at place k went, and where it is after.   *)
Old(k, m) == IF m < k THEN m ELSE m + 1
New(k, p) == IF p > k THEN p - 1 ELSE p

LEMMA OldAndNew ==
  ASSUME NEW n \in Nat, NEW k \in 1 .. n
  PROVE  /\ n - 1 \in Nat
         /\ \A m \in 1 .. n - 1 : Old(k, m) \in 1 .. n /\ Old(k, m) # k /\ New(k, Old(k, m)) = m
         /\ \A p \in 1 .. n : p # k => New(k, p) \in 1 .. n - 1 /\ Old(k, New(k, p)) = p
         /\ \A m, p \in 1 .. n - 1 : Old(k, m) = Old(k, p) => m = p
BY DEF Old, New

LEMMA IdsDistinct ==
  ASSUME NEW g, MapOk(g), NEW k \in PlacesOf(g), NEW l \in PlacesOf(g), g.nodes[k].id = g.nodes[l].id
  PROVE  k = l
BY DEF MapOk

(* The nodes keep their edges but for those to the one that went.            *)
Deleted(g, t, k) ==
  LET n  == Len(g.nodes)
      id == g.nodes[k].id
  IN
  /\ Len(t.nodes) = n - 1
  /\ \A m \in 1 .. n - 1 :
       /\ t.nodes[m].id = g.nodes[Old(k, m)].id /\ t.nodes[m].hash = g.nodes[Old(k, m)].hash
       /\ t.nodes[m].inos = g.nodes[Old(k, m)].inos
       /\ t.nodes[m].edges = {e \in g.nodes[Old(k, m)].edges : e.to # id}
  /\ t.map = MapWithout(g, k)
  /\ t.stored = Drop(g.stored, {id})

LEMMA MapWithoutIs ==
  ASSUME NEW g \in GraphRec, MapOk(g), NEW k \in PlacesOf(g)
  PROVE  /\ MapWithout(g, k) \in Maps(NodeIds, Nat)
         /\ DOMAIN MapWithout(g, k) = IdsOf(g) \ {g.nodes[k].id}
         /\ \A p \in PlacesOf(g) : p # k => MapWithout(g, k)[g.nodes[p].id] = New(k, p)
<1>. DEFINE left == Drop(g.map, {g.nodes[k].id})
<1>1. left \in Maps(NodeIds, Nat) /\ k \in Nat
  BY GraphFields, DropType
<1>2. DOMAIN left = IdsOf(g) \ {g.nodes[k].id} /\ \A y \in DOMAIN left : left[y] = g.map[y]
  BY DEF Drop, MapOk
<1>3. MapWithout(g, k) = [x \in DOMAIN left |-> IF left[x] > k THEN left[x] - 1 ELSE left[x]]
  BY DEF MapWithout
<1>. HIDE DEF left
<1>4. left \in [DOMAIN left -> Nat] /\ DOMAIN left \in SUBSET NodeIds
  BY <1>1, MapsIs
<1>5. \A x \in DOMAIN left : (IF left[x] > k THEN left[x] - 1 ELSE left[x]) \in Nat
  BY <1>1, <1>4
<1>6. MapWithout(g, k) \in [DOMAIN left -> Nat]
  BY <1>3, <1>5
<1>7. \A p \in PlacesOf(g) : p # k => g.nodes[p].id \in DOMAIN left /\ left[g.nodes[p].id] = p
  BY <1>2, IdsDistinct DEF IdsOf, MapOk
<1>. QED
  BY <1>2, <1>3, <1>4, <1>6, <1>7 DEF Maps, New

(* A node that has an edge to another one is found through the other's.      *)
LEMMA EdgeBack ==
  ASSUME NEW g \in GraphRec, MapOk(g), EdgesOk(g), NEW k \in PlacesOf(g), NEW p \in PlacesOf(g),
         NEW e \in g.nodes[p].edges, e.to = g.nodes[k].id
  PROVE  p # k /\ \E f \in g.nodes[k].edges : f.to = g.nodes[p].id
<1>1. PICK l \in PlacesOf(g) \ {p} : e = EdgeOf(g, p, l) /\ EdgeOf(g, l, p) \in g.nodes[l].edges
  BY DEF EdgesOk
<1>2. e.to = g.nodes[l].id
  BY <1>1 DEF EdgeOf
<1>3. l = k
  BY <1>2, IdsDistinct
<1>4. EdgeOf(g, l, p).to = g.nodes[p].id
  BY DEF EdgeOf
<1>. QED
  BY <1>1, <1>3, <1>4

LEMMA NodeDeleted ==
  ASSUME NEW g \in GraphRec, Consistent(g), NEW k \in PlacesOf(g), NEW t, t = DeleteNode(g, k)
  PROVE  t \in GraphRec /\ Deleted(g, t, k)
<1>. DEFINE n == Len(g.nodes)
            id == g.nodes[k].id
            rest == Without(g.nodes, k)
            near == {MapWithout(g, k)[e.to] : e \in g.nodes[k].edges}
            less(x) == {e \in x.edges : e.to # id}
            new(m) == IF m \in near THEN [rest[m] EXCEPT !.edges = {e \in @ : e.to # id}] ELSE rest[m]
            u == [m \in DOMAIN rest |-> new(m)]
<1>1. n \in Nat /\ n - 1 \in Nat /\ PlacesOf(g) = 1 .. n /\ k \in 1 .. n /\ k \in PlacesOf(g)
  BY GraphFields
<1>2. t = [nodes |-> u, map |-> MapWithout(g, k), ino_map |-> Drop(g.ino_map, Range(g.nodes[k].inos)),
           stored |-> Drop(g.stored, {id})]
  BY DEF DeleteNode
<1>3. DOMAIN rest = 1 .. n - 1 /\ \A m \in 1 .. n - 1 : rest[m] = g.nodes[Old(k, m)]
  BY <1>1 DEF Without, Old
<1>4. ASSUME NEW m \in 1 .. n - 1
      PROVE  /\ new(m) \in NodeRec
             /\ new(m).id = g.nodes[Old(k, m)].id /\ new(m).hash = g.nodes[Old(k, m)].hash
             /\ new(m).inos = g.nodes[Old(k, m)].inos /\ new(m).edges = less(g.nodes[Old(k, m)])
  <2>. DEFINE p == Old(k, m)
  <2>1. p \in PlacesOf(g) /\ p # k /\ New(k, p) = m
    <3>. HIDE DEF n
    <3>1. Old(k, m) \in 1 .. n /\ Old(k, m) # k /\ New(k, Old(k, m)) = m
      BY <1>1, OldAndNew
    <3>. QED
      BY <1>1, <3>1
  <2>2. rest[m] = g.nodes[p] /\ g.nodes[p] \in NodeRec /\ g.nodes[p].inos \in Seq(Inos)
        /\ g.nodes[p].edges \in SUBSET EdgeRec
    BY <1>3, <2>1, GraphFields
  <2>. HIDE DEF p
  <2>3. CASE m \in near
    <3>1. less(g.nodes[p]) \in SUBSET EdgeRec
      BY <2>2
    <3>2. new(m) = [g.nodes[p] EXCEPT !.edges = less(g.nodes[p])]
      BY <2>2, <2>3
    <3>. DEFINE es == less(g.nodes[p])
    <3>. HIDE DEF es
    <3>3. /\ [g.nodes[p] EXCEPT !.edges = es] \in NodeRec
          /\ [g.nodes[p] EXCEPT !.edges = es].inos = g.nodes[p].inos
          /\ [g.nodes[p] EXCEPT !.edges = es].id = g.nodes[p].id
          /\ [g.nodes[p] EXCEPT !.edges = es].hash = g.nodes[p].hash
          /\ [g.nodes[p] EXCEPT !.edges = es].edges = es
      <4>1. es \in SUBSET EdgeRec
        BY <3>1 DEF es
      <4>2. g.nodes[p] \in NodeRec /\ g.nodes[p].inos \in Seq(Inos)
        BY <2>2
      <4>. QED
        BY <4>1, <4>2, NodeExcept
    <3>4. new(m) = [g.nodes[p] EXCEPT !.edges = es]
      BY <3>2 DEF es
    <3>. HIDE DEF new
    <3>5. es = less(g.nodes[p])
      BY DEF es
    <3>. QED
      BY <3>3, <3>4, <3>5 DEF p
  <2>4. CASE m \notin near
    <3>1. ASSUME NEW e \in g.nodes[p].edges, e.to = id PROVE FALSE
      <4>1. PICK f \in g.nodes[k].edges : f.to = g.nodes[p].id
        BY <2>1, <3>1, EdgeBack DEF Consistent
      <4>2. MapWithout(g, k)[f.to] = m
        BY <2>1, <4>1, MapWithoutIs DEF Consistent
      <4>. QED
        BY <2>4, <4>1, <4>2
    <3>2. less(g.nodes[p]) = g.nodes[p].edges
      BY <3>1
    <3>3. new(m) = g.nodes[p]
      BY <2>2, <2>4
    <3>. QED
      BY <2>2, <3>2, <3>3 DEF p
  <2>. QED
    BY <2>3, <2>4
<1>. HIDE DEF new
<1>5. u \in Seq(NodeRec) /\ Len(u) = n - 1 /\ \A m \in 1 .. n - 1 : u[m] = new(m)
  <2>. DEFINE q == n - 1
  <2>1. u \in [1 .. q -> NodeRec] /\ \A m \in 1 .. q : u[m] = new(m)
    BY <1>3, <1>4
  <2>2. q \in Nat
    BY <1>1
  <2>. HIDE DEF u, q
  <2>3. u \in Seq(NodeRec) /\ Len(u) = q
    BY <2>1, <2>2, SeqDef
  <2>. QED
    BY <2>1, <2>3 DEF q
<1>6. /\ MapWithout(g, k) \in Maps(NodeIds, Nat)
      /\ Drop(g.ino_map, Range(g.nodes[k].inos)) \in Maps(Inos, NodeIds)
      /\ Drop(g.stored, {id}) \in Maps(NodeIds, StoredRec)
  BY GraphFields, DropType, MapWithoutIs DEF Consistent
<1>. HIDE DEF u
<1>7. t \in GraphRec
  BY <1>2, <1>5, <1>6, GraphMade
<1>8. Deleted(g, t, k)
  <2>1. t.nodes = u /\ t.map = MapWithout(g, k) /\ t.stored = Drop(g.stored, {id})
    BY <1>2
  <2>. QED
    BY <1>4, <1>5, <2>1 DEF Deleted
<1>. QED
  BY <1>7, <1>8

LEMMA DeletedGood ==
  ASSUME NEW g \in GraphRec, Consistent(g), NEW k \in PlacesOf(g),
         NEW t \in GraphRec, Deleted(g, t, k)
  PROVE  Consistent(t) /\ IdsOf(t) = IdsOf(g) \ {g.nodes[k].id} /\ (Saved(g) => Saved(t))
<1>. DEFINE n == Len(g.nodes)
            id == g.nodes[k].id
            was(m) == Old(k, m)
            now(p) == New(k, p)
<1>1. MapOk(g) /\ HashesOk(g) /\ EdgesOk(g) /\ CloseJoined(g)
  BY DEF Consistent
<1>2. n \in Nat /\ PlacesOf(g) = 1 .. n /\ PlacesOf(t) = 1 .. n - 1
  <2>1. n \in Nat /\ PlacesOf(g) = 1 .. n
    BY GraphFields
  <2>2. PlacesOf(t) = 1 .. n - 1
    BY GraphFields DEF Deleted
  <2>. QED
    BY <2>1, <2>2
<1>3. \A m \in PlacesOf(t) :
        /\ t.nodes[m].id = g.nodes[was(m)].id /\ t.nodes[m].hash = g.nodes[was(m)].hash
        /\ t.nodes[m].inos = g.nodes[was(m)].inos
        /\ t.nodes[m].edges = {e \in g.nodes[was(m)].edges : e.to # id}
  BY <1>2 DEF Deleted
<1>4. t.map = MapWithout(g, k) /\ t.stored = Drop(g.stored, {id})
  BY DEF Deleted
<1>5. /\ \A m \in PlacesOf(t) : was(m) \in PlacesOf(g) /\ was(m) # k /\ now(was(m)) = m
      /\ \A p \in PlacesOf(g) : p # k => now(p) \in PlacesOf(t) /\ was(now(p)) = p
      /\ \A m, p \in PlacesOf(t) : was(m) = was(p) => m = p
  BY <1>2, OldAndNew
<1>6. \A m \in PlacesOf(t) : g.nodes[was(m)].id # id
  BY <1>1, <1>5, IdsDistinct
<1>. HIDE DEF n, id, was, now
<1>7. IdsOf(t) = IdsOf(g) \ {id}
  <2>1. ASSUME NEW x \in IdsOf(t) PROVE x \in IdsOf(g) \ {id}
    BY <1>3, <1>5, <1>6 DEF IdsOf
  <2>2. ASSUME NEW x \in IdsOf(g) \ {id} PROVE x \in IdsOf(t)
    <3>1. PICK p \in PlacesOf(g) : x = g.nodes[p].id
      BY DEF IdsOf
    <3>2. p # k
      BY <3>1 DEF id
    <3>3. now(p) \in PlacesOf(t) /\ t.nodes[now(p)].id = x
      BY <1>3, <1>5, <3>1, <3>2
    <3>. QED
      BY <3>3 DEF IdsOf
  <2>. QED
    BY <2>1, <2>2
<1>8. MapOk(t)
  <2>1. DOMAIN t.map = IdsOf(t)
    BY <1>1, <1>4, <1>7, MapWithoutIs DEF id
  <2>2. ASSUME NEW m \in PlacesOf(t) PROVE t.map[t.nodes[m].id] = m
    <3>. DEFINE p == was(m)
    <3>1. p \in PlacesOf(g) /\ p # k /\ now(p) = m
      BY <1>5
    <3>. HIDE DEF p
    <3>2. MapWithout(g, k)[g.nodes[p].id] = now(p)
      BY <1>1, <3>1, MapWithoutIs DEF now
    <3>. QED
      BY <1>3, <1>4, <3>1, <3>2 DEF p
  <2>. QED
    BY <2>1, <2>2 DEF MapOk
<1>9. HashesOk(t)
  BY <1>1, <1>3, <1>5 DEF HashesOk
<1>10. \A m, p \in PlacesOf(t) :
         /\ EdgeOf(t, m, p) = EdgeOf(g, was(m), was(p))
         /\ WeightOf(t, m, p) = WeightOf(g, was(m), was(p))
         /\ EdgeOf(t, m, p).to # id
  BY <1>3, <1>6 DEF EdgeOf, WeightOf
<1>11. EdgesOk(t)
  <2>. SUFFICES ASSUME NEW m \in PlacesOf(t), NEW e \in t.nodes[m].edges
                PROVE  \E p \in PlacesOf(t) \ {m} : e = EdgeOf(t, m, p) /\ EdgeOf(t, p, m) \in t.nodes[p].edges
    BY DEF EdgesOk
  <2>1. was(m) \in PlacesOf(g) /\ e \in g.nodes[was(m)].edges /\ e.to # id
    BY <1>3, <1>5
  <2>2. PICK l \in PlacesOf(g) \ {was(m)} :
          e = EdgeOf(g, was(m), l) /\ EdgeOf(g, l, was(m)) \in g.nodes[l].edges
    BY <1>1, <2>1 DEF EdgesOk
  <2>3. l # k
    BY <2>1, <2>2 DEF EdgeOf, id
  <2>. DEFINE p == now(l)
  <2>4. p \in PlacesOf(t) /\ was(p) = l
    BY <1>5, <2>2, <2>3
  <2>5. p # m
    BY <2>2, <2>4
  <2>. HIDE DEF p
  <2>6. e = EdgeOf(t, m, p)
    BY <1>10, <2>2, <2>4
  <2>7. EdgeOf(t, p, m) \in g.nodes[was(p)].edges /\ EdgeOf(t, p, m).to # id
    BY <1>10, <2>2, <2>4
  <2>8. EdgeOf(t, p, m) \in t.nodes[p].edges
    BY <1>3, <2>4, <2>7
  <2>. QED
    BY <2>4, <2>5, <2>6, <2>8
<1>12. CloseJoined(t)
  <2>. SUFFICES ASSUME NEW m \in PlacesOf(t), NEW p \in PlacesOf(t), m # p, WeightOf(t, m, p) <= 2
                PROVE  EdgeOf(t, m, p) \in t.nodes[m].edges
    BY DEF CloseJoined
  <2>1. was(m) # was(p) /\ WeightOf(g, was(m), was(p)) <= 2
    BY <1>5, <1>10
  <2>2. EdgeOf(g, was(m), was(p)) \in g.nodes[was(m)].edges
    BY <1>1, <1>5, <2>1 DEF CloseJoined
  <2>3. EdgeOf(t, m, p) \in g.nodes[was(m)].edges /\ EdgeOf(t, m, p).to # id
    BY <1>10, <2>2
  <2>. QED
    BY <1>3, <2>3
<1>13. ASSUME Saved(g) PROVE Saved(t)
  <2>1. DOMAIN t.stored = DOMAIN g.stored \ {id} /\ \A y \in DOMAIN g.stored \ {id} : t.stored[y] = g.stored[y]
    BY <1>4 DEF Drop
  <2>2. \A m \in PlacesOf(t) : SavedAs(g, was(m), g.nodes[was(m)].id, g.nodes[was(m)].hash)
    BY <1>5, <1>13 DEF Saved
  <2>. QED
    BY <1>3, <1>6, <2>1, <2>2 DEF Saved, SavedAs
<1>. QED
  BY <1>7, <1>8, <1>9, <1>11, <1>12, <1>13 DEF Consistent, id

-----------------------------------------------------------------------------
(* One occurrence of an inode is taken.                                      *)

LEMMA LeastIs ==
  ASSUME NEW n \in Nat, NEW s \in SUBSET (1 .. n), s # {}
  PROVE  Min(s) \in s
<1>1. PICK r \in s : \A x \in s : ~(<<x, r>> \in OpToRel(<, Nat))
  <2>1. s \in SUBSET Nat
    OBVIOUS
  <2>. QED
    BY <2>1, NatLessThanWellFounded, WFMin
<1>2. ASSUME NEW x \in s PROVE ~(x < r)
  <2>1. <<x, r>> \in Nat \X Nat
    OBVIOUS
  <2>. QED
    BY <1>1, <2>1 DEF OpToRel
<1>3. \A x \in s : r <= x
  BY <1>2
<1>. QED
  BY <1>3 DEF Min

LEMMA NotEmpty ==
  ASSUME NEW S, NEW s \in Seq(S)
  PROVE  Len(s) \in Nat /\ (s = <<>> <=> Len(s) = 0)
BY EmptySeq

LEMMA FirstRemoved ==
  ASSUME NEW inos \in Seq(Inos), NEW ino, Len(inos) # 1, inos # <<>>
  PROVE  RemoveFirst(inos, ino) \in Seq(Inos) /\ RemoveFirst(inos, ino) # <<>>
<1>. DEFINE n == Len(inos)
            I == {i \in 1 .. n : inos[i] = ino}
<1>1. n \in Nat /\ n >= 2
  <2>1. n \in Nat /\ n # 0 /\ n # 1
    BY NotEmpty
  <2>. HIDE DEF n
  <2>. QED
    BY <2>1
<1>2. CASE I = {}
  BY <1>2 DEF RemoveFirst
<1>3. CASE I # {}
  <2>. DEFINE i == Min(I)
  <2>1. i \in 1 .. n
    <3>1. I \in SUBSET (1 .. n)
      OBVIOUS
    <3>. HIDE DEF I, n
    <3>2. Min(I) \in I
      BY <1>1, <1>3, <3>1, LeastIs
    <3>. QED
      BY <3>1, <3>2
  <2>2. RemoveFirst(inos, ino) = SubSeq(inos, 1, i - 1) \o SubSeq(inos, i + 1, n)
    BY <1>3 DEF RemoveFirst, RemoveAt, SelectInSeq
  <2>. HIDE DEF i, n
  <2>. DEFINE a == SubSeq(inos, 1, i - 1)
              b == SubSeq(inos, i + 1, n)
  <2>3. a \in Seq(Inos) /\ Len(a) = i - 1 /\ b \in Seq(Inos) /\ Len(b) = n - i
    BY <1>1, <2>1, SubSeqProperties DEF n
  <2>. HIDE DEF a, b
  <2>4. a \o b \in Seq(Inos) /\ Len(a \o b) = n - 1
    BY <1>1, <2>1, <2>3, ConcatProperties
  <2>5. a \o b # <<>>
    <3>. DEFINE c == a \o b
    <3>1. c \in Seq(Inos) /\ Len(c) # 0
      BY <1>1, <2>4
    <3>. HIDE DEF c
    <3>2. c # <<>>
      BY <3>1, NotEmpty
    <3>. QED
      BY <3>2 DEF c
  <2>. QED
    BY <2>2, <2>4, <2>5 DEF a, b
<1>. QED
  BY <1>2, <1>3

LEMMA InoDeleted ==
  ASSUME NEW g \in GraphRec, Consistent(g), Saved(g), NEW k \in PlacesOf(g), NEW ino \in Inos,
         NEW t, t = DeleteIno(g, k, ino)
  PROVE  t \in GraphRec /\ Consistent(t) /\ Saved(t) /\ IdsOf(t) \subseteq IdsOf(g)
<1>1. CASE Len(g.nodes[k].inos) = 1
  <2>1. t = DeleteNode(g, k)
    BY <1>1 DEF DeleteIno
  <2>2. t \in GraphRec /\ Deleted(g, t, k)
    BY <2>1, NodeDeleted
  <2>. QED
    BY <2>2, DeletedGood
<1>2. CASE Len(g.nodes[k].inos) # 1
  <2>. DEFINE inos == RemoveFirst(g.nodes[k].inos, ino)
              u == WithInos(g, k, inos)
              id == g.nodes[k].id
              rec == [inos |-> inos, hash |-> g.nodes[k].hash]
              m == Put(g.stored, id, rec)
  <2>1. inos \in Seq(Inos) /\ inos # <<>>
    BY <1>2, GraphFields, FirstRemoved DEF Saved, SavedAs
  <2>. HIDE DEF inos
  <2>2. OtherInos(g, k, inos, u)
    BY <2>1, InosReplaced
  <2>3. rec \in StoredRec /\ id \in NodeIds
    BY <2>1, GraphFields DEF StoredRec
  <2>4. m \in Maps(NodeIds, StoredRec)
    <3>. HIDE DEF rec, id
    <3>. QED
      BY <2>3, GraphFields, PutType
  <2>5. t = [nodes |-> u, map |-> g.map, ino_map |-> g.ino_map, stored |-> m]
    <3>1. t = [g EXCEPT !.nodes[k].inos = inos, !.stored = Put(@, id, rec)]
      BY <1>2 DEF DeleteIno, inos
    <3>. QED
      BY <3>1 DEF GraphRec, WithInos
  <2>. HIDE DEF u, m
  <2>6. t \in GraphRec
    BY <2>2, <2>4, <2>5, GraphFields, GraphMade DEF OtherInos
  <2>7. t.nodes = u /\ t.map = g.map /\ t.stored = m
    BY <2>5
  <2>8. SameShape(g, t)
    BY <2>2, <2>7 DEF SameShape, PlacesOf, OtherInos
  <2>9. /\ DOMAIN m = DOMAIN g.stored \cup {id} /\ m[id] = rec
        /\ \A y \in DOMAIN g.stored : y # id => m[y] = g.stored[y]
    BY DEF m, Put
  <2>10. ASSUME NEW l \in PlacesOf(g) PROVE SavedAs(t, l, t.nodes[l].id, t.nodes[l].hash)
    <3>1. t.nodes[l].id = g.nodes[l].id /\ t.nodes[l].hash = g.nodes[l].hash
      BY <2>8 DEF SameShape
    <3>2. CASE l = k
      <4>1. t.nodes[k].inos # <<>> /\ t.stored[id].hash = g.nodes[k].hash /\ t.stored[id].inos # <<>>
            /\ id \in DOMAIN t.stored
        BY <2>1, <2>2, <2>7, <2>9 DEF OtherInos
      <4>. QED
        BY <3>1, <3>2, <4>1 DEF SavedAs
    <3>3. CASE l # k
      <4>1. g.nodes[l].id # id
        BY <3>3, IdsDistinct DEF Consistent
      <4>2. SavedAs(g, l, g.nodes[l].id, g.nodes[l].hash)
        BY DEF Saved
      <4>3. t.nodes[l].inos = g.nodes[l].inos
        BY <2>2, <2>7, <3>3 DEF OtherInos
      <4>. QED
        BY <2>7, <2>9, <3>1, <4>1, <4>2, <4>3 DEF SavedAs
    <3>. QED
      BY <3>2, <3>3
  <2>11. Saved(t)
    BY <2>8, <2>10 DEF Saved, SameShape
  <2>12. IdsOf(t) = IdsOf(g)
    BY <2>8 DEF SameShape, IdsOf
  <2>. QED
    BY <2>6, <2>8, <2>11, <2>12, SameShapeConsistent
<1>. QED
  BY <1>1, <1>2

-----------------------------------------------------------------------------
(* Folds.  A fold over a sequence is a walk through its intermediate values, *)
(* which exist as long as each step stays in some set.                       *)

(* Induction over the natural numbers, for a set.                            *)
LEMMA SetInduction ==
  ASSUME NEW G \in SUBSET Nat, 0 \in G, \A k \in G : k + 1 \in G
  PROVE  G = Nat
<1>. DEFINE T == Nat \ G
<1>. SUFFICES ASSUME T # {} PROVE FALSE
  OBVIOUS
<1>1. PICK r \in T : \A x \in T : ~(<<x, r>> \in OpToRel(<, Nat))
  BY NatLessThanWellFounded, WFMin
<1>2. \A x \in T : ~(x < r)
  BY <1>1, Zenon DEF OpToRel
<1>3. r # 0 /\ r - 1 \in Nat
  OBVIOUS
<1>4. r - 1 \in G
  BY <1>2, <1>3
<1>. QED
  BY <1>3, <1>4

(* Induction up to a bound.                                                  *)
LEMMA UpTo ==
  ASSUME NEW n \in Nat, NEW G, 0 \in G, \A k \in 1 .. n : k - 1 \in G => k \in G
  PROVE  \A k \in 0 .. n : k \in G
<1>. DEFINE H == {k \in Nat : k <= n => k \in G}
<1>1. 0 \in H
  OBVIOUS
<1>2. \A k \in H : k + 1 \in H
  <2>. SUFFICES ASSUME NEW k \in H, k + 1 <= n PROVE k + 1 \in G
    OBVIOUS
  <2>1. k \in G /\ k + 1 \in 1 .. n /\ (k + 1) - 1 = k
    OBVIOUS
  <2>. QED
    BY <2>1
<1>3. H = Nat
  <2>. HIDE DEF H
  <2>1. H \in SUBSET Nat
    BY DEF H
  <2>. QED
    BY <1>1, <1>2, <2>1, SetInduction
<1>. QED
  BY <1>3

LEMMA MaxOfInterval ==
  ASSUME NEW n \in Nat \ {0}
  PROVE  Max(1 .. n) = n
  BY DEF Max

LEMMA MaxIs ==
  ASSUME NEW k \in Nat, NEW s \in SUBSET (1 .. k + 1), s # {}
  PROVE  /\ k + 1 \in s => Max(s) = k + 1
         /\ k + 1 \notin s => s \in SUBSET (1 .. k)
<1>1. ASSUME k + 1 \in s PROVE Max(s) = k + 1
  <2>1. \A y \in s : k + 1 >= y
    OBVIOUS
  <2>2. \A x \in s : (\A y \in s : x >= y) => x = k + 1
    BY <1>1
  <2>. QED
    BY <1>1, <2>1, <2>2 DEF Max
<1>. QED
  BY <1>1

(* The function a fold is defined by.                                        *)
Folds(h, U, base, G, n) ==
  /\ h \in [SUBSET (1 .. n) -> U]
  /\ \A s \in SUBSET (1 .. n) :
       h[s] = IF s = {} THEN base ELSE G[<<h[s \ {Max(s)}], Max(s)>>]

LEMMA FoldExists ==
  ASSUME NEW U, NEW base \in U, NEW n \in Nat, NEW G \in [U \X (1 .. n) -> U]
  PROVE  \E h : Folds(h, U, base, G, n)
<1>. DEFINE K == {k \in Nat : \E h : Folds(h, U, base, G, k)}
<1>1. 0 \in K
  <2>1. SUBSET (1 .. 0) = {{}}
    OBVIOUS
  <2>2. Folds([s \in {{}} |-> base], U, base, G, 0)
    BY <2>1 DEF Folds
  <2>. QED
    BY <2>2
<1>2. ASSUME NEW k \in 1 .. n, k - 1 \in K PROVE k \in K
  <2>1. PICK h : Folds(h, U, base, G, k - 1)
    BY <1>2
  <2>. DEFINE g == [s \in SUBSET (1 .. k) |->
                      IF k \in s THEN G[<<h[s \ {k}], k>>] ELSE h[s]]
  <2>2. ASSUME NEW s \in SUBSET (1 .. k)
        PROVE  g[s] \in U /\ g[s] = IF s = {} THEN base ELSE G[<<g[s \ {Max(s)}], Max(s)>>]
    <3>1. CASE k \in s
      <4>1. Max(s) = k
        BY <3>1, MaxIs, k - 1 \in Nat, (k - 1) + 1 = k
      <4>2. s \ {k} \in SUBSET (1 .. k - 1) /\ s \ {k} \in SUBSET (1 .. k) /\ k \notin s \ {k}
        OBVIOUS
      <4>3. g[s \ {k}] = h[s \ {k}] /\ h[s \ {k}] \in U
        BY <2>1, <4>2 DEF Folds
      <4>4. g[s] = G[<<h[s \ {k}], k>>] /\ s # {}
        BY <3>1
      <4>5. G[<<h[s \ {k}], k>>] \in U
        BY <4>3
      <4>. HIDE DEF g
      <4>. QED
        BY <4>1, <4>3, <4>4, <4>5
    <3>2. CASE k \notin s
      <4>1. s \in SUBSET (1 .. k - 1) /\ g[s] = h[s]
        BY <3>2
      <4>2. CASE s = {}
        BY <2>1, <4>1, <4>2 DEF Folds
      <4>3. CASE s # {}
        <5>1. s \ {Max(s)} \in SUBSET (1 .. k) /\ k \notin s \ {Max(s)}
          BY <3>2
        <5>2. g[s \ {Max(s)}] = h[s \ {Max(s)}]
          BY <5>1
        <5>3. h[s] \in U /\ h[s] = G[<<h[s \ {Max(s)}], Max(s)>>]
          BY <2>1, <4>1, <4>3 DEF Folds
        <5>. HIDE DEF g
        <5>. QED
          BY <4>1, <4>3, <5>2, <5>3
      <4>. QED
        BY <4>2, <4>3
    <3>. QED
      BY <3>1, <3>2
  <2>3. Folds(g, U, base, G, k)
    <3>1. g = [s \in SUBSET (1 .. k) |-> g[s]]
      OBVIOUS
    <3>. HIDE DEF g
    <3>2. g \in [SUBSET (1 .. k) -> U]
      BY <2>2, <3>1
    <3>. QED
      BY <2>2, <3>2 DEF Folds
  <2>. QED
    BY <2>3
<1>3. n \in K
  <2>. HIDE DEF K
  <2>. QED
    BY <1>1, <1>2, UpTo
<1>. QED
  BY <1>3

LEMMA MaxIn ==
  ASSUME NEW n \in Nat, NEW s \in SUBSET (1 .. n), s # {}
  PROVE  Max(s) \in 1 .. n /\ s \ {Max(s)} \in SUBSET (1 .. n)
<1>. DEFINE K == {k \in Nat : \A r \in SUBSET (1 .. k) : r # {} => Max(r) \in 1 .. k}
<1>1. 0 \in K
  <2>1. 1 .. 0 = {}
    OBVIOUS
  <2>. QED
    BY <2>1
<1>2. ASSUME NEW k \in K PROVE k + 1 \in K
  <2>. SUFFICES ASSUME NEW r \in SUBSET (1 .. k + 1), r # {} PROVE Max(r) \in 1 .. k + 1
    OBVIOUS
  <2>1. CASE k + 1 \in r
    BY <2>1, MaxIs
  <2>2. CASE k + 1 \notin r
    <3>1. r \in SUBSET (1 .. k)
      BY <2>2, MaxIs
    <3>. QED
      BY <3>1
  <2>. QED
    BY <2>1, <2>2
<1>3. K = Nat
  <2>. HIDE DEF K
  <2>1. K \in SUBSET Nat
    BY DEF K
  <2>. QED
    BY <1>1, <1>2, <2>1, SetInduction
<1>. QED
  BY <1>3

(* The walk of a function that is defined like a fold: its values after each *)
(* number of elements.                                                       *)
Walk(it, n) == [k \in 0 .. n |-> it[1 .. k]]

(* The function's equation, as far as its values are known to be in U.       *)
Recurs(it, U, base, G, n) ==
  /\ it[{}] = base
  /\ \A s \in SUBSET (1 .. n) : s # {} /\ it[s \ {Max(s)}] \in U =>
       it[s] = G[<<it[s \ {Max(s)}], Max(s)>>]

Walks(f, U, base, G, n) ==
  /\ f \in [0 .. n -> U]
  /\ f[0] = base
  /\ \A k \in 1 .. n : f[k] = G[<<f[k - 1], k>>]

LEMMA WalkOf ==
  ASSUME NEW n \in Nat, NEW U, NEW base \in U, NEW G \in [U \X (1 .. n) -> U], NEW it,
         Recurs(it, U, base, G, n)
  PROVE  Walks(Walk(it, n), U, base, G, n) /\ Walk(it, n)[n] = it[1 .. n]
<1>. DEFINE f == Walk(it, n)
            K == {k \in 0 .. n : f[k] \in U}
<1>1. f[0] = base
  <2>1. 1 .. 0 = {}
    OBVIOUS
  <2>. QED
    BY <2>1 DEF Walk, Recurs
<1>2. ASSUME NEW k \in 1 .. n, f[k - 1] \in U
      PROVE  f[k] = G[<<f[k - 1], k>>] /\ f[k] \in U
  <2>1. (1 .. k) \ {k} = 1 .. k - 1 /\ 1 .. k # {} /\ 1 .. k \in SUBSET (1 .. n)
    <3>. HIDE DEF f
    <3>1. \A x \in Int : x \in (1 .. k) \ {k} <=> x \in 1 .. k - 1
      OBVIOUS
    <3>2. k \in 1 .. k /\ \A x \in 1 .. k : x \in 1 .. n
      OBVIOUS
    <3>. QED
      BY <3>1, <3>2
  <2>2. Max(1 .. k) = k
    BY MaxOfInterval
  <2>3. f[k] = it[1 .. k] /\ f[k - 1] = it[1 .. k - 1]
    BY DEF Walk
  <2>. HIDE DEF f
  <2>4. f[k] = G[<<f[k - 1], k>>]
    BY <1>2, <2>1, <2>2, <2>3 DEF Recurs
  <2>. QED
    BY <1>2, <2>4
<1>3. \A k \in 0 .. n : k \in K
  <2>1. 0 \in K
    BY <1>1
  <2>2. ASSUME NEW k \in 1 .. n, k - 1 \in K PROVE k \in K
    <3>1. f[k - 1] \in U
      BY <2>2
    <3>2. f[k] \in U
      BY <1>2, <3>1
    <3>3. k \in 0 .. n
      OBVIOUS
    <3>. HIDE DEF f
    <3>. QED
      BY <3>2, <3>3
  <2>. HIDE DEF K
  <2>. QED
    BY <2>1, <2>2, UpTo
<1>4. f \in [0 .. n -> U] /\ f[n] = it[1 .. n]
  BY <1>3 DEF Walk
<1>5. ASSUME NEW k \in 1 .. n PROVE f[k] = G[<<f[k - 1], k>>]
  <2>1. k - 1 \in 0 .. n
    OBVIOUS
  <2>2. f[k - 1] \in U
    BY <1>3, <2>1
  <2>. QED
    BY <1>2, <2>2
<1>. HIDE DEF f
<1>6. Walks(f, U, base, G, n)
  BY <1>1, <1>4, <1>5 DEF Walks
<1>. QED
  BY <1>4, <1>6 DEF f

-----------------------------------------------------------------------------
(* build.                                                                    *)

(* What inserting nodes does, whatever they are.                             *)
Grows(g, t, id) ==
  /\ t \in GraphRec
  /\ \A x : HasHash(g, x) => HasHash(t, x)
  /\ IdsOf(t) \subseteq IdsOf(g) \cup {id}
  /\ Consistent(g) => Consistent(t)
  /\ Saved(g) => Saved(t)

LEMMA GrowsSelf ==
  ASSUME NEW g \in GraphRec, NEW id
  PROVE  Grows(g, g, id)
BY DEF Grows

LEMMA GrowsOn ==
  ASSUME NEW g, NEW s, NEW t, NEW id, Grows(g, s, id), Grows(s, t, id)
  PROVE  Grows(g, t, id)
BY DEF Grows

InsertInos(g, id, node) ==
  FoldLeft(LAMBDA acc, ino : InsertNode(acc, id, ino, node.hash), g, node.inos)

InosWalk(f, g, id, node) ==
  LET n == Len(node.inos) IN
  /\ f \in [0 .. n -> GraphRec]
  /\ f[0] = g /\ f[n] = InsertInos(g, id, node)
  /\ \A k \in 1 .. n : f[k] = InsertNode(f[k - 1], id, node.inos[k], node.hash)

LEMMA InosWalked ==
  ASSUME NEW g \in GraphRec, NEW id \in NodeIds, NEW node \in StoredRec
  PROVE  \E f : InosWalk(f, g, id, node)
<1>. DEFINE n == Len(node.inos)
            G == [x \in GraphRec \X (1 .. n) |-> InsertNode(x[1], id, node.inos[x[2]], node.hash)]
            Def(it) == [q \in SUBSET (1 .. n) |->
                         IF q = {} THEN g
                         ELSE InsertNode(it[q \ {Max(q)}], id, node.inos[Max(q)], node.hash)]
            iter == CHOOSE it : it = Def(it)
<1>1. n \in Nat /\ node.hash \in Hashes /\ DOMAIN node.inos = 1 .. n /\ \A i \in 1 .. n : node.inos[i] \in Inos
  BY DEF StoredRec
<1>2. G \in [GraphRec \X (1 .. n) -> GraphRec]
  <2>1. \A x \in GraphRec, i \in 1 .. n : InsertNode(x, id, node.inos[i], node.hash) \in GraphRec
    BY <1>1, NodeInserted
  <2>. QED
    BY <2>1
<1>3. InsertInos(g, id, node) = iter[1 .. n]
  BY <1>1 DEF InsertInos, FoldLeft, MapThenFoldSet
<1>. HIDE DEF n
<1>4. PICK h : Folds(h, GraphRec, g, G, n)
  <2>. HIDE DEF G
  <2>. QED
    BY <1>1, <1>2, FoldExists
<1>5. h = Def(h)
  BY <1>1, <1>4, MaxIn DEF Folds
<1>6. iter = Def(iter)
  BY <1>5
<1>. HIDE DEF iter
<1>7. Recurs(iter, GraphRec, g, G, n)
  BY <1>1, <1>6, MaxIn DEF Recurs
<1>8. Walks(Walk(iter, n), GraphRec, g, G, n) /\ Walk(iter, n)[n] = iter[1 .. n]
  <2>1. n \in Nat
    BY <1>1
  <2>. HIDE DEF G
  <2>. QED
    BY <1>2, <1>7, <2>1, WalkOf
<1>. DEFINE f == Walk(iter, n)
<1>. HIDE DEF f
<1>9. /\ f \in [0 .. n -> GraphRec] /\ f[0] = g /\ f[n] = iter[1 .. n]
      /\ \A k \in 1 .. n : f[k] = G[<<f[k - 1], k>>]
  BY <1>8 DEF Walks, f
<1>10. \A k \in 1 .. n : f[k] = InsertNode(f[k - 1], id, node.inos[k], node.hash)
  <2>1. \A k \in 1 .. n : k - 1 \in 0 .. n
    BY <1>1
  <2>. QED
    BY <1>9, <2>1
<1>. QED
  BY <1>3, <1>9, <1>10 DEF InosWalk, n

LEMMA InosInserted ==
  ASSUME NEW g \in GraphRec, NEW id \in NodeIds, NEW node \in StoredRec,
         Fits(g, id, node.hash), NEW t, t = InsertInos(g, id, node)
  PROVE  Grows(g, t, id) /\ (node.inos # <<>> => HasHash(t, node.hash))
<1>. DEFINE n == Len(node.inos)
<1>1. /\ n \in Nat /\ node.hash \in Hashes /\ \A i \in 1 .. n : node.inos[i] \in Inos
      /\ node.inos # <<>> => n # 0
  BY NotEmpty DEF StoredRec
<1>2. PICK f : InosWalk(f, g, id, node)
  BY InosWalked
<1>3. /\ f \in [0 .. n -> GraphRec] /\ f[0] = g /\ f[n] = t
      /\ \A k \in 1 .. n : f[k] = InsertNode(f[k - 1], id, node.inos[k], node.hash)
  BY <1>2 DEF InosWalk
<1>. HIDE DEF n
<1>. DEFINE Good(k) == /\ Grows(g, f[k], id) /\ Fits(f[k], id, node.hash)
                       /\ k # 0 => HasHash(f[k], node.hash)
            K == {k \in 0 .. n : Good(k)}
<1>4. Good(0)
  BY <1>3, GrowsSelf
<1>5. ASSUME NEW k \in 1 .. n, Good(k - 1) PROVE Good(k)
  <2>1. k - 1 \in 0 .. n /\ k \in 0 .. n
    BY <1>1
  <2>2. f[k - 1] \in GraphRec /\ f[k] = InsertNode(f[k - 1], id, node.inos[k], node.hash)
        /\ node.inos[k] \in Inos
    BY <1>1, <1>3, <2>1
  <2>3. Grows(f[k - 1], f[k], id) /\ HasHash(f[k], node.hash)
    BY <1>1, <1>5, <2>2, NodeInserted DEF Grows
  <2>4. Grows(g, f[k], id)
    BY <1>5, <2>3, GrowsOn
  <2>. QED
    BY <2>3, <2>4 DEF Fits
<1>6. \A k \in 0 .. n : k \in K
  <2>1. 0 \in K
    BY <1>1, <1>4
  <2>2. ASSUME NEW k \in 1 .. n, k - 1 \in K PROVE k \in K
    <3>1. Good(k - 1) /\ k \in 0 .. n
      BY <1>1, <2>2
    <3>. HIDE DEF Good
    <3>. QED
      BY <1>5, <3>1
  <2>. HIDE DEF K
  <2>. QED
    BY <1>1, <2>1, <2>2, UpTo
<1>7. Good(n)
  BY <1>1, <1>6
<1>. QED
  BY <1>1, <1>3, <1>7

LEMMA StoredInserted ==
  ASSUME NEW g \in GraphRec, NEW id \in NodeIds, stored \in Maps(NodeIds, StoredRec),
         id \notin IdsOf(g), NEW t, t = InsertStored(g, id)
  PROVE  /\ Grows(g, t, id)
         /\ id \in DOMAIN stored /\ stored[id].inos # <<>> => HasHash(t, stored[id].hash)
<1>1. CASE id \notin DOMAIN stored
  BY <1>1, GrowsSelf DEF InsertStored
<1>2. CASE id \in DOMAIN stored
  <2>. DEFINE node == stored[id]
  <2>1. node \in StoredRec
    BY <1>2, MapsIs
  <2>2. t = InsertInos(g, id, node)
    BY <1>2 DEF InsertStored, InsertInos
  <2>3. Fits(g, id, node.hash)
    BY DEF Fits
  <2>. HIDE DEF node
  <2>4. Grows(g, t, id) /\ (node.inos # <<>> => HasHash(t, node.hash))
    BY <2>1, <2>2, <2>3, InosInserted
  <2>. QED
    BY <2>4 DEF node
<1>. QED
  BY <1>1, <1>2

(* Some graph comes out, even of nodes that are there.                       *)
LEMMA StoredInsertedType ==
  ASSUME NEW g \in GraphRec, NEW id \in NodeIds, stored \in Maps(NodeIds, StoredRec)
  PROVE  InsertStored(g, id) \in GraphRec
<1>1. CASE id \notin DOMAIN stored
  BY <1>1 DEF InsertStored
<1>2. CASE id \in DOMAIN stored
  <2>. DEFINE node == stored[id]
  <2>1. node \in StoredRec
    BY <1>2, MapsIs
  <2>2. InsertStored(g, id) = InsertInos(g, id, node)
    BY <1>2 DEF InsertStored, InsertInos
  <2>. HIDE DEF node
  <2>3. PICK f : InosWalk(f, g, id, node)
    BY <2>1, InosWalked
  <2>4. Len(node.inos) \in Nat
    BY <2>1 DEF StoredRec
  <2>5. Len(node.inos) \in 0 .. Len(node.inos)
    BY <2>4
  <2>. QED
    BY <2>2, <2>3, <2>5 DEF InosWalk
<1>. QED
  BY <1>1, <1>2

-----------------------------------------------------------------------------
LastBuilt == IF MaxStored = 0 THEN 0 ELSE MaxStored - 1

BuiltWalk(f) ==
  /\ f \in [0 .. LastBuilt -> GraphRec]
  /\ f[0] = NewGraph /\ f[LastBuilt] = Built
  /\ \A k \in 1 .. LastBuilt : f[k] = InsertStored(f[k - 1], k)

LEMMA NewGraphIs ==
  ASSUME stored \in Maps(NodeIds, StoredRec)
  PROVE  NewGraph \in GraphRec /\ PlacesOf(NewGraph) = {} /\ Consistent(NewGraph) /\ Saved(NewGraph)
         /\ IdsOf(NewGraph) = {}
<1>1. EmptyMap \in Maps(NodeIds, Nat) /\ EmptyMap \in Maps(Inos, NodeIds) /\ DOMAIN EmptyMap = {}
  <2>1. EmptyMap \in [{} -> Nat] /\ EmptyMap \in [{} -> NodeIds] /\ DOMAIN EmptyMap = {}
    BY DEF EmptyMap
  <2>2. {} \in SUBSET NodeIds /\ {} \in SUBSET Inos
    OBVIOUS
  <2>. QED
    BY <2>1, <2>2 DEF Maps
<1>2. <<>> \in Seq(NodeRec) /\ DOMAIN <<>> = {}
  OBVIOUS
<1>3. NewGraph \in GraphRec
  BY <1>1, <1>2, GraphMade DEF NewGraph
<1>4. PlacesOf(NewGraph) = {}
  BY <1>2 DEF NewGraph, PlacesOf
<1>5. IdsOf(NewGraph) = {} /\ NewGraph.map = EmptyMap
  BY <1>4 DEF IdsOf, NewGraph
<1>. QED
  BY <1>1, <1>3, <1>4, <1>5 DEF Consistent, MapOk, HashesOk, EdgesOk, CloseJoined, Saved

LEMMA BuiltWalked ==
  ASSUME stored \in Maps(NodeIds, StoredRec), MaxStored \in 0 .. MaxNodes
  PROVE  \E f : BuiltWalk(f)
<1>. DEFINE n == LastBuilt
            ids == [id \in 1 .. MaxStored - 1 |-> id]
            G == [x \in GraphRec \X (1 .. n) |-> InsertStored(x[1], x[2])]
            Def(it) == [q \in SUBSET (1 .. n) |->
                         IF q = {} THEN NewGraph ELSE InsertStored(it[q \ {Max(q)}], ids[Max(q)])]
            iter == CHOOSE it : it = Def(it)
<1>1. n \in Nat /\ \A k \in 1 .. n : k \in NodeIds
  BY SimilarityGraphAssumption DEF LastBuilt, NodeIds
<1>2. 1 .. MaxStored - 1 = 1 .. n
  <2>1. CASE MaxStored = 0
    BY <2>1 DEF LastBuilt
  <2>2. CASE MaxStored # 0
    BY <2>2 DEF LastBuilt
  <2>. QED
    BY <2>1, <2>2
<1>3. DOMAIN ids = 1 .. n /\ \A k \in 1 .. n : ids[k] = k
  BY <1>2
<1>4. Built = iter[1 .. n]
  <2>. HIDE DEF n
  <2>1. Built = FoldLeft(InsertStored, NewGraph, ids)
    BY DEF Built
  <2>2. DOMAIN ids = 1 .. n
    BY <1>3
  <2>. HIDE DEF ids
  <2>. QED
    BY <2>1, <2>2 DEF FoldLeft, MapThenFoldSet
<1>. HIDE DEF n, ids
<1>5. NewGraph \in GraphRec
  BY NewGraphIs
<1>6. G \in [GraphRec \X (1 .. n) -> GraphRec]
  BY <1>1, StoredInsertedType
<1>7. PICK h : Folds(h, GraphRec, NewGraph, G, n)
  <2>. HIDE DEF G
  <2>. QED
    BY <1>1, <1>5, <1>6, FoldExists
<1>8. h = Def(h)
  <2>1. ASSUME NEW q \in SUBSET (1 .. n), q # {}
        PROVE  h[q] = InsertStored(h[q \ {Max(q)}], ids[Max(q)])
    <3>1. Max(q) \in 1 .. n /\ q \ {Max(q)} \in SUBSET (1 .. n)
      BY <1>1, <2>1, MaxIn
    <3>2. ids[Max(q)] = Max(q) /\ h[q \ {Max(q)}] \in GraphRec
      BY <1>3, <1>7, <3>1 DEF Folds
    <3>3. h[q] = G[<<h[q \ {Max(q)}], Max(q)>>]
      BY <1>7, <2>1 DEF Folds
    <3>. QED
      BY <3>1, <3>2, <3>3
  <2>. QED
    BY <1>7, <2>1 DEF Folds
<1>9. iter = Def(iter)
  BY <1>8
<1>. HIDE DEF iter
<1>10. Recurs(iter, GraphRec, NewGraph, G, n)
  BY <1>1, <1>3, <1>9, MaxIn DEF Recurs
<1>11. Walks(Walk(iter, n), GraphRec, NewGraph, G, n) /\ Walk(iter, n)[n] = iter[1 .. n]
  <2>. HIDE DEF G
  <2>. QED
    BY <1>1, <1>5, <1>6, <1>10, WalkOf
<1>. DEFINE f == Walk(iter, n)
<1>. HIDE DEF f
<1>12. /\ f \in [0 .. n -> GraphRec] /\ f[0] = NewGraph /\ f[n] = iter[1 .. n]
       /\ \A k \in 1 .. n : f[k] = G[<<f[k - 1], k>>]
  BY <1>11 DEF Walks, f
<1>13. \A k \in 1 .. n : f[k] = InsertStored(f[k - 1], k)
  <2>1. \A k \in 1 .. n : k - 1 \in 0 .. n
    BY <1>1
  <2>. QED
    BY <1>12, <2>1
<1>. QED
  BY <1>4, <1>12, <1>13 DEF BuiltWalk, n

LEMMA BuiltIs ==
  ASSUME stored \in Maps(NodeIds, StoredRec), MaxStored \in 0 .. MaxNodes
  PROVE  /\ Built \in GraphRec /\ Consistent(Built) /\ Saved(Built)
         /\ IdsOf(Built) \subseteq 1 .. LastBuilt
         /\ \A id \in 1 .. LastBuilt :
              id \in DOMAIN stored /\ stored[id].inos # <<>> => HasHash(Built, stored[id].hash)
<1>. DEFINE n == LastBuilt
<1>1. n \in Nat /\ \A k \in 1 .. n : k \in NodeIds
  BY SimilarityGraphAssumption DEF LastBuilt, NodeIds
<1>2. PICK f : BuiltWalk(f)
  BY BuiltWalked
<1>3. /\ f \in [0 .. n -> GraphRec] /\ f[0] = NewGraph /\ f[n] = Built
      /\ \A k \in 1 .. n : f[k] = InsertStored(f[k - 1], k)
  BY <1>2 DEF BuiltWalk
<1>. HIDE DEF n
<1>. DEFINE There(g, id) == id \in DOMAIN stored /\ stored[id].inos # <<>> => HasHash(g, stored[id].hash)
            Good(k) == /\ Consistent(f[k]) /\ Saved(f[k])
                       /\ IdsOf(f[k]) \subseteq 1 .. k
                       /\ \A id \in 1 .. k : There(f[k], id)
            K == {k \in 0 .. n : Good(k)}
<1>4. Good(0)
  <2>1. 1 .. 0 = {}
    OBVIOUS
  <2>. QED
    BY <1>3, <2>1, NewGraphIs
<1>5. ASSUME NEW k \in 1 .. n, Good(k - 1) PROVE Good(k)
  <2>1. k - 1 \in 0 .. n /\ k \in NodeIds /\ k \notin 1 .. k - 1 /\ 1 .. k = 1 .. k - 1 \cup {k}
    <3>1. \A x \in Int : x \in 1 .. k <=> x \in 1 .. k - 1 \/ x = k
      BY <1>1
    <3>. QED
      BY <1>1, <3>1
  <2>2. f[k - 1] \in GraphRec /\ f[k] = InsertStored(f[k - 1], k) /\ k \notin IdsOf(f[k - 1])
    BY <1>3, <1>5, <2>1
  <2>3. Grows(f[k - 1], f[k], k) /\ There(f[k], k)
    BY <2>1, <2>2, StoredInserted
  <2>4. Consistent(f[k]) /\ Saved(f[k]) /\ IdsOf(f[k]) \subseteq 1 .. k
    BY <1>5, <2>1, <2>3 DEF Grows
  <2>5. \A id \in 1 .. k - 1 : There(f[k], id)
    BY <1>5, <2>3 DEF Grows
  <2>. QED
    BY <2>1, <2>3, <2>4, <2>5
<1>6. \A k \in 0 .. n : k \in K
  <2>1. 0 \in K
    BY <1>1, <1>4
  <2>2. ASSUME NEW k \in 1 .. n, k - 1 \in K PROVE k \in K
    <3>1. Good(k - 1) /\ k \in 0 .. n
      BY <1>1, <2>2
    <3>. HIDE DEF Good
    <3>. QED
      BY <1>5, <3>1
  <2>. HIDE DEF K
  <2>. QED
    BY <1>1, <2>1, <2>2, UpTo
<1>7. Good(n) /\ f[n] \in GraphRec
  BY <1>1, <1>3, <1>6
<1>. QED
  BY <1>3, <1>7 DEF n

-----------------------------------------------------------------------------
(* Recursive functions.  One whose argument gets smaller exists.             *)

Computes(h, S, U, last, base, next, join) ==
  /\ h \in [S -> U]
  /\ \A s \in S : h[s] = IF s \in last THEN base[s] ELSE join[<<s, h[next[s]]>>]

Level(S, size, k) == {s \in S : size[s] < k}

LEMMA RecursionExists ==
  ASSUME NEW S, NEW U, NEW last, NEW base \in [S -> U], NEW next \in [S -> S],
         NEW join \in [S \X U -> U], NEW size \in [S -> Nat], NEW N \in Nat,
         \A s \in S : size[s] <= N,
         \A s \in S : s \notin last => size[next[s]] < size[s]
  PROVE  \E h : Computes(h, S, U, last, base, next, join)
<1>. DEFINE L(k) == Level(S, size, k)
            Ok(h, k) == /\ h \in [L(k) -> U]
                        /\ \A s \in L(k) : h[s] = IF s \in last THEN base[s] ELSE join[<<s, h[next[s]]>>]
            K == {k \in 0 .. N + 1 : \E h : Ok(h, k)}
<1>1. 0 \in K
  <2>1. L(0) = {}
    BY DEF Level
  <2>2. Ok([s \in {} |-> s], 0)
    BY <2>1
  <2>. HIDE DEF Ok
  <2>. QED
    BY <2>2
<1>2. ASSUME NEW k \in 1 .. N + 1, k - 1 \in K PROVE k \in K
  <2>1. PICK h : Ok(h, k - 1)
    BY <1>2
  <2>. DEFINE g == [s \in L(k) |-> IF s \in last THEN base[s] ELSE join[<<s, h[next[s]]>>]]
  <2>2. ASSUME NEW s \in L(k), s \notin last PROVE next[s] \in L(k - 1)
    BY <2>2 DEF Level
  <2>3. L(k - 1) \in SUBSET L(k) /\ L(k) \in SUBSET S
    BY DEF Level
  <2>4. g \in [L(k) -> U]
    <3>1. ASSUME NEW s \in L(k)
          PROVE  (IF s \in last THEN base[s] ELSE join[<<s, h[next[s]]>>]) \in U
      <4>1. CASE s \in last
        BY <2>3, <4>1
      <4>2. CASE s \notin last
        <5>1. h[next[s]] \in U /\ s \in S
          BY <2>1, <2>2, <2>3, <4>2
        <5>. QED
          BY <4>2, <5>1
      <4>. QED
        BY <4>1, <4>2
    <3>. QED
      BY <3>1
  <2>5. \A s \in L(k - 1) : g[s] = h[s]
    BY <2>1, <2>3
  <2>6. ASSUME NEW s \in L(k)
        PROVE  g[s] = IF s \in last THEN base[s] ELSE join[<<s, g[next[s]]>>]
    <3>1. CASE s \in last
      BY <3>1
    <3>2. CASE s \notin last
      <4>1. g[s] = join[<<s, h[next[s]]>>] /\ g[next[s]] = h[next[s]]
        BY <2>2, <2>5, <3>2
      <4>. HIDE DEF g
      <4>. QED
        BY <3>2, <4>1
    <3>. QED
      BY <3>1, <3>2
  <2>. HIDE DEF g
  <2>7. Ok(g, k)
    BY <2>4, <2>6
  <2>. HIDE DEF Ok
  <2>. QED
    BY <2>7
<1>3. N + 1 \in K
  <2>. HIDE DEF K
  <2>1. N + 1 \in Nat /\ N + 1 \in 0 .. N + 1
    OBVIOUS
  <2>. DEFINE q == N + 1
  <2>2. q \in Nat /\ \A k \in 1 .. q : k - 1 \in K => k \in K
    BY <1>2, <2>1
  <2>3. q \in 0 .. q
    BY <2>1
  <2>. HIDE DEF q
  <2>4. \A k \in 0 .. q : k \in K
    BY <1>1, <2>2, UpTo
  <2>. QED
    BY <2>3, <2>4 DEF q
<1>4. L(N + 1) = S
  BY DEF Level
<1>5. PICK h : Ok(h, N + 1)
  BY <1>3
<1>. QED
  BY <1>4, <1>5 DEF Computes

-----------------------------------------------------------------------------
(* The bytes of a number and the number of them.                             *)

LEMMA DivisionIs ==
  ASSUME NEW m \in Nat
  PROVE  /\ m % Base \in Nat /\ m \div Base \in Nat
         /\ m = Base * (m \div Base) + (m % Base)
         /\ m >= Base => m \div Base < m
<1>1. Base \in Nat /\ Base >= 2
  BY SimilarityGraphAssumption
<1>. DEFINE q == m \div Base
            x == m % Base
<1>2. q \in Nat /\ x \in Nat /\ m = Base * q + x /\ x < Base
  BY <1>1, Z3T(30)
<1>3. ASSUME m >= Base PROVE q < m
  <2>. HIDE DEF q, x
  <2>1. Base * q >= 2 * q
    BY <1>1, <1>2, Z3T(30)
  <2>2. q = 0 \/ q >= 1
    BY <1>2
  <2>. QED
    BY <1>1, <1>2, <1>3, <2>1, <2>2
<1>. QED
  BY <1>2, <1>3

LEMMA OneElement ==
  ASSUME NEW T, NEW x \in T
  PROVE  <<x>> \in Seq(T) /\ <<x>> # <<>>
OBVIOUS

LEMMA LowByte ==
  ASSUME NEW m \in Nat
  PROVE  <<m % Base>> \in Seq(Nat) /\ <<m>> \in Seq(Nat)
<1>. DEFINE x == m % Base
<1>1. x \in Nat
  BY DivisionIs
<1>. HIDE DEF x
<1>2. <<x>> \in Seq(Nat)
  BY <1>1, OneElement
<1>. QED
  BY <1>2, OneElement DEF x

Bytes(e, n) ==
  /\ e \in [0 .. n -> Seq(Nat)]
  /\ \A m \in 0 .. n :
       e[m] = IF m < Base THEN <<m>> ELSE <<m % Base>> \o e[m \div Base]

LEMMA EncodeIs ==
  ASSUME NEW n \in Nat
  PROVE  \E e : Bytes(e, n) /\ EncodeMaxNodeId(n) = e[n]
<1>. DEFINE S == 0 .. n
            last == {m \in S : m < Base}
            base == [m \in S |-> <<m>>]
            next == [m \in S |-> IF m < Base THEN m ELSE m \div Base]
            join == [x \in S \X Seq(Nat) |-> <<x[1] % Base>> \o x[2]]
            size == [m \in S |-> m]
            Def(f) == [m \in S |-> IF m < Base THEN <<m>> ELSE <<m % Base>> \o f[m \div Base]]
            bytes == CHOOSE f : f = Def(f)
<1>1. EncodeMaxNodeId(n) = bytes[n]
  BY DEF EncodeMaxNodeId
<1>2. \A m \in S : m \in Nat /\ m <= n
  OBVIOUS
<1>3. next \in [S -> S] /\ \A m \in S : m \notin last => next[m] = m \div Base /\ m \div Base < m /\ m \div Base \in S
  <2>1. Base \in Nat
    BY SimilarityGraphAssumption
  <2>2. ASSUME NEW m \in S, ~(m < Base) PROVE m \div Base \in S /\ m \div Base < m
    BY <1>2, <2>1, <2>2, DivisionIs
  <2>. QED
    BY <2>2
<1>4. base \in [S -> Seq(Nat)] /\ size \in [S -> Nat]
  BY <1>2
<1>5. join \in [S \X Seq(Nat) -> Seq(Nat)]
  <2>1. ASSUME NEW m \in S, NEW s \in Seq(Nat) PROVE <<m % Base>> \o s \in Seq(Nat)
    <3>1. <<m % Base>> \in Seq(Nat)
      BY <1>2, LowByte
    <3>. QED
      BY <3>1, ConcatProperties
  <2>. QED
    BY <2>1
<1>6. /\ \A s \in S : size[s] <= n
      /\ \A s \in S : s \notin last => size[next[s]] < size[s]
  BY <1>2, <1>3
<1>7. PICK h : Computes(h, S, Seq(Nat), last, base, next, join)
  <2>. HIDE DEF S, last, base, next, join, size
  <2>. QED
    BY <1>3, <1>4, <1>5, <1>6, RecursionExists
<1>8. ASSUME NEW m \in S
      PROVE  h[m] = IF m < Base THEN <<m>> ELSE <<m % Base>> \o h[m \div Base]
  <2>1. CASE m < Base
    BY <1>7, <2>1 DEF Computes
  <2>2. CASE ~(m < Base)
    <3>1. next[m] = m \div Base /\ m \div Base \in S /\ m \notin last
      BY <1>3, <2>2
    <3>2. h[m] = join[<<m, h[m \div Base]>>] /\ h[m \div Base] \in Seq(Nat)
      BY <1>7, <3>1 DEF Computes
    <3>. QED
      BY <2>2, <3>2
  <2>. QED
    BY <2>1, <2>2
<1>9. h \in [S -> Seq(Nat)]
  BY <1>7 DEF Computes
<1>10. h = Def(h)
  <2>. HIDE DEF S
  <2>. QED
    BY <1>8, <1>9
<1>11. bytes = Def(bytes)
  BY <1>10
<1>. HIDE DEF bytes
<1>12. \A m \in S : bytes[m] = IF m < Base THEN <<m>> ELSE <<m % Base>> \o bytes[m \div Base]
  BY <1>11
<1>13. bytes \in [S -> Seq(Nat)]
  <2>. DEFINE K == {k \in S : \A m \in 0 .. k : bytes[m] \in Seq(Nat)}
  <2>1. ASSUME NEW m \in S, \A l \in 0 .. m - 1 : bytes[l] \in Seq(Nat) PROVE bytes[m] \in Seq(Nat)
    <3>1. CASE m < Base
      BY <1>2, <1>12, <3>1, LowByte
    <3>2. CASE ~(m < Base)
      <4>1. m \div Base \in 0 .. m - 1
        BY <1>3, <3>2
      <4>2. bytes[m \div Base] \in Seq(Nat) /\ <<m % Base>> \in Seq(Nat)
        BY <1>2, <2>1, <4>1, LowByte
      <4>. QED
        BY <1>12, <3>2, <4>2, ConcatProperties
    <3>. QED
      BY <3>1, <3>2
  <2>2. 0 \in K
    <3>1. bytes[0] \in Seq(Nat)
      BY <2>1
    <3>. QED
      BY <3>1
  <2>3. ASSUME NEW k \in 1 .. n, k - 1 \in K PROVE k \in K
    <3>1. k \in S /\ \A l \in 0 .. k - 1 : bytes[l] \in Seq(Nat)
      BY <2>3
    <3>2. bytes[k] \in Seq(Nat)
      BY <2>1, <3>1
    <3>3. \A l \in 0 .. k : l \in 0 .. k - 1 \/ l = k
      OBVIOUS
    <3>. QED
      BY <3>1, <3>2, <3>3
  <2>4. \A k \in 0 .. n : k \in K
    <3>. HIDE DEF K
    <3>. QED
      BY <2>2, <2>3, UpTo
  <2>5. \A m \in S : bytes[m] \in Seq(Nat)
    BY <2>4
  <2>. QED
    BY <1>11, <2>5
<1>. QED
  BY <1>1, <1>12, <1>13 DEF Bytes

Value(v, bytes) ==
  /\ v \in [1 .. Len(bytes) + 1 -> Nat]
  /\ v[Len(bytes) + 1] = 0
  /\ \A i \in 1 .. Len(bytes) : v[i] = bytes[i] + Base * v[i + 1]

LEMMA DecodeIs ==
  ASSUME NEW s \in Seq(Nat)
  PROVE  \E v : Value(v, s) /\ DecodeMaxNodeId(s) = v[1]
<1>. DEFINE n == Len(s)
            S == 1 .. n + 1
            last == {n + 1}
            base == [i \in S |-> 0]
            next == [i \in S |-> IF i > n THEN i ELSE i + 1]
            join == [x \in S \X Nat |-> IF x[1] > n THEN 0 ELSE s[x[1]] + Base * x[2]]
            size == [i \in S |-> n + 1 - i]
            Def(f) == [i \in S |-> IF i > n THEN 0 ELSE s[i] + Base * f[i + 1]]
            value == CHOOSE f : f = Def(f)
<1>1. DecodeMaxNodeId(s) = value[1]
  BY DEF DecodeMaxNodeId
<1>2. n \in Nat /\ (\A i \in 1 .. n : s[i] \in Nat) /\ Base \in Nat /\ n + 1 \in Nat
  BY SimilarityGraphAssumption
<1>. HIDE DEF n
<1>3. next \in [S -> S] /\ base \in [S -> Nat] /\ size \in [S -> Nat]
  BY <1>2
<1>4. join \in [S \X Nat -> Nat]
  <2>1. ASSUME NEW i \in S, NEW x \in Nat PROVE (IF i > n THEN 0 ELSE s[i] + Base * x) \in Nat
    <3>1. CASE i > n
      BY <3>1
    <3>2. CASE ~(i > n)
      <4>1. s[i] \in Nat /\ Base * x \in Nat
        BY <1>2, <3>2
      <4>. QED
        BY <3>2, <4>1
    <3>. QED
      BY <3>1, <3>2
  <2>. QED
    BY <2>1
<1>5. /\ \A i \in S : size[i] <= n + 1
      /\ \A i \in S : i \notin last => size[next[i]] < size[i]
  BY <1>2
<1>6. PICK h : Computes(h, S, Nat, last, base, next, join)
  <2>. DEFINE N == n + 1
  <2>1. N \in Nat /\ \A i \in S : size[i] <= N
    BY <1>2, <1>5
  <2>. HIDE DEF S, last, base, next, join, size, N
  <2>. QED
    BY <1>3, <1>4, <1>5, <2>1, RecursionExists
<1>7. ASSUME NEW i \in S PROVE h[i] = IF i > n THEN 0 ELSE s[i] + Base * h[i + 1]
  <2>1. CASE i > n
    <3>1. i \in last
      BY <1>2, <2>1
    <3>. QED
      BY <1>6, <2>1, <3>1 DEF Computes
  <2>2. CASE ~(i > n)
    <3>1. i \notin last /\ next[i] = i + 1 /\ i + 1 \in S
      BY <1>2, <2>2
    <3>2. h[i] = join[<<i, h[i + 1]>>] /\ h[i + 1] \in Nat
      BY <1>6, <3>1 DEF Computes
    <3>. QED
      BY <2>2, <3>2
  <2>. QED
    BY <2>1, <2>2
<1>8. h \in [S -> Nat]
  BY <1>6 DEF Computes
<1>9. h = Def(h)
  <2>. HIDE DEF S
  <2>. QED
    BY <1>7, <1>8
<1>10. value = Def(value)
  BY <1>9
<1>. HIDE DEF value
<1>11. value[n + 1] = 0 /\ \A i \in 1 .. n : value[i] = s[i] + Base * value[i + 1]
  BY <1>2, <1>10
<1>12. value \in [S -> Nat]
  <2>. DEFINE K == {k \in 0 .. n : value[n + 1 - k] \in Nat}
  <2>1. 0 \in K
    BY <1>2, <1>11
  <2>2. ASSUME NEW k \in 1 .. n, k - 1 \in K PROVE k \in K
    <3>. DEFINE i == n + 1 - k
    <3>1. i \in 1 .. n /\ i + 1 = n + 1 - (k - 1) /\ k \in 0 .. n
      BY <1>2
    <3>2. value[i + 1] \in Nat
      BY <2>2, <3>1
    <3>. HIDE DEF i
    <3>3. s[i] \in Nat /\ Base * value[i + 1] \in Nat
      BY <1>2, <3>1, <3>2
    <3>4. value[i] \in Nat
      BY <1>11, <3>1, <3>3
    <3>. QED
      BY <3>1, <3>4 DEF i
  <2>3. \A k \in 0 .. n : k \in K
    <3>. HIDE DEF K
    <3>. QED
      BY <1>2, <2>1, <2>2, UpTo
  <2>4. ASSUME NEW i \in S PROVE value[i] \in Nat
    <3>1. n + 1 - i \in 0 .. n /\ n + 1 - (n + 1 - i) = i
      BY <1>2
    <3>. QED
      BY <2>3, <3>1
  <2>. QED
    BY <1>10, <2>4
<1>. QED
  BY <1>1, <1>11, <1>12 DEF Value, n

(* A byte in front is the lowest one.                                        *)
LEMMA DecodeCons ==
  ASSUME NEW x \in Nat, NEW s \in Seq(Nat)
  PROVE  DecodeMaxNodeId(<<x>> \o s) = x + Base * DecodeMaxNodeId(s) /\ DecodeMaxNodeId(s) \in Nat
<1>. DEFINE t == <<x>> \o s
            n == Len(s)
<1>1. t \in Seq(Nat) /\ n \in Nat /\ Len(t) = n + 1 /\ t[1] = x /\ \A i \in 1 .. n : t[i + 1] = s[i]
  OBVIOUS
<1>. HIDE DEF t
<1>2. PICK v : Value(v, t) /\ DecodeMaxNodeId(t) = v[1]
  BY <1>1, DecodeIs
<1>3. PICK w : Value(w, s) /\ DecodeMaxNodeId(s) = w[1]
  BY DecodeIs
<1>4. /\ v[n + 2] = 0 /\ \A i \in 1 .. n + 1 : v[i] = t[i] + Base * v[i + 1]
  BY <1>1, <1>2 DEF Value
<1>5. /\ w[n + 1] = 0 /\ \A i \in 1 .. n : w[i] = s[i] + Base * w[i + 1]
      /\ w \in [1 .. n + 1 -> Nat]
  BY <1>3 DEF Value
<1>. HIDE DEF n
<1>. DEFINE K == {k \in 0 .. n : v[n + 2 - k] = w[n + 1 - k]}
<1>6. 0 \in K
  BY <1>1, <1>4, <1>5
<1>7. ASSUME NEW k \in 1 .. n, k - 1 \in K PROVE k \in K
  <2>. DEFINE i == n + 1 - k
  <2>1. i \in 1 .. n /\ i + 1 \in 1 .. n + 1 /\ n + 1 - (k - 1) = i + 1 /\ n + 2 - (k - 1) = (i + 1) + 1
        /\ n + 2 - k = i + 1 /\ k \in 0 .. n
    BY <1>1
  <2>2. v[(i + 1) + 1] = w[i + 1]
    BY <1>7, <2>1
  <2>. HIDE DEF i
  <2>3. v[i + 1] = t[i + 1] + Base * v[(i + 1) + 1] /\ w[i] = s[i] + Base * w[i + 1] /\ t[i + 1] = s[i]
    BY <1>1, <1>4, <1>5, <2>1
  <2>4. v[i + 1] = w[i]
    BY <2>2, <2>3
  <2>. QED
    BY <2>1, <2>4 DEF i
<1>8. \A k \in 0 .. n : k \in K
  <2>. HIDE DEF K
  <2>. QED
    BY <1>1, <1>6, <1>7, UpTo
<1>9. v[2] = w[1]
  <2>1. n \in K
    BY <1>1, <1>8
  <2>. QED
    BY <1>1, <2>1
<1>10. v[1] = x + Base * v[2] /\ w[1] \in Nat
  BY <1>1, <1>4, <1>5
<1>. QED
  BY <1>2, <1>3, <1>9, <1>10 DEF t

LEMMA DecodeOne ==
  ASSUME NEW x \in Nat
  PROVE  DecodeMaxNodeId(<<x>>) = x
<1>1. <<x>> \in Seq(Nat) /\ Len(<<x>>) = 1 /\ <<x>>[1] = x
  OBVIOUS
<1>2. PICK v : Value(v, <<x>>) /\ DecodeMaxNodeId(<<x>>) = v[1]
  BY <1>1, DecodeIs
<1>3. v[2] = 0 /\ v[1] = x + Base * v[2]
  BY <1>1, <1>2 DEF Value
<1>. QED
  BY <1>2, <1>3, SimilarityGraphAssumption

(* decode_max_node_id takes back what encode_max_node_id made.               *)
LEMMA DecodesEncoded ==
  ASSUME NEW n \in Nat
  PROVE  DecodeMaxNodeId(EncodeMaxNodeId(n)) = n /\ EncodeMaxNodeId(n) \in Seq(Nat) /\ EncodeMaxNodeId(n) # <<>>
<1>1. PICK e : Bytes(e, n) /\ EncodeMaxNodeId(n) = e[n]
  BY EncodeIs
<1>2. /\ e \in [0 .. n -> Seq(Nat)]
      /\ \A m \in 0 .. n : e[m] = IF m < Base THEN <<m>> ELSE <<m % Base>> \o e[m \div Base]
  BY <1>1 DEF Bytes
<1>. DEFINE Good(m) == DecodeMaxNodeId(e[m]) = m
            K == {k \in 0 .. n : \A m \in 0 .. k : Good(m)}
<1>3. ASSUME NEW m \in 0 .. n, \A l \in 0 .. m - 1 : Good(l) PROVE Good(m)
  <2>1. CASE m < Base
    <3>1. e[m] = <<m>>
      BY <1>2, <2>1
    <3>. QED
      BY <3>1, DecodeOne
  <2>2. CASE ~(m < Base)
    <3>. DEFINE q == m \div Base
                x == m % Base
    <3>1. Base \in Nat /\ m \in Nat
      BY SimilarityGraphAssumption
    <3>2. q \in Nat /\ x \in Nat /\ m = Base * q + x /\ q < m
      BY <2>2, <3>1, DivisionIs
    <3>3. e[m] = <<x>> \o e[q]
      BY <1>2, <2>2
    <3>. HIDE DEF q, x
    <3>4. q \in 0 .. m - 1 /\ q \in 0 .. n
      BY <3>2
    <3>5. Good(q) /\ e[q] \in Seq(Nat)
      BY <1>2, <1>3, <3>4
    <3>6. DecodeMaxNodeId(<<x>> \o e[q]) = x + Base * q
      BY <3>2, <3>5, DecodeCons
    <3>7. Base * q \in Nat
      BY <3>1, <3>2
    <3>. QED
      BY <3>2, <3>3, <3>6, <3>7
  <2>. QED
    BY <2>1, <2>2
<1>. HIDE DEF Good
<1>4. 0 \in K
  <2>1. Good(0)
    BY <1>3
  <2>. QED
    BY <2>1
<1>5. ASSUME NEW k \in 1 .. n, k - 1 \in K PROVE k \in K
  <2>1. k \in 0 .. n /\ \A l \in 0 .. k - 1 : Good(l)
    BY <1>5
  <2>2. Good(k)
    BY <1>3, <2>1
  <2>3. \A l \in 0 .. k : l \in 0 .. k - 1 \/ l = k
    OBVIOUS
  <2>. QED
    BY <2>1, <2>2, <2>3
<1>6. \A k \in 0 .. n : k \in K
  <2>. HIDE DEF K
  <2>. QED
    BY <1>4, <1>5, UpTo
<1>7. Good(n)
  BY <1>6
<1>8. e[n] \in Seq(Nat) /\ e[n] # <<>>
  <2>1. e[n] \in Seq(Nat)
    BY <1>2
  <2>2. CASE n < Base
    <3>1. n \in 0 .. n
      OBVIOUS
    <3>2. e[n] = <<n>>
      BY <1>2, <2>2, <3>1, Zenon
    <3>. QED
      BY <2>1, <3>2, OneElement
  <2>3. CASE ~(n < Base)
    <3>1. e[n \div Base] \in Seq(Nat) /\ n % Base \in Nat
      <4>1. n \div Base \in 0 .. n
        BY <2>3, DivisionIs, SimilarityGraphAssumption
      <4>. QED
        BY <1>2, <4>1, DivisionIs
    <3>2. e[n] = <<n % Base>> \o e[n \div Base]
      BY <1>2, <2>3
    <3>3. Len(<<n % Base>> \o e[n \div Base]) = 1 + Len(e[n \div Base]) /\ Len(e[n \div Base]) \in Nat
      BY <3>1
    <3>4. Len(e[n]) # 0
      BY <3>2, <3>3
    <3>. QED
      BY <2>1, <3>4, NotEmpty
  <2>. QED
    BY <2>1, <2>2, <2>3
<1>. QED
  BY <1>1, <1>7, <1>8 DEF Good

-----------------------------------------------------------------------------
(* The invariant.                                                            *)

TypeOK == Graph \in GraphRec /\ curr_max_node_id \in 0 .. MaxNodes

(* No id is given twice, however often the graph is built.                   *)
IdsCounted == MaxStored = curr_max_node_id /\ IdsOf(Graph) \subseteq 1 .. curr_max_node_id

IInv == TypeOK /\ Consistent(Graph) /\ Saved(Graph) /\ IdsCounted

LEMMA Became ==
  ASSUME NEW g \in GraphRec, Become(g)
  PROVE  Graph' = g
BY DEF Become, Graph, GraphRec

LEMMA MaxStoredSame ==
  ASSUME UNCHANGED stored_max
  PROVE  MaxStored' = MaxStored
BY DEF MaxStored, DecodeMaxNodeId

LEMMA Reads ==
  /\ Graph.nodes = nodes /\ Graph.map = map /\ Graph.ino_map = ino_map /\ Graph.stored = stored
  /\ PlacesOf(Graph) = Places
BY DEF Graph, PlacesOf, Places

LEMMA InitIInv == Init => IInv
<1>. SUFFICES ASSUME Init PROVE IInv
  OBVIOUS
<1>1. stored = EmptyMap /\ EmptyMap \in Maps(NodeIds, StoredRec)
  <2>1. EmptyMap \in [{} -> StoredRec] /\ {} \in SUBSET NodeIds
    BY DEF EmptyMap
  <2>. QED
    BY <2>1 DEF Init, Maps
<1>2. Graph = NewGraph
  BY DEF Init, Graph, NewGraph
<1>3. NewGraph \in GraphRec /\ Consistent(NewGraph) /\ Saved(NewGraph) /\ IdsOf(NewGraph) = {}
  BY <1>1, NewGraphIs
<1>4. MaxStored = 0 /\ curr_max_node_id = 0
  BY DEF Init, MaxStored
<1>. QED
  BY <1>2, <1>3, <1>4, SimilarityGraphAssumption DEF IInv, TypeOK, IdsCounted

(* A graph without more nodes that takes the place of this one.              *)
LEMMA NoNewIds ==
  ASSUME IInv, NEW g \in GraphRec, Become(g), Consistent(g), Saved(g), IdsOf(g) \subseteq IdsOf(Graph),
         UNCHANGED <<curr_max_node_id, stored_max>>
  PROVE  IInv'
<1>1. Graph' = g /\ MaxStored' = MaxStored
  BY Became, MaxStoredSame
<1>2. TypeOK' /\ IdsCounted'
  BY <1>1 DEF IInv, TypeOK, IdsCounted
<1>. QED
  BY <1>1, <1>2 DEF IInv

LEMMA AddIInv ==
  ASSUME IInv, NEW ino \in Inos, NEW h \in Hashes,
         NEW g \in GraphRec, Consistent(g), Saved(g), IdsOf(g) \subseteq IdsOf(Graph), Add(g, ino, h)
  PROVE  IInv'
<1>1. CASE HasHash(g, h)
  <2>. DEFINE k == PlaceOf(g, h)
              t == AddIno(g, k, ino)
  <2>1. k \in PlacesOf(g) /\ Become(t) /\ UNCHANGED <<curr_max_node_id, stored_max>>
    BY <1>1, PlaceOfIs DEF Add
  <2>. HIDE DEF k
  <2>2. t \in GraphRec /\ SameShape(g, t) /\ Consistent(t) /\ Saved(t)
    BY <2>1, InoAdded, InoAddedGood
  <2>3. IdsOf(t) \subseteq IdsOf(Graph)
    BY <2>2 DEF SameShape, IdsOf
  <2>. HIDE DEF t
  <2>. QED
    BY <2>1, <2>2, <2>3, NoNewIds
<1>2. CASE ~HasHash(g, h)
  <2>. DEFINE id == curr_max_node_id + 1
              t == InsertNode(g, id, ino, h)
  <2>1. /\ curr_max_node_id < MaxNodes /\ curr_max_node_id' = id
        /\ stored_max' = EncodeMaxNodeId(id) /\ Become(t)
    BY <1>2 DEF Add
  <2>2. id \in NodeIds /\ id \in Nat /\ id \in 0 .. MaxNodes /\ id \notin IdsOf(g)
        /\ \A x \in 1 .. curr_max_node_id : x \in 1 .. id
    BY <2>1, SimilarityGraphAssumption DEF IInv, TypeOK, IdsCounted, NodeIds
  <2>3. id \in 1 .. id
    <3>1. id >= 1 /\ id \in Nat
      BY <2>2 DEF NodeIds
    <3>. HIDE DEF id
    <3>. QED
      BY <3>1
  <2>. HIDE DEF id
  <2>4. t \in GraphRec /\ Consistent(t) /\ Saved(t) /\ IdsOf(t) \subseteq IdsOf(g) \cup {id}
    BY <2>2, NodeInserted DEF Fits
  <2>5. Graph' = t
    <3>. HIDE DEF t
    <3>. QED
      BY <2>1, <2>4, Became
  <2>6. MaxStored' = id
    BY <2>1, <2>2, DecodesEncoded DEF MaxStored, DecodeMaxNodeId
  <2>7. IdsOf(t) \subseteq 1 .. id
    BY <2>2, <2>3, <2>4 DEF IInv, IdsCounted
  <2>. HIDE DEF t
  <2>8. TypeOK' /\ IdsCounted'
    BY <2>1, <2>2, <2>4, <2>5, <2>6, <2>7 DEF TypeOK, IdsCounted
  <2>. QED
    BY <2>4, <2>5, <2>8 DEF IInv
<1>. QED
  BY <1>1, <1>2

(* An inode that is taken has its place.                                     *)
LEMMA InoTaken ==
  ASSUME IInv, NEW ino \in Inos, ~Dangling(ino), NEW t, t = WithoutIno(ino)
  PROVE  t \in GraphRec /\ Consistent(t) /\ Saved(t) /\ IdsOf(t) \subseteq IdsOf(Graph)
<1>1. Graph \in GraphRec /\ Consistent(Graph) /\ Saved(Graph)
  BY DEF IInv, TypeOK
<1>2. CASE ino \notin DOMAIN ino_map
  BY <1>1, <1>2 DEF WithoutIno
<1>3. CASE ino \in DOMAIN ino_map
  <2>. DEFINE k == map[ino_map[ino]]
  <2>1. ino_map[ino] \in IdsOf(Graph)
    BY <1>1, <1>3, Reads DEF Dangling, Consistent, MapOk
  <2>2. k \in PlacesOf(Graph)
    BY <1>1, <2>1, Reads DEF Consistent, MapOk, IdsOf
  <2>3. t = DeleteIno(Graph, k, ino)
    BY <1>3 DEF WithoutIno
  <2>. HIDE DEF k
  <2>. QED
    BY <1>1, <2>2, <2>3, InoDeleted
<1>. QED
  BY <1>2, <1>3

LEMMA DeleteByInoIInv ==
  ASSUME IInv, NEW ino \in Inos, DeleteNodeByIno(ino)
  PROVE  IInv'
<1>. DEFINE t == WithoutIno(ino)
<1>1. ~Dangling(ino) /\ Become(t) /\ UNCHANGED <<curr_max_node_id, stored_max>>
  BY DEF DeleteNodeByIno
<1>2. t \in GraphRec /\ Consistent(t) /\ Saved(t) /\ IdsOf(t) \subseteq IdsOf(Graph)
  BY <1>1, InoTaken
<1>. HIDE DEF t
<1>. QED
  BY <1>1, <1>2, NoNewIds

LEMMA DeleteByHashIInv ==
  ASSUME IInv, NEW h \in Hashes, DeleteNodeByHash(h)
  PROVE  IInv'
<1>. DEFINE k == PlaceOf(Graph, h)
            t == DeleteNode(Graph, k)
<1>1. k \in PlacesOf(Graph) /\ Become(t) /\ UNCHANGED <<curr_max_node_id, stored_max>>
  BY PlaceOfIs DEF DeleteNodeByHash
<1>2. Graph \in GraphRec /\ Consistent(Graph) /\ Saved(Graph)
  BY DEF IInv, TypeOK
<1>. HIDE DEF k
<1>3. t \in GraphRec /\ Deleted(Graph, t, k)
  BY <1>1, <1>2, NodeDeleted
<1>4. Consistent(t) /\ Saved(t) /\ IdsOf(t) \subseteq IdsOf(Graph)
  BY <1>1, <1>2, <1>3, DeletedGood
<1>. HIDE DEF t
<1>. QED
  BY <1>1, <1>3, <1>4, NoNewIds

LEMMA EditIInv ==
  ASSUME IInv, NEW ino \in Inos, NEW h \in Hashes, EditNode(ino, h)
  PROVE  IInv'
<1>. DEFINE t == WithoutIno(ino)
<1>1. ~Dangling(ino) /\ Add(t, ino, h)
  BY DEF EditNode
<1>2. t \in GraphRec /\ Consistent(t) /\ Saved(t) /\ IdsOf(t) \subseteq IdsOf(Graph)
  BY <1>1, InoTaken
<1>. HIDE DEF t
<1>. QED
  BY <1>1, <1>2, AddIInv

LEMMA AddNodeIInv ==
  ASSUME IInv, NEW ino \in Inos, NEW h \in Hashes, AddNode(ino, h)
  PROVE  IInv'
<1>1. Graph \in GraphRec /\ Consistent(Graph) /\ Saved(Graph) /\ Add(Graph, ino, h)
  BY DEF IInv, TypeOK, AddNode
<1>. QED
  BY <1>1, AddIInv

LEMMA StoredTyped ==
  ASSUME IInv
  PROVE  stored \in Maps(NodeIds, StoredRec) /\ MaxStored \in 0 .. MaxNodes
BY GraphFields, Reads DEF IInv, TypeOK, IdsCounted

LEMMA BuildIInv ==
  ASSUME IInv, Build
  PROVE  IInv'
<1>1. Become(Built) /\ curr_max_node_id' = MaxStored /\ UNCHANGED stored_max
  BY DEF Build
<1>2. Built \in GraphRec /\ Consistent(Built) /\ Saved(Built) /\ IdsOf(Built) \subseteq 1 .. LastBuilt
  BY StoredTyped, BuiltIs
<1>3. Graph' = Built /\ MaxStored' = MaxStored
  BY <1>1, <1>2, Became, MaxStoredSame
<1>4. IdsOf(Built) \subseteq 1 .. MaxStored
  <2>1. \A x \in 1 .. LastBuilt : x \in 1 .. MaxStored
    BY StoredTyped DEF LastBuilt
  <2>. QED
    BY <1>2, <2>1
<1>5. TypeOK' /\ IdsCounted'
  BY <1>1, <1>2, <1>3, <1>4, StoredTyped DEF TypeOK, IdsCounted
<1>. QED
  BY <1>2, <1>3, <1>5 DEF IInv

LEMMA IInvHolds == Spec => []IInv
<1>1. IInv /\ [Next]_vars => IInv'
  <2>. SUFFICES ASSUME IInv, [Next]_vars PROVE IInv'
    OBVIOUS
  <2>1. ASSUME UNCHANGED <<nodes, map, ino_map, curr_max_node_id, stored, stored_max>> PROVE IInv'
    <3>1. Graph' = Graph /\ MaxStored' = MaxStored /\ curr_max_node_id' = curr_max_node_id
      BY <2>1, MaxStoredSame DEF Graph
    <3>. QED
      BY <3>1 DEF IInv, TypeOK, IdsCounted
  <2>2. ASSUME NEW ino \in Inos, NEW h \in Hashes, AddNode(ino, h) PROVE IInv'
    BY <2>2, AddNodeIInv
  <2>3. ASSUME NEW ino \in Inos, NEW h \in Hashes, EditNode(ino, h) PROVE IInv'
    BY <2>3, EditIInv
  <2>4. ASSUME NEW ino \in Inos, DeleteNodeByIno(ino) PROVE IInv'
    BY <2>4, DeleteByInoIInv
  <2>5. ASSUME NEW ino \in Inos, PanicAtIno(ino) PROVE IInv'
    BY <2>1, <2>5 DEF PanicAtIno
  <2>6. ASSUME NEW h \in Hashes, DeleteNodeByHash(h) PROVE IInv'
    BY <2>6, DeleteByHashIInv
  <2>7. CASE Build
    BY <2>7, BuildIInv
  <2>8. CASE UNCHANGED vars
    BY <2>1, <2>8 DEF vars
  <2>. QED
    BY <2>2, <2>3, <2>4, <2>5, <2>6, <2>7, <2>8 DEF Next
<1>. QED
  BY <1>1, InitIInv, PTL DEF Spec

-----------------------------------------------------------------------------
LEMMA ConsistentGraph ==
  ASSUME IInv
  PROVE  GraphConsistent
<1>1. Consistent(Graph) /\ PlacesOf(Graph) = Places
  BY Reads DEF IInv
<1>2. \A k, l \in Places : EdgeOf(Graph, k, l) = EdgeTo(k, l)
  BY Reads DEF EdgeOf, EdgeTo, WeightOf, Distance
<1>3. MapExact
  BY <1>1, Reads DEF Consistent, MapOk, MapExact, IdsOf
<1>4. HashesDistinct
  BY <1>1, Reads DEF Consistent, HashesOk, HashesDistinct
<1>5. EdgesMutual
  <2>1. EdgesOk(Graph)
    BY <1>1 DEF Consistent
  <2>. QED
    BY <1>1, <1>2, <2>1, Reads DEF EdgesOk, EdgesMutual
<1>. QED
  BY <1>3, <1>4, <1>5 DEF GraphConsistent

(* After any insertions, removals, edits and rebuilds, of any number of      *)
(* nodes, the vector, the map and both ends of every edge agree.             *)
THEOREM GraphStaysConsistent == Spec => []GraphConsistent
<1>1. IInv => GraphConsistent
  BY ConsistentGraph
<1>. QED
  BY <1>1, IInvHolds, PTL

(* A graph built from the store has every node but the last one added.       *)
THEOREM NodesSurviveBuild == Spec => []RebuildKeepsNodes
<1>1. IInv => RebuildKeepsNodes
  <2>. SUFFICES ASSUME IInv, NEW k \in Places, nodes[k].id < curr_max_node_id
                PROVE  HasHash(Built, nodes[k].hash)
    BY DEF RebuildKeepsNodes
  <2>. DEFINE id == nodes[k].id
  <2>1. id \in DOMAIN stored /\ stored[id].hash = nodes[k].hash /\ stored[id].inos # <<>>
    BY Reads DEF IInv, Saved, SavedAs
  <2>2. id \in 1 .. curr_max_node_id /\ curr_max_node_id = MaxStored
    BY Reads DEF IInv, IdsCounted, IdsOf
  <2>3. id \in 1 .. LastBuilt
    BY <2>2, StoredTyped DEF LastBuilt
  <2>. HIDE DEF id
  <2>4. HasHash(Built, stored[id].hash)
    BY <2>1, <2>3, StoredTyped, BuiltIs
  <2>. QED
    BY <2>1, <2>4
<1>. QED
  BY <1>1, IInvHolds, PTL

-----------------------------------------------------------------------------
(* Queries.                                                                  *)

LEMMA PairIs ==
  ASSUME NEW A, NEW B, NEW q \in A \X B
  PROVE  q[1] \in A /\ q[2] \in B /\ q = <<q[1], q[2]>>
OBVIOUS

LEMMA GreatestIs ==
  ASSUME NEW n \in Nat, NEW s \in SUBSET (0 .. n), s # {}
  PROVE  \E m \in s : \A x \in s : x <= m
<1>. DEFINE T == {n - x : x \in s}
<1>1. T \in SUBSET Nat /\ T # {}
  <2>1. \A x \in s : n - x \in Nat
    OBVIOUS
  <2>2. PICK x \in s : TRUE
    OBVIOUS
  <2>3. n - x \in T
    OBVIOUS
  <2>. QED
    BY <2>1, <2>3
<1>2. PICK r \in T : \A y \in T : ~(<<y, r>> \in OpToRel(<, Nat))
  <2>. HIDE DEF T
  <2>. QED
    BY <1>1, NatLessThanWellFounded, WFMin
<1>3. ASSUME NEW y \in T PROVE ~(y < r)
  <2>1. <<y, r>> \in Nat \X Nat
    BY <1>1
  <2>. QED
    BY <1>2, <2>1 DEF OpToRel
<1>4. PICK m \in s : r = n - m
  OBVIOUS
<1>5. ASSUME NEW x \in s PROVE x <= m
  <2>1. ~(n - x < n - m)
    BY <1>3, <1>4
  <2>2. x \in Int /\ m \in Int /\ n \in Int
    OBVIOUS
  <2>. HIDE DEF T
  <2>. QED
    BY <2>1, <2>2
<1>. QED
  BY <1>5

(* What the proofs use of a graph that is consistent.                        *)
NodesOk ==
  /\ \A k \in Places : nodes[k].id \in NodeIds /\ map[nodes[k].id] = k /\ nodes[k].hash \in Hashes
  /\ DOMAIN map = {nodes[k].id : k \in Places}
  /\ \A k \in Places : \A e \in nodes[k].edges : \E l \in Places \ {k} : e = EdgeTo(k, l)
  /\ \A k \in Places : \A l \in Places \ {k} : Distance(k, l) <= 2 => EdgeTo(k, l) \in nodes[k].edges

LEMMA NodesAreOk ==
  ASSUME IInv
  PROVE  NodesOk
<1>1. Consistent(Graph) /\ PlacesOf(Graph) = Places /\ Graph \in GraphRec
  BY Reads DEF IInv, TypeOK
<1>2. GraphConsistent
  BY ConsistentGraph
<1>3. \A k \in Places : nodes[k].id \in NodeIds /\ nodes[k].hash \in Hashes
  BY <1>1, GraphFields, Reads
<1>4. \A k, l \in Places : EdgeOf(Graph, k, l) = EdgeTo(k, l) /\ WeightOf(Graph, k, l) = Distance(k, l)
  BY Reads DEF EdgeOf, EdgeTo, WeightOf, Distance
<1>5. \A k \in Places : \A l \in Places \ {k} : Distance(k, l) <= 2 => EdgeTo(k, l) \in nodes[k].edges
  BY <1>1, <1>4, Reads DEF Consistent, CloseJoined
<1>. QED
  BY <1>2, <1>3, <1>5 DEF NodesOk, GraphConsistent, MapExact, EdgesMutual

LEMMA DistanceIs ==
  ASSUME NodesOk, NEW k \in Places, NEW l \in Places
  PROVE  /\ Distance(k, l) \in Nat
         /\ \A m \in Places : Distance(k, m) <= Distance(k, l) + Distance(l, m)
BY WeightIs, WeightTriangle DEF NodesOk, Distance

(* Pairs of a node's id and a distance.                                      *)
Pairs(radii) == (DOMAIN map) \X (0 .. radii)

LEMMA PairsAre ==
  ASSUME NEW radii, NEW q \in Pairs(radii)
  PROVE  q[1] \in DOMAIN map /\ q[2] \in 0 .. radii /\ q = <<q[1], q[2]>>
BY PairIs DEF Pairs

LEMMA LargestIs ==
  ASSUME NodesOk, NEW radii \in Nat, NEW queue \in SUBSET Pairs(radii), queue # {}
  PROVE  Largest(queue) \in queue
<1>. DEFINE A == {q[1] : q \in queue}
<1>1. A \in SUBSET (0 .. MaxNodes) /\ A # {} /\ MaxNodes \in Nat
  <2>1. \A q \in queue : q[1] \in NodeIds
    <3>1. ASSUME NEW q \in queue PROVE q[1] \in NodeIds
      <4>1. q[1] \in DOMAIN map
        BY PairsAre
      <4>. QED
        BY <4>1 DEF NodesOk
    <3>. QED
      BY <3>1
  <2>. QED
    BY <2>1, SimilarityGraphAssumption DEF NodeIds
<1>2. PICK a \in A : \A x \in A : x <= a
  <2>. HIDE DEF A
  <2>. QED
    BY <1>1, GreatestIs
<1>. DEFINE B == {q[2] : q \in {x \in queue : x[1] = a}}
<1>3. B \in SUBSET (0 .. radii) /\ B # {}
  <2>1. \A q \in queue : q[2] \in 0 .. radii
    BY PairsAre
  <2>2. \E q \in queue : q[1] = a
    BY <1>2
  <2>. QED
    BY <2>1, <2>2
<1>4. PICK b \in B : \A x \in B : x <= b
  <2>. HIDE DEF B
  <2>. QED
    BY <1>3, GreatestIs
<1>5. PICK p \in queue : p[1] = a /\ p[2] = b
  BY <1>4
<1>6. ASSUME NEW q \in queue PROVE q[1] < p[1] \/ (q[1] = p[1] /\ q[2] <= p[2])
  <2>1. q[1] \in A /\ q[1] <= a /\ q[1] \in Nat /\ a \in Nat
    BY <1>1, <1>2
  <2>2. CASE q[1] = a
    <3>1. q[2] \in B
      BY <2>2
    <3>. QED
      BY <1>4, <1>5, <2>2, <3>1
  <2>3. CASE q[1] # a
    BY <1>5, <2>1, <2>3
  <2>. QED
    BY <2>2, <2>3
<1>. QED
  BY <1>6 DEF Largest

(* The pairs that may still be popped.                                       *)
Pending(s, radii) == s.queue \cup {q \in Pairs(radii) : q[1] \notin s.visited}

LEMMA PairsFinite ==
  ASSUME NodesOk, NEW radii \in Nat
  PROVE  IsFiniteSet(Pairs(radii))
<1>1. IsFiniteSet(NodeIds) /\ IsFiniteSet(0 .. radii)
  BY FS_Interval, SimilarityGraphAssumption DEF NodeIds
<1>2. DOMAIN map \subseteq NodeIds
  BY DEF NodesOk
<1>3. IsFiniteSet(DOMAIN map)
  BY <1>1, <1>2, FS_Subset
<1>. DEFINE S == DOMAIN map
            T == 0 .. radii
<1>4. IsFiniteSet(S) /\ IsFiniteSet(T)
  BY <1>1, <1>3
<1>5. IsFiniteSet(S \X T)
  <2>. HIDE DEF S, T
  <2>. QED
    BY <1>4, FS_Product
<1>. QED
  BY <1>5 DEF Pairs

LEMMA QueriesAre ==
  ASSUME NEW radii
  PROVE  Queries(radii) = [queue : SUBSET Pairs(radii), visited : SUBSET DOMAIN map, found : SUBSET Places]
BY DEF Queries, Pairs, Places

LEMMA QueryFields ==
  ASSUME NEW radii, NEW s \in Queries(radii)
  PROVE  s.queue \in SUBSET Pairs(radii) /\ s.visited \in SUBSET DOMAIN map /\ s.found \in SUBSET Places
BY QueriesAre

LEMMA QueryMade ==
  ASSUME NEW radii, NEW queue \in SUBSET Pairs(radii), NEW visited \in SUBSET DOMAIN map,
         NEW found \in SUBSET Places
  PROVE  [queue |-> queue, visited |-> visited, found |-> found] \in Queries(radii)
BY QueriesAre

(* From a node at distance dis its edges reach others at most that far on.   *)
LEMMA ReachedIs ==
  ASSUME NodesOk, NEW l \in Places, NEW radii \in Nat, NEW dis \in Nat,
         NEW q \in Reached(nodes[l].edges, dis, radii)
  PROVE  /\ q \in Pairs(radii)
         /\ \E m \in Places \ {l} : q = <<nodes[m].id, Distance(l, m) + dis>>
<1>1. PICK e \in nodes[l].edges : e.weight + dis <= radii /\ q = <<e.to, e.weight + dis>>
  BY DEF Reached
<1>2. PICK m \in Places \ {l} : e = EdgeTo(l, m)
  BY DEF NodesOk
<1>3. e.to = nodes[m].id /\ e.weight = Distance(l, m) /\ Distance(l, m) \in Nat
  BY <1>2, DistanceIs DEF EdgeTo
<1>4. e.to \in DOMAIN map
  BY <1>3 DEF NodesOk
<1>5. e.weight + dis \in 0 .. radii
  BY <1>1, <1>3
<1>6. q \in Pairs(radii)
  <2>1. <<e.to, e.weight + dis>> \in Pairs(radii)
    BY <1>4, <1>5 DEF Pairs
  <2>. QED
    BY <1>1, <2>1
<1>. QED
  BY <1>1, <1>3, <1>6

LEMMA PoppedIs ==
  ASSUME NodesOk, NEW radii \in Nat, NEW s \in Queries(radii), s.queue # {}
  PROVE  LET p == Largest(s.queue)
             t == Popped(s, radii)
         IN /\ p \in s.queue /\ p[1] \in DOMAIN map /\ map[p[1]] \in Places /\ p[2] \in 0 .. radii
            /\ nodes[map[p[1]]].id = p[1]
            /\ t \in Queries(radii)
            /\ t.queue = (s.queue \ {p}) \cup
                           {q \in Reached(nodes[map[p[1]]].edges, p[2], radii) : q[1] \notin s.visited}
            /\ t.visited = s.visited \cup {p[1]} /\ t.found = s.found \cup {map[p[1]]}
<1>. DEFINE p == Largest(s.queue)
            l == map[p[1]]
            more == {q \in Reached(nodes[l].edges, p[2], radii) : q[1] \notin s.visited}
<1>1. s.queue \in SUBSET Pairs(radii) /\ s.visited \in SUBSET DOMAIN map /\ s.found \in SUBSET Places
  BY QueryFields
<1>2. p \in s.queue
  BY <1>1, LargestIs
<1>. HIDE DEF p
<1>3. p[1] \in DOMAIN map /\ p[2] \in 0 .. radii
  BY <1>1, <1>2, PairsAre
<1>4. l \in Places /\ nodes[l].id = p[1]
  BY <1>3 DEF NodesOk
<1>. HIDE DEF l
<1>5. more \in SUBSET Pairs(radii)
  <2>1. p[2] \in Nat
    BY <1>3
  <2>. QED
    BY <1>4, <2>1, ReachedIs
<1>6. Popped(s, radii) = [queue |-> (s.queue \ {p}) \cup more, visited |-> s.visited \cup {p[1]},
                         found |-> s.found \cup {l}]
  BY DEF Popped, p, l
<1>. HIDE DEF more
<1>7. Popped(s, radii) \in Queries(radii)
  <2>1. /\ (s.queue \ {p}) \cup more \in SUBSET Pairs(radii)
        /\ s.visited \cup {p[1]} \in SUBSET DOMAIN map /\ s.found \cup {l} \in SUBSET Places
    BY <1>1, <1>3, <1>4, <1>5
  <2>. QED
    BY <1>6, <2>1, QueryMade
<1>. QED
  BY <1>2, <1>3, <1>4, <1>6, <1>7 DEF p, l, more

(* Each pop leaves less to do.                                               *)
LEMMA LessPending ==
  ASSUME NodesOk, NEW radii \in Nat, NEW s \in Queries(radii)
  PROVE  /\ Cardinality(Pending(s, radii)) \in Nat
         /\ Cardinality(Pending(s, radii)) <= Cardinality(Pairs(radii))
         /\ s.queue # {} =>
              Cardinality(Pending(Popped(s, radii), radii)) < Cardinality(Pending(s, radii))
<1>1. IsFiniteSet(Pairs(radii))
  BY PairsFinite
<1>2. Pending(s, radii) \in SUBSET Pairs(radii)
  BY QueryFields DEF Pending
<1>3. /\ IsFiniteSet(Pending(s, radii)) /\ Cardinality(Pending(s, radii)) \in Nat
      /\ Cardinality(Pending(s, radii)) <= Cardinality(Pairs(radii))
  BY <1>1, <1>2, FS_Subset, FS_CardinalityType
<1>4. ASSUME s.queue # {}
      PROVE  Cardinality(Pending(Popped(s, radii), radii)) < Cardinality(Pending(s, radii))
  <2>. DEFINE p == Largest(s.queue)
              t == Popped(s, radii)
              l == map[p[1]]
              A == Pending(s, radii)
              B == Pending(t, radii)
  <2>1. /\ p \in s.queue /\ l \in Places /\ nodes[l].id = p[1] /\ p[2] \in Nat
        /\ t.queue = (s.queue \ {p}) \cup {q \in Reached(nodes[l].edges, p[2], radii) : q[1] \notin s.visited}
        /\ t.visited = s.visited \cup {p[1]}
    BY <1>4, PoppedIs
  <2>. HIDE DEF p, t, l
  <2>2. ASSUME NEW q \in Reached(nodes[l].edges, p[2], radii) PROVE q \in Pairs(radii) /\ q[1] # p[1]
    <3>1. PICK m \in Places \ {l} : q = <<nodes[m].id, Distance(l, m) + p[2]>>
      BY <2>1, ReachedIs
    <3>2. nodes[m].id # nodes[l].id
      BY <2>1, <3>1 DEF NodesOk
    <3>. QED
      BY <2>1, <3>1, <3>2, ReachedIs
  <2>3. ASSUME NEW q \in B PROVE q \in A \ {p}
    <3>1. CASE q \in s.queue \ {p}
      BY <3>1 DEF Pending
    <3>2. CASE q \in Reached(nodes[l].edges, p[2], radii) /\ q[1] \notin s.visited
      BY <2>2, <3>2 DEF Pending
    <3>3. CASE q \in Pairs(radii) /\ q[1] \notin s.visited \cup {p[1]}
      BY <3>3 DEF Pending
    <3>. QED
      BY <2>1, <3>1, <3>2, <3>3 DEF Pending
  <2>4. p \in A
    BY <2>1 DEF Pending
  <2>. HIDE DEF A, B
  <2>5. IsFiniteSet(A) /\ IsFiniteSet(A \ {p}) /\ Cardinality(A \ {p}) = Cardinality(A) - 1
    BY <1>3, <2>4, FS_RemoveElement DEF A
  <2>6. B \subseteq A \ {p}
    BY <2>3
  <2>7. Cardinality(B) <= Cardinality(A \ {p})
    BY <2>5, <2>6, FS_Subset
  <2>8. Cardinality(B) \in Nat /\ Cardinality(A) \in Nat
    BY <2>5, <2>6, FS_Subset, FS_CardinalityType
  <2>9. Cardinality(B) < Cardinality(A)
    BY <2>5, <2>7, <2>8
  <2>. QED
    BY <2>9 DEF A, B, t
<1>. QED
  BY <1>3, <1>4

(* The answers, one for each state of a query.                               *)
Answers(h, radii) ==
  \A s \in Queries(radii) : h[s] = IF s.queue = {} THEN s.found ELSE h[Popped(s, radii)]

LEMMA QueryEnds ==
  ASSUME NodesOk, NEW radii \in Nat, NEW k
  PROVE  \E h : Answers(h, radii) /\ QueryNode(k, radii) = h[FirstQuery(k, radii)]
<1>. DEFINE S == Queries(radii)
            U == SUBSET Places
            last == {s \in S : s.queue = {}}
            base == [s \in S |-> s.found]
            next == [s \in S |-> IF s.queue = {} THEN s ELSE Popped(s, radii)]
            join == [x \in S \X U |-> x[2]]
            size == [s \in S |-> Cardinality(Pending(s, radii))]
            N == Cardinality(Pairs(radii))
            Def(f) == [s \in S |-> IF s.queue = {} THEN s.found ELSE f[Popped(s, radii)]]
            result == CHOOSE f : f = Def(f)
<1>1. QueryNode(k, radii) = result[FirstQuery(k, radii)]
  BY DEF QueryNode
<1>2. \A s \in S : s.queue # {} => Popped(s, radii) \in S
  BY PoppedIs
<1>3. /\ base \in [S -> U] /\ next \in [S -> S] /\ join \in [S \X U -> U] /\ size \in [S -> Nat]
      /\ N \in Nat
  <2>1. base \in [S -> U]
    BY QueryFields
  <2>2. next \in [S -> S]
    BY <1>2
  <2>3. size \in [S -> Nat]
    BY LessPending
  <2>4. N \in Nat
    BY PairsFinite, FS_CardinalityType
  <2>. QED
    BY <2>1, <2>2, <2>3, <2>4
<1>4. /\ \A s \in S : size[s] <= N
      /\ \A s \in S : s \notin last => size[next[s]] < size[s]
  <2>1. \A s \in S : size[s] <= N
    BY LessPending
  <2>2. ASSUME NEW s \in S, s \notin last PROVE size[next[s]] < size[s]
    <3>1. s.queue # {} /\ next[s] = Popped(s, radii) /\ Popped(s, radii) \in S
      BY <1>2, <2>2
    <3>2. size[s] = Cardinality(Pending(s, radii))
          /\ size[Popped(s, radii)] = Cardinality(Pending(Popped(s, radii), radii))
      BY <3>1
    <3>. QED
      BY <3>1, <3>2, LessPending
  <2>. QED
    BY <2>1, <2>2
<1>5. PICK h : Computes(h, S, U, last, base, next, join)
  <2>. HIDE DEF S, U, last, base, next, join, size, N
  <2>. QED
    BY <1>3, <1>4, RecursionExists
<1>6. ASSUME NEW s \in S PROVE h[s] = IF s.queue = {} THEN s.found ELSE h[Popped(s, radii)]
  <2>1. CASE s.queue = {}
    BY <1>5, <2>1 DEF Computes
  <2>2. CASE s.queue # {}
    <3>1. s \notin last /\ next[s] = Popped(s, radii) /\ Popped(s, radii) \in S
      BY <1>2, <2>2
    <3>2. h[s] = join[<<s, h[Popped(s, radii)]>>] /\ h[Popped(s, radii)] \in U
      BY <1>5, <3>1 DEF Computes
    <3>. QED
      BY <2>2, <3>2
  <2>. QED
    BY <2>1, <2>2
<1>7. h \in [S -> U]
  BY <1>5 DEF Computes
<1>8. h = Def(h)
  <2>. HIDE DEF S, U
  <2>. QED
    BY <1>6, <1>7
<1>9. result = Def(result)
  BY <1>8
<1>. HIDE DEF result
<1>10. Answers(result, radii)
  BY <1>9 DEF Answers
<1>. QED
  BY <1>1, <1>10

-----------------------------------------------------------------------------
Near(k, radii) == {l \in Places \ {k} : Distance(k, l) <= radii}

(* What waits was reached over nodes that exist, no nearer than it is; up to *)
(* radius 2 what was not found waits.                                        *)
Fine(s, k, radii) ==
  /\ nodes[k].id \in s.visited
  /\ \A q \in s.queue : \E l \in Places \ {k} : q[1] = nodes[l].id /\ Distance(k, l) <= q[2]
  /\ s.found \subseteq Near(k, radii)
  /\ radii <= 2 => \A l \in Near(k, radii) : l \in s.found \/ \E q \in s.queue : q[1] = nodes[l].id

LEMMA FirstFine ==
  ASSUME NodesOk, NEW k \in Places, NEW radii \in Nat
  PROVE  FirstQuery(k, radii) \in Queries(radii) /\ Fine(FirstQuery(k, radii), k, radii)
<1>. DEFINE queue == Reached(nodes[k].edges, 0, radii)
            s == FirstQuery(k, radii)
<1>1. s = [queue |-> queue, visited |-> {nodes[k].id}, found |-> {}]
  BY DEF FirstQuery
<1>2. s.queue = queue /\ s.visited = {nodes[k].id} /\ s.found = {}
  BY <1>1
<1>3. \A q \in queue : q \in Pairs(radii) /\ \E m \in Places \ {k} : q = <<nodes[m].id, Distance(k, m) + 0>>
  <2>. HIDE DEF queue
  <2>. SUFFICES ASSUME NEW q \in Reached(nodes[k].edges, 0, radii)
                PROVE  q \in Pairs(radii) /\ \E m \in Places \ {k} : q = <<nodes[m].id, Distance(k, m) + 0>>
    BY DEF queue
  <2>. QED
    BY ReachedIs
<1>4. \A l \in Near(k, radii) : radii <= 2 => <<nodes[l].id, Distance(k, l) + 0>> \in queue
  <2>. SUFFICES ASSUME NEW l \in Near(k, radii), radii <= 2
                PROVE  <<nodes[l].id, Distance(k, l) + 0>> \in queue
    OBVIOUS
  <2>. DEFINE e == EdgeTo(k, l)
  <2>1. l \in Places \ {k} /\ Distance(k, l) <= radii /\ Distance(k, l) \in Nat /\ Distance(k, l) <= 2
    <3>1. l \in Places \ {k} /\ Distance(k, l) <= radii
      BY DEF Near
    <3>2. Distance(k, l) \in Nat
      BY <3>1, DistanceIs
    <3>. QED
      BY <3>1, <3>2
  <2>2. e \in nodes[k].edges /\ e.to = nodes[l].id /\ e.weight = Distance(k, l)
    BY <2>1 DEF NodesOk, EdgeTo
  <2>. HIDE DEF e
  <2>3. e.weight + 0 <= radii
    BY <2>1, <2>2
  <2>. QED
    BY <2>2, <2>3 DEF Reached
<1>. HIDE DEF queue
<1>5. s \in Queries(radii)
  <2>1. queue \in SUBSET Pairs(radii) /\ {nodes[k].id} \in SUBSET DOMAIN map /\ {} \in SUBSET Places
    BY <1>3 DEF NodesOk
  <2>. HIDE DEF s
  <2>. QED
    BY <1>1, <2>1, QueryMade
<1>. HIDE DEF s
<1>6. Fine(s, k, radii)
  <2>1. ASSUME NEW q \in queue
        PROVE  \E l \in Places \ {k} : q[1] = nodes[l].id /\ Distance(k, l) <= q[2]
    <3>1. PICK m \in Places \ {k} : q = <<nodes[m].id, Distance(k, m) + 0>>
      BY <1>3
    <3>2. Distance(k, m) \in Nat
      BY DistanceIs
    <3>3. q[1] = nodes[m].id /\ Distance(k, m) <= q[2]
      BY <3>1, <3>2
    <3>. QED
      BY <3>3
  <2>2. ASSUME radii <= 2, NEW l \in Near(k, radii) PROVE \E q \in queue : q[1] = nodes[l].id
    <3>1. <<nodes[l].id, Distance(k, l) + 0>> \in queue
      BY <1>4, <2>2
    <3>. QED
      BY <3>1
  <2>. QED
    BY <1>2, <2>1, <2>2 DEF Fine
<1>. QED
  BY <1>5, <1>6 DEF s

LEMMA PoppedFine ==
  ASSUME NodesOk, NEW k \in Places, NEW radii \in Nat, NEW s \in Queries(radii),
         s.queue # {}, Fine(s, k, radii)
  PROVE  Fine(Popped(s, radii), k, radii)
<1>. DEFINE p == Largest(s.queue)
            t == Popped(s, radii)
            l == map[p[1]]
<1>1. /\ p \in s.queue /\ l \in Places /\ nodes[l].id = p[1] /\ p[2] \in 0 .. radii
      /\ t.queue = (s.queue \ {p}) \cup {q \in Reached(nodes[l].edges, p[2], radii) : q[1] \notin s.visited}
      /\ t.visited = s.visited \cup {p[1]} /\ t.found = s.found \cup {l}
  BY PoppedIs
<1>. HIDE DEF p, t
<1>2. l # k /\ Distance(k, l) <= p[2]
  <2>1. PICK m \in Places \ {k} : p[1] = nodes[m].id /\ Distance(k, m) <= p[2]
    BY <1>1 DEF Fine
  <2>2. l = m
    BY <2>1 DEF NodesOk
  <2>. QED
    BY <2>1, <2>2
<1>. HIDE DEF l
<1>3. p[2] \in Nat /\ p[2] <= radii /\ Distance(k, l) \in Nat
  BY <1>1, DistanceIs
<1>4. l \in Near(k, radii)
  <2>1. Distance(k, l) <= radii
    BY <1>2, <1>3
  <2>. QED
    BY <1>1, <1>2, <2>1 DEF Near
<1>5. ASSUME NEW q \in t.queue
      PROVE  \E m \in Places \ {k} : q[1] = nodes[m].id /\ Distance(k, m) <= q[2]
  <2>1. CASE q \in s.queue
    BY <2>1 DEF Fine
  <2>2. CASE q \notin s.queue
    <3>1. q \in Reached(nodes[l].edges, p[2], radii) /\ q[1] \notin s.visited
      BY <1>1, <2>2
    <3>2. PICK m \in Places \ {l} : q = <<nodes[m].id, Distance(l, m) + p[2]>>
      BY <1>1, <1>3, <3>1, ReachedIs
    <3>3. m # k
      BY <3>1, <3>2 DEF Fine
    <3>4. Distance(k, m) \in Nat /\ Distance(l, m) \in Nat /\ Distance(k, m) <= Distance(k, l) + Distance(l, m)
      BY <1>1, DistanceIs
    <3>5. Distance(k, m) <= Distance(l, m) + p[2]
      BY <1>2, <1>3, <3>4
    <3>. QED
      BY <3>2, <3>3, <3>5
  <2>. QED
    BY <2>1, <2>2
<1>6. ASSUME radii <= 2, NEW m \in Near(k, radii)
      PROVE  m \in t.found \/ \E q \in t.queue : q[1] = nodes[m].id
  <2>1. m \in s.found \/ \E q \in s.queue : q[1] = nodes[m].id
    BY <1>6 DEF Fine
  <2>2. CASE m \in s.found
    BY <1>1, <2>2
  <2>3. CASE m \notin s.found
    <3>1. PICK q \in s.queue : q[1] = nodes[m].id
      BY <2>1, <2>3
    <3>2. CASE q = p
      <4>1. m \in Places
        BY DEF Near
      <4>2. m = l
        BY <1>1, <3>1, <3>2, <4>1 DEF NodesOk
      <4>. QED
        BY <1>1, <4>2
    <3>3. CASE q # p
      BY <1>1, <3>1, <3>3
    <3>. QED
      BY <3>2, <3>3
  <2>. QED
    BY <2>2, <2>3
<1>7. nodes[k].id \in t.visited /\ t.found \subseteq Near(k, radii)
  BY <1>1, <1>4 DEF Fine
<1>8. Fine(t, k, radii)
  BY <1>5, <1>6, <1>7 DEF Fine
<1>. QED
  BY <1>8 DEF t

LEMMA AnswersNear ==
  ASSUME NodesOk, NEW k \in Places, NEW radii \in Nat, NEW h, Answers(h, radii),
         NEW s \in Queries(radii), Fine(s, k, radii)
  PROVE  h[s] \subseteq Near(k, radii) /\ (radii <= 2 => h[s] = Near(k, radii))
<1>. DEFINE N == Cardinality(Pairs(radii))
            Size(x) == Cardinality(Pending(x, radii))
            Right(x) == h[x] \subseteq Near(k, radii) /\ (radii <= 2 => h[x] = Near(k, radii))
            K == {n \in 0 .. N : \A x \in Queries(radii) : Size(x) <= n /\ Fine(x, k, radii) => Right(x)}
<1>1. N \in Nat
  BY PairsFinite, FS_CardinalityType
<1>2. \A x \in Queries(radii) : Size(x) \in Nat /\ Size(x) <= N
  BY LessPending
<1>3. \A x \in Queries(radii) : x.queue # {} => Popped(x, radii) \in Queries(radii) /\ Size(Popped(x, radii)) < Size(x)
  BY LessPending, PoppedIs
<1>4. ASSUME NEW x \in Queries(radii), x.queue = {}, Fine(x, k, radii) PROVE Right(x)
  <2>1. h[x] = x.found
    BY <1>4 DEF Answers
  <2>. QED
    BY <1>4, <2>1 DEF Fine
<1>5. ASSUME NEW x \in Queries(radii), x.queue # {}, Right(Popped(x, radii)) PROVE Right(x)
  <2>1. h[x] = h[Popped(x, radii)]
    BY <1>5 DEF Answers
  <2>. QED
    BY <1>5, <2>1
<1>. HIDE DEF Right, Size, N
<1>6. 0 \in K
  <2>1. ASSUME NEW x \in Queries(radii), Size(x) <= 0, Fine(x, k, radii) PROVE Right(x)
    <3>1. CASE x.queue = {}
      BY <1>4, <2>1, <3>1
    <3>2. CASE x.queue # {}
      <4>1. Size(Popped(x, radii)) \in Nat /\ Size(Popped(x, radii)) < Size(x) /\ Size(x) \in Nat
        BY <1>2, <1>3, <3>2
      <4>. QED
        BY <2>1, <4>1
    <3>. QED
      BY <3>1, <3>2
  <2>. QED
    BY <1>1, <2>1
<1>7. ASSUME NEW n \in 1 .. N, n - 1 \in K PROVE n \in K
  <2>1. ASSUME NEW x \in Queries(radii), Size(x) <= n, Fine(x, k, radii) PROVE Right(x)
    <3>1. CASE x.queue = {}
      BY <1>4, <2>1, <3>1
    <3>2. CASE x.queue # {}
      <4>1. /\ Popped(x, radii) \in Queries(radii) /\ Size(Popped(x, radii)) \in Nat
            /\ Size(Popped(x, radii)) < Size(x) /\ Size(x) \in Nat
        BY <1>2, <1>3, <3>2
      <4>2. Fine(Popped(x, radii), k, radii)
        BY <2>1, <3>2, PoppedFine
      <4>3. Size(Popped(x, radii)) <= n - 1
        BY <1>1, <2>1, <4>1
      <4>4. Right(Popped(x, radii))
        BY <1>7, <4>1, <4>2, <4>3
      <4>. QED
        BY <1>5, <3>2, <4>4
    <3>. QED
      BY <3>1, <3>2
  <2>. QED
    BY <1>1, <2>1
<1>8. \A n \in 0 .. N : n \in K
  <2>. HIDE DEF K
  <2>. QED
    BY <1>1, <1>6, <1>7, UpTo
<1>9. N \in K /\ Size(s) <= N
  BY <1>1, <1>2, <1>8
<1>10. Right(s)
  BY <1>9
<1>. QED
  BY <1>10 DEF Right

(* Whatever the graph, a query returns nodes within its radius only, and     *)
(* all of them up to radius 2, and it ends.                                  *)
THEOREM QueriesStayNear == Spec => []QueriesNear
<1>1. IInv => QueriesNear
  <2>. SUFFICES ASSUME IInv, NEW k \in Places, NEW radii \in 0 .. Cardinality(Bits)
                PROVE  /\ QueryNode(k, radii) \subseteq Near(k, radii)
                       /\ radii <= 2 => QueryNode(k, radii) = Near(k, radii)
    BY DEF QueriesNear, Near
  <2>1. NodesOk /\ radii \in Nat
    BY NodesAreOk
  <2>2. PICK h : Answers(h, radii) /\ QueryNode(k, radii) = h[FirstQuery(k, radii)]
    BY <2>1, QueryEnds
  <2>3. FirstQuery(k, radii) \in Queries(radii) /\ Fine(FirstQuery(k, radii), k, radii)
    BY <2>1, FirstFine
  <2>. QED
    BY <2>1, <2>2, <2>3, AnswersNear
<1>. QED
  BY <1>1, IInvHolds, PTL

=============================================================================
