--------------------------- MODULE SimilarityGraph ---------------------------
(* The graph of similar files (css/graph.rs): a node for each hash, with the *)
(* inodes that have it, and edges between nodes whose hashes differ in few   *)
(* bits.  Nodes lie in a vector; a map gives each node's place in it, a      *)
(* second one the node of each inode, and the key-value store keeps a copy   *)
(* of every node from which build makes the graph anew.                      *)
(*                                                                           *)
(* A hash is the set of its 1 bits.  No node has two edges to another one,   *)
(* so a vector of edges is a set.  The store is a map here: the mark of a    *)
(* flushed deletion (LSMTree.tla), which build would take for a node, is not *)
(* in it.                                                                    *)
EXTENDS Integers, Sequences, FiniteSets, SequencesExt

CONSTANTS
  Bits,      \* the bits of a hash
  Inos,      \* inode numbers
  Base,      \* values of a byte (256)
  MaxNodes   \* bound: nodes that are ever added

ASSUME SimilarityGraphAssumption ==
  /\ IsFiniteSet(Bits)
  /\ Base \in Nat \ {0, 1}
  /\ MaxNodes \in Nat

Hashes == SUBSET Bits
NodeIds == 1 .. MaxNodes

VARIABLES
  nodes,             \* Graph.nodes
  map,               \* Graph.map: the place of each node
  ino_map,           \* Graph.ino_map: the node of each inode
  curr_max_node_id,  \* Graph.curr_max_node_id
  stored,            \* the nodes stored under "e:node:<id>"
  stored_max,        \* the bytes stored under "max_node_id", or none
  status             \* "running", or "panicked" at an unwrap

vars == <<nodes, map, ino_map, curr_max_node_id, stored, stored_max, status>>

Graph == [nodes |-> nodes, map |-> map, ino_map |-> ino_map, stored |-> stored]

Become(g) ==
  /\ nodes' = g.nodes
  /\ map' = g.map
  /\ ino_map' = g.ino_map
  /\ stored' = g.stored

EmptyMap == [x \in {} |-> 0]

Init ==
  /\ nodes = <<>> /\ map = EmptyMap /\ ino_map = EmptyMap
  /\ curr_max_node_id = 0
  /\ stored = EmptyMap /\ stored_max = <<>>
  /\ status = "running"

Put(f, x, v) == [y \in DOMAIN f \cup {x} |-> IF y = x THEN v ELSE f[y]]
Drop(f, S) == [y \in DOMAIN f \ S |-> f[y]]

(* compute_edge_weight: the bits in which two hashes differ.                 *)
Weight(h1, h2) == Cardinality((h1 \ h2) \cup (h2 \ h1))

(* contains_node_hash                                                        *)
HasHash(g, h) == \E k \in DOMAIN g.nodes : g.nodes[k].hash = h
PlaceOf(g, h) == CHOOSE k \in DOMAIN g.nodes : g.nodes[k].hash = h

-----------------------------------------------------------------------------
(* insert_node.                                                              *)

(* The node that has the hash gets the inode; only in memory.                *)
AddIno(g, k, ino) ==
  IF Contains(g.nodes[k].inos, ino) THEN g
  ELSE [g EXCEPT !.ino_map = Put(@, ino, g.nodes[k].id),
                 !.nodes[k].inos = Append(@, ino)]

Nearest(g, h) ==
  {k \in DOMAIN g.nodes :
     \A l \in DOMAIN g.nodes : Weight(h, g.nodes[k].hash) <= Weight(h, g.nodes[l].hash)}

NeighboursNearest(g, h) == Nearest(g, h)              \* mutant of Neighbours

(* The nodes a new one is joined to: with one at distance 1, all up to       *)
(* distance 2, or else all of the nearest.                                   *)
Neighbours(g, h) ==
  IF \E k \in DOMAIN g.nodes : Weight(h, g.nodes[k].hash) < 2
  THEN {k \in DOMAIN g.nodes : Weight(h, g.nodes[k].hash) <= 2}
  ELSE Nearest(g, h)

AppendNode(g, id, ino, h) ==
  LET near == Neighbours(g, h)
      weight(k) == Weight(h, g.nodes[k].hash)
      node == [id |-> id, inos |-> <<ino>>, hash |-> h,
               edges |-> {[to |-> g.nodes[k].id, weight |-> weight(k)] : k \in near}]
      joined == [k \in DOMAIN g.nodes |->
                   IF k \in near
                   THEN [g.nodes[k] EXCEPT !.edges = @ \cup {[to |-> id, weight |-> weight(k)]}]
                   ELSE g.nodes[k]]
  IN [nodes   |-> Append(joined, node),
      map     |-> Put(g.map, id, Len(g.nodes) + 1),
      ino_map |-> Put(g.ino_map, ino, id),
      stored  |-> Put(g.stored, id, [inos |-> <<ino>>, hash |-> h])]

InsertNode(g, id, ino, h) ==
  IF HasHash(g, h) THEN AddIno(g, PlaceOf(g, h), ino) ELSE AppendNode(g, id, ino, h)

-----------------------------------------------------------------------------
(* delete_node.                                                              *)

Without(s, k) == [l \in 1 .. Len(s) - 1 |-> IF l < k THEN s[l] ELSE s[l + 1]]

(* The places of the nodes once the one at place k is gone.                  *)
MapKeptWithout(g, k) == Drop(g.map, {g.nodes[k].id})  \* mutant of MapWithout

MapWithout(g, k) ==
  LET left == Drop(g.map, {g.nodes[k].id}) IN
  [x \in DOMAIN left |-> IF left[x] > k THEN left[x] - 1 ELSE left[x]]

(* Its neighbours, found through their new places, forget it.                *)
DeleteNode(g, k) ==
  LET id   == g.nodes[k].id
      rest == Without(g.nodes, k)
      near == {MapWithout(g, k)[e.to] : e \in g.nodes[k].edges}
  IN [nodes   |-> [l \in DOMAIN rest |->
                     IF l \in near THEN [rest[l] EXCEPT !.edges = {e \in @ : e.to # id}]
                     ELSE rest[l]],
      map     |-> MapWithout(g, k),
      ino_map |-> Drop(g.ino_map, Range(g.nodes[k].inos)),
      stored  |-> Drop(g.stored, {id})]

(* Of a node with several inodes only the inode is taken, and the node is    *)
(* stored again; ino_map still has the inode.                                *)
DeleteIno(g, k, ino) ==
  LET inos == RemoveFirst(g.nodes[k].inos, ino) IN
  IF Len(g.nodes[k].inos) = 1 THEN DeleteNode(g, k)
  ELSE [g EXCEPT !.nodes[k].inos = inos,
                 !.stored = Put(@, g.nodes[k].id, [inos |-> inos, hash |-> g.nodes[k].hash])]

-----------------------------------------------------------------------------
(* Operations.                                                               *)

EncodeLowByte(n) == <<n % Base>>                      \* mutant of EncodeMaxNodeId

(* encode_max_node_id, decode_max_node_id: the lowest byte comes first.      *)
EncodeMaxNodeId(n) ==
  LET bytes[m \in 0 .. n] ==
        IF m < Base THEN <<m>> ELSE <<m % Base>> \o bytes[m \div Base]
  IN bytes[n]

DecodeMaxNodeId(bytes) ==
  LET value[i \in 1 .. Len(bytes) + 1] ==
        IF i > Len(bytes) THEN 0 ELSE bytes[i] + Base * value[i + 1]
  IN value[1]

(* add_node takes the next id, and stores it, unless the hash is there.      *)
Add(g, ino, h) ==
  IF HasHash(g, h)
  THEN /\ Become(AddIno(g, PlaceOf(g, h), ino))
       /\ UNCHANGED <<curr_max_node_id, stored_max>>
  ELSE /\ curr_max_node_id < MaxNodes
       /\ curr_max_node_id' = curr_max_node_id + 1
       /\ stored_max' = EncodeMaxNodeId(curr_max_node_id + 1)
       /\ Become(InsertNode(g, curr_max_node_id + 1, ino, h))

AddNode(ino, h) ==
  /\ status = "running"
  /\ Add(Graph, ino, h)
  /\ UNCHANGED status

(* The unwraps of delete_node_by_ino, query_node_by_ino and edit_node meet   *)
(* an inode whose node is gone.                                              *)
Dangling(ino) == ino \in DOMAIN ino_map /\ ino_map[ino] \notin DOMAIN map

PanicAtIno(ino) ==
  /\ status = "running" /\ Dangling(ino)
  /\ status' = "panicked"
  /\ UNCHANGED <<nodes, map, ino_map, curr_max_node_id, stored, stored_max>>

WithoutIno(ino) ==
  IF ino \in DOMAIN ino_map THEN DeleteIno(Graph, map[ino_map[ino]], ino) ELSE Graph

DeleteNodeByIno(ino) ==
  /\ status = "running" /\ ~Dangling(ino)
  /\ Become(WithoutIno(ino))
  /\ UNCHANGED <<curr_max_node_id, stored_max, status>>

DeleteNodeByHash(h) ==
  /\ status = "running" /\ HasHash(Graph, h)
  /\ Become(DeleteNode(Graph, PlaceOf(Graph, h)))
  /\ UNCHANGED <<curr_max_node_id, stored_max, status>>

(* edit_node: delete the inode if it is known, then add it with its new hash.*)
EditNode(ino, h) ==
  /\ status = "running" /\ ~Dangling(ino)
  /\ Add(WithoutIno(ino), ino, h)
  /\ UNCHANGED status

(* build, of a new graph over the same store: the nodes are inserted in the  *)
(* order of their ids, but the range leaves out the largest one.             *)
InsertStored(g, id) ==
  IF id \notin DOMAIN stored THEN g
  ELSE FoldLeft(LAMBDA acc, ino : InsertNode(acc, id, ino, stored[id].hash), g, stored[id].inos)

NewGraph == [nodes |-> <<>>, map |-> EmptyMap, ino_map |-> EmptyMap, stored |-> stored]

MaxStored == IF stored_max = <<>> THEN 0 ELSE DecodeMaxNodeId(stored_max)

Built == FoldLeft(InsertStored, NewGraph, [id \in 1 .. MaxStored - 1 |-> id])

Build ==
  /\ status = "running"
  /\ Become(Built)
  /\ curr_max_node_id' = MaxStored
  /\ UNCHANGED <<stored_max, status>>

Next ==
  \/ \E ino \in Inos, h \in Hashes : AddNode(ino, h) \/ EditNode(ino, h)
  \/ \E ino \in Inos : DeleteNodeByIno(ino) \/ PanicAtIno(ino)
  \/ \E h \in Hashes : DeleteNodeByHash(h)
  \/ Build

Spec == Init /\ [][Next]_vars

-----------------------------------------------------------------------------
(* query_node: the places of the nodes near the one at place k.  The heap    *)
(* gives the largest pair of a node's id and its distance first; a pair that *)
(* is in it twice only has its nodes found twice.                            *)
Largest(queue) ==
  CHOOSE p \in queue : \A q \in queue : q[1] < p[1] \/ (q[1] = p[1] /\ q[2] <= p[2])

Reached(edges, dis, radii) ==
  {<<e.to, e.weight + dis>> : e \in {f \in edges : f.weight + dis <= radii}}

Queries(radii) ==
  LET ids == DOMAIN map IN
  [queue : SUBSET (ids \X (0 .. radii)), visited : SUBSET ids, found : SUBSET DOMAIN nodes]

FirstQuery(k, radii) ==
  [queue   |-> Reached(nodes[k].edges, 0, radii),
   visited |-> {nodes[k].id},
   found   |-> {}]

Popped(s, radii) ==
  LET p == Largest(s.queue)
      l == map[p[1]]
  IN [queue   |-> (s.queue \ {p})
                    \cup {q \in Reached(nodes[l].edges, p[2], radii) : q[1] \notin s.visited},
      visited |-> s.visited \cup {p[1]},
      found   |-> s.found \cup {l}]

QueryNode(k, radii) ==
  LET result[s \in Queries(radii)] ==
        IF s.queue = {} THEN s.found ELSE result[Popped(s, radii)]
  IN result[FirstQuery(k, radii)]

-----------------------------------------------------------------------------
(* Properties.  All hold whatever inodes and hashes the caller gives.        *)

Places == DOMAIN nodes
Distance(k, l) == Weight(nodes[k].hash, nodes[l].hash)
EdgeTo(k, l) == [to |-> nodes[l].id, weight |-> Distance(k, l)]

MapExact ==
  /\ DOMAIN map = {nodes[k].id : k \in Places}
  /\ \A k \in Places : map[nodes[k].id] = k

HashesDistinct == \A k, l \in Places : nodes[k].hash = nodes[l].hash => k = l

EdgesMutual ==
  \A k \in Places : \A e \in nodes[k].edges :
    \E l \in Places \ {k} : e = EdgeTo(k, l) /\ EdgeTo(l, k) \in nodes[l].edges

(* After any insertions, removals, edits and rebuilds the map gives every    *)
(* node's place, no two nodes have one hash, and every edge goes both ways,  *)
(* between two nodes that exist, with the number of bits they differ in.     *)
GraphConsistent == MapExact /\ HashesDistinct /\ EdgesMutual

(* A query returns no node beyond its radius and not the node it starts at;  *)
(* up to radius 2 it returns every other one, although edges only join some. *)
QueriesNear ==
  \A k \in Places, radii \in 0 .. Cardinality(Bits) :
    LET found == QueryNode(k, radii)
        near  == {l \in Places \ {k} : Distance(k, l) <= radii}
    IN found \subseteq near /\ (radii <= 2 => found = near)

(* A graph that is built from the store has every node of this one, in spite *)
(* of nodes that were stored, deleted or never inserted again, but the one   *)
(* added last.                                                               *)
RebuildKeepsNodes ==
  \A k \in Places : nodes[k].id < curr_max_node_id => HasHash(Built, nodes[k].hash)
=============================================================================
