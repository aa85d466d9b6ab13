------------------------------ MODULE LRUCache ------------------------------
(* util/lru_cache.rs: a least-recently-used cache as a hash map into a       *)
(* doubly linked list.  The list's nodes are shared by counted references    *)
(* from the map, the two ends and their neighbours: a node is freed when the *)
(* last reference goes, and pop_back aborts when its node has one left.      *)
(*                                                                           *)
(* A capacity of 0 is accepted by the code, and never evicts after the first *)
(* put.                                                                      *)
EXTENDS Integers, FiniteSets, Functions

CONSTANTS Keys, Vals, None, Capacity,
          Addresses,   \* where nodes can be allocated
          Nil          \* no link

ASSUME LRUCacheAssumption ==
  /\ Capacity \in Nat \ {0}
  /\ IsFiniteSet(Addresses) /\ Nil \notin Addresses
  /\ None \notin Vals

VARIABLES
  cache,    \* the cache: its ends, its size, its map and the nodes it reaches
  result,   \* what the last get returned
  status

vars == <<cache, result, status>>

Link == Addresses \cup {Nil}
Node == [key : Keys, elem : Vals, next : Link, prev : Link]

Init ==
  /\ cache = [head |-> Nil, tail |-> Nil, size |-> 0, map |-> <<>>, nodes |-> <<>>]
  /\ result = None
  /\ status = "running"

(* The nodes something refers to.                                            *)
Referenced(c) ==
  {c.head, c.tail} \cup Range(c.map)
    \cup UNION {{c.nodes[n].next, c.nodes[n].prev} : n \in DOMAIN c.nodes}

(* A reference goes out of scope.                                            *)
Dropped(c, n) ==
  IF n \in Referenced(c) THEN c
  ELSE [c EXCEPT !.nodes = Restrict(@, DOMAIN @ \ {n})]

Unmapped(c, k) == [c EXCEPT !.map = Restrict(@, DOMAIN @ \ {k}), !.size = @ - 1]

DeletedOneWay(c, n) ==                                \* mutant of Deleted
  LET p == c.nodes[n].prev
      x == c.nodes[n].next
      u == [Unmapped(c, c.nodes[n].key) EXCEPT !.nodes[n].prev = Nil, !.nodes[n].next = Nil]
  IN  Dropped(CASE p = Nil /\ x = Nil -> [u EXCEPT !.head = Nil, !.tail = Nil]
                [] p = Nil /\ x # Nil -> [u EXCEPT !.nodes[x].prev = Nil, !.head = x]
                [] p # Nil /\ x = Nil -> [u EXCEPT !.nodes[p].next = Nil, !.tail = p]
                [] p # Nil /\ x # Nil -> [u EXCEPT !.nodes[p].next = x],
              n)

Deleted(c, n) ==
  LET p == c.nodes[n].prev
      x == c.nodes[n].next
      u == [Unmapped(c, c.nodes[n].key) EXCEPT !.nodes[n].prev = Nil, !.nodes[n].next = Nil]
  IN  Dropped(CASE p = Nil /\ x = Nil -> [u EXCEPT !.head = Nil, !.tail = Nil]
                [] p = Nil /\ x # Nil -> [u EXCEPT !.nodes[x].prev = Nil, !.head = x]
                [] p # Nil /\ x = Nil -> [u EXCEPT !.nodes[p].next = Nil, !.tail = p]
                [] p # Nil /\ x # Nil -> [u EXCEPT !.nodes[p].next = x, !.nodes[x].prev = p],
              n)

(* push_front at a fresh node n.                                             *)
Pushed(c, n, k, v) ==
  LET fresh == [key |-> k, elem |-> v, next |-> c.head, prev |-> Nil]
      old   == [m \in DOMAIN c.nodes |->
                  IF m = c.head THEN [c.nodes[m] EXCEPT !.prev = n] ELSE c.nodes[m]]
  IN  [head  |-> n,
       tail  |-> IF c.head = Nil THEN n ELSE c.tail,
       size  |-> c.size + 1,
       map   |-> [j \in DOMAIN c.map \cup {k} |-> IF j = k THEN n ELSE c.map[j]],
       nodes |-> [m \in DOMAIN c.nodes \cup {n} |-> IF m = n THEN fresh ELSE old[m]]]

PoppedUnlinked(c) ==                                  \* mutant of Popped
  LET n == c.tail
      p == c.nodes[n].prev
      u == [Unmapped(c, c.nodes[n].key) EXCEPT !.nodes[n].prev = Nil]
  IN  IF p = Nil THEN [u EXCEPT !.head = Nil, !.tail = Nil]
      ELSE [u EXCEPT !.tail = p]

(* pop_back, but for the unwrapping of the node.                             *)
Popped(c) ==
  LET n == c.tail
      p == c.nodes[n].prev
      u == [Unmapped(c, c.nodes[n].key) EXCEPT !.nodes[n].prev = Nil]
  IN  IF p = Nil THEN [u EXCEPT !.head = Nil, !.tail = Nil]
      ELSE [u EXCEPT !.nodes[p].next = Nil, !.tail = p]

(* The cache after an entry is put in front, wherever its node is allocated. *)
PushFront(c, k, v) ==
  \E n \in Addresses \ DOMAIN c.nodes : cache' = Pushed(c, n, k, v)

GetInPlace(k) ==                                      \* mutant of Get
  /\ status = "running"
  /\ result' = IF k \in DOMAIN cache.map THEN cache.nodes[cache.map[k]].elem ELSE None
  /\ UNCHANGED <<cache, status>>

Get(k) ==
  /\ status = "running"
  /\ IF k \in DOMAIN cache.map
     THEN LET n == cache.map[k] IN
          /\ result' = cache.nodes[n].elem
          /\ PushFront(Deleted(cache, n), k, cache.nodes[n].elem)
     ELSE result' = None /\ UNCHANGED cache
  /\ UNCHANGED status

PutUpdate(k, v) ==
  /\ status = "running"
  /\ k \in DOMAIN cache.map
  /\ PushFront(Deleted(cache, cache.map[k]), k, v)
  /\ UNCHANGED <<result, status>>

(* A new key; the last node is evicted first when the cache is full.         *)
PutNew(k, v) ==
  /\ status = "running"
  /\ k \notin DOMAIN cache.map
  /\ IF cache.size = Capacity
     THEN LET popped == Popped(cache) IN
          IF cache.tail \in Referenced(popped)
          THEN status' = "panicked" /\ cache' = popped
          ELSE PushFront(Dropped(popped, cache.tail), k, v) /\ UNCHANGED status
     ELSE PushFront(cache, k, v) /\ UNCHANGED status
  /\ UNCHANGED result

Remove(k) ==
  /\ status = "running"
  /\ k \in DOMAIN cache.map
  /\ cache' = Deleted(cache, cache.map[k])
  /\ UNCHANGED <<result, status>>

Next ==
  \E k \in Keys :
    \/ Get(k)
    \/ Remove(k)
    \/ \E v \in Vals : PutUpdate(k, v) \/ PutNew(k, v)

Spec == Init /\ [][Next]_vars

-----------------------------------------------------------------------------
(* Properties.                                                               *)

(* Each link of the list has its opposite, the ends have none, and the map   *)
(* finds the node of each key: the two directions of the list and the map    *)
(* are always one list.                                                      *)
WellLinked ==
  LET nodes == cache.nodes IN
  /\ \A n \in DOMAIN nodes :
       /\ IF nodes[n].next = Nil THEN cache.tail = n
          ELSE nodes[n].next \in DOMAIN nodes /\ nodes[nodes[n].next].prev = n
       /\ IF nodes[n].prev = Nil THEN cache.head = n
          ELSE nodes[n].prev \in DOMAIN nodes /\ nodes[nodes[n].prev].next = n
  /\ \A k \in DOMAIN cache.map : nodes[cache.map[k]].key = k

(* The nodes in memory are exactly those of the map, size counts them, and   *)
(* there are never more than the capacity: no cycle of references keeps a    *)
(* node that was taken out, and the one pop_back unwraps has no reference    *)
(* left.                                                                     *)
NothingLeaks ==
  /\ DOMAIN cache.nodes = Range(cache.map)
  /\ Cardinality(DOMAIN cache.nodes) = cache.size
  /\ cache.size <= Capacity
  /\ status # "panicked"

(* The entries from the head on.                                             *)
IsWalk(c, walk) ==
  /\ walk \in [1 .. c.size -> DOMAIN c.nodes]
  /\ c.size > 0 => walk[1] = c.head
  /\ \A i \in 1 .. c.size - 1 : walk[i + 1] = c.nodes[walk[i]].next

Entries(c, walk) ==
  [i \in 1 .. c.size |-> [key |-> c.nodes[walk[i]].key, elem |-> c.nodes[walk[i]].elem]]

Order ==
  Entries(cache, CHOOSE walk \in [1 .. cache.size -> DOMAIN cache.nodes] : IsWalk(cache, walk))

(* The cache keeps its entries in the order of their last use, returns what  *)
(* was last put, and evicts the least recently used one only.                *)
RM == INSTANCE RecencyMap WITH order <- Order
ImplementsRecencyMap == RM!Spec
=============================================================================
