----------------------------- MODULE RecencyMap -----------------------------
(* What an LRU cache promises: a bounded map whose entries are kept in the   *)
(* order of their last use, the most recent first, and that forgets the      *)
(* least recently used entry to make room for a new key.                     *)
EXTENDS Integers, Sequences

CONSTANTS Keys, Vals, None, Capacity

VARIABLES
  order,   \* the entries, the most recently used first
  result   \* what the last get returned

Init == order = <<>> /\ result = None

Held(entries) == {entries[i].key : i \in DOMAIN entries}
PlaceOf(entries, k) == CHOOSE i \in DOMAIN entries : entries[i].key = k
Without(entries, i) == SubSeq(entries, 1, i - 1) \o SubSeq(entries, i + 1, Len(entries))

Get(k) ==
  IF k \in Held(order)
  THEN LET i == PlaceOf(order, k) IN
       /\ order' = <<order[i]>> \o Without(order, i)
       /\ result' = order[i].elem
  ELSE result' = None /\ UNCHANGED order

(* The other entries, with room for one more.                                *)
Rest(entries, k) ==
  CASE k \in Held(entries)                               -> Without(entries, PlaceOf(entries, k))
    [] k \notin Held(entries) /\ Len(entries) = Capacity -> Without(entries, Capacity)
    [] k \notin Held(entries) /\ Len(entries) # Capacity -> entries

Put(k, v) == order' = <<[key |-> k, elem |-> v]>> \o Rest(order, k) /\ UNCHANGED result

Remove(k) ==
  /\ k \in Held(order)
  /\ order' = Without(order, PlaceOf(order, k))
  /\ UNCHANGED result

Next == \E k \in Keys : Get(k) \/ Remove(k) \/ \E v \in Vals : Put(k, v)

Spec == Init /\ [][Next]_<<order, result>>
=============================================================================
