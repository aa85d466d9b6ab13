------------------------------- MODULE KVMap -------------------------------
(* What the LSM tree promises to KVManager: a map from keys to values that   *)
(* put and delete update, until the process aborts.  Before one of them the  *)
(* map may be saved; a tree that is opened again is the map as last saved.   *)
(* A lookup answers what the map holds, but a deletion only by its mark once *)
(* the deletion has been saved: it then answers nothing or the mark, as if   *)
(* the mark were a value.  A block allocation or the filling of a read cache *)
(* is invisible here.                                                        *)

CONSTANTS Keys, Vals, NoEntry, TOMBSTONE

VARIABLES store,    \* the last put or delete of each key
          found,    \* what a lookup of each key answers
          saved,    \* the map of a tree that is opened again
          running   \* FALSE once the process has aborted

vars == <<store, found, saved, running>>

Answers(s, sv) ==
  {r \in [Keys -> Vals \cup {NoEntry, TOMBSTONE}] : \A k \in Keys :
     \/ s[k] # TOMBSTONE /\ r[k] = s[k]
     \/ s[k] = TOMBSTONE /\ r[k] = NoEntry
     \/ s[k] = TOMBSTONE /\ sv[k] = TOMBSTONE /\ r[k] = TOMBSTONE}

Init ==
  /\ store = [k \in Keys |-> NoEntry]
  /\ found = store
  /\ saved = store
  /\ running = TRUE

Put(k, v) ==
  /\ running
  /\ store' = [store EXCEPT ![k] = v]
  /\ saved' \in {saved, store}
  /\ found' \in Answers(store', saved')
  /\ UNCHANGED running

(* What was just deleted is not found, saved before or not.                  *)
Delete(k) ==
  /\ running
  /\ store' = [store EXCEPT ![k] = TOMBSTONE]
  /\ saved' \in {saved, store}
  /\ found' \in Answers(store', saved') /\ found'[k] = NoEntry
  /\ UNCHANGED running

Reopen ==
  /\ running
  /\ store' = saved
  /\ found' \in Answers(store', saved)
  /\ UNCHANGED <<saved, running>>

(* A panic ends the process; no later operation sees the map.                *)
Abort ==
  /\ running
  /\ running' = FALSE
  /\ UNCHANGED <<store, found, saved>>

Next ==
  \/ \E k \in Keys, v \in Vals : Put(k, v)
  \/ \E k \in Keys : Delete(k)
  \/ Reopen
  \/ Abort

Spec == Init /\ [][Next]_vars
=============================================================================
