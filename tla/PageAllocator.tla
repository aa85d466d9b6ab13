--------------------------- MODULE PageAllocator ---------------------------
(* The block table under those who use it: KVManager asks for room for a run *)
(* of pages and programs the run page by page; it sets pages dirty; and when *)
(* no block has the room it asked for, the collector moves what is busy in a *)
(* block elsewhere and erases the block.                                     *)
(*                                                                           *)
(* dirty_pit asks nothing of the page it sets dirty.  Most are pages of an   *)
(* entry that is replaced or cut, but not all: an entry cut short keeps its  *)
(* archived_len, and once the collector has re-pointed it, its last pages    *)
(* may be another's or clean (KVManager.tla has the entries).  Here any page *)
(* may be set dirty.  A page that is not of the disk, a reserve below zero   *)
(* and a plan without a destination panic: the process ends, no step follows.*)
EXTENDS BlockInfo

CONSTANT Idle      \* no run is being written; the collector is not at work

Run  == [next : Pages, left : 1..PagesPerBlock, ino : Inos]
Move == [ino : Inos, size : Nat, from : Int, to : Pages]
Plan == [victim : Blocks, moves : Seq(Move), begun : Nat, drops : SUBSET Int]

ASSUME IdleAssumption == Idle \notin Run /\ Idle \notin Plan

VARIABLES
  table,       \* BlockTable.table
  programmed,  \* the pages written since their block was erased
  run,         \* the run being written: next address, pages left, inode
  group        \* the collector's GCEventGroup: how many of its moves have
               \* begun, and the pages of the last one still to be set dirty

vars == <<table, programmed, run, group>>

Init ==
  /\ table = [b \in Blocks |-> CleanBlock]
  /\ programmed = {}
  /\ run = Idle
  /\ group = Idle

(* find_write_pos found room: the caller will program n pages from there.    *)
BeginRun(ino, n) ==
  /\ run = Idle /\ group = Idle
  /\ FindWritePos(table, n) # NoPos
  /\ run' = [next |-> FindWritePos(table, n), left |-> n, ino |-> ino]
  /\ UNCHANGED <<table, programmed, group>>

(* One round of a writing loop: update_bit, update_pit and write_page.       *)
WritePage ==
  /\ run # Idle /\ (group # Idle => group.drops = {})
  /\ table[BlockOf(run.next)].reserved_size > 0
  /\ table' = [table EXCEPT ![BlockOf(run.next)] =
                 ProgramPage(@, OffsetOf(run.next), run.ino)]
  /\ programmed' = programmed \cup {run.next}
  /\ run' = IF run.left = 1 THEN Idle
            ELSE [run EXCEPT !.next = @ + 1, !.left = @ - 1]
  /\ UNCHANGED group

SetDirty(a) ==
  table' = [table EXCEPT ![BlockOf(a)] = SetPage(@, OffsetOf(a), Dirty)]

(* dirty_pit outside the collector.                                          *)
DropPage(a) ==
  /\ run = Idle /\ group = Idle
  /\ SetDirty(a)
  /\ UNCHANGED <<programmed, run, group>>

-----------------------------------------------------------------------------
(* The collector.  Its whole plan is made before the first move.             *)

BeginCollect(n) ==
  /\ run = Idle /\ group = Idle
  /\ FindWritePos(table, n) = NoPos
  /\ LET victim == ChooseGCBlock(table)
         moves == Moves(table, victim)
     IN /\ \A i \in DOMAIN moves : moves[i].to # NoPos
        /\ group' = [victim |-> victim, moves |-> moves, begun |-> 0, drops |-> {}]
  /\ UNCHANGED <<table, programmed, run>>

(* The pages of a move are read and set dirty, then programmed elsewhere.    *)
BeginMove ==
  /\ run = Idle /\ group # Idle /\ group.begun < Len(group.moves)
  /\ LET mv == group.moves[group.begun + 1] IN
     /\ group' = [group EXCEPT !.begun = @ + 1,
                               !.drops = mv.from .. mv.from + mv.size - 1]
     /\ run' = [next |-> mv.to, left |-> mv.size, ino |-> mv.ino]
  /\ UNCHANGED <<table, programmed>>

DropMoved ==
  /\ group # Idle /\ group.drops # {}
  /\ LeastOf(group.drops) \in Pages
  /\ SetDirty(LeastOf(group.drops))
  /\ group' = [group EXCEPT !.drops = @ \ {LeastOf(@)}]
  /\ UNCHANGED <<programmed, run>>

EraseVictim ==
  /\ run = Idle /\ group # Idle /\ group.begun = Len(group.moves)
  /\ table' = [table EXCEPT ![group.victim] = CleanBlock]
  /\ programmed' = {a \in programmed : BlockOf(a) # group.victim}
  /\ group' = Idle
  /\ UNCHANGED run

Next ==
  \/ \E ino \in Inos, n \in 1..PagesPerBlock : BeginRun(ino, n)
  \/ WritePage
  \/ \E a \in Pages : DropPage(a)
  \/ \E n \in 1..PagesPerBlock : BeginCollect(n)
  \/ BeginMove
  \/ DropMoved
  \/ EraseVictim

Spec == Init /\ [][Next]_vars

-----------------------------------------------------------------------------
(* Properties.                                                               *)

BlockRecord ==
  [used_map : [Offsets -> Statuses], reserved_size : Int, reserved_offset : Int,
   clean_num : Int, dirty_num : Int, used_num : Int]

(* The types of the table's fields, of a run and of a plan.                  *)
TypeOK ==
  /\ table \in [Blocks -> BlockRecord]
  /\ programmed \in SUBSET Pages
  /\ run \in Run \cup {Idle}
  /\ group \in Plan \cup {Idle}

(* The allocator writes a block from its first page to its last: a page that *)
(* was written since the last erase lies below reserved_offset and is not    *)
(* taken for clean, no page from there on is busy, and reserved_size is what *)
(* is left of the block.  That no page is programmed twice rests on it.  Not *)
(* every page below has been written: where the collector wrote two runs to  *)
(* one place, the pages are counted twice.                                   *)
ReserveExact ==
  \A b \in Blocks :
    /\ table[b].reserved_offset \in 0..PagesPerBlock
    /\ table[b].reserved_size = PagesPerBlock - table[b].reserved_offset
    /\ \A o \in Offsets :
         /\ o >= table[b].reserved_offset =>
              Address(b, o) \notin programmed /\ table[b].used_map[o] \notin Inos
         /\ Address(b, o) \in programmed => table[b].used_map[o] # Clean

(* The counters the collector compares blocks by equal what they count.      *)
CountersExact ==
  \A b \in Blocks :
    /\ table[b].clean_num = Cardinality({o \in Offsets : table[b].used_map[o] = Clean})
    /\ table[b].dirty_num = Cardinality({o \in Offsets : table[b].used_map[o] = Dirty})
    /\ table[b].used_num = Cardinality({o \in Offsets : table[b].used_map[o] \in Inos})

(* The collector's move in progress has the destination of an earlier one.   *)
SharesPlace ==
  /\ group # Idle
  /\ \E i \in 1 .. group.begun - 1 : group.moves[i].to = group.moves[group.begun].to

(* A run never leaves the block it was given, and the pages it has still to  *)
(* program have not been written since the block was erased, whatever was    *)
(* set dirty before; the one exception is a move of the collector to a place *)
(* it has already moved another one to.                                      *)
RunFits ==
  run # Idle =>
    /\ OffsetOf(run.next) + run.left <= PagesPerBlock
    /\ SharesPlace \/ \A i \in 0 .. run.left - 1 : run.next + i \notin programmed

(* A page becomes clean only with its whole block, and then nothing in the   *)
(* block is busy any more: what the collector's scan counted covers all that *)
(* it has to move.  Outside a collection a busy page is never given to       *)
(* another inode before it was set dirty.                                    *)
PagesCycle ==
  [][\A b \in Blocks, o \in Offsets :
       LET was == table[b].used_map[o]
           is  == table'[b].used_map[o]
       IN was # is =>
            \/ is = Dirty
            \/ is \in Inos /\ (was \notin Inos \/ group # Idle)
            \/ /\ is = Clean /\ table'[b] = CleanBlock
               /\ \A p \in Offsets : table[b].used_map[p] \notin Inos]_vars
=============================================================================
