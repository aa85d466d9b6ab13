----------------------------- MODULE BlockInfo -----------------------------
(* The allocator's record of one erase block (kv/gc/block_table.rs) and the  *)
(* searches GCManager makes in the table of them.  A page's status is Clean, *)
(* Dirty, or the inode number it is busy with.                               *)
EXTENDS Integers, SequencesExt

CONSTANTS
  PagesPerBlock,   \* pages in an erase block (128)
  BlockCount,      \* blocks in the main area (919)
  Inos,            \* inode numbers
  Clean, Dirty,    \* PageUsedStatus
  NoPos            \* the answer of a search that finds nothing

ASSUME BlockInfoAssumption ==
  /\ PagesPerBlock \in Nat \ {0}
  /\ BlockCount \in Nat \ {0}
  /\ Clean # Dirty
  /\ Clean \notin Inos /\ Dirty \notin Inos
  /\ NoPos \notin Nat

Blocks   == 0 .. BlockCount - 1
Offsets  == 0 .. PagesPerBlock - 1
Pages    == 0 .. BlockCount * PagesPerBlock - 1
Statuses == Inos \cup {Clean, Dirty}

BlockOf(a) == a \div PagesPerBlock
OffsetOf(a) == a % PagesPerBlock
Address(b, o) == b * PagesPerBlock + o

(* A new or an erased block.                                                 *)
CleanBlock ==
  [used_map        |-> [o \in Offsets |-> Clean],
   reserved_size   |-> PagesPerBlock,
   reserved_offset |-> 0,
   clean_num       |-> PagesPerBlock,
   dirty_num       |-> 0,
   used_num        |-> 0]

Count(cond) == IF cond THEN 1 ELSE 0

(* Mutants of SetPage: the reserve is not used up; the old status still      *)
(* counts.                                                                   *)
SetPageKeepsReserve(info, o, s) ==
  [info EXCEPT !.used_map[o] = s,
               !.dirty_num = @ + Count(s = Dirty),
               !.used_num = @ + Count(s \in Inos)]

SetPageCountsTwice(info, o, s) ==
  [info EXCEPT !.used_map[o] = s,
               !.reserved_size = @ - Count(s \in Inos),
               !.reserved_offset = @ + Count(s \in Inos),
               !.dirty_num = @ + Count(s = Dirty),
               !.used_num = @ + Count(s \in Inos)]

(* Only a page that becomes busy uses up the reserve, whatever it was.       *)
SetPage(info, o, s) ==
  LET was == info.used_map[o] IN
  [used_map        |-> [info.used_map EXCEPT ![o] = s],
   reserved_size   |-> info.reserved_size - Count(s \in Inos),
   reserved_offset |-> info.reserved_offset + Count(s \in Inos),
   clean_num       |-> info.clean_num - Count(was = Clean) + Count(s = Clean),
   dirty_num       |-> info.dirty_num - Count(was = Dirty) + Count(s = Dirty),
   used_num        |-> info.used_num - Count(was \in Inos) + Count(s \in Inos)]

(* A page being programmed is first set dirty (update_bit), then busy with   *)
(* its inode (update_pit).                                                   *)
ProgramPage(info, o, ino) == SetPage(SetPage(info, o, Dirty), o, ino)

-----------------------------------------------------------------------------
(* Searches in a table of blocks; the first block that fits wins.            *)

LeastOf(S) == CHOOSE x \in S : \A y \in S : x <= y

FirstFree(table, blocks) ==
  IF blocks = {} THEN NoPos
  ELSE Address(LeastOf(blocks), table[LeastOf(blocks)].reserved_offset)

FindWritePosTight(table, n) ==                        \* mutant of FindWritePos
  FirstFree(table, {b \in Blocks : table[b].reserved_size >= n - 1})

FindWritePos(table, n) ==
  FirstFree(table, {b \in Blocks : table[b].reserved_size >= n})

FindWritePosExcept(table, n, victim) ==
  FirstFree(table, {b \in Blocks \ {victim} : table[b].reserved_size >= n})

(* get_utilize_ratio: live and clean pages per dirty page, infinite without  *)
(* a dirty one.                                                              *)
LessUtilized(x, y) ==
  /\ x.dirty_num > 0
  /\ \/ y.dirty_num = 0
     \/ (x.clean_num + x.used_num) * y.dirty_num < (y.clean_num + y.used_num) * x.dirty_num

(* All three strategies of choose_gc_block are the same search.              *)
ChooseGCBlock(table) ==
  LeastOf({b \in Blocks : \A c \in Blocks : ~LessUtilized(table[c], table[b])})

-----------------------------------------------------------------------------
(* The collector's plan for a block (generate_gc_group).                     *)

NoFragment == [ino |-> Clean, size |-> 0, from |-> 0]

CloseFragment(acc) ==
  IF acc.last = NoFragment THEN acc.done
  ELSE Append(acc.done, [acc.last EXCEPT !.size = acc.size])

ScanPageRestarts(acc, a, s) ==                        \* mutant of ScanPage
  LET start == [ino |-> s, size |-> 0, from |-> a] IN
  IF s \notin Inos
  THEN [done |-> CloseFragment(acc), last |-> NoFragment, size |-> 0]
  ELSE IF acc.last = NoFragment
  THEN [acc EXCEPT !.last = start, !.size = 1]
  ELSE IF acc.last.ino = s
  THEN [acc EXCEPT !.size = @ + 1]
  ELSE [done |-> CloseFragment(acc), last |-> start, size |-> 0]

(* One page of the scan in generate_gc_group.  A fragment that follows       *)
(* another directly goes on counting from that one's size.                   *)
ScanPage(acc, a, s) ==
  LET start == [ino |-> s, size |-> 0, from |-> a] IN
  IF s \notin Inos
  THEN [done |-> CloseFragment(acc), last |-> NoFragment,
        size |-> IF acc.last = NoFragment THEN acc.size ELSE 0]
  ELSE IF acc.last = NoFragment
  THEN [acc EXCEPT !.last = start, !.size = 1]
  ELSE IF acc.last.ino = s
  THEN [acc EXCEPT !.size = @ + 1]
  ELSE [acc EXCEPT !.done = CloseFragment(acc), !.last = start]

(* The live runs of a block, in address order.                               *)
Fragments(tbl, victim) ==
  CloseFragment(
    FoldLeft(LAMBDA acc, i : ScanPage(acc, Address(victim, i - 1), tbl[victim].used_map[i - 1]),
             [done |-> <<>>, last |-> NoFragment, size |-> 0],
             [i \in 1..PagesPerBlock |-> i]))

(* Each fragment's destination, looked up one after the other in a table     *)
(* that no move has changed yet.                                             *)
Moves(tbl, victim) ==
  LET frags == Fragments(tbl, victim) IN
  [i \in DOMAIN frags |->
     [ino |-> frags[i].ino, size |-> frags[i].size, from |-> frags[i].from,
      to |-> FindWritePosExcept(tbl, frags[i].size, victim)]]
=============================================================================
