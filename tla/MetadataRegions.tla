--------------------------- MODULE MetadataRegions ---------------------------
(* The images of the page tables on disk (kv/component/bit.rs and pit.rs)    *)
(* and how KVManager::mount reads them (kv/kv_helper.rs).  The bitmap (BIT)  *)
(* has a bit for each page of the main area that was ever programmed, the    *)
(* owners' table (PIT) the inode a page belongs to.  Each lies in two        *)
(* blocks, so that one is whole while the other is rewritten; a second copy  *)
(* that is there when the program starts replaces the first.                 *)
(*                                                                           *)
(* Pages written go to the write cache, erases to the disk at once, and a    *)
(* process may stop between any two steps.  Today's program never writes an  *)
(* image (sync_bit and sync_pit are commented out, as are the calls that     *)
(* change the two tables) and starts on a blank disk; besides that one, the  *)
(* model reads the images that encode makes of tables whose owned pages all  *)
(* have a bit.                                                               *)
EXTENDS BlockInfo, SequencesExt, FiniteSetsExt

CONSTANTS
  BitBlocks,      \* blocks set_bit reads the bitmap of (18)
  ImagePages,     \* pages in a copy, a block of the disk (128)
  PageNum,        \* pages of the main area, as the super block has it
  PairsPerPage,   \* pairs of page and inode in a page of the PIT (511)
  ZeroPage,          \* an erased page, or a page of zeros
  NoPage,         \* nothing waits in the write cache
  MaxSaved        \* bound: pages with a bit in the saved tables

ASSUME MetadataRegionsAssumption ==
  /\ BitBlocks \in Nat \ {0} /\ ImagePages \in Nat \ {0} /\ PairsPerPage \in Nat \ {0}
  /\ PageNum \in Nat /\ 2 * ImagePages * PairsPerPage >= PageNum
  /\ MaxSaved \in Nat
  /\ ZeroPage # NoPage

Kinds  == {"bit", "pit"}
Copies == {1, 2}
ImagePage == 0 .. ImagePages - 1

VARIABLES
  saved,      \* BIT and PIT when the images were made, see SavedTables
  disk,       \* the copies on the disk
  waiting,    \* their pages that wait in the write cache
  step,       \* where mount is
  held,       \* the images it has read
  restored,   \* BlockTable.table
  lost        \* history: the kinds of which no whole copy was left by a stop

mountVars == <<saved, disk, waiting, step, held, restored, lost>>

-----------------------------------------------------------------------------
(* The images.                                                               *)

(* The digits of BIT's number for a block, by weight: page 0 is the highest. *)
Bitmap(used) == [w \in Offsets |-> IF used[PagesPerBlock - 1 - w] # Clean THEN 1 ELSE 0]

(* All that is read of the bitmap lies in the first page.                    *)
EncodeBit(table) ==
  [p \in ImagePage |-> IF p = 0 THEN [b \in Blocks |-> Bitmap(table[b])] ELSE ZeroPage]

Owned(table) == {a \in Pages : table[BlockOf(a)][OffsetOf(a)] \in Inos}
Pairs(table) == SetToSeq({<<a, table[BlockOf(a)][OffsetOf(a)]>> : a \in Owned(table)})

PairsOfPage(pairs, p) ==
  SubSeq(pairs, p * PairsPerPage + 1, Min({(p + 1) * PairsPerPage, Len(pairs)}))

(* choose_strategy.                                                          *)
UsesMap(table) == 2 * Cardinality(Owned(table)) < PageNum

EncodeMap(table) ==
  [p \in ImagePage |->
     LET part == PairsOfPage(Pairs(table), p) IN
     IF p > 0 /\ part = <<>> THEN ZeroPage ELSE [magic |-> IF p = 0 THEN "map" ELSE "", pairs |-> part]]

(* What the serial form holds is never read, see Strategy.                   *)
EncodeSerial == [p \in ImagePage |-> [magic |-> IF p = 0 THEN "serial" ELSE "", pairs |-> <<>>]]

EncodePit(table) == IF UsesMap(table) THEN EncodeMap(table) ELSE EncodeSerial

Image(kind, table) == IF kind = "bit" THEN EncodeBit(table) ELSE EncodePit(table)

BitsLowFirst(image, b) ==                             \* mutant of Bits
  IF image[0] = ZeroPage THEN {}
  ELSE {o \in Offsets : image[0][b][o] = 1}

(* The pages of a block that the bitmap has a bit of.                        *)
Bits(image, b) ==
  IF image[0] = ZeroPage THEN {}
  ELSE {o \in Offsets : image[0][b][PagesPerBlock - 1 - o] = 1}

(* set_pit looks for the magic of the serial form where it never is.         *)
Strategy(image) == IF image[0] # ZeroPage /\ image[0].magic = "map" THEN "map" ELSE "none"

(* The pairs end at the first that is zero.                                  *)
PairsIn(image) ==
  LET whole == {p \in ImagePage : \A q \in 0 .. p : image[q] # ZeroPage} IN
  UNION {ToSet(image[p].pairs) : p \in whole}

Owners(image) == IF Strategy(image) = "none" THEN {} ELSE PairsIn(image)

Meaning(kind, image) == IF kind = "bit" THEN [b \in Blocks |-> Bits(image, b)] ELSE Owners(image)

-----------------------------------------------------------------------------
(* set_bit and set_pit fill the table of a new KVManager.                    *)

SetPages(table, b, s) ==
  [table EXCEPT ![b] =
     FoldLeft(LAMBDA info, i : SetPage(info, i - 1, s[i - 1]), @, [i \in 1 .. PagesPerBlock |-> i])]

SetBit(table, image) ==
  FoldLeft(LAMBDA acc, i :
             SetPages(acc, i - 1, [o \in Offsets |-> IF o \in Bits(image, i - 1) THEN Dirty ELSE Clean]),
           table, [i \in 1 .. Min({BitBlocks, BlockCount}) |-> i])

SetPit(table, image) ==
  FoldLeft(LAMBDA acc, x : [acc EXCEPT ![BlockOf(x[1])] = SetPage(@, OffsetOf(x[1]), x[2])],
           table, SetToSeq(Owners(image)))

-----------------------------------------------------------------------------
(* Mounting.                                                                 *)

NewTable  == [b \in Blocks |-> CleanBlock]
BlankCopy == [p \in ImagePage |-> ZeroPage]
NoCopy    == [p \in ImagePage |-> NoPage]
Off       == [kind |-> "bit", at |-> "off", page |-> 0]

(* What BIT and PIT hold of a page, taken together: its owner in PIT, Dirty  *)
(* if it has a bit but no owner, Clean without a bit.  This is not what the  *)
(* allocator knows of it: BIT.set_page only sets bits and never clears one,  *)
(* so a page keeps its bit when its block is erased, and a clean page that   *)
(* dirty_pit sets dirty gets none.  Hence any pages may have bits, not only  *)
(* the first ones of a block.                                                *)
Marked(t) == {x \in Blocks \X Offsets : t[x[1]][x[2]] # Clean}

SavedTables == {t \in [Blocks -> [Offsets -> Statuses]] : Cardinality(Marked(t)) <= MaxSaved}

(* The pages of a copy that was not written to its end.                      *)
Torn(image) == [p \in ImagePage |-> IF p = 0 THEN image[p] ELSE ZeroPage]

(* What a rewrite of the two copies leaves, wherever it stopped once the     *)
(* second is whole; and a disk that nobody has written yet.                  *)
CopiesOf(kind, table) ==
  LET image == Image(kind, table) IN
  {<<image, BlankCopy>>}
    \cup {<<c, image>> : c \in {BlankCopy, Torn(image), image}}
    \cup {<<BlankCopy, BlankCopy>> : x \in {table} \cap {[b \in Blocks |-> [o \in Offsets |-> Clean]]}}

(* An image begins with a magic number, a page that holds a pair is not all  *)
(* zeros, since no inode has number 0, and a page that waits is a page.      *)
ASSUME PagesDistinct ==
  /\ \A k \in Kinds, t \in SavedTables :
       /\ Image(k, t)[0] # ZeroPage
       /\ \A p \in ImagePage : Image(k, t)[p] # NoPage
  /\ \A t \in SavedTables, p \in ImagePage :
       PairsOfPage(Pairs(t), p) # <<>> => EncodeMap(t)[p] # ZeroPage

MountInit ==
  /\ saved \in SavedTables
  /\ \E bit \in CopiesOf("bit", saved), pit \in CopiesOf("pit", saved) :
       disk = [k \in Kinds |-> IF k = "bit" THEN bit ELSE pit]
  /\ waiting = [k \in Kinds |-> [c \in Copies |-> NoCopy]]
  /\ step = Off
  /\ held = [k \in Kinds |-> BlankCopy]
  /\ restored = NewTable
  /\ lost = {}

At(name) == step.at = name
Goto(name) == step' = [step EXCEPT !.at = name, !.page = 0]

(* The process starts: read_sb.                                              *)
Start ==
  /\ At("off")
  /\ Goto("read")
  /\ UNCHANGED <<saved, disk, waiting, held, restored, lost>>

(* read_bit and read_pit: the second copy is taken if its head is not zero.  *)
Chosen(copies) == IF copies[2][0] # ZeroPage THEN copies[2] ELSE copies[1]

ReadCopies ==
  /\ At("read")
  /\ held' = [held EXCEPT ![step.kind] = Chosen(disk[step.kind])]
  /\ Goto(IF disk[step.kind][2][0] # ZeroPage THEN "erase_first" ELSE "set")
  /\ UNCHANGED <<saved, disk, waiting, restored, lost>>

Erase(k, c) ==
  /\ disk' = [disk EXCEPT ![k][c] = BlankCopy]
  /\ waiting' = [waiting EXCEPT ![k][c] = NoCopy]

EraseBoth ==                                          \* mutant of EraseFirst
  /\ At("erase_first")
  /\ disk' = [disk EXCEPT ![step.kind] = [c \in Copies |-> BlankCopy]]
  /\ Goto("write_first")
  /\ UNCHANGED <<saved, waiting, held, restored, lost>>

EraseFirst ==
  /\ At("erase_first")
  /\ Erase(step.kind, 1)
  /\ Goto("write_first")
  /\ UNCHANGED <<saved, held, restored, lost>>

(* write_block puts the pages in the write cache one by one.                 *)
WriteFirst ==
  /\ At("write_first")
  /\ waiting' = [waiting EXCEPT ![step.kind][1][step.page] = held[step.kind][step.page]]
  /\ IF step.page = ImagePages - 1 THEN Goto("erase_second")
     ELSE step' = [step EXCEPT !.page = @ + 1]
  /\ UNCHANGED <<saved, disk, held, restored, lost>>

EraseSecond ==
  /\ At("erase_second")
  /\ Erase(step.kind, 2)
  /\ Goto("set")
  /\ UNCHANGED <<saved, held, restored, lost>>

SetTable ==
  /\ At("set")
  /\ restored' = IF step.kind = "bit" THEN SetBit(restored, held["bit"])
                 ELSE SetPit(restored, held["pit"])
  /\ step' = [kind |-> "pit", at |-> IF step.kind = "bit" THEN "read" ELSE "mounted", page |-> 0]
  /\ UNCHANGED <<saved, disk, waiting, held, lost>>

(* The thread of the write cache writes the pages in address order.          *)
Waits(k, p) == waiting[k][1][p] # NoPage
First(k, p) == \A q \in 0 .. p - 1 : ~Waits(k, q)

Drain(k, p) ==
  /\ Waits(k, p) /\ First(k, p)
  /\ k = "pit" => \A q \in ImagePage : ~Waits("bit", q)
  /\ disk' = [disk EXCEPT ![k][1][p] = waiting[k][1][p]]
  /\ waiting' = [waiting EXCEPT ![k][1][p] = NoPage]
  /\ UNCHANGED <<saved, step, held, restored, lost>>

(* What a mount would read of the disk is what was saved.                    *)
Durable(k) == Meaning(k, Chosen(disk[k])) = Meaning(k, Image(k, saved))

(* The process stops: only the disk is left.                                 *)
Stop ==
  /\ ~At("off")
  /\ lost' = lost \cup {k \in Kinds : ~Durable(k)}
  /\ waiting' = [k \in Kinds |-> [c \in Copies |-> NoCopy]]
  /\ step' = Off
  /\ held' = [k \in Kinds |-> BlankCopy]
  /\ restored' = NewTable
  /\ UNCHANGED <<saved, disk>>

MountNext ==
  \/ Start
  \/ ReadCopies
  \/ EraseFirst
  \/ WriteFirst
  \/ EraseSecond
  \/ SetTable
  \/ \E k \in Kinds, p \in ImagePage : Drain(k, p)
  \/ Stop

MountSpec == MountInit /\ [][MountNext]_mountVars

-----------------------------------------------------------------------------
(* Properties.                                                               *)

(* A mount gives the table of blocks what BIT and PIT had of every page,     *)
(* wherever earlier mounts were stopped, as long as a copy of each image was *)
(* left: a page with an owner is busy with it, one with only a bit is dead,  *)
(* though it may have been erased since it was programmed, one without a bit *)
(* is clean.  A page with only a bit behind the blocks whose bitmap is read  *)
(* comes back clean.  (Not so if half of the pages are busy: then the owners *)
(* are saved in the serial form, which is not recognised.)                   *)
StatusesRestored ==
  \A b \in Blocks, o \in Offsets :
    restored[b].used_map[o] =
      IF saved[b][o] = Dirty /\ b >= BitBlocks THEN Clean ELSE saved[b][o]

Dead(b) == \E o \in Offsets : saved[b][o] = Dirty

(* In a block without dead pages the reserve begins after as many pages as   *)
(* are busy: behind them, if the block was filled from its first page on.    *)
(* (In a block with dead pages it would begin among the busy ones.)          *)
ReserveRestored ==
  \A b \in Blocks : ~Dead(b) =>
    /\ restored[b].reserved_offset = Cardinality({o \in Offsets : saved[b][o] # Clean})
    /\ restored[b].reserved_size = PagesPerBlock - restored[b].reserved_offset

MountRestores ==
  At("mounted") /\ lost = {} /\ UsesMap(saved) => StatusesRestored /\ ReserveRestored

(* At any moment a process that starts again would read the saved image; but *)
(* for the time from the erase of the second copy until the write cache has  *)
(* put the last page of the first on the disk.                               *)
MountRepeatable ==
  \A k \in Kinds \ lost :
    Durable(k) \/ (disk[k][2] = BlankCopy /\ \E p \in ImagePage : Waits(k, p))
=============================================================================
