----------------------------- MODULE KVManager -----------------------------
(* The data objects of inodes (kv/kv_manager.rs), the pages they lie in, and *)
(* the collector that makes room for them (kv/kv_helper.rs, kv/gc).          *)
(*                                                                           *)
(* Every call runs to its end under KVManager's lock, so an operation is one *)
(* step; but within it a search for room may run the collector, which moves  *)
(* pages and re-points the stored object while the caller goes on with the   *)
(* copy it read before.  An operation is therefore a function on the whole   *)
(* state m, a record of the variables.                                       *)
(*                                                                           *)
(* Bytes are model values, a page has PageBytes of them.  The tree that      *)
(* stores the objects is a map here, as LSMTree.tla shows it to be but for   *)
(* deletions that were flushed, and no object is compressed, as              *)
(* CompressManager.encode returns its input.                                 *)
EXTENDS BlockInfo, SequencesExt

CONSTANTS
  Bytes,        \* what callers write
  Pad,          \* fills the rest of a value's last page (10)
  Blank,        \* an erased byte
  NoObject,     \* an inode without a data object
  BadRead,      \* a read that panics
  PageBytes,    \* bytes in a page (4096)
  MaxLen,       \* bound: the longest object
  RecordLen,    \* the length of a directory record (259)
  Directories,  \* the inodes that are directories; the others are files
  Cutting,      \* FALSE bounds a behaviour to one in which no file is cut
  Collecting,   \* FALSE bounds a behaviour to what fits without collecting
  GCRounds      \* bound: rounds of the collector in one search for room

ASSUME KVManagerAssumption ==
  /\ PageBytes \in Nat \ {0} /\ MaxLen \in Nat \ {0} /\ RecordLen \in Nat \ {0}
  /\ Directories \subseteq Inos
  /\ Cutting \in BOOLEAN /\ Collecting \in BOOLEAN
  /\ GCRounds \in Nat \ {0}
  /\ NoObject \notin [size : Int, entries : Seq([offset : Int, len : Int, archived_len : Int,
                                                page_pointer : Int])]

VARIABLES
  table,         \* BlockTable.table
  flash,         \* the bytes of every page of the main area
  objects,       \* the data object stored under "d:<ino>"
  live,          \* the inodes that have metadata, stored under "m:<ino>"
  status         \* "running", or the panic that ended the process

vars == <<table, flash, objects, live, status>>

State == [table |-> table, flash |-> flash, objects |-> objects, live |-> live,
          status |-> status]

Become(m) ==
  /\ table' = m.table
  /\ flash' = m.flash
  /\ objects' = m.objects
  /\ live' = m.live
  /\ status' = m.status

BlankPage == [j \in 1..PageBytes |-> Blank]

Init ==
  /\ table = [b \in Blocks |-> CleanBlock]
  /\ flash = [a \in Pages |-> BlankPage]
  /\ objects = [i \in Inos |-> NoObject]
  /\ live = Inos
  /\ status = "running"

-----------------------------------------------------------------------------
(* Pages.                                                                    *)

Running(m) == m.status = "running"
Panic(m, why) == [m EXCEPT !.status = why]

SetPageAt(m, a, s) ==
  IF ~Running(m) THEN m
  ELSE IF a \notin Pages THEN Panic(m, "bad_address")
  ELSE IF s \in Inos /\ m.table[BlockOf(a)].reserved_size = 0 THEN Panic(m, "reserve_underflow")
  ELSE [m EXCEPT !.table[BlockOf(a)] = SetPage(@, OffsetOf(a), s)]

WritePage(m, a, data) == IF Running(m) THEN [m EXCEPT !.flash[a] = data] ELSE m

ProgramAt(m, a, data, ino) == WritePage(SetPageAt(SetPageAt(m, a, Dirty), a, ino), a, data)

(* A run of pages, programmed from address at on.                            *)
ProgramRun(m, at, pages, ino) ==
  FoldLeft(LAMBDA acc, i : ProgramAt(acc, at + i - 1, pages[i], ino), m,
           [i \in 1 .. Len(pages) |-> i])

DropPagesPast(m, a, n) ==                             \* mutant of DropPages
  FoldLeft(LAMBDA acc, i : SetPageAt(acc, a + i - 1, Dirty), m, [i \in 1..n + 1 |-> i])

(* n pages from address a on, each set dirty.                                *)
DropPages(m, a, n) ==
  FoldLeft(LAMBDA acc, i : SetPageAt(acc, a + i - 1, Dirty), m, [i \in 1..n |-> i])

PagesFor(bytes) == (bytes - 1) \div PageBytes + 1

(* The i-th page of a value, padded.                                         *)
PageOf(val, i) ==
  [j \in 1..PageBytes |-> IF (i - 1) * PageBytes + j <= Len(val)
                          THEN val[(i - 1) * PageBytes + j] ELSE Pad]

ReadPage(m, a) == IF a \in Pages THEN m.flash[a] ELSE BlankPage

(* read_data_object_entry: archived_len bytes from the entry's first page.   *)
ReadEntry(m, e) ==
  [j \in 1..e.archived_len |->
     ReadPage(m, e.page_pointer + (j - 1) \div PageBytes)[((j - 1) % PageBytes) + 1]]

ReadAll(m, i) ==
  IF m.objects[i] = NoObject THEN <<>>
  ELSE FoldLeft(LAMBDA acc, e : acc \o ReadEntry(m, e), <<>>, m.objects[i].entries)

-----------------------------------------------------------------------------
(* The collector.                                                            *)

RepointNone(obj, from, to) == obj                     \* mutant of Repoint

(* Only the first entry that starts at the moved run is re-pointed.          *)
Repoint(obj, from, to) ==
  LET starts == {i \in DOMAIN obj.entries : obj.entries[i].page_pointer = from} IN
  IF starts = {} THEN obj
  ELSE [obj EXCEPT !.entries[LeastOf(starts)].page_pointer = to]

RepointOwner(m, mv) ==
  IF ~Running(m) THEN m
  ELSE IF m.objects[mv.ino] = NoObject THEN Panic(m, "no_object")
  ELSE [m EXCEPT !.objects[mv.ino] = Repoint(@, mv.from, mv.to)]

MoveFragment(m, mv) ==
  LET held == [i \in 1 .. mv.size |-> ReadPage(m, mv.from + i - 1)] IN
  RepointOwner(ProgramRun(DropPages(m, mv.from, mv.size), mv.to, held, mv.ino), mv)

(* Mutants of EraseVictim: one of the two is forgotten.                      *)
EraseDiskOnly(m, victim) ==
  IF ~Running(m) THEN m
  ELSE [m EXCEPT !.flash = [a \in Pages |-> IF BlockOf(a) = victim THEN BlankPage ELSE @[a]]]

EraseTableOnly(m, victim) ==
  IF ~Running(m) THEN m ELSE [m EXCEPT !.table[victim] = CleanBlock]

EraseVictim(m, victim) ==
  IF ~Running(m) THEN m
  ELSE [m EXCEPT !.table[victim] = CleanBlock,
                 !.flash = [a \in Pages |-> IF BlockOf(a) = victim THEN BlankPage ELSE @[a]]]

DisposeGroup(m, moves, victim) ==
  IF \E i \in DOMAIN moves : moves[i].to = NoPos THEN Panic(m, "no_room")
  ELSE EraseVictim(FoldLeft(MoveFragment, m, moves), victim)

Collect(m, victim) == DisposeGroup(m, Moves(m.table, victim), victim)
ForwardGC(m) == Collect(m, ChooseGCBlock(m.table))

(* find_write_pos: collect until n pages fit.                                *)
NoRoom(m, n) == Running(m) /\ FindWritePos(m.table, n) = NoPos

MakeRoom(m, n) ==
  LET round(acc, i) == IF NoRoom(acc, n) THEN ForwardGC(acc) ELSE acc
      giveUp(acc)   == IF NoRoom(acc, n) THEN Panic(acc, "collects_forever") ELSE acc
  IN giveUp(FoldLeft(round, m, [i \in 1..GCRounds |-> i]))

-----------------------------------------------------------------------------
(* Data objects.                                                             *)

EmptyObject == [size |-> 0, entries |-> <<>>]
ObjectOf(m, i) == IF m.objects[i] = NoObject THEN EmptyObject ELSE m.objects[i]
TotalLen(entries) == FoldLeft(LAMBDA acc, e : acc + e.len, 0, entries)
Larger(x, y) == IF x >= y THEN x ELSE y
Smaller(x, y) == IF x <= y THEN x ELSE y

(* Store a value in the pages from at on; the entry that describes it.       *)
StoreAt(m, at, val, off, ino) ==
  [m |-> ProgramRun(m, at, [i \in 1 .. PagesFor(Len(val)) |-> PageOf(val, i)], ino),
   entry |-> [offset |-> off, len |-> Len(val), archived_len |-> Len(val), page_pointer |-> at]]

(* After a panic no entry matters.                                           *)
StoreInRoom(m, val, off, ino) ==
  StoreAt(m, IF Running(m) THEN FindWritePos(m.table, PagesFor(Len(val))) ELSE 0, val, off, ino)

WriteValue(m, val, off, ino) == StoreInRoom(MakeRoom(m, PagesFor(Len(val))), val, off, ino)

(* What the loops over an object's entries keep track of: the entries to be  *)
(* removed, where new ones are inserted (0: nowhere yet), and the new entry  *)
(* for the part of an entry kept in front, and for the part kept behind.     *)
Loop(m) == [m |-> m, removed |-> <<>>, at |-> 0, head |-> <<>>, tail |-> <<>>]

InsertionAt(acc, i) == IF acc.at = 0 THEN [acc EXCEPT !.at = i] ELSE acc
RemoveEntry(acc, i, e) == InsertionAt([acc EXCEPT !.removed = Append(@, e.page_pointer)], i)
DropFrom(acc, a, n) == [acc EXCEPT !.m = DropPages(@, a, n)]

Before(e, off) == Larger(0, off - e.offset)
After(e, fin)  == Larger(0, e.offset + e.len - fin)

(* The parts of an entry that lie before and behind an edit are written anew.*)
KeepHead(acc, e, off, ino) ==
  LET w == WriteValue(acc.m, SubSeq(ReadEntry(acc.m, e), 1, Before(e, off)), e.offset, ino)
  IN IF Before(e, off) = 0 THEN acc ELSE [acc EXCEPT !.m = w.m, !.head = <<w.entry>>]

TailOf(data, n) == SubSeq(data, Len(data) - n + 1, Len(data))
KeepTail(acc, e, fin, ino) ==
  LET n == After(e, fin)
      w == WriteValue(acc.m, TailOf(ReadEntry(acc.m, e), n), e.offset + e.len - n, ino)
  IN IF n = 0 THEN acc ELSE [acc EXCEPT !.m = w.m, !.tail = <<w.entry>>]

InsertLast(entries, at, news) == entries \o news      \* mutant of InsertAll

(* Entries are removed by their page pointer, one for each pointer listed.   *)
RemoveByPointer(entries, pointers) ==
  FoldLeft(LAMBDA es, p : RemoveFirstMatch(es, LAMBDA e : e.page_pointer = p), entries, pointers)

InsertAll(entries, at, news) ==
  SubSeq(entries, 1, at - 1) \o news \o SubSeq(entries, at, Len(entries))

Object(entries) == [size |-> TotalLen(entries), entries |-> entries]

EndsBehind(e, off) == e.offset + e.len > off
Hit(e, off, fin) == EndsBehind(e, off) /\ e.offset < fin

(* One entry in the loop of a write: if the write overlaps it, what lies     *)
(* before and behind the write is kept, and its pages are given back.        *)
ReplaceEntry(acc, i, e, off, fin, ino) ==
  IF ~Hit(e, off, fin) THEN acc
  ELSE DropFrom(KeepTail(KeepHead(RemoveEntry(acc, i, e), e, off, ino), e, fin, ino),
                e.page_pointer, PagesFor(e.archived_len))

ReplaceHits(m, obj, off, fin, ino) ==
  FoldLeftDomain(LAMBDA acc, i : ReplaceEntry(acc, i, obj.entries[i], off, fin, ino),
                 Loop(m), obj.entries)

(* The object once the entries hit are replaced.                             *)
Replaced(acc, obj, new) ==
  LET rest == RemoveByPointer(obj.entries, acc.removed)
      at   == IF acc.at = 0 THEN Len(rest) + 1 ELSE acc.at
  IN [m   |-> acc.m,
      obj |-> Object(InsertAll(rest, at, acc.head \o <<new>> \o acc.tail))]

(* set_data_object, with the object as the caller read it.                   *)
SetDataObject(m, obj, off, val, ino) ==
  LET w == WriteValue(m, val, off, ino) IN
  IF off > obj.size THEN [m |-> m, obj |-> obj]
  ELSE Replaced(ReplaceHits(w.m, obj, off, off + Len(val), ino), obj, w.entry)

(* One entry in the loop of a delete.  An entry cut at its end keeps its     *)
(* pages and its archived_len; a part kept of an entry cut at its start is   *)
(* written anew at the offset it had.                                        *)
CutEnd(acc, i, e, off) ==
  LET keep == PagesFor(Before(e, off)) IN
  InsertionAt(DropFrom(acc, e.page_pointer + keep, PagesFor(e.len) - keep), i + 1)

CutEntry(acc, i, e, off, fin, ino) ==
  IF ~Hit(e, off, fin) THEN acc
  ELSE KeepTail(IF Before(e, off) = 0
                THEN RemoveEntry(DropFrom(acc, e.page_pointer, PagesFor(e.len)), i, e)
                ELSE CutEnd(acc, i, e, off),
                e, fin, ino)

CutHits(m, obj, off, fin, ino) ==
  FoldLeftDomain(LAMBDA acc, i : CutEntry(acc, i, obj.entries[i], off, fin, ino),
                 Loop(m), obj.entries)

EditEntry(e, off, n) ==
  IF EndsBehind(e, off) /\ e.offset >= off + n THEN [e EXCEPT !.offset = @ - n]
  ELSE IF Hit(e, off, off + n) /\ Before(e, off) > 0 THEN [e EXCEPT !.len = Before(e, off)]
  ELSE e

(* The object once the entries hit are cut.                                  *)
Shortened(acc, obj, off, n) ==
  LET edited == [i \in DOMAIN obj.entries |-> EditEntry(obj.entries[i], off, n)]
      rest   == RemoveByPointer(edited, acc.removed)
  IN [m   |-> acc.m,
      obj |-> Object(IF acc.tail = <<>> THEN rest ELSE InsertAll(rest, acc.at, acc.tail))]

DeleteDataObject(m, obj, off, n, ino) ==
  IF off >= obj.size THEN [m |-> m, obj |-> obj]
  ELSE Shortened(CutHits(m, obj, off, off + n, ino), obj, off, n)

ReadRangeFirst(m, i, off, n) ==                       \* mutant of ReadRange
  LET es == ObjectOf(m, i).entries
      at == CHOOSE j \in DOMAIN es : es[j].offset + es[j].len > off
      data == ReadEntry(m, es[at])
      skip == off - es[at].offset
  IN SubSeq(data, skip + 1, Smaller(skip + n, Len(data)))

(* get of n bytes from off: an entry is read whole, then sliced.             *)
ReadRange(m, i, off, n) ==
  LET obj   == ObjectOf(m, i)
      all   == ReadAll(m, i)
      past  == {j \in DOMAIN obj.entries : off < obj.entries[j].offset}
      at    == IF past = {} THEN Len(obj.entries) ELSE LeastOf(past) - 1
      data  == ReadEntry(m, obj.entries[at])
      skip  == off - obj.entries[at].offset
      take  == Smaller(Len(data), n)
      more(acc, e) == IF Len(acc) >= n THEN acc
                      ELSE acc \o SubSeq(ReadEntry(m, e), 1, Smaller(e.archived_len, n - Len(acc)))
      got   == FoldLeft(more, SubSeq(data, skip + 1, skip + take),
                        SubSeq(obj.entries, at + 1, Len(obj.entries)))
  IN IF m.objects[i] = NoObject THEN <<>>
     ELSE IF off + n > obj.size
     THEN IF off > Len(all) THEN BadRead ELSE SubSeq(all, off + 1, Len(all))
     ELSE IF at = 0 THEN BadRead
     ELSE IF skip + take > Len(data) THEN BadRead
     ELSE IF Len(got) < n THEN BadRead
     ELSE got

-----------------------------------------------------------------------------
(* Calls.  A file is written anywhere, and setattr cuts it from some offset  *)
(* to its end; records are appended to a directory and removed from it.      *)

SizeOf(i) == ObjectOf(State, i).size

MayWrite(i, off, n) ==
  /\ off + n <= MaxLen
  /\ IF i \in Directories THEN off = SizeOf(i) /\ n = RecordLen ELSE off <= SizeOf(i) + 1

MayRemove(i, off, n) ==
  IF i \in Directories
  THEN n = RecordLen /\ off % n = 0 /\ off + n <= SizeOf(i)
  ELSE Cutting /\ off + n = SizeOf(i)

(* Bound, without Collecting: some block takes all an operation may write.   *)
FitsUncollected ==
  Collecting \/ \E b \in Blocks : table[b].reserved_size >= PagesFor(MaxLen) + 2

Stored(r, i) == IF Running(r.m) THEN [r.m EXCEPT !.objects[i] = r.obj] ELSE r.m

(* KVManager.set on a data object: the object stored is the one read before  *)
(* the write, as the write changed it.                                       *)
SetInodeData(i, off, val) ==
  /\ Running(State) /\ FitsUncollected
  /\ i \in live /\ MayWrite(i, off, Len(val))
  /\ Become(Stored(SetDataObject(State, ObjectOf(State, i), off, val, i), i))

Removed(r, n) == IF n = 0 THEN [r EXCEPT !.obj = NoObject] ELSE r

DeleteAtShort(i, off, n) ==                           \* mutant of DeleteAt
  IF objects[i] = NoObject THEN State
  ELSE Stored(Removed(DeleteDataObject(State, objects[i], off + 1, n, i), n), i)

(* KVManager.delete on a data object; a length of zero drops it whole.       *)
DeleteAt(i, off, n) ==
  IF objects[i] = NoObject THEN State
  ELSE Stored(Removed(DeleteDataObject(State, objects[i], off, n, i), n), i)

DeleteInodeData(i, off, n) ==
  /\ Running(State) /\ FitsUncollected
  /\ i \in live /\ MayRemove(i, off, n)
  /\ Become(DeleteAt(i, off, n))

(* Inode numbers are never used again.                                       *)
DeleteInode(i) ==
  /\ Running(State)
  /\ i \in live
  /\ Become([DeleteAt(i, 0, 0) EXCEPT !.live = @ \ {i}])

Next ==
  \/ \E i \in Inos, off \in 0..MaxLen, n \in 1..MaxLen, b \in Bytes :
       SetInodeData(i, off, [j \in 1..n |-> b])
  \/ \E i \in Inos, off \in 0..MaxLen, n \in 0..MaxLen : DeleteInodeData(i, off, n)
  \/ \E i \in Inos : DeleteInode(i)

Spec == Init /\ [][Next]_vars

-----------------------------------------------------------------------------
(* Properties.                                                               *)

Content == [i \in Inos |-> ReadAll(State, i)]

(* The pages a stored extent covers.                                         *)
PagesOf(e) == {e.page_pointer + k : k \in 0 .. PagesFor(e.archived_len) - 1}

(* The stored extents: an inode, and the place of the extent in its object.  *)
Extents ==
  UNION {{i} \X DOMAIN objects[i].entries : i \in {k \in Inos : objects[k] # NoObject}}
ExtentAt(x) == objects[x[1]].entries[x[2]]

(* Types: every page holds bytes, and an object is a size and its extents.   *)
ExtentType == [offset : 0..MaxLen, len : 1..MaxLen, archived_len : 1..MaxLen, page_pointer : Pages]

TypeOK ==
  /\ table \in [Blocks -> [used_map : [Offsets -> Statuses], reserved_size : 0..PagesPerBlock,
                           reserved_offset : 0..PagesPerBlock, clean_num : 0..PagesPerBlock,
                           dirty_num : 0..PagesPerBlock, used_num : 0..PagesPerBlock]]
  /\ flash \in [Pages -> [1..PageBytes -> Bytes \cup {Pad, Blank}]]
  /\ \A i \in Inos : objects[i] # NoObject =>
       objects[i].size \in 0..MaxLen /\ \A e \in Range(objects[i].entries) : e \in ExtentType
  /\ live \subseteq Inos
  /\ status \in {"running", "bad_address", "reserve_underflow", "no_room", "no_object",
                 "collects_forever"}

(* The extents of an object follow one another from offset 0 to its size.    *)
ExtentsTile ==
  \A i \in Inos : objects[i] # NoObject =>
    LET es == objects[i].entries IN
    /\ \A k \in DOMAIN es :
         es[k].offset = IF k = 1 THEN 0 ELSE es[k - 1].offset + es[k - 1].len
    /\ objects[i].size = IF es = <<>> THEN 0 ELSE Last(es).offset + Last(es).len

(* A page belongs to at most one extent, of one inode or of two.             *)
ExtentsDisjoint ==
  \A x, y \in Extents : x # y => PagesOf(ExtentAt(x)) \cap PagesOf(ExtentAt(y)) = {}

(* The pages busy with an inode that still exists are exactly those of its   *)
(* extents, each in one: overwriting splits, replaces and dirties extents    *)
(* without touching a neighbour's pages and gives every replaced page back.  *)
(* (The pages of a deleted inode are not given back.)                        *)
PagesOwned ==
  /\ ExtentsDisjoint
  /\ \A x \in Extents : PagesOf(ExtentAt(x)) \subseteq Pages
  /\ \A a \in Pages, i \in live :
       table[BlockOf(a)].used_map[OffsetOf(a)] = i
         <=> \E x \in Extents : x[1] = i /\ a \in PagesOf(ExtentAt(x))

(* A ranged read that starts where an extent starts and ends within the      *)
(* object returns exactly those bytes, however many extents it crosses.      *)
AlignedReadsExact ==
  \A x \in Extents, n \in 1..MaxLen :
    LET off == ExtentAt(x).offset IN
    off + n <= objects[x[1]].size =>
      ReadRange(State, x[1], off, n) = SubSeq(ReadAll(State, x[1]), off + 1, off + n)

(* The byte sequences of FileStore: splitting, replacing and re-basing       *)
(* extents is invisible to who reads an object whole.                        *)
FS == INSTANCE FileStore WITH content <- Content

ImplementsFileStore == FS!Spec

(* Whatever the collector does, the pages a block still has in reserve have  *)
(* not been programmed since it was erased: a search for room never hands    *)
(* out a used page.                                                          *)
ReserveIsBlank ==
  \A a \in Pages : OffsetOf(a) >= table[BlockOf(a)].reserved_offset => flash[a] = BlankPage

(* The bytes of an object that its size covers.                              *)
LogicalContent(m, i) ==
  IF m.objects[i] = NoObject THEN <<>>
  ELSE FoldLeft(LAMBDA acc, e : acc \o SubSeq(ReadEntry(m, e), 1, e.len), <<>>,
                m.objects[i].entries)

(* Cutting the tail of an object whose extents are in order keeps exactly    *)
(* the bytes before the cut, whatever extents it goes through and whatever   *)
(* the collector had to move for it.  (A cut of length zero drops it.)       *)
CutKeepsPrefix ==
  [][\A i \in Inos, off \in 0..MaxLen, n \in 1..MaxLen :
       /\ DeleteInodeData(i, off, n) /\ off + n = SizeOf(i)
       /\ ExtentsTile /\ PagesOwned /\ Running(State)'
       => LogicalContent(State, i)' = SubSeq(LogicalContent(State, i), 1, off)]_vars

(* The collector finds at most one extent in its victim.                     *)
CollectsOneExtent ==
  LET victim == ChooseGCBlock(table)
      busy   == {a \in Pages : BlockOf(a) = victim /\ table[victim].used_map[OffsetOf(a)] \in Inos}
  IN \/ busy = {}
     \/ \E x \in Extents : busy = PagesOf(ExtentAt(x))

(* Where extents are in order and no page has two owners, a round of the     *)
(* collector over a block with at most one extent in it changes no object's  *)
(* bytes, unless it aborts for want of a destination.                        *)
CollectionKeepsContent ==
  LET m == ForwardGC(State) IN
  Running(State) /\ ExtentsTile /\ PagesOwned /\ CollectsOneExtent =>
    \/ m.status = "no_room"
    \/ Running(m) /\ \A i \in Inos : ReadAll(m, i) = Content[i]

(* The process aborts only in the collector, and only when it has to be      *)
(* there: no block has room for all that an object may hold.  (Every part    *)
(* written holds a byte of it at least.)  Then a search for room ends after  *)
(* at most GCRounds rounds; it aborts because an inode without an object     *)
(* left its pages busy, because two fragments of the victim are given the    *)
(* same destination, or because no other block has room for one of them.     *)
AbortsExplained ==
  [][Running(State) /\ ~Running(State)' =>
       /\ \A b \in Blocks : table[b].reserved_size < MaxLen
       /\ \/ status' = "no_object"
             /\ \E a \in Pages, i \in Inos :
                  table[BlockOf(a)].used_map[OffsetOf(a)] = i /\ objects[i] = NoObject
          \/ status' = "reserve_underflow" /\ \E b \in Blocks : Len(Fragments(table, b)) > 1
          \/ status' = "no_room"]_vars

(* What an object's extents hold is what its size says.                      *)
ReadsMatchSize == \A i \in Inos : Len(ReadAll(State, i)) = SizeOf(i)
=============================================================================
