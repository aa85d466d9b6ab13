------------------------------ MODULE LSMTree ------------------------------
(* The log-structured merge tree that holds every inode's metadata and data  *)
(* object (server-fs/src/kv/lsm_tree).  A put or a delete goes to the        *)
(* memtable; when it would not fit, the memtable is first written out as a   *)
(* new SSTable file of one block.  A get looks in the memtable and then in   *)
(* the files, newest first, through a parsed copy of each file's block that  *)
(* is made on the first read and kept.                                       *)
(*                                                                           *)
(* Sizes are kept, contents are not: a key or a value is a model value with  *)
(* a length, a block holds the table of entries flushed to it (the page      *)
(* packing and its parser are the subject of module SSTablePages).           *)
EXTENDS Integers, Sequences, FiniteSets

CONSTANTS
  Keys, Vals,      \* what callers store
  TOMBSTONE,       \* the value a delete stores (entry.rs)
  NoEntry,         \* a key without an entry in a table
  NotLoaded,       \* a file whose FileIter has not been built
  KeyLen, ValLen,  \* lengths in bytes
  PageSize,        \* bytes in a page (4096)
  PagesPerBlock,   \* pages in a block (128)
  FirstBlock,      \* SSTableManager.block_id (5)
  BlockNum,        \* SSTableManager.block_num (100)
  Slack,           \* the memtable stops this far below its threshold (50)
  HeaderLen,       \* magic number, block count and file id (12)
  EntryHeadLen,    \* crc, key size and value size (12)
  EofLen           \* the record that ends a file (18)

Stored == Vals \cup {TOMBSTONE}
Table  == [Keys -> Stored \cup {NoEntry}]
Region == FirstBlock .. FirstBlock + BlockNum - 1
FileIds == 1..BlockNum

Threshold == PagesPerBlock * PageSize
EntrySize(k, v) == KeyLen[k] + ValLen[v] + EntryHeadLen

ASSUME SentinelsDistinct ==
  /\ TOMBSTONE \notin Vals
  /\ NoEntry \notin Stored
  /\ NotLoaded \notin Table

ASSUME LengthsAssumption ==
  /\ KeyLen \in [Keys -> Nat]
  /\ ValLen \in [Stored -> Nat]

ASSUME GeometryAssumption ==
  /\ PageSize \in Nat \ {0}
  /\ PagesPerBlock \in Nat \ {0}
  /\ FirstBlock \in Nat
  /\ BlockNum \in Nat \ {0}
  /\ Slack \in Nat /\ HeaderLen \in Nat /\ EntryHeadLen \in Nat /\ EofLen \in Nat
  /\ HeaderLen + EofLen <= Slack
  /\ HeaderLen > 0
  /\ Slack <= Threshold

(* Every entry fits an empty memtable.  A larger one would still be put, and *)
(* its flush would run into the next block; no data object of less than      *)
(* some twenty thousand extents is that long.                                *)
ASSUME EntriesFitAssumption ==
  \A k \in Keys, v \in Stored : EntrySize(k, v) <= Threshold - Slack

VARIABLES
  entries,     \* Memtable.entries
  size,        \* Memtable.size
  files,       \* SSTableManager.files: files[id] is the block of file id
  blockTable,  \* SSTableManager.block_table: the blocks in use
  curBlock,    \* SSTableManager.cur_block_id: where the next flush goes
  disk,        \* the table each block of the region holds
  header,      \* the file id in the header of each block; 0 without a header
  fileIter,    \* SSTableManager.file_iter: the parsed copy of each file
  status       \* "running", or the panic that ended the process

memVars == <<entries, size>>
sstVars == <<files, blockTable, curBlock, disk, header>>
vars == <<entries, size, files, blockTable, curBlock, disk, header, fileIter, status>>

EmptyTable == [k \in Keys |-> NoEntry]

Init ==
  /\ entries = EmptyTable
  /\ size = 0
  /\ files = <<>>
  /\ blockTable = {}
  /\ curBlock = FirstBlock
  /\ disk = [b \in Region |-> EmptyTable]
  /\ header = [b \in Region |-> 0]
  /\ fileIter = [f \in FileIds |-> NotLoaded]
  /\ status = "running"

-----------------------------------------------------------------------------
(* Reading.                                                                  *)

(* The table a lookup in file f consults: its cached copy, else the block.   *)
FileTable(f) == IF fileIter[f] = NotLoaded THEN disk[files[f]] ELSE fileIter[f]

(* Files that hold an entry for k; the search stops at the newest.           *)
Hits(k) == {f \in 1..Len(files) : FileTable(f)[k] # NoEntry}
OldestHit(S) == CHOOSE f \in S : \A g \in S : f <= g   \* mutant of Newest
Newest(S) == CHOOSE f \in S : \A g \in S : g <= f

SSTableGet(k) == IF Hits(k) = {} THEN NoEntry ELSE FileTable(Newest(Hits(k)))[k]

(* The tree's stored record of k, a deletion included.                       *)
Record(k) == IF entries[k] # NoEntry THEN entries[k] ELSE SSTableGet(k)

(* What get returns: the tombstone is filtered on a memtable hit only.       *)
GetResult(k) ==
  IF entries[k] # NoEntry
  THEN IF entries[k] = TOMBSTONE THEN NoEntry ELSE entries[k]
  ELSE SSTableGet(k)

(* The files a get of k opens, which then stay parsed in memory: all those   *)
(* not older than the newest hit.                                            *)
Opened(k) ==
  IF entries[k] # NoEntry THEN {}
  ELSE {f \in 1..Len(files) : \A g \in Hits(k) : g <= f}

Get(k) ==
  /\ status = "running"
  /\ fileIter' = [f \in FileIds |-> IF f \in Opened(k) THEN FileTable(f) ELSE fileIter[f]]
  /\ UNCHANGED <<memVars, sstVars, status>>

-----------------------------------------------------------------------------
(* Writing.                                                                  *)

CanPutToTheBrim(sz) == size + sz <= Threshold     \* mutant of CanPut
CanPut(sz) == size + sz <= Threshold - Slack

(* The bytes of the header and the entries, packed page after page: how far  *)
(* they reach into the last page they touch.                                 *)
FlushedBytes == HeaderLen + size
LastPageFill == ((FlushedBytes - 1) % PageSize) + 1

(* The end record is copied into the last page whole, never split.           *)
EofFits == LastPageFill + EofLen <= PageSize

(* update_cur_block_id: the block after cur, wrapping at the end of the      *)
(* region, then forward over the blocks in use; giving up after BlockNum.    *)
Following(cur) == IF cur = FirstBlock + BlockNum - 1 THEN FirstBlock ELSE cur + 1
FreeFrom(b, used) == {x \in b .. b + BlockNum - 1 : x \notin used}
NextBlock(cur, used) ==
  CHOOSE x \in FreeFrom(Following(cur), used) :
    \A y \in FreeFrom(Following(cur), used) : x <= y
RegionFull(cur, used) == FreeFrom(Following(cur), used) = {}

(* Memtable.put into table t of size sz.                                     *)
PutSizeAdds(t, sz, k, v) == sz + EntrySize(k, v)  \* mutant of PutSize
PutSize(t, sz, k, v) ==
  sz + EntrySize(k, v) - (IF t[k] = NoEntry THEN 0 ELSE EntrySize(k, t[k]))

MemtablePut(t, sz, k, v) ==
  /\ entries' = [t EXCEPT ![k] = v]
  /\ size' = PutSize(t, sz, k, v)

(* Mutant of SSTableFlush: the block is not marked as used.                  *)
FlushUnmarked ==
  /\ files' = Append(files, curBlock)
  /\ disk' = [disk EXCEPT ![curBlock] = entries]
  /\ header' = [header EXCEPT ![curBlock] = Len(files) + 1]
  /\ curBlock' = NextBlock(curBlock, blockTable)
  /\ UNCHANGED blockTable

(* The memtable's entries become file Len(files) + 1.                        *)
SSTableFlush ==
  /\ files' = Append(files, curBlock)
  /\ blockTable' = blockTable \cup {curBlock}
  /\ disk' = [disk EXCEPT ![curBlock] = entries]
  /\ header' = [header EXCEPT ![curBlock] = Len(files) + 1]
  /\ curBlock' = NextBlock(curBlock, blockTable \cup {curBlock})

StoreInMemtable(k, v) ==
  /\ CanPut(EntrySize(k, v))
  /\ MemtablePut(entries, size, k, v)
  /\ UNCHANGED <<sstVars, fileIter, status>>

StoreAfterFlush(k, v) ==
  /\ ~CanPut(EntrySize(k, v))
  /\ EofFits
  /\ ~RegionFull(curBlock, blockTable \cup {curBlock})
  /\ SSTableFlush
  /\ MemtablePut(EmptyTable, 0, k, v)
  /\ UNCHANGED <<fileIter, status>>

(* A panic unwinds the only thread that uses the tree: nothing reads the     *)
(* half-made flush afterwards, so the rest of the state is left as it was.   *)
PanicEof(k, v) ==
  /\ ~CanPut(EntrySize(k, v))
  /\ ~EofFits
  /\ status' = "eof_overflow"
  /\ UNCHANGED <<memVars, sstVars, fileIter>>

PanicRegionFull(k, v) ==
  /\ ~CanPut(EntrySize(k, v))
  /\ EofFits
  /\ RegionFull(curBlock, blockTable \cup {curBlock})
  /\ status' = "region_full"
  /\ UNCHANGED <<memVars, sstVars, fileIter>>

Store(k, v) ==
  /\ status = "running"
  /\ \/ StoreInMemtable(k, v)
     \/ StoreAfterFlush(k, v)
     \/ PanicEof(k, v)
     \/ PanicRegionFull(k, v)

Put(k, v) == Store(k, v)
Delete(k) == Store(k, TOMBSTONE)

-----------------------------------------------------------------------------
(* SSTableManager.build: the files of the region, by the headers of its      *)
(* blocks, and the first block without one.  (It would abort if there were   *)
(* none, and it also looks at the block behind the region, which is taken    *)
(* not to begin like a file.)  LSMTree.new does not call it: the manager's   *)
(* test does, on a new manager and again after clear.                        *)
Headed == {b \in Region : header[b] # 0}
FileFound(f) == CHOOSE b \in Headed :
                  header[b] = f /\ \A c \in Headed : header[c] = f => c <= b
FirstFree == CHOOSE b \in Region \ Headed : \A c \in Region \ Headed : b <= c

Build ==
  /\ Headed # Region
  /\ files' = [f \in {header[b] : b \in Headed} |-> FileFound(f)]
  /\ blockTable' = Headed
  /\ curBlock' = FirstFree
  /\ UNCHANGED <<disk, header>>

(* SSTableManager.clear and build; the parsed copies stay.                   *)
Rebuild ==
  /\ status = "running"
  /\ Build
  /\ UNCHANGED <<memVars, fileIter, status>>

(* A new manager over the same flash, built, under an empty memtable: what   *)
(* was in the old memtable is gone.                                          *)
Reopen ==
  /\ status = "running"
  /\ entries' = EmptyTable /\ size' = 0
  /\ Build
  /\ fileIter' = [f \in FileIds |-> NotLoaded]
  /\ UNCHANGED status

Next ==
  \/ \E k \in Keys, v \in Vals : Put(k, v)
  \/ \E k \in Keys : Delete(k)
  \/ \E k \in Keys : Get(k)
  \/ Rebuild
  \/ Reopen

Spec == Init /\ [][Next]_vars

-----------------------------------------------------------------------------
(* Properties.                                                               *)

(* The types of the tree's fields.                                           *)
TypeOK ==
  /\ entries \in Table
  /\ size \in Int
  /\ files \in Seq(Region)
  /\ blockTable \in SUBSET Region
  /\ curBlock \in Region
  /\ disk \in [Region -> Table]
  /\ header \in [Region -> FileIds \cup {0}]
  /\ fileIter \in [FileIds -> Table \cup {NotLoaded}]
  /\ status \in {"running", "eof_overflow", "region_full"}

(* Block allocation (flush, update_cur_block_id): the next flush always has  *)
(* a block no file uses, two files never share a block, and block_table      *)
(* lists exactly the blocks of the files.                                    *)
BlocksDistinct ==
  /\ curBlock \notin blockTable
  /\ blockTable = {files[f] : f \in 1..Len(files)}
  /\ \A f, g \in 1..Len(files) : files[f] = files[g] => f = g

(* The parsed copy of a file that get keeps (SSTableManager.file_iter) is    *)
(* never stale: nothing invalidates it, so the block must never change.      *)
CacheCoherent ==
  \A f \in FileIds :
    fileIter[f] # NotLoaded => f <= Len(files) /\ fileIter[f] = disk[files[f]]

(* The bytes of the memtable's entries, one element for each.                *)
StoredSize(k) == IF entries[k] = NoEntry THEN 0 ELSE EntrySize(k, entries[k])
EntryBytes(k) == {k} \X (1 .. StoredSize(k))
MemtableBytes == UNION {EntryBytes(k) : k \in Keys}

(* Memtable.size, updated by the difference on every replace, is the number  *)
(* of bytes a flush would write: it never drifts and never underflows.       *)
SizeExact == IsFiniteSet(MemtableBytes) /\ size = Cardinality(MemtableBytes)

(* The reserve of can_put ("trick 25") keeps a flush inside its block, with  *)
(* room for the header and the end record.                                   *)
FlushFitsBlock == HeaderLen + size + EofLen <= Threshold

(* No entry comes within a slack of a page.                                  *)
SmallEntries ==
  \A k \in Keys, v \in Stored : EntrySize(k, v) <= PageSize - Slack + HeaderLen

(* flush copies the end record into the last page without splitting it:      *)
(* that slice is never out of range.  It holds when SmallEntries does: the   *)
(* memtable is then flushed from within its last page.                       *)
EofNeverOverflows == status # "eof_overflow"

(* A flash block that holds a file is never written again.                   *)
FilesImmutable == [][\A b \in blockTable : disk'[b] = disk[b]]_vars

(* What get answers for a deleted key: never the tombstone itself.           *)
NoTombstoneLeaks == \A k \in Keys : GetResult(k) # TOMBSTONE

(* The tree implements the map: whatever is in the memtable, the caches and  *)
(* the files, a lookup finds the last put; after a delete it finds nothing,  *)
(* but once a flush has moved the deletion to a file it may find the mark of *)
(* the deletion as if it were a value, for get filters the mark in the       *)
(* memtable only.  A tree that is opened again is the map as it was before   *)
(* the last flush.                                                           *)
KV == INSTANCE KVMap WITH
        store <- [k \in Keys |-> Record(k)],
        found <- [k \in Keys |-> GetResult(k)],
        saved <- [k \in Keys |-> SSTableGet(k)],
        running <- (status = "running")
ImplementsMap == KV!Spec
=============================================================================
