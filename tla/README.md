# WondFS: specifications, checks and proofs

WondFS is a user-space file system for raw flash, written in Rust. `server-fs`
serves FUSE requests from a key-value store that lies on a flash translation
layer; `client-fs` is a small HTTP server that exports a disk. This directory
holds TLA+ modules translated from that code, TLC configurations that check
them on small instances, and TLAPS proofs of the properties of eleven of them for
every value of their constants.

Paths below are relative to `src/`; `FS` is `server-fs/src`.

## 1. The system

    kernel ──FUSE──> WondFS handlers (fs/filesystem_impl.rs)
                        │ inodes (inode/), directories (common/directory.rs)
                        v
                     KV (kv/kv.rs) ── one RwLock ──> KVManager (kv/kv_manager.rs, kv_helper.rs)
                        │ keys m:<ino> d:<ino> e:<name>     │ pages of data objects
                        v                                   v
                     LSMTree (kv/lsm_tree/)            GCManager (kv/gc/)
                        │ one block per flush               │ statuses, victims, moves
                        └───────────────┬───────────────────┘
                                        v
                     BufCache (buf.rs) ─> WriteCache (write_buf.rs) <─ write thread
                                        v                               (tl/tl.rs)
                     DiskManager -> FakeDisk (driver/)

Everything above the flash stack is sequential: `fuser` runs one handler at a
time, and KV takes a lock for the whole of each call. The one concurrent actor
of the server is the thread that `WondFS::new` starts on
`TranslationLayer::write_loop`; the background collector is commented out. The
disk is always a `FakeDisk` created empty with the process, and the calls that
would write the page tables are commented out (`FS/kv/kv_helper.rs:221-226`), so
today nothing survives a restart. The code for it is there, though: `WondFS::new`
calls `KV::mount` (`FS/fs/filesystem.rs:30`), which reads the tables and rewrites
them by way of a second copy if it finds one, and the LSM manager can be built from
the headers of its blocks. Both are modelled, over
the disks that the encoders of those formats produce. `client-fs` is concurrent
throughout (tokio tasks, a channel, callers in other processes).

| Component | State | Operations | What is hard |
|---|---|---|---|
| LSM tree | memtable and its byte count, files, used blocks, current block, headers, parsed copies | put, get, delete, flush, clear, build | the flush must fit a block, newest value wins, copies go stale, build must find what flush left |
| SSTable pages | pages of a block | pack, parse | records cut by page ends, the end record |
| Page allocator | status map, reserve and three counters per block | set_page, erase, two searches | redundant counters, runs inside one block |
| Collector | (the allocator's) | choose a victim, fragments, moves, re-pointing, erase | all destinations chosen before any move |
| Data objects | extents of each inode | get, set, delete by range | splitting extents, page accounting, collection in mid-call |
| Flash stack | three caches, the disk, the thread | read, write, erase, write_loop | check-then-act across locks, erase against the thread |
| Namespace | stored and loaded inodes, directories | the FUSE handlers | early returns, two copies of each inode, link counts |
| LRU cache | shared nodes, ends, map | get, put, remove | link repair, ownership |
| Remote disk | channel, handlers, callers | read, write, erase | answers that come too late, acknowledged but not done |
| Mount and metadata regions | two copies each of the bitmap (BIT) and the owners' table (PIT), the page table they fill | read, erase, rewrite, set | a stop between any two steps, pages that wait in a volatile cache |
| Compression | the subtrees of a Huffman tree, codes, a text, its bytes | build, encode, decode | the last byte's padding, the order of a hash map |
| Similarity graph | nodes in a vector, their places, inodes, stored copies | insert, delete, edit, build, query | places shift on a deletion, memory and store differ |
| Not modelled | journal, path resolution, check center, image-file driver, super block, arrays | | see section 8 |

What makes each correct, in a sentence: the tree is a map; a block that is
parsed gives back what was packed; a run of pages is programmed on erased flash
and a block erased when nothing in it is busy; an object is the bytes last written; the caches are
invisible; the directories are a tree in which every name resolves; the LRU
cache keeps the order of use; the remote disk is linearizable until it fails; a
mount that is stopped and repeated restores what the page tables held; a decoded text begins with the text
that was encoded; the graph's places, edges and stored nodes agree.

## 2. Modules

| Module | Models | Says |
|---|---|---|
| `KVMap` | the contract of `LSMTree` | a map with put and delete, the map as last saved, and what a lookup answers: for a deletion that was saved perhaps its mark |
| `LSMTree`, `MCLSMTree` | `FS/kv/lsm_tree/` but the page format | implements `KVMap` |
| `LSMTree_proofs` | | proofs about `LSMTree` |
| `SSTablePages` | `flush`'s packing, `BlockIter::new` | the parser returns what was packed |
| `BlockInfo` | `FS/kv/gc/block_table.rs` and the searches | operators shared by the next two, the collector's plan among them |
| `PageAllocator`, `MCPageAllocator` | `GCManager` under runs of writes, `dirty_pit` of any page, and the collector step by step | counters, reserves, page life cycle |
| `FileStore` | the contract of data objects | byte strings by inode |
| `KVManager`, `MCKVManager` | `kv_manager.rs`, `kv_helper.rs`, the collector | implements `FileStore` |
| `KVManager_proofs` | | proofs about `KVManager` |
| `Flash` | the contract of the flash stack | pages and erasable blocks |
| `FlashStack`, `MCFlashStack` | `buf.rs`, `write_buf.rs`, `tl/tl.rs`, `driver/` | implements `Flash` |
| `FlashStack_proofs` | | proofs about `FlashStack` |
| `FileTree` | the contract of the namespace | a tree of directories and linked files |
| `Namespace` | handlers, inode cache, directories | implements `FileTree` |
| `Namespace_proofs` | | proofs about `Namespace` |
| `RecencyMap` | the contract of `LRUCache` | a bounded map in order of last use |
| `LRUCache`, `MCLRUCache` | `util/lru_cache.rs` | implements `RecencyMap` |
| `LRUCache_proofs` | | proofs about `LRUCache` |
| `DiskService` | the contract of the remote disk | every request takes effect once between its call and its answer while the server is up; no read after it failed |
| `RemoteDisk` | `client-fs` | implements `DiskService` |
| `RemoteDisk_proofs` | | proofs about `RemoteDisk` |
| `MetadataRegions` | `kv/component/bit.rs`, `pit.rs`, mounting in `kv_helper.rs` | a mount restores the page table and can be repeated |
| `HuffmanCodec` | `compress/huffman.rs` | a decoded text begins with the encoded one |
| `OnDiskFormats`, `MCOnDiskFormats` | | the three formats of the disk side by side, for one run |
| `OnDiskFormats_proofs` | | proofs about `PageAllocator` and `MetadataRegions`, which change and fill the same kind of table, and about `SSTablePages` and `HuffmanCodec` |
| `SimilarityGraph`, `MCSimilarityGraph` | `css/graph.rs` | places, edges and stored nodes agree |
| `SimilarityGraph_proofs` | | proofs about `SimilarityGraph` |

How they compose: `KVManager` takes the tree as a map, which `LSMTree` is
shown to implement (`ImplementsMap`); `Namespace` takes a data object as a
sequence of records, which `KVManager` is shown to implement for directories
(`kv_objects`); `KVManager` takes pages as `Flash` does; `MetadataRegions` fills
the table of `BlockInfo` that the allocator and `KVManager` use, with the same
`SetPage`; `SimilarityGraph` keeps its nodes in a map too. In three places the code
does not give what the composition takes. A lookup of a key whose deletion has been
flushed may answer the tombstone (`KVMap` admits it, `lsm_tombstone` shows it),
which `KVManager` would decode as an object and the graph's `build` as a node; both
modules take a map that answers nothing. The collector can program a page twice
(section 3), which `Flash` forbids. And `PageAllocator` lets any page be set dirty,
since `dirty_pit` does not ask whose it is.

### How state and actions correspond to the code

* A Rust struct's fields are the module's variables, under their names where
  TLA+ allows; `PROJECT.json` "map" gives lines for every definition.
* A call that runs under one lock is one action (`LSMTree.Put`, every
  operation of `KVManager`, every handler of `Namespace`), including what it
  calls: a put flushes within the action when the memtable is full, a write
  collects within the action when there is no room. In `KVManager` and
  `Namespace` an operation is a function from state to state, so that the
  order of the code's steps and where a panic stops them can be seen.
* In `PageAllocator` a run is programmed page by page. The collector makes its whole
  plan in one action (`BeginCollect`), as the code does, and then begins a move, sets
  its old pages dirty, programs the new ones, and erases the victim, each an action.
  `DropPage` is `dirty_pit`, which has no guard on the page.
* In `FlashStack` each lock is taken and released call by call, so a read is
  two actions (the check, the unwrap) and an erase one per recalled page.
* In `RemoteDisk` a request is five: call, enqueue, receive, return, and the
  ways each may go wrong.
* A panic is a status, a named value of which no action starts. In `LSMTree`
  it is the status after a failed search for a block.
* In `MetadataRegions` each erase and each page written is an action, since the
  process may stop between them; `Stop` keeps the disk and forgets everything
  else, what waits in the write cache included. `lost` is history: of which
  tables a stop has left no whole copy.
* `LSMTree.Build` is `SSTableManager::build`, which only the manager's test
  calls: on a new manager (`Reopen`) and after `clear` (`Rebuild`).
* Operators marked "mutant of X" are plausible mistakes in X. They take no
  part in the specification; each property is shown to fail when one replaces
  its original.

### Abstractions

Keys, values, names and page contents are model values. In `LSMTree` a record
has lengths only; its bytes are the subject of `SSTablePages`, over scaled page
and field sizes. `KVManager` has real byte sequences with pages of one or two bytes.
A directory's size is counted in records. The images of the page tables keep
bits and pairs but not bytes, and the PIT's serial form, which no reader
recognises, is opaque. A hash in `SimilarityGraph` is the set of its 1 bits.
Inode times, permissions, erase counts and
ages, printing and FUSE attributes are left out: no decision of the code reads
them. The one time that matters is a batch's duration, by which the write speed is
divided: whether it was less than a microsecond is a choice of the model, after a
batch of no pages (`UpdateWriteSpeedPanics`; a batch with pages takes longer, since
`FakeDisk` sleeps for 50 at each).

## 3. Runs

Passing runs:

| Run | Question | Bounds, and why they are enough |
|---|---|---|
| `lsm_small` | Is the tree a map, what does a lookup answer after a deletion, and is the tree after a build the map as before the last flush; are blocks distinct, byte counts exact, flushes within a block, end records within a page? | 2 keys, 2 values of different length, 4 blocks of two 16-byte pages: entries as long as a page less the slack allows, two of which overrun the block unless the slack is kept; the region fills |
| `disk_formats` | Does the parser of SSTable blocks give back what was packed, and end? Does a mount restore what BIT and PIT held, wherever earlier ones were stopped? Is a text decoded as it was? | page 12, fields of 2, value lengths 1..8 and 15: each field is cut at each place, values span up to three pages; tables of 3 blocks of 2 pages, the bitmap read for 2 of them, copies of 3 pages, any contents of BIT and PIT with up to 3 marked pages, whether the allocator fills blocks that way or not, one pair a page: a table spills over pages, a copy can be torn, and the third block lies behind the bitmap; 5 characters, all orders of the hash map, texts of up to 4 in bytes of 5 bits: codes of unequal length cross the ends of bytes |
| `page_allocator` | Do counters and marks agree with the page map and with what is programmed, through writes, collections and any pages set dirty; is what the collector erases free? | 2 inodes that may change places (symmetry), 3 blocks of 3 pages: runs shorter, equal and longer than a reserve, plans of several moves, to one destination or two |
| `kv_objects` | Are a file and a directory the bytes last written, with extents in order and every page owned once? | a file of up to 3 bytes overwritten at any offset with two different bytes, a directory whose one-byte records are appended and removed; pages of 2 bytes, so that extents share no page but split one; 7 pages, as many as one call may use beyond what is stored |
| `kv_gc` | Does collecting keep every object's content, is what is in reserve blank, what does a cut leave, and what can abort the process? | one file of up to 2 bytes, 2 blocks of 3 one-byte pages: the smallest device on which a victim has live pages and a destination, with one extent or two in the victim |
| `flash` | Are the caches invisible, does the thread move each page once (unless a batch of none ends it), and is the check-then-unwrap of a read safe, in a build that traps overflow (with erases) and in a wrapping one before the first erase? | 2 blocks of 2 pages, a batch of 2: the batch is shorter than what can wait, and a block is erased while pages of both wait |
| `ns_tree` | Do the handlers keep a tree with exact link counts, and leave no inode loaded when they succeed? | 2 names, 3 inodes, 3 slots, symlinks, link counts up to 2 so that they overflow |
| `lru_cache` | Do list and map stay one, in order of use, with nothing leaked? | 4 keys, capacity 3: removals of first, middle, last and only node; states that differ in where nodes are allocated are taken as one, since the code compares no addresses |
| `remote_disk` | Does every request take effect once between its call and its answer while the server is up, and is every one answered, with callers that compete and give up? | 2 callers, room for 2 messages: the channel is full, and a later message waits behind an earlier one |
| `similarity_graph` | Are places and edges exact after any insertions, removals, edits and rebuilds; what does a query find; what does a rebuild lose? | hashes of 4 bits, 2 inodes, 3 nodes ever added: a node in the middle is deleted, one node has two inodes, ids of two bytes in base 2 |

Runs that exhibit a disagreement between the code and what a test of the
repository says (the finding in `PROJECT.json` quotes it):

| Run | What it shows |
|---|---|
| `lsm_tombstone` | a deletion that has been flushed reads as the tombstone's bytes |
| `kv_truncate` | after a cut inside an extent a whole read returns the cut bytes |

Deadlock is not checked where the system really stops: a panic ends the
process, the LSM region fills for good, a bound of the model (`MaxIno`,
`MaxLen`) is used up, every remote caller has given up.

No run checks a type invariant or `CacheCoherent` of the tree: TLAPS proves
these for the eleven modules it is used on (as conjuncts of their invariants; of
`KVManager` a looser form, without the bounds on counters and lengths), and
elsewhere a value of a wrong type would stop TLC in the other properties. `kv_gc` allows one collection in a search
for room; that a second is never needed there is part of `AbortsExplained`.

Bounds that are constants of a module, not of the code: `MaxLen`, `GCRounds`,
`Cutting` and `Collecting` (KVManager), `MaxIno` and `MaxSize` (Namespace),
`Builds` (FlashStack), `MaxSaved` (MetadataRegions), `MaxText` (HuffmanCodec),
`MaxNodes` (SimilarityGraph), the record sets of `SSTablePages`. Constants of
the code that a run makes small: `BitBlocks`, `ImagePages`, `PairsPerPage`,
`ByteBits` and the sizes of pages and blocks. `Cutting`, `Collecting` and
`Builds` split the behaviours into those in which a property holds and those in
which the code does otherwise; `WithSymlinks`, `Hidden` and
`Short` do the same for `Namespace`, whose run has no hidden and no short names.

### Behaviours the properties step around

The models take each of these steps as the code does; the properties say under
which condition they hold, and that condition is one of these not happening.

* The end record of a flush is not split (`sstable_manager.rs:145`), and runs
  over its page after an entry longer than a page less the slack
  (`SmallEntries` of theorem `EofSafe` excludes it).
* A lookup of a key whose deletion has been flushed answers the tombstone, or
  nothing while the deletion is in the memtable too (`lsm_tree.rs:33-46`).
  `ImplementsMap` admits both; just after a delete only nothing.
* All destinations of a victim's fragments are chosen before a move marks its
  pages (`gc_manager.rs:102-105`): two fragments get one place, and the second is
  programmed over the first. `RunFits` names this exception (`SharesPlace`). And of a
  fragment that holds several extents only the first is re-pointed
  (`kv_helper.rs:120`). `CollectionKeepsContent` is about victims with at most
  one extent, in a state whose extents are in order.
* `dirty_pit` does not ask whose page it sets dirty (`kv_helper.rs:285-289`). An
  extent that was cut keeps its `archived_len` (`kv_manager.rs:419`); once it has been
  re-pointed, replacing it sets pages dirty that are another inode's, or clean and
  above their block's mark. `ReserveExact`, `RunFits` and `PagesCycle` hold all the
  same; that the other inode's page is lost with the next collection no property
  denies (`PagesOwned` is about behaviours without cuts and collections).
* A write reads the data object, may collect, which re-points the stored copy, and
  stores back the copy it read (`kv_manager.rs:138`). The properties about contents
  are about behaviours without collections, about a cut, and about a round of the
  collector by itself.
* The pages of a deleted inode stay busy, and the collector panics when it
  moves them (`kv_helper.rs:115`, status `no_object`).
* In a release build a page in the thread's hands is programmed after its
  block's erase (`tl.rs:171`): in run `flash` the wrapping build has no erases
  (`SafeBuilds`), and the refinement theorem assumes `SafeBuild`. So in the run an
  erase meets pages that wait, but never a batch in the thread's hands.
* Once `size` has wrapped the thread takes batches of no pages, and divides by the
  microseconds such a batch took (`tl.rs:413-416`): 0 of them end the thread. What
  comes while a batch of none is in hand may therefore wait for ever; `Drains` is
  about all other pages.
* Listings and handlers that fail keep the inodes they loaded until the buffer
  is full (`filesystem_impl.rs:499`, status `no_slot`); `SuccessReleases` is
  about the others.
* Setting a file's size to the size it has empties it
  (`filesystem_impl.rs:134`); `FileTree.Cut` admits any size up to the old one.
* A symlink that is loaded again is a plain file (`inode_manager.rs:102`);
  `FileTree` is told the type an inode is loaded with.
* A mount has no whole copy of a table from the erase of the second one until
  the write cache has put the last page of the first on the disk
  (`kv_helper.rs:169-174`): a stop in between loses the table, and
  `MountRepeatable` names just this window. While it lasts the first copy on the
  disk may be part of an image, and a later mount cannot tell; nor can it tell a
  torn second copy, which `MountInit` therefore leaves out.
* `BIT.set_page` only sets bits (`bit.rs:74`): a page keeps its bit when its block is
  erased, and a mount gives it back as dead. `MountRestores` is therefore about what
  BIT and PIT held, not about what the allocator knew, and allows any contents.
* A mount gives blocks behind the first 18 no dead pages back
  (`kv_helper.rs:178`), gives a block with dead pages too large a reserve (only a
  busy page takes from it), and does not recognise the
  PIT's serial form, whose magic `set_pit` looks for where it never is
  (`kv_helper.rs:261-268`). `MountRestores` is about the rest.
* The zeros that fill the last byte of a compressed text are decoded too
  (`huffman.rs:224-229`), codes of another process differ, since they follow the
  order of a `HashMap`, and an empty text divides by zero.
* An inode taken from a graph node that has others stays in `ino_map`; once the
  node is gone, the next call for that inode unwraps nothing (`graph.rs:53`,
  action `PanicAtIno`). An inode added to a node that exists is not stored, and
  `build` leaves the largest id out (`graph.rs:139`): `RebuildKeepsNodes` is
  about nodes, not inodes, and but for the last, and takes a store without flushed
  tombstones, which `build` would decode as nodes. Queries are complete up to
  radius 2 only, as edges join a new node to its nearest.
* A name that lookups never find can be linked twice, and is counted twice
  (`directory.rs:24`): `LinksExact` is about runs without such names (`Hidden`).
* `build` of the LSM manager is taken to find only blocks that were flushed
  whole: a block whose flush panicked half-way would look like a file too.

## 4. Fairness

* `FlashStack`: weak fairness of the thread's step. The operating system runs
  the thread; it waits only for locks that the caller releases within a call.
  No fairness of the caller is assumed.
* `RemoteDisk`: weak fairness of the main task and of returning, strong
  fairness of enqueueing: tokio's channel serves waiting senders in order, so
  a sender for which there is room again and again gets a place. A caller gives
  up in the end only when the server is gone and its connection breaks; it may
  do so at any time, but no progress is claimed from that.
* `OnDiskFormats`: weak fairness of `Close` and `Read`: a flush and a parse are
  loops within one call, which runs on once begun.
* Nothing else is claimed to happen eventually. `find_write_pos` and the
  exhausted LSM region have no such guarantee in the code.

## 5. Proofs

All proofs are checked by TLAPS to the last leaf. Each specification's
invariants are proved for any constants that satisfy its named assumption.

**`LSMTree_proofs`.** The inductive invariant is
`TypeOK /\ SequentialAllocation /\ CacheCoherent /\ SizeBounded`.
`BlocksDistinct` is not inductive: that two files never share a block follows
because file ids are dense and blocks are handed out in the order of the
region until it is full, which is `SequentialAllocation`. `SizeBounded` (the
byte count is within the threshold less the slack) carries `FlushFitsBlock` and,
where the slack covers the end record, `EofNeverOverflows`. `FilesImmutable` is
the action property that makes the copies of `get` safe. `SequentialAllocation`
also gives the header of every block, from which `BuildFindsAll` concludes that
`build` finds exactly the files, the used blocks and the next block the manager
knows. `Refinement` shows every step to be one of `KVMap`'s or a stutter; a flush
saves the map as it is before the put that causes it, and a build returns to it.
It also says what a lookup of every key answers in every state: what the map
holds, and of a deletion nothing or, once it was flushed, its mark
(`LookupAnswers`); a step that leaves the map alone leaves the answers alone too.
`SizeNeverDrifts` needs no sum over a map: the memtable's bytes are taken as a set
of pairs of a key and a position below its entry's length, whose cardinality
changes with a put by just what the code adds and takes away.

**`OnDiskFormats_proofs`, of `PageAllocator`.** Since any page may be set dirty at any
time, nothing can be said of which pages are busy beyond what is at or above a
block's mark: these are not busy and have not been programmed since the erase
(`ReserveExact`). This is what setting a page dirty cannot break (`DirtyExact`), nor
programming at the mark or below (`ProgramExact`). The inductive invariant adds what
relates the table to the collector's plan, which is made before any move and out
of date after the first. `Counted`: the counters are cardinalities, hence not
negative, so that utilizations can be compared and a victim exists (`VictimIsBlock`).
`PlacesHold`: every destination lies in a block other than the victim, at its mark
until a move to that place has begun and at or below it from then on, since marks
only grow. `RunPlaced`: the run in progress goes on at the mark of its block, or
below it if it shares its place. `VictimCovered`: a busy page of the victim is in a
fragment of a move to come or among the pages still to be set dirty, which holds at
first because the scan puts every busy page it passes in a fragment
(`FragmentsCover`). `RunFits` and `PagesCycle` follow: when all moves are done
nothing in the victim is busy. `CountersExact` uses lemmas on the cardinality of a
map's preimages under one update.

**`FlashStack_proofs`.** In both builds `TypeOK /\ CacheCovered /\ ReadMissed`:
whatever waits in the write cache is also in BufCache, and a read in progress
missed BufCache, hence `ReadNeverTorn` although the code's two locks do not
protect it. Under `SafeBuild` (overflow trapped, or no erase yet) further
conjuncts (`BatchCovered`, `DiskCovered`, `OnePlace`, `NothingWritten`) say that
each page is in one place on its way down, and give `MissesAreBlank`,
`DestinationClean` and the refinement of `Flash`. `SafeBuild` is needed: with
erases in a wrapping build `MissesAreBlank` fails, as section 3 says.

**`LRUCache_proofs`.** `WellLinked` is not inductive: a cycle beside the list
has all its links in order, and so has a list that does not reach its tail.
`IsList` adds what rules these out: the ends are nodes or both missing, and the
nodes can be numbered downwards along `next` (`Acyclic`), so that a list with a
node has a last one. `Removed` and `Pushed` say in one expression what a list is
without a node and with one in front; `DeletedIsRemoved` and `PoppedIsRemoved`
show that the code's assignments, link by link and with the drop of the last
reference, come to just that, `RemovedIsList` and `PushedIsList` that they keep
`IsList`. `ListStaysLinked` and `NoNodeLeaks` follow. For `KeepsRecencyOrder`
the list also has a walk from its head that meets each node once
(`HasOrder`); `RemovedOrder` and `PushedOrder` give the walk after a step and its
entries, which are those `RecencyMap` asks for. The walk is unique
(`WalkUnique`), so that the `CHOOSE` of `Order` finds it.

**`Namespace_proofs`.** Every handler is a composition of a few calls on the
inode cache, so the proofs follow these: for each call a lemma says what it
leaves in the cache, the metadata and the objects, and the handler's lemma puts
them together. The inductive invariant has two layers. `Base` holds in every
build: types, `LoadedIsStored` (an inode in the cache is the stored one, and its
size is its object's), `Fresh` (an inode number above the counter is not used
anywhere, so a new one names nothing), `KnownTyped` (what the kernel was told of
an inode's kind is what is stored) and `DirsShaped` (a directory begins with "."
and its parent). From it follow `LoadedExact` and, for each step, `KeepsNothing`.
`Tree` is about names: each one names an inode that exists (`NeverMissing`: no
handler unwraps a missing inode), a directory but the root is named once, in the
directory its ".." leads to, and a file at most as often as its link count says.
`TreeShaped` and `LinksExact` are not inductive without it, since the step that
removes an inode at count zero must know that no name is left. What a handler
does to the names is one of six effects (none, made, linked, unlinked, removed,
resized), and `Tree` is shown to survive each. `Tree` needs `OverflowChecks`: in a
wrapping build a file linked until its 8-bit count has wrapped goes with the next
name it loses and leaves the others dangling. `LinksCounted` and `KeepsFileTree`
need `Hidden = {}` besides: a name that lookups never find can be added twice,
and the count grows with each. Loops of `readdir` and cardinalities of sets of
names are handled by an induction on the naturals (`SetInduction`).

**`KVManager_proofs`.** `ReserveIsBlank` and `CollectionKeepsContent` for every
sequence of calls, with cuts and collections at any point of them. The inductive
invariant is `Sound`: types (`States`), `Reserved` (a block's reserve is its last
pages), `BlankAbove` (a reserve is erased), `Marked` (a page that is busy has been
programmed) and `OnlyLive` (an inode that is gone has no object). Every
call is a function on the whole state, a fold of smaller ones, so the proof goes up
along the calls, one lemma per function. A fold of the community modules is a
recursive function whose existence has to be shown (`FoldExists`, `WalkOf`); from
then on its loop is a walk, a sequence of states that starts at the base and in
which each follows from the one before, and an induction on the naturals
(`UpTo`) does the rest. Three things are not obvious. The collector looks up the
destinations of all fragments in a table that no move has changed yet, so a second
fragment may be written over the first; it still lies at or below the mark, since
marks only grow (`Shrunk`, `PlaceIn`). That there is a victim at all needs the
counters: `dirty_num` is the number of dirty pages, hence never negative, so that
`LessUtilized` is transitive and some block is least (`VictimIsBlock`). And the
place at which a loop over the entries inserts what it kept is a place in the list
it has shortened meanwhile (`Progress`).

The module's second part is about behaviours with neither collections nor cuts
(`~Collecting /\ ~Cutting`), to which `kv_objects` is bounded too: with a
collection the repointing of extents comes in, which the third part
and `AbortsExplained` examine, and after a cut inside an extent the bytes read
are no longer the file's (`kv_truncate`). `~Collecting` says that a call starts
only while some block takes all it may write, so that no search for room ever
collects; deletions, overwrites and pages lost to deleted inodes are as in the
code. `KVManagerAssumption` asks of the constants that sizes are positive and that
`NoObject` is not an object. There the inductive invariant is `Kept`:
besides `Sound`, the extents of each object follow one another from 0 to its
size, with `len` and `archived_len` alike (`Tiled`); the pages the table has in use
for an inode are those of its extents, each in one (`Own`), and are `Marked`, so
that a later write does not touch them; and a directory's
extents are its records. `ExtentsStayTiled` and `PagesStayOwned` follow. Neither
is inductive alone: `RemoveByPointer` removes the first extent with a given
pointer, which is the right one only because no two extents share a page; that the
head and tail of a split extent take other pages than those in use rests on
`ReserveIsBlank`; and the index at which new extents are inserted is the right one
only while the extents are in order.

The proof describes what a write does to the list of entries (`Edit`, `Written`:
those before the range, the kept head, the new one, the kept tail, those after)
and what a removal does (`ByRemoval`: one record gone, the later ones moved up),
first for the loop of the code, entry by entry, and then for its result.
`ImplementsStore` is about bytes. `Reads(m, es, c)` says that extent by extent
the flash holds `c`; it determines `c` (`ReadsOne`) and is what the fold of
`ReadAll` comes to (`TextReads`). `WriteReads` and `RemoveReads` show that the list
after a call reads as `FileStore` says, and `OthersRead` that no other object's
text changes, since no page of theirs is programmed. So every call is one step of
`FileStore`, or none where the code ignores a write behind the end.
`RangesReadExact` adds the ranged read: the extent it starts in is the right one
(`NextBehind`), and what it has gathered after each further extent is a prefix of
the range (`MoreTakes`, `RangeTaken`).

The third part is about a round of the collector in any state the calls reach, those
that went through earlier collections and cuts included. `CollectionKeeps` says that
a round over a block that holds at most one extent, in a state whose extents are in
order, changes no object's bytes or has no room (`no_room`); no other panic can
occur. The scan of the victim finds nothing or just that extent (`NothingFound`,
`OneFound`: by induction on its pages). The move copies it to a place above the mark
of another block (`OneMove`), the entry found by the old pointer is the right one,
since it is the only one with it (`RepointIs`), and its bytes are read from there
(`ReadMoved`). The pages of all other extents are busy, hence `Marked`, hence not above
a mark, and not in the victim: neither the move nor the erase touches them
(`AllSame`). This is why `Marked` has to hold whatever is collected and cut, and
why the order of the extents is a hypothesis: with two extents the collector may lose
one (section 3).

**`RemoteDisk_proofs`.** The invariant relates the handlers to the channel: a read
in the channel is the request of its sender, whose handler waits or is gone, a
handler is gone only after its caller gave up, and no caller has two reads
there. So the answer finds its handler (`AbortsOnlyForQuitters`). The requests of `DiskService`
are those of the callers. Up to the server's failure a request takes effect when it enters the channel,
just then and only if it does (`DoneEnqueue`, `DoneKept`), and its caller is answered
only after that: a write that is answered and never enqueued is no behaviour of
`DiskService`. The pages of `DiskService` are the disk once all messages are done
(`DiskAfter`), and the answer promised to a read is fixed by the messages before it.
`Linearizable` shows that doing the first message changes neither, and that nothing
but the abort of the main task is `DiskService`'s failure: from then on what was in the
channel is lost and no read is answered, though a handler may still answer a write.

**`OnDiskFormats_proofs`, of `MetadataRegions`.** `MountTypeOK /\ CopyLeft /\
RewriteCovered`: of a table that is not lost either the second copy is whole and means what was saved, or it
is erased and the first one does, once the pages that wait are put on it; and
until a rewriting erases the second copy, that is whole, and the pages written so
far of the first are its pages, on the disk or waiting. `MountsRepeatable` follows
for any size of the disk and of its images.

`MountGivesBack` is about what the table is at the end (`MountRestores`), for any
contents of BIT and PIT in which an owned page has a bit. Its
invariant `MountedFrom` adds that nothing of a copy waits when it is read
(`NothingAhead`), that what was read means what was saved as long as the copy is
not lost (`HeldGood`), and that the table is what the images read so far make of
a new one (`SetSoFar`). Then come both directions of the encoding. A bit of a block is
read back where it was written (`BitsEncoded`). All pairs of a saved table are read
back (`OwnersEncoded`): the map form is chosen for fewer than half of the pages, so
all pairs have a place (`PlaceOnPage`); pages are filled without gaps (`PagesFilled`),
and reading, which ends at a blank page, does not end early. `SetBitIs` and
`PairsSetIs` walk the folds that fill the table: the order in which pairs are set does
not matter, since each has an address of its own, and each takes one page from the
reserve of its block. `TableRestored` puts them together.

**`OnDiskFormats_proofs`, of `SSTablePages`.** `PagesRoundTrip` holds for pages, blocks
and entries of any size. The proof speaks of one sequence of bytes that the pages cut
(`Cuts`), in which the records lie one behind the other, each beginning where the last
one ends (`Laid`). While flush packs, the pages cut just the records of the entries:
`Packed` says that packing more bytes cuts the longer sequence, wherever the ends of
the pages fall, and `LaidMore` that it has one record more. `Close` adds the end record and
zeros. While the pages are parsed, the reader's place `(i - 1) * PageSize + j` is where the
field it is in begins plus what it has of it (`AtPlace`), that is the field's head
(`InField`), and the fields before are read (`FieldsRead`). A turn reads on in the page or
up to the end of the field (`TurnReads`); the sizes it decodes are never 0, so that no
record is skipped. An end record cannot be taken for an entry, whose key differs, and the
block cannot end before it has been read, because every record but that one
ends before the bytes do (`NextPageStep`).

**`OnDiskFormats_proofs`, of `HuffmanCodec`.** `CodecDecodesText` holds for every finite
set of two or more characters, whatever their weights and the order they are listed in. Each
turn of `build`'s loop is a step, so that no induction over a tree is needed: the subtrees
left share no character, have all of them together, and in none is a code the head of
another (`Grove`). Taking two away (`GroveLess`) and adding their parent (`GroveMore`)
keeps that, since a 0 and a 1 now come before the codes of the two (`JoinedIs`). So the
codes that are read off the last tree are prefix-free (`Coding`), and none is empty,
because a code of no bits would be the head of any other. Encoding keeps that the
bytes and the bits behind them cut one sequence of bits (`Cuts`, as for pages) in which
the codes of the text lie one behind the other (`CodedAs`). While decoding, the
bits not matched yet are a proper head of the next character's code, or the whole
text is decoded and they are zeros (`Decoding`). A match of the bits with any
code is one with that of the next character, as it would otherwise be its head
(`DecodeKeeps`). How heavy the subtrees are that `find_min` takes does not matter for
this, only that there are two (`LeastFirst`): a bad choice makes longer codes, not
wrong ones.

**`SimilarityGraph_proofs`.** The three parts of `GraphConsistent` hold each other
up: the neighbours of a deleted node are found by their ids through places that
have just shifted, so that its edges can only go if the map is right, and the map
stays right only if no id is given twice, that is if the number that `build` decodes
is the one that was last encoded. The inductive invariant has, besides types and
`Consistent`,

* `CloseJoined`: nodes whose hashes differ in at most two bits are joined by an edge.
  `insert_node` joins a new node to all within distance 2 if one is at distance 1,
  and otherwise to the nearest only; when these are farther than 2 there is nothing
  to join, and when they are at 2 they are all (`CloseAreNeighbours`);
* `Saved`: the store has each node with its hash and at least one inode, although an
  inode that is added to a node is not stored;
* `IdsCounted`: the stored number decodes to `curr_max_node_id`, and no node has a
  larger id.

Each operation is a function on the graph, and one lemma says what it leaves:
`InoAddedGood` and `AppendedGood` for an insertion, `DeletedGood` for a deletion,
with the shift of places (`OldAndNew`), `BuiltIs` for `build`, which is a fold over
ids of folds over inodes, taken as walks as in `KVManager_proofs`. That build meets
every node again follows since it inserts each id's hash unless an earlier one has
it. Encoding and querying are recursive functions whose argument gets smaller, and
`RecursionExists` shows once that such a function exists: by induction on the
size it is defined on more and more arguments. So `DecodesEncoded` follows for every
base, and the query's answer is one that satisfies its own equation. Its size is the
number of pairs of a node and a distance that may still be popped (`Pending`), and each
pop leaves less (`LessPending`), because no node has an edge to itself. What is
found lies within the radius since the distance with which a node is pushed is never
less than its own (`PoppedFine`, by `WeightTriangle`); up to radius 2 the first
round has pushed every node there is to find, by `CloseJoined`. Beyond 2 that would
be false, as edges join only some.

Only model-checked: two properties of `KVManager` and the liveness properties.
`AbortsExplained` says that the process aborts in the collector and for no reason
but the three it names; that a search for room ends in one of them or finds room
within `GCRounds` rounds depends on the sizes given to the constants, so it is a
fact about an instance and not about every one.
`CutKeepsPrefix` holds of every instance checked and no proof of it has been
written; `CollectionKeepsContent`, the same question for the collector, is proved.
`Drains`, `Answered` and `ParseEnds` are liveness under fairness, which with
ENABLED and recursive operators is out of the prover's reach.

## 6. Assumptions between modules

* `FlashStack.Write` takes a page that is erased. The allocator is to see to
  that; section 3 names a way in which it does not.
* `KVManager` reads back what it wrote (`Flash`).
* `Namespace` takes a kernel that calls handlers only for inodes it has been
  told of, releases each handle once and holds no inode across an unlink.
* `RemoteDisk` takes well-formed requests, addresses in range, and pages that
  are valid UTF-8: the code aborts on any other.
* `LRUCache` takes a capacity of at least 1; with 0 the code never evicts.
* `MetadataRegions` takes a super block that has the right number of pages, and
  owned pages that have a bit: a write sets the bit of a page before its owner
  (`update_bit`, `update_pit`), and `BIT` never takes a bit back.
  `PagesDistinct` names what it takes of the encoding: an image begins with a magic
  number, so that its first page is not blank; a page that holds a pair is not all
  zeros, since no inode has number 0; and a page is not the absence of one.

## 7. Hazards

`PROJECT.json` lists what is hard to test in this code, each at its line with
the properties that cover it. Five have none: the type of a symlink, which is lost
when its inode is loaded again (`inode_manager.rs:102`); the inode that outlives its
node in the graph (`graph.rs:53`); the copy of a data object that is stored back after
a collection in mid-call (`kv_manager.rs:138`); a fragment of several extents, of which
one is re-pointed (`kv_helper.rs:120`); and a link on a name that exists
(`directory.rs:24`). In each the model does what the code does, and no text of the
repository promises otherwise. The note of a hazard says what of it lies outside the
properties that are listed.

## 8. Not modelled

The journal (every call to it is commented out; at a mount the tree is empty, and
`do_journal` panics at an entry whose inode the tree does not have), `common/path.rs` (no
caller), the check center (not called), the image-file driver (pure I/O, never
selected), the super block's bytes, arrays (bounds-checked vectors), snappy (the
`snap` crate), and the choice between the two encoders, as
`CompressManager::encode` returns its input. Within modelled parts: block
remapping and the sign region of `tl.rs`, erase counts and ages, inode times and
permissions, the statistics of the Huffman codec.

## 9. Plan

Done: the tree and its rebuilding, the page format, the allocator, data objects
with the collector, the flash stack, the namespace, the LRU cache, the remote
disk, the metadata regions and mounting, the Huffman codec, the similarity graph;
the proofs of section 5.

Left, in this order:

1. Proofs: what a cut keeps (`CutKeepsPrefix`) and why a round has room
   (`AbortsExplained`), which needs the free pages counted over all blocks.
2. The journal's page layout and commit protocol, once something calls it: its
   block is also the first of the LSM region.
3. A module that composes `LSMTree` and `KVManager`, so that the finding on
   tombstones is seen from the file system.
