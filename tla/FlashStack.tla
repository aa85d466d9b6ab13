----------------------------- MODULE FlashStack -----------------------------
(* The layers between the key-value store and the flash: BufCache (buf.rs),  *)
(* which never evicts; the write cache (write_buf.rs) that TranslationLayer  *)
(* (tl/tl.rs) puts pages in; the thread that runs write_loop and moves them  *)
(* to the disk (driver); and the disk itself.                                *)
(*                                                                           *)
(* The caller holds KVManager's lock, so there is one caller; but each lock  *)
(* below is taken and released call by call, so the thread runs between the  *)
(* steps of a read or an erase.                                              *)
(*                                                                           *)
(* map_v_table is never filled, so a block maps to itself.                   *)
EXTENDS Integers, FiniteSets

CONSTANTS
  Vals,            \* pages' contents
  Blank,           \* an erased page
  Short,           \* a page of which only the first bytes were read
  None,            \* no copy in a cache
  PagesPerBlock,   \* pages in a block (128)
  BlockCount,      \* blocks
  Batch,           \* pages the thread takes at a time (32)
  Builds           \* how the program may be built and used, see build

Blocks == 0 .. BlockCount - 1
Pages  == 0 .. BlockCount * PagesPerBlock - 1
BlockOf(a) == a \div PagesPerBlock
PagesOf(b) == b * PagesPerBlock .. (b + 1) * PagesPerBlock - 1

ASSUME FlashStackAssumption ==
  /\ PagesPerBlock \in Nat \ {0} /\ BlockCount \in Nat \ {0} /\ Batch \in Nat \ {0}
  /\ Builds \subseteq [checks : BOOLEAN, erasing : BOOLEAN]
  /\ Blank \notin Vals /\ Short \notin Vals /\ None \notin Vals
  /\ Blank # Short /\ Blank # None /\ Short # None

VARIABLES
  table,        \* BufCache.table
  cache,        \* WriteCache.table
  sync,         \* WriteCache.sync
  underflowed,  \* WriteCache.size has wrapped below zero
  disk,         \* the pages of the disk
  loop,         \* where the thread is in write_loop
  batch,        \* the pages it has taken from the cache and not yet written
  call,         \* the call in progress above
  build         \* checks: a dev build, in which WriteCache.size underflows by a
                \* panic; erasing: FALSE bounds a behaviour to before the first
                \* erase.  Chosen once.

callerVars == <<table, call>>
cacheVars == <<cache, sync, underflowed>>
loopVars == <<loop, batch>>
vars == <<table, cache, sync, underflowed, disk, loop, batch, call, build>>

OverflowChecks == build.checks
Erasing == build.erasing

NoCall == [op |-> "none", at |-> 0, whole |-> TRUE]

Init ==
  /\ table = [a \in Pages |-> None]
  /\ cache = [a \in Pages |-> None]
  /\ sync = FALSE
  /\ underflowed = FALSE
  /\ disk = [a \in Pages |-> Blank]
  /\ loop = "check"
  /\ batch = [a \in Pages |-> None]
  /\ call = NoCall
  /\ build \in Builds

Cached == {a \in Pages : cache[a] # None}

-----------------------------------------------------------------------------
(* Calls from above.                                                         *)

(* TL.write.  The allocator programs a page only once it has been erased.    *)
WriteAround(a, v) ==                                  \* mutant of Write
  /\ call = NoCall
  /\ table[a] \in {None, Blank}
  /\ cache' = [cache EXCEPT ![a] = v]
  /\ sync' = (sync \/ Cardinality(Cached \cup {a}) >= Batch)
  /\ UNCHANGED <<table, underflowed, disk, loopVars, call, build>>

Write(a, v) ==
  /\ call = NoCall
  /\ table[a] \in {None, Blank}
  /\ table' = [table EXCEPT ![a] = v]
  /\ cache' = [cache EXCEPT ![a] = v]
  /\ sync' = (sync \/ Cardinality(Cached \cup {a}) >= Batch)
  /\ UNCHANGED <<underflowed, disk, loopVars, call, build>>

(* A read that misses BufCache first asks the write cache whether it has the *)
(* page, then fetches it from there or from the disk.  read_advanced asks    *)
(* for the first bytes of the page only.                                     *)
BeginRead(a, whole) ==
  /\ call = NoCall
  /\ table[a] = None
  /\ call' = [op |-> IF cache[a] # None THEN "read_cache" ELSE "read_disk",
              at |-> a, whole |-> whole]
  /\ UNCHANGED <<table, cacheVars, disk, loopVars, build>>

(* A page read short is kept with zeros behind what was read.                *)
Fetched(v) == IF call.whole \/ v = Blank THEN v ELSE Short

EndRead ==
  /\ call.op \in {"read_cache", "read_disk"}
  /\ IF call.op = "read_cache" /\ cache[call.at] = None
     THEN call' = [call EXCEPT !.op = "panicked"] /\ UNCHANGED table
     ELSE /\ call' = NoCall
          /\ table' = [table EXCEPT ![call.at] =
                         Fetched(IF call.op = "read_cache" THEN cache[call.at] ELSE disk[call.at])]
  /\ UNCHANGED <<cacheVars, disk, loopVars, build>>

(* An erase drops BufCache's copies, recalls the pages from the write cache  *)
(* one by one, and erases the block of the disk.                             *)
BeginErase(b) ==
  /\ Erasing
  /\ call = NoCall
  /\ table' = [a \in Pages |-> IF a \in PagesOf(b) THEN None ELSE table[a]]
  /\ call' = [op |-> "erase", at |-> b * PagesPerBlock, whole |-> TRUE]
  /\ UNCHANGED <<cacheVars, disk, loopVars, build>>

(* Mutant of RecallPage: nothing is recalled.                                *)
SkipPage ==
  /\ call.op = "erase"
  /\ call' = IF BlockOf(call.at + 1) = BlockOf(call.at)
             THEN [call EXCEPT !.at = @ + 1] ELSE [call EXCEPT !.op = "erase_disk"]
  /\ UNCHANGED <<table, cacheVars, disk, loopVars, build>>

RecallPage ==
  /\ call.op = "erase"
  /\ cache' = [cache EXCEPT ![call.at] = None]
  /\ call' = IF BlockOf(call.at + 1) = BlockOf(call.at)
             THEN [call EXCEPT !.at = @ + 1] ELSE [call EXCEPT !.op = "erase_disk"]
  /\ UNCHANGED <<table, sync, underflowed, disk, loopVars, build>>

EraseDisk ==
  /\ call.op = "erase_disk"
  /\ disk' = [a \in Pages |-> IF BlockOf(a) = BlockOf(call.at) THEN Blank ELSE disk[a]]
  /\ call' = NoCall
  /\ UNCHANGED <<table, cacheVars, loopVars, build>>

-----------------------------------------------------------------------------
(* The thread.                                                               *)

(* write_loop returns for good the first time nothing is to be written.      *)
LoopCheck ==
  /\ loop = "check"
  /\ loop' = IF sync THEN "take" ELSE "returned"
  /\ UNCHANGED <<callerVars, cacheVars, disk, batch, build>>

Lowest(S) == CHOOSE a \in S : \A b \in S : a <= b

(* The first pages of the cache, in address order.                           *)
Taken == {a \in Cached : Cardinality({b \in Cached : b < a}) < Batch}

(* get_all takes a page off size for each one, but write never added any: a  *)
(* dev build panics with the first page in hand, a release build wraps.      *)
TakeNothing ==
  /\ loop = "take" /\ Cached = {}
  /\ loop' = "empty"
  /\ UNCHANGED <<callerVars, cacheVars, disk, batch, build>>

TakeFirstAndPanic ==
  /\ loop = "take" /\ Cached # {} /\ OverflowChecks
  /\ cache' = [cache EXCEPT ![Lowest(Cached)] = None]
  /\ loop' = "panicked"
  /\ UNCHANGED <<callerVars, sync, underflowed, disk, batch, build>>

TakeBatch ==
  /\ loop = "take" /\ Cached # {} /\ ~OverflowChecks
  /\ batch' = [a \in Pages |-> IF a \in Taken THEN cache[a] ELSE None]
  /\ cache' = [a \in Pages |-> IF a \in Taken THEN None ELSE cache[a]]
  /\ underflowed' = TRUE
  /\ loop' = "write"
  /\ UNCHANGED <<callerVars, sync, disk, build>>

InHand == {a \in Pages : batch[a] # None}

LoopWriteAgain ==                                     \* mutant of LoopWrite
  LET a == Lowest(InHand) IN
  /\ loop = "write" /\ InHand # {}
  /\ IF disk[a] # Blank
     THEN loop' = "panicked" /\ UNCHANGED <<disk, batch>>
     ELSE /\ disk' = [disk EXCEPT ![a] = batch[a]]
          /\ UNCHANGED <<loop, batch>>
  /\ UNCHANGED <<callerVars, cacheVars, build>>

(* The disk aborts on a write to a page that is not clean.                   *)
LoopWrite ==
  LET a == Lowest(InHand) IN
  /\ loop = "write" /\ InHand # {}
  /\ IF disk[a] # Blank
     THEN loop' = "panicked" /\ UNCHANGED <<disk, batch>>
     ELSE /\ disk' = [disk EXCEPT ![a] = batch[a]]
          /\ batch' = [batch EXCEPT ![a] = None]
          /\ UNCHANGED loop
  /\ UNCHANGED <<callerVars, cacheVars, build>>

LoopSyncAlways ==                                     \* mutant of LoopSync
  /\ loop \in {"write", "empty"} /\ InHand = {}
  /\ sync' = FALSE
  /\ loop' = "check"
  /\ UNCHANGED <<callerVars, cache, underflowed, disk, batch, build>>

(* WriteCache.sync: nothing more to do while size is below a batch.  Wrapped *)
(* below zero it stays far above it.                                         *)
LoopSync ==
  /\ loop \in {"write", "empty"} /\ InHand = {}
  /\ sync' = (sync /\ underflowed)
  /\ loop' = "check"
  /\ UNCHANGED <<callerVars, cache, underflowed, disk, batch, build>>

(* update_write_speed divides by the microseconds the batch took: a write of *)
(* the FakeDisk sleeps for fifty, but a batch of none may take less than one *)
(* and end the thread.                                                       *)
UpdateWriteSpeedPanics ==
  /\ loop = "empty"
  /\ loop' = "panicked"
  /\ UNCHANGED <<callerVars, cacheVars, disk, batch, build>>

Loop ==
  \/ LoopCheck
  \/ TakeNothing \/ TakeFirstAndPanic \/ TakeBatch
  \/ LoopWrite
  \/ LoopSync \/ UpdateWriteSpeedPanics

Next ==
  \/ \E a \in Pages, v \in Vals : Write(a, v)
  \/ \E a \in Pages, whole \in BOOLEAN : BeginRead(a, whole)
  \/ EndRead
  \/ \E b \in Blocks : BeginErase(b)
  \/ RecallPage
  \/ EraseDisk
  \/ Loop

Spec == Init /\ [][Next]_vars

(* The operating system runs the thread.                                     *)
FairSpec == Spec /\ WF_vars(Loop)

-----------------------------------------------------------------------------
(* Properties.                                                               *)

Copy == Vals \cup {Blank, Short}

(* The types of the layers' fields.                                          *)
TypeOK ==
  /\ table \in [Pages -> Copy \cup {None}]
  /\ cache \in [Pages -> Vals \cup {None}]
  /\ sync \in BOOLEAN
  /\ underflowed \in BOOLEAN
  /\ disk \in [Pages -> Vals \cup {Blank}]
  /\ loop \in {"check", "take", "write", "empty", "returned", "panicked"}
  /\ batch \in [Pages -> Vals \cup {None}]
  /\ call \in [op : {"none", "read_cache", "read_disk", "erase", "erase_disk", "panicked"},
               at : Pages, whole : BOOLEAN]
  /\ build \in Builds

(* The pages of an erase in progress: those yet to be recalled, and all.     *)
InErase(a) == call.op \in {"erase", "erase_disk"} /\ BlockOf(a) = BlockOf(call.at)
ToRecall(a) == call.op = "erase" /\ BlockOf(a) = BlockOf(call.at) /\ call.at <= a

(* Every page waiting in the write cache is also in BufCache, with the same  *)
(* contents: a read never has to look for it below, whatever the thread is   *)
(* doing with it.  (An erase drops BufCache's copy first.)                   *)
CacheCovered ==
  \A a \in Pages : cache[a] # None => table[a] = cache[a] \/ ToRecall(a)

(* TranslationLayer.read asks whether the write cache has a page and then    *)
(* unwraps it under a second lock; the thread may take the page in between.  *)
ReadNeverTorn == call.op # "panicked"

(* A page that BufCache has no copy of reads blank: the write cache and the  *)
(* thread do not hold it, and the disk is erased.  The test of buf.rs says   *)
(* so of a page whose block has been erased.                                 *)
MissesAreBlank ==
  \A a \in Pages :
    table[a] = None /\ ~InErase(a) =>
      cache[a] = None /\ batch[a] = None /\ disk[a] = Blank

(* The pages the thread is about to program are erased.                      *)
DestinationClean ==
  \A a \in InHand : disk[a] = Blank

(* A page waiting in the cache once the thread has begun to work is on the   *)
(* disk in the end: no batch is lost or written twice, none is left behind.  *)
(* Only a page that comes while the thread is busy with a batch of none, or  *)
(* after such a batch has ended the thread, may wait for ever.               *)
Drains ==
  \A a \in Pages :
    (underflowed /\ cache[a] # None /\ loop \in {"check", "take", "write"})
      ~> (disk[a] # Blank /\ disk[a] = table[a])

(* What a caller sees of a page.                                             *)
Visible(a) ==
  IF table[a] # None THEN table[a]
  ELSE IF InErase(a) THEN Blank
  ELSE IF cache[a] # None THEN cache[a]
  ELSE disk[a]

(* The stack is one page store: a write is seen at once and an erase blanks  *)
(* the block, wherever the thread has taken the pages.                       *)
FL == INSTANCE Flash WITH pages <- [a \in Pages |-> Visible(a)]
ImplementsFlash == FL!Spec
=============================================================================
