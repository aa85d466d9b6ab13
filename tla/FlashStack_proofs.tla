-------------------------- MODULE FlashStack_proofs --------------------------
(* Proofs about the flash stack for every number and size of blocks, every   *)
(* batch size, and both builds.                                              *)
EXTENDS FlashStack, TLAPS, WellFoundedInduction

-----------------------------------------------------------------------------
(* Addresses.                                                                *)

LEMMA PagesAreNat ==
  /\ BlockCount * PagesPerBlock \in Nat
  /\ \A a : a \in Pages <=> a \in Nat /\ a < BlockCount * PagesPerBlock
BY FlashStackAssumption DEF Pages

LEMMA BlockMonotone ==
  ASSUME NEW x \in Nat, NEW y \in Nat, x <= y
  PROVE  BlockOf(x) \in Nat /\ BlockOf(x) <= BlockOf(y)
<1>. DEFINE P == PagesPerBlock
<1>1. P \in Nat /\ P > 0
  BY FlashStackAssumption
<1>2. /\ x \div P \in Nat /\ y \div P \in Nat
      /\ P * (x \div P) <= x /\ y < P * ((y \div P) + 1)
  BY <1>1
<1>. HIDE DEF P
<1>3. ASSUME (y \div P) + 1 <= x \div P PROVE FALSE
  <2>1. P * ((y \div P) + 1) <= P * (x \div P)
    BY <1>1, <1>2, <1>3
  <2>. QED
    BY <1>1, <1>2, <2>1
<1>4. x \div P <= y \div P
  BY <1>2, <1>3
<1>. QED
  BY <1>2, <1>4 DEF BlockOf, P

LEMMA BlockStart ==
  ASSUME NEW b \in Blocks
  PROVE  /\ b * PagesPerBlock \in Pages
         /\ BlockOf(b * PagesPerBlock) = b
<1>. USE FlashStackAssumption
<1>1. b \in Nat /\ b + 1 <= BlockCount
  BY DEF Blocks
<1>2. b * PagesPerBlock \in Nat /\ (b + 1) * PagesPerBlock <= BlockCount * PagesPerBlock
  BY <1>1
<1>3. b * PagesPerBlock < (b + 1) * PagesPerBlock
  BY <1>1
<1>4. (b + 1) * PagesPerBlock \in Nat
  BY <1>1
<1>5. b * PagesPerBlock \in Pages
  BY <1>2, <1>3, <1>4, PagesAreNat
<1>. QED
  BY <1>1, <1>5 DEF BlockOf

LEMMA PageBlock ==
  ASSUME NEW a \in Pages
  PROVE  BlockOf(a) \in Blocks
<1>. USE FlashStackAssumption
<1>1. a \in Nat /\ a < BlockCount * PagesPerBlock
  BY PagesAreNat
<1>2. BlockOf(a) \in Nat /\ BlockOf(a) < BlockCount
  BY <1>1 DEF BlockOf
<1>. QED
  BY <1>2 DEF Blocks

(* The pages of a block are those between its first and its last.            *)
LEMMA BlockPages ==
  ASSUME NEW a \in Pages, NEW b \in Blocks
  PROVE  a \in PagesOf(b) <=> BlockOf(a) = b
<1>. USE FlashStackAssumption
<1>1. a \in Nat /\ b \in Nat
  BY PagesAreNat DEF Blocks
<1>2. a \in PagesOf(b) <=> b * PagesPerBlock <= a /\ a < (b + 1) * PagesPerBlock
  BY <1>1 DEF PagesOf
<1>3. b * PagesPerBlock <= a /\ a < (b + 1) * PagesPerBlock <=> a \div PagesPerBlock = b
  BY <1>1
<1>. QED
  BY <1>2, <1>3 DEF BlockOf

(* The page after a in a's block, if there is one.                           *)
LEMMA NextInBlock ==
  ASSUME NEW a \in Pages, BlockOf(a + 1) = BlockOf(a)
  PROVE  a + 1 \in Pages
<1>. USE FlashStackAssumption
<1>1. a \in Nat /\ a + 1 \in Nat
  BY PagesAreNat
<1>2. BlockOf(a + 1) + 1 <= BlockCount /\ BlockOf(a + 1) \in Nat
  BY PageBlock DEF Blocks
<1>3. a + 1 < (BlockOf(a + 1) + 1) * PagesPerBlock
  BY <1>1 DEF BlockOf
<1>4. (BlockOf(a + 1) + 1) * PagesPerBlock <= BlockCount * PagesPerBlock
  BY <1>2
<1>5. (BlockOf(a + 1) + 1) * PagesPerBlock \in Nat
  BY <1>2
<1>. QED
  BY <1>1, <1>3, <1>4, <1>5, PagesAreNat

LEMMA LastInBlock ==
  ASSUME NEW a \in Pages, BlockOf(a + 1) # BlockOf(a),
         NEW c \in Pages, BlockOf(c) = BlockOf(a), a <= c
  PROVE  c = a
<1>1. a \in Nat /\ c \in Nat /\ a + 1 \in Nat
  BY PagesAreNat
<1>2. ASSUME c # a PROVE FALSE
  <2>1. a + 1 <= c
    BY <1>1, <1>2
  <2>2. BlockOf(a + 1) \in Nat /\ BlockOf(c) \in Nat /\ BlockOf(a) \in Nat
    BY <1>1, BlockMonotone
  <2>3. BlockOf(a) <= BlockOf(a + 1) /\ BlockOf(a + 1) <= BlockOf(c)
    BY <1>1, <2>1, BlockMonotone
  <2>. QED
    BY <2>2, <2>3
<1>. QED
  BY <1>2

LEMMA LowestExists ==
  ASSUME NEW S \in SUBSET Nat, S # {}
  PROVE  Lowest(S) \in S /\ \A y \in S : Lowest(S) <= y
<1>1. PICK x \in S : \A y \in S : ~(<<y, x>> \in OpToRel(<, Nat))
  BY NatLessThanWellFounded, WFMin
<1>2. \A y \in S : ~(y < x)
  BY <1>1, Zenon DEF OpToRel
<1>3. \A y \in S : x <= y
  BY <1>2
<1>. QED
  BY <1>3 DEF Lowest

-----------------------------------------------------------------------------
(* The invariant that holds in every build, erases included.                 *)

(* A read in progress found the page in no cache.                            *)
ReadMissed ==
  /\ call.op \notin {"read_cache", "panicked"}
  /\ call.op = "read_disk" => table[call.at] = None

IInv == TypeOK /\ CacheCovered /\ ReadMissed

LEMMA PageZero == 0 \in Pages
<1>1. 0 \in Blocks
  BY FlashStackAssumption DEF Blocks
<1>. QED
  BY <1>1, BlockStart, FlashStackAssumption

LEMMA InitIInv == Init => IInv
<1>. SUFFICES ASSUME Init PROVE IInv
  OBVIOUS
<1>1. TypeOK
  BY PageZero DEF Init, TypeOK, NoCall, Copy
<1>2. CacheCovered /\ ReadMissed
  BY DEF Init, CacheCovered, ReadMissed, NoCall
<1>. QED
  BY <1>1, <1>2 DEF IInv

LEMMA WriteIInv ==
  ASSUME IInv, NEW a \in Pages, NEW v \in Vals, Write(a, v)
  PROVE  IInv'
<1>1. TypeOK'
  BY DEF IInv, TypeOK, Write, Copy, loopVars
<1>2. CacheCovered'
  BY DEF IInv, TypeOK, CacheCovered, ToRecall, Write, NoCall
<1>3. ReadMissed'
  BY DEF Write, NoCall, ReadMissed
<1>. QED
  BY <1>1, <1>2, <1>3 DEF IInv

LEMMA BeginReadIInv ==
  ASSUME IInv, NEW a \in Pages, NEW whole \in BOOLEAN, BeginRead(a, whole)
  PROVE  IInv'
<1>1. cache[a] = None
  BY FlashStackAssumption DEF IInv, CacheCovered, ToRecall, BeginRead, NoCall
<1>2. call' = [op |-> "read_disk", at |-> a, whole |-> whole]
  BY <1>1 DEF BeginRead
<1>3. TypeOK'
  BY <1>2 DEF IInv, TypeOK, BeginRead, cacheVars, loopVars
<1>4. CacheCovered'
  BY <1>2 DEF IInv, CacheCovered, ToRecall, BeginRead, cacheVars, NoCall
<1>5. ReadMissed'
  BY <1>2 DEF BeginRead, ReadMissed
<1>. QED
  BY <1>3, <1>4, <1>5 DEF IInv

LEMMA EndReadIInv ==
  ASSUME IInv, EndRead
  PROVE  IInv'
<1>1. /\ call.op = "read_disk" /\ call.at \in Pages /\ table[call.at] = None
      /\ call' = NoCall
      /\ table' = [table EXCEPT ![call.at] = Fetched(disk[call.at])]
  BY DEF IInv, TypeOK, ReadMissed, EndRead
<1>2. cache[call.at] = None
  BY <1>1, FlashStackAssumption DEF IInv, TypeOK, CacheCovered, ToRecall
<1>3. Fetched(disk[call.at]) \in Copy
  BY <1>1 DEF IInv, TypeOK, Fetched, Copy
<1>4. NoCall.at \in Pages
  BY PageZero DEF NoCall
<1>5. TypeOK'
  BY <1>1, <1>3, <1>4 DEF IInv, TypeOK, EndRead, cacheVars, loopVars, NoCall
<1>6. CacheCovered'
  BY <1>1, <1>2 DEF IInv, TypeOK, CacheCovered, ToRecall, EndRead, cacheVars, NoCall
<1>7. ReadMissed'
  BY <1>1 DEF ReadMissed, NoCall
<1>. QED
  BY <1>5, <1>6, <1>7 DEF IInv

LEMMA BeginEraseIInv ==
  ASSUME IInv, NEW b \in Blocks, BeginErase(b)
  PROVE  IInv'
<1>. DEFINE first == b * PagesPerBlock
<1>1. first \in Pages /\ BlockOf(first) = b
  BY BlockStart
<1>2. /\ call' = [op |-> "erase", at |-> first, whole |-> TRUE]
      /\ table' = [a \in Pages |-> IF a \in PagesOf(b) THEN None ELSE table[a]]
      /\ cache' = cache
  BY DEF BeginErase, cacheVars
<1>3. TypeOK'
  BY <1>1, <1>2 DEF IInv, TypeOK, BeginErase, cacheVars, loopVars
<1>4. ASSUME NEW a \in Pages, cache[a] # None
      PROVE  table'[a] = cache[a] \/ ToRecall(a)'
  <2>1. table[a] = cache[a]
    BY <1>4 DEF IInv, CacheCovered, ToRecall, BeginErase, NoCall
  <2>2. CASE a \in PagesOf(b)
    <3>1. BlockOf(a) = b /\ first <= a
      BY <2>2, BlockPages DEF PagesOf
    <3>. QED
      BY <1>1, <1>2, <3>1 DEF ToRecall
  <2>3. CASE a \notin PagesOf(b)
    BY <1>2, <2>1, <2>3
  <2>. QED
    BY <2>2, <2>3
<1>5. CacheCovered'
  BY <1>2, <1>4 DEF CacheCovered
<1>6. ReadMissed'
  BY <1>2 DEF ReadMissed
<1>. QED
  BY <1>3, <1>5, <1>6 DEF IInv

LEMMA RecallPageIInv ==
  ASSUME IInv, RecallPage
  PROVE  IInv'
<1>1. /\ call.op = "erase" /\ call.at \in Pages
      /\ cache' = [cache EXCEPT ![call.at] = None]
      /\ table' = table
  BY DEF IInv, TypeOK, RecallPage
<1>2. CASE BlockOf(call.at + 1) = BlockOf(call.at)
  <2>1. call.at + 1 \in Pages /\ call' = [call EXCEPT !.at = call.at + 1]
    BY <1>1, <1>2, NextInBlock DEF RecallPage
  <2>2. TypeOK'
    BY <1>1, <2>1 DEF IInv, TypeOK, RecallPage, loopVars
  <2>3. CacheCovered'
    BY <1>1, <1>2, <2>1, PagesAreNat DEF IInv, TypeOK, CacheCovered, ToRecall
  <2>4. ReadMissed'
    BY <1>1, <2>1 DEF IInv, TypeOK, ReadMissed
  <2>. QED
    BY <2>2, <2>3, <2>4 DEF IInv
<1>3. CASE BlockOf(call.at + 1) # BlockOf(call.at)
  <2>1. call' = [call EXCEPT !.op = "erase_disk"]
    BY <1>3 DEF RecallPage
  <2>2. TypeOK'
    BY <1>1, <2>1 DEF IInv, TypeOK, RecallPage, loopVars
  <2>3. \A c \in Pages : ToRecall(c) => c = call.at
    BY <1>1, <1>3, LastInBlock DEF ToRecall
  <2>4. CacheCovered'
    BY <1>1, <2>3 DEF IInv, TypeOK, CacheCovered
  <2>5. ReadMissed'
    BY <1>1, <2>1 DEF IInv, TypeOK, ReadMissed
  <2>. QED
    BY <2>2, <2>4, <2>5 DEF IInv
<1>. QED
  BY <1>2, <1>3

LEMMA EraseDiskIInv ==
  ASSUME IInv, EraseDisk
  PROVE  IInv'
<1>1. call.at \in Pages /\ call.op = "erase_disk" /\ call' = NoCall
  BY DEF IInv, TypeOK, EraseDisk
<1>3. TypeOK'
  BY <1>1, PageZero DEF IInv, TypeOK, EraseDisk, cacheVars, loopVars, NoCall
<1>4. CacheCovered'
  BY <1>1 DEF IInv, CacheCovered, ToRecall, EraseDisk, cacheVars, NoCall
<1>5. ReadMissed'
  BY <1>1 DEF ReadMissed, NoCall
<1>. QED
  BY <1>3, <1>4, <1>5 DEF IInv

(* A step of the thread only takes pages out of the write cache.             *)
LEMMA LoopTypes ==
  ASSUME IInv, Loop
  PROVE  /\ TypeOK'
         /\ table' = table /\ call' = call
         /\ \A a \in Pages : cache'[a] # None => cache'[a] = cache[a]
<1>. USE DEF IInv, TypeOK, callerVars, cacheVars
<1>1. CASE LoopCheck
  BY <1>1 DEF LoopCheck
<1>2. CASE TakeNothing
  BY <1>2 DEF TakeNothing
<1>3. CASE TakeFirstAndPanic
  <2>1. Lowest(Cached) \in Pages
    BY <1>3, LowestExists, PagesAreNat DEF TakeFirstAndPanic, Cached
  <2>. QED
    BY <1>3, <2>1 DEF TakeFirstAndPanic
<1>4. CASE TakeBatch
  BY <1>4 DEF TakeBatch
<1>5. CASE LoopWrite
  <2>1. LoopWrite /\ Lowest(InHand) \in InHand
    BY <1>5, LowestExists, PagesAreNat DEF LoopWrite, InHand
  <2>2. Lowest(InHand) \in Pages /\ batch[Lowest(InHand)] \in Vals
    BY <2>1 DEF InHand
  <2>. QED
    BY <2>1, <2>2 DEF LoopWrite
<1>6. CASE LoopSync
  BY <1>6 DEF LoopSync
<1>7. CASE UpdateWriteSpeedPanics
  BY <1>7 DEF UpdateWriteSpeedPanics
<1>. QED
  BY <1>1, <1>2, <1>3, <1>4, <1>5, <1>6, <1>7 DEF Loop

LEMMA LoopIInv ==
  ASSUME IInv, Loop
  PROVE  IInv'
<1>1. CacheCovered'
  BY LoopTypes DEF IInv, CacheCovered, ToRecall
<1>2. ReadMissed'
  BY LoopTypes DEF IInv, ReadMissed
<1>. QED
  BY <1>1, <1>2, LoopTypes DEF IInv

LEMMA NextIInv == IInv /\ [Next]_vars => IInv'
<1>. SUFFICES ASSUME IInv, [Next]_vars PROVE IInv'
  OBVIOUS
<1>1. ASSUME NEW a \in Pages, NEW v \in Vals, Write(a, v) PROVE IInv'
  BY <1>1, WriteIInv
<1>2. ASSUME NEW a \in Pages, NEW whole \in BOOLEAN, BeginRead(a, whole) PROVE IInv'
  BY <1>2, BeginReadIInv
<1>3. CASE EndRead
  BY <1>3, EndReadIInv
<1>4. ASSUME NEW b \in Blocks, BeginErase(b) PROVE IInv'
  BY <1>4, BeginEraseIInv
<1>5. CASE RecallPage
  BY <1>5, RecallPageIInv
<1>6. CASE EraseDisk
  BY <1>6, EraseDiskIInv
<1>7. CASE Loop
  BY <1>7, LoopIInv
<1>8. CASE UNCHANGED vars
  BY <1>8 DEF vars, IInv, TypeOK, CacheCovered, ToRecall, ReadMissed
<1>. QED
  BY <1>1, <1>2, <1>3, <1>4, <1>5, <1>6, <1>7, <1>8 DEF Next

(* In both builds, whatever waits in a cache is covered by the one above it. *)
THEOREM Invariance == Spec => []IInv
BY InitIInv, NextIInv, PTL DEF Spec

(* The fields of the layers keep their types.                                *)
THEOREM TypeCorrect == Spec => []TypeOK
<1>1. IInv => TypeOK
  BY DEF IInv
<1>. QED
  BY <1>1, Invariance, PTL

(* Whatever waits in the write cache is in BufCache too.                     *)
THEOREM CacheIsCovered == Spec => []CacheCovered
<1>1. IInv => CacheCovered
  BY DEF IInv
<1>. QED
  BY <1>1, Invariance, PTL

(* TranslationLayer.read never unwraps a page the thread has just taken: a   *)
(* page of the write cache is never looked for below BufCache.               *)
THEOREM ReadsNeverTorn == Spec => []ReadNeverTorn
<1>1. IInv => ReadNeverTorn
  BY DEF IInv, ReadMissed, ReadNeverTorn
<1>. QED
  BY <1>1, Invariance, PTL

-----------------------------------------------------------------------------
(* What holds in a dev build, and in a release build until the first erase.  *)
(* The thread of a dev build stops at its first page; without that, an erase *)
(* can race the pages it has in hand.                                        *)

SafeBuild == \A b \in Builds : b.checks \/ ~b.erasing

BatchCovered == \A a \in Pages : batch[a] # None => table[a] = batch[a]
DiskCovered  == \A a \in Pages : disk[a] # Blank => table[a] = disk[a]

(* A page is in one place below BufCache.                                    *)
OnePlace ==
  \A a \in Pages :
    /\ batch[a] # None => cache[a] = None /\ disk[a] = Blank
    /\ cache[a] # None => disk[a] = Blank

(* Where erases happen nothing leaves the write cache.                       *)
NothingWritten ==
  /\ OverflowChecks => \A a \in Pages : batch[a] = None /\ disk[a] = Blank
  /\ ~Erasing => call.op \notin {"erase", "erase_disk"}

SInv == BatchCovered /\ DiskCovered /\ OnePlace /\ NothingWritten

USE DEF OverflowChecks, Erasing

(* The build at hand is one in which an erase races no batch.                *)
LEMMA BuildSafe ==
  ASSUME SafeBuild, IInv
  PROVE  OverflowChecks \/ ~Erasing
BY DEF SafeBuild, IInv, TypeOK

LEMMA InitSInv == Init => SInv
BY DEF Init, SInv, BatchCovered, DiskCovered, OnePlace, NothingWritten, NoCall

LEMMA CallSInv ==
  ASSUME SafeBuild, IInv, SInv
  PROVE  /\ \A a \in Pages, v \in Vals : Write(a, v) => SInv'
         /\ \A a \in Pages, whole \in BOOLEAN : BeginRead(a, whole) => SInv'
         /\ EndRead => SInv'
         /\ \A b \in Blocks : BeginErase(b) => SInv'
         /\ RecallPage => SInv'
         /\ EraseDisk => SInv'
<1>. USE DEF cacheVars, loopVars, NoCall
<1>1. ASSUME NEW a \in Pages, NEW v \in Vals, Write(a, v) PROVE SInv'
  <2>1. batch[a] = None /\ disk[a] = Blank
    BY <1>1, FlashStackAssumption
       DEF Write, IInv, TypeOK, SInv, BatchCovered, DiskCovered
  <2>2. BatchCovered' /\ DiskCovered'
    BY <1>1, <2>1 DEF Write, IInv, TypeOK, SInv, BatchCovered, DiskCovered
  <2>3. OnePlace' /\ NothingWritten'
    BY <1>1, <2>1 DEF Write, IInv, TypeOK, SInv, OnePlace, NothingWritten
  <2>. QED
    BY <2>2, <2>3 DEF SInv
<1>2. ASSUME NEW a \in Pages, NEW whole \in BOOLEAN, BeginRead(a, whole) PROVE SInv'
  BY <1>2 DEF BeginRead, SInv, BatchCovered, DiskCovered, OnePlace, NothingWritten
<1>3. ASSUME EndRead PROVE SInv'
  <2>1. /\ call.op = "read_disk" /\ call.at \in Pages /\ table[call.at] = None
        /\ call' = NoCall
        /\ table' = [table EXCEPT ![call.at] = Fetched(disk[call.at])]
    BY <1>3 DEF IInv, TypeOK, ReadMissed, EndRead
  <2>2. batch[call.at] = None /\ disk[call.at] = Blank
    BY <2>1, FlashStackAssumption DEF IInv, TypeOK, SInv, BatchCovered, DiskCovered
  <2>3. BatchCovered' /\ DiskCovered'
    BY <1>3, <2>1, <2>2 DEF EndRead, IInv, TypeOK, SInv, BatchCovered, DiskCovered
  <2>4. OnePlace' /\ NothingWritten'
    BY <1>3, <2>1 DEF EndRead, SInv, OnePlace, NothingWritten
  <2>. QED
    BY <2>3, <2>4 DEF SInv
<1>4. ASSUME NEW b \in Blocks, BeginErase(b) PROVE SInv'
  BY <1>4, BuildSafe DEF BeginErase, SInv, BatchCovered, DiskCovered, OnePlace,
                         NothingWritten
<1>5. ASSUME RecallPage PROVE SInv'
  <2>1. cache' = [cache EXCEPT ![call.at] = None] /\ call.at \in Pages /\ call.op = "erase"
    BY <1>5 DEF RecallPage, IInv, TypeOK
  <2>2. BatchCovered' /\ DiskCovered'
    BY <1>5 DEF RecallPage, SInv, BatchCovered, DiskCovered
  <2>3. OnePlace' /\ NothingWritten'
    BY <1>5, <2>1 DEF RecallPage, IInv, TypeOK, SInv, OnePlace, NothingWritten
  <2>. QED
    BY <2>2, <2>3 DEF SInv
<1>6. ASSUME EraseDisk PROVE SInv'
  <2>1. OverflowChecks
    BY <1>6, BuildSafe DEF EraseDisk, SInv, NothingWritten
  <2>. QED
    BY <1>6, <2>1 DEF EraseDisk, SInv, BatchCovered, DiskCovered, OnePlace, NothingWritten
<1>. QED
  BY <1>1, <1>2, <1>3, <1>4, <1>5, <1>6

LEMMA LoopSInv ==
  ASSUME SafeBuild, IInv, SInv, Loop
  PROVE  SInv'
<1>. USE DEF callerVars, cacheVars
<1>1. CASE LoopCheck
  BY <1>1 DEF LoopCheck, SInv, BatchCovered, DiskCovered, OnePlace, NothingWritten
<1>2. CASE TakeNothing
  BY <1>2 DEF TakeNothing, SInv, BatchCovered, DiskCovered, OnePlace, NothingWritten
<1>3. CASE TakeFirstAndPanic
  <2>1. /\ \A a \in Pages : cache'[a] # None => cache'[a] = cache[a]
        /\ \A a \in Pages : cache[a] = None => cache'[a] = None
    BY <1>3 DEF TakeFirstAndPanic, IInv, TypeOK
  <2>. QED
    BY <1>3, <2>1 DEF TakeFirstAndPanic, SInv, BatchCovered, DiskCovered, OnePlace,
                      NothingWritten
<1>4. CASE TakeBatch
  <2>1. ~OverflowChecks /\ ~Erasing
    BY <1>4, BuildSafe DEF TakeBatch
  <2>2. \A a \in Pages : cache[a] # None => table[a] = cache[a]
    BY <2>1 DEF IInv, CacheCovered, ToRecall, SInv, NothingWritten
  <2>3. BatchCovered' /\ DiskCovered'
    BY <1>4, <2>2 DEF TakeBatch, SInv, BatchCovered, DiskCovered
  <2>4. OnePlace' /\ NothingWritten'
    BY <1>4, <2>1 DEF TakeBatch, SInv, OnePlace, NothingWritten
  <2>. QED
    BY <2>3, <2>4 DEF SInv
<1>5. CASE LoopWrite
  <2>. DEFINE w == Lowest(InHand)
  <2>1. w \in Pages /\ batch[w] # None /\ disk[w] = Blank
    <3>1. InHand # {} /\ InHand \in SUBSET Nat
      BY <1>5, PagesAreNat DEF LoopWrite, InHand
    <3>2. w \in InHand
      BY <3>1, LowestExists
    <3>. QED
      BY <3>2 DEF InHand, SInv, OnePlace
  <2>2. /\ disk' = [disk EXCEPT ![w] = batch[w]]
        /\ batch' = [batch EXCEPT ![w] = None]
        /\ table' = table /\ cache' = cache /\ call' = call /\ build' = build
    BY <1>5, <2>1 DEF LoopWrite
  <2>. HIDE DEF w
  <2>3. BatchCovered' /\ DiskCovered'
    BY <2>1, <2>2 DEF IInv, TypeOK, SInv, BatchCovered, DiskCovered
  <2>4. OnePlace'
    BY <2>1, <2>2 DEF IInv, TypeOK, SInv, OnePlace
  <2>5. NothingWritten'
    BY <2>1, <2>2 DEF SInv, NothingWritten
  <2>. QED
    BY <2>3, <2>4, <2>5 DEF SInv
<1>6. CASE LoopSync
  BY <1>6 DEF LoopSync, SInv, BatchCovered, DiskCovered, OnePlace, NothingWritten
<1>7. CASE UpdateWriteSpeedPanics
  BY <1>7 DEF UpdateWriteSpeedPanics, SInv, BatchCovered, DiskCovered, OnePlace, NothingWritten
<1>. QED
  BY <1>1, <1>2, <1>3, <1>4, <1>5, <1>6, <1>7 DEF Loop

LEMMA NextSInv ==
  ASSUME SafeBuild
  PROVE  IInv /\ SInv /\ [Next]_vars => SInv'
<1>. SUFFICES ASSUME IInv, SInv, [Next]_vars PROVE SInv'
  OBVIOUS
<1>1. CASE UNCHANGED vars
  BY <1>1 DEF vars, SInv, BatchCovered, DiskCovered, OnePlace, NothingWritten
<1>. QED
  BY <1>1, CallSInv, LoopSInv DEF Next

LEMMA MissesBlank == IInv /\ SInv => MissesAreBlank
<1>. SUFFICES ASSUME IInv, SInv, NEW a \in Pages, table[a] = None, ~InErase(a)
              PROVE  cache[a] = None /\ batch[a] = None /\ disk[a] = Blank
  BY DEF MissesAreBlank
<1>1. cache[a] = None
  BY DEF IInv, CacheCovered, ToRecall, InErase
<1>2. batch[a] = None
  BY DEF SInv, BatchCovered
<1>3. disk[a] = Blank
  BY FlashStackAssumption DEF IInv, TypeOK, SInv, DiskCovered
<1>. QED
  BY <1>1, <1>2, <1>3

LEMMA MissesBlankNext == (IInv /\ SInv)' => MissesAreBlank'
BY MissesBlank, PTL

(* A page BufCache does not know is blank below, so BufCache alone says what *)
(* a caller sees.                                                            *)
LEMMA SeenInTable ==
  ASSUME IInv, SInv, NEW a \in Pages
  PROVE  Visible(a) = IF table[a] # None THEN table[a] ELSE Blank
BY MissesBlank DEF MissesAreBlank, Visible

LEMMA StepImplements ==
  ASSUME SafeBuild, IInv, SInv, IInv', SInv', [Next]_vars
  PROVE  [FL!Next]_([a \in Pages |-> Visible(a)])
<1>. DEFINE pages == [a \in Pages |-> Visible(a)]
<1>1. /\ pages = [a \in Pages |-> IF table[a] # None THEN table[a] ELSE Blank]
      /\ pages' = [a \in Pages |-> IF table'[a] # None THEN table'[a] ELSE Blank]
  <2>1. \A a \in Pages : Visible(a) = IF table[a] # None THEN table[a] ELSE Blank
    BY SeenInTable
  <2>2. \A a \in Pages : Visible(a)' = IF table'[a] # None THEN table'[a] ELSE Blank
    BY MissesBlankNext DEF MissesAreBlank, Visible
  <2>. QED
    BY <2>1, <2>2
<1>2. ASSUME table' = table PROVE pages' = pages
  BY <1>1, <1>2
<1>3. ASSUME NEW a \in Pages, NEW v \in Vals, Write(a, v) PROVE FL!Next
  <2>1. table[a] \in {None, Blank} /\ table' = [table EXCEPT ![a] = v]
    BY <1>3 DEF Write
  <2>2. pages[a] = Blank
    BY <1>1, <2>1
  <2>3. pages' = [pages EXCEPT ![a] = v]
    BY <1>1, <2>1, FlashStackAssumption DEF IInv, TypeOK
  <2>4. FL!Write(a, v)
    BY <2>2, <2>3 DEF FL!Write
  <2>. QED
    BY <2>4 DEF FL!Next, FL!Pages, Pages
<1>4. ASSUME EndRead PROVE pages' = pages
  <2>1. /\ call.op = "read_disk" /\ call.at \in Pages /\ table[call.at] = None
        /\ table' = [table EXCEPT ![call.at] = Fetched(disk[call.at])]
    BY <1>4 DEF IInv, TypeOK, ReadMissed, EndRead
  <2>2. disk[call.at] = Blank
    BY <2>1, MissesBlank DEF MissesAreBlank, InErase
  <2>3. Fetched(disk[call.at]) = Blank
    BY <2>2 DEF Fetched
  <2>. QED
    BY <1>1, <2>1, <2>3 DEF IInv, TypeOK
<1>5. ASSUME NEW b \in Blocks, BeginErase(b) PROVE FL!Next
  <2>1. \A a \in Pages : a \in PagesOf(b) <=> a \div PagesPerBlock = b
    BY BlockPages DEF BlockOf
  <2>2. pages' = [a \in Pages |-> IF a \div PagesPerBlock = b THEN Blank ELSE pages[a]]
    BY <1>1, <1>5, <2>1 DEF BeginErase
  <2>3. FL!Erase(b)
    BY <2>2 DEF FL!Erase, FL!Pages, Pages
  <2>. QED
    BY <2>3 DEF FL!Next, FL!Blocks, Blocks
<1>6. CASE Loop
  BY <1>2, <1>6, LoopTypes
<1>7. CASE RecallPage \/ EraseDisk \/ UNCHANGED vars
  BY <1>2, <1>7 DEF RecallPage, EraseDisk, vars
<1>8. ASSUME NEW a \in Pages, NEW whole \in BOOLEAN, BeginRead(a, whole) PROVE pages' = pages
  BY <1>2, <1>8 DEF BeginRead
<1>. QED
  BY <1>3, <1>4, <1>5, <1>6, <1>7, <1>8 DEF Next

LEMMA InitImplements == Init => FL!Init
BY DEF Init, FL!Init, FL!Pages, Pages, Visible, InErase, NoCall

(* A page in no cache reads blank.                                           *)
THEOREM BlankBelow ==
  ASSUME SafeBuild
  PROVE  Spec => []MissesAreBlank
BY InitSInv, NextSInv, Invariance, MissesBlank, PTL DEF Spec

(* The thread never programs a page that is not erased.                      *)
THEOREM ProgramsErased ==
  ASSUME SafeBuild
  PROVE  Spec => []DestinationClean
<1>1. SInv => DestinationClean
  BY DEF SInv, OnePlace, DestinationClean, InHand
<1>. QED
  BY <1>1, InitSInv, NextSInv, Invariance, PTL DEF Spec

(* The stack is a page store, wherever the thread has taken the pages.       *)
THEOREM Refinement ==
  ASSUME SafeBuild
  PROVE  Spec => ImplementsFlash
<1>1. IInv /\ SInv /\ IInv' /\ SInv' /\ [Next]_vars
        => [FL!Next]_([a \in Pages |-> Visible(a)])
  BY StepImplements
<1>. QED
  BY <1>1, InitImplements, InitSInv, NextSInv, Invariance, PTL
     DEF Spec, ImplementsFlash, FL!Spec
=============================================================================
