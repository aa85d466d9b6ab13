--------------------------- MODULE LSMTree_proofs ---------------------------
(* Proofs about the LSM tree for every set of keys and values, every length  *)
(* and every geometry that meets the assumptions of LSMTree.                 *)
EXTENDS LSMTree, TLAPS, FiniteSetTheorems, WellFoundedInduction

(* Blocks are handed out in order and none comes back, so update_cur_block_id*)
(* never skips a block: file number f sits in block FirstBlock + f - 1.      *)
SequentialAllocation ==
  /\ curBlock = FirstBlock + Len(files)
  /\ blockTable = FirstBlock .. curBlock - 1
  /\ \A f \in 1..Len(files) : files[f] = FirstBlock + f - 1
  /\ \A b \in Region : header[b] = IF b < curBlock THEN b - FirstBlock + 1 ELSE 0

(* can_put holds back the slack from every put.                              *)
SizeBounded == size <= Threshold - Slack

IInv == TypeOK /\ SequentialAllocation /\ CacheCoherent /\ SizeBounded

-----------------------------------------------------------------------------
LEMMA ThresholdInt == Threshold \in Nat
BY GeometryAssumption DEF Threshold

LEMMA EntrySizeNat ==
  ASSUME NEW k \in Keys, NEW v \in Stored
  PROVE  EntrySize(k, v) \in Nat
BY LengthsAssumption, GeometryAssumption DEF EntrySize

(* A put into a well-formed table keeps it well formed.                      *)
LEMMA PutSizeInt ==
  ASSUME NEW t \in Table, NEW sz \in Int, NEW k \in Keys, NEW v \in Stored
  PROVE  PutSize(t, sz, k, v) \in Int /\ PutSize(t, sz, k, v) <= sz + EntrySize(k, v)
<1>1. EntrySize(k, v) \in Nat
  BY EntrySizeNat
<1>2. t[k] # NoEntry => t[k] \in Stored
  BY DEF Table
<1>3. t[k] # NoEntry => EntrySize(k, t[k]) \in Nat
  BY <1>2, EntrySizeNat
<1>. QED
  BY <1>1, <1>3 DEF PutSize

(* The block after the current one, when the region is not yet full.         *)
LEMMA NextBlockIsSuccessor ==
  ASSUME TypeOK, SequentialAllocation,
         ~RegionFull(curBlock, blockTable \cup {curBlock})
  PROVE  /\ curBlock + 1 \in Region
         /\ NextBlock(curBlock, blockTable \cup {curBlock}) = curBlock + 1
<1>. DEFINE used == blockTable \cup {curBlock}
<1>. USE GeometryAssumption
<1>1. curBlock \in Int /\ used = FirstBlock .. curBlock
  BY DEF TypeOK, SequentialAllocation, Region
<1>2. curBlock # FirstBlock + BlockNum - 1
  <2>. SUFFICES ASSUME curBlock = FirstBlock + BlockNum - 1 PROVE FALSE
    OBVIOUS
  <2>1. FreeFrom(FirstBlock, used) = {}
    BY <1>1 DEF FreeFrom
  <2>. QED
    BY <2>1 DEF RegionFull, Following
<1>3. curBlock + 1 \in Region /\ Following(curBlock) = curBlock + 1
  BY <1>2, <1>1 DEF TypeOK, Region, Following
<1>4. curBlock + 1 \in FreeFrom(curBlock + 1, used)
  BY <1>1 DEF FreeFrom
<1>5. \A y \in FreeFrom(curBlock + 1, used) : y \in Int /\ curBlock + 1 <= y
  BY <1>1 DEF FreeFrom
<1>6. \A x \in FreeFrom(curBlock + 1, used) :
        (\A y \in FreeFrom(curBlock + 1, used) : x <= y) => x = curBlock + 1
  BY <1>4, <1>5, <1>1
<1>7. NextBlock(curBlock, used) = curBlock + 1
  BY <1>3, <1>4, <1>5, <1>6 DEF NextBlock
<1>. QED
  BY <1>3, <1>7

LEMMA InitIInv == Init => IInv
<1>. SUFFICES ASSUME Init PROVE IInv
  OBVIOUS
<1>. USE GeometryAssumption DEF Init
<1>1. EmptyTable \in Table
  BY DEF EmptyTable, Table
<1>2. TypeOK
  BY <1>1 DEF TypeOK, Region, FileIds
<1>3. SequentialAllocation
  <2>1. Len(files) = 0 /\ curBlock = FirstBlock + 0
    OBVIOUS
  <2>2. FirstBlock .. curBlock - 1 = {}
    OBVIOUS
  <2>3. \A b \in Region : header[b] = 0 /\ ~(b < curBlock)
    BY DEF Region
  <2>. QED
    BY <2>1, <2>2, <2>3 DEF SequentialAllocation
<1>4. CacheCoherent
  BY DEF CacheCoherent
<1>5. SizeBounded
  BY ThresholdInt DEF SizeBounded
<1>. QED
  BY <1>2, <1>3, <1>4, <1>5 DEF IInv

LEMMA StoreIInv ==
  ASSUME IInv, NEW k \in Keys, NEW v \in Stored, Store(k, v)
  PROVE  IInv'
<1>. USE GeometryAssumption DEF IInv
<1>1. CASE StoreInMemtable(k, v)
  <2>. USE <1>1 DEF StoreInMemtable, MemtablePut
  <2>1. entries' \in Table
    BY DEF TypeOK, Table
  <2>2. size' \in Int /\ size' <= size + EntrySize(k, v)
    BY PutSizeInt DEF TypeOK
  <2>3. UNCHANGED <<files, blockTable, curBlock, disk, header, fileIter, status>>
    BY DEF sstVars
  <2>4. TypeOK'
    BY <2>1, <2>2, <2>3 DEF TypeOK
  <2>5. SizeBounded'
    BY <2>2, ThresholdInt, EntrySizeNat DEF SizeBounded, CanPut, TypeOK, Threshold
  <2>. QED
    BY <2>3, <2>4, <2>5 DEF SequentialAllocation, CacheCoherent
<1>2. CASE StoreAfterFlush(k, v)
  <2>. USE <1>2 DEF StoreAfterFlush, MemtablePut, SSTableFlush
  <2>1. curBlock + 1 \in Region /\ curBlock' = curBlock + 1
    BY NextBlockIsSuccessor
  <2>2. EmptyTable \in Table
    BY DEF EmptyTable, Table
  <2>3. size' \in Int /\ size' <= EntrySize(k, v)
    BY <2>2, PutSizeInt, EntrySizeNat
  <2>4. SizeBounded'
    BY <2>3, EntriesFitAssumption, EntrySizeNat, ThresholdInt DEF SizeBounded, Threshold
  <2>5. Len(files') = Len(files) + 1 /\ Len(files) \in Nat
    BY DEF TypeOK
  <2>6. \A f \in 1..Len(files) : files'[f] = files[f]
    BY DEF TypeOK
  <2>7. files'[Len(files) + 1] = curBlock
    BY DEF TypeOK
  <2>8. entries' \in Table
    BY <2>2 DEF Table
  <2>9. TypeOK'
    <3>1. Len(files) + 1 \in FileIds
      BY <2>5 DEF TypeOK, SequentialAllocation, Region, FileIds
    <3>. QED
      BY <2>1, <2>3, <2>8, <3>1 DEF TypeOK
  <2>10. SequentialAllocation'
    <3>1. (curBlock = FirstBlock + Len(files))'
      BY <2>1, <2>5 DEF SequentialAllocation
    <3>2. (blockTable = FirstBlock .. curBlock - 1)'
      BY <2>1, <2>5 DEF SequentialAllocation
    <3>3. ASSUME NEW f \in 1..Len(files') PROVE files'[f] = FirstBlock + f - 1
      <4>. HIDE <1>2
      <4>1. CASE f \in 1..Len(files)
        BY <4>1, <2>6 DEF SequentialAllocation
      <4>2. CASE f = Len(files) + 1
        BY <4>2, <2>5, <2>7 DEF SequentialAllocation
      <4>. QED
        BY <4>1, <4>2, <2>5
    <3>4. ASSUME NEW b \in Region
          PROVE  header'[b] = IF b < curBlock' THEN b - FirstBlock + 1 ELSE 0
      <4>1. CASE b = curBlock
        BY <4>1, <2>1, <2>5 DEF SequentialAllocation, TypeOK, Region
      <4>2. CASE b # curBlock
        BY <4>2, <2>1 DEF SequentialAllocation, TypeOK, Region
      <4>. QED
        BY <4>1, <4>2
    <3>. QED
      BY <3>1, <3>2, <3>3, <3>4 DEF SequentialAllocation
  <2>11. CacheCoherent'
    <3>. SUFFICES ASSUME NEW f \in FileIds, fileIter[f] # NotLoaded
                  PROVE  f <= Len(files') /\ fileIter[f] = disk'[files'[f]]
      BY DEF CacheCoherent
    <3>1. f \in 1..Len(files) /\ fileIter[f] = disk[files[f]]
      BY <2>5 DEF CacheCoherent, FileIds
    <3>2. files[f] # curBlock /\ files[f] \in Region
      BY <3>1, <2>5 DEF SequentialAllocation, TypeOK
    <3>3. disk'[files[f]] = disk[files[f]]
      BY <3>2 DEF TypeOK
    <3>. QED
      BY <3>1, <3>3, <2>5, <2>6
  <2>. QED
    BY <2>4, <2>9, <2>10, <2>11
<1>3. CASE PanicEof(k, v) \/ PanicRegionFull(k, v)
  <2>1. /\ UNCHANGED <<entries, size, files, blockTable, curBlock, disk, header, fileIter>>
        /\ status' \in {"running", "eof_overflow", "region_full"}
    BY <1>3 DEF PanicEof, PanicRegionFull, memVars, sstVars
  <2>. QED
    BY <2>1 DEF TypeOK, SequentialAllocation, CacheCoherent, SizeBounded
<1>. QED
  BY <1>1, <1>2, <1>3 DEF Store

LEMMA GetIInv ==
  ASSUME IInv, NEW k \in Keys, Get(k)
  PROVE  IInv'
<1>. USE GeometryAssumption DEF IInv
<1>1. UNCHANGED <<entries, size, files, blockTable, curBlock, disk, header, status>>
  BY DEF Get, memVars, sstVars
<1>2. Opened(k) \subseteq 1..Len(files)
  BY DEF Opened
<1>3. \A f \in 1..Len(files) : FileTable(f) = disk[files[f]] /\ FileTable(f) \in Table
  <2>. SUFFICES ASSUME NEW f \in 1..Len(files)
                PROVE  FileTable(f) = disk[files[f]] /\ FileTable(f) \in Table
    OBVIOUS
  <2>1. f \in FileIds
    BY DEF FileIds, TypeOK, SequentialAllocation, Region
  <2>. QED
    BY <2>1 DEF FileTable, CacheCoherent, TypeOK
<1>4. fileIter' \in [FileIds -> Table \cup {NotLoaded}]
  BY <1>2, <1>3 DEF Get, TypeOK
<1>5. CacheCoherent'
  BY <1>1, <1>2, <1>3 DEF Get, CacheCoherent, FileIds, TypeOK
<1>. QED
  BY <1>1, <1>4, <1>5 DEF TypeOK, SequentialAllocation, SizeBounded

(* The headers tell build exactly what the manager knows already.            *)
LEMMA BuildFindsAll ==
  ASSUME IInv, Build
  PROVE  UNCHANGED <<files, blockTable, curBlock, disk, header>>
<1>. USE GeometryAssumption DEF IInv
<1>0. PICK n \in Nat : n = Len(files)
  BY DEF TypeOK
<1>1. curBlock = FirstBlock + n /\ curBlock \in Region /\ files \in Seq(Region) /\ Len(files) = n
  BY <1>0 DEF SequentialAllocation, TypeOK
<1>2. \A b \in Region : header[b] = IF b < curBlock THEN b - FirstBlock + 1 ELSE 0
  BY DEF SequentialAllocation
<1>3. Headed = FirstBlock .. curBlock - 1
  BY <1>1, <1>2 DEF Headed, Region
<1>4. {header[b] : b \in Headed} = 1..n
  <2>1. \A b \in Headed : header[b] \in 1..n
    BY <1>1, <1>2, <1>3 DEF Region
  <2>2. \A f \in 1..n : FirstBlock + f - 1 \in Headed /\ header[FirstBlock + f - 1] = f
    BY <1>1, <1>2, <1>3 DEF Region
  <2>. QED
    BY <2>1, <2>2
<1>5. ASSUME NEW f \in 1..n PROVE FileFound(f) = files[f]
  <2>1. FirstBlock + f - 1 \in Headed /\ header[FirstBlock + f - 1] = f
    BY <1>1, <1>2, <1>3 DEF Region
  <2>2. \A b \in Headed : header[b] = f => b = FirstBlock + f - 1
    BY <1>1, <1>2, <1>3 DEF Region
  <2>3. FileFound(f) = FirstBlock + f - 1
    BY <2>1, <2>2, <1>3 DEF FileFound
  <2>. QED
    BY <2>3, <1>0 DEF SequentialAllocation
<1>6. files' = files
  <2>1. files' = [f \in 1..n |-> files[f]]
    BY <1>4, <1>5 DEF Build
  <2>. QED
    BY <2>1, <1>1
<1>7. blockTable' = blockTable
  BY <1>3 DEF Build, SequentialAllocation
<1>8. curBlock' = curBlock
  <2>1. Region \ Headed = curBlock .. FirstBlock + BlockNum - 1
    BY <1>1, <1>3 DEF Region
  <2>2. curBlock \in Region \ Headed /\ \A c \in Region \ Headed : curBlock <= c
    BY <2>1, <1>1 DEF Region
  <2>3. \A b \in Region \ Headed : b <= curBlock => b = curBlock
    BY <2>1, <1>1 DEF Region
  <2>. QED
    BY <2>2, <2>3 DEF Build, FirstFree
<1>. QED
  BY <1>6, <1>7, <1>8 DEF Build

LEMMA RebuildIInv ==
  ASSUME IInv, Rebuild
  PROVE  IInv' /\ UNCHANGED vars
<1>1. UNCHANGED vars
  BY BuildFindsAll DEF Rebuild, memVars, vars
<1>. QED
  BY <1>1 DEF vars, IInv, TypeOK, SequentialAllocation, CacheCoherent, SizeBounded

LEMMA ReopenIInv ==
  ASSUME IInv, Reopen
  PROVE  IInv'
<1>1. UNCHANGED <<files, blockTable, curBlock, disk, header, status>>
  BY BuildFindsAll DEF Reopen
<1>2. EmptyTable \in Table
  BY DEF EmptyTable, Table
<1>3. TypeOK'
  BY <1>1, <1>2 DEF Reopen, IInv, TypeOK
<1>4. CacheCoherent'
  BY DEF Reopen, CacheCoherent
<1>5. SizeBounded'
  BY ThresholdInt, GeometryAssumption DEF Reopen, SizeBounded, Threshold
<1>. QED
  BY <1>1, <1>3, <1>4, <1>5 DEF IInv, SequentialAllocation

(* The inductive invariant holds in every reachable state.                   *)
THEOREM Invariance == Spec => []IInv
<1>1. IInv /\ [Next]_vars => IInv'
  <2>. SUFFICES ASSUME IInv, [Next]_vars PROVE IInv'
    OBVIOUS
  <2>1. CASE Next
    BY <2>1, StoreIInv, GetIInv, RebuildIInv, ReopenIInv DEF Next, Put, Delete, Stored
  <2>2. CASE UNCHANGED vars
    BY <2>2 DEF vars, IInv, TypeOK, SequentialAllocation, CacheCoherent, SizeBounded
  <2>. QED
    BY <2>1, <2>2
<1>. QED
  BY InitIInv, <1>1, PTL DEF Spec

(* The fields keep their types whatever is put, deleted and read.            *)
THEOREM TypeCorrect == Spec => []TypeOK
<1>1. IInv => TypeOK
  BY DEF IInv
<1>. QED
  BY <1>1, Invariance, PTL

(* No two files share a block and the next flush never overwrites one.       *)
THEOREM AllocationSafe == Spec => []BlocksDistinct
<1>1. IInv => BlocksDistinct
  <2>. SUFFICES ASSUME IInv PROVE BlocksDistinct
    OBVIOUS
  <2>. USE GeometryAssumption DEF IInv
  <2>1. curBlock \in Int /\ Len(files) \in Nat
    BY DEF TypeOK, Region
  <2>2. curBlock \notin blockTable
    BY <2>1 DEF SequentialAllocation
  <2>3. \A f, g \in 1..Len(files) : files[f] = files[g] => f = g
    BY <2>1 DEF SequentialAllocation
  <2>4. \A b \in blockTable : b - FirstBlock + 1 \in 1..Len(files) /\ files[b - FirstBlock + 1] = b
    BY <2>1 DEF SequentialAllocation
  <2>5. \A f \in 1..Len(files) : files[f] \in blockTable
    BY <2>1 DEF SequentialAllocation
  <2>6. blockTable = {files[f] : f \in 1..Len(files)}
    BY <2>4, <2>5
  <2>. QED
    BY <2>2, <2>3, <2>6 DEF BlocksDistinct
<1>. QED
  BY <1>1, Invariance, PTL

(* A parsed copy of a file, once made, always equals the block it came from. *)
THEOREM CachesCoherent == Spec => []CacheCoherent
<1>1. IInv => CacheCoherent
  BY DEF IInv
<1>. QED
  BY <1>1, Invariance, PTL

(* The reserve of can_put leaves room for the header and the end record.     *)
THEOREM FlushFits == Spec => []FlushFitsBlock
<1>1. IInv => FlushFitsBlock
  BY ThresholdInt, GeometryAssumption DEF IInv, TypeOK, SizeBounded, FlushFitsBlock, Threshold
<1>. QED
  BY <1>1, Invariance, PTL

-----------------------------------------------------------------------------
(* The size of the memtable.                                                 *)

(* The bytes of one entry are as many as its stored size.                    *)
LEMMA EntryBytesCount ==
  ASSUME NEW k, NEW n \in Nat
  PROVE  /\ IsFiniteSet({k} \X (1 .. n))
         /\ Cardinality({k} \X (1 .. n)) = n
<1>1. IsFiniteSet({k}) /\ Cardinality({k}) = 1
  BY FS_Singleton
<1>2. IsFiniteSet(1 .. n) /\ Cardinality(1 .. n) = n
  BY FS_Interval
<1>. DEFINE one == {k}
            positions == 1 .. n
<1>3. /\ IsFiniteSet(one \X positions)
      /\ Cardinality(one \X positions) = Cardinality(one) * Cardinality(positions)
  <2>. HIDE DEF one, positions
  <2>. QED
    BY <1>1, <1>2, FS_Product DEF one, positions
<1>4. 1 * n = n
  OBVIOUS
<1>. QED
  BY <1>1, <1>2, <1>3, <1>4, Zenon

(* The memtable's bytes are those of one key and those of the others.        *)
Others(k) == UNION {EntryBytes(l) : l \in Keys \ {k}}

LEMMA BytesSplit ==
  ASSUME TypeOK, IsFiniteSet(MemtableBytes), NEW k \in Keys
  PROVE  /\ IsFiniteSet(Others(k))
         /\ StoredSize(k) \in Nat
         /\ Cardinality(MemtableBytes) = Cardinality(Others(k)) + StoredSize(k)
<1>1. StoredSize(k) \in Nat
  BY EntrySizeNat DEF StoredSize, TypeOK, Table
<1>2. IsFiniteSet(EntryBytes(k)) /\ Cardinality(EntryBytes(k)) = StoredSize(k)
  BY <1>1, EntryBytesCount DEF EntryBytes
<1>3. MemtableBytes = Others(k) \cup EntryBytes(k)
  BY DEF MemtableBytes, Others
<1>4. Others(k) \cap EntryBytes(k) = {}
  BY DEF Others, EntryBytes
<1>5. IsFiniteSet(Others(k))
  BY <1>3, FS_Subset
<1>6. Cardinality(Others(k)) \in Nat
  BY <1>5, FS_CardinalityType
<1>7. Cardinality(Others(k) \cup EntryBytes(k))
        = Cardinality(Others(k)) + Cardinality(EntryBytes(k)) - Cardinality({})
  BY <1>2, <1>4, <1>5, FS_Union
<1>. QED
  BY <1>1, <1>2, <1>3, <1>5, <1>6, <1>7, FS_EmptySet

LEMMA EmptyBytes ==
  ASSUME entries = EmptyTable
  PROVE  MemtableBytes = {}
BY DEF EmptyTable, MemtableBytes, EntryBytes, StoredSize

(* A put replaces the bytes of one key.                                      *)
LEMMA PutSizeExact ==
  ASSUME TypeOK, SizeExact, NEW k \in Keys, NEW v \in Stored,
         MemtablePut(entries, size, k, v)
  PROVE  SizeExact'
<1>. DEFINE new == {k} \X (1 .. EntrySize(k, v))
<1>1. entries' \in Table /\ entries'[k] = v /\ \A l \in Keys \ {k} : entries'[l] = entries[l]
  BY DEF MemtablePut, TypeOK, Table
<1>2. v # NoEntry
  BY SentinelsDistinct
<1>3. \A l \in Keys \ {k} : EntryBytes(l)' = EntryBytes(l)
  BY <1>1 DEF EntryBytes, StoredSize
<1>4. EntryBytes(k)' = new
  BY <1>1, <1>2 DEF EntryBytes, StoredSize
<1>5. MemtableBytes' = Others(k) \cup new
  BY <1>3, <1>4 DEF MemtableBytes, Others
<1>6. Others(k) \cap new = {}
  BY DEF Others, EntryBytes
<1>7. IsFiniteSet(new) /\ Cardinality(new) = EntrySize(k, v) /\ EntrySize(k, v) \in Nat
  BY EntrySizeNat, EntryBytesCount
<1>8. /\ IsFiniteSet(Others(k)) /\ StoredSize(k) \in Nat
      /\ size = Cardinality(Others(k)) + StoredSize(k)
  BY BytesSplit DEF SizeExact
<1>9. Cardinality(Others(k)) \in Nat
  BY <1>8, FS_CardinalityType
<1>10. size' = size + EntrySize(k, v) - StoredSize(k)
  <2>1. entries[k] # NoEntry => EntrySize(k, entries[k]) \in Nat
    BY EntrySizeNat DEF TypeOK, Table
  <2>. QED
    BY <2>1 DEF MemtablePut, PutSize, StoredSize
<1>11. /\ IsFiniteSet(Others(k) \cup new)
       /\ Cardinality(Others(k) \cup new) = Cardinality(Others(k)) + EntrySize(k, v)
  <2>. HIDE DEF new
  <2>. QED
    BY <1>6, <1>7, <1>8, <1>9, FS_Union, FS_EmptySet
<1>. QED
  BY <1>5, <1>7, <1>8, <1>9, <1>10, <1>11 DEF SizeExact

(* A put into the memtable that a flush has emptied.                         *)
LEMMA FirstPutSizeExact ==
  ASSUME NEW k \in Keys, NEW v \in Stored, MemtablePut(EmptyTable, 0, k, v)
  PROVE  SizeExact'
<1>. DEFINE new == {k} \X (1 .. EntrySize(k, v))
<1>1. entries'[k] = v /\ \A l \in Keys \ {k} : entries'[l] = NoEntry
  BY DEF MemtablePut, EmptyTable
<1>2. v # NoEntry
  BY SentinelsDistinct
<1>3. \A l \in Keys \ {k} : EntryBytes(l)' = {}
  BY <1>1 DEF EntryBytes, StoredSize
<1>4. EntryBytes(k)' = new
  BY <1>1, <1>2 DEF EntryBytes, StoredSize
<1>5. MemtableBytes' = new
  BY <1>3, <1>4 DEF MemtableBytes
<1>6. IsFiniteSet(new) /\ Cardinality(new) = EntrySize(k, v) /\ EntrySize(k, v) \in Nat
  BY EntrySizeNat, EntryBytesCount
<1>7. size' = EntrySize(k, v)
  BY <1>6 DEF MemtablePut, PutSize, EmptyTable
<1>. QED
  BY <1>5, <1>6, <1>7 DEF SizeExact

(* The size the memtable is flushed by is the size of what it holds, after   *)
(* any sequence of puts, replacements, deletions and flushes.                *)
THEOREM SizeNeverDrifts == Spec => []SizeExact
<1>1. Init => SizeExact
  BY EmptyBytes, FS_EmptySet DEF Init, SizeExact
<1>2. IInv /\ SizeExact /\ [Next]_vars => SizeExact'
  <2>. SUFFICES ASSUME IInv, SizeExact, [Next]_vars
                PROVE  SizeExact'
    OBVIOUS
  <2>1. TypeOK
    BY DEF IInv
  <2>2. entries' = entries /\ size' = size => SizeExact'
    BY DEF SizeExact, MemtableBytes, EntryBytes, StoredSize
  <2>3. ASSUME NEW k \in Keys, NEW v \in Stored, Store(k, v)
        PROVE  SizeExact'
    <3>1. CASE StoreInMemtable(k, v)
      BY <2>1, <3>1, PutSizeExact DEF StoreInMemtable
    <3>2. CASE StoreAfterFlush(k, v)
      BY <3>2, FirstPutSizeExact DEF StoreAfterFlush
    <3>3. CASE PanicEof(k, v) \/ PanicRegionFull(k, v)
      BY <2>2, <3>3 DEF PanicEof, PanicRegionFull, memVars
    <3>. QED
      BY <2>3, <3>1, <3>2, <3>3 DEF Store
  <2>4. CASE (\E k \in Keys : Get(k)) \/ Rebuild \/ UNCHANGED vars
    BY <2>2, <2>4 DEF Get, Rebuild, memVars, vars
  <2>5. CASE Reopen
    <3>1. (entries = EmptyTable => MemtableBytes = {})'
      BY DEF EmptyTable, MemtableBytes, EntryBytes, StoredSize
    <3>. QED
      BY <2>5, <3>1, FS_EmptySet DEF Reopen, SizeExact
  <2>. QED
    BY <2>3, <2>4, <2>5 DEF Next, Put, Delete, Stored
<1>. QED
  BY <1>1, <1>2, Invariance, PTL DEF Spec

-----------------------------------------------------------------------------
(* The end record.                                                           *)

LEMMA ModUnique ==
  ASSUME NEW P \in Nat \ {0}, NEW q \in Nat, NEW r \in 0..P-1
  PROVE  (q * P + r) % P = r
OBVIOUS

(* A memtable that has no room for an entry shorter than a page reaches into *)
(* the last page of its block, and there the slack leaves room.              *)
LEMMA FullMemtableLeavesRoom ==
  ASSUME SmallEntries, IInv, NEW k \in Keys, NEW v \in Stored,
         ~CanPut(EntrySize(k, v))
  PROVE  EofFits
<1>. DEFINE q == PagesPerBlock - 1
            r == FlushedBytes - 1 - q * PageSize
<1>. USE GeometryAssumption
<1>1. size \in Int /\ EntrySize(k, v) \in Nat /\ Threshold \in Nat
  BY EntrySizeNat, ThresholdInt DEF IInv, TypeOK
<1>2. Threshold = q * PageSize + PageSize /\ q \in Nat /\ q * PageSize \in Nat
  BY DEF Threshold
<1>3. r \in 0..PageSize-1 /\ r + 1 <= PageSize - Slack + HeaderLen
  <2>1. size + EntrySize(k, v) > Threshold - Slack
    BY <1>1 DEF CanPut
  <2>2. size <= Threshold - Slack
    BY DEF IInv, SizeBounded
  <2>3. EntrySize(k, v) <= PageSize - Slack + HeaderLen
    BY DEF SmallEntries
  <2>. HIDE DEF q
  <2>. QED
    BY <1>1, <1>2, <2>1, <2>2, <2>3 DEF FlushedBytes
<1>4. FlushedBytes - 1 = q * PageSize + r
  BY <1>1, <1>2 DEF FlushedBytes
<1>5. (FlushedBytes - 1) % PageSize = r
  <2>. HIDE DEF q, r
  <2>. QED
    BY <1>2, <1>3, <1>4, ModUnique
<1>. HIDE DEF q, r
<1>. QED
  BY <1>3, <1>5 DEF EofFits, LastPageFill

(* While every entry is shorter than a page less the slack, no flush runs    *)
(* the end record over the end of its page.                                  *)
THEOREM EofSafe ==
  ASSUME SmallEntries
  PROVE  Spec => []EofNeverOverflows
<1>1. Init => EofNeverOverflows
  BY DEF Init, EofNeverOverflows
<1>2. IInv /\ EofNeverOverflows /\ [Next]_vars => EofNeverOverflows'
  <2>. SUFFICES ASSUME IInv, EofNeverOverflows, [Next]_vars
                PROVE  EofNeverOverflows'
    OBVIOUS
  <2>1. ASSUME NEW k \in Keys, NEW v \in Stored, Store(k, v)
        PROVE  EofNeverOverflows'
    BY <2>1, FullMemtableLeavesRoom
       DEF Store, StoreInMemtable, StoreAfterFlush, PanicEof, PanicRegionFull,
           EofNeverOverflows
  <2>2. ASSUME NEW k \in Keys, Get(k) PROVE EofNeverOverflows'
    BY <2>2 DEF Get, EofNeverOverflows
  <2>3. CASE UNCHANGED vars
    BY <2>3 DEF vars, EofNeverOverflows
  <2>4. CASE Rebuild \/ Reopen
    BY <2>4 DEF Rebuild, Reopen, EofNeverOverflows
  <2>. QED
    BY <2>1, <2>2, <2>3, <2>4 DEF Next, Put, Delete, Stored
<1>. QED
  BY <1>1, <1>2, Invariance, PTL DEF Spec

-----------------------------------------------------------------------------
(* The tree implements KVMap.                                                *)

(* A search through the files ends at a newest hit, if there is a hit.       *)
LEMMA NewestExists ==
  ASSUME NEW n \in Nat, NEW S \in SUBSET (1..n), S # {}
  PROVE  Newest(S) \in S /\ \A g \in S : g <= Newest(S)
<1>. DEFINE T == {m \in 0..n : n - m \in S}
<1>1. T \subseteq Nat /\ T # {}
  <2>1. PICK f \in S : TRUE
    OBVIOUS
  <2>2. n - f \in T
    OBVIOUS
  <2>3. T \subseteq Nat
    OBVIOUS
  <2>. HIDE DEF T
  <2>. QED
    BY <2>2, <2>3
<1>2. PICK x \in T : \A y \in T : ~(<<y, x>> \in OpToRel(<, Nat))
  BY <1>1, NatLessThanWellFounded, WFMin
<1>3. \A y \in T : ~(y < x)
  BY <1>1, <1>2, Zenon DEF OpToRel
<1>4. n - x \in S /\ x \in 0..n
  OBVIOUS
<1>5. ASSUME NEW g \in S PROVE g <= n - x
  <2>1. n - g \in T
    OBVIOUS
  <2>2. n \in Int /\ g \in Int /\ x \in Int
    BY <1>4
  <2>. HIDE DEF T
  <2>. QED
    BY <1>3, <2>1, <2>2
<1>. QED
  BY <1>4, <1>5 DEF Newest

LEMMA NewestUnique ==
  ASSUME NEW S \in SUBSET Nat, NEW f \in S, \A g \in S : g <= f
  PROVE  Newest(S) = f
<1>1. \A h \in S : (\A g \in S : g <= h) => h = f
  OBVIOUS
<1>. QED
  BY <1>1 DEF Newest

(* What a lookup in the files finds depends only on the tables of the files. *)
LEMMA NewestHit ==
  ASSUME IInv, NEW k \in Keys, Hits(k) # {}
  PROVE  Newest(Hits(k)) \in 1..Len(files)
<1>1. Len(files) \in Nat /\ Hits(k) \in SUBSET (1..Len(files))
  BY DEF Hits, IInv, TypeOK
<1>. QED
  BY <1>1, NewestExists

LEMMA FileTableIsBlock ==
  ASSUME IInv, NEW f \in 1..Len(files)
  PROVE  FileTable(f) = disk[files[f]] /\ f \in FileIds
<1>1. f \in FileIds
  BY GeometryAssumption DEF IInv, FileIds, TypeOK, SequentialAllocation, Region
<1>. QED
  BY <1>1 DEF IInv, FileTable, CacheCoherent, TypeOK

(* Opening files does not change what any lookup finds.                      *)
LEMMA GetKeepsRecords ==
  ASSUME IInv, IInv', NEW k \in Keys, Get(k), NEW j \in Keys
  PROVE  Record(j)' = Record(j) /\ SSTableGet(j)' = SSTableGet(j)
<1>1. entries' = entries /\ files' = files /\ disk' = disk
  BY DEF Get, memVars, sstVars
<1>2. \A f \in 1..Len(files) : FileTable(f)' = FileTable(f)
  <2>. SUFFICES ASSUME NEW f \in 1..Len(files) PROVE FileTable(f)' = FileTable(f)
    OBVIOUS
  <2>1. FileTable(f) = disk[files[f]]
    BY FileTableIsBlock
  <2>2. f \in FileIds /\ (fileIter'[f] = fileIter[f] \/ fileIter'[f] = FileTable(f))
    BY FileTableIsBlock DEF Get
  <2>. QED
    BY <1>1, <2>1, <2>2 DEF FileTable
<1>3. Hits(j)' = Hits(j)
  BY <1>1, <1>2 DEF Hits
<1>4. SSTableGet(j)' = SSTableGet(j)
  BY <1>2, <1>3, NewestHit DEF SSTableGet
<1>. QED
  BY <1>1, <1>4 DEF Record

(* A put that fits changes what is found under its own key only.             *)
LEMMA MemtablePutRecords ==
  ASSUME IInv, NEW k \in Keys, NEW v \in Stored, StoreInMemtable(k, v), NEW j \in Keys
  PROVE  /\ Record(j)' = IF j = k THEN v ELSE Record(j)
         /\ SSTableGet(j)' = SSTableGet(j)
<1>1. UNCHANGED <<files, disk, fileIter>> /\ entries' = [entries EXCEPT ![k] = v]
  BY DEF StoreInMemtable, MemtablePut, sstVars
<1>2. SSTableGet(j)' = SSTableGet(j)
  BY <1>1 DEF SSTableGet, Newest, Hits, FileTable
<1>. QED
  BY <1>1, <1>2, SentinelsDistinct DEF Record, IInv, TypeOK, Table

(* The files answer as the memtable and the older files did before a flush.  *)
LEMMA FlushKeepsRecords ==
  ASSUME IInv, IInv', NEW k \in Keys, NEW v \in Stored, StoreAfterFlush(k, v),
         NEW j \in Keys
  PROVE  SSTableGet(j)' = Record(j)
<1>0. PICK n \in Nat : n = Len(files)
  BY DEF IInv, TypeOK
<1>1. /\ files' = Append(files, curBlock)
      /\ disk' = [disk EXCEPT ![curBlock] = entries]
      /\ fileIter' = fileIter
  BY DEF StoreAfterFlush, SSTableFlush
<1>2. Len(files) = n /\ Len(files') = n + 1 /\ files \in Seq(Region)
      /\ files'[n + 1] = curBlock
      /\ \A f \in 1..n : files'[f] = files[f]
  BY <1>0, <1>1 DEF IInv, TypeOK
<1>3. \A f \in 1..n : FileTable(f)' = FileTable(f)
  <2>. SUFFICES ASSUME NEW f \in 1..n PROVE FileTable(f)' = FileTable(f)
    OBVIOUS
  <2>1. files[f] # curBlock /\ files[f] \in Region
    BY <1>2, GeometryAssumption DEF IInv, SequentialAllocation, TypeOK
  <2>2. disk'[files[f]] = disk[files[f]]
    BY <1>1, <2>1 DEF IInv, TypeOK
  <2>. QED
    BY <1>1, <1>2, <2>2 DEF FileTable
<1>4. FileTable(n + 1)' = entries
  <2>1. FileTable(n + 1)' = disk'[files'[n + 1]]
    <3>1. n + 1 \in FileIds
      BY <1>2, GeometryAssumption DEF IInv, TypeOK, SequentialAllocation, Region, FileIds
    <3>2. fileIter[n + 1] = NotLoaded
      BY <1>2, <3>1 DEF IInv, CacheCoherent
    <3>. QED
      BY <1>1, <3>2 DEF FileTable
  <2>. QED
    BY <2>1, <1>1, <1>2 DEF IInv, TypeOK
<1>5. Hits(j)' = IF entries[j] # NoEntry THEN Hits(j) \cup {n + 1} ELSE Hits(j)
  BY <1>2, <1>3, <1>4 DEF Hits
<1>6. Hits(j) \subseteq 1..n
  BY <1>2 DEF Hits
<1>7. CASE entries[j] # NoEntry
  <2>1. /\ Hits(j)' \in SUBSET Nat /\ n + 1 \in Hits(j)'
        /\ \A g \in Hits(j)' : g <= n + 1
    BY <1>5, <1>6, <1>7
  <2>2. Newest(Hits(j)') = n + 1
    BY <2>1, NewestUnique
  <2>. QED
    BY <2>1, <2>2, <1>4, <1>7 DEF SSTableGet, Record, FileTable, Newest
<1>8. CASE entries[j] = NoEntry
  <2>1. Hits(j)' = Hits(j)
    BY <1>5, <1>8
  <2>2. Hits(j) # {} => Newest(Hits(j)) \in 1..n
    BY <1>2, NewestHit
  <2>. QED
    BY <2>1, <2>2, <1>3, <1>8 DEF SSTableGet, Record, FileTable, Newest
<1>. QED
  BY <1>7, <1>8

LEMMA FlushPutRecords ==
  ASSUME IInv, IInv', NEW k \in Keys, NEW v \in Stored, StoreAfterFlush(k, v),
         NEW j \in Keys
  PROVE  Record(j)' = IF j = k THEN v ELSE Record(j)
<1>1. entries' = [EmptyTable EXCEPT ![k] = v]
  BY DEF StoreAfterFlush, MemtablePut
<1>2. SSTableGet(j)' = Record(j)
  BY FlushKeepsRecords
<1>. QED
  BY <1>1, <1>2, SentinelsDistinct DEF Record, EmptyTable

(* What the files answer does not depend on which of them are parsed, and a  *)
(* new tree has nothing else.                                                *)
LEMMA ReopenRecords ==
  ASSUME IInv, IInv', Reopen, NEW j \in Keys
  PROVE  Record(j)' = SSTableGet(j) /\ SSTableGet(j)' = SSTableGet(j)
<1>1. UNCHANGED <<files, disk>> /\ entries' = EmptyTable
  BY BuildFindsAll DEF Reopen
<1>2. \A f \in 1..Len(files) : FileTable(f)' = FileTable(f)
  <2>. SUFFICES ASSUME NEW f \in 1..Len(files) PROVE FileTable(f)' = FileTable(f)
    OBVIOUS
  <2>1. FileTable(f) = disk[files[f]] /\ f \in FileIds
    BY FileTableIsBlock
  <2>2. fileIter'[f] = NotLoaded
    BY <2>1 DEF Reopen
  <2>. QED
    BY <1>1, <2>1, <2>2 DEF FileTable
<1>3. Hits(j)' = Hits(j)
  BY <1>1, <1>2 DEF Hits
<1>4. SSTableGet(j)' = SSTableGet(j)
  BY <1>2, <1>3, NewestHit DEF SSTableGet
<1>. QED
  BY <1>1, <1>4 DEF Record, EmptyTable

(* The map a state of the tree stands for, what a lookup answers, and the    *)
(* map it would stand for if it were opened again.                           *)
MapOf == [k \in Keys |-> Record(k)]
FoundMap == [k \in Keys |-> GetResult(k)]
SavedMap == [k \in Keys |-> SSTableGet(k)]

(* Every lookup is an answer the map allows: the mark of a deletion leaves   *)
(* the tree only from a file.                                                *)
LEMMA LookupAnswers ==
  ASSUME IInv
  PROVE  FoundMap \in KV!Answers(MapOf, SavedMap)
<1>1. ASSUME NEW k \in Keys PROVE SSTableGet(k) \in Stored \cup {NoEntry}
  <2>1. CASE Hits(k) # {}
    <3>1. PICK f \in 1..Len(files) : f = Newest(Hits(k))
      BY <2>1, NewestHit
    <3>2. FileTable(f) = disk[files[f]] /\ files[f] \in Region
      BY FileTableIsBlock DEF IInv, TypeOK
    <3>3. disk[files[f]] \in Table
      BY <3>2 DEF IInv, TypeOK
    <3>. QED
      BY <2>1, <3>1, <3>2, <3>3 DEF SSTableGet, Table
  <2>. QED
    BY <2>1 DEF SSTableGet
<1>2. ASSUME NEW k \in Keys
      PROVE  /\ GetResult(k) \in Vals \cup {NoEntry, TOMBSTONE}
             /\ \/ Record(k) # TOMBSTONE /\ GetResult(k) = Record(k)
                \/ Record(k) = TOMBSTONE /\ GetResult(k) = NoEntry
                \/ Record(k) = TOMBSTONE /\ SSTableGet(k) = TOMBSTONE /\ GetResult(k) = TOMBSTONE
  <2>1. entries[k] \in Stored \cup {NoEntry}
    BY DEF IInv, TypeOK, Table
  <2>. QED
    BY <1>1, <2>1, SentinelsDistinct DEF GetResult, Record, Stored
<1>. QED
  BY <1>2 DEF KV!Answers, FoundMap, MapOf, SavedMap

LEMMA StoreUpdatesMap ==
  ASSUME IInv, IInv', NEW k \in Keys, NEW v \in Stored, Store(k, v)
  PROVE  \/ /\ status = "running" /\ status' = status
            /\ MapOf' = [MapOf EXCEPT ![k] = v]
            /\ SavedMap' \in {SavedMap, MapOf}
            /\ v = TOMBSTONE => FoundMap'[k] = NoEntry
         \/ /\ status = "running" /\ status' # "running"
            /\ MapOf' = MapOf /\ SavedMap' = SavedMap /\ FoundMap' = FoundMap
<1>1. CASE StoreInMemtable(k, v) \/ StoreAfterFlush(k, v)
  <2>1. status = "running" /\ status' = status
    BY <1>1 DEF Store, StoreInMemtable, StoreAfterFlush
  <2>2. \A j \in Keys : Record(j)' = IF j = k THEN v ELSE Record(j)
    BY <1>1, MemtablePutRecords, FlushPutRecords
  <2>3. MapOf' = [MapOf EXCEPT ![k] = v]
    BY <2>2 DEF MapOf
  <2>4. v = TOMBSTONE => FoundMap'[k] = NoEntry
    <3>1. entries' = [entries EXCEPT ![k] = v] \/ entries' = [EmptyTable EXCEPT ![k] = v]
      BY <1>1 DEF StoreInMemtable, StoreAfterFlush, MemtablePut
    <3>2. entries'[k] = v
      BY <3>1 DEF EmptyTable, IInv, TypeOK, Table
    <3>. QED
      BY <3>2, SentinelsDistinct DEF FoundMap, GetResult, Stored
  <2>5. CASE StoreInMemtable(k, v)
    <3>1. SavedMap' = SavedMap
      BY <2>5, MemtablePutRecords DEF SavedMap
    <3>. QED
      BY <2>1, <2>3, <2>4, <3>1
  <2>6. CASE StoreAfterFlush(k, v)
    <3>1. SavedMap' = MapOf
      BY <2>6, FlushKeepsRecords DEF SavedMap, MapOf
    <3>. QED
      BY <2>1, <2>3, <2>4, <3>1
  <2>. QED
    BY <1>1, <2>5, <2>6
<1>2. CASE PanicEof(k, v) \/ PanicRegionFull(k, v)
  <2>1. status = "running" /\ status' # "running"
    BY <1>2 DEF Store, PanicEof, PanicRegionFull
  <2>2. UNCHANGED <<entries, files, disk, fileIter>>
    BY <1>2 DEF PanicEof, PanicRegionFull, memVars, sstVars
  <2>3. MapOf' = MapOf /\ SavedMap' = SavedMap /\ FoundMap' = FoundMap
    BY <2>2 DEF MapOf, SavedMap, FoundMap, GetResult, Record, SSTableGet, Hits, FileTable, Newest
  <2>. QED
    BY <2>1, <2>3
<1>. QED
  BY <1>1, <1>2 DEF Store

(* Block allocation and read caches are invisible: every step of the tree is *)
(* a put or a delete of the map, before which a flush may save it, a return  *)
(* to what was saved, an abort, or leaves the map and what every lookup      *)
(* answers alone.                                                            *)
THEOREM Refinement == Spec => ImplementsMap
<1>1. Init => KV!Init
  <2>. SUFFICES ASSUME Init PROVE KV!Init
    OBVIOUS
  <2>1. \A k \in Keys : Record(k) = NoEntry /\ SSTableGet(k) = NoEntry /\ GetResult(k) = NoEntry
    BY DEF Init, Record, GetResult, SSTableGet, Hits, EmptyTable
  <2>. QED
    BY <2>1 DEF Init, KV!Init
<1>2. IInv => FoundMap \in KV!Answers(MapOf, SavedMap)
  BY LookupAnswers
<1>3. IInv' => (FoundMap \in KV!Answers(MapOf, SavedMap))'
  BY <1>2, PTL
<1>4. IInv /\ IInv' /\ [Next]_vars => [KV!Next]_(KV!vars)
  <2>. SUFFICES ASSUME IInv, IInv', [Next]_vars PROVE [KV!Next]_(KV!vars)
    OBVIOUS
  <2>. DEFINE Answered == FoundMap' \in KV!Answers(MapOf', SavedMap')
  <2>0. Answered
    BY <1>3 DEF KV!Answers
  <2>1. ASSUME NEW k \in Keys, NEW v \in Vals, Put(k, v) PROVE KV!Next
    <3>1. v \in Stored
      BY DEF Stored
    <3>2. KV!Put(k, v) \/ KV!Abort
      <4>. HIDE DEF Answered
      <4>1. Store(k, v)
        BY <2>1 DEF Put
      <4>2. CASE status' = status
        <5>1. /\ status = "running" /\ MapOf' = [MapOf EXCEPT ![k] = v]
              /\ SavedMap' \in {SavedMap, MapOf}
          BY <3>1, <4>1, <4>2, StoreUpdatesMap
        <5>. QED
          BY <2>0, <4>2, <5>1 DEF KV!Put, MapOf, SavedMap, FoundMap, Answered
      <4>3. CASE status' # status
        BY <3>1, <4>1, <4>3, StoreUpdatesMap DEF KV!Abort, MapOf, SavedMap, FoundMap
      <4>. QED
        BY <4>2, <4>3
    <3>. QED
      BY <3>2 DEF KV!Next
  <2>2. ASSUME NEW k \in Keys, Delete(k) PROVE KV!Next
    <3>1. TOMBSTONE \in Stored
      BY DEF Stored
    <3>2. KV!Delete(k) \/ KV!Abort
      <4>. HIDE DEF Answered
      <4>1. Store(k, TOMBSTONE)
        BY <2>2 DEF Delete
      <4>2. CASE status' = status
        <5>1. /\ status = "running" /\ MapOf' = [MapOf EXCEPT ![k] = TOMBSTONE]
              /\ SavedMap' \in {SavedMap, MapOf} /\ FoundMap'[k] = NoEntry
          BY <3>1, <4>1, <4>2, StoreUpdatesMap
        <5>. QED
          BY <2>0, <4>2, <5>1 DEF KV!Delete, MapOf, SavedMap, FoundMap, Answered
      <4>3. CASE status' # status
        BY <3>1, <4>1, <4>3, StoreUpdatesMap DEF KV!Abort, MapOf, SavedMap, FoundMap
      <4>. QED
        BY <4>2, <4>3
    <3>. QED
      BY <3>2 DEF KV!Next
  <2>3. ASSUME NEW k \in Keys, Get(k) PROVE UNCHANGED KV!vars
    <3>1. \A j \in Keys : Record(j)' = Record(j) /\ SSTableGet(j)' = SSTableGet(j)
      BY <2>3, GetKeepsRecords
    <3>2. status' = status /\ entries' = entries
      BY <2>3 DEF Get, memVars
    <3>3. \A j \in Keys : GetResult(j)' = GetResult(j)
      BY <3>1, <3>2 DEF GetResult
    <3>. QED
      BY <3>1, <3>2, <3>3 DEF KV!vars
  <2>4. ASSUME UNCHANGED vars PROVE UNCHANGED KV!vars
    <3>1. UNCHANGED <<entries, files, disk, fileIter, status>>
      BY <2>4 DEF vars
    <3>2. \A j \in Keys : /\ Record(j)' = Record(j) /\ SSTableGet(j)' = SSTableGet(j)
                          /\ GetResult(j)' = GetResult(j)
      BY <3>1 DEF Record, GetResult, SSTableGet, Hits, FileTable, Newest
    <3>. QED
      BY <3>1, <3>2 DEF KV!vars
  <2>5. CASE Rebuild
    BY <2>4, <2>5, RebuildIInv
  <2>6. CASE Reopen
    <3>1. \A j \in Keys : Record(j)' = SSTableGet(j) /\ SSTableGet(j)' = SSTableGet(j)
      BY <2>6, ReopenRecords
    <3>2. /\ status = "running" /\ status' = status
          /\ MapOf' = SavedMap /\ SavedMap' = SavedMap
      BY <2>6, <3>1 DEF Reopen, MapOf, SavedMap
    <3>3. KV!Reopen
      BY <2>0, <3>2 DEF KV!Reopen, MapOf, SavedMap, FoundMap
    <3>. QED
      BY <3>3 DEF KV!Next
  <2>. QED
    BY <2>1, <2>2, <2>3, <2>4, <2>5, <2>6 DEF Next
<1>. QED
  BY <1>1, <1>4, Invariance, PTL DEF Spec, ImplementsMap, KV!Spec

(* No step writes a block that already holds a file.                         *)
THEOREM FilesNeverRewritten == Spec => FilesImmutable
<1>1. IInv /\ [Next]_vars => [\A b \in blockTable : disk'[b] = disk[b]]_vars
  <2>. SUFFICES ASSUME IInv, Next PROVE \A b \in blockTable : disk'[b] = disk[b]
    OBVIOUS
  <2>1. ASSUME NEW k \in Keys, NEW v \in Stored, StoreAfterFlush(k, v)
        PROVE  \A b \in blockTable : disk'[b] = disk[b]
    <3>1. curBlock \notin blockTable
      BY GeometryAssumption DEF IInv, TypeOK, SequentialAllocation, Region
    <3>. QED
      BY <2>1, <3>1 DEF StoreAfterFlush, SSTableFlush, IInv, TypeOK
  <2>2. ASSUME NEW k \in Keys, NEW v \in Stored, Store(k, v)
        PROVE  \A b \in blockTable : disk'[b] = disk[b]
    BY <2>1, <2>2 DEF Store, StoreInMemtable, PanicEof, PanicRegionFull, sstVars
  <2>3. ASSUME NEW k \in Keys, Get(k) PROVE disk' = disk
    BY <2>3 DEF Get, sstVars
  <2>4. CASE Rebuild \/ Reopen
    BY <2>4 DEF Rebuild, Reopen, Build
  <2>. QED
    BY <2>2, <2>3, <2>4 DEF Next, Put, Delete, Stored
<1>. QED
  BY <1>1, Invariance, PTL DEF Spec, FilesImmutable
=============================================================================
