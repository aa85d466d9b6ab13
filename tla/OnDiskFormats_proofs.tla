------------------------- MODULE OnDiskFormats_proofs -------------------------
(* Proofs about the block table and about what is kept on disk: first how    *)
(* the page allocator and the collector change the table of the erase blocks,*)
(* for every number and size of blocks; then what a mount gives back of it,  *)
(* for every size of the disk and of its images, and everything BIT and PIT  *)
(* may have held; then how the pages of an SSTable give back its entries,    *)
(* for every size of a page, of a block and of an entry; last that a         *)
(* compressed text is decoded as it was, for every set of characters, their  *)
(* weights and their order.                                                  *)
EXTENDS PageAllocator, MetadataRegions, SSTablePages, HuffmanCodec,
        SequenceTheorems, FiniteSetTheorems, WellFoundedInduction, TLAPS

-----------------------------------------------------------------------------
(* Folds.  A fold over a sequence is a walk through its intermediate values, *)
(* which exist as long as each step stays in some set.                       *)

(* Induction over the natural numbers, for a set.                            *)
LEMMA SetInduction ==
  ASSUME NEW G \in SUBSET Nat, 0 \in G, \A k \in G : k + 1 \in G
  PROVE  G = Nat
<1>. DEFINE T == Nat \ G
<1>. SUFFICES ASSUME T # {} PROVE FALSE
  OBVIOUS
<1>1. PICK r \in T : \A x \in T : ~(<<x, r>> \in OpToRel(<, Nat))
  BY NatLessThanWellFounded, WFMin
<1>2. \A x \in T : ~(x < r)
  BY <1>1, Zenon DEF OpToRel
<1>3. r # 0 /\ r - 1 \in Nat
  OBVIOUS
<1>4. r - 1 \in G
  BY <1>2, <1>3
<1>. QED
  BY <1>3, <1>4

(* Induction up to a bound.                                                  *)
LEMMA UpTo ==
  ASSUME NEW n \in Nat, NEW G, 0 \in G, \A k \in 1 .. n : k - 1 \in G => k \in G
  PROVE  \A k \in 0 .. n : k \in G
<1>. DEFINE H == {k \in Nat : k <= n => k \in G}
<1>1. 0 \in H
  OBVIOUS
<1>2. \A k \in H : k + 1 \in H
  <2>. SUFFICES ASSUME NEW k \in H, k + 1 <= n PROVE k + 1 \in G
    OBVIOUS
  <2>1. k \in G /\ k + 1 \in 1 .. n /\ (k + 1) - 1 = k
    OBVIOUS
  <2>. QED
    BY <2>1
<1>3. H = Nat
  <2>. HIDE DEF H
  <2>1. H \in SUBSET Nat
    BY DEF H
  <2>. QED
    BY <1>1, <1>2, <2>1, SetInduction
<1>. QED
  BY <1>3

LEMMA MaxOfInterval ==
  ASSUME NEW n \in Nat \ {0}
  PROVE  Max(1 .. n) = n
  BY DEF Max

LEMMA MaxIs ==
  ASSUME NEW k \in Nat, NEW s \in SUBSET (1 .. k + 1), s # {}
  PROVE  /\ k + 1 \in s => Max(s) = k + 1
         /\ k + 1 \notin s => s \in SUBSET (1 .. k)
<1>1. ASSUME k + 1 \in s PROVE Max(s) = k + 1
  <2>1. \A y \in s : k + 1 >= y
    OBVIOUS
  <2>2. \A x \in s : (\A y \in s : x >= y) => x = k + 1
    BY <1>1
  <2>. QED
    BY <1>1, <2>1, <2>2 DEF Max
<1>. QED
  BY <1>1

(* The function a fold is defined by.                                        *)
Folds(h, U, base, G, n) ==
  /\ h \in [SUBSET (1 .. n) -> U]
  /\ \A s \in SUBSET (1 .. n) :
       h[s] = IF s = {} THEN base ELSE G[<<h[s \ {Max(s)}], Max(s)>>]

LEMMA FoldExists ==
  ASSUME NEW U, NEW base \in U, NEW n \in Nat, NEW G \in [U \X (1 .. n) -> U]
  PROVE  \E h : Folds(h, U, base, G, n)
<1>. DEFINE K == {k \in Nat : \E h : Folds(h, U, base, G, k)}
<1>1. 0 \in K
  <2>1. SUBSET (1 .. 0) = {{}}
    OBVIOUS
  <2>2. Folds([s \in {{}} |-> base], U, base, G, 0)
    BY <2>1 DEF Folds
  <2>. QED
    BY <2>2
<1>2. ASSUME NEW k \in 1 .. n, k - 1 \in K PROVE k \in K
  <2>1. PICK h : Folds(h, U, base, G, k - 1)
    BY <1>2
  <2>. DEFINE g == [s \in SUBSET (1 .. k) |->
                      IF k \in s THEN G[<<h[s \ {k}], k>>] ELSE h[s]]
  <2>2. ASSUME NEW s \in SUBSET (1 .. k)
        PROVE  g[s] \in U /\ g[s] = IF s = {} THEN base ELSE G[<<g[s \ {Max(s)}], Max(s)>>]
    <3>1. CASE k \in s
      <4>1. Max(s) = k
        BY <3>1, MaxIs, k - 1 \in Nat, (k - 1) + 1 = k
      <4>2. s \ {k} \in SUBSET (1 .. k - 1) /\ s \ {k} \in SUBSET (1 .. k) /\ k \notin s \ {k}
        OBVIOUS
      <4>3. g[s \ {k}] = h[s \ {k}] /\ h[s \ {k}] \in U
        BY <2>1, <4>2 DEF Folds
      <4>4. g[s] = G[<<h[s \ {k}], k>>] /\ s # {}
        BY <3>1
      <4>5. G[<<h[s \ {k}], k>>] \in U
        BY <4>3
      <4>. HIDE DEF g
      <4>. QED
        BY <4>1, <4>3, <4>4, <4>5
    <3>2. CASE k \notin s
      <4>1. s \in SUBSET (1 .. k - 1) /\ g[s] = h[s]
        BY <3>2
      <4>2. CASE s = {}
        BY <2>1, <4>1, <4>2 DEF Folds
      <4>3. CASE s # {}
        <5>1. s \ {Max(s)} \in SUBSET (1 .. k) /\ k \notin s \ {Max(s)}
          BY <3>2
        <5>2. g[s \ {Max(s)}] = h[s \ {Max(s)}]
          BY <5>1
        <5>3. h[s] \in U /\ h[s] = G[<<h[s \ {Max(s)}], Max(s)>>]
          BY <2>1, <4>1, <4>3 DEF Folds
        <5>. HIDE DEF g
        <5>. QED
          BY <4>1, <4>3, <5>2, <5>3
      <4>. QED
        BY <4>2, <4>3
    <3>. QED
      BY <3>1, <3>2
  <2>3. Folds(g, U, base, G, k)
    <3>1. g = [s \in SUBSET (1 .. k) |-> g[s]]
      OBVIOUS
    <3>. HIDE DEF g
    <3>2. g \in [SUBSET (1 .. k) -> U]
      BY <2>2, <3>1
    <3>. QED
      BY <2>2, <3>2 DEF Folds
  <2>. QED
    BY <2>3
<1>3. n \in K
  <2>. HIDE DEF K
  <2>. QED
    BY <1>1, <1>2, UpTo
<1>. QED
  BY <1>3

LEMMA MaxIn ==
  ASSUME NEW n \in Nat, NEW s \in SUBSET (1 .. n), s # {}
  PROVE  Max(s) \in 1 .. n /\ s \ {Max(s)} \in SUBSET (1 .. n)
<1>. DEFINE K == {k \in Nat : \A r \in SUBSET (1 .. k) : r # {} => Max(r) \in 1 .. k}
<1>1. 0 \in K
  <2>1. 1 .. 0 = {}
    OBVIOUS
  <2>. QED
    BY <2>1
<1>2. ASSUME NEW k \in K PROVE k + 1 \in K
  <2>. SUFFICES ASSUME NEW r \in SUBSET (1 .. k + 1), r # {} PROVE Max(r) \in 1 .. k + 1
    OBVIOUS
  <2>1. CASE k + 1 \in r
    BY <2>1, MaxIs
  <2>2. CASE k + 1 \notin r
    <3>1. r \in SUBSET (1 .. k)
      BY <2>2, MaxIs
    <3>. QED
      BY <3>1
  <2>. QED
    BY <2>1, <2>2
<1>3. K = Nat
  <2>. HIDE DEF K
  <2>1. K \in SUBSET Nat
    BY DEF K
  <2>. QED
    BY <1>1, <1>2, <2>1, SetInduction
<1>. QED
  BY <1>3

(* The walk of a function that is defined like a fold: its values after each *)
(* number of elements.                                                       *)
Walk(it, n) == [k \in 0 .. n |-> it[1 .. k]]

(* The function's equation, as far as its values are known to be in U.       *)
Recurs(it, U, base, G, n) ==
  /\ it[{}] = base
  /\ \A s \in SUBSET (1 .. n) : s # {} /\ it[s \ {Max(s)}] \in U =>
       it[s] = G[<<it[s \ {Max(s)}], Max(s)>>]

Walks(f, U, base, G, n) ==
  /\ f \in [0 .. n -> U]
  /\ f[0] = base
  /\ \A k \in 1 .. n : f[k] = G[<<f[k - 1], k>>]

LEMMA WalkOf ==
  ASSUME NEW n \in Nat, NEW U, NEW base \in U, NEW G \in [U \X (1 .. n) -> U], NEW it,
         Recurs(it, U, base, G, n)
  PROVE  Walks(Walk(it, n), U, base, G, n) /\ Walk(it, n)[n] = it[1 .. n]
<1>. DEFINE f == Walk(it, n)
            K == {k \in 0 .. n : f[k] \in U}
<1>1. f[0] = base
  <2>1. 1 .. 0 = {}
    OBVIOUS
  <2>. QED
    BY <2>1 DEF Walk, Recurs
<1>2. ASSUME NEW k \in 1 .. n, f[k - 1] \in U
      PROVE  f[k] = G[<<f[k - 1], k>>] /\ f[k] \in U
  <2>1. (1 .. k) \ {k} = 1 .. k - 1 /\ 1 .. k # {} /\ 1 .. k \in SUBSET (1 .. n)
    <3>. HIDE DEF f
    <3>1. \A x \in Int : x \in (1 .. k) \ {k} <=> x \in 1 .. k - 1
      OBVIOUS
    <3>2. k \in 1 .. k /\ \A x \in 1 .. k : x \in 1 .. n
      OBVIOUS
    <3>. QED
      BY <3>1, <3>2
  <2>2. Max(1 .. k) = k
    BY MaxOfInterval
  <2>3. f[k] = it[1 .. k] /\ f[k - 1] = it[1 .. k - 1]
    BY DEF Walk
  <2>. HIDE DEF f
  <2>4. f[k] = G[<<f[k - 1], k>>]
    BY <1>2, <2>1, <2>2, <2>3 DEF Recurs
  <2>. QED
    BY <1>2, <2>4
<1>3. \A k \in 0 .. n : k \in K
  <2>1. 0 \in K
    BY <1>1
  <2>2. ASSUME NEW k \in 1 .. n, k - 1 \in K PROVE k \in K
    <3>1. f[k - 1] \in U
      BY <2>2
    <3>2. f[k] \in U
      BY <1>2, <3>1
    <3>3. k \in 0 .. n
      OBVIOUS
    <3>. HIDE DEF f
    <3>. QED
      BY <3>2, <3>3
  <2>. HIDE DEF K
  <2>. QED
    BY <2>1, <2>2, UpTo
<1>4. f \in [0 .. n -> U] /\ f[n] = it[1 .. n]
  BY <1>3 DEF Walk
<1>5. ASSUME NEW k \in 1 .. n PROVE f[k] = G[<<f[k - 1], k>>]
  <2>1. k - 1 \in 0 .. n
    OBVIOUS
  <2>2. f[k - 1] \in U
    BY <1>3, <2>1
  <2>. QED
    BY <1>2, <2>2
<1>. HIDE DEF f
<1>6. Walks(f, U, base, G, n)
  BY <1>1, <1>4, <1>5 DEF Walks
<1>. QED
  BY <1>4, <1>6 DEF f


-----------------------------------------------------------------------------
(* Addresses.                                                                *)

LEMMA AddressParts ==
  ASSUME NEW b \in Blocks, NEW o \in Offsets
  PROVE  /\ Address(b, o) \in Pages
         /\ BlockOf(Address(b, o)) = b
         /\ OffsetOf(Address(b, o)) = o
<1>. USE BlockInfoAssumption
<1>1. b \in Nat /\ o \in Nat /\ o < PagesPerBlock /\ b + 1 <= BlockCount
  BY DEF Blocks, Offsets
<1>2. Address(b, o) \in Nat
  BY <1>1 DEF Address
<1>3. (b + 1) * PagesPerBlock <= BlockCount * PagesPerBlock
  BY <1>1
<1>4. Address(b, o) < (b + 1) * PagesPerBlock
  BY <1>1 DEF Address
<1>5. BlockCount * PagesPerBlock \in Nat /\ (b + 1) * PagesPerBlock \in Nat
  BY <1>1
<1>6. Address(b, o) \in Pages
  BY <1>2, <1>3, <1>4, <1>5 DEF Pages
<1>7. BlockOf(Address(b, o)) = b /\ OffsetOf(Address(b, o)) = o
  BY <1>1 DEF BlockOf, OffsetOf, Address
<1>. QED
  BY <1>6, <1>7

LEMMA PageParts ==
  ASSUME NEW a \in Pages
  PROVE  /\ BlockOf(a) \in Blocks
         /\ OffsetOf(a) \in Offsets
         /\ a = Address(BlockOf(a), OffsetOf(a))
<1>. USE BlockInfoAssumption
<1>1. a \in Nat /\ a < BlockCount * PagesPerBlock
  BY DEF Pages
<1>2. BlockOf(a) \in Nat /\ OffsetOf(a) \in Offsets
  BY <1>1 DEF BlockOf, OffsetOf, Offsets
<1>3. a = Address(BlockOf(a), OffsetOf(a))
  BY <1>1 DEF BlockOf, OffsetOf, Address
<1>4. BlockOf(a) < BlockCount
  BY <1>1 DEF BlockOf
<1>. QED
  BY <1>2, <1>3, <1>4 DEF Blocks

(* The page after a is the next of the same block, unless a is its last.     *)
LEMMA PageBehind ==
  ASSUME NEW a \in Pages, OffsetOf(a) + 1 < PagesPerBlock
  PROVE  /\ a + 1 \in Pages
         /\ BlockOf(a + 1) = BlockOf(a)
         /\ OffsetOf(a + 1) = OffsetOf(a) + 1
<1>1. BlockOf(a) \in Blocks /\ OffsetOf(a) + 1 \in Offsets
  BY PageParts, BlockInfoAssumption DEF Offsets
<1>2. a + 1 = Address(BlockOf(a), OffsetOf(a) + 1)
  BY PageParts, <1>1, BlockInfoAssumption DEF Address, Blocks, Offsets, Pages
<1>. QED
  BY <1>1, <1>2, AddressParts

-----------------------------------------------------------------------------
(* One block: what holds of it and its pages written so far.                 *)

Exact(info, b, written) ==
  /\ info.reserved_offset \in 0..PagesPerBlock
  /\ info.reserved_size = PagesPerBlock - info.reserved_offset
  /\ \A o \in Offsets :
       /\ o >= info.reserved_offset =>
            Address(b, o) \notin written /\ info.used_map[o] \notin Inos
       /\ Address(b, o) \in written => info.used_map[o] # Clean

LEMMA BlocksExact == ReserveExact <=> \A b \in Blocks : Exact(table[b], b, programmed)
BY DEF ReserveExact, Exact

LEMMA CleanBlockType == CleanBlock \in BlockRecord
BY BlockInfoAssumption DEF CleanBlock, BlockRecord, Statuses

LEMMA CleanBlockExact ==
  ASSUME NEW b \in Blocks, NEW written, \A o \in Offsets : Address(b, o) \notin written
  PROVE  Exact(CleanBlock, b, written)
BY BlockInfoAssumption DEF Exact, CleanBlock, Offsets

LEMMA SetPageType ==
  ASSUME NEW info \in BlockRecord, NEW o \in Offsets, NEW s \in Statuses
  PROVE  /\ SetPage(info, o, s) \in BlockRecord
         /\ SetPage(info, o, s).used_map = [info.used_map EXCEPT ![o] = s]
BY DEF SetPage, BlockRecord, Count

LEMMA DirtyResult ==
  ASSUME NEW info \in BlockRecord, NEW o \in Offsets
  PROVE  /\ SetPage(info, o, Dirty) \in BlockRecord
         /\ SetPage(info, o, Dirty).used_map = [info.used_map EXCEPT ![o] = Dirty]
         /\ SetPage(info, o, Dirty).reserved_offset = info.reserved_offset
         /\ SetPage(info, o, Dirty).reserved_size = info.reserved_size
<1>1. Dirty \in Statuses
  BY DEF Statuses
<1>. QED
  BY <1>1, SetPageType, BlockInfoAssumption DEF SetPage, Count, BlockRecord

(* Setting a page dirty never breaks what holds of a block, whatever page.   *)
LEMMA DirtyExact ==
  ASSUME NEW info \in BlockRecord, NEW o \in Offsets, NEW b, NEW written, Exact(info, b, written)
  PROVE  Exact(SetPage(info, o, Dirty), b, written)
<1>. DEFINE new == SetPage(info, o, Dirty)
<1>1. /\ new.used_map = [info.used_map EXCEPT ![o] = Dirty]
      /\ new.reserved_offset = info.reserved_offset
      /\ new.reserved_size = info.reserved_size
  BY DirtyResult
<1>2. info.used_map \in [Offsets -> Statuses] /\ Dirty \notin Inos /\ Dirty # Clean
  BY BlockInfoAssumption DEF BlockRecord
<1>3. \A p \in Offsets : new.used_map[p] = IF p = o THEN Dirty ELSE info.used_map[p]
  BY <1>1, <1>2
<1>. HIDE DEF new
<1>4. Exact(new, b, written)
  BY <1>1, <1>2, <1>3 DEF Exact
<1>. QED
  BY <1>4 DEF new

LEMMA ProgramPageResult ==
  ASSUME NEW info \in BlockRecord, NEW o \in Offsets, NEW ino \in Inos
  PROVE  /\ ProgramPage(info, o, ino) \in BlockRecord
         /\ ProgramPage(info, o, ino).used_map = [info.used_map EXCEPT ![o] = ino]
         /\ ProgramPage(info, o, ino).reserved_offset = info.reserved_offset + 1
         /\ ProgramPage(info, o, ino).reserved_size = info.reserved_size - 1
<1>. DEFINE mid == SetPage(info, o, Dirty)
<1>1. ino \in Statuses
  BY DEF Statuses
<1>2. /\ mid \in BlockRecord
      /\ mid.used_map = [info.used_map EXCEPT ![o] = Dirty]
      /\ mid.reserved_offset = info.reserved_offset
      /\ mid.reserved_size = info.reserved_size
  BY DirtyResult
<1>. HIDE DEF mid
<1>3. /\ SetPage(mid, o, ino) \in BlockRecord
      /\ SetPage(mid, o, ino).used_map = [mid.used_map EXCEPT ![o] = ino]
  BY <1>1, <1>2, SetPageType
<1>4. /\ SetPage(mid, o, ino).reserved_offset = mid.reserved_offset + 1
      /\ SetPage(mid, o, ino).reserved_size = mid.reserved_size - 1
  BY <1>2 DEF SetPage, Count, BlockRecord
<1>. QED
  BY <1>2, <1>3, <1>4 DEF ProgramPage, mid, BlockRecord

(* Nor does programming a page at the mark or below it.                      *)
LEMMA ProgramExact ==
  ASSUME NEW info \in BlockRecord, NEW b \in Blocks, NEW o \in Offsets, NEW ino \in Inos,
         NEW written, Exact(info, b, written),
         o <= info.reserved_offset, info.reserved_offset < PagesPerBlock
  PROVE  Exact(ProgramPage(info, o, ino), b, written \cup {Address(b, o)})
<1>. DEFINE new == ProgramPage(info, o, ino)
<1>1. /\ new.used_map = [info.used_map EXCEPT ![o] = ino]
      /\ new.reserved_offset = info.reserved_offset + 1
      /\ new.reserved_size = info.reserved_size - 1
  BY ProgramPageResult
<1>2. info.used_map \in [Offsets -> Statuses] /\ Clean \notin Inos /\ PagesPerBlock \in Nat
  BY BlockInfoAssumption DEF BlockRecord
<1>3. \A p \in Offsets : new.used_map[p] = IF p = o THEN ino ELSE info.used_map[p]
  BY <1>1, <1>2
<1>4. \A p \in Offsets : Address(b, p) = Address(b, o) => p = o
  BY AddressParts
<1>5. /\ new.reserved_offset \in 0..PagesPerBlock
      /\ new.reserved_size = PagesPerBlock - new.reserved_offset
  BY <1>1, <1>2 DEF Exact
<1>6. ASSUME NEW p \in Offsets
      PROVE  /\ p >= new.reserved_offset => p # o /\ p >= info.reserved_offset
             /\ p = o => new.used_map[p] # Clean
  BY <1>1, <1>2, <1>3 DEF Exact, Offsets
<1>. HIDE DEF new
<1>7. ASSUME NEW p \in Offsets
      PROVE  /\ p >= new.reserved_offset =>
                  Address(b, p) \notin written \cup {Address(b, o)} /\ new.used_map[p] \notin Inos
             /\ Address(b, p) \in written \cup {Address(b, o)} => new.used_map[p] # Clean
  BY <1>3, <1>4, <1>6 DEF Exact
<1>8. Exact(new, b, written \cup {Address(b, o)})
  BY <1>5, <1>7 DEF Exact
<1>. QED
  BY <1>8 DEF new

-----------------------------------------------------------------------------
(* The search.                                                               *)

LEMMA LeastExists ==
  ASSUME NEW S \in SUBSET Nat, S # {}
  PROVE  LeastOf(S) \in S /\ \A y \in S : LeastOf(S) <= y
<1>1. PICK x \in S : \A y \in S : ~(<<y, x>> \in OpToRel(<, Nat))
  BY NatLessThanWellFounded, WFMin
<1>2. \A y \in S : ~(y < x)
  BY <1>1, Zenon DEF OpToRel
<1>3. \A y \in S : x <= y
  BY <1>2
<1>. QED
  BY <1>3 DEF LeastOf

(* What find_write_pos answers: the first page of the reserve of a block     *)
(* that has room.                                                            *)
FitsIn(tbl, S, n, place) ==
  \E b \in S :
    /\ tbl[b].reserved_offset \in Offsets
    /\ tbl[b].reserved_offset + n <= PagesPerBlock
    /\ place = Address(b, tbl[b].reserved_offset)

LEMMA FirstFreeFits ==
  ASSUME TypeOK, ReserveExact, NEW n \in Nat \ {0}, NEW S \in SUBSET Blocks,
         FirstFree(table, {b \in S : table[b].reserved_size >= n}) # NoPos
  PROVE  FitsIn(table, S, n, FirstFree(table, {b \in S : table[b].reserved_size >= n}))
<1>. DEFINE fit == {c \in S : table[c].reserved_size >= n}
<1>1. fit # {}
  BY DEF FirstFree
<1>2. LeastOf(fit) \in fit
  BY <1>1, LeastExists DEF Blocks
<1>3. FirstFree(table, fit) = Address(LeastOf(fit), table[LeastOf(fit)].reserved_offset)
  BY <1>1 DEF FirstFree
<1>4. \A c \in fit : table[c].reserved_offset \in Offsets
                     /\ table[c].reserved_offset + n <= PagesPerBlock
  BY BlockInfoAssumption DEF ReserveExact, Exact, Offsets
<1>5. fit \subseteq S
  OBVIOUS
<1>. HIDE DEF fit
<1>6. FitsIn(table, S, n, FirstFree(table, fit))
  BY <1>2, <1>3, <1>4, <1>5 DEF FitsIn
<1>. QED
  BY <1>6 DEF fit

-----------------------------------------------------------------------------
(* The counters.                                                             *)

(* The pages of a block whose status is in cls.                              *)
PagesIn(map, cls) == {o \in Offsets : map[o] \in cls}

LEMMA OffsetsFinite ==
  /\ IsFiniteSet(Offsets)
  /\ Cardinality(Offsets) = PagesPerBlock
BY BlockInfoAssumption, FS_Interval DEF Offsets

(* Setting one page moves the count of a class by at most one.               *)
LEMMA CountAfterSet ==
  ASSUME NEW map \in [Offsets -> Statuses], NEW o \in Offsets, NEW s \in Statuses, NEW cls
  PROVE  /\ Cardinality(PagesIn(map, cls)) \in Nat
         /\ Cardinality(PagesIn([map EXCEPT ![o] = s], cls))
              = Cardinality(PagesIn(map, cls)) - Count(map[o] \in cls) + Count(s \in cls)
<1>. DEFINE rest == PagesIn(map, cls) \ {o}
<1>1. IsFiniteSet(rest) /\ IsFiniteSet(PagesIn(map, cls))
  <2>1. rest \subseteq Offsets /\ PagesIn(map, cls) \subseteq Offsets
    BY DEF PagesIn
  <2>. QED
    BY <2>1, OffsetsFinite, FS_Subset
<1>2. o \notin rest
  OBVIOUS
<1>3. PagesIn(map, cls) = IF map[o] \in cls THEN rest \cup {o} ELSE rest
  BY DEF PagesIn
<1>4. PagesIn([map EXCEPT ![o] = s], cls) = IF s \in cls THEN rest \cup {o} ELSE rest
  BY DEF PagesIn
<1>. HIDE DEF rest
<1>5. Cardinality(rest) \in Nat /\ Cardinality(rest \cup {o}) = Cardinality(rest) + 1
  BY <1>1, <1>2, FS_AddElement, FS_CardinalityType
<1>. QED
  BY <1>3, <1>4, <1>5 DEF Count

BlockCounted(info) ==
  /\ info.clean_num = Cardinality(PagesIn(info.used_map, {Clean}))
  /\ info.dirty_num = Cardinality(PagesIn(info.used_map, {Dirty}))
  /\ info.used_num = Cardinality(PagesIn(info.used_map, Inos))

LEMMA SetPageCounted ==
  ASSUME NEW info \in BlockRecord, NEW o \in Offsets, NEW s \in Statuses,
         BlockCounted(info)
  PROVE  BlockCounted(SetPage(info, o, s))
<1>1. info.used_map \in [Offsets -> Statuses]
  BY DEF BlockRecord
<1>2. SetPage(info, o, s).used_map = [info.used_map EXCEPT ![o] = s]
  BY SetPageType
<1>3. /\ SetPage(info, o, s).clean_num
           = info.clean_num - Count(info.used_map[o] \in {Clean}) + Count(s \in {Clean})
      /\ SetPage(info, o, s).dirty_num
           = info.dirty_num - Count(info.used_map[o] \in {Dirty}) + Count(s \in {Dirty})
      /\ SetPage(info, o, s).used_num
           = info.used_num - Count(info.used_map[o] \in Inos) + Count(s \in Inos)
  BY DEF SetPage, Count
<1>. QED
  BY <1>1, <1>2, <1>3, CountAfterSet DEF BlockCounted

LEMMA ProgramPageCounted ==
  ASSUME NEW info \in BlockRecord, NEW o \in Offsets, NEW ino \in Inos,
         BlockCounted(info)
  PROVE  BlockCounted(ProgramPage(info, o, ino))
<1>1. Dirty \in Statuses /\ ino \in Statuses
  BY DEF Statuses
<1>. QED
  BY <1>1, SetPageType, SetPageCounted DEF ProgramPage

LEMMA CleanBlockCounted == BlockCounted(CleanBlock)
<1>. USE BlockInfoAssumption
<1>1. /\ PagesIn(CleanBlock.used_map, {Clean}) = Offsets
      /\ PagesIn(CleanBlock.used_map, {Dirty}) = {}
      /\ PagesIn(CleanBlock.used_map, Inos) = {}
  BY DEF PagesIn, CleanBlock
<1>. QED
  BY <1>1, OffsetsFinite, FS_EmptySet DEF BlockCounted, CleanBlock

-----------------------------------------------------------------------------
(* The collector's victim: the ratios are ordered, so some block has a least *)
(* one.                                                                      *)

LEMMA TimesLess ==
  ASSUME NEW a \in Int, NEW b \in Int, NEW c \in Nat, c > 0
  PROVE  a < b <=> a * c < b * c
<1>1. ASSUME a < b PROVE a * c < b * c
  <2>1. b - a > 0 /\ (b - a) * c > 0
    BY <1>1
  <2>. QED
    BY <2>1
<1>2. ASSUME a >= b PROVE a * c >= b * c
  <2>1. a - b >= 0 /\ (a - b) * c >= 0
    BY <1>2
  <2>. QED
    BY <2>1
<1>. QED
  BY <1>1, <1>2

(* The blocks whose counters count.                                          *)
Info == {info \in BlockRecord : BlockCounted(info)}

LEMMA CountedNat ==
  ASSUME NEW info \in Info
  PROVE  info.dirty_num \in Nat /\ info.clean_num \in Int /\ info.used_num \in Int
<1>1. PagesIn(info.used_map, {Dirty}) \subseteq Offsets
  BY DEF PagesIn
<1>2. Cardinality(PagesIn(info.used_map, {Dirty})) \in Nat
  BY <1>1, OffsetsFinite, FS_Subset, FS_CardinalityType
<1>. QED
  BY <1>2 DEF Info, BlockRecord, BlockCounted

LEMMA LessUtilizedTrans ==
  ASSUME NEW x \in Info, NEW y \in Info, NEW z \in Info, LessUtilized(x, y), LessUtilized(y, z)
  PROVE  LessUtilized(x, z)
<1>. DEFINE X == x.clean_num + x.used_num
            Y == y.clean_num + y.used_num
            Z == z.clean_num + z.used_num
            a == x.dirty_num
            b == y.dirty_num
            c == z.dirty_num
<1>1. X \in Int /\ Y \in Int /\ Z \in Int /\ a \in Nat /\ b \in Nat /\ c \in Nat
  BY CountedNat
<1>2. a > 0 /\ b > 0 /\ X * b < Y * a
  BY <1>1 DEF LessUtilized
<1>3. c = 0 \/ (c > 0 /\ Y * c < Z * b)
  BY <1>1 DEF LessUtilized
<1>. SUFFICES ASSUME c > 0, Y * c < Z * b PROVE X * c < Z * a
  BY <1>1, <1>2, <1>3 DEF LessUtilized
<1>. HIDE DEF X, Y, Z, a, b, c
<1>4. (X * b) * c < (Y * a) * c
  <2>1. X * b \in Int /\ Y * a \in Int
    BY <1>1
  <2>. QED BY <1>1, <1>2, <2>1, TimesLess
<1>5. (Y * c) * a < (Z * b) * a
  <2>1. Y * c \in Int /\ Z * b \in Int
    BY <1>1
  <2>. QED BY <1>1, <1>2, <2>1, TimesLess
<1>6. (X * c) * b < (Z * a) * b
  <2>1. (X * b) * c = (X * c) * b /\ (Y * a) * c = (Y * c) * a /\ (Z * b) * a = (Z * a) * b
    BY <1>1
  <2>2. (X * c) * b \in Int /\ (Y * c) * a \in Int /\ (Z * a) * b \in Int
    BY <1>1
  <2>. QED BY <1>4, <1>5, <2>1, <2>2
<1>7. X * c \in Int /\ Z * a \in Int
  BY <1>1
<1>. QED BY <1>1, <1>2, <1>6, <1>7, TimesLess

LEMMA VictimIsBlock ==
  ASSUME NEW tbl \in [Blocks -> Info]
  PROVE  ChooseGCBlock(tbl) \in Blocks
<1>. DEFINE n == BlockCount - 1
            Least(b, k) == b \in 0 .. k /\ \A c \in 0 .. k : ~LessUtilized(tbl[c], tbl[b])
            K == {k \in 0 .. n : \E b : Least(b, k)}
<1>1. n \in Nat /\ Blocks = 0 .. n
  BY BlockInfoAssumption DEF Blocks
<1>2. \A x \in Info : ~LessUtilized(x, x)
  <2>. SUFFICES ASSUME NEW x \in Info PROVE ~LessUtilized(x, x)
    OBVIOUS
  <2>. DEFINE X == x.clean_num + x.used_num
              a == x.dirty_num
  <2>1. X \in Int /\ a \in Nat
    BY CountedNat
  <2>2. X * a \in Int
    BY <2>1
  <2>3. LessUtilized(x, x) => a > 0 /\ (a = 0 \/ X * a < X * a)
    BY DEF LessUtilized
  <2>. HIDE DEF X, a
  <2>. QED BY <2>1, <2>2, <2>3
<1>. HIDE DEF n
<1>3. 0 \in K
  <2>1. 0 .. 0 = {0} /\ 0 \in 0 .. n
    BY <1>1
  <2>2. tbl[0] \in Info
    BY <1>1, <2>1
  <2>3. Least(0, 0)
    BY <1>2, <2>1, <2>2
  <2>. QED BY <2>1, <2>3
<1>4. ASSUME NEW k \in 1 .. n, k - 1 \in K PROVE k \in K
  <2>1. PICK b : Least(b, k - 1)
    BY <1>4
  <2>2. b \in 0 .. n /\ k \in 0 .. n /\ b \in 0 .. k /\ k \in 0 .. k
    BY <1>1, <2>1
  <2>3. \A c \in 0 .. k : c \in Blocks /\ (c = k \/ c \in 0 .. k - 1)
    BY <1>1
  <2>4. \A c \in 0 .. k : tbl[c] \in Info
    BY <2>3
  <2>5. CASE LessUtilized(tbl[k], tbl[b])
    <3>1. ASSUME NEW c \in 0 .. k, LessUtilized(tbl[c], tbl[k]) PROVE FALSE
      <4>1. c # k
        BY <1>2, <2>4, <3>1
      <4>2. LessUtilized(tbl[c], tbl[b])
        BY <2>2, <2>4, <2>5, <3>1, LessUtilizedTrans
      <4>. QED BY <2>1, <2>3, <4>1, <4>2
    <3>2. Least(k, k)
      BY <2>2, <3>1
    <3>. QED BY <2>2, <3>2
  <2>6. CASE ~LessUtilized(tbl[k], tbl[b])
    <3>1. Least(b, k)
      BY <2>1, <2>2, <2>3, <2>6
    <3>. QED BY <2>2, <3>1
  <2>. QED BY <2>5, <2>6
<1>5. n \in Nat
  BY <1>1
<1>6. n \in K
  <2>. HIDE DEF K
  <2>. QED BY <1>3, <1>4, <1>5, UpTo
<1>. DEFINE S == {b \in Blocks : \A c \in Blocks : ~LessUtilized(tbl[c], tbl[b])}
<1>7. S # {}
  BY <1>1, <1>6
<1>8. S \in SUBSET Nat
  BY <1>1
<1>9. ChooseGCBlock(tbl) = LeastOf(S)
  BY DEF ChooseGCBlock
<1>10. LeastOf(S) \in S
  <2>. HIDE DEF S
  <2>. QED BY <1>7, <1>8, LeastExists
<1>. QED BY <1>9, <1>10

-----------------------------------------------------------------------------
(* The collector's plan.                                                     *)

Fragment == [ino : Inos, size : Nat, from : Int]
Scans == [done : Seq(Fragment), last : Fragment \cup {NoFragment}, size : Nat]
NoScan == [done |-> <<>>, last |-> NoFragment, size |-> 0]

LEMMA CloseTyped ==
  ASSUME NEW acc \in Scans
  PROVE  CloseFragment(acc) \in Seq(Fragment)
<1>1. CASE acc.last = NoFragment
  BY <1>1 DEF CloseFragment, Scans
<1>2. CASE acc.last # NoFragment
  <2>1. acc.last \in Fragment /\ acc.size \in Nat /\ acc.done \in Seq(Fragment)
    BY <1>2 DEF Scans
  <2>2. [acc.last EXCEPT !.size = acc.size] \in Fragment
    BY <2>1 DEF Fragment
  <2>. QED BY <1>2, <2>1, <2>2 DEF CloseFragment
<1>. QED BY <1>1, <1>2

LEMMA ScanTyped ==
  ASSUME NEW acc \in Scans, NEW a \in Int, NEW s
  PROVE  ScanPage(acc, a, s) \in Scans
<1>. DEFINE start == [ino |-> s, size |-> 0, from |-> a]
<1>1. CloseFragment(acc) \in Seq(Fragment) /\ acc.size \in Nat /\ acc.done \in Seq(Fragment)
  BY CloseTyped DEF Scans
<1>2. s \in Inos => start \in Fragment
  BY DEF Fragment
<1>. HIDE DEF start
<1>3. CASE s \notin Inos
  BY <1>1, <1>3 DEF ScanPage, Scans
<1>4. CASE s \in Inos /\ acc.last = NoFragment
  <2>1. ScanPage(acc, a, s) = [done |-> acc.done, last |-> start, size |-> 1]
    BY <1>4 DEF ScanPage, start, Scans
  <2>. QED BY <1>1, <1>2, <1>4, <2>1 DEF Scans
<1>5. CASE s \in Inos /\ acc.last # NoFragment /\ acc.last.ino = s
  <2>1. ScanPage(acc, a, s) = [acc EXCEPT !.size = @ + 1]
    BY <1>5 DEF ScanPage
  <2>. QED BY <1>1, <2>1 DEF Scans
<1>6. CASE s \in Inos /\ acc.last # NoFragment /\ acc.last.ino # s
  <2>1. ScanPage(acc, a, s) = [acc EXCEPT !.done = CloseFragment(acc), !.last = start]
    BY <1>6 DEF ScanPage, start
  <2>. QED BY <1>1, <1>2, <1>6, <2>1 DEF Scans
<1>. QED BY <1>3, <1>4, <1>5, <1>6

ScanSteps(f, tbl, victim) ==
  /\ f \in [0 .. PagesPerBlock -> Scans]
  /\ f[0] = NoScan /\ CloseFragment(f[PagesPerBlock]) = Fragments(tbl, victim)
  /\ \A k \in 1 .. PagesPerBlock :
       f[k] = ScanPage(f[k - 1], Address(victim, k - 1), tbl[victim].used_map[k - 1])

LEMMA FragmentsIs ==
  ASSUME NEW tbl, NEW victim \in Blocks
  PROVE  \E f : ScanSteps(f, tbl, victim)
<1>. DEFINE n == PagesPerBlock
            G == [x \in Scans \X (1 .. n) |->
                   ScanPage(x[1], Address(victim, x[2] - 1), tbl[victim].used_map[x[2] - 1])]
            Def(it) == [s \in SUBSET (1 .. n) |->
                         IF s = {} THEN NoScan
                         ELSE ScanPage(it[s \ {Max(s)}],
                                       Address(victim, [g \in 1 .. n |-> g][Max(s)] - 1),
                                       tbl[victim].used_map[[g \in 1 .. n |-> g][Max(s)] - 1])]
            iter == CHOOSE it : it = Def(it)
<1>0. n \in Nat /\ NoScan \in Scans /\ \A k \in 1 .. n : Address(victim, k - 1) \in Int
  BY BlockInfoAssumption DEF NoScan, Scans, Address, Blocks
<1>1. G \in [Scans \X (1 .. n) -> Scans]
  BY <1>0, ScanTyped
<1>2. Fragments(tbl, victim) = CloseFragment(iter[1 .. n])
  BY DEF Fragments, FoldLeft, MapThenFoldSet, NoScan
<1>. HIDE DEF n
<1>3. PICK h : Folds(h, Scans, NoScan, G, n)
  BY <1>0, <1>1, FoldExists
<1>4. h = Def(h)
  BY <1>0, <1>3, MaxIn DEF Folds
<1>5. iter = Def(iter)
  BY <1>4
<1>. HIDE DEF iter
<1>6. Recurs(iter, Scans, NoScan, G, n)
  BY <1>0, <1>5, MaxIn DEF Recurs
<1>. DEFINE f == Walk(iter, n)
<1>7. Walks(f, Scans, NoScan, G, n) /\ f[n] = iter[1 .. n]
  <2>. HIDE DEF G
  <2>. QED BY <1>0, <1>1, <1>6, WalkOf
<1>. HIDE DEF f
<1>8. /\ f \in [0 .. n -> Scans] /\ f[0] = NoScan /\ f[n] = iter[1 .. n]
      /\ \A k \in 1 .. n : f[k] = G[<<f[k - 1], k>>]
  BY <1>7 DEF Walks
<1>9. \A k \in 1 .. n : f[k] = ScanPage(f[k - 1], Address(victim, k - 1), tbl[victim].used_map[k - 1])
  <2>1. \A k \in 1 .. n : k - 1 \in 0 .. n
    BY <1>0
  <2>. QED BY <1>8, <2>1
<1>. HIDE DEF G, Def
<1>10. ScanSteps(f, tbl, victim)
  BY <1>2, <1>8, <1>9 DEF n, ScanSteps
<1>. QED BY <1>10

(* Every fragment has a page, and a page the scan has met busy is in one:    *)
(* where a fragment goes on counting, it only counts too much.               *)
InFragment(x, a) == a \in x.from .. x.from + x.size - 1
Holding(frags, a) == \E g \in DOMAIN frags : InFragment(frags[g], a)
Solid(frags) == \A g \in DOMAIN frags : frags[g].size >= 1

LEMMA CloseHolds ==
  ASSUME NEW acc \in Scans, Solid(acc.done), acc.last # NoFragment => acc.size >= 1
  PROVE  /\ Solid(CloseFragment(acc))
         /\ \A a : Holding(acc.done, a) => Holding(CloseFragment(acc), a)
         /\ acc.last # NoFragment =>
              \A a \in acc.last.from .. acc.last.from + acc.size - 1 :
                Holding(CloseFragment(acc), a)
<1>1. CASE acc.last = NoFragment
  BY <1>1 DEF CloseFragment
<1>2. CASE acc.last # NoFragment
  <2>. DEFINE x == [acc.last EXCEPT !.size = acc.size]
              n == Len(acc.done)
              all == CloseFragment(acc)
  <2>1. acc.last \in Fragment /\ acc.size \in Nat /\ acc.done \in Seq(Fragment)
    BY <1>2 DEF Scans
  <2>2. x \in Fragment /\ x.from = acc.last.from /\ x.size = acc.size
    BY <2>1 DEF Fragment
  <2>3. all = Append(acc.done, x)
    BY <1>2 DEF CloseFragment
  <2>. HIDE DEF x
  <2>4. /\ n \in Nat /\ DOMAIN acc.done = 1 .. n /\ DOMAIN all = 1 .. n + 1
        /\ all[n + 1] = x /\ \A g \in 1 .. n : all[g] = acc.done[g]
    BY <2>1, <2>2, <2>3
  <2>. HIDE DEF all, n
  <2>5. Solid(all)
    BY <1>2, <2>2, <2>4 DEF Solid
  <2>6. \A a : Holding(acc.done, a) => Holding(all, a)
    BY <2>4 DEF Holding
  <2>7. \A a \in acc.last.from .. acc.last.from + acc.size - 1 : Holding(all, a)
    BY <2>2, <2>4 DEF Holding, InFragment
  <2>. QED
    BY <2>5, <2>6, <2>7 DEF all
<1>. QED
  BY <1>1, <1>2

(* What holds of the scan after k pages.                                     *)
Scanned(acc, map, victim, k) ==
  /\ acc \in Scans /\ Solid(acc.done)
  /\ acc.last # NoFragment =>
       /\ acc.size >= 1
       /\ acc.last.from <= Address(victim, k)
       /\ acc.last.from + acc.size >= Address(victim, k)
  /\ \A o \in 0 .. k - 1 : map[o] \in Inos =>
       \/ Holding(acc.done, Address(victim, o))
       \/ /\ acc.last # NoFragment
          /\ Address(victim, o) \in acc.last.from .. acc.last.from + acc.size - 1

LEMMA ScanKeeps ==
  ASSUME NEW victim \in Blocks, NEW map, NEW k \in Offsets, NEW acc, Scanned(acc, map, victim, k)
  PROVE  Scanned(ScanPage(acc, Address(victim, k), map[k]), map, victim, k + 1)
<1>. DEFINE s == map[k]
            a == Address(victim, k)
            start == [ino |-> s, size |-> 0, from |-> a]
            new == ScanPage(acc, a, s)
            done == CloseFragment(acc)
<1>1. /\ k \in Nat /\ a \in Int /\ Address(victim, k + 1) = a + 1
      /\ \A o \in 0 .. k : o = k \/ o \in 0 .. k - 1
  BY BlockInfoAssumption DEF Offsets, Blocks, Address
<1>2. /\ acc \in Scans /\ Solid(acc.done) /\ acc.size \in Nat
      /\ acc.last # NoFragment => acc.size >= 1 /\ acc.last \in Fragment /\ acc.last.from \in Int
  BY DEF Scanned, Scans, Fragment
<1>3. new \in Scans
  BY <1>1, <1>2, ScanTyped
<1>4. /\ Solid(done)
      /\ \A o \in 0 .. k - 1 : map[o] \in Inos => Holding(done, Address(victim, o))
  BY <1>2, CloseHolds DEF Scanned
<1>5. start # NoFragment \/ s \notin Inos
  BY BlockInfoAssumption DEF NoFragment
<1>6. start.from = a
  OBVIOUS
<1>. HIDE DEF start
<1>7. CASE s \notin Inos
  <2>1. new.done = done /\ new.last = NoFragment
    BY <1>7 DEF ScanPage
  <2>. HIDE DEF new, done
  <2>. QED
    BY <1>1, <1>3, <1>4, <1>7, <2>1 DEF Scanned, new
<1>8. CASE s \in Inos /\ acc.last = NoFragment
  <2>1. new.done = acc.done /\ new.last = start /\ new.size = 1
    BY <1>2, <1>8 DEF ScanPage, start, Scans
  <2>2. done = acc.done
    BY <1>8 DEF CloseFragment
  <2>3. a \in a .. a + 1 - 1 /\ a <= a + 1 /\ a + 1 >= a + 1 /\ (k + 1) - 1 = k
    BY <1>1
  <2>4. ASSUME NEW o \in 0 .. k, map[o] \in Inos
        PROVE  \/ Holding(new.done, Address(victim, o))
               \/ /\ new.last # NoFragment
                  /\ Address(victim, o) \in new.last.from .. new.last.from + new.size - 1
    <3>1. CASE o = k
      BY <1>5, <1>6, <1>8, <2>1, <2>3, <3>1
    <3>2. CASE o \in 0 .. k - 1
      <4>. HIDE DEF new
      <4>. QED
        BY <1>4, <2>1, <2>2, <2>4, <3>2
    <3>. QED
      BY <1>1, <3>1, <3>2
  <2>5. Solid(new.done) /\ new.size >= 1 /\ new.last.from = a
    BY <1>2, <1>6, <2>1
  <2>. HIDE DEF new, done, a
  <2>6. Scanned(new, map, victim, k + 1)
    BY <1>1, <1>3, <2>1, <2>3, <2>4, <2>5 DEF Scanned
  <2>. QED
    BY <2>6 DEF new, a
<1>9. CASE s \in Inos /\ acc.last # NoFragment /\ acc.last.ino = s
  <2>1. new.done = acc.done /\ new.last = acc.last /\ new.size = acc.size + 1
    BY <1>9, <1>2 DEF ScanPage, Scans
  <2>2. /\ acc.last.from \in Int /\ acc.size \in Nat
        /\ acc.last.from <= a /\ acc.last.from + acc.size >= a
    BY <1>2, <1>9 DEF Scanned
  <2>3. a \in acc.last.from .. acc.last.from + (acc.size + 1) - 1
    BY <1>1, <2>2
  <2>4. \A x : x \in acc.last.from .. acc.last.from + acc.size - 1 =>
                 x \in acc.last.from .. acc.last.from + (acc.size + 1) - 1
    BY <2>2
  <2>5. new.size >= 1 /\ new.last.from <= a + 1 /\ new.last.from + new.size >= a + 1
    BY <1>1, <2>1, <2>2
  <2>6. ASSUME NEW o \in 0 .. k, map[o] \in Inos
        PROVE  \/ Holding(new.done, Address(victim, o))
               \/ /\ new.last # NoFragment
                  /\ Address(victim, o) \in new.last.from .. new.last.from + new.size - 1
    <3>1. CASE o = k
      BY <1>9, <2>1, <2>3, <3>1
    <3>2. CASE o \in 0 .. k - 1
      <4>. HIDE DEF new
      <4>. QED
        BY <1>9, <2>1, <2>4, <2>6, <3>2 DEF Scanned
    <3>. QED
      BY <1>1, <3>1, <3>2
  <2>7. k = (k + 1) - 1
    BY <1>1
  <2>. HIDE DEF new, a
  <2>8. Scanned(new, map, victim, k + 1)
    BY <1>1, <1>2, <1>3, <2>1, <2>5, <2>6, <2>7 DEF Scanned
  <2>. QED
    BY <2>8 DEF new, a
<1>10. CASE s \in Inos /\ acc.last # NoFragment /\ acc.last.ino # s
  <2>1. new.done = done /\ new.last = start /\ new.size = acc.size
    BY <1>10, <1>2 DEF ScanPage, start, Scans
  <2>2. /\ acc.size \in Nat /\ acc.size >= 1 /\ a \in a .. a + acc.size - 1
        /\ a <= a + 1 /\ a + acc.size >= a + 1
    BY <1>1, <1>2, <1>10
  <2>. HIDE DEF new, done, a
  <2>3. Scanned(new, map, victim, k + 1)
    BY <1>1, <1>3, <1>4, <1>5, <1>6, <1>10, <2>1, <2>2 DEF Scanned, a
  <2>. QED
    BY <2>3 DEF new, a
<1>. QED
  BY <1>7, <1>8, <1>9, <1>10

LEMMA FragmentsCover ==
  ASSUME NEW tbl, NEW victim \in Blocks
  PROVE  LET frags == Fragments(tbl, victim) IN
         /\ frags \in Seq(Fragment)
         /\ Solid(frags)
         /\ \A o \in Offsets :
              tbl[victim].used_map[o] \in Inos => Holding(frags, Address(victim, o))
<1>. DEFINE n == PagesPerBlock
            map == tbl[victim].used_map
<1>1. PICK f : ScanSteps(f, tbl, victim)
  BY FragmentsIs
<1>. DEFINE K == {k \in 0 .. n : Scanned(f[k], map, victim, k)}
<1>2. n \in Nat /\ Offsets = 0 .. n - 1
  BY BlockInfoAssumption DEF Offsets
<1>3. 0 \in K
  <2>1. NoScan \in Scans /\ Solid(NoScan.done) /\ NoScan.last = NoFragment
    BY DEF NoScan, Scans, Solid
  <2>2. Scanned(NoScan, map, victim, 0)
    BY <2>1 DEF Scanned
  <2>. QED
    BY <1>1, <1>2, <2>2 DEF ScanSteps
<1>4. ASSUME NEW k \in 1 .. n, k - 1 \in K PROVE k \in K
  <2>1. k - 1 \in Offsets /\ (k - 1) + 1 = k /\ k \in 0 .. n
    BY <1>2
  <2>2. f[k] = ScanPage(f[k - 1], Address(victim, k - 1), map[k - 1])
    BY <1>1, <1>4 DEF ScanSteps
  <2>3. Scanned(f[k - 1], map, victim, k - 1)
    BY <1>4
  <2>. HIDE DEF map
  <2>4. Scanned(f[k], map, victim, k)
    BY <2>1, <2>2, <2>3, ScanKeeps
  <2>. QED
    BY <2>1, <2>4
<1>5. n \in K
  <2>. HIDE DEF K, n
  <2>. QED
    BY <1>2, <1>3, <1>4, UpTo
<1>6. Scanned(f[n], map, victim, n)
  BY <1>5
<1>7. CloseFragment(f[n]) = Fragments(tbl, victim)
  BY <1>1 DEF ScanSteps
<1>8. f[n] \in Scans /\ Solid(f[n].done) /\ (f[n].last # NoFragment => f[n].size >= 1)
  BY <1>6 DEF Scanned
<1>. HIDE DEF map, n, K
<1>9. \A o \in Offsets : map[o] \in Inos => Holding(CloseFragment(f[n]), Address(victim, o))
  BY <1>2, <1>6, <1>8, CloseHolds DEF Scanned
<1>. QED
  BY <1>7, <1>8, <1>9, CloseHolds, CloseTyped DEF map

(* A move of a plan made for the table has at least one page and goes to the *)
(* mark of another block with room for it; every busy page is in some move.  *)
LEMMA MovesPlanned ==
  ASSUME TypeOK, ReserveExact, NEW victim \in Blocks,
         \A g \in DOMAIN Moves(table, victim) : Moves(table, victim)[g].to # NoPos
  PROVE  LET moves == Moves(table, victim) IN
         /\ moves \in Seq(Move)
         /\ \A g \in DOMAIN moves :
              moves[g].size >= 1 /\ FitsIn(table, Blocks \ {victim}, moves[g].size, moves[g].to)
         /\ \A o \in Offsets :
              table[victim].used_map[o] \in Inos => Holding(moves, Address(victim, o))
<1>. DEFINE frags == Fragments(table, victim)
            moves == Moves(table, victim)
            P(g) == [ino |-> frags[g].ino, size |-> frags[g].size, from |-> frags[g].from,
                     to |-> FindWritePosExcept(table, frags[g].size, victim)]
<1>1. /\ frags \in Seq(Fragment) /\ Solid(frags)
      /\ \A o \in Offsets :
           table[victim].used_map[o] \in Inos => Holding(frags, Address(victim, o))
  BY FragmentsCover
<1>2. moves = [g \in 1 .. Len(frags) |-> P(g)]
  BY <1>1 DEF Moves
<1>3. DOMAIN frags = 1 .. Len(frags) /\ Len(frags) \in Nat
  BY <1>1
<1>. HIDE DEF frags
<1>4. ASSUME NEW g \in 1 .. Len(frags)
      PROVE  /\ moves[g] = P(g) /\ P(g) \in Move /\ P(g).size >= 1
             /\ FitsIn(table, Blocks \ {victim}, P(g).size, P(g).to)
  <2>. DEFINE n == frags[g].size
              S == Blocks \ {victim}
              place == FindWritePosExcept(table, n, victim)
  <2>1. frags[g] \in Fragment /\ n \in Nat \ {0} /\ S \in SUBSET Blocks
    <3>1. frags[g] \in Fragment
      BY <1>1, <1>3
    <3>2. frags[g].size >= 1 /\ frags[g].size \in Nat
      BY <1>1, <1>3, <3>1 DEF Fragment, Solid
    <3>. QED
      BY <3>1, <3>2
  <2>2. moves[g] = P(g) /\ g \in DOMAIN moves
    BY <1>2
  <2>3. moves[g].to # NoPos
    BY <2>2
  <2>4. place # NoPos
    BY <2>2, <2>3
  <2>5. place = FirstFree(table, {b \in S : table[b].reserved_size >= n})
    BY DEF FindWritePosExcept
  <2>. HIDE DEF place, n, S, moves
  <2>6. FitsIn(table, S, n, place)
    BY <2>1, <2>4, <2>5, FirstFreeFits
  <2>7. place \in Pages
    BY <2>1, <2>6, AddressParts DEF FitsIn
  <2>8. P(g) = [ino |-> frags[g].ino, size |-> n, from |-> frags[g].from, to |-> place]
    BY DEF n, place
  <2>. HIDE DEF P
  <2>. QED
    BY <2>1, <2>2, <2>6, <2>7, <2>8 DEF Move, Fragment, n, S
<1>5. DOMAIN moves = 1 .. Len(frags)
  BY <1>2
<1>6. \A g \in 1 .. Len(frags) :
        /\ moves[g] \in Move /\ moves[g].size >= 1
        /\ FitsIn(table, Blocks \ {victim}, moves[g].size, moves[g].to)
        /\ moves[g].from = frags[g].from /\ moves[g].size = frags[g].size
  <2>1. \A g \in 1 .. Len(frags) : P(g).from = frags[g].from /\ P(g).size = frags[g].size
    OBVIOUS
  <2>. HIDE DEF moves, P
  <2>. QED
    BY <1>4, <2>1
<1>7. moves = [g \in 1 .. Len(frags) |-> moves[g]]
  BY <1>2
<1>. HIDE DEF moves, P
<1>8. moves \in Seq(Move)
  BY <1>3, <1>6, <1>7
<1>9. \A a : Holding(frags, a) => Holding(moves, a)
  BY <1>3, <1>5, <1>6 DEF Holding, InFragment
<1>. QED
  BY <1>1, <1>5, <1>6, <1>8, <1>9 DEF moves

-----------------------------------------------------------------------------
(* The inductive invariant.                                                  *)

Mark(a) == table[BlockOf(a)].reserved_offset

(* A run goes on where its block's reserve begins; one that shares its place *)
(* goes on below.                                                            *)
RunPlaced ==
  run # Idle =>
    /\ OffsetOf(run.next) + run.left <= PagesPerBlock
    /\ OffsetOf(run.next) <= Mark(run.next)
    /\ SharesPlace \/ OffsetOf(run.next) = Mark(run.next)

(* How far the collector is: the run is that of the move begun last.         *)
GroupAt ==
  group # Idle =>
    /\ group.begun \in 0 .. Len(group.moves)
    /\ run = Idle => group.drops = {}
    /\ run # Idle => /\ group.begun \in DOMAIN group.moves
                     /\ BlockOf(run.next) = BlockOf(group.moves[group.begun].to)

(* Every move has room in another block, at its mark as long as none to the  *)
(* same place has begun.                                                     *)
PlacesHold ==
  group # Idle =>
    \A g \in DOMAIN group.moves :
      LET mv == group.moves[g] IN
      /\ mv.size >= 1 /\ BlockOf(mv.to) # group.victim
      /\ OffsetOf(mv.to) + mv.size <= PagesPerBlock
      /\ OffsetOf(mv.to) <= Mark(mv.to)
      /\ \A k \in DOMAIN group.moves :
           BlockOf(group.moves[k].to) = BlockOf(mv.to) => group.moves[k].to = mv.to
      /\ g > group.begun =>
           \/ OffsetOf(mv.to) = Mark(mv.to)
           \/ \E k \in 1 .. group.begun : group.moves[k].to = mv.to

(* A busy page of the victim is still to be set dirty.                       *)
VictimCovered ==
  group # Idle =>
    \A o \in Offsets :
      table[group.victim].used_map[o] \in Inos =>
        \/ Address(group.victim, o) \in group.drops
        \/ \E g \in DOMAIN group.moves :
             g > group.begun /\ InFragment(group.moves[g], Address(group.victim, o))

Counted == \A b \in Blocks : BlockCounted(table[b])

IInv ==
  TypeOK /\ ReserveExact /\ Counted /\ RunPlaced /\ GroupAt /\ PlacesHold /\ VictimCovered

LEMMA InitIInv == Init => IInv
<1>. SUFFICES ASSUME Init PROVE IInv
  OBVIOUS
<1>1. TypeOK
  BY CleanBlockType DEF Init, TypeOK
<1>2. ReserveExact
  BY CleanBlockExact, BlocksExact DEF Init
<1>3. Counted
  BY CleanBlockCounted DEF Init, Counted
<1>. QED
  BY <1>1, <1>2, <1>3 DEF IInv, RunPlaced, GroupAt, PlacesHold, VictimCovered, Init

LEMMA BeginRunIInv ==
  ASSUME IInv, NEW ino \in Inos, NEW n \in 1..PagesPerBlock, BeginRun(ino, n)
  PROVE  IInv'
<1>. DEFINE a == FindWritePos(table, n)
<1>1. a # NoPos /\ a = FirstFree(table, {b \in Blocks : table[b].reserved_size >= n})
  BY DEF BeginRun, FindWritePos
<1>2. FitsIn(table, Blocks, n, a)
  <2>1. n \in Nat \ {0} /\ Blocks \in SUBSET Blocks
    BY BlockInfoAssumption
  <2>. HIDE DEF a
  <2>. QED
    BY <1>1, <2>1, FirstFreeFits DEF IInv
<1>3. run' = [next |-> a, left |-> n, ino |-> ino] /\ table' = table
      /\ programmed' = programmed /\ group' = group /\ group = Idle
  BY DEF BeginRun
<1>. HIDE DEF a
<1>4. PICK b \in Blocks : /\ table[b].reserved_offset \in Offsets
                          /\ table[b].reserved_offset + n <= PagesPerBlock
                          /\ a = Address(b, table[b].reserved_offset)
  BY <1>2 DEF FitsIn
<1>5. a \in Pages /\ BlockOf(a) = b /\ OffsetOf(a) = table[b].reserved_offset
  BY <1>4, AddressParts
<1>6. TypeOK'
  BY <1>3, <1>5 DEF IInv, TypeOK, Run
<1>7. RunPlaced'
  BY <1>3, <1>4, <1>5 DEF RunPlaced, Mark, Offsets
<1>. QED
  BY <1>3, <1>6, <1>7 DEF IInv, ReserveExact, Counted, GroupAt, PlacesHold, VictimCovered

(* What a step that writes the run's next page does.                         *)
LEMMA WritePageResult ==
  ASSUME IInv, WritePage
  PROVE  LET b == BlockOf(run.next)
             o == OffsetOf(run.next)
         IN /\ run \in Run /\ b \in Blocks /\ o \in Offsets /\ run.next = Address(b, o)
            /\ o <= table[b].reserved_offset /\ table[b].reserved_offset < PagesPerBlock
            /\ table[b].reserved_offset \in Nat
            /\ table' = [table EXCEPT ![b] = ProgramPage(table[b], o, run.ino)]
            /\ table'[b].used_map = [table[b].used_map EXCEPT ![o] = run.ino]
            /\ table'[b].reserved_offset = table[b].reserved_offset + 1
            /\ \A c \in Blocks : c # b => table'[c] = table[c]
<1>. DEFINE b == BlockOf(run.next)
            o == OffsetOf(run.next)
<1>1. run \in Run /\ run # Idle /\ run.next \in Pages /\ run.ino \in Inos
  BY DEF WritePage, IInv, TypeOK, Run
<1>2. b \in Blocks /\ o \in Offsets /\ run.next = Address(b, o)
  BY <1>1, PageParts
<1>3. o <= table[b].reserved_offset
  BY <1>1 DEF IInv, RunPlaced, Mark
<1>4. Exact(table[b], b, programmed) /\ table[b] \in BlockRecord
  BY <1>2, BlocksExact DEF IInv, TypeOK
<1>5. table[b].reserved_offset < PagesPerBlock /\ table[b].reserved_offset \in Nat
  BY <1>4, BlockInfoAssumption DEF WritePage, Exact
<1>6. table' = [table EXCEPT ![b] = ProgramPage(table[b], o, run.ino)]
  BY DEF WritePage
<1>7. table'[b] = ProgramPage(table[b], o, run.ino) /\ \A c \in Blocks : c # b => table'[c] = table[c]
  BY <1>2, <1>6 DEF IInv, TypeOK
<1>8. /\ table'[b].used_map = [table[b].used_map EXCEPT ![o] = run.ino]
      /\ table'[b].reserved_offset = table[b].reserved_offset + 1
  BY <1>1, <1>2, <1>4, <1>7, ProgramPageResult
<1>. QED
  BY <1>1, <1>2, <1>3, <1>5, <1>6, <1>7, <1>8

LEMMA WritePageIInv ==
  ASSUME IInv, WritePage
  PROVE  IInv'
<1>. DEFINE b == BlockOf(run.next)
            o == OffsetOf(run.next)
<1>1. /\ run \in Run /\ b \in Blocks /\ o \in Offsets /\ run.next = Address(b, o)
      /\ o <= table[b].reserved_offset /\ table[b].reserved_offset < PagesPerBlock
      /\ table[b].reserved_offset \in Nat
      /\ table' = [table EXCEPT ![b] = ProgramPage(table[b], o, run.ino)]
      /\ table'[b].reserved_offset = table[b].reserved_offset + 1
      /\ \A c \in Blocks : c # b => table'[c] = table[c]
  BY WritePageResult
<1>2. /\ run # Idle /\ group' = group /\ (group # Idle => group.drops = {})
      /\ programmed' = programmed \cup {Address(b, o)}
  BY <1>1 DEF WritePage
<1>3. table[b] \in BlockRecord /\ run.ino \in Inos /\ run.next \in Pages
  BY <1>1 DEF IInv, TypeOK, Run
<1>4. table'[b] = ProgramPage(table[b], o, run.ino)
  BY <1>1 DEF IInv, TypeOK
<1>. HIDE DEF b, o
<1>5. ReserveExact'
  <2>1. Exact(table'[b], b, programmed')
    BY <1>1, <1>2, <1>3, <1>4, BlocksExact, ProgramExact DEF IInv
  <2>2. ASSUME NEW c \in Blocks, c # b PROVE Exact(table'[c], c, programmed')
    <3>1. \A p \in Offsets : Address(c, p) # Address(b, o)
      BY <1>1, <2>2, AddressParts
    <3>2. Exact(table[c], c, programmed)
      BY BlocksExact DEF IInv
    <3>3. table'[c] = table[c]
      BY <1>1, <2>2
    <3>. QED
      BY <1>2, <3>1, <3>2, <3>3 DEF Exact
  <2>3. \A c \in Blocks : Exact(table'[c], c, programmed')
    BY <2>1, <2>2
  <2>. QED
    BY <2>3 DEF ReserveExact, Exact
<1>6. Counted'
  <2>1. BlockCounted(table'[b])
    BY <1>1, <1>3, <1>4, ProgramPageCounted DEF IInv, Counted
  <2>. QED
    BY <1>1, <2>1 DEF IInv, Counted
<1>7. SharesPlace' = SharesPlace
  BY <1>2 DEF SharesPlace
<1>8. /\ run' \in Run \cup {Idle}
      /\ run' # Idle =>
           /\ run'.next \in Pages /\ BlockOf(run'.next) = b /\ OffsetOf(run'.next) = o + 1
           /\ run'.left = run.left - 1
  <2>1. CASE run.left = 1
    BY <2>1 DEF WritePage
  <2>2. CASE run.left # 1
    <3>1. run' = [next |-> run.next + 1, left |-> run.left - 1, ino |-> run.ino]
      BY <1>1, <2>2 DEF WritePage, Run
    <3>2. run.left \in 1..PagesPerBlock /\ o + run.left <= PagesPerBlock
      BY <1>1, <1>2 DEF IInv, RunPlaced, Run, o
    <3>3. o + 1 < PagesPerBlock
      BY <1>1, <2>2, <3>2, BlockInfoAssumption DEF Offsets
    <3>4. /\ run.next + 1 \in Pages
          /\ BlockOf(run.next + 1) = b
          /\ OffsetOf(run.next + 1) = o + 1
      BY <1>3, <3>3, PageBehind DEF b, o
    <3>5. run.left - 1 \in 1..PagesPerBlock
      BY <2>2, <3>2, BlockInfoAssumption
    <3>. QED
      BY <1>3, <3>1, <3>4, <3>5 DEF Run
  <2>. QED
    BY <2>1, <2>2
<1>9. RunPlaced'
  <2>. SUFFICES ASSUME run' # Idle
                PROVE  /\ (o + 1) + (run.left - 1) <= PagesPerBlock
                       /\ o + 1 <= table[b].reserved_offset + 1
                       /\ SharesPlace \/ o + 1 = table[b].reserved_offset + 1
    BY <1>1, <1>7, <1>8 DEF RunPlaced, Mark
  <2>1. run.left \in Nat /\ o + run.left <= PagesPerBlock /\ o \in Nat
    BY <1>1, <1>2 DEF IInv, RunPlaced, Run, Offsets, o
  <2>2. SharesPlace \/ o = table[b].reserved_offset
    BY <1>2 DEF IInv, RunPlaced, Mark, o, b
  <2>. QED
    BY <1>1, <2>1, <2>2, BlockInfoAssumption
<1>10. TypeOK'
  <2>1. table' \in [Blocks -> BlockRecord]
    BY <1>1, <1>3, ProgramPageResult DEF IInv, TypeOK
  <2>. QED
    BY <1>2, <1>3, <1>8, <2>1, <1>1 DEF IInv, TypeOK
<1>11. GroupAt'
  <2>1. group # Idle => /\ group.begun \in DOMAIN group.moves
                        /\ b = BlockOf(group.moves[group.begun].to)
    BY <1>2 DEF IInv, GroupAt, b
  <2>. QED
    BY <1>2, <1>8, <2>1 DEF IInv, GroupAt
<1>12. PlacesHold'
  <2>. SUFFICES ASSUME group # Idle, NEW g \in DOMAIN group.moves
                PROVE  LET mv == group.moves[g] IN
                       /\ OffsetOf(mv.to) <= Mark(mv.to)'
                       /\ g > group.begun =>
                            \/ OffsetOf(mv.to) = Mark(mv.to)'
                            \/ \E k \in 1 .. group.begun : group.moves[k].to = mv.to
    BY <1>2 DEF IInv, PlacesHold
  <2>. DEFINE to == group.moves[g].to
  <2>1. to \in Pages /\ group.begun \in DOMAIN group.moves /\ group.begun \in 1 .. group.begun
        /\ b = BlockOf(group.moves[group.begun].to)
    <3>1. group.moves \in Seq(Move)
      BY DEF IInv, TypeOK, Plan
    <3>2. group.moves[g] \in Move
      BY <3>1
    <3>3. /\ group.begun \in DOMAIN group.moves
          /\ b = BlockOf(group.moves[group.begun].to)
      BY <1>2 DEF IInv, GroupAt, b
    <3>4. group.begun \in 1 .. group.begun
      BY <3>1, <3>3
    <3>. QED
      BY <3>2, <3>3, <3>4 DEF Move
  <2>2. BlockOf(to) \in Blocks /\ OffsetOf(to) \in Nat
    BY <2>1, PageParts DEF Offsets
  <2>3. CASE BlockOf(to) = b
    <3>1. group.moves[group.begun].to = to
      BY <2>1, <2>3 DEF IInv, PlacesHold
    <3>2. OffsetOf(to) <= table[b].reserved_offset
      BY <2>3 DEF IInv, PlacesHold, Mark
    <3>. QED
      BY <1>1, <1>2, <2>1, <2>2, <2>3, <3>1, <3>2 DEF Mark
  <2>4. CASE BlockOf(to) # b
    <3>1. Mark(to)' = Mark(to)
      BY <1>1, <1>2, <2>2, <2>4 DEF Mark
    <3>. QED
      BY <3>1 DEF IInv, PlacesHold
  <2>. QED
    BY <2>3, <2>4
<1>13. VictimCovered'
  <2>. SUFFICES ASSUME group # Idle PROVE table'[group.victim] = table[group.victim]
    BY <1>2 DEF IInv, VictimCovered
  <2>1. b # group.victim /\ group.victim \in Blocks
    BY <1>2 DEF IInv, TypeOK, Plan, GroupAt, PlacesHold, b
  <2>. QED
    BY <1>1, <2>1
<1>. QED
  BY <1>5, <1>6, <1>9, <1>10, <1>11, <1>12, <1>13 DEF IInv

(* A page set dirty disturbs neither the marks nor the counters.             *)
LEMMA SetDirtyResult ==
  ASSUME IInv, NEW a \in Pages, SetDirty(a), UNCHANGED programmed
  PROVE  /\ table' \in [Blocks -> BlockRecord] /\ ReserveExact' /\ Counted'
         /\ \A c \in Blocks : table'[c].reserved_offset = table[c].reserved_offset
         /\ \A c \in Blocks, o \in Offsets :
              table'[c].used_map[o] = IF Address(c, o) = a THEN Dirty ELSE table[c].used_map[o]
<1>. DEFINE b == BlockOf(a)
            p == OffsetOf(a)
<1>1. b \in Blocks /\ p \in Offsets /\ a = Address(b, p)
  BY PageParts
<1>2. table \in [Blocks -> BlockRecord] /\ table' = [table EXCEPT ![b] = SetPage(table[b], p, Dirty)]
  BY DEF IInv, TypeOK, SetDirty
<1>3. table[b] \in BlockRecord /\ table[b].used_map \in [Offsets -> Statuses]
  BY <1>1, <1>2 DEF BlockRecord
<1>4. table'[b] = SetPage(table[b], p, Dirty) /\ \A c \in Blocks : c # b => table'[c] = table[c]
  BY <1>1, <1>2
<1>. HIDE DEF b, p
<1>5. /\ table'[b] \in BlockRecord
      /\ table'[b].used_map = [table[b].used_map EXCEPT ![p] = Dirty]
      /\ table'[b].reserved_offset = table[b].reserved_offset
  BY <1>1, <1>3, <1>4, DirtyResult
<1>6. table' \in [Blocks -> BlockRecord]
  BY <1>1, <1>2, <1>4, <1>5
<1>7. \A c \in Blocks : Exact(table'[c], c, programmed')
  <2>1. \A c \in Blocks : Exact(table[c], c, programmed)
    BY BlocksExact DEF IInv
  <2>2. Exact(table'[b], b, programmed)
    BY <1>1, <1>3, <1>4, <2>1, DirtyExact
  <2>. QED
    BY <1>4, <2>1, <2>2
<1>8. ReserveExact'
  BY <1>7 DEF ReserveExact, Exact
<1>9. Counted'
  <2>1. BlockCounted(table'[b])
    BY <1>1, <1>3, <1>4, SetPageCounted DEF IInv, Counted, Statuses
  <2>. QED
    BY <1>4, <2>1 DEF IInv, Counted
<1>10. ASSUME NEW c \in Blocks, NEW o \in Offsets
       PROVE  table'[c].used_map[o] = IF Address(c, o) = a THEN Dirty ELSE table[c].used_map[o]
  <2>1. Address(c, o) = a <=> c = b /\ o = p
    BY <1>1, AddressParts
  <2>. QED
    BY <1>3, <1>4, <1>5, <2>1
<1>11. \A c \in Blocks : table'[c].reserved_offset = table[c].reserved_offset
  BY <1>4, <1>5
<1>. QED
  BY <1>6, <1>8, <1>9, <1>10, <1>11

LEMMA DropPageIInv ==
  ASSUME IInv, NEW a \in Pages, DropPage(a)
  PROVE  IInv'
<1>1. /\ run = Idle /\ group = Idle /\ SetDirty(a)
      /\ programmed' = programmed /\ run' = run /\ group' = group
  BY DEF DropPage
<1>2. table' \in [Blocks -> BlockRecord] /\ ReserveExact' /\ Counted'
  BY <1>1, SetDirtyResult
<1>. QED
  BY <1>1, <1>2 DEF IInv, TypeOK, RunPlaced, GroupAt, PlacesHold, VictimCovered

LEMMA BeginCollectIInv ==
  ASSUME IInv, NEW n \in 1..PagesPerBlock, BeginCollect(n)
  PROVE  IInv'
<1>. DEFINE victim == ChooseGCBlock(table)
            moves == Moves(table, victim)
<1>1. /\ run = Idle /\ \A g \in DOMAIN moves : moves[g].to # NoPos
      /\ group' = [victim |-> victim, moves |-> moves, begun |-> 0, drops |-> {}]
      /\ table' = table /\ programmed' = programmed /\ run' = run
  BY DEF BeginCollect
<1>2. victim \in Blocks
  <2>1. table \in [Blocks -> Info]
    BY DEF IInv, TypeOK, Counted, Info
  <2>. QED
    BY <2>1, VictimIsBlock
<1>. HIDE DEF victim
<1>3. /\ moves \in Seq(Move)
      /\ \A g \in DOMAIN moves :
           moves[g].size >= 1 /\ FitsIn(table, Blocks \ {victim}, moves[g].size, moves[g].to)
      /\ \A o \in Offsets :
           table[victim].used_map[o] \in Inos => Holding(moves, Address(victim, o))
  BY <1>1, <1>2, MovesPlanned DEF IInv
<1>. HIDE DEF moves
<1>4. ASSUME NEW g \in DOMAIN moves
      PROVE  LET to == moves[g].to IN
             /\ moves[g].size >= 1 /\ BlockOf(to) # victim
             /\ OffsetOf(to) + moves[g].size <= PagesPerBlock
             /\ OffsetOf(to) = Mark(to) /\ Mark(to) \in Nat
             /\ to = Address(BlockOf(to), Mark(to))
  <2>1. PICK b \in Blocks \ {victim} :
          /\ table[b].reserved_offset \in Offsets
          /\ table[b].reserved_offset + moves[g].size <= PagesPerBlock
          /\ moves[g].to = Address(b, table[b].reserved_offset)
    BY <1>3 DEF FitsIn
  <2>2. BlockOf(moves[g].to) = b /\ OffsetOf(moves[g].to) = table[b].reserved_offset
    BY <2>1, AddressParts
  <2>. QED
    BY <1>3, <2>1, <2>2 DEF Mark, Offsets
<1>5. group' \in Plan
  BY <1>1, <1>2, <1>3 DEF Plan
<1>6. GroupAt'
  BY <1>1, <1>3 DEF GroupAt
<1>7. PlacesHold'
  <2>1. group'.moves = moves /\ group'.begun = 0 /\ group'.victim = victim
    BY <1>1
  <2>2. \A a : Mark(a)' = Mark(a)
    BY <1>1 DEF Mark
  <2>3. \A g, k \in DOMAIN moves :
          BlockOf(moves[k].to) = BlockOf(moves[g].to) => moves[k].to = moves[g].to
    BY <1>4 DEF Mark
  <2>. QED
    BY <1>4, <2>1, <2>2, <2>3 DEF PlacesHold
<1>8. VictimCovered'
  <2>1. DOMAIN moves \subseteq Nat \ {0}
    BY <1>3
  <2>2. group'.moves = moves /\ group'.begun = 0 /\ group'.victim = victim
    BY <1>1
  <2>. QED
    BY <1>1, <1>3, <2>1, <2>2 DEF VictimCovered, Holding
<1>. QED
  BY <1>1, <1>5, <1>6, <1>7, <1>8 DEF IInv, TypeOK, ReserveExact, Counted, RunPlaced

LEMMA BeginMoveIInv ==
  ASSUME IInv, BeginMove
  PROVE  IInv'
<1>. DEFINE nxt == group.begun + 1
            mv == group.moves[nxt]
<1>1. /\ run = Idle /\ group # Idle /\ group.begun < Len(group.moves)
      /\ group' = [group EXCEPT !.begun = @ + 1, !.drops = mv.from .. mv.from + mv.size - 1]
      /\ run' = [next |-> mv.to, left |-> mv.size, ino |-> mv.ino]
      /\ table' = table /\ programmed' = programmed
  BY DEF BeginMove
<1>2. group \in Plan /\ group.moves \in Seq(Move) /\ group.begun \in Nat /\ group.drops = {}
  BY <1>1 DEF IInv, TypeOK, Plan, GroupAt
<1>3. nxt \in DOMAIN group.moves /\ nxt \in 1 .. Len(group.moves) /\ mv \in Move
  <2>1. nxt \in 1 .. Len(group.moves)
    BY <1>1, <1>2
  <2>. QED
    BY <1>2, <2>1
<1>4. /\ group'.victim = group.victim /\ group'.moves = group.moves /\ group'.begun = nxt
      /\ group'.drops = mv.from .. mv.from + mv.size - 1 /\ group' \in Plan
  <2>1. mv.from \in Int /\ mv.size \in Nat
    BY <1>3 DEF Move
  <2>2. mv.from .. mv.from + mv.size - 1 \in SUBSET Int /\ nxt \in Nat
    BY <1>2, <2>1
  <2>3. group' = [victim |-> group.victim, moves |-> group.moves, begun |-> nxt,
                  drops |-> mv.from .. mv.from + mv.size - 1]
    BY <1>1, <1>2 DEF Plan
  <2>. HIDE DEF mv, nxt
  <2>. QED
    BY <1>2, <2>2, <2>3 DEF Plan
<1>5. /\ mv.size \in 1..PagesPerBlock /\ mv.to \in Pages /\ mv.ino \in Inos
      /\ OffsetOf(mv.to) + mv.size <= PagesPerBlock
      /\ OffsetOf(mv.to) <= Mark(mv.to)
      /\ OffsetOf(mv.to) = Mark(mv.to) \/ \E k \in 1 .. group.begun : group.moves[k].to = mv.to
  <2>1. /\ mv.size >= 1 /\ OffsetOf(mv.to) + mv.size <= PagesPerBlock
        /\ OffsetOf(mv.to) <= Mark(mv.to)
        /\ nxt > group.begun =>
             OffsetOf(mv.to) = Mark(mv.to) \/ \E k \in 1 .. group.begun : group.moves[k].to = mv.to
    BY <1>1, <1>3 DEF IInv, PlacesHold
  <2>2. mv.to \in Pages /\ mv.size \in Nat /\ mv.ino \in Inos
    BY <1>3 DEF Move
  <2>3. OffsetOf(mv.to) \in Nat
    BY <2>2, PageParts DEF Offsets
  <2>4. nxt > group.begun
    BY <1>2
  <2>. HIDE DEF mv, nxt
  <2>. QED
    BY <2>1, <2>2, <2>3, <2>4, BlockInfoAssumption
<1>. HIDE DEF mv
<1>6. run' \in Run /\ run'.next = mv.to /\ run'.left = mv.size
  BY <1>1, <1>5 DEF Run
<1>7. group' # Idle /\ run' # Idle
  BY <1>4, <1>6, IdleAssumption
<1>8. \A a : Mark(a)' = Mark(a)
  BY <1>1 DEF Mark
<1>9. RunPlaced'
  <2>1. (\E k \in 1 .. group.begun : group.moves[k].to = mv.to) => SharesPlace'
    <3>1. group'.begun - 1 = group.begun
      BY <1>2, <1>4
    <3>. QED
      BY <1>4, <1>7, <3>1 DEF SharesPlace, mv
  <2>. QED
    BY <1>5, <1>6, <1>8, <2>1 DEF RunPlaced
<1>10. GroupAt'
  BY <1>2, <1>3, <1>4, <1>6, <1>7 DEF GroupAt, mv
<1>11. PlacesHold'
  <2>1. \A g \in DOMAIN group.moves : g > nxt => g > group.begun
    BY <1>2
  <2>2. 1 .. group.begun \subseteq 1 .. nxt
    BY <1>2
  <2>. HIDE DEF nxt
  <2>. QED
    BY <1>1, <1>4, <1>8, <2>1, <2>2 DEF IInv, PlacesHold
<1>12. VictimCovered'
  <2>1. \A g \in DOMAIN group.moves : g > group.begun => g = nxt \/ g > nxt
    BY <1>2
  <2>2. \A a : InFragment(mv, a) => a \in group'.drops
    BY <1>4 DEF InFragment
  <2>. HIDE DEF nxt
  <2>. QED
    BY <1>1, <1>2, <1>4, <2>1, <2>2 DEF IInv, VictimCovered, mv
<1>13. TypeOK'
  BY <1>1, <1>4, <1>6 DEF IInv, TypeOK
<1>. QED
  BY <1>1, <1>9, <1>10, <1>11, <1>12, <1>13 DEF IInv, ReserveExact, Counted

LEMMA DropMovedIInv ==
  ASSUME IInv, DropMoved
  PROVE  IInv'
<1>. DEFINE a == LeastOf(group.drops)
<1>1. /\ group # Idle /\ group.drops # {} /\ a \in Pages /\ SetDirty(a)
      /\ group' = [group EXCEPT !.drops = group.drops \ {a}]
      /\ programmed' = programmed /\ run' = run
  BY DEF DropMoved
<1>. HIDE DEF a
<1>2. group \in Plan
  BY <1>1 DEF IInv, TypeOK
<1>3. /\ group' \in Plan /\ group' # Idle
      /\ group'.victim = group.victim /\ group'.moves = group.moves
      /\ group'.begun = group.begun /\ group'.drops = group.drops \ {a}
  BY <1>1, <1>2, IdleAssumption DEF Plan
<1>4. /\ table' \in [Blocks -> BlockRecord] /\ ReserveExact' /\ Counted'
      /\ \A c \in Blocks : table'[c].reserved_offset = table[c].reserved_offset
      /\ \A c \in Blocks, o \in Offsets :
           table'[c].used_map[o] = IF Address(c, o) = a THEN Dirty ELSE table[c].used_map[o]
  BY <1>1, SetDirtyResult
<1>5. TypeOK'
  BY <1>1, <1>3, <1>4 DEF IInv, TypeOK
<1>6. \A x \in Pages : Mark(x)' = Mark(x)
  BY <1>4, PageParts DEF Mark
<1>7. SharesPlace' = SharesPlace
  BY <1>1, <1>3 DEF SharesPlace
<1>8. RunPlaced'
  <2>1. run # Idle => run.next \in Pages
    BY DEF IInv, TypeOK, Run
  <2>. QED
    BY <1>1, <1>6, <1>7, <2>1 DEF IInv, RunPlaced
<1>9. GroupAt'
  BY <1>1, <1>3 DEF IInv, GroupAt
<1>10. PlacesHold'
  <2>1. \A g \in DOMAIN group.moves : group.moves[g].to \in Pages
    <3>1. group.moves \in Seq(Move)
      BY <1>2 DEF Plan
    <3>2. \A g \in DOMAIN group.moves : group.moves[g] \in Move
      BY <3>1
    <3>. QED
      BY <3>2 DEF Move
  <2>. QED
    BY <1>1, <1>3, <1>6, <2>1 DEF IInv, PlacesHold
<1>11. VictimCovered'
  <2>. SUFFICES ASSUME NEW o \in Offsets, table'[group.victim].used_map[o] \in Inos
                PROVE  /\ table[group.victim].used_map[o] \in Inos
                       /\ Address(group.victim, o) # a
    BY <1>1, <1>3 DEF IInv, VictimCovered
  <2>1. group.victim \in Blocks /\ Dirty \notin Inos
    BY <1>2, BlockInfoAssumption DEF Plan
  <2>. QED
    BY <1>4, <2>1
<1>. QED
  BY <1>4, <1>5, <1>8, <1>9, <1>10, <1>11 DEF IInv

(* What is left of the victim when its moves are done.                       *)
LEMMA NothingBusyLeft ==
  ASSUME IInv, EraseVictim
  PROVE  /\ group.victim \in Blocks
         /\ \A o \in Offsets : table[group.victim].used_map[o] \notin Inos
<1>1. /\ run = Idle /\ group # Idle /\ group.begun = Len(group.moves)
      /\ group.victim \in Blocks /\ group.moves \in Seq(Move)
  BY DEF EraseVictim, IInv, TypeOK, Plan
<1>2. group.drops = {}
  BY <1>1 DEF IInv, GroupAt
<1>3. \A g \in DOMAIN group.moves : ~(g > group.begun)
  BY <1>1
<1>. QED
  BY <1>1, <1>2, <1>3 DEF IInv, VictimCovered

LEMMA EraseVictimIInv ==
  ASSUME IInv, EraseVictim
  PROVE  IInv'
<1>. DEFINE v == group.victim
<1>1. /\ run = Idle /\ run' = run /\ group' = Idle
      /\ table' = [table EXCEPT ![v] = CleanBlock]
      /\ programmed' = {a \in programmed : BlockOf(a) # v}
  BY DEF EraseVictim
<1>2. v \in Blocks
  BY NothingBusyLeft
<1>. HIDE DEF v
<1>3. table'[v] = CleanBlock /\ \A c \in Blocks : c # v => table'[c] = table[c]
  BY <1>1, <1>2 DEF IInv, TypeOK
<1>4. table' \in [Blocks -> BlockRecord]
  BY <1>1, <1>2, CleanBlockType DEF IInv, TypeOK
<1>5. \A c \in Blocks : Exact(table'[c], c, programmed')
  <2>1. \A o \in Offsets : Address(v, o) \notin programmed'
    BY <1>1, <1>2, AddressParts
  <2>2. Exact(table'[v], v, programmed')
    BY <1>2, <1>3, <2>1, CleanBlockExact
  <2>3. ASSUME NEW c \in Blocks, c # v PROVE Exact(table'[c], c, programmed')
    <3>1. Exact(table[c], c, programmed) /\ table'[c] = table[c]
      BY <1>3, <2>3, BlocksExact DEF IInv
    <3>2. programmed' \subseteq programmed
      BY <1>1
    <3>. QED
      BY <3>1, <3>2 DEF Exact
  <2>. QED
    BY <2>2, <2>3
<1>6. ReserveExact'
  BY <1>5 DEF ReserveExact, Exact
<1>7. Counted'
  BY <1>3, CleanBlockCounted DEF IInv, Counted
<1>. QED
  BY <1>1, <1>4, <1>6, <1>7
     DEF IInv, TypeOK, RunPlaced, GroupAt, PlacesHold, VictimCovered

(* Every block's mark separates what is written, a run goes on at its mark,  *)
(* and the collector's plan covers the block it empties.                     *)
THEOREM Invariance == Spec => []IInv
<1>1. IInv /\ [Next]_vars => IInv'
  <2>. SUFFICES ASSUME IInv, [Next]_vars PROVE IInv'
    OBVIOUS
  <2>1. CASE Next
    BY <2>1, BeginRunIInv, WritePageIInv, DropPageIInv, BeginCollectIInv, BeginMoveIInv,
       DropMovedIInv, EraseVictimIInv DEF Next
  <2>2. CASE UNCHANGED vars
    BY <2>2 DEF vars, IInv, TypeOK, ReserveExact, Counted, RunPlaced, GroupAt, PlacesHold,
                VictimCovered, Mark, SharesPlace
  <2>. QED
    BY <2>1, <2>2
<1>. QED
  BY InitIInv, <1>1, PTL DEF Spec

(* The block table, the runs and the plans keep their types.                 *)
THEOREM TypeCorrect == Spec => []TypeOK
<1>1. IInv => TypeOK
  BY DEF IInv
<1>. QED
  BY <1>1, Invariance, PTL

(* No page from reserved_offset on was written since the last erase, and     *)
(* reserved_size is what is left of the block, whatever pages are set dirty. *)
THEOREM ReserveCorrect == Spec => []ReserveExact
<1>1. IInv => ReserveExact
  BY DEF IInv
<1>. QED
  BY <1>1, Invariance, PTL

(* A run fits its block, and its pages are not written twice unless two      *)
(* moves of the collector share a destination.                               *)
THEOREM RunsFit == Spec => []RunFits
<1>1. IInv => RunFits
  <2>. SUFFICES ASSUME IInv, run # Idle
                PROVE  /\ OffsetOf(run.next) + run.left <= PagesPerBlock
                       /\ ~SharesPlace => \A d \in 0 .. run.left - 1 : run.next + d \notin programmed
    BY DEF RunFits
  <2>. DEFINE b == BlockOf(run.next)
              o == OffsetOf(run.next)
  <2>1. run.next \in Pages /\ run.left \in Nat
    BY DEF IInv, TypeOK, Run
  <2>2. b \in Blocks /\ o \in Offsets /\ run.next = Address(b, o)
    BY <2>1, PageParts
  <2>3. o + run.left <= PagesPerBlock /\ (SharesPlace \/ o = table[b].reserved_offset)
    BY DEF IInv, RunPlaced, Mark
  <2>. HIDE DEF b, o
  <2>4. ASSUME ~SharesPlace, NEW d \in 0 .. run.left - 1
        PROVE  run.next + d \notin programmed
    <3>1. o + d \in Offsets /\ o + d >= o
      BY <2>1, <2>2, <2>3, BlockInfoAssumption DEF Offsets
    <3>2. run.next + d = Address(b, o + d)
      BY <2>1, <2>2, <2>4, BlockInfoAssumption DEF Address, Blocks, Offsets
    <3>3. Exact(table[b], b, programmed)
      BY <2>2, BlocksExact DEF IInv
    <3>. QED
      BY <2>3, <2>4, <3>1, <3>2, <3>3 DEF Exact
  <2>. QED
    BY <2>3, <2>4 DEF o
<1>. QED
  BY <1>1, Invariance, PTL

(* The collector never erases a page that is still busy, and only it gives a *)
(* busy page away.                                                           *)
THEOREM PagesAreCycled == Spec => PagesCycle
<1>. DEFINE Cycle ==
       \A b \in Blocks, o \in Offsets :
         LET was == table[b].used_map[o]
             is  == table'[b].used_map[o]
         IN was # is =>
              \/ is = Dirty
              \/ is \in Inos /\ (was \notin Inos \/ group # Idle)
              \/ /\ is = Clean /\ table'[b] = CleanBlock
                 /\ \A p \in Offsets : table[b].used_map[p] \notin Inos
<1>1. IInv /\ [Next]_vars => [Cycle]_vars
  <2>. SUFFICES ASSUME IInv, Next, NEW b \in Blocks, NEW o \in Offsets,
                       table[b].used_map[o] # table'[b].used_map[o]
                PROVE  \/ table'[b].used_map[o] = Dirty
                       \/ /\ table'[b].used_map[o] \in Inos
                          /\ table[b].used_map[o] \notin Inos \/ group # Idle
                       \/ /\ table'[b].used_map[o] = Clean /\ table'[b] = CleanBlock
                          /\ \A p \in Offsets : table[b].used_map[p] \notin Inos
    BY DEF vars
  <2>1. CASE UNCHANGED table
    BY <2>1
  <2>2. CASE WritePage
    <3>. DEFINE c == BlockOf(run.next)
                q == OffsetOf(run.next)
    <3>1. /\ run \in Run /\ c \in Blocks /\ q \in Offsets
          /\ table'[c].used_map = [table[c].used_map EXCEPT ![q] = run.ino]
          /\ \A d \in Blocks : d # c => table'[d] = table[d]
      BY <2>2, WritePageResult
    <3>2. run # Idle /\ table[c].used_map \in [Offsets -> Statuses]
      BY <2>2, <3>1 DEF WritePage, IInv, TypeOK, BlockRecord
    <3>3. SharesPlace \/ q = table[c].reserved_offset
      BY <3>2 DEF IInv, RunPlaced, Mark
    <3>. HIDE DEF c, q
    <3>4. b = c /\ o = q
      BY <3>1, <3>2
    <3>5. table'[b].used_map[o] \in Inos
      BY <3>1, <3>2, <3>4 DEF Run
    <3>6. SharesPlace => group # Idle
      BY DEF SharesPlace
    <3>7. q = table[c].reserved_offset => table[c].used_map[q] \notin Inos
      <4>1. Exact(table[c], c, programmed)
        BY <3>1, BlocksExact DEF IInv
      <4>. QED
        BY <3>1, <4>1, BlockInfoAssumption DEF Exact, Offsets
    <3>. QED
      BY <3>3, <3>4, <3>5, <3>6, <3>7
  <2>3. ASSUME NEW a \in Pages, SetDirty(a), UNCHANGED programmed
        PROVE  table'[b].used_map[o] = Dirty
    BY <2>3, SetDirtyResult
  <2>4. CASE EraseVictim
    <3>1. group.victim \in Blocks /\ \A p \in Offsets : table[group.victim].used_map[p] \notin Inos
      BY <2>4, NothingBusyLeft
    <3>2. table' = [table EXCEPT ![group.victim] = CleanBlock]
      BY <2>4 DEF EraseVictim
    <3>3. b = group.victim /\ table'[b] = CleanBlock
      BY <3>1, <3>2 DEF IInv, TypeOK
    <3>. QED
      BY <3>1, <3>3 DEF CleanBlock
  <2>5. CASE \E a \in Pages : DropPage(a)
    BY <2>3, <2>5 DEF DropPage
  <2>6. CASE DropMoved
    BY <2>3, <2>6 DEF DropMoved
  <2>. QED
    BY <2>1, <2>2, <2>4, <2>5, <2>6 DEF Next, BeginRun, BeginCollect, BeginMove
<1>. QED
  BY <1>1, Invariance, PTL DEF Spec, PagesCycle

(* The collector chooses its victim by counters that never drift.            *)
THEOREM CountersCorrect == Spec => []CountersExact
<1>1. IInv => CountersExact
  <2>. SUFFICES ASSUME IInv, NEW b \in Blocks
                PROVE  /\ table[b].clean_num = Cardinality({o \in Offsets : table[b].used_map[o] = Clean})
                       /\ table[b].dirty_num = Cardinality({o \in Offsets : table[b].used_map[o] = Dirty})
                       /\ table[b].used_num = Cardinality({o \in Offsets : table[b].used_map[o] \in Inos})
    BY DEF CountersExact
  <2>1. /\ PagesIn(table[b].used_map, {Clean}) = {o \in Offsets : table[b].used_map[o] = Clean}
        /\ PagesIn(table[b].used_map, {Dirty}) = {o \in Offsets : table[b].used_map[o] = Dirty}
        /\ PagesIn(table[b].used_map, Inos) = {o \in Offsets : table[b].used_map[o] \in Inos}
    BY DEF PagesIn
  <2>. QED
    BY <2>1 DEF IInv, Counted, BlockCounted
<1>. QED
  BY <1>1, Invariance, PTL

-----------------------------------------------------------------------------
(* Mounting.                                                                 *)

(* A page of a copy is one of the image or erased.                           *)
Stored == {Image(k, saved)[p] : k \in Kinds, p \in ImagePage} \cup {ZeroPage}

MountTypeOK ==
  /\ saved \in SavedTables
  /\ disk \in [Kinds -> [Copies -> [ImagePage -> Stored]]]
  /\ waiting \in [Kinds -> [Copies -> [ImagePage -> Stored \cup {NoPage}]]]
  /\ step \in [kind : Kinds,
               at   : {"off", "read", "erase_first", "write_first", "erase_second", "set", "mounted"},
               page : ImagePage]
  /\ held \in [Kinds -> [ImagePage -> Stored]]

(* The first copy as it will be when the write cache is empty.               *)
Overlaid(k) == [p \in ImagePage |-> IF Waits(k, p) THEN waiting[k][1][p] ELSE disk[k][1][p]]

Good(k, copy) == Meaning(k, copy) = Meaning(k, Image(k, saved))

(* The second copy is whole, or the first is or will be.                     *)
Left(k) ==
  \/ disk[k][2][0] # ZeroPage /\ Good(k, disk[k][2])
  \/ disk[k][2] = BlankCopy /\ Good(k, Overlaid(k))
CopyLeft == \A k \in Kinds \ lost : Left(k)

(* The second copy stays until the first has been rewritten from it.         *)
RewriteCovered ==
  LET k == step.kind IN
  step.at \in {"erase_first", "write_first", "erase_second"} =>
    /\ disk[k][2][0] # ZeroPage /\ held[k] = disk[k][2]
    /\ step.at = "write_first" => \A p \in 0 .. step.page - 1 : Overlaid(k)[p] = held[k][p]
    /\ step.at = "erase_second" => Overlaid(k) = held[k]

MountIInv == MountTypeOK /\ CopyLeft /\ RewriteCovered

-----------------------------------------------------------------------------
LEMMA Sizes == ImagePages \in Nat \ {0} /\ 0 \in ImagePage
BY MetadataRegionsAssumption DEF ImagePage

LEMMA NothingStoredIsNoPage ==
  ASSUME saved \in SavedTables
  PROVE  NoPage \notin Stored
BY PagesDistinct, MetadataRegionsAssumption DEF Stored

LEMMA BlankStored == BlankCopy \in [ImagePage -> Stored] /\ BlankCopy[0] = ZeroPage
BY Sizes DEF BlankCopy, Stored

LEMMA NoCopyType == NoCopy \in [ImagePage -> Stored \cup {NoPage}]
BY DEF NoCopy

LEMMA ImageStored ==
  ASSUME NEW k \in Kinds
  PROVE  /\ Image(k, saved) \in [ImagePage -> Stored]
         /\ Torn(Image(k, saved)) \in [ImagePage -> Stored]
         /\ Torn(Image(k, saved))[0] = Image(k, saved)[0]
<1>1. Image(k, saved) = [p \in ImagePage |-> Image(k, saved)[p]]
  BY DEF Kinds, Image, EncodeBit, EncodePit, EncodeMap, EncodeSerial
<1>2. \A p \in ImagePage : Image(k, saved)[p] \in Stored
  BY DEF Stored
<1>. QED
  BY <1>1, <1>2, Sizes DEF Torn, Stored

LEMMA NoPairs ==
  ASSUME NEW S, S = {}, NEW p \in Nat
  PROVE  PairsOfPage(SetToSeq(S), p) = <<>>
<1>1. Cardinality(S) = 0 /\ 1 .. 0 = {}
  BY FS_EmptySet
<1>2. <<>> \in [1 .. 0 -> {}] /\ IsInjective(<<>>)
  BY DEF IsInjective
<1>3. SetToSeq(S) \in [1 .. 0 -> {}]
  BY <1>1, <1>2 DEF SetToSeq
<1>4. SetToSeq(S) = <<>>
  BY <1>1, <1>3
<1>5. \A n \in Nat : Min({n, 0}) = 0
  BY DEF Min
<1>6. p * PairsPerPage \in Nat /\ (p + 1) * PairsPerPage \in Nat
  BY MetadataRegionsAssumption
<1>7. PairsOfPage(SetToSeq(S), p) = SubSeq(<<>>, p * PairsPerPage + 1, 0)
  BY <1>4, <1>5, <1>6 DEF PairsOfPage
<1>8. <<>> \in Seq(S)
  OBVIOUS
<1>. QED
  BY <1>6, <1>7, <1>8, SubSeqEmpty

(* With no programmed page a blank copy reads as the image.                  *)
LEMMA BlankReadsAsNew ==
  ASSUME NEW k \in Kinds, saved = [b \in Blocks |-> [o \in Offsets |-> Clean]]
  PROVE  Good(k, BlankCopy)
<1>1. CASE k = "bit"
  <2>1. \A b \in Blocks : Bits(BlankCopy, b) = {}
    BY BlankStored DEF Bits
  <2>2. ASSUME NEW b \in Blocks PROVE Bits(EncodeBit(saved), b) = {}
    <3>1. EncodeBit(saved)[0] = [c \in Blocks |-> Bitmap(saved[c])]
      BY Sizes DEF EncodeBit
    <3>2. \A o \in Offsets : PagesPerBlock - 1 - o \in Offsets
      BY BlockInfoAssumption DEF Offsets
    <3>3. \A w \in Offsets : Bitmap(saved[b])[w] = 0
      BY <3>2 DEF Bitmap
    <3>. QED
      BY <3>1, <3>2, <3>3 DEF Bits
  <2>3. [b \in Blocks |-> Bits(BlankCopy, b)] = [b \in Blocks |-> Bits(EncodeBit(saved), b)]
    BY <2>1, <2>2
  <2>. QED
    BY <1>1, <2>3 DEF Good, Meaning, Image
<1>2. CASE k = "pit"
  <2>1. Owners(BlankCopy) = {}
    BY BlankStored DEF Owners, Strategy
  <2>2. Owned(saved) = {}
    <3>1. \A a \in Pages : BlockOf(a) \in Blocks /\ OffsetOf(a) \in Offsets
      <4>1. PagesPerBlock \in Nat \ {0} /\ BlockCount \in Nat \ {0}
        BY BlockInfoAssumption
      <4>2. \A a \in Pages : a \div PagesPerBlock \in Blocks /\ a % PagesPerBlock \in Offsets
        BY <4>1, Z3T(30) DEF Pages, Blocks, Offsets
      <4>. QED
        BY <4>2 DEF BlockOf, OffsetOf
    <3>. QED
      BY <3>1, BlockInfoAssumption DEF Owned
  <2>3. Owners(EncodeMap(saved)) = {}
    <3>1. Pairs(saved) = SetToSeq({<<a, saved[BlockOf(a)][OffsetOf(a)]>> : a \in {}})
      BY <2>2 DEF Pairs
    <3>2. \A p \in ImagePage : PairsOfPage(Pairs(saved), p) = <<>>
      BY <3>1, NoPairs DEF ImagePage
    <3>3. \A p \in ImagePage :
            EncodeMap(saved)[p] = ZeroPage \/ EncodeMap(saved)[p].pairs = <<>>
      BY <3>2 DEF EncodeMap
    <3>4. ToSet(<<>>) = {}
      BY DEF ToSet
    <3>5. \A p \in ImagePage : EncodeMap(saved)[p] # ZeroPage => ToSet(EncodeMap(saved)[p].pairs) = {}
      BY <3>3, <3>4
    <3>6. \A p \in ImagePage : p \in 0 .. p
      BY DEF ImagePage
    <3>7. PairsIn(EncodeMap(saved)) = {}
      <4>. HIDE DEF EncodeMap
      <4>. QED
        BY <3>5, <3>6 DEF PairsIn
    <3>. QED
      BY <3>7 DEF Owners
  <2>4. Owners(EncodeSerial) = {}
    BY Sizes DEF Owners, Strategy, EncodeSerial
  <2>. QED
    BY <1>2, <2>1, <2>3, <2>4 DEF Good, Meaning, Image, EncodePit
<1>. QED
  BY <1>1, <1>2 DEF Kinds

-----------------------------------------------------------------------------
(* The invariant.                                                            *)
LEMMA InitMountIInv == MountInit => MountIInv
<1>. SUFFICES ASSUME MountInit PROVE MountIInv
  OBVIOUS
<1>. DEFINE image(k) == Image(k, saved)
<1>1. /\ saved \in SavedTables
      /\ waiting = [k \in Kinds |-> [c \in Copies |-> NoCopy]]
      /\ step = Off
      /\ held = [k \in Kinds |-> BlankCopy]
  BY DEF MountInit
<1>2. /\ disk = [k \in Kinds |-> disk[k]]
      /\ \A k \in Kinds : disk[k] \in CopiesOf(k, saved)
  <2>1. PICK bit \in CopiesOf("bit", saved), pit \in CopiesOf("pit", saved) :
          disk = [k \in Kinds |-> IF k = "bit" THEN bit ELSE pit]
    BY DEF MountInit
  <2>2. disk["bit"] = bit /\ disk["pit"] = pit
    BY <2>1 DEF Kinds
  <2>. QED
    BY <2>1, <2>2 DEF Kinds
<1>3. \A k \in Kinds : image(k)[0] # ZeroPage
  BY <1>1, PagesDistinct
<1>4. ASSUME NEW k \in Kinds
      PROVE  /\ disk[k] \in [Copies -> [ImagePage -> Stored]]
             /\ \/ disk[k][2][0] # ZeroPage /\ Good(k, disk[k][2])
                \/ disk[k][2] = BlankCopy /\ Good(k, disk[k][1])
  <2>1. /\ image(k) \in [ImagePage -> Stored] /\ Torn(image(k)) \in [ImagePage -> Stored]
        /\ BlankCopy \in [ImagePage -> Stored]
    BY ImageStored, BlankStored
  <2>2. Good(k, image(k))
    BY DEF Good
  <2>3. CASE disk[k] = <<image(k), BlankCopy>>
    BY <2>1, <2>2, <2>3 DEF Copies
  <2>4. CASE \E c \in {BlankCopy, Torn(image(k)), image(k)} : disk[k] = <<c, image(k)>>
    BY <1>3, <2>1, <2>2, <2>4 DEF Copies
  <2>5. CASE disk[k] = <<BlankCopy, BlankCopy>> /\ saved = [b \in Blocks |-> [o \in Offsets |-> Clean]]
    BY <2>1, <2>5, BlankReadsAsNew DEF Copies
  <2>. QED
    BY <1>2, <2>3, <2>4, <2>5 DEF CopiesOf
<1>5. MountTypeOK
  <2>1. disk \in [Kinds -> [Copies -> [ImagePage -> Stored]]]
    BY <1>2, <1>4
  <2>2. waiting \in [Kinds -> [Copies -> [ImagePage -> Stored \cup {NoPage}]]]
    BY <1>1, NoCopyType
  <2>3. held \in [Kinds -> [ImagePage -> Stored]]
    BY <1>1, BlankStored
  <2>. QED
    BY <1>1, <2>1, <2>2, <2>3, Sizes DEF MountTypeOK, Off, Kinds
<1>6. ASSUME NEW k \in Kinds PROVE Overlaid(k) = disk[k][1]
  <2>1. \A p \in ImagePage : ~Waits(k, p)
    BY <1>1 DEF Waits, Copies, NoCopy
  <2>. QED
    BY <1>4, <2>1 DEF Overlaid, Copies
<1>7. CopyLeft
  BY <1>4, <1>6 DEF CopyLeft, Left
<1>8. RewriteCovered
  BY <1>1 DEF RewriteCovered, Off
<1>. QED
  BY <1>5, <1>7, <1>8 DEF MountIInv

(* What the copies of a kind depend on.                                      *)
LEMMA OverlaidSame ==
  ASSUME NEW k \in Kinds, disk'[k][1] = disk[k][1], waiting'[k][1] = waiting[k][1]
  PROVE  Overlaid(k)' = Overlaid(k)
BY DEF Overlaid, Waits

LEMMA LeftSame ==
  ASSUME NEW k \in Kinds, UNCHANGED saved, disk'[k] = disk[k], waiting'[k][1] = waiting[k][1], Left(k)
  PROVE  Left(k)'
BY OverlaidSame DEF Left, Good

LEMMA StoredSame ==
  ASSUME UNCHANGED saved
  PROVE  Stored' = Stored
BY DEF Stored

(* Steps that leave the copies alone and do not enter a rewrite.             *)
LEMMA CopiesKept ==
  ASSUME MountIInv, UNCHANGED <<saved, disk, waiting, lost>>
  PROVE  CopyLeft'
BY LeftSame DEF MountIInv, CopyLeft

LEMMA StartIInv ==
  ASSUME MountIInv, Start
  PROVE  MountIInv'
<1>1. UNCHANGED <<saved, disk, waiting, held, lost>> /\ step' = [step EXCEPT !.at = "read", !.page = 0]
  BY DEF Start, Goto
<1>2. MountTypeOK'
  BY <1>1, StoredSame, Sizes DEF MountIInv, MountTypeOK
<1>3. RewriteCovered'
  BY <1>1 DEF RewriteCovered, MountIInv, MountTypeOK
<1>. QED
  BY <1>1, <1>2, <1>3, CopiesKept DEF MountIInv

LEMMA ReadCopiesIInv ==
  ASSUME MountIInv, ReadCopies
  PROVE  MountIInv'
<1>. DEFINE k == step.kind
<1>1. UNCHANGED <<saved, disk, waiting, lost>> /\ k \in Kinds
  BY DEF ReadCopies, MountIInv, MountTypeOK
<1>2. /\ held' = [held EXCEPT ![k] = Chosen(disk[k])]
      /\ step' = [step EXCEPT !.at = IF disk[k][2][0] # ZeroPage THEN "erase_first" ELSE "set",
                              !.page = 0]
  BY DEF ReadCopies, Goto
<1>3. Chosen(disk[k]) \in [ImagePage -> Stored]
  BY <1>1 DEF Chosen, MountIInv, MountTypeOK, Copies
<1>4. MountTypeOK'
  BY <1>1, <1>2, <1>3, StoredSame, Sizes DEF MountIInv, MountTypeOK
<1>5. RewriteCovered'
  <2>1. step'.kind = k /\ step'.at \in {"erase_first", "set"}
    BY <1>2 DEF MountIInv, MountTypeOK
  <2>2. CASE disk[k][2][0] # ZeroPage
    <3>1. held'[k] = disk[k][2]
      BY <1>1, <1>2, <2>2 DEF MountIInv, MountTypeOK, Chosen
    <3>. QED
      BY <1>1, <2>1, <2>2, <3>1 DEF RewriteCovered
  <2>3. CASE disk[k][2][0] = ZeroPage
    <3>1. step'.at = "set"
      BY <1>2, <2>3 DEF MountIInv, MountTypeOK
    <3>. QED
      BY <3>1 DEF RewriteCovered
  <2>. QED
    BY <2>2, <2>3
<1>. QED
  BY <1>1, <1>4, <1>5, CopiesKept DEF MountIInv

LEMMA SetTableIInv ==
  ASSUME MountIInv, SetTable
  PROVE  MountIInv'
<1>1. UNCHANGED <<saved, disk, waiting, held, lost>>
  BY DEF SetTable
<1>2. step' = [kind |-> "pit", at |-> IF step.kind = "bit" THEN "read" ELSE "mounted", page |-> 0]
  BY DEF SetTable
<1>3. MountTypeOK'
  BY <1>1, <1>2, StoredSame, Sizes DEF MountIInv, MountTypeOK, Kinds
<1>4. RewriteCovered'
  BY <1>2 DEF RewriteCovered
<1>. QED
  BY <1>1, <1>3, <1>4, CopiesKept DEF MountIInv

(* While a kind is being rewritten its second copy is there.                 *)
LEMMA SecondThere ==
  ASSUME MountIInv, step.at \in {"erase_first", "write_first", "erase_second"}
  PROVE  /\ step.kind \in Kinds
         /\ disk[step.kind][2][0] # ZeroPage
         /\ held[step.kind] = disk[step.kind][2]
         /\ step.kind \notin lost => Good(step.kind, disk[step.kind][2])
<1>1. step.kind \in Kinds
  BY DEF MountIInv, MountTypeOK
<1>2. disk[step.kind][2][0] # ZeroPage /\ held[step.kind] = disk[step.kind][2]
  BY DEF MountIInv, RewriteCovered
<1>. QED
  BY <1>1, <1>2, BlankStored DEF MountIInv, CopyLeft, Left

LEMMA EraseFirstIInv ==
  ASSUME MountIInv, EraseFirst
  PROVE  MountIInv'
<1>. DEFINE k == step.kind
<1>1. /\ UNCHANGED <<saved, held, lost>> /\ step.at = "erase_first"
      /\ disk' = [disk EXCEPT ![k][1] = BlankCopy]
      /\ waiting' = [waiting EXCEPT ![k][1] = NoCopy]
      /\ step' = [step EXCEPT !.at = "write_first", !.page = 0]
  BY DEF EraseFirst, Erase, Goto, At
<1>2. /\ k \in Kinds /\ disk[k][2][0] # ZeroPage /\ held[k] = disk[k][2]
      /\ k \notin lost => Good(k, disk[k][2])
  BY <1>1, SecondThere
<1>3. MountTypeOK'
  BY <1>1, StoredSame, BlankStored, NoCopyType, Sizes DEF MountIInv, MountTypeOK, Copies
<1>4. disk'[k][2] = disk[k][2] /\ \A e \in Kinds \ {k} : disk'[e] = disk[e] /\ waiting'[e] = waiting[e]
  BY <1>1, <1>2 DEF MountIInv, MountTypeOK, Copies
<1>5. CopyLeft'
  <2>. SUFFICES ASSUME NEW e \in Kinds \ lost PROVE Left(e)'
    BY <1>1 DEF CopyLeft
  <2>1. CASE e = k
    BY <1>1, <1>2, <1>4, <2>1 DEF Left, Good
  <2>2. CASE e # k
    BY <1>1, <1>4, <2>2, LeftSame DEF MountIInv, CopyLeft
  <2>. QED
    BY <2>1, <2>2
<1>6. RewriteCovered'
  <2>1. step'.kind = k /\ step'.at = "write_first" /\ step'.page = 0
    BY <1>1 DEF MountIInv, MountTypeOK
  <2>. QED
    BY <1>1, <1>2, <1>4, <2>1 DEF RewriteCovered
<1>. QED
  BY <1>3, <1>5, <1>6 DEF MountIInv

LEMMA WriteFirstIInv ==
  ASSUME MountIInv, WriteFirst, NEW k, NEW p, k = step.kind, p = step.page
  PROVE  MountIInv'
<1>1. /\ UNCHANGED <<saved, disk, held, lost>> /\ step.at = "write_first"
      /\ waiting' = [waiting EXCEPT ![k][1][p] = held[k][p]]
      /\ IF p = ImagePages - 1 THEN step' = [step EXCEPT !.at = "erase_second", !.page = 0]
         ELSE step' = [step EXCEPT !.page = @ + 1]
  BY DEF WriteFirst, Goto, At
<1>2. /\ k \in Kinds /\ disk[k][2][0] # ZeroPage /\ held[k] = disk[k][2]
      /\ k \notin lost => Good(k, disk[k][2])
  BY <1>1, SecondThere
<1>3. p \in ImagePage /\ held[k][p] \in Stored /\ held[k][p] # NoPage
  BY <1>2, NothingStoredIsNoPage DEF MountIInv, MountTypeOK
<1>4. step'.kind = k /\ step'.at \in {"erase_second", "write_first"}
  BY <1>1 DEF MountIInv, MountTypeOK
<1>5. MountTypeOK'
  <2>1. step' \in [kind : Kinds,
                   at   : {"off", "read", "erase_first", "write_first", "erase_second", "set", "mounted"},
                   page : ImagePage]
    <3>1. CASE p = ImagePages - 1
      BY <1>1, <3>1, Sizes DEF MountIInv, MountTypeOK
    <3>2. CASE p # ImagePages - 1
      <4>1. p + 1 \in ImagePage
        BY <1>3, <3>2, Sizes DEF ImagePage
      <4>. QED
        BY <1>1, <3>2, <4>1 DEF MountIInv, MountTypeOK
    <3>. QED
      BY <3>1, <3>2
  <2>2. waiting' \in [Kinds -> [Copies -> [ImagePage -> Stored \cup {NoPage}]]]
    BY <1>1, <1>2, <1>3 DEF MountIInv, MountTypeOK, Copies
  <2>. QED
    BY <1>1, <2>1, <2>2, StoredSame DEF MountIInv, MountTypeOK
<1>6. \A e \in Kinds \ {k} : waiting'[e] = waiting[e]
  BY <1>1, <1>2 DEF MountIInv, MountTypeOK
<1>7. CopyLeft'
  <2>. SUFFICES ASSUME NEW e \in Kinds \ lost PROVE Left(e)'
    BY <1>1 DEF CopyLeft
  <2>1. CASE e = k
    BY <1>1, <1>2, <2>1 DEF Left, Good
  <2>2. CASE e # k
    BY <1>1, <1>6, <2>2, LeftSame DEF MountIInv, CopyLeft
  <2>. QED
    BY <2>1, <2>2
<1>8. \A q \in 0 .. p : q \in ImagePage /\ Overlaid(k)'[q] = held[k][q]
  <2>1. \A q \in ImagePage : waiting'[k][1][q] = IF q = p THEN held[k][q] ELSE waiting[k][1][q]
    BY <1>1, <1>2, <1>3 DEF MountIInv, MountTypeOK, Copies
  <2>2. \A q \in ImagePage \ {p} : Overlaid(k)'[q] = Overlaid(k)[q]
    BY <1>1, <2>1 DEF Overlaid, Waits
  <2>3. Overlaid(k)'[p] = held[k][p]
    BY <1>3, <2>1 DEF Overlaid, Waits
  <2>4. \A q \in 0 .. p - 1 : Overlaid(k)[q] = held[k][q]
    BY <1>1 DEF MountIInv, RewriteCovered
  <2>5. \A q \in 0 .. p : q \in ImagePage /\ (q = p \/ q \in 0 .. p - 1)
    BY <1>3, Sizes DEF ImagePage
  <2>. QED
    BY <2>2, <2>3, <2>4, <2>5
<1>9. RewriteCovered'
  <2>1. CASE p = ImagePages - 1
    <3>1. step'.at = "erase_second"
      BY <1>1, <2>1 DEF MountIInv, MountTypeOK
    <3>2. Overlaid(k)' = [q \in ImagePage |-> Overlaid(k)'[q]] /\ held[k] = [q \in ImagePage |-> held[k][q]]
      BY <1>2 DEF Overlaid, MountIInv, MountTypeOK
    <3>3. Overlaid(k)' = held[k]
      BY <1>8, <2>1, <3>2 DEF ImagePage
    <3>. QED
      BY <1>1, <1>2, <1>4, <3>1, <3>3 DEF RewriteCovered
  <2>2. CASE p # ImagePages - 1
    <3>1. step'.at = "write_first" /\ step'.page = p + 1 /\ (p + 1) - 1 = p
      <4>1. (p + 1) - 1 = p
        BY <1>3, Sizes DEF ImagePage
      <4>. QED
        BY <1>1, <2>2, <4>1 DEF MountIInv, MountTypeOK
    <3>2. \A q \in 0 .. step'.page - 1 : Overlaid(k)'[q] = held[k][q]
      BY <1>8, <3>1
    <3>. QED
      BY <1>1, <1>2, <1>4, <3>1, <3>2 DEF RewriteCovered
  <2>. QED
    BY <2>1, <2>2
<1>. QED
  BY <1>5, <1>7, <1>9 DEF MountIInv

LEMMA EraseSecondIInv ==
  ASSUME MountIInv, EraseSecond, NEW k, k = step.kind
  PROVE  MountIInv'
<1>1. /\ UNCHANGED <<saved, held, lost>> /\ step.at = "erase_second"
      /\ disk' = [disk EXCEPT ![k][2] = BlankCopy]
      /\ waiting' = [waiting EXCEPT ![k][2] = NoCopy]
      /\ step' = [step EXCEPT !.at = "set", !.page = 0]
  BY DEF EraseSecond, Erase, Goto, At
<1>2. /\ k \in Kinds /\ held[k] = disk[k][2]
      /\ k \notin lost => Good(k, disk[k][2])
  BY <1>1, SecondThere
<1>3. MountTypeOK'
  BY <1>1, StoredSame, BlankStored, NoCopyType, Sizes DEF MountIInv, MountTypeOK, Copies
<1>4. /\ disk'[k][2] = BlankCopy /\ disk'[k][1] = disk[k][1] /\ waiting'[k][1] = waiting[k][1]
      /\ \A e \in Kinds \ {k} : disk'[e] = disk[e] /\ waiting'[e] = waiting[e]
  BY <1>1, <1>2 DEF MountIInv, MountTypeOK, Copies
<1>5. Overlaid(k)' = disk[k][2]
  <2>1. Overlaid(k) = held[k]
    BY <1>1 DEF MountIInv, RewriteCovered
  <2>. QED
    BY <1>2, <1>4, <2>1, OverlaidSame
<1>6. CopyLeft'
  <2>. SUFFICES ASSUME NEW e \in Kinds \ lost PROVE Left(e)'
    BY <1>1 DEF CopyLeft
  <2>1. CASE e = k
    BY <1>1, <1>2, <1>4, <1>5, <2>1 DEF Left, Good
  <2>2. CASE e # k
    BY <1>1, <1>4, <2>2, LeftSame DEF MountIInv, CopyLeft
  <2>. QED
    BY <2>1, <2>2
<1>7. RewriteCovered'
  <2>1. step'.at = "set"
    BY <1>1 DEF MountIInv, MountTypeOK
  <2>. QED
    BY <2>1 DEF RewriteCovered
<1>. QED
  BY <1>3, <1>6, <1>7 DEF MountIInv

LEMMA DrainIInv ==
  ASSUME MountIInv, NEW k \in Kinds, NEW p \in ImagePage, Drain(k, p)
  PROVE  MountIInv'
<1>1. /\ UNCHANGED <<saved, step, held, lost>> /\ Waits(k, p)
      /\ disk' = [disk EXCEPT ![k][1][p] = waiting[k][1][p]]
      /\ waiting' = [waiting EXCEPT ![k][1][p] = NoPage]
  BY DEF Drain
<1>2. waiting[k][1][p] \in Stored
  BY <1>1 DEF Waits, MountIInv, MountTypeOK, Copies
<1>3. MountTypeOK'
  BY <1>1, <1>2, StoredSame DEF MountIInv, MountTypeOK, Copies
<1>4. /\ disk'[k][2] = disk[k][2]
      /\ \A q \in ImagePage :
           /\ disk'[k][1][q] = IF q = p THEN waiting[k][1][q] ELSE disk[k][1][q]
           /\ waiting'[k][1][q] = IF q = p THEN NoPage ELSE waiting[k][1][q]
      /\ \A e \in Kinds \ {k} : disk'[e] = disk[e] /\ waiting'[e] = waiting[e]
  BY <1>1 DEF MountIInv, MountTypeOK, Copies
<1>5. \A e \in Kinds : Overlaid(e)' = Overlaid(e) /\ disk'[e][2] = disk[e][2]
  <2>1. Overlaid(k)' = Overlaid(k)
    BY <1>1, <1>4 DEF Overlaid, Waits
  <2>. QED
    BY <1>4, <2>1, OverlaidSame
<1>6. CopyLeft'
  BY <1>1, <1>5 DEF CopyLeft, Left, Good, MountIInv
<1>7. RewriteCovered'
  <2>1. step.kind \in Kinds
    BY DEF MountIInv, MountTypeOK
  <2>. QED
    BY <1>1, <1>5, <2>1 DEF RewriteCovered, MountIInv
<1>. QED
  BY <1>3, <1>6, <1>7 DEF MountIInv

LEMMA StopIInv ==
  ASSUME MountIInv, Stop
  PROVE  MountIInv'
<1>1. /\ UNCHANGED <<saved, disk>> /\ step' = Off
      /\ lost' = lost \cup {k \in Kinds : ~Durable(k)}
      /\ waiting' = [k \in Kinds |-> [c \in Copies |-> NoCopy]]
      /\ held' = [k \in Kinds |-> BlankCopy]
  BY DEF Stop
<1>2. MountTypeOK'
  <2>1. waiting' \in [Kinds -> [Copies -> [ImagePage -> Stored \cup {NoPage}]]]
    BY <1>1, NoCopyType
  <2>2. held' \in [Kinds -> [ImagePage -> Stored]]
    BY <1>1, BlankStored
  <2>. QED
    BY <1>1, <2>1, <2>2, StoredSame, Sizes DEF MountIInv, MountTypeOK, Off, Kinds
<1>3. CopyLeft'
  <2>. SUFFICES ASSUME NEW k \in Kinds \ lost, Durable(k) PROVE Left(k)'
    BY <1>1 DEF CopyLeft
  <2>1. CASE disk[k][2][0] # ZeroPage
    <3>1. Good(k, disk[k][2])
      BY <2>1, BlankStored DEF MountIInv, CopyLeft, Left
    <3>. QED
      BY <1>1, <2>1, <3>1 DEF Left, Good
  <2>2. CASE disk[k][2][0] = ZeroPage
    <3>1. disk[k][2] = BlankCopy
      BY <2>2 DEF MountIInv, CopyLeft, Left
    <3>2. Good(k, disk[k][1])
      BY <2>2 DEF Durable, Chosen, Good
    <3>3. Overlaid(k)' = disk[k][1]
      <4>1. \A p \in ImagePage : ~Waits(k, p)'
        BY <1>1 DEF Waits, Copies, NoCopy
      <4>2. disk[k][1] = [p \in ImagePage |-> disk[k][1][p]]
        BY DEF MountIInv, MountTypeOK, Copies
      <4>. QED
        BY <1>1, <4>1, <4>2 DEF Overlaid
    <3>. QED
      BY <1>1, <3>1, <3>2, <3>3 DEF Left, Good
  <2>. QED
    BY <2>1, <2>2
<1>4. RewriteCovered'
  BY <1>1 DEF RewriteCovered, Off
<1>. QED
  BY <1>2, <1>3, <1>4 DEF MountIInv

LEMMA MountIInvHolds == MountSpec => []MountIInv
<1>1. MountIInv /\ [MountNext]_mountVars => MountIInv'
  <2>. SUFFICES ASSUME MountIInv, [MountNext]_mountVars PROVE MountIInv'
    OBVIOUS
  <2>1. CASE UNCHANGED mountVars
    <3>1. UNCHANGED <<saved, disk, waiting, step, held, lost>>
      BY <2>1 DEF mountVars
    <3>2. MountTypeOK'
      BY <3>1, StoredSame DEF MountIInv, MountTypeOK
    <3>3. CopyLeft'
      BY <3>1, CopiesKept
    <3>4. RewriteCovered'
      BY <3>1 DEF MountIInv, RewriteCovered, Overlaid, Waits
    <3>. QED
      BY <3>2, <3>3, <3>4 DEF MountIInv
  <2>. QED
    BY <2>1, StartIInv, ReadCopiesIInv, EraseFirstIInv, WriteFirstIInv, EraseSecondIInv,
       SetTableIInv, DrainIInv, StopIInv DEF MountNext
<1>. QED
  BY InitMountIInv, <1>1, PTL DEF MountSpec

-----------------------------------------------------------------------------
(* Wherever mounts are stopped, and however often, the next one reads what   *)
(* was saved, but for one window: from the erase of the second copy until    *)
(* the write cache has put the first on the disk.                            *)
THEOREM MountsRepeatable == MountSpec => []MountRepeatable
<1>1. MountIInv => MountRepeatable
  <2>. SUFFICES ASSUME MountIInv, NEW k \in Kinds \ lost
                PROVE  Durable(k) \/ (disk[k][2] = BlankCopy /\ \E p \in ImagePage : Waits(k, p))
    BY DEF MountRepeatable
  <2>1. CASE disk[k][2][0] # ZeroPage /\ Good(k, disk[k][2])
    BY <2>1 DEF Durable, Chosen, Good
  <2>2. CASE disk[k][2] = BlankCopy /\ Good(k, Overlaid(k)) /\ \A p \in ImagePage : ~Waits(k, p)
    <3>1. Overlaid(k) = disk[k][1]
      BY <2>2 DEF Overlaid, MountIInv, MountTypeOK, Copies
    <3>. QED
      BY <2>2, <3>1, BlankStored DEF Durable, Chosen, Good
  <2>. QED
    BY <2>1, <2>2 DEF MountIInv, CopyLeft, Left
<1>. QED
  BY <1>1, MountIInvHolds, PTL

-----------------------------------------------------------------------------
(* What a mount has read.                                                    *)

(* A kind is read while nothing of it waits, so that the first copy on the   *)
(* disk is all there is of it.                                               *)
NoneWaits(k) == \A p \in ImagePage : ~Waits(k, p)
NothingAhead ==
  /\ step.at \in {"off", "read"} => NoneWaits(step.kind)
  /\ step.kind = "bit" => NoneWaits("pit")

(* The image that is held, once the copies are in order.                     *)
HasRead(k) ==
  \/ k = step.kind /\ step.at \in {"set", "mounted"}
  \/ k = "bit" /\ step.kind = "pit"
HeldGood == \A k \in Kinds \ lost : HasRead(k) => Good(k, held[k])

(* The table is what the images held so far make of a new one.               *)
SetSoFar ==
  /\ step.at = "off" => step.kind = "bit"
  /\ step.at = "mounted" => step.kind = "pit"
  /\ restored =
       IF step.kind = "bit" THEN NewTable
       ELSE IF step.at # "mounted" THEN SetBit(NewTable, held["bit"])
       ELSE SetPit(SetBit(NewTable, held["bit"]), held["pit"])

MountedFrom == NothingAhead /\ HeldGood /\ SetSoFar

LEMMA NoneWaitsSame ==
  ASSUME NEW k, waiting'[k][1] = waiting[k][1], NoneWaits(k)
  PROVE  NoneWaits(k)'
BY DEF NoneWaits, Waits

LEMMA NothingHeldWaits ==
  ASSUME NEW k \in Kinds, waiting[k][1] = NoCopy
  PROVE  NoneWaits(k)
BY DEF NoneWaits, Waits, NoCopy

LEMMA InitMountedFrom == MountInit => MountedFrom
<1>. SUFFICES ASSUME MountInit PROVE MountedFrom
  OBVIOUS
<1>1. /\ waiting = [k \in Kinds |-> [c \in Copies |-> NoCopy]]
      /\ step = Off /\ restored = NewTable
  BY DEF MountInit
<1>2. \A k \in Kinds : NoneWaits(k)
  BY <1>1, NothingHeldWaits DEF Copies
<1>3. step.kind = "bit" /\ step.at = "off"
  BY <1>1 DEF Off
<1>. QED
  BY <1>1, <1>2, <1>3 DEF MountedFrom, NothingAhead, HeldGood, HasRead, SetSoFar, Kinds

LEMMA StartFrom ==
  ASSUME MountIInv, MountedFrom, Start
  PROVE  MountedFrom'
<1>1. UNCHANGED <<saved, disk, waiting, held, restored, lost>> /\ step.at = "off"
  BY DEF Start, At
<1>2. step'.kind = step.kind /\ step'.at = "read" /\ step.kind = "bit"
  BY <1>1 DEF Start, Goto, MountIInv, MountTypeOK, MountedFrom, SetSoFar
<1>3. \A k : NoneWaits(k) => NoneWaits(k)'
  BY <1>1, NoneWaitsSame
<1>4. NothingAhead'
  BY <1>1, <1>2, <1>3 DEF MountedFrom, NothingAhead
<1>5. HeldGood'
  BY <1>2 DEF HeldGood, HasRead, Kinds
<1>6. SetSoFar'
  BY <1>1, <1>2 DEF MountedFrom, SetSoFar
<1>. QED
  BY <1>4, <1>5, <1>6 DEF MountedFrom

LEMMA ReadCopiesFrom ==
  ASSUME MountIInv, MountedFrom, ReadCopies
  PROVE  MountedFrom'
<1>. DEFINE k == step.kind
<1>1. UNCHANGED <<saved, disk, waiting, restored, lost>> /\ k \in Kinds /\ step.at = "read"
  BY DEF ReadCopies, MountIInv, MountTypeOK, At
<1>2. /\ held' = [held EXCEPT ![k] = Chosen(disk[k])]
      /\ step' = [step EXCEPT !.at = IF disk[k][2][0] # ZeroPage THEN "erase_first" ELSE "set",
                              !.page = 0]
  BY DEF ReadCopies, Goto
<1>3. /\ step'.kind = k /\ step'.at \in {"erase_first", "set"}
      /\ step'.at = "set" => disk[k][2][0] = ZeroPage
  BY <1>2 DEF MountIInv, MountTypeOK
<1>4. \A e : NoneWaits(e) => NoneWaits(e)'
  BY <1>1, NoneWaitsSame
<1>5. NothingAhead'
  BY <1>1, <1>3, <1>4 DEF MountedFrom, NothingAhead
<1>6. k = "pit" => held'["bit"] = held["bit"]
  BY <1>1, <1>2 DEF MountIInv, MountTypeOK, Kinds
<1>7. HeldGood'
  <2>. SUFFICES ASSUME NEW e \in Kinds \ lost, HasRead(e)' PROVE Good(e, held[e])'
    BY <1>1 DEF HeldGood
  <2>1. CASE e = k /\ step'.at = "set"
    <3>1. disk[k][2] = BlankCopy /\ Good(k, Overlaid(k))
      BY <1>1, <1>3, <2>1 DEF MountIInv, CopyLeft, Left
    <3>2. NoneWaits(k)
      BY <1>1 DEF MountedFrom, NothingAhead
    <3>3. Overlaid(k) = disk[k][1]
      BY <1>1, <3>2 DEF Overlaid, NoneWaits, MountIInv, MountTypeOK, Copies
    <3>4. held'[k] = disk[k][1]
      BY <1>1, <1>2, <1>3, <2>1 DEF Chosen, MountIInv, MountTypeOK
    <3>. QED
      BY <1>1, <2>1, <3>1, <3>3, <3>4 DEF Good
  <2>2. CASE e = "bit" /\ k = "pit"
    <3>1. Good(e, held[e])
      BY <2>2 DEF MountedFrom, HeldGood, HasRead
    <3>. QED
      BY <1>1, <1>6, <2>2, <3>1 DEF Good
  <2>. QED
    BY <1>3, <2>1, <2>2 DEF HasRead
<1>8. SetSoFar'
  <2>1. k = "bit" => restored = NewTable
    BY DEF MountedFrom, SetSoFar
  <2>2. k = "pit" => restored = SetBit(NewTable, held["bit"])
    BY <1>1 DEF MountedFrom, SetSoFar
  <2>3. restored' = IF k = "bit" THEN NewTable ELSE SetBit(NewTable, held'["bit"])
    BY <1>1, <1>6, <2>1, <2>2 DEF Kinds
  <2>. QED
    BY <1>3, <2>3 DEF SetSoFar
<1>. QED
  BY <1>5, <1>7, <1>8 DEF MountedFrom

(* A step of a rewriting leaves the kind, what is held and the table alone.  *)
LEMMA RewriteFrom ==
  ASSUME MountIInv, MountedFrom, UNCHANGED <<saved, held, restored, lost>>,
         step.at \in {"erase_first", "write_first", "erase_second"}, step'.kind = step.kind,
         step'.at \in {"write_first", "erase_second", "set"},
         step'.at = "set" => step.at = "erase_second",
         \A e \in Kinds \ {step.kind} : waiting'[e] = waiting[e]
  PROVE  MountedFrom'
<1>. DEFINE k == step.kind
<1>1. k \in Kinds /\ (k \notin lost => Good(k, held[k]))
  BY SecondThere
<1>2. NothingAhead'
  BY NoneWaitsSame DEF MountedFrom, NothingAhead, Kinds
<1>3. HeldGood'
  <2>. SUFFICES ASSUME NEW e \in Kinds \ lost, HasRead(e)' PROVE Good(e, held[e])
    BY DEF HeldGood, Good
  <2>1. CASE e = k
    BY <1>1, <2>1
  <2>2. CASE e # k
    BY <2>2 DEF HasRead, MountedFrom, HeldGood
  <2>. QED
    BY <2>1, <2>2
<1>4. SetSoFar'
  BY DEF MountedFrom, SetSoFar
<1>. QED
  BY <1>2, <1>3, <1>4 DEF MountedFrom

LEMMA EraseFirstFrom ==
  ASSUME MountIInv, MountedFrom, EraseFirst
  PROVE  MountedFrom'
<1>1. /\ UNCHANGED <<saved, held, restored, lost>> /\ step.at = "erase_first"
      /\ waiting' = [waiting EXCEPT ![step.kind][1] = NoCopy]
      /\ step'.at = "write_first" /\ step'.kind = step.kind
  BY DEF EraseFirst, Erase, Goto, At, MountIInv, MountTypeOK
<1>2. \A e \in Kinds \ {step.kind} : waiting'[e] = waiting[e]
  BY <1>1 DEF MountIInv, MountTypeOK
<1>. QED
  BY <1>1, <1>2, RewriteFrom

LEMMA WriteFirstFrom ==
  ASSUME MountIInv, MountedFrom, WriteFirst
  PROVE  MountedFrom'
<1>1. /\ UNCHANGED <<saved, held, restored, lost>> /\ step.at = "write_first"
      /\ waiting' = [waiting EXCEPT ![step.kind][1][step.page] = held[step.kind][step.page]]
  BY DEF WriteFirst, At
<1>2. step'.at \in {"write_first", "erase_second"} /\ step'.kind = step.kind
  BY <1>1 DEF WriteFirst, Goto, MountIInv, MountTypeOK
<1>3. \A e \in Kinds \ {step.kind} : waiting'[e] = waiting[e]
  BY <1>1 DEF MountIInv, MountTypeOK
<1>. QED
  BY <1>1, <1>2, <1>3, RewriteFrom

LEMMA EraseSecondFrom ==
  ASSUME MountIInv, MountedFrom, EraseSecond
  PROVE  MountedFrom'
<1>1. /\ UNCHANGED <<saved, held, restored, lost>> /\ step.at = "erase_second"
      /\ waiting' = [waiting EXCEPT ![step.kind][2] = NoCopy]
      /\ step'.at = "set" /\ step'.kind = step.kind
  BY DEF EraseSecond, Erase, Goto, At, MountIInv, MountTypeOK
<1>2. \A e \in Kinds \ {step.kind} : waiting'[e] = waiting[e]
  BY <1>1 DEF MountIInv, MountTypeOK
<1>. QED
  BY <1>1, <1>2, RewriteFrom

LEMMA SetTableFrom ==
  ASSUME MountIInv, MountedFrom, SetTable
  PROVE  MountedFrom'
<1>1. /\ UNCHANGED <<saved, disk, waiting, held, lost>> /\ step.at = "set"
      /\ step'.kind = "pit" /\ step'.at = IF step.kind = "bit" THEN "read" ELSE "mounted"
  BY DEF SetTable, At
<1>2. step.kind \in Kinds
  BY DEF MountIInv, MountTypeOK
<1>3. NothingAhead'
  BY <1>1, NoneWaitsSame DEF MountedFrom, NothingAhead
<1>4. HeldGood'
  <2>. SUFFICES ASSUME NEW e \in Kinds \ lost, HasRead(e)' PROVE Good(e, held[e])
    BY <1>1 DEF HeldGood, Good
  <2>1. HasRead(e)
    BY <1>1, <1>2 DEF HasRead, Kinds
  <2>. QED
    BY <2>1 DEF MountedFrom, HeldGood
<1>5. SetSoFar'
  <2>1. CASE step.kind = "bit"
    <3>1. restored' = SetBit(NewTable, held["bit"])
      BY <1>1, <2>1 DEF SetTable, MountedFrom, SetSoFar
    <3>. QED
      BY <1>1, <2>1, <3>1 DEF SetSoFar
  <2>2. CASE step.kind = "pit"
    <3>1. restored' = SetPit(SetBit(NewTable, held["bit"]), held["pit"])
      BY <1>1, <2>2 DEF SetTable, MountedFrom, SetSoFar
    <3>. QED
      BY <1>1, <2>2, <3>1 DEF SetSoFar
  <2>. QED
    BY <1>2, <2>1, <2>2 DEF Kinds
<1>. QED
  BY <1>3, <1>4, <1>5 DEF MountedFrom

LEMMA DrainFrom ==
  ASSUME MountIInv, MountedFrom, NEW k \in Kinds, NEW p \in ImagePage, Drain(k, p)
  PROVE  MountedFrom'
<1>1. /\ UNCHANGED <<saved, step, held, restored, lost>>
      /\ waiting' = [waiting EXCEPT ![k][1][p] = NoPage]
  BY DEF Drain
<1>2. \A e \in Kinds, q \in ImagePage : Waits(e, q)' => Waits(e, q)
  BY <1>1 DEF Waits, MountIInv, MountTypeOK, Copies
<1>3. step.kind \in Kinds
  BY DEF MountIInv, MountTypeOK
<1>4. NothingAhead'
  BY <1>1, <1>2, <1>3 DEF MountedFrom, NothingAhead, NoneWaits, Kinds
<1>5. HeldGood'
  BY <1>1 DEF MountedFrom, HeldGood, HasRead, Good
<1>6. SetSoFar'
  BY <1>1 DEF MountedFrom, SetSoFar
<1>. QED
  BY <1>4, <1>5, <1>6 DEF MountedFrom

LEMMA StopFrom ==
  ASSUME Stop
  PROVE  MountedFrom'
<1>1. /\ step' = Off /\ restored' = NewTable
      /\ waiting' = [k \in Kinds |-> [c \in Copies |-> NoCopy]]
  BY DEF Stop
<1>2. \A k \in Kinds : NoneWaits(k)'
  BY <1>1, NothingHeldWaits DEF Copies, NoneWaits, Waits, NoCopy
<1>3. step'.kind = "bit" /\ step'.at = "off"
  BY <1>1 DEF Off
<1>. QED
  BY <1>1, <1>2, <1>3 DEF MountedFrom, NothingAhead, HeldGood, HasRead, SetSoFar, Kinds

LEMMA MountedFromHolds == MountSpec => []MountedFrom
<1>1. MountIInv /\ MountedFrom /\ [MountNext]_mountVars => MountedFrom'
  <2>. SUFFICES ASSUME MountIInv, MountedFrom, [MountNext]_mountVars PROVE MountedFrom'
    OBVIOUS
  <2>1. CASE UNCHANGED mountVars
    <3>1. UNCHANGED <<saved, disk, waiting, step, held, restored, lost>>
      BY <2>1 DEF mountVars
    <3>2. NothingAhead'
      BY <3>1 DEF MountedFrom, NothingAhead, NoneWaits, Waits
    <3>3. HeldGood'
      BY <3>1 DEF MountedFrom, HeldGood, HasRead, Good
    <3>4. SetSoFar'
      BY <3>1 DEF MountedFrom, SetSoFar
    <3>. QED
      BY <3>2, <3>3, <3>4 DEF MountedFrom
  <2>. QED
    BY <2>1, StartFrom, ReadCopiesFrom, EraseFirstFrom, WriteFirstFrom, EraseSecondFrom,
       SetTableFrom, DrainFrom, StopFrom DEF MountNext
<1>. QED
  BY InitMountedFrom, MountIInvHolds, <1>1, PTL DEF MountSpec

-----------------------------------------------------------------------------
(* What is decoded of an image is what was encoded.                          *)

LEMMA OffsetMirrored ==
  ASSUME NEW o \in Offsets
  PROVE  /\ PagesPerBlock - 1 - o \in Offsets
         /\ PagesPerBlock - 1 - (PagesPerBlock - 1 - o) = o
BY BlockInfoAssumption DEF Offsets

LEMMA BitsEncoded ==
  ASSUME saved \in SavedTables, NEW b \in Blocks
  PROVE  Bits(EncodeBit(saved), b) = {o \in Offsets : saved[b][o] # Clean}
<1>1. EncodeBit(saved)[0] = [c \in Blocks |-> Bitmap(saved[c])]
  BY Sizes DEF EncodeBit
<1>2. EncodeBit(saved)[0] # ZeroPage
  BY PagesDistinct DEF Image, Kinds
<1>3. ASSUME NEW o \in Offsets
      PROVE  Bitmap(saved[b])[PagesPerBlock - 1 - o] = IF saved[b][o] # Clean THEN 1 ELSE 0
  BY OffsetMirrored DEF Bitmap
<1>. QED
  BY <1>1, <1>2, <1>3 DEF Bits

(* A set of n elements as a sequence.                                        *)
LEMMA SeqOfSet ==
  ASSUME NEW S, IsFiniteSet(S), NEW n, n = Cardinality(S), NEW s, s = SetToSeq(S)
  PROVE  /\ n \in Nat /\ s \in [1 .. n -> S]
         /\ \A d, e \in 1 .. n : s[d] = s[e] => d = e
         /\ \A x \in S : \E d \in 1 .. n : s[d] = x
<1>1. n \in Nat /\ ExistsBijection(1 .. n, S)
  BY FS_CardinalityType
<1>2. PICK f \in Bijection(1 .. n, S) : TRUE
  BY <1>1 DEF ExistsBijection
<1>3. f \in [1 .. n -> S] /\ IsInjective(f)
  BY <1>2 DEF Bijection, Injection, IsInjective
<1>4. s \in [1 .. n -> S] /\ IsInjective(s)
  BY <1>3 DEF SetToSeq
<1>5. \A d, e \in 1 .. n : s[d] = s[e] => d = e
  BY <1>4 DEF IsInjective
<1>6. s \in Injection(1 .. n, S)
  BY <1>4, <1>5 DEF Injection
<1>7. Cardinality(1 .. n) = n
  BY <1>1, FS_Interval
<1>8. s \in Surjection(1 .. n, S)
  BY <1>6, <1>7, FS_Injection
<1>. QED
  BY <1>1, <1>4, <1>5, <1>8 DEF Surjection

LEMMA MinOfTwo ==
  ASSUME NEW x \in Int, NEW y \in Int
  PROVE  Min({x, y}) = IF x <= y THEN x ELSE y
<1>. DEFINE m == IF x <= y THEN x ELSE y
<1>1. m \in {x, y} /\ \A z \in {x, y} : m <= z
  OBVIOUS
<1>2. \A w \in {x, y} : (\A z \in {x, y} : w <= z) => w = m
  OBVIOUS
<1>. HIDE DEF m
<1>3. Min({x, y}) = m
  BY <1>1, <1>2 DEF Min
<1>. QED
  BY <1>3 DEF m

(* The pairs on a page are those of a range of places.                       *)
Places(p, n) == {d \in 1 .. n : p * PairsPerPage < d /\ d <= (p + 1) * PairsPerPage}

LEMMA PairsOfPageAre ==
  ASSUME NEW S, NEW n \in Nat, NEW s \in [1 .. n -> S], NEW p \in Nat
  PROVE  /\ ToSet(PairsOfPage(s, p)) = {s[d] : d \in Places(p, n)}
         /\ PairsOfPage(s, p) = <<>> <=> Places(p, n) = {}
<1>. DEFINE lo == p * PairsPerPage + 1
            hi == Min({(p + 1) * PairsPerPage, n})
            t == PairsOfPage(s, p)
<1>1. p * PairsPerPage \in Nat /\ (p + 1) * PairsPerPage = p * PairsPerPage + PairsPerPage
  BY MetadataRegionsAssumption
<1>2. PairsPerPage \in Nat /\ PairsPerPage > 0
  BY MetadataRegionsAssumption
<1>3. s \in Seq(S) /\ Len(s) = n
  OBVIOUS
<1>4. hi = IF (p + 1) * PairsPerPage <= n THEN (p + 1) * PairsPerPage ELSE n
  BY <1>1, <1>2, MinOfTwo
<1>5. t = SubSeq(s, lo, hi)
  BY <1>3 DEF PairsOfPage
<1>. DEFINE P == p * PairsPerPage
            Q == (p + 1) * PairsPerPage
<1>6. P \in Nat /\ Q = P + PairsPerPage /\ lo = P + 1 /\ hi = (IF Q <= n THEN Q ELSE n)
  BY <1>1, <1>4
<1>7. \A d : d \in Places(p, n) <=> d \in 1 .. n /\ P < d /\ d <= Q
  BY DEF Places
<1>. HIDE DEF P, Q, lo, hi, t
<1>8. /\ lo \in 1 .. n + 1 \/ lo > hi
      /\ \A d : d \in Places(p, n) <=> d \in lo .. hi
      /\ lo \in Nat /\ lo >= 1 /\ hi \in Nat /\ hi <= n
  BY <1>2, <1>6, <1>7
<1>9. CASE lo <= hi
  <2>1. t = [d \in 1 .. hi - lo + 1 |-> s[d + lo - 1]]
    BY <1>3, <1>5, <1>8, <1>9
  <2>2. DOMAIN t = 1 .. hi - lo + 1 /\ \A d \in 1 .. hi - lo + 1 : t[d] = s[d + lo - 1]
    BY <2>1
  <2>3. \A d \in 1 .. hi - lo + 1 : d + lo - 1 \in lo .. hi
    BY <1>8
  <2>4. \A d \in lo .. hi : d - lo + 1 \in 1 .. hi - lo + 1 /\ (d - lo + 1) + lo - 1 = d
    BY <1>8
  <2>5. ToSet(t) = {t[d] : d \in 1 .. hi - lo + 1}
    BY <2>2 DEF ToSet
  <2>6. ToSet(t) = {s[d] : d \in lo .. hi}
    BY <2>2, <2>3, <2>4, <2>5
  <2>7. t # <<>> /\ lo \in lo .. hi
    <3>1. 1 \in DOMAIN t
      BY <1>8, <1>9, <2>2
    <3>. QED
      BY <1>8, <1>9, <3>1
  <2>. QED
    BY <1>8, <2>6, <2>7 DEF t
<1>10. CASE lo > hi
  <2>1. lo .. hi = {}
    BY <1>8, <1>10
  <2>2. t = <<>>
    BY <1>3, <1>5, <1>8, <1>10, SubSeqEmpty
  <2>3. ToSet(t) = {}
    BY <2>2 DEF ToSet
  <2>. QED
    BY <1>8, <2>1, <2>2, <2>3 DEF t
<1>. QED
  BY <1>8, <1>9, <1>10

(* Every place is on one of the pages.                                       *)
LEMMA PlaceOnPage ==
  ASSUME NEW n \in Nat, n <= ImagePages * PairsPerPage, NEW d \in 1 .. n
  PROVE  \E p \in ImagePage : d \in Places(p, n)
<1>. DEFINE q == PairsPerPage
            p == (d - 1) \div q
<1>1. q \in Nat /\ q > 0 /\ ImagePages \in Nat /\ d - 1 \in Nat
  BY MetadataRegionsAssumption
<1>2. p \in Nat /\ q * p <= d - 1 /\ d - 1 < q * p + q
  BY <1>1, Z3T(30)
<1>. HIDE DEF p
<1>3. p * q = q * p /\ (p + 1) * q = q * p + q /\ q * p \in Nat
  BY <1>1, <1>2
<1>4. p < ImagePages
  <2>. SUFFICES ASSUME ImagePages <= p PROVE FALSE
    BY <1>1, <1>2
  <2>1. ImagePages * q <= p * q
    BY <1>1, <1>2
  <2>2. ImagePages * q \in Nat /\ p * q \in Nat /\ n <= ImagePages * q
    BY <1>1, <1>2
  <2>. QED
    BY <1>1, <1>2, <1>3, <2>1, <2>2
<1>5. p \in ImagePage
  BY <1>1, <1>2, <1>4 DEF ImagePage
<1>6. p * q < d /\ d <= (p + 1) * q
  BY <1>1, <1>2, <1>3
<1>. QED
  BY <1>5, <1>6 DEF Places

(* A page that holds a pair is behind none that does not.                    *)
LEMMA PagesFilled ==
  ASSUME NEW n \in Nat, NEW p \in Nat, Places(p, n) # {}, NEW r \in 0 .. p
  PROVE  Places(r, n) # {}
<1>1. PICK d \in 1 .. n : p * PairsPerPage < d
  BY DEF Places
<1>. DEFINE q == PairsPerPage
            e == r * q + 1
<1>2. q \in Nat /\ q > 0 /\ r \in Nat /\ r <= p
  BY MetadataRegionsAssumption
<1>3. r * q <= p * q /\ r * q \in Nat /\ p * q \in Nat /\ (r + 1) * q = r * q + q
  BY <1>2
<1>4. e \in 1 .. n /\ r * q < e /\ e <= (r + 1) * q
  BY <1>1, <1>2, <1>3
<1>. QED
  BY <1>4 DEF Places

-----------------------------------------------------------------------------
SavedPair(a) == <<a, saved[BlockOf(a)][OffsetOf(a)]>>
SavedPairs == {SavedPair(a) : a \in Owned(saved)}

LEMMA PairsFinite ==
  /\ IsFiniteSet(SavedPairs)
  /\ Cardinality(SavedPairs) \in Nat
  /\ Cardinality(SavedPairs) <= Cardinality(Owned(saved))
  /\ Cardinality(Owned(saved)) \in Nat
<1>. DEFINE f == [a \in Owned(saved) |-> SavedPair(a)]
<1>1. IsFiniteSet(Owned(saved))
  <2>1. 0 \in Int /\ BlockCount * PagesPerBlock - 1 \in Int
    BY BlockInfoAssumption
  <2>2. IsFiniteSet(Pages)
    BY <2>1, FS_Interval DEF Pages
  <2>. QED
    BY <2>2, FS_Subset DEF Owned
<1>2. f \in Surjection(Owned(saved), SavedPairs)
  BY DEF Surjection, SavedPairs
<1>. HIDE DEF f
<1>3. IsFiniteSet(SavedPairs) /\ Cardinality(SavedPairs) <= Cardinality(Owned(saved))
  BY <1>1, <1>2, FS_Surjection
<1>. QED
  BY <1>1, <1>3, FS_CardinalityType

LEMMA PageRecord ==
  ASSUME NEW x, NEW m, NEW t, x = [magic |-> m, pairs |-> t]
  PROVE  x.magic = m /\ x.pairs = t
OBVIOUS

LEMMA PageEncoded ==
  ASSUME NEW p \in ImagePage, NEW t, t = PairsOfPage(Pairs(saved), p)
  PROVE  /\ p = 0 => EncodeMap(saved)[p].magic = "map"
         /\ EncodeMap(saved)[p] # ZeroPage => EncodeMap(saved)[p].pairs = t
<1>. DEFINE m == IF p = 0 THEN "map" ELSE ""
            x == EncodeMap(saved)[p]
<1>1. x = IF p > 0 /\ t = <<>> THEN ZeroPage ELSE [magic |-> m, pairs |-> t]
  BY DEF EncodeMap
<1>2. p = 0 => ~(p > 0) /\ m = "map"
  OBVIOUS
<1>. HIDE DEF m, x
<1>3. ASSUME ~(p > 0 /\ t = <<>>) PROVE x.magic = m /\ x.pairs = t
  BY <1>1, <1>3, PageRecord
<1>4. ASSUME x # ZeroPage PROVE x.pairs = t
  BY <1>1, <1>3, <1>4
<1>5. ASSUME p = 0 PROVE x.magic = "map"
  BY <1>2, <1>3, <1>5
<1>. QED
  BY <1>4, <1>5 DEF x

(* All pairs of a table that uses the map fit, and are read.                 *)
LEMMA OwnersEncoded ==
  ASSUME saved \in SavedTables, UsesMap(saved)
  PROVE  Owners(EncodePit(saved)) = SavedPairs
<1>. DEFINE image == EncodeMap(saved)
            n == Cardinality(SavedPairs)
            s == Pairs(saved)
            Part(p) == PairsOfPage(s, p)
<1>1. s = SetToSeq(SavedPairs)
  BY DEF Pairs, SavedPairs, SavedPair
<1>2. /\ n \in Nat /\ s \in [1 .. n -> SavedPairs]
      /\ \A x \in SavedPairs : \E d \in 1 .. n : s[d] = x
  <2>. HIDE DEF s, n
  <2>1. IsFiniteSet(SavedPairs) /\ n = Cardinality(SavedPairs)
    BY PairsFinite DEF n
  <2>. QED
    BY <1>1, <2>1, SeqOfSet
<1>3. n <= ImagePages * PairsPerPage
  <2>. DEFINE m == Cardinality(Owned(saved))
              x == ImagePages * PairsPerPage
  <2>1. n <= m /\ m \in Nat /\ n \in Nat
    BY PairsFinite
  <2>2. 2 * m < PageNum /\ PageNum \in Nat
    BY MetadataRegionsAssumption DEF UsesMap
  <2>3. x \in Nat /\ 2 * x = 2 * ImagePages * PairsPerPage /\ 2 * ImagePages * PairsPerPage >= PageNum
    BY MetadataRegionsAssumption
  <2>. HIDE DEF n, m, x
  <2>4. n <= x
    BY <2>1, <2>2, <2>3
  <2>. QED
    BY <2>4 DEF x
<1>. HIDE DEF n, s
<1>4. ASSUME NEW p \in ImagePage
      PROVE  /\ ToSet(Part(p)) = {s[d] : d \in Places(p, n)}
             /\ Part(p) = <<>> <=> Places(p, n) = {}
  <2>1. p \in Nat
    BY DEF ImagePage
  <2>. QED
    BY <1>2, <2>1, PairsOfPageAre
<1>5. /\ image[0].magic = "map"
      /\ \A p \in ImagePage : image[p] # ZeroPage => image[p].pairs = Part(p)
  BY PageEncoded, Sizes DEF s
<1>6. /\ image[0] # ZeroPage
      /\ \A p \in ImagePage : Part(p) # <<>> => image[p] # ZeroPage
  <2>1. Image("pit", saved) = image
    BY DEF Image, EncodePit
  <2>. QED
    BY <2>1, PagesDistinct DEF Kinds, s
<1>7. EncodePit(saved) = image
  BY DEF EncodePit
<1>. HIDE DEF image
<1>8. Strategy(image) = "map"
  BY <1>5, <1>6 DEF Strategy
<1>9. PairsIn(image) = SavedPairs
  <2>. DEFINE whole == {p \in ImagePage : \A q \in 0 .. p : image[q] # ZeroPage}
  <2>1. ASSUME NEW p \in whole PROVE ToSet(image[p].pairs) = {s[d] : d \in Places(p, n)}
    <3>1. p \in ImagePage /\ p \in 0 .. p
      BY DEF ImagePage
    <3>2. image[p] # ZeroPage
      BY <3>1
    <3>3. image[p].pairs = Part(p)
      BY <1>5, <3>1, <3>2
    <3>. QED
      BY <1>4, <3>1, <3>3
  <2>2. ASSUME NEW p \in ImagePage, Places(p, n) # {} PROVE p \in whole
    <3>. SUFFICES ASSUME NEW q \in 0 .. p PROVE image[q] # ZeroPage
      OBVIOUS
    <3>1. p \in Nat /\ q \in ImagePage
      BY Sizes DEF ImagePage
    <3>2. Places(q, n) # {}
      BY <1>2, <2>2, <3>1, PagesFilled
    <3>. QED
      BY <1>4, <1>6, <3>1, <3>2
  <2>3. PairsIn(image) = UNION {ToSet(image[p].pairs) : p \in whole}
    BY DEF PairsIn
  <2>4. ASSUME NEW x \in PairsIn(image) PROVE x \in SavedPairs
    <3>1. PICK p \in whole : x \in ToSet(image[p].pairs)
      BY <2>3, <2>4
    <3>2. PICK d \in Places(p, n) : x = s[d]
      BY <2>1, <3>1
    <3>3. d \in 1 .. n
      BY <3>2 DEF Places
    <3>. QED
      BY <1>2, <3>2, <3>3
  <2>5. ASSUME NEW x \in SavedPairs PROVE x \in PairsIn(image)
    <3>1. PICK d \in 1 .. n : s[d] = x
      BY <1>2
    <3>2. PICK p \in ImagePage : d \in Places(p, n)
      BY <1>2, <1>3, PlaceOnPage
    <3>3. p \in whole
      BY <2>2, <3>2
    <3>4. x \in ToSet(image[p].pairs)
      BY <2>1, <3>1, <3>2, <3>3
    <3>. QED
      BY <2>3, <3>3, <3>4
  <2>. QED
    BY <2>4, <2>5
<1>. QED
  BY <1>7, <1>8, <1>9 DEF Owners

-----------------------------------------------------------------------------
(* Filling a table.                                                          *)

InfoRecord == [used_map : [Offsets -> Statuses], reserved_size : Int, reserved_offset : Int,
               clean_num : Int, dirty_num : Int, used_num : Int]
Tables == [Blocks -> InfoRecord]

LEMMA SetPageRecord ==
  ASSUME NEW info \in InfoRecord, NEW o \in Offsets, NEW s \in Statuses, NEW t, t = SetPage(info, o, s)
  PROVE  /\ t \in InfoRecord
         /\ \A p \in Offsets : t.used_map[p] = IF p = o THEN s ELSE info.used_map[p]
         /\ t.reserved_offset = info.reserved_offset + Count(s \in Inos)
         /\ t.reserved_size = info.reserved_size - Count(s \in Inos)
<1>. DEFINE d == Count(s \in Inos)
            c0 == Count(info.used_map[o] = Clean)
            c1 == Count(s = Clean)
            d0 == Count(info.used_map[o] = Dirty)
            d1 == Count(s = Dirty)
            u0 == Count(info.used_map[o] \in Inos)
<1>2. d \in Int /\ c0 \in Int /\ c1 \in Int /\ d0 \in Int /\ d1 \in Int /\ u0 \in Int
  <2>1. \A c : Count(c) \in Int
    BY DEF Count
  <2>. QED
    BY <2>1, Zenon
<1>3. t = [used_map        |-> [info.used_map EXCEPT ![o] = s],
           reserved_size   |-> info.reserved_size - d,
           reserved_offset |-> info.reserved_offset + d,
           clean_num       |-> info.clean_num - c0 + c1,
           dirty_num       |-> info.dirty_num - d0 + d1,
           used_num        |-> info.used_num - u0 + d]
  BY DEF SetPage
<1>. HIDE DEF d, c0, c1, d0, d1, u0
<1>4. [info.used_map EXCEPT ![o] = s] \in [Offsets -> Statuses]
  BY DEF InfoRecord
<1>5. t \in InfoRecord
  BY <1>2, <1>3, <1>4 DEF InfoRecord
<1>6. \A p \in Offsets : t.used_map[p] = IF p = o THEN s ELSE info.used_map[p]
  BY <1>3 DEF InfoRecord
<1>7. t.reserved_offset = info.reserved_offset + d /\ t.reserved_size = info.reserved_size - d
  BY <1>3
<1>. QED
  BY <1>5, <1>6, <1>7 DEF d

LEMMA NewTableIs ==
  /\ NewTable \in Tables
  /\ \A b \in Blocks :
       /\ \A o \in Offsets : NewTable[b].used_map[o] = Clean
       /\ NewTable[b].reserved_offset = 0 /\ NewTable[b].reserved_size = PagesPerBlock
BY BlockInfoAssumption DEF NewTable, CleanBlock, Tables, InfoRecord, Statuses

(* The pages of a block are set one after the other.                         *)
Filled(info, s, n) ==
  FoldLeft(LAMBDA x, d : SetPage(x, d - 1, s[d - 1]), info, [d \in 1 .. n |-> d])

LEMMA FilledWalk ==
  ASSUME NEW info \in InfoRecord, NEW s \in [Offsets -> {Clean, Dirty}],
         NEW n \in Nat, n <= PagesPerBlock
  PROVE  \E f \in [0 .. n -> InfoRecord] :
           /\ f[0] = info /\ f[n] = Filled(info, s, n)
           /\ \A k \in 1 .. n : f[k] = SetPage(f[k - 1], k - 1, s[k - 1])
<1>. DEFINE G == [x \in InfoRecord \X (1 .. n) |-> SetPage(x[1], x[2] - 1, s[x[2] - 1])]
            Def(it) == [q \in SUBSET (1 .. n) |->
                         IF q = {} THEN info
                         ELSE SetPage(it[q \ {Max(q)}], [d \in 1 .. n |-> d][Max(q)] - 1,
                                      s[[d \in 1 .. n |-> d][Max(q)] - 1])]
            iter == CHOOSE it : it = Def(it)
<1>1. G \in [InfoRecord \X (1 .. n) -> InfoRecord]
  <2>1. \A k \in 1 .. n : k - 1 \in Offsets /\ s[k - 1] \in Statuses
    BY BlockInfoAssumption DEF Offsets, Statuses
  <2>. QED
    BY <2>1, SetPageRecord
<1>2. Filled(info, s, n) = iter[1 .. n]
  BY DEF Filled, FoldLeft, MapThenFoldSet
<1>3. PICK h : Folds(h, InfoRecord, info, G, n)
  BY <1>1, FoldExists
<1>4. h = Def(h)
  BY <1>3, MaxIn DEF Folds
<1>5. iter = Def(iter)
  BY <1>4
<1>. HIDE DEF iter
<1>6. Recurs(iter, InfoRecord, info, G, n)
  BY <1>5, MaxIn DEF Recurs
<1>7. Walks(Walk(iter, n), InfoRecord, info, G, n) /\ Walk(iter, n)[n] = iter[1 .. n]
  <2>. HIDE DEF G
  <2>. QED
    BY <1>1, <1>6, WalkOf
<1>. DEFINE f == Walk(iter, n)
<1>. HIDE DEF f
<1>8. /\ f \in [0 .. n -> InfoRecord] /\ f[0] = info /\ f[n] = iter[1 .. n]
      /\ \A k \in 1 .. n : f[k] = G[<<f[k - 1], k>>]
  BY <1>7 DEF Walks, f
<1>9. \A k \in 1 .. n : f[k] = SetPage(f[k - 1], k - 1, s[k - 1])
  <2>1. \A k \in 1 .. n : k - 1 \in 0 .. n
    OBVIOUS
  <2>. QED
    BY <1>8, <2>1
<1>. QED
  BY <1>2, <1>8, <1>9

LEMMA FilledIs ==
  ASSUME NEW info \in InfoRecord, NEW s \in [Offsets -> {Clean, Dirty}], NEW t,
         t = Filled(info, s, PagesPerBlock)
  PROVE  /\ t \in InfoRecord
         /\ \A o \in Offsets : t.used_map[o] = s[o]
         /\ t.reserved_offset = info.reserved_offset /\ t.reserved_size = info.reserved_size
<1>. DEFINE n == PagesPerBlock
<1>1. n \in Nat /\ n <= PagesPerBlock /\ Offsets = 0 .. n - 1
  BY BlockInfoAssumption DEF Offsets
<1>0. t = Filled(info, s, n)
  OBVIOUS
<1>. HIDE DEF n
<1>2. PICK f \in [0 .. n -> InfoRecord] :
        /\ f[0] = info /\ f[n] = Filled(info, s, n)
        /\ \A k \in 1 .. n : f[k] = SetPage(f[k - 1], k - 1, s[k - 1])
  BY <1>1, FilledWalk
<1>. DEFINE G == {k \in 0 .. n :
                   /\ \A o \in 0 .. k - 1 : f[k].used_map[o] = s[o]
                   /\ f[k].reserved_offset = info.reserved_offset
                   /\ f[k].reserved_size = info.reserved_size}
<1>3. 0 \in G
  BY <1>1, <1>2
<1>4. ASSUME NEW k \in 1 .. n, k - 1 \in G PROVE k \in G
  <2>1. /\ k - 1 \in 0 .. n /\ k - 1 \in Offsets /\ k \in 0 .. n /\ f[k - 1] \in InfoRecord
        /\ \A o \in 0 .. k - 2 : f[k - 1].used_map[o] = s[o]
        /\ f[k - 1].reserved_offset = info.reserved_offset
        /\ f[k - 1].reserved_size = info.reserved_size
    BY <1>1, <1>4
  <2>2. s[k - 1] \in Statuses /\ Count(s[k - 1] \in Inos) = 0
    BY <2>1, BlockInfoAssumption DEF Statuses, Count
  <2>3. f[k] = SetPage(f[k - 1], k - 1, s[k - 1])
    BY <1>2
  <2>4. /\ \A p \in Offsets :
             f[k].used_map[p] = IF p = k - 1 THEN s[k - 1] ELSE f[k - 1].used_map[p]
        /\ f[k].reserved_offset = f[k - 1].reserved_offset + Count(s[k - 1] \in Inos)
        /\ f[k].reserved_size = f[k - 1].reserved_size - Count(s[k - 1] \in Inos)
    BY <2>1, <2>2, <2>3, SetPageRecord
  <2>5. info.reserved_offset \in Int /\ info.reserved_size \in Int
    BY DEF InfoRecord
  <2>6. f[k].reserved_offset = info.reserved_offset /\ f[k].reserved_size = info.reserved_size
    BY <2>1, <2>2, <2>4, <2>5
  <2>7. \A o \in 0 .. k - 1 : f[k].used_map[o] = s[o]
    <3>1. \A o \in 0 .. k - 1 : o \in Offsets /\ (o = k - 1 \/ o \in 0 .. k - 2)
      BY <1>1
    <3>. QED
      BY <2>1, <2>4, <3>1
  <2>. QED
    BY <2>1, <2>6, <2>7
<1>5. \A k \in 0 .. n : k \in G
  <2>. HIDE DEF G
  <2>. QED
    BY <1>1, <1>3, <1>4, UpTo
<1>6. n \in G
  BY <1>1, <1>5
<1>. QED
  BY <1>0, <1>1, <1>2, <1>6

(* set_bit.                                                                  *)
BitStatus(image, b) == [o \in Offsets |-> IF o \in Bits(image, b) THEN Dirty ELSE Clean]

LEMMA SetPagesIs ==
  ASSUME NEW blocks \in Tables, NEW b \in Blocks, NEW image, NEW t,
         t = SetPages(blocks, b, BitStatus(image, b))
  PROVE  /\ t \in Tables
         /\ \A c \in Blocks \ {b} : t[c] = blocks[c]
         /\ \A o \in Offsets : t[b].used_map[o] = BitStatus(image, b)[o]
         /\ t[b].reserved_offset = blocks[b].reserved_offset
         /\ t[b].reserved_size = blocks[b].reserved_size
<1>. DEFINE s == BitStatus(image, b)
            x == Filled(blocks[b], s, PagesPerBlock)
<1>1. t = [blocks EXCEPT ![b] = x]
  BY DEF SetPages, Filled
<1>2. s \in [Offsets -> {Clean, Dirty}] /\ blocks[b] \in InfoRecord
  BY DEF BitStatus, Tables
<1>. HIDE DEF s
<1>3. /\ x \in InfoRecord
      /\ \A o \in Offsets : x.used_map[o] = s[o]
      /\ x.reserved_offset = blocks[b].reserved_offset /\ x.reserved_size = blocks[b].reserved_size
  BY <1>2, FilledIs
<1>. HIDE DEF x
<1>4. t[b] = x
  BY <1>1 DEF Tables
<1>5. t \in Tables /\ \A c \in Blocks \ {b} : t[c] = blocks[c]
  BY <1>1, <1>3 DEF Tables
<1>. QED
  BY <1>3, <1>4, <1>5 DEF s

BitCount == Min({BitBlocks, BlockCount})

LEMMA BitCountIs ==
  /\ BitCount \in Nat
  /\ \A d \in 1 .. BitCount : d - 1 \in Blocks
  /\ \A b \in Blocks : b < BitCount <=> b < BitBlocks
<1>1. BitBlocks \in Nat /\ BlockCount \in Nat
  BY MetadataRegionsAssumption, BlockInfoAssumption
<1>2. BitCount = IF BitBlocks <= BlockCount THEN BitBlocks ELSE BlockCount
  BY <1>1, MinOfTwo DEF BitCount
<1>. QED
  BY <1>1, <1>2 DEF Blocks

BitsSet(blocks, image, n) ==
  FoldLeft(LAMBDA acc, d : SetPages(acc, d - 1, BitStatus(image, d - 1)), blocks, [d \in 1 .. n |-> d])

LEMMA SetBitWalk ==
  ASSUME NEW blocks \in Tables, NEW image, NEW n \in Nat, \A d \in 1 .. n : d - 1 \in Blocks
  PROVE  \E f \in [0 .. n -> Tables] :
           /\ f[0] = blocks /\ f[n] = BitsSet(blocks, image, n)
           /\ \A k \in 1 .. n : f[k] = SetPages(f[k - 1], k - 1, BitStatus(image, k - 1))
<1>. DEFINE G == [x \in Tables \X (1 .. n) |-> SetPages(x[1], x[2] - 1, BitStatus(image, x[2] - 1))]
            Def(it) == [q \in SUBSET (1 .. n) |->
                         IF q = {} THEN blocks
                         ELSE SetPages(it[q \ {Max(q)}], [d \in 1 .. n |-> d][Max(q)] - 1,
                                       BitStatus(image, [d \in 1 .. n |-> d][Max(q)] - 1))]
            iter == CHOOSE it : it = Def(it)
<1>1. G \in [Tables \X (1 .. n) -> Tables]
  BY SetPagesIs
<1>2. BitsSet(blocks, image, n) = iter[1 .. n]
  BY DEF BitsSet, FoldLeft, MapThenFoldSet
<1>3. PICK h : Folds(h, Tables, blocks, G, n)
  BY <1>1, FoldExists
<1>4. h = Def(h)
  BY <1>3, MaxIn DEF Folds
<1>5. iter = Def(iter)
  BY <1>4
<1>. HIDE DEF iter
<1>6. Recurs(iter, Tables, blocks, G, n)
  BY <1>5, MaxIn DEF Recurs
<1>7. Walks(Walk(iter, n), Tables, blocks, G, n) /\ Walk(iter, n)[n] = iter[1 .. n]
  <2>. HIDE DEF G
  <2>. QED
    BY <1>1, <1>6, WalkOf
<1>. DEFINE f == Walk(iter, n)
<1>. HIDE DEF f
<1>8. /\ f \in [0 .. n -> Tables] /\ f[0] = blocks /\ f[n] = iter[1 .. n]
      /\ \A k \in 1 .. n : f[k] = G[<<f[k - 1], k>>]
  BY <1>7 DEF Walks, f
<1>9. \A k \in 1 .. n : f[k] = SetPages(f[k - 1], k - 1, BitStatus(image, k - 1))
  <2>1. \A k \in 1 .. n : k - 1 \in 0 .. n
    OBVIOUS
  <2>. QED
    BY <1>8, <2>1
<1>. QED
  BY <1>2, <1>8, <1>9

LEMMA SetBitIs ==
  ASSUME NEW image, NEW t, t = SetBit(NewTable, image)
  PROVE  /\ t \in Tables
         /\ \A b \in Blocks :
              /\ \A o \in Offsets :
                   t[b].used_map[o] = IF b < BitBlocks THEN BitStatus(image, b)[o] ELSE Clean
              /\ t[b].reserved_offset = 0 /\ t[b].reserved_size = PagesPerBlock
<1>. DEFINE n == BitCount
            Set(b, o, k) == IF b < k THEN BitStatus(image, b)[o] ELSE Clean
<1>1. n \in Nat /\ \A d \in 1 .. n : d - 1 \in Blocks
  BY BitCountIs
<1>0. t = BitsSet(NewTable, image, n)
  BY DEF SetBit, BitsSet, BitStatus, BitCount
<1>. HIDE DEF n
<1>2. PICK f \in [0 .. n -> Tables] :
        /\ f[0] = NewTable /\ f[n] = BitsSet(NewTable, image, n)
        /\ \A k \in 1 .. n : f[k] = SetPages(f[k - 1], k - 1, BitStatus(image, k - 1))
  BY <1>1, SetBitWalk, NewTableIs
<1>. DEFINE G == {k \in 0 .. n :
                   \A b \in Blocks :
                     /\ \A o \in Offsets : f[k][b].used_map[o] = Set(b, o, k)
                     /\ f[k][b].reserved_offset = 0 /\ f[k][b].reserved_size = PagesPerBlock}
<1>3. 0 \in G
  <2>1. \A b \in Blocks : ~(b < 0)
    BY DEF Blocks
  <2>. QED
    BY <1>1, <1>2, <2>1, NewTableIs
<1>4. ASSUME NEW k \in 1 .. n, k - 1 \in G PROVE k \in G
  <2>1. /\ k - 1 \in 0 .. n /\ k - 1 \in Blocks /\ k \in 0 .. n /\ f[k - 1] \in Tables
        /\ \A b \in Blocks :
             /\ \A o \in Offsets : f[k - 1][b].used_map[o] = Set(b, o, k - 1)
             /\ f[k - 1][b].reserved_offset = 0 /\ f[k - 1][b].reserved_size = PagesPerBlock
    BY <1>1, <1>4, BitCountIs DEF n
  <2>2. f[k] = SetPages(f[k - 1], k - 1, BitStatus(image, k - 1))
    BY <1>2
  <2>3. /\ \A c \in Blocks \ {k - 1} : f[k][c] = f[k - 1][c]
        /\ \A o \in Offsets : f[k][k - 1].used_map[o] = BitStatus(image, k - 1)[o]
        /\ f[k][k - 1].reserved_offset = f[k - 1][k - 1].reserved_offset
        /\ f[k][k - 1].reserved_size = f[k - 1][k - 1].reserved_size
    BY <2>1, <2>2, SetPagesIs
  <2>4. ASSUME NEW b \in Blocks
        PROVE  /\ \A o \in Offsets : f[k][b].used_map[o] = Set(b, o, k)
               /\ f[k][b].reserved_offset = 0 /\ f[k][b].reserved_size = PagesPerBlock
    <3>1. CASE b = k - 1
      <4>1. b < k
        BY <1>1, <3>1
      <4>. QED
        BY <2>1, <2>3, <3>1, <4>1
    <3>2. CASE b # k - 1
      <4>1. b < k <=> b < k - 1
        BY <1>1, <3>2 DEF Blocks
      <4>. QED
        BY <2>1, <2>3, <3>2, <4>1
    <3>. QED
      BY <3>1, <3>2
  <2>. QED
    BY <2>1, <2>4
<1>5. \A k \in 0 .. n : k \in G
  <2>. HIDE DEF G
  <2>. QED
    BY <1>1, <1>3, <1>4, UpTo
<1>6. n \in G
  BY <1>1, <1>5
<1>7. \A b \in Blocks : b < n <=> b < BitBlocks
  BY BitCountIs DEF n
<1>. QED
  BY <1>0, <1>1, <1>2, <1>6, <1>7

-----------------------------------------------------------------------------
(* set_pit.                                                                  *)

LEMMA AddressIs ==
  ASSUME NEW a \in Pages
  PROVE  /\ a \in Nat
         /\ BlockOf(a) \in Blocks /\ OffsetOf(a) \in Offsets
         /\ a = Address(BlockOf(a), OffsetOf(a))
  BY BlockInfoAssumption, SMTT(30) DEF Pages, Blocks, Offsets, BlockOf, OffsetOf, Address

LEMMA AddressOf ==
  ASSUME NEW b \in Blocks, NEW o \in Offsets
  PROVE  Address(b, o) \in Pages /\ BlockOf(Address(b, o)) = b /\ OffsetOf(Address(b, o)) = o
<1>1. b \in Nat /\ o \in Nat /\ o < PagesPerBlock /\ b + 1 <= BlockCount /\ PagesPerBlock \in Nat
  BY BlockInfoAssumption DEF Blocks, Offsets
<1>2. Address(b, o) = b * PagesPerBlock + o /\ b * PagesPerBlock \in Nat
  BY <1>1 DEF Address
<1>3. (b + 1) * PagesPerBlock <= BlockCount * PagesPerBlock
  BY <1>1, BlockInfoAssumption
<1>4. (b + 1) * PagesPerBlock = b * PagesPerBlock + PagesPerBlock
  BY <1>1
<1>5. BlockCount * PagesPerBlock \in Nat /\ (b + 1) * PagesPerBlock \in Nat
  BY <1>1, BlockInfoAssumption
<1>6. Address(b, o) \in Pages
  BY <1>1, <1>2, <1>3, <1>4, <1>5 DEF Pages
<1>7. BlockOf(Address(b, o)) = b /\ OffsetOf(Address(b, o)) = o
  BY <1>1, <1>2, SMTT(30) DEF BlockOf, OffsetOf
<1>. QED
  BY <1>6, <1>7

SetPair(t, x) == [t EXCEPT ![BlockOf(x[1])] = SetPage(@, OffsetOf(x[1]), x[2])]

LEMMA SetPairIs ==
  ASSUME NEW t \in Tables, NEW x \in Pages \X Inos, NEW u, u = SetPair(t, x)
  PROVE  /\ u \in Tables
         /\ \A b \in Blocks, o \in Offsets :
              u[b].used_map[o] = IF Address(b, o) = x[1] THEN x[2] ELSE t[b].used_map[o]
         /\ \A b \in Blocks :
              LET n == IF b = BlockOf(x[1]) THEN 1 ELSE 0 IN
              /\ u[b].reserved_offset = t[b].reserved_offset + n
              /\ u[b].reserved_size = t[b].reserved_size - n
<1>. DEFINE c == BlockOf(x[1])
            p == OffsetOf(x[1])
            y == SetPage(t[c], p, x[2])
<1>1. c \in Blocks /\ p \in Offsets /\ x[1] = Address(c, p) /\ x[2] \in Inos /\ x[2] \in Statuses
  BY AddressIs DEF Statuses
<1>2. u = [t EXCEPT ![c] = y]
  BY DEF SetPair
<1>. HIDE DEF c, p
<1>3. /\ y \in InfoRecord
      /\ \A o \in Offsets : y.used_map[o] = IF o = p THEN x[2] ELSE t[c].used_map[o]
      /\ y.reserved_offset = t[c].reserved_offset + Count(x[2] \in Inos)
      /\ y.reserved_size = t[c].reserved_size - Count(x[2] \in Inos)
  <2>1. t[c] \in InfoRecord
    BY <1>1 DEF Tables
  <2>. QED
    BY <1>1, <2>1, SetPageRecord
<1>. HIDE DEF y
<1>4. Count(x[2] \in Inos) = 1
  BY <1>1 DEF Count
<1>5. u \in Tables /\ \A b \in Blocks : u[b] = IF b = c THEN y ELSE t[b]
  BY <1>1, <1>2, <1>3 DEF Tables
<1>6. ASSUME NEW b \in Blocks, NEW o \in Offsets
      PROVE  u[b].used_map[o] = IF Address(b, o) = x[1] THEN x[2] ELSE t[b].used_map[o]
  <2>1. Address(b, o) = x[1] <=> b = c /\ o = p
    BY <1>1, AddressOf
  <2>. QED
    BY <1>3, <1>5, <2>1
<1>7. ASSUME NEW b \in Blocks
      PROVE  LET n == IF b = c THEN 1 ELSE 0 IN
             /\ u[b].reserved_offset = t[b].reserved_offset + n
             /\ u[b].reserved_size = t[b].reserved_size - n
  <2>1. t[b].reserved_offset \in Int /\ t[b].reserved_size \in Int
    BY DEF Tables, InfoRecord
  <2>2. CASE b = c
    BY <1>3, <1>4, <1>5, <2>2
  <2>3. CASE b # c
    BY <1>5, <2>1, <2>3
  <2>. QED
    BY <2>2, <2>3
<1>. QED
  BY <1>5, <1>6, <1>7 DEF c

PairsSet(blocks, s) == FoldLeft(LAMBDA acc, x : SetPair(acc, x), blocks, s)

PairSeq(s, n) == s \in [1 .. n -> Pages \X Inos]

PairsWalk(f, blocks, s, n) ==
  /\ f \in [0 .. n -> Tables]
  /\ f[0] = blocks /\ f[n] = PairsSet(blocks, s)
  /\ \A k \in 1 .. n : f[k] = SetPair(f[k - 1], s[k])

LEMMA PairsSetWalk ==
  ASSUME NEW blocks \in Tables, NEW n \in Nat, NEW s, PairSeq(s, n)
  PROVE  \E f : PairsWalk(f, blocks, s, n)
<1>. DEFINE G == [x \in Tables \X (1 .. n) |-> SetPair(x[1], s[x[2]])]
            Def(it) == [q \in SUBSET (1 .. n) |->
                         IF q = {} THEN blocks ELSE SetPair(it[q \ {Max(q)}], s[Max(q)])]
            iter == CHOOSE it : it = Def(it)
<1>1. G \in [Tables \X (1 .. n) -> Tables]
  BY SetPairIs DEF PairSeq
<1>2. PairsSet(blocks, s) = iter[1 .. n]
  <2>1. DOMAIN s = 1 .. n
    BY DEF PairSeq
  <2>. QED
    BY <2>1 DEF PairsSet, FoldLeft, MapThenFoldSet
<1>3. PICK h : Folds(h, Tables, blocks, G, n)
  BY <1>1, FoldExists
<1>4. h = Def(h)
  BY <1>3, MaxIn DEF Folds
<1>5. iter = Def(iter)
  BY <1>4
<1>. HIDE DEF iter
<1>6. Recurs(iter, Tables, blocks, G, n)
  BY <1>5, MaxIn DEF Recurs
<1>7. Walks(Walk(iter, n), Tables, blocks, G, n) /\ Walk(iter, n)[n] = iter[1 .. n]
  <2>. HIDE DEF G
  <2>. QED
    BY <1>1, <1>6, WalkOf
<1>. DEFINE f == Walk(iter, n)
<1>. HIDE DEF f
<1>8. /\ f \in [0 .. n -> Tables] /\ f[0] = blocks /\ f[n] = iter[1 .. n]
      /\ \A k \in 1 .. n : f[k] = G[<<f[k - 1], k>>]
  BY <1>7 DEF Walks, f
<1>9. \A k \in 1 .. n : f[k] = SetPair(f[k - 1], s[k])
  <2>1. \A k \in 1 .. n : k - 1 \in 0 .. n
    OBVIOUS
  <2>. QED
    BY <1>8, <2>1
<1>. QED
  BY <1>2, <1>8, <1>9 DEF PairsWalk

(* The pages of the first k pairs, and those of them in a block.             *)
PagesOf(s, k) == {s[d][1] : d \in 1 .. k}
PagesOwnedIn(s, k, b) == {o \in Offsets : Address(b, o) \in PagesOf(s, k)}

LEMMA SomeOffsetsFinite ==
  ASSUME NEW S \in SUBSET Offsets
  PROVE  IsFiniteSet(S) /\ Cardinality(S) \in Nat
<1>1. IsFiniteSet(Offsets)
  <2>1. 0 \in Int /\ PagesPerBlock - 1 \in Int
    BY BlockInfoAssumption
  <2>. QED
    BY <2>1, FS_Interval DEF Offsets
<1>2. IsFiniteSet(S)
  BY <1>1, FS_Subset
<1>. QED
  BY <1>2, FS_CardinalityType

LEMMA OnePageMore ==
  ASSUME NEW n \in Nat, NEW s \in [1 .. n -> Pages \X Inos], NEW k \in 1 .. n,
         \A d, e \in 1 .. n : s[d][1] = s[e][1] => d = e
  PROVE  /\ PagesOf(s, k) = PagesOf(s, k - 1) \cup {s[k][1]}
         /\ \A b \in Blocks :
              Cardinality(PagesOwnedIn(s, k, b)) =
                Cardinality(PagesOwnedIn(s, k - 1, b)) + (IF b = BlockOf(s[k][1]) THEN 1 ELSE 0)
<1>. DEFINE a == s[k][1]
<1>1. a \in Pages /\ BlockOf(a) \in Blocks /\ OffsetOf(a) \in Offsets
      /\ a = Address(BlockOf(a), OffsetOf(a))
  BY AddressIs
<1>2. \A d : d \in 1 .. k <=> d \in 1 .. k - 1 \/ d = k
  OBVIOUS
<1>3. PagesOf(s, k) = PagesOf(s, k - 1) \cup {a}
  BY <1>2 DEF PagesOf
<1>4. a \notin PagesOf(s, k - 1)
  <2>1. \A d \in 1 .. k - 1 : d \in 1 .. n /\ d # k
    OBVIOUS
  <2>. QED
    BY <2>1 DEF PagesOf
<1>. HIDE DEF a
<1>5. ASSUME NEW b \in Blocks
      PROVE  Cardinality(PagesOwnedIn(s, k, b)) =
               Cardinality(PagesOwnedIn(s, k - 1, b)) + (IF b = BlockOf(a) THEN 1 ELSE 0)
  <2>. DEFINE S == PagesOwnedIn(s, k - 1, b)
              T == PagesOwnedIn(s, k, b)
  <2>1. IsFiniteSet(S) /\ Cardinality(S) \in Nat
    BY SomeOffsetsFinite DEF PagesOwnedIn
  <2>2. \A o \in Offsets : Address(b, o) = a <=> b = BlockOf(a) /\ o = OffsetOf(a)
    BY <1>1, AddressOf
  <2>3. CASE b = BlockOf(a)
    <3>1. T = S \cup {OffsetOf(a)}
      BY <1>1, <1>3, <2>2, <2>3 DEF PagesOwnedIn
    <3>2. OffsetOf(a) \notin S
      BY <1>1, <1>4, <2>3 DEF PagesOwnedIn
    <3>. HIDE DEF S, T
    <3>3. Cardinality(T) = Cardinality(S) + 1
      BY <2>1, <3>1, <3>2, FS_AddElement
    <3>. QED
      BY <2>3, <3>3 DEF S, T
  <2>4. CASE b # BlockOf(a)
    <3>1. T = S
      BY <1>3, <2>2, <2>4 DEF PagesOwnedIn
    <3>. HIDE DEF S, T
    <3>2. Cardinality(T) = Cardinality(S) + 0
      BY <2>1, <3>1
    <3>. QED
      BY <2>4, <3>2 DEF S, T
  <2>. QED
    BY <2>3, <2>4
<1>. QED
  BY <1>3, <1>5 DEF a

(* A table whose reserves are whole, after pages have been set busy.         *)
LEMMA PairsSetIs ==
  ASSUME NEW blocks \in Tables, NEW n \in Nat, NEW s \in [1 .. n -> Pages \X Inos],
         \A d, e \in 1 .. n : s[d][1] = s[e][1] => d = e,
         \A b \in Blocks : blocks[b].reserved_offset = 0 /\ blocks[b].reserved_size = PagesPerBlock,
         NEW u, u = PairsSet(blocks, s)
  PROVE  /\ \A b \in Blocks, o \in Offsets :
              /\ Address(b, o) \notin PagesOf(s, n) => u[b].used_map[o] = blocks[b].used_map[o]
              /\ \A d \in 1 .. n : Address(b, o) = s[d][1] => u[b].used_map[o] = s[d][2]
         /\ \A b \in Blocks :
              /\ u[b].reserved_offset = Cardinality(PagesOwnedIn(s, n, b))
              /\ u[b].reserved_size = PagesPerBlock - Cardinality(PagesOwnedIn(s, n, b))
<1>0. PairSeq(s, n)
  BY DEF PairSeq
<1>. PICK f : PairsWalk(f, blocks, s, n)
  BY <1>0, PairsSetWalk
<1>1. /\ f \in [0 .. n -> Tables]
      /\ f[0] = blocks /\ f[n] = PairsSet(blocks, s)
      /\ \A k \in 1 .. n : f[k] = SetPair(f[k - 1], s[k])
  BY DEF PairsWalk
<1>. DEFINE Used(k) ==
              \A b \in Blocks, o \in Offsets :
                /\ Address(b, o) \notin PagesOf(s, k) => f[k][b].used_map[o] = blocks[b].used_map[o]
                /\ \A d \in 1 .. k : Address(b, o) = s[d][1] => f[k][b].used_map[o] = s[d][2]
            Reserve(k) ==
              \A b \in Blocks :
                /\ f[k][b].reserved_offset = Cardinality(PagesOwnedIn(s, k, b))
                /\ f[k][b].reserved_size = PagesPerBlock - Cardinality(PagesOwnedIn(s, k, b))
            G == {k \in 0 .. n : Used(k) /\ Reserve(k)}
<1>2. 0 \in G
  <2>1. 1 .. 0 = {}
    OBVIOUS
  <2>2. Used(0)
    BY <1>1, <2>1
  <2>3. \A b \in Blocks : PagesOwnedIn(s, 0, b) = {}
    BY <2>1 DEF PagesOwnedIn, PagesOf
  <2>4. Cardinality({}) = 0 /\ PagesPerBlock - 0 = PagesPerBlock
    BY FS_EmptySet, BlockInfoAssumption
  <2>5. Reserve(0)
    BY <1>1, <2>3, <2>4
  <2>. QED
    BY <2>2, <2>5
<1>3. ASSUME NEW k \in 1 .. n, k - 1 \in G PROVE k \in G
  <2>0. k - 1 \in 0 .. n /\ k \in 0 .. n /\ f[k - 1] \in Tables
    BY <1>1
  <2>1. Used(k - 1) /\ Reserve(k - 1)
    BY <1>3
  <2>2. f[k] = SetPair(f[k - 1], s[k]) /\ s[k] \in Pages \X Inos
    BY <1>1
  <2>3. /\ \A b \in Blocks, o \in Offsets :
             f[k][b].used_map[o] = IF Address(b, o) = s[k][1] THEN s[k][2] ELSE f[k - 1][b].used_map[o]
        /\ \A b \in Blocks :
             LET m == IF b = BlockOf(s[k][1]) THEN 1 ELSE 0 IN
             /\ f[k][b].reserved_offset = f[k - 1][b].reserved_offset + m
             /\ f[k][b].reserved_size = f[k - 1][b].reserved_size - m
    <3>. DEFINE t == f[k - 1]
                v == f[k]
                x == s[k]
    <3>1. t \in Tables /\ x \in Pages \X Inos /\ v = SetPair(t, x)
      BY <2>0, <2>2
    <3>. HIDE DEF t, v, x
    <3>2. /\ \A b \in Blocks, o \in Offsets :
               v[b].used_map[o] = IF Address(b, o) = x[1] THEN x[2] ELSE t[b].used_map[o]
          /\ \A b \in Blocks :
               LET m == IF b = BlockOf(x[1]) THEN 1 ELSE 0 IN
               /\ v[b].reserved_offset = t[b].reserved_offset + m
               /\ v[b].reserved_size = t[b].reserved_size - m
      BY <3>1, SetPairIs
    <3>. QED
      BY <3>2 DEF t, v, x
  <2>4. /\ PagesOf(s, k) = PagesOf(s, k - 1) \cup {s[k][1]}
        /\ \A b \in Blocks :
             Cardinality(PagesOwnedIn(s, k, b)) =
               Cardinality(PagesOwnedIn(s, k - 1, b)) + (IF b = BlockOf(s[k][1]) THEN 1 ELSE 0)
    BY OnePageMore
  <2>5. Used(k)
    <3>. SUFFICES ASSUME NEW b \in Blocks, NEW o \in Offsets
                  PROVE  /\ Address(b, o) \notin PagesOf(s, k) =>
                              f[k][b].used_map[o] = blocks[b].used_map[o]
                         /\ \A d \in 1 .. k : Address(b, o) = s[d][1] => f[k][b].used_map[o] = s[d][2]
      OBVIOUS
    <3>1. ASSUME Address(b, o) \notin PagesOf(s, k) PROVE f[k][b].used_map[o] = blocks[b].used_map[o]
      BY <2>1, <2>3, <2>4, <3>1
    <3>2. ASSUME NEW d \in 1 .. k, Address(b, o) = s[d][1] PROVE f[k][b].used_map[o] = s[d][2]
      <4>1. CASE d = k
        BY <2>3, <3>2, <4>1
      <4>2. CASE d # k
        <5>1. d \in 1 .. k - 1 /\ d \in 1 .. n
          BY <4>2
        <5>2. s[d][1] # s[k][1]
          BY <4>2, <5>1
        <5>. QED
          BY <2>1, <2>3, <3>2, <5>1, <5>2
      <4>. QED
        BY <4>1, <4>2
    <3>. QED
      BY <3>1, <3>2
  <2>6. Reserve(k)
    <3>. SUFFICES ASSUME NEW b \in Blocks
                  PROVE  /\ f[k][b].reserved_offset = Cardinality(PagesOwnedIn(s, k, b))
                         /\ f[k][b].reserved_size = PagesPerBlock - Cardinality(PagesOwnedIn(s, k, b))
      OBVIOUS
    <3>. DEFINE x == Cardinality(PagesOwnedIn(s, k - 1, b))
                y == Cardinality(PagesOwnedIn(s, k, b))
                m == IF b = BlockOf(s[k][1]) THEN 1 ELSE 0
    <3>1. x \in Nat /\ m \in Nat /\ PagesPerBlock \in Nat
      BY SomeOffsetsFinite, BlockInfoAssumption DEF PagesOwnedIn
    <3>2. y = x + m
      BY <2>4
    <3>3. f[k][b].reserved_offset = x + m /\ f[k][b].reserved_size = (PagesPerBlock - x) - m
      BY <2>1, <2>3
    <3>. HIDE DEF x, y, m
    <3>4. f[k][b].reserved_offset = y /\ f[k][b].reserved_size = PagesPerBlock - y
      BY <3>1, <3>2, <3>3
    <3>. QED
      BY <3>4 DEF y
  <2>. QED
    BY <2>0, <2>5, <2>6
<1>4. \A k \in 0 .. n : k \in G
  <2>. HIDE DEF G
  <2>. QED
    BY <1>2, <1>3, UpTo
<1>5. n \in G
  BY <1>4
<1>. QED
  BY <1>1, <1>5

-----------------------------------------------------------------------------
(* What both images make of a new table.                                     *)
LEMMA TableRestored ==
  ASSUME saved \in SavedTables, UsesMap(saved),
         NEW bit, Good("bit", bit), NEW pit, Good("pit", pit),
         restored = SetPit(SetBit(NewTable, bit), pit)
  PROVE  StatusesRestored /\ ReserveRestored
<1>. DEFINE blocks == SetBit(NewTable, bit)
            n == Cardinality(SavedPairs)
            s == SetToSeq(SavedPairs)
<1>1. ASSUME NEW b \in Blocks, NEW o \in Offsets
      PROVE  saved[b][o] \in Statuses
  BY DEF SavedTables
<1>2. ASSUME NEW b \in Blocks
      PROVE  Bits(bit, b) = {o \in Offsets : saved[b][o] # Clean}
  <2>1. [c \in Blocks |-> Bits(bit, c)] = [c \in Blocks |-> Bits(EncodeBit(saved), c)]
    BY DEF Good, Meaning, Image
  <2>2. Bits(bit, b) = Bits(EncodeBit(saved), b)
    BY <2>1
  <2>. QED
    BY <2>2, BitsEncoded
<1>3. Owners(pit) = SavedPairs
  <2>1. Owners(pit) = Owners(EncodePit(saved))
    BY DEF Good, Meaning, Image
  <2>. QED
    BY <2>1, OwnersEncoded
<1>4. /\ blocks \in Tables
      /\ \A b \in Blocks :
           /\ \A o \in Offsets :
                blocks[b].used_map[o] = IF b < BitBlocks THEN BitStatus(bit, b)[o] ELSE Clean
           /\ blocks[b].reserved_offset = 0 /\ blocks[b].reserved_size = PagesPerBlock
  BY SetBitIs
<1>5. ASSUME NEW b \in Blocks, NEW o \in Offsets
      PROVE  blocks[b].used_map[o] = IF b < BitBlocks /\ saved[b][o] # Clean THEN Dirty ELSE Clean
  BY <1>2, <1>4 DEF BitStatus
<1>6. restored = PairsSet(blocks, s)
  BY <1>3 DEF SetPit, PairsSet, SetPair
<1>. HIDE DEF blocks
<1>7. /\ n \in Nat /\ s \in [1 .. n -> SavedPairs]
      /\ \A d, e \in 1 .. n : s[d] = s[e] => d = e
      /\ \A x \in SavedPairs : \E d \in 1 .. n : s[d] = x
  <2>1. IsFiniteSet(SavedPairs)
    BY PairsFinite
  <2>. QED
    BY <2>1, SeqOfSet
<1>. HIDE DEF n, s
<1>8. \A x \in SavedPairs : x \in Pages \X Inos /\ x[1] \in Owned(saved) /\ x = SavedPair(x[1])
  BY DEF SavedPairs, SavedPair, Owned
<1>9. s \in [1 .. n -> Pages \X Inos] /\ \A d, e \in 1 .. n : s[d][1] = s[e][1] => d = e
  BY <1>7, <1>8
<1>10. PagesOf(s, n) = Owned(saved)
  <2>1. \A a \in Owned(saved) : SavedPair(a) \in SavedPairs /\ SavedPair(a)[1] = a
    BY DEF SavedPairs, SavedPair
  <2>. QED
    BY <1>7, <1>8, <2>1 DEF PagesOf
<1>11. \A b \in Blocks, o \in Offsets : Address(b, o) \in Owned(saved) <=> saved[b][o] \in Inos
  BY AddressOf DEF Owned
<1>12. /\ \A b \in Blocks, o \in Offsets :
            /\ Address(b, o) \notin PagesOf(s, n) => restored[b].used_map[o] = blocks[b].used_map[o]
            /\ \A d \in 1 .. n : Address(b, o) = s[d][1] => restored[b].used_map[o] = s[d][2]
       /\ \A b \in Blocks :
            /\ restored[b].reserved_offset = Cardinality(PagesOwnedIn(s, n, b))
            /\ restored[b].reserved_size = PagesPerBlock - Cardinality(PagesOwnedIn(s, n, b))
  BY <1>4, <1>6, <1>7, <1>9, PairsSetIs
<1>13. StatusesRestored
  <2>. SUFFICES ASSUME NEW b \in Blocks, NEW o \in Offsets
                PROVE  restored[b].used_map[o] =
                         IF saved[b][o] = Dirty /\ b >= BitBlocks THEN Clean ELSE saved[b][o]
    BY DEF StatusesRestored
  <2>1. CASE saved[b][o] \in Inos
    <3>1. PICK d \in 1 .. n : s[d] = SavedPair(Address(b, o))
      BY <1>7, <1>11, <2>1 DEF SavedPairs
    <3>2. s[d][1] = Address(b, o) /\ s[d][2] = saved[b][o]
      BY <3>1, AddressOf DEF SavedPair
    <3>3. restored[b].used_map[o] = saved[b][o]
      BY <1>12, <3>2
    <3>. QED
      BY <2>1, <3>3, BlockInfoAssumption
  <2>2. CASE saved[b][o] \notin Inos
    <3>1. restored[b].used_map[o] = IF b < BitBlocks /\ saved[b][o] # Clean THEN Dirty ELSE Clean
      BY <1>5, <1>10, <1>11, <1>12, <2>2
    <3>2. b < BitBlocks <=> ~(b >= BitBlocks)
      BY MetadataRegionsAssumption DEF Blocks
    <3>. QED
      BY <1>1, <2>2, <3>1, <3>2 DEF Statuses
  <2>. QED
    BY <2>1, <2>2
<1>14. ReserveRestored
  <2>. SUFFICES ASSUME NEW b \in Blocks, ~Dead(b)
                PROVE  /\ restored[b].reserved_offset = Cardinality({o \in Offsets : saved[b][o] # Clean})
                       /\ restored[b].reserved_size = PagesPerBlock - restored[b].reserved_offset
    BY DEF ReserveRestored
  <2>1. \A o \in Offsets : saved[b][o] \in Inos <=> saved[b][o] # Clean
    BY <1>1, BlockInfoAssumption DEF Dead, Statuses
  <2>2. PagesOwnedIn(s, n, b) = {o \in Offsets : saved[b][o] # Clean}
    BY <1>10, <1>11, <2>1 DEF PagesOwnedIn
  <2>. QED
    BY <1>12, <2>2
<1>. QED
  BY <1>13, <1>14

(* However often earlier mounts were stopped: as long as a copy of each      *)
(* image was left, a mount ends with every page that has an owner in PIT     *)
(* busy with it, every other page that has a bit in BIT dirty, stale bits of *)
(* erased pages included, and the pages without a bit clean.                 *)
THEOREM MountGivesBack == MountSpec => []MountRestores
<1>1. MountIInv /\ MountedFrom => MountRestores
  <2>. SUFFICES ASSUME MountIInv, MountedFrom, step.at = "mounted", lost = {}, UsesMap(saved)
                PROVE  StatusesRestored /\ ReserveRestored
    BY DEF MountRestores, At
  <2>1. step.kind = "pit" /\ restored = SetPit(SetBit(NewTable, held["bit"]), held["pit"])
    BY DEF MountedFrom, SetSoFar
  <2>2. Good("bit", held["bit"]) /\ Good("pit", held["pit"])
    BY <2>1 DEF MountedFrom, HeldGood, HasRead, Kinds
  <2>3. saved \in SavedTables
    BY DEF MountIInv, MountTypeOK
  <2>. QED
    BY <2>1, <2>2, <2>3, TableRestored
<1>. QED
  BY <1>1, MountIInvHolds, MountedFromHolds, PTL

-----------------------------------------------------------------------------
(* Sequences of bytes.                                                       *)

LEMMA Joins ==
  ASSUME NEW T, NEW a \in Seq(T), NEW b \in Seq(T)
  PROVE  /\ a \o b \in Seq(T) /\ Len(a \o b) = Len(a) + Len(b)
         /\ Len(a) \in Nat /\ Len(b) \in Nat
         /\ \A m \in 1 .. Len(a) : (a \o b)[m] = a[m]
         /\ \A m \in 1 .. Len(b) : (a \o b)[Len(a) + m] = b[m]
OBVIOUS

(* A sequence of bytes that is one and then another.                         *)
Glued(c, a, b) ==
  /\ c \in Seq(Nat) /\ Len(c) = Len(a) + Len(b)
  /\ \A m \in 1 .. Len(a) : c[m] = a[m]
  /\ \A m \in 1 .. Len(b) : c[Len(a) + m] = b[m]

LEMMA GluedIs ==
  ASSUME NEW a \in Seq(Nat), NEW b \in Seq(Nat)
  PROVE  Glued(a \o b, a, b)
BY Joins DEF Glued

LEMMA PieceIs ==
  ASSUME NEW T, NEW s \in Seq(T), NEW x \in Nat, NEW n \in Nat, x + n <= Len(s)
  PROVE  /\ SubSeq(s, x + 1, x + n) \in Seq(T) /\ Len(SubSeq(s, x + 1, x + n)) = n
         /\ \A m \in 1 .. n : SubSeq(s, x + 1, x + n)[m] = s[x + m]
OBVIOUS

LEMMA LeastOfTwo ==
  ASSUME NEW a \in Int, NEW b \in Int
  PROVE  Min({a, b}) = IF a <= b THEN a ELSE b
BY DEF Min

LEMMA PrefixIs ==
  ASSUME NEW T, NEW a \in Seq(T), NEW b \in Seq(T), Len(a) <= Len(b),
         \A m \in 1 .. Len(a) : a[m] = b[m]
  PROVE  IsPrefix(a, b)
<1>. DEFINE n == Len(a)
            x == SubSeq(a, 1, n)
            y == SubSeq(b, 1, n)
<1>1. n \in Nat
  OBVIOUS
<1>2. x \in Seq(T) /\ Len(x) = n /\ \A m \in 1 .. n : x[m] = a[m]
  OBVIOUS
<1>3. y \in Seq(T) /\ Len(y) = n /\ \A m \in 1 .. n : y[m] = b[m]
  OBVIOUS
<1>4. x = y
  <2>. HIDE DEF x, y
  <2>. QED
    BY <1>2, <1>3, SeqEqual
<1>. QED
  BY <1>4 DEF IsPrefix

LEMMA FunctionSeq ==
  ASSUME NEW T, NEW n \in Nat, NEW f \in [1 .. n -> T]
  PROVE  f \in Seq(T) /\ Len(f) = n
OBVIOUS

LEMMA PagesJoined ==
  ASSUME NEW a \in Seq(Seq(Nat)), NEW b \in Seq(Seq(Nat))
  PROVE  /\ a \o b \in Seq(Seq(Nat)) /\ Len(a \o b) = Len(a) + Len(b)
         /\ \A m \in 1 .. Len(a) : (a \o b)[m] = a[m]
         /\ \A m \in 1 .. Len(b) : (a \o b)[Len(a) + m] = b[m]
BY Joins

PieceAt(c, s, x, n) ==
  c \in Seq(Nat) /\ Len(c) = n /\ \A m \in 1 .. n : c[m] = s[x + m]

LEMMA PieceAtIs ==
  ASSUME NEW s \in Seq(Nat), NEW x \in Nat, NEW n \in Nat, x + n <= Len(s)
  PROVE  PieceAt(SubSeq(s, x + 1, x + n), s, x, n)
BY PieceIs DEF PieceAt

-----------------------------------------------------------------------------
(* Bytes cut into pages of z bytes, and what is left.                        *)

Cuts(z, ps, pg, s) ==
  /\ s \in Seq(Nat) /\ ps \in Seq(Seq(Nat)) /\ pg \in Seq(Nat)
  /\ Len(s) = Len(ps) * z + Len(pg)
  /\ \A k \in 1 .. Len(ps) : /\ Len(ps[k]) = z
                             /\ \A m \in 1 .. z : ps[k][m] = s[(k - 1) * z + m]
  /\ \A m \in 1 .. Len(pg) : pg[m] = s[Len(ps) * z + m]

LEMMA Multiples ==
  ASSUME NEW z \in Nat, NEW k \in Nat, NEW n \in Nat
  PROVE  /\ k * z \in Nat /\ (k + n) * z = k * z + n * z
         /\ k >= 1 => (k - 1) * z \in Nat /\ (k - 1) * z + z = k * z
         /\ k <= n => k * z <= n * z
         /\ k < n => k * z + z <= n * z
<1>1. k * z \in Nat /\ (k + n) * z = k * z + n * z
  OBVIOUS
<1>2. k >= 1 => (k - 1) * z \in Nat /\ (k - 1) * z + z = k * z
  OBVIOUS
<1>3. k <= n => k * z <= n * z
  BY Z3T(30)
<1>4. k < n => k * z + z <= n * z
  <2>1. k < n => (k + 1) * z <= n * z
    BY Z3T(30)
  <2>2. (k + 1) * z = k * z + z
    OBVIOUS
  <2>. QED
    BY <2>1, <2>2
<1>. QED
  BY <1>1, <1>2, <1>3, <1>4

(* The first n pages of a stream.                                            *)
Slices(z, stream, n, more) ==
  /\ more \in Seq(Seq(Nat)) /\ Len(more) = n
  /\ \A k \in 1 .. n : PieceAt(more[k], stream, (k - 1) * z, z)

(* More bytes behind those that were left give more pages.                   *)
LEMMA CutMore ==
  ASSUME NEW z \in Nat, NEW ps, NEW pg, NEW s, Cuts(z, ps, pg, s),
         NEW data \in Seq(Nat), NEW stream, Glued(stream, pg, data),
         NEW n \in Nat, n * z <= Len(stream), NEW more, Slices(z, stream, n, more),
         NEW pg2, PieceAt(pg2, stream, n * z, Len(stream) - n * z)
  PROVE  Cuts(z, ps \o more, pg2, s \o data) /\ Len(ps \o more) = Len(ps) + n
<1>. DEFINE a == Len(ps)
            b == Len(pg)
            L == Len(stream)
            d == Len(data)
            u == s \o data
            qs == ps \o more
<1>1. /\ s \in Seq(Nat) /\ ps \in Seq(Seq(Nat)) /\ pg \in Seq(Nat) /\ a \in Nat /\ b \in Nat /\ d \in Nat
      /\ Len(s) = a * z + b /\ a * z \in Nat
  <2>1. /\ s \in Seq(Nat) /\ ps \in Seq(Seq(Nat)) /\ pg \in Seq(Nat)
        /\ Len(s) = a * z + b
    BY DEF Cuts
  <2>2. a \in Nat /\ b \in Nat /\ d \in Nat
    BY <2>1
  <2>. HIDE DEF a, b, d
  <2>. QED
    BY <2>1, <2>2, Multiples
<1>2. stream \in Seq(Nat) /\ L = b + d /\ L \in Nat
  <2>1. stream \in Seq(Nat) /\ L = b + d
    BY DEF Glued
  <2>. HIDE DEF a, b, L
  <2>. QED
    BY <1>1, <2>1
<1>3. u \in Seq(Nat) /\ Len(u) = Len(s) + d /\ Glued(u, s, data)
  BY <1>1, GluedIs DEF Glued
<1>4. n * z \in Nat /\ n * z <= L
  BY Multiples
<1>5. /\ qs \in Seq(Seq(Nat)) /\ Len(qs) = a + n
      /\ \A k \in 1 .. a : qs[k] = ps[k]
      /\ \A k \in 1 .. n : qs[a + k] = more[k]
  <2>1. more \in Seq(Seq(Nat)) /\ ps \in Seq(Seq(Nat)) /\ Len(more) = n
    BY <1>1 DEF Slices
  <2>2. /\ ps \o more \in Seq(Seq(Nat)) /\ Len(ps \o more) = Len(ps) + Len(more)
        /\ \A m \in 1 .. Len(ps) : (ps \o more)[m] = ps[m]
        /\ \A m \in 1 .. Len(more) : (ps \o more)[Len(ps) + m] = more[m]
    BY <2>1, PagesJoined
  <2>. HIDE DEF qs
  <2>3. /\ qs \in Seq(Seq(Nat)) /\ Len(qs) = Len(ps) + Len(more)
        /\ \A m \in 1 .. Len(ps) : qs[m] = ps[m]
        /\ \A m \in 1 .. Len(more) : qs[Len(ps) + m] = more[m]
    BY <2>2 DEF qs
  <2>. QED
    BY <2>1, <2>3
<1>. HIDE DEF qs
<1>7. (a + n) * z = a * z + n * z
  BY <1>1, Multiples
<1>8. /\ pg2 \in Seq(Nat) /\ Len(pg2) = L - n * z
      /\ \A m \in 1 .. L - n * z : pg2[m] = stream[n * z + m]
  BY DEF PieceAt
<1>9. \A m \in 1 .. L : stream[m] = u[a * z + m]
  <2>. SUFFICES ASSUME NEW m \in 1 .. L PROVE stream[m] = u[a * z + m]
    OBVIOUS
  <2>1. CASE m <= b
    <3>3. m \in 1 .. Len(pg)
      BY <1>1, <1>2, <2>1
    <3>1. stream[m] = pg[m] /\ pg[m] = s[a * z + m]
      <4>1. stream[m] = pg[m]
        BY <3>3 DEF Glued
      <4>2. pg[m] = s[a * z + m]
        BY <3>3 DEF Cuts
      <4>. QED
        BY <4>1, <4>2
    <3>2. a * z + m \in 1 .. Len(s)
      <4>. DEFINE x == a * z
      <4>1. x \in Nat /\ Len(s) = x + b /\ b \in Nat /\ m \in 1 .. b
        BY <1>1, <3>3
      <4>. HIDE DEF x, b
      <4>2. x + m \in 1 .. Len(s)
        BY <4>1
      <4>. QED
        BY <4>2 DEF x
    <3>. QED
      BY <1>3, <3>1, <3>2 DEF Glued
  <2>2. CASE ~(m <= b)
    <3>1. m - b \in 1 .. d /\ b + (m - b) = m /\ Len(s) + (m - b) = a * z + m
      BY <1>1, <1>2, <2>2
    <3>2. stream[b + (m - b)] = data[m - b] /\ u[Len(s) + (m - b)] = data[m - b]
      BY <1>2, <1>3, <3>1 DEF Glued
    <3>. QED
      BY <3>1, <3>2
  <2>. QED
    BY <2>1, <2>2
<1>. HIDE DEF L, d, u
<1>10. ASSUME NEW k \in 1 .. a + n
       PROVE  Len(qs[k]) = z /\ \A m \in 1 .. z : qs[k][m] = u[(k - 1) * z + m]
  <2>1. CASE k <= a
    <3>1. k \in 1 .. a
      BY <1>1, <2>1
    <3>2. qs[k] = ps[k]
      BY <1>5, <3>1
    <3>3. Len(ps[k]) = z /\ \A m \in 1 .. z : ps[k][m] = s[(k - 1) * z + m]
      BY <3>1 DEF Cuts
    <3>4. \A m \in 1 .. z : (k - 1) * z + m \in 1 .. Len(s)
      <4>3. k \in Nat /\ k >= 1 /\ k <= a /\ a \in Nat
        BY <1>1, <3>1
      <4>. HIDE DEF a
      <4>1. (k - 1) * z \in Nat /\ (k - 1) * z + z = k * z
            /\ k * z <= a * z /\ k * z \in Nat
        BY <4>3, Multiples
      <4>. DEFINE x == (k - 1) * z
      <4>2. x \in Nat /\ x + z <= Len(s) /\ Len(s) \in Nat
        <5>1. x \in Nat /\ x + z <= a * z
          BY <4>1
        <5>2. Len(s) = a * z + b /\ a * z \in Nat /\ b \in Nat
          BY <1>1
        <5>. HIDE DEF x, a, b
        <5>. QED
          BY <5>1, <5>2
      <4>. HIDE DEF x
      <4>4. \A m \in 1 .. z : x + m \in 1 .. Len(s)
        BY <4>2
      <4>. QED
        BY <4>4 DEF x
    <3>5. \A x \in 1 .. Len(s) : u[x] = s[x]
      BY <1>3 DEF Glued
    <3>. QED
      BY <3>2, <3>3, <3>4, <3>5
  <2>2. CASE ~(k <= a)
    <3>. DEFINE r == k - a
    <3>1. r \in 1 .. n /\ k = a + r /\ r \in Nat /\ r >= 1 /\ r <= n
      BY <1>1, <2>2
    <3>. HIDE DEF r
    <3>2. qs[k] = more[r]
      BY <1>5, <3>1
    <3>3. Len(more[r]) = z /\ \A m \in 1 .. z : more[r][m] = stream[(r - 1) * z + m]
      BY <3>1 DEF Slices, PieceAt
    <3>4. /\ (r - 1) * z \in Nat /\ (r - 1) * z + z <= L
          /\ (k - 1) * z = a * z + (r - 1) * z
      <4>1. r - 1 \in Nat /\ k - 1 = a + (r - 1)
        BY <1>1, <3>1
      <4>2. (r - 1) * z \in Nat /\ (r - 1) * z + z = r * z
            /\ r * z <= n * z /\ r * z \in Nat
        BY <3>1, Multiples
      <4>3. (a + (r - 1)) * z = a * z + (r - 1) * z
        BY <1>1, <4>1, Multiples
      <4>4. (r - 1) * z + z <= L
        <5>. DEFINE x == (r - 1) * z
                    y == r * z
                    v == n * z
        <5>1. x \in Nat /\ y \in Nat /\ v \in Nat /\ x + z = y /\ y <= v /\ v <= L /\ L \in Nat
          BY <1>2, <1>4, <4>2
        <5>. HIDE DEF x, y, v
        <5>2. x + z <= L
          BY <5>1
        <5>. QED
          BY <5>2 DEF x
      <4>. QED
        BY <4>1, <4>2, <4>3, <4>4
    <3>5. ASSUME NEW m \in 1 .. z PROVE qs[k][m] = u[(k - 1) * z + m]
      <4>. DEFINE x == (r - 1) * z
                  y == a * z
                  v == (k - 1) * z
      <4>4. x \in Nat /\ y \in Nat /\ v = y + x /\ x + z <= L /\ L \in Nat
        BY <1>1, <1>2, <3>4
      <4>. HIDE DEF x, y, v
      <4>1. x + m \in 1 .. L
        BY <4>4
      <4>2. stream[x + m] = u[y + (x + m)]
        BY <1>9, <4>1 DEF y
      <4>3. y + (x + m) = v + m
        BY <4>4
      <4>5. more[r][m] = stream[x + m]
        BY <3>3 DEF x
      <4>6. qs[k][m] = u[v + m]
        BY <3>2, <4>2, <4>3, <4>5
      <4>. QED
        BY <4>6 DEF v
    <3>. QED
      BY <3>2, <3>3, <3>5
  <2>. QED
    BY <2>1, <2>2
<1>11. ASSUME NEW m \in 1 .. L - n * z PROVE pg2[m] = u[(a + n) * z + m]
  <2>1. n * z + m \in 1 .. L
    BY <1>2, <1>4 DEF L
  <2>2. a * z + (n * z + m) = (a + n) * z + m
    BY <1>1, <1>4, <1>7
  <2>. QED
    BY <1>8, <1>9, <2>1, <2>2
<1>12. Len(u) = (a + n) * z + Len(pg2)
  <2>1. Len(u) = Len(s) + d
    BY <1>3 DEF d
  <2>. DEFINE x == a * z
              y == n * z
  <2>2. Len(s) = x + b /\ (a + n) * z = x + y /\ Len(pg2) = L - y /\ L = b + d
        /\ x \in Nat /\ y \in Nat /\ L \in Nat /\ d \in Nat /\ b \in Nat
    BY <1>1, <1>2, <1>4, <1>7, <1>8 DEF d, L
  <2>. HIDE DEF x, y, a, b
  <2>3. Len(u) = (x + y) + (L - y)
    BY <2>1, <2>2
  <2>. QED
    BY <2>2, <2>3
<1>13. Cuts(z, qs, pg2, u)
  BY <1>3, <1>5, <1>8, <1>10, <1>11, <1>12 DEF Cuts, u
<1>. QED
  BY <1>5, <1>13 DEF u, qs

-----------------------------------------------------------------------------
(* Records and their fields.                                                 *)

KeyOf(es, k) == IF k <= Len(es) THEN KeyBytes(es[k]) ELSE Eof
ValueOf(es, k) == IF k <= Len(es) THEN ValueBytes(es[k]) ELSE Eof
RecordOf(es, k) == Encoded(KeyOf(es, k), ValueOf(es, k))
RecordLen(es, k) == 3 * Width + Len(KeyOf(es, k)) + Len(ValueOf(es, k))

(* The field of a record, and where it begins.                               *)
Part(es, k, f) ==
  IF f = 0 THEN Number(0)
  ELSE IF f = 1 THEN Number(Len(KeyOf(es, k)))
  ELSE IF f = 2 THEN Number(Len(ValueOf(es, k)))
  ELSE IF f = 3 THEN KeyOf(es, k) ELSE ValueOf(es, k)
Before(es, k, f) ==
  IF f = 0 THEN 0
  ELSE IF f = 1 THEN Width
  ELSE IF f = 2 THEN 2 * Width
  ELSE IF f = 3 THEN 3 * Width
  ELSE IF f = 4 THEN 3 * Width + Len(KeyOf(es, k)) ELSE RecordLen(es, k)

LEMMA NumberIs ==
  ASSUME NEW n \in Nat
  PROVE  Number(n) \in Seq(Nat) /\ Len(Number(n)) = Width /\ Decoded(Number(n)) = n
BY SSTablePagesAssumption DEF Number, Decoded

LEMMA EntryBytes ==
  ASSUME NEW e \in Entry
  PROVE  /\ KeyBytes(e) \in Seq(Nat) /\ Len(KeyBytes(e)) = e.keySize /\ e.keySize \in Nat \ {0}
         /\ ValueBytes(e) \in Seq(Nat) /\ Len(ValueBytes(e)) = e.valueSize /\ e.valueSize \in Nat \ {0}
         /\ KeyBytes(e) # Eof
<1>1. e.key \in Nat \ {0} /\ e.keySize \in Nat \ {0} /\ e.valueSize \in Nat \ {0}
  <2>1. e.key \in Keys /\ e.keySize \in KeySizes /\ e.valueSize \in ValueSizes
    BY DEF Entry
  <2>2. \A x \in 1 .. 9 : x \in Nat \ {0}
    OBVIOUS
  <2>3. \A x \in 1 .. 99 : x \in Nat \ {0}
    OBVIOUS
  <2>. QED
    BY <2>1, <2>2, <2>3, SSTablePagesAssumption
<1>2. \A k \in 1 .. e.keySize : 1000 * e.key + k \in Nat
  BY <1>1
<1>3. \A k \in 1 .. e.valueSize : 1000 * e.key + 100 + k \in Nat
  BY <1>1
<1>4. KeyBytes(e) \in Seq(Nat) /\ Len(KeyBytes(e)) = e.keySize
  BY <1>1, <1>2 DEF KeyBytes
<1>5. ValueBytes(e) \in Seq(Nat) /\ Len(ValueBytes(e)) = e.valueSize
  BY <1>1, <1>3 DEF ValueBytes
<1>6. KeyBytes(e)[1] = 1000 * e.key + 1 /\ Eof[1] = 1
  BY <1>1 DEF KeyBytes, Eof
<1>. QED
  BY <1>1, <1>4, <1>5, <1>6

LEMMA EofIs == Eof \in Seq(Nat) /\ Len(Eof) = 1
BY DEF Eof

LEMMA KeysAndValues ==
  ASSUME NEW es \in Seq(Entry), NEW k \in Nat \ {0}
  PROVE  /\ KeyOf(es, k) \in Seq(Nat) /\ Len(KeyOf(es, k)) \in Nat \ {0}
         /\ ValueOf(es, k) \in Seq(Nat) /\ Len(ValueOf(es, k)) \in Nat \ {0}
         /\ RecordLen(es, k) \in Nat \ {0}
<1>2. /\ KeyOf(es, k) \in Seq(Nat) /\ Len(KeyOf(es, k)) \in Nat \ {0}
      /\ ValueOf(es, k) \in Seq(Nat) /\ Len(ValueOf(es, k)) \in Nat \ {0}
  <2>1. CASE k <= Len(es)
    <3>. DEFINE e == es[k]
    <3>1. e \in Entry
      BY <2>1
    <3>2. KeyOf(es, k) = KeyBytes(e) /\ ValueOf(es, k) = ValueBytes(e)
      BY <2>1 DEF KeyOf, ValueOf
    <3>. HIDE DEF e
    <3>. QED
      BY <3>1, <3>2, EntryBytes
  <2>2. CASE ~(k <= Len(es))
    BY <2>2, EofIs DEF KeyOf, ValueOf
  <2>. QED
    BY <2>1, <2>2
<1>. QED
  BY <1>2, SSTablePagesAssumption DEF RecordLen

LEMMA EncodedIs ==
  ASSUME NEW key \in Seq(Nat), NEW value \in Seq(Nat)
  PROVE  LET r == Encoded(key, value) IN
         /\ r \in Seq(Nat) /\ Len(r) = 3 * Width + Len(key) + Len(value)
         /\ \A m \in 1 .. Width : /\ r[m] = Number(0)[m]
                                  /\ r[Width + m] = Number(Len(key))[m]
                                  /\ r[2 * Width + m] = Number(Len(value))[m]
         /\ \A m \in 1 .. Len(key) : r[3 * Width + m] = key[m]
         /\ \A m \in 1 .. Len(value) : r[3 * Width + Len(key) + m] = value[m]
<1>. DEFINE n0 == Number(0)
            n1 == Number(Len(key))
            n2 == Number(Len(value))
            a == n0 \o n1
            b == a \o n2
            c == b \o key
            r == Encoded(key, value)
<1>1. Width \in Nat /\ Len(key) \in Nat /\ Len(value) \in Nat
  BY SSTablePagesAssumption
<1>2. /\ n0 \in Seq(Nat) /\ Len(n0) = Width /\ n1 \in Seq(Nat) /\ Len(n1) = Width
      /\ n2 \in Seq(Nat) /\ Len(n2) = Width
  BY <1>1, NumberIs
<1>3. r = c \o value
  BY DEF Encoded
<1>. HIDE DEF n0, n1, n2, r
<1>4. /\ a \in Seq(Nat) /\ Len(a) = 2 * Width
      /\ \A m \in 1 .. Width : a[m] = n0[m] /\ a[Width + m] = n1[m]
  <2>. HIDE DEF b, c
  <2>1. /\ a \in Seq(Nat) /\ Len(a) = Width + Width
        /\ \A m \in 1 .. Width : a[m] = n0[m]
        /\ \A m \in 1 .. Width : a[Width + m] = n1[m]
    <3>1. Glued(a, n0, n1)
      BY <1>2, GluedIs
    <3>. HIDE DEF a
    <3>. QED
      BY <1>1, <1>2, <3>1 DEF Glued
  <2>. HIDE DEF a
  <2>2. Width + Width = 2 * Width
    BY <1>1
  <2>3. Len(a) = 2 * Width
    BY <2>1, <2>2
  <2>. QED
    BY <2>1, <2>3
<1>. HIDE DEF a
<1>5. /\ b \in Seq(Nat) /\ Len(b) = 3 * Width
      /\ \A m \in 1 .. 2 * Width : b[m] = a[m]
      /\ \A m \in 1 .. Width : b[2 * Width + m] = n2[m]
  <2>. HIDE DEF c
  <2>1. 2 * Width \in Nat
    BY <1>1
  <2>2. /\ b \in Seq(Nat) /\ Len(b) = 2 * Width + Width
        /\ \A m \in 1 .. 2 * Width : b[m] = a[m]
        /\ \A m \in 1 .. Width : b[2 * Width + m] = n2[m]
    <3>1. Glued(b, a, n2)
      BY <1>2, <1>4, GluedIs
    <3>. HIDE DEF b
    <3>. QED
      BY <1>1, <1>2, <1>4, <3>1 DEF Glued
  <2>. HIDE DEF b
  <2>. QED
    BY <1>1, <2>2
<1>. HIDE DEF b
<1>6. /\ c \in Seq(Nat) /\ Len(c) = 3 * Width + Len(key)
      /\ \A m \in 1 .. 3 * Width : c[m] = b[m]
      /\ \A m \in 1 .. Len(key) : c[3 * Width + m] = key[m]
  <2>1. 3 * Width \in Nat
    BY <1>1
  <2>2. Glued(c, b, key)
    BY <1>5, GluedIs
  <2>. HIDE DEF c
  <2>. QED
    BY <1>1, <1>5, <2>1, <2>2 DEF Glued
<1>. HIDE DEF c
<1>7. /\ r \in Seq(Nat) /\ Len(r) = 3 * Width + Len(key) + Len(value)
      /\ \A m \in 1 .. 3 * Width + Len(key) : r[m] = c[m]
      /\ \A m \in 1 .. Len(value) : r[3 * Width + Len(key) + m] = value[m]
  <2>1. 3 * Width + Len(key) \in Nat
    BY <1>1
  <2>. QED
    <3>1. Glued(r, c, value)
      BY <1>3, <1>6, GluedIs
    <3>. QED
      BY <1>1, <1>6, <2>1, <3>1 DEF Glued
<1>8. ASSUME NEW m \in 1 .. Width
      PROVE  r[m] = n0[m] /\ r[Width + m] = n1[m] /\ r[2 * Width + m] = n2[m]
  <2>1. /\ m \in 1 .. 2 * Width /\ Width + m \in 1 .. 2 * Width
        /\ m \in 1 .. 3 * Width /\ Width + m \in 1 .. 3 * Width /\ 2 * Width + m \in 1 .. 3 * Width
    BY <1>1
  <2>2. \A x \in 1 .. 3 * Width : r[x] = b[x]
    <3>1. \A x \in 1 .. 3 * Width : x \in 1 .. 3 * Width + Len(key)
      BY <1>1
    <3>. QED
      BY <1>6, <1>7, <3>1
  <2>. QED
    BY <1>4, <1>5, <2>1, <2>2
<1>9. \A m \in 1 .. Len(key) : r[3 * Width + m] = key[m]
  <2>1. \A m \in 1 .. Len(key) : 3 * Width + m \in 1 .. 3 * Width + Len(key)
    BY <1>1
  <2>. QED
    BY <1>6, <1>7, <2>1
<1>. QED
  BY <1>7, <1>8, <1>9 DEF n0, n1, n2, r

LEMMA RecordIs ==
  ASSUME NEW es \in Seq(Entry), NEW k \in Nat \ {0}
  PROVE  /\ RecordOf(es, k) \in Seq(Nat) /\ Len(RecordOf(es, k)) = RecordLen(es, k)
         /\ \A f \in 0 .. 4 :
              /\ Part(es, k, f) \in Seq(Nat) /\ Len(Part(es, k, f)) \in Nat \ {0}
              /\ Before(es, k, f) \in Nat /\ Before(es, k, f) + Len(Part(es, k, f)) = Before(es, k, f + 1)
              /\ Before(es, k, f + 1) <= RecordLen(es, k)
              /\ \A m \in 1 .. Len(Part(es, k, f)) : RecordOf(es, k)[Before(es, k, f) + m] = Part(es, k, f)[m]
<1>. DEFINE r == RecordOf(es, k)
            a == Len(KeyOf(es, k))
            b == Len(ValueOf(es, k))
<1>1. /\ KeyOf(es, k) \in Seq(Nat) /\ a \in Nat \ {0}
      /\ ValueOf(es, k) \in Seq(Nat) /\ b \in Nat \ {0} /\ Width \in Nat \ {0}
  BY KeysAndValues, SSTablePagesAssumption
<1>2. /\ r \in Seq(Nat) /\ Len(r) = RecordLen(es, k)
      /\ \A m \in 1 .. Width : r[m] = Number(0)[m] /\ r[Width + m] = Number(a)[m]
                                /\ r[2 * Width + m] = Number(b)[m]
      /\ \A m \in 1 .. a : r[3 * Width + m] = KeyOf(es, k)[m]
      /\ \A m \in 1 .. b : r[3 * Width + a + m] = ValueOf(es, k)[m]
  <2>. DEFINE key == KeyOf(es, k)
              value == ValueOf(es, k)
  <2>1. key \in Seq(Nat) /\ value \in Seq(Nat) /\ r = Encoded(key, value)
        /\ a = Len(key) /\ b = Len(value) /\ RecordLen(es, k) = 3 * Width + Len(key) + Len(value)
    BY <1>1 DEF RecordOf, RecordLen
  <2>. HIDE DEF key, value, r, a, b
  <2>2. /\ r \in Seq(Nat) /\ Len(r) = 3 * Width + Len(key) + Len(value)
        /\ \A m \in 1 .. Width : /\ r[m] = Number(0)[m]
                                 /\ r[Width + m] = Number(Len(key))[m]
                                 /\ r[2 * Width + m] = Number(Len(value))[m]
        /\ \A m \in 1 .. Len(key) : r[3 * Width + m] = key[m]
        /\ \A m \in 1 .. Len(value) : r[3 * Width + Len(key) + m] = value[m]
    BY <2>1, EncodedIs
  <2>. QED
    BY <2>1, <2>2 DEF key, value
<1>3. /\ Number(0) \in Seq(Nat) /\ Len(Number(0)) = Width /\ Number(a) \in Seq(Nat) /\ Len(Number(a)) = Width
      /\ Number(b) \in Seq(Nat) /\ Len(Number(b)) = Width
  BY <1>1, NumberIs
<1>4. RecordLen(es, k) = 3 * Width + a + b
  BY DEF RecordLen
<1>5. /\ Part(es, k, 0) = Number(0) /\ Part(es, k, 1) = Number(a) /\ Part(es, k, 2) = Number(b)
      /\ Part(es, k, 3) = KeyOf(es, k) /\ Part(es, k, 4) = ValueOf(es, k)
      /\ Before(es, k, 0) = 0 /\ Before(es, k, 1) = Width /\ Before(es, k, 2) = 2 * Width /\ Before(es, k, 3) = 3 * Width
      /\ Before(es, k, 4) = 3 * Width + a /\ Before(es, k, 5) = RecordLen(es, k)
  BY DEF Part, Before
<1>. HIDE DEF r, a, b
<1>6. Len(Part(es, k, 0)) = Width /\ Len(Part(es, k, 1)) = Width /\ Len(Part(es, k, 2)) = Width
      /\ Len(Part(es, k, 3)) = a /\ Len(Part(es, k, 4)) = b
  BY <1>3, <1>5 DEF a, b
<1>7. ASSUME NEW f \in 0 .. 4
      PROVE  /\ Part(es, k, f) \in Seq(Nat) /\ Len(Part(es, k, f)) \in Nat \ {0}
             /\ Before(es, k, f) \in Nat /\ Before(es, k, f) + Len(Part(es, k, f)) = Before(es, k, f + 1)
             /\ Before(es, k, f + 1) <= RecordLen(es, k)
  <2>1. f \in {0, 1, 2, 3, 4} /\ 0 + 1 = 1 /\ 1 + 1 = 2 /\ 2 + 1 = 3 /\ 3 + 1 = 4 /\ 4 + 1 = 5
    OBVIOUS
  <2>2. /\ Width + Width = 2 * Width /\ 2 * Width + Width = 3 * Width
        /\ 2 * Width <= 3 * Width + a + b /\ Width <= 3 * Width + a + b
        /\ 3 * Width <= 3 * Width + a + b /\ 3 * Width + a <= 3 * Width + a + b
        /\ 2 * Width \in Nat /\ 3 * Width \in Nat /\ 3 * Width + a \in Nat /\ 0 + Width = Width
        /\ 3 * Width + a + b <= 3 * Width + a + b
    BY <1>1
  <2>3. CASE f = 0
    <3>1. /\ f + 1 = 1 /\ Part(es, k, f) = Number(0) /\ Len(Part(es, k, f)) = Width
          /\ Before(es, k, f) = 0 /\ Before(es, k, f + 1) = Width
      BY <1>5, <1>6, <2>3
    <3>. QED
      BY <1>1, <1>3, <1>4, <2>2, <3>1
  <2>4. CASE f = 1
    <3>1. /\ f + 1 = 2 /\ Part(es, k, f) = Number(a) /\ Len(Part(es, k, f)) = Width
          /\ Before(es, k, f) = Width /\ Before(es, k, f + 1) = 2 * Width
      BY <1>5, <1>6, <2>4
    <3>. QED
      BY <1>1, <1>3, <1>4, <2>2, <3>1
  <2>5. CASE f = 2
    <3>1. /\ f + 1 = 3 /\ Part(es, k, f) = Number(b) /\ Len(Part(es, k, f)) = Width
          /\ Before(es, k, f) = 2 * Width /\ Before(es, k, f + 1) = 3 * Width
      BY <1>5, <1>6, <2>5
    <3>. QED
      BY <1>1, <1>3, <1>4, <2>2, <3>1
  <2>6. CASE f = 3
    <3>1. /\ f + 1 = 4 /\ Part(es, k, f) = KeyOf(es, k) /\ Len(Part(es, k, f)) = a
          /\ Before(es, k, f) = 3 * Width /\ Before(es, k, f + 1) = 3 * Width + a
      BY <1>5, <1>6, <2>6
    <3>. QED
      BY <1>1, <1>3, <1>4, <2>2, <3>1
  <2>7. CASE f = 4
    <3>1. /\ f + 1 = 5 /\ Part(es, k, f) = ValueOf(es, k) /\ Len(Part(es, k, f)) = b
          /\ Before(es, k, f) = 3 * Width + a /\ Before(es, k, f + 1) = RecordLen(es, k)
      BY <1>5, <1>6, <2>7
    <3>. QED
      BY <1>1, <1>3, <1>4, <2>2, <3>1
  <2>. QED
    BY <2>1, <2>3, <2>4, <2>5, <2>6, <2>7
<1>8. ASSUME NEW f \in 0 .. 4, NEW m \in 1 .. Len(Part(es, k, f))
      PROVE  r[Before(es, k, f) + m] = Part(es, k, f)[m]
  <2>1. CASE f = 0
    <3>1. Part(es, k, f) = Number(0) /\ m \in 1 .. Width /\ Before(es, k, f) + m = m
      BY <1>5, <1>6, <1>8, <2>1
    <3>. QED
      BY <1>2, <3>1
  <2>2. CASE f = 1
    <3>1. Part(es, k, f) = Number(a) /\ m \in 1 .. Width /\ Before(es, k, f) = Width
      BY <1>5, <1>6, <1>8, <2>2
    <3>. QED
      BY <1>2, <3>1
  <2>3. CASE f = 2
    <3>1. Part(es, k, f) = Number(b) /\ m \in 1 .. Width /\ Before(es, k, f) = 2 * Width
      BY <1>5, <1>6, <1>8, <2>3
    <3>. QED
      BY <1>2, <3>1
  <2>4. CASE f = 3
    <3>1. Part(es, k, f) = KeyOf(es, k) /\ m \in 1 .. a /\ Before(es, k, f) = 3 * Width
      BY <1>5, <1>6, <1>8, <2>4
    <3>. QED
      BY <1>2, <3>1
  <2>5. CASE f = 4
    <3>1. Part(es, k, f) = ValueOf(es, k) /\ m \in 1 .. b /\ Before(es, k, f) = 3 * Width + a
      BY <1>5, <1>6, <1>8, <2>5
    <3>. QED
      BY <1>2, <3>1
  <2>. QED
    BY <2>1, <2>2, <2>3, <2>4, <2>5
<1>. QED
  BY <1>2, <1>7, <1>8 DEF r

-----------------------------------------------------------------------------
(* Bytes cut into pages.                                                     *)

LEMMA PageSizeIs == PageSize \in Nat /\ PageSize >= 1 /\ HeaderSize \in Nat /\ HeaderSize < PageSize
BY SSTablePagesAssumption

LEMMA PageEnds ==
  ASSUME NEW k \in Nat, NEW n \in Nat
  PROVE  /\ k * PageSize \in Nat /\ (k + n) * PageSize = k * PageSize + n * PageSize
         /\ k >= 1 => (k - 1) * PageSize \in Nat /\ (k - 1) * PageSize + PageSize = k * PageSize
         /\ k <= n => k * PageSize <= n * PageSize
         /\ k < n => k * PageSize + PageSize <= n * PageSize
BY PageSizeIs, Multiples

LEMMA FullPagesAre ==
  ASSUME NEW s \in Seq(Nat), Len(s) >= 1
  PROVE  /\ FullPages(s) \in Nat
         /\ FullPages(s) * PageSize < Len(s) /\ Len(s) <= FullPages(s) * PageSize + PageSize
<1>. DEFINE x == Len(s) - 1
            q == x \div PageSize
            y == x % PageSize
<1>1. x \in Nat
  OBVIOUS
<1>2. q \in Nat /\ y \in Nat /\ x = PageSize * q + y /\ y < PageSize
  <2>. HIDE DEF x
  <2>. QED
    BY <1>1, PageSizeIs, Z3T(30)
<1>3. FullPages(s) = q
  BY DEF FullPages
<1>. HIDE DEF q, y
<1>4. q * PageSize = PageSize * q /\ q * PageSize \in Nat
  BY <1>2, PageSizeIs
<1>. QED
  BY <1>2, <1>3, <1>4, PageSizeIs

LEMMA PieceOf ==
  ASSUME NEW s \in Seq(Nat), Len(s) >= 1, NEW k \in 1 .. FullPages(s)
  PROVE  /\ Piece(s, k) \in Seq(Nat) /\ Len(Piece(s, k)) = PageSize
         /\ \A m \in 1 .. PageSize : Piece(s, k)[m] = s[(k - 1) * PageSize + m]
<1>. DEFINE x == (k - 1) * PageSize
<1>1. x \in Nat /\ x + PageSize = k * PageSize /\ k * PageSize \in Nat /\ k * PageSize <= Len(s) /\ Len(s) \in Nat
  <2>1. k \in Nat /\ k >= 1 /\ FullPages(s) \in Nat /\ k <= FullPages(s) /\ FullPages(s) * PageSize < Len(s)
    BY FullPagesAre
  <2>2. FullPages(s) * PageSize \in Nat
    BY <2>1, PageEnds
  <2>3. k * PageSize <= FullPages(s) * PageSize /\ k * PageSize \in Nat
        /\ x \in Nat /\ x + PageSize = k * PageSize
    BY <2>1, PageEnds
  <2>. QED
    BY <2>1, <2>2, <2>3
<1>2. Min({k * PageSize, Len(s)}) = k * PageSize
  BY <1>1, LeastOfTwo
<1>3. Piece(s, k) = SubSeq(s, x + 1, x + PageSize)
  BY <1>1, <1>2 DEF Piece
<1>. HIDE DEF x
<1>4. /\ SubSeq(s, x + 1, x + PageSize) \in Seq(Nat) /\ Len(SubSeq(s, x + 1, x + PageSize)) = PageSize
      /\ \A m \in 1 .. PageSize : SubSeq(s, x + 1, x + PageSize)[m] = s[x + m]
  BY <1>1, PageSizeIs, PieceIs, SMTT(60)
<1>. QED
  BY <1>3, <1>4 DEF x

(* What Pack makes of the pages ps and the page pg with the bytes data.      *)
PackedAs(ps, pg, data, ps2, pg2) ==
  LET stream == pg \o data
      n == FullPages(stream)
  IN /\ ps2 = ps \o [k \in 1 .. n |-> Piece(stream, k)]
     /\ pg2 = SubSeq(stream, n * PageSize + 1, Len(stream))

(* Packing data cuts the bytes so far and the data.                          *)
LEMMA Packed ==
  ASSUME NEW ps, NEW pg, NEW s, Cuts(PageSize, ps, pg, s), NEW data \in Seq(Nat), Len(data) >= 1,
         NEW ps2, NEW pg2, PackedAs(ps, pg, data, ps2, pg2)
  PROVE  Cuts(PageSize, ps2, pg2, s \o data) /\ Len(pg2) \in 1 .. PageSize
<1>. DEFINE stream == pg \o data
            n == FullPages(stream)
            L == Len(stream)
            more == [k \in 1 .. n |-> Piece(stream, k)]
<1>0. ps2 = ps \o more /\ pg2 = SubSeq(stream, n * PageSize + 1, L)
  BY DEF PackedAs
<1>1. Cuts(PageSize, ps, pg, s) /\ pg \in Seq(Nat)
  BY DEF Cuts
<1>2. Glued(stream, pg, data) /\ stream \in Seq(Nat) /\ L \in Nat /\ L >= 1
  <2>1. Glued(stream, pg, data)
    BY <1>1, GluedIs
  <2>2. stream \in Seq(Nat) /\ L = Len(pg) + Len(data)
    BY <2>1 DEF Glued
  <2>3. Len(pg) \in Nat /\ Len(data) \in Nat
    BY <1>1
  <2>. HIDE DEF stream, L
  <2>. QED
    BY <2>1, <2>2, <2>3
<1>. HIDE DEF stream
<1>3. n \in Nat /\ n * PageSize < L /\ L <= n * PageSize + PageSize /\ n * PageSize \in Nat
  BY <1>2, FullPagesAre, PageEnds
<1>4. Slices(PageSize, stream, n, more)
  <2>1. \A k \in 1 .. n : Piece(stream, k) \in Seq(Nat)
    BY <1>2, PieceOf
  <2>2. more \in [1 .. n -> Seq(Nat)] /\ \A k \in 1 .. n : more[k] = Piece(stream, k)
    BY <2>1
  <2>. HIDE DEF more
  <2>3. more \in Seq(Seq(Nat)) /\ Len(more) = n
    <3>. HIDE DEF n
    <3>. QED
      BY <1>3, <2>2, FunctionSeq
  <2>4. ASSUME NEW k \in 1 .. n PROVE PieceAt(more[k], stream, (k - 1) * PageSize, PageSize)
    BY <1>2, <2>2, PieceOf DEF PieceAt
  <2>. QED
    BY <2>3, <2>4 DEF Slices
<1>5. PieceAt(pg2, stream, n * PageSize, L - n * PageSize) /\ L - n * PageSize \in 1 .. PageSize
  <2>. DEFINE x == n * PageSize
              y == L - x
  <2>1. x \in Nat /\ y \in 1 .. PageSize /\ y \in Nat /\ x + y = L
    <3>1. x \in Nat /\ x < L /\ L <= x + PageSize /\ L \in Nat
      BY <1>2, <1>3
    <3>. HIDE DEF x, L
    <3>. QED
      BY <3>1, PageSizeIs
  <2>2. pg2 = SubSeq(stream, x + 1, x + y)
    BY <1>0, <2>1
  <2>. HIDE DEF x, y
  <2>3. PieceAt(SubSeq(stream, x + 1, x + y), stream, x, y)
    BY <1>2, <2>1, PieceAtIs
  <2>. QED
    BY <2>1, <2>2, <2>3 DEF x, y
<1>. HIDE DEF n, more, L
<1>6. Cuts(PageSize, ps \o more, pg2, s \o data)
  <2>1. n * PageSize <= Len(stream) /\ PageSize \in Nat
    BY <1>2, <1>3, PageSizeIs DEF L
  <2>. QED
    BY <1>1, <1>2, <1>3, <1>4, <1>5, <2>1, CutMore DEF L
<1>7. Cuts(PageSize, ps2, pg2, s \o data)
  <2>. DEFINE qs == ps \o more
              u == s \o data
  <2>1. Cuts(PageSize, qs, pg2, u) /\ ps2 = qs
    BY <1>0, <1>6
  <2>. HIDE DEF qs, u
  <2>2. Cuts(PageSize, ps2, pg2, u)
    BY <2>1 DEF Cuts
  <2>. QED
    BY <2>2 DEF u
<1>. QED
  BY <1>5, <1>7 DEF PieceAt

-----------------------------------------------------------------------------
(* Where the records lie in the bytes.                                       *)

(* n records, behind the header; the one after the k-th begins at start[k].  *)
Laid(es, s, start, n) ==
  /\ start \in [0 .. n -> Nat] /\ start[0] = HeaderSize
  /\ \A k \in 0 .. n : start[k] <= Len(s) /\ (k < n => start[k] < Len(s))
  /\ \A k \in 1 .. n :
       /\ start[k] = start[k - 1] + RecordLen(es, k)
       /\ \A m \in 1 .. RecordLen(es, k) : s[start[k - 1] + m] = RecordOf(es, k)[m]

(* The same records, and one more behind them.                               *)
Extends(es, s, n, es2, u) ==
  /\ \A k \in 1 .. n : RecordOf(es2, k) = RecordOf(es, k) /\ RecordLen(es2, k) = RecordLen(es, k)
  /\ \A m \in 1 .. Len(s) : u[m] = s[m]
  /\ \A m \in 1 .. RecordLen(es2, n + 1) : u[Len(s) + m] = RecordOf(es2, n + 1)[m]
  /\ Len(u) \in Nat /\ Len(u) >= Len(s) + RecordLen(es2, n + 1)

LEMMA LaidMore ==
  ASSUME NEW es2 \in Seq(Entry), NEW n \in Nat, NEW es, NEW s \in Seq(Nat), NEW u, NEW start,
         Laid(es, s, start, n), start[n] = Len(s), Extends(es, s, n, es2, u)
  PROVE  \E start2 : Laid(es2, u, start2, n + 1) /\ start2[n + 1] = Len(s) + RecordLen(es2, n + 1)
<1>. DEFINE x == RecordLen(es2, n + 1)
            L == Len(s)
            start2 == [k \in 0 .. n + 1 |-> IF k <= n THEN start[k] ELSE L + x]
<1>1. L \in Nat /\ x \in Nat \ {0}
  BY KeysAndValues
<1>2. start \in [0 .. n -> Nat] /\ start[0] = HeaderSize
  BY DEF Laid
<1>. HIDE DEF x, L
<1>3. start2 \in [0 .. n + 1 -> Nat]
  BY <1>1, <1>2
<1>4. (\A k \in 0 .. n : start2[k] = start[k]) /\ start2[n + 1] = L + x
  OBVIOUS
<1>. HIDE DEF start2
<1>5. ASSUME NEW k \in 0 .. n + 1 PROVE start2[k] <= Len(u) /\ (k < n + 1 => start2[k] < Len(u))
  <2>1. Len(u) \in Nat /\ Len(u) >= L + x
    BY DEF Extends, L, x
  <2>2. CASE k <= n
    <3>1. k \in 0 .. n
      BY <2>2
    <3>2. start2[k] = start[k] /\ start[k] <= L /\ start[k] \in Nat
      BY <1>2, <1>4, <3>1 DEF Laid, L
    <3>. QED
      BY <1>1, <2>1, <3>2
  <2>3. CASE k = n + 1
    BY <1>1, <1>4, <2>1, <2>3
  <2>. QED
    BY <2>2, <2>3
<1>6. ASSUME NEW k \in 1 .. n + 1
      PROVE  /\ start2[k] = start2[k - 1] + RecordLen(es2, k)
             /\ \A m \in 1 .. RecordLen(es2, k) : u[start2[k - 1] + m] = RecordOf(es2, k)[m]
  <2>1. CASE k <= n
    <3>1. k \in 1 .. n /\ k \in 0 .. n /\ k - 1 \in 0 .. n /\ k - 1 < n
      BY <2>1
    <3>2. start2[k] = start[k] /\ start2[k - 1] = start[k - 1]
      BY <1>4, <3>1
    <3>3. /\ start[k] = start[k - 1] + RecordLen(es2, k) /\ start[k] <= L /\ start[k - 1] \in Nat
          /\ \A m \in 1 .. RecordLen(es2, k) : s[start[k - 1] + m] = RecordOf(es2, k)[m]
      BY <1>2, <3>1 DEF Laid, Extends, L
    <3>4. RecordLen(es2, k) \in Nat
      BY <3>1, KeysAndValues
    <3>5. \A m \in 1 .. RecordLen(es2, k) : start[k - 1] + m \in 1 .. L
      BY <1>1, <3>3, <3>4
    <3>6. \A m \in 1 .. L : u[m] = s[m]
      BY DEF Extends, L
    <3>. QED
      BY <3>2, <3>3, <3>5, <3>6
  <2>2. CASE k = n + 1
    <3>1. k - 1 = n /\ n \in 0 .. n
      BY <2>2
    <3>2. start2[k - 1] = L /\ start2[k] = L + x
      BY <1>4, <2>2, <3>1 DEF L
    <3>3. \A m \in 1 .. x : u[L + m] = RecordOf(es2, n + 1)[m]
      BY DEF Extends, L, x
    <3>. QED
      BY <2>2, <3>2, <3>3 DEF x
  <2>. QED
    BY <2>1, <2>2
<1>7. start2[0] = HeaderSize
  BY <1>2, <1>4
<1>8. Laid(es2, u, start2, n + 1)
  BY <1>3, <1>5, <1>6, <1>7 DEF Laid
<1>. QED
  BY <1>4, <1>8 DEF L, x

-----------------------------------------------------------------------------
(* The invariant.                                                            *)

NotBegun ==
  /\ i = 1 /\ j = HeaderSize /\ field = 0 /\ temp = <<>>
  /\ sizes = <<0, 0>> /\ record = <<<<>>, <<>>>> /\ found = <<>>

(* What is written so far is the records of the entries.                     *)
Writing ==
  /\ NotBegun /\ Len(page) <= PageSize /\ Len(pages) < PageCount
  /\ \E s, start : /\ Cuts(PageSize, pages, page, s) /\ Laid(entries, s, start, Len(entries))
                   /\ start[Len(entries)] = Len(s)

(* The records found are the first, and the reader is in a field of the next.*)
FoundSoFar ==
  /\ found \in Seq(Seq(Nat) \X Seq(Nat)) /\ Len(found) <= Len(entries)
  /\ \A k \in 1 .. Len(found) : found[k] = <<KeyOf(entries, k), ValueOf(entries, k)>>

InField(k) ==
  /\ field \in 0 .. 5 /\ temp \in Seq(Nat)
  /\ IF field = 5 THEN temp = <<>> ELSE Len(temp) < Len(Part(entries, k, field))
  /\ \A m \in 1 .. Len(temp) : temp[m] = Part(entries, k, field)[m]

FieldsRead(k) ==
  /\ sizes \in Nat \X Nat /\ record \in Seq(Nat) \X Seq(Nat)
  /\ field >= 2 => sizes[1] = Len(KeyOf(entries, k))
  /\ field >= 3 => sizes[2] = Len(ValueOf(entries, k))
  /\ field >= 4 => record[1] = KeyOf(entries, k)
  /\ field = 5 => record[2] = ValueOf(entries, k)

AtPlace(start) ==
  /\ i \in 1 .. PageCount /\ j \in 0 .. PageSize
  /\ (i - 1) * PageSize + j = start[Len(found)] + Before(entries, Len(found) + 1, field) + Len(temp)

Layout(s, start) ==
  /\ page = <<>> /\ Len(pages) <= PageCount /\ Cuts(PageSize, pages, page, s)
  /\ Laid(entries, s, start, Len(entries) + 1)

Reading ==
  /\ FoundSoFar /\ InField(Len(found) + 1) /\ FieldsRead(Len(found) + 1)
  /\ \E s, start : Layout(s, start) /\ AtPlace(start)

PagesIInv ==
  /\ entries \in Seq(Entry) /\ phase \in {"write", "read", "done", "panicked"}
  /\ phase = "write" => Writing
  /\ phase = "read" => Reading
  /\ phase = "done" => found = Expected
  /\ phase = "panicked" => found = <<>>

-----------------------------------------------------------------------------
(* The writer.                                                               *)

LEMMA Regrouped ==
  ASSUME NEW a \in Seq(Nat), NEW b \in Seq(Nat), NEW c \in Seq(Nat)
  PROVE  (a \o b) \o c = a \o (b \o c)
OBVIOUS

(* A page that is full is one of the pages.                                  *)
LEMMA PageClosed ==
  ASSUME NEW ps, NEW pg, NEW s, Cuts(PageSize, ps, pg, s), Len(pg) = PageSize
  PROVE  Cuts(PageSize, Append(ps, pg), <<>>, s) /\ Len(Append(ps, pg)) = Len(ps) + 1
<1>. DEFINE a == Len(ps)
            qs == Append(ps, pg)
<1>1. /\ s \in Seq(Nat) /\ ps \in Seq(Seq(Nat)) /\ pg \in Seq(Nat) /\ a \in Nat
      /\ Len(s) = a * PageSize + PageSize
  BY DEF Cuts
<1>2. /\ qs \in Seq(Seq(Nat)) /\ Len(qs) = a + 1 /\ qs[a + 1] = pg
      /\ \A k \in 1 .. a : qs[k] = ps[k]
  BY <1>1
<1>. HIDE DEF qs
<1>3. (a + 1) * PageSize = a * PageSize + PageSize
  BY <1>1, PageSizeIs
<1>4. ASSUME NEW k \in 1 .. a + 1
      PROVE  Len(qs[k]) = PageSize /\ \A m \in 1 .. PageSize : qs[k][m] = s[(k - 1) * PageSize + m]
  <2>1. CASE k \in 1 .. a
    <3>1. qs[k] = ps[k]
      BY <1>2, <2>1
    <3>2. Len(ps[k]) = PageSize /\ \A m \in 1 .. PageSize : ps[k][m] = s[(k - 1) * PageSize + m]
      BY <2>1 DEF Cuts
    <3>. QED
      BY <3>1, <3>2
  <2>2. CASE k = a + 1
    <3>1. k - 1 = a /\ qs[k] = pg
      BY <1>1, <1>2, <2>2
    <3>2. \A m \in 1 .. Len(pg) : pg[m] = s[a * PageSize + m]
      BY DEF Cuts
    <3>. QED
      BY <3>1, <3>2
  <2>. QED
    BY <1>1, <2>1, <2>2
<1>5. <<>> \in Seq(Nat) /\ Len(<<>>) = 0
  OBVIOUS
<1>6. Len(s) = (a + 1) * PageSize + Len(<<>>)
  <2>. DEFINE y == (a + 1) * PageSize
  <2>1. y \in Int /\ Len(s) = y
    BY <1>1, <1>3, PageSizeIs
  <2>. HIDE DEF y, a
  <2>2. Len(s) = y + Len(<<>>)
    BY <2>1, <1>5
  <2>. QED
    BY <2>2 DEF y
<1>7. Cuts(PageSize, qs, <<>>, s)
  BY <1>1, <1>2, <1>4, <1>5, <1>6 DEF Cuts
<1>. QED
  BY <1>2, <1>7 DEF qs

LEMMA HeaderIs == Header \in Seq(Nat) /\ Len(Header) = HeaderSize
<1>1. HeaderSize \in Nat
  BY PageSizeIs
<1>2. Header \in [1 .. HeaderSize -> Nat]
  BY DEF Header
<1>. QED
  BY <1>1, <1>2, FunctionSeq

LEMMA ZerosAre ==
  ASSUME NEW n \in Nat
  PROVE  Zeros(n) \in Seq(Nat) /\ Len(Zeros(n)) = n
<1>1. Zeros(n) \in [1 .. n -> Nat]
  BY DEF Zeros
<1>. QED
  BY <1>1, FunctionSeq

LEMMA PagesStart ==
  ASSUME PagesInit
  PROVE  PagesIInv
<1>. DEFINE start == [k \in 0 .. 0 |-> HeaderSize]
<1>1. NotBegun /\ entries = <<>> /\ pages = <<>> /\ page = Header /\ phase = "write"
  BY DEF PagesInit, NotBegun
<1>2. HeaderSize \in Nat /\ PageSize \in Nat /\ HeaderSize < PageSize /\ PageCount \in Nat \ {0}
  BY PageSizeIs, SSTablePagesAssumption
<1>3. Len(entries) = 0 /\ Len(pages) = 0 /\ Len(page) = HeaderSize
  BY <1>1, HeaderIs
<1>4. Cuts(PageSize, pages, page, page)
  <2>1. page \in Seq(Nat) /\ pages \in Seq(Seq(Nat))
    BY <1>1, HeaderIs
  <2>2. 0 * PageSize = 0
    BY <1>2
  <2>3. Len(page) = 0 * PageSize + Len(page) /\ \A m \in 1 .. Len(page) : 0 * PageSize + m = m
    BY <2>1, <2>2
  <2>. QED
    BY <1>3, <2>1, <2>3 DEF Cuts
<1>5. Laid(entries, page, start, 0) /\ start[0] = Len(page)
  BY <1>2, <1>3 DEF Laid
<1>6. Writing
  <2>1. Len(page) <= PageSize /\ Len(pages) < PageCount
    BY <1>2, <1>3
  <2>. HIDE DEF start
  <2>2. \E s, start2 : /\ Cuts(PageSize, pages, page, s) /\ Laid(entries, s, start2, Len(entries))
                       /\ start2[Len(entries)] = Len(s)
    BY <1>3, <1>4, <1>5
  <2>. QED
    BY <1>1, <2>1, <2>2 DEF Writing
<1>7. entries \in Seq(Entry)
  BY <1>1
<1>. QED
  BY <1>1, <1>6, <1>7 DEF PagesIInv

(* The first records of a longer table are those of the table.               *)
LEMMA SameRecords ==
  ASSUME NEW es \in Seq(Entry), NEW e \in Entry, NEW k \in 1 .. Len(es)
  PROVE  /\ RecordOf(Append(es, e), k) = RecordOf(es, k)
         /\ RecordLen(Append(es, e), k) = RecordLen(es, k)
<1>1. k <= Len(es) /\ k <= Len(Append(es, e)) /\ Append(es, e)[k] = es[k]
  OBVIOUS
<1>2. KeyOf(Append(es, e), k) = KeyOf(es, k) /\ ValueOf(Append(es, e), k) = ValueOf(es, k)
  BY <1>1 DEF KeyOf, ValueOf
<1>. QED
  BY <1>2 DEF RecordOf, RecordLen

LEMMA FewPages ==
  ASSUME NEW a \in Nat, NEW b \in Nat, a * PageSize + b <= PageCount * PageSize, b >= 1
  PROVE  a < PageCount
<1>1. PageCount \in Nat
  BY SSTablePagesAssumption
<1>2. PageCount <= a => PageCount * PageSize <= a * PageSize
  BY <1>1, PageEnds
<1>3. a * PageSize \in Nat /\ PageCount * PageSize \in Nat
  BY <1>1, PageEnds
<1>4. ~(PageCount <= a)
  BY <1>2, <1>3
<1>. QED
  BY <1>1, <1>4

LEMMA PackStep ==
  ASSUME PagesIInv, NEW e \in Entry, PackEntry(e)
  PROVE  PagesIInv'
<1>. DEFINE data == EncodedEntry(e)
            n == Len(entries)
<1>1. /\ entries \in Seq(Entry) /\ Writing /\ phase = "write" /\ phase' = "write"
      /\ entries' = Append(entries, e) /\ Pack(data)
      /\ Written + Len(data) + Slack <= PageCount * PageSize
      /\ UNCHANGED reader
  BY DEF PagesIInv, PackEntry
<1>2. PICK s, start : /\ Cuts(PageSize, pages, page, s) /\ Laid(entries, s, start, n) /\ start[n] = Len(s)
  BY <1>1 DEF Writing
<1>3. /\ entries' \in Seq(Entry) /\ Len(entries') = n + 1 /\ n \in Nat /\ entries'[n + 1] = e
  BY <1>1
<1>4. /\ KeyOf(entries', n + 1) = KeyBytes(e) /\ ValueOf(entries', n + 1) = ValueBytes(e)
  BY <1>3 DEF KeyOf, ValueOf
<1>5. data = RecordOf(entries', n + 1)
  BY <1>4 DEF RecordOf, EncodedEntry
<1>. HIDE DEF data
<1>6. data \in Seq(Nat) /\ Len(data) = RecordLen(entries', n + 1) /\ Len(data) >= 1 /\ Len(data) \in Nat
  <2>1. n + 1 \in Nat \ {0}
    BY <1>3
  <2>2. RecordOf(entries', n + 1) \in Seq(Nat) /\ Len(RecordOf(entries', n + 1)) = RecordLen(entries', n + 1)
        /\ RecordLen(entries', n + 1) \in Nat \ {0}
    BY <1>3, <2>1, RecordIs, KeysAndValues
  <2>. QED
    BY <1>5, <2>2
<1>7. Cuts(PageSize, pages', page', s \o data) /\ Len(page') \in 1 .. PageSize
  <2>1. PackedAs(pages, page, data, pages', page')
    BY <1>1 DEF Pack, PackedAs
  <2>. QED
    BY <1>2, <1>6, <2>1, Packed
<1>8. s \in Seq(Nat) /\ Glued(s \o data, s, data)
  BY <1>2, <1>6, GluedIs DEF Cuts
<1>9. Extends(entries, s, n, entries', s \o data)
  <2>1. \A k \in 1 .. n : /\ RecordOf(entries', k) = RecordOf(entries, k)
                          /\ RecordLen(entries', k) = RecordLen(entries, k)
    BY <1>1, SameRecords
  <2>. DEFINE u == s \o data
  <2>2. Len(u) = Len(s) + Len(data) /\ Len(s) \in Nat
        /\ (\A m \in 1 .. Len(s) : u[m] = s[m]) /\ \A m \in 1 .. Len(data) : u[Len(s) + m] = data[m]
    BY <1>8 DEF Glued
  <2>. HIDE DEF u
  <2>3. Len(u) \in Nat /\ Len(u) >= Len(s) + RecordLen(entries', n + 1)
    BY <1>6, <2>2
  <2>4. \A m \in 1 .. RecordLen(entries', n + 1) : u[Len(s) + m] = RecordOf(entries', n + 1)[m]
    BY <1>5, <1>6, <2>2
  <2>5. Extends(entries, s, n, entries', u)
    BY <2>1, <2>2, <2>3, <2>4 DEF Extends
  <2>. QED
    BY <2>5 DEF u
<1>10. PICK start2 : Laid(entries', s \o data, start2, n + 1) /\ start2[n + 1] = Len(s) + RecordLen(entries', n + 1)
  BY <1>2, <1>3, <1>8, <1>9, LaidMore
<1>11. start2[n + 1] = Len(s \o data)
  BY <1>6, <1>8, <1>10 DEF Glued
<1>12. Len(pages') < PageCount
  <2>1. /\ Len(s) = Len(pages) * PageSize + Len(page)
        /\ Len(s \o data) = Len(pages') * PageSize + Len(page')
        /\ pages \in Seq(Seq(Nat)) /\ pages' \in Seq(Seq(Nat))
    BY <1>2, <1>7 DEF Cuts
  <2>2. Written = Len(s)
    BY <2>1 DEF Written
  <2>3. Len(s) + Len(data) + Slack <= PageCount * PageSize /\ Slack \in Nat /\ Len(s) \in Nat
        /\ PageCount * PageSize \in Nat
    BY <1>1, <1>8, <2>2, SSTablePagesAssumption, PageEnds
  <2>4. Len(s \o data) = Len(s) + Len(data)
    BY <1>8 DEF Glued
  <2>. DEFINE a == Len(pages')
              b == Len(page')
              x == a * PageSize
              y == PageCount * PageSize
  <2>5. a \in Nat /\ b \in Nat /\ b >= 1 /\ x + b <= y
    <3>1. a \in Nat /\ b \in Nat /\ b >= 1 /\ x + b = Len(s) + Len(data)
      BY <1>7, <2>1, <2>4, PageSizeIs
    <3>3. x \in Nat
      BY <3>1, PageEnds
    <3>4. y \in Nat
      BY <2>3
    <3>. HIDE DEF x, y, a, b
    <3>2. Len(s) + Len(data) + Slack <= y
      BY <2>3 DEF y
    <3>. QED
      BY <1>6, <2>3, <3>1, <3>2, <3>3, <3>4
  <2>. HIDE DEF a, b
  <2>6. a < PageCount
    BY <2>5, FewPages
  <2>. QED
    BY <2>6 DEF a
<1>13. Writing'
  <2>1. NotBegun'
    BY <1>1 DEF Writing, NotBegun, reader
  <2>2. (\E s2, start3 : /\ Cuts(PageSize, pages, page, s2) /\ Laid(entries, s2, start3, Len(entries))
                         /\ start3[Len(entries)] = Len(s2))'
    BY <1>3, <1>7, <1>10, <1>11
  <2>3. Len(page') <= PageSize
    BY <1>7, PageSizeIs
  <2>. QED
    BY <1>12, <2>1, <2>2, <2>3 DEF Writing
<1>. QED
  BY <1>1, <1>3, <1>13 DEF PagesIInv

-----------------------------------------------------------------------------
(* The end of a block's writing.                                             *)

LEMMA EofRecordIs ==
  ASSUME NEW es \in Seq(Entry)
  PROVE  RecordOf(es, Len(es) + 1) = EofRecord
<1>1. ~(Len(es) + 1 <= Len(es))
  OBVIOUS
<1>2. KeyOf(es, Len(es) + 1) = Eof /\ ValueOf(es, Len(es) + 1) = Eof
  BY <1>1 DEF KeyOf, ValueOf
<1>. QED
  BY <1>2 DEF RecordOf, EofRecord

(* A page that stays within its size is cut no further.                      *)
LEMMA CutLonger ==
  ASSUME NEW ps, NEW pg, NEW s, Cuts(PageSize, ps, pg, s), NEW data \in Seq(Nat), Len(data) >= 1,
         Len(pg) + Len(data) <= PageSize
  PROVE  Cuts(PageSize, ps, pg \o data, s \o data)
<1>. DEFINE stream == pg \o data
<1>1. pg \in Seq(Nat) /\ ps \in Seq(Seq(Nat))
  BY DEF Cuts
<1>2. stream \in Seq(Nat) /\ Len(stream) = Len(pg) + Len(data) /\ Len(pg) \in Nat /\ Len(data) \in Nat
  BY <1>1, GluedIs DEF Glued
<1>. HIDE DEF stream
<1>3. FullPages(stream) = 0
  <2>1. /\ FullPages(stream) \in Nat /\ FullPages(stream) * PageSize < Len(stream)
    <3>1. Len(stream) >= 1
      BY <1>2
    <3>. QED
      BY <1>2, <3>1, FullPagesAre
  <2>2. FullPages(stream) * PageSize \in Nat /\ 1 * PageSize = PageSize
        /\ (1 <= FullPages(stream) => 1 * PageSize <= FullPages(stream) * PageSize)
    BY <2>1, PageEnds, PageSizeIs
  <2>. QED
    BY <1>2, <2>1, <2>2, PageSizeIs
<1>4. ps \o [k \in 1 .. 0 |-> Piece(stream, k)] = ps
  BY <1>1
<1>5. SubSeq(stream, 0 * PageSize + 1, Len(stream)) = stream
  <2>1. 0 * PageSize + 1 = 1
    BY PageSizeIs
  <2>2. SubSeq(stream, 1, Len(stream)) = stream
    BY <1>2
  <2>. QED
    BY <2>1, <2>2
<1>6. PackedAs(ps, pg, data, ps, stream)
  BY <1>3, <1>4, <1>5 DEF PackedAs, stream
<1>7. Cuts(PageSize, ps, stream, s \o data)
  BY <1>6, Packed
<1>. QED
  BY <1>7 DEF stream

LEMMA CloseStep ==
  ASSUME PagesIInv, Close
  PROVE  PagesIInv'
<1>. DEFINE n == Len(entries)
            last == page \o EofRecord
            z == PageSize - Len(last)
            tail == EofRecord \o Zeros(z)
<1>1. /\ entries \in Seq(Entry) /\ Writing /\ NotBegun /\ phase = "write" /\ n \in Nat
      /\ entries' = entries /\ UNCHANGED reader
  BY DEF PagesIInv, Close, Writing
<1>2. PICK s, start : /\ Cuts(PageSize, pages, page, s) /\ Laid(entries, s, start, n) /\ start[n] = Len(s)
  BY <1>1 DEF Writing
<1>3. CASE Len(page) + Len(EofRecord) > PageSize
  <2>1. phase' = "panicked" /\ found' = <<>>
    BY <1>1, <1>3 DEF Close, NotBegun, reader
  <2>. QED
    BY <1>1, <2>1 DEF PagesIInv
<1>4. CASE ~(Len(page) + Len(EofRecord) > PageSize)
  <2>1. pages' = Append(pages, last \o Zeros(z)) /\ page' = <<>> /\ phase' = "read"
    BY <1>4 DEF Close
  <2>2. EofRecord \in Seq(Nat) /\ Len(EofRecord) = RecordLen(entries, n + 1) /\ Len(EofRecord) \in Nat \ {0}
    <3>1. n + 1 \in Nat \ {0}
      BY <1>1
    <3>2. RecordOf(entries, n + 1) \in Seq(Nat) /\ Len(RecordOf(entries, n + 1)) = RecordLen(entries, n + 1)
          /\ RecordLen(entries, n + 1) \in Nat \ {0}
      BY <1>1, <3>1, RecordIs, KeysAndValues
    <3>3. RecordOf(entries, n + 1) = EofRecord
      BY <1>1, EofRecordIs
    <3>. QED
      BY <3>2, <3>3
  <2>3. s \in Seq(Nat) /\ page \in Seq(Nat) /\ pages \in Seq(Seq(Nat)) /\ Len(page) \in Nat /\ Len(s) \in Nat
    BY <1>2 DEF Cuts
  <2>4. last \in Seq(Nat) /\ Len(last) = Len(page) + Len(EofRecord) /\ z \in Nat /\ Len(last) + z = PageSize
    <3>1. last \in Seq(Nat) /\ Len(last) = Len(page) + Len(EofRecord)
      BY <2>2, <2>3, GluedIs DEF Glued
    <3>. HIDE DEF last, tail
    <3>2. Len(last) \in Nat /\ Len(last) <= PageSize
      BY <1>4, <2>2, <2>3, <3>1, PageSizeIs
    <3>. QED
      BY <3>1, <3>2, PageSizeIs
  <2>. HIDE DEF z
  <2>5. Zeros(z) \in Seq(Nat) /\ Len(Zeros(z)) = z
    BY <2>4, ZerosAre
  <2>6. Glued(tail, EofRecord, Zeros(z)) /\ page \o tail = last \o Zeros(z)
    BY <2>2, <2>3, <2>5, GluedIs, Regrouped
  <2>. HIDE DEF last, tail
  <2>7. tail \in Seq(Nat) /\ Len(tail) = Len(EofRecord) + z /\ Len(page) + Len(tail) = PageSize /\ Len(tail) >= 1
        /\ Len(tail) \in Nat
    <3>1. tail \in Seq(Nat) /\ Len(tail) = Len(EofRecord) + Len(Zeros(z))
      BY <2>6 DEF Glued
    <3>2. Len(tail) = Len(EofRecord) + z
      BY <2>5, <3>1
    <3>. DEFINE a == Len(page)
                b == Len(EofRecord)
                c == Len(tail)
                d == Len(last)
    <3>3. a \in Nat /\ b \in Nat \ {0} /\ c = b + z /\ d = a + b /\ z \in Nat /\ d + z = PageSize
      BY <2>2, <2>3, <2>4, <3>2
    <3>. HIDE DEF a, b, c, d
    <3>4. a + c = PageSize /\ c >= 1 /\ c \in Nat
      BY <3>3
    <3>. QED
      BY <3>1, <3>2, <3>4 DEF a, c
  <2>8. Cuts(PageSize, pages, page \o tail, s \o tail) /\ Len(page \o tail) = PageSize
    <3>1. Cuts(PageSize, pages, page \o tail, s \o tail)
      BY <1>2, <2>7, PageSizeIs, CutLonger
    <3>2. Len(page \o tail) = Len(page) + Len(tail)
      BY <2>3, <2>7, GluedIs DEF Glued
    <3>. QED
      BY <2>7, <3>1, <3>2
  <2>9. Cuts(PageSize, pages', page', s \o tail) /\ Len(pages') = Len(pages) + 1
    <3>1. Cuts(PageSize, Append(pages, page \o tail), <<>>, s \o tail) /\ Len(Append(pages, page \o tail)) = Len(pages) + 1
      BY <2>8, PageClosed
    <3>2. pages' = Append(pages, page \o tail)
      BY <2>1, <2>6
    <3>. QED
      BY <2>1, <3>1, <3>2
  <2>10. Glued(s \o tail, s, tail)
    BY <2>3, <2>7, GluedIs
  <2>11. Extends(entries, s, n, entries, s \o tail)
    <3>. DEFINE u == s \o tail
    <3>1. Len(u) = Len(s) + Len(tail)
          /\ (\A m \in 1 .. Len(s) : u[m] = s[m]) /\ \A m \in 1 .. Len(tail) : u[Len(s) + m] = tail[m]
      BY <2>10 DEF Glued
    <3>. HIDE DEF u
    <3>2. \A m \in 1 .. Len(EofRecord) : m \in 1 .. Len(tail) /\ tail[m] = EofRecord[m]
      BY <2>2, <2>4, <2>6, <2>7 DEF Glued
    <3>3. \A m \in 1 .. RecordLen(entries, n + 1) : u[Len(s) + m] = RecordOf(entries, n + 1)[m]
      BY <1>1, <2>2, <3>1, <3>2, EofRecordIs
    <3>4. Len(u) \in Nat /\ Len(u) >= Len(s) + RecordLen(entries, n + 1)
      <4>. DEFINE a == Len(s)
                  b == Len(tail)
                  d == Len(EofRecord)
      <4>1. a \in Nat /\ b \in Nat /\ d \in Nat /\ b = d + z /\ z \in Nat /\ Len(u) = a + b
        BY <2>2, <2>3, <2>4, <2>7, <3>1
      <4>. HIDE DEF a, b, d
      <4>2. Len(u) \in Nat /\ Len(u) >= a + d
        BY <4>1
      <4>. QED
        BY <2>2, <4>2 DEF a, d
    <3>5. Extends(entries, s, n, entries, u)
      BY <3>1, <3>3, <3>4 DEF Extends
    <3>. QED
      BY <3>5 DEF u
  <2>12. PICK u, start2 : Laid(entries, u, start2, n + 1) /\ Cuts(PageSize, pages', page', u)
    BY <1>1, <1>2, <2>3, <2>9, <2>11, LaidMore
  <2>13. Layout(u, start2)'
    <3>1. Len(pages') <= PageCount
      <4>1. Len(pages) < PageCount /\ Len(pages) \in Nat /\ PageCount \in Nat
        BY <1>1, <2>3, SSTablePagesAssumption DEF Writing
      <4>. QED
        BY <2>9, <4>1
    <3>2. Cuts(PageSize, pages', page', u) /\ Laid(entries', u, start2, Len(entries') + 1)
      BY <1>1, <2>12
    <3>. QED
      BY <2>1, <3>1, <3>2 DEF Layout
  <2>14. /\ i' = 1 /\ j' = HeaderSize /\ field' = 0 /\ temp' = <<>>
         /\ sizes' = <<0, 0>> /\ record' = <<<<>>, <<>>>> /\ found' = <<>>
    BY <1>1 DEF NotBegun, reader
  <2>15. Len(found') = 0 /\ Len(temp') = 0
    BY <2>14
  <2>16. FoundSoFar'
    BY <1>1, <2>14, <2>15 DEF FoundSoFar
  <2>17. Len(Part(entries, 1, 0)) \in Nat \ {0}
    BY <1>1, RecordIs
  <2>18. (InField(1))'
    <3>1. temp' \in Seq(Nat) /\ field' \in 0 .. 5 /\ field' # 5
      BY <2>14
    <3>2. Len(temp') < Len(Part(entries', 1, field'))
      BY <1>1, <2>14, <2>15, <2>17
    <3>. QED
      BY <2>15, <3>1, <3>2 DEF InField
  <2>19. (FieldsRead(1))'
    <3>1. sizes' \in Nat \X Nat /\ record' \in Seq(Nat) \X Seq(Nat)
      <4>1. 0 \in Nat /\ <<>> \in Seq(Nat)
        OBVIOUS
      <4>2. <<0, 0>> \in Nat \X Nat
        OBVIOUS
      <4>3. <<<<>>, <<>>>> \in Seq(Nat) \X Seq(Nat)
        BY <4>1
      <4>. QED
        BY <2>14, <4>2, <4>3
    <3>. QED
      BY <2>14, <3>1 DEF FieldsRead
  <2>20. (AtPlace(start2))'
    <3>1. start2[0] = HeaderSize
      BY <2>12 DEF Laid
    <3>2. (i' - 1) * PageSize + j' = HeaderSize
      BY <2>14, PageSizeIs
    <3>3. Before(entries', 0 + 1, 0) = 0
      BY DEF Before
    <3>4. i' \in 1 .. PageCount /\ j' \in 0 .. PageSize
      BY <2>14, PageSizeIs, SSTablePagesAssumption
    <3>5. start2[Len(found')] + Before(entries', Len(found') + 1, field') + Len(temp') = HeaderSize
      BY <2>14, <2>15, <3>1, <3>3, PageSizeIs
    <3>. QED
      BY <3>2, <3>4, <3>5 DEF AtPlace
  <2>21. Reading'
    <3>1. Len(found') + 1 = 1
      BY <2>15
    <3>2. (InField(Len(found) + 1) /\ FieldsRead(Len(found) + 1))'
      BY <2>18, <2>19, <3>1 DEF InField, FieldsRead
    <3>3. (\E s2, start3 : Layout(s2, start3) /\ AtPlace(start3))'
      BY <2>13, <2>20
    <3>. QED
      BY <2>16, <3>2, <3>3 DEF Reading
  <2>. QED
    BY <1>1, <2>1, <2>21 DEF PagesIInv
<1>. QED
  BY <1>3, <1>4

-----------------------------------------------------------------------------
(* The reader.                                                               *)

(* The reader's field lies at base + 1 .. base + Len(Part) of the bytes.     *)
Within(s, start, base) ==
  LET rest == Part(entries, Len(found) + 1, field) IN
  /\ base \in Nat /\ base = start[Len(found)] + Before(entries, Len(found) + 1, field)
  /\ (i - 1) * PageSize + j = base + Len(temp)
  /\ Len(rest) \in Nat \ {0} /\ rest \in Seq(Nat) /\ base + Len(rest) <= Len(s)
  /\ \A m \in 1 .. Len(rest) : s[base + m] = rest[m]

LEMMA FieldWithin ==
  ASSUME NEW s, NEW start, Layout(s, start), AtPlace(start), FoundSoFar, InField(Len(found) + 1),
         entries \in Seq(Entry), field # 5
  PROVE  \E base : Within(s, start, base)
<1>. DEFINE c == Len(found)
            n == Len(entries)
            f == field
            rest == Part(entries, c + 1, f)
            base == start[c] + Before(entries, c + 1, f)
<1>1. c \in Nat /\ n \in Nat /\ c <= n /\ c + 1 \in Nat \ {0} /\ f \in 0 .. 4 /\ temp \in Seq(Nat)
  BY DEF FoundSoFar, InField
<1>2. /\ start \in [0 .. n + 1 -> Nat] /\ start[c] \in Nat /\ start[c + 1] \in Nat /\ start[c + 1] <= Len(s)
      /\ start[c + 1] = start[c] + RecordLen(entries, c + 1)
      /\ \A m \in 1 .. RecordLen(entries, c + 1) : s[start[c] + m] = RecordOf(entries, c + 1)[m]
  <2>1. Laid(entries, s, start, n + 1)
    BY DEF Layout
  <2>2. c + 1 \in 1 .. n + 1 /\ c + 1 \in 0 .. n + 1 /\ c \in 0 .. n + 1 /\ (c + 1) - 1 = c
    BY <1>1
  <2>. HIDE DEF c, n
  <2>. QED
    BY <2>1, <2>2 DEF Laid
<1>3. /\ rest \in Seq(Nat) /\ Len(rest) \in Nat \ {0}
      /\ Before(entries, c + 1, f) \in Nat
      /\ Before(entries, c + 1, f) + Len(rest) = Before(entries, c + 1, f + 1)
      /\ Before(entries, c + 1, f + 1) <= RecordLen(entries, c + 1)
      /\ \A m \in 1 .. Len(rest) : RecordOf(entries, c + 1)[Before(entries, c + 1, f) + m] = rest[m]
  BY <1>1, RecordIs
<1>4. RecordLen(entries, c + 1) \in Nat
  BY <1>1, KeysAndValues
<1>5. (i - 1) * PageSize + j = base + Len(temp)
  BY DEF AtPlace
<1>6. Len(s) \in Nat
  BY DEF Layout, Cuts
<1>. HIDE DEF c, f, rest
<1>. DEFINE v == Before(entries, c + 1, f)
            w == Before(entries, c + 1, f + 1)
            z == RecordLen(entries, c + 1)
            x0 == start[c]
            x1 == start[c + 1]
            l == Len(rest)
            L == Len(s)
<1>10. /\ v \in Nat /\ z \in Nat /\ x0 \in Nat /\ x1 \in Nat /\ l \in Nat /\ L \in Nat
       /\ v + l = w /\ w <= z /\ x1 = x0 + z /\ x1 <= L
  BY <1>2, <1>3, <1>4, <1>6
<1>11. base = x0 + v
  OBVIOUS
<1>. HIDE DEF v, w, z, x0, x1, l, L, base
<1>12. x0 + v \in Nat /\ x0 + v + l <= L /\ \A m \in 1 .. l : v + m \in 1 .. z /\ x0 + (v + m) = (x0 + v) + m
  BY <1>10
<1>7. base \in Nat /\ base + Len(rest) <= Len(s)
  BY <1>11, <1>12 DEF l, L
<1>8. ASSUME NEW m \in 1 .. Len(rest) PROVE s[base + m] = rest[m]
  <2>. DEFINE x == Before(entries, c + 1, f) + m
  <2>1. x \in 1 .. RecordLen(entries, c + 1) /\ start[c] + x = base + m
    BY <1>11, <1>12 DEF v, z, x0, l
  <2>2. s[start[c] + x] = RecordOf(entries, c + 1)[x]
    BY <1>2, <2>1
  <2>. QED
    BY <1>3, <2>1, <2>2
<1>9. Within(s, start, base)
  BY <1>3, <1>5, <1>7, <1>8 DEF Within, c, f, rest, base
<1>. QED
  BY <1>9

LEMMA FoundIsExpected ==
  ASSUME FoundSoFar, entries \in Seq(Entry), Len(found) = Len(entries)
  PROVE  found = Expected
<1>. DEFINE n == Len(entries)
<1>1. n \in Nat /\ DOMAIN entries = 1 .. n /\ DOMAIN found = 1 .. n
  BY DEF FoundSoFar
<1>2. found = [k \in 1 .. n |-> found[k]]
  BY <1>1 DEF FoundSoFar
<1>3. \A k \in 1 .. n : found[k] = <<KeyBytes(entries[k]), ValueBytes(entries[k])>>
  BY <1>1 DEF FoundSoFar, KeyOf, ValueOf
<1>4. Expected = [k \in 1 .. n |-> <<KeyBytes(entries[k]), ValueBytes(entries[k])>>]
  BY <1>1 DEF Expected
<1>. HIDE DEF n
<1>. QED
  BY <1>2, <1>3, <1>4

(* The end of a page.                                                        *)
LEMMA NextPageStep ==
  ASSUME PagesIInv, NextPage
  PROVE  PagesIInv'
<1>. DEFINE c == Len(found)
            n == Len(entries)
<1>1. /\ entries \in Seq(Entry) /\ entries' = entries /\ pages' = pages /\ page' = page
      /\ Reading /\ phase = "read" /\ j = PageSize
      /\ field' = field /\ temp' = temp /\ sizes' = sizes /\ record' = record /\ found' = found
  BY DEF PagesIInv, NextPage, writer
<1>2. FoundSoFar /\ InField(c + 1) /\ FieldsRead(c + 1)
  BY <1>1 DEF Reading
<1>3. PICK s, start : Layout(s, start) /\ AtPlace(start)
  BY <1>1 DEF Reading
<1>4. i \in 1 .. PageCount /\ PageCount \in Nat /\ (i - 1) * PageSize + PageSize = i * PageSize /\ (i - 1) * PageSize \in Nat
      /\ i \in Nat /\ i * PageSize \in Nat
  <2>1. i \in 1 .. PageCount /\ PageCount \in Nat
    BY <1>3, SSTablePagesAssumption DEF AtPlace
  <2>2. i \in Nat /\ i >= 1
    BY <2>1
  <2>. QED
    BY <2>1, <2>2, PageEnds
<1>5. CASE i = PageCount
  <2>1. phase' = "done"
    BY <1>5 DEF NextPage
  <2>2. Len(s) \in Nat /\ Len(s) <= PageCount * PageSize
    <3>1. /\ Len(s) = Len(pages) * PageSize + Len(page) /\ page = <<>> /\ Len(pages) <= PageCount
          /\ Len(pages) \in Nat /\ Len(s) \in Nat
      BY <1>3 DEF Layout, Cuts
    <3>2. Len(pages) * PageSize <= PageCount * PageSize /\ Len(pages) * PageSize \in Nat
      BY <1>4, <3>1, PageEnds
    <3>3. Len(page) = 0
      BY <3>1
    <3>. QED
      BY <3>1, <3>2, <3>3
  <2>3. start[c] + Before(entries, c + 1, field) + Len(temp) = PageCount * PageSize
    <3>1. (i - 1) * PageSize + j = start[c] + Before(entries, c + 1, field) + Len(temp)
      BY <1>3 DEF AtPlace
    <3>. QED
      BY <1>1, <1>4, <1>5, <3>1
  <2>4. field = 5
    <3>. SUFFICES ASSUME field # 5 PROVE FALSE
      OBVIOUS
    <3>1. PICK base : Within(s, start, base)
      BY <1>1, <1>2, <1>3, FieldWithin
    <3>2. Len(temp) < Len(Part(entries, c + 1, field)) /\ Len(temp) \in Nat
      BY <1>2 DEF InField
    <3>3. base \in Nat /\ base + Len(temp) = PageCount * PageSize
          /\ base + Len(Part(entries, c + 1, field)) <= Len(s) /\ Len(Part(entries, c + 1, field)) \in Nat
      BY <2>3, <3>1 DEF Within
    <3>. QED
      BY <2>2, <3>2, <3>3
  <2>5. c = n
    <3>1. temp = <<>> /\ Len(temp) = 0
      BY <1>2, <2>4 DEF InField
    <3>2. Before(entries, c + 1, 5) = RecordLen(entries, c + 1)
      BY DEF Before
    <3>3. c \in Nat /\ n \in Nat /\ c <= n
      BY <1>1, <1>2 DEF FoundSoFar
    <3>4. /\ start[c + 1] \in Nat /\ start[c] \in Nat /\ start[c + 1] = start[c] + RecordLen(entries, c + 1)
          /\ (c + 1 < n + 1 => start[c + 1] < Len(s))
      <4>1. Laid(entries, s, start, n + 1)
        BY <1>3 DEF Layout
      <4>2. c + 1 \in 1 .. n + 1 /\ c + 1 \in 0 .. n + 1 /\ c \in 0 .. n + 1 /\ (c + 1) - 1 = c
        BY <3>3
      <4>. HIDE DEF c, n
      <4>. QED
        BY <4>1, <4>2 DEF Laid
    <3>5. RecordLen(entries, c + 1) \in Nat
      BY <1>1, <3>3, KeysAndValues
    <3>. HIDE DEF c, n
    <3>6. start[c + 1] = PageCount * PageSize
      BY <2>3, <2>4, <3>1, <3>2, <3>4, <3>5
    <3>7. ~(start[c + 1] < Len(s))
      BY <2>2, <3>4, <3>6
    <3>. QED
      BY <3>3, <3>4, <3>7
  <2>6. found = Expected
    BY <1>1, <1>2, <2>5, FoundIsExpected
  <2>. QED
    BY <1>1, <2>1, <2>6 DEF PagesIInv, Expected
<1>6. CASE i # PageCount
  <2>1. i' = i + 1 /\ j' = 0 /\ phase' = phase
    BY <1>6 DEF NextPage
  <2>2. (AtPlace(start))'
    <3>1. i' \in 1 .. PageCount /\ j' \in 0 .. PageSize
      BY <1>4, <1>6, <2>1, PageSizeIs
    <3>2. (i' - 1) * PageSize + j' = (i - 1) * PageSize + j
      <4>1. i' - 1 = i
        BY <1>4, <2>1
      <4>. QED
        BY <1>1, <1>4, <2>1, <4>1
    <3>3. (i - 1) * PageSize + j = start[Len(found)] + Before(entries, Len(found) + 1, field) + Len(temp)
      BY <1>3 DEF AtPlace
    <3>. QED
      BY <1>1, <3>1, <3>2, <3>3 DEF AtPlace
  <2>3. (Layout(s, start))'
    BY <1>1, <1>3 DEF Layout
  <2>4. (FoundSoFar /\ InField(Len(found) + 1) /\ FieldsRead(Len(found) + 1))'
    BY <1>1, <1>2 DEF FoundSoFar, InField, FieldsRead
  <2>5. Reading'
    <3>1. (\E s2, start2 : Layout(s2, start2) /\ AtPlace(start2))'
      BY <2>2, <2>3
    <3>. QED
      BY <2>4, <3>1 DEF Reading
  <2>. QED
    BY <1>1, <2>1, <2>5 DEF PagesIInv
<1>. QED
  BY <1>5, <1>6

(* The end of a record.                                                      *)
LEMMA FinishStep ==
  ASSUME PagesIInv, FinishEntry
  PROVE  PagesIInv'
<1>. DEFINE c == Len(found)
            n == Len(entries)
<1>1. /\ entries \in Seq(Entry) /\ entries' = entries /\ pages' = pages /\ page' = page
      /\ Reading /\ phase = "read" /\ field = 5 /\ field' = 0
      /\ temp' = temp /\ sizes' = sizes /\ record' = record /\ i' = i /\ j' = j
  BY DEF PagesIInv, FinishEntry, writer
<1>2. FoundSoFar /\ InField(c + 1) /\ FieldsRead(c + 1)
  BY <1>1 DEF Reading
<1>3. PICK s, start : Layout(s, start) /\ AtPlace(start)
  BY <1>1 DEF Reading
<1>4. c \in Nat /\ n \in Nat /\ c <= n /\ temp = <<>>
  BY <1>1, <1>2 DEF FoundSoFar, InField
<1>5. record = <<KeyOf(entries, c + 1), ValueOf(entries, c + 1)>>
  <2>1. record \in Seq(Nat) \X Seq(Nat) /\ record[1] = KeyOf(entries, c + 1) /\ record[2] = ValueOf(entries, c + 1)
    BY <1>1, <1>2 DEF FieldsRead
  <2>2. record = <<record[1], record[2]>>
    BY <2>1
  <2>. QED
    BY <2>1, <2>2
<1>6. CASE record = <<Eof, Eof>>
  <2>1. phase' = "done" /\ found' = found
    BY <1>6 DEF FinishEntry
  <2>2. c = n
    <3>. SUFFICES ASSUME c + 1 <= n PROVE FALSE
      BY <1>4
    <3>1. KeyOf(entries, c + 1) = KeyBytes(entries[c + 1]) /\ entries[c + 1] \in Entry
      BY <1>1, <1>4 DEF KeyOf
    <3>2. KeyOf(entries, c + 1) = Eof
      BY <1>5, <1>6
    <3>. QED
      BY <3>1, <3>2, EntryBytes
  <2>3. found = Expected
    BY <1>1, <1>2, <2>2, FoundIsExpected
  <2>. QED
    BY <1>1, <2>1, <2>3 DEF PagesIInv, Expected
<1>7. CASE record # <<Eof, Eof>>
  <2>1. phase' = phase /\ found' = Append(found, record)
    BY <1>7 DEF FinishEntry
  <2>2. c + 1 <= n
    <3>. SUFFICES ASSUME ~(c + 1 <= n) PROVE FALSE
      OBVIOUS
    <3>1. KeyOf(entries, c + 1) = Eof /\ ValueOf(entries, c + 1) = Eof
      BY DEF KeyOf, ValueOf
    <3>. QED
      BY <1>5, <1>7, <3>1
  <2>3. /\ found' \in Seq(Seq(Nat) \X Seq(Nat)) /\ Len(found') = c + 1
        /\ found'[c + 1] = record /\ \A k \in 1 .. c : found'[k] = found[k]
    <3>1. found \in Seq(Seq(Nat) \X Seq(Nat)) /\ record \in Seq(Nat) \X Seq(Nat)
      BY <1>2 DEF FoundSoFar, FieldsRead
    <3>. DEFINE T == Seq(Nat) \X Seq(Nat)
    <3>2. found \in Seq(T) /\ record \in T
      BY <3>1
    <3>. HIDE DEF T
    <3>3. /\ Append(found, record) \in Seq(T) /\ Len(Append(found, record)) = c + 1
          /\ Append(found, record)[c + 1] = record /\ \A k \in 1 .. c : Append(found, record)[k] = found[k]
      BY <3>2
    <3>. QED
      BY <2>1, <3>3 DEF T
  <2>4. FoundSoFar'
    <3>1. ASSUME NEW k \in 1 .. c + 1 PROVE found'[k] = <<KeyOf(entries, k), ValueOf(entries, k)>>
      <4>1. CASE k = c + 1
        BY <1>5, <2>3, <4>1
      <4>2. CASE k \in 1 .. c
        BY <1>2, <2>3, <4>2 DEF FoundSoFar
      <4>. QED
        BY <1>4, <4>1, <4>2
    <3>. HIDE DEF c, n
    <3>2. \A k \in 1 .. Len(found') : found'[k] = <<KeyOf(entries', k), ValueOf(entries', k)>>
      BY <1>1, <2>3, <3>1
    <3>3. Len(found') <= Len(entries')
      BY <1>1, <2>2, <2>3 DEF n
    <3>. QED
      BY <2>3, <3>2, <3>3 DEF FoundSoFar
  <2>5. (InField(Len(found) + 1))'
    <3>1. c + 2 \in Nat \ {0} /\ Len(found') + 1 = c + 2
      BY <1>4, <2>3
    <3>2. Len(Part(entries, c + 2, 0)) \in Nat \ {0}
      BY <1>1, <3>1, RecordIs
    <3>3. temp' = <<>> /\ Len(temp') = 0
      BY <1>1, <1>4
    <3>4. temp' \in Seq(Nat) /\ field' \in 0 .. 5 /\ field' # 5
      BY <1>1, <3>3
    <3>5. Len(temp') < Len(Part(entries', Len(found') + 1, field'))
      BY <1>1, <3>1, <3>2, <3>3
    <3>. QED
      BY <3>3, <3>4, <3>5 DEF InField
  <2>6. (FieldsRead(Len(found) + 1))'
    BY <1>1, <1>2 DEF FieldsRead
  <2>7. (Layout(s, start))'
    BY <1>1, <1>3 DEF Layout
  <2>8. (AtPlace(start))'
    <3>1. /\ i' \in 1 .. PageCount /\ j' \in 0 .. PageSize
          /\ (i' - 1) * PageSize + j' = start[c] + Before(entries, c + 1, 5) + Len(temp)
      BY <1>1, <1>3 DEF AtPlace
    <3>2. Before(entries, c + 1, 5) = RecordLen(entries, c + 1) /\ Before(entries, c + 2, 0) = 0
      BY DEF Before
    <3>3. /\ start[c + 1] \in Nat /\ start[c] \in Nat /\ start[c + 1] = start[c] + RecordLen(entries, c + 1)
      <4>1. Laid(entries, s, start, n + 1)
        BY <1>3 DEF Layout
      <4>2. c + 1 \in 1 .. n + 1 /\ c + 1 \in 0 .. n + 1 /\ c \in 0 .. n + 1 /\ (c + 1) - 1 = c
        BY <1>4
      <4>. HIDE DEF c, n
      <4>. QED
        BY <4>1, <4>2 DEF Laid
    <3>4. Len(temp) = 0 /\ Len(temp') = 0
      BY <1>1, <1>4
    <3>5. start[Len(found')] + Before(entries', Len(found') + 1, field') + Len(temp') = start[c + 1]
      <4>1. Len(found') + 1 = c + 2
        BY <1>4, <2>3
      <4>. QED
        BY <1>1, <2>3, <3>2, <3>3, <3>4, <4>1
    <3>6. start[c] + Before(entries, c + 1, 5) + Len(temp) = start[c + 1]
      BY <3>2, <3>3, <3>4
    <3>. QED
      BY <3>1, <3>5, <3>6 DEF AtPlace
  <2>9. Reading'
    <3>1. (\E s2, start2 : Layout(s2, start2) /\ AtPlace(start2))'
      BY <2>7, <2>8
    <3>. QED
      BY <2>4, <2>5, <2>6, <3>1 DEF Reading
  <2>. QED
    BY <1>1, <2>1, <2>9 DEF PagesIInv
<1>. QED
  BY <1>6, <1>7

-----------------------------------------------------------------------------
(* A turn of the reader's loop.                                              *)

LEMMA FieldSizeIs ==
  ASSUME entries \in Seq(Entry), NEW k \in Nat \ {0}, InField(k), FieldsRead(k), field # 5
  PROVE  FieldSize = Len(Part(entries, k, field))
<1>1. field \in 0 .. 4
  BY DEF InField
<1>2. /\ KeyOf(entries, k) \in Seq(Nat) /\ Len(KeyOf(entries, k)) \in Nat
      /\ ValueOf(entries, k) \in Seq(Nat) /\ Len(ValueOf(entries, k)) \in Nat
  BY KeysAndValues
<1>3. /\ Len(Number(0)) = Width /\ Len(Number(Len(KeyOf(entries, k)))) = Width
      /\ Len(Number(Len(ValueOf(entries, k)))) = Width
  BY <1>2, NumberIs
<1>4. CASE field \in {0, 1, 2}
  <2>1. FieldSize = Width
    BY <1>4 DEF FieldSize
  <2>2. Len(Part(entries, k, field)) = Width
    BY <1>3, <1>4 DEF Part
  <2>. QED
    BY <2>1, <2>2
<1>5. CASE field = 3
  <2>1. FieldSize = sizes[1]
    BY <1>5 DEF FieldSize
  <2>2. Part(entries, k, field) = KeyOf(entries, k)
    BY <1>5 DEF Part
  <2>. QED
    BY <1>5, <2>1, <2>2 DEF FieldsRead
<1>6. CASE field = 4
  <2>1. FieldSize = sizes[2]
    BY <1>6 DEF FieldSize
  <2>2. Part(entries, k, field) = ValueOf(entries, k)
    BY <1>6 DEF Part
  <2>. QED
    BY <1>6, <2>1, <2>2 DEF FieldsRead
<1>. QED
  BY <1>1, <1>4, <1>5, <1>6

(* The bytes of a turn, and of the field with them.                          *)
Turn(n, t) ==
  /\ n = Min({FieldSize - Len(temp), PageSize - j})
  /\ t = temp \o SubSeq(Page(i), j + 1, j + n)

MoreRead(n, t, rest) ==
  /\ n \in Nat /\ j + n <= PageSize /\ t \in Seq(Nat) /\ Len(t) = Len(temp) + n /\ Len(t) <= Len(rest)
  /\ \A m \in 1 .. Len(t) : t[m] = rest[m]

LEMMA TurnReads ==
  ASSUME NEW s, NEW start, NEW base, Layout(s, start), AtPlace(start), Within(s, start, base),
         InField(Len(found) + 1), FieldSize = Len(Part(entries, Len(found) + 1, field)),
         field # 5, j < PageSize, NEW n, NEW t, Turn(n, t)
  PROVE  MoreRead(n, t, Part(entries, Len(found) + 1, field))
<1>. DEFINE rest == Part(entries, Len(found) + 1, field)
            a == Len(temp)
            l == Len(rest)
            p == (i - 1) * PageSize
            L == Len(s)
<1>1. /\ a \in Nat /\ l \in Nat /\ a < l /\ temp \in Seq(Nat) /\ base \in Nat /\ L \in Nat
      /\ base + l <= L /\ p + j = base + a
  BY DEF InField, Within, Layout, Cuts
<1>2. i \in 1 .. PageCount /\ j \in 0 .. PageSize /\ PageCount \in Nat
  BY SSTablePagesAssumption DEF AtPlace
<1>3. i \in Nat /\ i - 1 \in Nat /\ p \in Nat /\ j \in Nat
  <2>1. i \in Nat /\ i - 1 \in Nat /\ j \in Nat
    BY <1>2, PageSizeIs
  <2>. QED
    BY <2>1, PageEnds
<1>. HIDE DEF rest, a, l, p, L
<1>4. n = Min({l - a, PageSize - j})
  BY DEF Turn, l, a, rest
<1>5. n = IF l - a <= PageSize - j THEN l - a ELSE PageSize - j
  <2>. DEFINE x == l - a
              y == PageSize - j
  <2>1. x \in Int /\ y \in Int
    BY <1>1, <1>3, PageSizeIs
  <2>2. n = Min({x, y})
    BY <1>4
  <2>. HIDE DEF x, y
  <2>3. n = IF x <= y THEN x ELSE y
    BY <2>1, <2>2, LeastOfTwo
  <2>. QED
    BY <2>3 DEF x, y
<1>6. n \in Nat /\ n >= 1 /\ j + n <= PageSize /\ a + n <= l
  BY <1>1, <1>3, <1>5, PageSizeIs
<1>7. i <= Len(pages) /\ Len(pages) \in Nat /\ L = Len(pages) * PageSize
  <2>1. L = Len(pages) * PageSize + Len(page) /\ page = <<>> /\ Len(pages) \in Nat
    BY DEF Layout, Cuts, L
  <2>2. Len(pages) * PageSize \in Nat /\ Len(page) = 0
    BY <2>1, PageEnds
  <2>. DEFINE y == Len(pages) * PageSize
  <2>3. y \in Nat /\ L = y
    BY <2>1, <2>2
  <2>. HIDE DEF y
  <2>4. p < y
    BY <1>1, <1>3, <2>3
  <2>5. Len(pages) <= i - 1 => y <= p
    BY <1>3, <2>1, PageEnds DEF y, p
  <2>6. ~(Len(pages) <= i - 1)
    BY <1>3, <2>3, <2>4, <2>5
  <2>7. i <= Len(pages)
    BY <1>3, <2>1, <2>6
  <2>. QED
    BY <2>1, <2>3, <2>7 DEF y
<1>8. /\ Page(i) = pages[i] /\ pages[i] \in Seq(Nat) /\ Len(pages[i]) = PageSize
      /\ \A m \in 1 .. PageSize : pages[i][m] = s[p + m]
  <2>1. i \in 1 .. Len(pages)
    BY <1>2, <1>7
  <2>2. Page(i) = pages[i]
    BY <1>7 DEF Page
  <2>3. pages \in Seq(Seq(Nat))
    BY DEF Layout, Cuts
  <2>4. pages[i] \in Seq(Nat)
    BY <2>1, <2>3
  <2>. QED
    BY <2>1, <2>2, <2>4 DEF Layout, Cuts, p
<1>. DEFINE more == SubSeq(Page(i), j + 1, j + n)
<1>9. PieceAt(more, Page(i), j, n)
  BY <1>3, <1>6, <1>8, PieceAtIs
<1>10. t = temp \o more
  BY DEF Turn
<1>11. more \in Seq(Nat) /\ Len(more) = n /\ \A m \in 1 .. n : more[m] = Page(i)[j + m]
  BY <1>9 DEF PieceAt
<1>. HIDE DEF more
<1>12. Glued(t, temp, more)
  BY <1>1, <1>10, <1>11, GluedIs
<1>13. t \in Seq(Nat) /\ Len(t) = a + n
  BY <1>11, <1>12 DEF Glued, a
<1>14. ASSUME NEW m \in 1 .. a + n PROVE t[m] = rest[m]
  <2>1. CASE m <= a
    <3>1. m \in 1 .. a
      BY <1>1, <2>1
    <3>2. t[m] = temp[m]
      BY <1>12, <3>1 DEF Glued, a
    <3>3. temp[m] = rest[m]
      BY <3>1 DEF InField, a, rest
    <3>. QED
      BY <3>2, <3>3
  <2>2. CASE ~(m <= a)
    <3>. DEFINE x == m - a
    <3>5. x \in 1 .. n /\ m = a + x /\ m \in 1 .. l
      BY <1>1, <1>6, <2>2
    <3>. HIDE DEF x
    <3>6. j + x \in 1 .. PageSize
      BY <1>3, <1>6, <3>5, PageSizeIs
    <3>7. p + (j + x) = base + m
      BY <1>1, <1>3, <1>6, <3>5
    <3>1. x \in 1 .. n /\ m = a + x /\ m \in 1 .. l /\ j + x \in 1 .. PageSize /\ p + (j + x) = base + m
      BY <3>5, <3>6, <3>7
    <3>2. t[a + x] = more[x]
      BY <1>11, <1>12, <3>1 DEF Glued, a
    <3>3. more[x] = pages[i][j + x] /\ pages[i][j + x] = s[p + (j + x)]
      BY <1>8, <1>11, <3>1
    <3>4. s[base + m] = rest[m]
      BY <3>1 DEF Within, rest, l
    <3>. QED
      BY <3>1, <3>2, <3>3, <3>4
  <2>. QED
    BY <2>1, <2>2
<1>15. MoreRead(n, t, rest)
  <2>1. Len(t) = Len(temp) + n /\ Len(t) <= Len(rest)
    BY <1>6, <1>13 DEF a, l
  <2>2. \A m \in 1 .. Len(t) : t[m] = rest[m]
    BY <1>13, <1>14
  <2>. QED
    BY <1>6, <1>13, <2>1, <2>2 DEF MoreRead
<1>. QED
  BY <1>15 DEF rest

(* What a turn changes, when it does not and when it does end the field.     *)
Unfinished(n, t) ==
  j' = j + n /\ temp' = t /\ sizes' = sizes /\ record' = record /\ field' = field

Finished(n, t) ==
  /\ j' = j + n /\ temp' = <<>>
  /\ sizes' = IF field = 1 THEN <<Decoded(t), sizes[2]>>
              ELSE IF field = 2 THEN <<sizes[1], Decoded(t)>> ELSE sizes
  /\ record' = IF field = 3 THEN <<t, record[2]>>
               ELSE IF field = 4 THEN <<record[1], t>> ELSE record
  /\ field' = IF field = 2 /\ (sizes'[1] = 0 \/ sizes'[2] = 0) THEN 0 ELSE field + 1

LEMMA ReadFieldIs ==
  ASSUME ReadField
  PROVE  /\ phase = "read" /\ j < PageSize /\ field < 5
         /\ UNCHANGED <<writer, phase, i, found>>
         /\ \E n, t : /\ Turn(n, t)
                      /\ IF Len(t) = FieldSize THEN Finished(n, t) ELSE Unfinished(n, t)
<1>. DEFINE n == Min({FieldSize - Len(temp), PageSize - j})
            t == temp \o SubSeq(Page(i), j + 1, j + n)
<1>1. /\ phase = "read" /\ j < PageSize /\ field < 5
      /\ UNCHANGED <<writer, phase, i, found>>
  BY DEF ReadField
<1>2. Turn(n, t)
  BY DEF Turn
<1>3. CASE Len(t) = FieldSize
  <2>1. Finished(n, t)
    BY <1>3 DEF ReadField, Finished
  <2>. QED
    BY <1>1, <1>2, <1>3, <2>1
<1>4. CASE Len(t) # FieldSize
  <2>1. Unfinished(n, t)
    BY <1>4 DEF ReadField, Unfinished
  <2>. QED
    BY <1>1, <1>2, <1>4, <2>1
<1>. QED
  BY <1>3, <1>4

LEMMA BytesEqual ==
  ASSUME NEW a \in Seq(Nat), NEW b \in Seq(Nat), Len(a) = Len(b), \A m \in 1 .. Len(a) : a[m] = b[m]
  PROVE  a = b
BY SeqEqual

LEMMA ReadFieldStep ==
  ASSUME PagesIInv, ReadField
  PROVE  PagesIInv'
<1>. DEFINE c == Len(found)
            k == c + 1
            rest == Part(entries, k, field)
            K == KeyOf(entries, k)
            V == ValueOf(entries, k)
<1>1. /\ entries \in Seq(Entry) /\ entries' = entries /\ pages' = pages /\ page' = page
      /\ Reading /\ phase = "read" /\ phase' = "read" /\ i' = i /\ found' = found
      /\ j < PageSize /\ field < 5
  BY ReadFieldIs DEF PagesIInv, writer
<1>2. FoundSoFar /\ InField(k) /\ FieldsRead(k)
  BY <1>1 DEF Reading
<1>3. PICK s, start : Layout(s, start) /\ AtPlace(start)
  BY <1>1 DEF Reading
<1>4. field \in 0 .. 4 /\ field # 5 /\ k \in Nat \ {0}
  BY <1>1, <1>2 DEF InField, FoundSoFar
<1>5. PICK base : Within(s, start, base)
  BY <1>1, <1>2, <1>3, <1>4, FieldWithin
<1>6. FieldSize = Len(rest)
  BY <1>1, <1>2, <1>4, FieldSizeIs
<1>7. PICK n, t : /\ Turn(n, t)
                  /\ IF Len(t) = Len(rest) THEN Finished(n, t) ELSE Unfinished(n, t)
  BY <1>6, ReadFieldIs
<1>8. MoreRead(n, t, rest)
  BY <1>1, <1>2, <1>3, <1>4, <1>5, <1>6, <1>7, TurnReads
<1>9. /\ K \in Seq(Nat) /\ Len(K) \in Nat \ {0} /\ V \in Seq(Nat) /\ Len(V) \in Nat \ {0}
  BY <1>1, <1>4, KeysAndValues
<1>10. /\ base \in Nat /\ base = start[c] + Before(entries, k, field)
       /\ (i - 1) * PageSize + j = base + Len(temp)
       /\ Len(rest) \in Nat \ {0} /\ rest \in Seq(Nat)
  BY <1>5 DEF Within
<1>11. /\ n \in Nat /\ j + n <= PageSize /\ t \in Seq(Nat) /\ Len(t) = Len(temp) + n /\ Len(t) <= Len(rest)
       /\ (\A m \in 1 .. Len(t) : t[m] = rest[m]) /\ Len(t) \in Nat
  BY <1>8 DEF MoreRead
<1>12. /\ sizes \in Nat \X Nat /\ record \in Seq(Nat) \X Seq(Nat)
       /\ (field >= 2 => sizes[1] = Len(K)) /\ (field >= 3 => sizes[2] = Len(V))
       /\ (field >= 4 => record[1] = K)
  BY <1>2 DEF FieldsRead
<1>13. i \in 1 .. PageCount /\ j \in 0 .. PageSize /\ (i - 1) * PageSize \in Nat /\ Len(temp) \in Nat
  <2>1. i \in 1 .. PageCount /\ j \in 0 .. PageSize /\ i - 1 \in Nat
    BY <1>3, SSTablePagesAssumption DEF AtPlace
  <2>2. Len(temp) \in Nat
    BY <1>2 DEF InField
  <2>. QED
    BY <2>1, <2>2, PageEnds
<1>14. (Layout(s, start) /\ FoundSoFar)'
  BY <1>1, <1>2, <1>3 DEF Layout, FoundSoFar
<1>15. ((i - 1) * PageSize + j)' = base + Len(t) /\ j' \in 0 .. PageSize
  <2>. DEFINE p == (i - 1) * PageSize
  <2>1. j' = j + n /\ p' = p
    BY <1>1, <1>7 DEF Finished, Unfinished
  <2>2. p + j = base + Len(temp) /\ p \in Nat
    BY <1>10, <1>13
  <2>. HIDE DEF p
  <2>3. p + (j + n) = base + Len(t)
    <3>. DEFINE a == Len(temp)
                b == Len(t)
    <3>1. a \in Nat /\ b = a + n /\ n \in Nat /\ base \in Nat /\ p + j = base + a /\ p \in Nat
      BY <1>10, <1>11, <1>13, <2>2
    <3>2. j \in Nat
      BY <1>13, PageSizeIs
    <3>. HIDE DEF a, b
    <3>3. p + (j + n) = base + b
      BY <3>1, <3>2
    <3>. QED
      BY <3>3 DEF b
  <2>4. j + n \in 0 .. PageSize
    BY <1>11, <1>13, PageSizeIs
  <2>. QED
    BY <2>1, <2>3, <2>4 DEF p
<1>. HIDE DEF rest, K, V
<1>16. CASE Len(t) # Len(rest)
  <2>1. /\ temp' = t /\ sizes' = sizes /\ record' = record /\ field' = field
    BY <1>7, <1>16 DEF Unfinished
  <2>2. (InField(k))'
    <3>1. Len(t) < Len(rest)
      BY <1>10, <1>11, <1>16
    <3>2. rest' = rest /\ k' = k
      BY <1>1, <2>1 DEF rest
    <3>3. Len(temp') < Len(Part(entries', k', field'))
      BY <1>1, <2>1, <3>1 DEF rest
    <3>4. \A m \in 1 .. Len(temp') : temp'[m] = Part(entries', k', field')[m]
      BY <1>1, <1>11, <2>1 DEF rest
    <3>5. field' \in 0 .. 5 /\ field' # 5 /\ temp' \in Seq(Nat)
      BY <1>4, <1>11, <2>1
    <3>. QED
      BY <3>3, <3>4, <3>5 DEF InField
  <2>3. (FieldsRead(k))'
    BY <1>1, <1>2, <2>1 DEF FieldsRead
  <2>4. (AtPlace(start))'
    <3>1. start[c] + Before(entries, k, field) + Len(t) = base + Len(t)
      BY <1>10
    <3>. QED
      BY <1>1, <1>13, <1>15, <2>1, <3>1 DEF AtPlace
  <2>5. Reading'
    BY <1>1, <1>14, <2>2, <2>3, <2>4 DEF Reading
  <2>. QED
    BY <1>1, <2>5 DEF PagesIInv
<1>17. CASE Len(t) = Len(rest)
  <2>1. Finished(n, t)
    BY <1>7, <1>17
  <2>2. t = rest
    BY <1>10, <1>11, <1>17, BytesEqual
  <2>3. /\ sizes' \in Nat \X Nat /\ record' \in Seq(Nat) \X Seq(Nat)
        /\ field' = field + 1
        /\ (field + 1 >= 2 => sizes'[1] = Len(K)) /\ (field + 1 >= 3 => sizes'[2] = Len(V))
        /\ (field + 1 >= 4 => record'[1] = K) /\ (field + 1 = 5 => record'[2] = V)
    <3>1. CASE field = 0
      <4>1. sizes' = sizes /\ record' = record /\ field' = field + 1
        BY <2>1, <3>1 DEF Finished
      <4>. QED
        BY <1>12, <3>1, <4>1
    <3>2. CASE field = 1
      <4>1. sizes' = <<Decoded(t), sizes[2]>> /\ record' = record /\ field' = field + 1
        BY <2>1, <3>2 DEF Finished
      <4>2. rest = Number(Len(K))
        BY <3>2 DEF rest, Part, K
      <4>3. Decoded(t) = Len(K)
        BY <1>9, <2>2, <4>2, NumberIs
      <4>. QED
        BY <1>9, <1>12, <3>2, <4>1, <4>3
    <3>3. CASE field = 2
      <4>1. sizes' = <<sizes[1], Decoded(t)>> /\ record' = record
            /\ field' = IF sizes'[1] = 0 \/ sizes'[2] = 0 THEN 0 ELSE field + 1
        BY <2>1, <3>3 DEF Finished
      <4>2. rest = Number(Len(V))
        BY <3>3 DEF rest, Part, V
      <4>3. Decoded(t) = Len(V) /\ sizes[1] = Len(K)
        BY <1>9, <1>12, <2>2, <3>3, <4>2, NumberIs
      <4>4. field' = field + 1
        BY <1>9, <4>1, <4>3
      <4>. QED
        BY <1>9, <1>12, <3>3, <4>1, <4>3, <4>4
    <3>4. CASE field = 3
      <4>1. sizes' = sizes /\ record' = <<t, record[2]>> /\ field' = field + 1
        BY <2>1, <3>4 DEF Finished
      <4>2. rest = K
        BY <3>4 DEF rest, Part, K
      <4>3. record[2] \in Seq(Nat)
        BY <1>12
      <4>4. record' \in Seq(Nat) \X Seq(Nat)
        BY <1>9, <2>2, <4>1, <4>2, <4>3
      <4>. QED
        BY <1>12, <2>2, <3>4, <4>1, <4>2, <4>4
    <3>5. CASE field = 4
      <4>1. sizes' = sizes /\ record' = <<record[1], t>> /\ field' = field + 1
        BY <2>1, <3>5 DEF Finished
      <4>2. rest = V
        BY <3>5 DEF rest, Part, V
      <4>3. record[1] \in Seq(Nat)
        BY <1>12
      <4>4. record' \in Seq(Nat) \X Seq(Nat)
        BY <1>9, <2>2, <4>1, <4>2, <4>3
      <4>. QED
        BY <1>12, <2>2, <3>5, <4>1, <4>2, <4>4
    <3>. QED
      BY <1>4, <3>1, <3>2, <3>3, <3>4, <3>5
  <2>4. temp' = <<>> /\ Len(temp') = 0
    BY <2>1 DEF Finished
  <2>5. (InField(k))'
    <3>1. field' \in 0 .. 5 /\ temp' \in Seq(Nat) /\ k' = k
      BY <1>1, <1>4, <2>3, <2>4
    <3>2. field' # 5 => Len(Part(entries, k, field')) \in Nat \ {0}
      BY <1>1, <1>4, <3>1, RecordIs
    <3>3. field' # 5 => Len(temp') < Len(Part(entries', k', field'))
      BY <1>1, <2>4, <3>1, <3>2
    <3>. QED
      BY <2>4, <3>1, <3>3 DEF InField
  <2>6. (FieldsRead(k))'
    BY <1>1, <2>3 DEF FieldsRead, K, V
  <2>7. (AtPlace(start))'
    <3>1. Before(entries, k, field) + Len(rest) = Before(entries, k, field + 1) /\ Before(entries, k, field) \in Nat
      BY <1>1, <1>4, RecordIs DEF rest
    <3>2. start[c] \in Nat
      <4>1. Laid(entries, s, start, Len(entries) + 1) /\ c \in 0 .. Len(entries) + 1
        BY <1>2, <1>3, <1>1 DEF Layout, FoundSoFar
      <4>. QED
        BY <4>1 DEF Laid
    <3>3. base + Len(t) = start[c] + Before(entries, k, field + 1) + 0
      <4>. DEFINE v == Before(entries, k, field)
                  w == Before(entries, k, field + 1)
                  l == Len(rest)
                  x == start[c]
      <4>1. base = x + v /\ v + l = w /\ v \in Nat /\ l \in Nat /\ x \in Nat /\ Len(t) = l
        BY <1>10, <1>17, <3>1, <3>2
      <4>. HIDE DEF v, w, l, x
      <4>2. base + Len(t) = x + w + 0
        BY <4>1
      <4>. QED
        BY <4>2 DEF x, w
    <3>. QED
      BY <1>1, <1>13, <1>15, <2>3, <2>4, <3>3 DEF AtPlace
  <2>8. Reading'
    BY <1>1, <1>14, <2>5, <2>6, <2>7 DEF Reading
  <2>. QED
    BY <1>1, <2>8 DEF PagesIInv
<1>. QED
  BY <1>16, <1>17

-----------------------------------------------------------------------------
(* The steps together.                                                       *)

LEMMA PagesIdle ==
  ASSUME PagesIInv, UNCHANGED pagesVars
  PROVE  PagesIInv'
<1>1. /\ entries' = entries /\ pages' = pages /\ page' = page /\ phase' = phase
      /\ i' = i /\ j' = j /\ field' = field /\ temp' = temp /\ sizes' = sizes
      /\ record' = record /\ found' = found
  BY DEF pagesVars
<1>2. NotBegun' <=> NotBegun
  BY <1>1 DEF NotBegun
<1>3. Writing' <=> Writing
  BY <1>1, <1>2 DEF Writing
<1>4. Reading' <=> Reading
  BY <1>1 DEF Reading, FoundSoFar, InField, FieldsRead, Layout, AtPlace
<1>5. Expected' = Expected
  BY <1>1 DEF Expected
<1>. QED
  BY <1>1, <1>3, <1>4, <1>5 DEF PagesIInv

LEMMA PagesStep ==
  ASSUME PagesIInv, [PagesNext]_pagesVars
  PROVE  PagesIInv'
<1>1. CASE \E e \in Entry : PackEntry(e)
  BY <1>1, PackStep
<1>2. CASE Close
  BY <1>2, CloseStep
<1>3. CASE NextPage
  BY <1>3, NextPageStep
<1>4. CASE ReadField
  BY <1>4, ReadFieldStep
<1>5. CASE FinishEntry
  BY <1>5, FinishStep
<1>6. CASE UNCHANGED pagesVars
  BY <1>6, PagesIdle
<1>. QED
  BY <1>1, <1>2, <1>3, <1>4, <1>5, <1>6 DEF PagesNext, Read

LEMMA FoundIsHead ==
  ASSUME FoundSoFar, entries \in Seq(Entry)
  PROVE  IsPrefix(found, Expected)
<1>. DEFINE T == Seq(Nat) \X Seq(Nat)
            n == Len(entries)
            F(k) == <<KeyBytes(entries[k]), ValueBytes(entries[k])>>
<1>1. n \in Nat /\ DOMAIN entries = 1 .. n
  OBVIOUS
<1>2. \A k \in 1 .. n : F(k) \in T
  <2>. SUFFICES ASSUME NEW k \in 1 .. n PROVE F(k) \in T
    OBVIOUS
  <2>1. entries[k] \in Entry
    OBVIOUS
  <2>2. KeyBytes(entries[k]) \in Seq(Nat) /\ ValueBytes(entries[k]) \in Seq(Nat)
    BY <2>1, EntryBytes
  <2>. QED
    BY <2>2
<1>3. found \in Seq(T) /\ Len(found) <= n /\ \A k \in 1 .. Len(found) : found[k] = F(k)
  BY <1>1 DEF FoundSoFar, KeyOf, ValueOf
<1>4. Expected = [k \in 1 .. n |-> F(k)]
  BY <1>1 DEF Expected
<1>. HIDE DEF T, F, n
<1>5. Expected \in [1 .. n -> T] /\ \A k \in 1 .. n : Expected[k] = F(k)
  BY <1>2, <1>4
<1>6. Expected \in Seq(T) /\ Len(Expected) = n
  BY <1>1, <1>5, FunctionSeq
<1>7. Len(found) \in Nat
  BY <1>3
<1>8. \A k \in 1 .. Len(found) : found[k] = Expected[k]
  BY <1>1, <1>3, <1>5, <1>7
<1>. QED
  BY <1>3, <1>6, <1>8, PrefixIs

LEMMA NothingFound ==
  ASSUME found = <<>>, entries \in Seq(Entry)
  PROVE  IsPrefix(found, Expected)
<1>1. FoundSoFar
  BY DEF FoundSoFar
<1>. QED
  BY <1>1, FoundIsHead

LEMMA ExpectedIsHead ==
  ASSUME found = Expected, entries \in Seq(Entry)
  PROVE  IsPrefix(found, Expected)
<1>. DEFINE T == Seq(Nat) \X Seq(Nat)
            n == Len(entries)
            F(k) == <<KeyBytes(entries[k]), ValueBytes(entries[k])>>
<1>1. n \in Nat /\ DOMAIN entries = 1 .. n
  OBVIOUS
<1>2. \A k \in 1 .. n : F(k) \in T
  <2>. SUFFICES ASSUME NEW k \in 1 .. n PROVE F(k) \in T
    OBVIOUS
  <2>1. entries[k] \in Entry
    OBVIOUS
  <2>2. KeyBytes(entries[k]) \in Seq(Nat) /\ ValueBytes(entries[k]) \in Seq(Nat)
    BY <2>1, EntryBytes
  <2>. QED
    BY <2>2
<1>3. Expected = [k \in 1 .. n |-> F(k)]
  BY <1>1 DEF Expected
<1>. HIDE DEF T, F, n
<1>4. Expected \in [1 .. n -> T]
  BY <1>2, <1>3
<1>5. Expected \in Seq(T)
  BY <1>1, <1>4, FunctionSeq
<1>. QED
  BY <1>5, PrefixIs

LEMMA RoundTripHolds ==
  ASSUME PagesIInv
  PROVE  RoundTrip
<1>1. entries \in Seq(Entry) /\ phase \in {"write", "read", "done", "panicked"}
  BY DEF PagesIInv
<1>2. CASE phase = "write"
  <2>1. found = <<>>
    BY <1>2 DEF PagesIInv, Writing, NotBegun
  <2>. QED
    BY <1>1, <1>2, <2>1, NothingFound DEF RoundTrip
<1>3. CASE phase = "read"
  <2>1. FoundSoFar
    BY <1>3 DEF PagesIInv, Reading
  <2>. QED
    BY <1>1, <1>3, <2>1, FoundIsHead DEF RoundTrip
<1>4. CASE phase = "done"
  <2>1. found = Expected
    BY <1>4 DEF PagesIInv
  <2>. QED
    BY <1>1, <1>4, <2>1, ExpectedIsHead DEF RoundTrip
<1>5. CASE phase = "panicked"
  <2>1. found = <<>>
    BY <1>5 DEF PagesIInv
  <2>. QED
    BY <1>1, <1>5, <2>1, NothingFound DEF RoundTrip
<1>. QED
  BY <1>1, <1>2, <1>3, <1>4, <1>5

(* Whatever the sizes of a page, of a block and of the entries: what a parse *)
(* of the pages that flush wrote has found is the head of what was flushed,  *)
(* and all of it once the parse is over.                                     *)
THEOREM PagesRoundTrip == PagesSpec => []RoundTrip
<1>1. PagesInit => PagesIInv
  BY PagesStart
<1>2. PagesIInv /\ [PagesNext]_pagesVars => PagesIInv'
  BY PagesStep
<1>3. PagesIInv => RoundTrip
  BY RoundTripHolds
<1>. QED
  BY <1>1, <1>2, <1>3, PTL DEF PagesSpec

-----------------------------------------------------------------------------
(* The subtrees and their codes.                                             *)

Heads(a, b) == Len(a) <= Len(b) /\ \A m \in 1 .. Len(a) : a[m] = b[m]

(* No code is the head of another.                                           *)
PrefixFree(f) == \A c, e \in DOMAIN f : c # e => ~Heads(f[c], f[e])

Subtrees == [weight : Nat, codes : UNION {[S -> Seq(Nat)] : S \in SUBSET Chars}]

(* The subtrees of vec share no character; together they have those of S.    *)
Grove(vec, S) ==
  /\ vec \in Seq(Subtrees)
  /\ \A k \in 1 .. Len(vec) : PrefixFree(vec[k].codes) /\ DOMAIN vec[k].codes \subseteq S
  /\ \A k, l \in 1 .. Len(vec) : k # l => DOMAIN vec[k].codes \cap DOMAIN vec[l].codes = {}
  /\ \A c \in S : \E k \in 1 .. Len(vec) : c \in DOMAIN vec[k].codes

LEMMA LeastFirst ==
  ASSUME NEW vec \in Seq(Subtrees), Len(vec) >= 1
  PROVE  FirstMin(vec) \in 1 .. Len(vec)
<1>. DEFINE D == 1 .. Len(vec)
            W == {vec[k].weight : k \in D}
            w == LeastOf(W)
            K == {k \in D : vec[k].weight = w}
            x == LeastOf(K)
<1>1. DOMAIN vec = D /\ 1 \in D /\ \A k \in D : vec[k].weight \in Nat
  <2>1. \A k \in D : vec[k] \in Subtrees
    OBVIOUS
  <2>. QED
    BY <2>1 DEF Subtrees
<1>. HIDE DEF D
<1>2. w \in W /\ \A y \in W : w <= y
  <2>1. W \in SUBSET Nat /\ W # {}
    BY <1>1
  <2>. HIDE DEF W
  <2>. QED
    BY <2>1, LeastExists
<1>3. \A k \in D : w <= vec[k].weight
  BY <1>2
<1>4. K \in SUBSET Nat /\ K # {}
  <2>1. D \in SUBSET Nat
    BY DEF D
  <2>. HIDE DEF w
  <2>. QED
    BY <1>2, <2>1
<1>5. x \in K /\ \A y \in K : x <= y
  <2>. HIDE DEF K
  <2>. QED
    BY <1>4, LeastExists
<1>. HIDE DEF x, w
<1>6. x \in D /\ \A l \in D : vec[x].weight <= vec[l].weight
  BY <1>3, <1>5
<1>7. \A l \in 1 .. x - 1 : vec[x].weight < vec[l].weight
  <2>. SUFFICES ASSUME NEW l \in 1 .. x - 1 PROVE vec[x].weight < vec[l].weight
    OBVIOUS
  <2>1. l \in D /\ l < x
    BY <1>6 DEF D
  <2>2. l \notin K
    <3>1. x \in Nat /\ l \in Nat
      BY <1>6 DEF D
    <3>. QED
      BY <1>5, <2>1, <3>1
  <2>3. vec[l].weight # w /\ vec[x].weight = w /\ w <= vec[l].weight /\ vec[l].weight \in Nat /\ w \in Nat
    BY <1>1, <1>3, <1>5, <2>1, <2>2
  <2>. QED
    BY <2>3
<1>8. FirstMin(vec) \in D
  BY <1>1, <1>6, <1>7 DEF FirstMin
<1>. QED
  BY <1>8 DEF D

LEMMA RemovedIs ==
  ASSUME NEW T, NEW s \in Seq(T), NEW m \in 1 .. Len(s)
  PROVE  /\ RemoveAt(s, m) \in Seq(T) /\ Len(RemoveAt(s, m)) = Len(s) - 1
         /\ \A k \in 1 .. Len(s) - 1 : RemoveAt(s, m)[k] = IF k < m THEN s[k] ELSE s[k + 1]
<1>. DEFINE a == SubSeq(s, 1, m - 1)
            b == SubSeq(s, m + 1, Len(s))
            n == Len(s)
<1>1. n \in Nat /\ m \in Nat /\ m >= 1 /\ m <= n
  OBVIOUS
<1>2. a \in Seq(T) /\ Len(a) = m - 1 /\ \A k \in 1 .. m - 1 : a[k] = s[k]
  OBVIOUS
<1>3. b \in Seq(T) /\ Len(b) = n - m /\ \A k \in 1 .. n - m : b[k] = s[m + k]
  <2>. DEFINE d == n - m
  <2>1. d \in Nat /\ m + d = Len(s) /\ m + d <= Len(s) /\ m \in Nat
    BY <1>1
  <2>. HIDE DEF d
  <2>2. /\ SubSeq(s, m + 1, m + d) \in Seq(T) /\ Len(SubSeq(s, m + 1, m + d)) = d
        /\ \A k \in 1 .. d : SubSeq(s, m + 1, m + d)[k] = s[m + k]
    BY <2>1, PieceIs
  <2>3. b \in Seq(T) /\ Len(b) = d /\ \A k \in 1 .. d : b[k] = s[m + k]
    BY <2>1, <2>2
  <2>. QED
    BY <2>3 DEF d
<1>4. RemoveAt(s, m) = a \o b
  BY DEF RemoveAt
<1>9. a \in Seq(T) /\ b \in Seq(T)
  BY <1>2, <1>3
<1>. HIDE DEF a, b, n
<1>5. /\ a \o b \in Seq(T) /\ Len(a \o b) = Len(a) + Len(b)
      /\ \A k \in 1 .. Len(a) : (a \o b)[k] = a[k]
      /\ \A k \in 1 .. Len(b) : (a \o b)[Len(a) + k] = b[k]
  BY ONLY <1>9, Joins
<1>6. Len(a \o b) = n - 1
  BY <1>1, <1>2, <1>3, <1>5
<1>7. ASSUME NEW k \in 1 .. n - 1 PROVE (a \o b)[k] = IF k < m THEN s[k] ELSE s[k + 1]
  <2>1. CASE k < m
    <3>1. k \in 1 .. m - 1
      BY <1>1, <2>1
    <3>. QED
      BY <1>2, <1>5, <2>1, <3>1
  <2>2. CASE ~(k < m)
    <3>1. k - (m - 1) \in 1 .. n - m /\ (m - 1) + (k - (m - 1)) = k /\ m + (k - (m - 1)) = k + 1
      BY <1>1, <2>2
    <3>2. (a \o b)[(m - 1) + (k - (m - 1))] = b[k - (m - 1)] /\ b[k - (m - 1)] = s[m + (k - (m - 1))]
      BY <1>2, <1>3, <1>5, <3>1
    <3>. QED
      BY <2>2, <3>1, <3>2
  <2>. QED
    BY <2>1, <2>2
<1>. QED
  BY <1>4, <1>5, <1>6, <1>7 DEF n

LEMMA AppendedIs ==
  ASSUME NEW T, NEW s \in Seq(T), NEW x \in T
  PROVE  /\ Append(s, x) \in Seq(T) /\ Len(Append(s, x)) = Len(s) + 1
         /\ \A k \in 1 .. Len(s) : Append(s, x)[k] = s[k]
         /\ Append(s, x)[Len(s) + 1] = x
OBVIOUS

LEMMA SubtreeIs ==
  ASSUME NEW v \in Subtrees
  PROVE  /\ v.weight \in Nat /\ DOMAIN v.codes \subseteq Chars
         /\ \A c \in DOMAIN v.codes : v.codes[c] \in Seq(Nat)
<1>1. v.weight \in Nat /\ v.codes \in UNION {[S -> Seq(Nat)] : S \in SUBSET Chars}
  BY DEF Subtrees
<1>2. PICK S \in SUBSET Chars : v.codes \in [S -> Seq(Nat)]
  BY <1>1
<1>. QED
  BY <1>1, <1>2

LEMMA GroveLess ==
  ASSUME NEW vec, NEW S, Grove(vec, S), NEW m \in 1 .. Len(vec)
  PROVE  /\ Grove(RemoveAt(vec, m), S \ DOMAIN vec[m].codes)
         /\ Len(RemoveAt(vec, m)) = Len(vec) - 1
<1>. DEFINE r == RemoveAt(vec, m)
            n == Len(vec)
            h == [k \in 1 .. n - 1 |-> IF k < m THEN k ELSE k + 1]
            R == S \ DOMAIN vec[m].codes
<1>1. vec \in Seq(Subtrees) /\ n \in Nat
  <2>1. vec \in Seq(Subtrees)
    BY DEF Grove
  <2>. QED
    BY <2>1
<1>2. /\ r \in Seq(Subtrees) /\ Len(r) = n - 1
      /\ \A k \in 1 .. n - 1 : r[k] = IF k < m THEN vec[k] ELSE vec[k + 1]
  BY <1>1, RemovedIs
<1>. HIDE DEF r, n
<1>3. /\ \A k \in 1 .. n - 1 : h[k] \in 1 .. n /\ h[k] # m /\ r[k] = vec[h[k]]
      /\ \A k, l \in 1 .. n - 1 : k # l => h[k] # h[l]
      /\ \A l \in 1 .. n : l # m => \E k \in 1 .. n - 1 : h[k] = l
  <2>1. m \in 1 .. n
    BY DEF n
  <2>2. \A k \in 1 .. n - 1 : h[k] = IF k < m THEN k ELSE k + 1
    OBVIOUS
  <2>. HIDE DEF h
  <2>3. \A k \in 1 .. n - 1 : h[k] \in 1 .. n /\ h[k] # m
    BY <1>1, <2>1, <2>2
  <2>4. \A k \in 1 .. n - 1 : r[k] = vec[h[k]]
    BY <1>2, <2>2
  <2>5. \A k, l \in 1 .. n - 1 : k # l => h[k] # h[l]
    BY <1>1, <2>1, <2>2
  <2>6. ASSUME NEW l \in 1 .. n, l # m PROVE \E k \in 1 .. n - 1 : h[k] = l
    <3>1. CASE l < m
      <4>1. l \in 1 .. n - 1
        BY <1>1, <2>1, <3>1
      <4>. QED
        BY <2>2, <3>1, <4>1
    <3>2. CASE ~(l < m)
      <4>1. l - 1 \in 1 .. n - 1 /\ ~(l - 1 < m) /\ (l - 1) + 1 = l
        BY <1>1, <2>1, <2>6, <3>2
      <4>2. h[l - 1] = l
        BY <2>2, <4>1
      <4>. QED
        BY <4>1, <4>2
    <3>. QED
      BY <3>1, <3>2
  <2>. QED
    BY <2>3, <2>4, <2>5, <2>6
<1>. HIDE DEF h
<1>4. /\ \A k \in 1 .. n : PrefixFree(vec[k].codes) /\ DOMAIN vec[k].codes \subseteq S
      /\ \A k, l \in 1 .. n : k # l => DOMAIN vec[k].codes \cap DOMAIN vec[l].codes = {}
      /\ \A c \in S : \E k \in 1 .. n : c \in DOMAIN vec[k].codes
  BY DEF Grove, n
<1>5. m \in 1 .. n
  BY DEF n
<1>6. \A k \in 1 .. Len(r) : PrefixFree(r[k].codes) /\ DOMAIN r[k].codes \subseteq R
  <2>. SUFFICES ASSUME NEW k \in 1 .. n - 1
                PROVE  PrefixFree(r[k].codes) /\ DOMAIN r[k].codes \subseteq R
    BY <1>2
  <2>1. h[k] \in 1 .. n /\ h[k] # m /\ r[k] = vec[h[k]]
    BY <1>3
  <2>. QED
    BY <1>4, <1>5, <2>1
<1>7. ASSUME NEW k \in 1 .. Len(r), NEW l \in 1 .. Len(r), k # l
      PROVE  DOMAIN r[k].codes \cap DOMAIN r[l].codes = {}
  <2>1. h[k] \in 1 .. n /\ r[k] = vec[h[k]] /\ h[l] \in 1 .. n /\ r[l] = vec[h[l]] /\ h[k] # h[l]
    BY <1>2, <1>3, <1>7
  <2>. QED
    BY <1>4, <2>1
<1>8. ASSUME NEW c \in R PROVE \E k \in 1 .. Len(r) : c \in DOMAIN r[k].codes
  <2>1. PICK l \in 1 .. n : c \in DOMAIN vec[l].codes
    BY <1>4
  <2>2. l # m
    BY <2>1
  <2>3. PICK k \in 1 .. n - 1 : h[k] = l
    BY <1>3, <2>2
  <2>. QED
    BY <1>2, <1>3, <2>1, <2>3
<1>9. Grove(r, R)
  <2>. HIDE DEF R
  <2>. QED
    BY <1>2, <1>6, <1>7, <1>8 DEF Grove
<1>. QED
  BY <1>2, <1>9 DEF r, n

LEMMA GroveMore ==
  ASSUME NEW vec, NEW S, Grove(vec, S), NEW v \in Subtrees, PrefixFree(v.codes),
         S \cap DOMAIN v.codes = {}
  PROVE  Grove(Append(vec, v), S \cup DOMAIN v.codes) /\ Len(Append(vec, v)) = Len(vec) + 1
<1>. DEFINE r == Append(vec, v)
            n == Len(vec)
            R == S \cup DOMAIN v.codes
<1>1. vec \in Seq(Subtrees) /\ n \in Nat
  <2>1. vec \in Seq(Subtrees)
    BY DEF Grove
  <2>. QED
    BY <2>1
<1>2. /\ r \in Seq(Subtrees) /\ Len(r) = n + 1 /\ r[n + 1] = v
      /\ \A k \in 1 .. n : r[k] = vec[k]
  BY <1>1, AppendedIs
<1>. HIDE DEF r, n
<1>3. \A k \in 1 .. n + 1 : k \in 1 .. n \/ k = n + 1
  BY <1>1
<1>4. /\ \A k \in 1 .. n : PrefixFree(vec[k].codes) /\ DOMAIN vec[k].codes \subseteq S
      /\ \A k, l \in 1 .. n : k # l => DOMAIN vec[k].codes \cap DOMAIN vec[l].codes = {}
      /\ \A c \in S : \E k \in 1 .. n : c \in DOMAIN vec[k].codes
  BY DEF Grove, n
<1>5. ASSUME NEW k \in 1 .. Len(r) PROVE PrefixFree(r[k].codes) /\ DOMAIN r[k].codes \subseteq R
  <2>1. CASE k \in 1 .. n
    BY <1>2, <1>4, <2>1
  <2>2. CASE k = n + 1
    BY <1>2, <2>2
  <2>. QED
    BY <1>2, <1>3, <2>1, <2>2
<1>6. ASSUME NEW k \in 1 .. Len(r), NEW l \in 1 .. Len(r), k # l
      PROVE  DOMAIN r[k].codes \cap DOMAIN r[l].codes = {}
  <2>1. CASE k \in 1 .. n /\ l \in 1 .. n
    BY <1>2, <1>4, <1>6, <2>1
  <2>2. CASE k \in 1 .. n /\ l = n + 1
    BY <1>2, <1>4, <2>2
  <2>3. CASE k = n + 1 /\ l \in 1 .. n
    BY <1>2, <1>4, <2>3
  <2>. QED
    BY <1>2, <1>3, <1>6, <2>1, <2>2, <2>3
<1>7. ASSUME NEW c \in R PROVE \E k \in 1 .. Len(r) : c \in DOMAIN r[k].codes
  <2>1. CASE c \in S
    <3>1. PICK k \in 1 .. n : c \in DOMAIN vec[k].codes
      BY <1>4, <2>1
    <3>2. k \in 1 .. n + 1
      BY <1>1
    <3>. QED
      BY <1>2, <3>1, <3>2
  <2>2. CASE c \in DOMAIN v.codes
    <3>1. n + 1 \in 1 .. n + 1
      BY <1>1
    <3>. QED
      BY <1>2, <2>2, <3>1
  <2>. QED
    BY <2>1, <2>2
<1>8. Grove(r, R)
  <2>. HIDE DEF R
  <2>. QED
    BY <1>2, <1>5, <1>6, <1>7 DEF Grove
<1>. QED
  BY <1>2, <1>8 DEF r, n

LEMMA PutBefore ==
  ASSUME NEW x \in Nat, NEW a \in Seq(Nat)
  PROVE  /\ <<x>> \o a \in Seq(Nat) /\ Len(<<x>> \o a) = Len(a) + 1
         /\ (<<x>> \o a)[1] = x
         /\ \A m \in 1 .. Len(a) : (<<x>> \o a)[m + 1] = a[m]
OBVIOUS

LEMMA HeadsBehind ==
  ASSUME NEW x \in Nat, NEW a \in Seq(Nat), NEW b \in Seq(Nat), Heads(<<x>> \o a, <<x>> \o b)
  PROVE  Heads(a, b)
<1>. DEFINE f == <<x>> \o a
            g == <<x>> \o b
<1>1. /\ Len(f) = Len(a) + 1 /\ Len(g) = Len(b) + 1 /\ Len(a) \in Nat /\ Len(b) \in Nat
      /\ \A m \in 1 .. Len(a) : f[m + 1] = a[m]
      /\ \A m \in 1 .. Len(b) : g[m + 1] = b[m]
  BY PutBefore
<1>2. Len(f) <= Len(g) /\ \A m \in 1 .. Len(f) : f[m] = g[m]
  BY DEF Heads
<1>. HIDE DEF f, g
<1>3. \A m \in 1 .. Len(a) : m + 1 \in 1 .. Len(f) /\ m \in 1 .. Len(b)
  BY <1>1, <1>2
<1>4. Len(a) <= Len(b)
  BY <1>1, <1>2
<1>5. \A m \in 1 .. Len(a) : a[m] = b[m]
  <2>. SUFFICES ASSUME NEW m \in 1 .. Len(a) PROVE a[m] = b[m]
    OBVIOUS
  <2>1. m + 1 \in 1 .. Len(f) /\ m \in 1 .. Len(b)
    BY <1>3
  <2>2. f[m + 1] = g[m + 1]
    BY <1>2, <2>1
  <2>3. f[m + 1] = a[m] /\ g[m + 1] = b[m]
    BY <1>1, <2>1
  <2>. QED
    BY <2>2, <2>3
<1>. QED
  BY <1>4, <1>5 DEF Heads

LEMMA HeadsOther ==
  ASSUME NEW x \in Nat, NEW y \in Nat, x # y, NEW a \in Seq(Nat), NEW b \in Seq(Nat)
  PROVE  ~Heads(<<x>> \o a, <<y>> \o b)
<1>. DEFINE f == <<x>> \o a
            g == <<y>> \o b
<1>1. f[1] = x /\ g[1] = y /\ 1 \in 1 .. Len(f)
  BY PutBefore
<1>. HIDE DEF f, g
<1>. QED
  BY <1>1 DEF Heads, f, g

LEMMA JoinedIs ==
  ASSUME NEW u \in Subtrees, NEW v \in Subtrees, PrefixFree(u.codes), PrefixFree(v.codes),
         DOMAIN u.codes \cap DOMAIN v.codes = {}
  PROVE  /\ Joined(u, v) \in Subtrees /\ PrefixFree(Joined(u, v).codes)
         /\ DOMAIN Joined(u, v).codes = DOMAIN u.codes \cup DOMAIN v.codes
<1>. DEFINE A == DOMAIN u.codes
            B == DOMAIN v.codes
            f == Joined(u, v).codes
            w == u.weight + v.weight
<1>1. /\ u.weight \in Nat /\ v.weight \in Nat /\ A \subseteq Chars /\ B \subseteq Chars
      /\ \A c \in A : u.codes[c] \in Seq(Nat)
      /\ \A c \in B : v.codes[c] \in Seq(Nat)
  BY SubtreeIs
<1>2. f = [c \in A \cup B |-> IF c \in A THEN <<0>> \o u.codes[c] ELSE <<1>> \o v.codes[c]]
  BY DEF Joined
<1>3. Joined(u, v) = [weight |-> w, codes |-> f]
  BY DEF Joined
<1>4. w \in Nat
  BY <1>1
<1>. HIDE DEF f, A, B, w
<1>5. /\ DOMAIN f = A \cup B
      /\ \A c \in A : f[c] = <<0>> \o u.codes[c]
      /\ \A c \in B : c \notin A => f[c] = <<1>> \o v.codes[c]
  BY <1>2
<1>6. f \in [A \cup B -> Seq(Nat)]
  <2>1. \A c \in A : <<0>> \o u.codes[c] \in Seq(Nat)
    BY <1>1, PutBefore
  <2>2. \A c \in B : <<1>> \o v.codes[c] \in Seq(Nat)
    BY <1>1, PutBefore
  <2>. QED
    BY <1>2, <2>1, <2>2
<1>7. Joined(u, v) \in Subtrees
  <2>1. f \in UNION {[S -> Seq(Nat)] : S \in SUBSET Chars}
    BY <1>1, <1>6
  <2>. QED
    BY <1>3, <1>4, <2>1 DEF Subtrees
<1>8. PrefixFree(f)
  <2>. SUFFICES ASSUME NEW c \in A \cup B, NEW e \in A \cup B, c # e
                PROVE  ~Heads(f[c], f[e])
    BY <1>5 DEF PrefixFree
  <2>0. A \cap B = {}
    BY DEF A, B
  <2>1. CASE c \in A /\ e \in A
    <3>1. ~Heads(u.codes[c], u.codes[e])
      BY <2>1 DEF PrefixFree, A
    <3>. QED
      BY <1>1, <1>5, <2>1, <3>1, HeadsBehind
  <2>2. CASE c \in B /\ e \in B
    <3>1. ~Heads(v.codes[c], v.codes[e])
      BY <2>2 DEF PrefixFree, B
    <3>. QED
      BY <1>1, <1>5, <2>0, <2>2, <3>1, HeadsBehind
  <2>3. CASE c \in A /\ e \in B
    <3>1. f[c] = <<0>> \o u.codes[c] /\ f[e] = <<1>> \o v.codes[e]
      BY <1>5, <2>0, <2>3
    <3>2. u.codes[c] \in Seq(Nat) /\ v.codes[e] \in Seq(Nat)
      BY <1>1, <2>3
    <3>. DEFINE g == u.codes[c]
                h == v.codes[e]
    <3>. HIDE DEF g, h
    <3>3. ~Heads(<<0>> \o g, <<1>> \o h)
      BY <3>2, HeadsOther DEF g, h
    <3>. QED
      BY <3>1, <3>3 DEF g, h
  <2>4. CASE c \in B /\ e \in A
    <3>1. f[c] = <<1>> \o v.codes[c] /\ f[e] = <<0>> \o u.codes[e]
      BY <1>5, <2>0, <2>4
    <3>2. v.codes[c] \in Seq(Nat) /\ u.codes[e] \in Seq(Nat)
      BY <1>1, <2>4
    <3>. DEFINE g == v.codes[c]
                h == u.codes[e]
    <3>. HIDE DEF g, h
    <3>3. ~Heads(<<1>> \o g, <<0>> \o h)
      BY <3>2, HeadsOther DEF g, h
    <3>. QED
      BY <3>1, <3>3 DEF g, h
  <2>. QED
    BY <2>1, <2>2, <2>3, <2>4
<1>. QED
  BY <1>5, <1>7, <1>8 DEF f, A, B

(* What a turn of build's loop makes of the subtrees.                        *)
JoinedAs(vec, vec2) ==
  LET m1   == FirstMin(vec)
      rest == RemoveAt(vec, m1)
      m2   == FirstMin(rest)
  IN vec2 = Append(RemoveAt(rest, m2), Joined(vec[m1], rest[m2]))

LEMMA JoinGrove ==
  ASSUME NEW vec, NEW S, Grove(vec, S), Len(vec) > 1, NEW vec2, JoinedAs(vec, vec2)
  PROVE  Grove(vec2, S)
<1>. DEFINE m1 == FirstMin(vec)
            r == RemoveAt(vec, m1)
            m2 == FirstMin(r)
            q == RemoveAt(r, m2)
            u == vec[m1]
            v == r[m2]
            A == DOMAIN u.codes
            B == DOMAIN v.codes
            w == Joined(u, v)
<1>1. vec \in Seq(Subtrees) /\ Len(vec) \in Nat
  <2>1. vec \in Seq(Subtrees)
    BY DEF Grove
  <2>. QED
    BY <2>1
<1>2. m1 \in 1 .. Len(vec)
  <2>1. Len(vec) >= 1
    BY <1>1
  <2>. QED
    BY <1>1, <2>1, LeastFirst
<1>0. vec2 = Append(q, w)
  BY DEF JoinedAs
<1>. HIDE DEF m1
<1>3. Grove(r, S \ A) /\ Len(r) = Len(vec) - 1
  BY <1>2, GroveLess
<1>4. u \in Subtrees /\ PrefixFree(u.codes) /\ A \subseteq S
  <2>1. u \in Subtrees
    BY <1>1, <1>2
  <2>2. PrefixFree(vec[m1].codes) /\ DOMAIN vec[m1].codes \subseteq S
    BY <1>2 DEF Grove
  <2>. QED
    BY <2>1, <2>2
<1>. HIDE DEF r, u
<1>5. r \in Seq(Subtrees) /\ Len(r) >= 1 /\ m2 \in 1 .. Len(r)
  <2>1. r \in Seq(Subtrees)
    BY <1>3 DEF Grove
  <2>2. Len(r) >= 1
    BY <1>1, <1>3
  <2>. QED
    BY <2>1, <2>2, LeastFirst
<1>. HIDE DEF m2
<1>6. Grove(q, (S \ A) \ B)
  BY <1>3, <1>5, GroveLess
<1>7. v \in Subtrees /\ PrefixFree(v.codes) /\ B \subseteq S \ A
  <2>1. v \in Subtrees
    BY <1>5
  <2>2. PrefixFree(r[m2].codes) /\ DOMAIN r[m2].codes \subseteq S \ A
    BY <1>3, <1>5 DEF Grove
  <2>. QED
    BY <2>1, <2>2
<1>. HIDE DEF v, q
<1>8. w \in Subtrees /\ PrefixFree(w.codes) /\ DOMAIN w.codes = A \cup B
  BY <1>4, <1>7, JoinedIs
<1>. HIDE DEF w, A, B
<1>9. Grove(Append(q, w), ((S \ A) \ B) \cup DOMAIN w.codes)
  <2>1. ((S \ A) \ B) \cap DOMAIN w.codes = {}
    BY <1>8
  <2>. QED
    BY <1>6, <1>8, <2>1, GroveMore
<1>10. ((S \ A) \ B) \cup DOMAIN w.codes = S
  BY <1>4, <1>7, <1>8
<1>. QED
  BY <1>0, <1>9, <1>10

LEMMA LeafIs ==
  ASSUME NEW c \in Chars
  PROVE  Leaf(c) \in Subtrees /\ PrefixFree(Leaf(c).codes) /\ DOMAIN Leaf(c).codes = {c}
<1>. DEFINE f == [x \in {c} |-> <<>>]
<1>1. f \in [{c} -> Seq(Nat)] /\ DOMAIN f = {c}
  <2>1. <<>> \in Seq(Nat)
    OBVIOUS
  <2>. QED
    BY <2>1
<1>2. Leaf(c) = [weight |-> Weights[c], codes |-> f] /\ Weights[c] \in Nat
  BY HuffmanCodecAssumption DEF Leaf
<1>. HIDE DEF f
<1>3. Leaf(c) \in Subtrees
  <2>1. f \in UNION {[S -> Seq(Nat)] : S \in SUBSET Chars}
    BY <1>1
  <2>. QED
    BY <1>2, <2>1 DEF Subtrees
<1>. QED
  BY <1>1, <1>2, <1>3 DEF PrefixFree

LEMMA FirstGrove ==
  ASSUME NEW order \in SetToSeqs(Chars)
  PROVE  Grove([k \in DOMAIN order |-> Leaf(order[k])], Chars)
<1>. DEFINE D == 1 .. Cardinality(Chars)
            v == [k \in DOMAIN order |-> Leaf(order[k])]
<1>0. IsFiniteSet(Chars) /\ Cardinality(Chars) \in Nat
  BY HuffmanCodecAssumption, FS_CardinalityType
<1>1. order \in [D -> Chars] /\ \A k, l \in D : k # l => order[k] # order[l]
  BY DEF SetToSeqs
<1>2. order \in Surjection(D, Chars)
  <2>1. order \in Injection(D, Chars)
    BY <1>1 DEF Injection, IsInjective
  <2>2. Cardinality(D) = Cardinality(Chars)
    BY <1>0, FS_Interval
  <2>. HIDE DEF D
  <2>. QED
    BY <1>0, <2>1, <2>2, FS_Injection
<1>3. \A c \in Chars : \E k \in D : order[k] = c
  BY <1>2 DEF Surjection
<1>4. v \in [D -> Subtrees] /\ \A k \in D : v[k] = Leaf(order[k])
  <2>1. DOMAIN order = D
    BY <1>1
  <2>2. \A k \in D : Leaf(order[k]) \in Subtrees
    BY <1>1, LeafIs
  <2>. QED
    BY <2>1, <2>2
<1>. HIDE DEF v
<1>5. v \in Seq(Subtrees) /\ Len(v) = Cardinality(Chars)
  BY <1>0, <1>4, FunctionSeq
<1>6. \A k \in D : PrefixFree(v[k].codes) /\ DOMAIN v[k].codes = {order[k]} /\ order[k] \in Chars
  BY <1>1, <1>4, LeafIs
<1>7. \A k, l \in D : k # l => DOMAIN v[k].codes \cap DOMAIN v[l].codes = {}
  BY <1>1, <1>6
<1>8. \A c \in Chars : \E k \in D : c \in DOMAIN v[k].codes
  BY <1>3, <1>6
<1>9. Grove(v, Chars)
  BY <1>5, <1>6, <1>7, <1>8 DEF Grove
<1>. QED
  BY <1>9 DEF v

(* A code for every character, none the head of another.                     *)
Coding(f) == f \in [Chars -> Seq(Nat)] /\ PrefixFree(f)

LEMMA OneTree ==
  ASSUME NEW vec, Grove(vec, Chars), Len(vec) = 1
  PROVE  Coding(vec[1].codes)
<1>1. vec[1] \in Subtrees
  BY DEF Grove
<1>4. 1 \in 1 .. Len(vec) /\ \A k \in 1 .. Len(vec) : k = 1
  OBVIOUS
<1>5. /\ \A k \in 1 .. Len(vec) : PrefixFree(vec[k].codes) /\ DOMAIN vec[k].codes \subseteq Chars
      /\ \A c \in Chars : \E k \in 1 .. Len(vec) : c \in DOMAIN vec[k].codes
  BY DEF Grove
<1>2. PrefixFree(vec[1].codes) /\ DOMAIN vec[1].codes = Chars
  BY <1>4, <1>5
<1>3. PICK S \in SUBSET Chars : vec[1].codes \in [S -> Seq(Nat)]
  BY <1>1 DEF Subtrees
<1>. QED
  BY <1>2, <1>3 DEF Coding

LEMMA CodesNotEmpty ==
  ASSUME NEW f, Coding(f), NEW c \in Chars
  PROVE  f[c] \in Seq(Nat) /\ Len(f[c]) \in Nat /\ Len(f[c]) >= 1
<1>1. f \in [Chars -> Seq(Nat)] /\ f[c] \in Seq(Nat) /\ Len(f[c]) \in Nat
  <2>1. f \in [Chars -> Seq(Nat)]
    BY DEF Coding
  <2>2. f[c] \in Seq(Nat)
    BY <2>1
  <2>. QED
    BY <2>1, <2>2
<1>2. PICK e \in Chars : e # c
  <2>1. Chars # {c}
    BY HuffmanCodecAssumption, FS_Singleton
  <2>. QED
    BY <2>1
<1>3. ~Heads(f[c], f[e])
  BY <1>1, <1>2 DEF Coding, PrefixFree
<1>4. CASE Len(f[c]) = 0
  <2>1. f[e] \in Seq(Nat) /\ Len(f[e]) \in Nat
    BY <1>1
  <2>2. Heads(f[c], f[e])
    BY <1>4, <2>1 DEF Heads
  <2>. QED
    BY <1>3, <2>2
<1>. QED
  BY <1>1, <1>4

-----------------------------------------------------------------------------
(* The codes of a text in a sequence of bits.                                *)

(* The codes by f of the characters of w are one behind the other in s;      *)
(* start says where each begins.                                             *)
CodedAs(f, w, s, start) ==
  /\ start \in [0 .. Len(w) -> Nat] /\ start[0] = 0
  /\ s \in Seq(Nat) /\ w \in Seq(Chars)
  /\ \A k \in 1 .. Len(w) :
       /\ start[k] = start[k - 1] + Len(f[w[k]]) /\ start[k] <= Len(s)
       /\ \A m \in 1 .. Len(f[w[k]]) : f[w[k]][m] = s[start[k - 1] + m]

LEMMA CodedLonger ==
  ASSUME NEW f, Coding(f), NEW w, NEW s, NEW start, CodedAs(f, w, s, start),
         NEW more \in Seq(Nat)
  PROVE  CodedAs(f, w, s \o more, start)
<1>. DEFINE u == s \o more
            n == Len(w)
            L == Len(s)
            d == Len(more)
<1>1. /\ start \in [0 .. n -> Nat] /\ start[0] = 0 /\ s \in Seq(Nat) /\ w \in Seq(Chars)
      /\ \A k \in 1 .. n :
           /\ start[k] = start[k - 1] + Len(f[w[k]]) /\ start[k] <= L
           /\ \A m \in 1 .. Len(f[w[k]]) : f[w[k]][m] = s[start[k - 1] + m]
  BY DEF CodedAs
<1>2. u \in Seq(Nat) /\ Len(u) = L + d /\ L \in Nat /\ d \in Nat /\ \A m \in 1 .. L : u[m] = s[m]
  BY <1>1, Joins
<1>3. n \in Nat /\ \A k \in 1 .. n : w[k] \in Chars
  BY <1>1
<1>. HIDE DEF u, n, L, d
<1>4. ASSUME NEW k \in 1 .. n
      PROVE  /\ start[k] = start[k - 1] + Len(f[w[k]]) /\ start[k] <= Len(u)
             /\ \A m \in 1 .. Len(f[w[k]]) : f[w[k]][m] = u[start[k - 1] + m]
  <2>1. Len(f[w[k]]) \in Nat
    BY <1>3, CodesNotEmpty
  <2>2. start[k] \in Nat /\ start[k - 1] \in Nat
    <3>1. k \in 0 .. n /\ k - 1 \in 0 .. n
      BY <1>3
    <3>. QED
      BY <1>1, <3>1
  <2>3. start[k] = start[k - 1] + Len(f[w[k]]) /\ start[k] <= L
    BY <1>1
  <2>4. start[k] <= Len(u)
    BY <1>2, <2>2, <2>3
  <2>5. ASSUME NEW m \in 1 .. Len(f[w[k]]) PROVE f[w[k]][m] = u[start[k - 1] + m]
    <3>1. start[k - 1] + m \in 1 .. L
      <4>. DEFINE x == start[k - 1]
                  y == start[k]
                  b == Len(f[w[k]])
      <4>1. x \in Nat /\ y \in Nat /\ b \in Nat /\ y = x + b /\ y <= L /\ m \in Nat
            /\ m >= 1 /\ m <= b
        BY <2>1, <2>2, <2>3
      <4>. HIDE DEF x, y, b
      <4>3. x + m >= 1 /\ x + m <= L /\ x + m \in Nat /\ L \in Nat
        BY <1>2, <4>1
      <4>2. x + m \in 1 .. L
        BY ONLY <4>3
      <4>. QED
        BY <4>2 DEF x
    <3>. QED
      BY <1>1, <1>2, <3>1
  <2>. QED
    BY <2>3, <2>4, <2>5
<1>5. CodedAs(f, w, u, start)
  BY <1>1, <1>2, <1>4 DEF CodedAs, n
<1>. QED
  BY <1>5 DEF u

LEMMA CodedNext ==
  ASSUME NEW f, Coding(f), NEW w, NEW s, NEW start, CodedAs(f, w, s, start),
         start[Len(w)] = Len(s), NEW c \in Chars
  PROVE  \E start2 : /\ CodedAs(f, Append(w, c), s \o f[c], start2)
                     /\ start2[Len(Append(w, c))] = Len(s \o f[c])
<1>. DEFINE u == s \o f[c]
            v == Append(w, c)
            n == Len(w)
            L == Len(s)
            d == Len(f[c])
            g == [k \in 0 .. n + 1 |-> IF k <= n THEN start[k] ELSE L + d]
<1>1. f[c] \in Seq(Nat) /\ d \in Nat
  BY CodesNotEmpty
<1>2. CodedAs(f, w, u, start)
  BY <1>1, CodedLonger
<1>3. s \in Seq(Nat) /\ w \in Seq(Chars) /\ n \in Nat /\ L \in Nat
  <2>1. s \in Seq(Nat) /\ w \in Seq(Chars)
    BY DEF CodedAs
  <2>. QED
    BY <2>1
<1>4. u \in Seq(Nat) /\ Len(u) = L + d /\ \A m \in 1 .. d : u[L + m] = f[c][m]
  BY <1>1, <1>3, Joins
<1>5. v \in Seq(Chars) /\ Len(v) = n + 1 /\ v[n + 1] = c /\ \A k \in 1 .. n : v[k] = w[k]
  BY <1>3, AppendedIs
<1>6. /\ start \in [0 .. n -> Nat] /\ start[0] = 0
      /\ \A k \in 1 .. n :
           /\ start[k] = start[k - 1] + Len(f[w[k]]) /\ start[k] <= Len(u)
           /\ \A m \in 1 .. Len(f[w[k]]) : f[w[k]][m] = u[start[k - 1] + m]
  BY <1>2 DEF CodedAs
<1>7. start[n] = L
  OBVIOUS
<1>. HIDE DEF u, v, n, L, d
<1>8. /\ g \in [0 .. n + 1 -> Nat] /\ g[n + 1] = L + d
      /\ \A k \in 0 .. n : g[k] = start[k]
  <2>1. \A k \in 0 .. n + 1 : k \in 0 .. n \/ k = n + 1
    BY <1>3
  <2>2. \A k \in 0 .. n : k <= n /\ k \in 0 .. n + 1
    BY <1>3
  <2>3. n + 1 \in 0 .. n + 1 /\ ~(n + 1 <= n)
    BY <1>3
  <2>4. L + d \in Nat
    BY <1>1, <1>3
  <2>5. \A k \in 0 .. n + 1 : (IF k <= n THEN start[k] ELSE L + d) \in Nat
    BY <1>6, <2>1, <2>3, <2>4
  <2>. QED
    BY <2>2, <2>3, <2>5
<1>. HIDE DEF g
<1>9. g[0] = 0
  <2>1. 0 \in 0 .. n
    BY <1>3
  <2>. QED
    BY <1>6, <1>8, <2>1
<1>10. ASSUME NEW k \in 1 .. n + 1
       PROVE  /\ g[k] = g[k - 1] + Len(f[v[k]]) /\ g[k] <= Len(u)
              /\ \A m \in 1 .. Len(f[v[k]]) : f[v[k]][m] = u[g[k - 1] + m]
  <2>1. CASE k \in 1 .. n
    <3>1. k \in 0 .. n /\ k - 1 \in 0 .. n
      BY <1>3, <2>1
    <3>2. g[k] = start[k] /\ g[k - 1] = start[k - 1] /\ v[k] = w[k]
      BY <1>5, <1>8, <2>1, <3>1
    <3>. QED
      BY <1>6, <2>1, <3>2
  <2>2. CASE k = n + 1
    <3>1. k - 1 = n /\ n \in 0 .. n
      BY <1>3, <2>2
    <3>2. g[k] = L + d /\ g[k - 1] = L /\ v[k] = c
      BY <1>5, <1>7, <1>8, <2>2, <3>1
    <3>3. L + d <= Len(u)
      BY <1>1, <1>3, <1>4
    <3>. QED
      BY <1>4, <3>2, <3>3 DEF d
  <2>3. k \in 1 .. n \/ k = n + 1
    BY <1>3
  <2>. QED
    BY <2>1, <2>2, <2>3
<1>11. CodedAs(f, v, u, g)
  BY <1>4, <1>5, <1>8, <1>9, <1>10 DEF CodedAs
<1>12. g[Len(v)] = Len(u)
  BY <1>4, <1>5, <1>8
<1>. QED
  BY <1>11, <1>12 DEF u, v

-----------------------------------------------------------------------------
(* The bytes of a text.                                                      *)

TextCoded(f, w, ps, pg) ==
  \E s, start : /\ Cuts(ByteBits, ps, pg, s) /\ CodedAs(f, w, s, start)
                /\ start[Len(w)] = Len(s)

(* What encode makes of the bytes ps and the bits pg with the code of c.     *)
CharCoded(f, c, ps, pg, ps2, pg2) ==
  LET bits == pg \o f[c]
      n    == Len(bits) \div ByteBits
  IN /\ ps2 = ps \o [k \in 1 .. n |-> SubSeq(bits, (k - 1) * ByteBits + 1, k * ByteBits)]
     /\ pg2 = SubSeq(bits, n * ByteBits + 1, Len(bits))

LEMMA FullBytes ==
  ASSUME NEW x \in Nat
  PROVE  /\ x \div ByteBits \in Nat /\ (x \div ByteBits) * ByteBits \in Nat
         /\ (x \div ByteBits) * ByteBits <= x
         /\ x - (x \div ByteBits) * ByteBits < ByteBits
<1>. DEFINE q == x \div ByteBits
            y == x % ByteBits
<1>1. ByteBits \in Nat /\ ByteBits >= 1
  BY HuffmanCodecAssumption
<1>2. q \in Nat /\ y \in Nat /\ x = ByteBits * q + y /\ y < ByteBits
  BY <1>1, Z3T(30)
<1>. HIDE DEF q, y
<1>3. q * ByteBits = ByteBits * q /\ q * ByteBits \in Nat
  BY <1>1, <1>2
<1>4. q \in Nat /\ q * ByteBits \in Nat /\ q * ByteBits <= x /\ x - q * ByteBits < ByteBits
  BY <1>1, <1>2, <1>3
<1>. QED
  BY <1>4 DEF q

LEMMA EncodeKeeps ==
  ASSUME NEW f, Coding(f), NEW w, NEW ps, NEW pg, TextCoded(f, w, ps, pg), NEW c \in Chars,
         NEW ps2, NEW pg2, CharCoded(f, c, ps, pg, ps2, pg2)
  PROVE  TextCoded(f, Append(w, c), ps2, pg2) /\ Len(pg2) < ByteBits
<1>. DEFINE stream == pg \o f[c]
            L == Len(stream)
            n == L \div ByteBits
            more == [k \in 1 .. n |-> SubSeq(stream, (k - 1) * ByteBits + 1, k * ByteBits)]
            z == ByteBits
<1>0. PICK s, start : /\ Cuts(ByteBits, ps, pg, s) /\ CodedAs(f, w, s, start)
                      /\ start[Len(w)] = Len(s)
  BY DEF TextCoded
<1>1. ps2 = ps \o more /\ pg2 = SubSeq(stream, n * z + 1, L) /\ z \in Nat
  BY HuffmanCodecAssumption DEF CharCoded
<1>2. pg \in Seq(Nat) /\ f[c] \in Seq(Nat)
  BY <1>0, CodesNotEmpty DEF Cuts
<1>3. Glued(stream, pg, f[c])
  BY <1>2, GluedIs
<1>4. stream \in Seq(Nat) /\ L \in Nat
  <2>1. stream \in Seq(Nat)
    BY <1>3 DEF Glued
  <2>. QED
    BY <2>1
<1>. HIDE DEF stream, L
<1>5. n \in Nat /\ n * z \in Nat /\ n * z <= L /\ L - n * z < z
  BY <1>4, FullBytes
<1>. HIDE DEF n, z
<1>6. \A k \in 1 .. n : PieceAt(SubSeq(stream, (k - 1) * z + 1, k * z), stream, (k - 1) * z, z)
  <2>. SUFFICES ASSUME NEW k \in 1 .. n
                PROVE  PieceAt(SubSeq(stream, (k - 1) * z + 1, k * z), stream, (k - 1) * z, z)
    OBVIOUS
  <2>. DEFINE x == (k - 1) * z
              y == k * z
  <2>1. k \in Nat /\ k >= 1 /\ k <= n
    BY <1>5
  <2>2. x \in Nat /\ y = x + z /\ y \in Nat /\ y <= n * z
    BY <1>1, <1>5, <2>1, Multiples
  <2>. HIDE DEF x, y
  <2>3. x + z <= Len(stream)
    BY <1>1, <1>4, <1>5, <2>2 DEF L
  <2>4. PieceAt(SubSeq(stream, x + 1, x + z), stream, x, z)
    BY <1>1, <1>4, <2>2, <2>3, PieceAtIs
  <2>5. PieceAt(SubSeq(stream, x + 1, y), stream, x, z)
    BY <2>2, <2>4
  <2>. QED
    BY <2>5 DEF x, y
<1>7. Slices(z, stream, n, more)
  <2>1. \A k \in 1 .. n : more[k] = SubSeq(stream, (k - 1) * z + 1, k * z)
    BY DEF z
  <2>2. \A k \in 1 .. n : PieceAt(more[k], stream, (k - 1) * z, z)
    BY <1>6, <2>1
  <2>3. more \in [1 .. n -> Seq(Nat)]
    <3>1. \A k \in 1 .. n : SubSeq(stream, (k - 1) * z + 1, k * z) \in Seq(Nat)
      BY <1>6 DEF PieceAt
    <3>. QED
      BY <3>1 DEF z
  <2>. HIDE DEF more
  <2>4. more \in Seq(Seq(Nat)) /\ Len(more) = n
    BY <1>5, <2>3, FunctionSeq
  <2>. QED
    BY <2>2, <2>4 DEF Slices
<1>. HIDE DEF more
<1>8. PieceAt(pg2, stream, n * z, L - n * z)
  <2>. DEFINE x == n * z
              y == L - x
  <2>1. x \in Nat /\ y \in Nat /\ x + y = L
    BY <1>4, <1>5
  <2>2. pg2 = SubSeq(stream, x + 1, x + y)
    BY <1>1, <2>1
  <2>. HIDE DEF x, y
  <2>3. PieceAt(SubSeq(stream, x + 1, x + y), stream, x, y)
    <3>1. x + y <= Len(stream)
      BY <2>1, <1>4 DEF L
    <3>. QED
      BY <1>4, <2>1, <3>1, PieceAtIs
  <2>. QED
    BY <2>2, <2>3 DEF x, y
<1>9. Cuts(z, ps \o more, pg2, s \o f[c])
  <2>1. Cuts(z, ps, pg, s) /\ n * z <= Len(stream)
    BY <1>0, <1>5 DEF z, L
  <2>2. PieceAt(pg2, stream, n * z, Len(stream) - n * z)
    BY <1>8 DEF L
  <2>. QED
    BY <1>1, <1>2, <1>3, <1>5, <1>7, <2>1, <2>2, CutMore
<1>10. PICK start2 : /\ CodedAs(f, Append(w, c), s \o f[c], start2)
                     /\ start2[Len(Append(w, c))] = Len(s \o f[c])
  BY <1>0, CodedNext
<1>11. TextCoded(f, Append(w, c), ps2, pg2)
  <2>. DEFINE u == s \o f[c]
              v == Append(w, c)
  <2>1. Cuts(ByteBits, ps2, pg2, u) /\ CodedAs(f, v, u, start2) /\ start2[Len(v)] = Len(u)
    BY <1>1, <1>9, <1>10 DEF z
  <2>. HIDE DEF u, v
  <2>2. TextCoded(f, v, ps2, pg2)
    BY <2>1 DEF TextCoded
  <2>. QED
    BY <2>2 DEF v
<1>12. Len(pg2) < ByteBits
  BY <1>5, <1>8 DEF PieceAt, z
<1>. QED
  BY <1>11, <1>12

LEMMA AppendIs ==
  ASSUME NEW T, NEW s \in Seq(T), NEW x \in T
  PROVE  Append(s, x) = s \o <<x>>
<1>1. <<x>> \in Seq(T) /\ Len(<<x>>) = 1 /\ <<x>>[1] = x
  OBVIOUS
<1>. DEFINE a == Append(s, x)
            y == <<x>>
            b == s \o y
<1>2. /\ a \in Seq(T) /\ Len(a) = Len(s) + 1 /\ Len(s) \in Nat
      /\ a[Len(s) + 1] = x /\ \A k \in 1 .. Len(s) : a[k] = s[k]
  BY AppendedIs
<1>. HIDE DEF a, y
<1>3. /\ b \in Seq(T) /\ Len(b) = Len(s) + 1
      /\ b[Len(s) + 1] = x /\ \A k \in 1 .. Len(s) : b[k] = s[k]
  <2>1. y \in Seq(T) /\ Len(y) = 1 /\ y[1] = x
    BY <1>1 DEF y
  <2>2. /\ b \in Seq(T) /\ Len(b) = Len(s) + Len(y)
        /\ \A k \in 1 .. Len(s) : b[k] = s[k]
        /\ \A k \in 1 .. Len(y) : b[Len(s) + k] = y[k]
    BY <2>1, Joins
  <2>. HIDE DEF b
  <2>3. 1 \in 1 .. Len(y)
    BY <2>1
  <2>. QED
    BY <2>1, <2>2, <2>3
<1>. HIDE DEF b
<1>4. a = b
  <2>1. \A k \in 1 .. Len(s) + 1 : k \in 1 .. Len(s) \/ k = Len(s) + 1
    BY <1>2
  <2>2. \A k \in 1 .. Len(a) : a[k] = b[k]
    BY <1>2, <1>3, <2>1
  <2>. QED
    BY <1>2, <1>3, <2>2, SeqEqual
<1>. QED
  BY <1>4 DEF a, b, y

(* The bits of the bytes ps: those of the codes of w, and then zeros.        *)
Ready(f, w, ps, s, start) ==
  /\ Cuts(ByteBits, ps, <<>>, s) /\ CodedAs(f, w, s, start)
  /\ \A m \in start[Len(w)] + 1 .. Len(s) : s[m] = 0

LEMMA PaddedIs ==
  ASSUME NEW pg \in Seq(Nat), Len(pg) < ByteBits
  PROVE  \E zeros \in Seq(Nat) :
           /\ Glued(Padded(pg), pg, zeros) /\ Len(Padded(pg)) = ByteBits
           /\ \A m \in 1 .. Len(zeros) : zeros[m] = 0
<1>. DEFINE b == Len(pg)
            d == ByteBits - b
            z == [k \in 1 .. d |-> 0]
            c == Padded(pg)
<1>1. ByteBits \in Nat /\ b \in Nat /\ b < ByteBits /\ d \in Nat /\ b + d = ByteBits
  BY HuffmanCodecAssumption
<1>2. c = [k \in 1 .. ByteBits |-> IF k <= b THEN pg[k] ELSE 0]
  BY DEF Padded
<1>. HIDE DEF b, d, c
<1>3. z \in Seq(Nat) /\ Len(z) = d /\ \A m \in 1 .. d : z[m] = 0
  <2>1. z \in [1 .. d -> Nat] /\ \A m \in 1 .. d : z[m] = 0
    OBVIOUS
  <2>. HIDE DEF z
  <2>. QED
    BY <1>1, <2>1, FunctionSeq
<1>. HIDE DEF z
<1>4. \A k \in 1 .. b : pg[k] \in Nat
  BY DEF b
<1>5. /\ c \in [1 .. ByteBits -> Nat]
      /\ \A k \in 1 .. ByteBits : c[k] = IF k <= b THEN pg[k] ELSE 0
  <2>1. \A k \in 1 .. ByteBits : (IF k <= b THEN pg[k] ELSE 0) \in Nat
    <3>1. \A k \in 1 .. ByteBits : k <= b => k \in 1 .. b
      BY <1>1
    <3>. QED
      BY <1>4, <3>1
  <2>. QED
    BY <1>2, <2>1
<1>6. c \in Seq(Nat) /\ Len(c) = ByteBits
  BY <1>1, <1>5, FunctionSeq
<1>7. ASSUME NEW m \in 1 .. b PROVE c[m] = pg[m]
  <2>1. m \in 1 .. ByteBits /\ m <= b
    BY <1>1
  <2>. QED
    BY <1>5, <2>1
<1>8. ASSUME NEW m \in 1 .. d PROVE c[b + m] = z[m]
  <2>1. b + m \in 1 .. ByteBits /\ ~(b + m <= b)
    BY <1>1
  <2>. QED
    BY <1>3, <1>5, <2>1
<1>9. Glued(c, pg, z)
  <2>1. Len(c) = b + d
    BY <1>1, <1>6
  <2>2. Len(c) = Len(pg) + Len(z) /\ \A m \in 1 .. Len(pg) : c[m] = pg[m]
    BY <1>3, <1>7, <2>1 DEF b
  <2>3. \A m \in 1 .. Len(z) : c[Len(pg) + m] = z[m]
    BY <1>3, <1>8 DEF b
  <2>. QED
    BY <1>6, <2>2, <2>3 DEF Glued
<1>. QED
  BY <1>3, <1>6, <1>9 DEF c

LEMMA PaddedReady ==
  ASSUME NEW f, Coding(f), NEW w, NEW ps, NEW pg, TextCoded(f, w, ps, pg), Len(pg) < ByteBits,
         NEW ps2, ps2 = IF pg = <<>> THEN ps ELSE Append(ps, Padded(pg))
  PROVE  \E s, start : Ready(f, w, ps2, s, start)
<1>0. PICK s, start : /\ Cuts(ByteBits, ps, pg, s) /\ CodedAs(f, w, s, start)
                      /\ start[Len(w)] = Len(s)
  BY DEF TextCoded
<1>1. /\ s \in Seq(Nat) /\ ps \in Seq(Seq(Nat)) /\ pg \in Seq(Nat) /\ Len(s) \in Nat
      /\ ByteBits \in Nat
  <2>1. s \in Seq(Nat) /\ ps \in Seq(Seq(Nat)) /\ pg \in Seq(Nat)
    BY <1>0 DEF Cuts
  <2>. QED
    BY <2>1, HuffmanCodecAssumption
<1>2. CASE pg = <<>>
  <2>1. \A m \in start[Len(w)] + 1 .. Len(s) : s[m] = 0
    BY <1>0, <1>1
  <2>2. Ready(f, w, ps2, s, start)
    BY <1>0, <1>2, <2>1 DEF Ready
  <2>. QED
    BY <2>2
<1>3. CASE pg # <<>>
  <2>. DEFINE c == Padded(pg)
              more == <<c>>
  <2>1. PICK zeros \in Seq(Nat) :
           /\ Glued(c, pg, zeros) /\ Len(c) = ByteBits
           /\ \A m \in 1 .. Len(zeros) : zeros[m] = 0
    BY <1>1, PaddedIs
  <2>2. c \in Seq(Nat)
    BY <2>1 DEF Glued
  <2>0. ps2 = Append(ps, c)
    BY <1>3
  <2>. HIDE DEF c
  <2>. DEFINE none == <<>>
              u == s \o zeros
  <2>3. ps2 = ps \o more
    BY <1>1, <2>0, <2>2, AppendIs
  <2>4. more \in Seq(Seq(Nat)) /\ Len(more) = 1 /\ more[1] = c
    BY <2>2
  <2>. HIDE DEF more
  <2>5. Slices(ByteBits, c, 1, more)
    <3>1. PieceAt(c, c, 0, ByteBits)
      <4>1. \A m \in 1 .. ByteBits : 0 + m = m
        BY <1>1
      <4>. QED
        BY <2>1, <2>2, <4>1 DEF PieceAt
    <3>2. (1 - 1) * ByteBits = 0
      BY <1>1
    <3>3. \A k \in 1 .. 1 : k = 1
      OBVIOUS
    <3>4. \A k \in 1 .. 1 : PieceAt(more[k], c, (k - 1) * ByteBits, ByteBits)
      <4>. SUFFICES ASSUME NEW k \in 1 .. 1
                    PROVE  PieceAt(more[k], c, (k - 1) * ByteBits, ByteBits)
        OBVIOUS
      <4>1. more[k] = c /\ (k - 1) * ByteBits = 0
        BY <2>4, <3>2, <3>3
      <4>. QED
        BY <3>1, <4>1
    <3>. QED
      BY <2>4, <3>4 DEF Slices
  <2>6. PieceAt(none, c, 1 * ByteBits, Len(c) - 1 * ByteBits) /\ 1 * ByteBits <= Len(c)
    <3>1. 1 * ByteBits = ByteBits /\ ByteBits - ByteBits = 0
      BY <1>1
    <3>2. Len(c) - 1 * ByteBits = 0 /\ 1 * ByteBits <= Len(c)
      BY <1>1, <2>1, <3>1
    <3>3. none \in Seq(Nat) /\ Len(none) = 0
      OBVIOUS
    <3>. QED
      BY <3>2, <3>3 DEF PieceAt
  <2>. HIDE DEF none
  <2>7. Cuts(ByteBits, ps \o more, none, s \o zeros)
    BY <1>0, <1>1, <2>1, <2>5, <2>6, CutMore
  <2>8. CodedAs(f, w, u, start)
    BY <1>0, CodedLonger
  <2>9. \A m \in start[Len(w)] + 1 .. Len(u) : u[m] = 0
    <3>1. /\ Len(u) = Len(s) + Len(zeros) /\ Len(zeros) \in Nat
          /\ \A m \in 1 .. Len(zeros) : u[Len(s) + m] = zeros[m]
      BY <1>1, Joins
    <3>. HIDE DEF u
    <3>. SUFFICES ASSUME NEW m \in Len(s) + 1 .. Len(u) PROVE u[m] = 0
      BY <1>0
    <3>2. m - Len(s) \in 1 .. Len(zeros) /\ Len(s) + (m - Len(s)) = m
      BY <1>1, <3>1
    <3>3. u[Len(s) + (m - Len(s))] = 0
      BY <2>1, <3>1, <3>2
    <3>. QED
      BY <3>2, <3>3
  <2>10. Ready(f, w, ps2, u, start)
    <3>1. Cuts(ByteBits, ps2, none, u)
      BY <2>3, <2>7
    <3>. HIDE DEF u
    <3>. QED
      BY <2>8, <2>9, <3>1 DEF Ready, none
  <2>. QED
    BY <2>10
<1>. QED
  BY <1>2, <1>3

-----------------------------------------------------------------------------
(* The bits of the bytes, one code after the other.                          *)

LEMMA Divided ==
  ASSUME NEW x \in Nat, NEW z \in Nat, z >= 1
  PROVE  x \div z \in Nat /\ x % z \in Nat /\ x = z * (x \div z) + (x % z) /\ x % z < z
BY Z3T(30)

LEMMA BitsAre ==
  ASSUME NEW s, Cuts(ByteBits, bytes, <<>>, s)
  PROVE  /\ Len(BitString) = Len(s)
         /\ \A k \in 1 .. Len(s) : BitString[k] = s[k]
<1>. DEFINE z == ByteBits
            n == Len(bytes)
            L == Len(s)
            f == BitString
<1>1. /\ s \in Seq(Nat) /\ bytes \in Seq(Seq(Nat)) /\ L = n * z /\ z \in Nat /\ z >= 1
      /\ \A k \in 1 .. n : \A m \in 1 .. z : bytes[k][m] = s[(k - 1) * z + m]
  <2>1. Len(s) = Len(bytes) * ByteBits + Len(<<>>)
    BY DEF Cuts
  <2>2. Len(bytes) \in Nat /\ ByteBits \in Nat /\ ByteBits >= 1
    BY HuffmanCodecAssumption DEF Cuts
  <2>3. L = n * z
    BY <2>1, <2>2
  <2>. QED
    BY <2>2, <2>3 DEF Cuts
<1>2. n \in Nat /\ L \in Nat /\ z * n = L /\ z * n \in Nat
  <2>1. n \in Nat /\ L \in Nat
    BY <1>1
  <2>. QED
    BY <1>1, <2>1
<1>3. f = [k \in 1 .. z * n |-> bytes[(k - 1) \div z + 1][((k - 1) % z) + 1]]
  BY DEF BitString
<1>. HIDE DEF f, z, n, L
<1>4. ASSUME NEW k \in 1 .. L PROVE f[k] = s[k]
  <2>. DEFINE q == (k - 1) \div z
              y == (k - 1) % z
              h == q + 1
  <2>1. k - 1 \in Nat /\ k - 1 < L
    BY <1>2
  <2>2. q \in Nat /\ y \in Nat /\ k - 1 = z * q + y /\ y < z
    BY <1>1, <2>1, Divided
  <2>3. f[k] = bytes[q + 1][y + 1]
    BY <1>2, <1>3
  <2>. HIDE DEF q, y
  <2>4. q < n
    <3>1. n <= q => n * z <= q * z
      BY <1>1, <1>2, <2>2, Multiples
    <3>. DEFINE a == q * z
    <3>2. a = z * q /\ a \in Nat
      BY <1>1, <2>2
    <3>3. n <= q => L <= a
      BY <1>1, <3>1
    <3>4. k - 1 = a + y
      BY <2>2, <3>2
    <3>. HIDE DEF a
    <3>. QED
      BY <1>2, <2>1, <2>2, <3>2, <3>3, <3>4
  <2>5. h \in 1 .. n /\ y + 1 \in 1 .. z /\ h - 1 = q
    BY <1>1, <1>2, <2>2, <2>4
  <2>6. bytes[h][y + 1] = s[(h - 1) * z + (y + 1)]
    BY <1>1, <2>5
  <2>7. (h - 1) * z + (y + 1) = k
    <3>1. (h - 1) * z = z * q /\ z * q \in Nat
      BY <1>1, <2>2, <2>5
    <3>. HIDE DEF h
    <3>. QED
      BY <2>2, <3>1
  <2>. QED
    BY <2>3, <2>6, <2>7
<1>5. Len(f) = L
  <2>1. DOMAIN f = 1 .. L
    BY <1>2, <1>3
  <2>. QED
    BY <1>2, <2>1
<1>. QED
  BY <1>4, <1>5 DEF f, L

(* decode has looked at the first x bits of s; t are those behind the codes  *)
(* of the characters d.                                                      *)
Decoding(f, w, s, start, x, t, d) ==
  /\ x \in Nat /\ x <= Len(s) /\ t \in Seq(Nat) /\ d \in Seq(Chars)
  /\ \A k \in 1 .. Len(d) : k <= Len(w) => d[k] = w[k]
  /\ \A k \in Len(w) + 1 .. Len(d) : \A m \in 1 .. Len(f[d[k]]) : f[d[k]][m] = 0
  /\ \E y \in Nat :
       /\ x = y + Len(t) /\ PieceAt(t, s, y, Len(t))
       /\ Len(d) < Len(w) => y = start[Len(d)] /\ Len(t) < Len(f[w[Len(d) + 1]])
       /\ Len(d) >= Len(w) => y >= start[Len(w)]

(* The code of the character behind the first k is where these end.          *)
CodeAt(f, w, s, start, k) ==
  /\ w[k + 1] \in Chars /\ f[w[k + 1]] \in Seq(Nat) /\ Len(f[w[k + 1]]) \in Nat
  /\ Len(f[w[k + 1]]) >= 1
  /\ start[k + 1] = start[k] + Len(f[w[k + 1]]) /\ start[k + 1] <= Len(s)
  /\ \A m \in 1 .. Len(f[w[k + 1]]) : f[w[k + 1]][m] = s[start[k] + m]

LEMMA CodedIs ==
  ASSUME NEW f, Coding(f), NEW w, NEW s, NEW start, CodedAs(f, w, s, start)
  PROVE  /\ s \in Seq(Nat) /\ w \in Seq(Chars) /\ Len(s) \in Nat /\ Len(w) \in Nat
         /\ start[0] = 0 /\ \A k \in 0 .. Len(w) : start[k] \in Nat
         /\ \A k \in 0 .. Len(w) - 1 : CodeAt(f, w, s, start, k)
<1>1. s \in Seq(Nat) /\ w \in Seq(Chars) /\ start[0] = 0 /\ start \in [0 .. Len(w) -> Nat]
  BY DEF CodedAs
<1>2. Len(s) \in Nat /\ Len(w) \in Nat /\ \A k \in 0 .. Len(w) : start[k] \in Nat
  BY <1>1
<1>3. ASSUME NEW k \in 0 .. Len(w) - 1
      PROVE  CodeAt(f, w, s, start, k)
  <2>. DEFINE h == k + 1
  <2>1. h \in 1 .. Len(w) /\ h - 1 = k
    BY <1>2
  <2>. HIDE DEF h
  <2>2. w[h] \in Chars
    BY <1>1, <2>1
  <2>3. f[w[h]] \in Seq(Nat) /\ Len(f[w[h]]) \in Nat /\ Len(f[w[h]]) >= 1
    BY <2>2, CodesNotEmpty
  <2>4. /\ start[h] = start[h - 1] + Len(f[w[h]]) /\ start[h] <= Len(s)
        /\ \A m \in 1 .. Len(f[w[h]]) : f[w[h]][m] = s[start[h - 1] + m]
    BY <2>1 DEF CodedAs
  <2>5. /\ w[h] \in Chars /\ f[w[h]] \in Seq(Nat) /\ Len(f[w[h]]) \in Nat
        /\ Len(f[w[h]]) >= 1
        /\ start[h] = start[k] + Len(f[w[h]]) /\ start[h] <= Len(s)
        /\ \A m \in 1 .. Len(f[w[h]]) : f[w[h]][m] = s[start[k] + m]
    BY <2>1, <2>2, <2>3, <2>4
  <2>. QED
    BY <2>5 DEF h, CodeAt
<1>. QED
  BY <1>1, <1>2, <1>3

LEMMA BeginDecode ==
  ASSUME NEW f, Coding(f), NEW w, NEW s, NEW start, CodedAs(f, w, s, start)
  PROVE  Decoding(f, w, s, start, 0, <<>>, <<>>)
<1>. DEFINE e == <<>>
<1>1. /\ s \in Seq(Nat) /\ w \in Seq(Chars) /\ Len(s) \in Nat /\ Len(w) \in Nat
      /\ start[0] = 0
      /\ \A k \in 0 .. Len(w) - 1 : Len(f[w[k + 1]]) \in Nat /\ Len(f[w[k + 1]]) >= 1
  <2>1. \A k \in 0 .. Len(w) - 1 : CodeAt(f, w, s, start, k)
    BY CodedIs
  <2>2. \A k \in 0 .. Len(w) - 1 : Len(f[w[k + 1]]) \in Nat /\ Len(f[w[k + 1]]) >= 1
    BY <2>1 DEF CodeAt
  <2>. QED
    BY <2>2, CodedIs
<1>2. e \in Seq(Nat) /\ e \in Seq(Chars) /\ Len(e) = 0 /\ \A k \in 1 .. 0 : FALSE
  OBVIOUS
<1>. HIDE DEF e
<1>3. PieceAt(e, s, 0, Len(e))
  BY <1>2 DEF PieceAt
<1>4. Len(e) < Len(w) => 0 = start[Len(e)] /\ Len(e) < Len(f[w[Len(e) + 1]])
  <2>. SUFFICES ASSUME 0 < Len(w) PROVE 0 = start[0] /\ 0 < Len(f[w[0 + 1]])
    BY <1>2
  <2>1. 0 \in 0 .. Len(w) - 1
    BY <1>1
  <2>2. Len(f[w[0 + 1]]) \in Nat /\ Len(f[w[0 + 1]]) >= 1
    BY <1>1, <2>1
  <2>. QED
    BY <1>1, <2>2
<1>5. Len(e) >= Len(w) => 0 >= start[Len(w)]
  <2>1. Len(e) >= Len(w) => Len(w) = 0
    BY <1>1, <1>2
  <2>. QED
    BY <1>1, <2>1
<1>6. /\ \A k \in 1 .. Len(e) : k <= Len(w) => e[k] = w[k]
      /\ \A k \in Len(w) + 1 .. Len(e) : \A m \in 1 .. Len(f[e[k]]) : f[e[k]][m] = 0
  BY <1>1, <1>2
<1>7. 0 = 0 + Len(e) /\ 0 <= Len(s)
  BY <1>1, <1>2
<1>8. Decoding(f, w, s, start, 0, e, e)
  BY <1>2, <1>3, <1>4, <1>5, <1>6, <1>7 DEF Decoding
<1>. QED
  BY <1>8 DEF e

LEMMA DecodeEnds ==
  ASSUME NEW f, Coding(f), NEW w, NEW s, NEW start, CodedAs(f, w, s, start),
         NEW t, NEW d, Decoding(f, w, s, start, Len(s), t, d)
  PROVE  Len(d) >= Len(w)
<1>. DEFINE n == Len(d)
<1>1. t \in Seq(Nat) /\ d \in Seq(Chars)
  BY DEF Decoding
<1>2. n \in Nat /\ Len(t) \in Nat /\ Len(w) \in Nat /\ Len(s) \in Nat
  BY <1>1, CodedIs
<1>3. PICK y \in Nat :
       /\ Len(s) = y + Len(t)
       /\ n < Len(w) => y = start[n] /\ Len(t) < Len(f[w[n + 1]])
  BY DEF Decoding
<1>. HIDE DEF n
<1>4. CASE n < Len(w)
  <2>1. n \in 0 .. Len(w) - 1
    BY <1>2, <1>4
  <2>. DEFINE b == Len(f[w[n + 1]])
              v == start[n + 1]
  <2>2. b \in Nat /\ v = start[n] + b /\ v <= Len(s)
    <3>1. CodeAt(f, w, s, start, n)
      BY <2>1, CodedIs
    <3>. QED
      BY <3>1 DEF CodeAt
  <2>3. y = start[n] /\ Len(t) < b
    BY <1>3, <1>4
  <2>. HIDE DEF b, v
  <2>. QED
    BY <1>2, <1>3, <2>2, <2>3
<1>. QED
  BY <1>2, <1>4 DEF n

(* What a turn of decode's loop makes of the bits t and the characters d     *)
(* with the bit v.                                                           *)
DecodedAs(f, t, d, v, t2, d2) ==
  LET bits  == Append(t, v)
      match == {c \in Chars : f[c] = bits}
  IN /\ t2 = IF match = {} THEN bits ELSE <<>>
     /\ d2 = IF match = {} THEN d ELSE Append(d, CHOOSE c \in match : TRUE)

LEMMA PieceLonger ==
  ASSUME NEW s \in Seq(Nat), NEW y \in Nat, NEW t, PieceAt(t, s, y, Len(t)),
         y + Len(t) < Len(s)
  PROVE  /\ PieceAt(Append(t, s[y + Len(t) + 1]), s, y, Len(t) + 1)
         /\ Len(Append(t, s[y + Len(t) + 1])) = Len(t) + 1
<1>. DEFINE n == Len(t)
            v == s[y + n + 1]
            b == Append(t, v)
<1>1. t \in Seq(Nat) /\ n \in Nat /\ \A m \in 1 .. n : t[m] = s[y + m]
  <2>1. t \in Seq(Nat) /\ \A m \in 1 .. Len(t) : t[m] = s[y + m]
    BY DEF PieceAt
  <2>2. Len(t) \in Nat
    BY <2>1
  <2>. QED
    BY <2>1, <2>2
<1>2. v \in Nat
  <2>1. y + n + 1 \in 1 .. Len(s)
    BY <1>1
  <2>. QED
    BY <2>1
<1>. HIDE DEF v
<1>3. b \in Seq(Nat) /\ Len(b) = n + 1 /\ b[n + 1] = v /\ \A m \in 1 .. n : b[m] = t[m]
  BY <1>1, <1>2, AppendedIs
<1>. HIDE DEF b, n
<1>4. ASSUME NEW m \in 1 .. n + 1 PROVE b[m] = s[y + m]
  <2>1. CASE m \in 1 .. n
    BY <1>1, <1>3, <2>1
  <2>2. CASE m = n + 1
    <3>1. y + m = y + n + 1
      BY <1>1, <2>2
    <3>. QED
      BY <1>3, <2>2, <3>1 DEF v
  <2>. QED
    BY <1>1, <2>1, <2>2
<1>5. PieceAt(b, s, y, n + 1)
  BY <1>3, <1>4 DEF PieceAt
<1>. QED
  BY <1>3, <1>5 DEF b, v, n

LEMMA OneMore ==
  ASSUME NEW d \in Seq(Chars), NEW c \in Chars
  PROVE  /\ Append(d, c) \in Seq(Chars) /\ Len(Append(d, c)) = Len(d) + 1 /\ Len(d) \in Nat
         /\ Append(d, c)[Len(d) + 1] = c /\ \A k \in 1 .. Len(d) : Append(d, c)[k] = d[k]
         /\ \A k \in 1 .. Len(d) + 1 : k \in 1 .. Len(d) \/ k = Len(d) + 1
<1>1. Len(d) \in Nat
  OBVIOUS
<1>2. \A k \in 1 .. Len(d) + 1 : k \in 1 .. Len(d) \/ k = Len(d) + 1
  BY <1>1
<1>. QED
  BY <1>1, <1>2, AppendedIs

LEMMA DecodeKeeps ==
  ASSUME NEW f, Coding(f), NEW w, NEW ps, NEW s, NEW start, Ready(f, w, ps, s, start),
         NEW x, NEW t, NEW d, Decoding(f, w, s, start, x, t, d), x < Len(s),
         NEW t2, NEW d2, DecodedAs(f, t, d, s[x + 1], t2, d2)
  PROVE  Decoding(f, w, s, start, x + 1, t2, d2)
<1>. DEFINE n == Len(d)
            N == Len(w)
            L == Len(s)
            b == Len(t)
            bits == Append(t, s[x + 1])
            match == {c \in Chars : f[c] = bits}
            e == <<>>
<1>0. CodedAs(f, w, s, start) /\ \A m \in start[N] + 1 .. L : s[m] = 0
  BY DEF Ready
<1>1. /\ s \in Seq(Nat) /\ w \in Seq(Chars) /\ L \in Nat /\ N \in Nat
      /\ \A k \in 0 .. N : start[k] \in Nat
      /\ \A k \in 0 .. N - 1 :
              /\ w[k + 1] \in Chars /\ f[w[k + 1]] \in Seq(Nat) /\ Len(f[w[k + 1]]) \in Nat
              /\ Len(f[w[k + 1]]) >= 1
              /\ start[k + 1] = start[k] + Len(f[w[k + 1]]) /\ start[k + 1] <= L
              /\ \A m \in 1 .. Len(f[w[k + 1]]) : f[w[k + 1]][m] = s[start[k] + m]
  <2>1. /\ s \in Seq(Nat) /\ w \in Seq(Chars) /\ Len(s) \in Nat /\ Len(w) \in Nat
        /\ \A k \in 0 .. Len(w) : start[k] \in Nat
        /\ \A k \in 0 .. Len(w) - 1 : CodeAt(f, w, s, start, k)
    BY <1>0, CodedIs
  <2>. HIDE DEF n, b, bits, match, e
  <2>2. s \in Seq(Nat) /\ w \in Seq(Chars) /\ L \in Nat /\ N \in Nat
    BY <2>1
  <2>3. /\ \A k \in 0 .. N : start[k] \in Nat
        /\ \A k \in 0 .. N - 1 : CodeAt(f, w, s, start, k)
    BY <2>1
  <2>. HIDE DEF N, L
  <2>. QED
    BY <2>2, <2>3 DEF CodeAt, L
<1>2. /\ x \in Nat /\ t \in Seq(Nat) /\ d \in Seq(Chars)
      /\ \A k \in 1 .. n : k <= N => d[k] = w[k]
      /\ \A k \in N + 1 .. n : \A m \in 1 .. Len(f[d[k]]) : f[d[k]][m] = 0
  BY DEF Decoding
<1>3. PICK y \in Nat :
       /\ x = y + b /\ PieceAt(t, s, y, b)
       /\ n < N => y = start[n] /\ b < Len(f[w[n + 1]])
       /\ n >= N => y >= start[N]
  BY DEF Decoding
<1>4. b \in Nat /\ n \in Nat
  BY <1>2
<1>5. PieceAt(bits, s, y, b + 1) /\ Len(bits) = b + 1
  BY <1>1, <1>2, <1>3, PieceLonger
<1>6. /\ t2 = IF match = {} THEN bits ELSE e
      /\ d2 = IF match = {} THEN d ELSE Append(d, CHOOSE c \in match : TRUE)
  BY DEF DecodedAs
<1>7. x + 1 \in Nat /\ x + 1 <= L /\ x + 1 = y + (b + 1)
  BY <1>1, <1>2, <1>3, <1>4
<1>8. bits \in Seq(Nat) /\ \A m \in 1 .. b + 1 : bits[m] = s[y + m]
  BY <1>5 DEF PieceAt
<1>9. e \in Seq(Nat) /\ Len(e) = 0 /\ PieceAt(e, s, x + 1, Len(e)) /\ x + 1 = x + 1 + Len(e)
  <2>1. e \in Seq(Nat) /\ Len(e) = 0 /\ \A k \in 1 .. 0 : FALSE
    OBVIOUS
  <2>. HIDE DEF e
  <2>. QED
    BY <1>2, <2>1 DEF PieceAt
<1>. HIDE DEF bits, e
<1>10. \A c \in Chars : f[c] \in Seq(Nat) /\ Len(f[c]) \in Nat
  BY CodesNotEmpty
<1>11. CASE n < N
  <2>. DEFINE a == w[n + 1]
              g == Len(f[a])
  <2>1. n \in 0 .. N - 1 /\ n + 1 <= N
    BY <1>1, <1>4, <1>11
  <2>2. /\ a \in Chars /\ f[a] \in Seq(Nat) /\ g \in Nat /\ start[n + 1] = start[n] + g
        /\ start[n] \in Nat
        /\ \A m \in 1 .. g : f[a][m] = s[start[n] + m]
    <3>1. n \in 0 .. N
      BY <2>1
    <3>. QED
      BY <1>1, <2>1, <3>1
  <2>3. y = start[n] /\ b < g
    BY <1>3, <1>11
  <2>. HIDE DEF a, g
  <2>4. ASSUME NEW c \in match PROVE c = a
    <3>1. f[c] = bits /\ c \in Chars
      OBVIOUS
    <3>2. Len(bits) <= Len(f[a]) /\ \A m \in 1 .. Len(bits) : bits[m] = f[a][m]
      <4>1. b + 1 <= g
        BY <1>4, <2>2, <2>3
      <4>2. \A m \in 1 .. b + 1 : m \in 1 .. g
        BY <1>4, <2>2, <4>1
      <4>3. \A m \in 1 .. b + 1 : bits[m] = f[a][m]
        BY <1>8, <2>2, <2>3, <4>2
      <4>. QED
        BY <1>5, <4>1, <4>3 DEF g
    <3>3. Heads(f[c], f[a])
      BY <3>1, <3>2 DEF Heads
    <3>4. f \in [Chars -> Seq(Nat)] /\ PrefixFree(f)
      BY DEF Coding
    <3>. QED
      BY <2>2, <3>1, <3>3, <3>4 DEF PrefixFree
  <2>5. CASE match = {}
    <3>1. t2 = bits /\ d2 = d
      BY <1>6, <2>5
    <3>2. f[a] # bits
      BY <2>2, <2>5
    <3>3. b + 1 # g
      <4>1. CASE b + 1 = g
        <5>1. Len(f[a]) = Len(bits)
          BY <1>5, <4>1 DEF g
        <5>2. \A m \in 1 .. Len(f[a]) : f[a][m] = bits[m]
          BY <1>8, <2>2, <2>3, <4>1 DEF g
        <5>3. f[a] = bits
          BY <1>8, <2>2, <5>1, <5>2, SeqEqual
        <5>. QED
          BY <3>2, <5>3
      <4>. QED
        BY <4>1
    <3>4. b + 1 < g
      BY <1>4, <2>2, <2>3, <3>3
    <3>5. n < N => y = start[n] /\ Len(bits) < Len(f[w[n + 1]])
      BY <1>5, <2>3, <3>4 DEF a, g
    <3>6. n >= N => y >= start[N]
      BY <1>1, <1>4, <1>11
    <3>7. x + 1 = y + Len(bits) /\ PieceAt(bits, s, y, Len(bits))
      BY <1>5, <1>7
    <3>. QED
      BY <1>2, <1>7, <1>8, <3>1, <3>5, <3>6, <3>7 DEF Decoding
  <2>6. CASE match # {}
    <3>1. (CHOOSE c \in match : TRUE) \in match
      BY <2>6
    <3>2. (CHOOSE c \in match : TRUE) = a
      BY <2>4, <3>1
    <3>3. f[a] = bits
      BY <3>1, <3>2
    <3>4. t2 = e /\ d2 = Append(d, a)
      BY <1>6, <2>6, <3>2
    <3>5. /\ d2 \in Seq(Chars) /\ Len(d2) = n + 1 /\ d2[n + 1] = a
          /\ \A k \in 1 .. n : d2[k] = d[k]
          /\ \A k \in 1 .. n + 1 : k \in 1 .. n \/ k = n + 1
      BY <1>2, <2>2, <3>4, OneMore
    <3>6. \A k \in 1 .. Len(d2) : k <= N => d2[k] = w[k]
      <4>. HIDE DEF n
      <4>. QED
        BY <1>2, <3>5 DEF a
    <3>7. \A k \in N + 1 .. Len(d2) : FALSE
      BY <1>1, <1>4, <2>1, <3>5
    <3>8. x + 1 = start[n + 1]
      BY <1>4, <1>5, <1>7, <2>2, <2>3, <3>3 DEF g
    <3>9. n + 1 < N => x + 1 = start[n + 1] /\ Len(e) < Len(f[w[n + 1 + 1]])
      <4>. SUFFICES ASSUME n + 1 < N PROVE Len(e) < Len(f[w[n + 1 + 1]])
        BY <3>8
      <4>1. n + 1 \in 0 .. N - 1
        BY <1>1, <1>4
      <4>2. Len(f[w[n + 1 + 1]]) \in Nat /\ Len(f[w[n + 1 + 1]]) >= 1
        BY <1>1, <4>1
      <4>. QED
        BY <1>9, <4>2
    <3>10. n + 1 >= N => x + 1 >= start[N]
      <4>1. n + 1 >= N => n + 1 = N
        BY <1>1, <1>4, <2>1
      <4>. QED
        BY <1>7, <3>8, <4>1
    <3>. HIDE DEF n, N
    <3>11. /\ Len(d2) < N => x + 1 = start[Len(d2)] /\ Len(e) < Len(f[w[Len(d2) + 1]])
           /\ Len(d2) >= N => x + 1 >= start[N]
      BY <3>5, <3>9, <3>10
    <3>. QED
      BY <1>7, <1>9, <3>4, <3>5, <3>6, <3>7, <3>11 DEF Decoding, N
  <2>. QED
    BY <2>5, <2>6
<1>12. CASE ~(n < N)
  <2>0. n >= N /\ y >= start[N] /\ start[N] \in Nat
    <3>1. N \in 0 .. N
      BY <1>1
    <3>2. n >= N
      BY <1>1, <1>4, <1>12
    <3>. QED
      BY <1>1, <1>3, <3>1, <3>2
  <2>1. ASSUME NEW m \in 1 .. Len(bits) PROVE bits[m] = 0
    <3>1. m \in 1 .. b + 1 /\ y + m \in start[N] + 1 .. L
      <4>1. m \in 1 .. b + 1
        BY <1>5
      <4>. HIDE DEF b, L, N
      <4>. QED
        BY <1>1, <1>4, <1>7, <2>0, <4>1
    <3>. QED
      BY <1>0, <1>8, <3>1
  <2>2. CASE match = {}
    <3>1. t2 = bits /\ d2 = d
      BY <1>6, <2>2
    <3>2. n < N => y = start[n] /\ Len(bits) < Len(f[w[n + 1]])
      BY <1>12
    <3>3. x + 1 = y + Len(bits) /\ PieceAt(bits, s, y, Len(bits))
      BY <1>5, <1>7
    <3>. QED
      BY <1>2, <1>7, <1>8, <2>0, <3>1, <3>2, <3>3 DEF Decoding
  <2>3. CASE match # {}
    <3>. DEFINE a == CHOOSE c \in match : TRUE
    <3>1. a \in Chars /\ f[a] = bits
      BY <2>3
    <3>2. t2 = e /\ d2 = Append(d, a)
      BY <1>6, <2>3
    <3>. HIDE DEF a
    <3>5. /\ d2 \in Seq(Chars) /\ Len(d2) = n + 1 /\ d2[n + 1] = a
          /\ \A k \in 1 .. n : d2[k] = d[k]
          /\ \A k \in 1 .. n + 1 : k \in 1 .. n \/ k = n + 1
      BY <1>2, <3>1, <3>2, OneMore
    <3>6. ASSUME NEW k \in 1 .. Len(d2), k <= N PROVE d2[k] = w[k]
      <4>1. k \in 1 .. n
        <5>1. k \in 1 .. n + 1 /\ k <= n
          BY <1>1, <1>4, <2>0, <3>5, <3>6
        <5>. QED
          BY <1>4, <5>1
      <4>. QED
        BY <1>2, <3>5, <3>6, <4>1
    <3>7. ASSUME NEW k \in N + 1 .. Len(d2), NEW m \in 1 .. Len(f[d2[k]]) PROVE f[d2[k]][m] = 0
      <4>1. k \in 1 .. n + 1
        BY <1>1, <1>4, <3>5
      <4>2. CASE k \in 1 .. n
        <5>1. d2[k] = d[k] /\ k \in N + 1 .. n
          BY <1>1, <1>4, <3>5, <4>2
        <5>. QED
          BY <1>2, <5>1
      <4>3. CASE k = n + 1
        <5>1. f[d2[k]] = bits
          BY <3>1, <3>5, <4>3
        <5>. QED
          BY <2>1, <5>1
      <4>. QED
        BY <3>5, <4>1, <4>2, <4>3
    <3>8. Len(d2) >= N /\ ~(Len(d2) < N)
      BY <1>1, <1>4, <2>0, <3>5
    <3>9. x + 1 >= start[N]
      BY <1>4, <1>7, <2>0
    <3>. HIDE DEF n, N
    <3>. QED
      BY <1>7, <1>9, <3>2, <3>5, <3>6, <3>7, <3>8, <3>9 DEF Decoding, N
  <2>. QED
    BY <2>2, <2>3
<1>. QED
  BY <1>11, <1>12

-----------------------------------------------------------------------------
(* The codec.                                                                *)

CodecIInv ==
  /\ coding \in {"build", "encode", "decode", "done"}
  /\ coding = "build" => Grove(trees, Chars) /\ NothingCoded
  /\ coding # "build" => Coding(codes)
  /\ coding = "encode" => /\ TextCoded(codes, text, bytes, buf) /\ Len(buf) < ByteBits
                          /\ at = 0 /\ tmp = <<>> /\ decoded = <<>>
  /\ coding = "decode" => \E s, start : /\ Ready(codes, text, bytes, s, start)
                                        /\ Decoding(codes, text, s, start, at, tmp, decoded)
  /\ coding = "done" =>
       /\ text \in Seq(Chars) /\ decoded \in Seq(Chars) /\ Len(text) <= Len(decoded)
       /\ \A k \in 1 .. Len(text) : text[k] = decoded[k]
       /\ \A k \in Len(text) + 1 .. Len(decoded) :
            \A m \in 1 .. Len(codes[decoded[k]]) : codes[decoded[k]][m] = 0

LEMMA CodecBegins == CodecInit => CodecIInv
<1>. SUFFICES ASSUME CodecInit PROVE CodecIInv
  OBVIOUS
<1>1. PICK order \in SetToSeqs(Chars) : trees = [k \in DOMAIN order |-> Leaf(order[k])]
  BY DEF CodecInit
<1>2. Grove(trees, Chars)
  BY <1>1, FirstGrove
<1>3. coding = "build" /\ NothingCoded
  BY DEF CodecInit, NothingCoded
<1>. QED
  BY <1>2, <1>3 DEF CodecIInv

LEMMA NothingEncoded ==
  ASSUME NEW f
  PROVE  TextCoded(f, <<>>, <<>>, <<>>) /\ 0 < ByteBits
<1>. DEFINE e == <<>>
            g == [k \in 0 .. 0 |-> 0]
<1>1. /\ e \in Seq(Nat) /\ e \in Seq(Chars) /\ e \in Seq(Seq(Nat)) /\ Len(e) = 0
      /\ \A k \in 1 .. 0 : FALSE
  OBVIOUS
<1>2. g \in [0 .. 0 -> Nat] /\ g[0] = 0
  OBVIOUS
<1>3. ByteBits \in Nat /\ 0 < ByteBits /\ 0 = 0 * ByteBits + 0
  BY HuffmanCodecAssumption
<1>. HIDE DEF e, g
<1>4. Cuts(ByteBits, e, e, e)
  BY <1>1, <1>3 DEF Cuts
<1>5. CodedAs(f, e, e, g) /\ g[Len(e)] = Len(e)
  BY <1>1, <1>2 DEF CodedAs
<1>6. TextCoded(f, e, e, e)
  BY <1>4, <1>5 DEF TextCoded
<1>. QED
  BY <1>3, <1>6 DEF e

LEMMA CodecSteps == CodecIInv /\ [CodecNext]_codecVars => CodecIInv'
<1>. SUFFICES ASSUME CodecIInv, [CodecNext]_codecVars PROVE CodecIInv'
  OBVIOUS
<1>1. CASE Join
  <2>1. Grove(trees, Chars) /\ Len(trees) > 1 /\ coding = "build" /\ NothingCoded
    BY <1>1 DEF CodecIInv, Join
  <2>2. JoinedAs(trees, trees')
    BY <1>1 DEF JoinedAs, Join
  <2>3. Grove(trees', Chars)
    BY <2>1, <2>2, JoinGrove
  <2>4. coding' = "build" /\ NothingCoded'
    BY <1>1, <2>1 DEF Join, NothingCoded
  <2>. QED
    BY <2>3, <2>4 DEF CodecIInv
<1>2. CASE ReadCodes
  <2>1. Grove(trees, Chars) /\ Len(trees) = 1 /\ NothingCoded
    BY <1>2 DEF CodecIInv, ReadCodes
  <2>2. Coding(codes')
    BY <1>2, <2>1, OneTree DEF ReadCodes
  <2>3. /\ coding' = "encode" /\ text' = <<>> /\ bytes' = <<>> /\ buf' = <<>>
        /\ at' = 0 /\ tmp' = <<>> /\ decoded' = <<>>
    BY <1>2, <2>1 DEF ReadCodes, NothingCoded
  <2>4. TextCoded(codes', text', bytes', buf') /\ Len(buf') < ByteBits
    <3>1. Len(<<>>) = 0
      OBVIOUS
    <3>. QED
      BY <2>3, <3>1, NothingEncoded
  <2>. QED
    BY <2>2, <2>3, <2>4 DEF CodecIInv
<1>3. ASSUME NEW c \in Chars, EncodeChar(c) PROVE CodecIInv'
  <2>1. /\ Coding(codes) /\ TextCoded(codes, text, bytes, buf)
        /\ at = 0 /\ tmp = <<>> /\ decoded = <<>> /\ coding = "encode"
    BY <1>3 DEF CodecIInv, EncodeChar
  <2>2. CharCoded(codes, c, bytes, buf, bytes', buf') /\ text' = Append(text, c)
    BY <1>3 DEF CharCoded, EncodeChar
  <2>3. TextCoded(codes, text', bytes', buf') /\ Len(buf') < ByteBits
    BY <2>1, <2>2, EncodeKeeps
  <2>4. /\ coding' = "encode" /\ codes' = codes /\ at' = 0 /\ tmp' = <<>> /\ decoded' = <<>>
    BY <1>3, <2>1 DEF EncodeChar
  <2>. QED
    BY <2>1, <2>3, <2>4 DEF CodecIInv
<1>4. CASE EndEncode
  <2>1. /\ Coding(codes) /\ TextCoded(codes, text, bytes, buf) /\ Len(buf) < ByteBits
        /\ at = 0 /\ tmp = <<>> /\ decoded = <<>>
    BY <1>4 DEF CodecIInv, EndEncode
  <2>2. bytes' = IF buf = <<>> THEN bytes ELSE Append(bytes, Padded(buf))
    BY <1>4 DEF EndEncode
  <2>3. PICK s, start : Ready(codes, text, bytes', s, start)
    BY <2>1, <2>2, PaddedReady
  <2>4. Decoding(codes, text, s, start, 0, <<>>, <<>>)
    BY <2>1, <2>3, BeginDecode DEF Ready
  <2>5. /\ coding' = "decode" /\ codes' = codes /\ text' = text
        /\ at' = 0 /\ tmp' = <<>> /\ decoded' = <<>>
    BY <1>4, <2>1 DEF EndEncode
  <2>6. /\ Ready(codes', text', bytes', s, start)
        /\ Decoding(codes', text', s, start, at', tmp', decoded')
    BY <2>3, <2>4, <2>5
  <2>. QED
    BY <2>1, <2>5, <2>6 DEF CodecIInv
<1>5. CASE DecodeBit
  <2>1. Coding(codes) /\ coding = "decode" /\ at < Len(BitString)
    BY <1>5 DEF CodecIInv, DecodeBit
  <2>2. PICK s, start : /\ Ready(codes, text, bytes, s, start)
                        /\ Decoding(codes, text, s, start, at, tmp, decoded)
    BY <2>1 DEF CodecIInv
  <2>3. Len(BitString) = Len(s) /\ \A k \in 1 .. Len(s) : BitString[k] = s[k]
    BY <2>2, BitsAre DEF Ready
  <2>4. at \in Nat /\ Len(s) \in Nat /\ at < Len(s)
    BY <2>1, <2>2, <2>3, CodedIs DEF Decoding, Ready
  <2>5. BitString[at + 1] = s[at + 1]
    BY <2>3, <2>4
  <2>6. DecodedAs(codes, tmp, decoded, BitString[at + 1], tmp', decoded')
    BY <1>5 DEF DecodedAs, DecodeBit
  <2>7. DecodedAs(codes, tmp, decoded, s[at + 1], tmp', decoded')
    BY <2>5, <2>6
  <2>8. Decoding(codes, text, s, start, at + 1, tmp', decoded')
    BY <2>1, <2>2, <2>4, <2>7, DecodeKeeps
  <2>9. at' = at + 1 /\ coding' = "decode" /\ codes' = codes /\ text' = text /\ bytes' = bytes
    BY <1>5 DEF DecodeBit
  <2>10. /\ Ready(codes', text', bytes', s, start)
         /\ Decoding(codes', text', s, start, at', tmp', decoded')
    BY <2>2, <2>8, <2>9
  <2>. QED
    BY <2>1, <2>9, <2>10 DEF CodecIInv
<1>6. CASE EndDecode
  <2>1. Coding(codes) /\ coding = "decode" /\ at = Len(BitString)
    BY <1>6 DEF CodecIInv, EndDecode
  <2>2. PICK s, start : /\ Ready(codes, text, bytes, s, start)
                        /\ Decoding(codes, text, s, start, at, tmp, decoded)
    BY <2>1 DEF CodecIInv
  <2>3. Len(BitString) = Len(s)
    BY <2>2, BitsAre DEF Ready
  <2>4. CodedAs(codes, text, s, start)
    BY <2>2 DEF Ready
  <2>5. Len(decoded) >= Len(text)
    BY <2>1, <2>2, <2>3, <2>4, DecodeEnds
  <2>6. /\ text \in Seq(Chars) /\ decoded \in Seq(Chars)
        /\ Len(text) \in Nat /\ Len(decoded) \in Nat
    <3>1. text \in Seq(Chars) /\ decoded \in Seq(Chars)
      BY <2>2, <2>4 DEF CodedAs, Decoding
    <3>. QED
      BY <3>1
  <2>7. /\ \A k \in 1 .. Len(decoded) : k <= Len(text) => decoded[k] = text[k]
        /\ \A k \in Len(text) + 1 .. Len(decoded) :
             \A m \in 1 .. Len(codes[decoded[k]]) : codes[decoded[k]][m] = 0
    BY <2>2 DEF Decoding
  <2>8. \A k \in 1 .. Len(text) : text[k] = decoded[k]
    BY <2>5, <2>6, <2>7
  <2>9. coding' = "done" /\ codes' = codes /\ text' = text /\ decoded' = decoded
    BY <1>6 DEF EndDecode
  <2>10. Len(text) <= Len(decoded)
    BY <2>5, <2>6
  <2>. QED
    BY <2>1, <2>6, <2>7, <2>8, <2>9, <2>10 DEF CodecIInv
<1>7. CASE UNCHANGED codecVars
  BY <1>7 DEF CodecIInv, codecVars, NothingCoded, TextCoded
<1>. QED
  BY <1>1, <1>2, <1>3, <1>4, <1>5, <1>6, <1>7 DEF CodecNext

LEMMA CodecDecodes == CodecIInv => DecodesText
<1>. SUFFICES ASSUME CodecIInv, coding = "done"
              PROVE  /\ IsPrefix(text, decoded)
                     /\ \A k \in Len(text) + 1 .. Len(decoded) : 1 \notin ToSet(codes[decoded[k]])
  BY DEF DecodesText
<1>1. /\ text \in Seq(Chars) /\ decoded \in Seq(Chars) /\ Len(text) <= Len(decoded)
      /\ \A k \in 1 .. Len(text) : text[k] = decoded[k]
      /\ \A k \in Len(text) + 1 .. Len(decoded) :
            \A m \in 1 .. Len(codes[decoded[k]]) : codes[decoded[k]][m] = 0
  BY DEF CodecIInv
<1>2. IsPrefix(text, decoded)
  BY <1>1, PrefixIs
<1>3. ASSUME NEW k \in Len(text) + 1 .. Len(decoded) PROVE 1 \notin ToSet(codes[decoded[k]])
  <2>. DEFINE a == codes[decoded[k]]
  <2>1. decoded[k] \in Chars
    <3>1. Len(text) \in Nat /\ Len(decoded) \in Nat
      BY <1>1
    <3>2. k \in 1 .. Len(decoded)
      BY <3>1
    <3>. QED
      BY <1>1, <3>2
  <2>2. a \in Seq(Nat)
    BY <2>1, CodesNotEmpty DEF CodecIInv
  <2>3. \A m \in 1 .. Len(a) : a[m] = 0
    BY <1>1
  <2>. HIDE DEF a
  <2>4. DOMAIN a = 1 .. Len(a)
    BY <2>2
  <2>5. 1 \notin ToSet(a)
    BY <2>3, <2>4 DEF ToSet
  <2>. QED
    BY <2>5 DEF a
<1>. QED
  BY <1>2, <1>3

(* What the codec decodes is the text it encoded, then at most characters    *)
(* coded by zeros alone: HuffmanTree::build gives no character a code that   *)
(* is the head of another's, whatever the weights and the order.             *)
THEOREM CodecDecodesText == CodecSpec => []DecodesText
<1>. QED
  BY CodecBegins, CodecSteps, CodecDecodes, PTL DEF CodecSpec

=============================================================================
