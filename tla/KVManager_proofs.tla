-------------------------- MODULE KVManager_proofs --------------------------
(* Proofs about KVManager.tla.                                               *)
EXTENDS KVManager, TLAPS, FiniteSetTheorems, SequenceTheorems, WellFoundedInduction

-----------------------------------------------------------------------------
(* Folds.  A fold over a sequence is a walk through its intermediate values, *)
(* which exist as long as each step stays in some set.                       *)

(* Induction over the natural numbers, for a set.                            *)
LEMMA SetInduction ==
  ASSUME NEW G \in SUBSET Nat, 0 \in G, \A k \in G : k + 1 \in G
  PROVE  G = Nat
<1>. DEFINE T == Nat \ G
<1>. SUFFICES ASSUME T # {} PROVE FALSE
  OBVIOUS
<1>1. PICK r \in T : \A x \in T : ~(<<x, r>> \in OpToRel(<, Nat))
  BY NatLessThanWellFounded, WFMin
<1>2. \A x \in T : ~(x < r)
  BY <1>1, Zenon DEF OpToRel
<1>3. r # 0 /\ r - 1 \in Nat
  OBVIOUS
<1>4. r - 1 \in G
  BY <1>2, <1>3
<1>. QED BY <1>3, <1>4

(* Induction up to a bound.                                                  *)
LEMMA UpTo ==
  ASSUME NEW n \in Nat, NEW G, 0 \in G, \A k \in 1 .. n : k - 1 \in G => k \in G
  PROVE  \A k \in 0 .. n : k \in G
<1>. DEFINE H == {k \in Nat : k <= n => k \in G}
<1>1. 0 \in H
  OBVIOUS
<1>2. \A k \in H : k + 1 \in H
  <2>. SUFFICES ASSUME NEW k \in H, k + 1 <= n PROVE k + 1 \in G
    OBVIOUS
  <2>1. k \in G /\ k + 1 \in 1 .. n /\ (k + 1) - 1 = k
    OBVIOUS
  <2>. QED BY <2>1
<1>3. H = Nat
  <2>. HIDE DEF H
  <2>1. H \in SUBSET Nat
    BY DEF H
  <2>. QED BY <1>1, <1>2, <2>1, SetInduction
<1>. QED BY <1>3

LEMMA MaxOfInterval ==
  ASSUME NEW n \in Nat \ {0}
  PROVE  Max(1 .. n) = n
  BY DEF Max

LEMMA MaxIs ==
  ASSUME NEW k \in Nat, NEW s \in SUBSET (1 .. k + 1), s # {}
  PROVE  /\ k + 1 \in s => Max(s) = k + 1
         /\ k + 1 \notin s => s \in SUBSET (1 .. k)
<1>1. ASSUME k + 1 \in s PROVE Max(s) = k + 1
  <2>1. \A y \in s : k + 1 >= y
    OBVIOUS
  <2>2. \A x \in s : (\A y \in s : x >= y) => x = k + 1
    BY <1>1
  <2>. QED BY <1>1, <2>1, <2>2 DEF Max
<1>. QED BY <1>1

(* The function a fold is defined by.                                        *)
Folds(h, U, base, G, n) ==
  /\ h \in [SUBSET (1 .. n) -> U]
  /\ \A s \in SUBSET (1 .. n) :
       h[s] = IF s = {} THEN base ELSE G[<<h[s \ {Max(s)}], Max(s)>>]

LEMMA FoldExists ==
  ASSUME NEW U, NEW base \in U, NEW n \in Nat, NEW G \in [U \X (1 .. n) -> U]
  PROVE  \E h : Folds(h, U, base, G, n)
<1>. DEFINE K == {k \in Nat : \E h : Folds(h, U, base, G, k)}
<1>1. 0 \in K
  <2>1. SUBSET (1 .. 0) = {{}}
    OBVIOUS
  <2>2. Folds([s \in {{}} |-> base], U, base, G, 0)
    BY <2>1 DEF Folds
  <2>. QED BY <2>2
<1>2. ASSUME NEW k \in 1 .. n, k - 1 \in K PROVE k \in K
  <2>1. PICK h : Folds(h, U, base, G, k - 1)
    BY <1>2
  <2>. DEFINE g == [s \in SUBSET (1 .. k) |->
                      IF k \in s THEN G[<<h[s \ {k}], k>>] ELSE h[s]]
  <2>2. ASSUME NEW s \in SUBSET (1 .. k)
        PROVE  g[s] \in U /\ g[s] = IF s = {} THEN base ELSE G[<<g[s \ {Max(s)}], Max(s)>>]
    <3>1. CASE k \in s
      <4>1. Max(s) = k
        BY <3>1, MaxIs, k - 1 \in Nat, (k - 1) + 1 = k
      <4>2. s \ {k} \in SUBSET (1 .. k - 1) /\ s \ {k} \in SUBSET (1 .. k) /\ k \notin s \ {k}
        OBVIOUS
      <4>3. g[s \ {k}] = h[s \ {k}] /\ h[s \ {k}] \in U
        BY <2>1, <4>2 DEF Folds
      <4>4. g[s] = G[<<h[s \ {k}], k>>] /\ s # {}
        BY <3>1
      <4>5. G[<<h[s \ {k}], k>>] \in U
        BY <4>3
      <4>. HIDE DEF g
      <4>. QED BY <4>1, <4>3, <4>4, <4>5
    <3>2. CASE k \notin s
      <4>1. s \in SUBSET (1 .. k - 1) /\ g[s] = h[s]
        BY <3>2
      <4>2. CASE s = {}
        BY <2>1, <4>1, <4>2 DEF Folds
      <4>3. CASE s # {}
        <5>1. s \ {Max(s)} \in SUBSET (1 .. k) /\ k \notin s \ {Max(s)}
          BY <3>2
        <5>2. g[s \ {Max(s)}] = h[s \ {Max(s)}]
          BY <5>1
        <5>3. h[s] \in U /\ h[s] = G[<<h[s \ {Max(s)}], Max(s)>>]
          BY <2>1, <4>1, <4>3 DEF Folds
        <5>. HIDE DEF g
        <5>. QED BY <4>1, <4>3, <5>2, <5>3
      <4>. QED BY <4>2, <4>3
    <3>. QED BY <3>1, <3>2
  <2>3. Folds(g, U, base, G, k)
    <3>1. g = [s \in SUBSET (1 .. k) |-> g[s]]
      OBVIOUS
    <3>. HIDE DEF g
    <3>2. g \in [SUBSET (1 .. k) -> U]
      BY <2>2, <3>1
    <3>. QED BY <2>2, <3>2 DEF Folds
  <2>. QED BY <2>3
<1>3. n \in K
  <2>. HIDE DEF K
  <2>. QED BY <1>1, <1>2, UpTo
<1>. QED BY <1>3

LEMMA MaxIn ==
  ASSUME NEW n \in Nat, NEW s \in SUBSET (1 .. n), s # {}
  PROVE  Max(s) \in 1 .. n /\ s \ {Max(s)} \in SUBSET (1 .. n)
<1>. DEFINE K == {k \in Nat : \A r \in SUBSET (1 .. k) : r # {} => Max(r) \in 1 .. k}
<1>1. 0 \in K
  <2>1. 1 .. 0 = {}
    OBVIOUS
  <2>. QED BY <2>1
<1>2. ASSUME NEW k \in K PROVE k + 1 \in K
  <2>. SUFFICES ASSUME NEW r \in SUBSET (1 .. k + 1), r # {} PROVE Max(r) \in 1 .. k + 1
    OBVIOUS
  <2>1. CASE k + 1 \in r
    BY <2>1, MaxIs
  <2>2. CASE k + 1 \notin r
    <3>1. r \in SUBSET (1 .. k)
      BY <2>2, MaxIs
    <3>. QED BY <3>1
  <2>. QED BY <2>1, <2>2
<1>3. K = Nat
  <2>. HIDE DEF K
  <2>1. K \in SUBSET Nat
    BY DEF K
  <2>. QED BY <1>1, <1>2, <2>1, SetInduction
<1>. QED BY <1>3

(* The walk of a function that is defined like a fold: its values after each *)
(* number of elements.                                                       *)
Walk(it, n) == [k \in 0 .. n |-> it[1 .. k]]

(* The function's equation, as far as its values are known to be in U.       *)
Recurs(it, U, base, G, n) ==
  /\ it[{}] = base
  /\ \A s \in SUBSET (1 .. n) : s # {} /\ it[s \ {Max(s)}] \in U =>
       it[s] = G[<<it[s \ {Max(s)}], Max(s)>>]

Walks(f, U, base, G, n) ==
  /\ f \in [0 .. n -> U]
  /\ f[0] = base
  /\ \A k \in 1 .. n : f[k] = G[<<f[k - 1], k>>]

LEMMA WalkOf ==
  ASSUME NEW n \in Nat, NEW U, NEW base \in U, NEW G \in [U \X (1 .. n) -> U], NEW it,
         Recurs(it, U, base, G, n)
  PROVE  Walks(Walk(it, n), U, base, G, n) /\ Walk(it, n)[n] = it[1 .. n]
<1>. DEFINE f == Walk(it, n)
            K == {k \in 0 .. n : f[k] \in U}
<1>1. f[0] = base
  <2>1. 1 .. 0 = {}
    OBVIOUS
  <2>. QED BY <2>1 DEF Walk, Recurs
<1>2. ASSUME NEW k \in 1 .. n, f[k - 1] \in U
      PROVE  f[k] = G[<<f[k - 1], k>>] /\ f[k] \in U
  <2>1. (1 .. k) \ {k} = 1 .. k - 1 /\ 1 .. k # {} /\ 1 .. k \in SUBSET (1 .. n)
    <3>. HIDE DEF f
    <3>1. \A x \in Int : x \in (1 .. k) \ {k} <=> x \in 1 .. k - 1
      OBVIOUS
    <3>2. k \in 1 .. k /\ \A x \in 1 .. k : x \in 1 .. n
      OBVIOUS
    <3>. QED BY <3>1, <3>2
  <2>2. Max(1 .. k) = k
    BY MaxOfInterval
  <2>3. f[k] = it[1 .. k] /\ f[k - 1] = it[1 .. k - 1]
    BY DEF Walk
  <2>. HIDE DEF f
  <2>4. f[k] = G[<<f[k - 1], k>>]
    BY <1>2, <2>1, <2>2, <2>3 DEF Recurs
  <2>. QED BY <1>2, <2>4
<1>3. \A k \in 0 .. n : k \in K
  <2>1. 0 \in K
    BY <1>1
  <2>2. ASSUME NEW k \in 1 .. n, k - 1 \in K PROVE k \in K
    <3>1. f[k - 1] \in U
      BY <2>2
    <3>2. f[k] \in U
      BY <1>2, <3>1
    <3>3. k \in 0 .. n
      OBVIOUS
    <3>. HIDE DEF f
    <3>. QED BY <3>2, <3>3
  <2>. HIDE DEF K
  <2>. QED BY <2>1, <2>2, UpTo
<1>4. f \in [0 .. n -> U] /\ f[n] = it[1 .. n]
  BY <1>3 DEF Walk
<1>5. ASSUME NEW k \in 1 .. n PROVE f[k] = G[<<f[k - 1], k>>]
  <2>1. k - 1 \in 0 .. n
    OBVIOUS
  <2>2. f[k - 1] \in U
    BY <1>3, <2>1
  <2>. QED BY <1>2, <2>2
<1>. HIDE DEF f
<1>6. Walks(f, U, base, G, n)
  BY <1>1, <1>4, <1>5 DEF Walks
<1>. QED BY <1>4, <1>6 DEF f

-----------------------------------------------------------------------------
(* Types.                                                                    *)

ByteSet == Bytes \cup {Pad, Blank}
PageData == [1 .. PageBytes -> ByteSet]
EntryRecord == [offset : Int, len : Nat, archived_len : Nat, page_pointer : Int]
Entry == {e \in EntryRecord : e.len <= e.archived_len /\ e.archived_len > 0}
Objects == [size : Int, entries : Seq(Entry)]
InfoRecord == [used_map : [Offsets -> Statuses], reserved_size : Int, reserved_offset : Int,
               clean_num : Int, dirty_num : Int, used_num : Int]
DirtyIn(info) == {o \in Offsets : info.used_map[o] = Dirty}
Info == {info \in InfoRecord : info.dirty_num = Cardinality(DirtyIn(info))}
Panics == {"bad_address", "reserve_underflow", "no_room", "no_object", "collects_forever"}

(* The states an operation goes through.                                     *)
States == [table : [Blocks -> Info], flash : [Pages -> PageData],
           objects : [Inos -> Objects \cup {NoObject}], live : SUBSET Inos,
           status : {"running"} \cup Panics]

LEMMA AddressIs ==
  ASSUME NEW a \in Pages
  PROVE  /\ a \in Nat
         /\ BlockOf(a) \in Blocks /\ OffsetOf(a) \in Offsets
         /\ a = Address(BlockOf(a), OffsetOf(a))
  BY BlockInfoAssumption, SMTT(30) DEF Pages, Blocks, Offsets, BlockOf, OffsetOf, Address

LEMMA SetPageRecord ==
  ASSUME NEW info \in InfoRecord, NEW o, NEW s \in Statuses
  PROVE  SetPage(info, o, s) \in InfoRecord
<1>. DEFINE i == Count(s \in Inos)
            c0 == Count(info.used_map[o] = Clean)
            c1 == Count(s = Clean)
            d0 == Count(info.used_map[o] = Dirty)
            d1 == Count(s = Dirty)
            u0 == Count(info.used_map[o] \in Inos)
<1>2. i \in Int /\ c0 \in Int /\ c1 \in Int /\ d0 \in Int /\ d1 \in Int /\ u0 \in Int
  <2>1. \A c : Count(c) \in Int
    BY DEF Count
  <2>. QED BY <2>1, Zenon
<1>3. SetPage(info, o, s) =
        [used_map        |-> [info.used_map EXCEPT ![o] = s],
         reserved_size   |-> info.reserved_size - i,
         reserved_offset |-> info.reserved_offset + i,
         clean_num       |-> info.clean_num - c0 + c1,
         dirty_num       |-> info.dirty_num - d0 + d1,
         used_num        |-> info.used_num - u0 + i]
  BY DEF SetPage
<1>. HIDE DEF i, c0, c1, d0, d1, u0
<1>4. [info.used_map EXCEPT ![o] = s] \in [Offsets -> Statuses]
  BY DEF InfoRecord
<1>. QED BY <1>2, <1>3, <1>4 DEF InfoRecord

(* The dirty pages stay counted.                                             *)
LEMMA SetPageTyped ==
  ASSUME NEW info \in Info, NEW o \in Offsets, NEW s \in Statuses
  PROVE  SetPage(info, o, s) \in Info
<1>. DEFINE t == SetPage(info, o, s)
            D == DirtyIn(info)
            E == DirtyIn(t)
            c0 == Count(info.used_map[o] = Dirty)
            c1 == Count(s = Dirty)
<1>1. info \in InfoRecord /\ info.dirty_num = Cardinality(D)
  BY DEF Info
<1>2. t \in InfoRecord
  BY <1>1, SetPageRecord
<1>3. /\ t.used_map = [info.used_map EXCEPT ![o] = s]
      /\ t.dirty_num = info.dirty_num - c0 + c1
  BY DEF SetPage
<1>4. /\ info.used_map[o] = Dirty => c0 = 1
      /\ info.used_map[o] # Dirty => c0 = 0
      /\ s = Dirty => c1 = 1
      /\ s # Dirty => c1 = 0
  BY DEF Count
<1>. HIDE DEF t, c0, c1
<1>5. \A p \in Offsets : t.used_map[p] = IF p = o THEN s ELSE info.used_map[p]
  BY <1>1, <1>3 DEF InfoRecord
<1>6. /\ s = Dirty => E = D \cup {o}
      /\ s # Dirty => E = D \ {o}
      /\ o \in D <=> info.used_map[o] = Dirty
  BY <1>5 DEF DirtyIn
<1>7. IsFiniteSet(D) /\ Cardinality(D) \in Nat
  <2>1. D \subseteq Offsets /\ IsFiniteSet(Offsets)
    BY BlockInfoAssumption, FS_Interval DEF DirtyIn, Offsets
  <2>. QED BY <2>1, FS_Subset, FS_CardinalityType
<1>. HIDE DEF D, E
<1>8. /\ o \in D => /\ Cardinality(D \cup {o}) = Cardinality(D)
                    /\ Cardinality(D \ {o}) = Cardinality(D) - 1
      /\ o \notin D => /\ Cardinality(D \cup {o}) = Cardinality(D) + 1
                       /\ Cardinality(D \ {o}) = Cardinality(D)
  BY <1>7, FS_AddElement, FS_RemoveElement
<1>9. t.dirty_num = Cardinality(E)
  <2>1. CASE s = Dirty /\ o \in D
    <3>1. Cardinality(E) = Cardinality(D)
      BY <1>6, <1>8, <2>1, Zenon
    <3>2. c0 = 1 /\ c1 = 1
      BY <1>4, <1>6, <2>1
    <3>. QED BY <1>1, <1>3, <1>7, <3>1, <3>2
  <2>2. CASE s = Dirty /\ o \notin D
    <3>1. Cardinality(E) = Cardinality(D) + 1
      BY <1>6, <1>8, <2>2, Zenon
    <3>2. c0 = 0 /\ c1 = 1
      BY <1>4, <1>6, <2>2
    <3>. QED BY <1>1, <1>3, <1>7, <3>1, <3>2
  <2>3. CASE s # Dirty /\ o \in D
    <3>1. Cardinality(E) = Cardinality(D) - 1
      BY <1>6, <1>8, <2>3, Zenon
    <3>2. c0 = 1 /\ c1 = 0
      BY <1>4, <1>6, <2>3
    <3>. QED BY <1>1, <1>3, <1>7, <3>1, <3>2
  <2>4. CASE s # Dirty /\ o \notin D
    <3>1. Cardinality(E) = Cardinality(D)
      BY <1>6, <1>8, <2>4, Zenon
    <3>2. c0 = 0 /\ c1 = 0
      BY <1>4, <1>6, <2>4
    <3>. QED BY <1>1, <1>3, <1>7, <3>1, <3>2
  <2>. QED BY <2>1, <2>2, <2>3, <2>4
<1>. QED BY <1>2, <1>9 DEF Info, t, E

LEMMA SetPageAtTyped ==
  ASSUME NEW m \in States, NEW a, NEW s \in Statuses
  PROVE  SetPageAt(m, a, s) \in States
<1>1. CASE a \in Pages /\ Running(m)
  <2>1. SetPage(m.table[BlockOf(a)], OffsetOf(a), s) \in Info
    BY <1>1, AddressIs, SetPageTyped DEF States
  <2>. QED BY <1>1, <2>1 DEF SetPageAt, States, Panic, Panics
<1>2. CASE ~(a \in Pages /\ Running(m))
  BY <1>2 DEF SetPageAt, States, Panic, Panics
<1>. QED BY <1>1, <1>2

LEMMA DropPagesIs ==
  ASSUME NEW m \in States, NEW a, NEW n \in Nat
  PROVE  \E f \in [0 .. n -> States] :
           /\ f[0] = m /\ f[n] = DropPages(m, a, n)
           /\ \A k \in 1 .. n : f[k] = SetPageAt(f[k - 1], a + k - 1, Dirty)
<1>. DEFINE G == [x \in States \X (1 .. n) |-> SetPageAt(x[1], a + x[2] - 1, Dirty)]
            Def(it) == [s \in SUBSET (1 .. n) |->
                         IF s = {} THEN m
                         ELSE SetPageAt(it[s \ {Max(s)}], a + [i \in 1 .. n |-> i][Max(s)] - 1, Dirty)]
            iter == CHOOSE it : it = Def(it)
<1>1. G \in [States \X (1 .. n) -> States]
  BY SetPageAtTyped DEF Statuses
<1>2. DropPages(m, a, n) = iter[1 .. n]
  BY DEF DropPages, FoldLeft, MapThenFoldSet
<1>3. PICK h : Folds(h, States, m, G, n)
  BY <1>1, FoldExists
<1>4. h = Def(h)
  BY <1>3, MaxIn DEF Folds
<1>5. iter = Def(iter)
  BY <1>4
<1>. HIDE DEF iter
<1>6. Recurs(iter, States, m, G, n)
  BY <1>5, MaxIn DEF Recurs
<1>7. Walks(Walk(iter, n), States, m, G, n) /\ Walk(iter, n)[n] = iter[1 .. n]
  <2>. HIDE DEF G
  <2>. QED BY <1>1, <1>6, WalkOf
<1>. DEFINE f == Walk(iter, n)
<1>. HIDE DEF f
<1>8. /\ f \in [0 .. n -> States] /\ f[0] = m /\ f[n] = iter[1 .. n]
      /\ \A k \in 1 .. n : f[k] = G[<<f[k - 1], k>>]
  BY <1>7 DEF Walks, f
<1>9. \A k \in 1 .. n : f[k] = SetPageAt(f[k - 1], a + k - 1, Dirty)
  <2>1. \A k \in 1 .. n : k - 1 \in 0 .. n
    OBVIOUS
  <2>. QED BY <1>8, <2>1
<1>. QED BY <1>2, <1>8, <1>9

-----------------------------------------------------------------------------
(* Pages.                                                                    *)

Use(m, a) == m.table[BlockOf(a)].used_map[OffsetOf(a)]

LEMMA AddressOf ==
  ASSUME NEW b \in Blocks, NEW o \in Offsets
  PROVE  Address(b, o) \in Pages /\ BlockOf(Address(b, o)) = b /\ OffsetOf(Address(b, o)) = o
<1>1. b \in Nat /\ o \in Nat /\ o < PagesPerBlock /\ b + 1 <= BlockCount /\ PagesPerBlock \in Nat
  BY BlockInfoAssumption DEF Blocks, Offsets
<1>2. Address(b, o) = b * PagesPerBlock + o /\ b * PagesPerBlock \in Nat
  BY <1>1 DEF Address
<1>3. (b + 1) * PagesPerBlock <= BlockCount * PagesPerBlock
  BY <1>1, BlockInfoAssumption
<1>4. (b + 1) * PagesPerBlock = b * PagesPerBlock + PagesPerBlock
  BY <1>1
<1>5. BlockCount * PagesPerBlock \in Nat /\ (b + 1) * PagesPerBlock \in Nat
  BY <1>1, BlockInfoAssumption
<1>6. Address(b, o) \in Pages
  BY <1>1, <1>2, <1>3, <1>4, <1>5 DEF Pages
<1>7. BlockOf(Address(b, o)) = b /\ OffsetOf(Address(b, o)) = o
  BY <1>1, <1>2, SMTT(30) DEF BlockOf, OffsetOf
<1>. QED BY <1>6, <1>7

LEMMA SamePage ==
  ASSUME NEW a \in Pages, NEW p \in Pages, BlockOf(a) = BlockOf(p), OffsetOf(a) = OffsetOf(p)
  PROVE  a = p
  BY AddressIs

(* A page set in a server that runs: only the status and the counters change.*)
LEMMA SetPageAtDone ==
  ASSUME NEW m \in States, Running(m), NEW a \in Pages, NEW s \in Statuses,
         s \in Inos => m.table[BlockOf(a)].reserved_size # 0,
         NEW t, t = SetPageAt(m, a, s)
  PROVE  /\ t \in States
         /\ t.flash = m.flash /\ t.objects = m.objects /\ t.live = m.live /\ t.status = m.status
         /\ \A p \in Pages : Use(t, p) = IF p = a THEN s ELSE Use(m, p)
         /\ \A b \in Blocks :
              LET n == IF b = BlockOf(a) /\ s \in Inos THEN 1 ELSE 0 IN
              /\ t.table[b].reserved_offset = m.table[b].reserved_offset + n
              /\ t.table[b].reserved_size = m.table[b].reserved_size - n
<1>. DEFINE info == SetPage(m.table[BlockOf(a)], OffsetOf(a), s)
<1>1. BlockOf(a) \in Blocks /\ OffsetOf(a) \in Offsets
  BY AddressIs
<1>2. t = [m EXCEPT !.table[BlockOf(a)] = info]
  BY DEF SetPageAt
<1>3. t \in States
  BY SetPageAtTyped
<1>4. /\ info.used_map = [m.table[BlockOf(a)].used_map EXCEPT ![OffsetOf(a)] = s]
      /\ info.reserved_offset = m.table[BlockOf(a)].reserved_offset + Count(s \in Inos)
      /\ info.reserved_size = m.table[BlockOf(a)].reserved_size - Count(s \in Inos)
  BY DEF SetPage
<1>. HIDE DEF info
<1>5. /\ t.flash = m.flash /\ t.objects = m.objects /\ t.live = m.live /\ t.status = m.status
      /\ t.table = [m.table EXCEPT ![BlockOf(a)] = info]
  BY <1>2 DEF States
<1>6. m.table \in [Blocks -> Info]
  BY DEF States
<1>7. ASSUME NEW p \in Pages PROVE Use(t, p) = IF p = a THEN s ELSE Use(m, p)
  <2>1. BlockOf(p) \in Blocks /\ OffsetOf(p) \in Offsets
    BY AddressIs
  <2>2. m.table[BlockOf(a)].used_map \in [Offsets -> Statuses]
    BY <1>1, <1>6 DEF Info, InfoRecord
  <2>3. CASE BlockOf(p) # BlockOf(a)
    BY <2>1, <2>3, <1>5, <1>6 DEF Use
  <2>4. CASE BlockOf(p) = BlockOf(a)
    <3>1. Use(t, p) = info.used_map[OffsetOf(p)]
      BY <1>1, <1>5, <1>6, <2>4 DEF Use
    <3>2. p = a <=> OffsetOf(p) = OffsetOf(a)
      BY <2>4, SamePage
    <3>. QED BY <1>1, <1>4, <2>1, <2>2, <2>4, <3>1, <3>2 DEF Use
  <2>. QED BY <2>3, <2>4
<1>8. ASSUME NEW b \in Blocks, NEW n, n = IF b = BlockOf(a) /\ s \in Inos THEN 1 ELSE 0
      PROVE  /\ t.table[b].reserved_offset = m.table[b].reserved_offset + n
             /\ t.table[b].reserved_size = m.table[b].reserved_size - n
  <2>1. m.table[b].reserved_offset \in Int /\ m.table[b].reserved_size \in Int
    BY <1>6 DEF Info, InfoRecord
  <2>2. CASE b # BlockOf(a)
    BY <1>5, <1>6, <1>8, <2>1, <2>2
  <2>3. CASE b = BlockOf(a)
    <3>1. t.table[b] = info
      BY <1>5, <1>6, <2>3
    <3>2. Count(s \in Inos) = IF s \in Inos THEN 1 ELSE 0
      BY DEF Count
    <3>. QED BY <1>4, <1>8, <2>3, <3>1, <3>2
  <2>. QED BY <2>2, <2>3
<1>. QED BY <1>3, <1>5, <1>7, <1>8

(* A page set at any address: if the process aborts, only the status tells.  *)
LEMMA SetPageAtAny ==
  ASSUME NEW m \in States, NEW a, NEW s \in Statuses, NEW t, t = SetPageAt(m, a, s)
  PROVE  \/ t = m /\ ~Running(m)
         \/ /\ ~Running(t)
            /\ t.table = m.table /\ t.flash = m.flash /\ t.objects = m.objects /\ t.live = m.live
         \/ /\ Running(m) /\ a \in Pages
            /\ s \in Inos => m.table[BlockOf(a)].reserved_size # 0
  BY DEF SetPageAt, Panic, Running, States, Panics

(* Dropping pages leaves the reserves and the contents alone, and sets the   *)
(* pages dirty if the process goes on.                                       *)
SameButUse(m, t) ==
  /\ Running(t) => Running(m)
  /\ t.flash = m.flash /\ t.objects = m.objects /\ t.live = m.live
  /\ \A a \in Pages : Use(t, a) \in Inos => Use(t, a) = Use(m, a)
  /\ \A b \in Blocks : /\ t.table[b].reserved_offset = m.table[b].reserved_offset
                       /\ t.table[b].reserved_size = m.table[b].reserved_size

LEMMA SetDirty ==
  ASSUME NEW m \in States, NEW a, NEW t, t = SetPageAt(m, a, Dirty)
  PROVE  /\ t \in States /\ SameButUse(m, t)
         /\ ~Running(m) => t = m
         /\ Running(m) /\ a \in Pages =>
              /\ Running(t)
              /\ \A p \in Pages : Use(t, p) = IF p = a THEN Dirty ELSE Use(m, p)
<1>. Dirty \in Statuses /\ Dirty \notin Inos
  BY BlockInfoAssumption DEF Statuses
<1>1. t \in States
  BY SetPageAtTyped
<1>2. CASE ~Running(m)
  BY <1>1, <1>2 DEF SetPageAt, SameButUse
<1>3. CASE Running(m) /\ a \in Pages
  <2>1. /\ t.flash = m.flash /\ t.objects = m.objects /\ t.live = m.live /\ t.status = m.status
        /\ \A p \in Pages : Use(t, p) = IF p = a THEN Dirty ELSE Use(m, p)
        /\ \A b \in Blocks :
             LET n == IF b = BlockOf(a) /\ Dirty \in Inos THEN 1 ELSE 0 IN
             /\ t.table[b].reserved_offset = m.table[b].reserved_offset + n
             /\ t.table[b].reserved_size = m.table[b].reserved_size - n
    BY <1>3, SetPageAtDone
  <2>2. \A b \in Blocks : m.table[b].reserved_offset \in Int /\ m.table[b].reserved_size \in Int
    BY DEF States, Info, InfoRecord
  <2>3. SameButUse(m, t)
    BY <1>3, <2>1, <2>2 DEF SameButUse
  <2>. QED BY <1>1, <1>3, <2>1, <2>3 DEF Running
<1>4. CASE Running(m) /\ a \notin Pages
  BY <1>1, <1>4, SetPageAtAny DEF SameButUse, Use
<1>. QED BY <1>2, <1>3, <1>4

LEMMA DropPagesDone ==
  ASSUME NEW m \in States, NEW a, NEW n \in Nat, NEW t, t = DropPages(m, a, n)
  PROVE  /\ t \in States /\ SameButUse(m, t)
         /\ ~Running(m) => t = m
         /\ Running(m) /\ a \in Int /\ (\A k \in 1 .. n : a + k - 1 \in Pages) =>
              /\ Running(t)
              /\ \A p \in Pages : Use(t, p) = IF p \in a .. a + n - 1 THEN Dirty ELSE Use(m, p)
<1>1. PICK f \in [0 .. n -> States] :
        /\ f[0] = m /\ f[n] = t
        /\ \A k \in 1 .. n : f[k] = SetPageAt(f[k - 1], a + k - 1, Dirty)
  BY DropPagesIs
<1>. DEFINE OK == Running(m) /\ a \in Int /\ (\A k \in 1 .. n : a + k - 1 \in Pages)
            G == {k \in 0 .. n :
                    /\ SameButUse(m, f[k])
                    /\ ~Running(m) => f[k] = m
                    /\ OK =>
                         /\ Running(f[k])
                         /\ \A p \in Pages :
                              Use(f[k], p) = IF p \in a .. a + k - 1 THEN Dirty ELSE Use(m, p)}
<1>2. 0 \in G
  BY <1>1 DEF SameButUse
<1>3. ASSUME NEW k \in 1 .. n, k - 1 \in G PROVE k \in G
  <2>. DEFINE s == f[k - 1]
  <2>1. s \in States /\ f[k] = SetPageAt(s, a + k - 1, Dirty) /\ k \in 0 .. n
    BY <1>1
  <2>2. /\ SameButUse(s, f[k])
        /\ ~Running(s) => f[k] = s
        /\ Running(s) /\ a + k - 1 \in Pages =>
              /\ Running(f[k])
              /\ \A p \in Pages : Use(f[k], p) = IF p = a + k - 1 THEN Dirty ELSE Use(s, p)
    BY <2>1, SetDirty
  <2>3. /\ SameButUse(m, s)
        /\ ~Running(m) => s = m
        /\ OK => /\ Running(s)
                 /\ \A p \in Pages : Use(s, p) = IF p \in a .. a + (k - 1) - 1 THEN Dirty ELSE Use(m, p)
    BY <1>3
  <2>. HIDE DEF s
  <2>4. SameButUse(m, f[k])
    BY <2>2, <2>3 DEF SameButUse
  <2>5. ASSUME OK
        PROVE  /\ Running(f[k])
               /\ \A p \in Pages : Use(f[k], p) = IF p \in a .. a + k - 1 THEN Dirty ELSE Use(m, p)
    <3>1. \A p \in Pages : p \in Int
      BY AddressIs
    <3>2. \A p \in Pages : p \in a .. a + k - 1 <=> p = a + k - 1 \/ p \in a .. a + (k - 1) - 1
      BY <2>5, <3>1
    <3>3. a + k - 1 \in Pages /\ Running(s)
      BY <2>3, <2>5
    <3>. HIDE DEF OK
    <3>. QED BY <2>2, <2>3, <2>5, <3>2, <3>3
  <2>6. ~Running(m) => f[k] = m
    BY <2>2, <2>3
  <2>. HIDE DEF OK
  <2>. QED BY <2>1, <2>4, <2>5, <2>6
<1>4. n \in G
  <2>. HIDE DEF G
  <2>. QED BY <1>2, <1>3, UpTo
<1>. QED BY <1>1, <1>4

-----------------------------------------------------------------------------
(* Programming.                                                              *)

LEMMA ProgramAtTyped ==
  ASSUME NEW m \in States, NEW a, NEW data \in PageData, NEW ino \in Inos
  PROVE  ProgramAt(m, a, data, ino) \in States
<1>1. SetPageAt(SetPageAt(m, a, Dirty), a, ino) \in States
  BY SetPageAtTyped DEF Statuses
<1>. QED BY <1>1 DEF ProgramAt, WritePage, States

(* A page with room for it in its block is programmed.                       *)
LEMMA ProgramAtDone ==
  ASSUME NEW m \in States, Running(m), NEW a \in Pages, NEW data \in PageData, NEW ino \in Inos,
         m.table[BlockOf(a)].reserved_size # 0, NEW t, t = ProgramAt(m, a, data, ino)
  PROVE  /\ t \in States /\ Running(t)
         /\ t.flash = [m.flash EXCEPT ![a] = data]
         /\ t.objects = m.objects /\ t.live = m.live
         /\ \A p \in Pages : Use(t, p) = IF p = a THEN ino ELSE Use(m, p)
         /\ \A b \in Blocks :
              LET n == IF b = BlockOf(a) THEN 1 ELSE 0 IN
              /\ t.table[b].reserved_offset = m.table[b].reserved_offset + n
              /\ t.table[b].reserved_size = m.table[b].reserved_size - n
<1>. DEFINE d == SetPageAt(m, a, Dirty)
            u == SetPageAt(d, a, ino)
<1>1. /\ d \in States /\ SameButUse(m, d) /\ Running(d)
      /\ \A p \in Pages : Use(d, p) = IF p = a THEN Dirty ELSE Use(m, p)
  BY SetDirty
<1>2. BlockOf(a) \in Blocks /\ ino \in Statuses
  BY AddressIs DEF Statuses
<1>3. d.table[BlockOf(a)].reserved_size # 0
  BY <1>1, <1>2 DEF SameButUse
<1>. HIDE DEF d
<1>4. /\ u \in States
      /\ u.flash = d.flash /\ u.objects = d.objects /\ u.live = d.live /\ u.status = d.status
      /\ \A p \in Pages : Use(u, p) = IF p = a THEN ino ELSE Use(d, p)
      /\ \A b \in Blocks :
           LET n == IF b = BlockOf(a) /\ ino \in Inos THEN 1 ELSE 0 IN
           /\ u.table[b].reserved_offset = d.table[b].reserved_offset + n
           /\ u.table[b].reserved_size = d.table[b].reserved_size - n
  BY <1>1, <1>2, <1>3, SetPageAtDone
<1>5. t = WritePage(u, a, data)
  BY DEF ProgramAt, d
<1>. HIDE DEF u
<1>6. t = [u EXCEPT !.flash[a] = data] /\ Running(u)
  BY <1>1, <1>4, <1>5 DEF WritePage, Running
<1>7. /\ t \in States /\ Running(t)
      /\ t.flash = [u.flash EXCEPT ![a] = data]
      /\ t.objects = u.objects /\ t.live = u.live /\ t.table = u.table
  BY <1>4, <1>6 DEF States, Running
<1>8. t.flash = [m.flash EXCEPT ![a] = data] /\ t.objects = m.objects /\ t.live = m.live
  BY <1>1, <1>4, <1>7 DEF SameButUse
<1>9. \A p \in Pages : Use(t, p) = IF p = a THEN ino ELSE Use(m, p)
  BY <1>1, <1>4, <1>7 DEF Use
<1>10. \A b \in Blocks :
              LET n == IF b = BlockOf(a) THEN 1 ELSE 0 IN
              /\ t.table[b].reserved_offset = m.table[b].reserved_offset + n
              /\ t.table[b].reserved_size = m.table[b].reserved_size - n
  BY <1>1, <1>4, <1>7 DEF SameButUse
<1>. QED BY <1>7, <1>8, <1>9, <1>10

(* Otherwise the process aborts, or has.                                     *)
LEMMA ProgramAtStops ==
  ASSUME NEW m \in States, NEW a, NEW data, NEW ino \in Inos,
         ~(Running(m) /\ a \in Pages /\ m.table[BlockOf(a)].reserved_size # 0),
         NEW t, t = ProgramAt(m, a, data, ino)
  PROVE  t \in States /\ SameButUse(m, t) /\ ~Running(t) /\ (~Running(m) => t = m)
<1>. DEFINE d == SetPageAt(m, a, Dirty)
            u == SetPageAt(d, a, ino)
<1>0. ino \in Statuses
  BY DEF Statuses
<1>1. /\ d \in States /\ SameButUse(m, d)
      /\ ~Running(m) => d = m
  BY SetDirty
<1>2. u \in States
  BY <1>0, <1>1, SetPageAtTyped
<1>3. ~Running(u) /\ SameButUse(d, u) /\ (~Running(m) => u = m)
  <2>1. CASE ~Running(m)
    BY <1>1, <2>1 DEF SetPageAt, SameButUse
  <2>2. CASE Running(m) /\ a \notin Pages
    BY <1>1, <2>2 DEF SetPageAt, SameButUse, Panic, Running, States, Panics, Use
  <2>3. CASE Running(m) /\ a \in Pages
    <3>1. BlockOf(a) \in Blocks
      BY <2>3, AddressIs
    <3>2. Running(d) /\ d.table[BlockOf(a)].reserved_size = 0
      BY <1>1, <2>3, <3>1, SetDirty DEF SameButUse
    <3>. HIDE DEF d
    <3>3. u = Panic(d, "reserve_underflow")
      BY <2>3, <3>2 DEF SetPageAt
    <3>. HIDE DEF u
    <3>. QED
      BY <1>1, <2>3, <3>3 DEF Panic, SameButUse, Running, States, Panics, Use
  <2>. QED BY <2>1, <2>2, <2>3
<1>. HIDE DEF d
<1>4. t = u
  BY <1>3 DEF ProgramAt, WritePage, d
<1>. HIDE DEF u
<1>. QED BY <1>1, <1>2, <1>3, <1>4 DEF SameButUse

ProgramSteps(f, m, at, pages, ino) ==
  /\ f \in [0 .. Len(pages) -> States]
  /\ f[0] = m /\ f[Len(pages)] = ProgramRun(m, at, pages, ino)
  /\ \A k \in 1 .. Len(pages) : f[k] = ProgramAt(f[k - 1], at + k - 1, pages[k], ino)

LEMMA ProgramRunIs ==
  ASSUME NEW m \in States, NEW at, NEW pages \in Seq(PageData), NEW ino \in Inos
  PROVE  \E f : ProgramSteps(f, m, at, pages, ino)
<1>. DEFINE n == Len(pages)
            G == [x \in States \X (1 .. n) |-> ProgramAt(x[1], at + x[2] - 1, pages[x[2]], ino)]
            Def(it) == [s \in SUBSET (1 .. n) |->
                         IF s = {} THEN m
                         ELSE ProgramAt(it[s \ {Max(s)}], at + [i \in 1 .. n |-> i][Max(s)] - 1,
                                        pages[[i \in 1 .. n |-> i][Max(s)]], ino)]
            iter == CHOOSE it : it = Def(it)
<1>0. n \in Nat /\ \A k \in 1 .. n : pages[k] \in PageData
  OBVIOUS
<1>1. G \in [States \X (1 .. n) -> States]
  BY <1>0, ProgramAtTyped
<1>2. ProgramRun(m, at, pages, ino) = iter[1 .. n]
  BY DEF ProgramRun, FoldLeft, MapThenFoldSet
<1>. HIDE DEF n
<1>3. PICK h : Folds(h, States, m, G, n)
  BY <1>0, <1>1, FoldExists
<1>4. h = Def(h)
  BY <1>0, <1>3, MaxIn DEF Folds
<1>5. iter = Def(iter)
  BY <1>4
<1>. HIDE DEF iter
<1>6. Recurs(iter, States, m, G, n)
  BY <1>0, <1>5, MaxIn DEF Recurs
<1>. DEFINE f == Walk(iter, n)
<1>7. Walks(f, States, m, G, n) /\ f[n] = iter[1 .. n]
  <2>. HIDE DEF G
  <2>. QED BY <1>0, <1>1, <1>6, WalkOf
<1>. HIDE DEF f
<1>8. /\ f \in [0 .. n -> States] /\ f[0] = m /\ f[n] = iter[1 .. n]
      /\ \A k \in 1 .. n : f[k] = G[<<f[k - 1], k>>]
  BY <1>7 DEF Walks
<1>9. \A k \in 1 .. n : f[k] = ProgramAt(f[k - 1], at + k - 1, pages[k], ino)
  <2>1. \A k \in 1 .. n : k - 1 \in 0 .. n
    BY <1>0
  <2>. QED BY <1>8, <2>1
<1>. QED BY <1>2, <1>8, <1>9 DEF n, ProgramSteps

(* The reserve of a block is its last pages, and they are erased.            *)
Reserved(m) ==
  \A b \in Blocks : /\ m.table[b].reserved_offset \in 0 .. PagesPerBlock
                    /\ m.table[b].reserved_size = PagesPerBlock - m.table[b].reserved_offset

BlankAbove(m) ==
  \A a \in Pages : OffsetOf(a) >= m.table[BlockOf(a)].reserved_offset => m.flash[a] = BlankPage

(* A page that has been programmed since its block was erased.               *)
Below(m, p) == OffsetOf(p) < m.table[BlockOf(p)].reserved_offset

(* Busy pages have been programmed.                                          *)
Marked(m) == \A a \in Pages : Use(m, a) \in Inos => Below(m, a)

(* Inodes that are gone have no object.                                      *)
OnlyLive(m) == Running(m) => \A i \in Inos \ m.live : m.objects[i] = NoObject

Sound(m) == m \in States /\ Reserved(m) /\ BlankAbove(m) /\ Marked(m) /\ OnlyLive(m)

(* No reserve has grown.                                                     *)
Shrunk(m, t) ==
  \A b \in Blocks : t.table[b].reserved_offset >= m.table[b].reserved_offset

LEMMA SameIsSound ==
  ASSUME NEW m, Sound(m), NEW t \in States, SameButUse(m, t)
  PROVE  Sound(t) /\ Shrunk(m, t) /\ Shrunk(t, m)
<1>1. Reserved(t) /\ Shrunk(m, t) /\ Shrunk(t, m)
  BY DEF Sound, Reserved, SameButUse, Shrunk
<1>2. BlankAbove(t)
  BY AddressIs DEF Sound, BlankAbove, SameButUse
<1>3. Marked(t)
  BY AddressIs DEF Sound, Marked, Below, SameButUse
<1>4. OnlyLive(t)
  BY DEF Sound, OnlyLive, SameButUse
<1>. QED BY <1>1, <1>2, <1>3, <1>4 DEF Sound

LEMMA ShrunkTrans ==
  ASSUME NEW m, Sound(m), NEW s, Sound(s), NEW t, Sound(t), Shrunk(m, s), Shrunk(s, t)
  PROVE  Shrunk(m, t)
  BY BlockInfoAssumption DEF Shrunk, Sound, Reserved

(* A page programmed at or below the reserve keeps it erased.                *)
LEMMA ProgramAtSound ==
  ASSUME NEW m, Sound(m), NEW a, NEW data \in PageData, NEW ino \in Inos,
         a \in Pages => OffsetOf(a) <= m.table[BlockOf(a)].reserved_offset,
         NEW t, t = ProgramAt(m, a, data, ino)
  PROVE  /\ Sound(t) /\ Shrunk(m, t) /\ t.objects = m.objects /\ t.live = m.live
         /\ Running(t) => /\ Running(m) /\ a \in Pages
                          /\ t.table[BlockOf(a)].reserved_offset
                               = m.table[BlockOf(a)].reserved_offset + 1
         /\ ~Running(m) => t = m
<1>1. CASE Running(m) /\ a \in Pages /\ m.table[BlockOf(a)].reserved_size # 0
  <2>1. /\ t \in States /\ Running(t)
        /\ t.flash = [m.flash EXCEPT ![a] = data]
        /\ t.objects = m.objects /\ t.live = m.live
        /\ \A p \in Pages : Use(t, p) = IF p = a THEN ino ELSE Use(m, p)
        /\ \A b \in Blocks :
              LET n == IF b = BlockOf(a) THEN 1 ELSE 0 IN
              /\ t.table[b].reserved_offset = m.table[b].reserved_offset + n
              /\ t.table[b].reserved_size = m.table[b].reserved_size - n
    BY <1>1, ProgramAtDone DEF Sound
  <2>2. PagesPerBlock \in Nat /\ \A b \in Blocks :
          /\ m.table[b].reserved_offset \in 0 .. PagesPerBlock
          /\ m.table[b].reserved_size = PagesPerBlock - m.table[b].reserved_offset
    BY BlockInfoAssumption DEF Sound, Reserved
  <2>3. Reserved(t) /\ Shrunk(m, t)
    BY <1>1, <2>1, <2>2 DEF Reserved, Shrunk
  <2>4. ASSUME NEW p \in Pages, OffsetOf(p) >= t.table[BlockOf(p)].reserved_offset
        PROVE  t.flash[p] = BlankPage
    <3>1. BlockOf(p) \in Blocks /\ OffsetOf(p) \in Int
      BY AddressIs, BlockInfoAssumption DEF Offsets
    <3>2. OffsetOf(p) >= m.table[BlockOf(p)].reserved_offset
      BY <2>1, <2>2, <2>4, <3>1
    <3>3. p # a
      BY <1>1, <2>1, <2>2, <2>4, <3>1
    <3>4. t.flash[p] = m.flash[p]
      BY <2>1, <3>3 DEF Sound, States
    <3>. QED BY <3>2, <3>4 DEF Sound, BlankAbove
  <2>5. BlockOf(a) \in Blocks
    BY <1>1, AddressIs
  <2>6. ASSUME NEW p \in Pages, Use(t, p) \in Inos PROVE Below(t, p)
    <3>1. BlockOf(p) \in Blocks /\ OffsetOf(p) \in Int
      BY AddressIs, BlockInfoAssumption DEF Offsets
    <3>2. CASE p = a
      BY <1>1, <2>1, <2>2, <2>5, <3>1, <3>2 DEF Below
    <3>3. CASE p # a
      <4>1. Below(m, p)
        BY <2>1, <2>6, <3>3 DEF Sound, Marked
      <4>. QED BY <2>1, <2>2, <3>1, <4>1 DEF Below
    <3>. QED BY <3>2, <3>3
  <2>7. Marked(t) /\ OnlyLive(t)
    BY <1>1, <2>1, <2>6 DEF Sound, Marked, OnlyLive
  <2>. QED BY <1>1, <2>1, <2>3, <2>4, <2>5, <2>7 DEF Sound, BlankAbove
<1>2. CASE ~(Running(m) /\ a \in Pages /\ m.table[BlockOf(a)].reserved_size # 0)
  <2>1. t \in States /\ SameButUse(m, t) /\ ~Running(t) /\ (~Running(m) => t = m)
    BY <1>2, ProgramAtStops DEF Sound
  <2>. QED BY <2>1, SameIsSound DEF SameButUse
<1>. QED BY <1>1, <1>2

(* So does a run that starts at or below the reserve and stays in its block. *)
LEMMA ProgramRunSound ==
  ASSUME NEW m, Sound(m), NEW pages \in Seq(PageData), NEW ino \in Inos,
         NEW b \in Blocks, NEW o \in Nat, o <= m.table[b].reserved_offset,
         o + Len(pages) <= PagesPerBlock,
         NEW t, t = ProgramRun(m, Address(b, o), pages, ino)
  PROVE  /\ Sound(t) /\ Shrunk(m, t) /\ t.objects = m.objects /\ t.live = m.live
         /\ ~Running(m) => t = m
<1>. DEFINE n == Len(pages)
            at == Address(b, o)
<1>0. n \in Nat /\ (\A k \in 1 .. n : pages[k] \in PageData) /\ at \in Int /\ PagesPerBlock \in Nat
  BY BlockInfoAssumption DEF Address, Blocks
<1>1. PICK f \in [0 .. n -> States] :
        /\ f[0] = m /\ f[n] = t
        /\ \A k \in 1 .. n : f[k] = ProgramAt(f[k - 1], at + k - 1, pages[k], ino)
  <2>1. m \in States
    BY DEF Sound
  <2>2. t = ProgramRun(m, at, pages, ino)
    OBVIOUS
  <2>. HIDE DEF at
  <2>3. \E f : ProgramSteps(f, m, at, pages, ino)
    BY <2>1, ProgramRunIs
  <2>. QED BY <2>2, <2>3 DEF ProgramSteps
<1>. DEFINE G == {k \in 0 .. n :
                    /\ Sound(f[k]) /\ Shrunk(m, f[k])
                    /\ f[k].objects = m.objects /\ f[k].live = m.live
                    /\ Running(f[k]) => o + k <= f[k].table[b].reserved_offset
                    /\ ~Running(m) => f[k] = m}
<1>2. 0 \in G
  BY <1>0, <1>1 DEF Shrunk, Sound, Reserved
<1>3. ASSUME NEW k \in 1 .. n, k - 1 \in G PROVE k \in G
  <2>. DEFINE s == f[k - 1]
              a == at + k - 1
  <2>1. f[k] = ProgramAt(s, a, pages[k], ino) /\ pages[k] \in PageData /\ k \in 0 .. n
    <3>. HIDE DEF n, at
    <3>. QED BY <1>0, <1>1
  <2>2. /\ Sound(s) /\ Shrunk(m, s) /\ s.objects = m.objects /\ s.live = m.live
        /\ Running(s) => o + (k - 1) <= s.table[b].reserved_offset
        /\ ~Running(m) => s = m
    BY <1>3
  <2>. HIDE DEF s
  <2>3. a \in Pages /\ BlockOf(a) = b /\ OffsetOf(a) = o + k - 1
    <3>1. o + k - 1 \in Offsets /\ a = Address(b, o + k - 1)
      BY <1>0 DEF Offsets, Address, Blocks
    <3>. QED BY <3>1, AddressOf
  <2>. HIDE DEF a
  <2>4. s.table[b].reserved_offset \in Int
    BY <2>2 DEF Sound, States, Info, InfoRecord
  <2>5. CASE Running(s)
    <3>1. OffsetOf(a) <= s.table[BlockOf(a)].reserved_offset
      BY <2>2, <2>3, <2>5
    <3>2. /\ Sound(f[k]) /\ Shrunk(s, f[k]) /\ f[k].objects = s.objects /\ f[k].live = s.live
          /\ Running(f[k]) => f[k].table[b].reserved_offset = s.table[b].reserved_offset + 1
      BY <2>1, <2>2, <2>3, <3>1, ProgramAtSound
    <3>3. Shrunk(m, f[k])
      BY <2>2, <3>2, ShrunkTrans
    <3>4. Running(f[k]) => o + k <= f[k].table[b].reserved_offset
      BY <2>2, <2>4, <2>5, <3>2
    <3>5. Running(m)
      BY <2>2, <2>5
    <3>. QED BY <2>1, <2>2, <3>2, <3>3, <3>4, <3>5
  <2>6. CASE ~Running(s)
    <3>1. f[k] \in States /\ SameButUse(s, f[k]) /\ ~Running(f[k]) /\ f[k] = s
      BY <2>1, <2>2, <2>6, ProgramAtStops DEF Sound
    <3>. QED BY <2>1, <2>2, <2>6, <3>1
  <2>. QED BY <2>5, <2>6
<1>4. n \in G
  <2>1. n \in Nat
    BY <1>0
  <2>. HIDE DEF G, n
  <2>2. \A k \in 0 .. n : k \in G
    BY <1>2, <1>3, <2>1, UpTo
  <2>. QED BY <2>1, <2>2
<1>. QED BY <1>1, <1>4

-----------------------------------------------------------------------------
(* Values: what is read and written has bytes in it.                         *)

LEMMA PagesForIs ==
  ASSUME NEW n \in Nat
  PROVE  /\ PagesFor(n) \in Nat
         /\ n > 0 => /\ PagesFor(n) > 0
                     /\ (PagesFor(n) - 1) * PageBytes < n
                     /\ n <= PagesFor(n) * PageBytes
<1>1. PageBytes \in Nat /\ PageBytes > 0
  BY KVManagerAssumption
<1>2. (n - 1) \div PageBytes \in Int
  BY <1>1
<1>3. CASE n = 0
  BY <1>1, <1>3, (0 - 1) \div PageBytes = 0 - 1, SMTT(30) DEF PagesFor
<1>4. CASE n > 0
  <2>. DEFINE q == (n - 1) \div PageBytes
              r == (n - 1) % PageBytes
  <2>1. q \in Nat /\ r \in 0 .. PageBytes - 1 /\ n - 1 = q * PageBytes + r
    BY <1>1, <1>4, SMTT(30)
  <2>2. (q + 1) * PageBytes = q * PageBytes + PageBytes /\ q * PageBytes \in Nat
    BY <1>1, <2>1
  <2>. HIDE DEF q, r
  <2>3. PagesFor(n) = q + 1
    BY DEF PagesFor, q
  <2>. QED BY <1>1, <1>4, <2>1, <2>2, <2>3
<1>. QED BY <1>3, <1>4

LEMMA BlankTyped == BlankPage \in PageData
  BY DEF BlankPage, PageData, ByteSet

LEMMA PageOfTyped ==
  ASSUME NEW val \in Seq(ByteSet), NEW i \in Nat \ {0}
  PROVE  PageOf(val, i) \in PageData
<1>1. PageBytes \in Nat /\ (i - 1) * PageBytes \in Nat
  BY KVManagerAssumption
<1>2. ASSUME NEW j \in 1 .. PageBytes, (i - 1) * PageBytes + j <= Len(val)
      PROVE  val[(i - 1) * PageBytes + j] \in ByteSet
  <2>1. (i - 1) * PageBytes + j \in 1 .. Len(val)
    BY <1>1, <1>2
  <2>. QED BY <2>1
<1>3. Pad \in ByteSet
  BY DEF ByteSet
<1>. QED BY <1>2, <1>3 DEF PageOf, PageData

LEMMA ReadPageTyped ==
  ASSUME NEW m \in States, NEW a
  PROVE  ReadPage(m, a) \in PageData
  BY BlankTyped DEF ReadPage, States

LEMMA ReadEntryTyped ==
  ASSUME NEW m \in States, NEW e \in Entry
  PROVE  ReadEntry(m, e) \in Seq(ByteSet) /\ Len(ReadEntry(m, e)) = e.archived_len
<1>1. PageBytes \in Nat /\ PageBytes > 0 /\ e.archived_len \in Nat
  BY KVManagerAssumption DEF Entry, EntryRecord
<1>2. ASSUME NEW j \in 1 .. e.archived_len
      PROVE  ReadPage(m, e.page_pointer + (j - 1) \div PageBytes)[((j - 1) % PageBytes) + 1]
               \in ByteSet
  <2>1. ((j - 1) % PageBytes) + 1 \in 1 .. PageBytes
    BY <1>1
  <2>2. ReadPage(m, e.page_pointer + (j - 1) \div PageBytes) \in PageData
    BY ReadPageTyped
  <2>. QED BY <2>1, <2>2 DEF PageData
<1>. DEFINE D(j) == ReadPage(m, e.page_pointer + (j - 1) \div PageBytes)[((j - 1) % PageBytes) + 1]
<1>3. ReadEntry(m, e) = [j \in 1 .. e.archived_len |-> D(j)] /\ \A j \in 1 .. e.archived_len : D(j) \in ByteSet
  BY <1>2 DEF ReadEntry
<1>. HIDE DEF D
<1>. QED BY <1>1, <1>3

LEMMA PartTyped ==
  ASSUME NEW data \in Seq(ByteSet), NEW n \in Nat, n <= Len(data)
  PROVE  /\ SubSeq(data, 1, n) \in Seq(ByteSet) /\ Len(SubSeq(data, 1, n)) = n
         /\ TailOf(data, n) \in Seq(ByteSet) /\ Len(TailOf(data, n)) = n
  BY DEF TailOf

-----------------------------------------------------------------------------
(* Searches.                                                                 *)

LEMMA LeastIs ==
  ASSUME NEW S \in SUBSET Nat, S # {}
  PROVE  LeastOf(S) \in S /\ \A x \in S : LeastOf(S) <= x
<1>1. PICK r \in S : \A x \in S : ~(<<x, r>> \in OpToRel(<, Nat))
  BY NatLessThanWellFounded, WFMin
<1>2. \A x \in S : ~(x < r)
  BY <1>1, Zenon DEF OpToRel
<1>3. \A y \in S : r <= y
  BY <1>2
<1>. QED BY <1>3 DEF LeastOf

LEMMA FirstFreeIs ==
  ASSUME NEW S \in SUBSET Blocks, NEW tbl
  PROVE  \/ S = {} /\ FirstFree(tbl, S) = NoPos
         \/ /\ S # {} /\ LeastOf(S) \in S
            /\ FirstFree(tbl, S) = Address(LeastOf(S), tbl[LeastOf(S)].reserved_offset)
<1>1. S \in SUBSET Nat
  BY BlockInfoAssumption DEF Blocks
<1>. QED BY <1>1, LeastIs DEF FirstFree

(* A place for n pages lies at the reserve of a block that has room for them.*)
PlaceIn(tbl, at, n, b) ==
  /\ b \in Blocks /\ tbl[b].reserved_size >= n
  /\ at = Address(b, tbl[b].reserved_offset)

Roomy(tbl, S, n) == {b \in S : tbl[b].reserved_size >= n}

LEMMA FoundPlace ==
  ASSUME NEW m, Sound(m), NEW n \in Nat, NEW S \in SUBSET Blocks,
         NEW at, at = FirstFree(m.table, Roomy(m.table, S, n))
  PROVE  \/ at = NoPos /\ \A b \in S : m.table[b].reserved_size < n
         \/ at # NoPos /\ at \in Nat /\ \E b \in S : PlaceIn(m.table, at, n, b)
<1>. DEFINE F == Roomy(m.table, S, n)
<1>. USE DEF Roomy
<1>1. \A b \in S : m.table[b].reserved_size \in Int
  BY DEF Sound, States, Info, InfoRecord
<1>2. CASE F = {}
  <2>1. at = NoPos
    BY <1>2, FirstFreeIs
  <2>2. \A b \in S : m.table[b].reserved_size < n
    BY <1>1, <1>2
  <2>. QED BY <2>1, <2>2
<1>3. CASE F # {}
  <2>1. PICK b \in F : at = Address(b, m.table[b].reserved_offset)
    BY <1>3, FirstFreeIs
  <2>2. at \in Nat
    <3>1. m.table[b].reserved_offset \in 0 .. PagesPerBlock /\ b \in Blocks
      BY DEF Sound, Reserved
    <3>. QED BY <2>1, <3>1, BlockInfoAssumption DEF Address, Blocks
  <2>3. PlaceIn(m.table, at, n, b) /\ b \in S
    BY <2>1 DEF PlaceIn
  <2>. QED BY <2>2, <2>3, BlockInfoAssumption
<1>. QED BY <1>2, <1>3

(* A run programmed at such a place.                                         *)
LEMMA ProgramPlaceSound ==
  ASSUME NEW m, Sound(m), NEW pages \in Seq(PageData), NEW ino \in Inos,
         NEW r, Sound(r), Shrunk(r, m), NEW at, NEW b, PlaceIn(r.table, at, Len(pages), b),
         NEW t, t = ProgramRun(m, at, pages, ino)
  PROVE  /\ Sound(t) /\ Shrunk(m, t) /\ t.objects = m.objects /\ t.live = m.live
         /\ ~Running(m) => t = m
<1>. DEFINE o == r.table[b].reserved_offset
<1>1. b \in Blocks /\ at = Address(b, o) /\ r.table[b].reserved_size >= Len(pages)
  BY DEF PlaceIn
<1>2. o \in Nat /\ o + Len(pages) <= PagesPerBlock
  BY <1>1, BlockInfoAssumption DEF Sound, Reserved
<1>3. o <= m.table[b].reserved_offset
  BY <1>1, <1>2 DEF Shrunk, Sound, Reserved
<1>. HIDE DEF o
<1>. QED BY <1>1, <1>2, <1>3, ProgramRunSound

-----------------------------------------------------------------------------
(* The collector.                                                            *)

Fragment == [ino : Inos, size : Nat, from : Int]
Scans == [done : Seq(Fragment), last : Fragment \cup {NoFragment}, size : Nat]
NoScan == [done |-> <<>>, last |-> NoFragment, size |-> 0]

LEMMA CloseTyped ==
  ASSUME NEW acc \in Scans
  PROVE  CloseFragment(acc) \in Seq(Fragment)
<1>1. CASE acc.last = NoFragment
  BY <1>1 DEF CloseFragment, Scans
<1>2. CASE acc.last # NoFragment
  <2>1. acc.last \in Fragment /\ acc.size \in Nat /\ acc.done \in Seq(Fragment)
    BY <1>2 DEF Scans
  <2>2. [acc.last EXCEPT !.size = acc.size] \in Fragment
    BY <2>1 DEF Fragment
  <2>. QED BY <1>2, <2>1, <2>2 DEF CloseFragment
<1>. QED BY <1>1, <1>2

LEMMA ScanTyped ==
  ASSUME NEW acc \in Scans, NEW a \in Int, NEW s
  PROVE  ScanPage(acc, a, s) \in Scans
<1>. DEFINE start == [ino |-> s, size |-> 0, from |-> a]
<1>1. CloseFragment(acc) \in Seq(Fragment) /\ acc.size \in Nat /\ acc.done \in Seq(Fragment)
  BY CloseTyped DEF Scans
<1>2. s \in Inos => start \in Fragment
  BY DEF Fragment
<1>. HIDE DEF start
<1>3. CASE s \notin Inos
  BY <1>1, <1>3 DEF ScanPage, Scans
<1>4. CASE s \in Inos /\ acc.last = NoFragment
  <2>1. ScanPage(acc, a, s) = [done |-> acc.done, last |-> start, size |-> 1]
    BY <1>4 DEF ScanPage, start, Scans
  <2>. QED BY <1>1, <1>2, <1>4, <2>1 DEF Scans
<1>5. CASE s \in Inos /\ acc.last # NoFragment /\ acc.last.ino = s
  <2>1. ScanPage(acc, a, s) = [acc EXCEPT !.size = @ + 1]
    BY <1>5 DEF ScanPage
  <2>. QED BY <1>1, <2>1 DEF Scans
<1>6. CASE s \in Inos /\ acc.last # NoFragment /\ acc.last.ino # s
  <2>1. ScanPage(acc, a, s) = [acc EXCEPT !.done = CloseFragment(acc), !.last = start]
    BY <1>6 DEF ScanPage, start
  <2>. QED BY <1>1, <1>2, <1>6, <2>1 DEF Scans
<1>. QED BY <1>3, <1>4, <1>5, <1>6

ScanSteps(f, tbl, victim) ==
  /\ f \in [0 .. PagesPerBlock -> Scans]
  /\ f[0] = NoScan /\ CloseFragment(f[PagesPerBlock]) = Fragments(tbl, victim)
  /\ \A k \in 1 .. PagesPerBlock :
       f[k] = ScanPage(f[k - 1], Address(victim, k - 1), tbl[victim].used_map[k - 1])

LEMMA FragmentsIs ==
  ASSUME NEW tbl, NEW victim \in Blocks
  PROVE  \E f : ScanSteps(f, tbl, victim)
<1>. DEFINE n == PagesPerBlock
            G == [x \in Scans \X (1 .. n) |->
                   ScanPage(x[1], Address(victim, x[2] - 1), tbl[victim].used_map[x[2] - 1])]
            Def(it) == [s \in SUBSET (1 .. n) |->
                         IF s = {} THEN NoScan
                         ELSE ScanPage(it[s \ {Max(s)}],
                                       Address(victim, [i \in 1 .. n |-> i][Max(s)] - 1),
                                       tbl[victim].used_map[[i \in 1 .. n |-> i][Max(s)] - 1])]
            iter == CHOOSE it : it = Def(it)
<1>0. n \in Nat /\ NoScan \in Scans /\ \A k \in 1 .. n : Address(victim, k - 1) \in Int
  BY BlockInfoAssumption DEF NoScan, Scans, Address, Blocks
<1>1. G \in [Scans \X (1 .. n) -> Scans]
  BY <1>0, ScanTyped
<1>2. Fragments(tbl, victim) = CloseFragment(iter[1 .. n])
  BY DEF Fragments, FoldLeft, MapThenFoldSet, NoScan
<1>. HIDE DEF n
<1>3. PICK h : Folds(h, Scans, NoScan, G, n)
  BY <1>0, <1>1, FoldExists
<1>4. h = Def(h)
  BY <1>0, <1>3, MaxIn DEF Folds
<1>5. iter = Def(iter)
  BY <1>4
<1>. HIDE DEF iter
<1>6. Recurs(iter, Scans, NoScan, G, n)
  BY <1>0, <1>5, MaxIn DEF Recurs
<1>. DEFINE f == Walk(iter, n)
<1>7. Walks(f, Scans, NoScan, G, n) /\ f[n] = iter[1 .. n]
  <2>. HIDE DEF G
  <2>. QED BY <1>0, <1>1, <1>6, WalkOf
<1>. HIDE DEF f
<1>8. /\ f \in [0 .. n -> Scans] /\ f[0] = NoScan /\ f[n] = iter[1 .. n]
      /\ \A k \in 1 .. n : f[k] = G[<<f[k - 1], k>>]
  BY <1>7 DEF Walks
<1>9. \A k \in 1 .. n : f[k] = ScanPage(f[k - 1], Address(victim, k - 1), tbl[victim].used_map[k - 1])
  <2>1. \A k \in 1 .. n : k - 1 \in 0 .. n
    BY <1>0
  <2>. QED BY <1>8, <2>1
<1>. HIDE DEF G, Def
<1>10. ScanSteps(f, tbl, victim)
  BY <1>2, <1>8, <1>9 DEF n, ScanSteps
<1>. QED BY <1>10

LEMMA FragmentsTyped ==
  ASSUME NEW tbl, NEW victim \in Blocks
  PROVE  Fragments(tbl, victim) \in Seq(Fragment)
<1>1. PICK f : ScanSteps(f, tbl, victim)
  BY FragmentsIs
<1>2. f[PagesPerBlock] \in Scans
  BY <1>1, BlockInfoAssumption DEF ScanSteps
<1>. QED BY <1>1, <1>2, CloseTyped DEF ScanSteps

Plan == [ino : Inos, size : Nat, from : Int, to : Nat \cup {NoPos}]

LEMMA MovesTyped ==
  ASSUME NEW m, Sound(m), NEW victim \in Blocks
  PROVE  /\ Moves(m.table, victim) \in Seq(Plan)
         /\ \A i \in DOMAIN Moves(m.table, victim) :
              LET mv == Moves(m.table, victim)[i] IN
              mv.to # NoPos => \E b \in Blocks \ {victim} : PlaceIn(m.table, mv.to, mv.size, b)
<1>. DEFINE frags == Fragments(m.table, victim)
            mvs == Moves(m.table, victim)
            P(i) == [ino |-> frags[i].ino, size |-> frags[i].size, from |-> frags[i].from,
                     to |-> FindWritePosExcept(m.table, frags[i].size, victim)]
<1>1. frags \in Seq(Fragment)
  BY FragmentsTyped
<1>2. mvs = [i \in 1 .. Len(frags) |-> P(i)]
  BY <1>1 DEF Moves
<1>3. ASSUME NEW i \in 1 .. Len(frags)
      PROVE  /\ P(i) \in Plan
             /\ P(i).to # NoPos => \E b \in Blocks \ {victim} : PlaceIn(m.table, P(i).to, P(i).size, b)
  <2>. DEFINE at == FindWritePosExcept(m.table, frags[i].size, victim)
  <2>1. frags[i] \in Fragment
    BY <1>1
  <2>. HIDE DEF frags
  <2>2. frags[i].size \in Nat /\ Blocks \ {victim} \in SUBSET Blocks
    BY <2>1 DEF Fragment
  <2>3. at = FirstFree(m.table, {b \in Blocks \ {victim} : m.table[b].reserved_size >= frags[i].size})
    BY DEF FindWritePosExcept
  <2>. DEFINE S == Blocks \ {victim}
              z == frags[i].size
  <2>. HIDE DEF at, S, z
  <2>4. \/ at = NoPos
        \/ at # NoPos /\ at \in Nat /\ \E b \in S : PlaceIn(m.table, at, z, b)
    <3>1. S \in SUBSET Blocks /\ z \in Nat
      BY <2>2 DEF S, z
    <3>2. at = FirstFree(m.table, Roomy(m.table, S, z))
      BY <2>3 DEF S, z, Roomy
    <3>. QED BY <3>1, <3>2, FoundPlace
  <2>5. P(i) = [ino |-> frags[i].ino, size |-> frags[i].size, from |-> frags[i].from, to |-> at]
    BY DEF at
  <2>. HIDE DEF P
  <2>. QED BY <2>1, <2>4, <2>5 DEF Plan, Fragment, S, z
<1>. HIDE DEF mvs, P
<1>4. mvs \in Seq(Plan) /\ DOMAIN mvs = 1 .. Len(frags)
  BY <1>1, <1>2, <1>3
<1>5. \A i \in DOMAIN mvs : mvs[i] = P(i)
  BY <1>2, <1>4
<1>. QED BY <1>3, <1>4, <1>5 DEF mvs

LEMMA RepointTyped ==
  ASSUME NEW obj \in Objects, NEW from, NEW to \in Int
  PROVE  Repoint(obj, from, to) \in Objects
<1>. DEFINE starts == {i \in DOMAIN obj.entries : obj.entries[i].page_pointer = from}
            i == LeastOf(starts)
<1>1. obj.entries \in Seq(Entry) /\ DOMAIN obj.entries = 1 .. Len(obj.entries)
  BY DEF Objects
<1>2. CASE starts = {}
  BY <1>2 DEF Repoint
<1>3. CASE starts # {}
  <2>1. starts \in SUBSET Nat
    BY <1>1
  <2>2. i \in 1 .. Len(obj.entries)
    BY <1>1, <1>3, <2>1, LeastIs
  <2>3. Repoint(obj, from, to) = [obj EXCEPT !.entries[i].page_pointer = to]
    BY <1>3 DEF Repoint
  <2>. HIDE DEF i
  <2>4. [obj.entries[i] EXCEPT !.page_pointer = to] \in Entry
    <3>1. obj.entries[i] \in Entry
      BY <1>1, <2>2
    <3>2. \A e \in Entry : [e EXCEPT !.page_pointer = to] \in Entry
      BY DEF Entry, EntryRecord
    <3>. QED BY <3>1, <3>2
  <2>5. [obj.entries EXCEPT ![i] = [obj.entries[i] EXCEPT !.page_pointer = to]] \in Seq(Entry)
    BY <1>1, <2>2, <2>4
  <2>6. Repoint(obj, from, to) =
          [obj EXCEPT !.entries = [obj.entries EXCEPT ![i] = [obj.entries[i] EXCEPT !.page_pointer = to]]]
    BY <2>2, <2>3
  <2>. QED BY <2>5, <2>6 DEF Objects
<1>. QED BY <1>2, <1>3

LEMMA RepointOwnerSound ==
  ASSUME NEW m \in States, NEW mv \in Plan, mv.to \in Int, NEW t, t = RepointOwner(m, mv)
  PROVE  /\ t \in States /\ t.table = m.table /\ t.flash = m.flash /\ t.live = m.live
         /\ ~Running(m) => t = m
         /\ \A i \in Inos : m.objects[i] = NoObject => t.objects[i] = NoObject
<1>1. CASE ~Running(m)
  BY <1>1 DEF RepointOwner
<1>2. CASE Running(m) /\ m.objects[mv.ino] = NoObject
  BY <1>2 DEF RepointOwner, Panic, States, Panics
<1>3. CASE Running(m) /\ m.objects[mv.ino] # NoObject
  <2>1. mv.ino \in Inos /\ m.objects[mv.ino] \in Objects
    BY <1>3 DEF Plan, States
  <2>2. Repoint(m.objects[mv.ino], mv.from, mv.to) \in Objects
    BY <2>1, RepointTyped
  <2>3. t = [m EXCEPT !.objects[mv.ino] = Repoint(m.objects[mv.ino], mv.from, mv.to)]
    BY <1>3 DEF RepointOwner
  <2>. QED BY <1>3, <2>1, <2>2, <2>3 DEF States
<1>. QED BY <1>1, <1>2, <1>3

LEMMA ProgramRunTyped ==
  ASSUME NEW m \in States, NEW at, NEW pages \in Seq(PageData), NEW ino \in Inos
  PROVE  ProgramRun(m, at, pages, ino) \in States
<1>1. PICK f : ProgramSteps(f, m, at, pages, ino)
  BY ProgramRunIs
<1>. QED BY <1>1 DEF ProgramSteps

Held(m, mv) == [i \in 1 .. mv.size |-> ReadPage(m, mv.from + i - 1)]

LEMMA HeldTyped ==
  ASSUME NEW m \in States, NEW mv \in Plan
  PROVE  Held(m, mv) \in Seq(PageData) /\ Len(Held(m, mv)) = mv.size
<1>1. mv.size \in Nat
  BY DEF Plan
<1>2. \A i \in 1 .. mv.size : ReadPage(m, mv.from + i - 1) \in PageData
  BY ReadPageTyped
<1>. QED BY <1>1, <1>2 DEF Held

LEMMA MoveFragmentTyped ==
  ASSUME NEW m \in States, NEW mv \in Plan, mv.to \in Int
  PROVE  MoveFragment(m, mv) \in States
<1>. DEFINE d == DropPages(m, mv.from, mv.size)
            q == ProgramRun(d, mv.to, Held(m, mv), mv.ino)
<1>1. mv.size \in Nat /\ mv.ino \in Inos
  BY DEF Plan
<1>2. d \in States
  BY <1>1, DropPagesDone
<1>. HIDE DEF d
<1>3. q \in States
  BY <1>1, <1>2, HeldTyped, ProgramRunTyped
<1>4. MoveFragment(m, mv) = RepointOwner(q, mv)
  BY DEF MoveFragment, Held, d
<1>. HIDE DEF q
<1>. QED BY <1>3, <1>4, RepointOwnerSound

(* A fragment's destination may have been given to an earlier one too, since *)
(* it was chosen in the table r that no move had changed.                    *)
LEMMA MoveFragmentSound ==
  ASSUME NEW m, Sound(m), NEW mv \in Plan, NEW r, Sound(r), Shrunk(r, m),
         NEW b, PlaceIn(r.table, mv.to, mv.size, b), mv.to \in Int,
         NEW t, t = MoveFragment(m, mv)
  PROVE  Sound(t) /\ Shrunk(m, t) /\ t.live = m.live /\ (~Running(m) => t = m)
<1>. DEFINE d == DropPages(m, mv.from, mv.size)
            q == ProgramRun(d, mv.to, Held(m, mv), mv.ino)
<1>1. mv.size \in Nat /\ mv.ino \in Inos /\ m \in States
  BY DEF Plan, Sound
<1>2. d \in States /\ SameButUse(m, d) /\ (~Running(m) => d = m)
  BY <1>1, DropPagesDone
<1>. HIDE DEF d
<1>3. Sound(d) /\ Shrunk(m, d) /\ d.live = m.live
  BY <1>2, SameIsSound DEF SameButUse
<1>4. Shrunk(r, d)
  BY <1>3, ShrunkTrans
<1>5. Held(m, mv) \in Seq(PageData) /\ Len(Held(m, mv)) = mv.size
  BY <1>1, HeldTyped
<1>6. Sound(q) /\ Shrunk(d, q) /\ q.live = d.live /\ (~Running(d) => q = d)
  <2>. DEFINE h == Held(m, mv)
              at == mv.to
              ino == mv.ino
  <2>1. PlaceIn(r.table, at, Len(h), b) /\ h \in Seq(PageData) /\ ino \in Inos
    BY <1>1, <1>5
  <2>2. q = ProgramRun(d, at, h, ino) /\ Sound(d) /\ Sound(r) /\ Shrunk(r, d)
    BY <1>3, <1>4
  <2>. HIDE DEF h, at, ino, q
  <2>. QED BY <2>1, <2>2, ProgramPlaceSound
<1>7. t = RepointOwner(q, mv)
  BY DEF MoveFragment, Held, d
<1>. HIDE DEF q
<1>8. /\ t \in States /\ t.table = q.table /\ t.flash = q.flash /\ t.live = q.live
      /\ ~Running(q) => t = q
      /\ \A i \in Inos : q.objects[i] = NoObject => t.objects[i] = NoObject
  BY <1>6, <1>7, RepointOwnerSound DEF Sound
<1>9. Sound(t) /\ Shrunk(q, t)
  <2>1. Reserved(t) /\ BlankAbove(t) /\ Shrunk(q, t)
    BY <1>6, <1>8, BlockInfoAssumption DEF Sound, Reserved, BlankAbove, Shrunk
  <2>2. Marked(t)
    BY <1>6, <1>8 DEF Sound, Marked, Use, Below
  <2>3. OnlyLive(t)
    BY <1>6, <1>8 DEF Sound, OnlyLive
  <2>. QED BY <1>8, <2>1, <2>2, <2>3 DEF Sound
<1>10. Shrunk(d, t)
  BY <1>3, <1>6, <1>9, ShrunkTrans
<1>11. Shrunk(m, t)
  BY <1>3, <1>9, <1>10, ShrunkTrans
<1>. QED BY <1>2, <1>3, <1>6, <1>8, <1>9, <1>11

MoveSteps(f, m, moves) ==
  /\ f \in [0 .. Len(moves) -> States]
  /\ f[0] = m /\ f[Len(moves)] = FoldLeft(MoveFragment, m, moves)
  /\ \A k \in 1 .. Len(moves) : f[k] = MoveFragment(f[k - 1], moves[k])

Placed(tbl, mv) == mv.to \in Int /\ \E b : PlaceIn(tbl, mv.to, mv.size, b)
AllPlaced(tbl, moves) == \A i \in DOMAIN moves : Placed(tbl, moves[i])

LEMMA MovesIs ==
  ASSUME NEW m \in States, NEW moves \in Seq(Plan), NEW tbl, AllPlaced(tbl, moves)
  PROVE  \E f : MoveSteps(f, m, moves)
<1>. DEFINE n == Len(moves)
            G == [x \in States \X (1 .. n) |-> MoveFragment(x[1], moves[x[2]])]
            Def(it) == [s \in SUBSET DOMAIN moves |->
                         IF s = {} THEN m
                         ELSE MoveFragment(it[s \ {Max(s)}], moves[Max(s)])]
            iter == CHOOSE it : it = Def(it)
<1>0. n \in Nat /\ DOMAIN moves = 1 .. n
  OBVIOUS
<1>1. G \in [States \X (1 .. n) -> States]
  <2>1. \A k \in 1 .. n : moves[k] \in Plan /\ moves[k].to \in Int
    BY <1>0 DEF AllPlaced, Placed
  <2>. QED BY <2>1, MoveFragmentTyped
<1>2. FoldLeft(MoveFragment, m, moves) = iter[DOMAIN moves]
  BY DEF FoldLeft, MapThenFoldSet
<1>. HIDE DEF n
<1>01. n \in Nat
  BY <1>0
<1>3. PICK h : Folds(h, States, m, G, n)
  <2>. HIDE DEF G
  <2>. QED BY <1>01, <1>1, FoldExists
<1>4. h = Def(h)
  BY <1>0, <1>3, MaxIn DEF Folds
<1>5. iter = Def(iter)
  BY <1>4
<1>. HIDE DEF iter
<1>6. Recurs(iter, States, m, G, n)
  BY <1>0, <1>5, MaxIn DEF Recurs
<1>. DEFINE f == Walk(iter, n)
<1>7. Walks(f, States, m, G, n) /\ f[n] = iter[1 .. n]
  <2>. HIDE DEF G, Def, f
  <2>1. Walks(Walk(iter, n), States, m, G, n) /\ Walk(iter, n)[n] = iter[1 .. n]
    BY <1>1, <1>6, <1>01, WalkOf
  <2>. QED BY <2>1 DEF f
<1>. HIDE DEF f
<1>8. /\ f \in [0 .. n -> States] /\ f[0] = m /\ f[n] = iter[1 .. n]
      /\ \A k \in 1 .. n : f[k] = G[<<f[k - 1], k>>]
  BY <1>7 DEF Walks
<1>9. \A k \in 1 .. n : f[k] = MoveFragment(f[k - 1], moves[k])
  <2>1. \A k \in 1 .. n : k - 1 \in 0 .. n
    BY <1>0
  <2>. QED BY <1>8, <2>1
<1>. QED BY <1>0, <1>2, <1>8, <1>9 DEF n, MoveSteps

(* The collector's moves, each to a place that was free before the first.    *)
LEMMA MovesSound ==
  ASSUME NEW m, Sound(m), NEW moves \in Seq(Plan),
         AllPlaced(m.table, moves),
         NEW t, t = FoldLeft(MoveFragment, m, moves)
  PROVE  Sound(t) /\ t.live = m.live /\ (~Running(m) => t = m)
<1>1. PICK f : MoveSteps(f, m, moves)
  BY MovesIs DEF Sound
<1>. DEFINE n == Len(moves)
            G == {k \in 0 .. n : /\ Sound(f[k]) /\ Shrunk(m, f[k]) /\ f[k].live = m.live
                                 /\ ~Running(m) => f[k] = m}
<1>2. n \in Nat /\ f[0] = m /\ f[n] = t
  BY <1>1 DEF MoveSteps
<1>3. 0 \in G
  BY <1>2 DEF Shrunk, Sound, Reserved
<1>4. ASSUME NEW k \in 1 .. n, k - 1 \in G PROVE k \in G
  <2>. DEFINE s == f[k - 1]
              mv == moves[k]
  <2>1. Sound(s) /\ Shrunk(m, s) /\ s.live = m.live /\ (~Running(m) => s = m)
    BY <1>4
  <2>2. k \in 0 .. n /\ mv \in Plan /\ Placed(m.table, mv)
    BY <1>2 DEF AllPlaced
  <2>3. f[k] = MoveFragment(s, mv)
    BY <1>1 DEF MoveSteps
  <2>. HIDE DEF s, mv, n
  <2>4. Sound(f[k]) /\ Shrunk(s, f[k]) /\ f[k].live = s.live /\ (~Running(s) => f[k] = s)
    <3>1. PICK b : PlaceIn(m.table, mv.to, mv.size, b)
      BY <2>2 DEF Placed
    <3>. QED BY <2>1, <2>2, <2>3, <3>1, MoveFragmentSound DEF Placed
  <2>5. Shrunk(m, f[k])
    BY <2>1, <2>4, ShrunkTrans
  <2>. QED BY <2>1, <2>2, <2>4, <2>5
<1>. HIDE DEF n
<1>5. n \in Nat
  BY <1>2
<1>6. n \in G
  <2>. HIDE DEF G
  <2>. QED BY <1>3, <1>4, <1>5, UpTo
<1>. QED BY <1>2, <1>6

LEMMA EraseVictimSound ==
  ASSUME NEW m, Sound(m), NEW victim \in Blocks, NEW t, t = EraseVictim(m, victim)
  PROVE  Sound(t) /\ t.live = m.live /\ (~Running(m) => t = m)
<1>1. CASE ~Running(m)
  BY <1>1 DEF EraseVictim
<1>2. CASE Running(m)
  <2>. DEFINE blank(old) == [a \in Pages |-> IF BlockOf(a) = victim THEN BlankPage ELSE old[a]]
  <2>1. t = [m EXCEPT !.table[victim] = CleanBlock, !.flash = blank(m.flash)]
    BY <1>2 DEF EraseVictim
  <2>2. m \in States /\ m.table \in [Blocks -> Info] /\ m.flash \in [Pages -> PageData]
    BY DEF Sound, States
  <2>3. CleanBlock \in Info
    <3>1. CleanBlock \in InfoRecord /\ CleanBlock.dirty_num = 0
      BY BlockInfoAssumption DEF CleanBlock, InfoRecord, Statuses
    <3>2. DirtyIn(CleanBlock) = {}
      BY BlockInfoAssumption DEF CleanBlock, DirtyIn
    <3>. QED BY <3>1, <3>2, FS_EmptySet DEF Info
  <2>4. blank(m.flash) \in [Pages -> PageData]
    BY <2>2, BlankTyped
  <2>5. /\ t.table = [m.table EXCEPT ![victim] = CleanBlock] /\ t.flash = blank(m.flash)
        /\ t.live = m.live
    BY <2>1, <2>2 DEF States
  <2>6. t \in States
    BY <2>1, <2>2, <2>3, <2>4 DEF States
  <2>7. Reserved(t)
    <3>1. CleanBlock.reserved_offset = 0 /\ CleanBlock.reserved_size = PagesPerBlock
      BY DEF CleanBlock
    <3>2. \A b \in Blocks : t.table[b] = IF b = victim THEN CleanBlock ELSE m.table[b]
      BY <2>2, <2>5
    <3>. QED BY <3>1, <3>2, BlockInfoAssumption DEF Reserved, Sound
  <2>8. BlankAbove(t)
    <3>. SUFFICES ASSUME NEW a \in Pages, OffsetOf(a) >= t.table[BlockOf(a)].reserved_offset
                  PROVE  t.flash[a] = BlankPage
      BY DEF BlankAbove
    <3>1. BlockOf(a) \in Blocks
      BY AddressIs
    <3>2. CASE BlockOf(a) = victim
      BY <2>5, <3>2
    <3>3. CASE BlockOf(a) # victim
      <4>1. t.table[BlockOf(a)] = m.table[BlockOf(a)] /\ t.flash[a] = m.flash[a]
        BY <2>2, <2>5, <3>1, <3>3
      <4>. QED BY <4>1 DEF Sound, BlankAbove
    <3>. QED BY <3>2, <3>3
  <2>9. Marked(t)
    <3>. SUFFICES ASSUME NEW a \in Pages, Use(t, a) \in Inos PROVE Below(t, a)
      BY DEF Marked
    <3>1. BlockOf(a) \in Blocks /\ OffsetOf(a) \in Offsets
      BY AddressIs
    <3>2. t.table[BlockOf(a)] = IF BlockOf(a) = victim THEN CleanBlock ELSE m.table[BlockOf(a)]
      BY <2>2, <2>5, <3>1
    <3>3. CleanBlock.used_map[OffsetOf(a)] = Clean /\ Clean \notin Inos
      BY <3>1, BlockInfoAssumption DEF CleanBlock
    <3>4. BlockOf(a) # victim
      BY <3>2, <3>3 DEF Use
    <3>. QED BY <3>2, <3>4 DEF Sound, Marked, Use, Below
  <2>10. t.objects = m.objects
    BY <2>1, <2>2 DEF States
  <2>11. OnlyLive(t)
    BY <1>2, <2>5, <2>10 DEF Sound, OnlyLive
  <2>. QED BY <1>2, <2>5, <2>6, <2>7, <2>8, <2>9, <2>11 DEF Sound
<1>. QED BY <1>1, <1>2

LEMMA PanicSound ==
  ASSUME NEW m, Sound(m), NEW why \in Panics, NEW t, t = Panic(m, why)
  PROVE  Sound(t) /\ t.live = m.live /\ t.objects = m.objects /\ t.table = m.table /\ ~Running(t)
<1>1. /\ t.table = m.table /\ t.flash = m.flash /\ t.live = m.live /\ t.objects = m.objects
      /\ t.status = why /\ t \in States
  BY DEF Panic, Sound, States
<1>2. ~Running(t) /\ Marked(t)
  BY <1>1 DEF Sound, Running, Panics, Marked, Use, Below
<1>. QED BY <1>1, <1>2 DEF Sound, Reserved, BlankAbove, OnlyLive

-----------------------------------------------------------------------------
(* The collector's victim: the ratios are ordered, so some block has a least *)
(* one.                                                                      *)

LEMMA TimesLess ==
  ASSUME NEW a \in Int, NEW b \in Int, NEW c \in Nat, c > 0
  PROVE  a < b <=> a * c < b * c
<1>1. ASSUME a < b PROVE a * c < b * c
  <2>1. b - a > 0 /\ (b - a) * c > 0
    BY <1>1
  <2>. QED BY <2>1
<1>2. ASSUME a >= b PROVE a * c >= b * c
  <2>1. a - b >= 0 /\ (a - b) * c >= 0
    BY <1>2
  <2>. QED BY <2>1
<1>. QED BY <1>1, <1>2

LEMMA DirtyNat ==
  ASSUME NEW info \in Info
  PROVE  info.dirty_num \in Nat /\ info.clean_num \in Int /\ info.used_num \in Int
<1>1. DirtyIn(info) \subseteq Offsets /\ IsFiniteSet(Offsets)
  BY BlockInfoAssumption, FS_Interval DEF DirtyIn, Offsets
<1>2. Cardinality(DirtyIn(info)) \in Nat
  BY <1>1, FS_Subset, FS_CardinalityType
<1>. QED BY <1>2 DEF Info, InfoRecord

LEMMA LessUtilizedTrans ==
  ASSUME NEW x \in Info, NEW y \in Info, NEW z \in Info, LessUtilized(x, y), LessUtilized(y, z)
  PROVE  LessUtilized(x, z)
<1>. DEFINE X == x.clean_num + x.used_num
            Y == y.clean_num + y.used_num
            Z == z.clean_num + z.used_num
            a == x.dirty_num
            b == y.dirty_num
            c == z.dirty_num
<1>1. X \in Int /\ Y \in Int /\ Z \in Int /\ a \in Nat /\ b \in Nat /\ c \in Nat
  BY DirtyNat
<1>2. a > 0 /\ b > 0 /\ X * b < Y * a
  BY <1>1 DEF LessUtilized
<1>3. c = 0 \/ (c > 0 /\ Y * c < Z * b)
  BY <1>1 DEF LessUtilized
<1>. SUFFICES ASSUME c > 0, Y * c < Z * b PROVE X * c < Z * a
  BY <1>1, <1>2, <1>3 DEF LessUtilized
<1>. HIDE DEF X, Y, Z, a, b, c
<1>4. (X * b) * c < (Y * a) * c
  <2>1. X * b \in Int /\ Y * a \in Int
    BY <1>1
  <2>. QED BY <1>1, <1>2, <2>1, TimesLess
<1>5. (Y * c) * a < (Z * b) * a
  <2>1. Y * c \in Int /\ Z * b \in Int
    BY <1>1
  <2>. QED BY <1>1, <1>2, <2>1, TimesLess
<1>6. (X * c) * b < (Z * a) * b
  <2>1. (X * b) * c = (X * c) * b /\ (Y * a) * c = (Y * c) * a /\ (Z * b) * a = (Z * a) * b
    BY <1>1
  <2>2. (X * c) * b \in Int /\ (Y * c) * a \in Int /\ (Z * a) * b \in Int
    BY <1>1
  <2>. QED BY <1>4, <1>5, <2>1, <2>2
<1>7. X * c \in Int /\ Z * a \in Int
  BY <1>1
<1>. QED BY <1>1, <1>2, <1>6, <1>7, TimesLess

LEMMA VictimIsBlock ==
  ASSUME NEW tbl \in [Blocks -> Info]
  PROVE  ChooseGCBlock(tbl) \in Blocks
<1>. DEFINE n == BlockCount - 1
            Least(b, k) == b \in 0 .. k /\ \A c \in 0 .. k : ~LessUtilized(tbl[c], tbl[b])
            K == {k \in 0 .. n : \E b : Least(b, k)}
<1>1. n \in Nat /\ Blocks = 0 .. n
  BY BlockInfoAssumption DEF Blocks
<1>2. \A x \in Info : ~LessUtilized(x, x)
  <2>. SUFFICES ASSUME NEW x \in Info PROVE ~LessUtilized(x, x)
    OBVIOUS
  <2>. DEFINE X == x.clean_num + x.used_num
              a == x.dirty_num
  <2>1. X \in Int /\ a \in Nat
    BY DirtyNat
  <2>2. X * a \in Int
    BY <2>1
  <2>3. LessUtilized(x, x) => a > 0 /\ (a = 0 \/ X * a < X * a)
    BY DEF LessUtilized
  <2>. HIDE DEF X, a
  <2>. QED BY <2>1, <2>2, <2>3
<1>. HIDE DEF n
<1>3. 0 \in K
  <2>1. 0 .. 0 = {0} /\ 0 \in 0 .. n
    BY <1>1
  <2>2. tbl[0] \in Info
    BY <1>1, <2>1
  <2>3. Least(0, 0)
    BY <1>2, <2>1, <2>2
  <2>. QED BY <2>1, <2>3
<1>4. ASSUME NEW k \in 1 .. n, k - 1 \in K PROVE k \in K
  <2>1. PICK b : Least(b, k - 1)
    BY <1>4
  <2>2. b \in 0 .. n /\ k \in 0 .. n /\ b \in 0 .. k /\ k \in 0 .. k
    BY <1>1, <2>1
  <2>3. \A c \in 0 .. k : c \in Blocks /\ (c = k \/ c \in 0 .. k - 1)
    BY <1>1
  <2>4. \A c \in 0 .. k : tbl[c] \in Info
    BY <2>3
  <2>5. CASE LessUtilized(tbl[k], tbl[b])
    <3>1. ASSUME NEW c \in 0 .. k, LessUtilized(tbl[c], tbl[k]) PROVE FALSE
      <4>1. c # k
        BY <1>2, <2>4, <3>1
      <4>2. LessUtilized(tbl[c], tbl[b])
        BY <2>2, <2>4, <2>5, <3>1, LessUtilizedTrans
      <4>. QED BY <2>1, <2>3, <4>1, <4>2
    <3>2. Least(k, k)
      BY <2>2, <3>1
    <3>. QED BY <2>2, <3>2
  <2>6. CASE ~LessUtilized(tbl[k], tbl[b])
    <3>1. Least(b, k)
      BY <2>1, <2>2, <2>3, <2>6
    <3>. QED BY <2>2, <3>1
  <2>. QED BY <2>5, <2>6
<1>5. n \in Nat
  BY <1>1
<1>6. n \in K
  <2>. HIDE DEF K
  <2>. QED BY <1>3, <1>4, <1>5, UpTo
<1>. DEFINE S == {b \in Blocks : \A c \in Blocks : ~LessUtilized(tbl[c], tbl[b])}
<1>7. S # {}
  BY <1>1, <1>6
<1>8. S \in SUBSET Nat
  BY <1>1
<1>9. ChooseGCBlock(tbl) = LeastOf(S)
  BY DEF ChooseGCBlock
<1>10. LeastOf(S) \in S
  <2>. HIDE DEF S
  <2>. QED BY <1>7, <1>8, LeastIs
<1>. QED BY <1>9, <1>10

(* A round of the collector.                                                 *)
LEMMA ForwardGCSound ==
  ASSUME NEW m, Sound(m), Running(m), NEW t, t = ForwardGC(m)
  PROVE  Sound(t) /\ t.live = m.live
<1>. DEFINE victim == ChooseGCBlock(m.table)
            moves == Moves(m.table, victim)
<1>1. m.table \in [Blocks -> Info]
  BY DEF Sound, States
<1>2. victim \in Blocks
  BY <1>1, VictimIsBlock
<1>3. t = DisposeGroup(m, moves, victim)
  BY DEF ForwardGC, Collect
<1>. HIDE DEF victim
<1>4. /\ moves \in Seq(Plan)
      /\ \A i \in DOMAIN moves :
           moves[i].to # NoPos => \E b \in Blocks \ {victim} : PlaceIn(m.table, moves[i].to, moves[i].size, b)
  BY <1>2, MovesTyped
<1>. HIDE DEF moves
<1>5. CASE \E i \in DOMAIN moves : moves[i].to = NoPos
  <2>1. t = Panic(m, "no_room")
    BY <1>3, <1>5 DEF DisposeGroup
  <2>. QED BY <2>1, PanicSound DEF Panics
<1>6. CASE ~ \E i \in DOMAIN moves : moves[i].to = NoPos
  <2>. DEFINE q == FoldLeft(MoveFragment, m, moves)
  <2>1. t = EraseVictim(q, victim)
    BY <1>3, <1>6 DEF DisposeGroup
  <2>2. AllPlaced(m.table, moves)
    <3>. SUFFICES ASSUME NEW i \in DOMAIN moves PROVE Placed(m.table, moves[i])
      BY DEF AllPlaced
    <3>1. moves[i] \in Plan /\ moves[i].to # NoPos
      BY <1>4, <1>6
    <3>2. moves[i].to \in Int
      BY <3>1 DEF Plan
    <3>. QED BY <1>4, <3>1, <3>2 DEF Placed
  <2>3. Sound(q) /\ q.live = m.live
    BY <1>4, <2>2, MovesSound
  <2>. HIDE DEF q
  <2>. QED BY <1>2, <2>1, <2>3, EraseVictimSound
<1>. QED BY <1>5, <1>6

(* The states a search for room goes through.                                *)
Searches(m) == {s \in States : Sound(s) /\ s.live = m.live /\ (~Running(m) => s = m)}

Round(s, n) == IF NoRoom(s, n) THEN ForwardGC(s) ELSE s

LEMMA RoundSound ==
  ASSUME NEW m, NEW s \in Searches(m), NEW n
  PROVE  Round(s, n) \in Searches(m)
<1>1. CASE NoRoom(s, n)
  <2>1. Running(s) /\ Sound(s) /\ s.live = m.live /\ (~Running(m) => s = m)
    BY <1>1 DEF Searches, NoRoom
  <2>2. Sound(ForwardGC(s)) /\ ForwardGC(s).live = s.live
    BY <2>1, ForwardGCSound
  <2>. QED BY <1>1, <2>1, <2>2 DEF Searches, Round, Sound
<1>2. CASE ~NoRoom(s, n)
  BY <1>2 DEF Round
<1>. QED BY <1>1, <1>2

Rounds(m, n) == FoldLeft(LAMBDA acc, i : Round(acc, n), m, [i \in 1..GCRounds |-> i])

LEMMA RoundsSound ==
  ASSUME NEW m, Sound(m), NEW n
  PROVE  Rounds(m, n) \in Searches(m)
<1>. DEFINE g == GCRounds
            U == Searches(m)
            G == [x \in U \X (1 .. g) |-> Round(x[1], n)]
            Def(it) == [s \in SUBSET (1 .. g) |->
                         IF s = {} THEN m ELSE Round(it[s \ {Max(s)}], n)]
            iter == CHOOSE it : it = Def(it)
<1>0. g \in Nat
  BY KVManagerAssumption
<1>01. m \in U
  BY DEF Searches, Sound
<1>1. G \in [U \X (1 .. g) -> U]
  BY RoundSound
<1>2. Rounds(m, n) = iter[1 .. g]
  BY DEF Rounds, FoldLeft, MapThenFoldSet
<1>. HIDE DEF g, U
<1>3. PICK h : Folds(h, U, m, G, g)
  <2>. HIDE DEF G
  <2>. QED BY <1>0, <1>01, <1>1, FoldExists
<1>4. h = Def(h)
  BY <1>0, <1>3, MaxIn DEF Folds
<1>5. iter = Def(iter)
  BY <1>4
<1>. HIDE DEF iter
<1>6. Recurs(iter, U, m, G, g)
  BY <1>0, <1>5, MaxIn DEF Recurs
<1>7. Walks(Walk(iter, g), U, m, G, g) /\ Walk(iter, g)[g] = iter[1 .. g]
  <2>. HIDE DEF G
  <2>. QED BY <1>0, <1>01, <1>1, <1>6, WalkOf
<1>8. iter[1 .. g] \in U
  BY <1>0, <1>7 DEF Walks
<1>. QED BY <1>2, <1>8 DEF U

LEMMA MakeRoomSound ==
  ASSUME NEW m, Sound(m), NEW n, NEW t, t = MakeRoom(m, n)
  PROVE  /\ Sound(t) /\ t.live = m.live /\ (~Running(m) => t = m)
         /\ Running(t) => FindWritePos(t.table, n) # NoPos
<1>. DEFINE s == Rounds(m, n)
<1>1. t = IF NoRoom(s, n) THEN Panic(s, "collects_forever") ELSE s
  BY DEF MakeRoom, Round, Rounds
<1>2. s \in Searches(m)
  BY RoundsSound
<1>. HIDE DEF s
<1>3. Sound(s) /\ s.live = m.live /\ (~Running(m) => s = m)
  BY <1>2 DEF Searches
<1>4. CASE NoRoom(s, n)
  <2>1. /\ Sound(t) /\ t.live = s.live /\ ~Running(t)
    BY <1>1, <1>3, <1>4, PanicSound DEF Panics
  <2>. QED BY <1>3, <1>4, <2>1 DEF NoRoom
<1>5. CASE ~NoRoom(s, n)
  BY <1>1, <1>3, <1>5 DEF NoRoom
<1>. QED BY <1>4, <1>5

-----------------------------------------------------------------------------
(* Values stored.                                                            *)

LEMMA StoppedRun ==
  ASSUME NEW m \in States, ~Running(m), NEW at, NEW pages \in Seq(PageData), NEW ino \in Inos
  PROVE  ProgramRun(m, at, pages, ino) = m
<1>1. PICK f : ProgramSteps(f, m, at, pages, ino)
  BY ProgramRunIs
<1>. DEFINE n == Len(pages)
            G == {k \in 0 .. n : f[k] = m}
<1>2. n \in Nat
  OBVIOUS
<1>3. 0 \in G
  BY <1>2, <1>1 DEF ProgramSteps
<1>4. ASSUME NEW k \in 1 .. n, k - 1 \in G PROVE k \in G
  <2>1. f[k] = ProgramAt(m, at + k - 1, pages[k], ino) /\ k \in 0 .. n
    BY <1>1, <1>2, <1>4 DEF ProgramSteps
  <2>2. f[k] = m
    BY <2>1, ProgramAtStops
  <2>. QED BY <2>1, <2>2
<1>. HIDE DEF n
<1>5. n \in G
  <2>. HIDE DEF G
  <2>1. \A k \in 0 .. n : k \in G
    BY <1>2, <1>3, <1>4, UpTo
  <2>. QED BY <1>2, <2>1
<1>. QED BY <1>1, <1>5 DEF ProgramSteps, n

PagesOfValue(val) == [i \in 1 .. PagesFor(Len(val)) |-> PageOf(val, i)]

LEMMA PagesOfValueTyped ==
  ASSUME NEW val \in Seq(ByteSet)
  PROVE  PagesOfValue(val) \in Seq(PageData) /\ Len(PagesOfValue(val)) = PagesFor(Len(val))
<1>1. PagesFor(Len(val)) \in Nat
  BY PagesForIs
<1>2. \A i \in 1 .. PagesFor(Len(val)) : PageOf(val, i) \in PageData
  BY <1>1, PageOfTyped
<1>. QED BY <1>1, <1>2 DEF PagesOfValue

LEMMA WriteValueSound ==
  ASSUME NEW m, Sound(m), NEW val \in Seq(ByteSet), Len(val) > 0, NEW off \in Int, NEW ino \in Inos,
         NEW w, w = WriteValue(m, val, off, ino)
  PROVE  /\ Sound(w.m) /\ w.m.live = m.live /\ (~Running(m) => w.m = m)
         /\ w.entry \in Entry /\ w.entry.len = Len(val) /\ w.entry.offset = off
<1>. DEFINE n == PagesFor(Len(val))
            r == MakeRoom(m, n)
            at == IF Running(r) THEN FindWritePos(r.table, n) ELSE 0
            pages == PagesOfValue(val)
            q == ProgramRun(r, at, pages, ino)
            e == [offset |-> off, len |-> Len(val), archived_len |-> Len(val), page_pointer |-> at]
<1>1. w = [m |-> q, entry |-> e]
  BY DEF WriteValue, StoreInRoom, StoreAt, PagesOfValue
<1>2. n \in Nat
  BY PagesForIs
<1>3. pages \in Seq(PageData) /\ Len(pages) = n
  BY PagesOfValueTyped
<1>. HIDE DEF pages
<1>4. /\ Sound(r) /\ r.live = m.live /\ (~Running(m) => r = m)
      /\ Running(r) => FindWritePos(r.table, n) # NoPos
  BY MakeRoomSound
<1>. HIDE DEF r, n
<1>5. at \in Int /\ Sound(q) /\ q.live = r.live /\ (~Running(r) => q = r)
  <2>1. CASE Running(r)
    <3>. DEFINE p == FindWritePos(r.table, n)
    <3>1. p = FirstFree(r.table, Roomy(r.table, Blocks, n))
      BY DEF FindWritePos, Roomy
    <3>2. p # NoPos
      BY <1>4, <2>1
    <3>. HIDE DEF p
    <3>3. p \in Nat /\ \E b \in Blocks : PlaceIn(r.table, p, n, b)
      BY <1>2, <1>4, <3>1, <3>2, FoundPlace
    <3>4. PICK b : PlaceIn(r.table, p, Len(pages), b)
      BY <1>3, <3>3
    <3>5. at = p
      BY <2>1 DEF p
    <3>6. Shrunk(r, r)
      BY <1>4 DEF Sound, Reserved, Shrunk
    <3>. HIDE DEF at
    <3>7. q = ProgramRun(r, p, pages, ino)
      BY <3>5
    <3>. HIDE DEF q
    <3>8. Sound(q) /\ q.live = r.live
      BY <1>3, <1>4, <3>4, <3>6, <3>7, ProgramPlaceSound
    <3>. QED BY <2>1, <3>3, <3>5, <3>8
  <2>2. CASE ~Running(r)
    <3>1. r \in States
      BY <1>4 DEF Sound
    <3>. HIDE DEF at
    <3>2. q = r
      BY <1>3, <2>2, <3>1, StoppedRun
    <3>3. at = 0
      BY <2>2 DEF at
    <3>. QED BY <1>4, <3>2, <3>3
  <2>. QED BY <2>1, <2>2
<1>. HIDE DEF at, q
<1>6. e \in Entry
  BY <1>5 DEF Entry, EntryRecord
<1>7. w.m = q /\ w.entry = e /\ e.len = Len(val) /\ e.offset = off
  BY <1>1
<1>. QED BY <1>4, <1>5, <1>6, <1>7

-----------------------------------------------------------------------------
(* The loops over an object's entries.                                       *)

LEMMA PagesForMono ==
  ASSUME NEW a \in Nat, NEW b \in Nat, a <= b
  PROVE  PagesFor(a) <= PagesFor(b)
<1>. DEFINE x == PagesFor(a)
            y == PagesFor(b)
<1>1. PageBytes \in Nat /\ PageBytes > 0
  BY KVManagerAssumption
<1>2. x \in Nat /\ y \in Nat
  BY PagesForIs
<1>3. CASE a = 0
  <2>1. x = 0
    BY <1>1, <1>3, (0 - 1) \div PageBytes = 0 - 1, SMTT(30) DEF PagesFor
  <2>. QED BY <1>2, <2>1
<1>4. CASE a > 0
  <2>1. (x - 1) * PageBytes < a /\ b <= y * PageBytes
    BY <1>4, PagesForIs
  <2>. HIDE DEF x, y
  <2>2. ASSUME x - 1 >= y PROVE FALSE
    <3>1. (x - 1) - y >= 0 /\ ((x - 1) - y) * PageBytes >= 0
      BY <1>1, <1>2, <2>2
    <3>2. ((x - 1) - y) * PageBytes = (x - 1) * PageBytes - y * PageBytes
      BY <1>1, <1>2
    <3>3. (x - 1) * PageBytes \in Int /\ y * PageBytes \in Int
      BY <1>1, <1>2
    <3>. QED BY <2>1, <3>1, <3>2, <3>3
  <2>3. x <= y
    BY <1>2, <2>2
  <2>. QED BY <2>3 DEF x, y
<1>. QED BY <1>3, <1>4

(* What is kept of an entry that is hit is a part of it.                     *)
LEMMA KeptIs ==
  ASSUME NEW e \in Entry, NEW off \in Int, NEW fin \in Int, Hit(e, off, fin)
  PROVE  /\ Before(e, off) \in Nat /\ Before(e, off) <= e.len
         /\ After(e, fin) \in Nat /\ After(e, fin) <= e.len
         /\ e.len \in Nat /\ e.archived_len \in Nat /\ e.len <= e.archived_len
         /\ e.offset \in Int /\ e.page_pointer \in Int
<1>1. /\ e.len \in Nat /\ e.archived_len \in Nat /\ e.len <= e.archived_len
      /\ e.offset \in Int /\ e.page_pointer \in Int
  BY DEF Entry, EntryRecord
<1>2. e.offset + e.len > off /\ e.offset < fin
  BY DEF Hit, EndsBehind
<1>. QED BY <1>1, <1>2 DEF Before, After, Larger

Loops(alive) ==
  {acc \in [m : States, removed : Seq(Int), at : Nat, head : Seq(Entry), tail : Seq(Entry)] :
     Sound(acc.m) /\ acc.m.live = alive}

(* Where the loop stands after k entries: no more are removed than lie       *)
(* between the place of insertion and it.                                    *)
Progress(acc, k) ==
  /\ acc.at = 0 => acc.removed = <<>> /\ acc.tail = <<>>
  /\ acc.at # 0 => acc.at <= k + 1 /\ Len(acc.removed) <= k + 1 - acc.at

LEMMA LoopStarts ==
  ASSUME NEW m, Sound(m)
  PROVE  Loop(m) \in Loops(m.live) /\ Progress(Loop(m), 0)
  BY DEF Loop, Loops, Progress, Sound

LEMMA InsertionTyped ==
  ASSUME NEW alive, NEW acc \in Loops(alive), NEW i \in Nat \ {0}, NEW t, t = InsertionAt(acc, i)
  PROVE  /\ t \in Loops(alive) /\ t.m = acc.m /\ t.removed = acc.removed /\ t.tail = acc.tail
         /\ t.at = IF acc.at = 0 THEN i ELSE acc.at
  BY DEF InsertionAt, Loops

LEMMA RemoveEntryTyped ==
  ASSUME NEW alive, NEW acc \in Loops(alive), NEW i \in Nat \ {0}, NEW e \in Entry,
         NEW t, t = RemoveEntry(acc, i, e)
  PROVE  /\ t \in Loops(alive) /\ t.tail = acc.tail
         /\ Len(t.removed) = Len(acc.removed) + 1
         /\ t.at = IF acc.at = 0 THEN i ELSE acc.at
<1>. DEFINE s == [acc EXCEPT !.removed = Append(@, e.page_pointer)]
<1>1. e.page_pointer \in Int
  BY DEF Entry, EntryRecord
<1>2. acc.removed \in Seq(Int)
  BY DEF Loops
<1>3. Append(acc.removed, e.page_pointer) \in Seq(Int)
      /\ Len(Append(acc.removed, e.page_pointer)) = Len(acc.removed) + 1
  BY <1>1, <1>2
<1>4. s \in Loops(alive) /\ s.tail = acc.tail /\ s.at = acc.at
      /\ s.removed = Append(acc.removed, e.page_pointer)
  BY <1>3 DEF Loops
<1>5. t = InsertionAt(s, i)
  BY DEF RemoveEntry
<1>. HIDE DEF s
<1>6. /\ t \in Loops(alive) /\ t.removed = s.removed /\ t.tail = s.tail
      /\ t.at = IF s.at = 0 THEN i ELSE s.at
  <2>1. s \in Loops(alive)
    BY <1>4
  <2>. QED BY <1>5, <2>1, InsertionTyped
<1>. QED BY <1>3, <1>4, <1>6

LEMMA DropFromTyped ==
  ASSUME NEW alive, NEW acc \in Loops(alive), NEW a, NEW n \in Nat, NEW t, t = DropFrom(acc, a, n)
  PROVE  t \in Loops(alive) /\ t.at = acc.at /\ t.removed = acc.removed /\ t.tail = acc.tail
<1>. DEFINE d == DropPages(acc.m, a, n)
<1>1. Sound(acc.m) /\ acc.m.live = alive /\ acc.m \in States
  BY DEF Loops
<1>2. d \in States /\ SameButUse(acc.m, d)
  BY <1>1, DropPagesDone
<1>3. t = [acc EXCEPT !.m = d]
  BY DEF DropFrom
<1>. HIDE DEF d
<1>4. Sound(d) /\ d.live = alive
  BY <1>1, <1>2, SameIsSound DEF SameButUse
<1>. QED BY <1>2, <1>3, <1>4 DEF Loops

LEMMA KeepHeadTyped ==
  ASSUME NEW alive, NEW acc \in Loops(alive), NEW e \in Entry, NEW off \in Int, NEW fin \in Int,
         Hit(e, off, fin), NEW ino \in Inos, NEW t, t = KeepHead(acc, e, off, ino)
  PROVE  t \in Loops(alive) /\ t.at = acc.at /\ t.removed = acc.removed /\ t.tail = acc.tail
<1>. DEFINE val == SubSeq(ReadEntry(acc.m, e), 1, Before(e, off))
            w == WriteValue(acc.m, val, e.offset, ino)
<1>1. Sound(acc.m) /\ acc.m.live = alive /\ acc.m \in States
  BY DEF Loops
<1>2. /\ Before(e, off) \in Nat /\ Before(e, off) <= e.len /\ e.len <= e.archived_len
      /\ e.len \in Nat /\ e.archived_len \in Nat /\ e.offset \in Int
  BY KeptIs
<1>3. val \in Seq(ByteSet) /\ Len(val) = Before(e, off)
  <2>1. ReadEntry(acc.m, e) \in Seq(ByteSet) /\ Len(ReadEntry(acc.m, e)) = e.archived_len
    BY <1>1, ReadEntryTyped
  <2>2. Before(e, off) <= e.archived_len
    BY <1>2
  <2>. QED BY <1>2, <2>1, <2>2, PartTyped
<1>4. t = IF Before(e, off) = 0 THEN acc ELSE [acc EXCEPT !.m = w.m, !.head = <<w.entry>>]
  BY DEF KeepHead
<1>. HIDE DEF val
<1>5. CASE Before(e, off) = 0
  BY <1>4, <1>5
<1>6. CASE Before(e, off) # 0
  <2>1. Len(val) > 0
    BY <1>2, <1>3, <1>6
  <2>2. Sound(w.m) /\ w.m.live = alive /\ w.entry \in Entry /\ w.m \in States
    BY <1>1, <1>2, <1>3, <2>1, WriteValueSound DEF Sound
  <2>. HIDE DEF w
  <2>3. <<w.entry>> \in Seq(Entry)
    BY <2>2
  <2>. QED BY <1>4, <1>6, <2>2, <2>3 DEF Loops
<1>. QED BY <1>5, <1>6

LEMMA KeepTailTyped ==
  ASSUME NEW alive, NEW acc \in Loops(alive), NEW e \in Entry, NEW off \in Int, NEW fin \in Int,
         Hit(e, off, fin), NEW ino \in Inos, NEW t, t = KeepTail(acc, e, fin, ino)
  PROVE  t \in Loops(alive) /\ t.at = acc.at /\ t.removed = acc.removed
<1>. DEFINE n == After(e, fin)
            val == TailOf(ReadEntry(acc.m, e), n)
            w == WriteValue(acc.m, val, e.offset + e.len - n, ino)
<1>1. Sound(acc.m) /\ acc.m.live = alive /\ acc.m \in States
  BY DEF Loops
<1>2. /\ n \in Nat /\ n <= e.len /\ e.len <= e.archived_len
      /\ e.len \in Nat /\ e.archived_len \in Nat /\ e.offset \in Int
  BY KeptIs
<1>. HIDE DEF n
<1>3. val \in Seq(ByteSet) /\ Len(val) = n
  <2>1. ReadEntry(acc.m, e) \in Seq(ByteSet) /\ Len(ReadEntry(acc.m, e)) = e.archived_len
    BY <1>1, ReadEntryTyped
  <2>2. n <= e.archived_len
    BY <1>2
  <2>. QED BY <1>2, <2>1, <2>2, PartTyped
<1>4. t = IF n = 0 THEN acc ELSE [acc EXCEPT !.m = w.m, !.tail = <<w.entry>>]
  BY DEF KeepTail, n
<1>. HIDE DEF val
<1>5. e.offset + e.len - n \in Int
  BY <1>2
<1>6. CASE n = 0
  BY <1>4, <1>6
<1>7. CASE n # 0
  <2>1. Len(val) > 0
    BY <1>2, <1>3, <1>7
  <2>2. Sound(w.m) /\ w.m.live = alive /\ w.entry \in Entry /\ w.m \in States
    BY <1>1, <1>3, <1>5, <2>1, WriteValueSound DEF Sound
  <2>. HIDE DEF w
  <2>3. <<w.entry>> \in Seq(Entry)
    BY <2>2
  <2>. QED BY <1>4, <1>7, <2>2, <2>3 DEF Loops
<1>. QED BY <1>6, <1>7

LEMMA ReplaceEntryTyped ==
  ASSUME NEW alive, NEW acc \in Loops(alive), NEW i \in Nat \ {0}, NEW e \in Entry,
         NEW off \in Int, NEW fin \in Int, NEW ino \in Inos,
         NEW t, t = ReplaceEntry(acc, i, e, off, fin, ino)
  PROVE  t \in Loops(alive) /\ (Progress(acc, i - 1) => Progress(t, i))
<1>1. CASE ~Hit(e, off, fin)
  <2>1. t = acc
    BY <1>1 DEF ReplaceEntry
  <2>2. acc.at \in Nat /\ Len(acc.removed) \in Nat
    BY DEF Loops
  <2>3. Progress(acc, i - 1) => Progress(acc, i)
    BY <2>2 DEF Progress
  <2>. QED BY <2>1, <2>3
<1>2. CASE Hit(e, off, fin)
  <2>. DEFINE x == RemoveEntry(acc, i, e)
              y == KeepHead(x, e, off, ino)
              z == KeepTail(y, e, fin, ino)
  <2>1. /\ x \in Loops(alive)
        /\ Len(x.removed) = Len(acc.removed) + 1
        /\ x.at = IF acc.at = 0 THEN i ELSE acc.at
    BY RemoveEntryTyped
  <2>. HIDE DEF x
  <2>2. y \in Loops(alive) /\ y.at = x.at /\ y.removed = x.removed
    BY <1>2, <2>1, KeepHeadTyped
  <2>. HIDE DEF y
  <2>3. z \in Loops(alive) /\ z.at = y.at /\ z.removed = y.removed
    BY <1>2, <2>2, KeepTailTyped
  <2>4. t = DropFrom(z, e.page_pointer, PagesFor(e.archived_len))
    BY <1>2 DEF ReplaceEntry, x, y
  <2>. HIDE DEF z
  <2>5. PagesFor(e.archived_len) \in Nat
    BY PagesForIs DEF Entry, EntryRecord
  <2>6. t \in Loops(alive) /\ t.at = z.at /\ t.removed = z.removed
    BY <2>3, <2>4, <2>5, DropFromTyped
  <2>7. t.at = (IF acc.at = 0 THEN i ELSE acc.at) /\ Len(t.removed) = Len(acc.removed) + 1
    BY <2>1, <2>2, <2>3, <2>6
  <2>8. acc.at \in Nat /\ Len(acc.removed) \in Nat
    BY DEF Loops
  <2>9. ASSUME Progress(acc, i - 1) PROVE Progress(t, i)
    <3>1. CASE acc.at = 0
      <4>1. acc.removed = <<>> /\ Len(acc.removed) = 0
        BY <2>9, <3>1 DEF Progress
      <4>2. t.at = i /\ Len(t.removed) = 1
        BY <2>7, <3>1, <4>1
      <4>. QED BY <4>2 DEF Progress
    <3>2. CASE acc.at # 0
      <4>1. acc.at <= (i - 1) + 1 /\ Len(acc.removed) <= (i - 1) + 1 - acc.at
        BY <2>9, <3>2 DEF Progress
      <4>2. t.at = acc.at
        BY <2>7, <3>2
      <4>3. t.at # 0 /\ t.at <= i + 1 /\ Len(t.removed) <= i + 1 - t.at
        BY <2>7, <2>8, <3>2, <4>1, <4>2
      <4>. QED BY <4>3 DEF Progress
    <3>. QED BY <3>1, <3>2
  <2>. QED BY <2>6, <2>9
<1>. QED BY <1>1, <1>2

ReplaceSteps(f, m, es, off, fin, ino, t) ==
  /\ f \in [0 .. Len(es) -> Loops(m.live)]
  /\ f[0] = Loop(m) /\ f[Len(es)] = t
  /\ \A k \in 1 .. Len(es) : f[k] = ReplaceEntry(f[k - 1], k, es[k], off, fin, ino)

LEMMA ReplaceHitsIs ==
  ASSUME NEW m, Sound(m), NEW obj \in Objects, NEW off \in Int, NEW fin \in Int, NEW ino \in Inos,
         NEW t, t = ReplaceHits(m, obj, off, fin, ino)
  PROVE  \E f : ReplaceSteps(f, m, obj.entries, off, fin, ino, t)
<1>. DEFINE es == obj.entries
            n == Len(es)
            U == Loops(m.live)
            base == Loop(m)
            G == [x \in U \X (1 .. n) |-> ReplaceEntry(x[1], x[2], es[x[2]], off, fin, ino)]
            Def(it) == [s \in SUBSET DOMAIN [i \in DOMAIN es |-> i] |->
                         IF s = {} THEN base
                         ELSE ReplaceEntry(it[s \ {Max(s)}], [i \in DOMAIN es |-> i][Max(s)],
                                           es[[i \in DOMAIN es |-> i][Max(s)]], off, fin, ino)]
            iter == CHOOSE it : it = Def(it)
<1>1. es \in Seq(Entry)
  BY DEF Objects
<1>2. t = iter[DOMAIN [i \in DOMAIN es |-> i]]
  BY DEF ReplaceHits, FoldLeftDomain, FoldLeft, MapThenFoldSet
<1>. HIDE DEF es
<1>3. n \in Nat
  BY <1>1
<1>4. \A k \in 1 .. n : es[k] \in Entry
  BY <1>1
<1>5. DOMAIN es = 1 .. n /\ DOMAIN [i \in DOMAIN es |-> i] = 1 .. n
  BY <1>1
<1>. HIDE DEF n
<1>6. base \in U /\ Progress(base, 0)
  BY LoopStarts
<1>7. G \in [U \X (1 .. n) -> U]
  <2>1. \A k \in 1 .. n : k \in Nat \ {0}
    BY <1>3
  <2>. QED BY <1>4, <2>1, ReplaceEntryTyped
<1>. HIDE DEF U, base
<1>8. PICK h : Folds(h, U, base, G, n)
  <2>. HIDE DEF G
  <2>. QED BY <1>3, <1>6, <1>7, FoldExists
<1>9. h = Def(h)
  BY <1>3, <1>5, <1>8, MaxIn DEF Folds
<1>10. iter = Def(iter)
  BY <1>9
<1>. HIDE DEF iter
<1>11. Recurs(iter, U, base, G, n)
  BY <1>3, <1>5, <1>10, MaxIn DEF Recurs
<1>. DEFINE f == Walk(iter, n)
<1>12. Walks(f, U, base, G, n) /\ f[n] = iter[1 .. n]
  <2>. HIDE DEF G, Def
  <2>. QED BY <1>3, <1>6, <1>7, <1>11, WalkOf
<1>. HIDE DEF f
<1>13. /\ f \in [0 .. n -> U] /\ f[0] = base /\ f[n] = t
       /\ \A k \in 1 .. n : f[k] = G[<<f[k - 1], k>>]
  BY <1>2, <1>5, <1>12 DEF Walks
<1>14. \A k \in 1 .. n : f[k] = ReplaceEntry(f[k - 1], k, es[k], off, fin, ino)
  <2>1. \A k \in 1 .. n : k - 1 \in 0 .. n
    BY <1>3
  <2>. QED BY <1>13, <2>1
<1>15. ReplaceSteps(f, m, es, off, fin, ino, t)
  BY <1>13, <1>14 DEF ReplaceSteps, U, base, n
<1>. QED BY <1>15 DEF es

LEMMA ReplaceHitsTyped ==
  ASSUME NEW m, Sound(m), NEW obj \in Objects, NEW off \in Int, NEW fin \in Int, NEW ino \in Inos,
         NEW t, t = ReplaceHits(m, obj, off, fin, ino)
  PROVE  t \in Loops(m.live) /\ Progress(t, Len(obj.entries))
<1>. DEFINE es == obj.entries
            n == Len(es)
<1>1. PICK f : ReplaceSteps(f, m, es, off, fin, ino, t)
  BY ReplaceHitsIs
<1>2. n \in Nat /\ \A k \in 1 .. n : es[k] \in Entry
  BY DEF Objects
<1>. HIDE DEF es
<1>3. /\ f \in [0 .. n -> Loops(m.live)] /\ f[0] = Loop(m) /\ f[n] = t
      /\ \A k \in 1 .. n : f[k] = ReplaceEntry(f[k - 1], k, es[k], off, fin, ino)
  BY <1>1 DEF ReplaceSteps
<1>. HIDE DEF n
<1>. DEFINE K == {k \in 0 .. n : Progress(f[k], k)}
<1>4. 0 \in K
  BY <1>2, <1>3, LoopStarts
<1>5. ASSUME NEW k \in 1 .. n, k - 1 \in K PROVE k \in K
  <2>1. k - 1 \in 0 .. n /\ k \in 0 .. n /\ k \in Nat \ {0}
    BY <1>2
  <2>2. f[k - 1] \in Loops(m.live) /\ f[k] = ReplaceEntry(f[k - 1], k, es[k], off, fin, ino)
    BY <1>3, <2>1
  <2>3. Progress(f[k - 1], k - 1)
    BY <1>5
  <2>4. es[k] \in Entry
    BY <1>2
  <2>5. Progress(f[k], k)
    BY <2>1, <2>2, <2>3, <2>4, ReplaceEntryTyped
  <2>. QED BY <2>1, <2>5
<1>6. n \in K
  <2>. HIDE DEF K
  <2>1. n \in Nat
    BY <1>2
  <2>2. \A k \in 0 .. n : k \in K
    BY <1>4, <1>5, <2>1, UpTo
  <2>. QED BY <2>1, <2>2
<1>7. t \in Loops(m.live)
  BY <1>2, <1>3
<1>. QED BY <1>3, <1>6, <1>7 DEF n, es

LEMMA CutEndTyped ==
  ASSUME NEW alive, NEW acc \in Loops(alive), NEW i \in Nat \ {0}, NEW e \in Entry,
         NEW off \in Int, NEW fin \in Int, Hit(e, off, fin), NEW t, t = CutEnd(acc, i, e, off)
  PROVE  /\ t \in Loops(alive) /\ t.removed = acc.removed
         /\ t.at = IF acc.at = 0 THEN i + 1 ELSE acc.at
<1>. DEFINE keep == PagesFor(Before(e, off))
            n == PagesFor(e.len) - keep
            d == DropFrom(acc, e.page_pointer + keep, n)
<1>1. n \in Nat
  <2>1. Before(e, off) \in Nat /\ e.len \in Nat /\ Before(e, off) <= e.len
    BY KeptIs
  <2>2. keep \in Nat /\ PagesFor(e.len) \in Nat /\ keep <= PagesFor(e.len)
    BY <2>1, PagesForIs, PagesForMono
  <2>. QED BY <2>2
<1>2. t = InsertionAt(d, i + 1)
  BY DEF CutEnd
<1>. HIDE DEF n, keep
<1>3. d \in Loops(alive) /\ d.at = acc.at /\ d.removed = acc.removed
  BY <1>1, DropFromTyped
<1>. HIDE DEF d
<1>4. i + 1 \in Nat \ {0}
  OBVIOUS
<1>5. t \in Loops(alive) /\ t.removed = d.removed /\ t.at = IF d.at = 0 THEN i + 1 ELSE d.at
  <2>1. d \in Loops(alive)
    BY <1>3
  <2>. QED BY <1>2, <1>4, <2>1, InsertionTyped
<1>. QED BY <1>3, <1>5

LEMMA CutEntryTyped ==
  ASSUME NEW alive, NEW acc \in Loops(alive), NEW i \in Nat \ {0}, NEW e \in Entry,
         NEW off \in Int, NEW fin \in Int, NEW ino \in Inos,
         NEW t, t = CutEntry(acc, i, e, off, fin, ino)
  PROVE  t \in Loops(alive) /\ (Progress(acc, i - 1) => Progress(t, i))
<1>0. acc.at \in Nat /\ Len(acc.removed) \in Nat
  BY DEF Loops
<1>1. CASE ~Hit(e, off, fin)
  <2>1. t = acc
    BY <1>1 DEF CutEntry
  <2>2. Progress(acc, i - 1) => Progress(acc, i)
    BY <1>0 DEF Progress
  <2>. QED BY <2>1, <2>2
<1>2. CASE Hit(e, off, fin) /\ Before(e, off) = 0
  <2>. DEFINE x == DropFrom(acc, e.page_pointer, PagesFor(e.len))
              y == RemoveEntry(x, i, e)
  <2>1. PagesFor(e.len) \in Nat
    BY PagesForIs DEF Entry, EntryRecord
  <2>2. x \in Loops(alive) /\ x.at = acc.at /\ x.removed = acc.removed
    BY <2>1, DropFromTyped
  <2>3. t = KeepTail(y, e, fin, ino)
    BY <1>2 DEF CutEntry
  <2>. HIDE DEF x
  <2>4. /\ y \in Loops(alive)
        /\ Len(y.removed) = Len(x.removed) + 1
        /\ y.at = IF x.at = 0 THEN i ELSE x.at
    <3>1. x \in Loops(alive)
      BY <2>2
    <3>. QED BY <3>1, RemoveEntryTyped
  <2>. HIDE DEF y
  <2>5. t \in Loops(alive) /\ t.at = y.at /\ t.removed = y.removed
    <3>1. y \in Loops(alive)
      BY <2>4
    <3>. QED BY <1>2, <2>3, <3>1, KeepTailTyped
  <2>6. t.at = (IF acc.at = 0 THEN i ELSE acc.at) /\ Len(t.removed) = Len(acc.removed) + 1
    BY <2>2, <2>4, <2>5
  <2>7. ASSUME Progress(acc, i - 1) PROVE Progress(t, i)
    <3>1. CASE acc.at = 0
      <4>1. acc.removed = <<>> /\ Len(acc.removed) = 0
        BY <2>7, <3>1 DEF Progress
      <4>2. t.at = i /\ Len(t.removed) = 1
        BY <2>6, <3>1, <4>1
      <4>. QED BY <4>2 DEF Progress
    <3>2. CASE acc.at # 0
      <4>1. acc.at <= (i - 1) + 1 /\ Len(acc.removed) <= (i - 1) + 1 - acc.at
        BY <2>7, <3>2 DEF Progress
      <4>2. t.at = acc.at
        BY <2>6, <3>2
      <4>3. t.at # 0 /\ t.at <= i + 1 /\ Len(t.removed) <= i + 1 - t.at
        BY <1>0, <2>6, <3>2, <4>1, <4>2
      <4>. QED BY <4>3 DEF Progress
    <3>. QED BY <3>1, <3>2
  <2>. QED BY <2>5, <2>7
<1>3. CASE Hit(e, off, fin) /\ Before(e, off) # 0
  <2>. DEFINE y == CutEnd(acc, i, e, off)
  <2>1. t = KeepTail(y, e, fin, ino)
    BY <1>3 DEF CutEntry
  <2>2. /\ y \in Loops(alive) /\ y.removed = acc.removed
        /\ y.at = IF acc.at = 0 THEN i + 1 ELSE acc.at
    BY <1>3, CutEndTyped
  <2>. HIDE DEF y
  <2>3. t \in Loops(alive) /\ t.at = y.at /\ t.removed = y.removed
    <3>1. y \in Loops(alive)
      BY <2>2
    <3>. QED BY <1>3, <2>1, <3>1, KeepTailTyped
  <2>4. t.at = (IF acc.at = 0 THEN i + 1 ELSE acc.at) /\ t.removed = acc.removed
    BY <2>2, <2>3
  <2>5. ASSUME Progress(acc, i - 1) PROVE Progress(t, i)
    <3>1. CASE acc.at = 0
      <4>1. acc.removed = <<>> /\ Len(acc.removed) = 0
        BY <2>5, <3>1 DEF Progress
      <4>2. t.at = i + 1 /\ Len(t.removed) = 0
        BY <2>4, <3>1, <4>1
      <4>. QED BY <4>2 DEF Progress
    <3>2. CASE acc.at # 0
      <4>1. acc.at <= (i - 1) + 1 /\ Len(acc.removed) <= (i - 1) + 1 - acc.at
        BY <2>5, <3>2 DEF Progress
      <4>2. t.at = acc.at
        BY <2>4, <3>2
      <4>3. t.at # 0 /\ t.at <= i + 1 /\ Len(t.removed) <= i + 1 - t.at
        BY <1>0, <2>4, <3>2, <4>1, <4>2
      <4>. QED BY <4>3 DEF Progress
    <3>. QED BY <3>1, <3>2
  <2>. QED BY <2>3, <2>5
<1>. QED BY <1>1, <1>2, <1>3

CutSteps(f, m, es, off, fin, ino, t) ==
  /\ f \in [0 .. Len(es) -> Loops(m.live)]
  /\ f[0] = Loop(m) /\ f[Len(es)] = t
  /\ \A k \in 1 .. Len(es) : f[k] = CutEntry(f[k - 1], k, es[k], off, fin, ino)

LEMMA CutHitsIs ==
  ASSUME NEW m, Sound(m), NEW obj \in Objects, NEW off \in Int, NEW fin \in Int, NEW ino \in Inos,
         NEW t, t = CutHits(m, obj, off, fin, ino)
  PROVE  \E f : CutSteps(f, m, obj.entries, off, fin, ino, t)
<1>. DEFINE es == obj.entries
            n == Len(es)
            U == Loops(m.live)
            base == Loop(m)
            G == [x \in U \X (1 .. n) |-> CutEntry(x[1], x[2], es[x[2]], off, fin, ino)]
            Def(it) == [s \in SUBSET DOMAIN [i \in DOMAIN es |-> i] |->
                         IF s = {} THEN base
                         ELSE CutEntry(it[s \ {Max(s)}], [i \in DOMAIN es |-> i][Max(s)],
                                           es[[i \in DOMAIN es |-> i][Max(s)]], off, fin, ino)]
            iter == CHOOSE it : it = Def(it)
<1>1. es \in Seq(Entry)
  BY DEF Objects
<1>2. t = iter[DOMAIN [i \in DOMAIN es |-> i]]
  BY DEF CutHits, FoldLeftDomain, FoldLeft, MapThenFoldSet
<1>. HIDE DEF es
<1>3. n \in Nat
  BY <1>1
<1>4. \A k \in 1 .. n : es[k] \in Entry
  BY <1>1
<1>5. DOMAIN es = 1 .. n /\ DOMAIN [i \in DOMAIN es |-> i] = 1 .. n
  BY <1>1
<1>. HIDE DEF n
<1>6. base \in U /\ Progress(base, 0)
  BY LoopStarts
<1>7. G \in [U \X (1 .. n) -> U]
  <2>1. \A k \in 1 .. n : k \in Nat \ {0}
    BY <1>3
  <2>. QED BY <1>4, <2>1, CutEntryTyped
<1>. HIDE DEF U, base
<1>8. PICK h : Folds(h, U, base, G, n)
  <2>. HIDE DEF G
  <2>. QED BY <1>3, <1>6, <1>7, FoldExists
<1>9. h = Def(h)
  BY <1>3, <1>5, <1>8, MaxIn DEF Folds
<1>10. iter = Def(iter)
  BY <1>9
<1>. HIDE DEF iter
<1>11. Recurs(iter, U, base, G, n)
  BY <1>3, <1>5, <1>10, MaxIn DEF Recurs
<1>. DEFINE f == Walk(iter, n)
<1>12. Walks(f, U, base, G, n) /\ f[n] = iter[1 .. n]
  <2>. HIDE DEF G, Def
  <2>. QED BY <1>3, <1>6, <1>7, <1>11, WalkOf
<1>. HIDE DEF f
<1>13. /\ f \in [0 .. n -> U] /\ f[0] = base /\ f[n] = t
       /\ \A k \in 1 .. n : f[k] = G[<<f[k - 1], k>>]
  BY <1>2, <1>5, <1>12 DEF Walks
<1>14. \A k \in 1 .. n : f[k] = CutEntry(f[k - 1], k, es[k], off, fin, ino)
  <2>1. \A k \in 1 .. n : k - 1 \in 0 .. n
    BY <1>3
  <2>. QED BY <1>13, <2>1
<1>15. CutSteps(f, m, es, off, fin, ino, t)
  BY <1>13, <1>14 DEF CutSteps, U, base, n
<1>. QED BY <1>15 DEF es

LEMMA CutHitsTyped ==
  ASSUME NEW m, Sound(m), NEW obj \in Objects, NEW off \in Int, NEW fin \in Int, NEW ino \in Inos,
         NEW t, t = CutHits(m, obj, off, fin, ino)
  PROVE  t \in Loops(m.live) /\ Progress(t, Len(obj.entries))
<1>. DEFINE es == obj.entries
            n == Len(es)
<1>1. PICK f : CutSteps(f, m, es, off, fin, ino, t)
  BY CutHitsIs
<1>2. n \in Nat /\ \A k \in 1 .. n : es[k] \in Entry
  BY DEF Objects
<1>. HIDE DEF es
<1>3. /\ f \in [0 .. n -> Loops(m.live)] /\ f[0] = Loop(m) /\ f[n] = t
      /\ \A k \in 1 .. n : f[k] = CutEntry(f[k - 1], k, es[k], off, fin, ino)
  BY <1>1 DEF CutSteps
<1>. HIDE DEF n
<1>. DEFINE K == {k \in 0 .. n : Progress(f[k], k)}
<1>4. 0 \in K
  BY <1>2, <1>3, LoopStarts
<1>5. ASSUME NEW k \in 1 .. n, k - 1 \in K PROVE k \in K
  <2>1. k - 1 \in 0 .. n /\ k \in 0 .. n /\ k \in Nat \ {0}
    BY <1>2
  <2>2. f[k - 1] \in Loops(m.live) /\ f[k] = CutEntry(f[k - 1], k, es[k], off, fin, ino)
    BY <1>3, <2>1
  <2>3. Progress(f[k - 1], k - 1)
    BY <1>5
  <2>4. es[k] \in Entry
    BY <1>2
  <2>5. Progress(f[k], k)
    BY <2>1, <2>2, <2>3, <2>4, CutEntryTyped
  <2>. QED BY <2>1, <2>5
<1>6. n \in K
  <2>. HIDE DEF K
  <2>1. n \in Nat
    BY <1>2
  <2>2. \A k \in 0 .. n : k \in K
    BY <1>4, <1>5, <2>1, UpTo
  <2>. QED BY <2>1, <2>2
<1>7. t \in Loops(m.live)
  BY <1>2, <1>3
<1>. QED BY <1>3, <1>6, <1>7 DEF n, es

-----------------------------------------------------------------------------
(* The object that is stored.                                                *)

Without(es, p) == RemoveFirstMatch(es, LAMBDA e : e.page_pointer = p)

LEMMA WithoutTyped ==
  ASSUME NEW es \in Seq(Entry), NEW p
  PROVE  /\ Without(es, p) \in Seq(Entry)
         /\ Len(Without(es, p)) \in Nat /\ Len(Without(es, p)) >= Len(es) - 1
<1>. DEFINE n == Len(es)
            S == {i \in 1 .. n : es[i].page_pointer = p}
            j == Min(S)
<1>1. n \in Nat
  OBVIOUS
<1>2. CASE S = {}
  <2>1. Without(es, p) = es
    BY <1>2 DEF Without, RemoveFirstMatch
  <2>. QED BY <1>1, <2>1
<1>3. CASE S # {}
  <2>1. Without(es, p) = SubSeq(es, 1, j - 1) \o SubSeq(es, j + 1, n)
    BY <1>3 DEF Without, RemoveFirstMatch, RemoveAt, SelectInSeq
  <2>2. j = LeastOf(S)
    BY DEF Min, LeastOf
  <2>3. S \in SUBSET Nat
    BY <1>1
  <2>4. j \in S
    <3>. HIDE DEF S
    <3>. QED BY <1>3, <2>2, <2>3, LeastIs
  <2>5. j \in 1 .. n
    BY <2>4
  <2>. HIDE DEF j, S
  <2>6. SubSeq(es, 1, j - 1) \in Seq(Entry) /\ Len(SubSeq(es, 1, j - 1)) = j - 1
    BY <2>5
  <2>7. SubSeq(es, j + 1, n) \in Seq(Entry) /\ Len(SubSeq(es, j + 1, n)) = n - j
    BY <1>1, <2>5
  <2>8. /\ Without(es, p) \in Seq(Entry)
        /\ Len(Without(es, p)) = (j - 1) + (n - j)
    <3>. DEFINE u == SubSeq(es, 1, j - 1)
                v == SubSeq(es, j + 1, n)
    <3>. HIDE DEF u, v
    <3>1. u \in Seq(Entry) /\ v \in Seq(Entry) /\ Len(u) = j - 1 /\ Len(v) = n - j
      BY <2>6, <2>7 DEF u, v
    <3>2. u \o v \in Seq(Entry) /\ Len(u \o v) = Len(u) + Len(v)
      BY <3>1
    <3>. QED BY <2>1, <3>1, <3>2 DEF u, v
  <2>. QED BY <1>1, <2>5, <2>8
<1>. QED BY <1>2, <1>3

RemoveSteps(f, es, ps, t) ==
  /\ f \in [0 .. Len(ps) -> Seq(Entry)]
  /\ f[0] = es /\ f[Len(ps)] = t
  /\ \A k \in 1 .. Len(ps) : f[k] = Without(f[k - 1], ps[k])

LEMMA RemoveByPointerIs ==
  ASSUME NEW es \in Seq(Entry), NEW ps \in Seq(Int), NEW t, t = RemoveByPointer(es, ps)
  PROVE  \E f : RemoveSteps(f, es, ps, t)
<1>. DEFINE n == Len(ps)
            U == Seq(Entry)
            G == [x \in U \X (1 .. n) |-> Without(x[1], ps[x[2]])]
            Def(it) == [s \in SUBSET DOMAIN ps |->
                         IF s = {} THEN es ELSE Without(it[s \ {Max(s)}], ps[Max(s)])]
            iter == CHOOSE it : it = Def(it)
<1>1. n \in Nat
  OBVIOUS
<1>2. t = iter[DOMAIN ps]
  BY DEF RemoveByPointer, Without, FoldLeft, MapThenFoldSet
<1>3. DOMAIN ps = 1 .. n
  OBVIOUS
<1>. HIDE DEF n
<1>4. G \in [U \X (1 .. n) -> U]
  BY WithoutTyped
<1>5. es \in U
  OBVIOUS
<1>. HIDE DEF U
<1>6. PICK h : Folds(h, U, es, G, n)
  <2>. HIDE DEF G
  <2>. QED BY <1>1, <1>4, <1>5, FoldExists
<1>7. h = Def(h)
  BY <1>1, <1>3, <1>6, MaxIn DEF Folds
<1>8. iter = Def(iter)
  BY <1>7
<1>. HIDE DEF iter
<1>9. Recurs(iter, U, es, G, n)
  BY <1>1, <1>3, <1>8, MaxIn DEF Recurs
<1>. DEFINE f == Walk(iter, n)
<1>10. Walks(f, U, es, G, n) /\ f[n] = iter[1 .. n]
  <2>. HIDE DEF G, Def
  <2>. QED BY <1>1, <1>4, <1>5, <1>9, WalkOf
<1>. HIDE DEF f
<1>11. /\ f \in [0 .. n -> U] /\ f[0] = es /\ f[n] = t
       /\ \A k \in 1 .. n : f[k] = G[<<f[k - 1], k>>]
  BY <1>2, <1>3, <1>10 DEF Walks
<1>12. \A k \in 1 .. n : f[k] = Without(f[k - 1], ps[k])
  <2>1. \A k \in 1 .. n : k - 1 \in 0 .. n
    BY <1>1
  <2>. QED BY <1>11, <2>1
<1>13. RemoveSteps(f, es, ps, t)
  BY <1>11, <1>12 DEF RemoveSteps, U, n
<1>. QED BY <1>13

LEMMA RemoveByPointerTyped ==
  ASSUME NEW es \in Seq(Entry), NEW ps \in Seq(Int), NEW t, t = RemoveByPointer(es, ps)
  PROVE  t \in Seq(Entry) /\ Len(t) \in Nat /\ Len(t) >= Len(es) - Len(ps)
<1>. DEFINE n == Len(ps)
<1>1. PICK f : RemoveSteps(f, es, ps, t)
  BY RemoveByPointerIs
<1>2. n \in Nat
  OBVIOUS
<1>3. /\ f \in [0 .. n -> Seq(Entry)] /\ f[0] = es /\ f[n] = t
      /\ \A k \in 1 .. n : f[k] = Without(f[k - 1], ps[k])
  BY <1>1 DEF RemoveSteps
<1>. HIDE DEF n
<1>. DEFINE K == {k \in 0 .. n : Len(f[k]) \in Nat /\ Len(f[k]) >= Len(es) - k}
<1>4. Len(es) \in Nat
  OBVIOUS
<1>5. 0 \in K
  BY <1>2, <1>3, <1>4
<1>6. ASSUME NEW k \in 1 .. n, k - 1 \in K PROVE k \in K
  <2>1. k - 1 \in 0 .. n /\ k \in 0 .. n /\ k \in Nat
    BY <1>2
  <2>2. f[k - 1] \in Seq(Entry) /\ f[k] = Without(f[k - 1], ps[k])
    BY <1>3, <2>1
  <2>3. Len(f[k - 1]) >= Len(es) - (k - 1) /\ Len(f[k - 1]) \in Nat
    BY <1>6
  <2>4. Len(f[k]) \in Nat /\ Len(f[k]) >= Len(f[k - 1]) - 1
    BY <2>2, WithoutTyped
  <2>5. Len(f[k]) >= Len(es) - k
    BY <1>4, <2>1, <2>3, <2>4
  <2>. QED BY <2>1, <2>4, <2>5
<1>7. n \in K
  <2>. HIDE DEF K
  <2>1. \A k \in 0 .. n : k \in K
    BY <1>2, <1>5, <1>6, UpTo
  <2>. QED BY <1>2, <2>1
<1>8. t \in Seq(Entry)
  BY <1>2, <1>3
<1>. QED BY <1>3, <1>7, <1>8 DEF n

SumSteps(f, es) ==
  /\ f \in [0 .. Len(es) -> Nat]
  /\ f[0] = 0 /\ f[Len(es)] = TotalLen(es)
  /\ \A k \in 1 .. Len(es) : f[k] = f[k - 1] + es[k].len

LEMMA TotalLenIs ==
  ASSUME NEW es \in Seq(Entry)
  PROVE  \E f : SumSteps(f, es)
<1>. DEFINE n == Len(es)
            G == [x \in Nat \X (1 .. n) |-> x[1] + es[x[2]].len]
            Def(it) == [s \in SUBSET DOMAIN es |->
                         IF s = {} THEN 0 ELSE it[s \ {Max(s)}] + es[Max(s)].len]
            iter == CHOOSE it : it = Def(it)
<1>1. n \in Nat
  OBVIOUS
<1>2. TotalLen(es) = iter[DOMAIN es]
  BY DEF TotalLen, FoldLeft, MapThenFoldSet
<1>3. DOMAIN es = 1 .. n
  OBVIOUS
<1>4. \A k \in 1 .. n : es[k].len \in Nat
  BY DEF Entry, EntryRecord
<1>. HIDE DEF n
<1>5. G \in [Nat \X (1 .. n) -> Nat]
  BY <1>4
<1>6. PICK h : Folds(h, Nat, 0, G, n)
  <2>. HIDE DEF G
  <2>. QED BY <1>1, <1>5, FoldExists
<1>7. h = Def(h)
  BY <1>1, <1>3, <1>6, MaxIn DEF Folds
<1>8. iter = Def(iter)
  BY <1>7
<1>. HIDE DEF iter
<1>9. Recurs(iter, Nat, 0, G, n)
  BY <1>1, <1>3, <1>8, MaxIn DEF Recurs
<1>10. Walks(Walk(iter, n), Nat, 0, G, n) /\ Walk(iter, n)[n] = iter[1 .. n]
  <2>. DEFINE U == Nat
              z == 0
  <2>1. z \in U /\ G \in [U \X (1 .. n) -> U] /\ Recurs(iter, U, z, G, n)
    BY <1>5, <1>9
  <2>. HIDE DEF G, Def, U, z
  <2>2. Walks(Walk(iter, n), U, z, G, n) /\ Walk(iter, n)[n] = iter[1 .. n]
    BY <1>1, <2>1, WalkOf
  <2>. QED BY <2>2 DEF U, z
<1>. DEFINE f == Walk(iter, n)
<1>. HIDE DEF f
<1>11. /\ f \in [0 .. n -> Nat] /\ f[0] = 0 /\ f[n] = TotalLen(es)
       /\ \A k \in 1 .. n : f[k] = G[<<f[k - 1], k>>]
  BY <1>2, <1>3, <1>10 DEF Walks, f
<1>12. \A k \in 1 .. n : f[k] = f[k - 1] + es[k].len
  <2>1. \A k \in 1 .. n : k - 1 \in 0 .. n
    BY <1>1
  <2>. QED BY <1>11, <2>1
<1>13. SumSteps(f, es)
  BY <1>11, <1>12 DEF SumSteps, n
<1>. QED BY <1>13

LEMMA TotalLenTyped ==
  ASSUME NEW es \in Seq(Entry)
  PROVE  TotalLen(es) \in Nat
<1>1. PICK f : SumSteps(f, es)
  BY TotalLenIs
<1>2. Len(es) \in Nat
  OBVIOUS
<1>. QED BY <1>1, <1>2 DEF SumSteps

LEMMA ObjectTyped ==
  ASSUME NEW es \in Seq(Entry)
  PROVE  Object(es) \in Objects
  BY TotalLenTyped DEF Object, Objects

LEMMA InsertAllTyped ==
  ASSUME NEW es \in Seq(Entry), NEW at \in Nat \ {0}, at <= Len(es) + 1, NEW news \in Seq(Entry)
  PROVE  InsertAll(es, at, news) \in Seq(Entry)
<1>1. SubSeq(es, 1, at - 1) \in Seq(Entry)
  OBVIOUS
<1>2. SubSeq(es, at, Len(es)) \in Seq(Entry)
  OBVIOUS
<1>3. SubSeq(es, 1, at - 1) \o news \in Seq(Entry)
  BY <1>1
<1>. QED BY <1>2, <1>3 DEF InsertAll

LEMMA ReplacedTyped ==
  ASSUME NEW alive, NEW acc \in Loops(alive), NEW obj \in Objects, Progress(acc, Len(obj.entries)),
         NEW new \in Entry, NEW r, r = Replaced(acc, obj, new)
  PROVE  Sound(r.m) /\ r.m.live = alive /\ r.obj \in Objects
<1>. DEFINE es == obj.entries
            n == Len(es)
            rest == RemoveByPointer(es, acc.removed)
            at == IF acc.at = 0 THEN Len(rest) + 1 ELSE acc.at
            news == acc.head \o <<new>> \o acc.tail
            o == Object(InsertAll(rest, at, news))
<1>1. r = [m |-> acc.m, obj |-> o]
  BY DEF Replaced
<1>2. es \in Seq(Entry) /\ n \in Nat
  BY DEF Objects
<1>3. acc.removed \in Seq(Int) /\ acc.at \in Nat /\ Sound(acc.m) /\ acc.m.live = alive
  BY DEF Loops
<1>4. Len(acc.removed) \in Nat
  BY <1>3
<1>5. rest \in Seq(Entry) /\ Len(rest) \in Nat /\ Len(rest) >= n - Len(acc.removed)
  <2>. HIDE DEF es
  <2>. QED BY <1>2, <1>3, RemoveByPointerTyped
<1>6. news \in Seq(Entry)
  <2>1. acc.head \in Seq(Entry) /\ acc.tail \in Seq(Entry) /\ <<new>> \in Seq(Entry)
    BY DEF Loops
  <2>2. acc.head \o <<new>> \in Seq(Entry)
    BY <2>1
  <2>. QED BY <2>1, <2>2
<1>7. at \in Nat \ {0} /\ at <= Len(rest) + 1
  <2>1. acc.at # 0 => Len(acc.removed) <= n + 1 - acc.at
    BY DEF Progress
  <2>. HIDE DEF n, rest
  <2>. QED BY <1>2, <1>3, <1>4, <1>5, <2>1
<1>. HIDE DEF at, rest, news
<1>8. o \in Objects
  BY <1>5, <1>6, <1>7, InsertAllTyped, ObjectTyped
<1>. QED BY <1>1, <1>3, <1>8

LEMMA SetDataObjectSound ==
  ASSUME NEW m, Sound(m), NEW obj \in Objects, NEW off \in Int, NEW val \in Seq(ByteSet),
         Len(val) > 0, NEW ino \in Inos, NEW r, r = SetDataObject(m, obj, off, val, ino)
  PROVE  Sound(r.m) /\ r.m.live = m.live /\ r.obj \in Objects
<1>. DEFINE w == WriteValue(m, val, off, ino)
            acc == ReplaceHits(w.m, obj, off, off + Len(val), ino)
<1>1. CASE off > obj.size
  BY <1>1 DEF SetDataObject
<1>2. CASE ~(off > obj.size)
  <2>1. r = Replaced(acc, obj, w.entry)
    BY <1>2 DEF SetDataObject
  <2>2. Sound(w.m) /\ w.m.live = m.live /\ w.entry \in Entry
    <3>1. w = WriteValue(m, val, off, ino)
      OBVIOUS
    <3>. HIDE DEF w
    <3>. QED BY <3>1, WriteValueSound
  <2>3. off + Len(val) \in Int
    OBVIOUS
  <2>. HIDE DEF w
  <2>4. acc \in Loops(m.live) /\ Progress(acc, Len(obj.entries))
    BY <2>2, <2>3, ReplaceHitsTyped
  <2>. HIDE DEF acc
  <2>. QED BY <2>1, <2>2, <2>4, ReplacedTyped
<1>. QED BY <1>1, <1>2

LEMMA EditEntryTyped ==
  ASSUME NEW e \in Entry, NEW off \in Int, NEW n \in Int
  PROVE  EditEntry(e, off, n) \in Entry
<1>1. \A d \in Entry : [d EXCEPT !.offset = @ - n] \in Entry
  BY DEF Entry, EntryRecord
<1>2. ASSUME Hit(e, off, off + n) PROVE [e EXCEPT !.len = Before(e, off)] \in Entry
  <2>1. /\ Before(e, off) \in Nat /\ Before(e, off) <= e.len
        /\ e.len \in Nat /\ e.archived_len \in Nat /\ e.len <= e.archived_len
    <3>1. off + n \in Int
      OBVIOUS
    <3>. QED BY <1>2, <3>1, KeptIs
  <2>2. \A k \in Nat : k <= e.archived_len => [e EXCEPT !.len = k] \in Entry
    BY DEF Entry, EntryRecord
  <2>3. Before(e, off) <= e.archived_len
    BY <2>1
  <2>. QED BY <2>1, <2>2, <2>3
<1>. QED BY <1>1, <1>2 DEF EditEntry

LEMMA ShortenedTyped ==
  ASSUME NEW alive, NEW acc \in Loops(alive), NEW obj \in Objects, Progress(acc, Len(obj.entries)),
         NEW off \in Int, NEW n \in Int, NEW r, r = Shortened(acc, obj, off, n)
  PROVE  Sound(r.m) /\ r.m.live = alive /\ r.obj \in Objects
<1>. DEFINE es == obj.entries
            edited == [i \in DOMAIN es |-> EditEntry(es[i], off, n)]
            rest == RemoveByPointer(edited, acc.removed)
            all == IF acc.tail = <<>> THEN rest ELSE InsertAll(rest, acc.at, acc.tail)
<1>1. r = [m |-> acc.m, obj |-> Object(all)]
  BY DEF Shortened
<1>2. es \in Seq(Entry) /\ Len(es) \in Nat
  BY DEF Objects
<1>3. edited \in Seq(Entry) /\ Len(edited) = Len(es)
  <2>1. \A i \in 1 .. Len(es) : EditEntry(es[i], off, n) \in Entry
    BY <1>2, EditEntryTyped
  <2>2. DOMAIN es = 1 .. Len(es)
    BY <1>2
  <2>. QED BY <1>2, <2>1, <2>2
<1>4. /\ acc.removed \in Seq(Int) /\ acc.at \in Nat /\ Sound(acc.m) /\ acc.m.live = alive
      /\ acc.tail \in Seq(Entry)
  BY DEF Loops
<1>5. Len(acc.removed) \in Nat
  BY <1>4
<1>6. /\ acc.at = 0 => acc.tail = <<>>
      /\ acc.at # 0 => Len(acc.removed) <= Len(es) + 1 - acc.at
  BY DEF Progress
<1>. HIDE DEF es, edited
<1>7. rest \in Seq(Entry) /\ Len(rest) \in Nat /\ Len(rest) >= Len(edited) - Len(acc.removed)
  BY <1>3, <1>4, RemoveByPointerTyped
<1>. HIDE DEF rest
<1>8. all \in Seq(Entry)
  <2>1. CASE acc.tail = <<>>
    BY <1>7, <2>1
  <2>2. CASE acc.tail # <<>>
    <3>1. acc.at \in Nat \ {0} /\ acc.at <= Len(rest) + 1
      BY <1>2, <1>3, <1>4, <1>5, <1>6, <1>7, <2>2
    <3>2. InsertAll(rest, acc.at, acc.tail) \in Seq(Entry)
      BY <1>4, <1>7, <3>1, InsertAllTyped
    <3>. QED BY <2>2, <3>2
  <2>. QED BY <2>1, <2>2
<1>. HIDE DEF all
<1>9. Object(all) \in Objects
  BY <1>8, ObjectTyped
<1>. QED BY <1>1, <1>4, <1>9

LEMMA DeleteDataObjectSound ==
  ASSUME NEW m, Sound(m), NEW obj \in Objects, NEW off \in Int, NEW n \in Int,
         NEW ino \in Inos, NEW r, r = DeleteDataObject(m, obj, off, n, ino)
  PROVE  Sound(r.m) /\ r.m.live = m.live /\ r.obj \in Objects
<1>. DEFINE acc == CutHits(m, obj, off, off + n, ino)
<1>1. CASE off >= obj.size
  BY <1>1 DEF DeleteDataObject
<1>2. CASE ~(off >= obj.size)
  <2>1. r = Shortened(acc, obj, off, n)
    BY <1>2 DEF DeleteDataObject
  <2>2. off + n \in Int
    OBVIOUS
  <2>3. acc \in Loops(m.live) /\ Progress(acc, Len(obj.entries))
    BY <2>2, CutHitsTyped
  <2>. HIDE DEF acc
  <2>. QED BY <2>1, <2>3, ShortenedTyped
<1>. QED BY <1>1, <1>2

-----------------------------------------------------------------------------
(* The calls.                                                                *)

LEMMA StoredSound ==
  ASSUME NEW r, Sound(r.m), r.obj \in Objects \cup {NoObject}, NEW i \in Inos,
         i \in r.m.live, NEW t, t = Stored(r, i)
  PROVE  /\ Sound(t) /\ t.live = r.m.live
         /\ Running(t) => t.objects[i] = r.obj
<1>. DEFINE m == r.m
            o == r.obj
<1>1. m \in States /\ o \in Objects \cup {NoObject}
  BY DEF Sound
<1>2. t = IF Running(m) THEN [m EXCEPT !.objects[i] = o] ELSE m
  BY DEF Stored
<1>. HIDE DEF m, o
<1>3. /\ t \in States /\ t.table = m.table /\ t.flash = m.flash /\ t.live = m.live
      /\ t.status = m.status
      /\ Running(m) => /\ t.objects[i] = o
                       /\ \A k \in Inos : k # i => t.objects[k] = m.objects[k]
  BY <1>1, <1>2 DEF States
<1>4. Sound(m) /\ i \in m.live
  BY DEF m
<1>5. OnlyLive(t)
  BY <1>3, <1>4 DEF Sound, OnlyLive, Running
<1>6. Marked(t)
  BY <1>3, <1>4 DEF Sound, Marked, Use, Below
<1>. QED
  BY <1>3, <1>4, <1>5, <1>6 DEF Sound, Reserved, BlankAbove, Running, m, o

LEMMA BecomeState ==
  ASSUME NEW m, Sound(m), Become(m)
  PROVE  Sound(State)'
<1>1. m = [table |-> m.table, flash |-> m.flash, objects |-> m.objects, live |-> m.live,
           status |-> m.status]
  BY DEF Sound, States
<1>2. State' = m
  BY <1>1 DEF Become, State
<1>. QED BY <1>2

LEMMA ObjectOfTyped ==
  ASSUME NEW m \in States, NEW i \in Inos
  PROVE  ObjectOf(m, i) \in Objects
<1>1. EmptyObject \in Objects
  BY DEF EmptyObject, Objects
<1>. QED BY <1>1 DEF ObjectOf, States

LEMMA DeleteAtSound ==
  ASSUME Sound(State), NEW i \in Inos, i \in live, NEW off \in Int, NEW n \in Int,
         NEW t, t = DeleteAt(i, off, n)
  PROVE  Sound(t) /\ (Running(t) /\ n = 0 => t.objects[i] = NoObject)
<1>1. CASE objects[i] = NoObject
  BY <1>1 DEF DeleteAt, State
<1>2. CASE objects[i] # NoObject
  <2>. DEFINE r == DeleteDataObject(State, objects[i], off, n, i)
              q == Removed(r, n)
  <2>1. objects[i] \in Objects
    BY <1>2 DEF Sound, States, State
  <2>2. Sound(r.m) /\ r.obj \in Objects /\ r.m.live = live
    <3>1. State.live = live
      BY DEF State
    <3>. QED BY <2>1, <3>1, DeleteDataObjectSound
  <2>3. t = Stored(q, i)
    BY <1>2 DEF DeleteAt
  <2>4. q.m = r.m /\ q.obj \in Objects \cup {NoObject} /\ (n = 0 => q.obj = NoObject)
    <3>1. r = [m |-> r.m, obj |-> r.obj]
      BY DEF DeleteDataObject, Shortened
    <3>. HIDE DEF r
    <3>. QED BY <2>2, <3>1 DEF Removed
  <2>. HIDE DEF q, r
  <2>. QED BY <2>2, <2>3, <2>4, StoredSound
<1>. QED BY <1>1, <1>2

(* A new manager is sound: nothing is in use and every block is erased.      *)
THEOREM InitSound == Init => Sound(State)
<1>. SUFFICES ASSUME Init PROVE Sound(State)
  OBVIOUS
<1>1. CleanBlock \in Info /\ CleanBlock.reserved_offset = 0 /\ CleanBlock.reserved_size = PagesPerBlock
  <2>1. CleanBlock \in InfoRecord /\ CleanBlock.dirty_num = 0
    BY BlockInfoAssumption DEF CleanBlock, InfoRecord, Statuses
  <2>2. DirtyIn(CleanBlock) = {}
    BY BlockInfoAssumption DEF CleanBlock, DirtyIn
  <2>. QED BY <2>1, <2>2, FS_EmptySet DEF Info, CleanBlock
<1>2. State \in States
  BY <1>1, BlankTyped DEF Init, State, States
<1>3. Reserved(State)
  BY <1>1, BlockInfoAssumption DEF Init, State, Reserved
<1>4. BlankAbove(State)
  BY DEF Init, State, BlankAbove
<1>5. Marked(State)
  <2>1. \A a \in Pages : Use(State, a) = Clean
    BY AddressIs DEF Init, State, Use, CleanBlock
  <2>. QED BY <2>1, BlockInfoAssumption DEF Marked
<1>6. OnlyLive(State)
  BY DEF Init, State, OnlyLive
<1>. QED BY <1>2, <1>3, <1>4, <1>5, <1>6 DEF Sound

SetSound(m, r) == Sound(r.m) /\ r.m.live = m.live /\ r.obj \in Objects

LEMMA SetCallSound ==
  ASSUME NEW m, Sound(m), NEW obj \in Objects, NEW off \in Int, NEW val \in Seq(ByteSet),
         Len(val) > 0, NEW ino \in Inos, NEW r, r = SetDataObject(m, obj, off, val, ino)
  PROVE  SetSound(m, r)
BY SetDataObjectSound DEF SetSound

(* Every call leaves it sound, whatever it collects on its way.              *)
THEOREM NextSound == Sound(State) /\ [Next]_vars => Sound(State)'
<1>. SUFFICES ASSUME Sound(State), [Next]_vars PROVE Sound(State)'
  OBVIOUS
<1>. USE DEF Next
<1>1. ASSUME NEW i \in Inos, NEW off \in 0..MaxLen, NEW n \in 1..MaxLen, NEW b \in Bytes,
             SetInodeData(i, off, [j \in 1..n |-> b])
      PROVE  Sound(State)'
  <2>. DEFINE val == [j \in 1..n |-> b]
              r == SetDataObject(State, ObjectOf(State, i), off, val, i)
  <2>1. val \in Seq(ByteSet) /\ Len(val) > 0 /\ off \in Int
    BY KVManagerAssumption DEF ByteSet
  <2>2. ObjectOf(State, i) \in Objects
    BY ObjectOfTyped DEF Sound
  <2>3. Become(Stored(r, i)) /\ i \in State.live
    BY <1>1 DEF SetInodeData, State
  <2>. HIDE DEF val
  <2>4. Sound(r.m) /\ r.obj \in Objects /\ i \in r.m.live
    <3>. DEFINE obj == ObjectOf(State, i)
    <3>1. r = SetDataObject(State, obj, off, val, i) /\ obj \in Objects
      BY <2>2
    <3>. HIDE DEF r, obj, Next
    <3>2. Sound(r.m) /\ r.m.live = State.live /\ r.obj \in Objects
      <4>. DEFINE m == State
      <4>1. Sound(m) /\ r = SetDataObject(m, obj, off, val, i)
        BY <3>1
      <4>2. Sound(r.m) /\ r.m.live = m.live /\ r.obj \in Objects
        <5>. HIDE DEF m
        <5>1. SetSound(m, r)
          BY <2>1, <3>1, <4>1, SetCallSound
        <5>. QED BY <5>1 DEF SetSound
      <4>. QED BY <4>2
    <3>. QED BY <2>3, <3>2
  <2>. HIDE DEF r
  <2>5. Sound(Stored(r, i))
    BY <2>4, StoredSound
  <2>. QED BY <2>3, <2>5, BecomeState
<1>2. ASSUME NEW i \in Inos, NEW off \in 0..MaxLen, NEW n \in 0..MaxLen, DeleteInodeData(i, off, n)
      PROVE  Sound(State)'
  <2>1. off \in Int /\ n \in Int
    BY KVManagerAssumption
  <2>2. Become(DeleteAt(i, off, n)) /\ i \in live
    BY <1>2 DEF DeleteInodeData
  <2>3. Sound(DeleteAt(i, off, n))
    BY <2>1, <2>2, DeleteAtSound
  <2>. QED BY <2>2, <2>3, BecomeState
<1>3. ASSUME NEW i \in Inos, DeleteInode(i)
      PROVE  Sound(State)'
  <2>. DEFINE m == DeleteAt(i, 0, 0)
              t == [m EXCEPT !.live = @ \ {i}]
  <2>1. Become(t) /\ i \in live
    BY <1>3 DEF DeleteInode
  <2>2. Sound(m) /\ (Running(m) => m.objects[i] = NoObject)
    BY <2>1, DeleteAtSound
  <2>. HIDE DEF m
  <2>3. /\ t \in States /\ t.table = m.table /\ t.flash = m.flash
        /\ t.status = m.status /\ t.objects = m.objects /\ t.live = m.live \ {i}
    BY <2>2 DEF Sound, States
  <2>4. Sound(t)
    <3>. HIDE DEF t
    <3>1. OnlyLive(t)
      BY <2>2, <2>3 DEF Sound, OnlyLive, Running
    <3>2. Marked(t)
      BY <2>2, <2>3 DEF Sound, Marked, Use, Below
    <3>. QED BY <2>2, <2>3, <3>1, <3>2 DEF Sound, Reserved, BlankAbove
  <2>. HIDE DEF t
  <2>. QED BY <2>1, <2>4, BecomeState
<1>4. CASE UNCHANGED vars
  BY <1>4 DEF vars, State
<1>. QED BY <1>1, <1>2, <1>3, <1>4

(* A page above a block's reserve mark is erased, whatever the collector     *)
(* does: no search for room ever hands out a programmed page.                *)
THEOREM ReserveStaysBlank == Spec => []ReserveIsBlank
<1>1. Sound(State) => ReserveIsBlank
  BY DEF Sound, BlankAbove, ReserveIsBlank, State
<1>. QED BY <1>1, InitSound, NextSound, PTL DEF Spec

-----------------------------------------------------------------------------
(* Without collecting.  A value written where there is room for it.          *)

(* What a run leaves after its first k pages.                                *)
Programmed(m, t, b, at, pages, ino, k) ==
  /\ t \in States /\ Running(t) /\ t.objects = m.objects /\ t.live = m.live
  /\ \A p \in Pages : Use(t, p) = IF p \in at .. at + k - 1 THEN ino ELSE Use(m, p)
  /\ \A p \in Pages : t.flash[p] = IF p \in at .. at + k - 1 THEN pages[p - at + 1] ELSE m.flash[p]
  /\ \A c \in Blocks : LET n == IF c = b THEN k ELSE 0 IN
       /\ t.table[c].reserved_offset = m.table[c].reserved_offset + n
       /\ t.table[c].reserved_size = m.table[c].reserved_size - n

LEMMA ProgrammedNext ==
  ASSUME NEW m \in States, NEW s, NEW b \in Blocks, NEW at \in Int, NEW pages \in Seq(PageData),
         NEW ino \in Inos, NEW k \in 1 .. Len(pages), Programmed(m, s, b, at, pages, ino, k - 1),
         at + k - 1 \in Pages, BlockOf(at + k - 1) = b, m.table[b].reserved_size >= k,
         NEW t, t = ProgramAt(s, at + k - 1, pages[k], ino)
  PROVE  Programmed(m, t, b, at, pages, ino, k)
<1>. DEFINE a == at + k - 1
            data == pages[k]
<1>0. k \in Nat /\ k > 0 /\ data \in PageData
  OBVIOUS
<1>1. /\ s \in States /\ Running(s) /\ s.objects = m.objects /\ s.live = m.live
      /\ \A p \in Pages : Use(s, p) = IF p \in at .. at + (k - 1) - 1 THEN ino ELSE Use(m, p)
      /\ \A p \in Pages : s.flash[p] = IF p \in at .. at + (k - 1) - 1 THEN pages[p - at + 1] ELSE m.flash[p]
      /\ \A c \in Blocks : LET n == IF c = b THEN k - 1 ELSE 0 IN
           /\ s.table[c].reserved_offset = m.table[c].reserved_offset + n
           /\ s.table[c].reserved_size = m.table[c].reserved_size - n
  BY DEF Programmed
<1>2. \A c \in Blocks : m.table[c].reserved_offset \in Int /\ m.table[c].reserved_size \in Int
  BY DEF States, Info, InfoRecord
<1>3. s.table[b].reserved_size # 0
  BY <1>0, <1>1, <1>2
<1>4. a \in Pages /\ BlockOf(a) = b /\ t = ProgramAt(s, a, data, ino)
  OBVIOUS
<1>. HIDE DEF data
<1>5. /\ t \in States /\ Running(t)
      /\ t.flash = [s.flash EXCEPT ![a] = data]
      /\ t.objects = s.objects /\ t.live = s.live
      /\ \A p \in Pages : Use(t, p) = IF p = a THEN ino ELSE Use(s, p)
      /\ \A c \in Blocks :
              LET n == IF c = BlockOf(a) THEN 1 ELSE 0 IN
              /\ t.table[c].reserved_offset = s.table[c].reserved_offset + n
              /\ t.table[c].reserved_size = s.table[c].reserved_size - n
  <2>. HIDE DEF a
  <2>. QED BY <1>0, <1>1, <1>3, <1>4, ProgramAtDone
<1>6. \A p \in Pages : p \in Int
  BY AddressIs
<1>7. \A p \in Pages : p \in at .. at + k - 1 <=> p = a \/ p \in at .. at + (k - 1) - 1
  BY <1>0, <1>6
<1>8. a - at + 1 = k
  BY <1>0
<1>9. \A p \in Pages : Use(t, p) = IF p \in at .. at + k - 1 THEN ino ELSE Use(m, p)
  <2>. HIDE DEF a
  <2>. QED BY <1>1, <1>5, <1>7
<1>10. \A p \in Pages : t.flash[p] = IF p \in at .. at + k - 1 THEN pages[p - at + 1] ELSE m.flash[p]
  <2>1. s.flash \in [Pages -> PageData]
    BY <1>1 DEF States
  <2>2. data = pages[a - at + 1]
    BY <1>8 DEF data
  <2>3. \A p \in Pages : t.flash[p] = IF p = a THEN data ELSE s.flash[p]
    <3>. HIDE DEF a
    <3>. QED BY <1>5, <2>1
  <2>. HIDE DEF a
  <2>. QED BY <1>1, <1>7, <2>2, <2>3
<1>11. \A c \in Blocks : LET n == IF c = b THEN k ELSE 0 IN
       /\ t.table[c].reserved_offset = m.table[c].reserved_offset + n
       /\ t.table[c].reserved_size = m.table[c].reserved_size - n
  <2>. HIDE DEF a
  <2>. QED BY <1>0, <1>1, <1>2, <1>4, <1>5
<1>. QED BY <1>1, <1>5, <1>9, <1>10, <1>11 DEF Programmed

LEMMA ProgramRunDone ==
  ASSUME NEW m, Sound(m), Running(m), NEW pages \in Seq(PageData), NEW ino \in Inos,
         NEW at, NEW b, PlaceIn(m.table, at, Len(pages), b),
         NEW t, t = ProgramRun(m, at, pages, ino)
  PROVE  /\ Programmed(m, t, b, at, pages, ino, Len(pages))
         /\ at \in Nat
         /\ \A k \in 1 .. Len(pages) :
              /\ at + k - 1 \in Pages /\ BlockOf(at + k - 1) = b
              /\ OffsetOf(at + k - 1) = m.table[b].reserved_offset + k - 1
<1>. DEFINE n == Len(pages)
            o == m.table[b].reserved_offset
<1>1. /\ b \in Blocks /\ at = Address(b, o) /\ m.table[b].reserved_size >= n /\ n \in Nat
      /\ o \in Nat /\ m.table[b].reserved_size = PagesPerBlock - o /\ PagesPerBlock \in Nat
      /\ m \in States
  BY BlockInfoAssumption DEF PlaceIn, Sound, Reserved
<1>2. at \in Nat
  BY <1>1, BlockInfoAssumption DEF Address, Blocks
<1>3. ASSUME NEW k \in 1 .. n
      PROVE  at + k - 1 \in Pages /\ BlockOf(at + k - 1) = b /\ OffsetOf(at + k - 1) = o + k - 1
  <2>. HIDE DEF n, o
  <2>0. k \in Nat /\ k > 0 /\ o + k - 1 \in Nat /\ o + k - 1 < PagesPerBlock
    BY <1>1
  <2>1. o + k - 1 \in Offsets
    BY <1>1, <2>0 DEF Offsets
  <2>2. b \in Nat /\ b * PagesPerBlock \in Nat
    BY <1>1 DEF Blocks
  <2>3. at + k - 1 = Address(b, o + k - 1)
    BY <1>1, <2>0, <2>2 DEF Address
  <2>. QED BY <1>1, <2>1, <2>3, AddressOf
<1>4. PICK f : ProgramSteps(f, m, at, pages, ino)
  BY <1>1, ProgramRunIs
<1>. DEFINE K == {k \in 0 .. n : Programmed(m, f[k], b, at, pages, ino, k)}
<1>5. 0 \in K
  <2>1. f[0] = m /\ 0 \in 0 .. n
    BY <1>1, <1>4 DEF ProgramSteps
  <2>2. at .. at + 0 - 1 = {}
    BY <1>2
  <2>3. \A c \in Blocks : m.table[c].reserved_offset \in Int /\ m.table[c].reserved_size \in Int
    BY <1>1 DEF States, Info, InfoRecord
  <2>4. Programmed(m, m, b, at, pages, ino, 0)
    BY <1>1, <2>2, <2>3 DEF Programmed
  <2>. QED BY <2>1, <2>4
<1>. HIDE DEF n, o
<1>6. ASSUME NEW k \in 1 .. n, k - 1 \in K PROVE k \in K
  <2>1. k \in 0 .. n /\ k \in 1 .. Len(pages) /\ m.table[b].reserved_size >= k
    BY <1>1 DEF n
  <2>2. f[k] = ProgramAt(f[k - 1], at + k - 1, pages[k], ino)
    BY <1>4, <2>1 DEF ProgramSteps
  <2>3. Programmed(m, f[k - 1], b, at, pages, ino, k - 1)
    BY <1>6
  <2>4. at + k - 1 \in Pages /\ BlockOf(at + k - 1) = b
    BY <1>3
  <2>5. Programmed(m, f[k], b, at, pages, ino, k)
    BY <1>1, <1>2, <2>1, <2>2, <2>3, <2>4, ProgrammedNext
  <2>. QED BY <2>1, <2>5
<1>7. n \in K
  <2>. HIDE DEF K
  <2>0. n \in Nat
    BY <1>1
  <2>1. \A k \in 0 .. n : k \in K
    BY <1>5, <1>6, <2>0, UpTo
  <2>. QED BY <2>0, <2>1
<1>8. f[n] = t
  BY <1>4 DEF ProgramSteps, n
<1>. QED BY <1>2, <1>3, <1>7, <1>8 DEF n, o

-----------------------------------------------------------------------------
(* A value written where some block has room for it: nothing is collected.   *)

HasRoom(m, n) == \E b \in Blocks : m.table[b].reserved_size >= n

LEMMA RoomFound ==
  ASSUME NEW m, Sound(m), NEW n \in Nat, HasRoom(m, n), NEW at, at = FindWritePos(m.table, n)
  PROVE  at # NoPos /\ \E b \in Blocks : PlaceIn(m.table, at, n, b)
<1>1. at = FirstFree(m.table, Roomy(m.table, Blocks, n))
  BY DEF FindWritePos, Roomy
<1>2. PICK b \in Blocks : m.table[b].reserved_size >= n
  BY DEF HasRoom
<1>3. m.table[b].reserved_size \in Int
  BY <1>2 DEF Sound, States, Info, InfoRecord
<1>4. ~(m.table[b].reserved_size < n)
  BY <1>2, <1>3
<1>5. \/ at = NoPos /\ \A c \in Blocks : m.table[c].reserved_size < n
      \/ at # NoPos /\ at \in Nat /\ \E c \in Blocks : PlaceIn(m.table, at, n, c)
  BY <1>1, FoundPlace
<1>. QED BY <1>2, <1>4, <1>5

LEMMA NoRounds ==
  ASSUME NEW m, NEW n, ~NoRoom(m, n)
  PROVE  Rounds(m, n) = m
<1>. DEFINE g == GCRounds
            U == {m}
            G == [x \in U \X (1 .. g) |-> Round(x[1], n)]
            Def(it) == [s \in SUBSET (1 .. g) |->
                         IF s = {} THEN m ELSE Round(it[s \ {Max(s)}], n)]
            iter == CHOOSE it : it = Def(it)
<1>0. g \in Nat
  BY KVManagerAssumption
<1>01. m \in U
  OBVIOUS
<1>1. G \in [U \X (1 .. g) -> U]
  BY DEF Round
<1>2. Rounds(m, n) = iter[1 .. g]
  BY DEF Rounds, FoldLeft, MapThenFoldSet
<1>. HIDE DEF g, U
<1>3. PICK h : Folds(h, U, m, G, g)
  <2>. HIDE DEF G
  <2>. QED BY <1>0, <1>01, <1>1, FoldExists
<1>4. h = Def(h)
  BY <1>0, <1>3, MaxIn DEF Folds
<1>5. iter = Def(iter)
  BY <1>4
<1>. HIDE DEF iter
<1>6. Recurs(iter, U, m, G, g)
  BY <1>0, <1>5, MaxIn DEF Recurs
<1>7. Walks(Walk(iter, g), U, m, G, g) /\ Walk(iter, g)[g] = iter[1 .. g]
  <2>. HIDE DEF G
  <2>. QED BY <1>0, <1>01, <1>1, <1>6, WalkOf
<1>8. iter[1 .. g] \in U
  BY <1>0, <1>7 DEF Walks
<1>. QED BY <1>2, <1>8 DEF U

LEMMA NoCollection ==
  ASSUME NEW m, Sound(m), NEW n \in Nat, HasRoom(m, n)
  PROVE  MakeRoom(m, n) = m
<1>. DEFINE s == Rounds(m, n)
<1>1. MakeRoom(m, n) = IF NoRoom(s, n) THEN Panic(s, "collects_forever") ELSE s
  BY DEF MakeRoom, Round, Rounds
<1>2. ~NoRoom(m, n)
  BY RoomFound DEF NoRoom
<1>. HIDE DEF s
<1>3. s = m
  BY <1>2, NoRounds DEF s
<1>. QED BY <1>1, <1>2, <1>3

LEMMA PagesOfIs ==
  ASSUME NEW e \in Entry
  PROVE  /\ PagesFor(e.archived_len) \in Nat /\ e.page_pointer \in Int
         /\ PagesOf(e) = e.page_pointer .. e.page_pointer + PagesFor(e.archived_len) - 1
         /\ e.archived_len > 0 => e.page_pointer \in PagesOf(e)
<1>. DEFINE n == PagesFor(e.archived_len)
            p == e.page_pointer
<1>1. n \in Nat /\ p \in Int /\ (e.archived_len > 0 => n > 0)
  BY PagesForIs DEF Entry, EntryRecord
<1>2. PagesOf(e) = {p + k : k \in 0 .. n - 1}
  BY DEF PagesOf
<1>. HIDE DEF n, p
<1>3. {p + k : k \in 0 .. n - 1} = p .. p + n - 1
  <2>1. ASSUME NEW x \in p .. p + n - 1 PROVE x \in {p + k : k \in 0 .. n - 1}
    <3>1. x - p \in 0 .. n - 1 /\ x = p + (x - p)
      BY <1>1
    <3>. QED BY <3>1
  <2>. QED BY <1>1, <2>1
<1>4. n > 0 => p \in p .. p + n - 1
  BY <1>1
<1>. QED BY <1>1, <1>2, <1>3, <1>4 DEF n, p

LEMMA Quotient ==
  ASSUME NEW x \in Nat, NEW p \in Nat \ {0}
  PROVE  x \div p \in Nat /\ x % p \in 0 .. p - 1 /\ x = ((x \div p) * p) + (x % p)
  OBVIOUS

LEMMA PageOfAt ==
  ASSUME NEW val, NEW i, NEW j \in 1 .. PageBytes
  PROVE  PageOf(val, i)[j] = IF (i - 1) * PageBytes + j <= Len(val)
                             THEN val[(i - 1) * PageBytes + j] ELSE Pad
<1>1. PageOf(val, i) = [k \in 1 .. PageBytes |-> IF (i - 1) * PageBytes + k <= Len(val)
                             THEN val[(i - 1) * PageBytes + k] ELSE Pad]
  BY DEF PageOf
<1>. QED BY <1>1, Zenon

(* The pages of a value, read from where they were programmed.               *)
LEMMA ReadsBack ==
  ASSUME NEW val \in Seq(ByteSet), NEW m, NEW e, e.archived_len = Len(val), NEW at \in Nat,
         e.page_pointer = at,
         \A k \in 1 .. PagesFor(Len(val)) :
           at + k - 1 \in Pages /\ m.flash[at + k - 1] = PagesOfValue(val)[k]
  PROVE  ReadEntry(m, e) = val
<1>. DEFINE P == PageBytes
            n == PagesFor(Len(val))
<1>1. P \in Nat /\ P > 0 /\ Len(val) \in Nat /\ n \in Nat
  BY KVManagerAssumption, PagesForIs
<1>2. ASSUME NEW j \in 1 .. Len(val)
      PROVE  ReadPage(m, at + (j - 1) \div P)[((j - 1) % P) + 1] = val[j]
  <2>. DEFINE q == (j - 1) \div P
              r == (j - 1) % P
  <2>0. j \in Nat /\ j > 0 /\ j <= Len(val) /\ j - 1 \in Nat
    BY <1>1
  <2>1. q \in Nat /\ r \in 0 .. P - 1 /\ j - 1 = q * P + r
    <3>. DEFINE x == j - 1
    <3>1. x \in Nat /\ P \in Nat \ {0}
      BY <1>1, <2>0
    <3>. HIDE DEF P, n, x
    <3>2. x \div P \in Nat /\ x % P \in 0 .. P - 1 /\ x = ((x \div P) * P) + (x % P)
      BY <3>1, Quotient
    <3>. QED BY <3>2 DEF x
  <2>2. PagesFor(j) = q + 1
    BY DEF PagesFor
  <2>3. PagesFor(j) <= n
    BY <1>1, <2>0, PagesForMono
  <2>. HIDE DEF q, r, n
  <2>4. q + 1 \in 1 .. n
    BY <1>1, <2>1, <2>2, <2>3
  <2>5. at + (q + 1) - 1 = at + q
    BY <2>1
  <2>6. at + q \in Pages /\ m.flash[at + q] = PagesOfValue(val)[q + 1]
    BY <2>4, <2>5 DEF n
  <2>7. PagesOfValue(val)[q + 1] = PageOf(val, q + 1)
    BY <2>4 DEF PagesOfValue, n
  <2>8. ((q + 1) - 1) * P + (r + 1) = j /\ r + 1 \in 1 .. P
    <3>1. (q + 1) - 1 = q
      BY <2>1
    <3>2. q * P \in Int
      BY <1>1, <2>1
    <3>. QED BY <1>1, <2>0, <2>1, <3>1, <3>2
  <2>9. PageOf(val, q + 1)[r + 1] = val[j]
    <3>1. ((q + 1) - 1) * PageBytes + (r + 1) = j /\ r + 1 \in 1 .. PageBytes
      BY <2>8
    <3>. DEFINE c == r + 1
                d == q + 1
    <3>2. PageOf(val, d)[c] = IF (d - 1) * PageBytes + c <= Len(val)
                              THEN val[(d - 1) * PageBytes + c] ELSE Pad
      <4>1. c \in 1 .. PageBytes
        BY <3>1
      <4>. HIDE DEF c, d
      <4>. QED BY <4>1, PageOfAt
    <3>3. (d - 1) * PageBytes + c = j
      BY <3>1
    <3>4. PageOf(val, d)[c] = val[j]
      <4>1. j <= Len(val)
        BY <2>0
      <4>. HIDE DEF c, d
      <4>. QED BY <3>2, <3>3, <4>1, Zenon
    <3>. QED BY <3>4
  <2>. QED BY <2>6, <2>7, <2>9 DEF ReadPage, q, r
<1>3. ReadEntry(m, e) = [j \in 1 .. Len(val) |-> ReadPage(m, at + (j - 1) \div P)[((j - 1) % P) + 1]]
  BY DEF ReadEntry
<1>4. ReadEntry(m, e) = [j \in 1 .. Len(val) |-> val[j]]
  BY <1>2, <1>3
<1>5. val = [j \in 1 .. Len(val) |-> val[j]]
  OBVIOUS
<1>. QED BY <1>4, <1>5

(* What writing a value leaves: an entry whose pages, all new, hold it.      *)
Wrote(m, w, val, off, ino) ==
  /\ Sound(w.m) /\ Running(w.m) /\ w.m.objects = m.objects /\ w.m.live = m.live
  /\ w.entry \in Entry /\ w.entry.offset = off
  /\ w.entry.len = Len(val) /\ w.entry.archived_len = Len(val)
  /\ PagesOf(w.entry) \subseteq Pages
  /\ \A a \in PagesOf(w.entry) : ~Below(m, a) /\ Below(w.m, a) /\ Use(w.m, a) = ino
  /\ \A a \in Pages \ PagesOf(w.entry) :
       Use(w.m, a) = Use(m, a) /\ w.m.flash[a] = m.flash[a] /\ (Below(m, a) => Below(w.m, a))
  /\ ReadEntry(w.m, w.entry) = val
  /\ \A b \in Blocks : w.m.table[b].reserved_size >= m.table[b].reserved_size - PagesFor(Len(val))

LEMMA WriteValueDone ==
  ASSUME NEW m, Sound(m), Running(m), NEW val \in Seq(ByteSet), Len(val) > 0, NEW off \in Int,
         NEW ino \in Inos, HasRoom(m, PagesFor(Len(val))), NEW w, w = WriteValue(m, val, off, ino)
  PROVE  Wrote(m, w, val, off, ino)
<1>. DEFINE n == PagesFor(Len(val))
            at == FindWritePos(m.table, n)
            pages == PagesOfValue(val)
            q == ProgramRun(m, at, pages, ino)
            e == [offset |-> off, len |-> Len(val), archived_len |-> Len(val), page_pointer |-> at]
<1>1. n \in Nat /\ Len(val) \in Nat
  BY PagesForIs
<1>2. pages \in Seq(PageData) /\ Len(pages) = n
  BY PagesOfValueTyped
<1>3. w = [m |-> q, entry |-> e]
  <2>1. MakeRoom(m, n) = m
    BY <1>1, NoCollection
  <2>. QED BY <2>1 DEF WriteValue, StoreInRoom, StoreAt, PagesOfValue
<1>4. PICK b \in Blocks : PlaceIn(m.table, at, n, b)
  <2>. HIDE DEF at
  <2>. QED BY <1>1, RoomFound DEF at
<1>. HIDE DEF n, pages
<1>5. /\ Programmed(m, q, b, at, pages, ino, n)
      /\ at \in Nat
      /\ \A k \in 1 .. n : /\ at + k - 1 \in Pages /\ BlockOf(at + k - 1) = b
                           /\ OffsetOf(at + k - 1) = m.table[b].reserved_offset + k - 1
  <2>1. q = ProgramRun(m, at, pages, ino) /\ PlaceIn(m.table, at, Len(pages), b)
    BY <1>2, <1>4
  <2>. HIDE DEF at, q
  <2>. QED BY <1>2, <2>1, ProgramRunDone
<1>6. Sound(w.m) /\ w.entry \in Entry
  <2>. HIDE DEF at, q, e
  <2>. QED BY WriteValueSound
<1>7. w.m = q /\ w.entry = e
  BY <1>3
<1>. HIDE DEF at, q
<1>8. PagesOf(e) = at .. at + n - 1
  BY <1>6, <1>7, PagesOfIs DEF n
<1>9. \A p \in Pages : p \in Int
  BY AddressIs
<1>10. ASSUME NEW a \in at .. at + n - 1
       PROVE  /\ a \in Pages /\ BlockOf(a) = b /\ a - at + 1 \in 1 .. n
              /\ OffsetOf(a) = m.table[b].reserved_offset + (a - at)
  <2>. DEFINE k == a - at + 1
  <2>1. k \in 1 .. n /\ at + k - 1 = a
    BY <1>1, <1>5
  <2>2. k - 1 = a - at
    BY <1>1, <1>5
  <2>. HIDE DEF k
  <2>. QED BY <1>5, <2>1, <2>2 DEF k
<1>11. /\ Running(q) /\ q.objects = m.objects /\ q.live = m.live
       /\ \A p \in Pages : Use(q, p) = IF p \in at .. at + n - 1 THEN ino ELSE Use(m, p)
       /\ \A p \in Pages : q.flash[p] = IF p \in at .. at + n - 1 THEN pages[p - at + 1] ELSE m.flash[p]
       /\ \A c \in Blocks : LET k == IF c = b THEN n ELSE 0 IN
            /\ q.table[c].reserved_offset = m.table[c].reserved_offset + k
            /\ q.table[c].reserved_size = m.table[c].reserved_size - k
  BY <1>5 DEF Programmed
<1>12. /\ \A c \in Blocks : m.table[c].reserved_offset \in Nat /\ m.table[c].reserved_size \in Int
       /\ \A p \in Pages : BlockOf(p) \in Blocks /\ OffsetOf(p) \in Nat
  BY AddressIs, BlockInfoAssumption DEF Sound, Reserved, Offsets
<1>13. \A a \in at .. at + n - 1 : ~Below(m, a) /\ Below(q, a) /\ Use(q, a) = ino
  <2>1. TAKE a \in at .. at + n - 1
  <2>2. /\ a \in Pages /\ BlockOf(a) = b /\ a - at + 1 \in 1 .. n
        /\ OffsetOf(a) = m.table[b].reserved_offset + (a - at)
    BY <1>10
  <2>3. q.table[b].reserved_offset = m.table[b].reserved_offset + n
    BY <1>4, <1>11
  <2>. QED BY <1>1, <1>4, <1>5, <1>11, <1>12, <2>2, <2>3 DEF Below
<1>14. \A a \in Pages \ (at .. at + n - 1) :
         Use(q, a) = Use(m, a) /\ q.flash[a] = m.flash[a] /\ (Below(m, a) => Below(q, a))
  BY <1>1, <1>11, <1>12 DEF Below
<1>15. \A c \in Blocks : q.table[c].reserved_size >= m.table[c].reserved_size - n
  BY <1>1, <1>11, <1>12
<1>16. ReadEntry(q, e) = val
  <2>1. \A k \in 1 .. n : at + k - 1 \in Pages /\ q.flash[at + k - 1] = pages[k]
    <3>1. TAKE k \in 1 .. n
    <3>2. at + k - 1 \in at .. at + n - 1 /\ at + k - 1 - at + 1 = k
      BY <1>1, <1>5
    <3>3. at + k - 1 \in Pages
      BY <1>5
    <3>4. (at + k - 1) - at + 1 = k
      BY <1>1, <1>5
    <3>. QED BY <1>11, <3>2, <3>3, <3>4
  <2>2. e.archived_len = Len(val) /\ e.page_pointer = at
    OBVIOUS
  <2>. HIDE DEF e
  <2>. QED BY <1>5, <2>1, <2>2, ReadsBack DEF n, pages
<1>17. e.offset = off /\ e.len = Len(val) /\ e.archived_len = Len(val)
  OBVIOUS
<1>18. PagesOf(e) \subseteq Pages
  BY <1>8, <1>10
<1>. HIDE DEF e
<1>. QED
  BY <1>6, <1>7, <1>8, <1>11, <1>13, <1>14, <1>15, <1>16, <1>17, <1>18 DEF Wrote, n

-----------------------------------------------------------------------------
(* Who owns a page.                                                          *)

(* The pages busy with inode i are those of the entries S, each in one.      *)
Own(m, i, S) ==
  /\ \A e \in S : e \in Entry /\ e.archived_len > 0 /\ PagesOf(e) \subseteq Pages
  /\ \A e \in S : \A a \in PagesOf(e) : Use(m, a) = i
  /\ \A e, f \in S : e # f => PagesOf(e) \cap PagesOf(f) = {}
  /\ \A a \in Pages : Use(m, a) = i => \E e \in S : a \in PagesOf(e)

(* A step on behalf of inode i: other inodes keep their pages, and no page   *)
(* that has been programmed is programmed again.                             *)
Keeps(m, t, i) ==
  /\ Sound(t) /\ Running(t) /\ t.objects = m.objects /\ t.live = m.live
  /\ Marked(t)
  /\ \A a \in Pages, k \in Inos : k # i => (Use(t, a) = k <=> Use(m, a) = k)
  /\ \A a \in Pages : Below(m, a) => Below(t, a) /\ t.flash[a] = m.flash[a]

LEMMA KeepsSelf ==
  ASSUME NEW m, Sound(m), Running(m), Marked(m), NEW i
  PROVE  Keeps(m, m, i)
BY DEF Keeps

LEMMA KeepsTrans ==
  ASSUME NEW m, NEW s, NEW t, NEW i, Keeps(m, s, i), Keeps(s, t, i)
  PROVE  Keeps(m, t, i)
BY DEF Keeps

LEMMA OwnKept ==
  ASSUME NEW m, NEW t, NEW i, NEW k \in Inos, k # i, Keeps(m, t, i), NEW S, Own(m, k, S)
  PROVE  Own(t, k, S)
<1>1. \A a \in Pages : Use(t, a) = k <=> Use(m, a) = k
  BY DEF Keeps
<1>. QED BY <1>1 DEF Own

(* An entry is read alike as long as its pages are.                          *)
LEMMA ReadSame ==
  ASSUME NEW e \in Entry, NEW m, NEW t,
         \A a \in PagesOf(e) : a \in Pages /\ t.flash[a] = m.flash[a]
  PROVE  ReadEntry(t, e) = ReadEntry(m, e)
<1>. DEFINE n == PagesFor(e.archived_len)
            p == e.page_pointer
            P == PageBytes
            len == e.archived_len
<1>1. PagesOf(e) = p .. p + n - 1 /\ n \in Nat /\ p \in Int /\ len \in Nat
  BY PagesOfIs DEF Entry, EntryRecord
<1>2. ASSUME NEW j \in 1 .. len
      PROVE  ReadPage(t, p + (j - 1) \div P) = ReadPage(m, p + (j - 1) \div P)
  <2>0. j \in Nat /\ j > 0 /\ j <= len /\ j - 1 \in Nat /\ P \in Nat \ {0}
    BY <1>1, KVManagerAssumption
  <2>. DEFINE q == (j - 1) \div P
  <2>1. q \in Nat
    <3>. DEFINE x == j - 1
    <3>1. x \in Nat
      BY <2>0
    <3>. HIDE DEF P, x
    <3>2. x \div P \in Nat
      BY <2>0, <3>1, Quotient
    <3>. QED BY <3>2 DEF x
  <2>2. PagesFor(j) = q + 1
    BY DEF PagesFor
  <2>3. PagesFor(j) <= n
    BY <1>1, <2>0, PagesForMono
  <2>. HIDE DEF q, n
  <2>4. p + q \in p .. p + n - 1
    BY <1>1, <2>1, <2>2, <2>3
  <2>5. p + q \in Pages /\ t.flash[p + q] = m.flash[p + q]
    BY <1>1, <2>4
  <2>. QED BY <2>5 DEF ReadPage, q
<1>. QED BY <1>2 DEF ReadEntry

LEMMA ReadKept ==
  ASSUME NEW i, NEW S, NEW m, Own(m, i, S), Marked(m), i \in Inos, NEW e \in S,
         NEW t, NEW j, Keeps(m, t, j)
  PROVE  ReadEntry(t, e) = ReadEntry(m, e)
<1>1. e \in Entry
  BY DEF Own
<1>2. \A a \in PagesOf(e) : a \in Pages /\ t.flash[a] = m.flash[a]
  BY DEF Own, Marked, Keeps
<1>. QED BY <1>1, <1>2, ReadSame

(* An entry more.                                                            *)
LEMMA OwnWrote ==
  ASSUME NEW i \in Inos, NEW S, NEW m, Sound(m), Own(m, i, S), Marked(m), NEW val \in Seq(ByteSet),
         Len(val) > 0, NEW off, NEW w, Wrote(m, w, val, off, i)
  PROVE  /\ Own(w.m, i, S \cup {w.entry}) /\ Keeps(m, w.m, i)
         /\ w.entry \notin S
<1>. DEFINE e == w.entry
            t == w.m
<1>1. /\ Sound(t) /\ Running(t) /\ t.objects = m.objects /\ t.live = m.live
      /\ e \in Entry /\ e.archived_len > 0
      /\ PagesOf(e) \subseteq Pages
      /\ \A a \in PagesOf(e) : ~Below(m, a) /\ Below(t, a) /\ Use(t, a) = i
      /\ \A a \in Pages \ PagesOf(e) :
           Use(t, a) = Use(m, a) /\ t.flash[a] = m.flash[a] /\ (Below(m, a) => Below(t, a))
  BY DEF Wrote
<1>. HIDE DEF e, t
<1>2. \A a \in PagesOf(e) : Use(m, a) \notin Inos
  BY <1>1 DEF Marked
<1>3. \A f \in S : /\ f \in Entry /\ f.archived_len > 0 /\ PagesOf(f) \subseteq Pages
                   /\ \A a \in PagesOf(f) : Use(m, a) = i
  BY DEF Own
<1>4. \A f \in S : PagesOf(f) \cap PagesOf(e) = {}
  BY <1>2, <1>3
<1>5. e \notin S
  <2>1. e.page_pointer \in PagesOf(e)
    BY <1>1, PagesOfIs
  <2>. QED BY <1>4, <2>1
<1>6. Marked(t)
  BY <1>1 DEF Marked
<1>7. \A a \in Pages, k \in Inos : k # i => (Use(t, a) = k <=> Use(m, a) = k)
  BY <1>1, <1>2
<1>8. \A a \in Pages : Below(m, a) => Below(t, a) /\ t.flash[a] = m.flash[a]
  BY <1>1
<1>9. Keeps(m, t, i)
  BY <1>1, <1>6, <1>7, <1>8 DEF Keeps
<1>10. Own(t, i, S \cup {e})
  <2>1. \A f \in S : \A a \in PagesOf(f) : Use(t, a) = i
    BY <1>1, <1>3, <1>4
  <2>2. \A f, g \in S : f # g => PagesOf(f) \cap PagesOf(g) = {}
    BY DEF Own
  <2>3. \A f, g \in S \cup {e} : f # g => PagesOf(f) \cap PagesOf(g) = {}
    BY <1>4, <2>2
  <2>4. \A a \in Pages : Use(t, a) = i => \E f \in S \cup {e} : a \in PagesOf(f)
    <3>1. \A a \in Pages : Use(m, a) = i => \E f \in S : a \in PagesOf(f)
      BY DEF Own
    <3>. QED BY <1>1, <3>1
  <2>5. \A f \in S \cup {e} : f \in Entry /\ f.archived_len > 0 /\ PagesOf(f) \subseteq Pages
    BY <1>1, <1>3
  <2>6. \A f \in S \cup {e} : \A a \in PagesOf(f) : Use(t, a) = i
    BY <1>1, <2>1
  <2>. QED BY <2>3, <2>4, <2>5, <2>6 DEF Own
<1>. QED BY <1>5, <1>9, <1>10 DEF e, t

(* An entry less.                                                            *)
Given(m, t, e) == t = DropPages(m, e.page_pointer, PagesFor(e.archived_len))

LEMMA OwnDropped ==
  ASSUME NEW i \in Inos, NEW S, NEW m, Sound(m), Running(m), Own(m, i, S), Marked(m), NEW e \in S,
         NEW t, Given(m, t, e)
  PROVE  /\ Own(t, i, S \ {e}) /\ Keeps(m, t, i)
         /\ \A b \in Blocks : t.table[b].reserved_size = m.table[b].reserved_size
<1>. DEFINE n == PagesFor(e.archived_len)
            p == e.page_pointer
<1>1. \A f \in S : /\ f \in Entry /\ f.archived_len > 0 /\ PagesOf(f) \subseteq Pages
                   /\ \A a \in PagesOf(f) : Use(m, a) = i
  BY DEF Own
<1>2. n \in Nat /\ p \in Int /\ PagesOf(e) = p .. p + n - 1
  BY <1>1, PagesOfIs
<1>3. \A k \in 1 .. n : p + k - 1 \in Pages
  <2>1. \A k \in 1 .. n : p + k - 1 \in p .. p + n - 1
    BY <1>2
  <2>. QED BY <1>1, <1>2, <2>1
<1>4. m \in States /\ t = DropPages(m, p, n)
  BY DEF Sound, Given
<1>. HIDE DEF n, p
<1>5. /\ t \in States /\ SameButUse(m, t) /\ Running(t)
      /\ \A a \in Pages : Use(t, a) = IF a \in p .. p + n - 1 THEN Dirty ELSE Use(m, a)
  <2>1. m \in States
    BY <1>4
  <2>2. t = DropPages(m, p, n)
    BY <1>4
  <2>3. n \in Nat
    BY <1>2
  <2>4. p \in Int
    BY <1>2
  <2>5. /\ t \in States /\ SameButUse(m, t)
        /\ Running(m) /\ p \in Int /\ (\A k \in 1 .. n : p + k - 1 \in Pages) =>
              /\ Running(t)
              /\ \A a \in Pages : Use(t, a) = IF a \in p .. p + n - 1 THEN Dirty ELSE Use(m, a)
    BY <2>1, <2>2, <2>3, DropPagesDone
  <2>. QED BY <1>3, <2>4, <2>5
<1>6. \A a \in Pages : Use(t, a) = IF a \in PagesOf(e) THEN Dirty ELSE Use(m, a)
  BY <1>2, <1>5
<1>7. Sound(t)
  BY <1>5, SameIsSound
<1>8. Dirty \notin Inos
  BY BlockInfoAssumption
<1>9. \A a \in Pages : Below(t, a) <=> Below(m, a)
  <2>1. \A a \in Pages : BlockOf(a) \in Blocks
    BY AddressIs
  <2>. QED BY <1>5, <2>1 DEF SameButUse, Below
<1>10. Marked(t)
  BY <1>6, <1>8, <1>9 DEF Marked
<1>11. Keeps(m, t, i)
  BY <1>1, <1>5, <1>6, <1>7, <1>8, <1>9, <1>10 DEF Keeps, SameButUse
<1>12. Own(t, i, S \ {e})
  <2>1. \A f, g \in S : f # g => PagesOf(f) \cap PagesOf(g) = {}
    BY DEF Own
  <2>2. \A a \in Pages : Use(m, a) = i => \E f \in S : a \in PagesOf(f)
    BY DEF Own
  <2>3. \A f \in S \ {e} : \A a \in PagesOf(f) : Use(t, a) = i
    BY <1>1, <1>6, <2>1
  <2>4. \A a \in Pages : Use(t, a) = i => \E f \in S \ {e} : a \in PagesOf(f)
    BY <1>6, <1>8, <2>2
  <2>. QED BY <1>1, <2>1, <2>3, <2>4 DEF Own
<1>. QED BY <1>5, <1>11, <1>12 DEF SameButUse

-----------------------------------------------------------------------------
(* Entries that follow one another.                                          *)

End(e) == e.offset + e.len

(* The entries lie one behind the other from x on; none is cut.              *)
Tiled(es, x) ==
  /\ es \in Seq(Entry)
  /\ \A k \in 1 .. Len(es) : /\ es[k].len > 0 /\ es[k].archived_len = es[k].len
                             /\ es[k].offset = IF k = 1 THEN x ELSE End(es[k - 1])

(* Where the first k entries end.                                            *)
EndAt(es, x, k) == IF k = 0 THEN x ELSE End(es[k])

LEMMA EntryFields ==
  ASSUME NEW e \in Entry
  PROVE  /\ e.offset \in Int /\ e.len \in Nat /\ e.archived_len \in Nat /\ e.page_pointer \in Int
         /\ End(e) \in Int /\ End(e) = e.offset + e.len
  BY DEF Entry, EntryRecord, End

LEMMA TiledIs ==
  ASSUME NEW es, NEW x \in Nat, Tiled(es, x)
  PROVE  /\ es \in Seq(Entry) /\ Len(es) \in Nat
         /\ \A k \in 1 .. Len(es) : /\ es[k] \in Entry /\ es[k].len > 0
                                    /\ es[k].archived_len = es[k].len
                                    /\ es[k].offset = EndAt(es, x, k - 1)
                                    /\ EndAt(es, x, k) = End(es[k])
         /\ EndAt(es, x, 0) = x
<1>1. es \in Seq(Entry) /\ Len(es) \in Nat
  BY DEF Tiled
<1>2. EndAt(es, x, 0) = x
  BY DEF EndAt
<1>3. ASSUME NEW k \in 1 .. Len(es)
      PROVE  /\ es[k] \in Entry /\ es[k].len > 0 /\ es[k].archived_len = es[k].len
             /\ es[k].offset = EndAt(es, x, k - 1) /\ EndAt(es, x, k) = End(es[k])
  <2>1. es[k] \in Entry
    BY <1>1
  <2>2. k \in Nat /\ k # 0 /\ (k = 1 <=> k - 1 = 0)
    BY <1>1
  <2>. QED BY <2>1, <2>2 DEF Tiled, EndAt
<1>. QED BY <1>1, <1>2, <1>3

LEMMA TiledOrder ==
  ASSUME NEW es, NEW x \in Nat, Tiled(es, x)
  PROVE  /\ \A k \in 0 .. Len(es) : EndAt(es, x, k) \in Nat /\ EndAt(es, x, k) >= x + k
         /\ \A j, k \in 0 .. Len(es) : j <= k => EndAt(es, x, j) <= EndAt(es, x, k)
         /\ \A j, k \in 0 .. Len(es) : j < k => EndAt(es, x, j) < EndAt(es, x, k)
<1>. DEFINE n == Len(es)
            E(k) == EndAt(es, x, k)
            K == {k \in 0 .. n : /\ E(k) \in Nat /\ E(k) >= x + k
                                 /\ \A j \in 0 .. n : j < k => E(j) < E(k)}
<1>1. /\ n \in Nat /\ E(0) = x
      /\ \A k \in 1 .. n : /\ es[k] \in Entry /\ es[k].len > 0
                           /\ es[k].offset = E(k - 1) /\ E(k) = End(es[k])
  BY TiledIs
<1>2. \A k \in 1 .. n : E(k) = E(k - 1) + es[k].len /\ es[k].len \in Nat /\ es[k].len > 0
  BY <1>1, EntryFields
<1>. HIDE DEF E, n
<1>3. 0 \in K
  BY <1>1
<1>4. ASSUME NEW k \in 1 .. n, k - 1 \in K PROVE k \in K
  <2>1. k \in Nat /\ k \in 0 .. n /\ k > 0
    BY <1>1
  <2>2. E(k - 1) \in Nat /\ E(k - 1) >= x + (k - 1) /\ \A j \in 0 .. n : j < k - 1 => E(j) < E(k - 1)
    BY <1>4
  <2>3. E(k) = E(k - 1) + es[k].len /\ es[k].len \in Nat /\ es[k].len > 0
    BY <1>2
  <2>4. E(k) \in Nat /\ E(k) >= x + k /\ E(k - 1) < E(k)
    BY <2>1, <2>2, <2>3
  <2>5. ASSUME NEW j \in 0 .. n, j < k PROVE E(j) < E(k)
    <3>1. CASE j = k - 1
      BY <2>4, <3>1
    <3>2. CASE j # k - 1
      <4>1. j < k - 1
        BY <1>1, <2>1, <2>5, <3>2
      <4>2. E(j) < E(k - 1)
        BY <2>2, <4>1
      <4>3. E(j) \in Int \/ E(j) \notin Int
        OBVIOUS
      <4>4. E(j) \in Int
        <5>1. CASE j = 0
          BY <1>1, <5>1
        <5>2. CASE j # 0
          BY <1>1, <5>2, EntryFields
        <5>. QED BY <5>1, <5>2
      <4>. QED BY <2>2, <2>4, <4>2, <4>4
    <3>. QED BY <3>1, <3>2
  <2>. QED BY <2>1, <2>4, <2>5
<1>5. \A k \in 0 .. n : k \in K
  <2>. HIDE DEF K
  <2>. QED BY <1>1, <1>3, <1>4, UpTo
<1>6. \A k \in 0 .. n : E(k) \in Nat /\ E(k) >= x + k
  BY <1>5
<1>7. \A j, k \in 0 .. n : j < k => E(j) < E(k)
  BY <1>5
<1>8. \A j, k \in 0 .. n : j <= k => E(j) <= E(k)
  BY <1>1, <1>6, <1>7
<1>. QED BY <1>6, <1>7, <1>8 DEF E, n

LEMMA TiledDistinct ==
  ASSUME NEW es, NEW x \in Nat, Tiled(es, x), NEW j \in 1 .. Len(es), NEW k \in 1 .. Len(es), j # k
  PROVE  es[j] # es[k]
<1>1. Len(es) \in Nat /\ EndAt(es, x, j) = End(es[j]) /\ EndAt(es, x, k) = End(es[k])
  BY TiledIs
<1>2. j \in 0 .. Len(es) /\ k \in 0 .. Len(es) /\ (j < k \/ k < j)
  BY <1>1
<1>3. /\ j < k => EndAt(es, x, j) < EndAt(es, x, k)
      /\ k < j => EndAt(es, x, k) < EndAt(es, x, j)
      /\ EndAt(es, x, j) \in Nat /\ EndAt(es, x, k) \in Nat
  BY <1>2, TiledOrder
<1>. QED BY <1>1, <1>2, <1>3

LEMMA TiledConcat ==
  ASSUME NEW s, NEW t, NEW x \in Nat, NEW y \in Nat, Tiled(s, x), y = EndAt(s, x, Len(s)), Tiled(t, y)
  PROVE  Tiled(s \o t, x) /\ EndAt(s \o t, x, Len(s \o t)) = EndAt(t, y, Len(t))
<1>. DEFINE u == s \o t
            a == Len(s)
            b == Len(t)
<1>1. /\ s \in Seq(Entry) /\ t \in Seq(Entry) /\ a \in Nat /\ b \in Nat
  BY TiledIs
<1>2. u \in Seq(Entry) /\ Len(u) = a + b
  BY <1>1
<1>3. /\ \A k \in 1 .. a : u[k] = s[k]
      /\ \A k \in a + 1 .. a + b : u[k] = t[k - a]
  BY <1>1
<1>4. /\ \A k \in 1 .. a : /\ s[k].len > 0 /\ s[k].archived_len = s[k].len
                           /\ s[k].offset = EndAt(s, x, k - 1) /\ EndAt(s, x, k) = End(s[k])
      /\ EndAt(s, x, 0) = x
  BY TiledIs
<1>5. /\ \A k \in 1 .. b : /\ t[k].len > 0 /\ t[k].archived_len = t[k].len
                           /\ t[k].offset = EndAt(t, y, k - 1) /\ EndAt(t, y, k) = End(t[k])
      /\ EndAt(t, y, 0) = y
  BY TiledIs
<1>. HIDE DEF u, a, b
<1>6. ASSUME NEW k \in 0 .. a PROVE EndAt(u, x, k) = EndAt(s, x, k)
  BY <1>1, <1>3 DEF EndAt
<1>7. ASSUME NEW k \in 0 .. b PROVE EndAt(u, x, a + k) = EndAt(t, y, k)
  <2>1. CASE k = 0
    <3>1. a + k = a /\ a \in 0 .. a
      BY <1>1, <2>1
    <3>. QED BY <1>5, <1>6, <2>1, <3>1 DEF a
  <2>2. CASE k # 0
    <3>1. k \in 1 .. b /\ a + k \in a + 1 .. a + b /\ (a + k) - a = k /\ a + k # 0
      BY <1>1, <2>2
    <3>2. u[a + k] = t[k]
      BY <1>3, <3>1
    <3>. QED BY <2>2, <3>1, <3>2 DEF EndAt
  <2>. QED BY <2>1, <2>2
<1>8. ASSUME NEW k \in 1 .. a + b
      PROVE  /\ u[k].len > 0 /\ u[k].archived_len = u[k].len
             /\ u[k].offset = EndAt(u, x, k - 1)
  <2>1. CASE k \in 1 .. a
    <3>1. k - 1 \in 0 .. a
      BY <1>1, <2>1
    <3>. QED BY <1>3, <1>4, <1>6, <2>1, <3>1
  <2>2. CASE k \notin 1 .. a
    <3>. DEFINE j == k - a
    <3>1. j \in 1 .. b /\ k \in a + 1 .. a + b /\ j - 1 \in 0 .. b /\ a + (j - 1) = k - 1
      BY <1>1, <2>2
    <3>2. u[k] = t[j]
      BY <1>3, <3>1
    <3>. HIDE DEF j
    <3>3. EndAt(u, x, k - 1) = EndAt(t, y, j - 1)
      BY <1>7, <3>1
    <3>. QED BY <1>5, <3>1, <3>2, <3>3
  <2>. QED BY <2>1, <2>2
<1>9. \A k \in 1 .. a + b : EndAt(u, x, k - 1) = IF k = 1 THEN x ELSE End(u[k - 1])
  <2>1. \A k \in 1 .. a + b : k - 1 = 0 <=> k = 1
    BY <1>1
  <2>. QED BY <2>1 DEF EndAt
<1>10. Tiled(u, x)
  BY <1>2, <1>8, <1>9 DEF Tiled
<1>11. EndAt(u, x, Len(u)) = EndAt(t, y, b)
  <2>1. b \in 0 .. b
    BY <1>1
  <2>. QED BY <1>2, <1>7, <2>1
<1>. QED BY <1>10, <1>11 DEF u, b

(* The entries from one to another.                                          *)
IsPart(s, es, a, b) == s = SubSeq(es, a + 1, b)

LEMMA TiledPart ==
  ASSUME NEW es, NEW x \in Nat, Tiled(es, x), NEW a \in 0 .. Len(es), NEW b \in a .. Len(es),
         NEW s, IsPart(s, es, a, b)
  PROVE  /\ s \in Seq(Entry) /\ Len(s) = b - a /\ \A k \in 1 .. b - a : s[k] = es[a + k]
         /\ Tiled(s, EndAt(es, x, a)) /\ EndAt(s, EndAt(es, x, a), Len(s)) = EndAt(es, x, b)
<1>. DEFINE n == Len(es)
            y == EndAt(es, x, a)
<1>1. /\ es \in Seq(Entry) /\ n \in Nat
      /\ \A k \in 1 .. n : /\ es[k].len > 0 /\ es[k].archived_len = es[k].len
                           /\ es[k].offset = EndAt(es, x, k - 1)
  BY TiledIs
<1>. HIDE DEF y
<1>2. a \in Nat /\ b \in Nat /\ a <= b /\ b <= n
  BY <1>1
<1>3. s \in Seq(Entry) /\ Len(s) = b - a /\ \A k \in 1 .. b - a : s[k] = es[a + k]
  <2>1. \A k \in a + 1 .. b : es[k] \in Entry
    BY <1>1, <1>2
  <2>2. s = SubSeq(es, a + 1, b)
    BY DEF IsPart
  <2>. QED BY <1>1, <1>2, <2>1, <2>2
<1>4. ASSUME NEW k \in 0 .. b - a PROVE EndAt(s, y, k) = EndAt(es, x, a + k)
  <2>1. CASE k = 0
    BY <1>2, <2>1 DEF EndAt, y
  <2>2. CASE k # 0
    <3>1. k \in 1 .. b - a /\ a + k # 0
      BY <1>2, <2>2
    <3>2. s[k] = es[a + k]
      BY <1>3, <3>1
    <3>. QED BY <2>2, <3>1, <3>2 DEF EndAt
  <2>. QED BY <2>1, <2>2
<1>5. ASSUME NEW k \in 1 .. b - a
      PROVE  /\ s[k].len > 0 /\ s[k].archived_len = s[k].len /\ s[k].offset = EndAt(s, y, k - 1)
             /\ EndAt(s, y, k - 1) = IF k = 1 THEN y ELSE End(s[k - 1])
  <2>1. a + k \in 1 .. n /\ k - 1 \in 0 .. b - a /\ a + (k - 1) = (a + k) - 1 /\ (k - 1 = 0 <=> k = 1)
    BY <1>2
  <2>2. s[k] = es[a + k] /\ es[a + k].offset = EndAt(es, x, (a + k) - 1)
    BY <1>1, <1>3, <2>1
  <2>3. s[k].offset = EndAt(s, y, k - 1)
    BY <1>4, <2>1, <2>2
  <2>4. s[k].len > 0 /\ s[k].archived_len = s[k].len
    BY <1>1, <2>1, <2>2
  <2>. QED BY <2>1, <2>3, <2>4 DEF EndAt
<1>6. Tiled(s, y)
  BY <1>3, <1>5 DEF Tiled
<1>7. EndAt(s, y, Len(s)) = EndAt(es, x, b)
  <2>1. b - a \in 0 .. b - a /\ a + (b - a) = b
    BY <1>2
  <2>. QED BY <1>3, <1>4, <2>1
<1>. QED BY <1>3, <1>6, <1>7 DEF y

LEMMA TiledOne ==
  ASSUME NEW e \in Entry, e.len > 0, e.archived_len = e.len, NEW x \in Nat, e.offset = x
  PROVE  Tiled(<<e>>, x) /\ EndAt(<<e>>, x, Len(<<e>>)) = x + e.len
  BY DEF Tiled, EndAt, End

LEMMA TiledNone ==
  ASSUME NEW x
  PROVE  Tiled(<<>>, x) /\ EndAt(<<>>, x, Len(<<>>)) = x
<1>1. <<>> \in Seq(Entry) /\ Len(<<>>) = 0
  OBVIOUS
<1>. QED BY <1>1 DEF Tiled, EndAt

(* Such an object's size is where its last entry ends.                       *)
LEMMA TiledTotal ==
  ASSUME NEW es, NEW x \in Nat, Tiled(es, x)
  PROVE  TotalLen(es) = EndAt(es, x, Len(es)) - x
<1>. DEFINE n == Len(es)
<1>1. /\ n \in Nat /\ EndAt(es, x, 0) = x
      /\ \A k \in 1 .. n : /\ es[k] \in Entry
                           /\ es[k].offset = EndAt(es, x, k - 1) /\ EndAt(es, x, k) = End(es[k])
  BY TiledIs
<1>2. PICK f : SumSteps(f, es)
  BY TotalLenIs DEF Tiled
<1>3. /\ f \in [0 .. n -> Nat] /\ f[0] = 0 /\ f[n] = TotalLen(es)
      /\ \A k \in 1 .. n : f[k] = f[k - 1] + es[k].len
  BY <1>2 DEF SumSteps
<1>4. \A k \in 0 .. n : EndAt(es, x, k) \in Nat
  BY TiledOrder
<1>. HIDE DEF n
<1>. DEFINE K == {k \in 0 .. n : f[k] = EndAt(es, x, k) - x}
<1>5. 0 \in K
  BY <1>1, <1>3
<1>6. ASSUME NEW k \in 1 .. n, k - 1 \in K PROVE k \in K
  <2>1. k \in 0 .. n /\ k - 1 \in 0 .. n
    BY <1>1
  <2>2. f[k - 1] = EndAt(es, x, k - 1) - x
    BY <1>6
  <2>3. EndAt(es, x, k) = EndAt(es, x, k - 1) + es[k].len /\ es[k].len \in Nat
    BY <1>1, EntryFields
  <2>4. f[k] = f[k - 1] + es[k].len
    BY <1>3
  <2>5. EndAt(es, x, k - 1) \in Nat
    BY <1>4, <2>1
  <2>6. f[k] = EndAt(es, x, k) - x
    BY <2>2, <2>3, <2>4, <2>5
  <2>. QED BY <2>1, <2>6
<1>7. n \in K
  <2>. HIDE DEF K
  <2>1. n \in Nat
    BY <1>1
  <2>2. \A k \in 0 .. n : k \in K
    BY <1>5, <1>6, <2>1, UpTo
  <2>. QED BY <2>1, <2>2
<1>. QED BY <1>3, <1>7 DEF n

-----------------------------------------------------------------------------
(* The entries an edit from off to fin hits: those behind the first a, up to *)
(* the b-th.                                                                 *)

Spans(es, off, fin, a, b) ==
  /\ a \in 0 .. Len(es) /\ b \in a .. Len(es)
  /\ \A j \in 1 .. Len(es) : Hit(es[j], off, fin) <=> a < j /\ j <= b
  /\ EndAt(es, 0, a) <= off
  /\ a < b => off < EndAt(es, 0, a + 1) /\ EndAt(es, 0, b - 1) < fin
  /\ b < Len(es) => fin <= EndAt(es, 0, b)
  /\ a = b => a = Len(es)

LEMMA SpanExists ==
  ASSUME NEW es, Tiled(es, 0), NEW off \in Nat, NEW fin \in Nat, off < fin,
         off <= EndAt(es, 0, Len(es))
  PROVE  \E a, b : Spans(es, off, fin, a, b)
<1>. DEFINE n == Len(es)
            E(k) == EndAt(es, 0, k)
            A == {k \in 0 .. n : k = n \/ off < E(k + 1)}
            B == {k \in 0 .. n : k = n \/ fin <= E(k)}
            a == LeastOf(A)
            b == LeastOf(B)
<1>1. n \in Nat /\ E(0) = 0
  BY TiledIs
<1>2. \A k \in 1 .. n : /\ es[k].offset = E(k - 1) /\ es[k].offset + es[k].len = E(k)
  BY TiledIs DEF End
<1>3. /\ \A k \in 0 .. n : E(k) \in Nat
      /\ \A j, k \in 0 .. n : j <= k => E(j) <= E(k)
  BY TiledOrder
<1>. HIDE DEF E, n
<1>4. A \in SUBSET Nat /\ B \in SUBSET Nat /\ n \in A /\ n \in B
  BY <1>1
<1>5. a \in A /\ \A x \in A : a <= x
  <2>. HIDE DEF A
  <2>. QED BY <1>4, LeastIs
<1>6. b \in B /\ \A x \in B : b <= x
  <2>. HIDE DEF B
  <2>. QED BY <1>4, LeastIs
<1>. HIDE DEF a, b
<1>7. a \in 0 .. n /\ b \in 0 .. n
  BY <1>5, <1>6
<1>8. E(a) <= off
  <2>1. CASE a = 0
    BY <1>1, <2>1
  <2>2. CASE a # 0
    <3>1. a - 1 \in 0 .. n /\ ~(a <= a - 1) /\ a - 1 # n /\ (a - 1) + 1 = a
      BY <1>1, <1>7, <2>2
    <3>2. a - 1 \notin A
      BY <1>5, <3>1
    <3>3. ~(off < E(a))
      BY <3>1, <3>2
    <3>. QED BY <1>3, <1>7, <3>3
  <2>. QED BY <2>1, <2>2
<1>9. a < n => off < E(a + 1)
  BY <1>1, <1>5, <1>7
<1>10. b < n => fin <= E(b)
  BY <1>1, <1>6, <1>7
<1>11. b # 0 => E(b - 1) < fin
  <2>. SUFFICES ASSUME b # 0 PROVE E(b - 1) < fin
    OBVIOUS
  <2>1. b - 1 \in 0 .. n /\ ~(b <= b - 1) /\ b - 1 # n
    BY <1>1, <1>7
  <2>2. b - 1 \notin B
    BY <1>6, <2>1
  <2>3. ~(fin <= E(b - 1))
    BY <2>1, <2>2
  <2>. QED BY <1>3, <2>1, <2>3
<1>12. a <= b
  <2>. SUFFICES ASSUME ~(a <= b) PROVE FALSE
    OBVIOUS
  <2>1. b < n /\ b <= a
    BY <1>1, <1>7
  <2>2. fin <= E(b) /\ E(b) <= E(a) /\ E(a) \in Nat /\ E(b) \in Nat
    BY <1>3, <1>7, <1>10, <2>1
  <2>. QED BY <1>8, <2>2
<1>13. a = b => a = n
  <2>. SUFFICES ASSUME a = b, a # n PROVE FALSE
    OBVIOUS
  <2>1. b < n
    BY <1>1, <1>7
  <2>2. fin <= E(a) /\ E(a) \in Nat
    BY <1>3, <1>7, <1>10, <2>1
  <2>. QED BY <1>8, <2>2
<1>14. ASSUME NEW j \in 1 .. n PROVE Hit(es[j], off, fin) <=> a < j /\ j <= b
  <2>1. j \in 0 .. n /\ j - 1 \in 0 .. n
    BY <1>1
  <2>2. Hit(es[j], off, fin) <=> E(j) > off /\ E(j - 1) < fin
    BY <1>2 DEF Hit, EndsBehind
  <2>3. E(j) \in Nat /\ E(j - 1) \in Nat /\ E(a) \in Nat /\ E(b) \in Nat
    BY <1>3, <1>7, <2>1
  <2>4. CASE j <= a
    <3>1. E(j) <= E(a)
      BY <1>3, <1>7, <2>1, <2>4
    <3>2. ~(a < j)
      BY <1>1, <1>7, <2>4
    <3>. QED BY <1>8, <2>2, <2>3, <3>1, <3>2
  <2>5. CASE ~(j <= a) /\ j <= b
    <3>1. a < n /\ a + 1 <= j /\ a + 1 \in 0 .. n /\ b # 0 /\ b - 1 \in 0 .. n /\ j - 1 <= b - 1 /\ a < j
      BY <1>1, <1>7, <2>5
    <3>2. E(a + 1) <= E(j) /\ E(j - 1) <= E(b - 1) /\ E(a + 1) \in Nat /\ E(b - 1) \in Nat
      BY <1>3, <2>1, <3>1
    <3>3. off < E(a + 1) /\ E(b - 1) < fin
      BY <1>9, <1>11, <3>1
    <3>4. E(j) > off /\ E(j - 1) < fin
      BY <2>3, <3>2, <3>3
    <3>. QED BY <2>2, <2>5, <3>1, <3>4
  <2>6. CASE ~(j <= b)
    <3>1. b < n /\ b <= j - 1
      BY <1>1, <1>7, <2>6
    <3>2. fin <= E(b) /\ E(b) <= E(j - 1)
      BY <1>3, <1>7, <1>10, <2>1, <3>1
    <3>. QED BY <2>2, <2>3, <2>6, <3>2
  <2>. QED BY <2>4, <2>5, <2>6
<1>15. b \in a .. n /\ (a < b => a < n /\ b # 0)
  BY <1>1, <1>7, <1>12
<1>16. a < b => off < E(a + 1) /\ E(b - 1) < fin
  BY <1>9, <1>11, <1>15
<1>. QED BY <1>7, <1>8, <1>10, <1>13, <1>14, <1>15, <1>16 DEF Spans, n, E

(* What an entry that is hit has before and behind the edit.                 *)
HeadLen(es, off, a) == off - EndAt(es, 0, a)
TailLen(es, fin, b) == Larger(0, EndAt(es, 0, b) - fin)

LEMMA SpanParts ==
  ASSUME NEW es, Tiled(es, 0), NEW off \in Nat, NEW fin \in Nat, NEW a, NEW b,
         Spans(es, off, fin, a, b), NEW j \in 1 .. Len(es), a < j, j <= b
  PROVE  /\ Before(es[j], off) = IF j = a + 1 THEN HeadLen(es, off, a) ELSE 0
         /\ After(es[j], fin) = IF j = b THEN TailLen(es, fin, b) ELSE 0
<1>. DEFINE n == Len(es)
            E(k) == EndAt(es, 0, k)
<1>1. /\ n \in Nat
      /\ es[j].offset = E(j - 1) /\ es[j].offset + es[j].len = E(j)
  BY TiledIs DEF End
<1>3. /\ \A k \in 0 .. n : E(k) \in Nat
      /\ \A i, k \in 0 .. n : i <= k => E(i) <= E(k)
  BY TiledOrder
<1>2. /\ a \in 0 .. n /\ b \in a .. n /\ E(a) <= off
      /\ off < E(a + 1) /\ E(b - 1) < fin
  BY <1>1 DEF Spans
<1>4. j \in 0 .. n /\ j - 1 \in 0 .. n /\ a + 1 \in 0 .. n /\ b - 1 \in 0 .. n /\ a \in Nat /\ b \in Nat
  BY <1>1, <1>2
<1>5. E(j) \in Nat /\ E(j - 1) \in Nat /\ E(a) \in Nat /\ E(b) \in Nat /\ E(a + 1) \in Nat /\ E(b - 1) \in Nat
  BY <1>2, <1>3, <1>4
<1>6. Before(es[j], off) = Larger(0, off - E(j - 1)) /\ After(es[j], fin) = Larger(0, E(j) - fin)
  <2>1. es[j].offset \in Int /\ es[j].len \in Nat
    BY TiledIs, EntryFields
  <2>2. es[j].offset + es[j].len - fin = E(j) - fin
    BY <1>1, <2>1
  <2>. QED BY <1>1, <2>2 DEF Before, After
<1>9. After(es[j], fin) = IF j = b THEN TailLen(es, fin, b) ELSE 0
  <2>1. CASE j = b
    BY <1>6, <2>1 DEF TailLen
  <2>2. CASE j # b
    <3>1. j <= b - 1
      BY <1>4, <2>2
    <3>2. E(j) <= E(b - 1)
      BY <1>3, <1>4, <3>1
    <3>3. Larger(0, E(j) - fin) = 0
      BY <1>2, <1>5, <3>2 DEF Larger
    <3>. QED BY <1>6, <2>2, <3>3
  <2>. QED BY <2>1, <2>2
<1>10. Before(es[j], off) = IF j = a + 1 THEN HeadLen(es, off, a) ELSE 0
  <2>1. CASE j = a + 1
    <3>1. j - 1 = a
      BY <1>4, <2>1
    <3>. QED BY <1>2, <1>5, <1>6, <2>1, <3>1 DEF HeadLen, Larger
  <2>2. CASE j # a + 1
    <3>1. a + 1 <= j - 1
      BY <1>4, <2>2
    <3>2. E(a + 1) <= E(j - 1)
      BY <1>3, <1>4, <3>1
    <3>3. Larger(0, off - E(j - 1)) = 0
      BY <1>2, <1>5, <3>2 DEF Larger
    <3>. QED BY <1>6, <2>2, <3>3
  <2>. QED BY <2>1, <2>2
<1>. QED BY <1>9, <1>10

-----------------------------------------------------------------------------
(* A part that is kept.                                                      *)

Members(s) == {s[k] : k \in 1 .. Len(s)}

(* The new entry for a part of n bytes; none for an empty part.              *)
Piece(m, s, n, off, data) ==
  IF n = 0 THEN s = <<>>
  ELSE \E e \in Entry : /\ s = <<e>> /\ e.offset = off /\ e.len = n /\ e.archived_len = n
                        /\ ReadEntry(m, e) = data

LEMMA OneMember ==
  ASSUME NEW e
  PROVE  Members(<<e>>) = {e} /\ Members(<<>>) = {}
<1>1. Len(<<e>>) = 1 /\ <<e>>[1] = e /\ Len(<<>>) = 0
  OBVIOUS
<1>2. 1 .. 1 = {1} /\ 1 .. 0 = {}
  OBVIOUS
<1>. QED BY <1>1, <1>2 DEF Members

(* No block has lost more than n pages of its reserve.                       *)
Spent(m, t, n) == \A b \in Blocks : t.table[b].reserved_size >= m.table[b].reserved_size - n

(* A part is written anew, unless it is empty.                               *)
KeepsPart(m, t, s, data, off, i) ==
  LET w == WriteValue(m, data, off, i) IN
  IF Len(data) = 0 THEN t = m /\ s = <<>> ELSE t = w.m /\ s = <<w.entry>>

LEMMA PieceWritten ==
  ASSUME NEW i \in Inos, NEW S, NEW m, Sound(m), Running(m), Own(m, i, S), Marked(m),
         NEW data \in Seq(ByteSet), HasRoom(m, PagesFor(Len(data))), NEW off \in Int,
         NEW t, NEW s, KeepsPart(m, t, s, data, off, i)
  PROVE  /\ Keeps(m, t, i) /\ Own(t, i, S \cup Members(s)) /\ Members(s) \cap S = {}
         /\ Piece(t, s, Len(data), off, data)
         /\ Spent(m, t, PagesFor(Len(data)))
<1>. DEFINE w == WriteValue(m, data, off, i)
<1>0. IF Len(data) = 0 THEN t = m /\ s = <<>> ELSE t = w.m /\ s = <<w.entry>>
  BY DEF KeepsPart
<1>01. w = WriteValue(m, data, off, i)
  OBVIOUS
<1>. HIDE DEF w
<1>1. CASE Len(data) = 0
  <2>1. t = m /\ s = <<>> /\ Members(s) = {}
    BY <1>0, <1>1, OneMember
  <2>2. S \cup Members(s) = S
    BY <2>1
  <2>3. \A b \in Blocks : m.table[b].reserved_size \in Int
    BY DEF Sound, States, Info, InfoRecord
  <2>4. PagesFor(Len(data)) \in Nat
    BY PagesForIs
  <2>5. Spent(m, m, PagesFor(Len(data)))
    BY <2>3, <2>4 DEF Spent
  <2>6. Keeps(m, m, i)
    BY KeepsSelf
  <2>. QED BY <1>1, <2>1, <2>2, <2>5, <2>6 DEF Piece
<1>2. CASE Len(data) # 0
  <2>1. t = w.m /\ s = <<w.entry>> /\ Members(s) = {w.entry} /\ Len(data) > 0
    BY <1>0, <1>2, OneMember
  <2>2. Wrote(m, w, data, off, i)
    BY <1>01, <2>1, WriteValueDone
  <2>3. /\ Own(w.m, i, S \cup {w.entry}) /\ Keeps(m, w.m, i) /\ w.entry \notin S
    BY <2>1, <2>2, OwnWrote
  <2>4. Piece(t, s, Len(data), off, data)
    BY <1>2, <2>1, <2>2 DEF Piece, Wrote
  <2>5. Spent(m, t, PagesFor(Len(data)))
    BY <2>1, <2>2 DEF Wrote, Spent
  <2>. QED BY <2>1, <2>3, <2>4, <2>5
<1>. QED BY <1>1, <1>2

LEMMA PieceKept ==
  ASSUME NEW i \in Inos, NEW S, NEW m, Own(m, i, S), Marked(m), NEW t, NEW j, Keeps(m, t, j),
         NEW s, NEW n, NEW off, NEW data, Piece(m, s, n, off, data), Members(s) \subseteq S
  PROVE  Piece(t, s, n, off, data)
<1>1. CASE n = 0
  BY <1>1 DEF Piece
<1>2. CASE n # 0
  <2>1. PICK e \in Entry : /\ s = <<e>> /\ e.offset = off /\ e.len = n /\ e.archived_len = n
                           /\ ReadEntry(m, e) = data
    BY <1>2 DEF Piece
  <2>2. e \in S
    BY <2>1, OneMember
  <2>3. ReadEntry(t, e) = data
    BY <2>1, <2>2, ReadKept
  <2>. QED BY <1>2, <2>1, <2>3 DEF Piece
<1>. QED BY <1>1, <1>2

LEMMA KeepHeadDone ==
  ASSUME NEW alive, NEW acc \in Loops(alive), Running(acc.m), NEW i \in Inos, NEW S,
         Own(acc.m, i, S), Marked(acc.m), NEW e \in S, NEW off \in Int, NEW fin \in Int, Hit(e, off, fin),
         HasRoom(acc.m, PagesFor(Before(e, off))), acc.head = <<>>,
         NEW t, t = KeepHead(acc, e, off, i)
  PROVE  /\ Keeps(acc.m, t.m, i) /\ Own(t.m, i, S \cup Members(t.head)) /\ Members(t.head) \cap S = {}
         /\ Piece(t.m, t.head, Before(e, off), e.offset,
                  SubSeq(ReadEntry(acc.m, e), 1, Before(e, off)))
         /\ Spent(acc.m, t.m, PagesFor(Before(e, off)))
<1>. DEFINE n == Before(e, off)
            data == SubSeq(ReadEntry(acc.m, e), 1, n)
            w == WriteValue(acc.m, data, e.offset, i)
<1>1. Sound(acc.m) /\ acc.m \in States /\ e \in Entry
  BY DEF Loops, Own
<1>2. n \in Nat /\ n <= e.len /\ e.len <= e.archived_len /\ e.len \in Nat /\ e.archived_len \in Nat
      /\ e.offset \in Int
  BY <1>1, KeptIs
<1>3. t = IF n = 0 THEN acc ELSE [acc EXCEPT !.m = w.m, !.head = <<w.entry>>]
  BY DEF KeepHead
<1>. HIDE DEF n
<1>4. data \in Seq(ByteSet) /\ Len(data) = n
  <2>1. ReadEntry(acc.m, e) \in Seq(ByteSet) /\ Len(ReadEntry(acc.m, e)) = e.archived_len
    BY <1>1, ReadEntryTyped
  <2>2. n <= e.archived_len
    BY <1>2
  <2>. QED BY <1>2, <2>1, <2>2, PartTyped
<1>. HIDE DEF data
<1>5. t.m = (IF Len(data) = 0 THEN acc.m ELSE w.m) /\ t.head = (IF Len(data) = 0 THEN <<>> ELSE <<w.entry>>)
  BY <1>3, <1>4 DEF Loops
<1>6. HasRoom(acc.m, PagesFor(Len(data)))
  BY <1>4 DEF n
<1>7. w = WriteValue(acc.m, data, e.offset, i)
  OBVIOUS
<1>. HIDE DEF w
<1>8. /\ Keeps(acc.m, t.m, i) /\ Own(t.m, i, S \cup Members(t.head)) /\ Members(t.head) \cap S = {}
      /\ Piece(t.m, t.head, Len(data), e.offset, data)
      /\ Spent(acc.m, t.m, PagesFor(Len(data)))
  <2>1. KeepsPart(acc.m, t.m, t.head, data, e.offset, i)
    BY <1>5, <1>7 DEF KeepsPart
  <2>. QED BY <1>1, <1>2, <1>4, <1>6, <2>1, PieceWritten
<1>. QED BY <1>4, <1>8 DEF n, data

LEMMA KeepTailDone ==
  ASSUME NEW alive, NEW acc \in Loops(alive), Running(acc.m), NEW i \in Inos, NEW S,
         Own(acc.m, i, S), Marked(acc.m), NEW e \in S, NEW off \in Int, NEW fin \in Int, Hit(e, off, fin),
         e.archived_len = e.len,
         HasRoom(acc.m, PagesFor(After(e, fin))), acc.tail = <<>>,
         NEW t, t = KeepTail(acc, e, fin, i)
  PROVE  /\ Keeps(acc.m, t.m, i) /\ Own(t.m, i, S \cup Members(t.tail)) /\ Members(t.tail) \cap S = {}
         /\ t.head = acc.head
         /\ Piece(t.m, t.tail, After(e, fin), e.offset + e.len - After(e, fin),
                  TailOf(ReadEntry(acc.m, e), After(e, fin)))
<1>. DEFINE n == After(e, fin)
            data == TailOf(ReadEntry(acc.m, e), n)
            o == e.offset + e.len - n
            w == WriteValue(acc.m, data, o, i)
<1>1. Sound(acc.m) /\ acc.m \in States /\ e \in Entry
  BY DEF Loops, Own
<1>2. n \in Nat /\ n <= e.len /\ e.len <= e.archived_len /\ e.len \in Nat /\ e.archived_len \in Nat
      /\ e.offset \in Int
  BY <1>1, KeptIs
<1>3. t = IF n = 0 THEN acc ELSE [acc EXCEPT !.m = w.m, !.tail = <<w.entry>>]
  BY DEF KeepTail
<1>. HIDE DEF n
<1>4. data \in Seq(ByteSet) /\ Len(data) = n
  <2>1. ReadEntry(acc.m, e) \in Seq(ByteSet) /\ Len(ReadEntry(acc.m, e)) = e.archived_len
    BY <1>1, ReadEntryTyped
  <2>2. n <= e.archived_len
    BY <1>2
  <2>. QED BY <1>2, <2>1, <2>2, PartTyped
<1>40. o \in Int
  BY <1>2
<1>. HIDE DEF data, o
<1>5. t.m = (IF Len(data) = 0 THEN acc.m ELSE w.m) /\ t.tail = (IF Len(data) = 0 THEN <<>> ELSE <<w.entry>>)
      /\ t.head = acc.head
  BY <1>3, <1>4 DEF Loops
<1>6. HasRoom(acc.m, PagesFor(Len(data)))
  BY <1>4 DEF n
<1>7. w = WriteValue(acc.m, data, o, i)
  OBVIOUS
<1>. HIDE DEF w
<1>8. /\ Keeps(acc.m, t.m, i) /\ Own(t.m, i, S \cup Members(t.tail)) /\ Members(t.tail) \cap S = {}
      /\ Piece(t.m, t.tail, Len(data), o, data)
  <2>1. KeepsPart(acc.m, t.m, t.tail, data, o, i)
    BY <1>5, <1>7 DEF KeepsPart
  <2>. QED BY <1>1, <1>4, <1>40, <1>6, <2>1, PieceWritten
<1>. QED BY <1>4, <1>5, <1>8 DEF n, data, o

-----------------------------------------------------------------------------
(* The loop of a write.                                                      *)

(* What the loop works on: d.m is the state it starts in, d.es the entries   *)
(* as they were read, d.new the entry written already, d.room a block that   *)
(* takes what is kept.                                                       *)
Edit(d) ==
  /\ Sound(d.m) /\ Running(d.m) /\ Marked(d.m) /\ d.i \in Inos
  /\ Tiled(d.es, 0) /\ d.off \in Nat /\ d.fin \in Nat /\ Spans(d.es, d.off, d.fin, d.a, d.b)
  /\ Own(d.m, d.i, Members(d.es) \cup {d.new}) /\ d.new \notin Members(d.es)
  /\ d.room \in Blocks
  /\ d.a < d.b => d.m.table[d.room].reserved_size
                    >= PagesFor(HeadLen(d.es, d.off, d.a)) + PagesFor(TailLen(d.es, d.fin, d.b))

HeadPart(d) == SubSeq(ReadEntry(d.m, d.es[d.a + 1]), 1, HeadLen(d.es, d.off, d.a))
TailPart(d) == TailOf(ReadEntry(d.m, d.es[d.b]), TailLen(d.es, d.fin, d.b))

(* The entries that are still in use after k of them.                        *)
Left(d, k) == {d.es[j] : j \in {x \in 1 .. Len(d.es) : ~(d.a < x /\ x <= d.b /\ x <= k)}}

Pointers(es, a, n) == [j \in 1 .. n |-> es[a + j].page_pointer]

RoomLeft(d, m, used) == m.table[d.room].reserved_size >= d.m.table[d.room].reserved_size - used

HeadKept(d, acc) == Piece(acc.m, acc.head, HeadLen(d.es, d.off, d.a), EndAt(d.es, 0, d.a), HeadPart(d))
TailKept(d, acc) == Piece(acc.m, acc.tail, TailLen(d.es, d.fin, d.b), d.fin, TailPart(d))

(* After k entries.                                                          *)
Replacing(d, acc, k) ==
  /\ Keeps(d.m, acc.m, d.i)
  /\ Own(acc.m, d.i, Left(d, k) \cup {d.new} \cup Members(acc.head) \cup Members(acc.tail))
  /\ Members(acc.head) \cap Members(d.es) = {}
  /\ IF k <= d.a THEN acc.removed = <<>> /\ acc.at = 0 /\ acc.head = <<>>
     ELSE /\ acc.removed = Pointers(d.es, d.a, Smaller(k, d.b) - d.a) /\ acc.at = d.a + 1
          /\ HeadKept(d, acc)
  /\ IF k <= d.a \/ k < d.b
     THEN acc.tail = <<>>
          /\ RoomLeft(d, acc.m, IF k <= d.a THEN 0 ELSE PagesFor(HeadLen(d.es, d.off, d.a)))
     ELSE TailKept(d, acc)

(* Within an entry that is hit: its head is kept, then its tail.             *)
HeadDone(d, acc, k) ==
  /\ Keeps(d.m, acc.m, d.i)
  /\ Own(acc.m, d.i, Left(d, k - 1) \cup {d.new} \cup Members(acc.head))
  /\ Members(acc.head) \cap Members(d.es) = {}
  /\ acc.removed = Pointers(d.es, d.a, k - d.a) /\ acc.at = d.a + 1
  /\ HeadKept(d, acc) /\ acc.tail = <<>>
  /\ RoomLeft(d, acc.m, PagesFor(HeadLen(d.es, d.off, d.a)))

TailDone(d, acc, k) ==
  /\ Keeps(d.m, acc.m, d.i)
  /\ Own(acc.m, d.i, Left(d, k - 1) \cup {d.new} \cup Members(acc.head) \cup Members(acc.tail))
  /\ Members(acc.head) \cap Members(d.es) = {} /\ d.es[k] \notin Members(acc.tail)
  /\ acc.removed = Pointers(d.es, d.a, k - d.a) /\ acc.at = d.a + 1
  /\ HeadKept(d, acc)
  /\ IF k < d.b THEN acc.tail = <<>> /\ RoomLeft(d, acc.m, PagesFor(HeadLen(d.es, d.off, d.a)))
     ELSE TailKept(d, acc)

LEMMA EditIs ==
  ASSUME NEW d, Edit(d)
  PROVE  /\ d.es \in Seq(Entry) /\ Len(d.es) \in Nat
         /\ \A j \in 1 .. Len(d.es) : /\ d.es[j] \in Entry /\ d.es[j].len > 0
                                      /\ d.es[j].archived_len = d.es[j].len
                                      /\ d.es[j].offset = EndAt(d.es, 0, j - 1)
                                      /\ d.es[j].offset + d.es[j].len = EndAt(d.es, 0, j)
         /\ d.a \in Nat /\ d.b \in Nat /\ d.a <= d.b /\ d.b <= Len(d.es)
         /\ d.off \in Nat /\ d.fin \in Nat
         /\ \A j \in 1 .. Len(d.es) : Hit(d.es[j], d.off, d.fin) <=> d.a < j /\ j <= d.b
         /\ d.a < d.b => /\ HeadLen(d.es, d.off, d.a) \in Nat
                         /\ TailLen(d.es, d.fin, d.b) \in Nat
                         /\ EndAt(d.es, 0, d.b) \in Nat /\ EndAt(d.es, 0, d.a) \in Nat
<1>1. Tiled(d.es, 0) /\ Spans(d.es, d.off, d.fin, d.a, d.b) /\ d.off \in Nat /\ d.fin \in Nat
  BY DEF Edit
<1>2. /\ d.es \in Seq(Entry) /\ Len(d.es) \in Nat
      /\ \A j \in 1 .. Len(d.es) : /\ d.es[j] \in Entry /\ d.es[j].len > 0
                                   /\ d.es[j].archived_len = d.es[j].len
                                   /\ d.es[j].offset = EndAt(d.es, 0, j - 1)
                                   /\ d.es[j].offset + d.es[j].len = EndAt(d.es, 0, j)
  BY <1>1, TiledIs DEF End
<1>3. d.a \in 0 .. Len(d.es) /\ d.b \in d.a .. Len(d.es) /\ EndAt(d.es, 0, d.a) <= d.off
  BY <1>1 DEF Spans
<1>4. d.a \in Nat /\ d.b \in Nat /\ d.a <= d.b /\ d.b <= Len(d.es) /\ d.b \in 0 .. Len(d.es)
  BY <1>2, <1>3
<1>5. EndAt(d.es, 0, d.a) \in Nat /\ EndAt(d.es, 0, d.b) \in Nat
  BY <1>1, <1>3, <1>4, TiledOrder
<1>6. HeadLen(d.es, d.off, d.a) \in Nat /\ TailLen(d.es, d.fin, d.b) \in Nat
  BY <1>1, <1>3, <1>5 DEF HeadLen, TailLen, Larger
<1>7. \A j \in 1 .. Len(d.es) : Hit(d.es[j], d.off, d.fin) <=> d.a < j /\ j <= d.b
  BY <1>1 DEF Spans
<1>. QED BY <1>1, <1>2, <1>4, <1>5, <1>6, <1>7

LEMMA PointersNext ==
  ASSUME NEW es, NEW a \in Nat, NEW n \in Nat
  PROVE  /\ Append(Pointers(es, a, n), es[a + (n + 1)].page_pointer) = Pointers(es, a, n + 1)
         /\ Pointers(es, a, 0) = <<>>
<1>. DEFINE p == Pointers(es, a, n)
            v == es[a + (n + 1)].page_pointer
<1>1. p = [j \in 1 .. n |-> es[a + j].page_pointer]
  BY DEF Pointers
<1>2. Len(p) = n
  BY <1>1
<1>3. Append(p, v) = [j \in 1 .. n + 1 |-> IF j = n + 1 THEN v ELSE p[j]]
  BY <1>1, <1>2
<1>4. \A j \in 1 .. n + 1 : j # n + 1 => j \in 1 .. n
  OBVIOUS
<1>5. \A j \in 1 .. n + 1 : (IF j = n + 1 THEN v ELSE p[j]) = es[a + j].page_pointer
  BY <1>1, <1>4
<1>6. Append(p, v) = [j \in 1 .. n + 1 |-> es[a + j].page_pointer]
  BY <1>3, <1>5
<1>. QED BY <1>6 DEF Pointers

LEMMA LeftIs ==
  ASSUME NEW d, Edit(d), NEW k \in 1 .. Len(d.es), d.a < k, k <= d.b
  PROVE  /\ d.es[k] \in Left(d, k - 1) /\ Left(d, k - 1) \subseteq Members(d.es)
         /\ k = d.a + 1 => Left(d, k - 1) = Members(d.es)
         /\ Left(d, k) = Left(d, k - 1) \ {d.es[k]}
<1>1. Len(d.es) \in Nat /\ d.a \in Nat /\ d.b \in Nat /\ k \in Nat
  BY EditIs
<1>2. \A x \in 1 .. Len(d.es), y \in 1 .. Len(d.es) : x # y => d.es[x] # d.es[y]
  BY TiledDistinct DEF Edit
<1>3. ~(k <= k - 1)
  BY <1>1
<1>4. d.es[k] \in Left(d, k - 1)
  BY <1>3 DEF Left
<1>5. Left(d, k - 1) \subseteq Members(d.es)
  BY DEF Left, Members
<1>6. ASSUME k = d.a + 1 PROVE Left(d, k - 1) = Members(d.es)
  <2>1. \A x \in 1 .. Len(d.es) : ~(d.a < x /\ x <= d.b /\ x <= k - 1)
    BY <1>1, <1>6
  <2>. QED BY <2>1 DEF Left, Members
<1>7. Left(d, k) = Left(d, k - 1) \ {d.es[k]}
  <2>1. \A x \in 1 .. Len(d.es) : (d.a < x /\ x <= d.b /\ x <= k)
                                  <=> ((d.a < x /\ x <= d.b /\ x <= k - 1) \/ x = k)
    BY <1>1
  <2>. QED BY <1>2, <2>1 DEF Left
<1>. QED BY <1>4, <1>5, <1>6, <1>7

LEMMA HeadStep ==
  ASSUME NEW d, Edit(d), NEW alive, NEW acc \in Loops(alive), NEW k \in 1 .. Len(d.es), d.a < k, k <= d.b,
         Replacing(d, acc, k - 1),
         NEW x, x = RemoveEntry(acc, k, d.es[k]),
         NEW y, y = KeepHead(x, d.es[k], d.off, d.i)
  PROVE  y \in Loops(alive) /\ HeadDone(d, y, k)
<1>. DEFINE e == d.es[k]
            i == d.i
            off == d.off
            fin == d.fin
            H == HeadLen(d.es, d.off, d.a)
            T == TailLen(d.es, d.fin, d.b)
            S == Left(d, k - 1) \cup {d.new}
<1>0. d.a \in Nat /\ d.b \in Nat /\ Len(d.es) \in Nat /\ k \in Nat /\ d.a < d.b /\ k \in Nat \ {0}
  <2>1. d.a \in Nat /\ d.b \in Nat /\ Len(d.es) \in Nat
    BY EditIs
  <2>. QED BY <2>1
<1>1. /\ e \in Entry /\ off \in Nat /\ fin \in Nat /\ Hit(e, off, fin) /\ H \in Nat /\ T \in Nat
      /\ e.offset = EndAt(d.es, 0, k - 1) /\ i \in Inos
  <2>1. e \in Entry /\ e.offset = EndAt(d.es, 0, k - 1) /\ Hit(e, off, fin)
    BY EditIs
  <2>2. off \in Nat /\ fin \in Nat /\ i \in Inos
    BY DEF Edit
  <2>3. H \in Nat /\ T \in Nat
    BY <1>0, EditIs
  <2>. HIDE DEF e, i, off, fin, H, T
  <2>. QED BY <2>1, <2>2, <2>3
<1>11. x = RemoveEntry(acc, k, e) /\ y = KeepHead(x, e, off, i)
  OBVIOUS
<1>2. /\ x \in Loops(alive) /\ x.m = acc.m /\ x.head = acc.head /\ x.tail = acc.tail
      /\ x.removed = Append(acc.removed, e.page_pointer)
      /\ (acc.at = 0 => x.at = k) /\ (acc.at # 0 => x.at = acc.at)
  <2>. DEFINE K == k
  <2>1. K \in Nat \ {0}
    BY <1>0
  <2>2. e \in Entry
    BY <1>1
  <2>3. x = RemoveEntry(acc, K, e)
    BY <1>11
  <2>. HIDE DEF e, i, off, fin, H, T, S, K
  <2>4. /\ x \in Loops(alive) /\ x.m = acc.m /\ x.head = acc.head /\ x.tail = acc.tail
        /\ x.removed = Append(acc.removed, e.page_pointer)
        /\ (acc.at = 0 => x.at = K) /\ (acc.at # 0 => x.at = acc.at)
    <3>1. x \in Loops(alive)
      BY <2>1, <2>2, <2>3, RemoveEntryTyped
    <3>. QED BY <2>1, <2>2, <2>3, <3>1 DEF RemoveEntry, InsertionAt, Loops
  <2>. QED BY <2>4 DEF K
<1>3. /\ y \in Loops(alive) /\ y.at = x.at /\ y.removed = x.removed /\ y.tail = x.tail
  <2>. HIDE DEF e, i, off, fin
  <2>1. off \in Int /\ fin \in Int
    BY <1>1
  <2>. QED BY <1>1, <1>2, <1>11, <2>1, KeepHeadTyped
<1>4. Before(e, d.off) = IF k = d.a + 1 THEN H ELSE 0
  BY SpanParts DEF Edit
<1>5. k - 1 < d.b /\ k - 1 \in Int /\ (k - 1 <= d.a <=> k = d.a + 1)
  BY <1>0
<1>6. /\ Keeps(d.m, acc.m, d.i)
      /\ Own(acc.m, d.i, S \cup Members(acc.head) \cup Members(acc.tail))
      /\ Members(acc.head) \cap Members(d.es) = {} /\ acc.tail = <<>>
      /\ RoomLeft(d, acc.m, IF k - 1 <= d.a THEN 0 ELSE PagesFor(H))
  BY <1>5 DEF Replacing
<1>7. S \cup Members(acc.head) \cup Members(acc.tail) = S \cup Members(acc.head)
  BY <1>6, OneMember
<1>8. e \in S /\ (k = d.a + 1 => Members(d.es) \subseteq S)
  BY LeftIs
<1>9. CASE k = d.a + 1
  <2>1. acc.removed = <<>> /\ acc.at = 0 /\ acc.head = <<>> /\ k - 1 = d.a
    BY <1>0, <1>5, <1>9 DEF Replacing
  <2>2. Own(x.m, d.i, S) /\ x.head = <<>> /\ Marked(x.m) /\ Running(x.m)
    BY <1>2, <1>6, <1>7, <2>1, OneMember DEF Keeps
  <2>3. HasRoom(x.m, PagesFor(Before(e, d.off)))
    <3>1. PagesFor(H) \in Nat /\ PagesFor(T) \in Nat
      BY <1>1, PagesForIs
    <3>2. d.room \in Blocks /\ d.m.table[d.room].reserved_size >= PagesFor(H) + PagesFor(T)
      BY <1>0 DEF Edit
    <3>3. acc.m.table[d.room].reserved_size >= d.m.table[d.room].reserved_size - 0
      BY <1>6, <2>1 DEF RoomLeft
    <3>4. acc.m.table[d.room].reserved_size \in Int /\ d.m.table[d.room].reserved_size \in Int
      BY <1>6, <3>2 DEF Edit, Keeps, Sound, States, Info, InfoRecord
    <3>. HIDE DEF H, T
    <3>5. acc.m.table[d.room].reserved_size >= PagesFor(H)
      BY <3>1, <3>2, <3>3, <3>4
    <3>. QED BY <1>2, <1>4, <1>9, <3>2, <3>5 DEF HasRoom
  <2>. HIDE DEF S, e, H
  <2>4. /\ Keeps(x.m, y.m, d.i) /\ Own(y.m, d.i, S \cup Members(y.head)) /\ Members(y.head) \cap S = {}
        /\ Piece(y.m, y.head, Before(e, d.off), e.offset, SubSeq(ReadEntry(x.m, e), 1, Before(e, d.off)))
        /\ Spent(x.m, y.m, PagesFor(Before(e, d.off)))
    <3>1. HasRoom(x.m, PagesFor(Before(e, off))) /\ Own(x.m, i, S)
      BY <2>2, <2>3
    <3>2. off \in Int /\ fin \in Int
      BY <1>1
    <3>. HIDE DEF i, off, fin
    <3>3. /\ Keeps(x.m, y.m, i) /\ Own(y.m, i, S \cup Members(y.head)) /\ Members(y.head) \cap S = {}
          /\ Piece(y.m, y.head, Before(e, off), e.offset, SubSeq(ReadEntry(x.m, e), 1, Before(e, off)))
          /\ Spent(x.m, y.m, PagesFor(Before(e, off)))
      BY <1>1, <1>2, <1>8, <1>11, <2>2, <3>1, <3>2, KeepHeadDone
    <3>. QED BY <3>3 DEF i, off
  <2>5. Keeps(d.m, y.m, d.i)
    BY <1>2, <1>6, <2>4, KeepsTrans
  <2>6. Members(y.head) \cap Members(d.es) = {}
    BY <1>8, <1>9, <2>4
  <2>7. ReadEntry(x.m, e) = ReadEntry(d.m, e)
    <3>1. e \in Members(d.es) \cup {d.new}
      BY DEF Members, e
    <3>2. Own(d.m, d.i, Members(d.es) \cup {d.new}) /\ Marked(d.m)
      BY DEF Edit
    <3>3. Keeps(d.m, x.m, d.i)
      BY <1>2, <1>6
    <3>4. i \in Inos
      BY <1>1
    <3>. HIDE DEF i, off, fin, T
    <3>5. Own(d.m, i, Members(d.es) \cup {d.new}) /\ Keeps(d.m, x.m, i)
      BY <3>2, <3>3 DEF i
    <3>. QED BY <3>1, <3>2, <3>4, <3>5, ReadKept
  <2>8. HeadKept(d, y)
    <3>1. e = d.es[d.a + 1] /\ e.offset = EndAt(d.es, 0, d.a) /\ Before(e, d.off) = H
      BY <1>1, <1>4, <1>9, <2>1 DEF e, off
    <3>. QED BY <2>4, <2>7, <3>1 DEF HeadKept, HeadPart, H
  <2>9. RoomLeft(d, y.m, PagesFor(H))
    <3>1. PagesFor(H) \in Nat
      BY <1>1, PagesForIs
    <3>2. d.room \in Blocks
      BY DEF Edit
    <3>3. acc.m.table[d.room].reserved_size >= d.m.table[d.room].reserved_size - 0
      BY <1>6, <2>1 DEF RoomLeft
    <3>4. y.m.table[d.room].reserved_size >= acc.m.table[d.room].reserved_size - PagesFor(H)
      BY <1>2, <1>4, <1>9, <2>4, <3>2 DEF Spent
    <3>5. /\ acc.m.table[d.room].reserved_size \in Int /\ d.m.table[d.room].reserved_size \in Int
          /\ y.m.table[d.room].reserved_size \in Int
      BY <1>6, <2>5, <3>2 DEF Edit, Keeps, Sound, States, Info, InfoRecord
    <3>6. y.m.table[d.room].reserved_size >= d.m.table[d.room].reserved_size - PagesFor(H)
      <4>. DEFINE h == PagesFor(H)
                  p == d.m.table[d.room].reserved_size
                  q == acc.m.table[d.room].reserved_size
                  s == y.m.table[d.room].reserved_size
      <4>1. h \in Nat /\ p \in Int /\ q \in Int /\ s \in Int /\ q >= p - 0 /\ s >= q - h
        BY <3>1, <3>3, <3>4, <3>5
      <4>. HIDE DEF h, p, q, s
      <4>2. s >= p - h
        BY <4>1
      <4>. QED BY <4>2 DEF h, p, s
    <3>. QED BY <3>6 DEF RoomLeft
  <2>10. y.removed = Pointers(d.es, d.a, k - d.a) /\ y.at = d.a + 1
    <3>1. k - d.a = 0 + 1 /\ e = d.es[d.a + (0 + 1)]
      BY <1>0, <1>9 DEF e
    <3>2. Append(Pointers(d.es, d.a, 0), d.es[d.a + (0 + 1)].page_pointer) = Pointers(d.es, d.a, 0 + 1)
          /\ Pointers(d.es, d.a, 0) = <<>>
      BY <1>0, PointersNext
    <3>. QED BY <1>2, <1>3, <1>9, <2>1, <3>1, <3>2
  <2>. QED
    BY <1>2, <1>3, <1>6, <2>4, <2>5, <2>6, <2>8, <2>9, <2>10 DEF HeadDone, S, H
<1>10. CASE k # d.a + 1
  <2>1. y = x
    BY <1>4, <1>10 DEF KeepHead
  <2>2. /\ ~(k - 1 <= d.a) /\ Smaller(k - 1, d.b) = k - 1
        /\ k - d.a = ((k - 1) - d.a) + 1 /\ (k - 1) - d.a \in Nat /\ d.a + (((k - 1) - d.a) + 1) = k
    BY <1>0, <1>5, <1>10 DEF Smaller
  <2>3. /\ acc.removed = Pointers(d.es, d.a, (k - 1) - d.a) /\ acc.at = d.a + 1 /\ HeadKept(d, acc)
    BY <2>2 DEF Replacing
  <2>4. y.removed = Pointers(d.es, d.a, k - d.a) /\ y.at = d.a + 1
    <3>. DEFINE n == (k - 1) - d.a
    <3>1. n \in Nat /\ k - d.a = n + 1 /\ d.a + (n + 1) = k
      BY <2>2
    <3>2. acc.removed = Pointers(d.es, d.a, n)
      BY <2>3
    <3>. HIDE DEF n
    <3>3. Append(Pointers(d.es, d.a, n), d.es[d.a + (n + 1)].page_pointer) = Pointers(d.es, d.a, n + 1)
      BY <1>0, <3>1, PointersNext
    <3>4. y.removed = Pointers(d.es, d.a, k - d.a)
      BY <1>2, <2>1, <3>1, <3>2, <3>3
    <3>5. y.at = d.a + 1
      BY <1>0, <1>2, <2>1, <2>3
    <3>. QED BY <3>4, <3>5
  <2>5. HeadKept(d, y)
    BY <1>2, <2>1, <2>3 DEF HeadKept
  <2>6. RoomLeft(d, y.m, PagesFor(H))
    BY <1>2, <1>6, <2>1, <2>2
  <2>7. /\ Keeps(d.m, y.m, d.i) /\ Own(y.m, d.i, S \cup Members(y.head))
        /\ Members(y.head) \cap Members(d.es) = {} /\ y.tail = <<>>
    BY <1>2, <1>6, <1>7, <2>1
  <2>. QED BY <1>3, <2>4, <2>5, <2>6, <2>7 DEF HeadDone
<1>. QED BY <1>9, <1>10

LEMMA TailStep ==
  ASSUME NEW d, Edit(d), NEW alive, NEW y \in Loops(alive), NEW k \in 1 .. Len(d.es), d.a < k, k <= d.b,
         HeadDone(d, y, k), NEW z, z = KeepTail(y, d.es[k], d.fin, d.i)
  PROVE  z \in Loops(alive) /\ TailDone(d, z, k)
<1>. DEFINE e == d.es[k]
            i == d.i
            off == d.off
            fin == d.fin
            H == HeadLen(d.es, d.off, d.a)
            T == TailLen(d.es, d.fin, d.b)
            S == Left(d, k - 1) \cup {d.new} \cup Members(y.head)
<1>0. d.a \in Nat /\ d.b \in Nat /\ Len(d.es) \in Nat /\ k \in Nat /\ d.a < d.b
  <2>1. d.a \in Nat /\ d.b \in Nat /\ Len(d.es) \in Nat
    BY EditIs
  <2>. QED BY <2>1
<1>1. /\ e \in Entry /\ off \in Nat /\ fin \in Nat /\ Hit(e, off, fin) /\ H \in Nat /\ T \in Nat
      /\ e.offset + e.len = EndAt(d.es, 0, k) /\ e.archived_len = e.len /\ i \in Inos
  <2>1. /\ e \in Entry /\ e.offset + e.len = EndAt(d.es, 0, k) /\ e.archived_len = e.len
        /\ Hit(e, off, fin)
    BY EditIs
  <2>2. off \in Nat /\ fin \in Nat /\ i \in Inos
    BY DEF Edit
  <2>3. H \in Nat /\ T \in Nat
    BY <1>0, EditIs
  <2>. HIDE DEF e, i, off, fin, H, T
  <2>. QED BY <2>1, <2>2, <2>3
<1>2. z = KeepTail(y, e, fin, i)
  OBVIOUS
<1>3. z \in Loops(alive) /\ z.at = y.at /\ z.removed = y.removed
  <2>. HIDE DEF e, i, off, fin
  <2>1. off \in Int /\ fin \in Int
    BY <1>1
  <2>. QED BY <1>1, <1>2, <2>1, KeepTailTyped
<1>4. After(e, fin) = IF k = d.b THEN T ELSE 0
  BY SpanParts DEF Edit
<1>5. /\ Keeps(d.m, y.m, d.i) /\ Own(y.m, d.i, S)
      /\ Members(y.head) \cap Members(d.es) = {}
      /\ y.removed = Pointers(d.es, d.a, k - d.a) /\ y.at = d.a + 1
      /\ HeadKept(d, y) /\ y.tail = <<>> /\ RoomLeft(d, y.m, PagesFor(H))
  BY DEF HeadDone
<1>6. e \in S /\ e \in Members(d.es)
  BY LeftIs DEF Members
<1>7. CASE k # d.b
  <2>1. z = y
    BY <1>2, <1>4, <1>7 DEF KeepTail
  <2>2. k < d.b
    BY <1>0, <1>7
  <2>3. Members(z.tail) = {}
    BY <1>5, <2>1, OneMember
  <2>4. S = Left(d, k - 1) \cup {d.new} \cup Members(z.head) \cup Members(z.tail)
    BY <2>1, <2>3
  <2>. HIDE DEF S, e, H
  <2>. QED BY <1>3, <1>5, <2>1, <2>2, <2>3, <2>4 DEF TailDone, H
<1>8. CASE k = d.b
  <2>1. HasRoom(y.m, PagesFor(After(e, fin)))
    <3>. DEFINE h == PagesFor(H)
                u == PagesFor(T)
                p == d.m.table[d.room].reserved_size
                q == y.m.table[d.room].reserved_size
    <3>1. h \in Nat /\ u \in Nat
      BY <1>1, PagesForIs
    <3>2. d.room \in Blocks /\ p >= h + u
      BY <1>0 DEF Edit
    <3>3. q >= p - h
      BY <1>5 DEF RoomLeft
    <3>4. p \in Int /\ q \in Int
      BY <1>5, <3>2 DEF Edit, Keeps, Sound, States, Info, InfoRecord
    <3>5. PagesFor(After(e, fin)) = u
      BY <1>4, <1>8
    <3>. HIDE DEF h, u, p, q
    <3>6. q >= u
      BY <3>1, <3>2, <3>3, <3>4
    <3>. QED BY <3>2, <3>5, <3>6 DEF HasRoom, q
  <2>2. Own(y.m, i, S) /\ Marked(y.m) /\ Running(y.m)
    BY <1>5 DEF Keeps
  <2>3. /\ Keeps(y.m, z.m, i) /\ Own(z.m, i, S \cup Members(z.tail)) /\ Members(z.tail) \cap S = {}
        /\ z.head = y.head
        /\ Piece(z.m, z.tail, After(e, fin), e.offset + e.len - After(e, fin),
                 TailOf(ReadEntry(y.m, e), After(e, fin)))
    <3>1. off \in Int /\ fin \in Int
      BY <1>1
    <3>2. e.archived_len = e.len /\ Hit(e, off, fin) /\ i \in Inos
      BY <1>1
    <3>3. y.tail = <<>>
      BY <1>5
    <3>4. e \in S
      BY <1>6
    <3>. HIDE DEF e, i, off, fin, S, H, T
    <3>. QED BY <1>2, <2>1, <2>2, <3>1, <3>2, <3>3, <3>4, KeepTailDone
  <2>4. Keeps(d.m, z.m, d.i)
    <3>1. Keeps(y.m, z.m, d.i)
      BY <2>3
    <3>. QED BY <1>5, <3>1, KeepsTrans
  <2>5. HeadKept(d, z)
    <3>1. Piece(y.m, y.head, H, EndAt(d.es, 0, d.a), HeadPart(d)) /\ Members(y.head) \subseteq S
      BY <1>5 DEF HeadKept
    <3>. HIDE DEF i, S
    <3>2. i \in Inos
      BY <1>1
    <3>3. Piece(z.m, y.head, H, EndAt(d.es, 0, d.a), HeadPart(d))
      BY <2>2, <2>3, <3>1, <3>2, PieceKept
    <3>. QED BY <2>3, <3>3 DEF HeadKept
  <2>6. ReadEntry(y.m, e) = ReadEntry(d.m, e)
    <3>1. e \in Members(d.es) \cup {d.new}
      BY <1>6
    <3>2. Own(d.m, i, Members(d.es) \cup {d.new}) /\ Marked(d.m) /\ Keeps(d.m, y.m, i) /\ i \in Inos
      BY <1>1, <1>5 DEF Edit
    <3>. HIDE DEF e, i
    <3>. QED BY <3>1, <3>2, ReadKept
  <2>7. TailKept(d, z)
    <3>1. e = d.es[d.b] /\ After(e, fin) = T
      BY <1>4, <1>8
    <3>2. CASE T = 0
      <4>1. z.tail = <<>>
        BY <2>3, <3>1, <3>2 DEF Piece
      <4>. QED BY <3>2, <4>1 DEF TailKept, Piece
    <3>3. CASE T # 0
      <4>1. EndAt(d.es, 0, d.b) \in Nat
        BY <1>0, EditIs
      <4>2. T = EndAt(d.es, 0, d.b) - fin
        BY <1>1, <3>3, <4>1 DEF TailLen, Larger
      <4>3. e.offset + e.len - T = fin
        <5>1. e.offset + e.len = EndAt(d.es, 0, d.b)
          BY <1>1, <1>8
        <5>2. e.offset \in Int /\ e.len \in Int
          BY <1>1, EntryFields
        <5>. HIDE DEF e, T, fin
        <5>3. fin \in Nat
          BY <1>1
        <5>. QED BY <4>1, <4>2, <5>1, <5>2, <5>3
      <4>4. Piece(z.m, z.tail, T, fin, TailOf(ReadEntry(d.m, e), T))
        BY <2>3, <2>6, <3>1, <4>3
      <4>. QED BY <3>1, <4>4 DEF TailKept, TailPart
    <3>. QED BY <3>2, <3>3
  <2>8. d.es[k] \notin Members(z.tail)
    BY <1>6, <2>3
  <2>9. /\ Own(z.m, d.i, Left(d, k - 1) \cup {d.new} \cup Members(z.head) \cup Members(z.tail))
        /\ Members(z.head) \cap Members(d.es) = {}
    BY <1>5, <2>3
  <2>10. ~(k < d.b)
    BY <1>0, <1>8
  <2>11. z.removed = Pointers(d.es, d.a, k - d.a) /\ z.at = d.a + 1
    BY <1>3, <1>5
  <2>. HIDE DEF e, i, off, fin, S, H, T
  <2>. QED BY <1>3, <2>4, <2>5, <2>7, <2>8, <2>9, <2>10, <2>11 DEF TailDone
<1>. QED BY <1>7, <1>8

LEMMA DropStep ==
  ASSUME NEW d, Edit(d), NEW alive, NEW z \in Loops(alive), NEW k \in 1 .. Len(d.es), d.a < k, k <= d.b,
         TailDone(d, z, k),
         NEW t, t = DropFrom(z, d.es[k].page_pointer, PagesFor(d.es[k].archived_len))
  PROVE  Replacing(d, t, k)
<1>. DEFINE e == d.es[k]
            i == d.i
            H == HeadLen(d.es, d.off, d.a)
            T == TailLen(d.es, d.fin, d.b)
            S == Left(d, k - 1) \cup {d.new} \cup Members(z.head) \cup Members(z.tail)
            q == DropPages(z.m, e.page_pointer, PagesFor(e.archived_len))
<1>0. d.a \in Nat /\ d.b \in Nat /\ Len(d.es) \in Nat /\ k \in Nat /\ i \in Inos
  <2>1. d.a \in Nat /\ d.b \in Nat /\ Len(d.es) \in Nat
    BY EditIs
  <2>. QED BY <2>1 DEF Edit
<1>1. /\ t.m = q /\ t.head = z.head /\ t.tail = z.tail /\ t.at = z.at /\ t.removed = z.removed
  BY DEF DropFrom, Loops
<1>2. /\ Keeps(d.m, z.m, i) /\ Own(z.m, i, S)
      /\ Members(z.head) \cap Members(d.es) = {} /\ e \notin Members(z.tail)
      /\ z.removed = Pointers(d.es, d.a, k - d.a) /\ z.at = d.a + 1
      /\ HeadKept(d, z)
      /\ IF k < d.b THEN z.tail = <<>> /\ RoomLeft(d, z.m, PagesFor(H)) ELSE TailKept(d, z)
  BY DEF TailDone
<1>3. e \in Left(d, k - 1) /\ Left(d, k) = Left(d, k - 1) \ {e} /\ e \in Members(d.es)
  BY LeftIs
<1>4. e # d.new /\ e \notin Members(z.head)
  BY <1>2, <1>3 DEF Edit
<1>5. S \ {e} = Left(d, k) \cup {d.new} \cup Members(z.head) \cup Members(z.tail) /\ e \in S
  BY <1>2, <1>3, <1>4
<1>6. /\ Own(q, i, S \ {e}) /\ Keeps(z.m, q, i)
      /\ \A c \in Blocks : q.table[c].reserved_size = z.m.table[c].reserved_size
  <2>. DEFINE m == z.m
  <2>1. Sound(m) /\ Running(m) /\ Marked(m) /\ Own(m, i, S) /\ i \in Inos
    BY <1>0, <1>2 DEF Keeps
  <2>2. Given(m, q, e)
    BY DEF Given
  <2>3. e \in S
    BY <1>5
  <2>. HIDE DEF e, i, S, q, m
  <2>4. /\ Own(q, i, S \ {e}) /\ Keeps(m, q, i)
        /\ \A c \in Blocks : q.table[c].reserved_size = m.table[c].reserved_size
    BY <2>1, <2>2, <2>3, OwnDropped, SMTT(60)
  <2>. QED BY <2>4 DEF m
<1>7. Keeps(d.m, q, i)
  <2>. HIDE DEF i, q
  <2>. QED BY <1>2, <1>6, KeepsTrans
<1>8. Marked(z.m)
  BY <1>2 DEF Keeps
<1>9. HeadKept(d, t)
  <2>1. Piece(z.m, z.head, H, EndAt(d.es, 0, d.a), HeadPart(d)) /\ Members(z.head) \subseteq S
    BY <1>2 DEF HeadKept
  <2>. HIDE DEF i, S, q, H
  <2>2. Piece(q, z.head, H, EndAt(d.es, 0, d.a), HeadPart(d))
    BY <1>0, <1>2, <1>6, <1>8, <2>1, PieceKept
  <2>. QED BY <1>1, <2>2 DEF HeadKept, H
<1>10. IF k < d.b THEN t.tail = <<>> /\ RoomLeft(d, t.m, PagesFor(H)) ELSE TailKept(d, t)
  <2>1. CASE k < d.b
    <3>1. d.room \in Blocks
      BY DEF Edit
    <3>. QED BY <1>1, <1>2, <1>6, <2>1, <3>1 DEF RoomLeft
  <2>2. CASE ~(k < d.b)
    <3>1. Piece(z.m, z.tail, T, d.fin, TailPart(d)) /\ Members(z.tail) \subseteq S
      BY <1>2, <2>2 DEF TailKept
    <3>. HIDE DEF i, S, q, T
    <3>2. Piece(q, z.tail, T, d.fin, TailPart(d))
      BY <1>0, <1>2, <1>6, <1>8, <3>1, PieceKept
    <3>. QED BY <1>1, <2>2, <3>2 DEF TailKept, T
  <2>. QED BY <2>1, <2>2
<1>11. ~(k <= d.a) /\ Smaller(k, d.b) = k
  BY <1>0 DEF Smaller
<1>12. Own(t.m, d.i, Left(d, k) \cup {d.new} \cup Members(t.head) \cup Members(t.tail))
  BY <1>1, <1>5, <1>6
<1>13. Keeps(d.m, t.m, d.i) /\ Members(t.head) \cap Members(d.es) = {}
  BY <1>1, <1>2, <1>7
<1>14. t.removed = Pointers(d.es, d.a, Smaller(k, d.b) - d.a) /\ t.at = d.a + 1
  BY <1>1, <1>2, <1>11
<1>. HIDE DEF e, i, S, q
<1>. QED BY <1>9, <1>10, <1>11, <1>12, <1>13, <1>14 DEF Replacing, H

(* One entry: it is hit, or the loop passes it by.                           *)
LEMMA ReplaceStep ==
  ASSUME NEW d, Edit(d), NEW alive, NEW acc \in Loops(alive), NEW k \in 1 .. Len(d.es),
         Replacing(d, acc, k - 1),
         NEW t, t = ReplaceEntry(acc, k, d.es[k], d.off, d.fin, d.i)
  PROVE  Replacing(d, t, k)
<1>. DEFINE e == d.es[k]
<1>0. /\ d.a \in Nat /\ d.b \in Nat /\ Len(d.es) \in Nat /\ k \in Nat /\ d.a <= d.b /\ d.b <= Len(d.es)
      /\ Hit(e, d.off, d.fin) <=> d.a < k /\ k <= d.b
  <2>1. /\ d.a \in Nat /\ d.b \in Nat /\ Len(d.es) \in Nat /\ d.a <= d.b /\ d.b <= Len(d.es)
        /\ Hit(e, d.off, d.fin) <=> d.a < k /\ k <= d.b
    BY EditIs
  <2>. QED BY <2>1
<1>1. CASE d.a < k /\ k <= d.b
  <2>. DEFINE x == RemoveEntry(acc, k, e)
              y == KeepHead(x, e, d.off, d.i)
              z == KeepTail(y, e, d.fin, d.i)
  <2>1. t = DropFrom(z, e.page_pointer, PagesFor(e.archived_len))
    BY <1>0, <1>1 DEF ReplaceEntry
  <2>2. y \in Loops(alive) /\ HeadDone(d, y, k)
    <3>. HIDE DEF y
    <3>. QED BY <1>1, HeadStep DEF y
  <2>. HIDE DEF x, y
  <2>3. z \in Loops(alive) /\ TailDone(d, z, k)
    <3>. HIDE DEF z
    <3>. QED BY <1>1, <2>2, TailStep DEF z
  <2>. HIDE DEF z
  <2>. QED BY <1>1, <2>1, <2>3, DropStep
<1>2. CASE ~(d.a < k /\ k <= d.b)
  <2>1. t = acc
    BY <1>0, <1>2 DEF ReplaceEntry
  <2>2. Keeps(d.m, t.m, d.i) /\ Members(t.head) \cap Members(d.es) = {}
    BY <2>1 DEF Replacing
  <2>3. CASE k <= d.a
    <3>1. k - 1 <= d.a
      BY <1>0, <2>3
    <3>2. Left(d, k) = Left(d, k - 1)
      <4>1. \A x \in 1 .. Len(d.es) : ~(d.a < x /\ x <= k) /\ ~(d.a < x /\ x <= k - 1)
        BY <1>0, <2>3
      <4>. QED BY <4>1 DEF Left
    <3>. QED BY <2>1, <2>2, <2>3, <3>1, <3>2 DEF Replacing
  <2>4. CASE ~(k <= d.a)
    <3>1. /\ ~(k - 1 <= d.a) /\ ~(k < d.b) /\ ~(k - 1 < d.b) /\ Smaller(k, d.b) = Smaller(k - 1, d.b)
      <4>1. d.a # d.b
        BY <1>0, <1>2, <2>4 DEF Edit, Spans
      <4>2. k > d.b
        BY <1>0, <1>2, <2>4
      <4>. QED BY <1>0, <4>1, <4>2 DEF Smaller
    <3>2. Left(d, k) = Left(d, k - 1)
      <4>1. \A x \in 1 .. Len(d.es) : (x <= d.b /\ x <= k) <=> (x <= d.b /\ x <= k - 1)
        BY <1>0, <3>1
      <4>. QED BY <4>1 DEF Left
    <3>. QED BY <2>1, <2>2, <2>4, <3>1, <3>2 DEF Replacing
  <2>. QED BY <2>3, <2>4
<1>. QED BY <1>1, <1>2

LEMMA ReplaceStart ==
  ASSUME NEW d, Edit(d)
  PROVE  Replacing(d, Loop(d.m), 0)
<1>. DEFINE l == Loop(d.m)
<1>1. l.m = d.m /\ l.removed = <<>> /\ l.at = 0 /\ l.head = <<>> /\ l.tail = <<>>
  BY DEF Loop
<1>2. d.a \in Nat /\ Len(d.es) \in Nat /\ 0 <= d.a
  BY EditIs
<1>3. Members(l.head) = {} /\ Members(l.tail) = {}
  BY <1>1, OneMember
<1>4. Left(d, 0) = Members(d.es)
  <2>1. \A x \in 1 .. Len(d.es) : ~(x <= 0)
    OBVIOUS
  <2>. QED BY <2>1 DEF Left, Members
<1>5. Keeps(d.m, d.m, d.i)
  BY KeepsSelf DEF Edit
<1>6. RoomLeft(d, d.m, 0)
  <2>1. d.m.table[d.room].reserved_size \in Int
    BY DEF Edit, Sound, States, Info, InfoRecord
  <2>. QED BY <2>1 DEF RoomLeft
<1>7. Own(l.m, d.i, Left(d, 0) \cup {d.new} \cup Members(l.head) \cup Members(l.tail))
  BY <1>1, <1>3, <1>4 DEF Edit
<1>. HIDE DEF l
<1>. QED BY <1>1, <1>2, <1>3, <1>5, <1>6, <1>7 DEF Replacing, l

LEMMA ReplaceHitsDone ==
  ASSUME NEW d, Edit(d), NEW obj \in Objects, obj.entries = d.es,
         NEW t, t = ReplaceHits(d.m, obj, d.off, d.fin, d.i)
  PROVE  Replacing(d, t, Len(d.es))
<1>. DEFINE n == Len(d.es)
<1>1. n \in Nat
  BY EditIs
<1>2. PICK f : ReplaceSteps(f, d.m, d.es, d.off, d.fin, d.i, t)
  <2>1. Sound(d.m) /\ d.off \in Int /\ d.fin \in Int /\ d.i \in Inos
    BY DEF Edit
  <2>. QED BY <2>1, ReplaceHitsIs
<1>. DEFINE G == {k \in 0 .. n : Replacing(d, f[k], k)}
<1>3. 0 \in G
  BY <1>1, <1>2, ReplaceStart DEF ReplaceSteps
<1>4. ASSUME NEW k \in 1 .. n, k - 1 \in G PROVE k \in G
  <2>1. f[k - 1] \in Loops(d.m.live)
    BY <1>1, <1>2 DEF ReplaceSteps
  <2>2. f[k] = ReplaceEntry(f[k - 1], k, d.es[k], d.off, d.fin, d.i)
    BY <1>2 DEF ReplaceSteps
  <2>3. Replacing(d, f[k - 1], k - 1)
    BY <1>4
  <2>4. Replacing(d, f[k], k)
    BY <2>1, <2>2, <2>3, ReplaceStep
  <2>. QED BY <1>1, <2>4
<1>5. \A k \in 0 .. n : k \in G
  <2>. HIDE DEF G, n
  <2>. QED BY <1>1, <1>3, <1>4, UpTo
<1>6. n \in 0 .. n /\ f[n] = t
  BY <1>1, <1>2 DEF ReplaceSteps
<1>. QED BY <1>5, <1>6

-----------------------------------------------------------------------------
(* The entries hit are removed by their page pointers.                       *)

(* Without the entries behind the first a, up to the c-th.                   *)
CutOut(es, a, c) == SubSeq(es, 1, a) \o SubSeq(es, c + 1, Len(es))

DistinctPointers(es) ==
  \A j, k \in 1 .. Len(es) : es[j].page_pointer = es[k].page_pointer => j = k

LEMMA CutOutIs ==
  ASSUME NEW es \in Seq(Entry), NEW a \in 0 .. Len(es), NEW c \in a .. Len(es)
  PROVE  /\ CutOut(es, a, c) \in Seq(Entry) /\ Len(CutOut(es, a, c)) = Len(es) - (c - a)
         /\ \A j \in 1 .. Len(es) - (c - a) :
              CutOut(es, a, c)[j] = IF j <= a THEN es[j] ELSE es[j + (c - a)]
<1>. DEFINE n == Len(es)
            u == SubSeq(es, 1, a)
            v == SubSeq(es, c + 1, n)
<1>1. n \in Nat /\ a \in Nat /\ c \in Nat /\ a <= c /\ c <= n
  OBVIOUS
<1>2. u \in Seq(Entry) /\ Len(u) = a /\ \A j \in 1 .. a : u[j] = es[j]
  BY <1>1
<1>3. v \in Seq(Entry) /\ Len(v) = n - c /\ \A j \in 1 .. n - c : v[j] = es[j + c]
  BY <1>1
<1>4. CutOut(es, a, c) = u \o v
  BY DEF CutOut
<1>. HIDE DEF u, v
<1>5. u \o v \in Seq(Entry) /\ Len(u \o v) = a + (n - c)
  <2>1. u \in Seq(Entry) /\ v \in Seq(Entry)
    BY <1>2, <1>3
  <2>2. u \o v \in Seq(Entry) /\ Len(u \o v) = Len(u) + Len(v)
    BY <2>1
  <2>. QED BY <1>2, <1>3, <2>2
<1>6. a + (n - c) = n - (c - a)
  BY <1>1
<1>7. ASSUME NEW j \in 1 .. n - (c - a)
      PROVE  (u \o v)[j] = IF j <= a THEN es[j] ELSE es[j + (c - a)]
  <2>1. j \in 1 .. Len(u) + Len(v)
    BY <1>1, <1>2, <1>3, <1>6
  <2>2. (u \o v)[j] = IF j <= Len(u) THEN u[j] ELSE v[j - Len(u)]
    BY <1>2, <1>3, <2>1
  <2>3. CASE j <= a
    BY <1>2, <2>2, <2>3
  <2>4. CASE ~(j <= a)
    <3>1. j - a \in 1 .. n - c /\ (j - a) + c = j + (c - a)
      BY <1>1, <2>4
    <3>. QED BY <1>2, <1>3, <2>2, <2>4, <3>1
  <2>. QED BY <2>3, <2>4
<1>. QED BY <1>4, <1>5, <1>6, <1>7

LEMMA RestIs ==
  ASSUME NEW es \in Seq(Entry), NEW a \in 0 .. Len(es)
  PROVE  /\ SubSeq(es, a + 1, Len(es)) \in Seq(Entry) /\ Len(SubSeq(es, a + 1, Len(es))) = Len(es) - a
         /\ \A j \in 1 .. Len(es) - a : SubSeq(es, a + 1, Len(es))[j] = es[j + a]
<1>1. Len(es) \in Nat /\ a \in Nat /\ a <= Len(es)
  OBVIOUS
<1>. QED BY <1>1

LEMMA SameSeq ==
  ASSUME NEW s \in Seq(Entry), NEW t \in Seq(Entry), Len(s) = Len(t), \A j \in 1 .. Len(s) : s[j] = t[j]
  PROVE  s = t
OBVIOUS

LEMMA WithoutNext ==
  ASSUME NEW es \in Seq(Entry), DistinctPointers(es), NEW a \in 0 .. Len(es), NEW c \in a + 1 .. Len(es)
  PROVE  Without(CutOut(es, a, c - 1), es[c].page_pointer) = CutOut(es, a, c)
<1>. DEFINE n == Len(es)
            p == es[c].page_pointer
            s == CutOut(es, a, c - 1)
            r == n - ((c - 1) - a)
            I == {i \in 1 .. Len(s) : s[i].page_pointer = p}
<1>1. n \in Nat /\ a \in Nat /\ c \in Nat /\ a < c /\ c <= n /\ c - 1 \in a .. n /\ c \in a .. n
  OBVIOUS
<1>2. /\ s \in Seq(Entry) /\ Len(s) = r
      /\ \A j \in 1 .. r : s[j] = IF j <= a THEN es[j] ELSE es[j + ((c - 1) - a)]
  BY <1>1, CutOutIs
<1>3. r \in Nat /\ a + 1 \in 1 .. r /\ (a + 1) + ((c - 1) - a) = c
  BY <1>1
<1>. HIDE DEF s
<1>4. s[a + 1] = es[c]
  BY <1>1, <1>2, <1>3
<1>5. ASSUME NEW j \in 1 .. r, s[j].page_pointer = p PROVE j = a + 1
  <2>1. CASE j <= a
    <3>1. j \in 1 .. n /\ s[j] = es[j]
      BY <1>1, <1>2, <2>1
    <3>2. j = c
      BY <1>1, <1>5, <3>1 DEF DistinctPointers
    <3>. QED BY <1>1, <2>1, <3>2
  <2>2. CASE ~(j <= a)
    <3>. DEFINE x == j + ((c - 1) - a)
    <3>1. x \in 1 .. n /\ s[j] = es[x]
      BY <1>1, <1>2, <2>2
    <3>2. x = c
      BY <1>1, <1>5, <3>1 DEF DistinctPointers
    <3>. QED BY <1>1, <3>2
  <2>. QED BY <2>1, <2>2
<1>6. I = {a + 1}
  BY <1>2, <1>3, <1>4, <1>5
<1>7. Without(s, p) = SubSeq(s, 1, Min(I) - 1) \o SubSeq(s, Min(I) + 1, Len(s))
  <2>1. I # {}
    BY <1>6
  <2>. QED BY <2>1 DEF Without, RemoveFirstMatch, RemoveAt, SelectInSeq
<1>8. Min(I) = a + 1
  <2>. HIDE DEF I
  <2>. QED BY <1>1, <1>6 DEF Min
<1>9. Without(s, p) = CutOut(s, a, a + 1)
  <2>1. (a + 1) - 1 = a
    BY <1>1
  <2>. QED BY <1>7, <1>8, <2>1 DEF CutOut
<1>10. /\ CutOut(s, a, a + 1) \in Seq(Entry) /\ Len(CutOut(s, a, a + 1)) = r - 1
       /\ \A j \in 1 .. r - 1 : CutOut(s, a, a + 1)[j] = IF j <= a THEN s[j] ELSE s[j + 1]
  <2>. DEFINE b == a + 1
              l == Len(s)
  <2>1. a \in 0 .. Len(s) /\ b \in a .. Len(s) /\ b - a = 1 /\ l = r
    BY <1>1, <1>2, <1>3
  <2>. HIDE DEF b
  <2>2. /\ CutOut(s, a, b) \in Seq(Entry) /\ Len(CutOut(s, a, b)) = l - (b - a)
        /\ \A j \in 1 .. l - (b - a) : CutOut(s, a, b)[j] = IF j <= a THEN s[j] ELSE s[j + (b - a)]
    BY <1>2, <2>1, CutOutIs
  <2>. HIDE DEF l, r
  <2>. QED BY <2>1, <2>2 DEF b
<1>11. /\ CutOut(es, a, c) \in Seq(Entry) /\ Len(CutOut(es, a, c)) = n - (c - a)
       /\ \A j \in 1 .. n - (c - a) : CutOut(es, a, c)[j] = IF j <= a THEN es[j] ELSE es[j + (c - a)]
  BY <1>1, CutOutIs
<1>12. r - 1 = n - (c - a)
  BY <1>1
<1>13. ASSUME NEW j \in 1 .. r - 1
       PROVE  CutOut(s, a, a + 1)[j] = CutOut(es, a, c)[j]
  <2>1. CASE j <= a
    <3>1. j \in 1 .. r /\ j \in 1 .. n - (c - a)
      BY <1>3, <1>12
    <3>2. s[j] = es[j]
      BY <1>2, <2>1, <3>1
    <3>. QED BY <1>10, <1>11, <2>1, <3>1, <3>2
  <2>2. CASE ~(j <= a)
    <3>1. j + 1 \in 1 .. r /\ ~(j + 1 <= a) /\ (j + 1) + ((c - 1) - a) = j + (c - a)
      BY <1>1, <1>3, <2>2
    <3>2. s[j + 1] = es[j + (c - a)]
      BY <1>2, <3>1
    <3>. QED BY <1>10, <1>11, <1>12, <2>2, <3>2
  <2>. QED BY <2>1, <2>2
<1>. HIDE DEF r, n
<1>14. CutOut(s, a, a + 1) = CutOut(es, a, c)
  BY <1>10, <1>11, <1>12, <1>13, SameSeq
<1>. QED BY <1>9, <1>14 DEF s

LEMMA PointersRemoved ==
  ASSUME NEW es \in Seq(Entry), DistinctPointers(es), NEW a \in 0 .. Len(es), NEW b \in a .. Len(es)
  PROVE  RemoveByPointer(es, Pointers(es, a, b - a)) = CutOut(es, a, b)
<1>. DEFINE n == Len(es)
            ps == Pointers(es, a, b - a)
            t == RemoveByPointer(es, ps)
<1>1. n \in Nat /\ a \in Nat /\ b \in Nat /\ a <= b /\ b <= n /\ b - a \in Nat
  OBVIOUS
<1>2. ps \in Seq(Int) /\ Len(ps) = b - a /\ \A k \in 1 .. b - a : ps[k] = es[a + k].page_pointer
  <2>1. \A k \in 1 .. b - a : a + k \in 1 .. n
    BY <1>1
  <2>2. \A k \in 1 .. b - a : es[a + k].page_pointer \in Int
    BY <2>1, EntryFields
  <2>. QED BY <1>1, <2>2 DEF Pointers
<1>. HIDE DEF ps
<1>3. PICK f : RemoveSteps(f, es, ps, t)
  BY <1>2, RemoveByPointerIs
<1>. HIDE DEF t
<1>. DEFINE G == {k \in 0 .. b - a : f[k] = CutOut(es, a, a + k)}
<1>4. 0 \in G
  <2>1. f[0] = es
    BY <1>3 DEF RemoveSteps
  <2>2. a \in a .. n /\ a - a = 0 /\ n - 0 = n
    BY <1>1
  <2>3. /\ CutOut(es, a, a) \in Seq(Entry) /\ Len(CutOut(es, a, a)) = n
        /\ \A j \in 1 .. n : CutOut(es, a, a)[j] = IF j <= a THEN es[j] ELSE es[j + 0]
    <3>1. /\ CutOut(es, a, a) \in Seq(Entry) /\ Len(CutOut(es, a, a)) = n - (a - a)
          /\ \A j \in 1 .. n - (a - a) :
               CutOut(es, a, a)[j] = IF j <= a THEN es[j] ELSE es[j + (a - a)]
      BY <2>2, CutOutIs
    <3>. QED BY <2>2, <3>1
  <2>4. CutOut(es, a, a) = es
    BY <2>3, SameSeq
  <2>5. a + 0 = a /\ 0 \in 0 .. b - a
    BY <1>1
  <2>. QED BY <2>1, <2>4, <2>5
<1>5. ASSUME NEW k \in 1 .. b - a, k - 1 \in G PROVE k \in G
  <2>. DEFINE c == a + k
  <2>1. c \in a + 1 .. n /\ c - 1 = a + (k - 1)
    BY <1>1
  <2>2. f[k] = Without(f[k - 1], ps[k])
    BY <1>2, <1>3 DEF RemoveSteps
  <2>3. f[k - 1] = CutOut(es, a, c - 1) /\ ps[k] = es[c].page_pointer
    BY <1>2, <1>5, <2>1
  <2>4. f[k] = CutOut(es, a, c)
    <3>. HIDE DEF c
    <3>. QED BY <2>1, <2>2, <2>3, WithoutNext
  <2>. QED BY <1>1, <2>4
<1>6. \A k \in 0 .. b - a : k \in G
  <2>. DEFINE l == b - a
  <2>1. l \in Nat
    BY <1>1
  <2>2. \A k \in 1 .. l : k - 1 \in G => k \in G
    BY <1>5
  <2>3. \A k \in 0 .. l : k \in G
    <3>. HIDE DEF G, l
    <3>. QED BY <1>4, <2>1, <2>2, UpTo
  <2>. QED BY <2>3
<1>7. b - a \in 0 .. b - a /\ a + (b - a) = b
  BY <1>1
<1>8. f[b - a] = t
  BY <1>2, <1>3 DEF RemoveSteps
<1>9. b - a \in G
  BY <1>6, <1>7
<1>. QED BY <1>7, <1>8, <1>9 DEF t, ps

(* Entries with pages of their own have pointers of their own.               *)
LEMMA OwnPointers ==
  ASSUME NEW es, Tiled(es, 0), NEW m, NEW i, NEW S, Own(m, i, S), Members(es) \subseteq S
  PROVE  DistinctPointers(es)
<1>. SUFFICES ASSUME NEW j \in 1 .. Len(es), NEW k \in 1 .. Len(es),
                     es[j].page_pointer = es[k].page_pointer
              PROVE  j = k
  BY DEF DistinctPointers
<1>1. es[j] \in S /\ es[k] \in S
  BY DEF Members
<1>2. \A e \in S : e.page_pointer \in PagesOf(e)
  <2>. SUFFICES ASSUME NEW e \in S PROVE e.page_pointer \in PagesOf(e)
    OBVIOUS
  <2>1. e \in Entry /\ e.archived_len > 0 /\ e.archived_len \in Nat /\ e.page_pointer \in Int
    BY EntryFields DEF Own
  <2>2. PagesFor(e.archived_len) \in Nat /\ PagesFor(e.archived_len) > 0
    BY <2>1, PagesForIs
  <2>3. e.page_pointer + 0 = e.page_pointer /\ 0 \in 0 .. PagesFor(e.archived_len) - 1
    BY <2>1, <2>2
  <2>. QED BY <2>3 DEF PagesOf
<1>3. es[j] = es[k]
  BY <1>1, <1>2 DEF Own
<1>. QED BY <1>3, TiledDistinct

-----------------------------------------------------------------------------
(* The object after a write.                                                 *)

LEMMA ConcatIs ==
  ASSUME NEW s \in Seq(Entry), NEW t \in Seq(Entry)
  PROVE  /\ s \o t \in Seq(Entry) /\ Len(s \o t) = Len(s) + Len(t)
         /\ Members(s \o t) = Members(s) \cup Members(t)
<1>1. s \o t \in Seq(Entry) /\ Len(s \o t) = Len(s) + Len(t) /\ Len(s) \in Nat /\ Len(t) \in Nat
  OBVIOUS
<1>2. \A j \in 1 .. Len(s) : j \in 1 .. Len(s \o t) /\ (s \o t)[j] = s[j]
  BY <1>1
<1>3. \A j \in 1 .. Len(t) : j + Len(s) \in 1 .. Len(s \o t) /\ (s \o t)[j + Len(s)] = t[j]
  BY <1>1
<1>4. \A j \in 1 .. Len(s \o t) : j \in 1 .. Len(s) \/ (j - Len(s) \in 1 .. Len(t) /\ (j - Len(s)) + Len(s) = j)
  BY <1>1
<1>5. Members(s) \cup Members(t) \subseteq Members(s \o t)
  BY <1>2, <1>3 DEF Members
<1>6. Members(s \o t) \subseteq Members(s) \cup Members(t)
  <2>. SUFFICES ASSUME NEW j \in 1 .. Len(s \o t) PROVE (s \o t)[j] \in Members(s) \cup Members(t)
    BY DEF Members
  <2>1. CASE j \in 1 .. Len(s)
    BY <1>2, <2>1 DEF Members
  <2>2. CASE j - Len(s) \in 1 .. Len(t) /\ (j - Len(s)) + Len(s) = j
    <3>. DEFINE x == j - Len(s)
    <3>1. x \in 1 .. Len(t) /\ (s \o t)[j] = t[x]
      BY <1>3, <2>2
    <3>. HIDE DEF x
    <3>. QED BY <3>1 DEF Members
  <2>. QED BY <1>4, <2>1, <2>2
<1>. QED BY <1>1, <1>5, <1>6

LEMMA PieceTiled ==
  ASSUME NEW m, NEW s, NEW n \in Nat, NEW x \in Nat, NEW data, Piece(m, s, n, x, data)
  PROVE  s \in Seq(Entry) /\ Tiled(s, x) /\ EndAt(s, x, Len(s)) = x + n
<1>1. CASE n = 0
  BY <1>1, TiledNone DEF Piece, Tiled
<1>2. CASE n # 0
  <2>1. PICK e \in Entry : s = <<e>> /\ e.offset = x /\ e.len = n /\ e.archived_len = n
    BY <1>2 DEF Piece
  <2>2. e.len > 0 /\ e.archived_len = e.len
    BY <1>2, <2>1
  <2>3. Tiled(<<e>>, x) /\ EndAt(<<e>>, x, Len(<<e>>)) = x + e.len
    BY <2>1, <2>2, TiledOne
  <2>. QED BY <2>1, <2>3 DEF Tiled
<1>. QED BY <1>1, <1>2

(* What a write makes of the entries.                                        *)
Spliced(es, a, b, head, new, tail) ==
  SubSeq(es, 1, a) \o (head \o <<new>> \o tail) \o SubSeq(es, b + 1, Len(es))

LEMMA SplicedIs ==
  ASSUME NEW es, Tiled(es, 0), NEW off \in Nat, NEW fin \in Nat, off < fin, off <= EndAt(es, 0, Len(es)),
         NEW a, NEW b, Spans(es, off, fin, a, b),
         NEW m, NEW head, NEW tail, NEW x, NEW y,
         Piece(m, head, HeadLen(es, off, a), EndAt(es, 0, a), x),
         Piece(m, tail, TailLen(es, fin, b), fin, y),
         NEW new \in Entry, new.offset = off, new.len = fin - off, new.archived_len = new.len,
         NEW s, s = Spliced(es, a, b, head, new, tail)
  PROVE  /\ Tiled(s, 0) /\ EndAt(s, 0, Len(s)) = Larger(fin, EndAt(es, 0, Len(es)))
         /\ Members(s) = {es[j] : j \in {k \in 1 .. Len(es) : ~(a < k /\ k <= b)}}
                           \cup {new} \cup Members(head) \cup Members(tail)
<1>. DEFINE n == Len(es)
            E(k) == EndAt(es, 0, k)
            H == HeadLen(es, off, a)
            T == TailLen(es, fin, b)
            P == SubSeq(es, 1, a)
            Q == SubSeq(es, b + 1, n)
            N == head \o <<new>>
<1>1. /\ n \in Nat /\ a \in Nat /\ b \in Nat /\ a <= b /\ b <= n
      /\ a \in 0 .. n /\ b \in 0 .. n /\ n \in 0 .. n /\ b \in a .. n /\ n \in b .. n /\ a \in 0 .. a /\ 0 \in 0 .. n
  <2>1. n \in Nat
    BY TiledIs
  <2>. QED BY <2>1 DEF Spans
<1>2. /\ E(a) \in Nat /\ E(b) \in Nat /\ E(n) \in Nat /\ E(a) <= off /\ E(b) <= E(n) /\ E(0) = 0
      /\ b < n => fin <= E(b)
      /\ a = b => a = n
  BY <1>1, TiledOrder, TiledIs DEF Spans
<1>3. H \in Nat /\ T \in Nat /\ E(a) + H = off /\ T = Larger(0, E(b) - fin)
  BY <1>2 DEF HeadLen, TailLen, Larger
<1>4. P \in Seq(Entry) /\ Tiled(P, 0) /\ EndAt(P, 0, Len(P)) = E(a) /\ Len(P) = a /\ \A k \in 1 .. a : P[k] = es[k]
  <2>. DEFINE z == 0
  <2>1. IsPart(P, es, z, a) /\ z \in 0 .. Len(es) /\ a \in z .. Len(es)
    BY <1>1 DEF IsPart
  <2>. HIDE DEF P, z
  <2>2. P \in Seq(Entry) /\ Len(P) = a - z /\ \A k \in 1 .. a - z : P[k] = es[z + k]
    BY <2>1, TiledPart
  <2>3. Tiled(P, EndAt(es, 0, z)) /\ EndAt(P, EndAt(es, 0, z), Len(P)) = EndAt(es, 0, a)
    BY <2>1, TiledPart
  <2>. QED BY <1>1, <1>2, <2>2, <2>3 DEF z
<1>5. Q \in Seq(Entry) /\ Tiled(Q, E(b)) /\ EndAt(Q, E(b), Len(Q)) = E(n) /\ Len(Q) = n - b
      /\ \A k \in 1 .. n - b : Q[k] = es[b + k]
  <2>. DEFINE c == n
  <2>1. IsPart(Q, es, b, c) /\ b \in 0 .. Len(es) /\ c \in b .. Len(es)
    BY <1>1 DEF IsPart
  <2>. HIDE DEF Q, c
  <2>2. Q \in Seq(Entry) /\ Len(Q) = c - b /\ \A k \in 1 .. c - b : Q[k] = es[b + k]
    BY <2>1, TiledPart
  <2>3. Tiled(Q, EndAt(es, 0, b)) /\ EndAt(Q, EndAt(es, 0, b), Len(Q)) = EndAt(es, 0, c)
    BY <2>1, TiledPart
  <2>. QED BY <2>2, <2>3 DEF c
<1>6. head \in Seq(Entry) /\ Tiled(head, E(a)) /\ EndAt(head, E(a), Len(head)) = off
  <2>1. EndAt(head, E(a), Len(head)) = E(a) + H /\ head \in Seq(Entry) /\ Tiled(head, E(a))
    BY <1>2, <1>3, PieceTiled
  <2>. QED BY <1>3, <2>1
<1>7. tail \in Seq(Entry) /\ Tiled(tail, fin) /\ EndAt(tail, fin, Len(tail)) = fin + T
  BY <1>3, PieceTiled
<1>8. <<new>> \in Seq(Entry) /\ Tiled(<<new>>, off) /\ EndAt(<<new>>, off, Len(<<new>>)) = fin
  <2>1. new.len > 0 /\ off + new.len = fin
    OBVIOUS
  <2>2. Tiled(<<new>>, off) /\ EndAt(<<new>>, off, Len(<<new>>)) = off + new.len
    BY <2>1, TiledOne
  <2>. QED BY <2>1, <2>2 DEF Tiled
<1>. HIDE DEF E, P, Q, H, T
<1>9. N \in Seq(Entry) /\ Tiled(N, E(a)) /\ EndAt(N, E(a), Len(N)) = fin
      /\ Members(N) = Members(head) \cup {new}
  <2>1. /\ Tiled(head \o <<new>>, E(a))
        /\ EndAt(head \o <<new>>, E(a), Len(head \o <<new>>)) = EndAt(<<new>>, off, Len(<<new>>))
    <3>. DEFINE u == <<new>>
                e == E(a)
    <3>1. Tiled(u, off) /\ e \in Nat /\ Tiled(head, e)
      BY <1>2, <1>6, <1>8
    <3>2. off = EndAt(head, e, Len(head))
      BY <1>6
    <3>. HIDE DEF u, e
    <3>3. Tiled(head \o u, e) /\ EndAt(head \o u, e, Len(head \o u)) = EndAt(u, off, Len(u))
      BY <3>1, <3>2, TiledConcat
    <3>. QED BY <3>3 DEF u, e
  <2>2. head \o <<new>> \in Seq(Entry) /\ Members(head \o <<new>>) = Members(head) \cup Members(<<new>>)
    BY <1>6, <1>8, ConcatIs
  <2>. QED BY <1>8, <2>1, <2>2, OneMember
<1>. HIDE DEF N
<1>10. N \o tail \in Seq(Entry) /\ Tiled(N \o tail, E(a)) /\ EndAt(N \o tail, E(a), Len(N \o tail)) = fin + T
       /\ Members(N \o tail) = Members(head) \cup {new} \cup Members(tail)
  <2>1. Tiled(N \o tail, E(a)) /\ EndAt(N \o tail, E(a), Len(N \o tail)) = EndAt(tail, fin, Len(tail))
    BY <1>2, <1>7, <1>9, TiledConcat
  <2>2. N \o tail \in Seq(Entry) /\ Members(N \o tail) = Members(N) \cup Members(tail)
    BY <1>7, <1>9, ConcatIs
  <2>. QED BY <1>7, <1>9, <2>1, <2>2
<1>. DEFINE M == N \o tail
            R == P \o M
<1>. HIDE DEF M
<1>11. R \in Seq(Entry) /\ Tiled(R, 0) /\ EndAt(R, 0, Len(R)) = fin + T
       /\ Members(R) = Members(P) \cup Members(head) \cup {new} \cup Members(tail)
  <2>1. M \in Seq(Entry) /\ Tiled(M, E(a)) /\ EndAt(M, E(a), Len(M)) = fin + T
        /\ Members(M) = Members(head) \cup {new} \cup Members(tail)
    BY <1>10 DEF M
  <2>2. Tiled(P \o M, 0) /\ EndAt(P \o M, 0, Len(P \o M)) = EndAt(M, E(a), Len(M))
    BY <1>2, <1>4, <2>1, TiledConcat
  <2>3. P \o M \in Seq(Entry) /\ Members(P \o M) = Members(P) \cup Members(M)
    BY <1>4, <2>1, ConcatIs
  <2>. QED BY <2>1, <2>2, <2>3
<1>. HIDE DEF R
<1>12. s = R \o Q
  BY DEF Spliced, R, M, N, P, Q
<1>13. Members(s) = Members(P) \cup Members(Q) \cup {new} \cup Members(head) \cup Members(tail)
  BY <1>5, <1>11, <1>12, ConcatIs
<1>14. Members(P) \cup Members(Q) = {es[j] : j \in {k \in 1 .. n : ~(a < k /\ k <= b)}}
  <2>1. \A k \in 1 .. a : k \in 1 .. n /\ ~(a < k /\ k <= b)
    BY <1>1
  <2>2. \A k \in 1 .. n - b : b + k \in 1 .. n /\ ~(a < b + k /\ b + k <= b)
    BY <1>1
  <2>3. \A k \in 1 .. n : ~(a < k /\ k <= b) => k \in 1 .. a \/ (k - b \in 1 .. n - b /\ b + (k - b) = k)
    BY <1>1
  <2>4. Members(P) = {es[k] : k \in 1 .. a}
    BY <1>4 DEF Members
  <2>5. Members(Q) = {es[b + k] : k \in 1 .. n - b}
    BY <1>5 DEF Members
  <2>6. Members(P) \cup Members(Q) \subseteq {es[j] : j \in {k \in 1 .. n : ~(a < k /\ k <= b)}}
    BY <2>1, <2>2, <2>4, <2>5
  <2>7. ASSUME NEW k \in 1 .. n, ~(a < k /\ k <= b) PROVE es[k] \in Members(P) \cup Members(Q)
    BY <2>3, <2>4, <2>5, <2>7
  <2>. QED BY <2>6, <2>7
<1>15. Tiled(s, 0) /\ EndAt(s, 0, Len(s)) = Larger(fin, E(n))
  <2>1. CASE b < n
    <3>1. fin + T = E(b) /\ Larger(fin, E(n)) = E(n)
      BY <1>2, <1>3, <2>1 DEF Larger
    <3>2. Tiled(R \o Q, 0) /\ EndAt(R \o Q, 0, Len(R \o Q)) = EndAt(Q, E(b), Len(Q))
      BY <1>2, <1>5, <1>11, <3>1, TiledConcat
    <3>. QED BY <1>5, <1>12, <3>1, <3>2
  <2>2. CASE ~(b < n)
    <3>1. b = n /\ fin + T = Larger(fin, E(n)) /\ fin + T \in Nat
      BY <1>1, <1>2, <1>3, <2>2 DEF Larger
    <3>2. Q = <<>>
      BY <1>5, <3>1
    <3>3. Tiled(Q, fin + T) /\ EndAt(Q, fin + T, Len(Q)) = fin + T
      BY <3>2, TiledNone
    <3>4. Tiled(R \o Q, 0) /\ EndAt(R \o Q, 0, Len(R \o Q)) = EndAt(Q, fin + T, Len(Q))
      BY <1>11, <3>1, <3>3, TiledConcat
    <3>. QED BY <1>12, <3>1, <3>3, <3>4
  <2>. QED BY <2>1, <2>2
<1>. QED BY <1>13, <1>14, <1>15 DEF E

(* The new entry covers what is written.                                     *)
NewIs(d) ==
  /\ d.off < d.fin /\ d.off <= EndAt(d.es, 0, Len(d.es))
  /\ d.new \in Entry /\ d.new.offset = d.off /\ d.new.len = d.fin - d.off /\ d.new.archived_len = d.new.len

(* What the call leaves: the entries es in the state m.                      *)
Written(d, acc, m, es) ==
  /\ Keeps(d.m, m, d.i) /\ Own(m, d.i, Members(es))
  /\ Tiled(es, 0) /\ EndAt(es, 0, Len(es)) = Larger(d.fin, EndAt(d.es, 0, Len(d.es)))
  /\ es = Spliced(d.es, d.a, d.b, acc.head, d.new, acc.tail)
  /\ HeadKept(d, acc) /\ TailKept(d, acc) /\ m = acc.m

LEMMA ReplacedDone ==
  ASSUME NEW d, Edit(d), NewIs(d), NEW obj \in Objects, obj.entries = d.es,
         NEW alive, NEW acc \in Loops(alive), Replacing(d, acc, Len(d.es)),
         NEW r, r = Replaced(acc, obj, d.new)
  PROVE  Written(d, acc, r.m, r.obj.entries) /\ r.obj.size = EndAt(r.obj.entries, 0, Len(r.obj.entries))
<1>. DEFINE es == d.es
            a == d.a
            b == d.b
            off == d.off
            fin == d.fin
            n == Len(d.es)
            new == d.new
            H == HeadLen(d.es, d.off, d.a)
            T == TailLen(d.es, d.fin, d.b)
            x == HeadPart(d)
            y == TailPart(d)
<1>1. /\ Tiled(es, 0) /\ Spans(es, off, fin, a, b) /\ off \in Nat /\ fin \in Nat
      /\ off < fin /\ off <= EndAt(es, 0, Len(es)) /\ new \in Entry /\ new.offset = off
      /\ new.len = fin - off /\ new.archived_len = new.len
  BY DEF Edit, NewIs
<1>2. es \in Seq(Entry) /\ n \in Nat /\ a \in Nat /\ b \in Nat /\ a <= b /\ b <= n
  BY EditIs
<1>3. a \in 0 .. n /\ b \in a .. n /\ n \in 0 .. n
  BY <1>2
<1>4. a = b => a = n
  BY <1>1 DEF Spans
<1>5. /\ Keeps(d.m, acc.m, d.i)
      /\ Own(acc.m, d.i, Left(d, n) \cup {new} \cup Members(acc.head) \cup Members(acc.tail))
      /\ acc.head \in Seq(Entry) /\ acc.tail \in Seq(Entry)
  BY DEF Replacing, Loops
<1>6. /\ acc.removed = Pointers(es, a, b - a)
      /\ acc.at = IF a = b THEN 0 ELSE a + 1
      /\ Piece(acc.m, acc.head, H, EndAt(es, 0, a), x) /\ Piece(acc.m, acc.tail, T, fin, y)
  <2>1. CASE a = b
    <3>1. n <= a /\ b - a = 0
      BY <1>2, <1>4, <2>1
    <3>2. acc.removed = <<>> /\ acc.at = 0 /\ acc.head = <<>> /\ acc.tail = <<>>
      BY <3>1 DEF Replacing
    <3>3. Pointers(es, a, 0) = <<>>
      BY <1>2, PointersNext
    <3>4. EndAt(es, 0, n) \in Nat /\ EndAt(es, 0, a) <= off
      BY <1>1, <1>3, TiledOrder DEF Spans
    <3>5. H = 0 /\ T = 0
      <4>1. EndAt(es, 0, a) = EndAt(es, 0, n) /\ EndAt(es, 0, b) = EndAt(es, 0, n)
        BY <1>4, <2>1
      <4>. QED BY <1>1, <3>4, <4>1 DEF HeadLen, TailLen, Larger
    <3>. HIDE DEF H, T
    <3>. QED BY <2>1, <3>1, <3>2, <3>3, <3>5 DEF Piece
  <2>2. CASE a # b
    <3>1. ~(n <= a) /\ ~(n < b) /\ Smaller(n, b) = b
      BY <1>2, <2>2 DEF Smaller
    <3>2. acc.removed = Pointers(es, a, b - a) /\ acc.at = a + 1 /\ HeadKept(d, acc) /\ TailKept(d, acc)
      BY <3>1 DEF Replacing
    <3>. QED BY <2>2, <3>2 DEF HeadKept, TailKept
  <2>. QED BY <2>1, <2>2
<1>7. RemoveByPointer(es, acc.removed) = CutOut(es, a, b)
  <2>1. DistinctPointers(es)
    <3>1. Own(d.m, d.i, Members(es) \cup {new})
      BY DEF Edit
    <3>2. Members(es) \subseteq Members(es) \cup {new}
      OBVIOUS
    <3>. HIDE DEF es, new
    <3>. QED BY <1>1, <3>1, <3>2, OwnPointers
  <2>. HIDE DEF es, a, b
  <2>. QED BY <1>2, <1>3, <1>6, <2>1, PointersRemoved DEF n, es
<1>. DEFINE rest == CutOut(es, a, b)
            news == acc.head \o <<new>> \o acc.tail
<1>8. rest \in Seq(Entry) /\ Len(rest) = n - (b - a)
      /\ \A j \in 1 .. n - (b - a) : rest[j] = IF j <= a THEN es[j] ELSE es[j + (b - a)]
  <2>. HIDE DEF a, b
  <2>. QED BY <1>2, <1>3, CutOutIs
<1>. HIDE DEF rest
<1>9. /\ r.m = acc.m
      /\ r.obj = Object(InsertAll(rest, a + 1, news))
  <2>1. (IF acc.at = 0 THEN Len(rest) + 1 ELSE acc.at) = a + 1
    <3>1. a + 1 # 0
      BY <1>2
    <3>2. a = b => Len(rest) = a
      BY <1>2, <1>4, <1>8
    <3>. QED BY <1>6, <3>1, <3>2
  <2>. QED BY <1>7, <2>1 DEF Replaced, rest
<1>10. SubSeq(rest, 1, a) = SubSeq(es, 1, a)
  <2>1. a \in 0 .. Len(rest)
    BY <1>2, <1>8
  <2>2. SubSeq(rest, 1, a) \in Seq(Entry) /\ Len(SubSeq(rest, 1, a)) = a
        /\ \A j \in 1 .. a : SubSeq(rest, 1, a)[j] = rest[j]
    BY <1>2, <1>8, <2>1
  <2>3. SubSeq(es, 1, a) \in Seq(Entry) /\ Len(SubSeq(es, 1, a)) = a
        /\ \A j \in 1 .. a : SubSeq(es, 1, a)[j] = es[j]
    BY <1>2
  <2>4. \A j \in 1 .. a : rest[j] = es[j]
    BY <1>2, <1>8
  <2>. DEFINE u == SubSeq(rest, 1, a)
              v == SubSeq(es, 1, a)
  <2>5. u \in Seq(Entry) /\ v \in Seq(Entry) /\ Len(u) = Len(v) /\ \A j \in 1 .. Len(u) : u[j] = v[j]
    BY <2>2, <2>3, <2>4
  <2>. HIDE DEF u, v
  <2>6. u = v
    BY <2>5, SameSeq
  <2>. QED BY <2>6 DEF u, v
<1>11. SubSeq(rest, a + 1, Len(rest)) = SubSeq(es, b + 1, n)
  <2>. DEFINE u == SubSeq(rest, a + 1, Len(rest))
              v == SubSeq(es, b + 1, n)
              l == n - b
  <2>1. l \in Nat /\ Len(rest) - a = l /\ a <= Len(rest)
    BY <1>2, <1>8
  <2>2. u \in Seq(Entry) /\ Len(u) = l /\ \A j \in 1 .. l : u[j] = rest[j + a]
    <3>1. a \in 0 .. Len(rest) /\ rest \in Seq(Entry)
      BY <1>2, <1>8, <2>1
    <3>. HIDE DEF a
    <3>2. /\ u \in Seq(Entry) /\ Len(u) = Len(rest) - a
          /\ \A j \in 1 .. Len(rest) - a : u[j] = rest[j + a]
      BY <3>1, RestIs
    <3>. QED BY <2>1, <3>2
  <2>3. v \in Seq(Entry) /\ Len(v) = l /\ \A j \in 1 .. l : v[j] = es[j + b]
    <3>1. b \in 0 .. Len(es) /\ es \in Seq(Entry)
      BY <1>2
    <3>. HIDE DEF b, es
    <3>2. /\ SubSeq(es, b + 1, Len(es)) \in Seq(Entry) /\ Len(SubSeq(es, b + 1, Len(es))) = Len(es) - b
          /\ \A j \in 1 .. Len(es) - b : SubSeq(es, b + 1, Len(es))[j] = es[j + b]
      BY <3>1, RestIs
    <3>. QED BY <3>2 DEF es
  <2>4. \A j \in 1 .. l : rest[j + a] = es[j + b]
    <3>1. TAKE j \in 1 .. l
    <3>2. j + a \in 1 .. n - (b - a) /\ ~(j + a <= a) /\ (j + a) + (b - a) = j + b
      BY <1>2, <2>1
    <3>. QED BY <1>8, <3>2
  <2>. HIDE DEF u, v, l
  <2>5. u \in Seq(Entry) /\ v \in Seq(Entry) /\ Len(u) = Len(v) /\ \A j \in 1 .. Len(u) : u[j] = v[j]
    BY <2>2, <2>3, <2>4
  <2>6. u = v
    BY <2>5, SameSeq
  <2>. QED BY <2>6 DEF u, v
<1>12. InsertAll(rest, a + 1, news) = Spliced(es, a, b, acc.head, new, acc.tail)
  <2>1. (a + 1) - 1 = a
    BY <1>2
  <2>2. InsertAll(rest, a + 1, news) = SubSeq(rest, 1, (a + 1) - 1) \o news \o SubSeq(rest, a + 1, Len(rest))
    BY DEF InsertAll
  <2>. QED BY <1>10, <1>11, <2>1, <2>2 DEF Spliced
<1>. DEFINE s == Spliced(es, a, b, acc.head, new, acc.tail)
<1>13. r.obj.entries = s /\ r.obj.size = TotalLen(s)
  BY <1>9, <1>12 DEF Object
<1>14. /\ Tiled(s, 0) /\ EndAt(s, 0, Len(s)) = Larger(fin, EndAt(es, 0, n))
       /\ Members(s) = {es[j] : j \in {k \in 1 .. n : ~(a < k /\ k <= b)}}
                         \cup {new} \cup Members(acc.head) \cup Members(acc.tail)
  <2>. DEFINE m == acc.m
              hd == acc.head
              tl == acc.tail
  <2>1. Piece(m, hd, HeadLen(es, off, a), EndAt(es, 0, a), x) /\ Piece(m, tl, TailLen(es, fin, b), fin, y)
    BY <1>6
  <2>2. s = Spliced(es, a, b, hd, new, tl)
    OBVIOUS
  <2>. HIDE DEF es, a, b, off, fin, new, x, y, s, m, hd, tl
  <2>3. /\ Tiled(s, 0) /\ EndAt(s, 0, Len(s)) = Larger(fin, EndAt(es, 0, Len(es)))
        /\ Members(s) = {es[j] : j \in {k \in 1 .. Len(es) : ~(a < k /\ k <= b)}}
                          \cup {new} \cup Members(hd) \cup Members(tl)
    BY <1>1, <2>1, <2>2, SplicedIs
  <2>. QED BY <2>3 DEF hd, tl, es
<1>15. Left(d, n) = {es[j] : j \in {k \in 1 .. n : ~(a < k /\ k <= b)}}
  <2>1. \A k \in 1 .. n : k <= n
    BY <1>2
  <2>. QED BY <2>1 DEF Left
<1>16. Own(acc.m, d.i, Members(s))
  BY <1>5, <1>14, <1>15
<1>17. TotalLen(s) = EndAt(s, 0, Len(s))
  <2>. HIDE DEF s
  <2>1. TotalLen(s) = EndAt(s, 0, Len(s)) - 0
    BY <1>14, TiledTotal
  <2>2. EndAt(s, 0, Len(s)) \in Nat
    <3>1. Len(s) \in 0 .. Len(s)
      BY <1>14, TiledIs
    <3>. QED BY <1>14, <3>1, TiledOrder
  <2>. QED BY <2>1, <2>2
<1>18. HeadKept(d, acc) /\ TailKept(d, acc)
  BY <1>6 DEF HeadKept, TailKept
<1>. HIDE DEF s
<1>. QED BY <1>5, <1>9, <1>13, <1>14, <1>16, <1>17, <1>18 DEF Written, s

-----------------------------------------------------------------------------
(* Room for the value and for the parts that are kept.                       *)

LEMMA PagesTimes ==
  ASSUME NEW n \in Nat
  PROVE  PagesFor(n) \in Nat /\ PagesFor(n) * PageBytes < n + PageBytes /\ n <= PagesFor(n) * PageBytes
<1>. DEFINE q == PagesFor(n)
<1>1. PageBytes \in Nat /\ PageBytes > 0
  BY KVManagerAssumption
<1>2. q \in Nat
  BY PagesForIs
<1>3. CASE n = 0
  <2>1. q = 0
    BY <1>1, <1>3, (0 - 1) \div PageBytes = 0 - 1, SMTT(30) DEF PagesFor
  <2>. HIDE DEF q
  <2>. QED BY <1>1, <1>3, <2>1 DEF q
<1>4. CASE n > 0
  <2>1. (q - 1) * PageBytes < n /\ n <= q * PageBytes
    BY <1>4, PagesForIs
  <2>. HIDE DEF q
  <2>2. q * PageBytes = (q - 1) * PageBytes + PageBytes /\ (q - 1) * PageBytes \in Int
    BY <1>1, <1>2
  <2>3. q * PageBytes < n + PageBytes
    BY <1>1, <2>1, <2>2
  <2>. QED BY <1>2, <2>1, <2>3 DEF q
<1>. QED BY <1>3, <1>4

LEMMA TimesOrder ==
  ASSUME NEW s \in Nat, NEW q \in Nat, NEW p \in Nat \ {0}, s * p < q * p
  PROVE  s < q
<1>. SUFFICES ASSUME s >= q PROVE FALSE
  OBVIOUS
<1>1. s - q \in Nat /\ (s - q) * p \in Nat
  OBVIOUS
<1>2. s * p = q * p + (s - q) * p
  OBVIOUS
<1>. QED BY <1>1, <1>2

LEMMA RoomForParts ==
  ASSUME NEW x \in Nat, NEW y \in Nat, NEW z \in Nat, x + y + z <= MaxLen
  PROVE  PagesFor(x) + PagesFor(y) + PagesFor(z) <= PagesFor(MaxLen) + 2
<1>. DEFINE P == PageBytes
            u == PagesFor(x)
            v == PagesFor(y)
            w == PagesFor(z)
            q == PagesFor(MaxLen)
            s == u + v + w
<1>1. P \in Nat \ {0} /\ MaxLen \in Nat
  BY KVManagerAssumption
<1>2. u \in Nat /\ u * P < x + P /\ v \in Nat /\ v * P < y + P /\ w \in Nat /\ w * P < z + P
  BY PagesTimes
<1>3. q \in Nat /\ MaxLen <= q * P
  BY <1>1, PagesTimes
<1>. HIDE DEF P, u, v, w, q
<1>4. s * P = u * P + v * P + w * P /\ (q + 3) * P = q * P + P + P + P
  BY <1>1, <1>2, <1>3
<1>5. u * P \in Nat /\ v * P \in Nat /\ w * P \in Nat /\ q * P \in Nat /\ s \in Nat /\ q + 3 \in Nat
  BY <1>1, <1>2, <1>3
<1>6. s * P < (q + 3) * P
  BY <1>1, <1>2, <1>3, <1>4, <1>5
<1>. HIDE DEF s
<1>7. s < q + 3
  BY <1>1, <1>5, <1>6, TimesOrder
<1>8. s <= q + 2
  BY <1>3, <1>5, <1>7
<1>. QED BY <1>8 DEF s, u, v, w, q

-----------------------------------------------------------------------------
(* A write that fits.                                                        *)

(* Some block takes all an operation may write.                              *)
Fits(m) == \E b \in Blocks : m.table[b].reserved_size >= PagesFor(MaxLen) + 2

(* An object as the invariant has it.                                        *)
Whole(m, i, obj) ==
  /\ obj \in Objects /\ Tiled(obj.entries, 0) /\ obj.size = EndAt(obj.entries, 0, Len(obj.entries))
  /\ obj.size <= MaxLen /\ Own(m, i, Members(obj.entries))

(* How a write came about: d is what its loop worked on, acc what it left.   *)
ByWrite(d, acc, m, obj, off, val, i, r) ==
  /\ Edit(d) /\ NewIs(d) /\ Keeps(m, d.m, i) /\ ReadEntry(d.m, d.new) = val
  /\ d.i = i /\ d.es = obj.entries /\ d.off = off /\ d.fin = off + Len(val)
  /\ Written(d, acc, r.m, r.obj.entries)
  /\ r.obj.size = EndAt(r.obj.entries, 0, Len(r.obj.entries))

LEMMA EditStarts ==
  ASSUME NEW m, Sound(m), Running(m), Marked(m), Fits(m), NEW i \in Inos,
         NEW es, Tiled(es, 0), EndAt(es, 0, Len(es)) <= MaxLen, Own(m, i, Members(es)),
         NEW off \in Nat, off <= EndAt(es, 0, Len(es)),
         NEW val \in Seq(ByteSet), Len(val) > 0, off + Len(val) <= MaxLen,
         NEW w, w = WriteValue(m, val, off, i)
  PROVE  \E d : /\ Edit(d) /\ NewIs(d) /\ Keeps(m, d.m, i) /\ ReadEntry(d.m, d.new) = val
                /\ d.i = i /\ d.es = es /\ d.off = off /\ d.fin = off + Len(val)
                /\ d.m = w.m /\ d.new = w.entry
<1>. DEFINE fin == off + Len(val)
            n == Len(es)
            E(k) == EndAt(es, 0, k)
<1>1. n \in Nat /\ Len(val) \in Nat /\ fin \in Nat /\ off < fin /\ n \in 0 .. n /\ fin <= MaxLen /\ MaxLen \in Nat
  BY TiledIs, KVManagerAssumption
<1>2. PICK b0 \in Blocks : m.table[b0].reserved_size >= PagesFor(MaxLen) + 2
  BY DEF Fits
<1>3. PICK a, b : Spans(es, off, fin, a, b)
  <2>. HIDE DEF fin
  <2>. QED BY <1>1, SpanExists
<1>4. /\ a \in 0 .. n /\ b \in 0 .. n /\ E(a) \in Nat /\ E(b) \in Nat /\ E(a) <= off
      /\ E(b) <= E(n) /\ E(n) \in Nat /\ E(n) <= MaxLen
  <2>1. a \in 0 .. n /\ b \in 0 .. n /\ b <= n
    BY <1>1, <1>3 DEF Spans
  <2>. QED BY <1>1, <1>3, <2>1, TiledOrder DEF Spans
<1>. DEFINE H == HeadLen(es, off, a)
            T == TailLen(es, fin, b)
<1>5. H \in Nat /\ T \in Nat /\ H + Len(val) + T <= MaxLen
  <2>1. H = off - E(a) /\ T = Larger(0, E(b) - fin)
    BY DEF HeadLen, TailLen
  <2>. DEFINE x == E(a)
              y == E(b)
              z == E(n)
              l == Len(val)
  <2>2. /\ x \in Nat /\ y \in Nat /\ z \in Nat /\ l \in Nat /\ x <= off /\ y <= z /\ z <= MaxLen
        /\ off + l <= MaxLen /\ MaxLen \in Nat /\ H = off - x /\ T = Larger(0, y - (off + l))
    BY <1>1, <1>4, <2>1
  <2>. HIDE DEF E, H, T, x, y, z, l, fin
  <2>3. T = IF 0 >= y - (off + l) THEN 0 ELSE y - (off + l)
    BY <2>2 DEF Larger
  <2>4. H \in Nat /\ T \in Nat /\ H + l + T <= MaxLen
    BY <2>2, <2>3
  <2>. QED BY <2>4 DEF l
<1>. HIDE DEF H, T, fin
<1>6. PagesFor(H) \in Nat /\ PagesFor(Len(val)) \in Nat /\ PagesFor(T) \in Nat /\ PagesFor(MaxLen) \in Nat
  BY <1>1, <1>5, PagesForIs
<1>7. PagesFor(H) + PagesFor(Len(val)) + PagesFor(T) <= PagesFor(MaxLen) + 2
  <2>. DEFINE l == Len(val)
  <2>1. l \in Nat /\ H + l + T <= MaxLen
    BY <1>1, <1>5
  <2>. HIDE DEF l
  <2>2. PagesFor(H) + PagesFor(l) + PagesFor(T) <= PagesFor(MaxLen) + 2
    BY <1>5, <2>1, RoomForParts
  <2>. QED BY <2>2 DEF l
<1>8. m.table[b0].reserved_size \in Int
  BY <1>2 DEF Sound, States, Info, InfoRecord
<1>9. HasRoom(m, PagesFor(Len(val)))
  <2>1. m.table[b0].reserved_size >= PagesFor(Len(val))
    BY <1>2, <1>6, <1>7, <1>8
  <2>. QED BY <2>1 DEF HasRoom
<1>10. Wrote(m, w, val, off, i)
  <2>1. off \in Int
    OBVIOUS
  <2>. QED BY <1>9, <2>1, WriteValueDone
<1>11. /\ Own(w.m, i, Members(es) \cup {w.entry}) /\ Keeps(m, w.m, i) /\ w.entry \notin Members(es)
  BY <1>10, OwnWrote
<1>. DEFINE d == [m |-> w.m, i |-> i, es |-> es, off |-> off, fin |-> fin, a |-> a, b |-> b,
                  new |-> w.entry, room |-> b0]
<1>12. /\ d.m = w.m /\ d.i = i /\ d.es = es /\ d.off = off /\ d.fin = fin /\ d.a = a /\ d.b = b
       /\ d.new = w.entry /\ d.room = b0
  OBVIOUS
<1>. HIDE DEF d
<1>13. w.m.table[b0].reserved_size >= PagesFor(H) + PagesFor(T)
  <2>1. w.m.table[b0].reserved_size >= m.table[b0].reserved_size - PagesFor(Len(val))
    BY <1>2, <1>10 DEF Wrote
  <2>2. w.m.table[b0].reserved_size \in Int
    BY <1>2, <1>11 DEF Keeps, Sound, States, Info, InfoRecord
  <2>. DEFINE p == w.m.table[b0].reserved_size
              q == m.table[b0].reserved_size
              u == PagesFor(H)
              v == PagesFor(Len(val))
              x == PagesFor(T)
              y == PagesFor(MaxLen)
  <2>3. /\ p \in Int /\ q \in Int /\ u \in Nat /\ v \in Nat /\ x \in Nat /\ y \in Nat
        /\ p >= q - v /\ q >= y + 2 /\ u + v + x <= y + 2
    BY <1>2, <1>6, <1>7, <1>8, <2>1, <2>2
  <2>. HIDE DEF p, q, u, v, x, y
  <2>4. p >= u + x
    BY <2>3
  <2>. QED BY <2>4 DEF p, u, x
<1>14. Edit(d)
  <2>1. Sound(w.m) /\ Running(w.m) /\ Marked(w.m)
    BY <1>11 DEF Keeps
  <2>. QED BY <1>1, <1>2, <1>3, <1>11, <1>12, <1>13, <2>1 DEF Edit, H, T
<1>15. NewIs(d)
  <2>1. w.entry \in Entry /\ w.entry.offset = off /\ w.entry.len = Len(val) /\ w.entry.archived_len = w.entry.len
    BY <1>10 DEF Wrote
  <2>2. fin - off = Len(val)
    BY <1>1 DEF fin
  <2>. QED BY <1>1, <1>12, <2>1, <2>2 DEF NewIs
<1>16. ReadEntry(w.m, w.entry) = val
  BY <1>10 DEF Wrote
<1>. QED BY <1>11, <1>12, <1>14, <1>15, <1>16 DEF fin

LEMMA SetDone ==
  ASSUME NEW m, Sound(m), Running(m), Marked(m), Fits(m), NEW i \in Inos, NEW obj, Whole(m, i, obj),
         NEW off \in Nat, off <= obj.size, NEW val \in Seq(ByteSet), Len(val) > 0, off + Len(val) <= MaxLen,
         NEW r, r = SetDataObject(m, obj, off, val, i)
  PROVE  \E d, acc : ByWrite(d, acc, m, obj, off, val, i, r)
<1>. DEFINE es == obj.entries
            w == WriteValue(m, val, off, i)
            fin == off + Len(val)
<1>1. obj \in Objects /\ Tiled(es, 0) /\ obj.size = EndAt(es, 0, Len(es)) /\ obj.size <= MaxLen
      /\ Own(m, i, Members(es))
  BY DEF Whole
<1>2. EndAt(es, 0, Len(es)) <= MaxLen /\ off <= EndAt(es, 0, Len(es)) /\ EndAt(es, 0, Len(es)) \in Nat
  <2>1. Len(es) \in 0 .. Len(es)
    BY <1>1, TiledIs
  <2>2. EndAt(es, 0, Len(es)) \in Nat
    <3>. HIDE DEF es
    <3>. QED BY <1>1, <2>1, TiledOrder
  <2>. QED BY <1>1, <2>2
<1>3. PICK d : /\ Edit(d) /\ NewIs(d) /\ Keeps(m, d.m, i) /\ ReadEntry(d.m, d.new) = val
               /\ d.i = i /\ d.es = es /\ d.off = off /\ d.fin = fin
               /\ d.m = w.m /\ d.new = w.entry
  <2>1. w = WriteValue(m, val, off, i)
    OBVIOUS
  <2>. HIDE DEF es, w
  <2>. QED BY <1>1, <1>2, <2>1, EditStarts
<1>. DEFINE acc == ReplaceHits(w.m, obj, off, fin, i)
<1>4. ~(off > obj.size)
  BY <1>1, <1>2
<1>5. r = Replaced(acc, obj, w.entry)
  BY <1>4 DEF SetDataObject
<1>6. acc = ReplaceHits(d.m, obj, d.off, d.fin, d.i) /\ r = Replaced(acc, obj, d.new)
  BY <1>3, <1>5
<1>. HIDE DEF acc, w
<1>7. Replacing(d, acc, Len(d.es))
  BY <1>1, <1>3, <1>6, ReplaceHitsDone
<1>8. acc \in Loops(d.m.live)
  <2>1. Sound(d.m) /\ d.off \in Int /\ d.fin \in Int /\ d.i \in Inos
    BY <1>3 DEF Edit
  <2>2. PICK f : ReplaceSteps(f, d.m, obj.entries, d.off, d.fin, d.i, acc)
    BY <1>1, <1>6, <2>1, ReplaceHitsIs
  <2>3. Len(obj.entries) \in 0 .. Len(obj.entries)
    BY <1>1, TiledIs
  <2>. QED BY <2>2, <2>3 DEF ReplaceSteps
<1>9. Written(d, acc, r.m, r.obj.entries) /\ r.obj.size = EndAt(r.obj.entries, 0, Len(r.obj.entries))
  <2>. DEFINE alive == d.m.live
  <2>1. acc \in Loops(alive)
    BY <1>8
  <2>2. obj.entries = d.es
    BY <1>3
  <2>. HIDE DEF alive
  <2>. QED BY <1>1, <1>3, <1>6, <1>7, <2>1, <2>2, ReplacedDone
<1>. QED BY <1>3, <1>9 DEF ByWrite

-----------------------------------------------------------------------------
(* A record taken from a directory.                                          *)

LEMMA RecordsAt ==
  ASSUME NEW es, Tiled(es, 0), NEW n \in Nat, \A k \in 1 .. Len(es) : es[k].len = n
  PROVE  \A k \in 0 .. Len(es) : EndAt(es, 0, k) = k * n
<1>. DEFINE G == {k \in 0 .. Len(es) : EndAt(es, 0, k) = k * n}
            l == Len(es)
<1>1. l \in Nat
  BY TiledIs
<1>2. 0 \in G
  BY <1>1 DEF EndAt
<1>3. ASSUME NEW k \in 1 .. l, k - 1 \in G PROVE k \in G
  <2>1. /\ es[k].offset = EndAt(es, 0, k - 1) /\ EndAt(es, 0, k) = End(es[k]) /\ es[k].len = n
        /\ es[k] \in Entry
    BY TiledIs
  <2>2. EndAt(es, 0, k) = (k - 1) * n + n
    BY <1>3, <2>1 DEF End
  <2>3. k \in Nat /\ (k - 1) * n + n = k * n
    BY <1>1
  <2>. QED BY <1>1, <2>2, <2>3
<1>4. \A k \in 0 .. l : k \in G
  <2>. HIDE DEF G, l
  <2>. QED BY <1>1, <1>2, <1>3, UpTo
<1>. QED BY <1>4

LEMMA RecordFound ==
  ASSUME NEW es, Tiled(es, 0), NEW n \in Nat \ {0}, \A k \in 1 .. Len(es) : es[k].len = n,
         NEW off \in Nat, off % n = 0, off + n <= EndAt(es, 0, Len(es))
  PROVE  \E a \in 0 .. Len(es) : a < Len(es) /\ EndAt(es, 0, a) = off /\ EndAt(es, 0, a + 1) = off + n
<1>. DEFINE a == off \div n
            l == Len(es)
<1>1. l \in Nat
  BY TiledIs
<1>2. a \in Nat /\ off = a * n
  <2>1. a \in Nat /\ off = (a * n) + (off % n)
    BY Quotient
  <2>. HIDE DEF a
  <2>2. a * n \in Nat
    BY <2>1
  <2>. QED BY <2>1, <2>2
<1>. HIDE DEF a
<1>3. \A k \in 0 .. l : EndAt(es, 0, k) = k * n
  BY RecordsAt
<1>4. l \in 0 .. l /\ EndAt(es, 0, l) = l * n
  BY <1>1, <1>3
<1>5. (a + 1) * n = a * n + n /\ l * n \in Nat /\ a * n \in Nat
  BY <1>1, <1>2
<1>6. a < l
  <2>1. a * n < l * n
    BY <1>2, <1>4, <1>5
  <2>. QED BY <1>1, <1>2, <2>1, TimesOrder
<1>7. a \in 0 .. l /\ a + 1 \in 0 .. l
  BY <1>1, <1>2, <1>6
<1>. QED BY <1>2, <1>3, <1>5, <1>6, <1>7

(* One record of n bytes, the a+1-st entry, lies at off.                     *)
Record(es, a, off, n) ==
  /\ Tiled(es, 0) /\ off \in Nat /\ n \in Nat \ {0}
  /\ a \in 0 .. Len(es) /\ a < Len(es)
  /\ EndAt(es, 0, a) = off /\ EndAt(es, 0, a + 1) = off + n

LEMMA OneHit ==
  ASSUME NEW es, NEW a, NEW off, NEW n, Record(es, a, off, n), NEW j \in 1 .. Len(es)
  PROVE  /\ Hit(es[j], off, off + n) <=> j = a + 1
         /\ EndsBehind(es[j], off) <=> a < j
         /\ es[j].offset >= off + n <=> a + 1 < j
         /\ j = a + 1 => Before(es[j], off) = 0 /\ After(es[j], off + n) = 0
<1>. DEFINE E(k) == EndAt(es, 0, k)
<1>0. /\ Tiled(es, 0) /\ off \in Nat /\ n \in Nat \ {0} /\ a \in 0 .. Len(es) /\ a < Len(es)
      /\ E(a) = off /\ E(a + 1) = off + n
  BY DEF Record
<1>1. /\ Len(es) \in Nat /\ es[j].offset = E(j - 1) /\ es[j].offset + es[j].len = E(j)
      /\ es[j].offset \in Int /\ es[j].len \in Int
  <2>1. /\ Len(es) \in Nat /\ es[j] \in Entry
        /\ es[j].offset = EndAt(es, 0, j - 1) /\ EndAt(es, 0, j) = End(es[j])
    BY <1>0, TiledIs
  <2>2. es[j].offset \in Int /\ es[j].len \in Nat /\ End(es[j]) = es[j].offset + es[j].len
    BY <2>1, EntryFields
  <2>. QED BY <2>1, <2>2
<1>2. j \in Nat /\ a \in Nat /\ j \in 0 .. Len(es) /\ j - 1 \in 0 .. Len(es) /\ a \in 0 .. Len(es) /\ a + 1 \in 0 .. Len(es)
  BY <1>0, <1>1
<1>3. /\ E(j) \in Nat /\ E(j - 1) \in Nat /\ E(a) \in Nat /\ E(a + 1) \in Nat
      /\ j <= a => E(j) <= E(a)
      /\ a < j => E(a) < E(j)
      /\ j - 1 < a + 1 => E(j - 1) < E(a + 1)
      /\ a + 1 <= j - 1 => E(a + 1) <= E(j - 1)
  BY <1>0, <1>2, TiledOrder
<1>4. EndsBehind(es[j], off) <=> a < j
  <2>1. EndsBehind(es[j], off) <=> E(j) > E(a)
    BY <1>0, <1>1 DEF EndsBehind
  <2>. HIDE DEF E
  <2>. QED BY <1>2, <1>3, <2>1
<1>5. es[j].offset >= off + n <=> a + 1 < j
  <2>1. es[j].offset >= off + n <=> E(j - 1) >= E(a + 1)
    BY <1>0, <1>1
  <2>. HIDE DEF E
  <2>. QED BY <1>2, <1>3, <2>1
<1>6. es[j].offset < off + n <=> ~(a + 1 < j)
  <2>1. es[j].offset < off + n <=> E(j - 1) < E(a + 1)
    BY <1>0, <1>1
  <2>. HIDE DEF E
  <2>. QED BY <1>2, <1>3, <2>1
<1>7. Hit(es[j], off, off + n) <=> j = a + 1
  BY <1>2, <1>4, <1>6 DEF Hit
<1>8. ASSUME j = a + 1 PROVE Before(es[j], off) = 0 /\ After(es[j], off + n) = 0
  <2>1. es[j].offset = off /\ es[j].len = n
    <3>1. j - 1 = a
      BY <1>2, <1>8
    <3>2. es[j].offset = off /\ es[j].offset + es[j].len = off + n
      BY <1>0, <1>1, <1>8, <3>1
    <3>. QED BY <1>0, <1>1, <3>2
  <2>2. off - off = 0 /\ off + n - (off + n) = 0
    BY <1>0
  <2>3. Before(es[j], off) = Larger(0, off - off)
    BY <2>1 DEF Before
  <2>4. After(es[j], off + n) = Larger(0, off + n - (off + n))
    BY <2>1 DEF After
  <2>. QED BY <2>2, <2>3, <2>4 DEF Larger
<1>. QED BY <1>4, <1>5, <1>7, <1>8

IsCut(t, m, obj, off, n, i) == t = CutHits(m, obj, off, off + n, i)
IsShort(r, acc, obj, off, n) == r = Shortened(acc, obj, off, n)

(* The pages of e were given up, and nothing of it is to be written again.   *)
Dropped(acc, m, e) == Given(m, acc.m, e) /\ acc.removed = <<e.page_pointer>> /\ acc.tail = <<>>

LEMMA RecordCut ==
  ASSUME NEW m, Sound(m), NEW obj \in Objects, NEW a, NEW off, NEW n, Record(obj.entries, a, off, n),
         NEW i \in Inos, NEW t, IsCut(t, m, obj, off, n, i)
  PROVE  Dropped(t, m, obj.entries[a + 1])
<1>. DEFINE es == obj.entries
            N == Len(es)
            fin == off + n
            e == es[a + 1]
            X == RemoveEntry(DropFrom(Loop(m), e.page_pointer, PagesFor(e.len)), a + 1, e)
<1>1. /\ Tiled(es, 0) /\ off \in Nat /\ n \in Nat \ {0} /\ a \in 0 .. N /\ a < N
      /\ EndAt(es, 0, a) = off /\ EndAt(es, 0, a + 1) = off + n
  BY DEF Record
<1>2. N \in Nat /\ a \in Nat /\ a + 1 \in 1 .. N /\ fin \in Nat
  <2>1. N \in Nat
    BY <1>1, TiledIs
  <2>. QED BY <1>1, <2>1
<1>3. e \in Entry /\ e.archived_len = e.len
  BY <1>1, <1>2, TiledIs
<1>4. PICK f : CutSteps(f, m, es, off, fin, i, t)
  <2>1. off \in Int /\ fin \in Int /\ t = CutHits(m, obj, off, fin, i)
    BY <1>1, <1>2 DEF IsCut
  <2>. HIDE DEF fin
  <2>. QED BY <2>1, CutHitsIs
<1>5. ASSUME NEW k \in 1 .. N
      PROVE  f[k] = IF k = a + 1 THEN RemoveEntry(DropFrom(f[k - 1], e.page_pointer, PagesFor(e.len)), k, e)
                    ELSE f[k - 1]
  <2>1. /\ Hit(es[k], off, fin) <=> k = a + 1
        /\ k = a + 1 => Before(es[k], off) = 0 /\ After(es[k], fin) = 0
    BY OneHit
  <2>2. f[k] = CutEntry(f[k - 1], k, es[k], off, fin, i)
    BY <1>4 DEF CutSteps
  <2>3. CASE k # a + 1
    BY <2>1, <2>2, <2>3 DEF CutEntry
  <2>4. CASE k = a + 1
    <3>. DEFINE y == RemoveEntry(DropFrom(f[k - 1], e.page_pointer, PagesFor(e.len)), k, e)
    <3>1. es[k] = e
      BY <2>4
    <3>2. f[k] = KeepTail(y, e, fin, i)
      BY <2>1, <2>2, <2>4, <3>1 DEF CutEntry
    <3>3. KeepTail(y, e, fin, i) = y
      <4>. HIDE DEF y
      <4>. QED BY <2>1, <2>4, <3>1 DEF KeepTail
    <3>. QED BY <2>4, <3>2, <3>3
  <2>. QED BY <2>3, <2>4
<1>. DEFINE G == {k \in 0 .. N : f[k] = IF k <= a THEN Loop(m) ELSE X}
<1>6. 0 \in G
  BY <1>2, <1>4 DEF CutSteps
<1>7. ASSUME NEW k \in 1 .. N, k - 1 \in G PROVE k \in G
  <2>1. f[k - 1] = IF k - 1 <= a THEN Loop(m) ELSE X
    BY <1>7
  <2>. HIDE DEF X
  <2>2. CASE k <= a
    <3>1. k - 1 <= a /\ k # a + 1
      BY <1>2, <2>2
    <3>. QED BY <1>2, <1>5, <2>1, <2>2, <3>1
  <2>3. CASE k = a + 1
    <3>1. k - 1 <= a /\ ~(k <= a)
      BY <1>2, <2>3
    <3>2. f[k] = X
      BY <1>5, <2>1, <2>3, <3>1 DEF X
    <3>. QED BY <1>2, <3>1, <3>2
  <2>4. CASE ~(k <= a) /\ k # a + 1
    <3>1. ~(k - 1 <= a)
      BY <1>2, <2>4
    <3>. QED BY <1>2, <1>5, <2>1, <2>4, <3>1
  <2>. QED BY <2>2, <2>3, <2>4
<1>8. \A k \in 0 .. N : k \in G
  <2>. HIDE DEF G, N
  <2>. QED BY <1>2, <1>6, <1>7, UpTo
<1>9. t = X
  <2>1. N \in 0 .. N /\ ~(N <= a) /\ f[N] = t
    BY <1>1, <1>2, <1>4 DEF CutSteps
  <2>. HIDE DEF X
  <2>. QED BY <1>8, <2>1
<1>10. /\ X.m = DropPages(m, e.page_pointer, PagesFor(e.len))
       /\ X.removed = Append(<<>>, e.page_pointer) /\ X.tail = <<>>
  <2>. DEFINE y == DropFrom(Loop(m), e.page_pointer, PagesFor(e.len))
              q == DropPages(m, e.page_pointer, PagesFor(e.len))
              l == Append(<<>>, e.page_pointer)
              z == [y EXCEPT !.removed = Append(@, e.page_pointer)]
  <2>1. y = [m |-> q, removed |-> <<>>, at |-> 0, head |-> <<>>, tail |-> <<>>]
    BY DEF DropFrom, Loop
  <2>2. z = [y EXCEPT !.removed = l]
    BY <2>1
  <2>3. X = InsertionAt(z, a + 1)
    BY DEF RemoveEntry
  <2>. HIDE DEF y, q, l, z, X
  <2>4. z = [m |-> q, removed |-> l, at |-> 0, head |-> <<>>, tail |-> <<>>]
    BY <2>1, <2>2
  <2>5. X = [z EXCEPT !.at = a + 1]
    BY <2>3, <2>4 DEF InsertionAt
  <2>6. X.m = q /\ X.removed = l /\ X.tail = <<>>
    BY <2>4, <2>5
  <2>. QED BY <2>6 DEF q, l
<1>11. Append(<<>>, e.page_pointer) = <<e.page_pointer>>
  BY <1>3, EntryFields
<1>. HIDE DEF X
<1>. QED BY <1>3, <1>9, <1>10, <1>11 DEF Given, Dropped

LEMMA EntryShifted ==
  ASSUME NEW e \in Entry, NEW n \in Nat
  PROVE  /\ [e EXCEPT !.offset = @ - n] \in Entry
         /\ [e EXCEPT !.offset = @ - n].page_pointer = e.page_pointer
         /\ [e EXCEPT !.offset = @ - n].len = e.len
         /\ [e EXCEPT !.offset = @ - n].archived_len = e.archived_len
         /\ [e EXCEPT !.offset = @ - n].offset = e.offset - n
<1>. DEFINE t == [e EXCEPT !.offset = @ - n]
<1>1. e \in EntryRecord /\ e.len <= e.archived_len /\ e.archived_len > 0
  BY DEF Entry
<1>2. e.offset - n \in Int
  BY <1>1 DEF EntryRecord
<1>3. /\ t.page_pointer = e.page_pointer /\ t.len = e.len /\ t.archived_len = e.archived_len
      /\ t.offset = e.offset - n /\ t \in EntryRecord
  BY <1>1, <1>2 DEF EntryRecord
<1>. HIDE DEF t
<1>4. t \in Entry
  BY <1>1, <1>3 DEF Entry
<1>. QED BY <1>3, <1>4 DEF t

(* What is left: the entries behind the record move to the front.            *)
Moved(es, a, n, k) == IF k <= a THEN es[k] ELSE [es[k + 1] EXCEPT !.offset = @ - n]

IsLeft(r, acc, es, a, n) ==
  /\ r.m = acc.m /\ r.obj.entries \in Seq(Entry) /\ Len(r.obj.entries) = Len(es) - 1
  /\ \A k \in 1 .. Len(es) - 1 : r.obj.entries[k] = Moved(es, a, n, k)
  /\ r.obj.size = TotalLen(r.obj.entries)

LEMMA RecordsLeft ==
  ASSUME NEW m, NEW obj \in Objects, NEW a, NEW off, NEW n, Record(obj.entries, a, off, n),
         DistinctPointers(obj.entries), NEW acc, Dropped(acc, m, obj.entries[a + 1]),
         NEW r, IsShort(r, acc, obj, off, n)
  PROVE  IsLeft(r, acc, obj.entries, a, n)
<1>. DEFINE es == obj.entries
            s == r.obj.entries
            N == Len(es)
            edited == [k \in DOMAIN es |-> EditEntry(es[k], off, n)]
            p == es[a + 1].page_pointer
<1>1. /\ Tiled(es, 0) /\ off \in Nat /\ n \in Nat \ {0} /\ a \in 0 .. N /\ a < N
      /\ EndAt(es, 0, a) = off /\ EndAt(es, 0, a + 1) = off + n
  BY DEF Record
<1>2. N \in Nat /\ a \in Nat /\ a + 1 \in 1 .. N /\ es \in Seq(Entry)
  <2>1. N \in Nat /\ es \in Seq(Entry)
    BY <1>1, TiledIs
  <2>. QED BY <1>1, <2>1
<1>3. ASSUME NEW k \in 1 .. N
      PROVE  /\ EditEntry(es[k], off, n) = IF k <= a + 1 THEN es[k] ELSE [es[k] EXCEPT !.offset = @ - n]
             /\ EditEntry(es[k], off, n) \in Entry
             /\ EditEntry(es[k], off, n).page_pointer = es[k].page_pointer
  <2>. DEFINE e == es[k]
  <2>1. /\ Hit(e, off, off + n) <=> k = a + 1
        /\ EndsBehind(e, off) <=> a < k
        /\ e.offset >= off + n <=> a + 1 < k
        /\ k = a + 1 => Before(e, off) = 0
    BY OneHit
  <2>2. e \in Entry
    BY <1>2
  <2>. HIDE DEF e
  <2>3. [e EXCEPT !.offset = @ - n] \in Entry /\ [e EXCEPT !.offset = @ - n].page_pointer = e.page_pointer
    BY <1>1, <2>2, EntryShifted
  <2>4. EditEntry(e, off, n) = IF k <= a + 1 THEN e ELSE [e EXCEPT !.offset = @ - n]
    <3>1. CASE k <= a + 1
      <4>1. ~(e.offset >= off + n)
        BY <1>2, <2>1, <3>1
      <4>2. ~(Hit(e, off, off + n) /\ Before(e, off) > 0)
        BY <2>1
      <4>. QED BY <3>1, <4>1, <4>2 DEF EditEntry
    <3>2. CASE ~(k <= a + 1)
      <4>1. EndsBehind(e, off) /\ e.offset >= off + n
        BY <1>2, <2>1, <3>2
      <4>. QED BY <3>2, <4>1 DEF EditEntry
    <3>. QED BY <3>1, <3>2
  <2>5. EditEntry(e, off, n) \in Entry /\ EditEntry(e, off, n).page_pointer = e.page_pointer
    BY <2>2, <2>3, <2>4
  <2>. QED BY <2>4, <2>5 DEF e
<1>4. edited \in Seq(Entry) /\ Len(edited) = N /\ \A k \in 1 .. N : edited[k] = EditEntry(es[k], off, n)
  <2>. DEFINE F(k) == EditEntry(es[k], off, n)
  <2>1. \A k \in 1 .. N : F(k) \in Entry
    BY <1>3
  <2>2. edited = [k \in 1 .. N |-> F(k)]
    BY <1>2
  <2>. HIDE DEF F, edited
  <2>3. edited \in Seq(Entry) /\ Len(edited) = N /\ \A k \in 1 .. N : edited[k] = F(k)
    BY <1>2, <2>1, <2>2
  <2>. QED BY <2>3 DEF F
<1>5. r.m = acc.m /\ r.obj = Object(RemoveByPointer(edited, <<p>>))
  BY DEF Shortened, IsShort, Dropped
<1>. HIDE DEF edited
<1>6. DistinctPointers(edited)
  <2>1. \A k \in 1 .. N : edited[k].page_pointer = es[k].page_pointer
    BY <1>3, <1>4
  <2>2. \A j, k \in 1 .. N : es[j].page_pointer = es[k].page_pointer => j = k
    BY DEF DistinctPointers
  <2>3. \A j, k \in 1 .. N : edited[j].page_pointer = edited[k].page_pointer => j = k
    BY <2>1, <2>2
  <2>. QED BY <1>4, <2>3 DEF DistinctPointers
<1>7. RemoveByPointer(edited, <<p>>) = CutOut(edited, a, a + 1)
  <2>. DEFINE b == a + 1
  <2>1. a \in 0 .. Len(edited) /\ b \in a .. Len(edited) /\ b - a = 1
    BY <1>2, <1>4
  <2>2. Pointers(edited, a, 1) = <<p>>
    <3>1. edited[a + 1].page_pointer = p
      BY <1>2, <1>3, <1>4
    <3>2. Pointers(edited, a, 1) = [j \in 1 .. 1 |-> edited[a + j].page_pointer]
      BY DEF Pointers
    <3>3. \A j \in 1 .. 1 : edited[a + j].page_pointer = p
      BY <3>1
    <3>4. Pointers(edited, a, 1) = [j \in 1 .. 1 |-> p]
      BY <3>2, <3>3
    <3>5. [j \in 1 .. 1 |-> p] = <<p>>
      OBVIOUS
    <3>. QED BY <3>4, <3>5
  <2>. HIDE DEF b, p
  <2>3. RemoveByPointer(edited, Pointers(edited, a, b - a)) = CutOut(edited, a, b)
    BY <1>4, <1>6, <2>1, PointersRemoved
  <2>. QED BY <2>1, <2>2, <2>3 DEF b
<1>8. s = CutOut(edited, a, a + 1) /\ r.obj.size = TotalLen(s)
  BY <1>5, <1>7 DEF Object
<1>9. /\ s \in Seq(Entry) /\ Len(s) = N - 1
      /\ \A j \in 1 .. N - 1 : s[j] = IF j <= a THEN edited[j] ELSE edited[j + 1]
  <2>. DEFINE b == a + 1
  <2>1. a \in 0 .. Len(edited) /\ b \in a .. Len(edited) /\ b - a = 1 /\ s = CutOut(edited, a, b)
    BY <1>2, <1>4, <1>8
  <2>. HIDE DEF b
  <2>2. /\ CutOut(edited, a, b) \in Seq(Entry) /\ Len(CutOut(edited, a, b)) = Len(edited) - (b - a)
        /\ \A j \in 1 .. Len(edited) - (b - a) :
             CutOut(edited, a, b)[j] = IF j <= a THEN edited[j] ELSE edited[j + (b - a)]
    BY <1>4, <2>1, CutOutIs
  <2>. QED BY <1>4, <2>1, <2>2
<1>10. ASSUME NEW k \in 1 .. N - 1 PROVE s[k] = Moved(es, a, n, k)
  <2>1. CASE k <= a
    <3>1. k \in 1 .. N /\ k <= a + 1
      BY <1>2, <2>1
    <3>. QED BY <1>3, <1>4, <1>9, <2>1, <3>1 DEF Moved
  <2>2. CASE ~(k <= a)
    <3>1. k + 1 \in 1 .. N /\ ~(k + 1 <= a + 1)
      BY <1>2, <2>2
    <3>. QED BY <1>3, <1>4, <1>9, <2>2, <3>1 DEF Moved
  <2>. QED BY <2>1, <2>2
<1>. QED BY <1>5, <1>8, <1>9, <1>10 DEF IsLeft

(* Where the entry lies that became the k-th.                                *)
Formerly(a, k) == IF k <= a THEN k ELSE k + 1

(* The entries s of es without the entry after the a-th, of n bytes.         *)
ClosedUp(s, es, a, n) ==
  s \in Seq(Entry) /\ Len(s) = Len(es) - 1 /\ \A k \in 1 .. Len(es) - 1 : s[k] = Moved(es, a, n, k)

(* They have the pages and the lengths they had.                             *)
LostOne(s, es, a) ==
  /\ s \in Seq(Entry) /\ Len(s) = Len(es) - 1
  /\ \A k \in 1 .. Len(s) : LET j == Formerly(a, k) IN
       /\ j \in 1 .. Len(es) /\ j # a + 1
       /\ s[k].page_pointer = es[j].page_pointer
       /\ s[k].len = es[j].len /\ s[k].archived_len = es[j].archived_len

LEMMA MovedTiled ==
  ASSUME NEW es, NEW a, NEW off, NEW n, Record(es, a, off, n), NEW s, ClosedUp(s, es, a, n)
  PROVE  Tiled(s, 0) /\ EndAt(s, 0, Len(s)) = EndAt(es, 0, Len(es)) - n /\ LostOne(s, es, a)
<1>0. s \in Seq(Entry) /\ Len(s) = Len(es) - 1 /\ \A k \in 1 .. Len(es) - 1 : s[k] = Moved(es, a, n, k)
  BY DEF ClosedUp
<1>. DEFINE N == Len(es)
            E(k) == EndAt(es, 0, k)
            F(k) == IF k <= a THEN E(k) ELSE E(k + 1) - n
<1>1. /\ Tiled(es, 0) /\ off \in Nat /\ n \in Nat \ {0} /\ a \in 0 .. N /\ a < N
      /\ E(a) = off /\ E(a + 1) = off + n
  BY DEF Record
<1>2. N \in Nat /\ a \in Nat /\ a + 1 \in 1 .. N /\ n \in Nat /\ N - 1 \in Nat
  <2>1. N \in Nat
    BY <1>1, TiledIs
  <2>. QED BY <1>1, <2>1
<1>3. \A j \in 1 .. N : /\ es[j] \in Entry /\ es[j].len > 0 /\ es[j].archived_len = es[j].len
                        /\ es[j].offset = E(j - 1) /\ es[j].offset + es[j].len = E(j)
                        /\ es[j].offset \in Int /\ es[j].len \in Nat
  <2>1. TAKE j \in 1 .. N
  <2>2. /\ es[j] \in Entry /\ es[j].len > 0 /\ es[j].archived_len = es[j].len
        /\ es[j].offset = EndAt(es, 0, j - 1) /\ EndAt(es, 0, j) = End(es[j])
    BY <1>1, TiledIs
  <2>3. es[j].offset \in Int /\ es[j].len \in Nat /\ End(es[j]) = es[j].offset + es[j].len
    BY <2>2, EntryFields
  <2>. QED BY <2>2, <2>3
<1>. HIDE DEF E
<1>4. ASSUME NEW k \in 1 .. N - 1
      PROVE  /\ Formerly(a, k) \in 1 .. N /\ Formerly(a, k) # a + 1
             /\ s[k].page_pointer = es[Formerly(a, k)].page_pointer
             /\ s[k].len = es[Formerly(a, k)].len /\ s[k].archived_len = es[Formerly(a, k)].archived_len
             /\ s[k].offset = F(k - 1) /\ End(s[k]) = F(k)
  <2>1. CASE k <= a
    <3>1. /\ Formerly(a, k) = k /\ k \in 1 .. N /\ k # a + 1 /\ k - 1 <= a
      BY <1>2, <2>1 DEF Formerly
    <3>2. s[k] = es[k]
      BY <1>0, <2>1 DEF Moved
    <3>3. F(k) = E(k) /\ F(k - 1) = E(k - 1)
      BY <2>1, <3>1
    <3>. HIDE DEF F
    <3>. QED BY <1>3, <3>1, <3>2, <3>3 DEF End
  <2>2. CASE ~(k <= a)
    <3>. DEFINE e == es[k + 1]
                u == [e EXCEPT !.offset = @ - n]
    <3>1. Formerly(a, k) = k + 1 /\ k + 1 \in 1 .. N /\ k + 1 # a + 1
      BY <1>2, <2>2 DEF Formerly
    <3>2. s[k] = u
      BY <1>0, <2>2 DEF Moved
    <3>3. /\ e \in Entry /\ e.offset = E(k) /\ e.offset + e.len = E(k + 1) /\ e.offset \in Int /\ e.len \in Nat
      <4>1. (k + 1) - 1 = k
        OBVIOUS
      <4>. QED BY <1>3, <3>1, <4>1
    <3>. HIDE DEF e
    <3>4. /\ u.page_pointer = e.page_pointer /\ u.len = e.len /\ u.archived_len = e.archived_len
          /\ u.offset = e.offset - n
      BY <1>2, <3>3, EntryShifted
    <3>. HIDE DEF u
    <3>5. F(k) = E(k + 1) - n
      BY <2>2
    <3>6. F(k - 1) = E(k) - n
      <4>1. CASE k - 1 <= a
        <5>1. k - 1 = a /\ k = a + 1
          BY <1>2, <2>2, <4>1
        <5>2. F(k - 1) = E(a) /\ E(k) = E(a + 1)
          BY <4>1, <5>1
        <5>. QED BY <1>1, <5>2
      <4>2. CASE ~(k - 1 <= a)
        <5>1. (k - 1) + 1 = k
          OBVIOUS
        <5>. QED BY <4>2, <5>1
      <4>. QED BY <4>1, <4>2
    <3>. HIDE DEF F
    <3>7. u.offset = F(k - 1)
      BY <3>3, <3>4, <3>6
    <3>8. u.offset + u.len = F(k)
      BY <1>2, <3>3, <3>4, <3>5
    <3>. QED BY <3>1, <3>2, <3>4, <3>7, <3>8 DEF End, e
  <2>. QED BY <2>1, <2>2
<1>5. F(0) = 0
  <2>1. E(0) = 0 /\ 0 <= a
    BY <1>1, <1>2, TiledIs DEF E
  <2>. QED BY <2>1
<1>. HIDE DEF F
<1>6. \A k \in 1 .. Len(s) : s[k].offset = IF k = 1 THEN 0 ELSE End(s[k - 1])
  <2>1. TAKE k \in 1 .. Len(s)
  <2>2. k \in 1 .. N - 1 /\ s[k].offset = F(k - 1)
    BY <1>0, <1>4
  <2>3. CASE k = 1
    <3>1. k - 1 = 0
      BY <2>3
    <3>. QED BY <1>5, <2>2, <2>3, <3>1
  <2>4. CASE k # 1
    <3>1. k - 1 \in 1 .. N - 1
      BY <1>2, <2>2, <2>4
    <3>. QED BY <1>4, <2>2, <2>4, <3>1
  <2>. QED BY <2>3, <2>4
<1>7. \A k \in 1 .. Len(s) : s[k].len > 0 /\ s[k].archived_len = s[k].len
  <2>1. TAKE k \in 1 .. Len(s)
  <2>2. k \in 1 .. N - 1
    BY <1>0
  <2>. QED BY <1>3, <1>4, <2>2
<1>8. Tiled(s, 0)
  BY <1>0, <1>6, <1>7 DEF Tiled
<1>9. EndAt(s, 0, Len(s)) = E(N) - n
  <2>1. F(N - 1) = E(N) - n
    <3>1. (N - 1) + 1 = N
      BY <1>2
    <3>2. CASE N - 1 <= a
      <4>1. N - 1 = a /\ N = a + 1
        BY <1>1, <1>2, <3>2
      <4>2. F(N - 1) = E(a) /\ E(N) = E(a + 1)
        BY <3>2, <4>1 DEF F
      <4>. QED BY <1>1, <4>2
    <3>3. CASE ~(N - 1 <= a)
      BY <3>1, <3>3 DEF F
    <3>. QED BY <3>2, <3>3
  <2>2. EndAt(s, 0, Len(s)) = F(N - 1)
    <3>1. CASE N - 1 = 0
      BY <1>0, <1>5, <3>1 DEF EndAt
    <3>2. CASE N - 1 # 0
      <4>1. N - 1 \in 1 .. N - 1
        <5>1. N \in Nat /\ N - 1 \in Nat
          BY <1>2
        <5>. HIDE DEF N
        <5>. QED BY <3>2, <5>1
      <4>. QED BY <1>0, <1>4, <3>2, <4>1 DEF EndAt
    <3>. QED BY <3>1, <3>2
  <2>. QED BY <2>1, <2>2
<1>10. LostOne(s, es, a)
  BY <1>0, <1>4 DEF LostOne
<1>. QED BY <1>8, <1>9, <1>10 DEF E

(* Entries that keep their pages.                                            *)
LEMMA OwnMoved ==
  ASSUME NEW m, NEW i, NEW es, Tiled(es, 0), NEW a \in 0 .. Len(es), a < Len(es),
         Own(m, i, Members(es) \ {es[a + 1]}), NEW s, LostOne(s, es, a)
  PROVE  Own(m, i, Members(s))
<1>0. s \in Seq(Entry) /\ Len(s) = Len(es) - 1
  BY DEF LostOne
<1>. DEFINE S == Members(es) \ {es[a + 1]}
            G(k) == es[Formerly(a, k)]
<1>1. Len(es) \in Nat /\ a \in Nat /\ a + 1 \in 1 .. Len(es)
  <2>1. Len(es) \in Nat
    BY TiledIs
  <2>. QED BY <2>1
<1>2. \A j, k \in 1 .. Len(es) : j # k => es[j] # es[k]
  BY TiledDistinct
<1>3. \A k \in 1 .. Len(s) : /\ Formerly(a, k) \in 1 .. Len(es) /\ Formerly(a, k) # a + 1
                             /\ s[k].page_pointer = G(k).page_pointer /\ s[k].archived_len = G(k).archived_len
  BY DEF LostOne
<1>4. \A k \in 1 .. Len(s) : G(k) \in S /\ PagesOf(s[k]) = PagesOf(G(k))
  BY <1>1, <1>2, <1>3 DEF Members, PagesOf
<1>5. \A j, k \in 1 .. Len(s) : j # k => G(j) # G(k)
  <2>1. TAKE j, k \in 1 .. Len(s)
  <2>2. HAVE j # k
  <2>3. Formerly(a, j) # Formerly(a, k)
    BY <1>1, <2>2 DEF Formerly
  <2>. QED BY <1>2, <1>3, <2>3
<1>6. \A e \in S : \E k \in 1 .. Len(s) : G(k) = e
  <2>1. TAKE e \in S
  <2>2. PICK j \in 1 .. Len(es) : e = es[j]
    BY DEF Members
  <2>3. j # a + 1
    BY <2>2
  <2>4. CASE j <= a
    <3>1. j \in 1 .. Len(s) /\ Formerly(a, j) = j
      BY <1>0, <1>1, <2>4 DEF Formerly
    <3>. QED BY <2>2, <3>1
  <2>5. CASE ~(j <= a)
    <3>1. j - 1 \in 1 .. Len(s) /\ Formerly(a, j - 1) = j
      BY <1>0, <1>1, <2>3, <2>5 DEF Formerly
    <3>. QED BY <2>2, <3>1
  <2>. QED BY <2>4, <2>5
<1>. HIDE DEF G
<1>7. /\ \A e \in S : e \in Entry /\ e.archived_len > 0 /\ PagesOf(e) \subseteq Pages
      /\ \A e \in S : \A p \in PagesOf(e) : Use(m, p) = i
      /\ \A e, f \in S : e # f => PagesOf(e) \cap PagesOf(f) = {}
      /\ \A p \in Pages : Use(m, p) = i => \E e \in S : p \in PagesOf(e)
  BY DEF Own
<1>. HIDE DEF S
<1>8. \A e \in Members(s) : \E k \in 1 .. Len(s) : e = s[k]
  BY DEF Members
<1>9. \A e \in Members(s) : e \in Entry /\ e.archived_len > 0 /\ PagesOf(e) \subseteq Pages
  <2>1. \A k \in 1 .. Len(s) : s[k] \in Entry /\ s[k].archived_len > 0 /\ PagesOf(s[k]) \subseteq Pages
    <3>1. TAKE k \in 1 .. Len(s)
    <3>2. s[k] \in Entry
      BY <1>0
    <3>3. s[k].archived_len = G(k).archived_len
      BY <1>3
    <3>. QED BY <1>4, <1>7, <3>2, <3>3
  <2>. QED BY <1>8, <2>1
<1>10. \A e \in Members(s) : \A p \in PagesOf(e) : Use(m, p) = i
  BY <1>4, <1>7, <1>8
<1>11. \A e, f \in Members(s) : e # f => PagesOf(e) \cap PagesOf(f) = {}
  <2>1. \A j, k \in 1 .. Len(s) : j # k => PagesOf(s[j]) \cap PagesOf(s[k]) = {}
    BY <1>4, <1>5, <1>7
  <2>. QED BY <1>8, <2>1
<1>12. \A p \in Pages : Use(m, p) = i => \E e \in Members(s) : p \in PagesOf(e)
  <2>1. TAKE p \in Pages
  <2>2. HAVE Use(m, p) = i
  <2>3. PICK e \in S : p \in PagesOf(e)
    BY <1>7, <2>2
  <2>4. PICK k \in 1 .. Len(s) : G(k) = e
    BY <1>6
  <2>5. p \in PagesOf(s[k])
    BY <1>4, <2>3, <2>4
  <2>6. s[k] \in Members(s)
    BY DEF Members
  <2>. QED BY <2>5, <2>6
<1>. QED BY <1>9, <1>10, <1>11, <1>12 DEF Own

(* How a record went: it was the a+1-st entry.                               *)
ByRemoval(a, m, obj, off, n, i, r) ==
  /\ Record(obj.entries, a, off, n) /\ Keeps(m, r.m, i) /\ Whole(r.m, i, r.obj)
  /\ Len(r.obj.entries) = Len(obj.entries) - 1
  /\ \A k \in 1 .. Len(r.obj.entries) : r.obj.entries[k] = Moved(obj.entries, a, n, k)
  /\ \A e \in Members(r.obj.entries) : e.len = n

LEMMA RecordRemoved ==
  ASSUME NEW m, Sound(m), Running(m), Marked(m), NEW i \in Inos, NEW obj, Whole(m, i, obj),
         NEW n \in Nat \ {0}, \A e \in Members(obj.entries) : e.len = n,
         NEW off \in Nat, off % n = 0, off + n <= obj.size,
         NEW r, r = DeleteDataObject(m, obj, off, n, i)
  PROVE  \E a : ByRemoval(a, m, obj, off, n, i, r)
<1>. DEFINE es == obj.entries
            N == Len(es)
            s == r.obj.entries
            acc == CutHits(m, obj, off, off + n, i)
<1>1. /\ obj \in Objects /\ Tiled(es, 0) /\ obj.size = EndAt(es, 0, N) /\ obj.size <= MaxLen
      /\ Own(m, i, Members(es))
  BY DEF Whole
<1>2. N \in Nat /\ es \in Seq(Entry) /\ \A k \in 1 .. N : es[k].len = n
  <2>1. N \in Nat /\ es \in Seq(Entry)
    BY <1>1, TiledIs
  <2>. QED BY <2>1 DEF Members
<1>3. PICK a \in 0 .. N : a < N /\ EndAt(es, 0, a) = off /\ EndAt(es, 0, a + 1) = off + n
  <2>1. off + n <= EndAt(es, 0, Len(es))
    BY <1>1
  <2>. HIDE DEF es
  <2>. QED BY <1>1, <1>2, <2>1, RecordFound
<1>4. Record(es, a, off, n)
  BY <1>1, <1>3 DEF Record
<1>. DEFINE e == es[a + 1]
<1>5. a + 1 \in 1 .. N /\ e \in Members(es)
  <2>1. a + 1 \in 1 .. N
    BY <1>2, <1>3
  <2>. QED BY <2>1 DEF Members
<1>6. r = Shortened(acc, obj, off, n)
  <2>1. EndAt(es, 0, N) \in Nat
    <3>1. N \in 0 .. Len(es)
      BY <1>2
    <3>. HIDE DEF es, N
    <3>. QED BY <1>1, <3>1, TiledOrder
  <2>2. ~(off >= obj.size)
    BY <1>1, <2>1
  <2>. QED BY <2>2 DEF DeleteDataObject
<1>7. Dropped(acc, m, e)
  <2>1. IsCut(acc, m, obj, off, n, i)
    BY DEF IsCut
  <2>. HIDE DEF acc
  <2>. QED BY <1>1, <1>4, <2>1, RecordCut
<1>. HIDE DEF acc
<1>8. Own(acc.m, i, Members(es) \ {e}) /\ Keeps(m, acc.m, i)
  <2>. DEFINE S == Members(es)
              t == acc.m
  <2>1. e \in S /\ Own(m, i, S) /\ Given(m, t, e)
    BY <1>1, <1>5, <1>7 DEF Dropped
  <2>. HIDE DEF S, e, t
  <2>2. Own(t, i, S \ {e}) /\ Keeps(m, t, i)
    BY <2>1, OwnDropped
  <2>. QED BY <2>2 DEF S, t
<1>9. DistinctPointers(es)
  <2>. DEFINE S == Members(es)
  <2>1. Own(m, i, S) /\ Members(es) \subseteq S
    BY <1>1
  <2>. HIDE DEF es, S
  <2>. QED BY <1>1, <2>1, OwnPointers
<1>10. /\ r.m = acc.m /\ s \in Seq(Entry) /\ Len(s) = N - 1
       /\ \A k \in 1 .. N - 1 : s[k] = Moved(es, a, n, k)
       /\ r.obj.size = TotalLen(s)
  <2>1. IsShort(r, acc, obj, off, n)
    BY <1>6 DEF IsShort
  <2>2. IsLeft(r, acc, obj.entries, a, n)
    BY <1>1, <1>4, <1>7, <1>9, <2>1, RecordsLeft
  <2>. QED BY <2>2 DEF IsLeft
<1>. HIDE DEF s
<1>11. Tiled(s, 0) /\ EndAt(s, 0, Len(s)) = EndAt(es, 0, N) - n /\ LostOne(s, es, a)
  <2>1. ClosedUp(s, es, a, n)
    BY <1>10 DEF ClosedUp
  <2>. HIDE DEF es
  <2>. QED BY <1>4, <2>1, MovedTiled
<1>12. Own(acc.m, i, Members(s))
  <2>. DEFINE t == acc.m
  <2>1. Own(t, i, Members(es) \ {es[a + 1]})
    BY <1>8
  <2>. HIDE DEF es, t
  <2>2. Own(t, i, Members(s))
    BY <1>1, <1>3, <1>11, <2>1, OwnMoved
  <2>. QED BY <2>2 DEF t
<1>13. EndAt(s, 0, Len(s)) \in Nat /\ TotalLen(s) = EndAt(s, 0, Len(s))
  <2>1. Len(s) \in 0 .. Len(s)
    BY <1>11, TiledIs
  <2>2. EndAt(s, 0, Len(s)) \in Nat
    BY <1>11, <2>1, TiledOrder
  <2>3. TotalLen(s) = EndAt(s, 0, Len(s)) - 0
    BY <1>11, TiledTotal
  <2>. QED BY <2>2, <2>3
<1>14. r.obj = Object(s)
  BY <1>6, <1>10 DEF Shortened, Object, s
<1>15. r.obj \in Objects /\ r.obj.size <= MaxLen
  <2>1. r.obj.size \in Int
    BY <1>10, <1>13
  <2>2. r.obj.size <= obj.size
    <3>. DEFINE x == EndAt(es, 0, N)
    <3>1. r.obj.size = x - n /\ obj.size = x /\ obj.size \in Int
      BY <1>1, <1>10, <1>11, <1>13 DEF Objects
    <3>. HIDE DEF x
    <3>. QED BY <3>1
  <2>3. obj.size \in Int /\ MaxLen \in Nat
    BY <1>1, KVManagerAssumption DEF Objects
  <2>. QED BY <1>1, <1>10, <1>14, <2>1, <2>2, <2>3 DEF Object, Objects
<1>16. Whole(r.m, i, r.obj)
  BY <1>10, <1>11, <1>12, <1>13, <1>15 DEF Whole, s
<1>17. \A x \in Members(s) : x.len = n
  BY <1>2, <1>11 DEF Members, LostOne
<1>18. \A k \in 1 .. Len(s) : s[k] = Moved(es, a, n, k)
  BY <1>10
<1>. QED BY <1>4, <1>8, <1>10, <1>16, <1>17, <1>18 DEF ByRemoval, s

-----------------------------------------------------------------------------
(* The states of a behaviour that collects nothing and cuts no file: every   *)
(* page in use is in an extent of the inode that uses it, and the extents of *)
(* an inode follow one another; those of a directory are its records.        *)

Records(i, obj) == i \in Directories => \A e \in Members(obj.entries) : e.len = RecordLen

Good(m, i, obj) == Whole(m, i, obj) /\ Records(i, obj)

Kept(m) ==
  /\ Sound(m) /\ Running(m) /\ Marked(m)
  /\ \A i \in Inos : i \in m.live => Good(m, i, ObjectOf(m, i))
  /\ \A i \in Inos : i \notin m.live => m.objects[i] = NoObject

LEMMA NoObjectIs == NoObject \notin Objects
<1>. DEFINE E == [offset : Int, len : Int, archived_len : Int, page_pointer : Int]
<1>1. Entry \subseteq E
  BY DEF Entry, EntryRecord
<1>2. Seq(Entry) \subseteq Seq(E)
  <2>. HIDE DEF E
  <2>. QED BY <1>1
<1>3. NoObject \notin [size : Int, entries : Seq(E)]
  BY KVManagerAssumption
<1>. HIDE DEF E
<1>. QED BY <1>2, <1>3 DEF Objects

LEMMA EmptyIs ==
  /\ EmptyObject \in Objects /\ EmptyObject.entries = <<>> /\ EmptyObject.size = 0
  /\ Tiled(<<>>, 0) /\ EndAt(<<>>, 0, Len(<<>>)) = 0 /\ Members(<<>>) = {}
<1>1. <<>> \in Seq(Entry) /\ Len(<<>>) = 0
  OBVIOUS
<1>2. Tiled(<<>>, 0)
  BY <1>1 DEF Tiled
<1>3. 1 .. 0 = {}
  OBVIOUS
<1>. QED BY <1>1, <1>2, <1>3 DEF EmptyObject, Objects, EndAt, Members

(* Where an object lies depends on the pages in use only.                    *)
LEMMA GoodSame ==
  ASSUME NEW m, NEW t, t.table = m.table, NEW i, NEW obj, Good(m, i, obj)
  PROVE  Good(t, i, obj)
<1>1. \A a : Use(t, a) = Use(m, a)
  BY DEF Use
<1>. QED BY <1>1 DEF Good, Whole, Own

(* An operation on inode i leaves the objects of the others as they lay.     *)
LEMMA StoredKept ==
  ASSUME NEW m, Kept(m), NEW i \in Inos, i \in m.live, NEW r, Keeps(m, r.m, i), Good(r.m, i, r.obj),
         NEW t, t = Stored(r, i)
  PROVE  /\ Kept(t) /\ t.live = m.live /\ t.flash = r.m.flash /\ ObjectOf(t, i) = r.obj
         /\ t.objects = [m.objects EXCEPT ![i] = r.obj]
<1>. DEFINE s == r.m
            o == r.obj
<1>1. /\ Sound(s) /\ Running(s) /\ Marked(s) /\ s.objects = m.objects /\ s.live = m.live /\ s \in States
      /\ o \in Objects /\ o # NoObject
  BY NoObjectIs DEF Keeps, Good, Whole, Sound
<1>2. t = [s EXCEPT !.objects[i] = o]
  BY <1>1 DEF Stored
<1>3. Sound(t)
  BY <1>1, StoredSound
<1>4. Keeps(m, s, i) /\ Good(s, i, o)
  OBVIOUS
<1>. HIDE DEF s, o
<1>5. /\ t.table = s.table /\ t.flash = s.flash /\ t.live = s.live /\ t.status = s.status
      /\ t.objects = [s.objects EXCEPT ![i] = o] /\ s.objects \in [Inos -> Objects \cup {NoObject}]
  BY <1>1, <1>2 DEF States
<1>6. t.objects[i] = o /\ \A k \in Inos : k # i => t.objects[k] = m.objects[k]
  BY <1>1, <1>5
<1>7. ObjectOf(t, i) = o /\ \A k \in Inos : k # i => ObjectOf(t, k) = ObjectOf(m, k)
  BY <1>1, <1>6 DEF ObjectOf
<1>8. Running(t) /\ Marked(t)
  BY <1>1, <1>5 DEF Running, Marked, Use, Below
<1>9. ASSUME NEW k \in Inos, k \in t.live
      PROVE  Good(t, k, ObjectOf(t, k))
  <2>1. CASE k = i
    BY <1>4, <1>5, <1>7, <2>1, GoodSame
  <2>2. CASE k # i
    <3>. DEFINE x == ObjectOf(m, k)
                S == Members(x.entries)
    <3>1. Good(m, k, x) /\ ObjectOf(t, k) = x
      BY <1>1, <1>5, <1>7, <1>9, <2>2 DEF Kept
    <3>. HIDE DEF x
    <3>2. Own(m, k, S)
      BY <3>1 DEF Good, Whole
    <3>. HIDE DEF S
    <3>3. Own(s, k, S)
      BY <1>4, <2>2, <3>2, OwnKept
    <3>4. Good(s, k, x)
      BY <3>1, <3>3 DEF Good, Whole, S
    <3>. QED BY <1>5, <3>1, <3>4, GoodSame
  <2>. QED BY <2>1, <2>2
<1>10. \A k \in Inos : k \notin t.live => t.objects[k] = NoObject
  BY <1>1, <1>5, <1>6 DEF Kept
<1>. QED BY <1>1, <1>3, <1>5, <1>7, <1>8, <1>9, <1>10 DEF Kept, s, o

(* A write leaves the inode's extents in order.                              *)
LEMMA WrittenGood ==
  ASSUME NEW m, NEW i \in Inos, NEW obj, Good(m, i, obj), NEW off \in Nat, NEW val \in Seq(ByteSet),
         Len(val) > 0, off <= obj.size, off + Len(val) <= MaxLen,
         i \in Directories => off = obj.size /\ Len(val) = RecordLen,
         NEW r, r.obj \in Objects, NEW d, NEW acc, ByWrite(d, acc, m, obj, off, val, i, r)
  PROVE  Keeps(m, r.m, i) /\ Good(r.m, i, r.obj)
<1>. DEFINE es == d.es
            s == r.obj.entries
            fin == off + Len(val)
            z == EndAt(es, 0, Len(es))
<1>1. /\ Edit(d) /\ NewIs(d) /\ Keeps(m, d.m, i) /\ d.i = i /\ es = obj.entries /\ d.off = off /\ d.fin = fin
      /\ Written(d, acc, r.m, s) /\ r.obj.size = EndAt(s, 0, Len(s))
  BY DEF ByWrite
<1>2. /\ Keeps(d.m, r.m, i) /\ Own(r.m, i, Members(s)) /\ Tiled(s, 0) /\ EndAt(s, 0, Len(s)) = Larger(fin, z)
      /\ s = Spliced(es, d.a, d.b, acc.head, d.new, acc.tail) /\ HeadKept(d, acc) /\ TailKept(d, acc)
  BY <1>1 DEF Written
<1>3. Keeps(m, r.m, i)
  BY <1>1, <1>2, KeepsTrans
<1>4. Tiled(es, 0) /\ Spans(es, off, fin, d.a, d.b) /\ z = obj.size /\ obj.size <= MaxLen
  BY <1>1 DEF Edit, Good, Whole
<1>5. Len(es) \in Nat /\ z \in Nat /\ fin \in Nat /\ off < fin /\ fin <= MaxLen
  <2>1. Len(es) \in Nat /\ Len(es) \in 0 .. Len(es)
    BY <1>4, TiledIs
  <2>2. EndAt(es, 0, Len(es)) \in Nat
    <3>. HIDE DEF es
    <3>. QED BY <1>4, <2>1, TiledOrder
  <2>. QED BY <2>1, <2>2
<1>6. r.obj.size <= MaxLen
  BY <1>1, <1>2, <1>4 DEF Larger
<1>7. ASSUME i \in Directories
      PROVE  \A e \in Members(s) : e.len = RecordLen
  <2>. DEFINE N == Len(es)
  <2>1. off = z /\ Len(val) = RecordLen
    BY <1>4, <1>7
  <2>2. /\ d.a \in 0 .. N /\ d.b \in d.a .. N
        /\ d.a < d.b => off < EndAt(es, 0, d.a + 1)
        /\ d.a = d.b => d.a = N
    BY <1>4 DEF Spans
  <2>3. d.a = N /\ d.b = N
    <3>1. ASSUME d.a < d.b PROVE FALSE
      <4>1. d.a + 1 \in 0 .. N /\ d.a + 1 <= N /\ N \in 0 .. N
        BY <1>5, <2>2, <3>1
      <4>2. EndAt(es, 0, d.a + 1) <= z /\ EndAt(es, 0, d.a + 1) \in Nat
        <5>. HIDE DEF es
        <5>. QED BY <1>4, <4>1, TiledOrder
      <4>. QED BY <1>5, <2>1, <2>2, <3>1, <4>2
    <3>. QED BY <1>5, <2>2, <3>1
  <2>4. acc.head = <<>>
    <3>1. HeadLen(d.es, d.off, d.a) = 0
      <4>1. HeadLen(es, off, d.a) = off - z
        BY <2>3 DEF HeadLen
      <4>. QED BY <1>1, <1>5, <2>1, <4>1
    <3>. QED BY <1>2, <3>1 DEF HeadKept, Piece
  <2>5. acc.tail = <<>>
    <3>1. TailLen(d.es, d.fin, d.b) = 0
      <4>1. TailLen(es, fin, d.b) = Larger(0, z - fin)
        BY <2>3 DEF TailLen
      <4>2. 0 >= z - fin
        BY <1>5, <2>1
      <4>. QED BY <1>1, <4>1, <4>2 DEF Larger
    <3>. QED BY <1>2, <3>1 DEF TailKept, Piece
  <2>6. d.new \in Entry /\ d.new.len = RecordLen
    BY <1>1, <1>5, <2>1 DEF NewIs
  <2>7. es \in Seq(Entry)
    BY <1>4 DEF Tiled
  <2>8. s = es \o <<d.new>>
    <3>. DEFINE new == d.new
    <3>1. s = SubSeq(es, 1, N) \o (<<>> \o <<new>> \o <<>>) \o SubSeq(es, N + 1, N)
      BY <1>2, <2>3, <2>4, <2>5 DEF Spliced
    <3>2. new \in Entry
      BY <2>6
    <3>. HIDE DEF es, new, s
    <3>3. SubSeq(es, 1, N) = es
      BY <2>7
    <3>4. SubSeq(es, N + 1, N) = <<>>
      BY <1>5, <2>7
    <3>. SUFFICES s = es \o <<new>>
      BY DEF new
    <3>. QED
      <4>1. <<>> \o <<new>> \o <<>> = <<new>>
        BY <3>2
      <4>2. es \o <<new>> \o <<>> = es \o <<new>>
        BY <2>7, <3>2
      <4>. QED BY <3>1, <3>3, <3>4, <4>1, <4>2
  <2>9. \A e \in Members(es) : e.len = RecordLen
    BY <1>1, <1>7 DEF Good, Records
  <2>10. \A e \in Members(s) : e \in Members(es) \/ e = d.new
    <3>1. Len(s) = N + 1 /\ \A k \in 1 .. N + 1 : s[k] = IF k <= N THEN es[k] ELSE d.new
      <4>. DEFINE new == d.new
      <4>1. new \in Entry /\ s = es \o <<new>> /\ N = Len(es) /\ es \in Seq(Entry)
        BY <2>6, <2>7, <2>8
      <4>. HIDE DEF new, es, s, N
      <4>2. <<new>> \in Seq(Entry) /\ Len(<<new>>) = 1 /\ <<new>>[1] = new
        BY <4>1
      <4>3. Len(s) = N + 1 /\ \A k \in 1 .. N + 1 : s[k] = IF k <= N THEN es[k] ELSE <<new>>[k - N]
        BY <4>1, <4>2
      <4>4. \A k \in 1 .. N + 1 : ~(k <= N) => k - N = 1
        BY <1>5, <4>1
      <4>5. \A k \in 1 .. N + 1 : s[k] = IF k <= N THEN es[k] ELSE new
        BY <4>2, <4>3, <4>4
      <4>. QED BY <4>3, <4>5 DEF new
    <3>2. \A k \in 1 .. N + 1 : k <= N => k \in 1 .. N
      BY <1>5
    <3>. QED BY <3>1, <3>2 DEF Members
  <2>. QED BY <2>6, <2>9, <2>10
<1>. QED BY <1>1, <1>2, <1>3, <1>6, <1>7 DEF Good, Whole, Records

(* So does the removal of a record.                                          *)
LEMMA RemovedGood ==
  ASSUME NEW a, NEW m, NEW obj, NEW off, NEW i \in Inos, NEW r, ByRemoval(a, m, obj, off, RecordLen, i, r)
  PROVE  Keeps(m, r.m, i) /\ Good(r.m, i, r.obj)
BY DEF ByRemoval, Good, Records

(* An edit of no bytes at the start hits no entry.                           *)
LEMMA NothingCut ==
  ASSUME NEW m, Sound(m), NEW i \in Inos, NEW obj \in Objects, Tiled(obj.entries, 0),
         NEW r, r = DeleteDataObject(m, obj, 0, 0, i)
  PROVE  r.m = m /\ r = [m |-> r.m, obj |-> r.obj]
<1>. DEFINE es == obj.entries
            acc == CutHits(m, obj, 0, 0, i)
            N == Len(es)
<1>1. r = [m |-> r.m, obj |-> r.obj]
  BY DEF DeleteDataObject, Shortened
<1>2. CASE 0 >= obj.size
  BY <1>1, <1>2 DEF DeleteDataObject
<1>3. CASE ~(0 >= obj.size)
  <2>1. r.m = acc.m
    <3>1. r = Shortened(CutHits(m, obj, 0, 0 + 0, i), obj, 0, 0) /\ 0 + 0 = 0
      BY <1>3 DEF DeleteDataObject
    <3>. QED BY <3>1 DEF Shortened
  <2>2. PICK f : CutSteps(f, m, es, 0, 0, i, acc)
    BY CutHitsIs
  <2>3. N \in Nat
    BY TiledIs
  <2>4. ASSUME NEW k \in 1 .. N PROVE f[k] = f[k - 1]
    <3>1. es[k].offset \in Int /\ ~(es[k].offset < 0)
      <4>1. es[k] \in Entry /\ es[k].offset = EndAt(es, 0, k - 1) /\ k - 1 \in 0 .. Len(es)
        BY <2>3, TiledIs
      <4>. HIDE DEF es
      <4>2. EndAt(es, 0, k - 1) \in Nat
        BY <4>1, TiledOrder DEF es
      <4>. QED BY <4>1, <4>2
    <3>2. f[k] = CutEntry(f[k - 1], k, es[k], 0, 0, i)
      BY <2>2 DEF CutSteps
    <3>. QED BY <3>1, <3>2 DEF CutEntry, Hit
  <2>. DEFINE G == {k \in 0 .. N : f[k] = Loop(m)}
  <2>5. 0 \in G
    BY <2>2, <2>3 DEF CutSteps
  <2>6. ASSUME NEW k \in 1 .. N, k - 1 \in G PROVE k \in G
    BY <2>3, <2>4, <2>6
  <2>7. \A k \in 0 .. N : k \in G
    <3>. HIDE DEF G, N
    <3>. QED BY <2>3, <2>5, <2>6, UpTo
  <2>8. acc = Loop(m)
    BY <2>2, <2>3, <2>7 DEF CutSteps
  <2>. HIDE DEF acc
  <2>. QED BY <1>1, <2>1, <2>8 DEF Loop
<1>. QED BY <1>2, <1>3

(* A deleted inode has no object any more; its pages stay in use.            *)
LEMMA DeletedKept ==
  ASSUME NEW m, Kept(m), NEW i \in Inos, NEW t, t \in States, t.table = m.table, t.flash = m.flash,
         t.status = m.status, t.objects = [m.objects EXCEPT ![i] = NoObject], t.live = m.live \ {i}
  PROVE  Kept(t)
<1>1. Running(t) /\ Marked(t)
  BY DEF Kept, Running, Marked, Use, Below
<1>2. m.objects \in [Inos -> Objects \cup {NoObject}]
  BY DEF Kept, Sound, States
<1>3. t.objects[i] = NoObject /\ \A k \in Inos : k # i => t.objects[k] = m.objects[k]
  BY <1>2
<1>4. Sound(t)
  <2>1. OnlyLive(t)
    BY <1>3 DEF Kept, OnlyLive
  <2>. QED BY <1>1, <2>1 DEF Kept, Sound, Reserved, BlankAbove
<1>5. ASSUME NEW k \in Inos, k \in t.live
      PROVE  Good(t, k, ObjectOf(t, k))
  <2>. DEFINE x == ObjectOf(m, k)
  <2>1. k # i /\ k \in m.live
    BY <1>5
  <2>2. ObjectOf(t, k) = x /\ Good(m, k, x)
    BY <1>3, <2>1 DEF ObjectOf, Kept
  <2>. HIDE DEF x
  <2>. QED BY <2>2, GoodSame
<1>6. \A k \in Inos : k \notin t.live => t.objects[k] = NoObject
  BY <1>3 DEF Kept
<1>. QED BY <1>4, <1>1, <1>5, <1>6 DEF Kept

-----------------------------------------------------------------------------
(* The calls, without collecting and cutting.                                *)

LEMMA BecomeIs ==
  ASSUME NEW m, m \in States, Become(m)
  PROVE  State' = m
<1>1. m = [table |-> m.table, flash |-> m.flash, objects |-> m.objects, live |-> m.live,
           status |-> m.status]
  BY DEF States
<1>. QED BY <1>1 DEF Become, State

LEMMA InitKept ==
  ASSUME Init PROVE Kept(State)
<1>1. Sound(State)
  BY InitSound
<1>2. /\ Running(State) /\ \A i \in Inos : objects[i] = NoObject
      /\ State.objects = objects /\ State.live = live /\ State.table = table
  BY DEF Init, State, Running
<1>3. \A a \in Pages : Use(State, a) = Clean
  <2>1. TAKE a \in Pages
  <2>2. BlockOf(a) \in Blocks /\ OffsetOf(a) \in Offsets
    BY AddressIs
  <2>3. State.table[BlockOf(a)] = CleanBlock
    BY <1>2, <2>2 DEF Init
  <2>4. CleanBlock.used_map[OffsetOf(a)] = Clean
    BY <2>2 DEF CleanBlock
  <2>. QED BY <2>3, <2>4 DEF Use
<1>4. \A a \in Pages : Use(State, a) \notin Inos
  BY <1>3, BlockInfoAssumption
<1>5. Marked(State)
  BY <1>4 DEF Marked
<1>6. ASSUME NEW i \in Inos
      PROVE  Good(State, i, ObjectOf(State, i))
  <2>1. ObjectOf(State, i) = EmptyObject
    BY <1>2 DEF ObjectOf
  <2>2. Own(State, i, {})
    BY <1>4 DEF Own
  <2>3. EmptyObject.size <= MaxLen
    BY EmptyIs, KVManagerAssumption
  <2>. QED BY <2>1, <2>2, <2>3, EmptyIs DEF Good, Whole, Records
<1>. QED BY <1>1, <1>2, <1>5, <1>6 DEF Kept

(* How a write on i came about: nothing is stored beyond the end.            *)
Stores(i, off, val, r) ==
  /\ r = SetDataObject(State, ObjectOf(State, i), off, val, i)
  /\ State' = Stored(r, i) /\ Keeps(State, r.m, i) /\ Good(r.m, i, r.obj)
  /\ off > SizeOf(i) => r.m = State /\ r.obj = ObjectOf(State, i)
  /\ off <= SizeOf(i) => \E d, acc : ByWrite(d, acc, State, ObjectOf(State, i), off, val, i, r)

LEMMA SetStep ==
  ASSUME ~Collecting, Kept(State), NEW i \in Inos, NEW off \in Nat, NEW val \in Seq(ByteSet), Len(val) > 0,
         SetInodeData(i, off, val)
  PROVE  i \in live /\ \E r : Stores(i, off, val, r)
<1>. DEFINE m == State
            obj == ObjectOf(m, i)
            r == SetDataObject(m, obj, off, val, i)
<1>1. /\ Become(Stored(r, i)) /\ i \in live /\ off + Len(val) <= MaxLen
      /\ i \in Directories => off = obj.size /\ Len(val) = RecordLen
  BY DEF SetInodeData, MayWrite, SizeOf
<1>2. Fits(m)
  BY DEF SetInodeData, FitsUncollected, Fits, State
<1>3. m.live = live /\ SizeOf(i) = obj.size
  BY DEF State, SizeOf
<1>. HIDE DEF m
<1>4. Sound(m) /\ Running(m) /\ Marked(m) /\ Good(m, i, obj)
  BY <1>1, <1>3 DEF Kept, m
<1>. HIDE DEF obj
<1>5. Whole(m, i, obj) /\ obj \in Objects
  BY <1>4 DEF Good, Whole
<1>6. Sound(r.m) /\ r.obj \in Objects /\ i \in r.m.live
  BY <1>1, <1>3, <1>4, <1>5, SetDataObjectSound, SMTT(60)
<1>7. obj.size \in Int
  BY <1>5 DEF Objects
<1>8. /\ Keeps(m, r.m, i) /\ Good(r.m, i, r.obj)
      /\ off > obj.size => r.m = m /\ r.obj = obj
      /\ off <= obj.size => \E d, acc : ByWrite(d, acc, m, obj, off, val, i, r)
  <2>1. CASE off > obj.size
    <3>1. r = [m |-> m, obj |-> obj]
      BY <2>1 DEF SetDataObject
    <3>2. r.m = m /\ r.obj = obj /\ ~(off <= obj.size)
      BY <1>7, <2>1, <3>1
    <3>. HIDE DEF r
    <3>. QED BY <1>4, <3>2, KeepsSelf
  <2>2. CASE ~(off > obj.size)
    <3>1. off <= obj.size /\ r = SetDataObject(m, obj, off, val, i)
      BY <1>7, <2>2
    <3>. HIDE DEF r
    <3>2. PICK d, acc : ByWrite(d, acc, m, obj, off, val, i, r)
      BY <1>1, <1>2, <1>4, <1>5, <3>1, SetDone
    <3>3. Keeps(m, r.m, i) /\ Good(r.m, i, r.obj)
      BY <1>1, <1>4, <1>6, <3>1, <3>2, WrittenGood
    <3>. QED BY <2>2, <3>1, <3>2, <3>3
  <2>. QED BY <2>1, <2>2
<1>9. r = SetDataObject(m, obj, off, val, i)
  OBVIOUS
<1>. HIDE DEF r
<1>10. Stored(r, i) \in States
  <2>. DEFINE t == Stored(r, i)
  <2>1. t = Stored(r, i) /\ r.obj \in Objects \cup {NoObject}
    BY <1>6
  <2>. HIDE DEF t
  <2>2. Sound(t)
    BY <1>6, <2>1, StoredSound
  <2>. QED BY <2>1, <2>2 DEF Sound
<1>11. State' = Stored(r, i)
  BY <1>1, <1>10, BecomeIs
<1>. QED BY <1>1, <1>3, <1>8, <1>9, <1>11 DEF Stores, m, obj

(* How a record was taken from i.                                            *)
Removes(i, off, r) ==
  /\ State' = Stored(r, i) /\ Keeps(State, r.m, i) /\ Good(r.m, i, r.obj)
  /\ off + RecordLen <= SizeOf(i)
  /\ \E a : ByRemoval(a, State, ObjectOf(State, i), off, RecordLen, i, r)

LEMMA RemoveStep ==
  ASSUME ~Cutting, Kept(State), NEW i \in Inos, NEW off \in Nat, NEW n \in Nat, DeleteInodeData(i, off, n)
  PROVE  i \in live /\ n = RecordLen /\ \E r : Removes(i, off, r)
<1>. DEFINE m == State
            obj == ObjectOf(m, i)
            r == DeleteDataObject(m, obj, off, n, i)
<1>1. /\ Become(DeleteAt(i, off, n)) /\ i \in live
      /\ i \in Directories /\ n = RecordLen /\ off % n = 0 /\ off + n <= SizeOf(i)
  BY DEF DeleteInodeData, MayRemove
<1>2. m.live = live /\ SizeOf(i) = obj.size /\ m.objects = objects
  BY DEF State, SizeOf
<1>3. n \in Nat \ {0}
  BY <1>1, KVManagerAssumption
<1>4. objects[i] # NoObject
  <2>1. ASSUME objects[i] = NoObject PROVE FALSE
    <3>1. obj.size = 0
      BY <1>2, <2>1, EmptyIs DEF ObjectOf
    <3>. QED BY <1>1, <1>2, <1>3, <3>1
  <2>. QED BY <2>1
<1>5. obj = objects[i]
  BY <1>2, <1>4 DEF ObjectOf
<1>6. DeleteAt(i, off, n) = Stored(r, i)
  BY <1>3, <1>4, <1>5 DEF DeleteAt, Removed
<1>. HIDE DEF m
<1>7. Sound(m) /\ Running(m) /\ Marked(m) /\ Good(m, i, obj)
  BY <1>1, <1>2 DEF Kept, m
<1>. HIDE DEF obj
<1>8. Whole(m, i, obj) /\ obj \in Objects /\ \A e \in Members(obj.entries) : e.len = n
  BY <1>1, <1>7 DEF Good, Whole, Records
<1>9. off + n <= obj.size /\ r = DeleteDataObject(m, obj, off, n, i)
  BY <1>1, <1>2
<1>10. Sound(r.m) /\ r.obj \in Objects /\ i \in r.m.live
  BY <1>1, <1>2, <1>7, <1>8, DeleteDataObjectSound
<1>. HIDE DEF r
<1>11. PICK a : ByRemoval(a, m, obj, off, n, i, r)
  BY <1>1, <1>3, <1>7, <1>8, <1>9, RecordRemoved
<1>12. Keeps(m, r.m, i) /\ Good(r.m, i, r.obj)
  BY <1>1, <1>11, RemovedGood
<1>13. Stored(r, i) \in States
  <2>. DEFINE t == Stored(r, i)
  <2>1. t = Stored(r, i) /\ r.obj \in Objects \cup {NoObject}
    BY <1>10
  <2>. HIDE DEF t
  <2>2. Sound(t)
    BY <1>10, <2>1, StoredSound
  <2>. QED BY <2>1, <2>2 DEF Sound
<1>14. State' = Stored(r, i)
  BY <1>1, <1>6, <1>13, BecomeIs
<1>. QED BY <1>1, <1>11, <1>12, <1>14 DEF Removes, m, obj

LEMMA DeleteStep ==
  ASSUME Kept(State), NEW i \in Inos, DeleteInode(i)
  PROVE  /\ Kept(State') /\ i \in live
         /\ State'.flash = flash /\ State'.objects = [objects EXCEPT ![i] = NoObject]
<1>. DEFINE m == State
            t == [DeleteAt(i, 0, 0) EXCEPT !.live = @ \ {i}]
<1>1. Become(t) /\ i \in live
  BY DEF DeleteInode
<1>2. m.live = live /\ m.objects = objects /\ m.flash = flash
  BY DEF State
<1>3. m \in States /\ Sound(m) /\ Running(m) /\ Good(m, i, ObjectOf(m, i))
  BY <1>1, <1>2 DEF Kept, Sound
<1>4. DeleteAt(i, 0, 0) = [m EXCEPT !.objects[i] = NoObject]
  <2>1. CASE objects[i] = NoObject
    <3>1. DeleteAt(i, 0, 0) = m
      BY <2>1 DEF DeleteAt
    <3>2. m.objects[i] = NoObject
      BY <1>2, <2>1
    <3>. HIDE DEF m
    <3>. QED BY <1>3, <3>1, <3>2 DEF States
  <2>2. CASE objects[i] # NoObject
    <3>. DEFINE obj == objects[i]
                r == DeleteDataObject(m, obj, 0, 0, i)
    <3>1. ObjectOf(m, i) = obj
      BY <1>2, <2>2 DEF ObjectOf
    <3>2. obj \in Objects /\ Tiled(obj.entries, 0)
      BY <1>3, <3>1 DEF Good, Whole
    <3>3. DeleteAt(i, 0, 0) = Stored([r EXCEPT !.obj = NoObject], i)
      BY <2>2 DEF DeleteAt, Removed
    <3>. HIDE DEF obj, m
    <3>4. r.m = m /\ r = [m |-> r.m, obj |-> r.obj]
      BY <1>3, <3>2, NothingCut
    <3>. HIDE DEF r
    <3>5. [r EXCEPT !.obj = NoObject] = [m |-> m, obj |-> NoObject]
      BY <3>4
    <3>. QED BY <1>3, <3>3, <3>5 DEF Stored
  <2>. QED BY <2>1, <2>2
<1>. HIDE DEF m
<1>5. /\ t \in States /\ t.table = m.table /\ t.flash = m.flash /\ t.status = m.status
      /\ t.objects = [m.objects EXCEPT ![i] = NoObject] /\ t.live = m.live \ {i}
  BY <1>3, <1>4 DEF States
<1>. HIDE DEF t
<1>6. Kept(m)
  BY DEF m
<1>7. Kept(t)
  BY <1>5, <1>6, DeletedKept
<1>8. State' = t
  BY <1>1, <1>5, BecomeIs
<1>. QED BY <1>1, <1>2, <1>5, <1>7, <1>8

(* Every call, and every way it may leave early, keeps all objects so.        *)
THEOREM NextKept == ~Collecting /\ ~Cutting => (Kept(State) /\ [Next]_vars => Kept(State)')
<1>. SUFFICES ASSUME ~Collecting, ~Cutting, Kept(State), [Next]_vars PROVE Kept(State')
  OBVIOUS
<1>1. ASSUME NEW i \in Inos, NEW off \in 0..MaxLen, NEW n \in 1..MaxLen, NEW b \in Bytes,
             SetInodeData(i, off, [j \in 1..n |-> b])
      PROVE  Kept(State')
  <2>. DEFINE val == [j \in 1..n |-> b]
  <2>1. val \in Seq(ByteSet) /\ Len(val) > 0 /\ off \in Nat
    BY KVManagerAssumption DEF ByteSet
  <2>2. SetInodeData(i, off, val)
    BY <1>1
  <2>. HIDE DEF val
  <2>3. PICK r : Stores(i, off, val, r)
    BY <2>1, <2>2, SetStep
  <2>4. i \in State.live
    BY <2>1, <2>2, SetStep DEF State
  <2>. QED BY <2>3, <2>4, StoredKept DEF Stores
<1>2. ASSUME NEW i \in Inos, NEW off \in 0..MaxLen, NEW n \in 0..MaxLen, DeleteInodeData(i, off, n)
      PROVE  Kept(State')
  <2>1. off \in Nat /\ n \in Nat
    BY KVManagerAssumption
  <2>2. PICK r : Removes(i, off, r)
    BY <1>2, <2>1, RemoveStep
  <2>3. i \in State.live
    BY <1>2, <2>1, RemoveStep DEF State
  <2>. QED BY <2>2, <2>3, StoredKept DEF Removes
<1>3. ASSUME NEW i \in Inos, DeleteInode(i)
      PROVE  Kept(State')
  BY <1>3, DeleteStep
<1>4. CASE UNCHANGED vars
  <2>1. State' = State
    BY <1>4 DEF vars, State
  <2>. QED BY <2>1
<1>. QED BY <1>1, <1>2, <1>3, <1>4 DEF Next

(* The object of a live inode.                                               *)
LEMMA KeptIs1 ==
  ASSUME Kept(State), NEW i \in Inos, objects[i] # NoObject
  PROVE  i \in live /\ ObjectOf(State, i) = objects[i] /\ Good(State, i, objects[i])
<1>1. ObjectOf(State, i) = objects[i] /\ State.objects = objects /\ State.live = live
  BY DEF ObjectOf, State
<1>. QED BY <1>1 DEF Kept

(* The extents of an object follow one another from offset 0 to its size.    *)
THEOREM ExtentsStayTiled == ~Collecting /\ ~Cutting => (Spec => []ExtentsTile)
<1>. SUFFICES ASSUME ~Collecting, ~Cutting PROVE Spec => []ExtentsTile
  OBVIOUS
<1>1. Init => Kept(State)
  BY InitKept
<1>2. Kept(State) /\ [Next]_vars => Kept(State)'
  BY NextKept
<1>3. Kept(State) => ExtentsTile
  <2>. SUFFICES ASSUME Kept(State), NEW i \in Inos, objects[i] # NoObject
                PROVE  LET es == objects[i].entries IN
                       /\ \A k \in DOMAIN es :
                            es[k].offset = IF k = 1 THEN 0 ELSE es[k - 1].offset + es[k - 1].len
                       /\ objects[i].size = IF es = <<>> THEN 0 ELSE Last(es).offset + Last(es).len
    BY DEF ExtentsTile
  <2>. DEFINE o == objects[i]
              es == o.entries
  <2>1. Tiled(es, 0) /\ o.size = EndAt(es, 0, Len(es))
    BY KeptIs1 DEF Good, Whole
  <2>. HIDE DEF o
  <2>2. es \in Seq(Entry) /\ Len(es) \in Nat
    BY <2>1, TiledIs
  <2>3. \A k \in DOMAIN es : es[k].offset = IF k = 1 THEN 0 ELSE es[k - 1].offset + es[k - 1].len
    BY <2>1, <2>2 DEF Tiled, End
  <2>4. o.size = IF es = <<>> THEN 0 ELSE Last(es).offset + Last(es).len
    BY <2>1, <2>2 DEF EndAt, End, Last
  <2>. QED BY <2>3, <2>4 DEF o
<1>. QED BY <1>1, <1>2, <1>3, PTL DEF Spec

LEMMA ExtentIs ==
  ASSUME Kept(State), NEW x \in Extents
  PROVE  /\ x[1] \in Inos /\ x[1] \in live /\ objects[x[1]] # NoObject
         /\ x[2] \in 1 .. Len(objects[x[1]].entries)
         /\ ExtentAt(x) \in Members(objects[x[1]].entries)
         /\ Good(State, x[1], objects[x[1]])
<1>1. x[1] \in Inos /\ objects[x[1]] # NoObject /\ x[2] \in DOMAIN objects[x[1]].entries
  BY DEF Extents
<1>2. x[1] \in live /\ Good(State, x[1], objects[x[1]])
  BY <1>1, KeptIs1
<1>3. objects[x[1]].entries \in Seq(Entry)
  BY <1>2 DEF Good, Whole, Tiled
<1>4. x[2] \in 1 .. Len(objects[x[1]].entries)
  BY <1>1, <1>3
<1>. QED BY <1>1, <1>2, <1>4 DEF ExtentAt, Members

(* The pages in use by an inode that exists are those of its extents, each   *)
(* in one of them: no extent shares a page with another.                     *)
THEOREM PagesStayOwned == ~Collecting /\ ~Cutting => (Spec => []PagesOwned)
<1>. SUFFICES ASSUME ~Collecting, ~Cutting PROVE Spec => []PagesOwned
  OBVIOUS
<1>1. Init => Kept(State)
  BY InitKept
<1>2. Kept(State) /\ [Next]_vars => Kept(State)'
  BY NextKept
<1>3. Kept(State) => PagesOwned
  <2>. SUFFICES ASSUME Kept(State) PROVE PagesOwned
    OBVIOUS
  <2>0. \A a : Use(State, a) = table[BlockOf(a)].used_map[OffsetOf(a)]
    BY DEF Use, State
  <2>1. ASSUME NEW x \in Extents
        PROVE  /\ PagesOf(ExtentAt(x)) \subseteq Pages
               /\ \A a \in PagesOf(ExtentAt(x)) : Use(State, a) = x[1]
    BY ExtentIs DEF Good, Whole, Own
  <2>2. ASSUME NEW x \in Extents, NEW y \in Extents, x # y
        PROVE  PagesOf(ExtentAt(x)) \cap PagesOf(ExtentAt(y)) = {}
    <3>1. CASE x[1] # y[1]
      BY <2>1, <3>1
    <3>2. CASE x[1] = y[1]
      <4>. DEFINE i == x[1]
                  es == objects[i].entries
                  j == x[2]
                  k == y[2]
      <4>1. j # k
        <5>1. x = <<x[1], x[2]>> /\ y = <<y[1], y[2]>>
          BY DEF Extents
        <5>. QED BY <2>2, <3>2, <5>1
      <4>2. /\ j \in 1 .. Len(es) /\ k \in 1 .. Len(es) /\ ExtentAt(x) = es[j] /\ ExtentAt(y) = es[k]
            /\ ExtentAt(x) \in Members(es) /\ ExtentAt(y) \in Members(es)
            /\ Tiled(es, 0) /\ Own(State, i, Members(es))
        BY <3>2, ExtentIs DEF ExtentAt, Good, Whole
      <4>3. es[j] # es[k]
        <5>. HIDE DEF es, j, k
        <5>. QED BY <4>1, <4>2, TiledDistinct
      <4>. QED BY <4>2, <4>3 DEF Own
    <3>. QED BY <3>1, <3>2
  <2>3. ASSUME NEW a \in Pages, NEW i \in live, Use(State, a) = i
        PROVE  \E x \in Extents : x[1] = i /\ a \in PagesOf(ExtentAt(x))
    <3>. DEFINE o == ObjectOf(State, i)
    <3>1. i \in Inos /\ Good(State, i, o)
      BY DEF Kept, Sound, States, State
    <3>2. PICK e \in Members(o.entries) : a \in PagesOf(e)
      BY <2>3, <3>1 DEF Good, Whole, Own
    <3>3. objects[i] # NoObject /\ o = objects[i]
      <4>1. ASSUME objects[i] = NoObject PROVE FALSE
        <5>1. o = EmptyObject
          BY <4>1 DEF ObjectOf, State
        <5>. QED BY <3>2, <5>1, EmptyIs
      <4>. QED BY <4>1 DEF ObjectOf, State
    <3>4. PICK k \in 1 .. Len(o.entries) : e = o.entries[k]
      BY <3>2 DEF Members
    <3>. DEFINE es == o.entries
    <3>5. Tiled(es, 0)
      BY <3>1 DEF Good, Whole
    <3>. HIDE DEF o
    <3>6. es \in Seq(Entry)
      BY <3>5, TiledIs
    <3>7. k \in DOMAIN es
      BY <3>6
    <3>. DEFINE x == <<i, k>>
    <3>8. x[1] = i /\ x[2] = k /\ x \in {i} \X DOMAIN es
      BY <3>7
    <3>9. x \in Extents
      BY <3>1, <3>3, <3>8 DEF Extents
    <3>. HIDE DEF x
    <3>10. ExtentAt(x) = e
      BY <3>3, <3>4, <3>8 DEF ExtentAt
    <3>11. a \in PagesOf(ExtentAt(x))
      BY <3>2, <3>10
    <3>. QED BY <3>8, <3>9, <3>11
  <2>4. \A a \in Pages, i \in live :
          Use(State, a) = i <=> \E x \in Extents : x[1] = i /\ a \in PagesOf(ExtentAt(x))
    BY <2>1, <2>3
  <2>. QED BY <2>0, <2>1, <2>2, <2>4 DEF PagesOwned, ExtentsDisjoint
<1>. QED BY <1>1, <1>2, <1>3, PTL DEF Spec

-----------------------------------------------------------------------------
(* The bytes of an object: what its extents hold, each at its offset.        *)

Reads(m, es, c) ==
  /\ c \in Seq(ByteSet) /\ Len(c) = EndAt(es, 0, Len(es))
  /\ \A e \in Members(es) : \A q \in 1 .. e.len : c[e.offset + q] = ReadEntry(m, e)[q]

Text(m, es) == FoldLeft(LAMBDA acc, e : acc \o ReadEntry(m, e), <<>>, es)

TextSteps(f, m, es) ==
  /\ f \in [0 .. Len(es) -> Seq(ByteSet)]
  /\ f[0] = <<>> /\ f[Len(es)] = Text(m, es)
  /\ \A k \in 1 .. Len(es) : f[k] = f[k - 1] \o ReadEntry(m, es[k])

LEMMA TextIs ==
  ASSUME NEW m \in States, NEW es \in Seq(Entry)
  PROVE  \E f : TextSteps(f, m, es)
<1>. DEFINE n == Len(es)
            U == Seq(ByteSet)
            G == [x \in U \X (1 .. n) |-> x[1] \o ReadEntry(m, es[x[2]])]
            Def(it) == [s \in SUBSET DOMAIN es |->
                         IF s = {} THEN <<>> ELSE it[s \ {Max(s)}] \o ReadEntry(m, es[Max(s)])]
            iter == CHOOSE it : it = Def(it)
<1>1. n \in Nat
  OBVIOUS
<1>2. Text(m, es) = iter[DOMAIN es]
  BY DEF Text, FoldLeft, MapThenFoldSet
<1>3. DOMAIN es = 1 .. n
  OBVIOUS
<1>4. \A k \in 1 .. n : ReadEntry(m, es[k]) \in Seq(ByteSet)
  BY ReadEntryTyped
<1>. HIDE DEF n
<1>5. G \in [U \X (1 .. n) -> U] /\ <<>> \in U
  <2>1. \A x \in U \X (1 .. n) : x[1] \o ReadEntry(m, es[x[2]]) \in U
    BY <1>4
  <2>. HIDE DEF U
  <2>2. G \in [U \X (1 .. n) -> U]
    BY <2>1
  <2>. QED BY <2>2 DEF U
<1>. HIDE DEF U
<1>6. PICK h : Folds(h, U, <<>>, G, n)
  <2>. HIDE DEF G
  <2>. QED BY <1>1, <1>5, FoldExists
<1>7. h = Def(h)
  BY <1>1, <1>3, <1>6, MaxIn DEF Folds
<1>8. iter = Def(iter)
  BY <1>7
<1>. HIDE DEF iter
<1>9. Recurs(iter, U, <<>>, G, n)
  BY <1>1, <1>3, <1>8, MaxIn DEF Recurs
<1>10. Walks(Walk(iter, n), U, <<>>, G, n) /\ Walk(iter, n)[n] = iter[1 .. n]
  <2>. HIDE DEF G, Def
  <2>. QED BY <1>1, <1>5, <1>9, WalkOf
<1>. DEFINE f == Walk(iter, n)
<1>. HIDE DEF f
<1>11. /\ f \in [0 .. n -> U] /\ f[0] = <<>> /\ f[n] = Text(m, es)
       /\ \A k \in 1 .. n : f[k] = G[<<f[k - 1], k>>]
  BY <1>2, <1>3, <1>10 DEF Walks, f
<1>12. \A k \in 1 .. n : f[k] = f[k - 1] \o ReadEntry(m, es[k])
  <2>1. \A k \in 1 .. n : k - 1 \in 0 .. n
    BY <1>1
  <2>. QED BY <1>11, <2>1
<1>13. TextSteps(f, m, es)
  BY <1>11, <1>12 DEF TextSteps, n, U
<1>. QED BY <1>13

LEMMA JoinAt ==
  ASSUME NEW u \in Seq(ByteSet), NEW v \in Seq(ByteSet)
  PROVE  /\ u \o v \in Seq(ByteSet) /\ Len(u \o v) = Len(u) + Len(v)
         /\ \A p \in 1 .. Len(u) : (u \o v)[p] = u[p]
         /\ \A q \in 1 .. Len(v) : (u \o v)[Len(u) + q] = v[q]
<1>. DEFINE S == ByteSet
<1>1. u \in Seq(S) /\ v \in Seq(S)
  OBVIOUS
<1>. HIDE DEF S
<1>2. u \o v \in Seq(S) /\ Len(u \o v) = Len(u) + Len(v)
  BY <1>1
<1>3. \A p \in 1 .. Len(u) : (u \o v)[p] = u[p]
  BY <1>1
<1>4. \A q \in 1 .. Len(v) : (u \o v)[Len(u) + q] = v[q]
  BY <1>1
<1>. QED BY <1>2, <1>3, <1>4 DEF S

(* Where the extents follow one another, each byte is that of one of them.   *)
LEMMA EachIn ==
  ASSUME NEW es, Tiled(es, 0), NEW p \in 1 .. EndAt(es, 0, Len(es))
  PROVE  \E e \in Members(es) : \E q \in 1 .. e.len : p = e.offset + q
<1>. DEFINE n == Len(es)
            E(k) == EndAt(es, 0, k)
            In(x) == \E j \in 1 .. n : \E q \in 1 .. es[j].len : x = es[j].offset + q
            G == {k \in 0 .. n : \A x \in 1 .. E(k) : In(x)}
<1>1. /\ n \in Nat /\ E(0) = 0 /\ \A k \in 0 .. n : E(k) \in Nat
      /\ \A k \in 1 .. n : es[k].offset = E(k - 1) /\ E(k) = E(k - 1) + es[k].len /\ es[k].len \in Nat
  <2>1. /\ n \in Nat /\ E(0) = 0
        /\ \A k \in 1 .. n : es[k] \in Entry /\ es[k].offset = E(k - 1) /\ E(k) = End(es[k])
    BY TiledIs
  <2>2. \A k \in 0 .. n : E(k) \in Nat
    BY TiledOrder
  <2>. QED BY <2>1, <2>2, EntryFields
<1>. HIDE DEF E
<1>2. 0 \in G
  BY <1>1
<1>3. ASSUME NEW k \in 1 .. n, k - 1 \in G PROVE k \in G
  <2>1. k \in 0 .. n /\ k - 1 \in 0 .. n
    BY <1>1
  <2>2. ASSUME NEW x \in 1 .. E(k) PROVE In(x)
    <3>1. CASE x <= E(k - 1)
      <4>1. x \in 1 .. E(k - 1)
        BY <1>1, <2>1, <3>1
      <4>. QED BY <1>3, <4>1
    <3>2. CASE ~(x <= E(k - 1))
      <4>. DEFINE q == x - es[k].offset
      <4>1. q \in 1 .. es[k].len /\ x = es[k].offset + q
        BY <1>1, <2>1, <3>2
      <4>. HIDE DEF q
      <4>. QED BY <4>1
    <3>. QED BY <3>1, <3>2
  <2>. HIDE DEF In
  <2>. QED BY <2>1, <2>2
<1>4. \A k \in 0 .. n : k \in G
  <2>. HIDE DEF G, n
  <2>. QED BY <1>1, <1>2, <1>3, UpTo
<1>5. In(p)
  <2>1. n \in 0 .. n
    BY <1>1
  <2>. HIDE DEF In
  <2>. QED BY <1>4, <2>1 DEF E
<1>. QED BY <1>5 DEF Members

LEMMA SameBytes ==
  ASSUME NEW c \in Seq(ByteSet), NEW d \in Seq(ByteSet), Len(c) = Len(d), \A p \in 1 .. Len(c) : c[p] = d[p]
  PROVE  c = d
<1>. DEFINE S == ByteSet
<1>1. c \in Seq(S) /\ d \in Seq(S)
  OBVIOUS
<1>. HIDE DEF S
<1>2. c = [p \in 1 .. Len(c) |-> c[p]] /\ d = [p \in 1 .. Len(d) |-> d[p]]
  BY <1>1
<1>. QED BY <1>2

LEMMA ReadsOne ==
  ASSUME NEW m, NEW es, Tiled(es, 0), NEW c, Reads(m, es, c), NEW d, Reads(m, es, d)
  PROVE  c = d
<1>1. Len(c) = Len(d) /\ c \in Seq(ByteSet) /\ d \in Seq(ByteSet) /\ Len(c) = EndAt(es, 0, Len(es))
  BY DEF Reads
<1>2. \A p \in 1 .. Len(c) : c[p] = d[p]
  <2>1. TAKE p \in 1 .. Len(c)
  <2>2. PICK e \in Members(es) : \E q \in 1 .. e.len : p = e.offset + q
    BY <1>1, EachIn
  <2>. QED BY <2>2 DEF Reads
<1>. QED BY <1>1, <1>2, SameBytes

LEMMA TextReads ==
  ASSUME NEW m \in States, NEW es, Tiled(es, 0)
  PROVE  Reads(m, es, Text(m, es))
<1>. DEFINE n == Len(es)
            E(k) == EndAt(es, 0, k)
            R(j) == ReadEntry(m, es[j])
<1>1. es \in Seq(Entry) /\ n \in Nat
  BY TiledIs
<1>2. PICK f : TextSteps(f, m, es)
  BY <1>1, TextIs
<1>3. /\ f \in [0 .. n -> Seq(ByteSet)] /\ f[0] = <<>> /\ f[n] = Text(m, es)
      /\ \A k \in 1 .. n : f[k] = f[k - 1] \o R(k)
  BY <1>2 DEF TextSteps
<1>4. /\ E(0) = 0 /\ \A k \in 0 .. n : E(k) \in Nat
      /\ \A k \in 1 .. n : /\ es[k].offset = E(k - 1) /\ E(k) = E(k - 1) + es[k].len /\ es[k].len \in Nat
                           /\ R(k) \in Seq(ByteSet) /\ Len(R(k)) = es[k].len
      /\ \A j, k \in 0 .. n : j <= k => E(j) <= E(k)
  <2>1. /\ E(0) = 0
        /\ \A k \in 1 .. n : /\ es[k] \in Entry /\ es[k].offset = E(k - 1) /\ E(k) = End(es[k])
                             /\ es[k].archived_len = es[k].len
    BY TiledIs
  <2>2. \A k \in 0 .. n : E(k) \in Nat
    BY TiledOrder
  <2>3. \A k \in 1 .. n : R(k) \in Seq(ByteSet) /\ Len(R(k)) = es[k].len
    BY <2>1, ReadEntryTyped
  <2>4. \A j, k \in 0 .. n : j <= k => E(j) <= E(k)
    BY TiledOrder
  <2>. QED BY <2>1, <2>2, <2>3, <2>4, EntryFields
<1>. HIDE DEF E, R
<1>. DEFINE P(k) == /\ Len(f[k]) = E(k)
                    /\ \A j \in 1 .. k : \A q \in 1 .. es[j].len : f[k][es[j].offset + q] = R(j)[q]
            G == {k \in 0 .. n : P(k)}
<1>5. 0 \in G
  BY <1>1, <1>3, <1>4
<1>6. ASSUME NEW k \in 1 .. n, k - 1 \in G PROVE k \in G
  <2>1. k \in 0 .. n /\ k - 1 \in 0 .. n /\ P(k - 1)
    BY <1>1, <1>6
  <2>. DEFINE u == f[k - 1]
              v == R(k)
              l == es[k].len
  <2>2. /\ u \in Seq(ByteSet) /\ v \in Seq(ByteSet) /\ f[k] = u \o v /\ Len(u) = E(k - 1) /\ Len(v) = l
        /\ E(k) = E(k - 1) + l /\ es[k].offset = E(k - 1)
    BY <1>3, <1>4, <2>1
  <2>3. /\ Len(f[k]) = E(k)
        /\ \A p \in 1 .. E(k - 1) : f[k][p] = u[p]
        /\ \A q \in 1 .. l : f[k][E(k - 1) + q] = v[q]
    <3>. HIDE DEF u, v
    <3>1. /\ Len(u \o v) = Len(u) + Len(v)
          /\ \A p \in 1 .. Len(u) : (u \o v)[p] = u[p]
          /\ \A q \in 1 .. Len(v) : (u \o v)[Len(u) + q] = v[q]
      BY <2>2, JoinAt
    <3>. QED BY <2>2, <3>1
  <2>4. ASSUME NEW j \in 1 .. k, NEW q \in 1 .. es[j].len
        PROVE  f[k][es[j].offset + q] = R(j)[q]
    <3>1. CASE j = k
      BY <2>2, <2>3, <3>1
    <3>2. CASE j # k
      <4>1. j \in 1 .. k - 1 /\ j \in 1 .. n /\ j \in 0 .. n /\ j - 1 \in 0 .. n /\ j <= k - 1
        BY <1>1, <3>2
      <4>2. u[es[j].offset + q] = R(j)[q]
        BY <2>1, <4>1
      <4>3. es[j].offset + q \in 1 .. E(k - 1)
        <5>. DEFINE x == E(j - 1)
                    y == E(j)
                    z == E(k - 1)
                    w == es[j].len
        <5>1. x \in Nat /\ y \in Nat /\ z \in Nat /\ w \in Nat /\ y = x + w /\ y <= z /\ es[j].offset = x /\ q \in 1 .. w
          BY <1>4, <2>1, <4>1
        <5>. HIDE DEF x, y, z, w
        <5>2. x + q \in 1 .. z
          BY <5>1
        <5>. QED BY <5>1, <5>2 DEF z
      <4>. QED BY <2>3, <4>2, <4>3
    <3>. QED BY <3>1, <3>2
  <2>. QED BY <2>1, <2>3, <2>4
<1>7. \A k \in 0 .. n : k \in G
  <2>. HIDE DEF G, n
  <2>. QED BY <1>1, <1>5, <1>6, UpTo
<1>8. P(n) /\ n \in 0 .. n
  BY <1>1, <1>7
<1>. QED BY <1>3, <1>8 DEF Reads, Members, E, R

-----------------------------------------------------------------------------
(* What a write makes of the bytes.                                          *)

LEMMA SubIs ==
  ASSUME NEW c \in Seq(ByteSet), NEW a \in 0 .. Len(c), NEW b \in a .. Len(c)
  PROVE  /\ SubSeq(c, a + 1, b) \in Seq(ByteSet) /\ Len(SubSeq(c, a + 1, b)) = b - a
         /\ \A p \in 1 .. b - a : SubSeq(c, a + 1, b)[p] = c[a + p]
<1>. DEFINE S == ByteSet
<1>1. c \in Seq(S) /\ Len(c) \in Nat
  OBVIOUS
<1>. HIDE DEF S
<1>2. a \in Nat /\ b \in Nat /\ a <= b /\ b <= Len(c)
  BY <1>1
<1>3. SubSeq(c, a + 1, b) \in Seq(S) /\ Len(SubSeq(c, a + 1, b)) = b - a
  BY <1>1, <1>2
<1>4. \A p \in 1 .. b - a : SubSeq(c, a + 1, b)[p] = c[a + p]
  BY <1>1, <1>2
<1>. QED BY <1>3, <1>4 DEF S

LEMMA NoneLeft ==
  ASSUME NEW c \in Seq(ByteSet), NEW a \in Nat, a >= Len(c)
  PROVE  SubSeq(c, a + 1, Len(c)) = <<>>
<1>1. Len(c) \in Nat /\ a + 1 > Len(c)
  OBVIOUS
<1>. QED BY <1>1

Joins(w, u, v, x) == w = u \o v \o x

(* Three parts, one after the other.                                         *)
LEMMA ThreeParts ==
  ASSUME NEW u \in Seq(ByteSet), NEW v \in Seq(ByteSet), NEW x \in Seq(ByteSet), NEW w, Joins(w, u, v, x)
  PROVE  /\ w \in Seq(ByteSet) /\ Len(w) = Len(u) + Len(v) + Len(x)
         /\ \A p \in 1 .. Len(u) : w[p] = u[p]
         /\ \A p \in 1 .. Len(v) : w[Len(u) + p] = v[p]
         /\ \A p \in 1 .. Len(x) : w[Len(u) + Len(v) + p] = x[p]
<1>. DEFINE y == u \o v
<1>1. /\ y \in Seq(ByteSet) /\ Len(y) = Len(u) + Len(v)
      /\ \A p \in 1 .. Len(u) : y[p] = u[p]
      /\ \A q \in 1 .. Len(v) : y[Len(u) + q] = v[q]
  BY JoinAt
<1>2. w = y \o x
  BY DEF Joins
<1>. HIDE DEF y
<1>3. /\ w \in Seq(ByteSet) /\ Len(w) = Len(y) + Len(x)
      /\ \A p \in 1 .. Len(y) : w[p] = y[p]
      /\ \A q \in 1 .. Len(x) : w[Len(y) + q] = x[q]
  <2>1. y \in Seq(ByteSet)
    BY <1>1
  <2>2. /\ y \o x \in Seq(ByteSet) /\ Len(y \o x) = Len(y) + Len(x)
        /\ \A p \in 1 .. Len(y) : (y \o x)[p] = y[p]
        /\ \A q \in 1 .. Len(x) : (y \o x)[Len(y) + q] = x[q]
    BY <2>1, JoinAt
  <2>. QED BY <1>2, <2>2
<1>4. Len(u) \in Nat /\ Len(v) \in Nat
  OBVIOUS
<1>5. /\ \A p \in 1 .. Len(u) : p \in 1 .. Len(y)
      /\ \A p \in 1 .. Len(v) : Len(u) + p \in 1 .. Len(y)
  BY <1>1, <1>4
<1>. QED BY <1>1, <1>3, <1>5

Overwrites(w, c, off, val, fin) == w = FS!Overwrite(c, off, val) /\ fin = off + Len(val)

LEMMA OverwriteIs ==
  ASSUME NEW c \in Seq(ByteSet), NEW val \in Seq(ByteSet), NEW off \in 0 .. Len(c),
         NEW fin, NEW w, Overwrites(w, c, off, val, fin)
  PROVE  /\ w \in Seq(ByteSet) /\ Len(w) = Larger(fin, Len(c))
         /\ \A p \in 1 .. off : w[p] = c[p]
         /\ \A q \in 1 .. Len(val) : w[off + q] = val[q]
         /\ \A p \in fin + 1 .. Len(c) : w[p] = c[p]
<1>. DEFINE u == SubSeq(c, 1, off)
            x == SubSeq(c, fin + 1, Len(c))
            n == Len(c)
<1>0. fin = off + Len(val)
  BY DEF Overwrites
<1>1. Joins(w, u, val, x)
  BY <1>0 DEF FS!Overwrite, Joins, Overwrites
<1>2. n \in Nat /\ off \in Nat /\ off <= n /\ Len(val) \in Nat /\ fin \in Nat
  BY <1>0
<1>3. u \in Seq(ByteSet) /\ Len(u) = off /\ \A p \in 1 .. off : u[p] = c[p]
  <2>1. 0 \in 0 .. Len(c) /\ off \in 0 .. Len(c)
    BY <1>2
  <2>2. /\ SubSeq(c, 0 + 1, off) \in Seq(ByteSet) /\ Len(SubSeq(c, 0 + 1, off)) = off - 0
        /\ \A p \in 1 .. off - 0 : SubSeq(c, 0 + 1, off)[p] = c[0 + p]
    BY <2>1, SubIs
  <2>3. off - 0 = off /\ 0 + 1 = 1 /\ \A p \in 1 .. off : 0 + p = p
    BY <1>2
  <2>. QED BY <2>2, <2>3
<1>4. x \in Seq(ByteSet) /\ Len(x) = Larger(fin, n) - fin /\ \A p \in 1 .. Len(x) : x[p] = c[fin + p]
  <2>1. CASE fin >= n
    <3>1. x = <<>>
      BY <1>2, <2>1, NoneLeft
    <3>2. Len(<<>>) = 0 /\ <<>> \in Seq(ByteSet) /\ fin - fin = 0
      BY <1>2
    <3>3. Larger(fin, n) = fin
      BY <2>1 DEF Larger
    <3>. HIDE DEF x, n
    <3>. QED BY <3>1, <3>2, <3>3
  <2>2. CASE ~(fin >= n)
    <3>1. fin \in 0 .. Len(c) /\ Len(c) \in fin .. Len(c)
      BY <1>2, <2>2
    <3>2. Larger(fin, n) = n
      BY <2>2 DEF Larger
    <3>3. /\ x \in Seq(ByteSet) /\ Len(x) = n - fin
          /\ \A p \in 1 .. n - fin : x[p] = c[fin + p]
      BY <3>1, SubIs
    <3>. HIDE DEF x, n
    <3>. QED BY <3>2, <3>3
  <2>. QED BY <2>1, <2>2
<1>5. Larger(fin, n) \in Nat /\ Larger(fin, n) >= n /\ Larger(fin, n) >= fin
  BY <1>2 DEF Larger
<1>. HIDE DEF u, x, n
<1>6. /\ w \in Seq(ByteSet) /\ Len(w) = Len(u) + Len(val) + Len(x)
      /\ \A p \in 1 .. Len(u) : w[p] = u[p]
      /\ \A p \in 1 .. Len(val) : w[Len(u) + p] = val[p]
      /\ \A p \in 1 .. Len(x) : w[Len(u) + Len(val) + p] = x[p]
  <2>1. u \in Seq(ByteSet) /\ x \in Seq(ByteSet)
    BY <1>3, <1>4
  <2>. QED BY <1>1, <2>1, ThreeParts
<1>7. Len(w) = Larger(fin, n)
  <2>. DEFINE y == Larger(fin, n)
              l == Len(val)
  <2>1. y \in Nat /\ l \in Nat /\ fin = off + l /\ Len(w) = off + l + (y - fin)
    BY <1>0, <1>2, <1>3, <1>4, <1>5, <1>6
  <2>. HIDE DEF y, l
  <2>2. Len(w) = y
    BY <1>2, <2>1
  <2>. QED BY <2>2 DEF y
<1>8. \A p \in 1 .. off : w[p] = c[p]
  BY <1>3, <1>6
<1>9. \A q \in 1 .. Len(val) : w[off + q] = val[q]
  BY <1>3, <1>6
<1>10. ASSUME NEW p \in fin + 1 .. n PROVE w[p] = c[p]
  <2>1. p - fin \in 1 .. Len(x) /\ fin + (p - fin) = p
    <3>. DEFINE y == Larger(fin, n)
    <3>1. y \in Nat /\ y >= n /\ Len(x) = y - fin
      BY <1>4, <1>5
    <3>. HIDE DEF y
    <3>. QED BY <1>2, <3>1
  <2>2. Len(u) + Len(val) = fin
    BY <1>0, <1>3
  <2>3. w[fin + (p - fin)] = x[p - fin] /\ x[p - fin] = c[fin + (p - fin)]
    BY <1>4, <1>6, <2>1, <2>2
  <2>. QED BY <2>1, <2>3
<1>. QED BY <1>6, <1>7, <1>8, <1>9, <1>10 DEF n

Parts(H, T, es, off, fin, a, b) == H = HeadLen(es, off, a) /\ T = TailLen(es, fin, b)

LEMMA SpanBounds ==
  ASSUME NEW es, Tiled(es, 0), NEW off \in Nat, NEW fin \in Nat, off < fin, off <= EndAt(es, 0, Len(es)),
         NEW a, NEW b, Spans(es, off, fin, a, b), NEW H, NEW T, Parts(H, T, es, off, fin, a, b)
  PROVE  /\ H \in Nat /\ T \in Nat /\ EndAt(es, 0, a) \in Nat /\ EndAt(es, 0, a) + H = off
         /\ H > 0 => /\ a < b /\ a + 1 \in 1 .. Len(es) /\ es[a + 1].offset = EndAt(es, 0, a)
                     /\ H <= es[a + 1].len
         /\ T > 0 => /\ a < b /\ b \in 1 .. Len(es) /\ T <= es[b].len /\ es[b].offset + es[b].len = fin + T
         /\ \A j \in 1 .. Len(es) : /\ es[j].offset \in Nat /\ es[j].len \in Nat
                                    /\ j <= a => es[j].offset + es[j].len <= off
                                    /\ b < j => fin <= es[j].offset
<1>. DEFINE n == Len(es)
            E(k) == EndAt(es, 0, k)
<1>1. /\ n \in Nat /\ \A j \in 1 .. n : es[j].offset = E(j - 1) /\ es[j].offset + es[j].len = E(j) /\ es[j].len \in Nat
  <2>1. n \in Nat /\ \A j \in 1 .. n : es[j] \in Entry /\ es[j].offset = E(j - 1) /\ End(es[j]) = E(j)
    BY TiledIs
  <2>. QED BY <2>1, EntryFields
<1>2. /\ \A k \in 0 .. n : E(k) \in Nat
      /\ \A i, k \in 0 .. n : i <= k => E(i) <= E(k)
  BY TiledOrder
<1>3. /\ a \in 0 .. n /\ b \in a .. n /\ E(a) <= off
      /\ (a < b => off < E(a + 1) /\ E(b - 1) < fin)
      /\ (b < n => fin <= E(b)) /\ (a = b => a = n)
  BY DEF Spans
<1>4. off <= E(n)
  OBVIOUS
<1>5. H = off - E(a) /\ T = IF 0 >= E(b) - fin THEN 0 ELSE E(b) - fin
  BY DEF HeadLen, TailLen, Larger, Parts
<1>. HIDE DEF E
<1>6. a \in Nat /\ b \in Nat /\ b \in 0 .. n /\ E(a) \in Nat /\ E(b) \in Nat /\ E(n) \in Nat
  BY <1>1, <1>2, <1>3
<1>7. H \in Nat /\ T \in Nat /\ E(a) + H = off
  BY <1>3, <1>5, <1>6
<1>8. ASSUME H > 0 PROVE a < b /\ a + 1 \in 1 .. n /\ es[a + 1].offset = E(a) /\ H <= es[a + 1].len
  <2>1. a < b
    BY <1>3, <1>4, <1>5, <1>6, <1>8
  <2>2. a + 1 \in 1 .. n /\ a + 1 \in 0 .. n /\ (a + 1) - 1 = a
    BY <1>1, <1>3, <1>6, <2>1
  <2>. DEFINE x == E(a + 1)
              l == es[a + 1].len
  <2>3. x \in Nat /\ l \in Nat /\ E(a) + l = x /\ es[a + 1].offset = E(a) /\ off < x
    BY <1>1, <1>2, <1>3, <2>1, <2>2
  <2>. HIDE DEF x, l
  <2>4. H <= l
    BY <1>5, <1>6, <2>3
  <2>. QED BY <2>1, <2>2, <2>3, <2>4 DEF l
<1>9. ASSUME T > 0 PROVE a < b /\ b \in 1 .. n /\ T <= es[b].len /\ es[b].offset + es[b].len = fin + T
  <2>1. a < b
    <3>1. T = E(b) - fin
      BY <1>5, <1>9
    <3>. QED BY <1>3, <1>4, <1>6, <1>9, <3>1
  <2>2. b \in 1 .. n /\ b - 1 \in 0 .. n
    BY <1>1, <1>3, <1>6, <2>1
  <2>. DEFINE x == E(b - 1)
              l == es[b].len
  <2>3. x \in Nat /\ l \in Nat /\ x + l = E(b) /\ es[b].offset + es[b].len = E(b) /\ x < fin
    BY <1>1, <1>2, <1>3, <2>1, <2>2
  <2>4. T = E(b) - fin
    BY <1>5, <1>9
  <2>. HIDE DEF x
  <2>5. T <= l /\ fin + T = E(b)
    <3>. HIDE DEF l
    <3>. QED BY <1>6, <2>3, <2>4
  <2>. QED BY <2>1, <2>2, <2>3, <2>5
<1>10. ASSUME NEW j \in 1 .. n
       PROVE  /\ es[j].offset \in Nat /\ es[j].len \in Nat
              /\ j <= a => es[j].offset + es[j].len <= off
              /\ b < j => fin <= es[j].offset
  <2>1. j \in 0 .. n /\ j - 1 \in 0 .. n
    BY <1>1
  <2>2. ASSUME j <= a PROVE E(j) <= off
    BY <1>2, <1>3, <1>6, <2>1, <2>2
  <2>3. ASSUME b < j PROVE fin <= E(j - 1)
    <3>1. b < n /\ b <= j - 1
      BY <1>1, <1>6, <2>3
    <3>2. E(b) <= E(j - 1) /\ E(j - 1) \in Nat
      BY <1>2, <1>6, <2>1, <3>1
    <3>. QED BY <1>3, <1>6, <3>1, <3>2
  <2>. QED BY <1>1, <1>2, <2>1, <2>2, <2>3
<1>. QED BY <1>6, <1>7, <1>8, <1>9, <1>10 DEF E

LEMMA WriteReads ==
  ASSUME NEW m \in States, Marked(m), NEW i \in Inos, NEW obj, Good(m, i, obj), NEW off \in Nat,
         NEW val \in Seq(ByteSet), Len(val) > 0, off <= obj.size, NEW r, NEW d, NEW acc, ByWrite(d, acc, m, obj, off, val, i, r),
         NEW c, Reads(m, obj.entries, c)
  PROVE  Reads(r.m, r.obj.entries, FS!Overwrite(c, off, val))
<1>. DEFINE es == d.es
            s == r.obj.entries
            t == r.m
            fin == off + Len(val)
            a == d.a
            b == d.b
            H == HeadLen(es, off, a)
            T == TailLen(es, fin, b)
            E(k) == EndAt(es, 0, k)
            N == Len(es)
            w == FS!Overwrite(c, off, val)
<1>1. /\ Edit(d) /\ NewIs(d) /\ Keeps(m, d.m, i) /\ ReadEntry(d.m, d.new) = val
      /\ d.i = i /\ es = obj.entries /\ d.off = off /\ d.fin = fin /\ Written(d, acc, t, s)
  BY DEF ByWrite
<1>2. /\ Keeps(d.m, t, i) /\ Own(t, i, Members(s)) /\ Tiled(s, 0) /\ EndAt(s, 0, Len(s)) = Larger(fin, E(N))
      /\ s = Spliced(es, a, b, acc.head, d.new, acc.tail) /\ HeadKept(d, acc) /\ TailKept(d, acc) /\ t = acc.m
  BY <1>1 DEF Written
<1>3. /\ Tiled(es, 0) /\ Spans(es, off, fin, a, b) /\ Own(m, i, Members(es)) /\ E(N) = obj.size
      /\ Own(d.m, i, Members(es) \cup {d.new}) /\ Marked(d.m)
  BY <1>1 DEF Edit, Good, Whole
<1>4. /\ d.new \in Entry /\ d.new.offset = off /\ d.new.len = fin - off /\ d.new.archived_len = d.new.len
  BY <1>1 DEF NewIs
<1>5. /\ Piece(t, acc.head, H, E(a), HeadPart(d)) /\ Piece(t, acc.tail, T, fin, TailPart(d))
  BY <1>1, <1>2 DEF HeadKept, TailKept
<1>6. /\ c \in Seq(ByteSet) /\ Len(c) = E(N)
      /\ \A e \in Members(es) : \A q \in 1 .. e.len : c[e.offset + q] = ReadEntry(m, e)[q]
  BY <1>1 DEF Reads
<1>7. Len(val) \in Nat /\ fin \in Nat /\ off < fin /\ off \in 0 .. Len(c) /\ fin - off = Len(val) /\ N \in Nat
  <2>1. Len(c) \in Nat /\ N \in Nat
    BY <1>3, <1>6, TiledIs
  <2>. QED BY <1>3, <1>6, <2>1
<1>8. Keeps(m, t, i)
  BY <1>1, <1>2, KeepsTrans
<1>9. /\ w \in Seq(ByteSet) /\ Len(w) = Larger(fin, Len(c))
      /\ \A p \in 1 .. off : w[p] = c[p]
      /\ \A q \in 1 .. Len(val) : w[off + q] = val[q]
      /\ \A p \in fin + 1 .. Len(c) : w[p] = c[p]
  <2>1. Overwrites(w, c, off, val, fin) /\ c \in Seq(ByteSet)
    BY <1>6 DEF Overwrites
  <2>. HIDE DEF w, fin
  <2>. QED BY <1>7, <2>1, OverwriteIs
<1>. HIDE DEF w, t
<1>10. /\ H \in Nat /\ T \in Nat /\ E(a) \in Nat /\ E(a) + H = off
       /\ (H > 0 => /\ a < b /\ a + 1 \in 1 .. N /\ es[a + 1].offset = E(a) /\ H <= es[a + 1].len)
       /\ (T > 0 => /\ a < b /\ b \in 1 .. N /\ T <= es[b].len /\ es[b].offset + es[b].len = fin + T)
       /\ \A j \in 1 .. N : /\ es[j].offset \in Nat /\ es[j].len \in Nat
                            /\ j <= a => es[j].offset + es[j].len <= off
                            /\ b < j => fin <= es[j].offset
  <2>1. off <= EndAt(es, 0, Len(es)) /\ Parts(H, T, es, off, fin, a, b)
    BY <1>3 DEF Parts
  <2>2. Tiled(es, 0) /\ Spans(es, off, fin, a, b) /\ fin \in Nat /\ off < fin
    BY <1>3, <1>7
  <2>. HIDE DEF es, fin, a, b, H, T
  <2>. QED BY <2>1, <2>2, SpanBounds
<1>11. Members(s) = {es[j] : j \in {k \in 1 .. N : ~(a < k /\ k <= b)}}
                      \cup {d.new} \cup Members(acc.head) \cup Members(acc.tail)
  <2>. DEFINE head == acc.head
              tail == acc.tail
              new == d.new
              x == HeadPart(d)
              y == TailPart(d)
  <2>1. /\ off <= EndAt(es, 0, Len(es)) /\ Piece(t, head, HeadLen(es, off, a), EndAt(es, 0, a), x)
        /\ Piece(t, tail, TailLen(es, fin, b), fin, y) /\ s = Spliced(es, a, b, head, new, tail)
        /\ new \in Entry /\ new.offset = off /\ new.len = fin - off /\ new.archived_len = new.len
    BY <1>2, <1>3, <1>4, <1>5
  <2>. HIDE DEF es, fin, a, b, head, tail, new, x, y, s
  <2>2. Members(s) = {es[j] : j \in {k \in 1 .. Len(es) : ~(a < k /\ k <= b)}}
                       \cup {new} \cup Members(head) \cup Members(tail)
    BY <1>3, <1>7, <2>1, SplicedIs
  <2>. QED BY <2>2 DEF head, tail, new
<1>12. ASSUME NEW j \in 1 .. N PROVE ReadEntry(d.m, es[j]) = ReadEntry(m, es[j]) /\ ReadEntry(t, es[j]) = ReadEntry(m, es[j])
  <2>. DEFINE S == Members(es)
              e == es[j]
              v == d.m
  <2>1. e \in S /\ Own(m, i, S) /\ Keeps(m, v, i)
    BY <1>1, <1>3 DEF Members
  <2>. HIDE DEF S, e, v
  <2>2. ReadEntry(t, e) = ReadEntry(m, e) /\ ReadEntry(v, e) = ReadEntry(m, e)
    BY <1>8, <2>1, ReadKept
  <2>. QED BY <2>2 DEF e, v
<1>13. ReadEntry(t, d.new) = val
  <2>. DEFINE S == Members(es) \cup {d.new}
              e == d.new
              v == d.m
  <2>1. e \in S /\ Own(v, i, S) /\ Keeps(v, t, i) /\ Marked(v)
    BY <1>2, <1>3
  <2>. HIDE DEF S, e, v
  <2>2. ReadEntry(t, e) = ReadEntry(v, e)
    BY <2>1, ReadKept
  <2>. QED BY <1>1, <2>2 DEF e, v
<1>14. \A j \in 1 .. N : \A q \in 1 .. es[j].len : c[es[j].offset + q] = ReadEntry(m, es[j])[q]
  BY <1>6 DEF Members
<1>15. \A j \in 1 .. N : es[j] \in Entry /\ es[j].archived_len = es[j].len /\ es[j].offset + es[j].len <= Len(c)
  <2>1. \A j \in 1 .. N : /\ es[j] \in Entry /\ es[j].archived_len = es[j].len
                          /\ es[j].offset + es[j].len = E(j)
    BY <1>3, TiledIs DEF End
  <2>2. \A j, k \in 0 .. N : j <= k => E(j) <= E(k)
    BY <1>3, TiledOrder
  <2>3. \A j \in 1 .. N : j \in 0 .. N /\ N \in 0 .. N /\ j <= N
    BY <1>7
  <2>. QED BY <1>6, <2>1, <2>2, <2>3
<1>. HIDE DEF E, H, T, N, s, fin
(* The entries that are left.                                                *)
<1>16. ASSUME NEW j \in 1 .. N, ~(a < j /\ j <= b), NEW q \in 1 .. es[j].len
       PROVE  w[es[j].offset + q] = ReadEntry(t, es[j])[q]
  <2>1. w[es[j].offset + q] = c[es[j].offset + q]
    <3>. DEFINE x == es[j].offset
                l == es[j].len
    <3>1. x \in Nat /\ l \in Nat /\ x + l <= Len(c) /\ q \in 1 .. l /\ (x + l <= off \/ fin <= x)
      <4>1. j <= a \/ b < j
        <5>1. a \in Int /\ b \in Int /\ j \in Int
          BY <1>3, <1>7 DEF Spans, N
        <5>. QED BY <1>16, <5>1
      <4>. QED BY <1>10, <1>15, <4>1
    <3>2. Len(c) \in Nat
      BY <1>6
    <3>. HIDE DEF x, l
    <3>3. x + q \in 1 .. off \/ x + q \in fin + 1 .. Len(c)
      BY <1>7, <3>1, <3>2
    <3>. QED BY <1>9, <3>3 DEF x
  <2>. QED BY <1>12, <1>14, <2>1
(* The entry written.                                                        *)
<1>17. ASSUME NEW q \in 1 .. d.new.len
       PROVE  w[d.new.offset + q] = ReadEntry(t, d.new)[q]
  BY <1>4, <1>7, <1>9, <1>13
(* The part kept in front.                                                   *)
<1>18. ASSUME NEW e \in Members(acc.head), NEW q \in 1 .. e.len
       PROVE  w[e.offset + q] = ReadEntry(t, e)[q]
  <2>1. H # 0
    <3>1. ASSUME H = 0 PROVE FALSE
      <4>1. acc.head = <<>>
        BY <1>5, <3>1 DEF Piece
      <4>. QED BY <1>18, <4>1, EmptyIs
    <3>. QED BY <3>1
  <2>2. e.offset = E(a) /\ e.len = H /\ ReadEntry(t, e) = HeadPart(d)
    <3>1. PICK f \in Entry : /\ acc.head = <<f>> /\ f.offset = E(a) /\ f.len = H
                             /\ ReadEntry(t, f) = HeadPart(d)
      BY <1>5, <2>1 DEF Piece
    <3>2. e = f
      BY <1>18, <3>1, OneMember
    <3>. QED BY <3>1, <3>2
  <2>. DEFINE j == a + 1
              R == ReadEntry(m, es[j])
              l == es[j].len
  <2>3. j \in 1 .. N /\ es[j].offset = E(a) /\ H <= l /\ H \in Nat
    BY <1>10, <2>1
  <2>4. HeadPart(d) = SubSeq(R, 1, H)
    <3>1. ReadEntry(d.m, es[j]) = R
      BY <1>12, <2>3
    <3>. QED BY <1>1, <3>1 DEF HeadPart, H
  <2>5. R \in Seq(ByteSet) /\ Len(R) = l /\ l \in Nat
    BY <1>10, <1>15, <2>3, ReadEntryTyped
  <2>6. c[E(a) + q] = R[q]
    <3>1. q \in 1 .. l
      BY <2>2, <2>3, <2>5
    <3>. QED BY <1>14, <2>3, <3>1
  <2>7. E(a) + q \in 1 .. off
    BY <1>10, <2>2, <2>3
  <2>. HIDE DEF R
  <2>8. SubSeq(R, 1, H)[q] = R[q]
    <3>1. 0 \in 0 .. Len(R) /\ H \in 0 .. Len(R) /\ 0 + 1 = 1 /\ H - 0 = H /\ 0 + q = q
      BY <2>2, <2>3, <2>5
    <3>2. \A p \in 1 .. H - 0 : SubSeq(R, 0 + 1, H)[p] = R[0 + p]
      BY <2>5, <3>1, SubIs
    <3>. QED BY <2>2, <3>1, <3>2
  <2>. QED BY <1>9, <2>2, <2>4, <2>6, <2>7, <2>8
(* The part kept behind.                                                     *)
<1>19. ASSUME NEW e \in Members(acc.tail), NEW q \in 1 .. e.len
       PROVE  w[e.offset + q] = ReadEntry(t, e)[q]
  <2>1. T # 0
    <3>1. ASSUME T = 0 PROVE FALSE
      <4>1. acc.tail = <<>>
        BY <1>5, <3>1 DEF Piece
      <4>. QED BY <1>19, <4>1, EmptyIs
    <3>. QED BY <3>1
  <2>2. e.offset = fin /\ e.len = T /\ ReadEntry(t, e) = TailPart(d)
    <3>1. PICK f \in Entry : /\ acc.tail = <<f>> /\ f.offset = fin /\ f.len = T
                             /\ ReadEntry(t, f) = TailPart(d)
      BY <1>5, <2>1 DEF Piece
    <3>2. e = f
      BY <1>19, <3>1, OneMember
    <3>. QED BY <3>1, <3>2
  <2>. DEFINE R == ReadEntry(m, es[b])
              l == es[b].len
              x == es[b].offset
  <2>3. b \in 1 .. N /\ x + l = fin + T /\ T <= l /\ T \in Nat /\ l \in Nat /\ x \in Nat
    BY <1>10, <2>1
  <2>4. R \in Seq(ByteSet) /\ Len(R) = l
    BY <1>15, <2>3, ReadEntryTyped
  <2>5. TailPart(d) = SubSeq(R, (l - T) + 1, l)
    <3>1. ReadEntry(d.m, es[b]) = R
      BY <1>12, <2>3
    <3>2. TailPart(d) = TailOf(R, T)
      BY <1>1, <3>1 DEF TailPart, T
    <3>. QED BY <2>4, <3>2 DEF TailOf
  <2>6. c[x + ((l - T) + q)] = R[(l - T) + q]
    <3>1. (l - T) + q \in 1 .. l
      <4>1. q \in 1 .. T /\ T <= l /\ T \in Nat /\ l \in Nat
        BY <2>2, <2>3
      <4>. HIDE DEF l
      <4>. QED BY <4>1
    <3>. QED BY <1>14, <2>3, <3>1
  <2>. HIDE DEF R, l, x
  <2>7. x + ((l - T) + q) = fin + q /\ fin + q \in fin + 1 .. Len(c)
    <3>1. x + l <= Len(c) /\ Len(c) \in Nat
      BY <1>6, <1>15, <2>3 DEF x, l
    <3>. QED BY <1>7, <2>2, <2>3, <3>1
  <2>8. SubSeq(R, (l - T) + 1, l)[q] = R[(l - T) + q]
    <3>. DEFINE z == l - T
    <3>1. z \in 0 .. Len(R) /\ l \in z .. Len(R) /\ l - z = T
      BY <2>3, <2>4
    <3>. HIDE DEF z
    <3>2. \A p \in 1 .. l - z : SubSeq(R, z + 1, l)[p] = R[z + p]
      BY <2>4, <3>1, SubIs
    <3>. QED BY <2>2, <3>1, <3>2 DEF z
  <2>. QED BY <1>9, <2>2, <2>5, <2>6, <2>7, <2>8
<1>20. \A e \in Members(s) : \A q \in 1 .. e.len : w[e.offset + q] = ReadEntry(t, e)[q]
  BY <1>11, <1>16, <1>17, <1>18, <1>19
<1>21. Len(w) = EndAt(s, 0, Len(s))
  BY <1>2, <1>6, <1>9
<1>. QED BY <1>9, <1>20, <1>21 DEF Reads, w, s, t

-----------------------------------------------------------------------------
(* What the removal of a record makes of the bytes.                          *)

Cuts(w, c, off, n) == w = FS!Cut(c, off, n)

LEMMA CutIs ==
  ASSUME NEW c \in Seq(ByteSet), NEW off \in Nat, NEW n \in Nat, off + n <= Len(c), NEW w, Cuts(w, c, off, n)
  PROVE  /\ w \in Seq(ByteSet) /\ Len(w) = Len(c) - n
         /\ \A p \in 1 .. off : w[p] = c[p]
         /\ \A p \in off + 1 .. Len(c) - n : w[p] = c[p + n]
<1>. DEFINE l == Len(c)
            fin == off + n
            u == SubSeq(c, 1, off)
            v == SubSeq(c, fin + 1, l)
<1>1. w = u \o v
  BY DEF Cuts, FS!Cut
<1>2. l \in Nat /\ fin \in Nat /\ fin <= l /\ off <= l /\ fin - off = n
  OBVIOUS
<1>3. u \in Seq(ByteSet) /\ Len(u) = off /\ \A p \in 1 .. off : u[p] = c[p]
  <2>1. 0 \in 0 .. Len(c) /\ off \in 0 .. Len(c)
    BY <1>2
  <2>2. /\ SubSeq(c, 0 + 1, off) \in Seq(ByteSet) /\ Len(SubSeq(c, 0 + 1, off)) = off - 0
        /\ \A p \in 1 .. off - 0 : SubSeq(c, 0 + 1, off)[p] = c[0 + p]
    BY <2>1, SubIs
  <2>3. off - 0 = off /\ 0 + 1 = 1 /\ \A p \in 1 .. off : 0 + p = p
    BY <1>2
  <2>. QED BY <2>2, <2>3
<1>4. v \in Seq(ByteSet) /\ Len(v) = l - fin /\ \A p \in 1 .. l - fin : v[p] = c[fin + p]
  <2>1. fin \in 0 .. Len(c) /\ l \in fin .. Len(c)
    BY <1>2
  <2>. HIDE DEF fin, l
  <2>. QED BY <2>1, SubIs
<1>. HIDE DEF u, v
<1>5. /\ w \in Seq(ByteSet) /\ Len(w) = Len(u) + Len(v)
      /\ \A p \in 1 .. Len(u) : w[p] = u[p]
      /\ \A p \in 1 .. Len(v) : w[Len(u) + p] = v[p]
  <2>1. u \in Seq(ByteSet) /\ v \in Seq(ByteSet)
    BY <1>3, <1>4
  <2>2. /\ u \o v \in Seq(ByteSet) /\ Len(u \o v) = Len(u) + Len(v)
        /\ \A p \in 1 .. Len(u) : (u \o v)[p] = u[p]
        /\ \A p \in 1 .. Len(v) : (u \o v)[Len(u) + p] = v[p]
    BY <2>1, JoinAt
  <2>. QED BY <1>1, <2>2
<1>6. Len(w) = l - n
  BY <1>2, <1>3, <1>4, <1>5
<1>7. ASSUME NEW p \in off + 1 .. l - n PROVE w[p] = c[p + n]
  <2>. DEFINE q == p - off
  <2>1. q \in 1 .. l - fin /\ off + q = p /\ fin + q = p + n
    BY <1>2
  <2>. HIDE DEF q, fin, l
  <2>2. w[off + q] = v[q] /\ v[q] = c[fin + q]
    BY <1>3, <1>4, <1>5, <2>1
  <2>. QED BY <2>1, <2>2
<1>8. \A p \in 1 .. off : w[p] = c[p]
  BY <1>3, <1>5
<1>. QED BY <1>5, <1>6, <1>7, <1>8

LEMMA RemoveReads ==
  ASSUME NEW m \in States, Marked(m), NEW i \in Inos, NEW obj, Good(m, i, obj), NEW off \in Nat,
         NEW n \in Nat \ {0}, NEW r, NEW a, ByRemoval(a, m, obj, off, n, i, r),
         NEW c, Reads(m, obj.entries, c)
  PROVE  Reads(r.m, r.obj.entries, FS!Cut(c, off, n))
<1>. DEFINE es == obj.entries
            s == r.obj.entries
            t == r.m
            w == FS!Cut(c, off, n)
            N == Len(es)
            E(k) == EndAt(es, 0, k)
<1>1. /\ Record(es, a, off, n) /\ Keeps(m, t, i) /\ Tiled(s, 0) /\ Len(s) = N - 1
      /\ \A k \in 1 .. Len(s) : s[k] = Moved(es, a, n, k)
  BY DEF ByRemoval, Whole
<1>2. /\ Tiled(es, 0) /\ a \in 0 .. N /\ a < N /\ E(a) = off /\ E(a + 1) = off + n
  BY <1>1 DEF Record
<1>3. /\ c \in Seq(ByteSet) /\ Len(c) = E(N)
      /\ \A e \in Members(es) : \A q \in 1 .. e.len : c[e.offset + q] = ReadEntry(m, e)[q]
  BY DEF Reads
<1>4. Own(m, i, Members(es))
  BY DEF Good, Whole
<1>5. s \in Seq(Entry) /\ N \in Nat /\ a \in Nat /\ n \in Nat
  BY <1>1, <1>2, TiledIs DEF Tiled
<1>. HIDE DEF s, t, w
<1>6. EndAt(s, 0, Len(s)) = E(N) - n
  <2>1. ClosedUp(s, es, a, n)
    BY <1>1, <1>5 DEF ClosedUp
  <2>2. Record(es, a, off, n)
    BY <1>1
  <2>. HIDE DEF es
  <2>3. EndAt(s, 0, Len(s)) = EndAt(es, 0, Len(es)) - n
    BY <2>1, <2>2, MovedTiled
  <2>. QED BY <2>3
<1>7. /\ \A k \in 0 .. N : E(k) \in Nat
      /\ \A j, k \in 0 .. N : j <= k => E(j) <= E(k)
  BY <1>2, TiledOrder
<1>8. \A j \in 1 .. N : /\ es[j] \in Entry /\ es[j].offset = E(j - 1) /\ es[j].offset + es[j].len = E(j)
                        /\ es[j].len \in Nat /\ es[j].offset \in Int
  <2>1. \A j \in 1 .. N : es[j] \in Entry /\ es[j].offset = E(j - 1) /\ End(es[j]) = E(j)
    BY <1>2, TiledIs
  <2>. QED BY <2>1, EntryFields
<1>9. \A j \in 1 .. N : \A q \in 1 .. es[j].len : c[E(j - 1) + q] = ReadEntry(m, es[j])[q]
  <2>1. \A j \in 1 .. N : \A q \in 1 .. es[j].len : c[es[j].offset + q] = ReadEntry(m, es[j])[q]
    BY <1>3 DEF Members
  <2>. QED BY <1>8, <2>1
<1>10. ASSUME NEW j \in 1 .. N PROVE ReadEntry(t, es[j]) = ReadEntry(m, es[j])
  <2>. DEFINE S == Members(es)
              e == es[j]
  <2>1. e \in S /\ Own(m, i, S) /\ Keeps(m, t, i)
    BY <1>1, <1>4 DEF Members
  <2>. HIDE DEF S, e
  <2>2. ReadEntry(t, e) = ReadEntry(m, e)
    BY <2>1, ReadKept
  <2>. QED BY <2>2 DEF e
<1>. HIDE DEF E
<1>11. off + n <= Len(c) /\ Len(c) \in Nat
  <2>1. a + 1 \in 0 .. N /\ N \in 0 .. N /\ a + 1 <= N
    BY <1>2, <1>5
  <2>. QED BY <1>2, <1>3, <1>7, <2>1
<1>12. /\ w \in Seq(ByteSet) /\ Len(w) = Len(c) - n
       /\ \A p \in 1 .. off : w[p] = c[p]
       /\ \A p \in off + 1 .. Len(c) - n : w[p] = c[p + n]
  <2>1. Cuts(w, c, off, n) /\ c \in Seq(ByteSet)
    BY <1>3 DEF Cuts, w
  <2>. QED BY <1>5, <1>11, <2>1, CutIs
<1>13. ASSUME NEW k \in 1 .. Len(s), NEW q \in 1 .. s[k].len
       PROVE  w[s[k].offset + q] = ReadEntry(t, s[k])[q]
  <2>1. k \in 1 .. N - 1 /\ s[k] = Moved(es, a, n, k)
    BY <1>1
  <2>2. CASE k <= a
    <3>1. k \in 1 .. N /\ k - 1 \in 0 .. N /\ k \in 0 .. N /\ s[k] = es[k]
      BY <1>2, <1>5, <2>1, <2>2 DEF Moved
    <3>. DEFINE l == es[k].len
                x == E(k - 1)
                y == E(k)
    <3>2. l \in Nat /\ x \in Nat /\ y \in Nat /\ x + l = y /\ y <= off /\ q \in 1 .. l /\ es[k].offset = x
      BY <1>2, <1>7, <1>8, <2>2, <3>1
    <3>3. c[x + q] = ReadEntry(m, es[k])[q]
      BY <1>9, <3>1, <3>2
    <3>. HIDE DEF x, y, l
    <3>4. x + q \in 1 .. off
      BY <3>2
    <3>5. w[x + q] = c[x + q]
      BY <1>12, <3>4
    <3>. QED BY <1>10, <3>1, <3>2, <3>3, <3>5
  <2>3. CASE ~(k <= a)
    <3>. DEFINE e == es[k + 1]
                u == [e EXCEPT !.offset = @ - n]
                l == e.len
                x == E(k)
                y == E(k + 1)
    <3>1. k + 1 \in 1 .. N /\ k + 1 \in 0 .. N /\ k \in 0 .. N /\ (k + 1) - 1 = k /\ a + 1 <= k /\ a + 1 \in 0 .. N
          /\ N \in 0 .. N /\ k + 1 <= N
      BY <1>2, <1>5, <2>1, <2>3
    <3>2. s[k] = u
      BY <2>1, <2>3 DEF Moved
    <3>3. e \in Entry
      BY <1>8, <3>1
    <3>4. /\ l \in Nat /\ x \in Nat /\ y \in Nat /\ x + l = y /\ e.offset = x /\ off + n <= x /\ y <= Len(c)
      <4>1. E(a + 1) <= E(k) /\ E(k + 1) <= E(N)
        BY <1>7, <3>1
      <4>. QED BY <1>2, <1>3, <1>7, <1>8, <3>1, <4>1
    <3>5. ReadEntry(t, e) = ReadEntry(m, e) /\ \A z \in 1 .. l : c[x + z] = ReadEntry(m, e)[z]
      BY <1>9, <1>10, <3>1
    <3>. HIDE DEF e
    <3>6. u.len = e.len /\ u.offset = e.offset - n /\ u.page_pointer = e.page_pointer
          /\ u.archived_len = e.archived_len
      BY <1>5, <3>3, EntryShifted
    <3>7. ReadEntry(t, u) = ReadEntry(t, e)
      <4>. HIDE DEF u
      <4>. QED BY <3>6 DEF ReadEntry
    <3>. HIDE DEF u, l, x, y
    <3>8. s[k].offset = x - n /\ q \in 1 .. l
      BY <3>2, <3>4, <3>6 DEF l
    <3>9. (x - n) + q \in off + 1 .. Len(c) - n /\ ((x - n) + q) + n = x + q
      BY <1>5, <1>11, <3>4, <3>8
    <3>10. w[(x - n) + q] = c[x + q]
      BY <1>12, <3>9
    <3>. QED BY <3>2, <3>5, <3>7, <3>8, <3>10
  <2>. QED BY <2>2, <2>3
<1>14. \A e \in Members(s) : \A q \in 1 .. e.len : w[e.offset + q] = ReadEntry(t, e)[q]
  BY <1>13 DEF Members
<1>. QED BY <1>3, <1>6, <1>12, <1>14 DEF Reads, w, s, t

-----------------------------------------------------------------------------
(* The calls on data objects implement FileStore.                            *)

LEMMA ReadByFlash ==
  ASSUME NEW m, NEW t, t.flash = m.flash, NEW e
  PROVE  ReadEntry(t, e) = ReadEntry(m, e)
BY DEF ReadEntry, ReadPage

LEMMA ReadsByFlash ==
  ASSUME NEW m, NEW t, t.flash = m.flash, NEW es, NEW c, Reads(m, es, c)
  PROVE  Reads(t, es, c)
<1>1. \A e : ReadEntry(t, e) = ReadEntry(m, e)
  BY ReadByFlash
<1>. QED BY <1>1 DEF Reads

(* An object read whole.                                                     *)
LEMMA AllReads ==
  ASSUME NEW m, Kept(m), NEW i \in Inos, i \in m.live
  PROVE  Reads(m, ObjectOf(m, i).entries, ReadAll(m, i))
<1>. DEFINE es == ObjectOf(m, i).entries
<1>1. Tiled(es, 0) /\ m \in States
  BY DEF Kept, Good, Whole, Sound
<1>2. CASE m.objects[i] = NoObject
  <2>1. es = <<>> /\ ReadAll(m, i) = <<>>
    BY <1>2, EmptyIs DEF ObjectOf, ReadAll
  <2>2. <<>> \in Seq(ByteSet) /\ Len(<<>>) = 0
    OBVIOUS
  <2>3. EndAt(<<>>, 0, Len(<<>>)) = 0 /\ Members(<<>>) = {}
    BY EmptyIs
  <2>. QED BY <2>1, <2>2, <2>3 DEF Reads
<1>3. CASE m.objects[i] # NoObject
  <2>1. ReadAll(m, i) = Text(m, es)
    BY <1>3 DEF ObjectOf, ReadAll, Text
  <2>. QED BY <1>1, <2>1, TextReads
<1>. QED BY <1>2, <1>3

LEMMA OthersRead ==
  ASSUME NEW m, Kept(m), NEW i \in Inos, NEW s, Keeps(m, s, i), NEW t, Kept(t), t.flash = s.flash,
         NEW k \in Inos, k # i, t.objects[k] = m.objects[k]
  PROVE  ReadAll(t, k) = ReadAll(m, k)
<1>1. CASE m.objects[k] = NoObject
  BY <1>1 DEF ReadAll
<1>2. CASE m.objects[k] # NoObject
  <2>. DEFINE x == ObjectOf(m, k)
              es == x.entries
              S == Members(es)
              c == ReadAll(m, k)
  <2>1. k \in m.live /\ k \in t.live /\ ObjectOf(t, k) = x
    BY <1>2 DEF Kept, ObjectOf
  <2>2. Reads(m, es, c) /\ Reads(t, es, ReadAll(t, k))
    BY <2>1, AllReads
  <2>3. Own(m, k, S) /\ Marked(m) /\ Tiled(es, 0)
    BY <2>1 DEF Kept, Good, Whole
  <2>. HIDE DEF x
  <2>4. \A e \in S : ReadEntry(t, e) = ReadEntry(m, e)
    <3>1. TAKE e \in S
    <3>2. ReadEntry(s, e) = ReadEntry(m, e)
      <4>. HIDE DEF S
      <4>. QED BY <2>3, ReadKept
    <3>. QED BY <3>2, ReadByFlash
  <2>5. Reads(t, es, c)
    BY <2>2, <2>4 DEF Reads
  <2>. HIDE DEF es, c
  <2>6. ReadAll(t, k) = c
    BY <2>2, <2>3, <2>5, ReadsOne
  <2>. QED BY <2>6 DEF c
<1>. QED BY <1>1, <1>2

Texts(m) == [k \in Inos |-> ReadAll(m, k)]

(* Text u is text v but for inode i, whose object now reads w.               *)
Rewritten(u, v, i, w) == u = [v EXCEPT ![i] = w]

(* A call on behalf of inode i, after which its object reads w.              *)
LEMMA TextChanged ==
  ASSUME NEW m, Kept(m), NEW i \in Inos, i \in m.live, NEW r, Keeps(m, r.m, i), Good(r.m, i, r.obj),
         NEW t, t = Stored(r, i), NEW w, Reads(r.m, r.obj.entries, w)
  PROVE  Kept(t) /\ Rewritten(Texts(t), Texts(m), i, w)
<1>1. /\ Kept(t) /\ t.live = m.live /\ t.flash = r.m.flash /\ ObjectOf(t, i) = r.obj
      /\ t.objects = [m.objects EXCEPT ![i] = r.obj]
  BY StoredKept
<1>2. ReadAll(t, i) = w
  <2>. DEFINE es == r.obj.entries
              s == r.m
              c == ReadAll(t, i)
  <2>1. Reads(t, es, c) /\ Tiled(es, 0) /\ Reads(s, es, w) /\ t.flash = s.flash
    <3>1. Reads(t, ObjectOf(t, i).entries, ReadAll(t, i))
      BY <1>1, AllReads
    <3>. QED BY <1>1, <3>1 DEF Good, Whole
  <2>. HIDE DEF es, s, c
  <2>2. Reads(t, es, w)
    BY <2>1, ReadsByFlash
  <2>3. c = w
    BY <2>1, <2>2, ReadsOne
  <2>. QED BY <2>3 DEF c
<1>3. ASSUME NEW k \in Inos, k # i PROVE ReadAll(t, k) = ReadAll(m, k)
  <2>1. t.objects[k] = m.objects[k]
    <3>1. m.objects \in [Inos -> Objects \cup {NoObject}]
      BY DEF Kept, Sound, States
    <3>. QED BY <1>1, <1>3, <3>1
  <2>. DEFINE s == r.m
  <2>2. Keeps(m, s, i) /\ t.flash = s.flash
    BY <1>1
  <2>3. Kept(m) /\ Kept(t)
    BY <1>1
  <2>4. k # i
    BY <1>3
  <2>. HIDE DEF s
  <2>. QED BY <2>1, <2>2, <2>3, <2>4, OthersRead
<1>. QED BY <1>1, <1>2, <1>3 DEF Texts, Rewritten

LEMMA ContentIs == Content = Texts(State) /\ Content' = Texts(State')
BY DEF Content, Texts

(* What a live inode's object holds, and how much of it there is.            *)
LEMMA ContentReads ==
  ASSUME Kept(State), NEW i \in Inos, i \in live
  PROVE  /\ Reads(State, ObjectOf(State, i).entries, Content[i])
         /\ Content[i] \in Seq(ByteSet) /\ Len(Content[i]) = SizeOf(i)
         /\ Good(State, i, ObjectOf(State, i)) /\ State \in States /\ Marked(State)
<1>1. i \in State.live
  BY DEF State
<1>2. Reads(State, ObjectOf(State, i).entries, Content[i])
  BY <1>1, AllReads DEF Content
<1>3. Good(State, i, ObjectOf(State, i)) /\ State \in States /\ Marked(State)
  BY <1>1 DEF Kept, Sound
<1>. QED BY <1>2, <1>3 DEF Reads, Good, Whole, SizeOf

LEMMA WriteImplements ==
  ASSUME ~Collecting, Kept(State), NEW i \in Inos, NEW off \in Nat, NEW val \in Seq(ByteSet), Len(val) > 0,
         SetInodeData(i, off, val)
  PROVE  FS!Write(i, off, val) \/ UNCHANGED Content
<1>1. i \in live
  BY SetStep
<1>2. PICK r : Stores(i, off, val, r)
  BY SetStep
<1>. DEFINE m == State
            obj == ObjectOf(m, i)
            c == Content[i]
            t == State'
<1>3. /\ Reads(m, obj.entries, c) /\ c \in Seq(ByteSet) /\ Len(c) = SizeOf(i) /\ Good(m, i, obj)
      /\ m \in States /\ Marked(m)
  BY <1>1, ContentReads
<1>4. /\ t = Stored(r, i) /\ Keeps(m, r.m, i) /\ Good(r.m, i, r.obj) /\ i \in m.live
      /\ off > SizeOf(i) => r.m = m /\ r.obj = obj
      /\ off <= SizeOf(i) => \E d, acc : ByWrite(d, acc, m, obj, off, val, i, r)
  BY <1>1, <1>2 DEF Stores, State
<1>7. t = Stored(r, i) /\ Keeps(m, r.m, i) /\ Good(r.m, i, r.obj) /\ i \in m.live /\ Kept(m)
  BY <1>4
<1>5. CASE off > SizeOf(i)
  <2>1. Reads(r.m, r.obj.entries, c)
    BY <1>3, <1>4, <1>5
  <2>2. Texts(t) = [Texts(m) EXCEPT ![i] = c]
    <3>1. Rewritten(Texts(t), Texts(m), i, c)
      <4>. HIDE DEF m, t, c, obj
      <4>. QED BY <1>7, <2>1, TextChanged
    <3>. QED BY <3>1 DEF Rewritten
  <2>3. Texts(m)[i] = c /\ Texts(m) = [k \in Inos |-> ReadAll(m, k)]
    BY DEF Content, Texts
  <2>4. Texts(t) = Texts(m)
    <3>. HIDE DEF m, t, c
    <3>. QED BY <2>2, <2>3
  <2>. QED BY <2>4, ContentIs
<1>6. CASE ~(off > SizeOf(i))
  <2>1. off <= Len(c) /\ off <= obj.size
    <3>1. Len(c) \in Nat /\ Len(c) = obj.size
      BY <1>3 DEF SizeOf
    <3>. QED BY <1>3, <1>6, <3>1
  <2>2. PICK d, acc : ByWrite(d, acc, m, obj, off, val, i, r)
    BY <1>3, <1>4, <2>1
  <2>3. Reads(r.m, r.obj.entries, FS!Overwrite(c, off, val))
    <3>. HIDE DEF m, c, obj
    <3>. QED BY <1>3, <2>1, <2>2, WriteReads
  <2>4. Texts(t) = [Texts(m) EXCEPT ![i] = FS!Overwrite(c, off, val)]
    <3>. DEFINE w == FS!Overwrite(c, off, val)
    <3>1. Reads(r.m, r.obj.entries, w)
      BY <2>3
    <3>2. Rewritten(Texts(t), Texts(m), i, w)
      <4>. HIDE DEF m, t, c, obj, w
      <4>. QED BY <1>7, <3>1, TextChanged
    <3>. QED BY <3>2 DEF Rewritten, w
  <2>5. Content' = [Content EXCEPT ![i] = FS!Overwrite(Content[i], off, val)]
    BY <2>4, ContentIs
  <2>. QED BY <2>1, <2>5 DEF FS!Write
<1>. QED BY <1>5, <1>6

LEMMA RemoveImplements ==
  ASSUME ~Cutting, Kept(State), NEW i \in Inos, NEW off \in Nat, NEW n \in Nat, DeleteInodeData(i, off, n)
  PROVE  n > 0 /\ FS!Remove(i, off, n)
<1>1. i \in live /\ n = RecordLen
  BY RemoveStep
<1>2. PICK r : Removes(i, off, r)
  BY RemoveStep
<1>. DEFINE m == State
            obj == ObjectOf(m, i)
            c == Content[i]
            t == State'
<1>3. /\ Reads(m, obj.entries, c) /\ c \in Seq(ByteSet) /\ Len(c) = SizeOf(i) /\ Good(m, i, obj)
      /\ m \in States /\ Marked(m)
  BY <1>1, ContentReads
<1>4. n \in Nat \ {0}
  BY <1>1, KVManagerAssumption
<1>5. /\ t = Stored(r, i) /\ Keeps(m, r.m, i) /\ Good(r.m, i, r.obj) /\ i \in m.live
      /\ off + n <= SizeOf(i) /\ \E a : ByRemoval(a, m, obj, off, n, i, r)
  BY <1>1, <1>2 DEF Removes, State
<1>6. PICK a : ByRemoval(a, m, obj, off, n, i, r)
  BY <1>5
<1>7. Reads(r.m, r.obj.entries, FS!Cut(c, off, n))
  <2>. HIDE DEF m, c, obj
  <2>. QED BY <1>3, <1>4, <1>6, RemoveReads
<1>8. Texts(t) = [Texts(m) EXCEPT ![i] = FS!Cut(c, off, n)]
  <2>. DEFINE w == FS!Cut(c, off, n)
  <2>1. Reads(r.m, r.obj.entries, w)
    BY <1>7
  <2>2. Kept(m)
    OBVIOUS
  <2>3. Rewritten(Texts(t), Texts(m), i, w)
    <3>. HIDE DEF m, t, c, obj, w
    <3>. QED BY <1>5, <2>1, <2>2, TextChanged
  <2>. QED BY <2>3 DEF Rewritten, w
<1>9. Content' = [Content EXCEPT ![i] = FS!Cut(Content[i], off, n)]
  BY <1>8, ContentIs
<1>10. off < Len(Content[i])
  BY <1>3, <1>4, <1>5
<1>. QED BY <1>4, <1>9, <1>10 DEF FS!Remove

LEMMA DeleteImplements ==
  ASSUME Kept(State), NEW i \in Inos, DeleteInode(i)
  PROVE  FS!Delete(i)
<1>. DEFINE m == State
            t == State'
<1>1. /\ Kept(t) /\ t.flash = m.flash /\ t.objects = [m.objects EXCEPT ![i] = NoObject]
  BY DeleteStep DEF State
<1>2. m.objects \in [Inos -> Objects \cup {NoObject}] /\ Keeps(m, m, i)
  BY KeepsSelf DEF Kept, Sound, States
<1>. HIDE DEF m, t
<1>3. t.objects[i] = NoObject /\ \A k \in Inos : k # i => t.objects[k] = m.objects[k]
  BY <1>1, <1>2
<1>4. ReadAll(t, i) = <<>>
  BY <1>3 DEF ReadAll
<1>5. \A k \in Inos : k # i => ReadAll(t, k) = ReadAll(m, k)
  BY <1>1, <1>2, <1>3, OthersRead DEF m
<1>6. Texts(t) = [Texts(m) EXCEPT ![i] = <<>>]
  BY <1>4, <1>5 DEF Texts
<1>7. Content' = [Content EXCEPT ![i] = <<>>]
  BY <1>6, ContentIs DEF m, t
<1>. QED BY <1>7 DEF FS!Delete

(* However often extents are split, replaced and moved up, who reads an      *)
(* object whole sees a byte sequence that is overwritten, extended, cut and  *)
(* dropped by the calls: the data objects implement FileStore.               *)
THEOREM ImplementsStore == ~Collecting /\ ~Cutting => (Spec => ImplementsFileStore)
<1>. SUFFICES ASSUME ~Collecting, ~Cutting PROVE Spec => FS!Spec
  BY DEF ImplementsFileStore
<1>1. Init => Kept(State) /\ FS!Init
  <2>. SUFFICES ASSUME Init PROVE Kept(State) /\ FS!Init
    OBVIOUS
  <2>1. \A i \in Inos : ReadAll(State, i) = <<>>
    BY DEF Init, State, ReadAll
  <2>. QED BY <2>1, InitKept DEF FS!Init, Content
<1>2. Kept(State) /\ [Next]_vars => Kept(State)'
  BY NextKept
<1>3. Kept(State) /\ [Next]_vars => [FS!Next]_Content
  <2>. SUFFICES ASSUME Kept(State), [Next]_vars PROVE FS!Next \/ UNCHANGED Content
    OBVIOUS
  <2>1. ASSUME NEW i \in Inos, NEW off \in 0..MaxLen, NEW n \in 1..MaxLen, NEW b \in Bytes,
               SetInodeData(i, off, [j \in 1..n |-> b])
        PROVE  FS!Next \/ UNCHANGED Content
    <3>. DEFINE val == [j \in 1..n |-> b]
    <3>1. val \in Seq(ByteSet) /\ Len(val) > 0 /\ off \in Nat
      BY KVManagerAssumption DEF ByteSet
    <3>2. SetInodeData(i, off, val)
      BY <2>1
    <3>. HIDE DEF val
    <3>3. FS!Write(i, off, val) \/ UNCHANGED Content
      BY <3>1, <3>2, WriteImplements
    <3>. QED BY <3>3 DEF FS!Next, val
  <2>2. ASSUME NEW i \in Inos, NEW off \in 0..MaxLen, NEW n \in 0..MaxLen, DeleteInodeData(i, off, n)
        PROVE  FS!Next
    <3>1. off \in Nat /\ n \in Nat
      BY KVManagerAssumption
    <3>2. n > 0 /\ FS!Remove(i, off, n)
      BY <2>2, <3>1, RemoveImplements
    <3>3. n \in 1..MaxLen
      BY <3>1, <3>2, KVManagerAssumption
    <3>. QED BY <3>2, <3>3 DEF FS!Next
  <2>3. ASSUME NEW i \in Inos, DeleteInode(i)
        PROVE  FS!Next
    BY <2>3, DeleteImplements DEF FS!Next
  <2>4. CASE UNCHANGED vars
    BY <2>4 DEF vars, Content, State
  <2>. QED BY <2>1, <2>2, <2>3, <2>4 DEF Next
<1>. QED BY <1>1, <1>2, <1>3, PTL DEF Spec, FS!Spec

-----------------------------------------------------------------------------
(* A ranged read: what is taken from the extents after the first.            *)

More(m, n, acc, e) ==
  IF Len(acc) >= n THEN acc
  ELSE acc \o SubSeq(ReadEntry(m, e), 1, Smaller(e.archived_len, n - Len(acc)))

Taken(m, n, base, es) == FoldLeft(LAMBDA acc, e : More(m, n, acc, e), base, es)

TakenSteps(f, m, n, base, es) ==
  /\ f \in [0 .. Len(es) -> Seq(ByteSet)]
  /\ f[0] = base /\ f[Len(es)] = Taken(m, n, base, es)
  /\ \A k \in 1 .. Len(es) : f[k] = More(m, n, f[k - 1], es[k])

LEMMA MoreTyped ==
  ASSUME NEW m \in States, NEW n \in Nat, NEW acc \in Seq(ByteSet), NEW e \in Entry
  PROVE  More(m, n, acc, e) \in Seq(ByteSet)
<1>. DEFINE S == ByteSet
            d == ReadEntry(m, e)
            b == Smaller(e.archived_len, n - Len(acc))
<1>1. d \in Seq(S) /\ Len(d) = e.archived_len
  BY ReadEntryTyped
<1>. HIDE DEF S, d
<1>2. CASE Len(acc) >= n
  BY <1>2 DEF More
<1>3. CASE ~(Len(acc) >= n)
  <2>1. e.archived_len \in Nat /\ Len(acc) \in Nat
    BY EntryFields
  <2>2. b \in 0 .. Len(d)
    BY <1>1, <1>3, <2>1 DEF Smaller
  <2>. HIDE DEF b
  <2>3. SubSeq(d, 1, b) \in Seq(S)
    BY <1>1, <2>2
  <2>4. acc \o SubSeq(d, 1, b) \in Seq(S)
    BY <2>3 DEF S
  <2>. QED BY <1>3, <2>4 DEF More, d, b, S
<1>. QED BY <1>2, <1>3

LEMMA TakenIs ==
  ASSUME NEW m \in States, NEW n \in Nat, NEW base \in Seq(ByteSet), NEW es \in Seq(Entry)
  PROVE  \E f : TakenSteps(f, m, n, base, es)
<1>. DEFINE N == Len(es)
            U == Seq(ByteSet)
            G == [x \in U \X (1 .. N) |-> More(m, n, x[1], es[x[2]])]
            Def(it) == [s \in SUBSET DOMAIN es |->
                         IF s = {} THEN base ELSE More(m, n, it[s \ {Max(s)}], es[Max(s)])]
            iter == CHOOSE it : it = Def(it)
<1>1. N \in Nat
  OBVIOUS
<1>2. Taken(m, n, base, es) = iter[DOMAIN es]
  BY DEF Taken, FoldLeft, MapThenFoldSet
<1>3. DOMAIN es = 1 .. N
  OBVIOUS
<1>. HIDE DEF N
<1>5. G \in [U \X (1 .. N) -> U] /\ base \in U
  <2>1. \A x \in U \X (1 .. N) : More(m, n, x[1], es[x[2]]) \in U
    <3>1. TAKE x \in U \X (1 .. N)
    <3>2. x[1] \in Seq(ByteSet) /\ es[x[2]] \in Entry
      BY DEF N
    <3>. QED BY <3>2, MoreTyped
  <2>. HIDE DEF U
  <2>2. G \in [U \X (1 .. N) -> U]
    BY <2>1
  <2>. QED BY <2>2 DEF U
<1>. HIDE DEF U
<1>6. PICK h : Folds(h, U, base, G, N)
  <2>. HIDE DEF G
  <2>. QED BY <1>1, <1>5, FoldExists
<1>7. h = Def(h)
  BY <1>1, <1>3, <1>6, MaxIn DEF Folds
<1>8. iter = Def(iter)
  BY <1>7
<1>. HIDE DEF iter
<1>9. Recurs(iter, U, base, G, N)
  BY <1>1, <1>3, <1>8, MaxIn DEF Recurs
<1>10. Walks(Walk(iter, N), U, base, G, N) /\ Walk(iter, N)[N] = iter[1 .. N]
  <2>. HIDE DEF G, Def
  <2>. QED BY <1>1, <1>5, <1>9, WalkOf
<1>. DEFINE f == Walk(iter, N)
<1>. HIDE DEF f
<1>11. /\ f \in [0 .. N -> U] /\ f[0] = base /\ f[N] = Taken(m, n, base, es)
       /\ \A k \in 1 .. N : f[k] = G[<<f[k - 1], k>>]
  BY <1>2, <1>3, <1>10 DEF Walks, f
<1>12. \A k \in 1 .. N : f[k] = More(m, n, f[k - 1], es[k])
  <2>1. \A k \in 1 .. N : k - 1 \in 0 .. N
    BY <1>1
  <2>. QED BY <1>11, <2>1
<1>13. TakenSteps(f, m, n, base, es)
  BY <1>11, <1>12 DEF TakenSteps, N, U
<1>. QED BY <1>13

(* The bytes v continue those of c behind b.                                 *)
Continues(c, b, v, x) == x <= Len(v) /\ b + x <= Len(c) /\ \A q \in 1 .. x : c[b + q] = v[q]

JoinsUp(c, a, b, v, x) == SubSeq(c, a + 1, b) \o SubSeq(v, 1, x) = SubSeq(c, a + 1, b + x)

LEMMA SubJoined ==
  ASSUME NEW c \in Seq(ByteSet), NEW v \in Seq(ByteSet), NEW a \in Nat, NEW b \in Nat, a <= b, NEW x \in Nat,
         Continues(c, b, v, x)
  PROVE  JoinsUp(c, a, b, v, x)
<1>. DEFINE u == SubSeq(c, a + 1, b)
            w == SubSeq(v, 1, x)
            d == SubSeq(c, a + 1, b + x)
<1>1. x <= Len(v) /\ b + x <= Len(c) /\ Len(c) \in Nat /\ Len(v) \in Nat /\ \A q \in 1 .. x : c[b + q] = v[q]
  BY DEF Continues
<1>2. u \in Seq(ByteSet) /\ Len(u) = b - a /\ \A p \in 1 .. b - a : u[p] = c[a + p]
  <2>1. a \in 0 .. Len(c) /\ b \in a .. Len(c)
    BY <1>1
  <2>. QED BY <2>1, SubIs
<1>3. w \in Seq(ByteSet) /\ Len(w) = x /\ \A q \in 1 .. x : w[q] = v[q]
  <2>1. 0 \in 0 .. Len(v) /\ x \in 0 .. Len(v)
    BY <1>1
  <2>2. /\ SubSeq(v, 0 + 1, x) \in Seq(ByteSet) /\ Len(SubSeq(v, 0 + 1, x)) = x - 0
        /\ \A p \in 1 .. x - 0 : SubSeq(v, 0 + 1, x)[p] = v[0 + p]
    BY <2>1, SubIs
  <2>3. 0 + 1 = 1 /\ x - 0 = x /\ \A q \in 1 .. x : 0 + q = q
    OBVIOUS
  <2>. QED BY <2>2, <2>3
<1>4. /\ d \in Seq(ByteSet) /\ Len(d) = b + x - a
      /\ \A p \in 1 .. b + x - a : d[p] = c[a + p]
  <2>1. a \in 0 .. Len(c) /\ b + x \in a .. Len(c)
    BY <1>1
  <2>. DEFINE y == b + x
  <2>2. y \in a .. Len(c)
    BY <2>1
  <2>. HIDE DEF y
  <2>3. /\ SubSeq(c, a + 1, y) \in Seq(ByteSet) /\ Len(SubSeq(c, a + 1, y)) = y - a
        /\ \A p \in 1 .. y - a : SubSeq(c, a + 1, y)[p] = c[a + p]
    BY <2>1, <2>2, SubIs
  <2>. QED BY <2>3 DEF y
<1>. HIDE DEF u, w, d
<1>5. /\ u \o w \in Seq(ByteSet) /\ Len(u \o w) = Len(u) + Len(w)
      /\ \A p \in 1 .. Len(u) : (u \o w)[p] = u[p]
      /\ \A q \in 1 .. Len(w) : (u \o w)[Len(u) + q] = w[q]
  BY <1>2, <1>3, JoinAt
<1>. DEFINE z == u \o w
<1>. HIDE DEF z
<1>6. z \in Seq(ByteSet) /\ Len(z) = Len(d)
  BY <1>2, <1>3, <1>4, <1>5 DEF z
<1>7. ASSUME NEW p \in 1 .. Len(z) PROVE z[p] = d[p]
  <2>1. p \in 1 .. b + x - a /\ d[p] = c[a + p]
    BY <1>4, <1>6
  <2>2. CASE p <= b - a
    <3>1. p \in 1 .. b - a
      BY <2>1, <2>2
    <3>. QED BY <1>2, <1>5, <2>1, <3>1 DEF z
  <2>3. CASE ~(p <= b - a)
    <3>. DEFINE q == p - (b - a)
    <3>1. q \in 1 .. x /\ p = (b - a) + q /\ a + p = b + q
      BY <2>1, <2>3
    <3>. HIDE DEF q
    <3>2. z[p] = w[q]
      BY <1>2, <1>3, <1>5, <3>1 DEF z
    <3>. QED BY <1>1, <1>3, <2>1, <3>1, <3>2
  <2>. QED BY <2>2, <2>3
<1>8. z = d
  BY <1>4, <1>6, <1>7, SameBytes
<1>. QED BY <1>8 DEF z, u, w, d, JoinsUp
SameRun(c, b, v, x) == SubSeq(v, 1, x) = SubSeq(c, b + 1, b + x)

LEMMA SubSame ==
  ASSUME NEW c \in Seq(ByteSet), NEW v \in Seq(ByteSet), NEW b \in Nat, NEW x \in Nat, Continues(c, b, v, x)
  PROVE  SameRun(c, b, v, x)
<1>. DEFINE w == SubSeq(v, 1, x)
            y == b + x
            d == SubSeq(c, b + 1, y)
<1>1. x <= Len(v) /\ b + x <= Len(c) /\ Len(c) \in Nat /\ Len(v) \in Nat /\ \A q \in 1 .. x : c[b + q] = v[q]
  BY DEF Continues
<1>2. w \in Seq(ByteSet) /\ Len(w) = x /\ \A q \in 1 .. x : w[q] = v[q]
  <2>1. 0 \in 0 .. Len(v) /\ x \in 0 .. Len(v)
    BY <1>1
  <2>2. /\ SubSeq(v, 0 + 1, x) \in Seq(ByteSet) /\ Len(SubSeq(v, 0 + 1, x)) = x - 0
        /\ \A p \in 1 .. x - 0 : SubSeq(v, 0 + 1, x)[p] = v[0 + p]
    BY <2>1, SubIs
  <2>3. 0 + 1 = 1 /\ x - 0 = x /\ \A q \in 1 .. x : 0 + q = q
    OBVIOUS
  <2>. QED BY <2>2, <2>3
<1>3. b \in 0 .. Len(c) /\ y \in b .. Len(c) /\ y - b = x
  BY <1>1
<1>. HIDE DEF y
<1>4. d \in Seq(ByteSet) /\ Len(d) = y - b /\ \A p \in 1 .. y - b : d[p] = c[b + p]
  BY <1>3, SubIs
<1>. HIDE DEF w, d
<1>5. Len(w) = Len(d) /\ \A p \in 1 .. Len(w) : w[p] = d[p]
  BY <1>1, <1>2, <1>3, <1>4
<1>6. w = d
  BY <1>2, <1>4, <1>5, SameBytes
<1>. QED BY <1>6 DEF w, d, y, SameRun

(* Extent e holds the bytes of c behind x.                                   *)
Holds(m, e, c, x) ==
  /\ c \in Seq(ByteSet) /\ ReadEntry(m, e) \in Seq(ByteSet) /\ x \in Nat
  /\ e.archived_len \in Nat /\ Len(ReadEntry(m, e)) = e.archived_len
  /\ x + e.archived_len <= Len(c)
  /\ \A q \in 1 .. e.archived_len : c[x + q] = ReadEntry(m, e)[q]

(* What is taken from an extent is what was still missing of the range.      *)
LEMMA MoreTakes ==
  ASSUME NEW m, NEW e, NEW c, NEW x, Holds(m, e, c, x), NEW off \in Nat, off <= x,
         NEW n \in Nat \ {0}, off + n <= Len(c)
  PROVE  More(m, n, SubSeq(c, off + 1, Smaller(off + n, x)), e)
           = SubSeq(c, off + 1, Smaller(off + n, x + e.archived_len))
<1>. DEFINE l == e.archived_len
            d == ReadEntry(m, e)
            y == Smaller(off + n, x)
            acc == SubSeq(c, off + 1, y)
<1>1. /\ c \in Seq(ByteSet) /\ d \in Seq(ByteSet) /\ x \in Nat /\ l \in Nat /\ Len(d) = l
      /\ x + l <= Len(c) /\ Len(c) \in Nat /\ \A q \in 1 .. l : c[x + q] = d[q]
  BY DEF Holds
<1>. HIDE DEF l, d
<1>2. off \in 0 .. Len(c) /\ y \in off .. Len(c)
  BY <1>1 DEF Smaller
<1>3. Len(acc) = y - off
  <2>. HIDE DEF y
  <2>. QED BY <1>1, <1>2, SubIs
<1>4. CASE off + n <= x
  <2>1. y = off + n /\ Smaller(off + n, x + l) = off + n
    BY <1>1, <1>4 DEF Smaller
  <2>2. Len(acc) >= n
    BY <1>3, <2>1
  <2>3. More(m, n, acc, e) = acc
    <3>. HIDE DEF acc
    <3>. QED BY <2>2 DEF More
  <2>. QED BY <2>1, <2>3 DEF l
<1>5. CASE ~(off + n <= x)
  <2>. DEFINE z == Smaller(l, off + n - x)
  <2>1. y = x
    BY <1>1, <1>5 DEF Smaller
  <2>2. Len(acc) = x - off /\ n - Len(acc) = off + n - x /\ ~(Len(acc) >= n)
    <3>. DEFINE L == Len(acc)
    <3>1. L = x - off /\ x \in Nat
      BY <1>1, <1>3, <2>1
    <3>. HIDE DEF L
    <3>2. n - L = off + n - x /\ ~(L >= n)
      BY <1>5, <3>1
    <3>. QED BY <3>1, <3>2 DEF L
  <2>3. More(m, n, acc, e) = acc \o SubSeq(d, 1, z)
    <3>. HIDE DEF acc
    <3>. QED BY <2>2 DEF More, d, l
  <2>4. z \in Nat /\ z <= l /\ x + z = Smaller(off + n, x + l)
    BY <1>1, <1>5 DEF Smaller
  <2>. HIDE DEF z
  <2>5. Continues(c, x, d, z)
    BY <1>1, <2>4 DEF Continues
  <2>6. SubSeq(c, off + 1, x) \o SubSeq(d, 1, z) = SubSeq(c, off + 1, x + z)
    <3>1. c \in Seq(ByteSet) /\ d \in Seq(ByteSet)
      BY <1>1
    <3>2. x \in Nat
      BY <1>1
    <3>3. z \in Nat
      BY <2>4
    <3>4. JoinsUp(c, off, x, d, z)
      <4>. HIDE DEF acc, y
      <4>. QED BY <2>5, <3>1, <3>2, <3>3, SubJoined
    <3>. QED BY <3>4 DEF JoinsUp
  <2>. QED BY <2>1, <2>3, <2>4, <2>6 DEF l
<1>. QED BY <1>4, <1>5

(* Each extent of an object holds the bytes at its offset.                   *)
LEMMA EachHolds ==
  ASSUME NEW m \in States, NEW es, Tiled(es, 0), NEW c, Reads(m, es, c), NEW j \in 1 .. Len(es)
  PROVE  /\ Holds(m, es[j], c, EndAt(es, 0, j - 1))
         /\ EndAt(es, 0, j) = EndAt(es, 0, j - 1) + es[j].archived_len
<1>. DEFINE e == es[j]
            x == EndAt(es, 0, j - 1)
            y == EndAt(es, 0, j)
<1>1. /\ e \in Entry /\ e.archived_len = e.len /\ e.offset = x /\ y = End(e)
  BY TiledIs
<1>2. x \in Nat /\ y \in Nat /\ y <= Len(c)
  <2>1. Len(es) \in Nat /\ j - 1 \in 0 .. Len(es) /\ j \in 0 .. Len(es) /\ Len(es) \in 0 .. Len(es) /\ j <= Len(es)
    BY TiledIs
  <2>2. x \in Nat /\ y \in Nat /\ y <= EndAt(es, 0, Len(es))
    BY <2>1, TiledOrder
  <2>. QED BY <2>2 DEF Reads
<1>3. c \in Seq(ByteSet) /\ \A q \in 1 .. e.len : c[e.offset + q] = ReadEntry(m, e)[q]
  BY DEF Reads, Members
<1>. HIDE DEF e, x, y
<1>4. ReadEntry(m, e) \in Seq(ByteSet) /\ Len(ReadEntry(m, e)) = e.archived_len
  BY <1>1, ReadEntryTyped
<1>5. e.archived_len \in Nat /\ y = x + e.archived_len
  BY <1>1, EntryFields
<1>6. Holds(m, e, c, x)
  BY <1>1, <1>2, <1>3, <1>4, <1>5 DEF Holds
<1>. QED BY <1>5, <1>6 DEF e, x, y

(* The first n bytes of what extent e holds, as far as it has them, and the  *)
(* bytes a read of n bytes from extent k on puts together.                   *)
FirstBytes(m, e, n) == SubSeq(ReadEntry(m, e), 1, Smaller(Len(ReadEntry(m, e)), n))

Gathered(m, es, k, n) == Taken(m, n, FirstBytes(m, es[k], n), SubSeq(es, k + 1, Len(es)))

InRange(es, k, off, n) == off = EndAt(es, 0, k - 1) /\ off + n <= EndAt(es, 0, Len(es))

LEMMA RangeTaken ==
  ASSUME NEW m \in States, NEW es, Tiled(es, 0), NEW c, Reads(m, es, c), NEW k \in 1 .. Len(es),
         NEW off, NEW n \in Nat \ {0}, InRange(es, k, off, n)
  PROVE  \E y : y = off + n /\ Gathered(m, es, k, n) = SubSeq(c, off + 1, y)
<1>. DEFINE base == FirstBytes(m, es[k], n)
            N == Len(es)
            rest == SubSeq(es, k + 1, N)
            E(j) == EndAt(es, 0, j)
            T(j) == SubSeq(c, off + 1, Smaller(off + n, E(j)))
            G(f) == {j \in 0 .. N - k : f[j] = T(k + j)}
<1>1. es \in Seq(Entry) /\ N \in Nat /\ k \in Nat /\ k <= N /\ N - k \in Nat
  BY TiledIs
<1>2. rest \in Seq(Entry) /\ Len(rest) = N - k /\ \A j \in 1 .. N - k : rest[j] = es[k + j]
  BY <1>1
<1>3. /\ c \in Seq(ByteSet) /\ Len(c) = E(N) /\ Len(c) \in Nat
  BY DEF Reads
<1>4. /\ \A j \in 0 .. N : E(j) \in Nat
      /\ \A i, j \in 0 .. N : i <= j => E(i) <= E(j)
  BY TiledOrder
<1>5. off = E(k - 1) /\ off \in Nat /\ off + n <= Len(c)
  BY <1>1, <1>3, <1>4 DEF InRange
<1>6. \A j \in 1 .. N : Holds(m, es[j], c, E(j - 1)) /\ E(j) = E(j - 1) + es[j].archived_len
  BY EachHolds
<1>. HIDE DEF E, rest
<1>7. base = T(k)
  <2>. DEFINE d == ReadEntry(m, es[k])
              x == Smaller(Len(d), n)
  <2>1. /\ d \in Seq(ByteSet) /\ Len(d) \in Nat /\ Len(d) = es[k].archived_len
        /\ off + Len(d) <= Len(c) /\ \A q \in 1 .. Len(d) : c[off + q] = d[q]
    BY <1>5, <1>6 DEF Holds
  <2>2. E(k) = off + Len(d)
    BY <1>5, <1>6, <2>1
  <2>. HIDE DEF d
  <2>3. x \in Nat /\ x <= Len(d) /\ off + x = Smaller(off + n, E(k))
    BY <1>5, <2>1, <2>2 DEF Smaller
  <2>. HIDE DEF x
  <2>4. Continues(c, off, d, x)
    <3>1. off + x <= Len(c)
      BY <1>3, <1>5, <2>1, <2>3
    <3>2. \A q \in 1 .. x : q \in 1 .. Len(d)
      BY <2>1, <2>3
    <3>. HIDE DEF N, T, G
    <3>. QED BY <2>1, <2>3, <3>1, <3>2 DEF Continues
  <2>5. SubSeq(d, 1, x) = SubSeq(c, off + 1, off + x)
    <3>1. c \in Seq(ByteSet) /\ d \in Seq(ByteSet) /\ off \in Nat /\ x \in Nat
      BY <1>3, <1>5, <2>1, <2>3
    <3>. HIDE DEF N, T, G
    <3>2. SameRun(c, off, d, x)
      BY <2>4, <3>1, SubSame
    <3>. QED BY <3>2 DEF SameRun
  <2>. QED BY <2>3, <2>5 DEF d, x, FirstBytes
<1>. HIDE DEF base
<1>8. base \in Seq(ByteSet)
  <2>1. off \in 0 .. Len(c) /\ Smaller(off + n, E(k)) \in off .. Len(c)
    <3>1. k - 1 \in 0 .. N /\ k \in 0 .. N /\ N \in 0 .. N
      BY <1>1
    <3>2. off <= E(k) /\ E(k) <= Len(c) /\ E(k) \in Nat
      <4>1. k - 1 <= k /\ k <= N
        BY <1>1
      <4>2. E(k - 1) <= E(k) /\ E(k) <= E(N) /\ E(k) \in Nat
        BY <1>4, <3>1, <4>1
      <4>. QED BY <1>3, <1>5, <4>2
    <3>. QED BY <1>5, <3>2 DEF Smaller
  <2>. DEFINE y == Smaller(off + n, E(k))
  <2>. HIDE DEF y
  <2>2. y \in off .. Len(c)
    BY <2>1 DEF y
  <2>3. SubSeq(c, off + 1, y) \in Seq(ByteSet)
    BY <1>3, <2>1, <2>2, SubIs
  <2>. QED BY <1>7, <2>3 DEF y
<1>9. PICK f : TakenSteps(f, m, n, base, rest)
  BY <1>2, <1>8, TakenIs
<1>10. /\ f[0] = base /\ f[N - k] = Taken(m, n, base, rest)
       /\ \A j \in 1 .. N - k : f[j] = More(m, n, f[j - 1], rest[j])
  BY <1>2, <1>9 DEF TakenSteps
<1>11. 0 \in G(f)
  <2>1. k + 0 = k /\ 0 \in 0 .. N - k
    BY <1>1
  <2>. QED BY <1>7, <1>10, <2>1
<1>12. ASSUME NEW j \in 1 .. N - k, j - 1 \in G(f) PROVE j \in G(f)
  <2>. DEFINE i == k + j
              e == es[i]
              x == E(i - 1)
  <2>1. i \in 1 .. N /\ k + (j - 1) = i - 1 /\ i - 1 \in 0 .. N /\ k - 1 \in 0 .. N /\ k - 1 <= i - 1
        /\ j \in 0 .. N - k
    BY <1>1
  <2>2. f[j] = More(m, n, T(i - 1), e)
    <3>1. f[j - 1] = T(i - 1)
      BY <1>12, <2>1
    <3>. QED BY <1>2, <1>10, <3>1
  <2>3. Holds(m, e, c, x) /\ E(i) = x + e.archived_len /\ off <= x
    BY <1>4, <1>5, <1>6, <2>1
  <2>. HIDE DEF e, x
  <2>4. More(m, n, SubSeq(c, off + 1, Smaller(off + n, x)), e)
          = SubSeq(c, off + 1, Smaller(off + n, x + e.archived_len))
    BY <1>5, <2>3, MoreTakes
  <2>5. f[j] = T(i)
    BY <2>2, <2>3, <2>4 DEF x
  <2>. QED BY <2>1, <2>5
<1>13. N - k \in G(f)
  <2>. DEFINE H == G(f)
              L == N - k
  <2>1. L \in Nat /\ 0 \in H
    BY <1>1, <1>11
  <2>2. \A j \in 1 .. L : j - 1 \in H => j \in H
    BY <1>12
  <2>. HIDE DEF H, L
  <2>3. \A j \in 0 .. L : j \in H
    BY <2>1, <2>2, UpTo
  <2>4. L \in H
    BY <2>1, <2>3
  <2>. QED BY <2>4 DEF H, L
<1>14. f[N - k] = T(N)
  <2>1. k + (N - k) = N
    BY <1>1
  <2>. QED BY <1>13, <2>1
<1>15. Smaller(off + n, E(N)) = off + n
  BY <1>3, <1>5 DEF Smaller
<1>. QED BY <1>10, <1>14, <1>15 DEF rest, base, Gathered

(* The first extent behind the offset at which an extent starts is the next. *)
Behind(es, off) == {j \in DOMAIN es : off < es[j].offset}

LastBefore(es, past) == IF past = {} THEN Len(es) ELSE LeastOf(past) - 1

LEMMA NextBehind ==
  ASSUME NEW es, Tiled(es, 0), NEW k \in 1 .. Len(es)
  PROVE  LastBefore(es, Behind(es, es[k].offset)) = k
<1>. DEFINE N == Len(es)
            E(j) == EndAt(es, 0, j)
            past == Behind(es, es[k].offset)
<1>1. es \in Seq(Entry) /\ N \in Nat /\ k \in Nat /\ k <= N /\ DOMAIN es = 1 .. N
  BY TiledIs
<1>2. \A j \in 1 .. N : es[j].offset = E(j - 1)
  BY TiledIs
<1>3. /\ \A j \in 0 .. N : E(j) \in Nat
      /\ \A i, j \in 0 .. N : i <= j => E(i) <= E(j)
      /\ \A i, j \in 0 .. N : i < j => E(i) < E(j)
  BY TiledOrder
<1>. HIDE DEF E
<1>4. ASSUME NEW j \in 1 .. N PROVE j \in past <=> k < j
  <2>1. j - 1 \in 0 .. N /\ k - 1 \in 0 .. N /\ E(j - 1) \in Nat /\ E(k - 1) \in Nat
    BY <1>1, <1>3
  <2>2. j \in past <=> E(k - 1) < E(j - 1)
    BY <1>1, <1>2 DEF Behind
  <2>3. CASE k < j
    <3>1. k - 1 < j - 1
      BY <1>1, <2>3
    <3>2. E(k - 1) < E(j - 1)
      BY <1>3, <2>1, <3>1
    <3>. QED BY <2>2, <2>3, <3>2
  <2>4. CASE ~(k < j)
    <3>1. j - 1 <= k - 1
      BY <1>1, <2>4
    <3>2. E(j - 1) <= E(k - 1)
      BY <1>3, <2>1, <3>1
    <3>3. ~(E(k - 1) < E(j - 1))
      BY <2>1, <3>2
    <3>. QED BY <2>2, <2>4, <3>3
  <2>. QED BY <2>3, <2>4
<1>5. past \subseteq 1 .. N
  BY <1>1 DEF Behind
<1>. HIDE DEF past
<1>6. CASE past = {}
  <2>1. ~(k + 1 \in 1 .. N)
    <3>1. k < k + 1
      BY <1>1
    <3>. QED BY <1>4, <1>6, <3>1
  <2>2. N = k
    <3>. DEFINE x == N
    <3>1. x \in Nat /\ k \in Nat /\ k <= x /\ ~(k + 1 \in 1 .. x)
      BY <1>1, <2>1
    <3>. HIDE DEF x
    <3>2. x = k
      BY <3>1
    <3>. QED BY <3>2 DEF x
  <2>. QED BY <1>6, <2>2 DEF LastBefore, past
<1>7. CASE past # {}
  <2>1. past \in SUBSET Nat
    BY <1>5
  <2>2. LeastOf(past) \in past /\ \A x \in past : LeastOf(past) <= x
    BY <1>7, <2>1, LeastIs
  <2>. DEFINE l == LeastOf(past)
  <2>3. l \in 1 .. N /\ k < l /\ l \in Nat
    <3>1. l \in past
      BY <2>2
    <3>. HIDE DEF l
    <3>2. l \in 1 .. N
      BY <1>5, <3>1
    <3>. QED BY <1>4, <3>1, <3>2
  <2>. HIDE DEF l
  <2>4. k + 1 \in 1 .. N
    BY <1>1, <2>3
  <2>5. k + 1 \in past
    BY <1>1, <1>4, <2>4
  <2>6. l <= k + 1
    BY <2>2, <2>5 DEF l
  <2>7. l - 1 = k
    BY <1>1, <2>3, <2>6
  <2>. QED BY <1>7, <2>7 DEF l, LastBefore, past
<1>. QED BY <1>6, <1>7

(* A read of n bytes from off on, once the extent that it starts in is known. *)
RangeFrom(m, obj, all, at, off, n) ==
  LET data == ReadEntry(m, obj.entries[at])
      skip == off - obj.entries[at].offset
      take == Smaller(Len(data), n)
      got  == Taken(m, n, SubSeq(data, skip + 1, skip + take), SubSeq(obj.entries, at + 1, Len(obj.entries)))
  IN IF off + n > obj.size THEN IF off > Len(all) THEN BadRead ELSE SubSeq(all, off + 1, Len(all))
     ELSE IF at = 0 THEN BadRead
     ELSE IF skip + take > Len(data) THEN BadRead
     ELSE IF Len(got) < n THEN BadRead
     ELSE got

LEMMA ReadRangeIs ==
  ASSUME NEW m, NEW i, NEW off, NEW n, m.objects[i] # NoObject
  PROVE  LET obj == ObjectOf(m, i) IN
         ReadRange(m, i, off, n)
           = RangeFrom(m, obj, ReadAll(m, i), LastBefore(obj.entries, Behind(obj.entries, off)), off, n)
BY DEF ReadRange, RangeFrom, LastBefore, Behind, Taken, More

(* A read that starts where an extent does and ends within the object.       *)
RangeExact(m, i, off, n) == ReadRange(m, i, off, n) = SubSeq(ReadAll(m, i), off + 1, off + n)

LEMMA RangeReads ==
  ASSUME NEW m, Kept(m), NEW i \in Inos, i \in m.live, m.objects[i] # NoObject,
         NEW k \in 1 .. Len(m.objects[i].entries), NEW n \in Nat \ {0},
         m.objects[i].entries[k].offset + n <= m.objects[i].size
  PROVE  RangeExact(m, i, m.objects[i].entries[k].offset, n)
<1>. DEFINE obj == m.objects[i]
            es == obj.entries
            N == Len(es)
            c == ReadAll(m, i)
            off == es[k].offset
            d == ReadEntry(m, es[k])
            got == Gathered(m, es, k, n)
<1>1. ObjectOf(m, i) = obj
  BY DEF ObjectOf
<1>2. Good(m, i, obj) /\ m \in States
  BY <1>1 DEF Kept, Sound
<1>3. Tiled(es, 0) /\ obj.size = EndAt(es, 0, N)
  BY <1>2 DEF Good, Whole
<1>4. Reads(m, es, c)
  BY <1>1, AllReads
<1>. HIDE DEF obj
<1>5. off = EndAt(es, 0, k - 1) /\ off \in Nat /\ obj.size \in Nat
  <2>1. k \in 1 .. N /\ N \in Nat /\ off = EndAt(es, 0, k - 1)
    <3>. HIDE DEF es
    <3>. QED BY <1>3, TiledIs DEF obj, es
  <2>2. k - 1 \in 0 .. N /\ N \in 0 .. N
    BY <2>1
  <2>3. EndAt(es, 0, k - 1) \in Nat /\ EndAt(es, 0, N) \in Nat
    <3>. HIDE DEF es
    <3>. QED BY <1>3, <2>2, TiledOrder
  <2>. QED BY <1>3, <2>1, <2>3
<1>6. off + n <= obj.size /\ k \in 1 .. N
  BY DEF obj
<1>. HIDE DEF es, c
<1>7. LastBefore(es, Behind(es, es[k].offset)) = k
  BY <1>3, <1>6, NextBehind
<1>8. got = SubSeq(c, off + 1, off + n)
  <2>1. InRange(es, k, off, n)
    BY <1>3, <1>5, <1>6 DEF InRange
  <2>. HIDE DEF off
  <2>2. \E y : y = off + n /\ Gathered(m, es, k, n) = SubSeq(c, off + 1, y)
    BY <1>2, <1>3, <1>4, <1>6, <2>1, RangeTaken
  <2>. QED BY <2>2
<1>9. Len(got) = n /\ ReadEntry(m, es[k]) \in Seq(ByteSet) /\ Len(d) \in Nat
  <2>1. c \in Seq(ByteSet) /\ Len(c) = obj.size
    BY <1>3, <1>4 DEF Reads
  <2>2. off \in 0 .. Len(c) /\ off + n \in off .. Len(c)
    BY <1>5, <1>6, <2>1
  <2>. DEFINE y == off + n
  <2>3. y \in off .. Len(c) /\ y - off = n
    BY <1>5, <2>2
  <2>. HIDE DEF y, off
  <2>4. Len(SubSeq(c, off + 1, y)) = y - off
    <3>1. c \in Seq(ByteSet)
      BY <2>1
    <3>2. off \in 0 .. Len(c)
      BY <2>2
    <3>3. y \in off .. Len(c)
      BY <2>3
    <3>. QED BY <3>1, <3>2, <3>3, SubIs
  <2>5. es[k] \in Entry
    BY <1>3, <1>6, TiledIs
  <2>6. d \in Seq(ByteSet)
    BY <1>2, <2>5, ReadEntryTyped
  <2>7. got = SubSeq(c, off + 1, y)
    BY <1>8 DEF y
  <2>8. Len(d) \in Nat
    BY <2>6
  <2>9. Len(got) = n
    <3>. HIDE DEF got
    <3>. QED BY <2>3, <2>4, <2>7
  <2>. QED BY <2>6, <2>8, <2>9
<1>. DEFINE skip == off - es[k].offset
            take == Smaller(Len(d), n)
<1>10. skip = 0 /\ ~(skip + take > Len(d)) /\ SubSeq(d, skip + 1, skip + take) = FirstBytes(m, es[k], n)
  <2>1. skip = 0
    BY <1>5
  <2>. HIDE DEF skip
  <2>2. take \in Nat /\ take <= Len(d)
    BY <1>9 DEF Smaller
  <2>3. skip + 1 = 1 /\ skip + take = take
    BY <2>1, <2>2
  <2>. QED BY <1>9, <2>1, <2>2, <2>3 DEF FirstBytes
<1>11. ReadRange(m, i, off, n) = got
  <2>1. ~(off + n > obj.size) /\ ~(k = 0) /\ ~(Len(got) < n)
    BY <1>5, <1>6, <1>9
  <2>2. ReadRange(m, i, off, n) = RangeFrom(m, obj, c, LastBefore(es, Behind(es, es[k].offset)), off, n)
    <3>1. m.objects[i] # NoObject
      OBVIOUS
    <3>2. LET o == ObjectOf(m, i) IN
          ReadRange(m, i, off, n)
            = RangeFrom(m, o, ReadAll(m, i), LastBefore(o.entries, Behind(o.entries, off)), off, n)
      <4>. HIDE DEF off
      <4>. QED BY <3>1, ReadRangeIs
    <3>. QED BY <1>1, <3>2 DEF es, c
  <2>3. RangeFrom(m, obj, c, k, off, n) = got
    <3>1. RangeFrom(m, obj, c, k, off, n) =
            LET read == Taken(m, n, FirstBytes(m, es[k], n), SubSeq(es, k + 1, Len(es)))
            IN  IF skip + take > Len(d) THEN BadRead ELSE IF Len(read) < n THEN BadRead ELSE read
      BY <1>10, <2>1 DEF RangeFrom, es
    <3>. QED BY <1>10, <2>1, <3>1 DEF Gathered
  <2>. QED BY <1>7, <2>2, <2>3
<1>. QED BY <1>8, <1>11 DEF off, es, obj, c, RangeExact

(* A ranged read that starts at an extent and ends within the object returns *)
(* the bytes a read of the whole object has there, although it gathers them  *)
(* from one extent after the other.                                          *)
THEOREM RangesReadExact == ~Collecting /\ ~Cutting => (Spec => []AlignedReadsExact)
<1>. SUFFICES ASSUME ~Collecting, ~Cutting PROVE Spec => []AlignedReadsExact
  OBVIOUS
<1>1. Init => Kept(State)
  BY InitKept
<1>2. Kept(State) /\ [Next]_vars => Kept(State)'
  BY NextKept
<1>3. Kept(State) => AlignedReadsExact
  <2>. SUFFICES ASSUME Kept(State), NEW x \in Extents, NEW n \in 1 .. MaxLen,
                       ExtentAt(x).offset + n <= objects[x[1]].size
                PROVE  RangeExact(State, x[1], ExtentAt(x).offset, n)
    BY DEF AlignedReadsExact, RangeExact
  <2>. DEFINE m == State
              i == x[1]
              k == x[2]
  <2>1. m.objects = objects /\ m.live = live
    BY DEF State
  <2>2. i \in Inos /\ i \in live /\ objects[i] # NoObject /\ k \in 1 .. Len(objects[i].entries)
    BY ExtentIs
  <2>3. ExtentAt(x) = objects[i].entries[k]
    BY DEF ExtentAt
  <2>4. n \in Nat \ {0}
    BY KVManagerAssumption
  <2>5. /\ i \in Inos /\ i \in m.live /\ m.objects[i] # NoObject /\ k \in 1 .. Len(m.objects[i].entries)
        /\ m.objects[i].entries[k].offset + n <= m.objects[i].size /\ Kept(m)
    BY <2>1, <2>2, <2>3
  <2>6. ExtentAt(x) = m.objects[i].entries[k]
    BY <2>1, <2>3
  <2>. HIDE DEF m, i, k
  <2>7. RangeExact(m, i, m.objects[i].entries[k].offset, n)
    BY <2>4, <2>5, RangeReads
  <2>. QED BY <2>6, <2>7 DEF m, i
<1>. QED BY <1>1, <1>2, <1>3, PTL DEF Spec

-----------------------------------------------------------------------------
(* A round of the collector over a block that holds one extent.              *)

(* Two objects whose entries read alike read alike.                          *)
LEMMA TextSame ==
  ASSUME NEW m \in States, NEW t \in States, NEW es \in Seq(Entry), NEW fs \in Seq(Entry),
         Len(fs) = Len(es),
         \A k \in 1 .. Len(es) : ReadEntry(t, fs[k]) = ReadEntry(m, es[k])
  PROVE  Text(t, fs) = Text(m, es)
<1>1. PICK f : TextSteps(f, m, es)
  BY TextIs
<1>2. PICK g : TextSteps(g, t, fs)
  BY TextIs
<1>. DEFINE n == Len(es)
            G == {k \in 0 .. n : g[k] = f[k]}
<1>3. n \in Nat /\ Len(fs) = n
  OBVIOUS
<1>4. f[0] = <<>> /\ f[n] = Text(m, es) /\ g[0] = <<>> /\ g[n] = Text(t, fs)
  BY <1>1, <1>2, <1>3 DEF TextSteps
<1>5. \A k \in 1 .. n : f[k] = f[k - 1] \o ReadEntry(m, es[k]) /\ g[k] = g[k - 1] \o ReadEntry(t, fs[k])
  BY <1>1, <1>2, <1>3 DEF TextSteps
<1>. HIDE DEF n
<1>6. 0 \in G
  BY <1>3, <1>4
<1>7. ASSUME NEW k \in 1 .. n, k - 1 \in G PROVE k \in G
  <2>1. g[k - 1] = f[k - 1] /\ k \in 0 .. n
    BY <1>3, <1>7
  <2>2. ReadEntry(t, fs[k]) = ReadEntry(m, es[k])
    BY DEF n
  <2>. QED BY <1>5, <2>1, <2>2
<1>8. n \in Nat
  BY <1>3
<1>9. n \in G
  <2>. HIDE DEF G
  <2>1. \A k \in 0 .. n : k \in G
    BY <1>6, <1>7, <1>8, UpTo
  <2>. QED BY <1>8, <2>1
<1>. QED BY <1>4, <1>9

(* A block without a busy page: the scan finds nothing.                      *)
LEMMA NothingFound ==
  ASSUME NEW tbl, NEW victim \in Blocks, \A o \in Offsets : tbl[victim].used_map[o] \notin Inos
  PROVE  Fragments(tbl, victim) = <<>>
<1>1. PICK f : ScanSteps(f, tbl, victim)
  BY FragmentsIs
<1>. DEFINE n == PagesPerBlock
            G == {k \in 0 .. n : f[k] = NoScan}
<1>2. n \in Nat /\ \A k \in 1 .. n : k - 1 \in Offsets
  BY BlockInfoAssumption DEF Offsets
<1>3. f[0] = NoScan /\ CloseFragment(f[n]) = Fragments(tbl, victim)
  BY <1>1 DEF ScanSteps
<1>4. CloseFragment(NoScan) = <<>>
  BY DEF CloseFragment, NoScan
<1>5. \A a, s : s \notin Inos => ScanPage(NoScan, a, s) = NoScan
  BY <1>4 DEF ScanPage, NoScan
<1>6. 0 \in G
  BY <1>2, <1>3
<1>7. ASSUME NEW k \in 1 .. n, k - 1 \in G PROVE k \in G
  <2>1. f[k] = ScanPage(f[k - 1], Address(victim, k - 1), tbl[victim].used_map[k - 1])
    BY <1>1 DEF ScanSteps
  <2>2. f[k - 1] = NoScan /\ k \in 0 .. n
    BY <1>2, <1>7
  <2>3. tbl[victim].used_map[k - 1] \notin Inos
    BY <1>2
  <2>. HIDE DEF n
  <2>. QED BY <1>5, <2>1, <2>2, <2>3
<1>8. n \in G
  <2>. HIDE DEF G, n
  <2>. QED BY <1>2, <1>6, <1>7, UpTo
<1>. QED BY <1>3, <1>4, <1>8

(* What the scan has found after k pages of a block whose busy pages are the *)
(* n from offset o on, all busy with inode i.                                *)
Run(i, n, a) == [ino |-> i, size |-> n, from |-> a]
Counting(i, a, c) == [done |-> <<>>, last |-> Run(i, 0, a), size |-> c]
Counted(i, n, a) == [done |-> <<Run(i, n, a)>>, last |-> NoFragment, size |-> 0]

Scanned(k, i, n, o, a) ==
  IF k <= o THEN NoScan ELSE IF k <= o + n THEN Counting(i, a, k - o) ELSE Counted(i, n, a)

LEMMA ScanIs ==
  ASSUME NEW i \in Inos, NEW n \in Nat \ {0}, NEW a \in Int
  PROVE  /\ \A x, s : s \notin Inos => ScanPage(NoScan, x, s) = NoScan
         /\ ScanPage(NoScan, a, i) = Counting(i, a, 1)
         /\ \A c \in Nat : \A x : ScanPage(Counting(i, a, c), x, i) = Counting(i, a, c + 1)
         /\ \A x, s : s \notin Inos => ScanPage(Counting(i, a, n), x, s) = Counted(i, n, a)
         /\ \A x, s : s \notin Inos => ScanPage(Counted(i, n, a), x, s) = Counted(i, n, a)
         /\ CloseFragment(Counting(i, a, n)) = <<Run(i, n, a)>>
         /\ CloseFragment(Counted(i, n, a)) = <<Run(i, n, a)>>
<1>1. Run(i, 0, a) # NoFragment
  BY BlockInfoAssumption DEF Run, NoFragment
<1>2. CloseFragment(NoScan) = <<>>
  BY DEF CloseFragment, NoScan
<1>3. CloseFragment(Counting(i, a, n)) = <<Run(i, n, a)>>
  <2>1. [Run(i, 0, a) EXCEPT !.size = n] = Run(i, n, a)
    BY DEF Run
  <2>2. CloseFragment(Counting(i, a, n)) = Append(<<>>, [Run(i, 0, a) EXCEPT !.size = n])
    BY <1>1 DEF CloseFragment, Counting
  <2>3. \A x : Append(<<>>, x) = <<x>>
    OBVIOUS
  <2>. QED BY <2>1, <2>2, <2>3
<1>4. CloseFragment(Counted(i, n, a)) = <<Run(i, n, a)>>
  BY DEF CloseFragment, Counted
<1>5. \A x, s : s \notin Inos => ScanPage(NoScan, x, s) = NoScan
  BY <1>2 DEF ScanPage, NoScan
<1>6. ScanPage(NoScan, a, i) = Counting(i, a, 1)
  BY DEF ScanPage, NoScan, Counting, Run
<1>7. ASSUME NEW c \in Nat, NEW x PROVE ScanPage(Counting(i, a, c), x, i) = Counting(i, a, c + 1)
  <2>1. Counting(i, a, c).last # NoFragment /\ Counting(i, a, c).last.ino = i
    BY <1>1 DEF Counting, Run
  <2>2. ScanPage(Counting(i, a, c), x, i) = [Counting(i, a, c) EXCEPT !.size = @ + 1]
    BY <2>1 DEF ScanPage
  <2>. QED BY <2>2 DEF Counting
<1>8. ASSUME NEW x, NEW s, s \notin Inos
      PROVE  ScanPage(Counting(i, a, n), x, s) = Counted(i, n, a)
  <2>1. Counting(i, a, n).last # NoFragment
    BY <1>1 DEF Counting
  <2>. QED BY <1>3, <1>8, <2>1 DEF ScanPage, Counted
<1>9. ASSUME NEW x, NEW s, s \notin Inos
      PROVE  ScanPage(Counted(i, n, a), x, s) = Counted(i, n, a)
  <2>1. Counted(i, n, a).last = NoFragment /\ Counted(i, n, a).size = 0
    BY DEF Counted
  <2>. QED BY <1>4, <1>9, <2>1 DEF ScanPage, Counted
<1>. QED BY <1>3, <1>4, <1>5, <1>6, <1>7, <1>8, <1>9

LEMMA OneFound ==
  ASSUME NEW tbl, NEW victim \in Blocks, NEW i \in Inos, NEW n \in Nat \ {0}, NEW o \in Nat,
         o + n <= PagesPerBlock, NEW a, a = Address(victim, o),
         \A q \in Offsets : tbl[victim].used_map[q] \in Inos <=> q \in o .. o + n - 1,
         \A q \in o .. o + n - 1 : tbl[victim].used_map[q] = i
  PROVE  Fragments(tbl, victim) = <<Run(i, n, a)>>
<1>1. PICK f : ScanSteps(f, tbl, victim)
  BY FragmentsIs
<1>. DEFINE P == PagesPerBlock
            u == tbl[victim].used_map
            G == {k \in 0 .. P : f[k] = Scanned(k, i, n, o, a)}
<1>2. P \in Nat /\ \A k \in 1 .. P : k - 1 \in Offsets
  BY BlockInfoAssumption DEF Offsets
<1>3. f[0] = NoScan /\ CloseFragment(f[P]) = Fragments(tbl, victim)
  BY <1>1 DEF ScanSteps
<1>4. a \in Int
  BY BlockInfoAssumption DEF Address, Blocks
<1>5. \A k \in 1 .. P : f[k] = ScanPage(f[k - 1], Address(victim, k - 1), u[k - 1])
  BY <1>1 DEF ScanSteps
<1>6. \A k \in 1 .. P : /\ u[k - 1] \in Inos <=> k - 1 \in o .. o + n - 1
                        /\ k - 1 \in o .. o + n - 1 => u[k - 1] = i
  BY <1>2
<1>7. o + n <= P
  OBVIOUS
<1>. HIDE DEF P, u
<1>8. 0 \in G
  BY <1>2, <1>3 DEF Scanned
<1>9. ASSUME NEW k \in 1 .. P, k - 1 \in G PROVE k \in G
  <2>1. /\ f[k - 1] = Scanned(k - 1, i, n, o, a) /\ k \in 0 .. P /\ k \in Nat /\ k > 0
        /\ f[k] = ScanPage(f[k - 1], Address(victim, k - 1), u[k - 1])
    BY <1>2, <1>5, <1>9
  <2>. DEFINE s == u[k - 1]
              x == Address(victim, k - 1)
  <2>2. s \in Inos <=> k - 1 \in o .. o + n - 1
    BY <1>6
  <2>3. CASE k <= o
    <3>1. k - 1 <= o /\ s \notin Inos
      BY <2>1, <2>2, <2>3
    <3>2. f[k - 1] = NoScan
      BY <2>1, <3>1 DEF Scanned
    <3>3. f[k] = NoScan
      BY <1>4, <2>1, <3>1, <3>2, ScanIs
    <3>. QED BY <2>1, <2>3, <3>3 DEF Scanned
  <2>4. CASE k = o + 1
    <3>1. k - 1 = o /\ k - 1 <= o /\ ~(k <= o) /\ k <= o + n /\ k - o = 1 /\ k - 1 \in o .. o + n - 1
      BY <2>1, <2>4
    <3>2. f[k - 1] = NoScan /\ s = i /\ x = a
      BY <1>6, <2>1, <3>1 DEF Scanned
    <3>3. f[k] = Counting(i, a, 1)
      BY <1>4, <2>1, <3>2, ScanIs
    <3>. QED BY <2>1, <3>1, <3>3 DEF Scanned
  <2>5. CASE k > o + 1 /\ k <= o + n
    <3>. DEFINE c == (k - 1) - o
    <3>1. ~(k - 1 <= o) /\ k - 1 <= o + n /\ ~(k <= o) /\ k - 1 \in o .. o + n - 1 /\ c \in Nat
          /\ c + 1 = k - o
      BY <2>1, <2>5
    <3>2. f[k - 1] = Counting(i, a, c) /\ s = i
      BY <1>6, <2>1, <3>1 DEF Scanned
    <3>3. f[k] = ScanPage(Counting(i, a, c), x, i)
      BY <2>1, <3>2
    <3>. HIDE DEF c, x
    <3>4. f[k] = Counting(i, a, c + 1)
      BY <1>4, <3>1, <3>3, ScanIs
    <3>. QED BY <2>1, <2>5, <3>1, <3>4 DEF Scanned
  <2>6. CASE k = o + n + 1
    <3>1. ~(k - 1 <= o) /\ k - 1 <= o + n /\ ~(k <= o) /\ ~(k <= o + n) /\ (k - 1) - o = n
          /\ ~(k - 1 \in o .. o + n - 1)
      BY <2>1, <2>6
    <3>2. f[k - 1] = Counting(i, a, n) /\ s \notin Inos
      BY <2>1, <2>2, <3>1 DEF Scanned
    <3>3. f[k] = ScanPage(Counting(i, a, n), x, s)
      BY <2>1, <3>2
    <3>. HIDE DEF x, s
    <3>4. f[k] = Counted(i, n, a)
      BY <1>4, <3>2, <3>3, ScanIs
    <3>. QED BY <2>1, <3>1, <3>4 DEF Scanned
  <2>7. CASE k > o + n + 1
    <3>1. ~(k - 1 <= o) /\ ~(k - 1 <= o + n) /\ ~(k <= o) /\ ~(k <= o + n)
          /\ ~(k - 1 \in o .. o + n - 1)
      BY <2>1, <2>7
    <3>2. f[k - 1] = Counted(i, n, a) /\ s \notin Inos
      BY <2>1, <2>2, <3>1 DEF Scanned
    <3>3. f[k] = ScanPage(Counted(i, n, a), x, s)
      BY <2>1, <3>2
    <3>. HIDE DEF x, s
    <3>4. f[k] = Counted(i, n, a)
      BY <1>4, <3>2, <3>3, ScanIs
    <3>. QED BY <2>1, <3>1, <3>4 DEF Scanned
  <2>. QED BY <2>1, <2>3, <2>4, <2>5, <2>6, <2>7
<1>10. P \in G
  <2>. HIDE DEF G
  <2>. QED BY <1>2, <1>8, <1>9, UpTo
<1>11. f[P] = Scanned(P, i, n, o, a)
  BY <1>10
<1>12. ~(P <= o) /\ (P <= o + n => P - o = n)
  BY <1>2, <1>7
<1>13. f[P] = Counting(i, a, n) \/ f[P] = Counted(i, n, a)
  BY <1>11, <1>12 DEF Scanned
<1>. QED BY <1>3, <1>4, <1>13, ScanIs

LEMMA OneMove ==
  ASSUME NEW tbl, NEW victim, NEW i, NEW n, NEW a, Fragments(tbl, victim) = <<Run(i, n, a)>>,
         NEW to, to = FindWritePosExcept(tbl, n, victim)
  PROVE  Moves(tbl, victim) = <<[ino |-> i, size |-> n, from |-> a, to |-> to]>>
<1>. DEFINE frags == Fragments(tbl, victim)
            mvs == [k \in DOMAIN frags |->
                     [ino |-> frags[k].ino, size |-> frags[k].size, from |-> frags[k].from,
                      to |-> FindWritePosExcept(tbl, frags[k].size, victim)]]
<1>1. Moves(tbl, victim) = mvs
  BY DEF Moves
<1>2. DOMAIN frags = 1 .. 1 /\ frags[1] = Run(i, n, a)
  OBVIOUS
<1>3. frags[1].ino = i /\ frags[1].size = n /\ frags[1].from = a
  BY <1>2 DEF Run
<1>. HIDE DEF frags
<1>4. mvs = [k \in 1 .. 1 |-> [ino |-> i, size |-> n, from |-> a, to |-> to]]
  <2>1. \A k \in 1 .. 1 : k = 1
    OBVIOUS
  <2>. QED BY <1>2, <1>3, <2>1
<1>. QED BY <1>1, <1>4

(* The first entry that starts at the moved run is the only one.             *)
LEMMA RepointIs ==
  ASSUME NEW obj \in Objects, NEW from, NEW to \in Int, NEW x \in 1 .. Len(obj.entries),
         \A j \in 1 .. Len(obj.entries) : obj.entries[j].page_pointer = from <=> j = x,
         NEW new, new = Repoint(obj, from, to)
  PROVE  /\ new \in Objects /\ Len(new.entries) = Len(obj.entries)
         /\ new.entries[x] = [obj.entries[x] EXCEPT !.page_pointer = to]
         /\ \A j \in 1 .. Len(obj.entries) : j # x => new.entries[j] = obj.entries[j]
<1>. DEFINE es == obj.entries
            starts == {j \in DOMAIN es : es[j].page_pointer = from}
            d == [es[x] EXCEPT !.page_pointer = to]
<1>1. es \in Seq(Entry) /\ DOMAIN es = 1 .. Len(es) /\ Len(es) \in Nat
  BY DEF Objects
<1>2. starts = {x}
  BY <1>1
<1>3. LeastOf(starts) = x
  <2>1. LeastOf({x}) = x
    BY DEF LeastOf
  <2>. QED BY <1>2, <2>1
<1>4. new = [obj EXCEPT !.entries = [es EXCEPT ![x] = d]]
  <2>1. new = [obj EXCEPT !.entries[LeastOf(starts)].page_pointer = to]
    BY <1>2 DEF Repoint
  <2>. HIDE DEF starts
  <2>. QED BY <1>3, <2>1
<1>5. new \in Objects
  BY RepointTyped
<1>. HIDE DEF d, starts
<1>6. new.entries = [es EXCEPT ![x] = d]
  BY <1>4 DEF Objects
<1>. HIDE DEF es
<1>7. x \in DOMAIN es /\ new.entries \in Seq(Entry)
  BY <1>1, <1>5 DEF es, Objects
<1>8. DOMAIN new.entries = DOMAIN es /\ Len(new.entries) = Len(es)
  BY <1>1, <1>6, <1>7
<1>9. new.entries[x] = d /\ \A j \in DOMAIN es : j # x => new.entries[j] = es[j]
  BY <1>6, <1>7
<1>. QED BY <1>1, <1>5, <1>8, <1>9 DEF es, d

(* An entry whose pages are copied reads alike where they are.               *)
LEMMA ReadMoved ==
  ASSUME NEW e \in Entry, NEW to \in Int, NEW m, NEW t,
         \A k \in 0 .. PagesFor(e.archived_len) - 1 :
           ReadPage(t, to + k) = ReadPage(m, e.page_pointer + k)
  PROVE  ReadEntry(t, [e EXCEPT !.page_pointer = to]) = ReadEntry(m, e)
<1>. DEFINE n == PagesFor(e.archived_len)
            p == e.page_pointer
            P == PageBytes
            len == e.archived_len
            d == [e EXCEPT !.page_pointer = to]
<1>1. n \in Nat /\ p \in Int /\ len \in Nat /\ d.archived_len = len /\ d.page_pointer = to
  BY PagesOfIs DEF Entry, EntryRecord
<1>2. ASSUME NEW j \in 1 .. len
      PROVE  ReadPage(t, to + (j - 1) \div P) = ReadPage(m, p + (j - 1) \div P)
  <2>0. j \in Nat /\ j > 0 /\ j <= len /\ j - 1 \in Nat /\ P \in Nat \ {0}
    BY <1>1, KVManagerAssumption
  <2>. DEFINE q == (j - 1) \div P
  <2>1. q \in Nat
    <3>. DEFINE x == j - 1
    <3>1. x \in Nat
      BY <2>0
    <3>. HIDE DEF P, x
    <3>2. x \div P \in Nat
      BY <2>0, <3>1, Quotient
    <3>. QED BY <3>2 DEF x
  <2>2. PagesFor(j) = q + 1
    BY DEF PagesFor
  <2>3. PagesFor(j) <= n
    BY <1>1, <2>0, PagesForMono
  <2>. HIDE DEF q, n
  <2>4. q \in 0 .. n - 1
    BY <1>1, <2>1, <2>2, <2>3
  <2>5. ReadPage(t, to + q) = ReadPage(m, p + q)
    BY <2>4 DEF n
  <2>. QED BY <2>5 DEF q
<1>. HIDE DEF d
<1>. QED BY <1>1, <1>2 DEF ReadEntry

LEMMA AllSame ==
  ASSUME NEW m \in States, NEW t \in States, NEW i \in Inos,
         m.objects[i] = NoObject => t.objects[i] = NoObject,
         m.objects[i] # NoObject =>
           /\ t.objects[i] # NoObject
           /\ Len(t.objects[i].entries) = Len(m.objects[i].entries)
           /\ \A k \in 1 .. Len(m.objects[i].entries) :
                ReadEntry(t, t.objects[i].entries[k]) = ReadEntry(m, m.objects[i].entries[k])
  PROVE  ReadAll(t, i) = ReadAll(m, i)
<1>1. CASE m.objects[i] = NoObject
  BY <1>1 DEF ReadAll
<1>2. CASE m.objects[i] # NoObject
  <2>. DEFINE es == m.objects[i].entries
              fs == t.objects[i].entries
  <2>1. m.objects[i] \in Objects /\ t.objects[i] \in Objects
    BY <1>2 DEF States
  <2>2. es \in Seq(Entry) /\ fs \in Seq(Entry)
    BY <2>1 DEF Objects
  <2>3. ReadAll(m, i) = Text(m, es) /\ ReadAll(t, i) = Text(t, fs)
    BY <1>2 DEF ReadAll, Text
  <2>4. Len(fs) = Len(es) /\ \A k \in 1 .. Len(es) : ReadEntry(t, fs[k]) = ReadEntry(m, es[k])
    BY <1>2
  <2>. HIDE DEF es, fs
  <2>. QED BY <2>2, <2>3, <2>4, TextSame
<1>. QED BY <1>1, <1>2

(* What one move leaves.                                                     *)
FragmentMoved(m, t, mv, b) ==
  /\ t \in States /\ Running(t)
  /\ t.objects = [m.objects EXCEPT ![mv.ino] = Repoint(@, mv.from, mv.to)]
  /\ \A k \in 0 .. mv.size - 1 :
       mv.to + k \in Pages /\ BlockOf(mv.to + k) = b /\ t.flash[mv.to + k] = ReadPage(m, mv.from + k)
  /\ \A a \in Pages : Below(m, a) => t.flash[a] = m.flash[a]

LEMMA MoveFragmentDone ==
  ASSUME NEW m, Sound(m), Running(m), NEW mv \in Plan, NEW b, PlaceIn(m.table, mv.to, mv.size, b),
         \A k \in 1 .. mv.size : mv.from + k - 1 \in Pages,
         m.objects[mv.ino] # NoObject, NEW t, t = MoveFragment(m, mv), mv.to \in Int
  PROVE  FragmentMoved(m, t, mv, b)
<1>. DEFINE d == DropPages(m, mv.from, mv.size)
            h == Held(m, mv)
            q == ProgramRun(d, mv.to, h, mv.ino)
            n == mv.size
            at == mv.to
            ino == mv.ino
<1>1. n \in Nat /\ ino \in Inos /\ mv.from \in Int /\ m \in States /\ b \in Blocks /\ at \in Int
  BY DEF Plan, Sound, PlaceIn
<1>2. d \in States /\ SameButUse(m, d) /\ Running(d)
  BY <1>1, DropPagesDone
<1>3. h \in Seq(PageData) /\ Len(h) = n
  BY <1>1, HeldTyped
<1>4. t = RepointOwner(q, mv) /\ q = ProgramRun(d, at, h, ino)
  BY DEF MoveFragment, Held
<1>5. h = [k \in 1 .. n |-> ReadPage(m, mv.from + k - 1)]
  BY DEF Held
<1>. HIDE DEF d, h, n, at, ino
<1>6. Sound(d)
  BY <1>2, SameIsSound
<1>7. PlaceIn(d.table, at, n, b)
  BY <1>1, <1>2 DEF PlaceIn, SameButUse, n, at
<1>. HIDE DEF q
<1>8. /\ Programmed(d, q, b, at, h, ino, n)
      /\ at \in Nat
      /\ \A k \in 1 .. n : /\ at + k - 1 \in Pages /\ BlockOf(at + k - 1) = b
                           /\ OffsetOf(at + k - 1) = d.table[b].reserved_offset + k - 1
  <2>1. PlaceIn(d.table, at, Len(h), b) /\ h \in Seq(PageData) /\ ino \in Inos
        /\ q = ProgramRun(d, at, h, ino)
    BY <1>1, <1>3, <1>4, <1>7
  <2>2. /\ Programmed(d, q, b, at, h, ino, Len(h))
        /\ at \in Nat
        /\ \A k \in 1 .. Len(h) : /\ at + k - 1 \in Pages /\ BlockOf(at + k - 1) = b
                                 /\ OffsetOf(at + k - 1) = d.table[b].reserved_offset + k - 1
    BY <1>2, <1>6, <2>1, ProgramRunDone
  <2>. QED BY <1>3, <2>2
<1>9. /\ q \in States /\ Running(q) /\ q.objects = m.objects
      /\ \A p \in Pages : q.flash[p] = IF p \in at .. at + n - 1 THEN h[p - at + 1] ELSE m.flash[p]
  BY <1>2, <1>8 DEF Programmed, SameButUse
<1>10. t = [q EXCEPT !.objects[ino] = Repoint(@, mv.from, at)]
  BY <1>4, <1>9 DEF RepointOwner, ino, at
<1>11. t \in States /\ t.flash = q.flash
  BY <1>4, <1>9, RepointOwnerSound
<1>12. Running(t) /\ t.objects = [m.objects EXCEPT ![ino] = Repoint(@, mv.from, at)]
  BY <1>9, <1>10 DEF Running, States
<1>13. ASSUME NEW k \in 0 .. n - 1
       PROVE  at + k \in Pages /\ BlockOf(at + k) = b /\ t.flash[at + k] = ReadPage(m, mv.from + k)
  <2>1. k + 1 \in 1 .. n /\ at + (k + 1) - 1 = at + k /\ at + k \in at .. at + n - 1
        /\ (at + k) - at + 1 = k + 1 /\ mv.from + (k + 1) - 1 = mv.from + k
    BY <1>1, <1>8
  <2>2. at + k \in Pages /\ BlockOf(at + k) = b
    BY <1>8, <2>1
  <2>3. t.flash[at + k] = h[k + 1]
    BY <1>9, <1>11, <2>1, <2>2
  <2>4. h[k + 1] = ReadPage(m, mv.from + k)
    <3>1. h[k + 1] = ReadPage(m, mv.from + (k + 1) - 1)
      BY <1>5, <2>1
    <3>. QED BY <2>1, <3>1
  <2>. QED BY <2>2, <2>3, <2>4
<1>14. ASSUME NEW a \in Pages, Below(m, a) PROVE t.flash[a] = m.flash[a]
  <2>1. a \in Nat /\ a \notin at .. at + n - 1
    <3>1. a \in Nat
      BY AddressIs
    <3>2. ASSUME a \in at .. at + n - 1 PROVE FALSE
      <4>. DEFINE k == a - at + 1
      <4>1. k \in 1 .. n /\ at + k - 1 = a /\ k >= 1
        BY <1>1, <3>2, <1>8
      <4>. HIDE DEF k
      <4>2. BlockOf(a) = b /\ OffsetOf(a) = d.table[b].reserved_offset + k - 1
        BY <1>8, <4>1
      <4>3. d.table[b].reserved_offset = m.table[b].reserved_offset
            /\ m.table[b].reserved_offset \in Int
        BY <1>1, <1>2 DEF SameButUse, Sound, Reserved
      <4>. QED BY <1>1, <1>14, <4>1, <4>2, <4>3 DEF Below
    <3>. QED BY <3>1, <3>2
  <2>. QED BY <1>9, <1>11, <2>1
<1>. QED BY <1>11, <1>12, <1>13, <1>14 DEF FragmentMoved, n, at, ino

LEMMA EraseVictimDone ==
  ASSUME NEW m \in States, Running(m), NEW v \in Blocks, NEW t, t = EraseVictim(m, v)
  PROVE  /\ Running(t) /\ t.objects = m.objects
         /\ \A a \in Pages : BlockOf(a) # v => t.flash[a] = m.flash[a]
<1>. DEFINE blank == [a \in Pages |-> IF BlockOf(a) = v THEN BlankPage ELSE m.flash[a]]
<1>1. t = [m EXCEPT !.table[v] = CleanBlock, !.flash = blank]
  BY DEF EraseVictim
<1>. HIDE DEF blank
<1>2. t.objects = m.objects /\ t.flash = blank /\ t.status = m.status
  BY <1>1 DEF States
<1>. QED BY <1>2 DEF Running, blank

-----------------------------------------------------------------------------
(* What the objects hold, around a round of the collector.                   *)

ExtentOf(m, i, k) == m.objects[i].entries[k]
HasExtent(m, i, k) == m.objects[i] # NoObject /\ k \in 1 .. Len(m.objects[i].entries)

(* The pages of a stored extent are busy.                                    *)
Busy(m) ==
  \A i \in Inos, k \in Nat : HasExtent(m, i, k) =>
    \A a \in PagesOf(ExtentOf(m, i, k)) : a \in Pages /\ Use(m, a) \in Inos

(* No page of block v is busy; only those of extent x of inode i are.        *)
NoneIn(m, v) == \A a \in Pages : BlockOf(a) = v => Use(m, a) \notin Inos

OnlyIn(m, v, i, x) ==
  /\ HasExtent(m, i, x)
  /\ \A a \in Pages : BlockOf(a) = v /\ Use(m, a) \in Inos <=> a \in PagesOf(ExtentOf(m, i, x))
  /\ \A a \in PagesOf(ExtentOf(m, i, x)) : Use(m, a) = i
  /\ \A j \in Inos, k \in Nat :
       HasExtent(m, j, k) /\ ~(j = i /\ k = x) =>
         PagesOf(ExtentOf(m, j, k)) \cap PagesOf(ExtentOf(m, i, x)) = {}

SameContent(m, t) == \A i \in Inos : ReadAll(t, i) = ReadAll(m, i)

LEMMA ExtentTyped ==
  ASSUME NEW m \in States, NEW i \in Inos, NEW k, HasExtent(m, i, k)
  PROVE  /\ m.objects[i] \in Objects /\ ExtentOf(m, i, k) \in Entry /\ k \in Nat
         /\ m.objects[i].entries \in Seq(Entry)
  BY DEF HasExtent, ExtentOf, States, Objects

LEMMA CollectNothing ==
  ASSUME NEW m, Sound(m), Running(m), Busy(m), NEW v \in Blocks, NoneIn(m, v),
         NEW t, t = Collect(m, v)
  PROVE  Running(t) /\ SameContent(m, t)
<1>1. m \in States
  BY DEF Sound
<1>2. Fragments(m.table, v) = <<>>
  <2>1. \A o \in Offsets : m.table[v].used_map[o] \notin Inos
    BY AddressOf DEF NoneIn, Use
  <2>. QED BY <2>1, NothingFound
<1>. DEFINE mvs == Moves(m.table, v)
<1>3. mvs = <<>>
  <2>1. mvs \in Seq(Plan) /\ DOMAIN mvs = DOMAIN Fragments(m.table, v)
    BY MovesTyped DEF Moves
  <2>2. DOMAIN mvs = {}
    BY <1>2, <2>1
  <2>. HIDE DEF mvs
  <2>. QED BY <2>1, <2>2
<1>. DEFINE q == FoldLeft(MoveFragment, m, mvs)
<1>4. t = EraseVictim(q, v)
  <2>1. ~ \E i \in DOMAIN mvs : mvs[i].to = NoPos
    BY <1>3
  <2>. QED BY <2>1 DEF Collect, DisposeGroup
<1>5. mvs \in Seq(Plan) /\ AllPlaced(m.table, mvs) /\ Len(mvs) = 0
  BY <1>3 DEF AllPlaced
<1>. HIDE DEF mvs
<1>6. q = m
  <2>1. PICK f : MoveSteps(f, m, mvs)
    BY <1>1, <1>5, MovesIs
  <2>. QED BY <1>5, <2>1 DEF MoveSteps
<1>. HIDE DEF q
<1>7. /\ Running(t) /\ t.objects = m.objects
      /\ \A a \in Pages : BlockOf(a) # v => t.flash[a] = m.flash[a]
  BY <1>1, <1>4, <1>6, EraseVictimDone
<1>8. t \in States
  BY <1>4, <1>6, EraseVictimSound DEF Sound
<1>9. ASSUME NEW i \in Inos PROVE ReadAll(t, i) = ReadAll(m, i)
  <2>1. ASSUME m.objects[i] # NoObject, NEW k \in 1 .. Len(m.objects[i].entries)
        PROVE  ReadEntry(t, t.objects[i].entries[k]) = ReadEntry(m, m.objects[i].entries[k])
    <3>. DEFINE e == ExtentOf(m, i, k)
    <3>1. HasExtent(m, i, k)
      BY <2>1 DEF HasExtent
    <3>2. e \in Entry /\ k \in Nat
      BY <1>1, <3>1, ExtentTyped
    <3>3. \A a \in PagesOf(e) : a \in Pages /\ t.flash[a] = m.flash[a]
      BY <1>7, <3>1, <3>2 DEF Busy, NoneIn
    <3>4. t.objects[i].entries[k] = e /\ m.objects[i].entries[k] = e
      BY <1>7 DEF ExtentOf
    <3>. HIDE DEF e
    <3>. QED BY <3>2, <3>3, <3>4, ReadSame
  <2>. QED BY <1>1, <1>7, <1>8, <2>1, AllSame
<1>. QED BY <1>7, <1>9 DEF SameContent

(* The pages of an extent that is alone in its block.                        *)
Alone(m, v, i, e, n, o) ==
  /\ e \in Entry /\ n \in Nat \ {0} /\ n = PagesFor(e.archived_len)
  /\ o \in Nat /\ o + n <= PagesPerBlock /\ e.page_pointer = Address(v, o)
  /\ PagesOf(e) = e.page_pointer .. e.page_pointer + n - 1
  /\ \A a \in PagesOf(e) : a \in Pages /\ BlockOf(a) = v
  /\ \A q \in Offsets : m.table[v].used_map[q] \in Inos <=> q \in o .. o + n - 1
  /\ \A q \in o .. o + n - 1 : m.table[v].used_map[q] = i

LEMMA AloneIs ==
  ASSUME NEW m, Sound(m), Busy(m), NEW v \in Blocks, NEW i \in Inos, NEW x, OnlyIn(m, v, i, x),
         NEW e, e = ExtentOf(m, i, x)
  PROVE  Alone(m, v, i, e, PagesFor(e.archived_len), OffsetOf(e.page_pointer))
<1>. DEFINE n == PagesFor(e.archived_len)
            p == e.page_pointer
            o == OffsetOf(p)
            X == v * PagesPerBlock
            c == p + n - 1
<1>1. e \in Entry /\ x \in Nat
  BY ExtentTyped DEF OnlyIn, Sound
<1>2. n \in Nat /\ p \in Int /\ PagesOf(e) = p .. p + n - 1 /\ p \in PagesOf(e)
  BY <1>1, PagesOfIs DEF Entry
<1>3. \A a \in PagesOf(e) : a \in Pages /\ Use(m, a) = i
  BY <1>1 DEF OnlyIn, Busy
<1>4. \A a \in PagesOf(e) : BlockOf(a) = v
  BY <1>3 DEF OnlyIn
<1>5. X \in Nat /\ \A q : Address(v, q) = X + q
  BY BlockInfoAssumption DEF Blocks, Address
<1>6. \A a \in PagesOf(e) : OffsetOf(a) \in Offsets /\ a = X + OffsetOf(a)
  BY <1>3, <1>4, <1>5, AddressIs
<1>7. Offsets = 0 .. PagesPerBlock - 1 /\ PagesPerBlock \in Nat
  BY BlockInfoAssumption DEF Offsets
<1>. HIDE DEF n, p, X
<1>8. n \in Nat \ {0} /\ c \in PagesOf(e) /\ p \in PagesOf(e)
  BY <1>2
<1>9. o \in Nat /\ p = X + o
  BY <1>6, <1>7, <1>8
<1>10. o + n <= PagesPerBlock
  <2>1. OffsetOf(c) \in 0 .. PagesPerBlock - 1 /\ c = X + OffsetOf(c)
    BY <1>6, <1>7, <1>8
  <2>. DEFINE w == OffsetOf(c)
  <2>2. w <= PagesPerBlock - 1 /\ p + n - 1 = X + w /\ w \in Nat
    BY <1>7, <2>1
  <2>. HIDE DEF w, o
  <2>. QED BY <1>5, <1>7, <1>8, <1>9, <2>2
<1>. HIDE DEF o, c
<1>11. \A q \in Offsets : /\ Address(v, q) \in Pages /\ BlockOf(Address(v, q)) = v
                          /\ OffsetOf(Address(v, q)) = q
  BY AddressOf
<1>12. \A q \in Offsets : Address(v, q) \in PagesOf(e) <=> q \in o .. o + n - 1
  <2>1. \A q \in Offsets : q \in Nat
    BY <1>7
  <2>2. \A q \in Nat : X + q \in p .. p + n - 1 <=> q \in o .. o + n - 1
    BY <1>5, <1>8, <1>9
  <2>. QED BY <1>2, <1>5, <2>1, <2>2
<1>13. \A q \in Offsets : m.table[v].used_map[q] = Use(m, Address(v, q))
  BY <1>11 DEF Use
<1>14. \A q \in Offsets : m.table[v].used_map[q] \in Inos <=> q \in o .. o + n - 1
  <2>1. \A q \in Offsets : Use(m, Address(v, q)) \in Inos <=> Address(v, q) \in PagesOf(e)
    BY <1>11 DEF OnlyIn
  <2>. QED BY <1>12, <1>13, <2>1
<1>15. \A q \in o .. o + n - 1 : m.table[v].used_map[q] = i
  <2>1. \A q \in o .. o + n - 1 : q \in Offsets
    BY <1>7, <1>8, <1>9, <1>10
  <2>. QED BY <1>3, <1>12, <1>13, <2>1
<1>16. p = Address(v, o)
  BY <1>5, <1>9
<1>. QED
  BY <1>1, <1>2, <1>3, <1>4, <1>8, <1>9, <1>10, <1>14, <1>15, <1>16 DEF Alone, n, p, o

LEMMA OneMoveLeft ==
  ASSUME NEW m, Sound(m), NEW v \in Blocks, NEW i \in Inos, NEW e, NEW n, NEW o, Alone(m, v, i, e, n, o),
         NEW to, to = FindWritePosExcept(m.table, n, v),
         NEW mv, mv = [ino |-> i, size |-> n, from |-> e.page_pointer, to |-> to]
  PROVE  /\ Moves(m.table, v) = <<mv>> /\ mv \in Plan
         /\ to # NoPos => \E b \in Blocks \ {v} : PlaceIn(m.table, to, n, b)
<1>. DEFINE tbl == m.table
            p == e.page_pointer
            mvs == Moves(tbl, v)
<1>1. /\ n \in Nat \ {0} /\ o \in Nat /\ o + n <= PagesPerBlock /\ p = Address(v, o)
      /\ \A q \in Offsets : tbl[v].used_map[q] \in Inos <=> q \in o .. o + n - 1
      /\ \A q \in o .. o + n - 1 : tbl[v].used_map[q] = i
  BY DEF Alone
<1>2. Fragments(tbl, v) = <<Run(i, n, p)>>
  <2>1. n \in Nat \ {0} /\ o \in Nat /\ o + n <= PagesPerBlock
    BY <1>1
  <2>2. p = Address(v, o)
    BY <1>1
  <2>3. \A q \in Offsets : tbl[v].used_map[q] \in Inos <=> q \in o .. o + n - 1
    BY <1>1
  <2>4. \A q \in o .. o + n - 1 : tbl[v].used_map[q] = i
    BY <1>1
  <2>. HIDE DEF tbl, p
  <2>. QED BY <2>1, <2>2, <2>3, <2>4, OneFound
<1>3. mvs = <<mv>>
  <2>1. to = FindWritePosExcept(tbl, n, v)
    OBVIOUS
  <2>. HIDE DEF p, tbl
  <2>2. mvs = <<[ino |-> i, size |-> n, from |-> p, to |-> to]>>
    BY <1>2, <2>1, OneMove
  <2>. QED BY <2>2 DEF p
<1>4. /\ mvs \in Seq(Plan)
      /\ \A k \in DOMAIN mvs :
           mvs[k].to # NoPos => \E b \in Blocks \ {v} : PlaceIn(m.table, mvs[k].to, mvs[k].size, b)
  BY MovesTyped
<1>. HIDE DEF mvs
<1>5. 1 \in DOMAIN mvs /\ mvs[1] = mv
  BY <1>3
<1>6. mv \in Plan
  BY <1>3, <1>4, <1>5
<1>7. mv.to = to /\ mv.size = n
  OBVIOUS
<1>8. to # NoPos => \E b \in Blocks \ {v} : PlaceIn(m.table, to, n, b)
  <2>. HIDE DEF tbl
  <2>. QED BY <1>4, <1>5, <1>7
<1>. QED BY <1>3, <1>6, <1>8 DEF mvs

(* The extent re-pointed, and the others.                                    *)
Repointed(m, t, i, x, to) ==
  /\ \A j \in Inos : m.objects[j] = NoObject => t.objects[j] = NoObject
  /\ \A j \in Inos : m.objects[j] # NoObject =>
       t.objects[j] # NoObject /\ Len(t.objects[j].entries) = Len(m.objects[j].entries)
  /\ ExtentOf(t, i, x) = [ExtentOf(m, i, x) EXCEPT !.page_pointer = to]
  /\ \A j \in Inos, k \in Nat :
       HasExtent(m, j, k) /\ ~(j = i /\ k = x) => ExtentOf(t, j, k) = ExtentOf(m, j, k)

LEMMA RepointedIs ==
  ASSUME NEW m, Sound(m), Busy(m), NEW v, NEW i \in Inos, NEW x, OnlyIn(m, v, i, x),
         NEW p, p = ExtentOf(m, i, x).page_pointer, NEW to \in Int, NEW t,
         t.objects = [m.objects EXCEPT ![i] = Repoint(m.objects[i], p, to)]
  PROVE  Repointed(m, t, i, x, to)
<1>. DEFINE obj == m.objects[i]
            new == Repoint(obj, p, to)
            es == obj.entries
<1>1. m \in States /\ HasExtent(m, i, x)
  BY DEF Sound, OnlyIn
<1>2. obj \in Objects /\ x \in 1 .. Len(es) /\ es \in Seq(Entry) /\ obj # NoObject
  BY <1>1, ExtentTyped DEF HasExtent
<1>3. ASSUME NEW j \in 1 .. Len(es) PROVE es[j].page_pointer = p <=> j = x
  <2>1. ASSUME es[j].page_pointer = p, j # x PROVE FALSE
    <3>1. HasExtent(m, i, j) /\ j \in Nat /\ x \in Nat
      BY <1>2 DEF HasExtent
    <3>2. PagesOf(ExtentOf(m, i, j)) \cap PagesOf(ExtentOf(m, i, x)) = {}
      BY <2>1, <3>1 DEF OnlyIn
    <3>3. ExtentOf(m, i, j) \in Entry /\ ExtentOf(m, i, x) \in Entry
      BY <1>1, <3>1, ExtentTyped
    <3>4. ExtentOf(m, i, j).page_pointer = p
      BY <2>1 DEF ExtentOf
    <3>5. p \in PagesOf(ExtentOf(m, i, j)) /\ p \in PagesOf(ExtentOf(m, i, x))
      BY <3>3, <3>4, PagesOfIs DEF Entry
    <3>. QED BY <3>2, <3>5
  <2>2. es[x].page_pointer = p
    BY DEF ExtentOf
  <2>. QED BY <2>1, <2>2
<1>4. /\ new \in Objects /\ Len(new.entries) = Len(es)
      /\ new.entries[x] = [es[x] EXCEPT !.page_pointer = to]
      /\ \A j \in 1 .. Len(es) : j # x => new.entries[j] = es[j]
  <2>1. new = Repoint(obj, p, to) /\ \A j \in 1 .. Len(obj.entries) : obj.entries[j].page_pointer = p <=> j = x
    BY <1>3
  <2>2. x \in 1 .. Len(obj.entries)
    BY <1>2
  <2>. HIDE DEF new, obj
  <2>. QED BY <1>2, <2>1, <2>2, RepointIs
<1>5. new # NoObject
  BY <1>4, NoObjectIs
<1>6. m.objects \in [Inos -> Objects \cup {NoObject}]
  BY <1>1 DEF States
<1>7. t.objects[i] = new /\ \A j \in Inos : j # i => t.objects[j] = m.objects[j]
  BY <1>6
<1>. HIDE DEF new
<1>8. ExtentOf(t, i, x) = [ExtentOf(m, i, x) EXCEPT !.page_pointer = to]
  BY <1>4, <1>7 DEF ExtentOf
<1>9. ASSUME NEW j \in Inos, NEW k \in Nat, HasExtent(m, j, k), ~(j = i /\ k = x)
      PROVE  ExtentOf(t, j, k) = ExtentOf(m, j, k)
  <2>1. CASE j # i
    BY <1>7, <2>1 DEF ExtentOf
  <2>2. CASE j = i
    <3>1. k \in 1 .. Len(es) /\ k # x
      BY <1>9, <2>2 DEF HasExtent
    <3>. QED BY <1>4, <1>7, <2>2, <3>1 DEF ExtentOf
  <2>. QED BY <2>1, <2>2
<1>10. \A j \in Inos : m.objects[j] = NoObject => t.objects[j] = NoObject
  BY <1>2, <1>7
<1>11. \A j \in Inos : m.objects[j] # NoObject =>
         t.objects[j] # NoObject /\ Len(t.objects[j].entries) = Len(m.objects[j].entries)
  BY <1>4, <1>5, <1>7
<1>. QED BY <1>8, <1>9, <1>10, <1>11 DEF Repointed

(* Around the move and the erasure, every object reads as before.            *)
LEMMA CollectOne ==
  ASSUME NEW m, Sound(m), Running(m), Busy(m), NEW v \in Blocks, NEW i \in Inos, NEW x,
         OnlyIn(m, v, i, x), NEW t, t = Collect(m, v)
  PROVE  t.status = "no_room" \/ (Running(t) /\ SameContent(m, t))
<1>. DEFINE e == ExtentOf(m, i, x)
            p == e.page_pointer
            n == PagesFor(e.archived_len)
            o == OffsetOf(p)
            to == FindWritePosExcept(m.table, n, v)
            mv == [ino |-> i, size |-> n, from |-> p, to |-> to]
            mvs == Moves(m.table, v)
<1>1. m \in States /\ HasExtent(m, i, x) /\ e \in Entry /\ x \in Nat
  BY ExtentTyped DEF Sound, OnlyIn
<1>2. Alone(m, v, i, e, n, o)
  BY AloneIs
<1>3. /\ mvs = <<mv>> /\ mv \in Plan
      /\ to # NoPos => \E b \in Blocks \ {v} : PlaceIn(m.table, to, n, b)
  <2>1. to = FindWritePosExcept(m.table, n, v) /\ mv = [ino |-> i, size |-> n, from |-> e.page_pointer, to |-> to]
    OBVIOUS
  <2>. HIDE DEF e, n, o, to, mv
  <2>. QED BY <1>2, <2>1, OneMoveLeft
<1>4. t = DisposeGroup(m, mvs, v)
  BY DEF Collect
<1>5. mv.ino = i /\ mv.size = n /\ mv.from = p /\ mv.to = to
  OBVIOUS
<1>6. mvs \in Seq(Plan) /\ Len(mvs) = 1 /\ DOMAIN mvs = 1 .. 1 /\ mvs[1] = mv
  <2>. HIDE DEF mvs, mv
  <2>. QED BY <1>3
<1>. HIDE DEF mvs, mv, to, o, n, p, e
<1>7. CASE to = NoPos
  <2>1. t = Panic(m, "no_room")
    BY <1>4, <1>5, <1>6, <1>7 DEF DisposeGroup
  <2>2. t.status = "no_room"
    BY <1>1, <2>1 DEF Panic, States
  <2>. QED BY <2>2
<1>8. CASE to # NoPos
  <2>. DEFINE q == FoldLeft(MoveFragment, m, mvs)
  <2>1. PICK b \in Blocks \ {v} : PlaceIn(m.table, to, n, b)
    BY <1>3, <1>8
  <2>2. to \in Nat
    BY <1>3, <1>5, <1>8 DEF Plan
  <2>3. t = EraseVictim(q, v)
    <3>1. ~ \E k \in DOMAIN mvs : mvs[k].to = NoPos
      BY <1>5, <1>6, <1>8
    <3>. QED BY <1>4, <3>1 DEF DisposeGroup
  <2>4. AllPlaced(m.table, mvs)
    <3>1. \A k \in DOMAIN mvs : mvs[k] = mv
      BY <1>6
    <3>2. Placed(m.table, mv)
      BY <1>5, <2>1, <2>2 DEF Placed
    <3>. QED BY <3>1, <3>2 DEF AllPlaced
  <2>5. q = MoveFragment(m, mv)
    <3>1. PICK f : MoveSteps(f, m, mvs)
      BY <1>1, <1>6, <2>4, MovesIs
    <3>2. f[0] = m /\ f[1] = q /\ f[1] = MoveFragment(f[1 - 1], mvs[1])
      BY <1>6, <3>1 DEF MoveSteps
    <3>3. f[1 - 1] = m
      BY <3>2
    <3>. QED BY <1>6, <3>2, <3>3
  <2>6. Sound(q)
    BY <1>6, <2>4, MovesSound
  <2>. HIDE DEF q
  <2>7. p \in Int /\ n \in Nat /\ PagesOf(e) = p .. p + n - 1 /\ \A a \in PagesOf(e) : a \in Pages /\ BlockOf(a) = v
    BY <1>2 DEF Alone, Entry, EntryRecord, p
  <2>8. FragmentMoved(m, q, mv, b)
    <3>1. \A k \in 1 .. n : p + k - 1 \in Pages
      <4>1. \A k \in 1 .. n : p + k - 1 \in p .. p + n - 1
        BY <2>7
      <4>. QED BY <2>7, <4>1
    <3>2. \A k \in 1 .. mv.size : mv.from + k - 1 \in Pages
      BY <1>5, <3>1
    <3>3. m.objects[mv.ino] # NoObject /\ PlaceIn(m.table, mv.to, mv.size, b) /\ mv.to \in Int
      BY <1>1, <1>5, <2>1, <2>2 DEF HasExtent
    <3>. QED BY <1>3, <2>5, <3>2, <3>3, MoveFragmentDone
  <2>9. /\ q.objects = [m.objects EXCEPT ![i] = Repoint(m.objects[i], p, to)]
        /\ \A k \in 0 .. n - 1 :
             to + k \in Pages /\ BlockOf(to + k) = b /\ q.flash[to + k] = ReadPage(m, p + k)
        /\ \A a \in Pages : Below(m, a) => q.flash[a] = m.flash[a]
        /\ q \in States /\ Running(q)
    BY <1>5, <2>8 DEF FragmentMoved
  <2>10. /\ Running(t) /\ t.objects = q.objects
         /\ \A a \in Pages : BlockOf(a) # v => t.flash[a] = q.flash[a]
    BY <2>3, <2>9, EraseVictimDone
  <2>11. t \in States
    BY <2>3, <2>6, EraseVictimSound DEF Sound
  <2>12. Repointed(m, t, i, x, to)
    <3>1. p = ExtentOf(m, i, x).page_pointer /\ to \in Int
          /\ t.objects = [m.objects EXCEPT ![i] = Repoint(m.objects[i], p, to)]
      BY <2>2, <2>9, <2>10 DEF p, e
    <3>. QED BY <3>1, RepointedIs
  <2>13. ReadEntry(t, ExtentOf(t, i, x)) = ReadEntry(m, e)
    <3>1. ASSUME NEW k \in 0 .. n - 1 PROVE ReadPage(t, to + k) = ReadPage(m, p + k)
      <4>1. to + k \in Pages /\ BlockOf(to + k) # v /\ q.flash[to + k] = ReadPage(m, p + k)
        BY <2>1, <2>9
      <4>2. t.flash[to + k] = q.flash[to + k]
        BY <2>10, <4>1
      <4>. QED BY <4>1, <4>2 DEF ReadPage
    <3>2. ReadEntry(t, [e EXCEPT !.page_pointer = to]) = ReadEntry(m, e)
      <4>1. \A k \in 0 .. PagesFor(e.archived_len) - 1 : ReadPage(t, to + k) = ReadPage(m, e.page_pointer + k)
        BY <3>1 DEF n, p
      <4>2. to \in Int
        BY <2>2
      <4>. QED BY <1>1, <4>1, <4>2, ReadMoved
    <3>3. ExtentOf(t, i, x) = [e EXCEPT !.page_pointer = to]
      BY <2>12 DEF Repointed, e
    <3>. QED BY <3>2, <3>3
  <2>14. ASSUME NEW j \in Inos, NEW k \in Nat, HasExtent(m, j, k)
         PROVE  ReadEntry(t, ExtentOf(t, j, k)) = ReadEntry(m, ExtentOf(m, j, k))
    <3>1. CASE j = i /\ k = x
      BY <2>13, <3>1 DEF e
    <3>2. CASE ~(j = i /\ k = x)
      <4>. DEFINE d == ExtentOf(m, j, k)
      <4>1. ExtentOf(t, j, k) = d
        BY <2>12, <2>14, <3>2 DEF Repointed
      <4>2. d \in Entry
        BY <1>1, <2>14, ExtentTyped
      <4>3. PagesOf(d) \cap PagesOf(e) = {}
        BY <2>14, <3>2 DEF OnlyIn, e
      <4>4. ASSUME NEW a \in PagesOf(d) PROVE a \in Pages /\ t.flash[a] = m.flash[a]
        <5>1. a \in Pages /\ Use(m, a) \in Inos
          BY <2>14 DEF Busy
        <5>2. BlockOf(a) # v
          BY <4>3, <5>1 DEF OnlyIn, e
        <5>3. Below(m, a)
          BY <5>1 DEF Sound, Marked
        <5>. QED BY <2>9, <2>10, <5>1, <5>2, <5>3
      <4>. HIDE DEF d
      <4>5. ReadEntry(t, d) = ReadEntry(m, d)
        BY <4>2, <4>4, ReadSame
      <4>. QED BY <4>1, <4>5 DEF d
    <3>. QED BY <3>1, <3>2
  <2>15. ASSUME NEW j \in Inos PROVE ReadAll(t, j) = ReadAll(m, j)
    <3>1. ASSUME m.objects[j] # NoObject, NEW k \in 1 .. Len(m.objects[j].entries)
          PROVE  ReadEntry(t, t.objects[j].entries[k]) = ReadEntry(m, m.objects[j].entries[k])
      <4>1. HasExtent(m, j, k)
        BY <3>1 DEF HasExtent
      <4>2. k \in Nat
        BY <1>1, <4>1, ExtentTyped
      <4>. QED BY <2>14, <4>1, <4>2 DEF ExtentOf
    <3>. QED BY <1>1, <2>11, <2>12, <3>1, AllSame DEF Repointed
  <2>. QED BY <2>10, <2>15 DEF SameContent
<1>. QED BY <1>7, <1>8

(* Where extents are in order and no page has two owners, a round of the     *)
(* collector over a block with at most one extent in it changes no object's  *)
(* bytes, unless it aborts for want of a destination.                        *)
THEOREM CollectionKeeps == Spec => []CollectionKeepsContent
<1>1. Init => Sound(State)
  BY InitSound
<1>2. Sound(State) /\ [Next]_vars => Sound(State)'
  BY NextSound
<1>3. Sound(State) => CollectionKeepsContent
  <2>. SUFFICES ASSUME Sound(State), Running(State), PagesOwned, CollectsOneExtent,
                       NEW t, t = ForwardGC(State)
                PROVE  t.status = "no_room" \/ (Running(t) /\ \A i \in Inos : ReadAll(t, i) = Content[i])
    BY DEF CollectionKeepsContent
  <2>. DEFINE v == ChooseGCBlock(table)
              busy == {a \in Pages : BlockOf(a) = v /\ table[v].used_map[OffsetOf(a)] \in Inos}
  <2>1. /\ State.table = table /\ State.objects = objects /\ State.live = live
        /\ State.status = status
    BY DEF State
  <2>2. t = Collect(State, v)
    BY <2>1 DEF ForwardGC
  <2>3. v \in Blocks
    BY <2>1, VictimIsBlock DEF Sound, States
  <2>4. \A a : Use(State, a) = table[BlockOf(a)].used_map[OffsetOf(a)]
    BY <2>1 DEF Use
  <2>5. busy = {a \in Pages : BlockOf(a) = v /\ Use(State, a) \in Inos}
    <3>. HIDE DEF v
    <3>. QED BY <2>4
  <2>6. \A x \in Extents :
          /\ x[1] \in Inos /\ x[1] \in live /\ HasExtent(State, x[1], x[2]) /\ x[2] \in Nat
          /\ ExtentAt(x) = ExtentOf(State, x[1], x[2]) /\ x = <<x[1], x[2]>>
    <3>. SUFFICES ASSUME NEW x \in Extents
                  PROVE  /\ x[1] \in Inos /\ x[1] \in live /\ HasExtent(State, x[1], x[2]) /\ x[2] \in Nat
                         /\ ExtentAt(x) = ExtentOf(State, x[1], x[2]) /\ x = <<x[1], x[2]>>
      OBVIOUS
    <3>1. /\ x[1] \in Inos /\ objects[x[1]] # NoObject /\ x[2] \in DOMAIN objects[x[1]].entries
          /\ x = <<x[1], x[2]>>
      BY DEF Extents
    <3>2. x[1] \in live
      BY <2>1, <3>1 DEF Sound, OnlyLive
    <3>3. objects[x[1]] \in Objects
      BY <2>1, <3>1 DEF Sound, States
    <3>4. x[2] \in 1 .. Len(objects[x[1]].entries) /\ x[2] \in Nat
      BY <3>1, <3>3 DEF Objects
    <3>5. HasExtent(State, x[1], x[2])
      BY <2>1, <3>1, <3>4 DEF HasExtent
    <3>. QED BY <2>1, <3>1, <3>2, <3>4, <3>5 DEF ExtentAt, ExtentOf
  <2>7. \A j \in Inos, k \in Nat :
          HasExtent(State, j, k) => <<j, k>> \in Extents /\ ExtentAt(<<j, k>>) = ExtentOf(State, j, k)
    <3>. SUFFICES ASSUME NEW j \in Inos, NEW k \in Nat, HasExtent(State, j, k)
                  PROVE  <<j, k>> \in Extents /\ ExtentAt(<<j, k>>) = ExtentOf(State, j, k)
      OBVIOUS
    <3>1. objects[j] # NoObject /\ k \in 1 .. Len(objects[j].entries)
      BY <2>1 DEF HasExtent
    <3>2. objects[j] \in Objects
      BY <2>1, <3>1 DEF Sound, States
    <3>3. k \in DOMAIN objects[j].entries
      BY <3>1, <3>2 DEF Objects
    <3>. DEFINE y == <<j, k>>
    <3>4. y[1] = j /\ y[2] = k /\ y \in {j} \X DOMAIN objects[j].entries
      BY <3>3
    <3>. HIDE DEF y
    <3>5. y \in Extents
      BY <3>1, <3>4 DEF Extents
    <3>6. ExtentAt(y) = ExtentOf(State, j, k)
      BY <2>1, <3>4 DEF ExtentAt, ExtentOf
    <3>. QED BY <3>5, <3>6 DEF y
  <2>8. \A x \in Extents : \A a \in PagesOf(ExtentAt(x)) : a \in Pages /\ Use(State, a) = x[1]
    BY <2>4, <2>6 DEF PagesOwned
  <2>9. Busy(State)
    <3>. SUFFICES ASSUME NEW j \in Inos, NEW k \in Nat, HasExtent(State, j, k),
                         NEW a \in PagesOf(ExtentOf(State, j, k))
                  PROVE  a \in Pages /\ Use(State, a) \in Inos
      BY DEF Busy
    <3>. DEFINE y == <<j, k>>
    <3>1. y \in Extents /\ a \in PagesOf(ExtentAt(y))
      BY <2>7
    <3>. HIDE DEF y
    <3>. QED BY <2>6, <2>8, <3>1
  <2>10. \A i \in Inos : Content[i] = ReadAll(State, i)
    BY DEF Content
  <2>. HIDE DEF v, busy
  <2>11. CASE busy = {}
    <3>1. NoneIn(State, v)
      BY <2>5, <2>11 DEF NoneIn
    <3>2. Running(t) /\ SameContent(State, t)
      BY <2>2, <2>3, <2>9, <3>1, CollectNothing
    <3>. QED BY <2>10, <3>2 DEF SameContent
  <2>12. CASE busy # {}
    <3>1. PICK x \in Extents : busy = PagesOf(ExtentAt(x))
      BY <2>12 DEF CollectsOneExtent, busy, v
    <3>. DEFINE i == x[1]
                k == x[2]
    <3>2. i \in Inos /\ k \in Nat /\ HasExtent(State, i, k) /\ ExtentAt(x) = ExtentOf(State, i, k)
      BY <2>6
    <3>3. \A a \in Pages : BlockOf(a) = v /\ Use(State, a) \in Inos <=> a \in PagesOf(ExtentOf(State, i, k))
      BY <2>5, <3>1, <3>2
    <3>4. \A a \in PagesOf(ExtentOf(State, i, k)) : Use(State, a) = i
      BY <2>8, <3>2
    <3>5. ASSUME NEW j \in Inos, NEW l \in Nat, HasExtent(State, j, l), ~(j = i /\ l = k)
          PROVE  PagesOf(ExtentOf(State, j, l)) \cap PagesOf(ExtentOf(State, i, k)) = {}
      <4>. DEFINE y == <<j, l>>
      <4>1. y \in Extents /\ ExtentAt(y) = ExtentOf(State, j, l) /\ y[1] = j /\ y[2] = l
        BY <2>7, <3>5
      <4>2. y # x
        BY <3>5, <4>1
      <4>. HIDE DEF y
      <4>. QED BY <3>2, <4>1, <4>2 DEF PagesOwned, ExtentsDisjoint
    <3>. HIDE DEF i, k
    <3>6. OnlyIn(State, v, i, k)
      BY <3>2, <3>3, <3>4, <3>5 DEF OnlyIn
    <3>7. t.status = "no_room" \/ (Running(t) /\ SameContent(State, t))
      BY <2>2, <2>3, <2>9, <3>2, <3>6, CollectOne
    <3>. QED BY <2>10, <3>7 DEF SameContent
  <2>. QED BY <2>11, <2>12
<1>. QED BY <1>1, <1>2, <1>3, PTL DEF Spec

=============================================================================
