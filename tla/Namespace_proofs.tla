-------------------------- MODULE Namespace_proofs --------------------------
(* Proofs about the FUSE handlers for every set of names, every number of    *)
(* inodes and every capacity of the inode buffer.  What one operation of the *)
(* server does to its state comes first, then what each handler does to the  *)
(* variables, then the invariants and the refinement.                        *)
EXTENDS Namespace, TLAPS, FiniteSetTheorems, SequenceTheorems, WellFoundedInduction

Statuses == {"ok", "no_slot", "short_name", "overflow", "unwrap", "assert"}
Entry == [type : Types, size : Nat, n_link : 0 .. LinkMax, ref_cnt : Nat, valid : BOOLEAN]
States == [meta : [Inos -> Meta \cup {None}], objects : [Inos -> Seq(Record)],
           cache : [Inos -> Entry], maxIno : Inos, status : Statuses]

(* What is loaded of i is what is stored, apart from how it is counted.      *)
Held(s, i) ==
  /\ s.meta[i] # None
  /\ Reloaded(s.cache[i].type) = Reloaded(s.meta[i].type)
  /\ s.cache[i].size = s.meta[i].size
  /\ s.cache[i].n_link = s.meta[i].n_link
  /\ s.cache[i].valid

Sized(s, i) == Len(s.objects[i]) = IF s.meta[i] = None THEN 0 ELSE s.meta[i].size

(* A state between operations: every loaded inode held, every size exact.    *)
Sound(s) ==
  /\ s \in States
  /\ \A i \in Inos : Sized(s, i) /\ (s.cache[i].ref_cnt > 0 => Held(s, i))

(* Nothing but the inodes of X has changed from s to t.                      *)
Only(X, s, t) ==
  /\ t \in States /\ t.status = s.status
  /\ \A j \in Inos \ X :
       t.meta[j] = s.meta[j] /\ t.objects[j] = s.objects[j] /\ t.cache[j] = s.cache[j]

-----------------------------------------------------------------------------
(* The operations of the server.                                             *)

LEMMA RootIno == Root \in Inos
BY NamespaceAssumption DEF Root, Inos

LEMMA FreeEntry == Free \in Entry /\ Free.ref_cnt = 0
BY NamespaceAssumption DEF Free, Entry, Types

LEMMA LoadedEntry ==
  ASSUME NEW m \in Meta
  PROVE  /\ Loaded(m) \in Entry
         /\ Loaded(m).ref_cnt = 1 /\ Loaded(m).valid
         /\ Reloaded(Loaded(m).type) = Reloaded(m.type)
         /\ Loaded(m).size = m.size /\ Loaded(m).n_link = m.n_link
BY DEF Loaded, Entry, Meta, Reloaded, Types

LEMMA PanicNotOk ==
  ASSUME NEW s \in States, NEW why \in Statuses \ {"ok"}
  PROVE  Panic(s, why).status \in Statuses /\ Panic(s, why).status # "ok"
BY DEF Panic, States, Statuses

(* i_get loads an inode that is not in use and has metadata.                 *)
LEMMA GetCases ==
  ASSUME NEW s \in States, NEW i \in Inos, s.status = "ok"
  PROVE  /\ Get(s, i).status \in Statuses
         /\ Get(s, i).status # "ok" => Get(s, i).status = "no_slot"
         /\ Get(s, i).status = "ok" =>
              \/ Get(s, i) = s /\ (s.cache[i].ref_cnt > 0 \/ s.meta[i] = None)
              \/ /\ Get(s, i) = [s EXCEPT !.cache[i] = Loaded(s.meta[i])]
                 /\ s.meta[i] \in Meta
BY DEF Get, Panic, States, Statuses, Entry

(* Another entry of the buffer.                                              *)
Reentered(s, i, c, t) ==
  /\ t \in States
  /\ t.meta = s.meta /\ t.objects = s.objects /\ t.maxIno = s.maxIno /\ t.status = s.status
  /\ t.cache = [s.cache EXCEPT ![i] = c]

LEMMA EntryTyped ==
  ASSUME NEW s \in States, NEW i \in Inos, NEW c \in Entry
  PROVE  Reentered(s, i, c, [s EXCEPT !.cache[i] = c])
<1>. DEFINE d == [s.cache EXCEPT ![i] = c]
            t == [s EXCEPT !.cache = d]
<1>1. s.cache \in [Inos -> Entry]
  BY DEF States
<1>2. d \in [Inos -> Entry]
  BY <1>1
<1>. HIDE DEF d
<1>3. /\ t.meta = s.meta /\ t.objects = s.objects /\ t.maxIno = s.maxIno
      /\ t.status = s.status /\ t.cache = d /\ t \in States
  BY <1>2 DEF States
<1>4. t = [s EXCEPT !.cache[i] = c]
  BY DEF d
<1>. HIDE DEF t
<1>. QED
  BY <1>3, <1>4 DEF Reentered, d

LEMMA GetTyped ==
  ASSUME NEW s \in States, NEW i \in Inos
  PROVE  Get(s, i) \in States /\ (Get(s, i).status = "ok" => s.status = "ok")
<1>1. CASE Get(s, i) = s
  BY <1>1
<1>2. CASE Get(s, i) = Panic(s, "no_slot")
  BY <1>2 DEF Panic, States, Statuses
<1>3. CASE Get(s, i) = [s EXCEPT !.cache[i] = Loaded(s.meta[i])] /\ s.meta[i] \in Meta
  <2>. DEFINE c == Loaded(s.meta[i])
  <2>1. c \in Entry
    BY <1>3, LoadedEntry
  <2>2. Reentered(s, i, c, Get(s, i))
    BY <1>3, <2>1, EntryTyped
  <2>. QED
    BY <2>2 DEF Reentered
<1>4. s.meta[i] # None => s.meta[i] \in Meta
  BY DEF States
<1>. QED
  BY <1>1, <1>2, <1>3, <1>4 DEF Get

LEMMA GetStatus ==
  ASSUME NEW s \in States, NEW i \in Inos
  PROVE  Get(s, i).status \in {s.status, "no_slot"}
<1>1. CASE Get(s, i) = s
  BY <1>1
<1>2. CASE Get(s, i) = Panic(s, "no_slot")
  BY <1>2 DEF Panic, States
<1>3. CASE Get(s, i) = [s EXCEPT !.cache[i] = Loaded(s.meta[i])]
  BY <1>3 DEF States
<1>. QED
  BY <1>1, <1>2, <1>3 DEF Get

LEMMA GetSound ==
  ASSUME NEW s, Sound(s), NEW i \in Inos, s.status = "ok", Get(s, i).status = "ok"
  PROVE  /\ Sound(Get(s, i))
         /\ Only({i}, s, Get(s, i))
         /\ Get(s, i).meta = s.meta /\ Get(s, i).objects = s.objects
         /\ Get(s, i).maxIno = s.maxIno
         /\ Found(Get(s, i), i) => Held(Get(s, i), i)
         /\ Found(Get(s, i), i) <=> s.meta[i] # None
         /\ \A j \in Inos : Found(s, j) => Get(s, i).cache[j] = s.cache[j]
         /\ Get(s, i).cache[i].ref_cnt <= 1 \/ Get(s, i).cache[i] = s.cache[i]
<1>. DEFINE t == Get(s, i)
<1>1. s \in States
  BY DEF Sound
<1>2. CASE t = s /\ (s.cache[i].ref_cnt > 0 \/ s.meta[i] = None)
  <2>1. Sound(t) /\ Only({i}, s, t)
    BY <1>1, <1>2 DEF Sound, Only
  <2>2. Found(s, i) => Held(s, i)
    BY DEF Sound, Found
  <2>3. Found(s, i) <=> s.meta[i] # None
    BY <1>2, <2>2 DEF Found, Held
  <2>. HIDE DEF t
  <2>. QED
    BY <1>2, <2>1, <2>2, <2>3 DEF t
<1>3. CASE t = [s EXCEPT !.cache[i] = Loaded(s.meta[i])] /\ s.meta[i] \in Meta
           /\ ~(s.cache[i].ref_cnt > 0)
  <2>. DEFINE c == Loaded(s.meta[i])
  <2>1. /\ c \in Entry /\ c.ref_cnt = 1 /\ c.valid
        /\ Reloaded(c.type) = Reloaded(s.meta[i].type)
        /\ c.size = s.meta[i].size /\ c.n_link = s.meta[i].n_link
    BY <1>3, LoadedEntry
  <2>2. s.meta[i] # None
    BY <1>3, NothingAssumption
  <2>. HIDE DEF c, t
  <2>3. t = [s EXCEPT !.cache[i] = c]
    BY <1>3 DEF c
  <2>4. /\ t \in States /\ t.meta = s.meta /\ t.objects = s.objects
        /\ t.maxIno = s.maxIno /\ t.status = s.status
        /\ t.cache = [s.cache EXCEPT ![i] = c]
    BY <1>1, <2>1, <2>3 DEF States
  <2>5. t.cache[i] = c /\ \A j \in Inos \ {i} : t.cache[j] = s.cache[j]
    BY <1>1, <2>4 DEF States
  <2>6. Held(t, i)
    BY <2>1, <2>2, <2>4, <2>5 DEF Held
  <2>7. \A j \in Inos : t.cache[j].ref_cnt > 0 => Held(t, j)
    BY <2>4, <2>5, <2>6 DEF Sound, Held
  <2>8. Sound(t)
    BY <2>4, <2>7 DEF Sound, Sized
  <2>. QED
    BY <1>3, <2>1, <2>2, <2>4, <2>5, <2>6, <2>8 DEF Only, Found, t
<1>. QED
  BY <1>1, <1>2, <1>3, GetCases DEF Get

(* i_put drops an inode that is counted once.                                *)
LEMMA PutDrops ==
  ASSUME NEW s \in States, NEW i \in Inos, s.cache[i].ref_cnt <= 1
  PROVE  /\ Put(s, i) = [s EXCEPT !.cache[i] = Free]
         /\ Put(s, i) \in States
         /\ Put(s, i).meta = s.meta /\ Put(s, i).objects = s.objects
         /\ Put(s, i).maxIno = s.maxIno /\ Put(s, i).status = s.status
         /\ Put(s, i).cache = [s.cache EXCEPT ![i] = Free]
<1>1. Put(s, i) = [s EXCEPT !.cache[i] = Free]
  BY DEF Put, States, Entry
<1>2. Reentered(s, i, Free, Put(s, i))
  BY <1>1, FreeEntry, EntryTyped
<1>. QED
  BY <1>1, <1>2 DEF Reentered

LEMMA AssertHolds ==
  ASSUME NEW s \in States, NEW i \in Inos, Held(s, i)
  PROVE  Asserted(s, i) = s
BY DEF Asserted, Held

(* modify_stat, with a new reference count or not.                           *)
LEMMA ModifyStatFields ==
  ASSUME NEW s \in States, NEW i \in Inos, NEW c \in Entry
  PROVE  /\ Only({i}, s, ModifyStat(s, i, c))
         /\ ModifyStat(s, i, c).objects = s.objects
         /\ ModifyStat(s, i, c).maxIno = s.maxIno
         /\ ModifyStat(s, i, c).meta[i] = Stored(c)
         /\ ModifyStat(s, i, c).cache[i] = c
         /\ Stored(c) \in Meta /\ Stored(c) # None
<1>1. Stored(c) \in Meta /\ Stored(c) # None
  BY NothingAssumption DEF Stored, Entry, Meta
<1>. QED
  BY <1>1 DEF ModifyStat, States, Only

LEMMA StoredHeld ==
  ASSUME NEW s \in States, NEW i \in Inos, NEW c \in Entry, c.valid
  PROVE  Held(ModifyStat(s, i, c), i)
<1>. DEFINE t == ModifyStat(s, i, c)
<1>1. t.meta[i] = Stored(c) /\ t.cache[i] = c /\ Stored(c) # None
  BY ModifyStatFields
<1>2. Stored(c).type = c.type /\ Stored(c).size = c.size /\ Stored(c).n_link = c.n_link
  BY DEF Stored
<1>. HIDE DEF t
<1>. QED
  BY <1>1, <1>2 DEF Held, t

Modified(s, i, c, t) ==
  /\ Only({i}, s, t) /\ t.objects = s.objects /\ t.maxIno = s.maxIno
  /\ t.meta[i] = Stored(c) /\ t.cache[i] = c /\ Stored(c) # None /\ Held(t, i)

LEMMA ModifyStatIs ==
  ASSUME NEW s \in States, NEW i \in Inos, NEW c \in Entry, c.valid
  PROVE  Modified(s, i, c, ModifyStat(s, i, c))
<1>. DEFINE t == ModifyStat(s, i, c)
<1>1. /\ Only({i}, s, t) /\ t.objects = s.objects /\ t.maxIno = s.maxIno
      /\ t.meta[i] = Stored(c) /\ t.cache[i] = c /\ Stored(c) # None
  BY ModifyStatFields
<1>. QED
  BY <1>1, StoredHeld DEF Modified

(* A write or a cut.                                                         *)
Rewritten(s, i, o, t) ==
  /\ Only({i}, s, t)
  /\ Held(t, i) /\ Sized(t, i)
  /\ t.objects[i] = o
  /\ t.maxIno = s.maxIno
  /\ t.meta[i] = [s.meta[i] EXCEPT !.size = Len(o)]
  /\ t.cache[i] = [s.cache[i] EXCEPT !.size = Len(o)]

LEMMA SetObjectFields ==
  ASSUME NEW s \in States, NEW i \in Inos, Held(s, i), NEW o \in Seq(Record)
  PROVE  Rewritten(s, i, o, SetObject(s, i, o))
<1>. DEFINE t == SetObject(s, i, o)
<1>1. Len(o) \in Nat
  OBVIOUS
<1>2. s.meta[i] \in Meta /\ s.meta[i] # None /\ s.cache[i] \in Entry
  BY DEF Held, States
<1>3. [s.meta[i] EXCEPT !.size = Len(o)] \in Meta
  BY <1>1, <1>2 DEF Meta
<1>4. [s.cache[i] EXCEPT !.size = Len(o)] \in Entry
  BY <1>1, <1>2 DEF Entry
<1>5. t = [s EXCEPT !.objects[i] = o, !.meta[i].size = Len(o), !.cache[i].size = Len(o)]
  BY <1>2 DEF SetObject
<1>6. /\ Only({i}, s, t)
      /\ t.objects[i] = o /\ t.maxIno = s.maxIno
      /\ t.meta[i] = [s.meta[i] EXCEPT !.size = Len(o)]
      /\ t.cache[i] = [s.cache[i] EXCEPT !.size = Len(o)]
  <2>. HIDE DEF t
  <2>. QED
    BY <1>3, <1>4, <1>5 DEF States, Only
<1>7. t.meta[i] # None
  BY <1>3, <1>6, NothingAssumption
<1>8. Held(t, i) /\ Sized(t, i)
  <2>. HIDE DEF t
  <2>. QED
    BY <1>2, <1>6, <1>7 DEF Held, Sized, Meta, Entry
<1>. QED
  BY <1>6, <1>8 DEF Rewritten

-----------------------------------------------------------------------------
(* Records: what writes and cuts leave.                                      *)

Spliced(o, off, records) ==
  SubSeq(o, 1, off) \o records \o SubSeq(o, off + Len(records) + 1, Len(o))
Without(o, off, len) == SubSeq(o, 1, off) \o SubSeq(o, off + len + 1, Len(o))

(* A write at the end appends.                                               *)
LEMMA SplicedEnd ==
  ASSUME NEW S, NEW o \in Seq(S), NEW e \in S
  PROVE  Spliced(o, Len(o), <<e>>) = Append(o, e)
<1>1. Len(o) \in Nat /\ <<e>> \in Seq(S) /\ Len(<<e>>) = 1
  OBVIOUS
<1>2. SubSeq(o, 1, Len(o)) = o
  BY SubSeqFull
<1>3. SubSeq(o, Len(o) + 1 + 1, Len(o)) = <<>>
  BY <1>1, SubSeqEmpty
<1>4. Append(o, e) = o \o <<e>> /\ o \o <<e>> \in Seq(S)
  BY <1>1, AppendIsConcat, ConcatProperties
<1>5. (o \o <<e>>) \o <<>> = o \o <<e>>
  BY <1>4, ConcatEmptySeq
<1>. QED
  BY <1>1, <1>2, <1>3, <1>4, <1>5 DEF Spliced

(* A write of one record before the end keeps the length.                    *)
LEMMA SplicedInside ==
  ASSUME NEW S, NEW o \in Seq(S), NEW e \in S, NEW off \in Nat, off < Len(o)
  PROVE  Spliced(o, off, <<e>>) \in Seq(S) /\ Len(Spliced(o, off, <<e>>)) = Len(o)
<1>. DEFINE a == SubSeq(o, 1, off)
            b == SubSeq(o, off + 1 + 1, Len(o))
<1>1. Len(o) \in Nat /\ <<e>> \in Seq(S) /\ Len(<<e>>) = 1
  OBVIOUS
<1>2. a \in Seq(S) /\ Len(a) = off
  <2>1. \A k \in 1 .. off : o[k] \in S
    OBVIOUS
  <2>. QED
    BY <2>1, SubSeqProperties
<1>3. b \in Seq(S) /\ Len(b) = Len(o) - off - 1
  <2>1. \A k \in off + 1 + 1 .. Len(o) : o[k] \in S
    OBVIOUS
  <2>2. Len(b) = IF off + 1 + 1 <= Len(o) THEN Len(o) - (off + 1 + 1) + 1 ELSE 0
    BY <1>1, <2>1, SubSeqProperties
  <2>. QED
    BY <1>1, <2>1, <2>2, SubSeqProperties
<1>. HIDE DEF a, b
<1>. DEFINE c == a \o <<e>>
<1>4. c \in Seq(S) /\ Len(c) = off + 1
  BY <1>1, <1>2, ConcatProperties
<1>5. c \o b \in Seq(S) /\ Len(c \o b) = Len(o)
  <2>. HIDE DEF c
  <2>1. c \o b \in Seq(S) /\ Len(c \o b) = Len(c) + Len(b)
    BY <1>3, <1>4, ConcatProperties
  <2>. QED
    BY <1>1, <1>3, <1>4, <2>1
<1>. QED
  BY <1>1, <1>5 DEF Spliced, a, b

(* A cut removes len records.                                                *)
LEMMA WithoutFields ==
  ASSUME NEW S, NEW o \in Seq(S), NEW off \in Nat, NEW len \in Nat, off + len <= Len(o)
  PROVE  /\ Without(o, off, len) \in Seq(S)
         /\ Len(Without(o, off, len)) = Len(o) - len
         /\ \A k \in 1 .. Len(o) - len :
              Without(o, off, len)[k] = IF k <= off THEN o[k] ELSE o[k + len]
<1>. DEFINE a == SubSeq(o, 1, off)
            b == SubSeq(o, off + len + 1, Len(o))
<1>1. Len(o) \in Nat
  OBVIOUS
<1>2. a \in Seq(S) /\ Len(a) = off /\ \A k \in 1 .. off : a[k] = o[k]
  <2>1. \A k \in 1 .. off : o[k] \in S
    OBVIOUS
  <2>2. \A k \in 1 .. off - 1 + 1 : a[k] = o[1 + k - 1]
    BY <2>1, SubSeqProperties
  <2>. QED
    BY <2>1, <2>2, SubSeqProperties
<1>3. /\ b \in Seq(S) /\ Len(b) = Len(o) - off - len
      /\ \A k \in 1 .. Len(o) - off - len : b[k] = o[off + len + k]
  <2>. DEFINE m == off + len + 1
              l == Len(o)
  <2>1. m \in Int /\ l \in Int /\ \A k \in m .. l : o[k] \in S
    OBVIOUS
  <2>2. /\ SubSeq(o, m, l) \in Seq(S)
        /\ Len(SubSeq(o, m, l)) = IF m <= l THEN l - m + 1 ELSE 0
        /\ \A k \in 1 .. l - m + 1 : SubSeq(o, m, l)[k] = o[m + k - 1]
    <3>. HIDE DEF m, l
    <3>. QED
      BY <2>1, SubSeqProperties
  <2>. QED
    BY <1>1, <2>2
<1>. HIDE DEF a, b
<1>4. /\ a \o b \in Seq(S) /\ Len(a \o b) = Len(o) - len
      /\ \A k \in 1 .. Len(o) - len :
           (a \o b)[k] = IF k <= Len(a) THEN a[k] ELSE b[k - Len(a)]
  BY <1>1, <1>2, <1>3, ConcatProperties
<1>5. ASSUME NEW k \in 1 .. Len(o) - len
      PROVE  (a \o b)[k] = IF k <= off THEN o[k] ELSE o[k + len]
  <2>1. CASE k <= off
    BY <1>2, <1>4, <2>1
  <2>2. CASE k > off
    <3>1. k - off \in 1 .. Len(o) - off - len /\ off + len + (k - off) = k + len
      BY <1>1, <2>2
    <3>2. b[k - off] = o[k + len]
      BY <1>3, <3>1
    <3>3. ~(k <= Len(a)) /\ k - Len(a) = k - off
      BY <1>2, <2>2
    <3>4. (a \o b)[k] = b[k - off]
      BY <1>4, <3>3
    <3>. QED
      BY <1>1, <2>2, <3>2, <3>4
  <2>3. k <= off \/ k > off
    BY <1>1
  <2>. QED
    BY <2>1, <2>2, <2>3
<1>. QED
  BY <1>4, <1>5 DEF Without, a, b

(* An inode in hand is written to and cut without a panic.                   *)
LEMMA WriteInodeIs ==
  ASSUME NEW s \in States, NEW i \in Inos, Held(s, i),
         NEW off \in Nat, off <= Len(s.objects[i]), NEW records
  PROVE  WriteInode(s, i, off, records)
           = SetObject(s, i, Spliced(s.objects[i], off, records))
<1>1. Len(s.objects[i]) \in Nat
  BY DEF States
<1>2. ~(off > Len(s.objects[i]))
  BY <1>1
<1>. QED
  BY <1>2, AssertHolds DEF WriteInode, Spliced

LEMMA TruncateInodeIs ==
  ASSUME NEW s \in States, NEW i \in Inos, Held(s, i), NEW off, NEW len
  PROVE  TruncateInode(s, i, off, len)
           = SetObject(s, i, IF len = 0 THEN <<>> ELSE Without(s.objects[i], off, len))
BY AssertHolds DEF TruncateInode, Without

LEMMA DeleteInodeFields ==
  ASSUME NEW s \in States, NEW i \in Inos, Held(s, i)
  PROVE  /\ Only({i}, s, DeleteInode(s, i))
         /\ DeleteInode(s, i).maxIno = s.maxIno
         /\ DeleteInode(s, i).meta[i] = None /\ DeleteInode(s, i).objects[i] = <<>>
         /\ DeleteInode(s, i).cache[i] = [s.cache[i] EXCEPT !.valid = FALSE]
<1>1. Asserted(s, i) = s
  BY AssertHolds
<1>2. [s.cache[i] EXCEPT !.valid = FALSE] \in Entry /\ <<>> \in Seq(Record)
  <2>1. s.cache[i] \in Entry
    BY DEF States
  <2>. QED
    BY <2>1, EmptySeq DEF Entry
<1>. QED
  BY <1>1, <1>2 DEF DeleteInode, States, Only

-----------------------------------------------------------------------------
(* Directories.                                                              *)

(* A loaded directory is read whole.                                         *)
LEMMA ReadAllIs ==
  ASSUME NEW s \in States, NEW p \in Inos, Held(s, p), Sized(s, p)
  PROVE  /\ ReadAll(s, p) = s.objects[p]
         /\ s.cache[p].size = Len(s.objects[p])
<1>1. s.objects[p] \in Seq(Record)
  BY DEF States
<1>2. s.cache[p].size = Len(s.objects[p])
  BY DEF Held, Sized
<1>3. SubSeq(s.objects[p], 1, Len(s.objects[p])) = s.objects[p]
  BY <1>1, SubSeqFull
<1>. QED
  BY <1>2, <1>3 DEF ReadAll

NamedIn(o, n) == \E k \in DOMAIN o : o[k].name = n
Distinct(o) == \A k, l \in DOMAIN o : o[k].name = o[l].name => k = l

LEMMA InDirectoryIs ==
  ASSUME NEW s \in States, NEW p \in Inos, Held(s, p), Sized(s, p), NEW n
  PROVE  InDirectory(s, p, n)
           <=> s.cache[p].type = "directory" /\ NamedIn(s.objects[p], n)
BY ReadAllIs DEF InDirectory, Places, NamedIn

(* The place of a name is the one where it stands.                           *)
LEMMA PlaceIs ==
  ASSUME NEW s \in States, NEW p \in Inos, Held(s, p), Sized(s, p), NEW n,
         Distinct(s.objects[p]), NamedIn(s.objects[p], n)
  PROVE  /\ Place(s, p, n) \in 1 .. Len(s.objects[p])
         /\ s.objects[p][Place(s, p, n)].name = n
         /\ DirLookup(s, p, n) = s.objects[p][Place(s, p, n)].ino
<1>. DEFINE o == s.objects[p]
<1>0. o \in Seq(Record) /\ DOMAIN o = 1 .. Len(o)
  BY DEF States
<1>1. Places(s, p, n) = {k \in DOMAIN o : o[k].name = n}
  BY ReadAllIs DEF Places
<1>2. PICK k \in DOMAIN o : o[k].name = n
  BY DEF NamedIn
<1>3. Places(s, p, n) = {k}
  BY <1>1, <1>2 DEF Distinct
<1>4. k <= k
  BY <1>0, <1>2
<1>5. Place(s, p, n) = k
  BY <1>3, <1>4 DEF Place
<1>. QED
  BY <1>0, <1>2, <1>5, ReadAllIs DEF DirLookup

(* dir_link appends an entry.                                                *)
LEMMA DirLinkIs ==
  ASSUME NEW s \in States, NEW p \in Inos, Held(s, p), Sized(s, p),
         s.cache[p].type = "directory",
         NEW i \in Inos, NEW n \in Names \cup {".", ".."}
  PROVE  /\ NamedIn(s.objects[p], n) => DirLink(s, p, i, n) = s
         /\ ~NamedIn(s.objects[p], n) =>
              DirLink(s, p, i, n)
                = SetObject(s, p, Append(s.objects[p], [name |-> n, ino |-> i]))
<1>. DEFINE o == s.objects[p]
            e == [name |-> n, ino |-> i]
<1>1. o \in Seq(Record) /\ Len(o) \in Nat
  BY DEF States
<1>2. e \in Record
  BY DEF Record
<1>3. s.cache[p].size = Len(o)
  BY ReadAllIs
<1>4. WriteInode(s, p, Len(o), <<e>>) = SetObject(s, p, Spliced(o, Len(o), <<e>>))
  BY <1>1, WriteInodeIs
<1>5. Spliced(o, Len(o), <<e>>) = Append(o, e)
  BY <1>1, <1>2, SplicedEnd
<1>. QED
  BY <1>3, <1>4, <1>5, InDirectoryIs DEF DirLink

(* dir_unlink cuts the entry out.                                            *)
LEMMA DirUnlinkIs ==
  ASSUME NEW s \in States, NEW p \in Inos, Held(s, p), Sized(s, p),
         s.cache[p].type = "directory", NEW n,
         Distinct(s.objects[p]), NamedIn(s.objects[p], n)
  PROVE  DirUnlink(s, p, n)
           = SetObject(s, p, Without(s.objects[p], Place(s, p, n) - 1, 1))
BY InDirectoryIs, TruncateInodeIs DEF DirUnlink

-----------------------------------------------------------------------------
(* Invariants of every build.                                                *)

(* Inodes are handed out in order.                                           *)
Fresh ==
  \A i \in Inos : i > maxIno => ~Exists(i) /\ known[i] = None /\ i \notin opened

(* The kernel takes for a directory what is one, and knows what it has open  *)
(* as long as it exists.                                                     *)
KnownTyped ==
  /\ known[Root] = "directory"
  /\ \A i \in Inos : /\ known[i] = "directory" => i \in Dirs
                     /\ known[i] \notin {None, "directory"} => i \notin Dirs
                     /\ i \in opened /\ Exists(i) => known[i] # None

(* A directory begins with "." and "..", the root with "." only, and then    *)
(* holds every name once; no name names the root.                            *)
Heads(p) == IF p = Root THEN 1 ELSE 2
Entry2 == [name : Names \cup {".", ".."}, ino : Inos]
DirShaped(p, o) ==
  /\ o \in Seq(Entry2) /\ Len(o) >= Heads(p)
  /\ o[1] = [name |-> ".", ino |-> p]
  /\ p # Root => o[2].name = ".."
  /\ \A k \in Heads(p) + 1 .. Len(o) : o[k].name \in Names /\ o[k].ino # Root
  /\ Distinct(o)
DirsShaped == \A p \in Dirs : DirShaped(p, objects[p])

Base == TypeOK /\ LoadedIsStored /\ Fresh /\ KnownTyped /\ DirsShaped

-----------------------------------------------------------------------------
(* Operations that leave the tree alone.                                     *)

(* What a reload would give of metadata m.                                   *)
Seen(m) ==
  IF m = None THEN None
  ELSE [type |-> Reloaded(m.type), size |-> m.size, n_link |-> m.n_link]

(* Every entry names an inode that exists.                                   *)
NamesExist == \A p \in Dirs : \A e \in Entries(p) : Exists(e.ino)

Single(s) == \A i \in Inos : s.cache[i].ref_cnt <= 1

(* Between operations of a handler that has loaded the inodes of X: nothing  *)
(* but the buffer has changed, and there nothing but X is newly loaded.      *)
Steady(s, X) ==
  /\ s \in States
  /\ NamesExist => s.status \notin {"unwrap", "assert"}
  /\ s.status = "ok" =>
       /\ Sound(s) /\ Single(s)
       /\ s.objects = objects /\ s.maxIno = maxIno
       /\ \A i \in Inos : Seen(s.meta[i]) = Seen(meta[i])
       /\ \A i \in Inos \ X : s.cache[i].ref_cnt > 0 => cache[i].ref_cnt > 0

LEMMA StoredOrNothing ==
  ASSUME TypeOK, NEW i \in Inos
  PROVE  meta[i] # None <=> meta[i] \in Meta
BY NothingAssumption DEF TypeOK

LEMMA NowSteady ==
  ASSUME Base, Running
  PROVE  Steady(Now, {}) /\ Now.status = "ok" /\ Now.meta = meta /\ Now.cache = cache
<1>. DEFINE s == Now
<1>1. s = [meta |-> meta, objects |-> objects, cache |-> cache, maxIno |-> maxIno,
           status |-> status]
  BY DEF Now
<1>. HIDE DEF s
<1>2. status = "ok" /\ \A i \in Inos : cache[i] \in Entry /\ cache[i].ref_cnt <= 1
  <2>1. status = "ok"
    BY DEF Running
  <2>2. \A i \in Inos : cache[i] \in [type : Types, size : Nat, n_link : 0 .. LinkMax,
                                     ref_cnt : 0 .. 1, valid : BOOLEAN]
    BY DEF Base, TypeOK
  <2>3. \A i \in Inos : cache[i] \in Entry /\ cache[i].ref_cnt \in 0 .. 1
    BY <2>2 DEF Entry
  <2>. QED
    BY <2>1, <2>3
<1>3. s \in States
  BY <1>1, <1>2 DEF States, Base, TypeOK, Statuses
<1>4. ASSUME NEW i \in Inos, cache[i].ref_cnt > 0
      PROVE  Held(s, i)
  <2>1. meta[i] # None /\ [cache[i] EXCEPT !.type = Reloaded(@)] = Loaded(meta[i])
    BY <1>4 DEF Base, LoadedIsStored, Live, Exists
  <2>. DEFINE c == [cache[i] EXCEPT !.type = Reloaded(@)]
  <2>2. /\ c.type = Reloaded(cache[i].type) /\ c.size = cache[i].size
        /\ c.n_link = cache[i].n_link /\ c.valid = cache[i].valid
    BY <1>2 DEF Entry
  <2>3. /\ c.type = Reloaded(meta[i].type) /\ c.size = meta[i].size
        /\ c.n_link = meta[i].n_link /\ c.valid = TRUE
    BY <2>1 DEF Loaded
  <2>. HIDE DEF c
  <2>. QED
    BY <1>1, <2>1, <2>2, <2>3 DEF Held
<1>5. \A i \in Inos : Sized(s, i)
  BY <1>1 DEF Base, LoadedIsStored, Sized, Exists
<1>. QED
  BY <1>1, <1>2, <1>3, <1>4, <1>5 DEF Steady, Sound, Single, s

(* After a panic only its reason counts.                                     *)
LEMMA NotOkSteady ==
  ASSUME NEW t \in States, NEW X, t.status # "ok",
         NamesExist => t.status \notin {"unwrap", "assert"}
  PROVE  Steady(t, X)
BY DEF Steady

LEMMA GetSteady ==
  ASSUME NEW s, NEW X, Steady(s, X), NEW i \in Inos
  PROVE  /\ Steady(Get(s, i), X \cup {i})
         /\ Get(s, i).status = "ok" => s.status = "ok"
<1>. DEFINE t == Get(s, i)
<1>1. s \in States
  BY DEF Steady
<1>2. CASE s.status = "ok" /\ t.status = "ok"
  <2>1. Sound(s) /\ Single(s)
    BY <1>2 DEF Steady
  <2>2. /\ Sound(t) /\ Only({i}, s, t) /\ t.meta = s.meta /\ t.objects = s.objects
        /\ t.maxIno = s.maxIno
        /\ t.cache[i].ref_cnt <= 1 \/ t.cache[i] = s.cache[i]
        /\ t.status = "ok"
    BY <1>2, <2>1, GetSound
  <2>. HIDE DEF t
  <2>3. s.objects = objects /\ s.maxIno = maxIno
    BY <1>2 DEF Steady
  <2>4. \A j \in Inos : Seen(t.meta[j]) = Seen(meta[j])
    BY <1>2, <2>2 DEF Steady
  <2>5. Single(t) /\ \A j \in Inos \ {i} : t.cache[j] = s.cache[j]
    BY <2>1, <2>2 DEF Only, Single
  <2>6. \A j \in Inos \ (X \cup {i}) : t.cache[j].ref_cnt > 0 => cache[j].ref_cnt > 0
    BY <1>2, <2>5 DEF Steady
  <2>7. Steady(t, X \cup {i})
    BY <2>2, <2>3, <2>4, <2>5, <2>6 DEF Steady, Sound
  <2>. QED
    BY <1>2, <2>7 DEF t
<1>3. t \in States /\ (t.status = "ok" => s.status = "ok")
  BY <1>1, GetTyped
<1>4. CASE t.status # "ok"
  <2>1. NamesExist => t.status \notin {"unwrap", "assert"}
    <3>1. NamesExist => s.status \notin {"unwrap", "assert"}
      BY DEF Steady
    <3>2. t.status = s.status \/ t.status = "no_slot"
      BY <1>1, GetStatus
    <3>. HIDE DEF t
    <3>. QED
      BY <3>1, <3>2
  <2>. QED
    BY <1>3, <1>4, <2>1, NotOkSteady
<1>. QED
  BY <1>2, <1>3, <1>4

LEMMA PutSteady ==
  ASSUME NEW s, NEW X, Steady(s, X), s.status = "ok", NEW i \in Inos
  PROVE  Steady(Put(s, i), X \ {i}) /\ Put(s, i).status = "ok"
<1>. DEFINE t == Put(s, i)
<1>1. s \in States /\ Sound(s) /\ Single(s)
  BY DEF Steady
<1>2. /\ t \in States /\ t.meta = s.meta /\ t.objects = s.objects
      /\ t.maxIno = s.maxIno /\ t.status = s.status
      /\ t.cache = [s.cache EXCEPT ![i] = Free]
  BY <1>1, PutDrops DEF Single
<1>. HIDE DEF t
<1>3. t.cache[i] = Free /\ \A j \in Inos \ {i} : t.cache[j] = s.cache[j]
  BY <1>1, <1>2 DEF States
<1>4. Sound(t) /\ Single(t)
  BY <1>1, <1>2, <1>3, FreeEntry DEF Sound, Single, Held, Sized
<1>. QED
  BY <1>1, <1>2, <1>3, <1>4, FreeEntry DEF Steady, t

-----------------------------------------------------------------------------
(* How a handler ends.                                                       *)

Answers == {"none", "ok", "entries", "error"}

Releases ==
  reply' = "ok" => \A i \in Inos : i \in Live' \ Live => i \in opened'

(* The tree is as it was, whatever is loaded, opened and known now.          *)
Quiet ==
  /\ UNCHANGED <<objects, maxIno>>
  /\ \A i \in Inos : Seen(meta'[i]) = Seen(meta[i])

(* No handler has met an inode that is not there, unless an entry names one. *)
Unmissed == NamesExist => status' \notin {"unwrap", "assert"}

Calm == Base' /\ Quiet /\ Releases /\ Unmissed

(* What the kernel is told of an inode is what it is.                        *)
Told(told) ==
  /\ told \in [Inos -> Types \cup {None}]
  /\ \A i \in Inos : \/ told[i] = known[i]
                     \/ told[i] = None /\ ~Exists(i)
                     \/ Exists(i) /\ told[i] # None /\ (told[i] = "directory" <=> i \in Dirs)

(* It has handles for what it had, or what it knows.                         *)
Handles(handles) ==
  /\ handles \in SUBSET Inos
  /\ \A i \in handles : i \in opened \/ (Exists(i) /\ known[i] # None)

LEMMA OldHandles ==
  ASSUME Base
  PROVE  Handles(opened)
<1>1. opened \in SUBSET Inos
  BY DEF Base, TypeOK
<1>2. \A i \in opened : i \in opened \/ (Exists(i) /\ known[i] # None)
  OBVIOUS
<1>. QED
  BY <1>1, <1>2, Zenon DEF Handles

LEMMA DirectoryType ==
  ASSUME NEW t \in Types
  PROVE  Reloaded(t) = "directory" <=> t = "directory"
BY DEF Reloaded

(* Which inodes exist, and which are directories, is seen.                   *)
LEMMA SeenTells ==
  ASSUME NEW m \in Meta \cup {None}, NEW n \in Meta \cup {None}, Seen(m) = Seen(n)
  PROVE  /\ m = None <=> n = None
         /\ m # None => /\ m.size = n.size /\ m.n_link = n.n_link
                        /\ Reloaded(m.type) = Reloaded(n.type)
                        /\ m.type = "directory" <=> n.type = "directory"
<1>1. None \notin Meta
  BY NothingAssumption
<1>2. \A x \in Meta : Seen(x) = [type |-> Reloaded(x.type), size |-> x.size,
                                 n_link |-> x.n_link]
  BY <1>1 DEF Seen
<1>3. \A x \in Meta : Seen(x) \in Meta
  BY <1>2 DEF Meta, Reloaded, Types
<1>4. Seen(None) = None
  BY DEF Seen
<1>5. m = None <=> n = None
  BY <1>1, <1>3, <1>4
<1>6. ASSUME m # None
      PROVE  m.size = n.size /\ m.n_link = n.n_link /\ Reloaded(m.type) = Reloaded(n.type)
  <2>1. m \in Meta /\ n \in Meta
    BY <1>5, <1>6
  <2>2. [type |-> Reloaded(m.type), size |-> m.size, n_link |-> m.n_link]
          = [type |-> Reloaded(n.type), size |-> n.size, n_link |-> n.n_link]
    BY <1>2, <2>1
  <2>. QED
    BY <2>2
<1>7. \A x \in Meta : x.type \in Types
  BY DEF Meta
<1>. QED
  BY <1>5, <1>6, <1>7, DirectoryType

(* A handler that does not panic and leaves a sound state.                   *)
LEMMA FinishSound ==
  ASSUME Base, NEW s, Sound(s), Single(s), s.status = "ok", NEW answer \in Answers,
         NEW told \in [Inos -> Types \cup {None}], NEW handles \in SUBSET Inos,
         \A i \in Inos \ handles :
           answer = "ok" /\ s.cache[i].ref_cnt > 0 => cache[i].ref_cnt > 0,
         Running, Finish(s, answer, told, handles)
  PROVE  /\ TypeOK' /\ LoadedIsStored' /\ Releases
         /\ meta' = s.meta /\ objects' = s.objects /\ cache' = s.cache
         /\ maxIno' = s.maxIno /\ known' = told /\ opened' = handles
         /\ reply' = answer /\ status' = "ok"
<1>1. /\ meta' = s.meta /\ objects' = s.objects /\ cache' = s.cache
      /\ maxIno' = s.maxIno /\ known' = told /\ opened' = handles
      /\ reply' = answer /\ status' = "ok"
  BY DEF Finish, Running
<1>2. /\ s \in States
      /\ \A i \in Inos : s.cache[i].ref_cnt <= 1
      /\ \A i \in Inos : Sized(s, i) /\ (s.cache[i].ref_cnt > 0 => Held(s, i))
  BY DEF Sound, Single
<1>3. \A i \in Inos : cache'[i] \in [type : Types, size : Nat, n_link : 0 .. LinkMax,
                                     ref_cnt : 0 .. 1, valid : BOOLEAN]
  <2>1. \A i \in Inos : s.cache[i] \in Entry
    BY <1>2 DEF States
  <2>. QED
    BY <1>1, <1>2, <2>1 DEF Entry
<1>4. cache' \in [Inos -> [type : Types, size : Nat, n_link : 0 .. LinkMax,
                           ref_cnt : 0 .. 1, valid : BOOLEAN]]
  <2>1. s.cache = [i \in Inos |-> s.cache[i]]
    BY <1>2 DEF States
  <2>. QED
    BY <1>1, <1>3, <2>1
<1>5. /\ meta' \in [Inos -> Meta \cup {None}] /\ objects' \in [Inos -> Seq(Record)]
      /\ maxIno' \in Inos
  BY <1>1, <1>2 DEF States
<1>6. TypeOK'
  BY <1>1, <1>4, <1>5 DEF TypeOK, Answers
<1>7. ASSUME NEW i \in Live'
      PROVE  Exists(i)' /\ [cache'[i] EXCEPT !.type = Reloaded(@)] = Loaded(meta'[i])
  <2>1. i \in Inos /\ s.cache[i].ref_cnt > 0
    BY <1>1 DEF Live
  <2>2. s.cache[i] \in Entry /\ s.cache[i].ref_cnt = 1
    BY <1>2, <2>1 DEF States, Entry
  <2>3. Held(s, i)
    BY <1>2, <2>1
  <2>4. s.meta[i] # None
    BY <2>3 DEF Held
  <2>5. [s.cache[i] EXCEPT !.type = Reloaded(@)] = Loaded(s.meta[i])
    <3>. DEFINE c == s.cache[i]
                m == s.meta[i]
    <3>1. c.valid \in BOOLEAN /\ c.valid
      BY <2>2, <2>3 DEF Held, Entry
    <3>2. c.valid = TRUE
      BY <3>1
    <3>3. Reloaded(c.type) = Reloaded(m.type) /\ c.size = m.size /\ c.n_link = m.n_link
      BY <2>3 DEF Held
    <3>4. [c EXCEPT !.type = Reloaded(@)]
            = [type |-> Reloaded(c.type), size |-> c.size, n_link |-> c.n_link,
               ref_cnt |-> c.ref_cnt, valid |-> c.valid]
      <4>. HIDE DEF c
      <4>. QED
        BY <2>2 DEF c, Entry
    <3>. HIDE DEF c, m
    <3>5. [c EXCEPT !.type = Reloaded(@)] = Loaded(m)
      BY <2>2, <3>2, <3>3, <3>4 DEF Loaded, c
    <3>. QED
      BY <3>5 DEF c, m
  <2>. QED
    BY <1>1, <2>4, <2>5 DEF Exists
<1>8. \A i \in Inos : Len(objects'[i]) = IF Exists(i)' THEN meta'[i].size ELSE 0
  BY <1>1, <1>2 DEF Sized, Exists
<1>9. LoadedIsStored'
  BY <1>7, <1>8 DEF LoadedIsStored
<1>10. Releases
  BY <1>1 DEF Releases, Live
<1>. QED
  BY <1>1, <1>6, <1>9, <1>10

(* A panic changes nothing but the status.                                   *)
LEMMA FinishPanicked ==
  ASSUME Base, NEW s, s.status # "ok", s.status \in Statuses,
         NEW answer, NEW told, NEW handles, Finish(s, answer, told, handles)
  PROVE  /\ Base' /\ Quiet /\ Releases /\ status' = s.status
         /\ UNCHANGED <<meta, objects, cache, maxIno, known, opened>>
<1>1. /\ UNCHANGED <<meta, objects, cache, maxIno, known, opened>>
      /\ status' = s.status /\ reply' = "none"
  BY DEF Finish
<1>2. TypeOK'
  BY <1>1 DEF Base, TypeOK, Statuses
<1>3. LoadedIsStored' /\ Fresh' /\ KnownTyped' /\ DirsShaped'
  BY <1>1 DEF Base, LoadedIsStored, Live, Exists, Fresh, KnownTyped, Dirs, DirsShaped
<1>4. Quiet /\ Releases
  BY <1>1 DEF Quiet, Releases
<1>. QED
  BY <1>1, <1>2, <1>3, <1>4 DEF Base

(* What is seen of every inode decides which exist and which are directories.*)
LEMMA QuietKeeps ==
  ASSUME TypeOK, TypeOK', Quiet
  PROVE  /\ \A i \in Inos : Exists(i)' <=> Exists(i)
         /\ \A i \in Inos : Exists(i) => /\ meta'[i].size = meta[i].size
                                         /\ meta'[i].n_link = meta[i].n_link
                                         /\ Reloaded(meta'[i].type) = Reloaded(meta[i].type)
         /\ Dirs' = Dirs
<1>1. \A i \in Inos : /\ meta[i] \in Meta \cup {None} /\ meta'[i] \in Meta \cup {None}
                      /\ Seen(meta'[i]) = Seen(meta[i])
  BY DEF TypeOK, Quiet
<1>2. \A i \in Inos : Exists(i)' <=> Exists(i)
  BY <1>1, SeenTells DEF Exists
<1>3. \A i \in Inos : Exists(i) =>
        /\ meta'[i].size = meta[i].size /\ meta'[i].n_link = meta[i].n_link
        /\ Reloaded(meta'[i].type) = Reloaded(meta[i].type)
        /\ meta'[i].type = "directory" <=> meta[i].type = "directory"
  BY <1>1, SeenTells DEF Exists
<1>. QED
  BY <1>2, <1>3 DEF Dirs

LEMMA FinishQuiet ==
  ASSUME Base, NEW s, NEW X, Steady(s, X), NEW answer \in Answers,
         NEW told, Told(told), NEW handles, Handles(handles),
         answer = "ok" => X \subseteq handles,
         Running, Finish(s, answer, told, handles)
  PROVE  Calm
<1>1. s \in States
  BY DEF Steady
<1>2. CASE s.status # "ok"
  <2>1. Base' /\ Quiet /\ Releases /\ status' = s.status
    BY <1>1, <1>2, FinishPanicked DEF States
  <2>. QED
    BY <2>1 DEF Calm, Unmissed, Steady
<1>3. CASE s.status = "ok"
  <2>1. /\ Sound(s) /\ Single(s) /\ s.objects = objects /\ s.maxIno = maxIno
        /\ \A i \in Inos : Seen(s.meta[i]) = Seen(meta[i])
        /\ \A i \in Inos \ X : s.cache[i].ref_cnt > 0 => cache[i].ref_cnt > 0
    BY <1>3 DEF Steady
  <2>2. told \in [Inos -> Types \cup {None}] /\ handles \in SUBSET Inos
    BY DEF Told, Handles
  <2>3. \A i \in Inos \ handles : answer = "ok" /\ s.cache[i].ref_cnt > 0 => cache[i].ref_cnt > 0
    BY <2>1
  <2>4. /\ TypeOK' /\ LoadedIsStored' /\ Releases
        /\ meta' = s.meta /\ objects' = s.objects
        /\ maxIno' = s.maxIno /\ known' = told /\ opened' = handles
        /\ status' = "ok"
    BY <1>3, <2>1, <2>2, <2>3, FinishSound
  <2>5. Quiet
    BY <2>1, <2>4 DEF Quiet
  <2>6. (\A i \in Inos : Exists(i)' <=> Exists(i)) /\ Dirs' = Dirs
    BY <2>4, <2>5, QuietKeeps DEF Base
  <2>7. Fresh'
    <3>. SUFFICES ASSUME NEW i \in Inos, i > maxIno'
                  PROVE  ~Exists(i)' /\ known'[i] = None /\ i \notin opened'
      BY DEF Fresh
    <3>1. ~Exists(i) /\ known[i] = None /\ i \notin opened
      BY <2>1, <2>4 DEF Base, Fresh
    <3>2. ~Exists(i)'
      BY <2>6, <3>1
    <3>3. told[i] = None
      BY <3>1 DEF Told
    <3>. QED
      BY <2>4, <3>1, <3>2, <3>3 DEF Handles
  <2>8. KnownTyped'
    <3>1. Root \in Dirs /\ Exists(Root) /\ Root \in Inos
      BY RootIno DEF Base, KnownTyped, Dirs
    <3>2. told[Root] = "directory"
      BY <3>1 DEF Told, Base, KnownTyped
    <3>3. ASSUME NEW i \in Inos
          PROVE  /\ told[i] = "directory" => i \in Dirs
                 /\ told[i] \notin {None, "directory"} => i \notin Dirs
                 /\ i \in handles /\ Exists(i) => told[i] # None
      <4>1. None # "directory"
        BY NothingAssumption DEF Types
      <4>. QED
        BY <4>1 DEF Told, Base, KnownTyped, Handles
    <3>. QED
      BY <2>4, <2>6, <3>2, <3>3 DEF KnownTyped
  <2>9. DirsShaped'
    BY <2>1, <2>4, <2>6 DEF Base, DirsShaped
  <2>. QED
    BY <2>4, <2>5, <2>7, <2>8, <2>9 DEF Base, Calm, Unmissed
<1>. QED
  BY <1>2, <1>3

(* A refusal, whatever the handler has loaded.                               *)
LEMMA FailQuiet ==
  ASSUME Base, NEW s, NEW X, Steady(s, X), Running, Fail(s)
  PROVE  Calm
<1>1. Told(known) /\ Handles(opened)
  BY OldHandles DEF Told, Base, TypeOK
<1>. QED
  BY <1>1, FinishQuiet DEF Fail, Answers

-----------------------------------------------------------------------------
(* The handlers that leave the tree alone.                                   *)

(* An inode that a handler has found, with what it may say of it.            *)
LEMMA FoundIs ==
  ASSUME Base, NEW s, NEW X, Steady(s, X), s.status = "ok", NEW i \in Inos, Found(s, i)
  PROVE  /\ s \in States /\ Held(s, i) /\ Sized(s, i) /\ Asserted(s, i) = s
         /\ s.cache[i] \in Entry /\ s.cache[i].ref_cnt = 1 /\ s.cache[i].valid
         /\ Exists(i) /\ s.objects[i] = objects[i] /\ s.cache[i].size = Len(objects[i])
         /\ s.cache[i].n_link = meta[i].n_link
         /\ Reloaded(s.cache[i].type) = Reloaded(meta[i].type)
         /\ s.cache[i].type = "directory" <=> i \in Dirs
<1>1. /\ s \in States /\ Sound(s) /\ Single(s) /\ s.objects = objects
      /\ Seen(s.meta[i]) = Seen(meta[i])
  BY DEF Steady
<1>2. Held(s, i) /\ Sized(s, i) /\ s.cache[i] \in Entry
  BY <1>1 DEF Found, Sound, States
<1>3. s.cache[i].ref_cnt = 1
  BY <1>1, <1>2 DEF Found, Single, Entry
<1>4. s.meta[i] \in Meta \cup {None} /\ meta[i] \in Meta \cup {None}
  BY <1>1 DEF States, Base, TypeOK
<1>5. /\ meta[i] # None /\ s.meta[i].n_link = meta[i].n_link
      /\ Reloaded(s.meta[i].type) = Reloaded(meta[i].type)
      /\ s.meta[i].type = "directory" <=> meta[i].type = "directory"
  BY <1>1, <1>2, <1>4, SeenTells DEF Held
<1>6. s.cache[i].type \in Types /\ s.meta[i].type \in Types
  BY <1>2, <1>4 DEF Entry, Meta, Held
<1>7. s.cache[i].type = "directory" <=> i \in Dirs
  BY <1>2, <1>5, <1>6, DirectoryType DEF Held, Dirs, Exists
<1>. QED
  BY <1>1, <1>2, <1>3, <1>5, <1>7, AssertHolds, ReadAllIs DEF Held, Exists

LEMMA AttrTold ==
  ASSUME Base, NEW s, NEW X, Steady(s, X), s.status = "ok", NEW i \in Inos, Found(s, i)
  PROVE  Told(Attr(s, i))
<1>1. /\ s.cache[i].type \in Types /\ Exists(i)
      /\ s.cache[i].type = "directory" <=> i \in Dirs
  BY FoundIs DEF Entry
<1>2. known \in [Inos -> Types \cup {None}] /\ None \notin Types
  BY NothingAssumption DEF Base, TypeOK
<1>. QED
  BY <1>1, <1>2 DEF Attr, Told

LEMMA GetFound ==
  ASSUME NEW s \in States, NEW i \in Inos, s.status = "ok", Found(Get(s, i), i)
  PROVE  Get(s, i).status = "ok"
<1>. SUFFICES ASSUME Get(s, i) = Panic(s, "no_slot"), ~(s.cache[i].ref_cnt > 0)
              PROVE  FALSE
  BY DEF Get, States
<1>1. Panic(s, "no_slot").cache = s.cache
  BY DEF Panic, States
<1>. QED
  BY <1>1 DEF Found

(* dir_lookup finds the one entry of a name.                                 *)
LEMMA DirLookupIs ==
  ASSUME Base, NEW s, NEW X, Steady(s, X), s.status = "ok", NEW p \in Inos, Found(s, p),
         NEW n \in Names
  PROVE  /\ InDirectory(s, p, n) <=> p \in Dirs /\ NamedIn(objects[p], n)
         /\ InDirectory(s, p, n) =>
              /\ DirLookup(s, p, n) \in Inos \ {Root}
              /\ Place(s, p, n) \in Heads(p) + 1 .. Len(objects[p])
              /\ objects[p][Place(s, p, n)] = [name |-> n, ino |-> DirLookup(s, p, n)]
<1>1. /\ s \in States /\ Held(s, p) /\ Sized(s, p) /\ s.objects[p] = objects[p]
      /\ s.cache[p].type = "directory" <=> p \in Dirs
  BY FoundIs
<1>2. InDirectory(s, p, n) <=> p \in Dirs /\ NamedIn(objects[p], n)
  BY <1>1, InDirectoryIs
<1>3. ASSUME InDirectory(s, p, n)
      PROVE  /\ DirLookup(s, p, n) \in Inos \ {Root}
             /\ Place(s, p, n) \in Heads(p) + 1 .. Len(objects[p])
             /\ objects[p][Place(s, p, n)] = [name |-> n, ino |-> DirLookup(s, p, n)]
  <2>. DEFINE o == objects[p]
              k == Place(s, p, n)
  <2>1. DirShaped(p, o)
    BY <1>2, <1>3 DEF Base, DirsShaped
  <2>2. /\ k \in 1 .. Len(o) /\ o[k].name = n /\ DirLookup(s, p, n) = o[k].ino
    BY <1>1, <1>2, <1>3, <2>1, PlaceIs DEF DirShaped
  <2>. HIDE DEF k, o
  <2>3. o[1].name = "." /\ (p # Root => o[2].name = "..")
    BY <2>1 DEF DirShaped
  <2>4. n # "." /\ n # ".."
    BY NamespaceAssumption
  <2>5. k # 1 /\ (p # Root => k # 2)
    BY <2>2, <2>3, <2>4
  <2>6. o \in Seq(Entry2) /\ Len(o) \in Nat
    BY <2>1 DEF DirShaped
  <2>7. k \in Heads(p) + 1 .. Len(o)
    BY <2>2, <2>5, <2>6 DEF Heads
  <2>8. o[k] \in Entry2
    BY <2>2, <2>6
  <2>9. o[k].ino # Root
    BY <2>1, <2>7 DEF DirShaped
  <2>10. o[k] = [name |-> n, ino |-> o[k].ino] /\ o[k].ino \in Inos
    BY <2>2, <2>8 DEF Entry2
  <2>. QED
    BY <2>2, <2>7, <2>9, <2>10 DEF k, o
<1>. QED
  BY <1>2, <1>3

LEMMA LookupQuiet ==
  ASSUME Base, NEW p \in Inos, NEW n \in Names, Lookup(p, n)
  PROVE  Calm
<1>. DEFINE s1 == Get(Now, p)
            i  == DirLookup(s1, p, n)
            s2 == Get(s1, i)
<1>0. Running /\ Steady(Now, {}) /\ Now.status = "ok" /\ Now \in States
  BY NowSteady DEF Lookup, Steady
<1>1. Steady(s1, {p})
  BY <1>0, GetSteady
<1>2. CASE Fail(Now)
  BY <1>0, <1>2, FailQuiet
<1>3. CASE Fail(Panic(Now, "short_name"))
  <2>1. Panic(Now, "short_name").status # "ok" /\ Panic(Now, "short_name").status \in Statuses
    BY <1>0, PanicNotOk DEF Statuses
  <2>. QED
    <3>1. Panic(Now, "short_name").status = "short_name"
      BY <1>0 DEF Panic, States
    <3>2. Base' /\ Quiet /\ Releases /\ status' = "short_name"
      BY <1>3, <2>1, <3>1, FinishPanicked DEF Fail
    <3>. QED
      BY <3>2 DEF Calm, Unmissed
<1>4. CASE Fail(s1)
  BY <1>0, <1>1, <1>4, FailQuiet
<1>5. ASSUME Found(s1, p), InDirectory(s1, p, n)
      PROVE  /\ s1.status = "ok" /\ i \in Inos /\ Steady(s2, {p, i})
             /\ Found(s2, i) => s2.status = "ok"
  <2>1. s1.status = "ok" /\ s1 \in States
    BY <1>0, <1>1, <1>5, GetFound DEF Steady
  <2>2. i \in Inos
    BY <1>1, <1>5, <2>1, DirLookupIs
  <2>. HIDE DEF i, s1
  <2>3. Steady(s2, {p} \cup {i})
    BY <1>1, <2>2, GetSteady
  <2>4. {p} \cup {i} = {p, i}
    OBVIOUS
  <2>5. Found(s2, i) => s2.status = "ok"
    BY <2>1, <2>2, GetFound
  <2>. QED
    BY <2>1, <2>2, <2>3, <2>4, <2>5
<1>6. CASE Found(s1, p) /\ InDirectory(s1, p, n) /\ Fail(s2)
  BY <1>0, <1>5, <1>6, FailQuiet
<1>7. CASE /\ Found(s1, p) /\ InDirectory(s1, p, n) /\ Found(s2, i)
           /\ Finish(Put(Put(Asserted(s2, i), p), i), "ok", Attr(s2, i), opened)
  <2>1. s2.status = "ok" /\ i \in Inos /\ Steady(s2, {p, i})
    BY <1>5, <1>7
  <2>. HIDE DEF i, s2
  <2>2. Asserted(s2, i) = s2 /\ Told(Attr(s2, i))
    BY <1>7, <2>1, FoundIs, AttrTold
  <2>3. Steady(Put(s2, p), {p, i} \ {p}) /\ Put(s2, p).status = "ok"
    BY <2>1, PutSteady
  <2>4. Steady(Put(Put(s2, p), i), ({p, i} \ {p}) \ {i})
    BY <2>1, <2>3, PutSteady
  <2>5. Handles(opened) /\ ({p, i} \ {p}) \ {i} \subseteq opened
    BY OldHandles
  <2>. QED
    BY <1>0, <1>7, <2>2, <2>4, <2>5, FinishQuiet DEF Answers
<1>. QED
  BY <1>2, <1>3, <1>4, <1>6, <1>7 DEF Lookup

(* A handler of one inode: either refused, or with the inode in hand.        *)
LEMMA OneLoaded ==
  ASSUME Base, Running, NEW i \in Inos
  PROVE  /\ Steady(Get(Now, i), {i})
         /\ Found(Get(Now, i), i) => Get(Now, i).status = "ok"
<1>1. Steady(Now, {}) /\ Now.status = "ok" /\ Now \in States
  BY NowSteady DEF Steady
<1>2. Steady(Get(Now, i), {} \cup {i})
  BY <1>1, GetSteady
<1>. QED
  BY <1>1, <1>2, GetFound

LEMMA PutOne ==
  ASSUME NEW s, NEW i \in Inos, Steady(s, {i}), s.status = "ok"
  PROVE  Steady(Put(s, i), {})
<1>1. Steady(Put(s, i), {i} \ {i})
  BY PutSteady
<1>. QED
  BY <1>1

(* modify_stat with the loaded inode as it is.                               *)
LEMMA TouchSteady ==
  ASSUME Base, NEW s, NEW X, Steady(s, X), s.status = "ok", NEW i \in Inos, Found(s, i)
  PROVE  /\ Steady(ModifyStat(s, i, s.cache[i]), X)
         /\ ModifyStat(s, i, s.cache[i]).status = "ok"
         /\ ModifyStat(s, i, s.cache[i]).cache = s.cache
<1>. DEFINE t == ModifyStat(s, i, s.cache[i])
            c == s.cache[i]
<1>1. /\ s \in States /\ Held(s, i) /\ Sized(s, i) /\ c \in Entry /\ c.valid
      /\ Exists(i) /\ c.size = Len(s.objects[i])
      /\ Reloaded(c.type) = Reloaded(s.meta[i].type)
      /\ c.size = s.meta[i].size /\ c.n_link = s.meta[i].n_link /\ s.meta[i] # None
  BY FoundIs DEF Held
<1>2. /\ Only({i}, s, t) /\ t.objects = s.objects /\ t.maxIno = s.maxIno
      /\ t.meta[i] = Stored(c) /\ t.cache[i] = c /\ Held(t, i)
      /\ Stored(c) # None
  <2>1. Modified(s, i, c, t)
    BY <1>1, ModifyStatIs
  <2>. HIDE DEF t, c
  <2>. QED
    BY <2>1 DEF Modified
<1>3. Stored(c) = [type |-> c.type, size |-> c.size, n_link |-> c.n_link]
  BY DEF Stored
<1>. HIDE DEF t, c
<1>4. Seen(t.meta[i]) = Seen(s.meta[i]) /\ t.meta[i].size = s.meta[i].size
  BY <1>1, <1>2, <1>3 DEF Seen
<1>5. Sound(s) /\ Single(s)
  BY DEF Steady
<1>6. t \in States /\ t.status = "ok" /\ \A j \in Inos : t.cache[j] = s.cache[j]
  BY <1>2 DEF Only, c
<1>7. t.cache = s.cache
  BY <1>1, <1>6 DEF States
<1>8. \A j \in Inos : Sized(t, j) /\ (t.cache[j].ref_cnt > 0 => Held(t, j))
  <2>1. Sized(t, i)
    BY <1>1, <1>2, <1>4 DEF Sized, Held
  <2>2. ASSUME NEW j \in Inos \ {i}
        PROVE  Sized(t, j) /\ (t.cache[j].ref_cnt > 0 => Held(t, j))
    BY <1>2, <1>5 DEF Sound, Only, Held, Sized
  <2>. QED
    BY <1>2, <2>1, <2>2
<1>9. \A j \in Inos : Seen(t.meta[j]) = Seen(s.meta[j])
  BY <1>2, <1>4 DEF Only
<1>10. Steady(t, X)
  BY <1>2, <1>5, <1>6, <1>7, <1>8, <1>9 DEF Steady, Sound, Single
<1>. QED
  BY <1>6, <1>7, <1>10 DEF t, c

(* open's second reference makes up for the one i_put takes.                 *)
LEMMA ReferenceIs ==
  ASSUME NEW s \in States, NEW i \in Inos, s.cache[i].ref_cnt = 1
  PROVE  Reference(s, i) = s
<1>. DEFINE t == [s EXCEPT !.cache[i].ref_cnt = @ + 1]
<1>1. s.cache[i] \in Entry
  BY DEF States
<1>2. t.cache[i] = [s.cache[i] EXCEPT !.ref_cnt = 2]
  BY <1>1 DEF States, Entry
<1>3. t.cache[i].ref_cnt = 2
  BY <1>1, <1>2 DEF Entry
<1>4. Put(t, i) = [t EXCEPT !.cache[i].ref_cnt = @ - 1]
  BY <1>3 DEF Put
<1>. DEFINE u == [t EXCEPT !.cache[i].ref_cnt = @ - 1]
            c == s.cache[i]
            d == [c EXCEPT !.ref_cnt = 2]
<1>5. t.cache = [s.cache EXCEPT ![i] = d]
  BY <1>1, <1>2 DEF States
<1>6. [d EXCEPT !.ref_cnt = @ - 1] = c
  <2>1. c \in Entry /\ c.ref_cnt = 1
    BY <1>1
  <2>. HIDE DEF c
  <2>2. d.ref_cnt = 2 /\ [d EXCEPT !.ref_cnt = 1] = c
    BY <2>1 DEF Entry
  <2>. QED
    BY <2>2
<1>7. u.cache = [t.cache EXCEPT ![i] = c]
  <2>1. u.cache = [t.cache EXCEPT ![i].ref_cnt = @ - 1]
    BY DEF States
  <2>. HIDE DEF u, t, c, d
  <2>2. t.cache[i] = d
    BY <1>5 DEF States
  <2>. QED
    BY <1>6, <2>1, <2>2
<1>8. u.cache = s.cache
  <2>. HIDE DEF u, t, d
  <2>. QED
    BY <1>5, <1>7 DEF States
<1>9. d \in Entry /\ t = [s EXCEPT !.cache[i] = d]
  <2>1. d \in Entry
    <3>. HIDE DEF c
    <3>. QED
      BY <1>1 DEF Entry, c
  <2>2. s.cache[i].ref_cnt + 1 = 2
    OBVIOUS
  <2>3. t = [s EXCEPT !.cache[i] = d]
    BY <2>2, Zenon
  <2>. QED
    BY <2>1, <2>3
<1>10. t \in States /\ t.meta = s.meta /\ t.objects = s.objects /\ t.maxIno = s.maxIno
       /\ t.status = s.status
  <2>. HIDE DEF t, d
  <2>. QED
    BY <1>9 DEF States
<1>11. t.cache[i] = d /\ u = [t EXCEPT !.cache[i] = c]
  <2>1. t.cache[i] = d
    BY <1>5 DEF States
  <2>. HIDE DEF t, c, d
  <2>. QED
    BY <1>6, <2>1
<1>12. u = s
  <2>1. c \in Entry
    BY <1>1
  <2>. HIDE DEF u, t, c, d
  <2>2. Reentered(t, i, c, u)
    BY <1>10, <1>11, <2>1, EntryTyped
  <2>3. u \in States /\ u.meta = s.meta /\ u.objects = s.objects /\ u.maxIno = s.maxIno
        /\ u.status = s.status
    BY <1>10, <2>2 DEF Reentered
  <2>4. \A x \in States : x = [meta |-> x.meta, objects |-> x.objects, cache |-> x.cache,
                               maxIno |-> x.maxIno, status |-> x.status]
    BY DEF States
  <2>5. /\ u = [meta |-> u.meta, objects |-> u.objects, cache |-> u.cache,
                maxIno |-> u.maxIno, status |-> u.status]
        /\ s = [meta |-> s.meta, objects |-> s.objects, cache |-> s.cache,
                maxIno |-> s.maxIno, status |-> s.status]
    BY <2>3, <2>4
  <2>. QED
    BY <1>8, <2>3, <2>5
<1>. QED
  BY <1>4, <1>12 DEF Reference

(* release takes a count and i_put sees none left.                           *)
LEMMA ReleaseIs ==
  ASSUME NEW s \in States, NEW i \in Inos, s.cache[i].ref_cnt = 1
  PROVE  Put([s EXCEPT !.cache[i].ref_cnt = @ - 1], i) = Put(s, i)
<1>. DEFINE t == [s EXCEPT !.cache[i].ref_cnt = @ - 1]
<1>1. s.cache[i] \in Entry
  BY DEF States
<1>2. t.cache[i].ref_cnt = 0
  BY <1>1 DEF States, Entry
<1>3. Put(t, i) = [t EXCEPT !.cache[i] = Free]
  BY <1>2 DEF Put
<1>4. [t EXCEPT !.cache[i] = Free] = [s EXCEPT !.cache[i] = Free]
  BY DEF States
<1>. QED
  BY <1>3, <1>4 DEF Put

(* getattr, access, setattr of anything but the size, open and opendir.      *)
LEMMA ByInodeQuiet ==
  ASSUME Base, NEW i \in Inos, ByInode(i)
  PROVE  Calm
<1>. DEFINE s == Get(Now, i)
<1>1. Running
  BY DEF ByInode, GetAttr, Access, SetMode, SetTime, Open
<1>2. Steady(s, {i}) /\ (Found(s, i) => s.status = "ok")
  BY <1>1, OneLoaded
<1>3. CASE Fail(s)
  BY <1>1, <1>2, <1>3, FailQuiet
<1>4. ASSUME Found(s, i)
      PROVE  /\ s.status = "ok" /\ s \in States /\ Asserted(s, i) = s
             /\ s.cache[i].ref_cnt = 1 /\ Exists(i)
             /\ Told(Attr(s, i)) /\ Steady(Put(s, i), {})
  BY <1>2, <1>4, FoundIs, AttrTold, PutOne
<1>5. Handles(opened) /\ Told(known)
  BY OldHandles DEF Base, TypeOK, Told
<1>. HIDE DEF s
<1>6. CASE Found(s, i) /\ Finish(Put(Asserted(s, i), i), "ok", Attr(s, i), opened)
  BY <1>1, <1>4, <1>5, <1>6, FinishQuiet DEF Answers
<1>7. CASE Found(s, i) /\ Succeed(Put(s, i))
  BY <1>1, <1>4, <1>5, <1>7, FinishQuiet DEF Answers, Succeed
<1>8. CASE /\ Found(s, i)
           /\ Finish(Put(ModifyStat(Asserted(s, i), i, s.cache[i]), i), "ok", Attr(s, i), opened)
  <2>. DEFINE t == ModifyStat(s, i, s.cache[i])
  <2>1. Steady(t, {i}) /\ t.status = "ok"
    BY <1>2, <1>8, TouchSteady
  <2>. HIDE DEF t
  <2>2. Steady(Put(t, i), {})
    BY <2>1, PutOne
  <2>3. Finish(Put(t, i), "ok", Attr(s, i), opened)
    BY <1>4, <1>8 DEF t
  <2>. QED
    BY <1>1, <1>4, <1>5, <1>8, <2>2, <2>3, FinishQuiet DEF Answers
<1>9. CASE Found(s, i) /\ Finish(Reference(s, i), "ok", known, opened \cup {i})
  <2>1. Reference(s, i) = s
    BY <1>4, <1>9, ReferenceIs
  <2>2. known[i] # None
    BY DEF ByInode, GetAttr, Access, SetMode, SetTime, Open, Known
  <2>3. Handles(opened \cup {i})
    BY <1>4, <1>5, <1>9, <2>2 DEF Handles
  <2>. QED
    BY <1>1, <1>2, <1>5, <1>9, <2>1, <2>3, FinishQuiet DEF Answers
<1>. QED
  BY <1>3, <1>6, <1>7, <1>8, <1>9 DEF ByInode, GetAttr, Access, SetMode, SetTime, Open, s

LEMMA ReadQuiet ==
  ASSUME Base, NEW i \in Inos, NEW off \in Nat, Read(i, off)
  PROVE  Calm
<1>. DEFINE s == Get(Now, i)
<1>1. Running /\ Steady(s, {i}) /\ (Found(s, i) => s.status = "ok")
  BY OneLoaded DEF Read
<1>2. CASE Fail(s)
  BY <1>1, <1>2, FailQuiet
<1>3. CASE Found(s, i) /\ Succeed(Put(Asserted(s, i), i))
  <2>1. Asserted(s, i) = s /\ Steady(Put(s, i), {})
    BY <1>1, <1>3, FoundIs, PutOne
  <2>2. Handles(opened) /\ Told(known)
    BY OldHandles DEF Base, TypeOK, Told
  <2>. HIDE DEF s
  <2>. QED
    BY <1>1, <1>3, <2>1, <2>2, FinishQuiet DEF Answers, Succeed
<1>. QED
  BY <1>2, <1>3 DEF Read

LEMMA ReleaseQuiet ==
  ASSUME Base, NEW i \in Inos, NEW last \in BOOLEAN, Release(i, last)
  PROVE  Calm
<1>. DEFINE s == Get(Now, i)
            left == IF last THEN opened \ {i} ELSE opened
            told == IF meta[i] = None /\ last THEN [known EXCEPT ![i] = None] ELSE known
<1>1. Running /\ Steady(s, {i}) /\ (Found(s, i) => s.status = "ok")
  BY OneLoaded DEF Release
<1>2. Handles(left)
  BY OldHandles DEF Handles
<1>3. Told(told)
  <2>1. known \in [Inos -> Types \cup {None}]
    BY DEF Base, TypeOK
  <2>. QED
    BY <2>1 DEF Told, Exists
<1>. HIDE DEF left, told
<1>4. CASE Found(s, i) /\ Finish(Put([s EXCEPT !.cache[i].ref_cnt = @ - 1], i), "ok", told, left)
  <2>1. Put([s EXCEPT !.cache[i].ref_cnt = @ - 1], i) = Put(s, i)
    BY <1>1, <1>4, FoundIs, ReleaseIs
  <2>2. Steady(Put(s, i), {})
    BY <1>1, <1>4, PutOne
  <2>. HIDE DEF s
  <2>. QED
    BY <1>1, <1>2, <1>3, <1>4, <2>1, <2>2, FinishQuiet DEF Answers
<1>5. CASE Finish(s, "error", told, left)
  BY <1>1, <1>2, <1>3, <1>5, FinishQuiet DEF Answers
<1>. QED
  BY <1>4, <1>5 DEF Release, left, told

-----------------------------------------------------------------------------
(* readdir.                                                                  *)

(* Induction over the natural numbers, for a set.                            *)
LEMMA SetInduction ==
  ASSUME NEW G \in SUBSET Nat, 0 \in G, \A k \in G : k + 1 \in G
  PROVE  G = Nat
<1>. DEFINE T == Nat \ G
<1>. SUFFICES ASSUME T # {} PROVE FALSE
  OBVIOUS
<1>1. PICK r \in T : \A x \in T : ~(<<x, r>> \in OpToRel(<, Nat))
  BY NatLessThanWellFounded, WFMin
<1>2. \A x \in T : ~(x < r)
  BY <1>1, Zenon DEF OpToRel
<1>3. r # 0 /\ r - 1 \in Nat
  OBVIOUS
<1>4. r - 1 \in G
  BY <1>2, <1>3
<1>. QED
  BY <1>3, <1>4

(* The buffer after each number of entries is well defined.                  *)
ListsTo(s, entries, f, n) ==
  f = [k \in 0 .. n |-> IF k = 0 THEN s ELSE GetListed(f[k - 1], entries[k].ino)]

LEMMA ListingIs ==
  ASSUME NEW s, NEW S, NEW entries \in Seq(S)
  PROVE  ListsTo(s, entries, Listing(s, entries), Len(entries))
<1>. DEFINE G == {n \in Nat : \E f : ListsTo(s, entries, f, n)}
<1>1. 0 \in G
  <2>1. ListsTo(s, entries, [k \in 0 .. 0 |-> s], 0)
    BY DEF ListsTo
  <2>. QED
    BY <2>1
<1>2. ASSUME NEW n \in G
      PROVE  n + 1 \in G
  <2>1. PICK f : ListsTo(s, entries, f, n)
    OBVIOUS
  <2>. DEFINE g == [k \in 0 .. n + 1 |->
                      IF k \in 0 .. n THEN f[k] ELSE GetListed(f[n], entries[n + 1].ino)]
  <2>2. n \in Nat /\ \A k \in 0 .. n + 1 : k \in 0 .. n \/ k = n + 1
    OBVIOUS
  <2>3. ASSUME NEW k \in 0 .. n + 1
        PROVE  g[k] = IF k = 0 THEN s ELSE GetListed(g[k - 1], entries[k].ino)
    <3>1. CASE k = 0
      BY <2>1, <2>2, <3>1 DEF ListsTo
    <3>2. CASE k \in 1 .. n
      <4>1. f[k] = GetListed(f[k - 1], entries[k].ino)
        BY <2>1, <2>2, <3>2 DEF ListsTo
      <4>2. g[k] = f[k] /\ g[k - 1] = f[k - 1] /\ k # 0
        BY <2>2, <3>2
      <4>. QED
        BY <4>1, <4>2
    <3>3. CASE k = n + 1
      <4>1. g[k] = GetListed(f[n], entries[n + 1].ino)
        BY <2>2, <3>3
      <4>2. k - 1 = n /\ g[n] = f[n] /\ k # 0
        BY <2>2, <3>3
      <4>. QED
        BY <3>3, <4>1, <4>2
    <3>. QED
      BY <2>2, <3>1, <3>2, <3>3
  <2>4. ListsTo(s, entries, g, n + 1)
    <3>1. g = [k \in 0 .. n + 1 |-> g[k]]
      OBVIOUS
    <3>. HIDE DEF g
    <3>. QED
      BY <2>3, <3>1 DEF ListsTo
  <2>. QED
    BY <2>2, <2>4
<1>3. G = Nat
  <2>. HIDE DEF G
  <2>1. G \in SUBSET Nat
    BY DEF G
  <2>. QED
    BY <1>1, <1>2, <2>1, SetInduction
<1>4. Len(entries) \in G
  <2>. HIDE DEF G
  <2>. QED
    BY <1>3
<1>5. PICK f : ListsTo(s, entries, f, Len(entries))
  BY <1>4
<1>6. Listing(s, entries) =
        CHOOSE g : g = [k \in 0 .. Len(entries) |->
                          IF k = 0 THEN s ELSE GetListed(g[k - 1], entries[k].ino)]
  BY DEF Listing
<1>. QED
  BY <1>5, <1>6 DEF ListsTo

(* Loading one entry's inode.                                                *)
LEMMA GetListedSteady ==
  ASSUME Base, NEW s, Steady(s, Inos), NEW i \in Inos, NamesExist => Exists(i)
  PROVE  Steady(GetListed(s, i), Inos)
<1>. DEFINE t == Get(s, i)
<1>1. Steady(t, Inos \cup {i}) /\ Inos \cup {i} = Inos
  BY GetSteady
<1>2. t \in States /\ s \in States
  BY GetTyped DEF Steady
<1>3. CASE Found(t, i)
  BY <1>1, <1>3 DEF GetListed
<1>4. CASE ~Found(t, i)
  <2>1. GetListed(s, i) = Panic(t, "unwrap")
    BY <1>4 DEF GetListed
  <2>2. CASE t.status # "ok"
    <3>1. Panic(t, "unwrap") = t
      BY <2>2 DEF Panic
    <3>. QED
      BY <1>1, <2>1, <3>1
  <2>3. CASE t.status = "ok"
    <3>1. s.status = "ok"
      BY <1>2, <2>3, GetTyped
    <3>2. Sound(s) /\ Seen(s.meta[i]) = Seen(meta[i])
      BY <3>1 DEF Steady
    <3>3. s.meta[i] = None
      BY <1>4, <2>3, <3>1, <3>2, GetSound
    <3>4. s.meta[i] \in Meta \cup {None} /\ meta[i] \in Meta \cup {None}
      BY <1>2 DEF States, Base, TypeOK
    <3>5. ~NamesExist
      BY <3>2, <3>3, <3>4, SeenTells DEF Exists
    <3>6. Panic(t, "unwrap") \in States /\ Panic(t, "unwrap").status # "ok"
      BY <1>2, <2>3 DEF Panic, States, Statuses
    <3>. QED
      BY <2>1, <3>5, <3>6 DEF Steady
  <2>. QED
    BY <2>2, <2>3
<1>. QED
  BY <1>3, <1>4

LEMMA ListedSteady ==
  ASSUME Base, NEW s, Steady(s, Inos), NEW entries \in Seq(Entry2),
         NamesExist => \A k \in 1 .. Len(entries) : Exists(entries[k].ino)
  PROVE  Steady(Listed(s, entries), Inos)
<1>. DEFINE f == Listing(s, entries)
            G == {k \in Nat : k <= Len(entries) => Steady(f[k], Inos)}
<1>0. Len(entries) \in Nat
  OBVIOUS
<1>1. \A k \in 0 .. Len(entries) :
        f[k] = IF k = 0 THEN s ELSE GetListed(f[k - 1], entries[k].ino)
  <2>1. ListsTo(s, entries, f, Len(entries))
    BY ListingIs
  <2>. HIDE DEF f
  <2>. QED
    BY <2>1 DEF ListsTo
<1>. HIDE DEF f
<1>2. 0 \in G
  BY <1>0, <1>1
<1>3. ASSUME NEW k \in G
      PROVE  k + 1 \in G
  <2>. SUFFICES ASSUME k + 1 <= Len(entries)
                PROVE  Steady(f[k + 1], Inos)
    OBVIOUS
  <2>1. k \in Nat /\ k <= Len(entries) /\ k + 1 \in 1 .. Len(entries)
    BY <1>0
  <2>2. Steady(f[k], Inos)
    BY <2>1
  <2>3. f[k + 1] = GetListed(f[k], entries[k + 1].ino)
    BY <1>0, <1>1, <2>1
  <2>4. entries[k + 1].ino \in Inos
    <3>1. entries[k + 1] \in Entry2
      BY <2>1, ElementOfSeq
    <3>. QED
      BY <3>1 DEF Entry2
  <2>5. Steady(GetListed(f[k], entries[k + 1].ino), Inos)
    BY <2>1, <2>2, <2>4, GetListedSteady
  <2>. QED
    BY <2>3, <2>5
<1>4. G = Nat
  <2>1. G \in SUBSET Nat
    OBVIOUS
  <2>. HIDE DEF G
  <2>. QED
    BY <1>2, <1>3, <2>1, SetInduction
<1>5. Len(entries) \in G
  <2>. HIDE DEF G
  <2>. QED
    BY <1>0, <1>4
<1>. QED
  BY <1>0, <1>5 DEF Listed, f

LEMMA ReadDirQuiet ==
  ASSUME Base, NEW i \in Inos, NEW off \in Nat, ReadDir(i, off)
  PROVE  Calm
<1>. DEFINE s == Get(Now, i)
            entries == ReadAll(s, i)
            rest(last) == SubSeq(entries, off + 1, last)
            Ends == {Len(entries)} \cup off + 1 .. Len(entries)
<1>1. Running /\ Steady(s, {i}) /\ (Found(s, i) => s.status = "ok")
  BY OneLoaded DEF ReadDir
<1>2. CASE Fail(s)
  BY <1>1, <1>2, FailQuiet
<1>3. CASE /\ Found(s, i)
           /\ \E last \in Ends : Finish(Put(Listed(s, rest(last)), i), "entries", known, opened)
  <2>1. PICK last \in Ends : Finish(Put(Listed(s, rest(last)), i), "entries", known, opened)
    BY <1>3
  <2>. DEFINE part == rest(last)
              t == Listed(s, part)
  <2>2. Finish(Put(t, i), "entries", known, opened)
    BY <2>1
  <2>3. i \in Dirs
    BY DEF ReadDir, Directories, Base, KnownTyped
  <2>4. objects[i] \in Seq(Entry2)
    BY <2>3 DEF Base, DirsShaped, DirShaped
  <2>5. ReadAll(s, i) = objects[i]
    BY <1>1, <1>3, FoundIs, ReadAllIs
  <2>6. /\ part \in Seq(Entry2)
        /\ \A k \in 1 .. Len(part) : \E l \in DOMAIN objects[i] : part[k] = objects[i][l]
    <3>. DEFINE o == objects[i]
                a == off + 1
                b == last
    <3>1. a \in Int /\ b \in Int /\ \A k \in a .. b : o[k] \in Entry2 /\ k \in DOMAIN o
      BY <2>1, <2>4, <2>5
    <3>2. part = SubSeq(o, a, b)
      BY <2>5
    <3>3. /\ SubSeq(o, a, b) \in Seq(Entry2)
          /\ Len(SubSeq(o, a, b)) = IF a <= b THEN b - a + 1 ELSE 0
          /\ \A k \in 1 .. b - a + 1 : SubSeq(o, a, b)[k] = o[a + k - 1]
      <4>. HIDE DEF a, b, o
      <4>. QED
        BY <3>1, SubSeqProperties
    <3>4. ASSUME NEW k \in 1 .. Len(SubSeq(o, a, b))
          PROVE  \E l \in DOMAIN o : SubSeq(o, a, b)[k] = o[l]
      <4>. HIDE DEF a, b, o
      <4>1. k \in 1 .. b - a + 1 /\ a + k - 1 \in a .. b
        BY <3>1, <3>3
      <4>. QED
        BY <3>1, <3>3, <4>1
    <3>. QED
      BY <3>2, <3>3, <3>4
  <2>7. Steady(s, Inos) /\ s.status = "ok"
    BY <1>1, <1>3 DEF Steady
  <2>. HIDE DEF part, s, rest, entries
  <2>8. NamesExist => \A k \in 1 .. Len(part) : Exists(part[k].ino)
    BY <2>3, <2>6 DEF Entries, NamesExist
  <2>9. Steady(t, Inos)
    BY <2>6, <2>7, <2>8, ListedSteady
  <2>. HIDE DEF t
  <2>10. Handles(opened) /\ Told(known)
    BY OldHandles DEF Base, TypeOK, Told
  <2>11. CASE t.status = "ok"
    <3>1. Steady(Put(t, i), Inos \ {i})
      BY <2>9, <2>11, PutSteady
    <3>. QED
      BY <1>1, <2>10, <2>2, <3>1, FinishQuiet DEF Answers
  <2>12. CASE t.status # "ok"
    <3>1. Put(t, i).status = t.status /\ t \in States
      BY <2>9, <2>12 DEF Put, States, Steady
    <3>2. t.status \in Statuses
      BY <3>1 DEF States
    <3>3. Base' /\ Quiet /\ Releases /\ status' = t.status
      BY <2>12, <2>2, <3>1, <3>2, FinishPanicked
    <3>. QED
      BY <2>9, <3>3 DEF Steady, Calm, Unmissed
  <2>. QED
    BY <2>11, <2>12
<1>4. IF Found(s, i)
      THEN \E last \in Ends : Finish(Put(Listed(s, rest(last)), i), "entries", known, opened)
      ELSE Fail(s)
  BY DEF ReadDir
<1>. QED
  BY <1>2, <1>3, <1>4

-----------------------------------------------------------------------------
(* Handlers that change a directory p and an inode i.                        *)

(* Between the operations of such a handler, that began in s.                *)
Working(s, t, p, i) ==
  /\ Only({p, i}, s, t)
  /\ \A j \in {p, i} : Held(t, j) /\ Sized(t, j)

(* How j is loaded, apart from its size.                                     *)
Alike(c, d) ==
  c.type = d.type /\ c.n_link = d.n_link /\ c.ref_cnt = d.ref_cnt /\ c.valid = d.valid

Recorded(s, t, p, i, j, o, u) ==
  /\ Working(s, u, p, i) /\ u.maxIno = t.maxIno /\ u.objects[j] = o
  /\ \A k \in {p, i} \ {j} : u.objects[k] = t.objects[k]
  /\ \A k \in {p, i} : Alike(u.cache[k], t.cache[k])

Restated(s, t, p, i, j, c, u) ==
  /\ Working(s, u, p, i) /\ u.maxIno = t.maxIno /\ u.objects = t.objects
  /\ u.cache[j] = c
  /\ \A k \in {p, i} \ {j} : u.cache[k] = t.cache[k]

LEMMA SetObjectWorks ==
  ASSUME NEW s, NEW t, NEW p \in Inos, NEW i \in Inos, Working(s, t, p, i),
         NEW j \in {p, i}, NEW o \in Seq(Record)
  PROVE  Recorded(s, t, p, i, j, o, SetObject(t, j, o))
<1>. DEFINE u == SetObject(t, j, o)
<1>1. /\ t \in States /\ j \in Inos /\ Held(t, j) /\ Only({p, i}, s, t)
      /\ \A k \in {p, i} : Held(t, k) /\ Sized(t, k)
  BY DEF Working, Only
<1>2. /\ Only({j}, t, u) /\ Held(u, j) /\ Sized(u, j) /\ u.objects[j] = o
      /\ u.maxIno = t.maxIno /\ u.cache[j] = [t.cache[j] EXCEPT !.size = Len(o)]
  <2>1. t \in States /\ j \in Inos /\ Held(t, j)
    BY <1>1
  <2>2. Rewritten(t, j, o, u)
    BY <2>1, SetObjectFields
  <2>. HIDE DEF u
  <2>. QED
    BY <2>2 DEF Rewritten
<1>. HIDE DEF u
<1>3. ASSUME NEW k \in {p, i} \ {j}
      PROVE  /\ u.objects[k] = t.objects[k] /\ u.cache[k] = t.cache[k]
             /\ Held(u, k) /\ Sized(u, k)
  <2>1. u.objects[k] = t.objects[k] /\ u.cache[k] = t.cache[k] /\ u.meta[k] = t.meta[k]
    BY <1>2 DEF Only
  <2>. QED
    BY <1>1, <2>1 DEF Held, Sized
<1>4. Only({p, i}, s, u)
  BY <1>1, <1>2 DEF Only
<1>5. Working(s, u, p, i)
  BY <1>2, <1>3, <1>4 DEF Working
<1>6. t.cache[j] \in Entry
  BY <1>1 DEF States
<1>7. Alike(u.cache[j], t.cache[j])
  BY <1>2, <1>6 DEF Alike, Entry
<1>8. \A k \in {p, i} : Alike(u.cache[k], t.cache[k])
  BY <1>3, <1>7 DEF Alike
<1>. QED
  BY <1>2, <1>3, <1>5, <1>8 DEF Recorded, u

LEMMA ModifyStatWorks ==
  ASSUME NEW s, NEW t, NEW p \in Inos, NEW i \in Inos, Working(s, t, p, i),
         NEW j \in {p, i}, NEW c \in Entry, c.valid, c.size = t.cache[j].size
  PROVE  Restated(s, t, p, i, j, c, ModifyStat(t, j, c))
<1>. DEFINE u == ModifyStat(t, j, c)
<1>1. /\ t \in States /\ j \in Inos /\ Only({p, i}, s, t)
      /\ \A k \in {p, i} : Held(t, k) /\ Sized(t, k)
  BY DEF Working, Only
<1>2. /\ Only({j}, t, u) /\ Held(u, j) /\ u.objects = t.objects
      /\ u.maxIno = t.maxIno /\ u.cache[j] = c /\ u.meta[j] = Stored(c) /\ Stored(c) # None
  BY <1>1, ModifyStatFields, StoredHeld
<1>3. Sized(u, j)
  <2>1. Stored(c).size = c.size
    BY DEF Stored
  <2>2. t.cache[j].size = Len(t.objects[j])
    BY <1>1 DEF Held, Sized
  <2>. HIDE DEF u
  <2>. QED
    BY <1>2, <2>1, <2>2 DEF Sized
<1>. HIDE DEF u
<1>4. ASSUME NEW k \in {p, i} \ {j}
      PROVE  u.cache[k] = t.cache[k] /\ Held(u, k) /\ Sized(u, k)
  <2>1. u.objects[k] = t.objects[k] /\ u.cache[k] = t.cache[k] /\ u.meta[k] = t.meta[k]
    BY <1>2 DEF Only
  <2>. QED
    BY <1>1, <2>1 DEF Held, Sized
<1>5. Only({p, i}, s, u)
  BY <1>1, <1>2 DEF Only
<1>6. Working(s, u, p, i)
  BY <1>2, <1>3, <1>4, <1>5 DEF Working
<1>. QED
  BY <1>2, <1>4, <1>6 DEF Restated, u

(* A handler that has not panicked: what it leaves is typed, what stays      *)
(* loaded is stored, and nothing is kept that it does not say.               *)
Done == TypeOK' /\ LoadedIsStored' /\ Releases /\ status' = "ok"

(* A handler that succeeds lets go of both inodes, and nothing else is       *)
(* loaded by it.                                                             *)
LeftAs(p, i, t, told, handles) ==
  /\ Done
  /\ meta' = t.meta /\ objects' = t.objects /\ maxIno' = t.maxIno
  /\ known' = told /\ opened' = handles
  /\ \A j \in Inos \ {p, i} : objects'[j] = objects[j] /\ Seen(meta'[j]) = Seen(meta[j])

LEMMA FinishBoth ==
  ASSUME Base, Running, NEW p \in Inos, NEW i \in Inos,
         NEW s, Steady(s, {p, i}), s.status = "ok", NEW t, Only({p, i}, s, t),
         Sized(t, p), Sized(t, i), t.cache[p].ref_cnt <= 1, t.cache[i].ref_cnt <= 1,
         NEW told \in [Inos -> Types \cup {None}], NEW handles \in SUBSET Inos,
         Finish(Put(Put(t, p), i), "ok", told, handles)
  PROVE  LeftAs(p, i, t, told, handles)
<1>. DEFINE u == Put(t, p)
            v == Put(u, i)
<1>1. t \in States /\ t.status = "ok"
  BY DEF Only
<1>2. /\ u \in States /\ u.meta = t.meta /\ u.objects = t.objects /\ u.maxIno = t.maxIno
      /\ u.status = t.status /\ u.cache = [t.cache EXCEPT ![p] = Free]
  BY <1>1, PutDrops
<1>3. u.cache[p] = Free /\ \A j \in Inos \ {p} : u.cache[j] = t.cache[j]
  <2>. HIDE DEF u
  <2>. QED
    BY <1>1, <1>2 DEF States
<1>4. u.cache[i].ref_cnt <= 1
  <2>. HIDE DEF u
  <2>. QED
    BY <1>3, FreeEntry
<1>. HIDE DEF u
<1>5. /\ v \in States /\ v.meta = t.meta /\ v.objects = t.objects /\ v.maxIno = t.maxIno
      /\ v.status = "ok" /\ v.cache = [u.cache EXCEPT ![i] = Free]
  BY <1>1, <1>2, <1>4, PutDrops
<1>. HIDE DEF v
<1>6. /\ v.cache[i] = Free /\ v.cache[p] = Free
      /\ \A j \in Inos \ {p, i} : v.cache[j] = t.cache[j]
  BY <1>2, <1>3, <1>5 DEF States
<1>7. /\ Sound(s) /\ Single(s) /\ s.objects = objects
      /\ \A j \in Inos : Seen(s.meta[j]) = Seen(meta[j])
      /\ \A j \in Inos \ {p, i} : s.cache[j].ref_cnt > 0 => cache[j].ref_cnt > 0
  BY DEF Steady
<1>8. \A j \in Inos \ {p, i} :
        /\ v.meta[j] = s.meta[j] /\ v.objects[j] = s.objects[j] /\ v.cache[j] = s.cache[j]
  BY <1>5, <1>6 DEF Only
<1>9. ASSUME NEW j \in Inos
      PROVE  Sized(v, j) /\ (v.cache[j].ref_cnt > 0 => Held(v, j)) /\ v.cache[j].ref_cnt <= 1
  <2>1. CASE j \in {p, i}
    BY <1>5, <1>6, <2>1, FreeEntry DEF Sized
  <2>2. CASE j \notin {p, i}
    BY <1>7, <1>8, <2>2 DEF Sound, Single, Sized, Held
  <2>. QED
    BY <2>1, <2>2
<1>10. Sound(v) /\ Single(v)
  BY <1>5, <1>9 DEF Sound, Single
<1>11. \A j \in Inos \ handles : v.cache[j].ref_cnt > 0 => cache[j].ref_cnt > 0
  BY <1>6, <1>7, <1>8, FreeEntry
<1>12. Finish(v, "ok", told, handles) /\ "ok" \in Answers
  BY DEF u, v, Answers
<1>13. /\ TypeOK' /\ LoadedIsStored' /\ Releases
       /\ meta' = v.meta /\ objects' = v.objects /\ maxIno' = v.maxIno
       /\ known' = told /\ opened' = handles /\ status' = "ok"
  BY <1>5, <1>10, <1>11, <1>12, FinishSound
<1>. QED
  BY <1>5, <1>7, <1>8, <1>13 DEF LeftAs, Done

(* What is seen of an inode in hand.                                         *)
LEMMA SeenHeld ==
  ASSUME NEW t \in States, NEW j \in Inos, Held(t, j), Sized(t, j)
  PROVE  Seen(t.meta[j]) = [type |-> Reloaded(t.cache[j].type), size |-> Len(t.objects[j]),
                            n_link |-> t.cache[j].n_link]
BY DEF Seen, Held, Sized

-----------------------------------------------------------------------------
(* What an entry more and an entry less make of a directory.                 *)

Elems(o) == {o[k] : k \in DOMAIN o}

LEMMA AppendShaped ==
  ASSUME NEW p, NEW o, DirShaped(p, o), NEW n \in Names, NEW i \in Inos \ {Root},
         ~NamedIn(o, n)
  PROVE  /\ DirShaped(p, Append(o, [name |-> n, ino |-> i]))
         /\ Elems(Append(o, [name |-> n, ino |-> i])) = Elems(o) \cup {[name |-> n, ino |-> i]}
         /\ Append(o, [name |-> n, ino |-> i]) \in Seq(Record)
<1>. DEFINE e == [name |-> n, ino |-> i]
            q == Append(o, e)
<1>1. o \in Seq(Entry2) /\ Len(o) \in Nat /\ Len(o) >= Heads(p) /\ Heads(p) \in {1, 2}
  BY DEF DirShaped, Heads
<1>2. e \in Entry2 /\ e.name = n /\ e.ino = i
  BY DEF Entry2
<1>. HIDE DEF e
<1>3. /\ q \in Seq(Entry2) /\ Len(q) = Len(o) + 1
      /\ \A k \in 1 .. Len(o) : q[k] = o[k]
      /\ q[Len(o) + 1] = e
  BY <1>1, <1>2, AppendProperties
<1>. HIDE DEF q
<1>4. DOMAIN q = 1 .. Len(o) + 1 /\ DOMAIN o = 1 .. Len(o)
  BY <1>1, <1>3
<1>5. \A k \in 1 .. Len(o) + 1 : k \in 1 .. Len(o) \/ k = Len(o) + 1
  BY <1>1
<1>6. Distinct(q)
  <2>1. Distinct(o) /\ \A k \in 1 .. Len(o) : o[k].name # n
    BY <1>4 DEF DirShaped, NamedIn
  <2>. SUFFICES ASSUME NEW k \in DOMAIN q, NEW l \in DOMAIN q, q[k].name = q[l].name
                PROVE  k = l
    BY DEF Distinct
  <2>. QED
    BY <1>2, <1>3, <1>4, <1>5, <2>1 DEF Distinct
<1>7. DirShaped(p, q)
  <2>1. q[1] = [name |-> ".", ino |-> p] /\ (p # Root => q[2].name = "..")
    BY <1>1, <1>3 DEF DirShaped, Heads
  <2>2. \A k \in Heads(p) + 1 .. Len(q) : q[k].name \in Names /\ q[k].ino # Root
    <3>1. ASSUME NEW k \in Heads(p) + 1 .. Len(q)
          PROVE  q[k].name \in Names /\ q[k].ino # Root
      <4>1. CASE k = Len(o) + 1
        BY <1>2, <1>3, <4>1
      <4>2. CASE k # Len(o) + 1
        <5>1. k \in Heads(p) + 1 .. Len(o) /\ k \in 1 .. Len(o)
          BY <1>1, <1>3, <4>2
        <5>. QED
          BY <1>3, <5>1 DEF DirShaped
      <4>. QED
        BY <4>1, <4>2
    <3>. QED
      BY <3>1
  <2>. QED
    BY <1>1, <1>3, <1>6, <2>1, <2>2 DEF DirShaped
<1>8. Elems(q) = Elems(o) \cup {e}
  BY <1>3, <1>4, <1>5 DEF Elems
<1>9. q \in Seq(Record)
  <2>1. \A k \in 1 .. Len(q) : q[k] \in Record
    <3>1. \A k \in 1 .. Len(q) : q[k] \in Entry2
      BY <1>3
    <3>. QED
      BY <3>1 DEF Entry2, Record
  <2>2. q = [k \in 1 .. Len(q) |-> q[k]] /\ Len(q) \in Nat
    BY <1>3
  <2>. QED
    BY <2>1, <2>2
<1>. QED
  BY <1>7, <1>8, <1>9 DEF e, q

LEMMA WithoutShaped ==
  ASSUME NEW p, NEW o, DirShaped(p, o), NEW k \in Heads(p) + 1 .. Len(o)
  PROVE  /\ DirShaped(p, Without(o, k - 1, 1))
         /\ Elems(Without(o, k - 1, 1)) = Elems(o) \ {o[k]}
         /\ Without(o, k - 1, 1) \in Seq(Record)
<1>. DEFINE q == Without(o, k - 1, 1)
            at(l) == IF l <= k - 1 THEN l ELSE l + 1
<1>1. /\ o \in Seq(Entry2) /\ Len(o) \in Nat /\ Len(o) >= Heads(p) /\ Heads(p) \in {1, 2}
      /\ k \in Int /\ k > Heads(p) /\ k <= Len(o)
  BY DEF DirShaped, Heads
<1>2. /\ q \in Seq(Entry2) /\ Len(q) = Len(o) - 1
      /\ \A l \in 1 .. Len(o) - 1 : q[l] = o[at(l)]
  <2>1. k - 1 \in Nat /\ k - 1 + 1 <= Len(o) /\ 1 \in Nat
    BY <1>1
  <2>2. /\ q \in Seq(Entry2) /\ Len(q) = Len(o) - 1
        /\ \A l \in 1 .. Len(o) - 1 : q[l] = IF l <= k - 1 THEN o[l] ELSE o[l + 1]
    <3>. DEFINE off == k - 1
    <3>1. off \in Nat /\ off + 1 <= Len(o) /\ 1 \in Nat /\ o \in Seq(Entry2)
      BY <1>1, <2>1
    <3>. HIDE DEF off
    <3>2. /\ Without(o, off, 1) \in Seq(Entry2) /\ Len(Without(o, off, 1)) = Len(o) - 1
          /\ \A l \in 1 .. Len(o) - 1 :
               Without(o, off, 1)[l] = IF l <= off THEN o[l] ELSE o[l + 1]
      BY <3>1, WithoutFields
    <3>. QED
      BY <3>2 DEF off
  <2>. QED
    BY <2>2
<1>. HIDE DEF q
<1>3. DOMAIN q = 1 .. Len(o) - 1 /\ DOMAIN o = 1 .. Len(o)
  BY <1>1, <1>2
<1>4. \A l \in 1 .. Len(o) - 1 : at(l) \in 1 .. Len(o) /\ at(l) # k
  BY <1>1
<1>5. \A l, m \in 1 .. Len(o) - 1 : at(l) = at(m) => l = m
  BY <1>1
<1>6. \A l \in 1 .. Len(o) : l # k => \E m \in 1 .. Len(o) - 1 : at(m) = l
  <2>. SUFFICES ASSUME NEW l \in 1 .. Len(o), l # k
                PROVE  \E m \in 1 .. Len(o) - 1 : at(m) = l
    OBVIOUS
  <2>1. CASE l < k
    <3>1. l \in 1 .. Len(o) - 1 /\ at(l) = l
      BY <1>1, <2>1
    <3>. QED
      BY <3>1
  <2>2. CASE l > k
    <3>1. l - 1 \in 1 .. Len(o) - 1 /\ at(l - 1) = l
      BY <1>1, <2>2
    <3>. QED
      BY <3>1
  <2>. QED
    BY <1>1, <2>1, <2>2
<1>7. \A l \in Heads(p) + 1 .. Len(o) - 1 : at(l) \in Heads(p) + 1 .. Len(o)
  BY <1>1
<1>8. at(1) = 1 /\ (p # Root => at(2) = 2)
  BY <1>1 DEF Heads
<1>9. Distinct(o)
  BY DEF DirShaped
<1>. HIDE DEF at
<1>10. Distinct(q)
  BY <1>2, <1>3, <1>4, <1>5, <1>9 DEF Distinct
<1>11. DirShaped(p, q)
  <2>1. Len(q) >= Heads(p)
    BY <1>1, <1>2
  <2>2. q[1] = [name |-> ".", ino |-> p]
    BY <1>1, <1>2, <1>8 DEF DirShaped
  <2>3. p # Root => q[2].name = ".."
    <3>. SUFFICES ASSUME p # Root PROVE q[2].name = ".."
      OBVIOUS
    <3>1. 2 \in 1 .. Len(o) - 1
      BY <1>1 DEF Heads
    <3>. QED
      BY <1>2, <1>8, <3>1 DEF DirShaped
  <2>4. \A l \in Heads(p) + 1 .. Len(q) : q[l].name \in Names /\ q[l].ino # Root
    <3>1. \A l \in Heads(p) + 1 .. Len(o) - 1 : l \in 1 .. Len(o) - 1
      BY <1>1
    <3>. QED
      BY <1>2, <1>7, <3>1 DEF DirShaped
  <2>. QED
    BY <1>2, <1>10, <2>1, <2>2, <2>3, <2>4 DEF DirShaped
<1>12. Elems(q) = Elems(o) \ {o[k]}
  <2>1. ASSUME NEW l \in 1 .. Len(o), l # k
        PROVE  o[l] # o[k]
    BY <1>1, <1>3, <1>9, <2>1 DEF Distinct
  <2>2. Elems(q) \subseteq Elems(o) \ {o[k]}
    BY <1>2, <1>3, <1>4, <2>1 DEF Elems
  <2>3. Elems(o) \ {o[k]} \subseteq Elems(q)
    <3>. SUFFICES ASSUME NEW e \in Elems(o), e # o[k]
                  PROVE  e \in Elems(q)
      OBVIOUS
    <3>1. PICK l \in 1 .. Len(o) : e = o[l]
      BY <1>3 DEF Elems
    <3>2. PICK m \in 1 .. Len(o) - 1 : at(m) = l
      BY <1>6, <3>1
    <3>3. q[m] = e /\ m \in DOMAIN q
      BY <1>2, <1>3, <3>1, <3>2
    <3>. QED
      BY <3>3 DEF Elems
  <2>. QED
    BY <2>2, <2>3
<1>13. q \in Seq(Record)
  <2>1. \A l \in 1 .. Len(q) : q[l] \in Record
    <3>1. \A l \in 1 .. Len(q) : q[l] \in Entry2
      BY <1>2
    <3>. QED
      BY <3>1 DEF Entry2, Record
  <2>2. q = [l \in 1 .. Len(q) |-> q[l]] /\ Len(q) \in Nat
    BY <1>2
  <2>. QED
    BY <2>1, <2>2
<1>. QED
  BY <1>11, <1>12, <1>13 DEF q

(* A new directory.                                                          *)
NewDirectory(i, p) == <<[name |-> ".", ino |-> i], [name |-> "..", ino |-> p]>>

LEMMA NewShaped ==
  ASSUME NEW i \in Inos \ {Root}, NEW p \in Inos
  PROVE  /\ DirShaped(i, NewDirectory(i, p))
         /\ NewDirectory(i, p) \in Seq(Record)
         /\ Elems(NewDirectory(i, p)) = {[name |-> ".", ino |-> i], [name |-> "..", ino |-> p]}
         /\ Len(NewDirectory(i, p)) = 2
<1>. DEFINE a == [name |-> ".", ino |-> i]
            b == [name |-> "..", ino |-> p]
            q == <<a, b>>
<1>1. a \in Entry2 /\ b \in Entry2 /\ a \in Record /\ b \in Record
  BY DEF Entry2, Record
<1>2. a.name = "." /\ b.name = ".."
  OBVIOUS
<1>. HIDE DEF a, b
<1>3. q \in Seq(Entry2) /\ q \in Seq(Record) /\ Len(q) = 2 /\ q[1] = a /\ q[2] = b
      /\ DOMAIN q = 1 .. 2
  BY <1>1
<1>. HIDE DEF q
<1>4. Heads(i) = 2 /\ Heads(i) + 1 .. Len(q) = {}
  BY <1>3 DEF Heads
<1>5. Distinct(q)
  BY <1>2, <1>3 DEF Distinct
<1>6. Elems(q) = {a, b}
  BY <1>3 DEF Elems
<1>7. q[1] = [name |-> ".", ino |-> i]
  BY <1>3 DEF a
<1>8. DirShaped(i, q)
  BY <1>2, <1>3, <1>4, <1>5, <1>7 DEF DirShaped
<1>. QED
  BY <1>3, <1>6, <1>8 DEF NewDirectory, a, b, q

-----------------------------------------------------------------------------
(* What the handlers that change the tree do to it.                          *)

(* j exists and is linked as before; so does everything outside of X, with   *)
(* what it holds.                                                            *)
Kept(j) ==
  /\ Exists(j)' <=> Exists(j)
  /\ j \in Dirs' <=> j \in Dirs
  /\ Exists(j) => meta'[j].n_link = meta[j].n_link

Alone(X) == \A j \in Inos \ X : Kept(j) /\ objects'[j] = objects[j]

(* A file, neither made nor removed, has another size.                       *)
Resized(i) ==
  /\ i \in Inos \ Dirs /\ Exists(i) /\ Kept(i) /\ Alone({i}) /\ UNCHANGED maxIno
  /\ \/ Len(objects'[i]) = Len(objects[i]) + 1
     \/ Len(objects'[i]) <= Len(objects[i]) /\ Len(objects'[i]) \in 0 .. MaxSize
     \/ Len(objects'[i]) = Len(objects[i])

LEMMA SeenKept ==
  ASSUME TypeOK, TypeOK', NEW j \in Inos, Seen(meta'[j]) = Seen(meta[j])
  PROVE  Kept(j)
<1>1. meta[j] \in Meta \cup {None} /\ meta'[j] \in Meta \cup {None}
  BY DEF TypeOK
<1>2. /\ meta'[j] = None <=> meta[j] = None
      /\ meta'[j] # None => /\ meta'[j].n_link = meta[j].n_link
                            /\ meta'[j].type = "directory" <=> meta[j].type = "directory"
  BY <1>1, SeenTells
<1>. QED
  BY <1>2 DEF Kept, Exists, Dirs

(* An inode in hand at the end is stored as it is loaded.                    *)
LEMMA HeldStored ==
  ASSUME NEW t \in States, NEW j \in Inos, Held(t, j), meta' = t.meta
  PROVE  /\ Exists(j)' /\ meta'[j].n_link = t.cache[j].n_link
         /\ j \in Dirs' <=> t.cache[j].type = "directory"
<1>1. t.meta[j] # None /\ t.meta[j].n_link = t.cache[j].n_link
      /\ Reloaded(t.cache[j].type) = Reloaded(t.meta[j].type)
  BY DEF Held
<1>2. t.cache[j].type \in Types /\ t.meta[j].type \in Types
  BY <1>1 DEF States, Entry, Meta
<1>3. t.meta[j].type = "directory" <=> t.cache[j].type = "directory"
  BY <1>1, <1>2, DirectoryType
<1>. QED
  BY <1>1, <1>3 DEF Exists, Dirs

LEMMA HeldKept ==
  ASSUME Base, NEW s, NEW X, Steady(s, X), s.status = "ok", NEW j \in Inos, Found(s, j),
         NEW t \in States, Held(t, j), meta' = t.meta, Alike(t.cache[j], s.cache[j])
  PROVE  Kept(j)
<1>1. /\ Exists(j) /\ s.cache[j].n_link = meta[j].n_link
      /\ s.cache[j].type = "directory" <=> j \in Dirs
  BY FoundIs
<1>2. t.cache[j].type = s.cache[j].type /\ t.cache[j].n_link = s.cache[j].n_link
  BY DEF Alike
<1>3. /\ Exists(j)' /\ meta'[j].n_link = t.cache[j].n_link
      /\ j \in Dirs' <=> t.cache[j].type = "directory"
  BY HeldStored
<1>. QED
  BY <1>1, <1>2, <1>3 DEF Kept

LEMMA PutTwice ==
  ASSUME NEW t \in States, NEW i \in Inos, t.cache[i].ref_cnt <= 1
  PROVE  Put(Put(t, i), i) = Put(t, i)
<1>. DEFINE u == Put(t, i)
<1>1. u = [t EXCEPT !.cache[i] = Free] /\ u \in States
  BY PutDrops
<1>. HIDE DEF u
<1>2. u.cache[i] = Free /\ u.cache[i].ref_cnt <= 1
  BY <1>1, FreeEntry DEF States
<1>3. Put(u, i) = [u EXCEPT !.cache[i] = Free]
  BY <1>1, <1>2, PutDrops
<1>4. [u EXCEPT !.cache[i] = Free] = u
  <2>1. u.cache = [u.cache EXCEPT ![i] = Free]
    BY <1>1, <1>2 DEF States
  <2>2. [u EXCEPT !.cache[i] = Free] = [u EXCEPT !.cache = [u.cache EXCEPT ![i] = Free]]
    OBVIOUS
  <2>3. [u EXCEPT !.cache = u.cache] = u
    BY <1>1 DEF States
  <2>. QED
    BY <2>1, <2>2, <2>3
<1>. QED
  BY <1>3, <1>4 DEF u

(* The kernel keeps in mind what it knew, and what it is told.               *)
LEMMA ToldSame ==
  ASSUME Base, Dirs' = Dirs, UNCHANGED maxIno, NEW told, Told(told), known' = told,
         opened' \subseteq opened, \A j \in Inos : Exists(j)' => Exists(j)
  PROVE  Fresh' /\ KnownTyped'
<1>1. Fresh'
  <2>. SUFFICES ASSUME NEW j \in Inos, j > maxIno'
                PROVE  ~Exists(j)' /\ known'[j] = None /\ j \notin opened'
    BY DEF Fresh
  <2>1. ~Exists(j) /\ known[j] = None /\ j \notin opened
    BY DEF Base, Fresh
  <2>. QED
    BY <2>1 DEF Told
<1>2. KnownTyped'
  <2>1. Root \in Dirs /\ Exists(Root) /\ Root \in Inos
    BY RootIno DEF Base, KnownTyped, Dirs
  <2>2. told[Root] = "directory"
    BY <2>1 DEF Told, Base, KnownTyped
  <2>3. ASSUME NEW j \in Inos
        PROVE  /\ told[j] = "directory" => j \in Dirs
               /\ told[j] \notin {None, "directory"} => j \notin Dirs
               /\ j \in opened' /\ Exists(j) => told[j] # None
    <3>1. None # "directory"
      BY NothingAssumption DEF Types
    <3>. QED
      BY <3>1 DEF Told, Base, KnownTyped
  <2>. QED
    BY <2>2, <2>3 DEF KnownTyped
<1>. QED
  BY <1>1, <1>2

(* A handler that has given one inode other records.                         *)
LEMMA RecordsDone ==
  ASSUME Base, Running, NEW i \in Inos \ Dirs, NEW s, Steady(s, {i}), s.status = "ok",
         Found(s, i), NEW o \in Seq(Record), NEW told, Told(told),
         Finish(Put(SetObject(s, i, o), i), "ok", told, opened)
  PROVE  /\ Base' /\ Done
         /\ Kept(i) /\ Alone({i}) /\ UNCHANGED maxIno /\ Exists(i) /\ objects'[i] = o
<1>. DEFINE t == SetObject(s, i, o)
<1>1. /\ s \in States /\ Held(s, i) /\ Sized(s, i) /\ Exists(i) /\ s.maxIno = maxIno
      /\ s.cache[i].ref_cnt = 1 /\ i \in Inos
  BY FoundIs DEF Steady
<1>2. Rewritten(s, i, o, t)
  BY <1>1, SetObjectFields
<1>. HIDE DEF t
<1>3. /\ Only({i}, s, t) /\ Held(t, i) /\ Sized(t, i) /\ t.objects[i] = o
      /\ t.maxIno = s.maxIno /\ t.cache[i] = [s.cache[i] EXCEPT !.size = Len(o)]
      /\ t \in States
  BY <1>2 DEF Rewritten, Only
<1>4. Alike(t.cache[i], s.cache[i]) /\ t.cache[i].ref_cnt <= 1
  <2>1. s.cache[i] \in Entry
    BY <1>1 DEF States
  <2>. QED
    BY <1>1, <1>3, <2>1 DEF Alike, Entry
<1>5. Finish(Put(Put(t, i), i), "ok", told, opened)
  BY <1>1, <1>3, <1>4, PutTwice DEF t
<1>6. {i, i} = {i} /\ told \in [Inos -> Types \cup {None}] /\ opened \in SUBSET Inos
  BY DEF Told, Base, TypeOK
<1>7. /\ Done /\ meta' = t.meta /\ objects' = t.objects /\ maxIno' = t.maxIno
      /\ known' = told /\ opened' = opened
      /\ \A j \in Inos \ {i} : objects'[j] = objects[j] /\ Seen(meta'[j]) = Seen(meta[j])
  <2>1. Steady(s, {i, i}) /\ Only({i, i}, s, t)
    BY <1>3, <1>6
  <2>. QED
    <3>1. LeftAs(i, i, t, told, opened)
      BY <1>1, <1>3, <1>4, <1>5, <1>6, <2>1, FinishBoth
    <3>. QED
      BY <3>1, <1>6 DEF LeftAs
<1>8. Kept(i)
  BY <1>1, <1>3, <1>4, <1>7, HeldKept
<1>9. Alone({i})
  BY <1>7, SeenKept DEF Alone, Base, Done
<1>10. Dirs' = Dirs /\ \A j \in Inos : Exists(j)' => Exists(j)
  <2>1. \A j \in Inos : Kept(j)
    BY <1>8, <1>9 DEF Alone
  <2>2. Dirs \subseteq Inos /\ Dirs' \subseteq Inos
    BY DEF Dirs
  <2>. QED
    BY <2>1, <2>2 DEF Kept
<1>11. Fresh' /\ KnownTyped'
  BY <1>1, <1>3, <1>7, <1>10, ToldSame
<1>12. DirsShaped'
  <2>1. \A p \in Dirs : p \in Inos \ {i}
    BY DEF Dirs
  <2>. QED
    BY <1>7, <1>10, <2>1 DEF DirsShaped, Base
<1>. QED
  BY <1>1, <1>3, <1>7, <1>8, <1>9, <1>11, <1>12 DEF Base, Done

(* What is not a directory to the kernel is none.                            *)
LEMMA NotDirectory ==
  ASSUME Base, NEW i \in Inos, i \in opened \/ i \in Known, i \notin Directories
  PROVE  i \notin Dirs
BY DEF Base, KnownTyped, Known, Directories, Dirs

(* A handler either leaves the tree alone or changes it as it says.          *)
LEMMA WriteDone ==
  ASSUME Base, NEW i \in Inos, NEW off \in Nat, Write(i, off)
  PROVE  Calm \/ (Base' /\ Done /\ Resized(i))
<1>. DEFINE s == Get(Now, i)
<1>1. Running /\ Steady(s, {i}) /\ (Found(s, i) => s.status = "ok") /\ i \in Inos \ Dirs
  BY OneLoaded, NotDirectory DEF Write
<1>2. CASE Fail(s)
  BY <1>1, <1>2, FailQuiet
<1>3. CASE /\ Found(s, i) /\ off <= s.cache[i].size
           /\ Succeed(Put(WriteInode(s, i, off, <<Byte>>), i))
  <2>. DEFINE o == objects[i]
              q == Spliced(o, off, <<Byte>>)
  <2>1. /\ s \in States /\ Held(s, i) /\ s.objects[i] = o /\ s.cache[i].size = Len(o)
        /\ Exists(i)
    BY <1>1, <1>3, FoundIs
  <2>2. o \in Seq(Record) /\ Len(o) \in Nat /\ Byte \in Record
    BY <2>1 DEF States, Record
  <2>. HIDE DEF s, o
  <2>3. off <= Len(o)
    BY <1>3, <2>1
  <2>4. WriteInode(s, i, off, <<Byte>>) = SetObject(s, i, q)
    BY <2>1, <2>3, WriteInodeIs
  <2>5. q \in Seq(Record) /\ Len(q) \in {Len(o), Len(o) + 1}
    <3>1. CASE off = Len(o)
      <4>1. q = Append(o, Byte)
        BY <2>2, <3>1, SplicedEnd
      <4>2. Append(o, Byte) \in Seq(Record) /\ Len(Append(o, Byte)) = Len(o) + 1
        BY <2>2, AppendProperties
      <4>. QED
        BY <4>1, <4>2
    <3>2. CASE off < Len(o)
      BY <2>2, <3>2, SplicedInside
    <3>. QED
      BY <2>2, <2>3, <3>1, <3>2
  <2>. HIDE DEF q
  <2>6. Told(known)
    BY DEF Base, TypeOK, Told
  <2>7. Finish(Put(SetObject(s, i, q), i), "ok", known, opened)
    BY <1>3, <2>4 DEF Succeed
  <2>8. /\ Base' /\ Done
        /\ Kept(i) /\ Alone({i}) /\ UNCHANGED maxIno /\ Exists(i) /\ objects'[i] = q
    BY <1>1, <1>3, <2>5, <2>6, <2>7, RecordsDone
  <2>. QED
    BY <1>1, <2>5, <2>8 DEF Resized, o
<1>. QED
  BY <1>2, <1>3 DEF Write

LEMMA SetSizeDone ==
  ASSUME Base, NEW i \in Inos, NEW size \in 0 .. MaxSize, SetSize(i, size)
  PROVE  Calm \/ (Base' /\ Done /\ Resized(i))
<1>. DEFINE s == Get(Now, i)
            c == s.cache[i]
            t == IF size <= c.size THEN TruncateInode(s, i, size, c.size - size)
                 ELSE IF OverflowChecks THEN Panic(s, "overflow")
                 ELSE SetObject(Asserted(s, i), i, s.objects[i])
<1>1. Running /\ Steady(s, {i}) /\ (Found(s, i) => s.status = "ok") /\ i \in Inos \ Dirs
  <2>1. "file" # "directory" /\ "file" # None
    BY NothingAssumption DEF Types
  <2>. QED
    BY <2>1, OneLoaded, NotDirectory DEF SetSize, Known, Directories
<1>2. CASE Fail(s)
  BY <1>1, <1>2, FailQuiet
<1>3. CASE Found(s, i) /\ Finish(Put(t, i), "ok", Attr(t, i), opened)
  <2>. DEFINE o == objects[i]
  <2>1. /\ s \in States /\ Held(s, i) /\ s.objects[i] = o /\ c.size = Len(o)
        /\ Exists(i) /\ Asserted(s, i) = s /\ s.status = "ok"
    BY <1>1, <1>3, FoundIs
  <2>2. o \in Seq(Record) /\ Len(o) \in Nat /\ size \in Nat /\ MaxSize \in Nat
    BY <2>1, NamespaceAssumption DEF States
  <2>3. ASSUME NEW q \in Seq(Record), t = SetObject(s, i, q),
               \/ Len(q) <= Len(o) /\ Len(q) \in 0 .. MaxSize
               \/ Len(q) = Len(o)
        PROVE  Base' /\ Done /\ Resized(i)
    <3>. HIDE DEF t, s, c, o
    <3>1. Rewritten(s, i, q, SetObject(s, i, q))
      BY <2>1, SetObjectFields
    <3>2. /\ t.cache[i] = [s.cache[i] EXCEPT !.size = Len(q)] /\ s.cache[i] \in Entry
      BY <2>1, <2>3, <3>1 DEF Rewritten, States
    <3>3. t.cache[i].type = s.cache[i].type
      BY <3>2 DEF Entry
    <3>4. Attr(t, i) = Attr(s, i)
      BY <3>3 DEF Attr
    <3>5. Told(Attr(s, i))
      BY <1>1, <1>3, AttrTold
    <3>6. Finish(Put(SetObject(s, i, q), i), "ok", Attr(s, i), opened)
      BY <1>3, <2>3, <3>4
    <3>7. /\ Base' /\ Done
          /\ Kept(i) /\ Alone({i}) /\ UNCHANGED maxIno /\ Exists(i) /\ objects'[i] = q
      BY <1>1, <1>3, <2>1, <3>5, <3>6, RecordsDone
    <3>. QED
      BY <1>1, <2>3, <3>7 DEF Resized, o
  <2>4. CASE size <= c.size
    <3>. DEFINE len == Len(o) - size
                q == IF len = 0 THEN <<>> ELSE Without(o, size, len)
    <3>1. t = SetObject(s, i, q)
      <4>. HIDE DEF s
      <4>. QED
        BY <2>1, <2>4, TruncateInodeIs
    <3>2. /\ q \in Seq(Record) /\ Len(q) <= Len(o) /\ Len(q) \in 0 .. MaxSize
      <4>1. CASE len = 0
        BY <2>2, <4>1, EmptySeq
      <4>2. CASE len # 0
        <5>1. len \in Nat /\ size + len <= Len(o) /\ Len(o) - len = size
          BY <2>1, <2>2, <2>4, <4>2
        <5>. HIDE DEF len, o, s, c
        <5>2. Without(o, size, len) \in Seq(Record) /\ Len(Without(o, size, len)) = size
          <6>1. o \in Seq(Record) /\ size \in Nat /\ len \in Nat /\ size + len <= Len(o)
            BY <2>2, <5>1
          <6>2. /\ Without(o, size, len) \in Seq(Record)
                /\ Len(Without(o, size, len)) = Len(o) - len
            BY <6>1, WithoutFields
          <6>. QED
            BY <5>1, <6>2
        <5>3. size <= Len(o)
          BY <2>1, <2>4
        <5>. QED
          BY <2>2, <4>2, <5>2, <5>3
      <4>. QED
        BY <4>1, <4>2
    <3>. HIDE DEF q, t
    <3>. QED
      BY <2>3, <3>1, <3>2
  <2>5. CASE ~(size <= c.size) /\ OverflowChecks
    <3>1. t = Panic(s, "overflow")
      BY <2>5
    <3>2. t.status = "overflow" /\ t \in States
      <4>. HIDE DEF s
      <4>. QED
        BY <2>1, <3>1 DEF Panic, States, Statuses
    <3>. HIDE DEF t
    <3>3. Put(t, i).status = "overflow"
      BY <3>2 DEF Put, States
    <3>4. Base' /\ Quiet /\ Releases /\ status' = "overflow"
      BY <1>3, <3>3, FinishPanicked DEF Statuses
    <3>. QED
      BY <3>4 DEF Calm, Unmissed
  <2>6. CASE ~(size <= c.size) /\ ~OverflowChecks
    <3>1. t = SetObject(s, i, o)
      BY <2>1, <2>6
    <3>. HIDE DEF t
    <3>. QED
      BY <2>2, <2>3, <3>1
  <2>. QED
    BY <2>4, <2>5, <2>6
<1>. QED
  BY <1>2, <1>3 DEF SetSize

-----------------------------------------------------------------------------
(* Removing a name.                                                          *)

LEMMA BothLoaded ==
  ASSUME Base, Running, NEW p \in Inos, NEW i \in Inos, Found(Get(Now, p), p)
  PROVE  /\ Steady(Get(Now, p), {p}) /\ Get(Now, p).status = "ok"
         /\ Steady(Get(Get(Now, p), i), {p, i})
         /\ Found(Get(Get(Now, p), i), i) => /\ Get(Get(Now, p), i).status = "ok"
                                             /\ Found(Get(Get(Now, p), i), p)
<1>. DEFINE s == Get(Now, p)
            t == Get(s, i)
<1>1. Steady(s, {p}) /\ s.status = "ok"
  BY OneLoaded
<1>. HIDE DEF s
<1>2. Steady(t, {p} \cup {i}) /\ {p} \cup {i} = {p, i}
  BY <1>1, GetSteady
<1>3. s \in States /\ Sound(s)
  BY <1>1 DEF Steady
<1>4. ASSUME Found(t, i)
      PROVE  t.status = "ok" /\ Found(t, p)
  <2>1. t.status = "ok"
    BY <1>1, <1>3, <1>4, GetFound
  <2>2. t.cache[p] = s.cache[p]
    BY <1>1, <1>3, <2>1, GetSound DEF s
  <2>. QED
    BY <2>1, <2>2 DEF Found, s
<1>. QED
  BY <1>1, <1>2, <1>4 DEF s

LEMMA Begins ==
  ASSUME Base, NEW s, NEW X, Steady(s, X), s.status = "ok",
         NEW p \in Inos, NEW i \in Inos, Found(s, p), Found(s, i)
  PROVE  Working(s, s, p, i)
BY FoundIs DEF Working, Only

(* modify_stat of the directory, and dir_unlink.                             *)
CutFrom(s, b, p, i, k) ==
  /\ Working(s, b, p, i) /\ b.maxIno = s.maxIno
  /\ b.objects[p] = Without(objects[p], k - 1, 1) /\ b.objects[i] = objects[i]
  /\ Alike(b.cache[p], s.cache[p]) /\ Alike(b.cache[i], s.cache[i])

LEMMA EntryCut ==
  ASSUME Base, NEW s, NEW X, Steady(s, X), s.status = "ok",
         NEW p \in Inos \cap Dirs, NEW i \in Inos \ {p}, Found(s, p), Found(s, i),
         NEW n \in Names, NEW k \in Heads(p) + 1 .. Len(objects[p]),
         objects[p][k] = [name |-> n, ino |-> i]
  PROVE  CutFrom(s, DirUnlink(ModifyStat(s, p, s.cache[p]), p, n), p, i, k)
<1>. DEFINE a == ModifyStat(s, p, s.cache[p])
            b == DirUnlink(a, p, n)
            o == objects[p]
            q == Without(o, k - 1, 1)
<1>1. /\ Working(s, s, p, i) /\ s.cache[p] \in Entry /\ s.cache[p].valid /\ s.objects = objects
      /\ s.cache[p].type = "directory" <=> p \in Dirs
  <2>1. Working(s, s, p, i)
    BY Begins
  <2>2. /\ s.cache[p] \in Entry /\ s.cache[p].valid
        /\ s.cache[p].type = "directory" <=> p \in Dirs
    BY FoundIs
  <2>3. s.objects = objects
    BY DEF Steady
  <2>. QED
    BY <2>1, <2>2, <2>3
<1>2. /\ Working(s, a, p, i) /\ a.maxIno = s.maxIno /\ a.objects = s.objects
      /\ a.cache[p] = s.cache[p] /\ a.cache[i] = s.cache[i]
  <2>1. p \in {p, i} /\ s.cache[p].size = s.cache[p].size
    OBVIOUS
  <2>2. Restated(s, s, p, i, p, s.cache[p], a)
    BY <1>1, <2>1, ModifyStatWorks
  <2>. HIDE DEF a
  <2>. QED
    BY <2>2 DEF Restated
<1>. HIDE DEF a
<1>3. a \in States /\ Held(a, p) /\ Sized(a, p)
  BY <1>2 DEF Working, Only
<1>4. DirShaped(p, o)
  BY DEF Base, DirsShaped
<1>5. Distinct(o) /\ k \in DOMAIN o /\ NamedIn(o, n)
  <2>1. o \in Seq(Entry2) /\ Distinct(o) /\ k \in DOMAIN o
    BY <1>4 DEF DirShaped, Heads
  <2>. QED
    BY <2>1 DEF NamedIn
<1>6. a.objects[p] = o /\ a.cache[p].type = "directory"
  BY <1>1, <1>2
<1>7. Place(a, p, n) \in DOMAIN o /\ o[Place(a, p, n)].name = n
  <2>1. Place(a, p, n) \in 1 .. Len(o) /\ o[Place(a, p, n)].name = n
    BY <1>3, <1>5, <1>6, PlaceIs
  <2>. QED
    BY <1>4, <2>1 DEF DirShaped
<1>8. Place(a, p, n) = k
  BY <1>5, <1>7 DEF Distinct
<1>9. b = SetObject(a, p, q)
  BY <1>3, <1>5, <1>6, <1>8, DirUnlinkIs
<1>10. q \in Seq(Record)
  BY <1>4, WithoutShaped
<1>. HIDE DEF b, q
<1>11. /\ Working(s, b, p, i) /\ b.maxIno = a.maxIno /\ b.objects[p] = q
       /\ \A j \in {p, i} \ {p} : b.objects[j] = a.objects[j]
       /\ \A j \in {p, i} : Alike(b.cache[j], a.cache[j])
  <2>1. p \in {p, i}
    OBVIOUS
  <2>2. Recorded(s, a, p, i, p, q, b)
    BY <1>2, <1>9, <1>10, <2>1, SetObjectWorks
  <2>. QED
    BY <2>2 DEF Recorded
<1>. QED
  <2>1. p \in {p, i} /\ i \in {p, i} \ {p}
    OBVIOUS
  <2>2. /\ b.maxIno = s.maxIno /\ b.objects[p] = q /\ b.objects[i] = objects[i]
        /\ Alike(b.cache[p], s.cache[p]) /\ Alike(b.cache[i], s.cache[i])
    BY <1>1, <1>2, <1>11, <2>1
  <2>. QED
    BY <1>11, <2>2 DEF CutFrom, a, b, q

(* A name of a file is removed, and the file with its last one.              *)
Unlinked(p, n, i) ==
  /\ p \in Dirs /\ n \in Names /\ i \in Inos \ Dirs /\ Exists(i)
  /\ Kept(p) /\ Alone({p, i}) /\ UNCHANGED maxIno
  /\ \E k \in Heads(p) + 1 .. Len(objects[p]) :
       /\ objects[p][k] = [name |-> n, ino |-> i]
       /\ objects'[p] = Without(objects[p], k - 1, 1)
  /\ i \notin Dirs'
  /\ OverflowChecks => meta[i].n_link > 0
  /\ \/ meta[i].n_link = 1 /\ ~Exists(i)' /\ objects'[i] = <<>>
     \/ /\ meta[i].n_link # 1 /\ Exists(i)' /\ objects'[i] = objects[i]
        /\ meta[i].n_link > 0 => meta'[i].n_link = meta[i].n_link - 1

(* An empty directory is removed.                                            *)
Removed(p, n, i) ==
  /\ p \in Dirs /\ n \in Names /\ i \in Dirs \ {Root, p} /\ Len(objects[i]) <= 2
  /\ Kept(p) /\ Alone({p, i}) /\ UNCHANGED maxIno
  /\ \E k \in Heads(p) + 1 .. Len(objects[p]) :
       /\ objects[p][k] = [name |-> n, ino |-> i]
       /\ objects'[p] = Without(objects[p], k - 1, 1)
  /\ ~Exists(i)' /\ objects'[i] = <<>>

LEMMA LessOne ==
  ASSUME NEW l \in 0 .. LinkMax
  PROVE  /\ (l - 1) % (LinkMax + 1) \in 0 .. LinkMax
         /\ (l - 1) % (LinkMax + 1) = 0 <=> l = 1
         /\ l > 0 => (l - 1) % (LinkMax + 1) = l - 1
<1>1. LinkMax \in Nat /\ LinkMax > 1
  BY NamespaceAssumption
<1>2. CASE l = 0
  <2>1. (0 - 1) % (LinkMax + 1) = LinkMax
    BY <1>1
  <2>. QED
    BY <1>1, <1>2, <2>1
<1>3. CASE l > 0
  BY <1>1, <1>3
<1>. QED
  BY <1>1, <1>2, <1>3

(* unlink: the counted link, and the inode with the last of them.            *)
LinkGone(s, t, p, i, k) ==
  /\ Only({p, i}, s, t) /\ t.maxIno = s.maxIno
  /\ Held(t, p) /\ Sized(t, p) /\ Sized(t, i)
  /\ Alike(t.cache[p], s.cache[p]) /\ t.cache[i].ref_cnt <= 1
  /\ t.objects[p] = Without(objects[p], k - 1, 1)
  /\ OverflowChecks => meta[i].n_link > 0
  /\ \/ meta[i].n_link = 1 /\ t.meta[i] = None /\ t.objects[i] = <<>>
     \/ /\ meta[i].n_link # 1 /\ Held(t, i) /\ t.objects[i] = objects[i]
        /\ t.cache[i].type = s.cache[i].type
        /\ t.cache[i].n_link = (meta[i].n_link - 1) % (LinkMax + 1)

LEMMA PanicFields ==
  ASSUME NEW s \in States, s.status = "ok", NEW why \in Statuses \ {"ok"}
  PROVE  /\ Panic(s, why) \in States /\ Panic(s, why).status = why
         /\ Panic(s, why).meta = s.meta /\ Panic(s, why).objects = s.objects
         /\ Panic(s, why).cache = s.cache /\ Panic(s, why).maxIno = s.maxIno
BY DEF Panic, States

LEMMA PutStatus ==
  ASSUME NEW s \in States, NEW i \in Inos
  PROVE  Put(s, i) \in States /\ Put(s, i).status = s.status
<1>1. CASE s.cache[i].ref_cnt > 1
  <2>. DEFINE c == [s.cache[i] EXCEPT !.ref_cnt = @ - 1]
  <2>1. s.cache[i] \in Entry
    BY DEF States
  <2>2. c \in Entry
    BY <1>1, <2>1 DEF Entry
  <2>3. Put(s, i) = [s EXCEPT !.cache[i] = c]
    BY <1>1 DEF Put
  <2>. HIDE DEF c
  <2>4. Reentered(s, i, c, Put(s, i))
    BY <2>2, <2>3, EntryTyped
  <2>. QED
    BY <2>4 DEF Reentered
<1>2. CASE ~(s.cache[i].ref_cnt > 1)
  BY <1>2, FreeEntry DEF Put, States
<1>. QED
  BY <1>1, <1>2

LEMMA RemoveLinkIs ==
  ASSUME Base, NEW s, NEW p \in Inos \cap Dirs, NEW i \in Inos \ Dirs,
         Steady(s, {p, i}), s.status = "ok", Found(s, p), Found(s, i),
         NEW n \in Names, NEW k \in Heads(p) + 1 .. Len(objects[p]),
         objects[p][k] = [name |-> n, ino |-> i]
  PROVE  LET t == RemoveLink(s, p, n, i)
         IN  t \in States /\ (t.status = "overflow" \/ LinkGone(s, t, p, i, k))
<1>. DEFINE b == DirUnlink(ModifyStat(s, p, s.cache[p]), p, n)
            c == b.cache[i]
            e == [c EXCEPT !.n_link = (@ - 1) % (LinkMax + 1)]
            d == IF c.n_link = 0 /\ OverflowChecks THEN Panic(b, "overflow")
                 ELSE ModifyStat(b, i, e)
            t == IF d.cache[i].n_link = 0 THEN DeleteInode(d, i) ELSE d
<1>0. i # p /\ t = RemoveLink(s, p, n, i)
  BY DEF RemoveLink
<1>1. CutFrom(s, b, p, i, k)
  BY <1>0, EntryCut
<1>. HIDE DEF b
<1>2. /\ Working(s, b, p, i) /\ b \in States /\ b.status = "ok" /\ Held(b, i) /\ Sized(b, i)
      /\ b.maxIno = s.maxIno /\ b.objects[i] = objects[i]
      /\ b.objects[p] = Without(objects[p], k - 1, 1) /\ c \in Entry /\ Only({p, i}, s, b)
  BY <1>1 DEF CutFrom, Working, Only, States
<1>3. /\ s.cache[i].n_link = meta[i].n_link /\ s.cache[i].ref_cnt = 1
      /\ s.cache[p].ref_cnt = 1 /\ s.cache[i].valid
  BY FoundIs
<1>4. /\ c.n_link = meta[i].n_link /\ c.ref_cnt = 1 /\ c.type = s.cache[i].type /\ c.valid
      /\ c.n_link \in 0 .. LinkMax
  BY <1>1, <1>2, <1>3 DEF CutFrom, Alike, Entry
<1>5. CASE c.n_link = 0 /\ OverflowChecks
  <2>1. d = Panic(b, "overflow")
    BY <1>5
  <2>. HIDE DEF d, c
  <2>2. d \in States /\ d.status = "overflow" /\ d.meta = b.meta /\ d.cache = b.cache
        /\ d.objects = b.objects
    BY <1>2, <2>1, PanicFields DEF Statuses
  <2>3. Held(d, i)
    BY <1>2, <2>2 DEF Held
  <2>4. t \in States /\ t.status = "overflow"
    BY <2>2, <2>3, DeleteInodeFields DEF Only
  <2>. QED
    BY <1>0, <2>4
<1>6. CASE ~(c.n_link = 0 /\ OverflowChecks)
  <2>1. d = ModifyStat(b, i, e)
    BY <1>6
  <2>2. /\ e \in Entry /\ e.valid /\ e.size = c.size /\ e.type = c.type /\ e.ref_cnt = 1
        /\ e.n_link = (c.n_link - 1) % (LinkMax + 1)
    <3>1. (c.n_link - 1) % (LinkMax + 1) \in 0 .. LinkMax
      BY <1>4, LessOne
    <3>. HIDE DEF c
    <3>. QED
      BY <1>2, <1>4, <3>1 DEF Entry
  <2>. HIDE DEF e, d
  <2>3. Restated(s, b, p, i, i, e, d)
    <3>1. i \in {p, i}
      OBVIOUS
    <3>. QED
      BY <1>2, <2>1, <2>2, <3>1, ModifyStatWorks
  <2>4. /\ Working(s, d, p, i) /\ d.maxIno = s.maxIno /\ d.objects = b.objects
        /\ d.cache[i] = e /\ d.cache[p] = b.cache[p] /\ d \in States
        /\ Held(d, p) /\ Sized(d, p) /\ Held(d, i) /\ Sized(d, i) /\ Only({p, i}, s, d)
    BY <1>0, <1>2, <2>3 DEF Restated, Working, Only
  <2>5. Alike(d.cache[p], s.cache[p])
    BY <1>1, <2>4 DEF CutFrom
  <2>6. OverflowChecks => meta[i].n_link > 0
    BY <1>4, <1>6
  <2>7. CASE e.n_link # 0
    <3>1. t = d
      BY <2>4, <2>7
    <3>2. meta[i].n_link # 1
      BY <1>4, <2>2, <2>7, LessOne
    <3>. QED
      BY <1>0, <1>2, <1>4, <2>2, <2>4, <2>5, <2>6, <3>1, <3>2 DEF LinkGone
  <2>8. CASE e.n_link = 0
    <3>1. t = DeleteInode(d, i)
      BY <2>4, <2>8
    <3>2. meta[i].n_link = 1
      BY <1>4, <2>2, <2>8, LessOne
    <3>. HIDE DEF t
    <3>3. /\ Only({i}, d, t) /\ t.maxIno = d.maxIno /\ t.meta[i] = None /\ t.objects[i] = <<>>
          /\ t.cache[i] = [d.cache[i] EXCEPT !.valid = FALSE]
      BY <2>4, <3>1, DeleteInodeFields
    <3>4. /\ t.meta[p] = d.meta[p] /\ t.objects[p] = d.objects[p] /\ t.cache[p] = d.cache[p]
          /\ t \in States /\ Only({p, i}, s, t)
      BY <1>0, <2>4, <3>3 DEF Only
    <3>5. t.cache[i].ref_cnt = 1
      BY <2>2, <2>4, <3>3 DEF Entry
    <3>6. Held(t, p) /\ Sized(t, p) /\ Sized(t, i)
      <4>1. Len(<<>>) = 0
        OBVIOUS
      <4>. QED
        BY <2>4, <3>3, <3>4, <4>1 DEF Held, Sized
    <3>. QED
      BY <1>0, <1>2, <2>4, <2>5, <2>6, <3>2, <3>3, <3>4, <3>5, <3>6 DEF LinkGone
  <2>. QED
    BY <2>7, <2>8
<1>. QED
  BY <1>5, <1>6

(* A handler of a directory and a name in it ends in a panic, or as it says. *)
LEMMA BothPanicked ==
  ASSUME Base, NEW p \in Inos, NEW i \in Inos, NEW t \in States,
         t.status \in Statuses \ {"ok", "unwrap", "assert"}, NEW answer, NEW told, NEW handles,
         Finish(Put(Put(t, p), i), answer, told, handles)
  PROVE  Calm
<1>1. Put(t, p) \in States /\ Put(t, p).status = t.status
  BY PutStatus
<1>2. Put(Put(t, p), i).status = t.status
  BY <1>1, PutStatus
<1>3. Base' /\ Quiet /\ Releases /\ status' = t.status
  BY <1>2, FinishPanicked
<1>. QED
  BY <1>3 DEF Calm, Unmissed

(* What a directory's change leaves of all directories.                      *)
LEMMA OneShaped ==
  ASSUME Base, NEW p \in Inos \cap Dirs, NEW i \in Inos \ {p}, Alone({p, i}),
         DirShaped(p, objects'[p]), i \in Dirs' => DirShaped(i, objects'[i])
  PROVE  DirsShaped'
<1>. SUFFICES ASSUME NEW d \in Dirs'
              PROVE  DirShaped(d, objects'[d])
  BY DEF DirsShaped
<1>1. d \in Inos
  BY DEF Dirs
<1>2. CASE d \notin {p, i}
  BY <1>1, <1>2 DEF Alone, Kept, Base, DirsShaped
<1>. QED
  BY <1>2

(* unlink, once the entry is found and the inode loaded.                     *)
LEMMA UnlinkLeaves ==
  ASSUME Base, Running, NEW p \in Inos \cap Dirs, NEW i \in Known \ Directories,
         i \in Inos \ (Dirs \cup {Root, p}), NEW n \in Names,
         NEW k \in Heads(p) + 1 .. Len(objects[p]), objects[p][k] = [name |-> n, ino |-> i],
         NEW s, Steady(s, {p, i}), s.status = "ok", Found(s, p), Found(s, i),
         NEW t \in States, LinkGone(s, t, p, i, k),
         Finish(Put(Put(t, p), i), "ok", Gone(t, i), opened)
  PROVE  Base' /\ Done /\ Unlinked(p, n, i)
<1>1. /\ Only({p, i}, s, t) /\ t.maxIno = s.maxIno
      /\ Held(t, p) /\ Sized(t, p) /\ Sized(t, i)
      /\ Alike(t.cache[p], s.cache[p]) /\ t.cache[i].ref_cnt <= 1
      /\ t.objects[p] = Without(objects[p], k - 1, 1)
      /\ OverflowChecks => meta[i].n_link > 0
  BY DEF LinkGone
<1>2. s.cache[p].ref_cnt = 1 /\ s.maxIno = maxIno /\ Exists(i)
  BY FoundIs DEF Steady
<1>3. t.cache[p].ref_cnt <= 1
  BY <1>1, <1>2 DEF Alike
<1>4. /\ Gone(t, i) \in [Inos -> Types \cup {None}]
      /\ \A j \in Inos : \/ Gone(t, i)[j] = known[j]
                         \/ /\ Gone(t, i)[j] = None /\ j = i
                            /\ t.meta[i] = None /\ i \notin opened
  <2>1. known \in [Inos -> Types \cup {None}]
    BY DEF Base, TypeOK
  <2>. QED
    BY <2>1 DEF Gone
<1>5. LeftAs(p, i, t, Gone(t, i), opened)
  <2>1. opened \in SUBSET Inos
    BY DEF Base, TypeOK
  <2>. QED
    BY <1>1, <1>3, <1>4, <2>1, FinishBoth
<1>6. /\ Done /\ meta' = t.meta /\ objects' = t.objects /\ maxIno' = maxIno
      /\ known' = Gone(t, i) /\ opened' = opened
      /\ \A j \in Inos \ {p, i} : objects'[j] = objects[j] /\ Seen(meta'[j]) = Seen(meta[j])
  BY <1>1, <1>2, <1>5 DEF LeftAs
<1>7. Kept(p)
  BY <1>1, <1>6, HeldKept
<1>8. Alone({p, i})
  BY <1>6, SeenKept DEF Alone, Base, Done
<1>9. /\ i \notin Dirs'
      /\ \/ meta[i].n_link = 1 /\ ~Exists(i)' /\ objects'[i] = <<>>
         \/ /\ meta[i].n_link # 1 /\ Exists(i)' /\ objects'[i] = objects[i]
            /\ meta[i].n_link > 0 => meta'[i].n_link = meta[i].n_link - 1
  <2>1. CASE meta[i].n_link = 1 /\ t.meta[i] = None /\ t.objects[i] = <<>>
    BY <1>6, <2>1 DEF Exists, Dirs
  <2>2. CASE /\ meta[i].n_link # 1 /\ Held(t, i) /\ t.objects[i] = objects[i]
             /\ t.cache[i].type = s.cache[i].type
             /\ t.cache[i].n_link = (meta[i].n_link - 1) % (LinkMax + 1)
    <3>1. s.cache[i].type # "directory" /\ meta[i].n_link \in 0 .. LinkMax
      <4>1. s.cache[i].type = "directory" <=> i \in Dirs
        BY FoundIs
      <4>2. meta[i] \in Meta
        BY <1>2, StoredOrNothing DEF Base, Exists
      <4>. QED
        BY <4>1, <4>2 DEF Meta
    <3>2. /\ Exists(i)' /\ meta'[i].n_link = t.cache[i].n_link
          /\ i \in Dirs' <=> t.cache[i].type = "directory"
      BY <1>6, <2>2, HeldStored
    <3>. QED
      BY <1>6, <2>2, <3>1, <3>2, LessOne
  <2>. QED
    BY <2>1, <2>2 DEF LinkGone
<1>10. Unlinked(p, n, i)
  BY <1>1, <1>2, <1>6, <1>7, <1>8, <1>9 DEF Unlinked
<1>11. DirsShaped'
  <2>1. DirShaped(p, objects[p])
    BY DEF Base, DirsShaped
  <2>2. DirShaped(p, objects'[p])
    BY <1>1, <1>6, <2>1, WithoutShaped
  <2>. QED
    BY <1>8, <1>9, <2>2, OneShaped
<1>12. \A j \in Inos \ {i} : Kept(j)
  BY <1>7, <1>8 DEF Alone
<1>13. ~Exists(i)' <=> t.meta[i] = None
  BY <1>6 DEF Exists
<1>14. Fresh'
  <2>. SUFFICES ASSUME NEW j \in Inos, j > maxIno'
                PROVE  ~Exists(j)' /\ known'[j] = None /\ j \notin opened'
    BY DEF Fresh
  <2>1. ~Exists(j) /\ known[j] = None /\ j \notin opened /\ j # i
    BY <1>2, <1>6 DEF Base, Fresh
  <2>. QED
    BY <1>4, <1>6, <1>12, <2>1 DEF Kept
<1>15. KnownTyped'
  <2>1. known[Root] = "directory" /\ Root \in Inos /\ Root # i
    BY RootIno DEF Base, KnownTyped
  <2>2. known'[Root] = "directory"
    BY <1>4, <1>6, <2>1
  <2>3. ASSUME NEW j \in Inos
        PROVE  /\ known'[j] = "directory" => j \in Dirs'
               /\ known'[j] \notin {None, "directory"} => j \notin Dirs'
               /\ j \in opened' /\ Exists(j)' => known'[j] # None
    <3>1. CASE j = i
      <4>1. None # "directory" /\ known[i] # "directory"
        BY NothingAssumption DEF Types, Directories
      <4>2. j \in opened' /\ Exists(j)' => known[i] # None
        BY DEF Known
      <4>. QED
        BY <1>4, <1>6, <1>9, <1>13, <3>1, <4>1, <4>2
    <3>2. CASE j # i
      BY <1>4, <1>6, <1>12, <3>2 DEF Base, KnownTyped, Kept
    <3>. QED
      BY <3>1, <3>2
  <2>. QED
    BY <2>2, <2>3 DEF KnownTyped
<1>. QED
  BY <1>6, <1>10, <1>11, <1>14, <1>15 DEF Base, Done

LEMMA UnlinkDone ==
  ASSUME Base, NEW p \in Inos, NEW n \in Names, Unlink(p, n)
  PROVE  Calm \/ (Base' /\ Done /\ \E i \in Inos : Unlinked(p, n, i))
<1>. DEFINE s1 == Get(Now, p)
            i  == DirLookup(s1, p, n)
            s2 == Get(s1, i)
            t  == RemoveLink(s2, p, n, i)
            k  == Place(s1, p, n)
<1>1. Running /\ Steady(s1, {p}) /\ (Found(s1, p) => s1.status = "ok")
  BY OneLoaded DEF Unlink
<1>2. CASE Fail(s1)
  BY <1>1, <1>2, FailQuiet
<1>3. ASSUME Found(s1, p), InDirectory(s1, p, n)
      PROVE  /\ p \in Dirs /\ i \in Inos \ {Root} /\ k \in Heads(p) + 1 .. Len(objects[p])
             /\ objects[p][k] = [name |-> n, ino |-> i]
             /\ Steady(s2, {p, i})
             /\ Found(s2, i) => s2.status = "ok" /\ Found(s2, p)
  <2>1. /\ p \in Dirs /\ i \in Inos \ {Root} /\ k \in Heads(p) + 1 .. Len(objects[p])
        /\ objects[p][k] = [name |-> n, ino |-> i]
    BY <1>1, <1>3, DirLookupIs
  <2>. HIDE DEF i
  <2>. QED
    BY <1>1, <1>3, <2>1, BothLoaded
<1>4. CASE Found(s1, p) /\ InDirectory(s1, p, n) /\ Fail(s2)
  BY <1>1, <1>3, <1>4, FailQuiet
<1>5. CASE /\ Found(s1, p) /\ InDirectory(s1, p, n) /\ i \in Known \ Directories /\ Found(s2, i)
           /\ Finish(Put(Put(t, p), i), "ok", Gone(t, i), opened)
  <2>1. /\ p \in Dirs /\ i \in Inos \ {Root} /\ k \in Heads(p) + 1 .. Len(objects[p])
        /\ objects[p][k] = [name |-> n, ino |-> i]
        /\ Steady(s2, {p, i}) /\ s2.status = "ok" /\ Found(s2, p)
    BY <1>3, <1>5
  <2>2. i \notin Dirs /\ i # p
    BY <1>5, <2>1, NotDirectory
  <2>. HIDE DEF i, k, s2
  <2>3. t \in States /\ (t.status = "overflow" \/ LinkGone(s2, t, p, i, k))
    BY <1>5, <2>1, <2>2, RemoveLinkIs
  <2>. HIDE DEF t
  <2>4. CASE t.status = "overflow"
    BY <1>5, <2>1, <2>3, <2>4, BothPanicked DEF Statuses
  <2>5. CASE LinkGone(s2, t, p, i, k)
    <3>1. PICK j \in Inos : j = i
      BY <2>1
    <3>2. /\ j \in Known \ Directories /\ j \in Inos \ (Dirs \cup {Root, p})
          /\ k \in Heads(p) + 1 .. Len(objects[p])
          /\ objects[p][k] = [name |-> n, ino |-> j]
          /\ Steady(s2, {p, j}) /\ Found(s2, j) /\ LinkGone(s2, t, p, j, k)
          /\ Finish(Put(Put(t, p), j), "ok", Gone(t, j), opened)
      BY <1>5, <2>1, <2>2, <2>5, <3>1
    <3>3. Base' /\ Done /\ Unlinked(p, n, j)
      BY <1>1, <2>1, <2>3, <3>2, UnlinkLeaves
    <3>. QED
      BY <3>3
  <2>. QED
    BY <2>3, <2>4, <2>5
<1>. QED
  BY <1>2, <1>4, <1>5 DEF Unlink

(* rmdir.                                                                    *)
DirGone(s, t, p, i, k) ==
  /\ Only({p, i}, s, t) /\ t.maxIno = s.maxIno
  /\ Held(t, p) /\ Sized(t, p) /\ Sized(t, i)
  /\ Alike(t.cache[p], s.cache[p]) /\ t.cache[i].ref_cnt <= 1
  /\ t.objects[p] = Without(objects[p], k - 1, 1)
  /\ t.meta[i] = None /\ t.objects[i] = <<>>

LEMMA RemoveDirectoryIs ==
  ASSUME Base, NEW s, NEW p \in Inos \cap Dirs, NEW i \in Inos \ {p},
         Steady(s, {p, i}), s.status = "ok", Found(s, p), Found(s, i),
         NEW n \in Names, NEW k \in Heads(p) + 1 .. Len(objects[p]),
         objects[p][k] = [name |-> n, ino |-> i]
  PROVE  DirGone(s, RemoveDirectory(s, p, n, i), p, i, k)
<1>. DEFINE b == DirUnlink(ModifyStat(s, p, s.cache[p]), p, n)
            e == [b.cache[i] EXCEPT !.n_link = 0]
            d == ModifyStat(b, i, e)
            t == DeleteInode(d, i)
<1>0. t = RemoveDirectory(s, p, n, i)
  BY DEF RemoveDirectory
<1>1. CutFrom(s, b, p, i, k)
  BY EntryCut
<1>. HIDE DEF b
<1>2. /\ Working(s, b, p, i) /\ b \in States /\ Held(b, i)
      /\ b.maxIno = s.maxIno /\ b.objects[p] = Without(objects[p], k - 1, 1)
      /\ b.cache[i] \in Entry
  BY <1>1 DEF CutFrom, Working, Only, States
<1>3. s.cache[i].ref_cnt = 1
  BY FoundIs
<1>4. b.cache[i].ref_cnt = 1 /\ b.cache[i].valid
  BY <1>1, <1>2, <1>3 DEF CutFrom, Alike, Held
<1>5. e \in Entry /\ e.valid /\ e.size = b.cache[i].size /\ e.ref_cnt = 1
  <2>1. 0 \in 0 .. LinkMax
    BY NamespaceAssumption
  <2>. QED
    BY <1>2, <1>4, <2>1 DEF Entry
<1>. HIDE DEF e
<1>6. Restated(s, b, p, i, i, e, d)
  <2>1. i \in {p, i}
    OBVIOUS
  <2>. QED
    BY <1>2, <1>5, <2>1, ModifyStatWorks
<1>. HIDE DEF d
<1>7. /\ d.maxIno = s.maxIno /\ d.objects = b.objects
      /\ d.cache[i] = e /\ d.cache[p] = b.cache[p] /\ d \in States
      /\ Held(d, p) /\ Sized(d, p) /\ Held(d, i) /\ Only({p, i}, s, d)
  BY <1>2, <1>6 DEF Restated, Working, Only
<1>8. /\ Only({i}, d, t) /\ t.maxIno = d.maxIno /\ t.meta[i] = None /\ t.objects[i] = <<>>
      /\ t.cache[i] = [d.cache[i] EXCEPT !.valid = FALSE]
  BY <1>7, DeleteInodeFields
<1>. HIDE DEF t
<1>9. /\ t.meta[p] = d.meta[p] /\ t.objects[p] = d.objects[p] /\ t.cache[p] = d.cache[p]
      /\ Only({p, i}, s, t)
  BY <1>7, <1>8 DEF Only
<1>10. t.cache[i].ref_cnt = 1
  BY <1>5, <1>7, <1>8 DEF Entry
<1>11. Held(t, p) /\ Sized(t, p) /\ Sized(t, i)
  <2>1. Len(<<>>) = 0
    OBVIOUS
  <2>. QED
    BY <1>7, <1>8, <1>9, <2>1 DEF Held, Sized
<1>12. Alike(t.cache[p], s.cache[p])
  BY <1>1, <1>7, <1>9 DEF CutFrom
<1>13. DirGone(s, t, p, i, k)
  BY <1>2, <1>7, <1>8, <1>9, <1>10, <1>11, <1>12 DEF DirGone
<1>. QED
  BY <1>0, <1>13

LEMMA RmdirLeaves ==
  ASSUME Base, Running, NEW p \in Inos \cap Dirs, NEW i \in Directories,
         i \in Dirs \ {Root, p}, Len(objects[i]) <= 2, NEW n \in Names,
         NEW k \in Heads(p) + 1 .. Len(objects[p]), objects[p][k] = [name |-> n, ino |-> i],
         NEW s, Steady(s, {p, i}), s.status = "ok", Found(s, p),
         NEW t, DirGone(s, t, p, i, k),
         Finish(Put(Put(t, p), i), "ok", [known EXCEPT ![i] = None], opened)
  PROVE  Base' /\ Done /\ Removed(p, n, i)
<1>. DEFINE told == [known EXCEPT ![i] = None]
<1>1. /\ Only({p, i}, s, t) /\ t.maxIno = s.maxIno /\ t \in States
      /\ Held(t, p) /\ Sized(t, p) /\ Sized(t, i)
      /\ Alike(t.cache[p], s.cache[p]) /\ t.cache[i].ref_cnt <= 1
      /\ t.objects[p] = Without(objects[p], k - 1, 1)
      /\ t.meta[i] = None /\ t.objects[i] = <<>> /\ i \in Inos
  BY DEF DirGone, Only, Directories
<1>2. s.cache[p].ref_cnt = 1 /\ s.maxIno = maxIno /\ Exists(i)
  BY FoundIs DEF Steady, Dirs
<1>3. t.cache[p].ref_cnt <= 1
  BY <1>1, <1>2 DEF Alike
<1>4. /\ told \in [Inos -> Types \cup {None}]
      /\ told[i] = None /\ \A j \in Inos \ {i} : told[j] = known[j]
  <2>1. known \in [Inos -> Types \cup {None}]
    BY DEF Base, TypeOK
  <2>. QED
    BY <1>1, <2>1
<1>. HIDE DEF told
<1>5. LeftAs(p, i, t, told, opened)
  <2>1. opened \in SUBSET Inos
    BY DEF Base, TypeOK
  <2>. QED
    BY <1>1, <1>3, <1>4, <2>1, FinishBoth DEF told
<1>6. /\ Done /\ meta' = t.meta /\ objects' = t.objects /\ maxIno' = maxIno
      /\ known' = told /\ opened' = opened
      /\ \A j \in Inos \ {p, i} : objects'[j] = objects[j] /\ Seen(meta'[j]) = Seen(meta[j])
  BY <1>1, <1>2, <1>5 DEF LeftAs
<1>7. Kept(p)
  BY <1>1, <1>6, HeldKept
<1>8. Alone({p, i})
  BY <1>6, SeenKept DEF Alone, Base, Done
<1>9. i \notin Dirs' /\ ~Exists(i)' /\ objects'[i] = <<>>
  BY <1>1, <1>6 DEF Exists, Dirs
<1>10. Removed(p, n, i)
  BY <1>1, <1>6, <1>7, <1>8, <1>9 DEF Removed
<1>11. DirsShaped'
  <2>1. DirShaped(p, objects[p])
    BY DEF Base, DirsShaped
  <2>2. DirShaped(p, objects'[p])
    BY <1>1, <1>6, <2>1, WithoutShaped
  <2>. QED
    BY <1>1, <1>8, <1>9, <2>2, OneShaped
<1>12. \A j \in Inos \ {i} : Kept(j)
  BY <1>7, <1>8 DEF Alone
<1>13. Fresh'
  <2>. SUFFICES ASSUME NEW j \in Inos, j > maxIno'
                PROVE  ~Exists(j)' /\ known'[j] = None /\ j \notin opened'
    BY DEF Fresh
  <2>1. ~Exists(j) /\ known[j] = None /\ j \notin opened /\ j # i
    BY <1>2, <1>6 DEF Base, Fresh
  <2>. QED
    BY <1>4, <1>6, <1>12, <2>1 DEF Kept
<1>14. KnownTyped'
  <2>1. known[Root] = "directory" /\ Root \in Inos /\ Root # i
    BY RootIno DEF Base, KnownTyped
  <2>2. known'[Root] = "directory"
    BY <1>4, <1>6, <2>1
  <2>3. ASSUME NEW j \in Inos
        PROVE  /\ known'[j] = "directory" => j \in Dirs'
               /\ known'[j] \notin {None, "directory"} => j \notin Dirs'
               /\ j \in opened' /\ Exists(j)' => known'[j] # None
    <3>1. CASE j = i
      <4>1. None # "directory"
        BY NothingAssumption DEF Types
      <4>. QED
        BY <1>4, <1>6, <1>9, <3>1, <4>1
    <3>2. CASE j # i
      BY <1>4, <1>6, <1>12, <3>2 DEF Base, KnownTyped, Kept
    <3>. QED
      BY <3>1, <3>2
  <2>. QED
    BY <2>2, <2>3 DEF KnownTyped
<1>. QED
  BY <1>6, <1>10, <1>11, <1>13, <1>14 DEF Base, Done

LEMMA RmdirDone ==
  ASSUME Base, NEW p \in Inos, NEW n \in Names, Rmdir(p, n)
  PROVE  Calm \/ (Base' /\ Done /\ \E i \in Inos : Removed(p, n, i))
<1>. DEFINE s1 == Get(Now, p)
            i  == DirLookup(s1, p, n)
            s2 == Get(s1, i)
            t  == RemoveDirectory(s2, p, n, i)
            k  == Place(s1, p, n)
<1>1. Running /\ Steady(s1, {p}) /\ (Found(s1, p) => s1.status = "ok")
  BY OneLoaded DEF Rmdir
<1>2. CASE Fail(s1)
  BY <1>1, <1>2, FailQuiet
<1>3. ASSUME Found(s1, p), InDirectory(s1, p, n)
      PROVE  /\ p \in Dirs /\ i \in Inos \ {Root} /\ k \in Heads(p) + 1 .. Len(objects[p])
             /\ objects[p][k] = [name |-> n, ino |-> i]
             /\ Steady(s2, {p, i})
             /\ Found(s2, i) => s2.status = "ok" /\ Found(s2, p)
  <2>1. /\ p \in Dirs /\ i \in Inos \ {Root} /\ k \in Heads(p) + 1 .. Len(objects[p])
        /\ objects[p][k] = [name |-> n, ino |-> i]
    BY <1>1, <1>3, DirLookupIs
  <2>. HIDE DEF i
  <2>. QED
    BY <1>1, <1>3, <2>1, BothLoaded
<1>4. CASE Found(s1, p) /\ InDirectory(s1, p, n) /\ Fail(s2)
  BY <1>1, <1>3, <1>4, FailQuiet
<1>5. CASE /\ Found(s1, p) /\ InDirectory(s1, p, n) /\ i \in Directories /\ Found(s2, i)
           /\ ~HoldsEntries(s2, i)
           /\ Finish(Put(Put(t, p), i), "ok", [known EXCEPT ![i] = None], opened)
  <2>1. /\ p \in Dirs /\ i \in Inos \ {Root} /\ k \in Heads(p) + 1 .. Len(objects[p])
        /\ objects[p][k] = [name |-> n, ino |-> i]
        /\ Steady(s2, {p, i}) /\ s2.status = "ok" /\ Found(s2, p)
    BY <1>3, <1>5
  <2>2. i \in Dirs
    BY <1>5, <2>1 DEF Base, KnownTyped, Directories
  <2>. HIDE DEF i, k, s2, t
  <2>3. Len(objects[i]) <= 2 /\ Len(objects[i]) \in Nat
    <3>1. s2.cache[i].size = Len(objects[i]) /\ s2.cache[i] \in Entry
      BY <1>5, <2>1, FoundIs
    <3>. QED
      BY <1>5, <3>1 DEF HoldsEntries, Entry
  <2>4. i # p
    <3>. SUFFICES ASSUME i = p PROVE FALSE
      OBVIOUS
    <3>1. Heads(p) = 2
      BY <2>1 DEF Heads
    <3>. QED
      BY <2>1, <2>3, <3>1
  <2>5. DirGone(s2, t, p, i, k)
    BY <1>5, <2>1, <2>4, RemoveDirectoryIs DEF t
  <2>6. PICK j \in Inos : j = i
    BY <2>1
  <2>7. /\ j \in Directories /\ j \in Dirs \ {Root, p} /\ Len(objects[j]) <= 2
        /\ k \in Heads(p) + 1 .. Len(objects[p])
        /\ objects[p][k] = [name |-> n, ino |-> j]
        /\ Steady(s2, {p, j}) /\ DirGone(s2, t, p, j, k)
        /\ Finish(Put(Put(t, p), j), "ok", [known EXCEPT ![j] = None], opened)
    BY <1>5, <2>1, <2>2, <2>3, <2>4, <2>5, <2>6
  <2>8. Base' /\ Done /\ Removed(p, n, j)
    BY <1>1, <2>1, <2>7, RmdirLeaves
  <2>. QED
    BY <2>8
<1>. QED
  BY <1>2, <1>4, <1>5 DEF Rmdir

-----------------------------------------------------------------------------
(* Adding a name.                                                            *)

(* A file has a name more, or a hidden name that it has is counted again.    *)
Linked(i, p, n) ==
  /\ p \in Dirs /\ n \in Names /\ i \in Inos \ Dirs /\ Exists(i)
  /\ Kept(p) /\ Alone({p, i}) /\ UNCHANGED maxIno
  /\ \/ /\ ~NamedIn(objects[p], n)
        /\ objects'[p] = Append(objects[p], [name |-> n, ino |-> i])
     \/ n \in Hidden /\ objects'[p] = objects[p]
  /\ Exists(i)' /\ i \notin Dirs' /\ objects'[i] = objects[i]
  /\ OverflowChecks => meta[i].n_link < LinkMax
  /\ meta[i].n_link < LinkMax => meta'[i].n_link = meta[i].n_link + 1

LEMMA OneMore ==
  ASSUME NEW l \in 0 .. LinkMax
  PROVE  /\ (l + 1) % (LinkMax + 1) \in 0 .. LinkMax
         /\ l < LinkMax => (l + 1) % (LinkMax + 1) = l + 1
         /\ l # LinkMax => l < LinkMax
<1>1. LinkMax \in Nat
  BY NamespaceAssumption
<1>. QED
  BY <1>1

(* dir_link, to a directory in hand.                                         *)
LEMMA EntryAdded ==
  ASSUME Base, NEW s, NEW t, NEW p \in Inos \cap Dirs, NEW i \in Inos \ {Root, p},
         Working(s, t, p, i), t.objects[p] = objects[p], t.cache[p].type = "directory",
         NEW n \in Names
  PROVE  /\ NamedIn(objects[p], n) =>
              Recorded(s, t, p, i, p, objects[p], DirLink(t, p, i, n))
         /\ ~NamedIn(objects[p], n) =>
              Recorded(s, t, p, i, p, Append(objects[p], [name |-> n, ino |-> i]),
                       DirLink(t, p, i, n))
<1>. DEFINE q == Append(objects[p], [name |-> n, ino |-> i])
<1>1. t \in States /\ Held(t, p) /\ Sized(t, p) /\ p \in {p, i}
  BY DEF Working, Only
<1>2. CASE NamedIn(objects[p], n)
  <2>1. DirLink(t, p, i, n) = t
    BY <1>1, <1>2, InDirectoryIs DEF DirLink
  <2>2. Recorded(s, t, p, i, p, objects[p], t)
    BY DEF Recorded, Alike
  <2>. QED
    BY <1>2, <2>1, <2>2
<1>3. CASE ~NamedIn(objects[p], n)
  <2>1. DirLink(t, p, i, n) = SetObject(t, p, q)
    BY <1>1, <1>3, DirLinkIs
  <2>2. DirShaped(p, objects[p])
    BY DEF Base, DirsShaped
  <2>3. q \in Seq(Record)
    BY <1>3, <2>2, AppendShaped
  <2>. HIDE DEF q
  <2>4. Recorded(s, t, p, i, p, q, SetObject(t, p, q))
    BY <1>1, <2>3, SetObjectWorks
  <2>. QED
    BY <1>3, <2>1, <2>4 DEF q
<1>. QED
  BY <1>2, <1>3

LinkAdded(s, t, p, i, n) ==
  /\ Working(s, t, p, i) /\ t.maxIno = s.maxIno
  /\ Alike(t.cache[p], s.cache[p])
  /\ t.cache[i].ref_cnt = 1 /\ t.cache[i].type = s.cache[i].type
  /\ t.cache[i].n_link = (meta[i].n_link + 1) % (LinkMax + 1)
  /\ t.objects[i] = objects[i]
  /\ \/ /\ ~NamedIn(objects[p], n)
        /\ t.objects[p] = Append(objects[p], [name |-> n, ino |-> i])
     \/ NamedIn(objects[p], n) /\ t.objects[p] = objects[p]
  /\ OverflowChecks => meta[i].n_link < LinkMax

LEMMA AddLinkIs ==
  ASSUME Base, NEW s, NEW p \in Inos \cap Dirs, NEW i \in Inos \ (Dirs \cup {Root, p}),
         Steady(s, {p, i}), s.status = "ok", Found(s, p), Found(s, i), NEW n \in Names
  PROVE  LET t == Counted(DirLink(s, p, i, n), i)
         IN  t \in States /\ (t.status = "overflow" \/ LinkAdded(s, t, p, i, n))
<1>. DEFINE b == DirLink(s, p, i, n)
            c == b.cache[i]
            e == [c EXCEPT !.n_link = (@ + 1) % (LinkMax + 1)]
            t == Counted(b, i)
<1>1. /\ Working(s, s, p, i) /\ s.objects = objects /\ s.cache[p].type = "directory"
      /\ s.cache[i].n_link = meta[i].n_link /\ s.cache[i].ref_cnt = 1 /\ s.cache[i].valid
  <2>1. Working(s, s, p, i)
    BY Begins
  <2>2. /\ s.cache[p].type = "directory"
        /\ s.cache[i].n_link = meta[i].n_link /\ s.cache[i].ref_cnt = 1 /\ s.cache[i].valid
    BY FoundIs
  <2>3. s.objects = objects
    BY DEF Steady
  <2>. QED
    BY <2>1, <2>2, <2>3
<1>2. /\ Working(s, b, p, i) /\ b.maxIno = s.maxIno /\ b.objects[i] = objects[i]
      /\ Alike(b.cache[p], s.cache[p]) /\ Alike(b.cache[i], s.cache[i])
      /\ \/ /\ ~NamedIn(objects[p], n)
            /\ b.objects[p] = Append(objects[p], [name |-> n, ino |-> i])
         \/ NamedIn(objects[p], n) /\ b.objects[p] = objects[p]
  <2>1. CASE NamedIn(objects[p], n)
    <3>1. Recorded(s, s, p, i, p, objects[p], b)
      BY <1>1, <2>1, EntryAdded
    <3>. HIDE DEF b
    <3>. QED
      BY <1>1, <2>1, <3>1 DEF Recorded
  <2>2. CASE ~NamedIn(objects[p], n)
    <3>1. Recorded(s, s, p, i, p, Append(objects[p], [name |-> n, ino |-> i]), b)
      BY <1>1, <2>2, EntryAdded
    <3>. HIDE DEF b
    <3>. QED
      BY <1>1, <2>2, <3>1 DEF Recorded
  <2>. QED
    BY <2>1, <2>2
<1>. HIDE DEF b
<1>3. b \in States /\ b.status = "ok" /\ c \in Entry
  BY <1>2 DEF Working, Only, States
<1>4. /\ c.n_link = meta[i].n_link /\ c.ref_cnt = 1 /\ c.type = s.cache[i].type /\ c.valid
      /\ c.n_link \in 0 .. LinkMax
  BY <1>1, <1>2, <1>3 DEF Alike, Entry
<1>5. CASE c.n_link = LinkMax /\ OverflowChecks
  <2>1. t = Panic(b, "overflow")
    BY <1>5 DEF Counted
  <2>2. t \in States /\ t.status = "overflow"
    BY <1>3, <2>1, PanicFields DEF Statuses
  <2>. QED
    BY <2>2 DEF b
<1>6. CASE ~(c.n_link = LinkMax /\ OverflowChecks)
  <2>1. t = ModifyStat(b, i, e)
    BY <1>6 DEF Counted
  <2>2. /\ e \in Entry /\ e.valid /\ e.size = c.size /\ e.type = c.type /\ e.ref_cnt = 1
        /\ e.n_link = (c.n_link + 1) % (LinkMax + 1)
    <3>1. (c.n_link + 1) % (LinkMax + 1) \in 0 .. LinkMax
      BY <1>4, OneMore
    <3>. HIDE DEF c
    <3>. QED
      BY <1>3, <1>4, <3>1 DEF Entry
  <2>. HIDE DEF e, t
  <2>3. Restated(s, b, p, i, i, e, t)
    <3>1. i \in {p, i}
      OBVIOUS
    <3>. QED
      BY <1>2, <2>1, <2>2, <3>1, ModifyStatWorks
  <2>4. /\ Working(s, t, p, i) /\ t.maxIno = s.maxIno /\ t.objects = b.objects
        /\ t.cache[i] = e /\ t.cache[p] = b.cache[p] /\ t \in States
    BY <1>2, <2>3 DEF Restated, Working, Only
  <2>5. OverflowChecks => meta[i].n_link < LinkMax
    BY <1>4, <1>6, OneMore
  <2>6. LinkAdded(s, t, p, i, n)
    BY <1>2, <1>4, <2>2, <2>4, <2>5 DEF LinkAdded
  <2>. QED
    BY <2>4, <2>6 DEF b, t
<1>. QED
  BY <1>5, <1>6

LEMMA LinkLeaves ==
  ASSUME Base, Running, NEW p \in Inos \cap Dirs, NEW i \in Known \ Directories,
         i \in Inos \ (Dirs \cup {Root, p}), NEW n \in Names,
         n \in Hidden \/ ~NamedIn(objects[p], n),
         NEW s, Steady(s, {p, i}), s.status = "ok", Found(s, p), Found(s, i),
         NEW t, LinkAdded(s, t, p, i, n),
         Finish(Put(Put(t, p), i), "ok", Attr(t, i), opened)
  PROVE  Base' /\ Done /\ Linked(i, p, n)
<1>. DEFINE told == Attr(t, i)
<1>1. /\ Only({p, i}, s, t) /\ t.maxIno = s.maxIno /\ t \in States
      /\ Held(t, p) /\ Sized(t, p) /\ Held(t, i) /\ Sized(t, i)
      /\ Alike(t.cache[p], s.cache[p]) /\ t.cache[i].ref_cnt = 1
      /\ t.cache[i].type = s.cache[i].type
      /\ t.cache[i].n_link = (meta[i].n_link + 1) % (LinkMax + 1)
      /\ t.objects[i] = objects[i]
      /\ OverflowChecks => meta[i].n_link < LinkMax
  BY DEF LinkAdded, Working, Only
<1>2. /\ s.cache[p].ref_cnt = 1 /\ s.maxIno = maxIno /\ Exists(i)
      /\ s.cache[i].type \in Types /\ s.cache[i].type # "directory"
      /\ meta[i].n_link \in 0 .. LinkMax
  <2>1. meta[i] \in Meta
    BY FoundIs, StoredOrNothing DEF Base, Exists
  <2>. QED
    BY <2>1, FoundIs DEF Steady, Entry, Meta
<1>3. t.cache[p].ref_cnt <= 1
  BY <1>1, <1>2 DEF Alike
<1>4. /\ told \in [Inos -> Types \cup {None}]
      /\ told[i] \in Types \ {"directory"} /\ \A j \in Inos \ {i} : told[j] = known[j]
  <2>1. known \in [Inos -> Types \cup {None}]
    BY DEF Base, TypeOK
  <2>. QED
    BY <1>1, <1>2, <2>1 DEF Attr
<1>. HIDE DEF told
<1>5. LeftAs(p, i, t, told, opened)
  <2>1. opened \in SUBSET Inos
    BY DEF Base, TypeOK
  <2>. QED
    BY <1>1, <1>3, <1>4, <2>1, FinishBoth DEF told
<1>6. /\ Done /\ meta' = t.meta /\ objects' = t.objects /\ maxIno' = maxIno
      /\ known' = told /\ opened' = opened
      /\ \A j \in Inos \ {p, i} : objects'[j] = objects[j] /\ Seen(meta'[j]) = Seen(meta[j])
  BY <1>1, <1>2, <1>5 DEF LeftAs
<1>7. Kept(p)
  BY <1>1, <1>6, HeldKept
<1>8. Alone({p, i})
  BY <1>6, SeenKept DEF Alone, Base, Done
<1>9. /\ i \notin Dirs' /\ Exists(i)' /\ objects'[i] = objects[i]
      /\ meta[i].n_link < LinkMax => meta'[i].n_link = meta[i].n_link + 1
  <2>1. /\ Exists(i)' /\ meta'[i].n_link = t.cache[i].n_link
        /\ i \in Dirs' <=> t.cache[i].type = "directory"
    BY <1>1, <1>6, HeldStored
  <2>. QED
    BY <1>1, <1>2, <1>6, <2>1, OneMore
<1>10. \/ /\ ~NamedIn(objects[p], n)
          /\ objects'[p] = Append(objects[p], [name |-> n, ino |-> i])
       \/ n \in Hidden /\ objects'[p] = objects[p]
  BY <1>6 DEF LinkAdded
<1>11. Linked(i, p, n)
  BY <1>1, <1>2, <1>6, <1>7, <1>8, <1>9, <1>10 DEF Linked
<1>12. DirsShaped'
  <2>1. DirShaped(p, objects[p])
    BY DEF Base, DirsShaped
  <2>2. ~NamedIn(objects[p], n) => DirShaped(p, Append(objects[p], [name |-> n, ino |-> i]))
    BY <2>1, AppendShaped
  <2>3. DirShaped(p, objects'[p])
    BY <1>10, <2>1, <2>2
  <2>. QED
    BY <1>8, <1>9, <2>3, OneShaped
<1>13. \A j \in Inos \ {i} : Kept(j)
  BY <1>7, <1>8 DEF Alone
<1>14. Fresh'
  <2>. SUFFICES ASSUME NEW j \in Inos, j > maxIno'
                PROVE  ~Exists(j)' /\ known'[j] = None /\ j \notin opened'
    BY DEF Fresh
  <2>1. ~Exists(j) /\ known[j] = None /\ j \notin opened /\ j # i
    BY <1>2, <1>6 DEF Base, Fresh
  <2>. QED
    BY <1>4, <1>6, <1>13, <2>1 DEF Kept
<1>15. KnownTyped'
  <2>1. known[Root] = "directory" /\ Root \in Inos /\ Root # i
    BY RootIno DEF Base, KnownTyped
  <2>2. known'[Root] = "directory"
    BY <1>4, <1>6, <2>1
  <2>3. ASSUME NEW j \in Inos
        PROVE  /\ known'[j] = "directory" => j \in Dirs'
               /\ known'[j] \notin {None, "directory"} => j \notin Dirs'
               /\ j \in opened' /\ Exists(j)' => known'[j] # None
    <3>1. CASE j = i
      <4>1. None \notin Types
        BY NothingAssumption
      <4>. QED
        BY <1>4, <1>6, <1>9, <3>1, <4>1
    <3>2. CASE j # i
      BY <1>4, <1>6, <1>13, <3>2 DEF Base, KnownTyped, Kept
    <3>. QED
      BY <3>1, <3>2
  <2>. QED
    BY <2>2, <2>3 DEF KnownTyped
<1>. QED
  BY <1>6, <1>11, <1>12, <1>14, <1>15 DEF Base, Done

LEMMA LinkDone ==
  ASSUME Base, NEW i \in Inos, NEW p \in Inos, NEW n \in Names, Link(i, p, n)
  PROVE  Calm \/ (Base' /\ Done /\ Linked(i, p, n))
<1>. DEFINE s1 == Get(Now, p)
            s2 == Get(s1, i)
            t  == Counted(DirLink(s2, p, i, n), i)
<1>1. /\ Running /\ Steady(s1, {p}) /\ p \in Dirs /\ i \notin Dirs /\ Root \in Dirs
      /\ n \in Hidden \/ ~NamedIn(objects[p], n)
  <2>1. /\ Running /\ p \in Directories /\ i \in Known \ Directories
        /\ n \in Hidden \/ ~NamedIn(objects[p], n)
    BY DEF Link, NamedIn
  <2>2. p \in Dirs /\ Root \in Dirs /\ i \notin Dirs
    BY <2>1, NotDirectory, RootIno DEF Base, KnownTyped, Directories
  <2>. QED
    BY <2>1, <2>2, OneLoaded
<1>2. CASE Fail(s1)
  BY <1>1, <1>2, FailQuiet
<1>3. CASE Found(s1, p) /\ Fail(s2)
  BY <1>1, <1>3, BothLoaded, FailQuiet
<1>4. CASE /\ Found(s1, p) /\ Found(s2, i) /\ i \in Known \ Directories
           /\ Finish(Put(Put(t, p), i), "ok", Attr(t, i), opened)
  <2>1. /\ Steady(s2, {p, i}) /\ s2.status = "ok" /\ Found(s2, p)
        /\ i \in Inos \ (Dirs \cup {Root, p})
    BY <1>1, <1>4, BothLoaded
  <2>. HIDE DEF s2
  <2>2. t \in States /\ (t.status = "overflow" \/ LinkAdded(s2, t, p, i, n))
    BY <1>1, <1>4, <2>1, AddLinkIs
  <2>. HIDE DEF t
  <2>3. CASE t.status = "overflow"
    BY <1>4, <2>2, <2>3, BothPanicked DEF Statuses
  <2>4. CASE LinkAdded(s2, t, p, i, n)
    BY <1>1, <1>4, <2>1, <2>4, LinkLeaves
  <2>. QED
    BY <2>2, <2>3, <2>4
<1>. QED
  BY <1>2, <1>3, <1>4 DEF Link

-----------------------------------------------------------------------------
(* Making an inode.                                                          *)

(* i_alloc: the first inode never handed out, or no slot.                    *)
Allocated(s, i, t) ==
  /\ Only({i}, s, t) /\ t.maxIno = i /\ t.objects = s.objects
  /\ t.cache[i] = [Free EXCEPT !.n_link = 1, !.ref_cnt = 1, !.valid = TRUE]

LEMMA AllocIs ==
  ASSUME NEW s \in States, s.status = "ok", NEW i \in Inos, i = s.maxIno + 1
  PROVE  /\ Alloc(s) \in States
         /\ Alloc(s).status = "no_slot" \/ Allocated(s, i, Alloc(s))
<1>. DEFINE m == [type |-> "file", size |-> 0, n_link |-> 1]
            c == [Free EXCEPT !.n_link = 1, !.ref_cnt = 1, !.valid = TRUE]
            t == Alloc(s)
<1>1. CASE Full(s)
  <2>1. t = Panic(s, "no_slot")
    BY <1>1 DEF Alloc
  <2>2. t \in States /\ t.status = "no_slot"
    BY <2>1, PanicFields DEF Statuses
  <2>. QED
    BY <2>2
<1>2. CASE ~Full(s)
  <2>1. t = [s EXCEPT !.maxIno = i, !.meta[i] = m, !.cache[i] = c]
    BY <1>2 DEF Alloc
  <2>2. m \in Meta /\ c \in Entry
    <3>1. 1 \in 0 .. LinkMax /\ 0 \in 0 .. LinkMax
      BY NamespaceAssumption
    <3>. QED
      BY <3>1 DEF Meta, Entry, Free, Types
  <2>. HIDE DEF m, c, t
  <2>3. t \in States /\ Only({i}, s, t) /\ t.maxIno = i /\ t.objects = s.objects
        /\ t.cache[i] = c
    BY <2>1, <2>2 DEF States, Only
  <2>. QED
    BY <2>3 DEF Allocated, t, c
<1>. QED
  BY <1>1, <1>2

(* The records a new inode has at the end.                                   *)
Contents(type, target, p, i) ==
  IF type = "directory" THEN NewDirectory(i, p) ELSE target

(* What a handler makes of i.                                                *)
MadeAs(s, t, p, i, n, type, count, o) ==
  /\ Working(s, t, p, i) /\ t.maxIno = i /\ Alike(t.cache[p], s.cache[p])
  /\ t.cache[i].type = type /\ t.cache[i].ref_cnt = count
  /\ t.cache[i].n_link = NewLinks(type, 1)
  /\ t.objects[p] = Append(objects[p], [name |-> n, ino |-> i])
  /\ t.objects[i] = o

(* "." and ".." of a new directory.                                          *)
LEMMA DotsAdded ==
  ASSUME NEW s, NEW t, NEW p \in Inos, NEW i \in Inos \ {p}, Working(s, t, p, i),
         t.objects[i] = <<>>, t.cache[i].type = "directory"
  PROVE  Recorded(s, t, p, i, i, NewDirectory(i, p),
                  DirLink(DirLink(t, i, i, "."), i, p, ".."))
<1>. DEFINE a == [name |-> ".", ino |-> i]
            b == [name |-> "..", ino |-> p]
            u == DirLink(t, i, i, ".")
            v == DirLink(u, i, p, "..")
<1>1. a \in Record /\ b \in Record /\ a.name = "." /\ i \in {p, i}
  BY DEF Record
<1>2. t \in States /\ Held(t, i) /\ Sized(t, i)
  BY DEF Working, Only
<1>3. u = SetObject(t, i, Append(t.objects[i], a))
  <2>1. ~NamedIn(t.objects[i], ".")
    BY DEF NamedIn
  <2>2. "." \in Names \cup {".", ".."}
    OBVIOUS
  <2>. QED
    BY <1>2, <2>1, <2>2, DirLinkIs
<1>. HIDE DEF a, u
<1>4. Append(t.objects[i], a) = <<a>>
  BY <1>1
<1>. HIDE DEF b
<1>5. <<a>> \in Seq(Record) /\ <<a, b>> \in Seq(Record)
  BY <1>1
<1>6. Append(<<a>>, b) = <<a, b>>
  <2>. DEFINE q == Append(<<a>>, b)
  <2>1. q \in Seq(Record) /\ Len(q) = 2 /\ q[1] = a /\ q[2] = b
    BY <1>1, <1>5, AppendProperties
  <2>. HIDE DEF q
  <2>. DEFINE r == <<a, b>>
  <2>2. r \in Seq(Record) /\ Len(r) = 2 /\ r[1] = a /\ r[2] = b
    BY <1>5
  <2>. HIDE DEF r
  <2>3. q = r
    BY <2>1, <2>2, SeqEqual
  <2>. QED
    BY <2>3 DEF q, r
<1>7. Recorded(s, t, p, i, i, <<a>>, u)
  BY <1>1, <1>3, <1>4, <1>5, SetObjectWorks
<1>8. /\ Working(s, u, p, i) /\ u.objects[i] = <<a>> /\ u \in States
      /\ Held(u, i) /\ Sized(u, i) /\ u.cache[i].type = "directory"
  BY <1>7 DEF Recorded, Working, Only, Alike
<1>9. v = SetObject(u, i, <<a, b>>)
  <2>1. ~NamedIn(u.objects[i], "..")
    BY <1>1, <1>8 DEF NamedIn
  <2>2. ".." \in Names \cup {".", ".."}
    OBVIOUS
  <2>3. v = SetObject(u, i, Append(u.objects[i], b))
    BY <1>8, <2>1, <2>2, DirLinkIs DEF b
  <2>. QED
    BY <1>6, <1>8, <2>3
<1>. HIDE DEF v
<1>10. Recorded(s, u, p, i, i, <<a, b>>, v)
  BY <1>1, <1>5, <1>8, <1>9, SetObjectWorks
<1>11. Recorded(s, t, p, i, i, <<a, b>>, v)
  BY <1>7, <1>10 DEF Recorded, Alike
<1>. QED
  BY <1>11 DEF NewDirectory, a, b, u, v

LEMMA MakeIs ==
  ASSUME Base, NEW p \in Inos \cap Dirs, NEW i \in Inos, i = maxIno + 1,
         NEW s, Steady(s, {p}), s.status = "ok", Found(s, p),
         NEW n \in Names, ~NamedIn(objects[p], n),
         NEW type \in Types, NEW count \in {0, 1}, NEW target \in {<<>>, <<Byte>>},
         type = "directory" => target = <<>>
  PROVE  LET t == Make(s, p, n, type, count, target)
         IN  /\ t \in States
             /\ \/ t.status = "no_slot" /\ t.maxIno \in Inos
                \/ MadeAs(s, t, p, i, n, type, count, Contents(type, target, p, i))
<1>. DEFINE a == ModifyStat(s, p, s.cache[p])
            b == Alloc(a)
            e == [b.cache[i] EXCEPT !.type = type, !.ref_cnt = count,
                    !.n_link = NewLinks(type, @)]
            c == ModifyStat(b, i, e)
            d == IF type = "directory" THEN DirLink(DirLink(c, i, i, "."), i, p, "..") ELSE c
            f == DirLink(d, p, i, n)
            g == IF target = <<>> THEN f ELSE WriteInode(f, i, 0, target)
            t == Make(s, p, n, type, count, target)
<1>1. /\ Steady(a, {p}) /\ a.status = "ok" /\ a.cache = s.cache /\ a \in States
      /\ a.objects = objects /\ a.maxIno = maxIno
  BY TouchSteady DEF Steady
<1>2. s \in States /\ s.cache[p] \in Entry
  BY FoundIs
<1>3. Only({p}, s, a)
  BY <1>2, ModifyStatFields
<1>4. /\ Held(a, p) /\ Sized(a, p) /\ a.cache[p].type = "directory"
  <2>1. Found(a, p)
    BY <1>1 DEF Found
  <2>2. /\ Held(a, p) /\ Sized(a, p) /\ a.cache[p].type = "directory" <=> p \in Dirs
    BY <1>1, <2>1, FoundIs
  <2>. QED
    BY <2>2
<1>. HIDE DEF a
<1>5. b \in States /\ (b.status = "no_slot" \/ Allocated(a, i, b))
  BY <1>1, AllocIs
<1>6. CASE b.status = "no_slot"
  <2>1. t = b
    BY <1>6 DEF Make, a
  <2>. QED
    BY <1>5, <1>6, <2>1 DEF States
<1>7. CASE Allocated(a, i, b)
  <2>. HIDE DEF b
  <2>1. /\ Only({i}, a, b) /\ b.maxIno = i /\ b.objects = objects /\ b.status = "ok"
        /\ b.cache[i] = [Free EXCEPT !.n_link = 1, !.ref_cnt = 1, !.valid = TRUE]
    BY <1>1, <1>7 DEF Allocated, Only
  <2>2. i # p /\ i # Root /\ objects[i] = <<>>
    <3>1. i > maxIno /\ maxIno \in Inos
      BY DEF Base, TypeOK, Inos
    <3>2. ~Exists(i) /\ known[i] = None
      BY <3>1 DEF Base, Fresh
    <3>3. Len(objects[i]) = 0 /\ objects[i] \in Seq(Record)
      BY <3>2 DEF Base, LoadedIsStored, TypeOK
    <3>4. i # p
      BY <3>2 DEF Dirs
    <3>5. i # Root
      BY <3>2, NothingAssumption DEF Base, KnownTyped, Types
    <3>. QED
      BY <3>3, <3>4, <3>5, EmptySeq
  <2>3. t = g
    <3>1. t = IF target = <<>> THEN f ELSE WriteInode(f, i, 0, target)
      BY <2>1 DEF Make, a, b
    <3>. QED
      BY <3>1
  <2>4. /\ e \in Entry /\ e.type = type /\ e.ref_cnt = count /\ e.size = 0 /\ e.valid
        /\ e.n_link = NewLinks(type, 1)
    <3>1. NewLinks(type, 1) \in 0 .. LinkMax
      BY NamespaceAssumption DEF NewLinks
    <3>2. e = [type |-> type, size |-> 0, n_link |-> NewLinks(type, 1), ref_cnt |-> count,
               valid |-> TRUE]
      <4>. DEFINE x == b.cache[i]
      <4>1. x = [type |-> "file", size |-> 0, n_link |-> 1, ref_cnt |-> 1, valid |-> TRUE]
        BY <2>1 DEF Free
      <4>2. e = [x EXCEPT !.type = type, !.ref_cnt = count, !.n_link = NewLinks(type, @)]
        OBVIOUS
      <4>. HIDE DEF x, e
      <4>3. x.n_link = 1
        BY <4>1
      <4>4. e = [x EXCEPT !.type = type, !.ref_cnt = count, !.n_link = NewLinks(type, 1)]
        BY <4>2, <4>3
      <4>. QED
        BY <4>1, <4>4
    <3>. HIDE DEF e
    <3>. QED
      BY <3>1, <3>2 DEF Entry
  <2>. HIDE DEF e
  <2>5. /\ Only({i}, b, c) /\ c.objects = objects /\ c.maxIno = i
        /\ c.meta[i] = Stored(e) /\ c.cache[i] = e /\ Stored(e) # None /\ Held(c, i)
    <3>1. Modified(b, i, e, c)
      BY <1>5, <2>1, <2>4, ModifyStatIs
    <3>. HIDE DEF c
    <3>. QED
      BY <2>1, <3>1 DEF Modified
  <2>. HIDE DEF c
  <2>6. /\ c.meta[p] = a.meta[p] /\ c.cache[p] = a.cache[p] /\ c.objects[p] = a.objects[p]
    BY <2>1, <2>2, <2>5 DEF Only
  <2>7. Working(s, c, p, i)
    <3>1. Only({p, i}, s, c)
      BY <1>1, <1>3, <2>1, <2>5 DEF Only
    <3>2. Sized(c, i)
      <4>1. Stored(e).size = 0 /\ Len(<<>>) = 0
        BY <2>4 DEF Stored
      <4>. QED
        BY <2>2, <2>5, <4>1 DEF Sized
    <3>3. Held(c, p) /\ Sized(c, p)
      BY <1>4, <2>6 DEF Held, Sized
    <3>. QED
      BY <2>5, <3>1, <3>2, <3>3 DEF Working
  <2>8. /\ Working(s, d, p, i) /\ d.maxIno = i /\ Alike(d.cache[p], s.cache[p])
        /\ Alike(d.cache[i], e) /\ d.objects[p] = objects[p]
        /\ d.objects[i] = IF type = "directory" THEN NewDirectory(i, p) ELSE <<>>
    <3>1. CASE type = "directory"
      <4>1. Recorded(s, c, p, i, i, NewDirectory(i, p), d)
        <5>1. c.objects[i] = <<>> /\ c.cache[i].type = "directory"
          BY <2>2, <2>4, <2>5, <3>1
        <5>. QED
          BY <2>2, <2>7, <3>1, <5>1, DotsAdded
      <4>. HIDE DEF d
      <4>2. p \in {p, i} \ {i}
        BY <2>2
      <4>. QED
        BY <1>1, <2>5, <2>6, <3>1, <4>1, <4>2 DEF Recorded, Alike
    <3>2. CASE type # "directory"
      <4>1. d = c
        BY <3>2
      <4>. HIDE DEF d
      <4>. QED
        BY <1>1, <2>2, <2>5, <2>6, <2>7, <3>2, <4>1 DEF Alike
    <3>. QED
      BY <3>1, <3>2
  <2>. HIDE DEF d
  <2>9. Recorded(s, d, p, i, p, Append(objects[p], [name |-> n, ino |-> i]), f)
    <3>1. d.cache[p].type = "directory"
      BY <1>1, <1>4, <2>8 DEF Alike
    <3>. QED
      BY <2>2, <2>8, <3>1, EntryAdded
  <2>. HIDE DEF f
  <2>10. /\ Working(s, f, p, i) /\ f.maxIno = i /\ Alike(f.cache[p], s.cache[p])
         /\ Alike(f.cache[i], e)
         /\ f.objects[p] = Append(objects[p], [name |-> n, ino |-> i])
         /\ f.objects[i] = IF type = "directory" THEN NewDirectory(i, p) ELSE <<>>
    <3>1. i \in {p, i} \ {p}
      BY <2>2
    <3>. QED
      BY <2>8, <2>9, <3>1 DEF Recorded, Alike
  <2>11. MadeAs(s, g, p, i, n, type, count, Contents(type, target, p, i))
    <3>1. CASE target = <<>>
      <4>1. g = f
        BY <3>1
      <4>. HIDE DEF g
      <4>. QED
        BY <2>4, <2>10, <3>1, <4>1 DEF MadeAs, Contents, Alike
    <3>2. CASE target = <<Byte>>
      <4>1. target # <<>> /\ type # "directory"
        BY <3>2
      <4>2. /\ f \in States /\ Held(f, i) /\ f.objects[i] = <<>> /\ Len(<<>>) = 0
            /\ Byte \in Record /\ <<Byte>> \in Seq(Record) /\ i \in {p, i}
        BY <2>10, <4>1 DEF Working, Only, Record
      <4>3. WriteInode(f, i, 0, <<Byte>>) = SetObject(f, i, Spliced(<<>>, 0, <<Byte>>))
        BY <4>2, WriteInodeIs
      <4>4. Spliced(<<>>, 0, <<Byte>>) = <<Byte>>
        <5>1. <<>> \in Seq(Record)
          OBVIOUS
        <5>2. Spliced(<<>>, Len(<<>>), <<Byte>>) = Append(<<>>, Byte)
          BY <4>2, <5>1, SplicedEnd
        <5>. QED
          BY <4>2, <5>2
      <4>5. Recorded(s, f, p, i, i, <<Byte>>, g)
        BY <2>10, <3>2, <4>1, <4>2, <4>3, <4>4, SetObjectWorks
      <4>. HIDE DEF g
      <4>6. p \in {p, i} \ {i}
        BY <2>2
      <4>. QED
        BY <2>4, <2>10, <3>2, <4>1, <4>5, <4>6 DEF Recorded, MadeAs, Contents, Alike
    <3>. QED
      BY <3>1, <3>2
  <2>12. g \in States
    BY <2>11 DEF MadeAs, Working, Only
  <2>. QED
    BY <2>3, <2>11, <2>12
<1>. QED
  BY <1>5, <1>6, <1>7

(* A new inode, with a name in p.                                            *)
Made(p, n, i) ==
  /\ p \in Dirs /\ n \in Names /\ i \in Inos \ {p, Root} /\ ~Exists(i)
  /\ Kept(p) /\ Alone({p, i}) /\ maxIno' = i
  /\ ~NamedIn(objects[p], n)
  /\ objects'[p] = Append(objects[p], [name |-> n, ino |-> i])
  /\ Exists(i)'
  /\ \/ i \in Dirs' /\ objects'[i] = NewDirectory(i, p)
     \/ i \notin Dirs' /\ Len(objects'[i]) \in {0, 1} /\ meta'[i].n_link = 1

LEMMA MakeLeaves ==
  ASSUME Base, Running, NEW p \in Inos \cap Dirs, NEW i \in Inos, i = maxIno + 1,
         NEW s, Steady(s, {p}), s.status = "ok", Found(s, p),
         NEW n \in Names, ~NamedIn(objects[p], n),
         NEW type \in Types, NEW count \in {0, 1}, NEW target \in {<<>>, <<Byte>>},
         NEW t, MadeAs(s, t, p, i, n, type, count, Contents(type, target, p, i)),
         Finish(Put(Put(t, p), i), "ok", Attr(t, i),
                IF count = 1 THEN opened \cup {i} ELSE opened)
  PROVE  Base' /\ Done /\ Made(p, n, i)
<1>. DEFINE told == Attr(t, i)
            handles == IF count = 1 THEN opened \cup {i} ELSE opened
            o == Contents(type, target, p, i)
<1>1. /\ Only({p, i}, s, t) /\ t.maxIno = i /\ t \in States
      /\ Held(t, p) /\ Sized(t, p) /\ Held(t, i) /\ Sized(t, i)
      /\ Alike(t.cache[p], s.cache[p]) /\ t.cache[i].ref_cnt = count
      /\ t.cache[i].type = type /\ t.cache[i].n_link = NewLinks(type, 1)
      /\ t.objects[i] = o
      /\ t.objects[p] = Append(objects[p], [name |-> n, ino |-> i])
  BY DEF MadeAs, Working, Only
<1>2. s.cache[p].ref_cnt = 1 /\ s.maxIno = maxIno
  BY FoundIs DEF Steady
<1>3. t.cache[p].ref_cnt <= 1 /\ t.cache[i].ref_cnt <= 1
  BY <1>1, <1>2 DEF Alike
<1>4. i > maxIno /\ maxIno \in Inos /\ ~Exists(i) /\ i \notin Dirs
  <2>1. i > maxIno /\ maxIno \in Inos
    BY DEF Base, TypeOK, Inos
  <2>2. ~Exists(i)
    BY <2>1 DEF Base, Fresh
  <2>. QED
    BY <2>1, <2>2 DEF Dirs
<1>5. Root \in Dirs /\ i # Root /\ i # p /\ known[Root] = "directory" /\ Root \in Inos
  BY <1>4, RootIno DEF Base, KnownTyped
<1>6. /\ told \in [Inos -> Types \cup {None}]
      /\ told[i] = type /\ \A j \in Inos \ {i} : told[j] = known[j]
  <2>1. known \in [Inos -> Types \cup {None}]
    BY DEF Base, TypeOK
  <2>. QED
    BY <1>1, <2>1 DEF Attr
<1>. HIDE DEF told, o
<1>7. handles \in SUBSET Inos /\ \A j \in handles : j \in opened \/ j = i
  BY DEF Base, TypeOK
<1>8. Steady(s, {p, i})
  BY DEF Steady
<1>9. LeftAs(p, i, t, told, handles)
  BY <1>1, <1>3, <1>6, <1>7, <1>8, FinishBoth DEF told
<1>10. /\ Done /\ meta' = t.meta /\ objects' = t.objects /\ maxIno' = i
       /\ known' = told /\ opened' = handles
       /\ \A j \in Inos \ {p, i} : objects'[j] = objects[j] /\ Seen(meta'[j]) = Seen(meta[j])
  BY <1>1, <1>9 DEF LeftAs
<1>11. Kept(p)
  BY <1>1, <1>10, HeldKept
<1>12. Alone({p, i})
  BY <1>10, SeenKept DEF Alone, Base, Done
<1>13. /\ Exists(i)' /\ meta'[i].n_link = NewLinks(type, 1)
       /\ i \in Dirs' <=> type = "directory"
  <2>1. /\ Exists(i)' /\ meta'[i].n_link = t.cache[i].n_link
        /\ i \in Dirs' <=> t.cache[i].type = "directory"
    BY <1>1, <1>10, HeldStored
  <2>. QED
    BY <1>1, <2>1
<1>14. \/ i \in Dirs' /\ objects'[i] = NewDirectory(i, p)
       \/ i \notin Dirs' /\ Len(objects'[i]) \in {0, 1} /\ meta'[i].n_link = 1
  <2>1. CASE type = "directory"
    BY <1>1, <1>10, <1>13, <2>1 DEF Contents, o
  <2>2. CASE type # "directory"
    <3>1. NewLinks(type, 1) = 1
      BY <2>2 DEF NewLinks
    <3>2. o = target /\ Len(target) \in {0, 1}
      BY <2>2 DEF o, Contents
    <3>. QED
      BY <1>1, <1>10, <1>13, <2>2, <3>1, <3>2
  <2>. QED
    BY <2>1, <2>2
<1>15. Made(p, n, i)
  BY <1>1, <1>4, <1>5, <1>10, <1>11, <1>12, <1>13, <1>14 DEF Made
<1>16. DirsShaped'
  <2>1. DirShaped(p, objects[p])
    BY DEF Base, DirsShaped
  <2>2. DirShaped(p, Append(objects[p], [name |-> n, ino |-> i]))
    BY <1>5, <2>1, AppendShaped
  <2>3. DirShaped(p, objects'[p])
    BY <1>1, <1>10, <2>2
  <2>4. DirShaped(i, NewDirectory(i, p))
    BY <1>5, NewShaped
  <2>5. i \in Dirs' => DirShaped(i, objects'[i])
    BY <1>14, <2>4
  <2>. QED
    BY <1>5, <1>12, <2>3, <2>5, OneShaped
<1>17. \A j \in Inos \ {i} : Kept(j)
  BY <1>11, <1>12 DEF Alone
<1>18. Fresh'
  <2>. SUFFICES ASSUME NEW j \in Inos, j > maxIno'
                PROVE  ~Exists(j)' /\ known'[j] = None /\ j \notin opened'
    BY DEF Fresh
  <2>1. j > maxIno /\ j # i
    BY <1>4, <1>10 DEF Inos
  <2>2. ~Exists(j) /\ known[j] = None /\ j \notin opened
    BY <2>1 DEF Base, Fresh
  <2>. QED
    BY <1>6, <1>7, <1>10, <1>17, <2>1, <2>2 DEF Kept
<1>19. KnownTyped'
  <2>1. known'[Root] = "directory"
    BY <1>5, <1>6, <1>10
  <2>2. ASSUME NEW j \in Inos
        PROVE  /\ known'[j] = "directory" => j \in Dirs'
               /\ known'[j] \notin {None, "directory"} => j \notin Dirs'
               /\ j \in opened' /\ Exists(j)' => known'[j] # None
    <3>1. CASE j = i
      <4>1. None \notin Types
        BY NothingAssumption
      <4>. QED
        BY <1>6, <1>10, <1>13, <3>1, <4>1
    <3>2. CASE j # i
      BY <1>6, <1>7, <1>10, <1>17, <3>2 DEF Base, KnownTyped, Kept
    <3>. QED
      BY <3>1, <3>2
  <2>. QED
    BY <2>1, <2>2 DEF KnownTyped
<1>. QED
  BY <1>10, <1>15, <1>16, <1>18, <1>19 DEF Base, Done

LEMMA MakeDone ==
  ASSUME Base, NEW p \in Inos, NEW n \in Names,
         NEW type \in Types, NEW count \in {0, 1}, NEW target \in {<<>>, <<Byte>>},
         type = "directory" => target = <<>>,
         MakeIn(p, n, type, count, target)
  PROVE  Calm \/ (Base' /\ Done /\ \E i \in Inos : Made(p, n, i))
<1>. DEFINE s == Get(Now, p)
            t == Make(s, p, n, type, count, target)
            i == t.maxIno
<1>1. /\ Running /\ Steady(s, {p}) /\ (Found(s, p) => s.status = "ok") /\ p \in Dirs
      /\ maxIno < MaxIno /\ maxIno \in Inos
  <2>1. Running /\ p \in Dirs /\ maxIno < MaxIno
    BY DEF MakeIn, Base, KnownTyped, Directories
  <2>2. maxIno \in Inos
    BY DEF Base, TypeOK
  <2>. QED
    BY <2>1, <2>2, OneLoaded
<1>2. CASE Fail(s)
  BY <1>1, <1>2, FailQuiet
<1>3. CASE /\ Found(s, p) /\ ~InDirectory(s, p, n)
           /\ Finish(Put(Put(t, p), i), "ok", Attr(t, i),
                     IF count = 1 THEN opened \cup {i} ELSE opened)
  <2>1. PICK j \in Inos : j = maxIno + 1
    <3>1. maxIno + 1 \in Inos
      BY <1>1, NamespaceAssumption DEF Inos
    <3>. QED
      BY <3>1
  <2>2. ~NamedIn(objects[p], n) /\ s.status = "ok"
    BY <1>1, <1>3, DirLookupIs
  <2>. HIDE DEF s
  <2>3. /\ t \in States
        /\ \/ t.status = "no_slot" /\ t.maxIno \in Inos
           \/ MadeAs(s, t, p, j, n, type, count, Contents(type, target, p, j))
    BY <1>1, <1>3, <2>1, <2>2, MakeIs
  <2>. HIDE DEF t
  <2>4. CASE t.status = "no_slot" /\ t.maxIno \in Inos
    BY <1>3, <2>3, <2>4, BothPanicked DEF Statuses
  <2>5. CASE MadeAs(s, t, p, j, n, type, count, Contents(type, target, p, j))
    <3>1. i = j
      BY <2>5 DEF MadeAs
    <3>2. Finish(Put(Put(t, p), j), "ok", Attr(t, j),
                 IF count = 1 THEN opened \cup {j} ELSE opened)
      BY <1>3, <3>1
    <3>3. p \in Inos \cap Dirs /\ Found(s, p) /\ Steady(s, {p}) /\ Running
      BY <1>1, <1>3
    <3>4. Base' /\ Done /\ Made(p, n, j)
      BY <2>1, <2>2, <2>5, <3>2, <3>3, MakeLeaves
    <3>. QED
      BY <3>4
  <2>. QED
    BY <2>3, <2>4, <2>5
<1>. QED
  BY <1>2, <1>3 DEF MakeIn

-----------------------------------------------------------------------------
(* Every handler.                                                            *)

(* A step that changes the tree.                                             *)
Changed ==
  \/ \E p \in Inos, n \in Names, i \in Inos : \/ Made(p, n, i) \/ Linked(i, p, n)
                                              \/ Unlinked(p, n, i) \/ Removed(p, n, i)
  \/ \E i \in Inos : Resized(i)

LEMMA ByNameDone ==
  ASSUME Base, NEW p \in Inos, NEW n \in Names, ByName(p, n)
  PROVE  Calm \/ (Base' /\ Done /\ Changed)
<1>1. CASE Mknod(p, n) \/ Mkdir(p, n) \/ Create(p, n) \/ Symlink(p, n)
  <2>1. {"file", "directory", "symlink"} = Types /\ <<>> \in {<<>>, <<Byte>>}
        /\ <<Byte>> \in {<<>>, <<Byte>>} /\ 0 \in {0, 1} /\ 1 \in {0, 1}
    BY DEF Types
  <2>2. Calm \/ (Base' /\ Done /\ \E i \in Inos : Made(p, n, i))
    BY <1>1, <2>1, MakeDone DEF Mknod, Mkdir, Create, Symlink
  <2>. QED
    BY <2>2 DEF Changed
<1>2. CASE Unlink(p, n)
  BY <1>2, UnlinkDone DEF Changed
<1>3. CASE Rmdir(p, n)
  BY <1>3, RmdirDone DEF Changed
<1>. QED
  BY <1>1, <1>2, <1>3 DEF ByName

LEMMA NextDone ==
  ASSUME Base, Next
  PROVE  Calm \/ (Base' /\ Done /\ Changed)
<1>0. Names \ Short \subseteq Names /\ 0 .. MaxSize \subseteq Nat
  OBVIOUS
<1>1. CASE \E p \in Inos, n \in Names : Lookup(p, n)
  BY <1>1, LookupQuiet
<1>2. CASE \E p \in Inos, n \in Names \ Short : ByName(p, n)
  BY <1>2, ByNameDone
<1>3. CASE \E i \in Inos, p \in Inos, n \in Names \ Short : Link(i, p, n)
  BY <1>3, LinkDone DEF Changed
<1>4. CASE \E i \in Inos : ByInode(i)
  BY <1>4, ByInodeQuiet
<1>5. CASE \E i \in Inos, last \in BOOLEAN : Release(i, last)
  BY <1>5, ReleaseQuiet
<1>6. CASE \E i \in Inos, n \in 0 .. MaxSize :
             SetSize(i, n) \/ Read(i, n) \/ Write(i, n) \/ ReadDir(i, n)
  <2>1. PICK i \in Inos, n \in 0 .. MaxSize :
             SetSize(i, n) \/ Read(i, n) \/ Write(i, n) \/ ReadDir(i, n)
    BY <1>6
  <2>2. n \in Nat
    OBVIOUS
  <2>. QED
    BY <2>1, <2>2, SetSizeDone, ReadQuiet, WriteDone, ReadDirQuiet DEF Changed
<1>. QED
  BY <1>1, <1>2, <1>3, <1>4, <1>5, <1>6 DEF Next

LEMMA BaseInit ==
  ASSUME Init
  PROVE  Base
<1>. DEFINE d == [name |-> ".", ino |-> Root]
<1>0. Root \in Inos /\ 2 \in 0 .. LinkMax /\ 0 \in 0 .. LinkMax
  BY RootIno, NamespaceAssumption
<1>1. d \in Record /\ d \in Entry2
  BY <1>0 DEF Record, Entry2
<1>2. Free \in [type : Types, size : Nat, n_link : 0 .. LinkMax, ref_cnt : 0 .. 1,
                valid : BOOLEAN] /\ Free.ref_cnt = 0
  BY <1>0 DEF Free, Types
<1>. HIDE DEF d
<1>3. /\ <<d>> \in Seq(Record) /\ <<d>> \in Seq(Entry2) /\ <<>> \in Seq(Record)
      /\ Len(<<d>>) = 1 /\ Len(<<>>) = 0 /\ <<d>>[1] = d /\ DOMAIN <<d>> = 1 .. 1
  BY <1>1
<1>4. /\ \A i \in Inos : meta[i] = IF i = Root THEN [type |-> "directory", size |-> 1,
                                                     n_link |-> 2] ELSE None
      /\ \A i \in Inos : objects[i] = IF i = Root THEN <<d>> ELSE <<>>
      /\ \A i \in Inos : cache[i] = Free
      /\ \A i \in Inos : known[i] = IF i = Root THEN "directory" ELSE None
      /\ maxIno = Root /\ opened = {} /\ reply = "none" /\ status = "ok"
  BY DEF Init, d
<1>5. TypeOK
  <2>1. meta \in [Inos -> Meta \cup {None}]
    BY <1>0 DEF Init, Meta, Types
  <2>2. objects \in [Inos -> Seq(Record)]
    BY <1>3 DEF Init, d
  <2>3. cache \in [Inos -> [type : Types, size : Nat, n_link : 0 .. LinkMax,
                            ref_cnt : 0 .. 1, valid : BOOLEAN]]
    BY <1>2 DEF Init
  <2>4. known \in [Inos -> Types \cup {None}]
    BY DEF Init, Types
  <2>. QED
    BY <1>0, <1>4, <2>1, <2>2, <2>3, <2>4 DEF TypeOK
<1>6. \A i \in Inos : Exists(i) <=> i = Root
  <2>1. [type |-> "directory", size |-> 1, n_link |-> 2] \in Meta
    BY <1>0 DEF Meta, Types
  <2>2. [type |-> "directory", size |-> 1, n_link |-> 2] # None
    BY <2>1, NothingAssumption
  <2>. QED
    BY <1>4, <2>2 DEF Exists
<1>7. Dirs = {Root}
  BY <1>0, <1>4, <1>6 DEF Dirs
<1>8. LoadedIsStored
  <2>1. Live = {}
    BY <1>2, <1>4 DEF Live
  <2>2. ASSUME NEW i \in Inos
        PROVE  Len(objects[i]) = IF Exists(i) THEN meta[i].size ELSE 0
    <3>1. CASE i = Root
      <4>1. Exists(i) /\ objects[i] = <<d>> /\ meta[i].size = 1
        BY <1>4, <1>6, <3>1
      <4>. QED
        BY <1>3, <4>1
    <3>2. CASE i # Root
      <4>1. ~Exists(i) /\ objects[i] = <<>>
        BY <1>4, <1>6, <3>2
      <4>. QED
        BY <1>3, <4>1
    <3>. QED
      BY <3>1, <3>2
  <2>. QED
    BY <2>1, <2>2 DEF LoadedIsStored
<1>9. Fresh
  BY <1>4, <1>6 DEF Fresh, Inos, Root
<1>10. KnownTyped
  <2>1. None # "directory"
    BY NothingAssumption DEF Types
  <2>. QED
    BY <1>0, <1>4, <1>7, <2>1 DEF KnownTyped
<1>11. DirShaped(Root, <<d>>)
  <2>1. Heads(Root) = 1
    BY DEF Heads
  <2>2. Distinct(<<d>>)
    BY <1>3 DEF Distinct
  <2>3. Heads(Root) + 1 .. Len(<<d>>) = {}
    BY <1>3, <2>1
  <2>. QED
    BY <1>3, <2>1, <2>2, <2>3 DEF DirShaped, d
<1>12. DirsShaped
  BY <1>0, <1>4, <1>7, <1>11 DEF DirsShaped
<1>. QED
  BY <1>5, <1>8, <1>9, <1>10, <1>12 DEF Base

(* Between handlers the state is sound: what TypeOK, LoadedIsStored and      *)
(* SuccessReleases say is kept by every step.                                *)
Steps == [Next]_vars

LEMMA StepKeeps ==
  ASSUME Base, Steps
  PROVE  Base' /\ Releases
<1>1. CASE Next
  BY <1>1, NextDone DEF Calm, Done
<1>2. CASE UNCHANGED vars
  <2>1. Base'
    BY <1>2 DEF vars, Base, TypeOK, LoadedIsStored, Live, Exists, Fresh, KnownTyped, DirsShaped,
                Dirs
  <2>2. Live' = Live
    BY <1>2 DEF vars, Live
  <2>. QED
    BY <2>1, <2>2 DEF Releases
<1>. QED
  BY <1>1, <1>2 DEF Steps

(* The inductive invariant: its parts need each other, for what a handler    *)
(* finds by name or is told by the kernel is what an earlier one has left.   *)
THEOREM BaseKept == Spec => []Base
<1>1. Init => Base
  BY BaseInit
<1>2. Base /\ [Next]_vars => Base'
  BY StepKeeps DEF Steps
<1>. QED
  BY <1>1, <1>2, PTL DEF Spec

(* Whatever the handlers do, in any order, the stored, the loaded and the    *)
(* kernel's state are typed; no inode stays counted twice.                   *)
THEOREM TypeCorrect == Spec => []TypeOK
<1>1. Base => TypeOK
  BY DEF Base
<1>. QED
  BY <1>1, BaseKept, PTL

(* An inode that a handler has left loaded is never stale, for any number of *)
(* inodes and any capacity of the buffer, and stored sizes are exact.        *)
THEOREM LoadedExact == Spec => []LoadedIsStored
<1>1. Base => LoadedIsStored
  BY DEF Base
<1>. QED
  BY <1>1, BaseKept, PTL

(* A handler that succeeds lets go of every inode it was the first to load,  *)
(* but those the kernel has a handle for.                                    *)
THEOREM KeepsNothing == Spec => SuccessReleases
<1>. DEFINE A == \A i \in Inos : i \in Live' \ Live /\ reply' = "ok" => i \in opened'
<1>1. Base /\ [Next]_vars => A
  BY StepKeeps DEF Steps, Releases
<1>2. Base /\ [Next]_vars => [A]_vars
  BY <1>1
<1>. HIDE DEF A
<1>3. Spec => [][A]_vars
  BY <1>2, BaseKept, PTL DEF Spec
<1>. QED
  BY <1>3 DEF SuccessReleases, A

-----------------------------------------------------------------------------
(* The tree: which names there are, and where a directory's ".." leads.      *)

Named(q, m, j) == q \in Dirs /\ [name |-> m, ino |-> j] \in Entries(q)
Up(d, q) == d \in Dirs /\ [name |-> "..", ino |-> q] \in Entries(d)

LEMMA EntryIs ==
  ASSUME Base, NEW q \in Dirs, NEW e \in Entries(q)
  PROVE  /\ e \in Entry2 /\ e = [name |-> e.name, ino |-> e.ino]
         /\ e.name = "." => e.ino = q
         /\ e.name = ".." => q # Root
         /\ e.name \in Names => e.ino # Root
         /\ \A f \in Entries(q) : e.name = f.name => e = f
<1>1. DirShaped(q, objects[q])
  BY DEF Base, DirsShaped
<1>2. /\ objects[q] \in Seq(Entry2) /\ Len(objects[q]) \in Nat
      /\ Len(objects[q]) >= Heads(q) /\ Heads(q) \in {1, 2}
  BY <1>1 DEF DirShaped, Heads
<1>3. PICK k \in 1 .. Len(objects[q]) : e = objects[q][k]
  BY <1>2 DEF Entries
<1>4. e \in Entry2 /\ e = [name |-> e.name, ino |-> e.ino]
  <2>1. e \in Entry2
    BY <1>2, <1>3
  <2>. QED
    BY <2>1 DEF Entry2
<1>5. \A f \in Entries(q) : e.name = f.name => e = f
  BY <1>1, <1>2, <1>3 DEF DirShaped, Distinct, Entries
<1>6. "." \notin Names /\ ".." \notin Names
  BY NamespaceAssumption
<1>7. CASE k = 1
  <2>1. e.name = "." /\ e.ino = q
    BY <1>1, <1>3, <1>7 DEF DirShaped
  <2>. QED
    BY <1>4, <1>5, <1>6, <2>1
<1>8. CASE k = 2 /\ q # Root
  <2>1. e.name = ".."
    BY <1>1, <1>3, <1>8 DEF DirShaped
  <2>. QED
    BY <1>4, <1>5, <1>6, <1>8, <2>1
<1>9. CASE k \in Heads(q) + 1 .. Len(objects[q])
  <2>1. e.name \in Names /\ e.ino # Root
    BY <1>1, <1>3, <1>9 DEF DirShaped
  <2>. QED
    BY <1>4, <1>5, <1>6, <2>1
<1>10. k = 1 \/ (k = 2 /\ q # Root) \/ k \in Heads(q) + 1 .. Len(objects[q])
  BY <1>2 DEF Heads
<1>. QED
  BY <1>7, <1>8, <1>9, <1>10

(* A name names one inode, and never the root.                               *)
LEMMA OneInode ==
  ASSUME Base, NEW q \in Inos, NEW m \in Names, NEW j \in Inos, Named(q, m, j)
  PROVE  /\ q \in Dirs /\ j # Root
         /\ \A i \in Inos : Named(q, m, i) => i = j
<1>. DEFINE e == [name |-> m, ino |-> j]
<1>1. e.name = m /\ e.ino = j
  OBVIOUS
<1>2. q \in Dirs /\ e \in Entries(q)
  BY DEF Named
<1>. HIDE DEF e
<1>3. j # Root /\ \A f \in Entries(q) : e.name = f.name => e = f
  BY <1>1, <1>2, EntryIs
<1>4. ASSUME NEW i \in Inos, Named(q, m, i)
      PROVE  i = j
  <2>. DEFINE f == [name |-> m, ino |-> i]
  <2>1. f.name = m /\ f.ino = i
    OBVIOUS
  <2>2. f \in Entries(q)
    BY <1>4 DEF Named
  <2>. HIDE DEF f
  <2>. QED
    BY <1>1, <1>3, <2>1, <2>2
<1>. QED
  BY <1>2, <1>3, <1>4

LEMMA LinksToIs ==
  ASSUME Base, NEW i \in Inos
  PROVE  /\ LinksTo(i) \subseteq Inos \X Names
         /\ \A q \in Inos, m \in Names : <<q, m>> \in LinksTo(i) <=> Named(q, m, i)
<1>1. Dirs \subseteq Inos
  BY DEF Dirs
<1>2. LinksTo(i) \subseteq Inos \X Names
  BY <1>1 DEF LinksTo
<1>3. ASSUME NEW q \in Inos, NEW m \in Names
      PROVE  <<q, m>> \in LinksTo(i) <=> Named(q, m, i)
  <2>1. ASSUME Named(q, m, i)
        PROVE  <<q, m>> \in LinksTo(i)
    <3>. DEFINE e == [name |-> m, ino |-> i]
    <3>1. q \in Dirs /\ e \in Entries(q) /\ e.name = m /\ e.ino = i
      BY <2>1 DEF Named
    <3>. HIDE DEF e
    <3>. QED
      BY <3>1 DEF LinksTo
  <2>2. ASSUME <<q, m>> \in LinksTo(i)
        PROVE  Named(q, m, i)
    <3>1. q \in Dirs /\ \E e \in Entries(q) : e.ino = i /\ e.name = m
      BY <2>2 DEF LinksTo
    <3>2. PICK e \in Entries(q) : e.ino = i /\ e.name = m
      BY <3>1
    <3>3. e = [name |-> e.name, ino |-> e.ino]
      BY <3>1, EntryIs
    <3>. QED
      BY <3>1, <3>2, <3>3 DEF Named
  <2>. QED
    BY <2>1, <2>2
<1>. QED
  BY <1>2, <1>3

(* What a step does to the names: none changes, one comes, one goes.         *)
SameNames ==
  \A q \in Inos, m \in Names, j \in Inos : Named(q, m, j)' <=> Named(q, m, j)
Gains(p, n, i) ==
  \A q \in Inos, m \in Names, j \in Inos :
    Named(q, m, j)' <=> (Named(q, m, j) \/ (q = p /\ m = n /\ j = i))
Loses(p, n, i) ==
  \A q \in Inos, m \in Names, j \in Inos :
    Named(q, m, j)' <=> (Named(q, m, j) /\ ~(q = p /\ m = n /\ j = i))

(* And to the ".." of the directories outside of X.                          *)
SameUps(X) == \A q \in Inos \ X, j \in Inos : Up(q, j)' <=> Up(q, j)

(* The tree is kept by each of them.  A directory has one name, where its    *)
(* ".." leads; a file as many as it has links, or fewer if hidden names have *)
(* been linked twice.                                                        *)
DirNamed(d) ==
  \E p \in Inos, n \in Names :
    /\ Named(p, n, d) /\ Up(d, p)
    /\ \A q \in Inos, m \in Names : Named(q, m, d) => q = p /\ m = n

FileNamed(i) ==
  /\ meta[i].n_link > 0 /\ IsFiniteSet(LinksTo(i))
  /\ Cardinality(LinksTo(i)) <= meta[i].n_link
  /\ Hidden = {} => Cardinality(LinksTo(i)) = meta[i].n_link

Tree ==
  /\ \A q \in Inos, m \in Names, j \in Inos : Named(q, m, j) => Exists(j)
  /\ \A d \in Dirs \ {Root} : DirNamed(d)
  /\ \A i \in Inos \ Dirs : Exists(i) => FileNamed(i)

(* A directory that has the same records.                                    *)
LEMMA SameEntries ==
  ASSUME NEW q \in Inos, Kept(q), objects'[q] = objects[q], NEW m, NEW j \in Inos
  PROVE  (Named(q, m, j)' <=> Named(q, m, j)) /\ (Up(q, j)' <=> Up(q, j))
<1>1. Entries(q)' = Entries(q)
  BY DEF Entries
<1>2. q \in Dirs' <=> q \in Dirs
  BY DEF Kept
<1>. QED
  BY <1>1, <1>2 DEF Named, Up

LEMMA NotNamed ==
  ASSUME NEW q \in Inos, q \notin Dirs, NEW m, NEW j \in Inos
  PROVE  ~Named(q, m, j) /\ ~Up(q, j)
BY DEF Named, Up

LEMMA NotNamedNext ==
  ASSUME NEW q \in Inos, q \notin Dirs', NEW m, NEW j \in Inos
  PROVE  ~Named(q, m, j)' /\ ~Up(q, j)'
BY DEF Named, Up

(* A directory that has a record more.                                       *)
LEMMA GainsEntry ==
  ASSUME Base, NEW p \in Inos \cap Dirs, Kept(p), NEW n \in Names, NEW i \in Inos \ {Root},
         ~NamedIn(objects[p], n),
         objects'[p] = Append(objects[p], [name |-> n, ino |-> i]),
         NEW m \in Names, NEW j \in Inos
  PROVE  /\ Named(p, m, j)' <=> (Named(p, m, j) \/ (m = n /\ j = i))
         /\ Up(p, j)' <=> Up(p, j)
         /\ ~Named(p, n, j)
<1>. DEFINE a == [name |-> n, ino |-> i]
            e == [name |-> m, ino |-> j]
            u == [name |-> "..", ino |-> j]
<1>1. p \in Dirs' /\ DirShaped(p, objects[p])
  BY DEF Base, DirsShaped, Kept
<1>2. Entries(p)' = Elems(objects'[p]) /\ Entries(p) = Elems(objects[p])
  BY DEF Entries, Elems
<1>3. Elems(objects'[p]) = Elems(objects[p]) \cup {a}
  BY <1>1, AppendShaped
<1>4. e = a <=> m = n /\ j = i
  OBVIOUS
<1>5. u # a
  <2>1. u.name = ".." /\ a.name = n /\ n # ".."
    BY NamespaceAssumption
  <2>. HIDE DEF u, a
  <2>. QED
    BY <2>1
<1>6. ~Named(p, n, j)
  <2>. DEFINE f == [name |-> n, ino |-> j]
  <2>1. f.name = n
    OBVIOUS
  <2>. HIDE DEF f
  <2>2. f \notin Entries(p)
    BY <2>1 DEF Entries, NamedIn
  <2>. QED
    BY <2>2 DEF Named, f
<1>7. Named(p, m, j)' <=> e \in Entries(p)'
  BY <1>1 DEF Named
<1>8. Named(p, m, j) <=> e \in Entries(p)
  BY DEF Named
<1>9. Up(p, j)' <=> u \in Entries(p)'
  BY <1>1 DEF Up
<1>10. Up(p, j) <=> u \in Entries(p)
  BY DEF Up
<1>. HIDE DEF a, e, u
<1>. QED
  BY <1>2, <1>3, <1>4, <1>5, <1>6, <1>7, <1>8, <1>9, <1>10

(* A directory that has a record less.                                       *)
LEMMA LosesEntry ==
  ASSUME Base, NEW p \in Inos \cap Dirs, Kept(p), NEW n \in Names, NEW i \in Inos,
         NEW k \in Heads(p) + 1 .. Len(objects[p]),
         objects[p][k] = [name |-> n, ino |-> i],
         objects'[p] = Without(objects[p], k - 1, 1),
         NEW m \in Names, NEW j \in Inos
  PROVE  /\ Named(p, m, j)' <=> (Named(p, m, j) /\ ~(m = n /\ j = i))
         /\ Up(p, j)' <=> Up(p, j)
         /\ Named(p, n, i)
<1>. DEFINE a == [name |-> n, ino |-> i]
            e == [name |-> m, ino |-> j]
            u == [name |-> "..", ino |-> j]
<1>1. p \in Dirs' /\ DirShaped(p, objects[p])
  BY DEF Base, DirsShaped, Kept
<1>2. Entries(p)' = Elems(objects'[p]) /\ Entries(p) = Elems(objects[p])
  BY DEF Entries, Elems
<1>3. Elems(objects'[p]) = Elems(objects[p]) \ {a}
  BY <1>1, WithoutShaped
<1>4. e = a <=> m = n /\ j = i
  OBVIOUS
<1>5. u # a
  <2>1. u.name = ".." /\ a.name = n /\ n # ".."
    BY NamespaceAssumption
  <2>. HIDE DEF u, a
  <2>. QED
    BY <2>1
<1>6. a \in Entries(p)
  <2>1. k \in DOMAIN objects[p]
    <3>1. objects[p] \in Seq(Entry2) /\ Len(objects[p]) \in Nat /\ Heads(p) \in {1, 2}
      BY <1>1 DEF DirShaped, Heads
    <3>. QED
      BY <3>1
  <2>. QED
    BY <2>1 DEF Entries
<1>7. Named(p, m, j)' <=> e \in Entries(p)'
  BY <1>1 DEF Named
<1>8. Named(p, m, j) <=> e \in Entries(p)
  BY DEF Named
<1>9. Up(p, j)' <=> u \in Entries(p)'
  BY <1>1 DEF Up
<1>10. Up(p, j) <=> u \in Entries(p)
  BY DEF Up
<1>11. Named(p, n, i)
  BY <1>6 DEF Named
<1>. HIDE DEF a, e, u
<1>. QED
  BY <1>2, <1>3, <1>4, <1>5, <1>7, <1>8, <1>9, <1>10, <1>11

LEMMA MadeNames ==
  ASSUME Base, NEW p \in Inos, NEW n \in Names, NEW i \in Inos, Made(p, n, i)
  PROVE  /\ Gains(p, n, i) /\ SameUps({i})
         /\ \A j \in Inos : ~Named(p, n, j)
         /\ i \in Dirs' => Up(i, p)'
<1>1. /\ p \in Dirs /\ i # p /\ i # Root /\ i \notin Dirs /\ Kept(p) /\ Alone({p, i})
      /\ ~NamedIn(objects[p], n)
      /\ objects'[p] = Append(objects[p], [name |-> n, ino |-> i])
  BY DEF Made, Dirs
<1>2. i \in Dirs' => Entries(i)' = {[name |-> ".", ino |-> i], [name |-> "..", ino |-> p]}
  <2>. SUFFICES ASSUME i \in Dirs'
                PROVE  Entries(i)' = {[name |-> ".", ino |-> i], [name |-> "..", ino |-> p]}
    OBVIOUS
  <2>1. objects'[i] = NewDirectory(i, p)
    BY DEF Made
  <2>2. Elems(objects'[i]) = {[name |-> ".", ino |-> i], [name |-> "..", ino |-> p]}
    BY <1>1, <2>1, NewShaped
  <2>. QED
    BY <2>2 DEF Entries, Elems
<1>3. ASSUME NEW q \in Inos, NEW m \in Names, NEW j \in Inos
      PROVE  /\ Named(q, m, j)' <=> (Named(q, m, j) \/ (q = p /\ m = n /\ j = i))
             /\ q # i => (Up(q, j)' <=> Up(q, j))
  <2>1. CASE q = p
    <3>1. /\ Named(p, m, j)' <=> (Named(p, m, j) \/ (m = n /\ j = i))
          /\ Up(p, j)' <=> Up(p, j)
      BY <1>1, GainsEntry
    <3>. QED
      BY <2>1, <3>1
  <2>2. CASE q = i
    <3>1. ~Named(i, m, j)
      BY <1>1, NotNamed
    <3>2. ~Named(i, m, j)'
      <4>1. CASE i \in Dirs'
        <5>. DEFINE e == [name |-> m, ino |-> j]
                    a == [name |-> ".", ino |-> i]
                    b == [name |-> "..", ino |-> p]
        <5>1. e.name \in Names /\ a.name \notin Names /\ b.name \notin Names
          BY NamespaceAssumption
        <5>. HIDE DEF e, a, b
        <5>2. e \notin Entries(i)'
          BY <1>2, <4>1, <5>1 DEF a, b
        <5>. QED
          BY <5>2 DEF Named, e
      <4>2. CASE i \notin Dirs'
        BY <4>2, NotNamedNext
      <4>. QED
        BY <4>1, <4>2
    <3>. QED
      BY <1>1, <2>2, <3>1, <3>2
  <2>3. CASE q \notin {p, i}
    <3>1. Kept(q) /\ objects'[q] = objects[q]
      BY <1>1, <2>3 DEF Alone
    <3>2. (Named(q, m, j)' <=> Named(q, m, j)) /\ (Up(q, j)' <=> Up(q, j))
      BY <3>1, SameEntries
    <3>. QED
      BY <2>3, <3>2
  <2>. QED
    BY <2>1, <2>2, <2>3
<1>4. \A j \in Inos : ~Named(p, n, j)
  BY <1>1, GainsEntry
<1>5. i \in Dirs' => Up(i, p)'
  BY <1>2 DEF Up
<1>. QED
  BY <1>3, <1>4, <1>5 DEF Gains, SameUps

LEMMA LinkedNames ==
  ASSUME Base, NEW p \in Inos, NEW n \in Names, NEW i \in Inos, Linked(i, p, n)
  PROVE  /\ SameUps({})
         /\ \/ Gains(p, n, i) /\ \A j \in Inos : ~Named(p, n, j)
            \/ n \in Hidden /\ SameNames
<1>1. /\ p \in Dirs /\ i # p /\ i # Root /\ i \notin Dirs /\ i \notin Dirs'
      /\ Kept(p) /\ Alone({p, i})
  BY DEF Linked, Base, KnownTyped
<1>2. ASSUME NEW q \in Inos \ {p}, NEW m \in Names, NEW j \in Inos
      PROVE  (Named(q, m, j)' <=> Named(q, m, j)) /\ (Up(q, j)' <=> Up(q, j))
  <2>1. CASE q = i
    BY <1>1, <2>1, NotNamed, NotNamedNext
  <2>2. CASE q # i
    <3>1. Kept(q) /\ objects'[q] = objects[q]
      BY <1>1, <2>2 DEF Alone
    <3>. QED
      BY <3>1, SameEntries
  <2>. QED
    BY <2>1, <2>2
<1>3. CASE /\ ~NamedIn(objects[p], n)
           /\ objects'[p] = Append(objects[p], [name |-> n, ino |-> i])
  <2>1. ASSUME NEW m \in Names, NEW j \in Inos
        PROVE  /\ Named(p, m, j)' <=> (Named(p, m, j) \/ (m = n /\ j = i))
               /\ Up(p, j)' <=> Up(p, j)
               /\ ~Named(p, n, j)
    BY <1>1, <1>3, GainsEntry
  <2>. QED
    BY <1>2, <2>1 DEF Gains, SameUps
<1>4. CASE n \in Hidden /\ objects'[p] = objects[p]
  <2>1. ASSUME NEW m \in Names, NEW j \in Inos
        PROVE  (Named(p, m, j)' <=> Named(p, m, j)) /\ (Up(p, j)' <=> Up(p, j))
    BY <1>1, <1>4, SameEntries
  <2>. QED
    BY <1>2, <1>4, <2>1 DEF SameNames, SameUps
<1>. QED
  BY <1>3, <1>4 DEF Linked

LEMMA UnlinkedNames ==
  ASSUME Base, NEW p \in Inos, NEW n \in Names, NEW i \in Inos, Unlinked(p, n, i)
  PROVE  Loses(p, n, i) /\ SameUps({}) /\ Named(p, n, i)
<1>1. /\ p \in Dirs /\ i # p /\ i \notin Dirs /\ i \notin Dirs' /\ Kept(p) /\ Alone({p, i})
  BY DEF Unlinked
<1>2. PICK k \in Heads(p) + 1 .. Len(objects[p]) :
        /\ objects[p][k] = [name |-> n, ino |-> i]
        /\ objects'[p] = Without(objects[p], k - 1, 1)
  BY DEF Unlinked
<1>3. ASSUME NEW q \in Inos, NEW m \in Names, NEW j \in Inos
      PROVE  /\ Named(q, m, j)' <=> (Named(q, m, j) /\ ~(q = p /\ m = n /\ j = i))
             /\ Up(q, j)' <=> Up(q, j)
  <2>1. CASE q = p
    <3>1. /\ Named(p, m, j)' <=> (Named(p, m, j) /\ ~(m = n /\ j = i))
          /\ Up(p, j)' <=> Up(p, j)
      BY <1>1, <1>2, LosesEntry
    <3>. QED
      BY <2>1, <3>1
  <2>2. CASE q = i
    BY <1>1, <2>2, NotNamed, NotNamedNext
  <2>3. CASE q \notin {p, i}
    <3>1. Kept(q) /\ objects'[q] = objects[q]
      BY <1>1, <2>3 DEF Alone
    <3>2. (Named(q, m, j)' <=> Named(q, m, j)) /\ (Up(q, j)' <=> Up(q, j))
      BY <3>1, SameEntries
    <3>. QED
      BY <2>3, <3>2
  <2>. QED
    BY <2>1, <2>2, <2>3
<1>4. Named(p, n, i)
  BY <1>1, <1>2, LosesEntry
<1>. QED
  BY <1>3, <1>4 DEF Loses, SameUps

(* A directory of two records holds no name.                                 *)
LEMMA HoldsNone ==
  ASSUME Base, NEW i \in Inos \cap Dirs, i # Root, Len(objects[i]) <= 2,
         NEW m \in Names, NEW j \in Inos
  PROVE  ~Named(i, m, j)
<1>. DEFINE e == [name |-> m, ino |-> j]
<1>1. DirShaped(i, objects[i])
  BY DEF Base, DirsShaped
<1>2. /\ objects[i] \in Seq(Entry2) /\ Len(objects[i]) = 2
      /\ objects[i][1].name = "." /\ objects[i][2].name = ".."
  <2>1. /\ objects[i] \in Seq(Entry2) /\ Len(objects[i]) >= Heads(i)
        /\ objects[i][1] = [name |-> ".", ino |-> i] /\ objects[i][2].name = ".."
    BY <1>1 DEF DirShaped
  <2>2. Heads(i) = 2
    BY DEF Heads
  <2>3. Len(objects[i]) \in Nat /\ Len(objects[i]) >= 2
    BY <2>1, <2>2
  <2>4. \A l \in Nat : l >= 2 /\ l <= 2 => l = 2
    OBVIOUS
  <2>5. Len(objects[i]) = 2
    BY <2>3, <2>4
  <2>. QED
    BY <2>1, <2>5
<1>3. "." \notin Names /\ ".." \notin Names /\ e.name \in Names
  BY NamespaceAssumption
<1>. HIDE DEF e
<1>4. \A k \in DOMAIN objects[i] : objects[i][k] # e
  <2>1. DOMAIN objects[i] = 1 .. 2
    BY <1>2
  <2>. QED
    BY <1>2, <1>3, <2>1
<1>5. e \notin Entries(i)
  BY <1>4 DEF Entries
<1>. QED
  BY <1>5 DEF Named, e

LEMMA RemovedNames ==
  ASSUME Base, NEW p \in Inos, NEW n \in Names, NEW i \in Inos, Removed(p, n, i)
  PROVE  /\ Loses(p, n, i) /\ SameUps({i}) /\ Named(p, n, i)
         /\ \A m \in Names, j \in Inos : ~Named(i, m, j)
<1>1. /\ p \in Dirs /\ i # p /\ i # Root /\ i \in Dirs /\ i \notin Dirs'
      /\ Kept(p) /\ Alone({p, i}) /\ Len(objects[i]) <= 2
  BY DEF Removed, Dirs
<1>2. PICK k \in Heads(p) + 1 .. Len(objects[p]) :
        /\ objects[p][k] = [name |-> n, ino |-> i]
        /\ objects'[p] = Without(objects[p], k - 1, 1)
  BY DEF Removed
<1>3. \A m \in Names, j \in Inos : ~Named(i, m, j)
  BY <1>1, HoldsNone
<1>4. ASSUME NEW q \in Inos, NEW m \in Names, NEW j \in Inos
      PROVE  /\ Named(q, m, j)' <=> (Named(q, m, j) /\ ~(q = p /\ m = n /\ j = i))
             /\ q # i => (Up(q, j)' <=> Up(q, j))
  <2>1. CASE q = p
    <3>1. /\ Named(p, m, j)' <=> (Named(p, m, j) /\ ~(m = n /\ j = i))
          /\ Up(p, j)' <=> Up(p, j)
      BY <1>1, <1>2, LosesEntry
    <3>. QED
      BY <2>1, <3>1
  <2>2. CASE q = i
    BY <1>1, <1>3, <2>2, NotNamedNext
  <2>3. CASE q \notin {p, i}
    <3>1. Kept(q) /\ objects'[q] = objects[q]
      BY <1>1, <2>3 DEF Alone
    <3>2. (Named(q, m, j)' <=> Named(q, m, j)) /\ (Up(q, j)' <=> Up(q, j))
      BY <3>1, SameEntries
    <3>. QED
      BY <2>3, <3>2
  <2>. QED
    BY <2>1, <2>2, <2>3
<1>5. Named(p, n, i)
  BY <1>1, <1>2, LosesEntry
<1>. QED
  BY <1>3, <1>4, <1>5 DEF Loses, SameUps

LinksAre ==
  \A i \in Inos : /\ LinksTo(i) \subseteq Inos \X Names
                  /\ \A q \in Inos, m \in Names : <<q, m>> \in LinksTo(i) <=> Named(q, m, i)

LEMMA LinksNow == Base => LinksAre
BY LinksToIs DEF LinksAre

LEMMA LinksNext == Base' => LinksAre'
BY LinksNow, PTL

LEMMA LinksEqual ==
  ASSUME NEW A, NEW B, A \subseteq Inos \X Names, B \subseteq Inos \X Names,
         \A q \in Inos, m \in Names : <<q, m>> \in A <=> <<q, m>> \in B
  PROVE  A = B
<1>1. \A l \in Inos \X Names : l = <<l[1], l[2]>> /\ l[1] \in Inos /\ l[2] \in Names
  OBVIOUS
<1>2. \A l \in Inos \X Names : l \in A <=> l \in B
  BY <1>1
<1>. QED
  BY <1>2

LEMMA SameLinks ==
  ASSUME Base, Base', NEW j \in Inos,
         \A q \in Inos, m \in Names : Named(q, m, j)' <=> Named(q, m, j)
  PROVE  LinksTo(j)' = LinksTo(j)
<1>. DEFINE A == LinksTo(j)'
            B == LinksTo(j)
<1>1. /\ A \subseteq Inos \X Names /\ B \subseteq Inos \X Names
      /\ \A q \in Inos, m \in Names : <<q, m>> \in A <=> Named(q, m, j)'
      /\ \A q \in Inos, m \in Names : <<q, m>> \in B <=> Named(q, m, j)
  BY LinksNow, LinksNext DEF LinksAre
<1>. HIDE DEF A, B
<1>2. A = B
  BY <1>1, LinksEqual
<1>. QED
  BY <1>2 DEF A, B

LEMMA GainsLinks ==
  ASSUME Base, Base', NEW p \in Inos, NEW n \in Names, NEW i \in Inos, Gains(p, n, i),
         ~Named(p, n, i)
  PROVE  /\ LinksTo(i)' = LinksTo(i) \cup {<<p, n>>} /\ <<p, n>> \notin LinksTo(i)
         /\ \A j \in Inos \ {i} : LinksTo(j)' = LinksTo(j)
<1>. DEFINE A == LinksTo(i)'
            B == LinksTo(i)
<1>1. /\ A \subseteq Inos \X Names /\ B \subseteq Inos \X Names
      /\ \A q \in Inos, m \in Names : <<q, m>> \in A <=> Named(q, m, i)'
      /\ \A q \in Inos, m \in Names : <<q, m>> \in B <=> Named(q, m, i)
  BY LinksNow, LinksNext DEF LinksAre
<1>2. \A q \in Inos, m \in Names : Named(q, m, i)' <=> (Named(q, m, i) \/ (q = p /\ m = n))
  BY DEF Gains
<1>. HIDE DEF A, B
<1>3. A = B \cup {<<p, n>>}
  <2>1. B \cup {<<p, n>>} \subseteq Inos \X Names
    BY <1>1
  <2>2. \A q \in Inos, m \in Names : <<q, m>> \in A <=> <<q, m>> \in B \cup {<<p, n>>}
    BY <1>1, <1>2
  <2>. QED
    BY <1>1, <2>1, <2>2, LinksEqual
<1>4. ASSUME NEW j \in Inos \ {i}
      PROVE  LinksTo(j)' = LinksTo(j)
  <2>1. \A q \in Inos, m \in Names : Named(q, m, j)' <=> Named(q, m, j)
    BY DEF Gains
  <2>. QED
    BY <2>1, SameLinks
<1>. QED
  BY <1>1, <1>3, <1>4 DEF A, B

LEMMA LosesLinks ==
  ASSUME Base, Base', NEW p \in Inos, NEW n \in Names, NEW i \in Inos, Loses(p, n, i),
         Named(p, n, i)
  PROVE  /\ LinksTo(i)' = LinksTo(i) \ {<<p, n>>} /\ <<p, n>> \in LinksTo(i)
         /\ \A j \in Inos \ {i} : LinksTo(j)' = LinksTo(j)
<1>. DEFINE A == LinksTo(i)'
            B == LinksTo(i)
<1>1. /\ A \subseteq Inos \X Names /\ B \subseteq Inos \X Names
      /\ \A q \in Inos, m \in Names : <<q, m>> \in A <=> Named(q, m, i)'
      /\ \A q \in Inos, m \in Names : <<q, m>> \in B <=> Named(q, m, i)
  BY LinksNow, LinksNext DEF LinksAre
<1>2. \A q \in Inos, m \in Names : Named(q, m, i)' <=> (Named(q, m, i) /\ ~(q = p /\ m = n))
  BY DEF Loses
<1>. HIDE DEF A, B
<1>3. A = B \ {<<p, n>>}
  <2>1. B \ {<<p, n>>} \subseteq Inos \X Names
    BY <1>1
  <2>2. \A q \in Inos, m \in Names : <<q, m>> \in A <=> <<q, m>> \in B \ {<<p, n>>}
    BY <1>1, <1>2
  <2>. QED
    BY <1>1, <2>1, <2>2, LinksEqual
<1>4. ASSUME NEW j \in Inos \ {i}
      PROVE  LinksTo(j)' = LinksTo(j)
  <2>1. \A q \in Inos, m \in Names : Named(q, m, j)' <=> Named(q, m, j)
    BY DEF Loses
  <2>. QED
    BY <2>1, SameLinks
<1>. QED
  BY <1>1, <1>3, <1>4 DEF A, B

(* A file that is linked as before.                                          *)
LEMMA FileKept ==
  ASSUME NEW j \in Inos, Exists(j), Kept(j), LinksTo(j)' = LinksTo(j), FileNamed(j)
  PROVE  FileNamed(j)'
BY DEF FileNamed, Kept

(* A directory, neither made nor removed, that has the same names.           *)
LEMMA DirKept ==
  ASSUME NEW d \in Inos, DirNamed(d),
         \A q \in Inos, m \in Names : Named(q, m, d)' <=> Named(q, m, d),
         \A q \in Inos : Up(d, q)' <=> Up(d, q)
  PROVE  DirNamed(d)'
<1>1. PICK p \in Inos, n \in Names :
        /\ Named(p, n, d) /\ Up(d, p)
        /\ \A q \in Inos, m \in Names : Named(q, m, d) => q = p /\ m = n
  BY DEF DirNamed
<1>2. /\ Named(p, n, d)' /\ Up(d, p)'
      /\ \A q \in Inos, m \in Names : Named(q, m, d)' => q = p /\ m = n
  BY <1>1
<1>. QED
  BY <1>2 DEF DirNamed

(* No name changes: a file may have another size, or a hidden name counted   *)
(* again.                                                                    *)
LEMMA SameTree ==
  ASSUME Base, Base', Tree, SameNames, SameUps({}),
         \A j \in Inos : (Exists(j)' <=> Exists(j)) /\ (j \in Dirs' <=> j \in Dirs),
         \A j \in Inos \ Dirs : Exists(j) => Kept(j) \/ (/\ Hidden # {}
                                                         /\ meta'[j].n_link > meta[j].n_link)
  PROVE  Tree'
<1>1. \A q \in Inos, m \in Names, j \in Inos : Named(q, m, j)' => Exists(j)'
  BY DEF Tree, SameNames
<1>2. ASSUME NEW d \in Dirs' \ {Root}
      PROVE  DirNamed(d)'
  <2>1. d \in Inos /\ d \in Dirs
    BY DEF Dirs
  <2>2. DirNamed(d)
    BY <2>1 DEF Tree
  <2>. QED
    BY <2>1, <2>2, DirKept DEF SameNames, SameUps
<1>3. ASSUME NEW j \in Inos \ Dirs', Exists(j)'
      PROVE  FileNamed(j)'
  <2>1. Exists(j) /\ j \notin Dirs /\ FileNamed(j)
    BY <1>3 DEF Tree
  <2>2. LinksTo(j)' = LinksTo(j)
    BY SameLinks DEF SameNames
  <2>3. CASE Kept(j)
    BY <2>1, <2>2, <2>3, FileKept
  <2>4. CASE Hidden # {} /\ meta'[j].n_link > meta[j].n_link
    <3>1. meta[j].n_link \in Nat /\ meta'[j].n_link \in Nat
      <4>1. meta[j] \in Meta /\ meta'[j] \in Meta
        BY <1>3, <2>1 DEF Base, TypeOK, Exists
      <4>. QED
        BY <4>1 DEF Meta
    <3>2. IsFiniteSet(LinksTo(j)) /\ Cardinality(LinksTo(j)) <= meta[j].n_link
      BY <2>1 DEF FileNamed
    <3>3. Cardinality(LinksTo(j)) \in Nat
      BY <3>2, FS_CardinalityType
    <3>. QED
      BY <2>2, <2>4, <3>1, <3>2, <3>3 DEF FileNamed
  <2>. QED
    BY <2>1, <2>3, <2>4
<1>. QED
  BY <1>1, <1>2, <1>3 DEF Tree

LEMMA QuietNames ==
  ASSUME Base, Base', Quiet
  PROVE  SameNames /\ SameUps({}) /\ \A j \in Inos : Kept(j)
<1>1. ASSUME NEW q \in Inos
      PROVE  Kept(q) /\ objects'[q] = objects[q]
  <2>1. Seen(meta'[q]) = Seen(meta[q])
    BY DEF Quiet
  <2>. QED
    BY <2>1, SeenKept DEF Base, Quiet
<1>2. \A q \in Inos, m \in Names, j \in Inos :
        (Named(q, m, j)' <=> Named(q, m, j)) /\ (Up(q, j)' <=> Up(q, j))
  BY <1>1, SameEntries
<1>3. SameNames
  BY <1>2 DEF SameNames
<1>4. SameUps({})
  <2>. SUFFICES ASSUME NEW q \in Inos, NEW j \in Inos
                PROVE  Up(q, j)' <=> Up(q, j)
    BY DEF SameUps
  <2>. QED
    BY <1>1, SameEntries
<1>. QED
  BY <1>1, <1>3, <1>4

LEMMA ResizedNames ==
  ASSUME Base, Base', NEW i \in Inos, Resized(i)
  PROVE  SameNames /\ SameUps({}) /\ \A j \in Inos : Kept(j)
<1>1. i \notin Dirs /\ Kept(i) /\ Alone({i}) /\ i \notin Dirs'
  BY DEF Resized, Kept
<1>2. ASSUME NEW q \in Inos, NEW m, NEW j \in Inos
      PROVE  (Named(q, m, j)' <=> Named(q, m, j)) /\ (Up(q, j)' <=> Up(q, j))
  <2>1. CASE q = i
    BY <1>1, <2>1, NotNamed, NotNamedNext
  <2>2. CASE q # i
    <3>1. Kept(q) /\ objects'[q] = objects[q]
      BY <1>1, <2>2 DEF Alone
    <3>. QED
      BY <3>1, SameEntries
  <2>. QED
    BY <2>1, <2>2
<1>3. SameNames
  BY <1>2 DEF SameNames
<1>4. SameUps({})
  <2>. SUFFICES ASSUME NEW q \in Inos, NEW j \in Inos
                PROVE  Up(q, j)' <=> Up(q, j)
    BY DEF SameUps
  <2>. QED
    BY <1>2
<1>. QED
  BY <1>1, <1>3, <1>4 DEF Alone

LEMMA KeptTree ==
  ASSUME Base, Base', Tree, SameNames, SameUps({}), \A j \in Inos : Kept(j)
  PROVE  Tree'
<1>1. \A j \in Inos : (Exists(j)' <=> Exists(j)) /\ (j \in Dirs' <=> j \in Dirs)
  BY DEF Kept
<1>. QED
  BY <1>1, SameTree

LEMMA MadeTree ==
  ASSUME Base, Base', Tree, NEW p \in Inos, NEW n \in Names, NEW i \in Inos, Made(p, n, i)
  PROVE  Tree'
<1>1. /\ Gains(p, n, i) /\ SameUps({i}) /\ ~Named(p, n, i)
      /\ i \in Dirs' => Up(i, p)'
  BY MadeNames
<1>2. /\ ~Exists(i) /\ Exists(i)' /\ \A j \in Inos \ {i} : Kept(j)
  BY DEF Made, Alone
<1>3. \A q \in Inos, m \in Names : ~Named(q, m, i)
  BY <1>2 DEF Tree
<1>4. ASSUME NEW q \in Inos, NEW m \in Names, NEW j \in Inos, Named(q, m, j)'
      PROVE  Exists(j)'
  <2>1. CASE j = i
    BY <1>2, <2>1
  <2>2. CASE j # i
    <3>1. Named(q, m, j)
      BY <1>1, <1>4, <2>2 DEF Gains
    <3>2. Exists(j)
      BY <3>1 DEF Tree
    <3>. QED
      BY <1>2, <2>2, <3>2 DEF Kept
  <2>. QED
    BY <2>1, <2>2
<1>5. ASSUME NEW d \in Dirs' \ {Root}
      PROVE  DirNamed(d)'
  <2>0. d \in Inos
    BY DEF Dirs
  <2>1. CASE d = i
    <3>1. Named(p, n, i)' /\ Up(i, p)'
      BY <1>1, <2>1 DEF Gains
    <3>2. \A q \in Inos, m \in Names : Named(q, m, i)' => q = p /\ m = n
      BY <1>1, <1>3 DEF Gains
    <3>. QED
      BY <2>1, <3>1, <3>2 DEF DirNamed
  <2>2. CASE d # i
    <3>1. d \in Dirs
      BY <1>2, <2>0, <2>2 DEF Kept
    <3>2. DirNamed(d)
      BY <3>1 DEF Tree
    <3>3. \A q \in Inos, m \in Names : Named(q, m, d)' <=> Named(q, m, d)
      BY <1>1, <2>0, <2>2 DEF Gains
    <3>4. \A q \in Inos : Up(d, q)' <=> Up(d, q)
      BY <1>1, <2>0, <2>2 DEF SameUps
    <3>. QED
      BY <2>0, <3>2, <3>3, <3>4, DirKept
  <2>. QED
    BY <2>1, <2>2
<1>6. ASSUME NEW j \in Inos \ Dirs', Exists(j)'
      PROVE  FileNamed(j)'
  <2>1. CASE j = i
    <3>1. LinksTo(i) = {}
      <4>1. /\ LinksTo(i) \subseteq Inos \X Names
            /\ \A q \in Inos, m \in Names : <<q, m>> \notin LinksTo(i)
        BY <1>3, LinksNow DEF LinksAre
      <4>2. {} \subseteq Inos \X Names /\ \A q \in Inos, m \in Names : <<q, m>> \notin {}
        OBVIOUS
      <4>. QED
        BY <4>1, <4>2, LinksEqual
    <3>2. LinksTo(i)' = {<<p, n>>}
      <4>1. LinksTo(i)' = LinksTo(i) \cup {<<p, n>>}
        BY <1>1, GainsLinks
      <4>. QED
        BY <3>1, <4>1
    <3>3. IsFiniteSet(LinksTo(i)') /\ Cardinality(LinksTo(i)') = 1
      BY <3>2, FS_Singleton
    <3>4. meta'[i].n_link = 1
      BY <2>1 DEF Made
    <3>. QED
      BY <2>1, <3>3, <3>4 DEF FileNamed
  <2>2. CASE j # i
    <3>1. Kept(j) /\ Exists(j) /\ j \notin Dirs
      BY <1>2, <1>6, <2>2 DEF Kept
    <3>2. FileNamed(j)
      BY <3>1 DEF Tree
    <3>3. LinksTo(j)' = LinksTo(j)
      BY <1>1, <2>2, GainsLinks
    <3>. QED
      BY <3>1, <3>2, <3>3, FileKept
  <2>. QED
    BY <2>1, <2>2
<1>. QED
  BY <1>4, <1>5, <1>6 DEF Tree

LEMMA NewLink ==
  ASSUME NEW S, IsFiniteSet(S), NEW l, l \notin S
  PROVE  /\ IsFiniteSet(S \cup {l}) /\ Cardinality(S) \in Nat
         /\ Cardinality(S \cup {l}) = Cardinality(S) + 1
<1>1. IsFiniteSet(S \cup {l}) /\ Cardinality(S) \in Nat
  BY FS_AddElement, FS_CardinalityType
<1>2. Cardinality(S \cup {l}) = Cardinality(S) + 1
  BY FS_AddElement
<1>. QED
  BY <1>1, <1>2

LEMMA LinkedTree ==
  ASSUME OverflowChecks, Base, Base', Tree,
         NEW p \in Inos, NEW n \in Names, NEW i \in Inos, Linked(i, p, n)
  PROVE  Tree'
<1>1. /\ SameUps({})
      /\ \/ Gains(p, n, i) /\ ~Named(p, n, i)
         \/ n \in Hidden /\ SameNames
  BY LinkedNames
<1>2. /\ i \notin Dirs /\ Exists(i) /\ Exists(i)' /\ i \notin Dirs'
      /\ \A j \in Inos \ {i} : Kept(j)
      /\ meta[i].n_link < LinkMax /\ meta'[i].n_link = meta[i].n_link + 1
  BY DEF Linked, Alone
<1>3. \A j \in Inos : (Exists(j)' <=> Exists(j)) /\ (j \in Dirs' <=> j \in Dirs)
  BY <1>2 DEF Kept
<1>4. meta[i].n_link \in Nat /\ FileNamed(i)
  <2>1. meta[i] \in Meta
    BY <1>2 DEF Base, TypeOK, Exists
  <2>. QED
    BY <1>2, <2>1 DEF Tree, Meta
<1>5. CASE n \in Hidden /\ SameNames
  <2>1. Hidden # {} /\ meta'[i].n_link > meta[i].n_link
    BY <1>2, <1>4, <1>5
  <2>. QED
    BY <1>1, <1>2, <1>3, <1>5, <2>1, SameTree
<1>6. CASE Gains(p, n, i) /\ ~Named(p, n, i)
  <2>1. ASSUME NEW q \in Inos, NEW m \in Names, NEW j \in Inos, Named(q, m, j)'
        PROVE  Exists(j)'
    <3>1. Named(q, m, j) \/ j = i
      BY <1>6, <2>1 DEF Gains
    <3>2. Exists(j)
      BY <1>2, <3>1 DEF Tree
    <3>. QED
      BY <1>3, <3>2
  <2>2. ASSUME NEW d \in Dirs' \ {Root}
        PROVE  DirNamed(d)'
    <3>1. d \in Inos /\ d \in Dirs /\ d # i
      BY <1>2, <1>3 DEF Dirs
    <3>2. DirNamed(d)
      BY <3>1 DEF Tree
    <3>3. \A q \in Inos, m \in Names : Named(q, m, d)' <=> Named(q, m, d)
      BY <1>6, <3>1 DEF Gains
    <3>4. \A q \in Inos : Up(d, q)' <=> Up(d, q)
      BY <1>1, <3>1 DEF SameUps
    <3>. QED
      BY <3>1, <3>2, <3>3, <3>4, DirKept
  <2>3. ASSUME NEW j \in Inos \ Dirs', Exists(j)'
        PROVE  FileNamed(j)'
    <3>1. CASE j = i
      <4>1. /\ LinksTo(i)' = LinksTo(i) \cup {<<p, n>>} /\ <<p, n>> \notin LinksTo(i)
        BY <1>6, GainsLinks
      <4>2. /\ IsFiniteSet(LinksTo(i)') /\ Cardinality(LinksTo(i)) \in Nat
            /\ Cardinality(LinksTo(i)') = Cardinality(LinksTo(i)) + 1
        <5>1. IsFiniteSet(LinksTo(i))
          BY <1>4 DEF FileNamed
        <5>. QED
          BY <4>1, <5>1, NewLink
      <4>. QED
        BY <1>2, <1>4, <3>1, <4>2 DEF FileNamed
    <3>2. CASE j # i
      <4>1. Kept(j) /\ Exists(j) /\ j \notin Dirs
        BY <1>2, <1>3, <2>3, <3>2
      <4>2. FileNamed(j)
        BY <4>1 DEF Tree
      <4>3. LinksTo(j)' = LinksTo(j)
        BY <1>6, <3>2, GainsLinks
      <4>. QED
        BY <4>1, <4>2, <4>3, FileKept
    <3>. QED
      BY <3>1, <3>2
  <2>. QED
    BY <2>1, <2>2, <2>3 DEF Tree
<1>. QED
  BY <1>1, <1>5, <1>6

(* A file whose last link goes has one name, the one that goes with it.      *)
LEMMA LastLink ==
  ASSUME NEW S, IsFiniteSet(S), NEW l \in S
  PROVE  /\ Cardinality(S) \in Nat /\ Cardinality(S) >= 1
         /\ IsFiniteSet(S \ {l}) /\ Cardinality(S \ {l}) = Cardinality(S) - 1
         /\ Cardinality(S) <= 1 => S \ {l} = {}
<1>1. /\ IsFiniteSet(S \ {l}) /\ Cardinality(S \ {l}) = Cardinality(S) - 1
      /\ Cardinality(S) \in Nat /\ Cardinality(S \ {l}) \in Nat
  BY FS_RemoveElement, FS_CardinalityType
<1>2. Cardinality(S) >= 1
  BY <1>1
<1>3. Cardinality(S) <= 1 => Cardinality(S \ {l}) = 0
  BY <1>1
<1>4. Cardinality(S \ {l}) = 0 => S \ {l} = {}
  BY <1>1, FS_EmptySet
<1>. QED
  BY <1>1, <1>2, <1>3, <1>4

LEMMA UnlinkedTree ==
  ASSUME OverflowChecks, Base, Base', Tree,
         NEW p \in Inos, NEW n \in Names, NEW i \in Inos, Unlinked(p, n, i)
  PROVE  Tree'
<1>1. Loses(p, n, i) /\ SameUps({}) /\ Named(p, n, i)
  BY UnlinkedNames
<1>2. /\ i \notin Dirs /\ Exists(i) /\ i \notin Dirs'
      /\ \A j \in Inos \ {i} : Kept(j)
      /\ \/ meta[i].n_link = 1 /\ ~Exists(i)'
         \/ /\ meta[i].n_link # 1 /\ Exists(i)'
            /\ meta'[i].n_link = meta[i].n_link - 1
  BY DEF Unlinked, Alone
<1>3. meta[i].n_link \in Nat /\ FileNamed(i)
  <2>1. meta[i] \in Meta
    BY <1>2 DEF Base, TypeOK, Exists
  <2>. QED
    BY <1>2, <2>1 DEF Tree, Meta
<1>4. /\ LinksTo(i)' = LinksTo(i) \ {<<p, n>>} /\ <<p, n>> \in LinksTo(i)
      /\ \A j \in Inos \ {i} : LinksTo(j)' = LinksTo(j)
  BY <1>1, LosesLinks
<1>5. /\ Cardinality(LinksTo(i)) \in Nat /\ Cardinality(LinksTo(i)) >= 1
      /\ IsFiniteSet(LinksTo(i)') /\ Cardinality(LinksTo(i)') = Cardinality(LinksTo(i)) - 1
      /\ Cardinality(LinksTo(i)) <= 1 => LinksTo(i)' = {}
  BY <1>3, <1>4, LastLink DEF FileNamed
<1>6. ~Exists(i)' => \A q \in Inos, m \in Names : ~Named(q, m, i)'
  <2>1. ~Exists(i)' => LinksTo(i)' = {}
    BY <1>2, <1>3, <1>5 DEF FileNamed
  <2>. QED
    BY <2>1, LinksNext DEF LinksAre
<1>7. ASSUME NEW q \in Inos, NEW m \in Names, NEW j \in Inos, Named(q, m, j)'
      PROVE  Exists(j)'
  <2>1. Exists(j)
    BY <1>1, <1>7 DEF Tree, Loses
  <2>. QED
    BY <1>2, <1>6, <1>7, <2>1 DEF Kept
<1>8. ASSUME NEW d \in Dirs' \ {Root}
      PROVE  DirNamed(d)'
  <2>1. d \in Inos /\ d # i
    BY <1>2 DEF Dirs
  <2>2. d \in Dirs
    BY <1>2, <2>1 DEF Kept
  <2>3. DirNamed(d)
    BY <2>2 DEF Tree
  <2>4. \A q \in Inos, m \in Names : Named(q, m, d)' <=> Named(q, m, d)
    BY <1>1, <2>1 DEF Loses
  <2>5. \A q \in Inos : Up(d, q)' <=> Up(d, q)
    BY <1>1, <2>1 DEF SameUps
  <2>. QED
    BY <2>1, <2>3, <2>4, <2>5, DirKept
<1>9. ASSUME NEW j \in Inos \ Dirs', Exists(j)'
      PROVE  FileNamed(j)'
  <2>1. CASE j = i
    <3>1. meta[i].n_link # 1 /\ meta'[i].n_link = meta[i].n_link - 1
      BY <1>2, <1>9, <2>1
    <3>. QED
      BY <1>3, <1>5, <2>1, <3>1 DEF FileNamed
  <2>2. CASE j # i
    <3>1. Kept(j) /\ Exists(j) /\ j \notin Dirs
      BY <1>2, <1>9, <2>2 DEF Kept
    <3>2. FileNamed(j)
      BY <3>1 DEF Tree
    <3>3. LinksTo(j)' = LinksTo(j)
      BY <1>4, <2>2
    <3>. QED
      BY <3>1, <3>2, <3>3, FileKept
  <2>. QED
    BY <2>1, <2>2
<1>. QED
  BY <1>7, <1>8, <1>9 DEF Tree

LEMMA RemovedTree ==
  ASSUME Base, Base', Tree, NEW p \in Inos, NEW n \in Names, NEW i \in Inos, Removed(p, n, i)
  PROVE  Tree'
<1>1. Loses(p, n, i) /\ SameUps({i}) /\ Named(p, n, i)
  BY RemovedNames
<1>2. /\ i \in Dirs \ {Root} /\ ~Exists(i)' /\ i \notin Dirs'
      /\ \A j \in Inos \ {i} : Kept(j)
  BY DEF Removed, Alone, Dirs
<1>3. \A q \in Inos, m \in Names : ~Named(q, m, i)'
  <2>1. DirNamed(i)
    BY <1>2 DEF Tree
  <2>2. \A q \in Inos, m \in Names : Named(q, m, i) => q = p /\ m = n
    BY <1>1, <2>1 DEF DirNamed
  <2>. QED
    BY <1>1, <2>2 DEF Loses
<1>4. \A j \in Inos \ {i} : LinksTo(j)' = LinksTo(j)
  BY <1>1, LosesLinks
<1>5. ASSUME NEW q \in Inos, NEW m \in Names, NEW j \in Inos, Named(q, m, j)'
      PROVE  Exists(j)'
  <2>1. Exists(j) /\ j # i
    BY <1>1, <1>3, <1>5 DEF Tree, Loses
  <2>. QED
    BY <1>2, <2>1 DEF Kept
<1>6. ASSUME NEW d \in Dirs' \ {Root}
      PROVE  DirNamed(d)'
  <2>1. d \in Inos /\ d # i
    BY <1>2 DEF Dirs
  <2>2. d \in Dirs
    BY <1>2, <2>1 DEF Kept
  <2>3. DirNamed(d)
    BY <2>2 DEF Tree
  <2>4. \A q \in Inos, m \in Names : Named(q, m, d)' <=> Named(q, m, d)
    BY <1>1, <2>1 DEF Loses
  <2>5. \A q \in Inos : Up(d, q)' <=> Up(d, q)
    BY <1>1, <2>1 DEF SameUps
  <2>. QED
    BY <2>1, <2>3, <2>4, <2>5, DirKept
<1>7. ASSUME NEW j \in Inos \ Dirs', Exists(j)'
      PROVE  FileNamed(j)'
  <2>1. j # i
    BY <1>2, <1>7
  <2>2. Kept(j) /\ Exists(j) /\ j \notin Dirs
    BY <1>2, <1>7, <2>1 DEF Kept
  <2>3. FileNamed(j)
    BY <2>2 DEF Tree
  <2>4. LinksTo(j)' = LinksTo(j)
    BY <1>4, <2>1
  <2>. QED
    BY <2>2, <2>3, <2>4, FileKept
<1>. QED
  BY <1>5, <1>6, <1>7 DEF Tree

LEMMA TreeStep ==
  ASSUME OverflowChecks, Base, Tree, Steps
  PROVE  Base' /\ Tree'
<1>1. Base'
  BY StepKeeps
<1>2. CASE Quiet
  BY <1>1, <1>2, QuietNames, KeptTree
<1>3. CASE Changed
  <2>1. CASE \E p \in Inos, n \in Names, i \in Inos : Made(p, n, i)
    BY <1>1, <2>1, MadeTree
  <2>2. CASE \E p \in Inos, n \in Names, i \in Inos : Linked(i, p, n)
    BY <1>1, <2>2, LinkedTree
  <2>3. CASE \E p \in Inos, n \in Names, i \in Inos : Unlinked(p, n, i)
    BY <1>1, <2>3, UnlinkedTree
  <2>4. CASE \E p \in Inos, n \in Names, i \in Inos : Removed(p, n, i)
    BY <1>1, <2>4, RemovedTree
  <2>5. CASE \E i \in Inos : Resized(i)
    BY <1>1, <2>5, ResizedNames, KeptTree
  <2>. QED
    BY <1>3, <2>1, <2>2, <2>3, <2>4, <2>5 DEF Changed
<1>4. CASE UNCHANGED vars
  BY <1>2, <1>4 DEF vars, Quiet
<1>5. Next => Quiet \/ Changed
  BY NextDone DEF Calm
<1>. QED
  BY <1>1, <1>2, <1>3, <1>4, <1>5 DEF Steps

(* At first there is the root, and no name.                                  *)
LEMMA InitNames ==
  ASSUME Init
  PROVE  /\ Base /\ Root \in Inos /\ Root \in Dirs /\ Exists(Root)
         /\ \A i \in Inos \ {Root} : ~Exists(i) /\ i \notin Dirs
         /\ \A q \in Inos, m \in Names, j \in Inos : ~Named(q, m, j)
<1>1. Base
  BY BaseInit
<1>2. /\ Root \in Inos /\ \A i \in Inos \ {Root} : meta[i] = None
      /\ objects[Root] = <<[name |-> ".", ino |-> Root]>>
  BY RootIno DEF Init
<1>3. /\ Root \in Dirs /\ Exists(Root)
      /\ \A i \in Inos \ {Root} : ~Exists(i) /\ i \notin Dirs
  BY <1>1, <1>2 DEF Base, KnownTyped, Dirs, Exists
<1>4. ASSUME NEW q \in Inos, NEW m \in Names, NEW j \in Inos, Named(q, m, j)
      PROVE  FALSE
  <2>. DEFINE e == [name |-> m, ino |-> j]
  <2>1. q = Root /\ e \in Entries(q) /\ e.name \in Names
    BY <1>3, <1>4 DEF Named
  <2>. HIDE DEF e
  <2>2. e = objects[Root][1]
    BY <1>2, <2>1 DEF Entries
  <2>3. e.name = "."
    BY <1>2, <2>2
  <2>. QED
    BY <2>1, <2>3, NamespaceAssumption
<1>. QED
  BY <1>1, <1>2, <1>3, <1>4

LEMMA TreeInit ==
  ASSUME Init
  PROVE  Base /\ Tree
<1>1. /\ Base /\ \A i \in Inos \ {Root} : ~Exists(i) /\ i \notin Dirs
      /\ \A q \in Inos, m \in Names, j \in Inos : ~Named(q, m, j)
      /\ Root \in Dirs
  BY InitNames
<1>2. Dirs \subseteq Inos
  BY DEF Dirs
<1>. QED
  BY <1>1, <1>2 DEF Tree

(* Every record names an inode that exists: "." and ".." too.                *)
LEMMA TreeNames ==
  ASSUME Base, Tree
  PROVE  NamesExist
<1>. SUFFICES ASSUME NEW p \in Dirs, NEW e \in Entries(p)
              PROVE  Exists(e.ino)
  BY DEF NamesExist
<1>1. /\ p \in Inos /\ Exists(p)
      /\ e \in Entry2 /\ e = [name |-> e.name, ino |-> e.ino]
      /\ e.name = "." => e.ino = p
      /\ e.name = ".." => p # Root
      /\ \A f \in Entries(p) : e.name = f.name => e = f
  BY EntryIs DEF Dirs
<1>2. e.ino \in Inos /\ e.name \in Names \cup {".", ".."}
  BY <1>1 DEF Entry2
<1>3. CASE e.name = "."
  BY <1>1, <1>3
<1>4. CASE e.name = ".."
  <2>1. DirNamed(p)
    BY <1>1, <1>4 DEF Tree
  <2>2. PICK q \in Inos, n \in Names : Named(q, n, p) /\ Up(p, q)
    BY <2>1 DEF DirNamed
  <2>. DEFINE f == [name |-> "..", ino |-> q]
  <2>3. f \in Entries(p) /\ f.name = ".." /\ f.ino = q
    BY <2>2 DEF Up
  <2>. HIDE DEF f
  <2>4. e.ino = q
    BY <1>1, <1>4, <2>3
  <2>5. Exists(q)
    BY <2>2 DEF Named, Dirs
  <2>. QED
    BY <2>4, <2>5
<1>5. CASE e.name \in Names
  <2>1. Named(p, e.name, e.ino)
    BY <1>1 DEF Named
  <2>. QED
    BY <1>1, <1>2, <1>5, <2>1 DEF Tree
<1>. QED
  BY <1>2, <1>3, <1>4, <1>5

LEMMA TreeIsShaped ==
  ASSUME Base, Tree
  PROVE  TreeShaped
<1>1. \A p \in Dirs : \A e \in Entries(p) : Exists(e.ino)
  BY TreeNames DEF NamesExist
<1>2. ASSUME NEW d \in Dirs \ {Root}
      PROVE  \E p \in Dirs, n \in Names :
               /\ LinksTo(d) = {<<p, n>>}
               /\ [name |-> "..", ino |-> p] \in Entries(d)
  <2>1. DirNamed(d) /\ d \in Inos
    BY DEF Tree, Dirs
  <2>2. PICK p \in Inos, n \in Names :
          /\ Named(p, n, d) /\ Up(d, p)
          /\ \A q \in Inos, m \in Names : Named(q, m, d) => q = p /\ m = n
    BY <2>1 DEF DirNamed
  <2>3. p \in Dirs /\ [name |-> "..", ino |-> p] \in Entries(d)
    BY <2>2 DEF Named, Up
  <2>4. LinksTo(d) = {<<p, n>>}
    <3>1. {<<p, n>>} \subseteq Inos \X Names
      OBVIOUS
    <3>2. /\ LinksTo(d) \subseteq Inos \X Names
          /\ \A q \in Inos, m \in Names : <<q, m>> \in LinksTo(d) <=> <<q, m>> \in {<<p, n>>}
      BY <2>1, <2>2, LinksNow DEF LinksAre
    <3>. QED
      BY <3>1, <3>2, LinksEqual
  <2>. QED
    BY <2>3, <2>4
<1>. QED
  BY <1>1, <1>2 DEF TreeShaped

LEMMA TreeIsLinked ==
  ASSUME Tree, Hidden = {}
  PROVE  LinksExact
BY DEF Tree, FileNamed, LinksExact, Dirs

-----------------------------------------------------------------------------
(* The inductive invariant of the tree.  Without overflow checks the count   *)
(* of a file wraps: one linked LinkMax + 2 times goes with the next name it  *)
(* loses.                                                                    *)
THEOREM TreeInvariant ==
  ASSUME OverflowChecks
  PROVE  Spec => [](Base /\ Tree)
<1>1. Init => Base /\ Tree
  BY TreeInit
<1>2. Base /\ Tree /\ [Next]_vars => Base' /\ Tree'
  BY TreeStep DEF Steps
<1>. QED
  BY <1>1, <1>2, PTL DEF Spec

(* In a build with overflow checks every record of a directory names an      *)
(* inode that exists, and every directory but the root has one name, in the  *)
(* directory its ".." leads to, whatever fails or panics meanwhile.          *)
THEOREM TreeKept ==
  ASSUME OverflowChecks
  PROVE  Spec => []TreeShaped
<1>1. Base /\ Tree => TreeShaped
  BY TreeIsShaped
<1>. QED
  BY <1>1, TreeInvariant, PTL

(* If no name is hidden from lookup, a file's link count is the number of    *)
(* its names: it exists exactly as long as it has one.                       *)
THEOREM LinksCounted ==
  ASSUME OverflowChecks, Hidden = {}
  PROVE  Spec => []LinksExact
<1>1. Tree => LinksExact
  BY TreeIsLinked
<1>. QED
  BY <1>1, TreeInvariant, PTL

(* No handler unwraps an inode that is not there or asserts that one that is *)
(* gone is valid: the ways a handler can panic are a full buffer, a short    *)
(* name and the two arithmetic overflows.                                    *)
NothingMissing == status \notin {"unwrap", "assert"}

(* With overflow trapped, no handler finds an inode or an object missing.    *)
THEOREM NeverMissing ==
  ASSUME OverflowChecks
  PROVE  Spec => []NothingMissing
<1>1. Init => NothingMissing
  BY DEF Init, NothingMissing
<1>2. Base /\ Tree /\ NothingMissing /\ [Next]_vars => NothingMissing'
  <2>. SUFFICES ASSUME Base, Tree, NothingMissing, [Next]_vars
                PROVE  NothingMissing'
    OBVIOUS
  <2>1. CASE Next
    BY <2>1, NextDone, TreeNames DEF Calm, Unmissed, Done, NothingMissing
  <2>2. CASE UNCHANGED vars
    BY <2>2 DEF vars, NothingMissing
  <2>. QED
    BY <2>1, <2>2
<1>. QED
  BY <1>1, <1>2, TreeInvariant, PTL DEF Spec

-----------------------------------------------------------------------------
(* The refinement of the tree of named files.                                *)

(* What the tree's variables stand for, by which inodes exist, which are     *)
(* directories, how many records they have and how they are named.           *)
Mapped ==
  /\ TreeKinds \in [Inos -> {"file", "directory", None}]
  /\ TreeSizes \in [Inos -> Nat]
  /\ TreeEntries \in [Inos -> [Names -> Inos \cup {None}]]
  /\ \A i \in Inos :
       /\ TreeKinds[i] = "directory" <=> i \in Dirs
       /\ TreeKinds[i] = None <=> ~Exists(i)
       /\ TreeSizes[i] = IF Exists(i) /\ i \notin Dirs THEN Len(objects[i]) ELSE 0
  /\ \A p \in Inos, n \in Names, i \in Inos : TreeEntries[p][n] = i <=> Named(p, n, i)

LEMMA MappedNow == Base => Mapped
<1>. SUFFICES ASSUME Base
              PROVE  Mapped
  OBVIOUS
<1>1. None # "file" /\ None # "directory" /\ None \notin Inos
  BY NothingAssumption DEF Types
<1>2. ASSUME NEW i \in Inos
      PROVE  /\ TreeKinds[i] \in {"file", "directory", None}
             /\ TreeKinds[i] = "directory" <=> i \in Dirs
             /\ TreeKinds[i] = None <=> ~Exists(i)
  <2>1. TreeKinds[i] = IF Exists(i) THEN Reloaded(meta[i].type) ELSE None
    BY DEF TreeKinds
  <2>2. i \in Dirs <=> Exists(i) /\ meta[i].type = "directory"
    BY DEF Dirs
  <2>. QED
    BY <1>1, <2>1, <2>2 DEF Reloaded
<1>3. ASSUME NEW i \in Inos
      PROVE  /\ TreeSizes[i] \in Nat
             /\ TreeSizes[i] = IF Exists(i) /\ i \notin Dirs THEN Len(objects[i]) ELSE 0
  <2>1. TreeSizes[i] = IF Exists(i) /\ i \notin Dirs THEN meta[i].size ELSE 0
    BY DEF TreeSizes
  <2>2. Exists(i) => Len(objects[i]) = meta[i].size
    BY DEF Base, LoadedIsStored
  <2>3. Len(objects[i]) \in Nat
    BY DEF Base, TypeOK
  <2>. QED
    BY <2>1, <2>2, <2>3
<1>4. ASSUME NEW p \in Inos, NEW n \in Names
      PROVE  /\ TreeEntries[p][n] \in Inos \cup {None}
             /\ \A i \in Inos : TreeEntries[p][n] = i <=> Named(p, n, i)
  <2>. DEFINE there == p \in Dirs /\ \E e \in Entries(p) : e.name = n
              c == CHOOSE e \in Entries(p) : e.name = n
  <2>1. TreeEntries[p][n] = IF there THEN c.ino ELSE None
    BY DEF TreeEntries
  <2>2. CASE there
    <3>1. p \in Dirs /\ c \in Entries(p) /\ c.name = n
      BY <2>2
    <3>. HIDE DEF c
    <3>2. c \in Entry2 /\ c = [name |-> n, ino |-> c.ino]
      BY <3>1, EntryIs
    <3>3. c.ino \in Inos /\ Named(p, n, c.ino)
      BY <3>1, <3>2 DEF Named, Entry2
    <3>4. \A i \in Inos : Named(p, n, i) => i = c.ino
      BY <3>3, OneInode
    <3>. QED
      BY <2>1, <2>2, <3>3, <3>4
  <2>3. CASE ~there
    <3>1. ASSUME NEW i \in Inos
          PROVE  ~Named(p, n, i)
      <4>. DEFINE f == [name |-> n, ino |-> i]
      <4>1. f.name = n
        OBVIOUS
      <4>. HIDE DEF f
      <4>2. ~(p \in Dirs /\ f \in Entries(p))
        BY <2>3, <4>1
      <4>. QED
        BY <4>2 DEF Named, f
    <3>. QED
      BY <1>1, <2>1, <2>3, <3>1
  <2>. QED
    BY <2>2, <2>3
<1>5. TreeKinds \in [Inos -> {"file", "directory", None}]
  <2>1. TreeKinds = [i \in Inos |-> TreeKinds[i]]
    BY DEF TreeKinds
  <2>. QED
    BY <1>2, <2>1
<1>6. TreeSizes \in [Inos -> Nat]
  <2>1. TreeSizes = [i \in Inos |-> TreeSizes[i]]
    BY DEF TreeSizes
  <2>. QED
    BY <1>3, <2>1
<1>7. TreeEntries \in [Inos -> [Names -> Inos \cup {None}]]
  <2>1. /\ TreeEntries = [p \in Inos |-> TreeEntries[p]]
        /\ \A p \in Inos : TreeEntries[p] = [n \in Names |-> TreeEntries[p][n]]
    BY DEF TreeEntries
  <2>2. \A p \in Inos : TreeEntries[p] \in [Names -> Inos \cup {None}]
    BY <1>4, <2>1
  <2>. QED
    BY <2>1, <2>2
<1>. QED
  BY <1>2, <1>3, <1>4, <1>5, <1>6, <1>7 DEF Mapped

LEMMA MappedNext == Base' => Mapped'
BY MappedNow, PTL

(* What a step leaves of the variables of the tree.                          *)
LEMMA KeptMapped ==
  ASSUME Base, Base', NEW j \in Inos, Kept(j)
  PROVE  /\ TreeKinds'[j] = TreeKinds[j]
         /\ objects'[j] = objects[j] \/ j \in Dirs \/ ~Exists(j) => TreeSizes'[j] = TreeSizes[j]
<1>1. Mapped /\ Mapped'
  BY MappedNow, MappedNext
<1>2. (Exists(j)' <=> Exists(j)) /\ (j \in Dirs' <=> j \in Dirs)
  BY DEF Kept
<1>. QED
  BY <1>1, <1>2 DEF Mapped

LEMMA SameEntriesMapped ==
  ASSUME Base, Base', SameNames
  PROVE  TreeEntries' = TreeEntries
<1>1. Mapped /\ Mapped'
  BY MappedNow, MappedNext
<1>2. None \notin Inos
  BY NothingAssumption
<1>3. ASSUME NEW q \in Inos, NEW m \in Names
      PROVE  TreeEntries'[q][m] = TreeEntries[q][m]
  <2>1. TreeEntries'[q][m] \in Inos \cup {None} /\ TreeEntries[q][m] \in Inos \cup {None}
    BY <1>1 DEF Mapped
  <2>2. \A j \in Inos : TreeEntries'[q][m] = j <=> TreeEntries[q][m] = j
    BY <1>1 DEF Mapped, SameNames
  <2>. QED
    BY <1>2, <2>1, <2>2
<1>. QED
  BY <1>1, <1>3 DEF Mapped

LEMMA GainsMapped ==
  ASSUME Base, Base', NEW p \in Inos, NEW n \in Names, NEW i \in Inos, Gains(p, n, i),
         \A j \in Inos : ~Named(p, n, j)
  PROVE  TreeEntries' = [TreeEntries EXCEPT ![p][n] = i] /\ TreeEntries[p][n] = None
<1>1. Mapped /\ Mapped'
  BY MappedNow, MappedNext
<1>2. None \notin Inos
  BY NothingAssumption
<1>3. TreeEntries[p][n] = None
  <2>1. TreeEntries[p][n] \in Inos \cup {None} /\ TreeEntries[p][n] \notin Inos
    BY <1>1 DEF Mapped
  <2>. QED
    BY <2>1
<1>4. TreeEntries'[p][n] = i
  BY <1>1 DEF Mapped, Gains
<1>5. ASSUME NEW q \in Inos, NEW m \in Names, ~(q = p /\ m = n)
      PROVE  TreeEntries'[q][m] = TreeEntries[q][m]
  <2>1. TreeEntries'[q][m] \in Inos \cup {None} /\ TreeEntries[q][m] \in Inos \cup {None}
    BY <1>1 DEF Mapped
  <2>2. \A j \in Inos : TreeEntries'[q][m] = j <=> TreeEntries[q][m] = j
    BY <1>1, <1>5 DEF Mapped, Gains
  <2>. QED
    BY <1>2, <2>1, <2>2
<1>6. /\ TreeEntries \in [Inos -> [Names -> Inos \cup {None}]]
      /\ TreeEntries' \in [Inos -> [Names -> Inos \cup {None}]]
  BY <1>1 DEF Mapped
<1>. QED
  BY <1>3, <1>4, <1>5, <1>6

LEMMA LosesMapped ==
  ASSUME Base, Base', NEW p \in Inos, NEW n \in Names, NEW i \in Inos, Loses(p, n, i),
         Named(p, n, i)
  PROVE  TreeEntries' = [TreeEntries EXCEPT ![p][n] = None] /\ TreeEntries[p][n] = i
<1>1. Mapped /\ Mapped'
  BY MappedNow, MappedNext
<1>2. None \notin Inos
  BY NothingAssumption
<1>3. TreeEntries[p][n] = i
  BY <1>1 DEF Mapped
<1>4. TreeEntries'[p][n] = None
  <2>1. \A j \in Inos : ~Named(p, n, j)'
    BY OneInode DEF Loses
  <2>2. TreeEntries'[p][n] \in Inos \cup {None} /\ TreeEntries'[p][n] \notin Inos
    BY <1>1, <2>1 DEF Mapped
  <2>. QED
    BY <2>2
<1>5. ASSUME NEW q \in Inos, NEW m \in Names, ~(q = p /\ m = n)
      PROVE  TreeEntries'[q][m] = TreeEntries[q][m]
  <2>1. TreeEntries'[q][m] \in Inos \cup {None} /\ TreeEntries[q][m] \in Inos \cup {None}
    BY <1>1 DEF Mapped
  <2>2. \A j \in Inos : TreeEntries'[q][m] = j <=> TreeEntries[q][m] = j
    BY <1>1, <1>5 DEF Mapped, Loses
  <2>. QED
    BY <1>2, <2>1, <2>2
<1>6. /\ TreeEntries \in [Inos -> [Names -> Inos \cup {None}]]
      /\ TreeEntries' \in [Inos -> [Names -> Inos \cup {None}]]
  BY <1>1 DEF Mapped
<1>. QED
  BY <1>3, <1>4, <1>5, <1>6

(* The kinds and sizes of all inodes but i.                                  *)
LEMMA OthersMapped ==
  ASSUME Base, Base', NEW i \in Inos,
         \A j \in Inos \ {i} : Kept(j) /\ (objects'[j] = objects[j] \/ j \in Dirs)
  PROVE  /\ TreeKinds' = [TreeKinds EXCEPT ![i] = TreeKinds'[i]]
         /\ TreeSizes' = [TreeSizes EXCEPT ![i] = TreeSizes'[i]]
<1>1. \A j \in Inos \ {i} : TreeKinds'[j] = TreeKinds[j] /\ TreeSizes'[j] = TreeSizes[j]
  BY KeptMapped
<1>2. /\ TreeKinds \in [Inos -> {"file", "directory", None}]
      /\ TreeKinds' \in [Inos -> {"file", "directory", None}]
      /\ TreeSizes \in [Inos -> Nat] /\ TreeSizes' \in [Inos -> Nat]
  BY MappedNow, MappedNext DEF Mapped
<1>. QED
  BY <1>1, <1>2

(* The kind and the size of an inode.                                        *)
LEMMA KindIs ==
  ASSUME Base, NEW i \in Inos
  PROVE  /\ TreeKinds[i] = IF ~Exists(i) THEN None ELSE IF i \in Dirs THEN "directory" ELSE "file"
         /\ TreeSizes[i] = IF Exists(i) /\ i \notin Dirs THEN Len(objects[i]) ELSE 0
<1>1. Mapped /\ None \notin {"file", "directory"}
  BY MappedNow, NothingAssumption DEF Types
<1>2. i \in Dirs => Exists(i)
  BY DEF Dirs
<1>. QED
  BY <1>1, <1>2 DEF Mapped

KindsAre ==
  \A i \in Inos :
    /\ TreeKinds[i] = IF ~Exists(i) THEN None ELSE IF i \in Dirs THEN "directory" ELSE "file"
    /\ TreeSizes[i] = IF Exists(i) /\ i \notin Dirs THEN Len(objects[i]) ELSE 0

LEMMA KindsNow == Base => KindsAre
BY KindIs DEF KindsAre

LEMMA KindsNext == Base' => KindsAre'
BY KindsNow, PTL

(* An inode that is not a directory names nothing.                           *)
LEMMA NoNames ==
  ASSUME Base, NEW i \in Inos, \A m \in Names, j \in Inos : ~Named(i, m, j)
  PROVE  TreeEntries[i] = FT!NoEntries
<1>1. Mapped
  BY MappedNow
<1>2. TreeEntries[i] \in [Names -> Inos \cup {None}]
  BY <1>1 DEF Mapped
<1>3. ASSUME NEW m \in Names
      PROVE  TreeEntries[i][m] = None
  <2>1. TreeEntries[i][m] \in Inos \cup {None} /\ TreeEntries[i][m] \notin Inos
    BY <1>1, <1>2 DEF Mapped
  <2>. QED
    BY <2>1
<1>. QED
  BY <1>2, <1>3 DEF FT!NoEntries

LEMMA MadeImplements ==
  ASSUME Base, Base', NEW p \in Inos, NEW n \in Names, NEW i \in Inos, Made(p, n, i)
  PROVE  FT!Next
<1>. DEFINE kind == TreeKinds'[i]
            size == TreeSizes'[i]
<1>1. Gains(p, n, i) /\ \A j \in Inos : ~Named(p, n, j)
  BY MadeNames
<1>2. /\ p \in Dirs /\ i # p /\ ~Exists(i) /\ i \notin Dirs /\ Exists(i)'
      /\ \A j \in Inos \ {i} : Kept(j) /\ (objects'[j] = objects[j] \/ j \in Dirs)
      /\ i \notin Dirs' => Len(objects'[i]) \in {0, 1}
  BY DEF Made, Alone, Dirs
<1>3. TreeEntries' = [TreeEntries EXCEPT ![p][n] = i] /\ TreeEntries[p][n] = None
  BY <1>1, GainsMapped
<1>4. TreeEntries[i] = FT!NoEntries
  BY <1>2, NotNamed, NoNames
<1>5. TreeEntries \in [Inos -> [Names -> Inos \cup {None}]]
  BY MappedNow DEF Mapped
<1>6. TreeEntries' = [TreeEntries EXCEPT ![p][n] = i, ![i] = FT!NoEntries]
  BY <1>2, <1>3, <1>4, <1>5
<1>7. /\ TreeKinds' = [TreeKinds EXCEPT ![i] = kind]
      /\ TreeSizes' = [TreeSizes EXCEPT ![i] = size]
  BY <1>2, OthersMapped
<1>8. TreeKinds[i] = None /\ TreeKinds[p] = "directory"
  BY <1>2, KindsNow DEF KindsAre, Dirs
<1>9. kind \in {"file", "directory"} /\ size \in {0, 1} /\ (kind = "directory" => size = 0)
  BY <1>2, KindsNext DEF KindsAre
<1>. HIDE DEF kind, size
<1>10. FT!Make(p, n, i, kind, size)
  BY <1>3, <1>6, <1>7, <1>8, <1>9 DEF FT!Make, FT!IsDirectory
<1>11. kind \in FT!Kinds /\ p \in FT!Inos /\ i \in FT!Inos
  BY <1>9 DEF FT!Kinds, FT!Inos, Inos
<1>. QED
  BY <1>9, <1>10, <1>11 DEF FT!Next

LEMMA LinkedImplements ==
  ASSUME Base, Base', NEW p \in Inos, NEW n \in Names, NEW i \in Inos, Linked(i, p, n)
  PROVE  FT!Next \/ UNCHANGED FT!vars
<1>1. \/ Gains(p, n, i) /\ \A j \in Inos : ~Named(p, n, j)
      \/ SameNames
  BY LinkedNames
<1>2. /\ p \in Dirs /\ i \notin Dirs /\ Exists(i) /\ Exists(i)' /\ i \notin Dirs'
      /\ objects'[i] = objects[i]
      /\ \A j \in Inos \ {i} : Kept(j) /\ (objects'[j] = objects[j] \/ j \in Dirs)
  BY DEF Linked, Alone
<1>3. TreeKinds[p] = "directory" /\ TreeKinds[i] = "file"
  BY <1>2, KindsNow DEF KindsAre, Dirs
<1>4. TreeKinds'[i] = TreeKinds[i] /\ TreeSizes'[i] = TreeSizes[i]
  BY <1>2, KindsNow, KindsNext DEF KindsAre
<1>5. TreeKinds' = TreeKinds /\ TreeSizes' = TreeSizes
  <2>1. /\ TreeKinds' = [TreeKinds EXCEPT ![i] = TreeKinds'[i]]
        /\ TreeSizes' = [TreeSizes EXCEPT ![i] = TreeSizes'[i]]
    BY <1>2, OthersMapped
  <2>2. TreeKinds \in [Inos -> {"file", "directory", None}] /\ TreeSizes \in [Inos -> Nat]
    BY MappedNow DEF Mapped
  <2>. QED
    BY <1>4, <2>1, <2>2
<1>6. CASE Gains(p, n, i) /\ \A j \in Inos : ~Named(p, n, j)
  <2>1. TreeEntries' = [TreeEntries EXCEPT ![p][n] = i] /\ TreeEntries[p][n] = None
    BY <1>6, GainsMapped
  <2>2. FT!Link(i, p, n)
    BY <1>3, <1>5, <2>1 DEF FT!Link, FT!IsDirectory, FT!IsFile
  <2>3. p \in FT!Inos /\ i \in FT!Inos
    BY DEF FT!Inos, Inos
  <2>. QED
    BY <2>2, <2>3 DEF FT!Next
<1>7. CASE SameNames
  BY <1>5, <1>7, SameEntriesMapped DEF FT!vars
<1>. QED
  BY <1>1, <1>6, <1>7

LEMMA UnlinkIsNext ==
  ASSUME NEW p \in Inos, NEW n \in Names, NEW i \in Inos, i # None,
         TreeEntries' = [TreeEntries EXCEPT ![p][n] = None], TreeEntries[p][n] = i,
         TreeKinds[i] = "file",
         \/ FT!Named(i, p, n) /\ TreeKinds' = TreeKinds /\ TreeSizes' = TreeSizes
         \/ /\ ~FT!Named(i, p, n)
            /\ TreeKinds' = [TreeKinds EXCEPT ![i] = None]
            /\ TreeSizes' = [TreeSizes EXCEPT ![i] = 0]
  PROVE  FT!Next
<1>1. FT!Unlink(p, n)
  BY DEF FT!Unlink, FT!IsFile
<1>2. p \in FT!Inos
  BY DEF FT!Inos, Inos
<1>. QED
  BY <1>1, <1>2 DEF FT!Next

(* A file's inode is removed with its last name.                             *)
LEMMA UnlinkedImplements ==
  ASSUME OverflowChecks, Hidden = {}, Base, Base', Tree,
         NEW p \in Inos, NEW n \in Names, NEW i \in Inos, Unlinked(p, n, i)
  PROVE  FT!Next
<1>1. Loses(p, n, i) /\ Named(p, n, i)
  BY UnlinkedNames
<1>2. /\ p \in Dirs /\ i \notin Dirs /\ Exists(i) /\ i \notin Dirs' /\ meta[i].n_link > 0
      /\ \A j \in Inos \ {i} : Kept(j) /\ (objects'[j] = objects[j] \/ j \in Dirs)
      /\ \/ meta[i].n_link = 1 /\ ~Exists(i)'
         \/ meta[i].n_link # 1 /\ Exists(i)' /\ objects'[i] = objects[i]
  BY DEF Unlinked, Alone
<1>3. TreeEntries' = [TreeEntries EXCEPT ![p][n] = None] /\ TreeEntries[p][n] = i
  BY <1>1, LosesMapped
<1>4. TreeKinds[i] = "file" /\ i # None
  BY <1>2, KindsNow, NothingAssumption DEF KindsAre
<1>5. /\ TreeKinds' = [TreeKinds EXCEPT ![i] = TreeKinds'[i]]
      /\ TreeSizes' = [TreeSizes EXCEPT ![i] = TreeSizes'[i]]
  BY <1>2, OthersMapped
<1>6. /\ IsFiniteSet(LinksTo(i)) /\ Cardinality(LinksTo(i)) = meta[i].n_link
      /\ <<p, n>> \in LinksTo(i) /\ LinksTo(i) \subseteq Inos \X Names
      /\ \A q \in Inos, m \in Names : <<q, m>> \in LinksTo(i) <=> TreeEntries[q][m] = i
  <2>1. FileNamed(i)
    BY <1>2 DEF Tree
  <2>2. \A q \in Inos, m \in Names : TreeEntries[q][m] = i <=> Named(q, m, i)
    BY MappedNow DEF Mapped
  <2>. QED
    BY <1>1, <2>1, <2>2, LinksNow DEF LinksAre, FileNamed
<1>7. FT!Named(i, p, n) <=> \E q \in Inos, m \in Names :
                              <<q, m>> # <<p, n>> /\ TreeEntries[q][m] = i
  BY DEF FT!Named, FT!Inos, Inos
<1>8. /\ Cardinality(LinksTo(i)) \in Nat /\ IsFiniteSet(LinksTo(i) \ {<<p, n>>})
      /\ Cardinality(LinksTo(i) \ {<<p, n>>}) = Cardinality(LinksTo(i)) - 1
      /\ Cardinality(LinksTo(i)) <= 1 => LinksTo(i) \ {<<p, n>>} = {}
  BY <1>6, LastLink
<1>9. CASE meta[i].n_link = 1 /\ ~Exists(i)'
  <2>1. LinksTo(i) \ {<<p, n>>} = {}
    BY <1>6, <1>8, <1>9
  <2>2. ~FT!Named(i, p, n)
    BY <1>6, <1>7, <2>1
  <2>3. TreeKinds'[i] = None /\ TreeSizes'[i] = 0
    BY <1>9, KindsNext DEF KindsAre
  <2>4. TreeKinds' = [TreeKinds EXCEPT ![i] = None] /\ TreeSizes' = [TreeSizes EXCEPT ![i] = 0]
    BY <1>5, <2>3
  <2>. QED
    BY <1>3, <1>4, <2>2, <2>4, UnlinkIsNext
<1>10. CASE meta[i].n_link # 1 /\ Exists(i)' /\ objects'[i] = objects[i]
  <2>1. LinksTo(i) \ {<<p, n>>} # {}
    <3>1. Cardinality(LinksTo(i) \ {<<p, n>>}) # 0
      BY <1>2, <1>6, <1>8, <1>10
    <3>. QED
      BY <1>8, <3>1, FS_EmptySet
  <2>2. PICK l \in LinksTo(i) \ {<<p, n>>} : TRUE
    BY <2>1
  <2>3. l = <<l[1], l[2]>> /\ l[1] \in Inos /\ l[2] \in Names
    BY <1>6, <2>2
  <2>4. <<l[1], l[2]>> # <<p, n>> /\ TreeEntries[l[1]][l[2]] = i
    BY <1>6, <2>2, <2>3
  <2>5. FT!Named(i, p, n)
    BY <1>7, <2>3, <2>4
  <2>6. TreeKinds'[i] = TreeKinds[i] /\ TreeSizes'[i] = TreeSizes[i]
    BY <1>2, <1>10, KindsNow, KindsNext DEF KindsAre
  <2>7. TreeKinds' = TreeKinds /\ TreeSizes' = TreeSizes
    <3>1. TreeKinds \in [Inos -> {"file", "directory", None}] /\ TreeSizes \in [Inos -> Nat]
      BY MappedNow DEF Mapped
    <3>. QED
      BY <1>5, <2>6, <3>1
  <2>. QED
    BY <1>3, <1>4, <2>5, <2>7, UnlinkIsNext
<1>. QED
  BY <1>2, <1>9, <1>10

LEMMA RemovedImplements ==
  ASSUME Base, Base', NEW p \in Inos, NEW n \in Names, NEW i \in Inos, Removed(p, n, i)
  PROVE  FT!Next
<1>1. Loses(p, n, i) /\ Named(p, n, i) /\ \A m \in Names, j \in Inos : ~Named(i, m, j)
  BY RemovedNames
<1>2. /\ p \in Dirs /\ i \in Dirs /\ ~Exists(i)'
      /\ \A j \in Inos \ {i} : Kept(j) /\ (objects'[j] = objects[j] \/ j \in Dirs)
  BY DEF Removed, Alone
<1>3. TreeEntries' = [TreeEntries EXCEPT ![p][n] = None] /\ TreeEntries[p][n] = i
  BY <1>1, LosesMapped
<1>4. TreeKinds[i] = "directory" /\ TreeSizes[i] = 0 /\ i # None
  BY <1>2, KindsNow, NothingAssumption DEF KindsAre, Dirs
<1>5. TreeKinds'[i] = None /\ TreeSizes'[i] = 0
  BY <1>2, KindsNext DEF KindsAre
<1>6. /\ TreeKinds' = [TreeKinds EXCEPT ![i] = TreeKinds'[i]]
      /\ TreeSizes' = [TreeSizes EXCEPT ![i] = TreeSizes'[i]]
  BY <1>2, OthersMapped
<1>7. TreeKinds' = [TreeKinds EXCEPT ![i] = None] /\ TreeSizes' = TreeSizes
  <2>1. TreeSizes \in [Inos -> Nat]
    BY MappedNow DEF Mapped
  <2>. QED
    BY <1>4, <1>5, <1>6, <2>1
<1>8. TreeEntries[i] = FT!NoEntries
  BY <1>1, NoNames
<1>9. FT!Rmdir(p, n)
  BY <1>3, <1>4, <1>7, <1>8 DEF FT!Rmdir, FT!IsDirectory
<1>10. p \in FT!Inos
  BY DEF FT!Inos, Inos
<1>. QED
  BY <1>9, <1>10 DEF FT!Next

LEMMA ResizedImplements ==
  ASSUME Base, Base', NEW i \in Inos, Resized(i)
  PROVE  FT!Next \/ UNCHANGED FT!vars
<1>1. SameNames /\ \A j \in Inos : Kept(j)
  BY ResizedNames
<1>2. /\ i \notin Dirs /\ Exists(i) /\ Exists(i)' /\ i \notin Dirs'
      /\ \A j \in Inos \ {i} : Kept(j) /\ (objects'[j] = objects[j] \/ j \in Dirs)
      /\ \/ Len(objects'[i]) = Len(objects[i]) + 1
         \/ Len(objects'[i]) <= Len(objects[i]) /\ Len(objects'[i]) \in 0 .. MaxSize
         \/ Len(objects'[i]) = Len(objects[i])
  BY DEF Resized, Alone, Kept
<1>3. TreeEntries' = TreeEntries
  BY <1>1, SameEntriesMapped
<1>4. /\ TreeKinds[i] = "file" /\ TreeKinds'[i] = "file"
      /\ TreeSizes[i] = Len(objects[i]) /\ TreeSizes'[i] = Len(objects'[i])
  BY <1>2, KindsNow, KindsNext DEF KindsAre
<1>5. /\ TreeKinds' = [TreeKinds EXCEPT ![i] = TreeKinds'[i]]
      /\ TreeSizes' = [TreeSizes EXCEPT ![i] = TreeSizes'[i]]
  BY <1>2, OthersMapped
<1>6. TreeKinds \in [Inos -> {"file", "directory", None}] /\ TreeSizes \in [Inos -> Nat]
  BY MappedNow DEF Mapped
<1>7. TreeKinds' = TreeKinds
  BY <1>4, <1>5, <1>6
<1>8. i \in FT!Inos
  BY DEF FT!Inos, Inos
<1>9. CASE Len(objects'[i]) = Len(objects[i]) + 1
  <2>1. TreeSizes' = [TreeSizes EXCEPT ![i] = @ + 1]
    BY <1>4, <1>5, <1>6, <1>9
  <2>2. FT!Write(i)
    BY <1>3, <1>4, <1>7, <2>1 DEF FT!Write, FT!IsFile
  <2>. QED
    BY <1>8, <2>2 DEF FT!Next
<1>10. CASE Len(objects'[i]) <= Len(objects[i]) /\ Len(objects'[i]) \in 0 .. MaxSize
  <2>1. PICK size \in 0 .. MaxSize : size = Len(objects'[i])
    BY <1>10
  <2>2. TreeSizes' = [TreeSizes EXCEPT ![i] = size] /\ size <= TreeSizes[i]
    BY <1>4, <1>5, <1>10, <2>1
  <2>3. FT!Cut(i, size)
    BY <1>3, <1>4, <1>7, <2>2 DEF FT!Cut, FT!IsFile
  <2>. QED
    BY <1>8, <2>3 DEF FT!Next
<1>11. CASE Len(objects'[i]) = Len(objects[i])
  <2>1. TreeSizes'[i] = TreeSizes[i]
    BY <1>4, <1>11
  <2>2. TreeSizes' = TreeSizes
    BY <1>5, <1>6, <2>1
  <2>. QED
    BY <1>3, <1>7, <2>2 DEF FT!vars
<1>. QED
  BY <1>2, <1>9, <1>10, <1>11

LEMMA StepImplements ==
  ASSUME OverflowChecks, Hidden = {}, Base, Tree, Steps
  PROVE  FT!Next \/ UNCHANGED FT!vars
<1>1. Base'
  BY StepKeeps
<1>2. CASE Quiet
  <2>1. SameNames /\ \A j \in Inos : Kept(j) /\ objects'[j] = objects[j]
    BY <1>1, <1>2, QuietNames DEF Quiet
  <2>2. TreeEntries' = TreeEntries
    BY <1>1, <2>1, SameEntriesMapped
  <2>3. \A j \in Inos : TreeKinds'[j] = TreeKinds[j] /\ TreeSizes'[j] = TreeSizes[j]
    BY <1>1, <2>1, KeptMapped
  <2>4. /\ TreeKinds \in [Inos -> {"file", "directory", None}]
        /\ TreeKinds' \in [Inos -> {"file", "directory", None}]
        /\ TreeSizes \in [Inos -> Nat] /\ TreeSizes' \in [Inos -> Nat]
    BY <1>1, MappedNow, MappedNext DEF Mapped
  <2>5. TreeKinds' = TreeKinds /\ TreeSizes' = TreeSizes
    BY <2>3, <2>4
  <2>. QED
    BY <2>2, <2>5 DEF FT!vars
<1>3. CASE Changed
  <2>1. CASE \E p \in Inos, n \in Names, i \in Inos : Made(p, n, i)
    BY <1>1, <2>1, MadeImplements
  <2>2. CASE \E p \in Inos, n \in Names, i \in Inos : Linked(i, p, n)
    BY <1>1, <2>2, LinkedImplements
  <2>3. CASE \E p \in Inos, n \in Names, i \in Inos : Unlinked(p, n, i)
    BY <1>1, <2>3, UnlinkedImplements
  <2>4. CASE \E p \in Inos, n \in Names, i \in Inos : Removed(p, n, i)
    BY <1>1, <2>4, RemovedImplements
  <2>5. CASE \E i \in Inos : Resized(i)
    BY <1>1, <2>5, ResizedImplements
  <2>. QED
    BY <1>3, <2>1, <2>2, <2>3, <2>4, <2>5 DEF Changed
<1>4. CASE UNCHANGED vars
  BY <1>2, <1>4 DEF vars, Quiet
<1>5. Next => Quiet \/ Changed
  BY NextDone DEF Calm
<1>. QED
  BY <1>2, <1>3, <1>4, <1>5 DEF Steps

LEMMA InitImplements ==
  ASSUME Init
  PROVE  FT!Init
<1>1. /\ Base /\ Root \in Inos /\ Root \in Dirs /\ Exists(Root)
      /\ \A i \in Inos \ {Root} : ~Exists(i) /\ i \notin Dirs
      /\ \A q \in Inos, m \in Names, j \in Inos : ~Named(q, m, j)
  BY InitNames
<1>2. \A i \in Inos : /\ TreeKinds[i] = IF i = Root THEN "directory" ELSE None
                      /\ TreeSizes[i] = 0
  BY <1>1, KindsNow DEF KindsAre
<1>3. \A i \in Inos : TreeEntries[i] = FT!NoEntries
  BY <1>1, NoNames
<1>4. /\ TreeKinds = [i \in Inos |-> IF i = Root THEN "directory" ELSE None]
      /\ TreeSizes = [i \in Inos |-> 0]
      /\ TreeEntries = [i \in Inos |-> FT!NoEntries]
  <2>1. /\ TreeKinds \in [Inos -> {"file", "directory", None}]
        /\ TreeSizes \in [Inos -> Nat]
        /\ TreeEntries \in [Inos -> [Names -> Inos \cup {None}]]
    BY <1>1, MappedNow DEF Mapped
  <2>. QED
    BY <1>2, <1>3, <2>1
<1>5. FT!Inos = Inos /\ FT!Root = Root
  BY DEF FT!Inos, Inos, FT!Root, Root
<1>. QED
  BY <1>4, <1>5 DEF FT!Init

(* If no name is hidden from lookup, the handlers keep a tree of named       *)
(* files: whatever is cached, kept loaded, opened, refused or given up, a    *)
(* name leads to the inode it was given, a file exists as long as it has a   *)
(* name, and its size changes by writes and cuts only.                       *)
THEOREM KeepsFileTree ==
  ASSUME OverflowChecks, Hidden = {}
  PROVE  Spec => ImplementsFileTree
<1>1. Init => FT!Init
  BY InitImplements
<1>2. Base /\ Tree /\ [Next]_vars => [FT!Next]_(FT!vars)
  BY StepImplements DEF Steps
<1>. QED
  BY <1>1, <1>2, TreeInvariant, PTL DEF Spec, ImplementsFileTree, FT!Spec
=============================================================================
