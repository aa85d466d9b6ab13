----------------------------- MODULE Namespace -----------------------------
(* The FUSE handlers of the file system (fs/filesystem_impl.rs) over inodes  *)
(* (inode/inode.rs), directories (common/directory.rs) and the buffer of     *)
(* loaded inodes (inode/inode_manager.rs).                                   *)
(*                                                                           *)
(* fuser calls one handler at a time, so a handler is one step.  What is     *)
(* hard is what a handler leaves behind: a handler that returns early keeps  *)
(* the inodes it has loaded, and a loaded inode is used by every later       *)
(* handler in place of what is stored.                                       *)
(*                                                                           *)
(* A directory's size is counted in its entries of 259 bytes, a file's in    *)
(* units of one write.  The key-value store is a map (module KVMap), a data  *)
(* object the sequence of its records (module FileStore).                    *)
EXTENDS Integers, Sequences, FiniteSets

CONSTANTS
  Names,           \* names of entries, "." and ".." apart
  Hidden,          \* those lookup answers ENOENT for: tls, haswell, x86_64, lib*
  Short,           \* those of fewer than three bytes
  Byte,            \* a unit of a file's contents
  None,            \* nothing
  Capacity,        \* loaded inodes (30)
  LinkMax,         \* the largest u8 (255)
  MaxIno,          \* bound: inodes ever allocated
  MaxSize,         \* bound: units in a file
  WithSymlinks,    \* FALSE bounds a behaviour to one without symlinks
  OverflowChecks   \* TRUE in a dev build

Inos == 1 .. MaxIno
Root == 1                                             \* FUSE_ROOT_ID

ASSUME NamespaceAssumption ==
  /\ Hidden \subseteq Names /\ Short \subseteq Names
  /\ "." \notin Names /\ ".." \notin Names
  /\ Capacity \in Nat \ {0} /\ LinkMax \in Nat \ {0, 1}
  /\ MaxIno \in Nat \ {0} /\ MaxSize \in Nat
  /\ WithSymlinks \in BOOLEAN /\ OverflowChecks \in BOOLEAN

Types == {"file", "directory", "symlink"}
Meta == [type : Types, size : Nat, n_link : 0 .. LinkMax]
Record == {Byte} \cup [name : Names \cup {".", ".."}, ino : Inos]

ASSUME NothingAssumption == None \notin Types \cup Meta \cup Inos

VARIABLES
  meta,     \* the stored metadata of every inode
  objects,  \* the stored data of every inode
  cache,    \* the inode buffer: what is loaded of each inode
  maxIno,   \* KV.max_ino
  known,    \* the type the kernel was last told of each inode it knows
  opened,   \* the inodes the kernel has handles for
  reply,    \* how the last handler answered
  status    \* "ok", or why the server panicked

vars == <<meta, objects, cache, maxIno, known, opened, reply, status>>

(* A handler computes on the server's state, step by step.                   *)
Now == [meta |-> meta, objects |-> objects, cache |-> cache, maxIno |-> maxIno,
        status |-> status]

Panic(s, why) == IF s.status = "ok" THEN [s EXCEPT !.status = why] ELSE s

-----------------------------------------------------------------------------
(* The inode buffer.                                                         *)

Free == [type |-> "file", size |-> 0, n_link |-> 0, ref_cnt |-> 0, valid |-> FALSE]

Full(s) == Cardinality({i \in Inos : s.cache[i].ref_cnt > 0}) >= Capacity

(* Only directories are told apart when an inode is loaded.                  *)
Reloaded(type) == IF type = "directory" THEN "directory" ELSE "file"

Loaded(m) == [type |-> Reloaded(m.type), size |-> m.size, n_link |-> m.n_link,
              ref_cnt |-> 1, valid |-> TRUE]

(* i_get.  An inode in use is shared, and not counted again.                 *)
Get(s, i) ==
  IF s.cache[i].ref_cnt > 0 THEN s
  ELSE IF Full(s) THEN Panic(s, "no_slot")
  ELSE IF s.meta[i] = None THEN s
  ELSE [s EXCEPT !.cache[i] = Loaded(s.meta[i])]

Found(s, i) == s.cache[i].ref_cnt > 0

(* i_put.  An inode whose count is 0 is never looked at again.               *)
PutKeeping(s, i) == s                                 \* mutant of Put

Put(s, i) ==
  IF s.cache[i].ref_cnt > 1 THEN [s EXCEPT !.cache[i].ref_cnt = @ - 1]
  ELSE [s EXCEPT !.cache[i] = Free]

(* i_alloc: the new inode is maxIno.                                         *)
Alloc(s) ==
  LET i == s.maxIno + 1 IN
  IF Full(s) THEN Panic(s, "no_slot")
  ELSE [s EXCEPT !.maxIno = i,
                 !.meta[i] = [type |-> "file", size |-> 0, n_link |-> 1],
                 !.cache[i] = [Free EXCEPT !.n_link = 1, !.ref_cnt = 1, !.valid = TRUE]]

Asserted(s, i) == IF s.cache[i].valid THEN s ELSE Panic(s, "assert")

-----------------------------------------------------------------------------
(* Inodes: what is loaded and what is stored change together.                *)

(* modify_stat writes everything loaded but the reference count.             *)
Stored(c) == [type |-> c.type, size |-> c.size, n_link |-> c.n_link]

ModifyStat(s, i, stat) == [s EXCEPT !.cache[i] = stat, !.meta[i] = Stored(stat)]

(* A write or a cut takes the size from the data object.                     *)
SetObject(s, i, object) ==
  IF s.meta[i] = None THEN Panic(s, "unwrap")
  ELSE [s EXCEPT !.objects[i] = object,
                 !.meta[i].size = Len(object),
                 !.cache[i].size = Len(object)]

WriteInode(s, i, off, records) ==
  LET o == s.objects[i]
      e == off + Len(records) IN
  SetObject(Asserted(s, i), i,
            IF off > Len(o) THEN o
            ELSE SubSeq(o, 1, off) \o records \o SubSeq(o, e + 1, Len(o)))

(* A cut of length 0 removes the whole object.                               *)
TruncateInode(s, i, off, len) ==
  LET o == s.objects[i] IN
  SetObject(Asserted(s, i), i,
            IF len = 0 THEN <<>>
            ELSE SubSeq(o, 1, off) \o SubSeq(o, off + len + 1, Len(o)))

DeleteMetaOnly(s, i) ==                               \* mutant of DeleteInode
  [Asserted(s, i) EXCEPT !.meta[i] = None, !.cache[i].valid = FALSE]

DeleteInode(s, i) ==
  [Asserted(s, i) EXCEPT !.meta[i] = None, !.objects[i] = <<>>, !.cache[i].valid = FALSE]

-----------------------------------------------------------------------------
(* Directories.                                                              *)

(* read_all: as many records as the loaded inode says there are.             *)
ReadAll(s, i) ==
  LET size == s.cache[i].size IN
  IF size \in 1 .. Len(s.objects[i]) THEN SubSeq(s.objects[i], 1, size) ELSE s.objects[i]

Places(s, p, n) == {k \in DOMAIN ReadAll(s, p) : ReadAll(s, p)[k].name = n}

InDirectory(s, p, n) == s.cache[p].type = "directory" /\ Places(s, p, n) # {}

Place(s, p, n) == CHOOSE k \in Places(s, p, n) : \A l \in Places(s, p, n) : k <= l

(* The inode dir_lookup finds, if InDirectory.                               *)
DirLookup(s, p, n) == ReadAll(s, p)[Place(s, p, n)].ino

DirLink(s, p, i, n) ==
  IF InDirectory(s, p, n) THEN s
  ELSE WriteInode(s, p, s.cache[p].size, <<[name |-> n, ino |-> i]>>)

DirUnlink(s, p, n) ==
  IF ~InDirectory(s, p, n) THEN s
  ELSE TruncateInode(s, p, Place(s, p, n) - 1, 1)

-----------------------------------------------------------------------------
(* How a handler ends.  A panic takes the server down.                       *)

Finish(s, answer, told, handles) ==
  IF s.status # "ok"
  THEN /\ status' = s.status /\ reply' = "none"
       /\ UNCHANGED <<meta, objects, cache, maxIno, known, opened>>
  ELSE /\ meta' = s.meta /\ objects' = s.objects /\ cache' = s.cache /\ maxIno' = s.maxIno
       /\ known' = told /\ opened' = handles /\ reply' = answer
       /\ UNCHANGED status

Fail(s) == Finish(s, "error", known, opened)
Succeed(s) == Finish(s, "ok", known, opened)

(* An answer that carries the attributes of i.                               *)
Attr(s, i) == [known EXCEPT ![i] = s.cache[i].type]

(* The kernel forgets an inode it has no handle for once it is deleted.      *)
Gone(s, i) ==
  IF s.meta[i] = None /\ i \notin opened THEN [known EXCEPT ![i] = None] ELSE known

Directories == {i \in Inos : known[i] = "directory"}
Known == {i \in Inos : known[i] # None}
Running == status = "ok"

-----------------------------------------------------------------------------
(* Handlers.                                                                 *)

Lookup(p, n) ==
  LET s1 == Get(Now, p)
      i  == DirLookup(s1, p, n)
      s2 == Get(s1, i)
  IN
  /\ Running /\ p \in Directories
  /\ \/ n \in Hidden /\ Fail(Now)
     \/ n \notin Hidden /\ n \in Short /\ Fail(Panic(Now, "short_name"))
     \/ /\ n \notin Hidden \cup Short
        /\ IF ~(Found(s1, p) /\ InDirectory(s1, p, n)) THEN Fail(s1)
           ELSE IF ~Found(s2, i) THEN Fail(s2)
           ELSE Finish(Put(Put(Asserted(s2, i), p), i), "ok", Attr(s2, i), opened)

(* getattr, and access and readlink, which change nothing else.              *)
GetAttr(i) ==
  LET s == Get(Now, i) IN
  /\ Running /\ i \in Known
  /\ IF Found(s, i) THEN Finish(Put(Asserted(s, i), i), "ok", Attr(s, i), opened)
     ELSE Fail(s)

Access(i) ==
  LET s == Get(Now, i) IN
  /\ Running /\ i \in Known
  /\ IF Found(s, i) THEN Succeed(Put(s, i)) ELSE Fail(s)

(* setattr of the mode or the owner is refused, with the inode in hand.      *)
SetMode(i) ==
  LET s == Get(Now, i) IN
  /\ Running /\ i \in Known
  /\ Fail(s)

(* setattr of a time writes the metadata back as it is loaded.               *)
SetTime(i) ==
  LET s == Get(Now, i) IN
  /\ Running /\ i \in Known
  /\ IF Found(s, i)
     THEN Finish(Put(ModifyStat(Asserted(s, i), i, s.cache[i]), i), "ok", Attr(s, i), opened)
     ELSE Fail(s)

(* setattr of the size.  A file that is to grow makes the subtraction of     *)
(* sizes underflow; wrapped, the cut begins behind the end and does nothing. *)
SetSize(i, size) ==
  LET s == Get(Now, i)
      c == s.cache[i]
      t == IF size <= c.size THEN TruncateInode(s, i, size, c.size - size)
           ELSE IF OverflowChecks THEN Panic(s, "overflow")
           ELSE SetObject(Asserted(s, i), i, s.objects[i])
  IN
  /\ Running /\ known[i] = "file"
  /\ IF Found(s, i) THEN Finish(Put(t, i), "ok", Attr(t, i), opened) ELSE Fail(s)

(* mknod, mkdir, create and symlink: the new inode's type, the reference     *)
(* count it is given, and the records it starts with.                        *)
NewLinks(type, old) == IF type = "directory" THEN 2 ELSE IF type = "file" THEN 1 ELSE old

MakeUnnamed(s, p, n, type, count, target) ==          \* mutant of Make
  LET s1 == Alloc(s)
      i  == s1.maxIno
      s2 == ModifyStat(s1, i, [s1.cache[i] EXCEPT !.type = type, !.ref_cnt = count])
  IN IF s1.status # "ok" THEN s1 ELSE DirLink(s2, p, i, n)

Make(s, p, n, type, count, target) ==
  LET s1 == Alloc(ModifyStat(s, p, s.cache[p]))
      i  == s1.maxIno
      s2 == ModifyStat(s1, i, [s1.cache[i] EXCEPT !.type = type, !.ref_cnt = count,
                                !.n_link = NewLinks(type, @)])
      s3 == IF type = "directory" THEN DirLink(DirLink(s2, i, i, "."), i, p, "..") ELSE s2
      s4 == DirLink(s3, p, i, n)
  IN IF s1.status # "ok" THEN s1
     ELSE IF target = <<>> THEN s4 ELSE WriteInode(s4, i, 0, target)

MakeIn(p, n, type, count, target) ==
  LET s == Get(Now, p)
      t == Make(s, p, n, type, count, target)
      i == t.maxIno
  IN
  /\ Running /\ p \in Directories /\ maxIno < MaxIno
  /\ IF Found(s, p) /\ ~InDirectory(s, p, n)
     THEN Finish(Put(Put(t, p), i), "ok", Attr(t, i),
                 IF count = 1 THEN opened \cup {i} ELSE opened)
     ELSE Fail(s)

Mknod(p, n)   == MakeIn(p, n, "file", 0, <<>>)
Mkdir(p, n)   == MakeIn(p, n, "directory", 0, <<>>)
Create(p, n)  == MakeIn(p, n, "file", 1, <<>>)
Symlink(p, n) == WithSymlinks /\ MakeIn(p, n, "symlink", 0, <<Byte>>)

(* The kernel unlinks what it knows not to be a directory.                   *)
UnlinkKeeping(s, p, n, i) ==                          \* mutant of RemoveLink
  LET s1 == DirUnlink(ModifyStat(s, p, s.cache[p]), p, n)
  IN ModifyStat(s1, i, [s1.cache[i] EXCEPT !.n_link = @ - 1])

RemoveLink(s, p, n, i) ==
  LET s1 == DirUnlink(ModifyStat(s, p, s.cache[p]), p, n)
      c  == s1.cache[i]
      s2 == IF c.n_link = 0 /\ OverflowChecks THEN Panic(s1, "overflow")
            ELSE ModifyStat(s1, i, [c EXCEPT !.n_link = (@ - 1) % (LinkMax + 1)])
  IN IF s2.cache[i].n_link = 0 THEN DeleteInode(s2, i) ELSE s2

Unlink(p, n) ==
  LET s1 == Get(Now, p)
      i  == DirLookup(s1, p, n)
      s2 == Get(s1, i)
      t  == RemoveLink(s2, p, n, i)
  IN
  /\ Running /\ p \in Directories
  /\ IF ~(Found(s1, p) /\ InDirectory(s1, p, n)) THEN Fail(s1)
     ELSE /\ i \in Known \ Directories
          /\ IF ~Found(s2, i) THEN Fail(s2)
             ELSE Finish(Put(Put(t, p), i), "ok", Gone(t, i), opened)

RemoveDirectory(s, p, n, i) ==
  LET s1 == DirUnlink(ModifyStat(s, p, s.cache[p]), p, n)
  IN DeleteInode(ModifyStat(s1, i, [s1.cache[i] EXCEPT !.n_link = 0]), i)

(* A directory of more than two entries is not removed.                      *)
HoldsMany(s, i) == s.cache[i].size > 3                \* mutant of HoldsEntries
HoldsEntries(s, i) == s.cache[i].size > 2

Rmdir(p, n) ==
  LET s1 == Get(Now, p)
      i  == DirLookup(s1, p, n)
      s2 == Get(s1, i)
      t  == RemoveDirectory(s2, p, n, i)
  IN
  /\ Running /\ p \in Directories
  /\ IF ~(Found(s1, p) /\ InDirectory(s1, p, n)) THEN Fail(s1)
     ELSE /\ i \in Directories
          /\ IF ~Found(s2, i) \/ HoldsEntries(s2, i) THEN Fail(s2)
             ELSE Finish(Put(Put(t, p), i), "ok", [known EXCEPT ![i] = None], opened)

(* link counts the link even if the name is already there.                   *)
Counted(s, i) ==
  LET c == s.cache[i] IN
  IF c.n_link = LinkMax /\ OverflowChecks THEN Panic(s, "overflow")
  ELSE ModifyStat(s, i, [c EXCEPT !.n_link = (@ + 1) % (LinkMax + 1)])

Link(i, p, n) ==
  LET s1 == Get(Now, p)
      s2 == Get(s1, i)
      t  == Counted(DirLink(s2, p, i, n), i)
  IN
  /\ Running /\ p \in Directories /\ i \in Known \ Directories
  /\ n \in Hidden \/ ~(\E k \in DOMAIN objects[p] : objects[p][k].name = n)
  /\ IF ~Found(s1, p) THEN Fail(s1)
     ELSE IF ~Found(s2, i) THEN Fail(s2)
     ELSE Finish(Put(Put(t, p), i), "ok", Attr(t, i), opened)

(* open and opendir take a reference and give back the one of i_get.         *)
Reference(s, i) == Put([s EXCEPT !.cache[i].ref_cnt = @ + 1], i)

Open(i) ==
  LET s == Get(Now, i) IN
  /\ Running /\ i \in Known /\ known[i] # "symlink"
  /\ IF Found(s, i) THEN Finish(Reference(s, i), "ok", known, opened \cup {i}) ELSE Fail(s)

(* release and releasedir; the kernel may have further handles for i.        *)
Release(i, last) ==
  LET s == Get(Now, i)
      left == IF last THEN opened \ {i} ELSE opened
      told == IF meta[i] = None /\ last THEN [known EXCEPT ![i] = None] ELSE known
  IN
  /\ Running /\ i \in opened
  /\ IF Found(s, i)
     THEN Finish(Put([s EXCEPT !.cache[i].ref_cnt = @ - 1], i), "ok", told, left)
     ELSE Finish(s, "error", told, left)

(* A read that starts at the end, and a write behind it, are refused with    *)
(* the inode in hand.                                                        *)
Read(i, off) ==
  LET s == Get(Now, i) IN
  /\ Running /\ i \in opened \ Directories
  /\ IF Found(s, i) /\ off < s.cache[i].size THEN Succeed(Put(Asserted(s, i), i)) ELSE Fail(s)

Write(i, off) ==
  LET s == Get(Now, i) IN
  /\ Running /\ i \in opened \ Directories /\ off < MaxSize
  /\ IF Found(s, i) /\ off <= s.cache[i].size
     THEN Succeed(Put(WriteInode(s, i, off, <<Byte>>), i))
     ELSE Fail(s)

(* readdir loads the inode of every entry, to tell its type, and keeps it.   *)
GetListed(s, i) ==
  LET t == Get(s, i) IN IF Found(t, i) THEN t ELSE Panic(t, "unwrap")

(* The server after each number of entries.                                  *)
Listing(s, entries) ==
  LET after[k \in 0 .. Len(entries)] ==
        IF k = 0 THEN s ELSE GetListed(after[k - 1], entries[k].ino)
  IN after

Listed(s, entries) == Listing(s, entries)[Len(entries)]

(* The listing ends where the kernel's buffer is full, with that entry.      *)
ReadDir(i, off) ==
  LET s == Get(Now, i)
      entries == ReadAll(s, i)
  IN
  /\ Running /\ i \in opened \cap Directories
  /\ IF Found(s, i)
     THEN \E last \in {Len(entries)} \cup off + 1 .. Len(entries) :
            Finish(Put(Listed(s, SubSeq(entries, off + 1, last)), i), "entries", known, opened)
     ELSE Fail(s)

-----------------------------------------------------------------------------
(* The state that init leaves: the root holds its "." only.                  *)
Init ==
  /\ meta = [i \in Inos |-> IF i = Root THEN [type |-> "directory", size |-> 1, n_link |-> 2]
                            ELSE None]
  /\ objects = [i \in Inos |-> IF i = Root THEN <<[name |-> ".", ino |-> Root]>> ELSE <<>>]
  /\ cache = [i \in Inos |-> Free]
  /\ maxIno = Root
  /\ known = [i \in Inos |-> IF i = Root THEN "directory" ELSE None]
  /\ opened = {}
  /\ reply = "none"
  /\ status = "ok"

ByName(p, n) ==
  Mknod(p, n) \/ Mkdir(p, n) \/ Create(p, n) \/ Symlink(p, n) \/ Unlink(p, n) \/ Rmdir(p, n)

ByInode(i) == GetAttr(i) \/ Access(i) \/ SetMode(i) \/ SetTime(i) \/ Open(i)

(* The kernel looks a name up before it uses it otherwise.                   *)
Next ==
  \/ \E p \in Inos, n \in Names : Lookup(p, n)
  \/ \E p \in Inos, n \in Names \ Short : ByName(p, n)
  \/ \E i \in Inos, p \in Inos, n \in Names \ Short : Link(i, p, n)
  \/ \E i \in Inos : ByInode(i)
  \/ \E i \in Inos, last \in BOOLEAN : Release(i, last)
  \/ \E i \in Inos, n \in 0 .. MaxSize : SetSize(i, n) \/ Read(i, n) \/ Write(i, n) \/ ReadDir(i, n)

Spec == Init /\ [][Next]_vars

-----------------------------------------------------------------------------
(* Properties.                                                               *)

(* The types of the stored, the loaded and the kernel's state: between       *)
(* handlers an inode is counted at most once.                                *)
TypeOK ==
  /\ meta \in [Inos -> Meta \cup {None}]
  /\ objects \in [Inos -> Seq(Record)]
  /\ cache \in [Inos -> [type : Types, size : Nat, n_link : 0 .. LinkMax,
                         ref_cnt : 0 .. 1, valid : BOOLEAN]]
  /\ maxIno \in Inos
  /\ known \in [Inos -> Types \cup {None}]
  /\ opened \subseteq Inos
  /\ reply \in {"none", "ok", "entries", "error"}
  /\ status \in {"ok", "no_slot", "short_name", "overflow", "unwrap", "assert"}

Live == {i \in Inos : cache[i].ref_cnt > 0}
Exists(i) == meta[i] # None

(* An inode that stays loaded, for a handle or because a handler kept it, is *)
(* what a reload would give, whatever other handlers did to it since; and    *)
(* the stored size of an inode is that of its data object.                   *)
LoadedIsStored ==
  /\ \A i \in Live : Exists(i) /\ [cache[i] EXCEPT !.type = Reloaded(@)] = Loaded(meta[i])
  /\ \A i \in Inos : Len(objects[i]) = IF Exists(i) THEN meta[i].size ELSE 0

Entries(p) == {objects[p][k] : k \in DOMAIN objects[p]}
Dirs == {i \in Inos : Exists(i) /\ meta[i].type = "directory"}

LinksTo(i) ==
  {l \in Dirs \X Names : \E e \in Entries(l[1]) : e.ino = i /\ e.name = l[2]}

(* A file's link count is the number of entries that name it, so it exists   *)
(* exactly as long as it has a name.                                         *)
LinksExact ==
  \A i \in Inos : Exists(i) /\ meta[i].type # "directory" =>
    meta[i].n_link = Cardinality(LinksTo(i)) /\ meta[i].n_link > 0

(* Every entry names an inode that exists, so that readdir may unwrap it, and *)
(* a directory other than the root is named by one entry, in the directory   *)
(* its ".." names.                                                           *)
TreeShaped ==
  /\ \A p \in Dirs : \A e \in Entries(p) : Exists(e.ino)
  /\ \A d \in Dirs \ {Root} :
       \E p \in Dirs, n \in Names :
         /\ LinksTo(d) = {<<p, n>>}
         /\ [name |-> "..", ino |-> p] \in Entries(d)

(* A handler that succeeds keeps no inode it was the first to load, unless   *)
(* the kernel has a handle for it now; readdir keeps what it lists.          *)
SuccessReleases ==
  [][\A i \in Inos :
       i \in Live' \ Live /\ reply' = "ok" => i \in opened']_vars

-----------------------------------------------------------------------------
(* Without hidden names the handlers keep a tree of named files, whatever is *)
(* loaded, kept or opened meanwhile.                                         *)
TreeKinds == [i \in Inos |-> IF Exists(i) THEN Reloaded(meta[i].type) ELSE None]

TreeSizes == [i \in Inos |-> IF Exists(i) /\ i \notin Dirs THEN meta[i].size ELSE 0]

TreeEntries ==
  [p \in Inos |-> [n \in Names |->
     IF p \in Dirs /\ \E e \in Entries(p) : e.name = n
     THEN (CHOOSE e \in Entries(p) : e.name = n).ino ELSE None]]

FT == INSTANCE FileTree WITH
  kinds <- TreeKinds, sizes <- TreeSizes, entries <- TreeEntries
ImplementsFileTree == FT!Spec
=============================================================================
