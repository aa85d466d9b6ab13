---------------------------- MODULE SSTablePages ----------------------------
(* The pages of an SSTable's block: SSTableManager::flush writes a memtable  *)
(* as a stream of records cut into pages, BlockIter::new parses the pages    *)
(* back, field by field, with any field split by the end of a page.          *)
EXTENDS Integers, Sequences, SequencesExt, FiniteSetsExt

CONSTANTS
  PageSize,     \* bytes in a page (4096)
  PageCount,    \* pages in a block (128)
  HeaderSize,   \* bytes at the head of the first page (12)
  Width,        \* bytes of a number (4)
  Keys,         \* keys, as numbers in the order of the memtable
  KeySizes,     \* lengths of keys
  ValueSizes,   \* lengths of values, none empty: an object is never 0 bytes
  Slack         \* what can_put keeps free (50, less what headers need)

ASSUME SSTablePagesAssumption ==
  /\ PageSize \in Nat /\ PageCount \in Nat \ {0} /\ HeaderSize \in 0 .. PageSize - 1
  /\ Width \in Nat \ {0} /\ Slack \in Nat
  /\ Keys \subseteq Nat \ {0}
  /\ KeySizes \subseteq Nat \ {0} /\ ValueSizes \subseteq Nat \ {0}

Entry == [key : Keys, keySize : KeySizes, valueSize : ValueSizes]

VARIABLES
  entries,   \* the memtable's entries, in the order of their keys
  pages,     \* the pages written, each a sequence of bytes
  page,      \* the page being filled
  phase,     \* "write", "read", "done", or "panicked" in flush
  i, j,      \* the reader's page and its place in it
  field,     \* read_index: crc, key_size, value_size, key, value, end
  temp,      \* what is read of the field
  sizes,     \* key_size and value_size
  record,    \* key and value
  found      \* the entries read

writer == <<entries, pages, page>>
reader == <<i, j, field, temp, sizes, record, found>>
pagesVars == <<entries, pages, page, phase, i, j, field, temp, sizes, record, found>>

-----------------------------------------------------------------------------
(* Bytes.  A key's and a value's bytes tell where they belong.               *)

Number(n) == [k \in 1 .. Width |-> IF k = Width THEN n ELSE 0]
Decoded(bytes) == bytes[Width]
KeyBytes(e) == [k \in 1 .. e.keySize |-> 1000 * e.key + k]
ValueBytes(e) == [k \in 1 .. e.valueSize |-> 1000 * e.key + 100 + k]
Eof == <<1>>                                          \* "EOF", as key and as value

(* A record is a checksum of 0, the sizes, the key and the value.            *)
Encoded(key, value) ==
  Number(0) \o Number(Len(key)) \o Number(Len(value)) \o key \o value
EncodedEntry(e) == Encoded(KeyBytes(e), ValueBytes(e))
EofRecord == Encoded(Eof, Eof)

Zeros(n) == [k \in 1 .. n |-> 0]
Header == [k \in 1 .. HeaderSize |-> 1]

PagesInit ==
  /\ entries = <<>> /\ pages = <<>> /\ page = Header
  /\ phase = "write"
  /\ i = 1 /\ j = HeaderSize /\ field = 0 /\ temp = <<>>
  /\ sizes = <<0, 0>> /\ record = <<<<>>, <<>>>> /\ found = <<>>

-----------------------------------------------------------------------------
(* The writer.  A page is written once a byte does not fit it.               *)

Piece(stream, k) == SubSeq(stream, (k - 1) * PageSize + 1, Min({k * PageSize, Len(stream)}))

FullPages(stream) == (Len(stream) - 1) \div PageSize

Pack(data) ==
  LET stream == page \o data
      n == FullPages(stream)
  IN /\ pages' = pages \o [k \in 1 .. n |-> Piece(stream, k)]
     /\ page' = SubSeq(stream, n * PageSize + 1, Len(stream))

Written == Len(pages) * PageSize + Len(page)

(* flush, one entry at a time; can_put keeps the entries within the block.   *)
PackEntry(e) ==
  /\ phase = "write"
  /\ \A k \in DOMAIN entries : entries[k].key < e.key
  /\ Written + Len(EncodedEntry(e)) + Slack <= PageCount * PageSize
  /\ Pack(EncodedEntry(e))
  /\ entries' = Append(entries, e)
  /\ UNCHANGED <<phase, reader>>

(* The end record is copied behind the last entry, and is not split.         *)
Close ==
  /\ phase = "write"
  /\ IF Len(page) + Len(EofRecord) > PageSize
     THEN phase' = "panicked" /\ UNCHANGED <<pages, page>>
     ELSE /\ LET last == page \o EofRecord IN
             pages' = Append(pages, last \o Zeros(PageSize - Len(last)))
          /\ page' = <<>>
          /\ phase' = "read"
  /\ UNCHANGED <<entries, reader>>

-----------------------------------------------------------------------------
(* The reader.                                                               *)

(* A page behind those written reads as zeros.                               *)
Page(k) == IF k <= Len(pages) THEN pages[k] ELSE Zeros(PageSize)

NextPage ==
  /\ phase = "read" /\ j = PageSize
  /\ IF i = PageCount THEN phase' = "done" /\ UNCHANGED <<i, j>>
     ELSE i' = i + 1 /\ j' = 0 /\ UNCHANGED phase
  /\ UNCHANGED <<writer, field, temp, sizes, record, found>>

FieldSize == CASE field \in {0, 1, 2} -> Width
               [] field = 3 -> sizes[1]
               [] field = 4 -> sizes[2]

(* One turn of the loop: what is missing of the field, or what is left of    *)
(* the page.  Numbers that say an entry is empty start the next one.         *)
ReadField ==
  LET n    == Min({FieldSize - Len(temp), PageSize - j})
      t    == temp \o SubSeq(Page(i), j + 1, j + n)
      full == Len(t) = FieldSize
      s    == IF ~full THEN sizes
              ELSE IF field = 1 THEN <<Decoded(t), sizes[2]>>
              ELSE IF field = 2 THEN <<sizes[1], Decoded(t)>> ELSE sizes
  IN
  /\ phase = "read" /\ j < PageSize /\ field < 5
  /\ j' = j + n
  /\ temp' = IF full THEN <<>> ELSE t
  /\ sizes' = s
  /\ record' = IF ~full THEN record
               ELSE IF field = 3 THEN <<t, record[2]>>
               ELSE IF field = 4 THEN <<record[1], t>> ELSE record
  /\ field' = IF ~full THEN field
              ELSE IF field = 2 /\ (s[1] = 0 \/ s[2] = 0) THEN 0 ELSE field + 1
  /\ UNCHANGED <<writer, phase, i, found>>

(* The end of a record is noticed at the head of the next turn, which may be *)
(* on the next page.                                                         *)
FinishEntryEarly ==                                   \* mutant of FinishEntry
  /\ phase = "read" /\ j < PageSize /\ field = 5
  /\ field' = 0
  /\ IF record[1] = Eof
     THEN phase' = "done" /\ UNCHANGED <<j, found>>
     ELSE found' = Append(found, record) /\ j' = j + 1 /\ UNCHANGED phase
  /\ UNCHANGED <<writer, i, temp, sizes, record>>

FinishEntryForever ==                                 \* mutant of FinishEntry
  /\ phase = "read" /\ j < PageSize /\ field = 5
  /\ IF record = <<Eof, Eof>>
     THEN UNCHANGED <<field, found>>
     ELSE found' = Append(found, record) /\ field' = 0
  /\ UNCHANGED <<writer, phase, i, j, temp, sizes, record>>

FinishEntry ==
  /\ phase = "read" /\ j < PageSize /\ field = 5
  /\ field' = 0
  /\ IF record = <<Eof, Eof>>
     THEN phase' = "done" /\ UNCHANGED found
     ELSE found' = Append(found, record) /\ UNCHANGED phase
  /\ UNCHANGED <<writer, i, j, temp, sizes, record>>

Read == NextPage \/ ReadField \/ FinishEntry

PagesNext == (\E e \in Entry : PackEntry(e)) \/ Close \/ Read

(* A flush is one call and so is a parse: both run on once begun.            *)
PagesSpec == PagesInit /\ [][PagesNext]_pagesVars /\ WF_pagesVars(Close) /\ WF_pagesVars(Read)

-----------------------------------------------------------------------------
(* Properties.                                                               *)

Expected == [k \in DOMAIN entries |-> <<KeyBytes(entries[k]), ValueBytes(entries[k])>>]

(* Wherever the pages cut the records, what has been parsed at any point is  *)
(* the head of what was flushed, keys, values and order, and a parse that is *)
(* over has found every entry: an end record is always met, also one that    *)
(* ends with its page or its block.                                          *)
RoundTrip ==
  /\ IsPrefix(found, Expected)
  /\ phase = "done" => found = Expected

(* A parse ends.                                                             *)
ParseEnds == (phase = "read") ~> (phase = "done")
=============================================================================
