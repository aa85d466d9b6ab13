---------------------------- MODULE OnDiskFormats ----------------------------
(* What is read back of the disk is what was written: the pages of an        *)
(* SSTable, the images of the page tables, the bytes of a compressed text.   *)
(* The three share nothing; in a behaviour one of them is at work.           *)
EXTENDS SSTablePages, MetadataRegions, HuffmanCodec

VARIABLE format

formatVars == <<format, pagesVars, mountVars, codecVars>>

(* The others stay in one initial state.                                     *)
NoTable == [b \in Blocks |-> [o \in Offsets |-> Clean]]

Unmounted ==
  /\ saved = NoTable
  /\ MountInit
  /\ disk = [k \in Kinds |-> <<BlankCopy, BlankCopy>>]

Uncoded == trees = <<>> /\ NothingCoded

FormatsInit ==
  \/ format = "pages" /\ PagesInit /\ Unmounted /\ Uncoded
  \/ format = "images" /\ PagesInit /\ MountInit /\ Uncoded
  \/ format = "text" /\ PagesInit /\ Unmounted /\ CodecInit

FormatsNext ==
  /\ UNCHANGED format
  /\ \/ format = "pages" /\ PagesNext /\ UNCHANGED <<mountVars, codecVars>>
     \/ format = "images" /\ MountNext /\ UNCHANGED <<pagesVars, codecVars>>
     \/ format = "text" /\ CodecNext /\ UNCHANGED <<pagesVars, mountVars>>

(* A flush is one call and so is a parse: both run on once begun.            *)
FormatsSpec ==
  /\ FormatsInit /\ [][FormatsNext]_formatVars
  /\ WF_pagesVars(format = "pages" /\ Close /\ UNCHANGED <<format, mountVars, codecVars>>)
  /\ WF_pagesVars(format = "pages" /\ Read /\ UNCHANGED <<format, mountVars, codecVars>>)
=============================================================================
