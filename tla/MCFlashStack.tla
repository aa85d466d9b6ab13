---------------------------- MODULE MCFlashStack ----------------------------
(* The builds in which an erase does not race the pages in the thread's      *)
(* hands: a dev build, whose thread stops at its first page, and a release   *)
(* build before the first erase.                                             *)
EXTENDS FlashStack

SafeBuilds == {[checks |-> TRUE, erasing |-> TRUE], [checks |-> FALSE, erasing |-> FALSE]}
=============================================================================
