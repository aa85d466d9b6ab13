------------------------------ MODULE FileTree ------------------------------
(* What the file system promises of its names: a tree of directories, files  *)
(* that exist as long as some directory names them, and sizes that change by *)
(* writes and cuts only.                                                     *)
EXTENDS Integers

CONSTANTS Names, None, MaxIno, MaxSize

Inos == 1 .. MaxIno
Root == 1

VARIABLES
  kinds,    \* the type of every inode that exists
  sizes,    \* the size of every file
  entries   \* what every directory's names name

vars == <<kinds, sizes, entries>>

NoEntries == [n \in Names |-> None]

Init ==
  /\ kinds = [i \in Inos |-> IF i = Root THEN "directory" ELSE None]
  /\ sizes = [i \in Inos |-> 0]
  /\ entries = [i \in Inos |-> NoEntries]

IsDirectory(p) == kinds[p] = "directory"
IsFile(i) == kinds[i] = "file"
Kinds == {"file", "directory"}

(* A new inode begins empty; a symlink is a file that has its target.        *)
Make(p, n, i, kind, size) ==
  /\ kinds[i] = None /\ IsDirectory(p) /\ entries[p][n] = None
  /\ kind = "directory" => size = 0
  /\ kinds' = [kinds EXCEPT ![i] = kind]
  /\ sizes' = [sizes EXCEPT ![i] = size]
  /\ entries' = [entries EXCEPT ![p][n] = i, ![i] = NoEntries]

Link(i, p, n) ==
  /\ IsDirectory(p) /\ IsFile(i) /\ entries[p][n] = None
  /\ entries' = [entries EXCEPT ![p][n] = i]
  /\ UNCHANGED <<kinds, sizes>>

Named(i, p, n) == \E q \in Inos, m \in Names : <<q, m>> # <<p, n>> /\ entries[q][m] = i

(* The file goes with its last name.                                         *)
Unlink(p, n) ==
  LET i == entries[p][n] IN
  /\ i # None /\ IsFile(i)
  /\ entries' = [entries EXCEPT ![p][n] = None]
  /\ IF Named(i, p, n) THEN UNCHANGED <<kinds, sizes>>
     ELSE /\ kinds' = [kinds EXCEPT ![i] = None]
          /\ sizes' = [sizes EXCEPT ![i] = 0]

Rmdir(p, n) ==
  LET i == entries[p][n] IN
  /\ i # None /\ IsDirectory(i) /\ entries[i] = NoEntries
  /\ entries' = [entries EXCEPT ![p][n] = None]
  /\ kinds' = [kinds EXCEPT ![i] = None]
  /\ UNCHANGED sizes

(* A write extends the file by what reaches behind its end.                  *)
Write(i) ==
  /\ IsFile(i)
  /\ sizes' = [sizes EXCEPT ![i] = @ + 1]
  /\ UNCHANGED <<kinds, entries>>

Cut(i, size) ==
  /\ IsFile(i) /\ size <= sizes[i]
  /\ sizes' = [sizes EXCEPT ![i] = size]
  /\ UNCHANGED <<kinds, entries>>

Next ==
  \/ \E p \in Inos, i \in Inos, n \in Names, kind \in Kinds, size \in {0, 1} :
       Make(p, n, i, kind, size)
  \/ \E i \in Inos, p \in Inos, n \in Names : Link(i, p, n)
  \/ \E p \in Inos, n \in Names : Unlink(p, n) \/ Rmdir(p, n)
  \/ \E i \in Inos : Write(i)
  \/ \E i \in Inos, size \in 0 .. MaxSize : Cut(i, size)

Spec == Init /\ [][Next]_vars
=============================================================================
