---------------------------- MODULE DiskService ----------------------------
(* What the disk server of client-fs promises to its callers: while it is up *)
(* every request takes effect at one instant between its call and its        *)
(* answer, a read returns the page as it is at that instant, and no request  *)
(* is answered that has not taken effect.  When the server fails what was    *)
(* written may be lost, and the answers of the reads in progress with it; no *)
(* page is read after that, but a write or an erase may still be answered.   *)
EXTENDS Integers

CONSTANTS Callers, Vals, Blank, None, PagesPerBlock, Pages, Message

VARIABLES
  up,       \* whether the server is running
  pages,    \* the pages
  request,  \* each caller's request, or None
  done,     \* whether it has taken effect
  answer    \* what a read that has is answered

Init ==
  /\ up = TRUE
  /\ pages = [a \in Pages |-> Blank]
  /\ request = [c \in Callers |-> None]
  /\ done = [c \in Callers |-> FALSE]
  /\ answer = [c \in Callers |-> None]

Call(c, m) ==
  /\ up /\ request[c] = None /\ m.from = c
  /\ request' = [request EXCEPT ![c] = m]
  /\ UNCHANGED <<up, pages, done, answer>>

Effect(m) ==
  [a \in Pages |-> IF m.method = "write" /\ m.at = a THEN m.value
                   ELSE IF m.method = "erase" /\ m.at = a \div PagesPerBlock THEN Blank
                   ELSE pages[a]]

Take(c) ==
  /\ up /\ request[c] # None /\ ~done[c]
  /\ done' = [done EXCEPT ![c] = TRUE]
  /\ pages' = Effect(request[c])
  /\ answer' = [answer EXCEPT ![c] = IF request[c].method = "read" THEN pages[request[c].at] ELSE None]
  /\ UNCHANGED <<up, request>>

Return(c) ==
  /\ done[c]
  /\ request' = [request EXCEPT ![c] = None]
  /\ done' = [done EXCEPT ![c] = FALSE]
  /\ answer' = [answer EXCEPT ![c] = None]
  /\ UNCHANGED <<up, pages>>

(* The server has failed: a write or an erase has no effect any more.        *)
Ignore(c) ==
  /\ ~up /\ request[c] # None /\ request[c].method # "read" /\ ~done[c]
  /\ done' = [done EXCEPT ![c] = TRUE]
  /\ UNCHANGED <<up, pages, request, answer>>

Fail ==
  /\ up /\ up' = FALSE
  /\ pages' \in [Pages -> Vals \cup {Blank}]
  /\ \A c \in Callers :
       \/ done'[c] = done[c] /\ answer'[c] = answer[c]
       \/ request[c] # None /\ request[c].method = "read" /\ done'[c] = FALSE /\ answer'[c] = None
  /\ UNCHANGED request

Next ==
  \/ \E m \in Message : Call(m.from, m)
  \/ \E c \in Callers : Take(c) \/ Return(c) \/ Ignore(c)
  \/ Fail

Spec == Init /\ [][Next]_<<up, pages, request, done, answer>>
=============================================================================
