----------------------------- MODULE RemoteDisk -----------------------------
(* client-fs: a disk served over HTTP.  A caller (DiskManager of             *)
(* remote_disk_manager.rs) posts one request at a time and aborts when it    *)
(* gets no answer; a handler per request puts a message in a channel of      *)
(* limited room and, for a read, waits for the answer; the main task takes   *)
(* the messages one by one and is alone to use the disk.  Requests that do   *)
(* not parse, bad addresses and pages that are not UTF-8 are left out.       *)
EXTENDS Integers, Sequences

CONSTANTS
  Callers,
  Vals,           \* pages' contents
  Blank,          \* an erased page
  None,           \* no value
  PagesPerBlock,  \* pages in a block (128)
  BlockCount,     \* blocks
  Room,           \* messages the channel holds (32)
  Virtual         \* TRUE for the FakeDisk, FALSE for a file

Blocks == 0 .. BlockCount - 1
Pages  == 0 .. BlockCount * PagesPerBlock - 1

ASSUME RemoteDiskAssumption ==
  /\ PagesPerBlock \in Nat \ {0} /\ BlockCount \in Nat \ {0} /\ Room \in Nat \ {0}
  /\ Virtual \in BOOLEAN
  /\ Blank \notin Vals /\ None \notin Vals /\ None # Blank

Message ==
  [method : {"read"}, at : Pages, value : {None}, from : Callers]
    \cup [method : {"write"}, at : Pages, value : Vals, from : Callers]
    \cup [method : {"erase"}, at : Blocks, value : {None}, from : Callers]

ASSUME NoneAssumption == None \notin Message

VARIABLES
  server,    \* whether the main task is running
  disk,      \* the pages of its disk
  queue,     \* the messages in the channel
  caller,    \* what each caller is doing
  handler,   \* where the handler of its request is
  request,   \* the request
  reply      \* the page the handler answers a read with

vars == <<server, disk, queue, caller, handler, request, reply>>

Init ==
  /\ server = "up"
  /\ disk = [a \in Pages |-> Blank]
  /\ queue = <<>>
  /\ caller = [c \in Callers |-> "idle"]
  /\ handler = [c \in Callers |-> "none"]
  /\ request = [c \in Callers |-> None]
  /\ reply = [c \in Callers |-> None]

-----------------------------------------------------------------------------
(* The callers.                                                              *)

Call(c, m) ==
  /\ caller[c] = "idle" /\ server = "up"
  /\ m.from = c
  /\ caller' = [caller EXCEPT ![c] = "calling"]
  /\ handler' = [handler EXCEPT ![c] = "sending"]
  /\ request' = [request EXCEPT ![c] = m]
  /\ UNCHANGED <<server, disk, queue, reply>>

Return(c) ==
  /\ caller[c] = "calling" /\ handler[c] = "replied"
  /\ caller' = [caller EXCEPT ![c] = "idle"]
  /\ handler' = [handler EXCEPT ![c] = "none"]
  /\ request' = [request EXCEPT ![c] = None]
  /\ reply' = [reply EXCEPT ![c] = None]
  /\ UNCHANGED <<server, disk, queue>>

(* No answer in time, or the connection is lost with the server: the         *)
(* caller's unwrap aborts it.                                                *)
GiveUp(c) ==
  /\ caller[c] = "calling"
  /\ caller' = [caller EXCEPT ![c] = "panicked"]
  /\ UNCHANGED <<server, disk, queue, handler, request, reply>>

-----------------------------------------------------------------------------
(* The handlers.                                                             *)

EnqueueAndLeave(c) ==                                 \* mutant of Enqueue
  /\ handler[c] = "sending" /\ server = "up"
  /\ Len(queue) < Room
  /\ queue' = Append(queue, request[c])
  /\ handler' = [handler EXCEPT ![c] = IF request[c].method = "read" THEN "gone" ELSE "replied"]
  /\ UNCHANGED <<server, disk, caller, request, reply>>

EnqueueOrDrop(c) ==                                   \* mutant of Enqueue
  /\ handler[c] = "sending" /\ server = "up"
  /\ queue' = IF Len(queue) < Room THEN Append(queue, request[c]) ELSE queue
  /\ handler' = [handler EXCEPT ![c] =
                   IF request[c].method = "read" THEN "waiting" ELSE "replied"]
  /\ UNCHANGED <<server, disk, caller, request, reply>>

Enqueue(c) ==
  /\ handler[c] = "sending" /\ server = "up"
  /\ Len(queue) < Room
  /\ queue' = Append(queue, request[c])
  /\ handler' = [handler EXCEPT ![c] =
                   IF request[c].method = "read" THEN "waiting" ELSE "replied"]
  /\ UNCHANGED <<server, disk, caller, request, reply>>

(* The main task is gone but the process has not ended: the error of send is *)
(* ignored, and a write or an erase is answered all the same.                *)
EnqueueLost(c) ==
  /\ handler[c] = "sending" /\ server = "down"
  /\ request[c].method # "read"
  /\ handler' = [handler EXCEPT ![c] = "replied"]
  /\ UNCHANGED <<server, disk, queue, caller, request, reply>>

(* The HTTP server notices that the caller has left and drops the handler.   *)
Disconnect(c) ==
  /\ caller[c] = "panicked" /\ handler[c] \in {"sending", "waiting"}
  /\ handler' = [handler EXCEPT ![c] = "gone"]
  /\ UNCHANGED <<server, disk, queue, caller, request, reply>>

-----------------------------------------------------------------------------
(* The main task.  When it aborts the channel goes with it.                  *)

Abort ==
  /\ server' = "down"
  /\ queue' = <<>>
  /\ UNCHANGED <<disk, caller, handler, request, reply>>

(* A write sets its page, an erase the pages of its block.                   *)
Sets(m, a) ==
  \/ m.method = "write" /\ m.at = a
  \/ m.method = "erase" /\ m.at = a \div PagesPerBlock

Written(m) == IF m.method = "write" THEN m.value ELSE Blank

Done(d, m) == [a \in Pages |-> IF Sets(m, a) THEN Written(m) ELSE d[a]]

(* The unwrap of the answer's sending aborts when the handler is gone, and   *)
(* the FakeDisk when the page is not clean.                                  *)
Refused(m) ==
  \/ m.method = "read" /\ handler[m.from] = "gone"
  \/ Virtual /\ m.method = "write" /\ disk[m.at] # Blank

ReceiveAgain ==                                       \* mutant of Receive
  LET m == Head(queue) IN
  /\ server = "up" /\ queue # <<>>
  /\ ~Refused(m)
  /\ queue' = IF m.method = "read" THEN Append(Tail(queue), m) ELSE Tail(queue)
  /\ disk' = Done(disk, m)
  /\ UNCHANGED <<server, caller, handler, request, reply>>

Receive ==
  LET m == Head(queue) IN
  /\ server = "up" /\ queue # <<>>
  /\ ~Refused(m)
  /\ queue' = Tail(queue)
  /\ disk' = Done(disk, m)
  /\ IF m.method = "read"
     THEN /\ handler' = [handler EXCEPT ![m.from] = "replied"]
          /\ reply' = [reply EXCEPT ![m.from] = disk[m.at]]
     ELSE UNCHANGED <<handler, reply>>
  /\ UNCHANGED <<server, caller, request>>

ReceiveAndAbort == server = "up" /\ queue # <<>> /\ Refused(Head(queue)) /\ Abort

Next ==
  \/ \E m \in Message : Call(m.from, m)
  \/ \E c \in Callers : Return(c) \/ GiveUp(c) \/ Enqueue(c) \/ EnqueueLost(c) \/ Disconnect(c)
  \/ Receive
  \/ ReceiveAndAbort

Spec == Init /\ [][Next]_vars

(* The runtime runs the tasks that are ready; the channel serves the senders *)
(* that wait for room in their order; a caller learns that the connection to *)
(* the server is lost.  No caller has to give up while the server runs.      *)
FairSpec ==
  /\ Spec
  /\ WF_vars(Receive \/ ReceiveAndAbort)
  /\ \A c \in Callers : SF_vars(Enqueue(c)) /\ WF_vars(Return(c))
       /\ WF_vars(server = "down" /\ GiveUp(c))

-----------------------------------------------------------------------------
(* Properties.                                                               *)

(* The main task of a server with a file aborts only when a caller has given *)
(* up on a read: callers that wait for their answers never bring it down,    *)
(* however their requests interleave.                                        *)
AbortsForQuitters ==
  server = "down" /\ ~Virtual =>
    \E c \in Callers : caller[c] = "panicked" /\ request[c].method = "read"

(* Every request returns, however the callers compete for the channel, or    *)
(* its caller gives up, which it has to do when the server is gone.          *)
Answered == \A c \in Callers : caller[c] = "calling" ~> caller[c] # "calling"

(* A disk once the first n messages of a channel are done: a page is as the  *)
(* last of them that sets it leaves it.                                      *)
Setting(q, n, a) == {i \in 1 .. n : Sets(q[i], a)}
LastOf(S) == CHOOSE i \in S : \A j \in S : j <= i
DiskAfter(d, q, n) ==
  [a \in Pages |-> IF Setting(q, n, a) = {} THEN d[a] ELSE Written(q[LastOf(Setting(q, n, a))])]

(* The answer a read in progress has or will have, once it is in the channel.*)
Waiting(c) == {i \in DOMAIN queue : queue[i].method = "read" /\ queue[i].from = c}
Promised(c) ==
  IF Waiting(c) = {} THEN reply[c]
  ELSE LET i == CHOOSE i \in Waiting(c) : TRUE IN DiskAfter(disk, queue, i - 1)[queue[i].at]

(* A request has taken effect once its handler has an answer or it is a read *)
(* in the channel.                                                           *)
Taken(c) == handler[c] = "replied" \/ Waiting(c) # {}

(* Requests take effect one at a time, when they enter the channel: no write *)
(* or erase is answered that every later read does not see, although the     *)
(* disk has not done it yet; a read is answered with the page at its turn;   *)
(* and only the failure of the server, after which nothing is read, loses    *)
(* what was answered.                                                        *)
DS == INSTANCE DiskService WITH
        up     <- server = "up",
        pages  <- DiskAfter(disk, queue, Len(queue)),
        done   <- [c \in Callers |-> Taken(c)],
        answer <- [c \in Callers |-> Promised(c)]
ImplementsDiskService == DS!Spec
=============================================================================
