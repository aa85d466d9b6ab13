-------------------------- MODULE RemoteDisk_proofs --------------------------
(* Proofs about the remote disk for every number of callers, every channel   *)
(* and every disk.                                                           *)
EXTENDS RemoteDisk, SequenceTheorems, WellFoundedInduction, TLAPS

TypeOK ==
  /\ server \in {"up", "down"}
  /\ queue \in Seq(Message)
  /\ caller \in [Callers -> {"idle", "calling", "panicked"}]
  /\ handler \in [Callers -> {"none", "sending", "waiting", "replied", "gone"}]
  /\ request \in [Callers -> Message \cup {None}]

(* An idle caller has no request and no handler, and only one that has given up *)
(* loses the handler of its request.                                         *)
HandlersServe ==
  \A c \in Callers :
    /\ caller[c] = "idle" => handler[c] = "none" /\ request[c] = None
    /\ handler[c] = "gone" => caller[c] = "panicked"
    /\ handler[c] \in {"sending", "waiting", "gone"} =>
         request[c] \in Message /\ request[c].from = c

(* A read in the channel is the request of its caller, whose handler waits   *)
(* for the answer or has been dropped.                                       *)
Reads == {i \in 1 .. Len(queue) : queue[i].method = "read"}

ReadsAwaited ==
  \A i \in Reads :
    /\ queue[i] = request[queue[i].from]
    /\ handler[queue[i].from] \in {"waiting", "gone"}

(* No caller has two reads in the channel.                                   *)
OneReadEach == \A i, j \in Reads : queue[i].from = queue[j].from => i = j

IInv == TypeOK /\ HandlersServe /\ ReadsAwaited /\ OneReadEach /\ AbortsForQuitters

-----------------------------------------------------------------------------
LEMMA MessageFields ==
  ASSUME NEW m \in Message
  PROVE  m.from \in Callers /\ m.method \in {"read", "write", "erase"}
BY DEF Message

LEMMA InitIInv == Init => IInv
<1>. SUFFICES ASSUME Init PROVE IInv
  OBVIOUS
<1>. USE DEF Init
<1>1. TypeOK /\ Reads = {}
  BY DEF TypeOK, Reads
<1>. QED
  BY <1>1 DEF IInv, HandlersServe, ReadsAwaited, OneReadEach, AbortsForQuitters

LEMMA CallIInv ==
  ASSUME IInv, NEW m \in Message, Call(m.from, m)
  PROVE  IInv'
<1>. USE DEF IInv, Call
<1>. DEFINE c == m.from
<1>1. c \in Callers
  BY MessageFields
<1>2. handler[c] = "none" /\ caller[c] = "idle"
  BY <1>1 DEF HandlersServe
<1>3. TypeOK'
  BY <1>1 DEF TypeOK
<1>4. HandlersServe'
  BY <1>1, <1>3 DEF HandlersServe, TypeOK
<1>5. Reads' = Reads /\ queue' = queue
  BY DEF Reads
<1>6. \A i \in Reads : queue[i].from # c
  BY <1>2 DEF ReadsAwaited
<1>7. \A i \in Reads : queue[i].from \in Callers
  BY MessageFields DEF Reads, TypeOK
<1>8. ReadsAwaited'
  BY <1>5, <1>6, <1>7 DEF ReadsAwaited, TypeOK
<1>9. OneReadEach'
  BY <1>5 DEF OneReadEach
<1>10. AbortsForQuitters'
  BY DEF AbortsForQuitters
<1>. QED
  BY <1>3, <1>4, <1>8, <1>9, <1>10

(* Steps that leave the channel and the requests alone.                      *)
LEMMA ReadsKept ==
  ASSUME IInv, UNCHANGED <<queue, request>>,
         \A c \in Callers : handler[c] \in {"waiting", "gone"} => handler'[c] \in {"waiting", "gone"}
  PROVE  ReadsAwaited' /\ OneReadEach'
<1>1. Reads' = Reads
  BY DEF Reads
<1>2. \A i \in Reads : queue[i].from \in Callers
  BY MessageFields DEF Reads, IInv, TypeOK
<1>. QED
  BY <1>1, <1>2 DEF IInv, ReadsAwaited, OneReadEach

LEMMA ReturnIInv ==
  ASSUME IInv, NEW c \in Callers, Return(c)
  PROVE  IInv'
<1>. USE DEF IInv, Return
<1>1. TypeOK'
  BY DEF TypeOK
<1>2. HandlersServe'
  BY DEF HandlersServe, TypeOK
<1>3. Reads' = Reads /\ queue' = queue
  BY DEF Reads
<1>4. \A i \in Reads : queue[i].from \in Callers /\ queue[i].from # c
  BY MessageFields DEF ReadsAwaited, Reads, TypeOK
<1>5. ReadsAwaited'
  BY <1>3, <1>4 DEF ReadsAwaited, TypeOK
<1>6. OneReadEach'
  BY <1>3 DEF OneReadEach
<1>7. AbortsForQuitters'
  BY DEF AbortsForQuitters, TypeOK
<1>. QED
  BY <1>1, <1>2, <1>5, <1>6, <1>7

LEMMA GiveUpIInv ==
  ASSUME IInv, NEW c \in Callers, GiveUp(c)
  PROVE  IInv'
<1>. USE DEF IInv, GiveUp
<1>1. TypeOK' /\ HandlersServe'
  BY DEF TypeOK, HandlersServe
<1>2. ReadsAwaited' /\ OneReadEach'
  BY ReadsKept
<1>3. AbortsForQuitters'
  BY DEF AbortsForQuitters, TypeOK
<1>. QED
  BY <1>1, <1>2, <1>3

LEMMA EnqueueIInv ==
  ASSUME IInv, NEW c \in Callers, Enqueue(c)
  PROVE  IInv'
<1>. USE DEF IInv, Enqueue
<1>1. request[c] \in Message /\ request[c].from = c
  BY DEF HandlersServe
<1>2. TypeOK'
  BY <1>1 DEF TypeOK
<1>3. HandlersServe'
  BY DEF HandlersServe, TypeOK
<1>4. /\ Len(queue) \in Nat /\ Len(queue') = Len(queue) + 1
      /\ \A i \in 1 .. Len(queue) : queue'[i] = queue[i]
      /\ queue'[Len(queue) + 1] = request[c]
  BY <1>1 DEF TypeOK
<1>5. \A i \in Reads' : i \in Reads \/ (i = Len(queue) + 1 /\ request[c].method = "read")
  BY <1>4 DEF Reads
<1>6. \A i \in Reads : queue'[i] = queue[i] /\ queue[i].from \in Callers /\ queue[i].from # c
  BY <1>4, MessageFields DEF Reads, ReadsAwaited, TypeOK
<1>7. ReadsAwaited'
  <2>. SUFFICES ASSUME NEW i \in Reads'
                PROVE  /\ queue'[i] = request'[queue'[i].from]
                       /\ handler'[queue'[i].from] \in {"waiting", "gone"}
    BY DEF ReadsAwaited
  <2>1. CASE i \in Reads
    <3>1. handler'[queue[i].from] = handler[queue[i].from]
      BY <1>6, <2>1 DEF TypeOK
    <3>. QED
      BY <1>6, <2>1, <3>1 DEF ReadsAwaited
  <2>2. CASE i = Len(queue) + 1 /\ request[c].method = "read"
    <3>1. handler'[c] = "waiting"
      BY <2>2 DEF TypeOK
    <3>. QED
      BY <1>1, <1>4, <2>2, <3>1
  <2>. QED
    BY <1>5, <2>1, <2>2
<1>8. OneReadEach'
  <2>. SUFFICES ASSUME NEW i \in Reads', NEW j \in Reads',
                       queue'[i].from = queue'[j].from
                PROVE  i = j
    BY DEF OneReadEach
  <2>1. queue'[Len(queue) + 1].from = c
    BY <1>1, <1>4
  <2>2. CASE i \in Reads /\ j \in Reads
    <3>1. queue[i].from = queue[j].from
      BY <1>6, <2>2
    <3>. QED
      BY <2>2, <3>1 DEF OneReadEach
  <2>3. CASE i \notin Reads
    BY <1>5, <1>6, <2>1, <2>3
  <2>4. CASE j \notin Reads
    BY <1>5, <1>6, <2>1, <2>4
  <2>. QED
    BY <2>2, <2>3, <2>4
<1>9. AbortsForQuitters'
  BY DEF AbortsForQuitters
<1>. QED
  BY <1>2, <1>3, <1>7, <1>8, <1>9

LEMMA LeaveIInv ==
  ASSUME IInv, NEW c \in Callers, EnqueueLost(c) \/ Disconnect(c)
  PROVE  IInv'
<1>. USE DEF IInv, EnqueueLost, Disconnect
<1>1. TypeOK'
  BY DEF TypeOK
<1>2. HandlersServe'
  BY DEF HandlersServe, TypeOK
<1>3. ReadsAwaited' /\ OneReadEach'
  BY ReadsKept DEF TypeOK
<1>4. AbortsForQuitters'
  BY DEF AbortsForQuitters
<1>. QED
  BY <1>1, <1>2, <1>3, <1>4

LEMMA ReceiveIInv ==
  ASSUME IInv, Receive
  PROVE  IInv'
<1>. USE DEF IInv
<1>. DEFINE m == Head(queue)
<1>1. /\ m = queue[1] /\ m \in Message /\ m.from \in Callers
      /\ Len(queue) \in Nat \ {0} /\ 1 \in 1 .. Len(queue)
  BY MessageFields DEF Receive, TypeOK
<1>2. /\ queue' = Tail(queue) /\ queue' \in Seq(Message) /\ Len(queue') = Len(queue) - 1
      /\ \A i \in 1 .. Len(queue) - 1 : queue'[i] = queue[i + 1]
  BY <1>1 DEF Receive, TypeOK
<1>3. UNCHANGED <<server, caller, request>> /\ server = "up" /\ ~Refused(m)
  BY DEF Receive
<1>4. \A i \in Reads' : i \in Nat /\ i + 1 \in Reads /\ queue'[i] = queue[i + 1] /\ i + 1 # 1
  BY <1>1, <1>2 DEF Reads
<1>5. \A i \in Reads : queue[i].from \in Callers
  BY MessageFields DEF Reads, TypeOK
<1>6. OneReadEach'
  BY <1>4 DEF OneReadEach
<1>7. AbortsForQuitters'
  BY <1>3 DEF AbortsForQuitters
<1>8. CASE m.method = "read"
  <2>1. handler' = [handler EXCEPT ![m.from] = "replied"]
    BY <1>8 DEF Receive
  <2>2. 1 \in Reads
    BY <1>1, <1>8 DEF Reads
  <2>3. \A i \in Reads' : queue[i + 1].from # m.from
    BY <1>1, <1>4, <2>2 DEF OneReadEach
  <2>4. ReadsAwaited'
    BY <1>3, <1>4, <1>5, <2>1, <2>3 DEF ReadsAwaited, TypeOK
  <2>5. caller[m.from] # "idle"
    BY <1>1, <2>2 DEF ReadsAwaited, HandlersServe
  <2>6. HandlersServe'
    BY <1>1, <1>3, <2>1, <2>5 DEF HandlersServe, TypeOK
  <2>7. TypeOK'
    BY <1>1, <1>2, <1>3, <2>1 DEF TypeOK
  <2>. QED
    BY <1>6, <1>7, <2>4, <2>6, <2>7
<1>9. CASE m.method # "read"
  <2>1. handler' = handler
    BY <1>9 DEF Receive
  <2>2. ReadsAwaited'
    BY <1>3, <1>4, <2>1 DEF ReadsAwaited
  <2>3. TypeOK' /\ HandlersServe'
    BY <1>2, <1>3, <2>1 DEF TypeOK, HandlersServe
  <2>. QED
    BY <1>6, <1>7, <2>2, <2>3
<1>. QED
  BY <1>8, <1>9

LEMMA AbortIInv ==
  ASSUME IInv, ReceiveAndAbort
  PROVE  IInv'
<1>. USE DEF IInv, ReceiveAndAbort, Abort
<1>. DEFINE m == Head(queue)
<1>1. m = queue[1] /\ m \in Message /\ m.from \in Callers /\ 1 \in 1 .. Len(queue)
  BY MessageFields DEF TypeOK
<1>2. TypeOK' /\ HandlersServe' /\ Reads' = {}
  BY DEF TypeOK, HandlersServe, Reads
<1>3. ReadsAwaited' /\ OneReadEach'
  BY <1>2 DEF ReadsAwaited, OneReadEach
<1>4. ASSUME ~Virtual
      PROVE  caller[m.from] = "panicked" /\ request[m.from].method = "read"
  <2>1. m.method = "read" /\ handler[m.from] = "gone"
    BY <1>4 DEF Refused
  <2>2. 1 \in Reads
    BY <1>1, <2>1 DEF Reads
  <2>. QED
    BY <1>1, <2>1, <2>2 DEF ReadsAwaited, HandlersServe
<1>5. AbortsForQuitters'
  BY <1>1, <1>4 DEF AbortsForQuitters
<1>. QED
  BY <1>2, <1>3, <1>5

LEMMA IInvHolds == Spec => []IInv
<1>1. IInv /\ [Next]_vars => IInv'
  <2>. SUFFICES ASSUME IInv, [Next]_vars PROVE IInv'
    OBVIOUS
  <2>1. CASE UNCHANGED vars
    BY <2>1 DEF vars, IInv, TypeOK, HandlersServe, ReadsAwaited, OneReadEach,
                Reads, AbortsForQuitters
  <2>2. CASE Next
    BY <2>2, CallIInv, ReturnIInv, GiveUpIInv, EnqueueIInv, LeaveIInv, ReceiveIInv, AbortIInv
       DEF Next
  <2>. QED
    BY <2>1, <2>2
<1>. QED
  BY InitIInv, <1>1, PTL DEF Spec

(* The handlers and the channel agree in every reachable state, and with     *)
(* them AbortsForQuitters holds: a read's answer finds its handler unless    *)
(* the caller of this very read has given up.                                *)
THEOREM AbortsOnlyForQuitters == Spec => []AbortsForQuitters
<1>1. IInv => AbortsForQuitters
  BY DEF IInv
<1>. QED
  BY <1>1, IInvHolds, PTL

-----------------------------------------------------------------------------
(* The disk, once messages of the channel are done.                          *)
Contents == Vals \cup {Blank}

LEMMA LastExists ==
  ASSUME NEW n \in Nat, NEW S \in SUBSET (1 .. n), S # {}
  PROVE  LastOf(S) \in S /\ \A j \in S : j <= LastOf(S)
<1>. DEFINE left == {n - i : i \in S}
<1>1. left \subseteq Nat /\ left # {}
  <2>1. \A i \in S : i \in 1 .. n /\ n - i \in Nat
    OBVIOUS
  <2>. QED
    BY <2>1
<1>2. PICK r \in left : \A s \in left : ~(<<s, r>> \in OpToRel(<, Nat))
  BY <1>1, NatLessThanWellFounded, WFMin
<1>3. \A s \in left : ~(s < r)
  BY <1>1, <1>2, Zenon DEF OpToRel
<1>4. PICK i \in S : r = n - i
  OBVIOUS
<1>5. \A j \in S : j <= i
  BY <1>3, <1>4
<1>. QED
  BY <1>4, <1>5 DEF LastOf

LEMMA LastIs ==
  ASSUME NEW n \in Nat, NEW S \in SUBSET (1 .. n), NEW i \in S, \A j \in S : j <= i
  PROVE  LastOf(S) = i
<1>1. LastOf(S) \in S /\ i <= LastOf(S) /\ LastOf(S) <= i
  BY LastExists
<1>2. LastOf(S) \in 1 .. n /\ i \in 1 .. n
  BY <1>1
<1>. QED
  BY <1>1, <1>2

(* A page after n messages, by its last setting.                             *)
LEMMA PageUnset ==
  ASSUME NEW d, NEW q, NEW n \in Nat, NEW a \in Pages, \A j \in 1 .. n : ~Sets(q[j], a)
  PROVE  DiskAfter(d, q, n)[a] = d[a]
BY DEF DiskAfter, Setting

LEMMA PageSet ==
  ASSUME NEW d, NEW q, NEW n \in Nat, NEW a \in Pages,
         NEW i \in 1 .. n, Sets(q[i], a), \A j \in i + 1 .. n : ~Sets(q[j], a)
  PROVE  DiskAfter(d, q, n)[a] = Written(q[i])
<1>1. i \in Setting(q, n, a) /\ Setting(q, n, a) \in SUBSET (1 .. n)
  BY DEF Setting
<1>2. \A j \in Setting(q, n, a) : j <= i
  BY DEF Setting
<1>3. LastOf(Setting(q, n, a)) = i
  BY <1>1, <1>2, LastIs
<1>. QED
  BY <1>1, <1>3 DEF DiskAfter

LEMMA PageCases ==
  ASSUME NEW q, NEW n \in Nat, NEW a
  PROVE  \/ \A j \in 1 .. n : ~Sets(q[j], a)
         \/ \E i \in 1 .. n : Sets(q[i], a) /\ \A j \in i + 1 .. n : ~Sets(q[j], a)
<1>. SUFFICES ASSUME NEW k \in 1 .. n, Sets(q[k], a)
              PROVE  \E i \in 1 .. n : Sets(q[i], a) /\ \A j \in i + 1 .. n : ~Sets(q[j], a)
  OBVIOUS
<1>. DEFINE S == Setting(q, n, a)
<1>1. S \in SUBSET (1 .. n) /\ k \in S
  BY DEF Setting
<1>2. LastOf(S) \in S /\ \A j \in S : j <= LastOf(S)
  BY <1>1, LastExists
<1>3. LastOf(S) \in 1 .. n /\ Sets(q[LastOf(S)], a)
  BY <1>2 DEF Setting
<1>4. \A j \in LastOf(S) + 1 .. n : ~Sets(q[j], a)
  BY <1>2, <1>3 DEF Setting
<1>. QED
  BY <1>3, <1>4

LEMMA DiskAfterFunction ==
  ASSUME NEW d, NEW q, NEW n
  PROVE  DiskAfter(d, q, n) = [a \in Pages |-> DiskAfter(d, q, n)[a]]
BY DEF DiskAfter

(* Only the first n messages matter.                                         *)
LEMMA AfterSame ==
  ASSUME NEW d, NEW q, NEW r, NEW n \in Nat, \A i \in 1 .. n : q[i] = r[i]
  PROVE  DiskAfter(d, q, n) = DiskAfter(d, r, n)
<1>1. ASSUME NEW a \in Pages PROVE DiskAfter(d, q, n)[a] = DiskAfter(d, r, n)[a]
  <2>1. CASE \A j \in 1 .. n : ~Sets(q[j], a)
    BY <2>1, PageUnset
  <2>2. ASSUME NEW i \in 1 .. n, Sets(q[i], a), \A j \in i + 1 .. n : ~Sets(q[j], a)
        PROVE  DiskAfter(d, q, n)[a] = DiskAfter(d, r, n)[a]
    <3>1. DiskAfter(d, q, n)[a] = Written(q[i])
      BY <2>2, PageSet
    <3>2. q[i] = r[i] /\ Sets(r[i], a) /\ \A j \in i + 1 .. n : ~Sets(r[j], a)
      BY <2>2
    <3>3. DiskAfter(d, r, n)[a] = Written(r[i])
      BY <3>2, PageSet
    <3>. QED
      BY <3>1, <3>2, <3>3
  <2>. QED
    BY <2>1, <2>2, PageCases
<1>. QED
  BY <1>1, DiskAfterFunction

(* One message more is done after the others.                                *)
LEMMA AfterNext ==
  ASSUME NEW d, NEW q, NEW n \in Nat
  PROVE  DiskAfter(d, q, n + 1) = Done(DiskAfter(d, q, n), q[n + 1])
<1>1. ASSUME NEW a \in Pages
      PROVE  DiskAfter(d, q, n + 1)[a] = Done(DiskAfter(d, q, n), q[n + 1])[a]
  <2>1. CASE Sets(q[n + 1], a)
    <3>1. DiskAfter(d, q, n + 1)[a] = Written(q[n + 1])
      BY <2>1, PageSet
    <3>. QED
      BY <2>1, <3>1 DEF Done
  <2>2. CASE ~Sets(q[n + 1], a)
    <3>1. Done(DiskAfter(d, q, n), q[n + 1])[a] = DiskAfter(d, q, n)[a]
      BY <2>2 DEF Done
    <3>2. CASE \A j \in 1 .. n : ~Sets(q[j], a)
      <4>1. \A j \in 1 .. n + 1 : ~Sets(q[j], a)
        BY <2>2, <3>2
      <4>. QED
        BY <3>1, <3>2, <4>1, PageUnset
    <3>3. ASSUME NEW i \in 1 .. n, Sets(q[i], a), \A j \in i + 1 .. n : ~Sets(q[j], a)
          PROVE  DiskAfter(d, q, n + 1)[a] = DiskAfter(d, q, n)[a]
      <4>1. i \in 1 .. n + 1 /\ \A j \in i + 1 .. n + 1 : ~Sets(q[j], a)
        BY <2>2, <3>3
      <4>2. DiskAfter(d, q, n + 1)[a] = Written(q[i])
        BY <3>3, <4>1, PageSet
      <4>3. DiskAfter(d, q, n)[a] = Written(q[i])
        BY <3>3, PageSet
      <4>. QED
        BY <4>2, <4>3
    <3>. QED
      BY <3>1, <3>2, <3>3, PageCases
  <2>. QED
    BY <2>1, <2>2
<1>. QED
  BY <1>1, DiskAfterFunction DEF Done

(* When the first message is done, what the channel will lead to is as before.*)
LEMMA AfterShift ==
  ASSUME NEW d, NEW q, NEW r, NEW n \in Nat, \A i \in 1 .. n : r[i] = q[i + 1]
  PROVE  DiskAfter(Done(d, q[1]), r, n) = DiskAfter(d, q, n + 1)
<1>1. ASSUME NEW a \in Pages
      PROVE  DiskAfter(Done(d, q[1]), r, n)[a] = DiskAfter(d, q, n + 1)[a]
  <2>1. CASE \A j \in 1 .. n : ~Sets(r[j], a)
    <3>1. DiskAfter(Done(d, q[1]), r, n)[a] = Done(d, q[1])[a]
      BY <2>1, PageUnset
    <3>2. ASSUME NEW j \in 2 .. n + 1 PROVE ~Sets(q[j], a)
      <4>1. j - 1 \in 1 .. n /\ r[j - 1] = q[j]
        OBVIOUS
      <4>. QED
        BY <2>1, <4>1
    <3>3. CASE Sets(q[1], a)
      <4>1. DiskAfter(d, q, n + 1)[a] = Written(q[1])
        BY <3>2, <3>3, PageSet
      <4>. QED
        BY <3>1, <3>3, <4>1 DEF Done
    <3>4. CASE ~Sets(q[1], a)
      <4>1. \A j \in 1 .. n + 1 : ~Sets(q[j], a)
        BY <3>2, <3>4
      <4>2. DiskAfter(d, q, n + 1)[a] = d[a]
        BY <4>1, PageUnset
      <4>. QED
        BY <3>1, <3>4, <4>2 DEF Done
    <3>. QED
      BY <3>3, <3>4
  <2>2. ASSUME NEW i \in 1 .. n, Sets(r[i], a), \A j \in i + 1 .. n : ~Sets(r[j], a)
        PROVE  DiskAfter(Done(d, q[1]), r, n)[a] = DiskAfter(d, q, n + 1)[a]
    <3>1. DiskAfter(Done(d, q[1]), r, n)[a] = Written(r[i])
      BY <2>2, PageSet
    <3>2. i + 1 \in 1 .. n + 1 /\ r[i] = q[i + 1]
      OBVIOUS
    <3>3. ASSUME NEW j \in (i + 1) + 1 .. n + 1 PROVE ~Sets(q[j], a)
      <4>1. j - 1 \in i + 1 .. n /\ j - 1 \in 1 .. n /\ r[j - 1] = q[j]
        OBVIOUS
      <4>. QED
        BY <2>2, <4>1
    <3>4. DiskAfter(d, q, n + 1)[a] = Written(q[i + 1])
      BY <2>2, <3>2, <3>3, PageSet
    <3>. QED
      BY <3>1, <3>2, <3>4
  <2>. QED
    BY <2>1, <2>2, PageCases
<1>. QED
  BY <1>1, DiskAfterFunction

LEMMA AfterNone ==
  ASSUME NEW d, NEW q, d = [a \in Pages |-> d[a]]
  PROVE  DiskAfter(d, q, 0) = d
<1>1. \A a \in Pages : DiskAfter(d, q, 0)[a] = d[a]
  BY PageUnset
<1>. QED
  BY <1>1, DiskAfterFunction

-----------------------------------------------------------------------------
(* What is in the disk, and that a request without an answer has none.       *)
DataOK ==
  /\ disk \in [Pages -> Contents]
  /\ reply \in [Callers -> Contents \cup {None}]
  /\ \A c \in Callers : handler[c] # "replied" => reply[c] = None

LEMMA DoneType ==
  ASSUME NEW d \in [Pages -> Contents], NEW m \in Message
  PROVE  Done(d, m) \in [Pages -> Contents]
BY DEF Done, Written, Message, Contents

LEMMA InitDataOK == Init => DataOK
BY DEF Init, DataOK, Contents

LEMMA HeadOfQueue ==
  ASSUME IInv, queue # <<>>
  PROVE  /\ Head(queue) = queue[1] /\ queue[1] \in Message /\ queue[1].from \in Callers
         /\ Len(queue) \in Nat \ {0}
         /\ Tail(queue) \in Seq(Message) /\ Len(Tail(queue)) = Len(queue) - 1
         /\ \A i \in 1 .. Len(queue) - 1 : Tail(queue)[i] = queue[i + 1]
<1>1. queue \in Seq(Message)
  BY DEF IInv, TypeOK
<1>2. Len(queue) \in Nat \ {0} /\ queue[1] \in Message
  BY <1>1
<1>. QED
  BY <1>1, <1>2, MessageFields

LEMMA NextDataOK ==
  ASSUME IInv, DataOK, [Next]_vars
  PROVE  DataOK'
<1>. USE DEF DataOK
<1>1. ASSUME NEW m \in Message, Call(m.from, m) PROVE DataOK'
  BY <1>1, MessageFields DEF Call, IInv, HandlersServe, TypeOK
<1>2. ASSUME NEW c \in Callers, Return(c) PROVE DataOK'
  BY <1>2 DEF Return, IInv, TypeOK
<1>3. ASSUME NEW c \in Callers, GiveUp(c) \/ Enqueue(c) \/ EnqueueLost(c) \/ Disconnect(c)
      PROVE  DataOK'
  <2>1. UNCHANGED <<disk, reply>>
    BY <1>3 DEF GiveUp, Enqueue, EnqueueLost, Disconnect
  <2>2. handler[c] # "replied" \/ UNCHANGED handler
    BY <1>3 DEF GiveUp, Enqueue, EnqueueLost, Disconnect
  <2>3. \A b \in Callers : b # c => handler'[b] = handler[b]
    BY <1>3 DEF GiveUp, Enqueue, EnqueueLost, Disconnect, IInv, TypeOK
  <2>. QED
    BY <2>1, <2>2, <2>3
<1>4. CASE Receive
  <2>. DEFINE m == Head(queue)
  <2>1. m \in Message /\ m.from \in Callers
    BY <1>4, HeadOfQueue DEF Receive
  <2>2. disk' \in [Pages -> Contents]
    BY <1>4, <2>1, DoneType DEF Receive
  <2>3. m.method = "read" => disk[m.at] \in Contents
    BY <2>1 DEF Message
  <2>. QED
    BY <1>4, <2>1, <2>2, <2>3 DEF Receive, IInv, TypeOK
<1>5. CASE ReceiveAndAbort
  BY <1>5 DEF ReceiveAndAbort, Abort
<1>6. CASE UNCHANGED vars
  BY <1>6 DEF vars
<1>. QED
  BY <1>1, <1>2, <1>3, <1>4, <1>5, <1>6 DEF Next

-----------------------------------------------------------------------------
(* What the abstract disk shows of a state.                                  *)
WaitingIn(q, c) == {i \in DOMAIN q : q[i].method = "read" /\ q[i].from = c}
PromisedIn(d, q, r, c) ==
  IF WaitingIn(q, c) = {} THEN r[c]
  ELSE LET i == CHOOSE i \in WaitingIn(q, c) : TRUE IN DiskAfter(d, q, i - 1)[q[i].at]

pages  == DiskAfter(disk, queue, Len(queue))
answer == [c \in Callers |-> Promised(c)]
done   == [c \in Callers |-> Taken(c)]

LEMMA TakenState ==
  ASSUME NEW c \in Callers
  PROVE  /\ done[c] = (handler[c] = "replied" \/ WaitingIn(queue, c) # {})
         /\ done'[c] = (handler'[c] = "replied" \/ WaitingIn(queue', c) # {})
<1>1. Waiting(c) = WaitingIn(queue, c) /\ Waiting(c)' = WaitingIn(queue', c)
  BY DEF Waiting, WaitingIn
<1>. QED
  BY <1>1 DEF done, Taken

LEMMA PromisedState ==
  ASSUME NEW c \in Callers
  PROVE  /\ answer[c] = PromisedIn(disk, queue, reply, c)
         /\ answer'[c] = PromisedIn(disk', queue', reply', c)
<1>1. Promised(c) = PromisedIn(disk, queue, reply, c)
  BY DEF Promised, PromisedIn, Waiting, WaitingIn
<1>2. Promised(c)' = PromisedIn(disk', queue', reply', c)
  BY DEF Promised, PromisedIn, Waiting, WaitingIn
<1>. QED
  BY <1>1, <1>2 DEF answer

LEMMA AnswerFunctions ==
  /\ answer = [c \in Callers |-> answer[c]] /\ answer' = [c \in Callers |-> answer'[c]]
  /\ pages = [a \in Pages |-> pages[a]] /\ pages' = [a \in Pages |-> pages'[a]]
  /\ done = [c \in Callers |-> done[c]] /\ done' = [c \in Callers |-> done'[c]]
BY DEF answer, pages, DiskAfter, done

LEMMA NoneWaiting ==
  ASSUME NEW d, NEW q, NEW r, NEW c, WaitingIn(q, c) = {}
  PROVE  PromisedIn(d, q, r, c) = r[c]
BY DEF PromisedIn

LEMMA OneWaiting ==
  ASSUME NEW d, NEW q, NEW r, NEW c, NEW i \in WaitingIn(q, c), \A j \in WaitingIn(q, c) : j = i
  PROVE  PromisedIn(d, q, r, c) = DiskAfter(d, q, i - 1)[q[i].at]
BY DEF PromisedIn

(* The reads in the channel are those their callers' handlers await.         *)
LEMMA WaitingOnce ==
  ASSUME IInv, NEW c \in Callers
  PROVE  /\ \A i \in WaitingIn(queue, c) :
              /\ i \in 1 .. Len(queue) /\ i \in Nat
              /\ handler[c] \in {"waiting", "gone"} /\ queue[i].at \in Pages
         /\ \A i, j \in WaitingIn(queue, c) : i = j
<1>1. queue \in Seq(Message) /\ DOMAIN queue = 1 .. Len(queue) /\ Len(queue) \in Nat
  BY DEF IInv, TypeOK
<1>2. WaitingIn(queue, c) = {i \in Reads : queue[i].from = c}
  BY <1>1 DEF WaitingIn, Reads
<1>3. \A i \in Reads : queue[i] \in Message /\ queue[i].method = "read"
  BY <1>1 DEF Reads
<1>4. \A i \in Reads : queue[i].at \in Pages
  BY <1>3 DEF Message
<1>. QED
  BY <1>1, <1>2, <1>4 DEF Reads, IInv, ReadsAwaited, OneReadEach

(* A request takes effect in Enqueue, or without one once the server has     *)
(* failed; no other step but its return changes whether it has.              *)
LEMMA DoneReturn ==
  ASSUME IInv, NEW c \in Callers, Return(c)
  PROVE  done[c] /\ done' = [done EXCEPT ![c] = FALSE]
<1>1. queue' = queue /\ handler[c] = "replied" /\ handler' = [handler EXCEPT ![c] = "none"]
  BY DEF Return
<1>2. WaitingIn(queue, c) = {}
  BY <1>1, WaitingOnce
<1>3. ASSUME NEW b \in Callers PROVE done'[b] = IF b = c THEN FALSE ELSE done[b]
  BY <1>1, <1>2, TakenState DEF IInv, TypeOK
<1>. QED
  BY <1>1, <1>3, TakenState, AnswerFunctions

LEMMA DoneEnqueue ==
  ASSUME IInv, NEW c \in Callers, Enqueue(c)
  PROVE  ~done[c] /\ done' = [done EXCEPT ![c] = TRUE]
<1>. DEFINE m == request[c]
            n == Len(queue)
<1>1. /\ handler[c] = "sending" /\ m \in Message /\ m.from = c
      /\ queue' = Append(queue, m) /\ queue \in Seq(Message) /\ n \in Nat
      /\ handler' = [handler EXCEPT ![c] = IF m.method = "read" THEN "waiting" ELSE "replied"]
  BY DEF Enqueue, IInv, HandlersServe, TypeOK
<1>2. /\ DOMAIN queue = 1 .. n /\ DOMAIN queue' = 1 .. n + 1
      /\ queue'[n + 1] = m /\ \A i \in 1 .. n : queue'[i] = queue[i]
  BY <1>1
<1>3. WaitingIn(queue, c) = {} /\ ~done[c]
  BY <1>1, WaitingOnce, TakenState
<1>4. done'[c] = TRUE
  <2>1. CASE m.method = "read"
    <3>1. n + 1 \in WaitingIn(queue', c)
      BY <1>1, <1>2, <2>1 DEF WaitingIn
    <3>. QED
      BY <3>1, TakenState
  <2>2. CASE m.method # "read"
    BY <1>1, <2>2, TakenState DEF IInv, TypeOK
  <2>. QED
    BY <2>1, <2>2
<1>5. ASSUME NEW b \in Callers, b # c PROVE done'[b] = done[b]
  <2>1. WaitingIn(queue', b) = WaitingIn(queue, b)
    BY <1>1, <1>2, <1>5 DEF WaitingIn
  <2>2. handler'[b] = handler[b]
    BY <1>1, <1>5
  <2>. QED
    BY <2>1, <2>2, TakenState
<1>. QED
  BY <1>3, <1>4, <1>5, AnswerFunctions

LEMMA DoneLost ==
  ASSUME IInv, NEW c \in Callers, EnqueueLost(c)
  PROVE  ~done[c] /\ done' = [done EXCEPT ![c] = TRUE]
<1>1. queue' = queue /\ handler[c] = "sending" /\ handler' = [handler EXCEPT ![c] = "replied"]
  BY DEF EnqueueLost
<1>2. WaitingIn(queue, c) = {}
  BY <1>1, WaitingOnce
<1>3. ASSUME NEW b \in Callers PROVE done'[b] = IF b = c THEN TRUE ELSE done[b]
  BY <1>1, TakenState DEF IInv, TypeOK
<1>. QED
  BY <1>1, <1>2, <1>3, TakenState, AnswerFunctions

LEMMA DoneKept ==
  ASSUME IInv, queue' = queue,
         \A c \in Callers : handler'[c] = "replied" <=> handler[c] = "replied"
  PROVE  done' = done
<1>1. ASSUME NEW c \in Callers PROVE done'[c] = done[c]
  BY TakenState
<1>. QED
  BY <1>1, AnswerFunctions

LEMMA DoneReceive ==
  ASSUME IInv, Receive
  PROVE  done' = done
<1>. DEFINE m == queue[1]
            n == Len(queue)
<1>1. /\ queue # <<>> /\ Head(queue) = m /\ m \in Message /\ m.from \in Callers
      /\ queue' = Tail(queue)
      /\ IF m.method = "read"
         THEN handler' = [handler EXCEPT ![m.from] = "replied"]
         ELSE handler' = handler
  BY HeadOfQueue DEF Receive
<1>2. /\ n \in Nat \ {0} /\ DOMAIN queue = 1 .. n /\ DOMAIN queue' = 1 .. n - 1
      /\ \A i \in 1 .. n - 1 : queue'[i] = queue[i + 1]
  BY <1>1, HeadOfQueue DEF IInv, TypeOK
<1>3. ASSUME NEW b \in Callers PROVE done'[b] = done[b]
  <2>1. \A i \in WaitingIn(queue', b) : i + 1 \in WaitingIn(queue, b)
    BY <1>2 DEF WaitingIn
  <2>2. ASSUME NEW i \in WaitingIn(queue, b), i # 1 PROVE i - 1 \in WaitingIn(queue', b)
    <3>1. i - 1 \in 1 .. n - 1 /\ queue'[i - 1] = queue[i]
      BY <1>2, <2>2 DEF WaitingIn
    <3>. QED
      BY <1>2, <3>1 DEF WaitingIn
  <2>3. CASE 1 \in WaitingIn(queue, b)
    <3>1. m.method = "read" /\ m.from = b
      BY <2>3 DEF WaitingIn
    <3>2. handler'[b] = "replied"
      BY <1>1, <3>1 DEF IInv, TypeOK
    <3>. QED
      BY <2>3, <3>2, TakenState
  <2>4. CASE 1 \notin WaitingIn(queue, b)
    <3>1. handler'[b] = handler[b]
      <4>1. m.method # "read" \/ m.from # b
        BY <1>2, <2>4 DEF WaitingIn
      <4>. QED
        BY <1>1, <4>1 DEF IInv, TypeOK
    <3>2. WaitingIn(queue', b) = {} <=> WaitingIn(queue, b) = {}
      BY <2>1, <2>2, <2>4
    <3>. QED
      BY <3>1, <3>2, TakenState
  <2>. QED
    BY <2>3, <2>4
<1>. QED
  BY <1>3, AnswerFunctions

LEMMA ReturnStep ==
  ASSUME IInv, DataOK, NEW c \in Callers, Return(c)
  PROVE  pages' = pages /\ answer' = [answer EXCEPT ![c] = None]
<1>1. UNCHANGED <<disk, queue>> /\ handler[c] = "replied" /\ reply' = [reply EXCEPT ![c] = None]
  BY DEF Return
<1>2. ASSUME NEW b \in Callers PROVE answer'[b] = IF b = c THEN None ELSE answer[b]
  <2>1. CASE b = c
    <3>1. WaitingIn(queue, c) = {}
      BY <1>1, WaitingOnce
    <3>2. reply'[c] = None
      BY <1>1 DEF DataOK
    <3>3. disk' = disk /\ queue' = queue
      BY <1>1
    <3>4. answer'[c] = PromisedIn(disk, queue, reply', c)
      BY <3>3, PromisedState
    <3>. QED
      BY <2>1, <3>1, <3>2, <3>4, NoneWaiting
  <2>2. CASE b # c
    <3>1. reply'[b] = reply[b]
      BY <1>1, <2>2
    <3>2. PromisedIn(disk, queue, reply', b) = PromisedIn(disk, queue, reply, b)
      BY <3>1 DEF PromisedIn
    <3>3. disk' = disk /\ queue' = queue
      BY <1>1
    <3>4. answer'[b] = PromisedIn(disk, queue, reply', b)
      BY <3>3, PromisedState
    <3>5. answer[b] = PromisedIn(disk, queue, reply, b)
      BY PromisedState
    <3>. QED
      BY <2>2, <3>2, <3>4, <3>5
  <2>. QED
    BY <2>1, <2>2
<1>. QED
  BY <1>1, <1>2, AnswerFunctions DEF pages

LEMMA EnqueueStep ==
  ASSUME IInv, DataOK, NEW c \in Callers, Enqueue(c)
  PROVE  LET m == request[c] IN
         /\ m \in Message
         /\ pages' = Done(pages, m)
         /\ answer[c] = None
         /\ IF m.method = "read"
            THEN answer' = [answer EXCEPT ![c] = pages[m.at]]
            ELSE answer' = answer
<1>. DEFINE m == request[c]
            n == Len(queue)
<1>1. /\ handler[c] = "sending" /\ m \in Message /\ m.from = c
      /\ queue' = Append(queue, m) /\ UNCHANGED <<disk, reply>>
      /\ queue \in Seq(Message) /\ n \in Nat
  BY DEF Enqueue, IInv, HandlersServe, TypeOK
<1>2. /\ DOMAIN queue = 1 .. n /\ DOMAIN queue' = 1 .. n + 1
      /\ Len(queue') = n + 1 /\ queue'[n + 1] = m
      /\ \A i \in 1 .. n : queue'[i] = queue[i]
  BY <1>1
<1>3. \A k \in 0 .. n : DiskAfter(disk, queue', k) = DiskAfter(disk, queue, k)
  BY <1>2, AfterSame
<1>4. pages' = Done(pages, m)
  <2>1. DiskAfter(disk, queue', n + 1) = Done(DiskAfter(disk, queue', n), m)
    <3>1. n \in Nat /\ queue'[n + 1] = m
      BY <1>1, <1>2
    <3>2. DiskAfter(disk, queue', n + 1) = Done(DiskAfter(disk, queue', n), queue'[n + 1])
      BY <3>1, AfterNext
    <3>. QED
      BY <3>1, <3>2
  <2>2. DiskAfter(disk, queue', n) = pages
    BY <1>1, <1>3 DEF pages
  <2>3. pages' = DiskAfter(disk, queue', n + 1)
    BY <1>1, <1>2 DEF pages
  <2>. QED
    BY <2>1, <2>2, <2>3
<1>5. WaitingIn(queue, c) = {} /\ answer[c] = None
  <2>1. WaitingIn(queue, c) = {}
    BY <1>1, WaitingOnce
  <2>2. reply[c] = None
    BY <1>1 DEF DataOK
  <2>. QED
    BY <2>1, <2>2, NoneWaiting, PromisedState
<1>6. ASSUME NEW b \in Callers, b # c \/ m.method # "read"
      PROVE  answer'[b] = answer[b]
  <2>1. WaitingIn(queue', b) = WaitingIn(queue, b)
    BY <1>1, <1>2, <1>6 DEF WaitingIn
  <2>2. answer'[b] = PromisedIn(disk, queue', reply, b)
    BY <1>1, PromisedState
  <2>3. CASE WaitingIn(queue, b) = {}
    BY <2>1, <2>2, <2>3, NoneWaiting, PromisedState
  <2>4. CASE WaitingIn(queue, b) # {}
    <3>1. PICK i \in WaitingIn(queue, b) : TRUE
      BY <2>4
    <3>2. i \in 1 .. n /\ i - 1 \in 0 .. n /\ \A j \in WaitingIn(queue, b) : j = i
      BY <1>1, <3>1, WaitingOnce
    <3>3. PromisedIn(disk, queue, reply, b) = DiskAfter(disk, queue, i - 1)[queue[i].at]
      BY <3>1, <3>2, OneWaiting
    <3>4. PromisedIn(disk, queue', reply, b) = DiskAfter(disk, queue', i - 1)[queue'[i].at]
      BY <2>1, <3>1, <3>2, OneWaiting
    <3>. QED
      BY <1>2, <1>3, <2>2, <3>2, <3>3, <3>4, PromisedState
  <2>. QED
    BY <2>3, <2>4
<1>7. ASSUME m.method = "read" PROVE answer'[c] = pages[m.at]
  <2>1. n + 1 \in WaitingIn(queue', c) /\ \A j \in WaitingIn(queue', c) : j = n + 1
    BY <1>1, <1>2, <1>5, <1>7 DEF WaitingIn
  <2>2. PromisedIn(disk, queue', reply, c) = DiskAfter(disk, queue', (n + 1) - 1)[queue'[n + 1].at]
    BY <2>1, OneWaiting
  <2>3. DiskAfter(disk, queue', (n + 1) - 1) = pages
    BY <1>1, <1>3 DEF pages
  <2>4. answer'[c] = PromisedIn(disk, queue', reply, c)
    BY <1>1, PromisedState
  <2>. QED
    BY <1>2, <2>2, <2>3, <2>4
<1>8. CASE m.method = "read"
  BY <1>1, <1>4, <1>5, <1>6, <1>7, <1>8, AnswerFunctions
<1>9. CASE m.method # "read"
  BY <1>1, <1>4, <1>5, <1>6, <1>9, AnswerFunctions
<1>. QED
  BY <1>8, <1>9

LEMMA ReceiveStep ==
  ASSUME IInv, DataOK, Receive
  PROVE  UNCHANGED <<pages, answer>>
<1>. DEFINE m == queue[1]
            n == Len(queue)
<1>1. /\ queue # <<>> /\ Head(queue) = m /\ m \in Message /\ m.from \in Callers
      /\ queue' = Tail(queue) /\ disk' = Done(disk, m)
      /\ IF m.method = "read"
         THEN reply' = [reply EXCEPT ![m.from] = disk[m.at]]
         ELSE reply' = reply
  BY HeadOfQueue DEF Receive
<1>2. /\ n \in Nat \ {0} /\ queue \in Seq(Message) /\ DOMAIN queue = 1 .. n
      /\ Len(queue') = n - 1 /\ DOMAIN queue' = 1 .. n - 1
      /\ \A i \in 1 .. n - 1 : queue'[i] = queue[i + 1]
  BY <1>1, HeadOfQueue DEF IInv, TypeOK
<1>3. \A k \in 0 .. n - 1 : DiskAfter(disk', queue', k) = DiskAfter(disk, queue, k + 1)
  <2>. SUFFICES ASSUME NEW k \in 0 .. n - 1
                PROVE  DiskAfter(disk', queue', k) = DiskAfter(disk, queue, k + 1)
    OBVIOUS
  <2>1. disk' = Done(disk, queue[1])
    BY <1>1
  <2>2. k \in Nat /\ \A i \in 1 .. k : queue'[i] = queue[i + 1]
    BY <1>2
  <2>3. DiskAfter(Done(disk, queue[1]), queue', k) = DiskAfter(disk, queue, k + 1)
    BY <2>2, AfterShift
  <2>. QED
    BY <2>1, <2>3
<1>4. pages' = pages
  <2>1. DiskAfter(disk', queue', n - 1) = DiskAfter(disk, queue, (n - 1) + 1)
    BY <1>2, <1>3
  <2>. QED
    BY <1>2, <2>1 DEF pages
<1>5. ASSUME NEW b \in Callers PROVE answer'[b] = answer[b]
  <2>1. \A i \in WaitingIn(queue', b) : i \in 1 .. n - 1 /\ i + 1 \in WaitingIn(queue, b)
    BY <1>2 DEF WaitingIn
  <2>2. \A i \in WaitingIn(queue, b) : i # 1 => i - 1 \in WaitingIn(queue', b)
    <3>. SUFFICES ASSUME NEW i \in WaitingIn(queue, b), i # 1
                  PROVE  i - 1 \in WaitingIn(queue', b)
      OBVIOUS
    <3>1. i - 1 \in 1 .. n - 1 /\ queue'[i - 1] = queue[i]
      BY <1>2 DEF WaitingIn
    <3>. QED
      BY <1>2, <3>1 DEF WaitingIn
  <2>3. CASE 1 \in WaitingIn(queue, b)
    <3>1. m.method = "read" /\ m.from = b /\ m.at \in Pages
      BY <2>3, WaitingOnce DEF WaitingIn
    <3>2. \A i \in WaitingIn(queue, b) : i = 1
      BY <2>3, WaitingOnce
    <3>3. PromisedIn(disk, queue, reply, b) = DiskAfter(disk, queue, 1 - 1)[m.at]
      BY <2>3, <3>2, OneWaiting
    <3>4. DiskAfter(disk, queue, 1 - 1) = disk
      BY AfterNone DEF DataOK
    <3>5. WaitingIn(queue', b) = {}
      BY <2>1, <3>2
    <3>6. reply'[b] = disk[m.at]
      BY <1>1, <3>1 DEF DataOK
    <3>. QED
      BY <3>3, <3>4, <3>5, <3>6, NoneWaiting, PromisedState
  <2>4. CASE 1 \notin WaitingIn(queue, b)
    <3>1. reply'[b] = reply[b]
      <4>1. m.method # "read" \/ m.from # b
        BY <1>2, <2>4 DEF WaitingIn
      <4>. QED
        BY <1>1, <4>1 DEF DataOK
    <3>2. CASE WaitingIn(queue, b) = {}
      <4>1. WaitingIn(queue', b) = {}
        BY <2>1, <3>2
      <4>. QED
        BY <3>1, <3>2, <4>1, NoneWaiting, PromisedState
    <3>3. CASE WaitingIn(queue, b) # {}
      <4>1. PICK i \in WaitingIn(queue, b) : TRUE
        BY <3>3
      <4>2. i \in 2 .. n /\ \A j \in WaitingIn(queue, b) : j = i
        BY <2>4, <4>1, WaitingOnce
      <4>3. i - 1 \in WaitingIn(queue', b) /\ \A j \in WaitingIn(queue', b) : j = i - 1
        BY <1>2, <2>1, <2>2, <4>1, <4>2
      <4>4. PromisedIn(disk, queue, reply, b) = DiskAfter(disk, queue, i - 1)[queue[i].at]
        BY <4>1, <4>2, OneWaiting
      <4>5. PromisedIn(disk', queue', reply', b)
              = DiskAfter(disk', queue', (i - 1) - 1)[queue'[i - 1].at]
        BY <4>3, OneWaiting
      <4>6. DiskAfter(disk', queue', (i - 1) - 1) = DiskAfter(disk, queue, i - 1)
        <5>1. (i - 1) - 1 \in 0 .. n - 1 /\ ((i - 1) - 1) + 1 = i - 1
          BY <1>2, <4>2
        <5>. QED
          BY <1>3, <5>1
      <4>7. queue'[i - 1] = queue[i]
        <5>1. i - 1 \in 1 .. n - 1 /\ (i - 1) + 1 = i
          BY <1>2, <4>2
        <5>. QED
          BY <1>2, <5>1
      <4>. QED
        BY <4>4, <4>5, <4>6, <4>7, PromisedState
    <3>. QED
      BY <3>2, <3>3
  <2>. QED
    BY <2>3, <2>4
<1>. QED
  BY <1>4, <1>5, AnswerFunctions

LEMMA AbortStep ==
  ASSUME IInv, DataOK, ReceiveAndAbort
  PROVE  /\ pages' \in [Pages -> Contents]
         /\ \A c \in Callers :
              \/ done'[c] = done[c] /\ answer'[c] = answer[c]
              \/ /\ request[c] # None /\ request[c].method = "read"
                 /\ done'[c] = FALSE /\ answer'[c] = None
<1>1. UNCHANGED <<disk, reply, handler, request>> /\ queue' = <<>>
  BY DEF ReceiveAndAbort, Abort
<1>2. pages' = disk
  <2>1. DiskAfter(disk, queue', 0) = disk
    BY AfterNone DEF DataOK
  <2>2. Len(queue') = 0
    BY <1>1
  <2>. QED
    BY <1>1, <2>1, <2>2 DEF pages
<1>3. ASSUME NEW c \in Callers
      PROVE  \/ done'[c] = done[c] /\ answer'[c] = answer[c]
             \/ /\ request[c] # None /\ request[c].method = "read"
                /\ done'[c] = FALSE /\ answer'[c] = None
  <2>1. WaitingIn(queue', c) = {}
    BY <1>1 DEF WaitingIn
  <2>2. answer'[c] = reply[c] /\ done'[c] = (handler[c] = "replied")
    BY <1>1, <2>1, NoneWaiting, PromisedState, TakenState
  <2>3. CASE WaitingIn(queue, c) = {}
    BY <2>2, <2>3, NoneWaiting, PromisedState, TakenState
  <2>4. CASE WaitingIn(queue, c) # {}
    <3>1. PICK i \in WaitingIn(queue, c) : TRUE
      BY <2>4
    <3>2. handler[c] \in {"waiting", "gone"} /\ i \in Reads /\ queue[i].from = c
      BY <3>1, WaitingOnce DEF WaitingIn, Reads
    <3>3. request[c] = queue[i] /\ queue[i].method = "read"
      BY <3>2 DEF IInv, ReadsAwaited, Reads
    <3>4. request[c] \in Message /\ request[c] # None
      BY <3>2, <3>3, NoneAssumption DEF IInv, TypeOK, Reads
    <3>. QED
      BY <2>2, <3>2, <3>3, <3>4 DEF DataOK
  <2>. QED
    BY <2>3, <2>4
<1>. QED
  BY <1>2, <1>3 DEF DataOK

-----------------------------------------------------------------------------
(* What a message does to the pages is what the abstract request does.       *)
LEMMA EffectIsDone ==
  ASSUME NEW m \in Message
  PROVE  Done(pages, m) = DS!Effect(m)
<1>1. ASSUME NEW a \in Pages
      PROVE  (IF Sets(m, a) THEN Written(m) ELSE pages[a])
               = (IF m.method = "write" /\ m.at = a THEN m.value
                  ELSE IF m.method = "erase" /\ m.at = a \div PagesPerBlock THEN Blank
                  ELSE pages[a])
  BY MessageFields DEF Sets, Written
<1>. QED
  BY <1>1 DEF DS!Effect, Done, pages

(* Requests take effect one at a time, in the order of the channel, for any  *)
(* number of callers: while the server is up a request takes effect just     *)
(* when it enters the channel, and none is answered before; a write that was *)
(* answered before the disk did it is seen by every later read.  Only the    *)
(* failure of the server loses writes, and nothing is read after it.         *)
THEOREM Linearizable == Spec => ImplementsDiskService
<1>. DEFINE abstract == <<server = "up", pages, request, done, answer>>
<1>1. Init => DS!Init
  <2>. SUFFICES ASSUME Init PROVE DS!Init
    OBVIOUS
  <2>1. pages = disk
    <3>1. DiskAfter(disk, queue, 0) = disk
      BY AfterNone DEF Init
    <3>. QED
      BY <3>1 DEF Init, pages
  <2>2. ASSUME NEW c \in Callers PROVE Promised(c) = None /\ Taken(c) = FALSE
    <3>1. Waiting(c) = {}
      BY DEF Init, Waiting
    <3>. QED
      BY <3>1 DEF Init, Promised, Taken
  <2>. QED
    BY <2>1, <2>2 DEF DS!Init, Init, pages
<1>2. IInv /\ DataOK /\ [Next]_vars => [DS!Next]_abstract
  <2>. SUFFICES ASSUME IInv, DataOK, [Next]_vars PROVE [DS!Next]_abstract
    OBVIOUS
  <2>1. ASSUME UNCHANGED <<disk, queue, reply>> PROVE UNCHANGED <<pages, answer>>
    BY <2>1 DEF pages, answer, Promised, Waiting
  <2>2. ASSUME NEW m \in Message, Call(m.from, m) PROVE DS!Next
    <3>1. m.from \in Callers /\ handler[m.from] = "none" /\ request[m.from] = None
      BY <2>2, MessageFields DEF Call, IInv, HandlersServe
    <3>2. UNCHANGED <<pages, answer>>
      BY <2>1, <2>2 DEF Call
    <3>3. done' = done
      BY <2>2, <3>1, DoneKept DEF Call, IInv, TypeOK
    <3>4. DS!Call(m.from, m)
      BY <2>2, <3>1, <3>2, <3>3 DEF DS!Call, Call, pages, answer, done
    <3>. QED
      BY <3>4 DEF DS!Next
  <2>3. ASSUME NEW c \in Callers, GiveUp(c) \/ Disconnect(c)
        PROVE  UNCHANGED abstract
    <3>1. UNCHANGED <<pages, answer>>
      BY <2>1, <2>3 DEF GiveUp, Disconnect
    <3>2. done' = done
      BY <2>3, DoneKept DEF GiveUp, Disconnect, IInv, TypeOK
    <3>. QED
      BY <2>3, <3>1, <3>2 DEF GiveUp, Disconnect
  <2>4. ASSUME NEW c \in Callers, Return(c) PROVE DS!Next
    <3>1. DS!Return(c)
      BY <2>4, ReturnStep, DoneReturn DEF DS!Return, Return, pages, answer, done
    <3>. QED
      BY <3>1 DEF DS!Next
  <2>5. ASSUME NEW c \in Callers, Enqueue(c) PROVE DS!Next
    <3>. DEFINE m == request[c]
    <3>1. m \in Message /\ pages' = DS!Effect(m)
      BY <2>5, EnqueueStep, EffectIsDone
    <3>2. m # None
      BY <3>1, NoneAssumption
    <3>3. answer' = [answer EXCEPT ![c] = IF m.method = "read" THEN pages[m.at] ELSE None]
      <4>1. answer[c] = None /\ (m.method # "read" => answer' = answer)
        BY <2>5, EnqueueStep
      <4>2. CASE m.method = "read"
        BY <2>5, <4>2, EnqueueStep
      <4>3. CASE m.method # "read"
        BY <4>1, <4>3, AnswerFunctions
      <4>. QED
        BY <4>2, <4>3
    <3>4. ~done[c] /\ done' = [done EXCEPT ![c] = TRUE]
      BY <2>5, DoneEnqueue
    <3>5. UNCHANGED <<server, request>> /\ server = "up"
      BY <2>5 DEF Enqueue
    <3>6. DS!Take(c)
      BY <3>1, <3>2, <3>3, <3>4, <3>5 DEF DS!Take, pages, answer, done
    <3>. QED
      BY <3>6 DEF DS!Next
  <2>6. ASSUME NEW c \in Callers, EnqueueLost(c) PROVE DS!Next
    <3>1. UNCHANGED <<pages, answer, server, request>>
      BY <2>1, <2>6 DEF EnqueueLost
    <3>2. server # "up" /\ request[c] \in Message /\ request[c].method # "read"
      BY <2>6 DEF EnqueueLost, IInv, HandlersServe
    <3>3. request[c] # None
      BY <3>2, NoneAssumption
    <3>4. DS!Ignore(c)
      BY <2>6, <3>1, <3>2, <3>3, DoneLost DEF DS!Ignore, pages, answer, done
    <3>. QED
      BY <3>4 DEF DS!Next
  <2>7. CASE Receive
    <3>1. UNCHANGED <<server, request>>
      BY <2>7 DEF Receive
    <3>. QED
      BY <2>7, <3>1, ReceiveStep, DoneReceive
  <2>8. CASE ReceiveAndAbort
    <3>1. server = "up" /\ server' = "down" /\ request' = request
      BY <2>8 DEF ReceiveAndAbort, Abort
    <3>2. DS!Fail
      BY <2>8, <3>1, AbortStep DEF DS!Fail, Contents, pages, answer, done
    <3>. QED
      BY <3>2 DEF DS!Next
  <2>9. CASE UNCHANGED vars
    <3>1. done' = done
      BY <2>9, DoneKept DEF vars
    <3>. QED
      BY <2>1, <2>9, <3>1 DEF vars
  <2>. QED
    BY <2>2, <2>3, <2>4, <2>5, <2>6, <2>7, <2>8, <2>9 DEF Next
<1>3. Spec => []DataOK
  <2>1. IInv /\ DataOK /\ [Next]_vars => DataOK'
    BY NextDataOK
  <2>. QED
    BY <2>1, InitDataOK, IInvHolds, PTL DEF Spec
<1>. QED
  BY <1>1, <1>2, <1>3, IInvHolds, PTL DEF Spec, ImplementsDiskService, DS!Spec, pages, answer, done
=============================================================================
