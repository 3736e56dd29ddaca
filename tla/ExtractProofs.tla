---------------------------- MODULE ExtractProofs ----------------------------
(***************************************************************************)
(* ExtractSession keeps its types, implements ExtractPromise, and a client *)
(* that waits for ever waits with all that can be had.                     *)
(*                                                                         *)
(* The argument reads the two pipes and the output buffer as one queue,    *)
(* the oldest packet first: a request that is answered keeps its place.    *)
(* In that queue the blocks of a file stand in rising order, and behind a  *)
(* block come all later ones up to the last that its ticket has asked for. *)
(* So when a block comes in, the blocks of its file that have come in are  *)
(* those before it in the list, and of these the good ones are written.    *)
(* Only the first ticket of a file ever has a list, so that all writes of  *)
(* a file go through one stream, which holds at most the last of them.     *)
(***************************************************************************)
EXTENDS ExtractSession, SequenceLemmas

-----------------------------------------------------------------------------
(* The inductive invariant. *)

\* The packets on their way.
Flight == (toClient \o toServer) \o outBuf

\* Packet p of them is about block k of f, or is a goodbye.
Asks(p, f, k) == /\ p \in DOMAIN Flight /\ Flight[p].cmd # "Bye"
                 /\ Flight[p].file = f /\ Flight[p].block = k
Parts(p) == p \in DOMAIN Flight /\ Flight[p].cmd = "Bye"

\* A packet about block k of f is on its way.
Due(f, k) == \E p \in Nat : Asks(p, f, k)

\* Block k of f is among the writes q; is on the disk or in a stream.
HasBlock(q, f, k) == \E p \in DOMAIN q : q[p].file = f /\ q[p].block = k
Saved(f, k) == \/ HasBlock(disk, f, k)
               \/ \E i \in DOMAIN streams : HasBlock(streams[i], f, k)

\* The archive has the block, or the list for k = 0, as it was stored.
Good(f, k) == archive[<<f, k>>] = "good"

\* A ticket has the list of its file, which can be opened, or no list at all.
HasList(t) == /\ t.size = Blocks[t.file] /\ t.status # "AwaitingBlockList"
              /\ ~scanning /\ Opens /\ Good(t.file, 0)
NoList(t)  == t.size = 0 /\ t.status = "AwaitingBlockList"

\* Only the first ticket of its file has a list.  None is ever done: moved is never 0
\* once a block has come in.
TicketRight(i) ==
    LET t == workList[i]
    IN  /\ t.fp = i /\ t.moved <= 0 /\ t.next <= t.size
        /\ t.status = "AwaitingBlockConfirms" => t.next = t.size
        /\ \/ NoList(t)
           \/ HasList(t) /\ \A j \in 1 .. i - 1 : workList[j].file # t.file

\* A ticket has a stream of its own.
Tickets == /\ Len(streams) = Len(workList)
           /\ \A i \in DOMAIN workList : TicketRight(i)

\* A packet is about a block that a ticket has asked for, and an answer is true.  After
\* a goodbye there is no ticket, and so no packet but goodbyes.
Asked(f, k) == \E i \in DOMAIN workList : workList[i].file = f /\ k <= workList[i].next

AnswerTrue(m) == \/ m.cmd = "Bye"
                 \/ m.cmd = "GetBlockAck" /\ m.obj = archive[<<m.file, m.block>>]

Packets ==
    /\ \A p \in Nat : Parts(p) => closing
    /\ closing => ~scanning /\ workList = <<>>
    /\ \A p \in Nat, f \in File, k \in Nat : Asks(p, f, k) => Asked(f, k)
    /\ \A m \in Elements(toClient) : AnswerTrue(m)

\* The order of the packets of a file.
Rising == \A p, q \in Nat, f \in File, k, l \in Nat :
              Asks(p, f, k) /\ Asks(q, f, l) /\ k # 0 /\ l # 0 /\ p < q => k < l

Rest == \A i \in DOMAIN workList : \A p, k, l \in Nat :
            /\ Asks(p, workList[i].file, k) /\ k # 0
            /\ k < l /\ l <= workList[i].next
            => \E q \in Nat : p < q /\ Asks(q, workList[i].file, l)

\* What is saved is what has come in and is good.
SavedIsGood == \A f \in File, k \in Nat :
    Saved(f, k) => Good(f, k) /\ ~Due(f, k) /\ k # 0 /\ Asked(f, k)

\* What has been asked for, is good and is no longer on its way, is saved.
GoodIsSaved == \A i \in DOMAIN workList : \A k \in 1 .. workList[i].next :
    Good(workList[i].file, k) /\ ~Due(workList[i].file, k) => Saved(workList[i].file, k)

\* A stream holds at most the last block of its file, and the disk those before it.
Holds(i, k) ==
    LET f == workList[i].file
    IN  /\ streams[i] = <<[file |-> f, block |-> k]>>
        /\ k \in 1 .. workList[i].next /\ Good(f, k)
        /\ \A l \in Nat : HasBlock(disk, f, l) <=> l \in 1 .. k - 1 /\ Good(f, l)

Kept == \A i \in DOMAIN streams : streams[i] = <<>> \/ \E k \in Nat : Holds(i, k)

\* A ticket whose list exists gets it, or another ticket of its file has got it.
ListComes ==
    pc \in {"loop", "fill"} =>
        \A i \in DOMAIN workList :
            Good(workList[i].file, 0) =>
                \/ Due(workList[i].file, 0)
                \/ \E j \in DOMAIN workList :
                      workList[j].file = workList[i].file /\ workList[j].size # 0

\* The output handler is registered as long as a ticket has blocks to ask for, or
\* it has failed to write what the buffer still holds.
Wake ==
    /\ pc = "loop" /\ ~registered /\ outBuf = <<>> =>
          \A i \in DOMAIN workList : workList[i].status # "SendingBlockRequests"
    /\ pc = "fill" =>
          /\ registered /\ cursor >= 1
          /\ outBuf = <<>> =>
                \A i \in DOMAIN workList :
                    i < cursor => workList[i].status # "SendingBlockRequests"

ExtractInv == /\ TypeOK /\ Tickets /\ Packets /\ Rising /\ Rest
              /\ SavedIsGood /\ GoodIsSaved /\ Kept /\ ListComes /\ Wake

-----------------------------------------------------------------------------
(* The queue of packets. *)

\* Two sequences, one behind the other.
LEMMA JoinFacts ==
    ASSUME NEW S, NEW a \in Seq(S), NEW b \in Seq(S)
    PROVE  /\ a \o b \in Seq(S) /\ Len(a \o b) = Len(a) + Len(b)
           /\ Len(a) \in Nat /\ Len(b) \in Nat
           /\ \A i \in 1 .. Len(a) : (a \o b)[i] = a[i]
           /\ \A i \in 1 .. Len(b) : (a \o b)[Len(a) + i] = b[i]
           /\ \A i \in Len(a) + 1 .. Len(a) + Len(b) : (a \o b)[i] = b[i - Len(a)]
OBVIOUS

\* Two sequences are equal that have the same elements at the same places.
LEMMA SameElements ==
    ASSUME NEW S, NEW a \in Seq(S), NEW b \in Seq(S), Len(a) = Len(b),
           \A i \in 1 .. Len(a) : a[i] = b[i]
    PROVE  a = b
OBVIOUS

\* Three sequences are joined from either end.
LEMMA JoinAssociates ==
    ASSUME NEW S, NEW a \in Seq(S), NEW b \in Seq(S), NEW c \in Seq(S)
    PROVE  (a \o b) \o c = a \o (b \o c)
<1>1. /\ a \o b \in Seq(S) /\ Len(a \o b) = Len(a) + Len(b)
      /\ b \o c \in Seq(S) /\ Len(b \o c) = Len(b) + Len(c)
      /\ Len(a) \in Nat /\ Len(b) \in Nat /\ Len(c) \in Nat
  BY JoinFacts
<1>2. /\ (a \o b) \o c \in Seq(S) /\ a \o (b \o c) \in Seq(S)
      /\ Len((a \o b) \o c) = Len(a) + Len(b) + Len(c)
      /\ Len(a \o (b \o c)) = Len(a) + Len(b) + Len(c)
  BY <1>1, JoinFacts
<1>3. ASSUME NEW i \in 1 .. Len(a) + Len(b) + Len(c)
      PROVE  ((a \o b) \o c)[i] = (a \o (b \o c))[i]
  <2>1. CASE i <= Len(a)
    BY <1>1, <2>1
  <2>2. CASE i > Len(a) /\ i <= Len(a) + Len(b)
    BY <1>1, <2>2
  <2>3. CASE i > Len(a) + Len(b)
    BY <1>1, <2>3
  <2>4. i \in Nat
    BY <1>1
  <2>5. QED
    BY <1>1, <2>1, <2>2, <2>3, <2>4
<1>4. QED
  BY <1>2, <1>3, SameElements

\* An element is put at the end of the second of two sequences.
LEMMA AppendJoin ==
    ASSUME NEW S, NEW a \in Seq(S), NEW b \in Seq(S), NEW e \in S
    PROVE  a \o Append(b, e) = Append(a \o b, e)
<1>1. /\ a \o b \in Seq(S) /\ Len(a \o b) = Len(a) + Len(b)
      /\ Append(b, e) \in Seq(S) /\ Len(Append(b, e)) = Len(b) + 1
      /\ Len(a) \in Nat /\ Len(b) \in Nat
  BY JoinFacts
<1>2. /\ a \o Append(b, e) \in Seq(S) /\ Append(a \o b, e) \in Seq(S)
      /\ Len(a \o Append(b, e)) = Len(a) + Len(b) + 1
      /\ Len(Append(a \o b, e)) = Len(a) + Len(b) + 1
  BY <1>1
<1>3. ASSUME NEW i \in 1 .. Len(a) + Len(b) + 1
      PROVE  (a \o Append(b, e))[i] = Append(a \o b, e)[i]
  BY <1>1
<1>4. QED
  BY <1>2, <1>3, SameElements

\* The head of two sequences is that of the first.
LEMMA TailOfJoin ==
    ASSUME NEW S, NEW a \in Seq(S), NEW b \in Seq(S), a # <<>>
    PROVE  a \o b # <<>> /\ Head(a \o b) = Head(a) /\ Tail(a \o b) = Tail(a) \o b
<1> DEFINE c == a \o b
           d == Tail(a) \o b
<1>1. /\ Tail(a) \in Seq(S) /\ Len(Tail(a)) = Len(a) - 1 /\ Len(a) \in Nat \ {0} /\ Head(a) = a[1]
      /\ \A i \in 1 .. Len(a) - 1 : Tail(a)[i] = a[i + 1]
  BY TailFacts
<1>2. /\ c \in Seq(S) /\ Len(c) = Len(a) + Len(b) /\ Len(b) \in Nat
      /\ \A i \in 1 .. Len(a) : c[i] = a[i]
      /\ \A i \in Len(a) + 1 .. Len(a) + Len(b) : c[i] = b[i - Len(a)]
  BY JoinFacts
<1>3. /\ d \in Seq(S) /\ Len(d) = (Len(a) - 1) + Len(b)
      /\ \A i \in 1 .. Len(a) - 1 : d[i] = Tail(a)[i]
      /\ \A i \in (Len(a) - 1) + 1 .. (Len(a) - 1) + Len(b) : d[i] = b[i - (Len(a) - 1)]
  BY <1>1, JoinFacts
<1> HIDE DEF c, d
<1>4. c # <<>> /\ Head(c) = Head(a)
  BY <1>1, <1>2
<1>5. /\ Tail(c) \in Seq(S) /\ Len(Tail(c)) = Len(c) - 1
      /\ \A i \in 1 .. Len(c) - 1 : Tail(c)[i] = c[i + 1]
  BY <1>2, <1>4, TailFacts
<1>6. ASSUME NEW i \in 1 .. Len(d) PROVE d[i] = Tail(c)[i]
  <2>1. Tail(c)[i] = c[i + 1] /\ i \in Nat
    BY <1>1, <1>2, <1>3, <1>5
  <2>2. CASE i <= Len(a) - 1
    <3>1. i \in 1 .. Len(a) - 1 /\ i + 1 \in 1 .. Len(a)
      BY <1>1, <2>1, <2>2
    <3>2. QED
      BY <1>1, <1>2, <1>3, <2>1, <3>1
  <2>3. CASE i > Len(a) - 1
    <3>1. /\ i \in (Len(a) - 1) + 1 .. (Len(a) - 1) + Len(b)
          /\ i + 1 \in Len(a) + 1 .. Len(a) + Len(b)
          /\ i - (Len(a) - 1) = (i + 1) - Len(a)
      BY <1>1, <1>2, <1>3, <2>1, <2>3
    <3>2. d[i] = b[i - (Len(a) - 1)] /\ c[i + 1] = b[(i + 1) - Len(a)]
      BY <1>2, <1>3, <3>1
    <3>3. QED
      BY <2>1, <3>1, <3>2
  <2>4. i <= Len(a) - 1 \/ i > Len(a) - 1
    BY <1>1, <2>1
  <2>5. QED
    BY ONLY <2>2, <2>3, <2>4
<1>7. Tail(c) = d
  BY <1>2, <1>3, <1>5, <1>6, SameElements
<1>8. QED
  BY <1>4, <1>7 DEF c, d

\* The head of one sequence goes to the end of the one before it.
LEMMA MoveFacts ==
    ASSUME NEW S, NEW a \in Seq(S), NEW b \in Seq(S), NEW e \in S, b # <<>>
    PROVE  /\ Append(a, e) \o Tail(b) \in Seq(S)
           /\ Len(Append(a, e) \o Tail(b)) = Len(a \o b)
           /\ Len(a) + 1 \in 1 .. Len(a \o b)
           /\ (a \o b)[Len(a) + 1] = Head(b)
           /\ \A i \in 1 .. Len(a \o b) :
                 (Append(a, e) \o Tail(b))[i] = IF i = Len(a) + 1 THEN e ELSE (a \o b)[i]
<1> DEFINE c == Append(a, e)
           d == Tail(b)
<1>1. /\ c \in Seq(S) /\ Len(c) = Len(a) + 1 /\ Len(a) \in Nat
      /\ c[Len(a) + 1] = e /\ \A i \in 1 .. Len(a) : c[i] = a[i]
  OBVIOUS
<1>2. /\ d \in Seq(S) /\ Len(d) = Len(b) - 1 /\ Len(b) \in Nat \ {0} /\ Head(b) = b[1]
      /\ \A i \in 1 .. Len(b) - 1 : d[i] = b[i + 1]
  BY TailFacts
<1> HIDE DEF c, d
<1>3. /\ c \o d \in Seq(S) /\ Len(c \o d) = Len(c) + Len(d)
      /\ \A i \in 1 .. Len(c) : (c \o d)[i] = c[i]
      /\ \A i \in Len(c) + 1 .. Len(c) + Len(d) : (c \o d)[i] = d[i - Len(c)]
  <2>1. c \in Seq(S) /\ d \in Seq(S)
    BY <1>1, <1>2
  <2>2. QED
    BY ONLY <2>1, JoinFacts
<1>4. /\ Len(a \o b) = Len(a) + Len(b)
      /\ \A i \in 1 .. Len(a) : (a \o b)[i] = a[i]
      /\ \A i \in Len(a) + 1 .. Len(a) + Len(b) : (a \o b)[i] = b[i - Len(a)]
  BY JoinFacts
<1>5. Len(a) + 1 \in 1 .. Len(a \o b) /\ (a \o b)[Len(a) + 1] = Head(b)
  <2>1. Len(a) + 1 \in Len(a) + 1 .. Len(a) + Len(b) /\ (Len(a) + 1) - Len(a) = 1
    BY <1>1, <1>2
  <2>2. QED
    BY <1>1, <1>2, <1>4, <2>1
<1>6. ASSUME NEW i \in 1 .. Len(a \o b)
      PROVE  (c \o d)[i] = IF i = Len(a) + 1 THEN e ELSE (a \o b)[i]
  <2>1. CASE i <= Len(a)
    BY <1>1, <1>3, <1>4, <2>1
  <2>2. CASE i = Len(a) + 1
    <3>1. Len(a) + 1 \in 1 .. Len(c)
      BY <1>1
    <3>2. (c \o d)[i] = e
      BY <1>1, <1>3, <2>2, <3>1
    <3>3. QED
      BY <2>2, <3>2
  <2>3. CASE i > Len(a) + 1
    <3>1. /\ i \in Len(c) + 1 .. Len(c) + Len(d) /\ i \in Len(a) + 1 .. Len(a) + Len(b)
          /\ i - Len(c) \in 1 .. Len(b) - 1 /\ (i - Len(c)) + 1 = i - Len(a)
      BY <1>1, <1>2, <1>4, <2>3
    <3>2. (c \o d)[i] = d[i - Len(c)] /\ (a \o b)[i] = b[i - Len(a)]
      BY <1>3, <1>4, <3>1
    <3>3. d[i - Len(c)] = b[(i - Len(c)) + 1]
      BY <1>2, <3>1
    <3>4. QED
      BY <1>1, <2>3, <3>1, <3>2, <3>3
  <2>4. i \in Nat /\ Len(a) \in Nat
    BY <1>1, <1>5
  <2>5. i <= Len(a) \/ i = Len(a) + 1 \/ i > Len(a) + 1
    BY ONLY <2>4
  <2>6. i <= Len(a) => i # Len(a) + 1
    BY ONLY <2>4
  <2>7. i > Len(a) + 1 => i # Len(a) + 1
    BY ONLY <2>4
  <2>8. QED
    BY <2>1, <2>2, <2>3, <2>5, <2>6, <2>7, Zenon
<1>7. QED
  BY <1>1, <1>2, <1>3, <1>4, <1>5, <1>6 DEF c, d

\* The packets have the types of packets.
LEMMA FlightType ==
    ASSUME TypeOK
    PROVE  /\ Flight \in Seq(Message) /\ toClient \o toServer \in Seq(Message)
           /\ DOMAIN Flight = 1 .. Len(Flight) /\ Len(Flight) \in Nat
           /\ Len(Flight) = (Len(toClient) + Len(toServer)) + Len(outBuf)
BY JoinFacts DEF TypeOK, Flight

\* The queue has the packets it had, about the same blocks.
LEMMA FlightSame ==
    ASSUME DOMAIN Flight' = DOMAIN Flight,
           \A p \in DOMAIN Flight : \/ Flight'[p] = Flight[p]
                                    \/ /\ Flight'[p].cmd # "Bye" /\ Flight[p].cmd # "Bye"
                                       /\ Flight'[p].file = Flight[p].file
                                       /\ Flight'[p].block = Flight[p].block
    PROVE  /\ \A p, f, k : Asks(p, f, k)' <=> Asks(p, f, k)
           /\ \A p : Parts(p)' <=> Parts(p)
BY DEF Asks, Parts

\* A packet is put at the end of the queue.
LEMMA FlightAppend ==
    ASSUME TypeOK, NEW m \in Message, outBuf' = Append(outBuf, m),
           UNCHANGED <<toClient, toServer>>
    PROVE  /\ \A p, f, k : Asks(p, f, k)' <=>
                 Asks(p, f, k) \/ (/\ p = Len(Flight) + 1 /\ m.cmd # "Bye"
                                   /\ m.file = f /\ m.block = k)
           /\ \A p : Parts(p)' <=> Parts(p) \/ (p = Len(Flight) + 1 /\ m.cmd = "Bye")
<1> DEFINE a == toClient \o toServer
           n == Len(Flight)
<1>1. a \in Seq(Message) /\ outBuf \in Seq(Message) /\ Append(outBuf, m) \in Seq(Message)
  BY FlightType DEF TypeOK
<1>2. /\ Flight = a \o outBuf /\ Flight' = a \o Append(outBuf, m)
      /\ Flight \in Seq(Message) /\ n \in Nat
  BY <1>1, FlightType DEF Flight
<1> HIDE DEF a
<1>3. Flight' = Append(Flight, m)
  BY ONLY <1>1, <1>2, m \in Message, AppendJoin
<1>4. /\ DOMAIN Flight' = 1 .. n + 1 /\ DOMAIN Flight = 1 .. n
      /\ \A p \in 1 .. n : Flight'[p] = Flight[p]
      /\ Flight'[n + 1] = m
  BY <1>2, <1>3, AppendFacts
<1> HIDE DEF n
<1>5. 1 .. n + 1 = (1 .. n) \cup {n + 1}
  <2>1. \A k \in Nat : 1 .. k + 1 = (1 .. k) \cup {k + 1}
    OBVIOUS
  <2>2. QED
    BY <1>2, <2>1
<1>6. n + 1 \notin 1 .. n
  BY <1>2 DEF n
<1>7. QED
  BY <1>4, <1>5, <1>6 DEF Asks, Parts, n

\* The first packet leaves the queue.
LEMMA FlightTail ==
    ASSUME TypeOK, toClient # <<>>, toClient' = Tail(toClient), UNCHANGED <<toServer, outBuf>>
    PROVE  /\ \A p \in Nat : \A f, k : Asks(p, f, k)' <=> p # 0 /\ Asks(p + 1, f, k)
           /\ \A p \in Nat : Parts(p)' <=> p # 0 /\ Parts(p + 1)
           /\ 1 \in DOMAIN Flight /\ Flight[1] = Answer
<1> DEFINE r == toServer \o outBuf
           n == Len(Flight)
<1>1. /\ toServer \in Seq(Message) /\ outBuf \in Seq(Message) /\ toClient \in Seq(Message)
      /\ Tail(toClient) \in Seq(Message)
  BY TailFacts DEF TypeOK
<1>2. r \in Seq(Message)
  BY <1>1
<1>3. /\ Flight = toClient \o r /\ Flight' = Tail(toClient) \o r
      /\ Flight \in Seq(Message) /\ n \in Nat
  <2>1. Flight = toClient \o r
    BY <1>1, JoinAssociates DEF Flight
  <2>2. Flight' = Tail(toClient) \o r
    BY <1>1, JoinAssociates DEF Flight
  <2>3. QED
    BY <2>1, <2>2, FlightType
<1> HIDE DEF r
<1>4. Flight # <<>> /\ Flight' = Tail(Flight) /\ Head(Flight) = Head(toClient)
  BY <1>1, <1>2, <1>3, TailOfJoin
<1>5. /\ DOMAIN Flight' = 1 .. n - 1 /\ DOMAIN Flight = 1 .. n /\ 1 \in 1 .. n
      /\ \A p \in 1 .. n - 1 : Flight'[p] = Flight[p + 1]
      /\ Flight[1] = Answer
  BY <1>3, <1>4, TailFacts DEF Answer
<1> HIDE DEF n
<1>6. \A p \in Nat : p \in 1 .. n - 1 <=> p # 0 /\ p + 1 \in 1 .. n
  BY <1>3 DEF n
<1>7. QED
  BY <1>5, <1>6 DEF Asks, Parts

\* The server answers: the packet keeps its place.
LEMMA FlightAnswer ==
    ASSUME TypeOK, NEW e \in Message, toServer # <<>>, toClient' = Append(toClient, e),
           toServer' = Tail(toServer), outBuf' = outBuf
    PROVE  /\ DOMAIN Flight' = DOMAIN Flight
           /\ \E n \in DOMAIN Flight :
                 /\ Flight[n] = Head(toServer) /\ Flight'[n] = e
                 /\ \A p \in DOMAIN Flight : p # n => Flight'[p] = Flight[p]
<1> DEFINE a == toClient \o toServer
           b == Append(toClient, e) \o Tail(toServer)
           n == Len(toClient) + 1
<1>1. toClient \in Seq(Message) /\ toServer \in Seq(Message) /\ outBuf \in Seq(Message)
  BY DEF TypeOK
<1>2. /\ b \in Seq(Message) /\ Len(b) = Len(a) /\ n \in 1 .. Len(a)
      /\ a[n] = Head(toServer)
      /\ \A i \in 1 .. Len(a) : b[i] = IF i = n THEN e ELSE a[i]
  BY ONLY <1>1, MoveFacts, e \in Message, toServer # <<>>
<1>3. a \in Seq(Message) /\ Flight = a \o outBuf /\ Flight' = b \o outBuf
  BY <1>1 DEF Flight
<1> HIDE DEF a, b, n
<1>4. PICK m \in Nat, l \in Nat : m = Len(a) /\ m = Len(b) /\ l = Len(outBuf)
  BY <1>1, <1>2, <1>3
<1>5. /\ DOMAIN Flight = 1 .. m + l
      /\ \A i \in 1 .. m : Flight[i] = a[i]
      /\ \A i \in m + 1 .. m + l : Flight[i] = outBuf[i - m]
  <2>1. a \in Seq(Message) /\ outBuf \in Seq(Message)
    BY <1>1, <1>3
  <2>2. /\ DOMAIN (a \o outBuf) = 1 .. Len(a) + Len(outBuf)
        /\ \A i \in 1 .. Len(a) : (a \o outBuf)[i] = a[i]
        /\ \A i \in Len(a) + 1 .. Len(a) + Len(outBuf) : (a \o outBuf)[i] = outBuf[i - Len(a)]
    BY ONLY <2>1
  <2>3. QED
    BY ONLY <1>3, <1>4, <2>2
<1>6. /\ DOMAIN Flight' = 1 .. m + l
      /\ \A i \in 1 .. m : Flight'[i] = b[i]
      /\ \A i \in m + 1 .. m + l : Flight'[i] = outBuf[i - m]
  <2>1. b \in Seq(Message) /\ outBuf \in Seq(Message)
    BY <1>1, <1>2
  <2>2. /\ DOMAIN (b \o outBuf) = 1 .. Len(b) + Len(outBuf)
        /\ \A i \in 1 .. Len(b) : (b \o outBuf)[i] = b[i]
        /\ \A i \in Len(b) + 1 .. Len(b) + Len(outBuf) : (b \o outBuf)[i] = outBuf[i - Len(b)]
    BY ONLY <2>1
  <2>3. QED
    BY ONLY <1>3, <1>4, <2>2
<1>7. /\ n \in 1 .. m /\ a[n] = Head(toServer) /\ b[n] = e
      /\ \A i \in 1 .. m : i # n => b[i] = a[i]
  BY <1>2, <1>4
<1>8. n \in DOMAIN Flight /\ Flight[n] = Head(toServer) /\ Flight'[n] = e
  BY <1>5, <1>6, <1>7
<1>9. ASSUME NEW p \in DOMAIN Flight, p # n PROVE Flight'[p] = Flight[p]
  <2>1. p \in 1 .. m \/ p \in m + 1 .. m + l
    BY <1>5
  <2>2. QED
    BY <1>5, <1>6, <1>7, <1>9, <2>1
<1>10. QED
  BY <1>5, <1>6, <1>8, <1>9

\* The output handler writes a packet: the queue stays as it is.
LEMMA FlightWrite ==
    ASSUME TypeOK, outBuf # <<>>, WritePacket, toClient' = toClient
    PROVE  Flight' = Flight
<1> DEFINE a == toClient \o toServer
           h == Head(outBuf)
<1>1. /\ toClient \in Seq(Message) /\ toServer \in Seq(Message) /\ outBuf \in Seq(Message)
      /\ a \in Seq(Message)
  BY JoinFacts DEF TypeOK
<1>2. h \in Message
  BY <1>1, TailFacts
<1>3. toClient \o Append(toServer, h) = Append(a, h)
  BY ONLY <1>1, <1>2, AppendJoin
<1>4. Flight = a \o outBuf /\ Flight' = Append(a, h) \o Tail(outBuf)
  BY <1>3 DEF WritePacket, Flight
<1> HIDE DEF a, h
<1>5. /\ Append(a, h) \o Tail(outBuf) \in Seq(Message)
      /\ Len(Append(a, h) \o Tail(outBuf)) = Len(a \o outBuf)
      /\ (a \o outBuf)[Len(a) + 1] = h
      /\ \A i \in 1 .. Len(a \o outBuf) :
            (Append(a, h) \o Tail(outBuf))[i] = IF i = Len(a) + 1 THEN h ELSE (a \o outBuf)[i]
  BY <1>1, <1>2, MoveFacts DEF h
<1>6. a \o outBuf \in Seq(Message)
  BY <1>1, JoinFacts
<1>7. \A i \in 1 .. Len(a \o outBuf) : (Append(a, h) \o Tail(outBuf))[i] = (a \o outBuf)[i]
  BY <1>5
<1>8. QED
  BY <1>4, <1>5, <1>6, <1>7, SameElements

\* The elements of sequences that stand one behind the other.
LEMMA JoinElements ==
    ASSUME NEW S, NEW x \in Seq(S), NEW y \in Seq(S)
    PROVE  Elements(x \o y) = Elements(x) \cup Elements(y)
<1>1. /\ DOMAIN (x \o y) = 1 .. Len(x) + Len(y) /\ DOMAIN x = 1 .. Len(x) /\ DOMAIN y = 1 .. Len(y)
      /\ Len(x) \in Nat /\ Len(y) \in Nat
      /\ \A i \in 1 .. Len(x) : (x \o y)[i] = x[i]
      /\ \A i \in 1 .. Len(y) : (x \o y)[Len(x) + i] = y[i]
      /\ \A i \in Len(x) + 1 .. Len(x) + Len(y) : (x \o y)[i] = y[i - Len(x)]
  BY JoinFacts
<1> DEFINE z == x \o y
<1> HIDE DEF z
<1>2. ASSUME NEW i \in DOMAIN z PROVE z[i] \in Elements(x) \cup Elements(y)
  <2>1. CASE i \in 1 .. Len(x)
    BY <1>1, <2>1 DEF z, Elements
  <2>2. CASE i \in Len(x) + 1 .. Len(x) + Len(y)
    <3>1. i - Len(x) \in DOMAIN y /\ z[i] = y[i - Len(x)]
      BY <1>1, <2>2 DEF z
    <3>2. QED
      BY <3>1 DEF Elements
  <2>3. QED
    BY <1>1, <2>1, <2>2 DEF z
<1>3. ASSUME NEW i \in DOMAIN x PROVE x[i] \in Elements(z)
  <2>1. i \in DOMAIN z /\ z[i] = x[i]
    BY <1>1 DEF z
  <2>2. QED
    BY <2>1 DEF Elements
<1>4. ASSUME NEW i \in DOMAIN y PROVE y[i] \in Elements(z)
  <2>1. Len(x) + i \in DOMAIN z /\ z[Len(x) + i] = y[i]
    BY <1>1 DEF z
  <2>2. QED
    BY <2>1 DEF Elements
<1>5. Elements(z) = Elements(x) \cup Elements(y)
  BY <1>2, <1>3, <1>4 DEF Elements
<1>6. QED
  BY <1>5 DEF z

\* The same of three sequences.
LEMMA JoinParts ==
    ASSUME NEW S, NEW a \in Seq(S), NEW b \in Seq(S), NEW c \in Seq(S)
    PROVE  Elements((a \o b) \o c) = (Elements(a) \cup Elements(b)) \cup Elements(c)
<1>1. PICK z \in Seq(S) : z = a \o b
  BY JoinFacts
<1>2. Elements(z) = Elements(a) \cup Elements(b)
  BY <1>1, JoinElements
<1>3. Elements(z \o c) = Elements(z) \cup Elements(c)
  BY JoinElements
<1>4. QED
  BY <1>1, <1>2, <1>3

\* The packets of the queue are those of its parts.
LEMMA FlightParts ==
    ASSUME TypeOK
    PROVE  {Flight[p] : p \in DOMAIN Flight} =
               (Elements(toClient) \cup Elements(toServer)) \cup Elements(outBuf)
<1>1. toClient \in Seq(Message) /\ toServer \in Seq(Message) /\ outBuf \in Seq(Message)
  BY DEF TypeOK
<1>2. Elements(Flight) = (Elements(toClient) \cup Elements(toServer)) \cup Elements(outBuf)
  BY <1>1, JoinParts DEF Flight
<1>3. Elements(Flight) = {Flight[p] : p \in DOMAIN Flight}
  BY DEF Elements
<1>4. QED
  BY <1>2, <1>3

-----------------------------------------------------------------------------
(* The data. *)

\* A packet has the fields that it was made with.
LEMMA Packet ==
    ASSUME NEW f \in File, NEW k \in Nat, NEW o \in Record
    PROVE  /\ GetBlock(f, k) \in Message /\ GetBlockAck(f, k, o) \in Message /\ Bye \in Message
           /\ GetBlock(f, k).cmd = "GetBlock" /\ GetBlock(f, k).file = f /\ GetBlock(f, k).block = k
           /\ GetBlockAck(f, k, o).cmd = "GetBlockAck" /\ GetBlockAck(f, k, o).file = f
           /\ GetBlockAck(f, k, o).block = k /\ GetBlockAck(f, k, o).obj = o
           /\ Bye.cmd = "Bye"
BY DEF GetBlock, GetBlockAck, Bye, Message, Record

\* The fields of a packet that is no goodbye.
LEMMA PacketFields ==
    ASSUME NEW m \in Message
    PROVE  \/ m.cmd = "Bye"
           \/ /\ m.cmd \in {"GetBlock", "GetBlockAck"} /\ m.file \in File
              /\ m.block \in Nat /\ m.obj \in Record
BY DEF Message

\* The fields of a ticket.
LEMMA TicketFields ==
    ASSUME TypeOK, NEW i \in DOMAIN workList
    PROVE  /\ workList[i] \in Ticket /\ workList[i].file \in File
           /\ workList[i].status \in Status /\ workList[i].size \in Nat
           /\ workList[i].next \in Nat /\ workList[i].moved \in Int /\ workList[i].fp \in Nat
           /\ i \in 1 .. Len(workList) /\ Len(workList) \in Nat /\ DOMAIN workList = 1 .. Len(workList)
<1>1. workList \in Seq(Ticket)
  BY DEF TypeOK
<1>2. workList[i] \in Ticket
  BY <1>1
<1>3. /\ workList[i].file \in File
      /\ workList[i].status \in Status /\ workList[i].size \in Nat
      /\ workList[i].next \in Nat /\ workList[i].moved \in Int /\ workList[i].fp \in Nat
  BY <1>2 DEF Ticket
<1>4. i \in 1 .. Len(workList) /\ Len(workList) \in Nat /\ DOMAIN workList = 1 .. Len(workList)
  BY <1>1
<1>5. QED
  BY <1>2, <1>3, <1>4

\* What a packet on its way is about.
LEMMA AsksFacts ==
    ASSUME TypeOK, NEW p, NEW f, NEW k, Asks(p, f, k)
    PROVE  p \in Nat /\ p # 0 /\ f \in File /\ k \in Nat
<1>1. p \in 1 .. Len(Flight) /\ Flight[p] \in Message /\ Len(Flight) \in Nat
  BY FlightType DEF Asks
<1>2. QED
  BY <1>1, PacketFields DEF Asks

\* A ticket that has asked for a block has the list, and then it is the first of its
\* file: there is one such ticket.
LEMMA OnlyFirst ==
    ASSUME TypeOK, Tickets, NEW i \in DOMAIN workList, NEW j \in DOMAIN workList,
           workList[i].file = workList[j].file,
           workList[j].next # 0 \/ workList[j].size # 0
    PROVE  /\ HasList(workList[j])
           /\ workList[i].next # 0 \/ workList[i].size # 0 => i = j
           /\ (\A l \in 1 .. i - 1 : workList[l].file # workList[i].file) => i = j
<1>1. /\ i \in Nat \ {0} /\ j \in Nat \ {0}
      /\ workList[i].next \in Nat /\ workList[i].size \in Nat
      /\ workList[j].next \in Nat /\ workList[j].size \in Nat
  BY TicketFields
<1>2. ASSUME NEW l \in DOMAIN workList, workList[l].next # 0 \/ workList[l].size # 0
      PROVE  HasList(workList[l]) /\ \A k \in 1 .. l - 1 : workList[k].file # workList[l].file
  <2>1. TicketRight(l) /\ workList[l].next \in Nat /\ workList[l].size \in Nat
    BY TicketFields DEF Tickets
  <2>2. workList[l].size # 0
    BY <1>2, <2>1 DEF TicketRight
  <2>3. QED
    BY <2>1, <2>2 DEF TicketRight, NoList
<1>3. i < j \/ i = j \/ j < i
  BY <1>1
<1>4. i < j => i \in 1 .. j - 1
  BY <1>1
<1>5. j < i => j \in 1 .. i - 1
  BY <1>1
<1>6. QED
  BY <1>2, <1>3, <1>4, <1>5

\* Before the scan has ended nothing has come in.
LEMMA NothingYet ==
    ASSUME TypeOK, Tickets, SavedIsGood, Kept, scanning
    PROVE  /\ \A i \in DOMAIN workList : NoList(workList[i]) /\ workList[i].next = 0
           /\ disk = <<>> /\ \A i \in DOMAIN streams : streams[i] = <<>>
           /\ \A f \in File, k \in Nat : ~Saved(f, k)
<1>1. ASSUME NEW i \in DOMAIN workList PROVE NoList(workList[i]) /\ workList[i].next = 0
  BY TicketFields DEF Tickets, TicketRight, HasList, NoList
<1>2. \A f \in File, k \in Nat : ~Saved(f, k)
  <2>1. SUFFICES ASSUME NEW f \in File, NEW k \in Nat, Saved(f, k) PROVE FALSE
    OBVIOUS
  <2>2. k # 0 /\ Asked(f, k)
    BY <2>1 DEF SavedIsGood
  <2>3. PICK i \in DOMAIN workList : k <= workList[i].next
    BY <2>2 DEF Asked
  <2>4. QED
    BY <1>1, <2>2, <2>3
<1>3. disk = <<>>
  <2>1. SUFFICES ASSUME disk # <<>> PROVE FALSE
    OBVIOUS
  <2>2. disk \in Seq(Write)
    BY DEF TypeOK
  <2>3. 1 \in DOMAIN disk /\ disk[1] \in Write
    BY <2>1, <2>2
  <2>4. disk[1].file \in File /\ disk[1].block \in Nat
    BY <2>3 DEF Write
  <2>5. Saved(disk[1].file, disk[1].block)
    BY <2>3 DEF Saved, HasBlock
  <2>6. QED
    BY <1>2, <2>4, <2>5
<1>4. ASSUME NEW i \in DOMAIN streams PROVE streams[i] = <<>>
  <2>1. i \in DOMAIN workList
    BY DEF Tickets, TypeOK
  <2>2. ~ \E k \in Nat : Holds(i, k)
    BY <1>1, <2>1 DEF Holds
  <2>3. QED
    BY <2>2 DEF Kept
<1>5. QED
  BY <1>1, <1>2, <1>3, <1>4

-----------------------------------------------------------------------------
(* Steps that leave the tickets and the writes as they are. *)

\* The tickets are of the same files and have asked for as much.
SameTickets ==
    /\ DOMAIN workList' = DOMAIN workList /\ Len(workList') = Len(workList)
    /\ \A i \in DOMAIN workList : /\ workList'[i].file = workList[i].file
                                  /\ workList'[i].next = workList[i].next

\* They have the lists they had.
SameLists == \A i \in DOMAIN workList : workList'[i].size = workList[i].size

\* The parts of the invariant that a step of the queue or of the tickets concerns.
Core == Packets /\ Rising /\ Rest /\ SavedIsGood /\ GoodIsSaved /\ Kept

\* The streams stay as they are.
LEMMA KeptStays ==
    ASSUME ExtractInv, SameTickets, UNCHANGED <<streams, disk, archive>>
    PROVE  Kept'
<1>1. SUFFICES ASSUME NEW i \in DOMAIN streams, NEW k \in Nat, Holds(i, k) PROVE Holds(i, k)'
  BY DEF ExtractInv, Kept
<1>2. i \in DOMAIN workList
  BY DEF ExtractInv, Tickets, TypeOK
<1>3. workList'[i].file = workList[i].file /\ workList'[i].next = workList[i].next
  BY <1>2 DEF SameTickets
<1>4. \A g, l : (HasBlock(disk, g, l)' <=> HasBlock(disk, g, l)) /\ (Good(g, l)' <=> Good(g, l))
  BY DEF HasBlock, Good
<1>5. QED
  BY <1>1, <1>3, <1>4 DEF Holds

\* The queue asks for what it asked for, and the tickets have asked for what they had.
LEMMA QuietStep ==
    ASSUME ExtractInv, SameTickets,
           UNCHANGED <<streams, disk, archive, closing>>, scanning' => scanning,
           workList = <<>> => workList' = <<>>,
           \A p, f, k : Asks(p, f, k)' <=> Asks(p, f, k), \A p : Parts(p)' => Parts(p),
           \A m \in Elements(toClient') : AnswerTrue(m)'
    PROVE  Core'
<1>1. \A f, k : /\ Due(f, k)' <=> Due(f, k)
                /\ Good(f, k)' <=> Good(f, k)
                /\ Saved(f, k)' <=> Saved(f, k)
                /\ Asked(f, k)' <=> Asked(f, k)
  BY DEF Due, Good, Saved, HasBlock, Asked, SameTickets
<1>2. Packets'
  BY <1>1 DEF ExtractInv, Packets
<1>3. Rising'
  BY DEF ExtractInv, Rising
<1>4. Rest'
  BY DEF ExtractInv, Rest, SameTickets
<1>5. SavedIsGood'
  BY <1>1 DEF ExtractInv, SavedIsGood
<1>6. GoodIsSaved'
  BY <1>1 DEF ExtractInv, GoodIsSaved, SameTickets
<1>7. Kept'
  BY KeptStays
<1>8. QED
  BY <1>2, <1>3, <1>4, <1>5, <1>6, <1>7 DEF Core

\* Nor does the list of a ticket get lost, unless the client's loop has ended.
LEMMA QuietLists ==
    ASSUME ExtractInv, SameTickets, SameLists, archive' = archive,
           pc' \in {"loop", "fill"} => pc \in {"loop", "fill"},
           \A f \in File : Good(f, 0) /\ Due(f, 0) => Due(f, 0)'
    PROVE  ListComes'
<1>1. SUFFICES ASSUME pc' \in {"loop", "fill"}, NEW i \in DOMAIN workList',
                      Good(workList[i].file, 0)'
               PROVE  \/ Due(workList[i].file, 0)'
                      \/ \E j \in DOMAIN workList' :
                            workList'[j].file = workList'[i].file /\ workList'[j].size # 0
  BY DEF ListComes
<1>2. i \in DOMAIN workList /\ Good(workList[i].file, 0) /\ workList'[i].file = workList[i].file
  BY <1>1 DEF SameTickets, Good
<1>3. workList[i].file \in File
  BY <1>2, TicketFields DEF ExtractInv
<1>4. CASE Due(workList[i].file, 0)
  <2>1. PICK f \in File : f = workList[i].file /\ f = workList'[i].file
    BY <1>2, <1>3
  <2>2. Due(f, 0)'
    BY <1>2, <1>4, <2>1
  <2>3. QED
    BY <2>1, <2>2 DEF Due, Asks
<1>5. CASE \E j \in DOMAIN workList : workList[j].file = workList[i].file /\ workList[j].size # 0
  BY <1>2, <1>5 DEF SameTickets, SameLists
<1>6. QED
  BY <1>1, <1>2, <1>4, <1>5 DEF ExtractInv, ListComes

\* Nothing changes of a ticket.
LEMMA QuietTickets ==
    ASSUME ExtractInv, UNCHANGED <<workList, streams, archive, sealed, key>>, scanning' => scanning
    PROVE  /\ Tickets' /\ SameTickets /\ SameLists
           /\ workList = <<>> => workList' = <<>>
<1>1. Tickets'
  BY DEF ExtractInv, Tickets, TicketRight, HasList, NoList, Opens, Good
<1>2. QED
  BY <1>1 DEF SameTickets, SameLists

Most == Core /\ Tickets /\ ListComes

\* A handler that touches no ticket, no write and no answer, and leaves the queue as it is
\* or a packet of it at its place.
LEMMA IdleStep ==
    ASSUME ExtractInv,
           UNCHANGED <<workList, streams, disk, archive, sealed, key, closing>>,
           scanning' => scanning, pc' \in {"loop", "fill"} => pc \in {"loop", "fill"},
           DOMAIN Flight' = DOMAIN Flight,
           \A p \in DOMAIN Flight : \/ Flight'[p] = Flight[p]
                                    \/ /\ Flight'[p].cmd # "Bye" /\ Flight[p].cmd # "Bye"
                                       /\ Flight'[p].file = Flight[p].file
                                       /\ Flight'[p].block = Flight[p].block,
           \A m \in Elements(toClient') : AnswerTrue(m)'
    PROVE  Most'
<1>1. /\ \A p, f, k : Asks(p, f, k)' <=> Asks(p, f, k)
      /\ \A p : Parts(p)' <=> Parts(p)
  BY FlightSame
<1>2. /\ Tickets' /\ SameTickets /\ SameLists
      /\ workList = <<>> => workList' = <<>>
  BY QuietTickets
<1>3. Core'
  BY <1>1, <1>2, QuietStep
<1>4. \A f \in File : Due(f, 0) => Due(f, 0)'
  BY <1>1 DEF Due
<1>5. ListComes'
  BY <1>2, <1>4, QuietLists
<1>6. QED
  BY <1>2, <1>3, <1>5 DEF Most

\* The answers stay as they are.
LEMMA SameAnswers ==
    ASSUME ExtractInv, UNCHANGED <<toClient, archive>>
    PROVE  \A m \in Elements(toClient') : AnswerTrue(m)'
<1>1. \A m : AnswerTrue(m)' <=> AnswerTrue(m)
  BY DEF AnswerTrue
<1>2. toClient' = toClient
  OBVIOUS
<1>3. QED
  BY <1>1, <1>2 DEF ExtractInv, Packets

\* The handlers that do nothing of interest.
LEMMA IdleAction ==
    ASSUME ExtractInv,
           \/ \E f \in File : Skip(f)
           \/ NextArgument \/ FillStart \/ ExitEnds \/ ClientSignal \/ ServerSignal
           \/ ClientHangup \/ ServerHangup \/ UNCHANGED vars
           \/ EndScan /\ workList # <<>>
           \/ FillEnd /\ outBuf = <<>>
    PROVE  Most'
<1>1. /\ UNCHANGED <<workList, streams, disk, archive, sealed, key, closing>>
      /\ UNCHANGED <<toClient, toServer, outBuf>>
      /\ scanning' => scanning
      /\ pc' \in {"loop", "fill"} => pc \in {"loop", "fill"}
  BY DEF Skip, NextName, NextArgument, FillStart, ExitEnds, ClientSignal, ServerSignal,
         ClientHangup, ServerHangup, EndScan, FillEnd, vars, clientVars, fileVars, wireVars, archiveVars
<1>2. Flight' = Flight
  BY <1>1 DEF Flight
<1>3. QED
  BY <1>1, <1>2, IdleStep, SameAnswers

\* The output handler writes.
LEMMA WriteAction ==
    ASSUME ExtractInv, OutputBuffered \/ (FillEnd /\ outBuf # <<>>)
    PROVE  Most'
<1>1. /\ UNCHANGED <<workList, streams, disk, archive, sealed, key, closing>>
      /\ toClient' = toClient /\ scanning' = scanning
      /\ pc' \in {"loop", "fill"} => pc \in {"loop", "fill"}
      /\ outBuf # <<>> /\ WriteOut
  BY DEF OutputBuffered, FillEnd, fileVars, archiveVars
<1>2. Flight' = Flight
  <2>1. CASE WritePacket
    BY <1>1, <2>1, FlightWrite DEF ExtractInv
  <2>2. CASE WriteFails
    BY <1>1, <2>2 DEF WriteFails, Flight
  <2>3. QED
    BY <1>1, <2>1, <2>2 DEF WriteOut
<1>3. QED
  BY <1>1, <1>2, IdleStep, SameAnswers

\* The server answers.
LEMMA AnswerAction ==
    ASSUME ExtractInv, AcceptGetBlock
    PROVE  /\ Most'
           /\ archive[<<Head(toServer).file, Head(toServer).block>>] \in Record
<1> DEFINE m == Head(toServer)
<1>1. /\ toServer # <<>> /\ m.cmd = "GetBlock" /\ toServer' = Tail(toServer)
      /\ toClient' = Append(toClient, GetBlockAck(m.file, m.block, archive[<<m.file, m.block>>]))
      /\ outBuf' = outBuf
      /\ UNCHANGED <<workList, streams, disk, archive, sealed, key, closing, scanning, pc>>
  BY DEF AcceptGetBlock, ServerReceives, clientVars, fileVars, archiveVars
<1>2. /\ m \in Message /\ m \in Elements(toServer) /\ toClient \in Seq(Message)
      /\ m.file \in File /\ m.block \in Nat
  <2>1. toServer \in Seq(Message) /\ toClient \in Seq(Message)
    BY DEF ExtractInv, TypeOK
  <2>2. m \in Message /\ m \in Elements(toServer)
    BY <1>1, <2>1, TailFacts
  <2>3. QED
    BY <1>1, <2>1, <2>2, PacketFields
<1>3. Asked(m.file, m.block)
  <2>1. PICK p \in DOMAIN Flight : Flight[p] = m
    BY <1>2, FlightParts DEF ExtractInv
  <2>2. Asks(p, m.file, m.block)
    BY <1>1, <2>1 DEF Asks
  <2>3. p \in Nat
    BY <2>2, AsksFacts DEF ExtractInv
  <2>4. QED
    BY <1>2, <2>2, <2>3 DEF ExtractInv, Packets
<1>4. archive[<<m.file, m.block>>] \in Record
  <2>1. PICK i \in DOMAIN workList : workList[i].file = m.file /\ m.block <= workList[i].next
    BY <1>3 DEF Asked
  <2>2. workList[i].size \in Nat /\ workList[i].next \in Nat /\ TicketRight(i)
    BY TicketFields DEF ExtractInv, Tickets
  <2>3. workList[i].size \in {0, Blocks[m.file]} /\ workList[i].next <= workList[i].size
    BY <2>1, <2>2 DEF TicketRight, NoList, HasList
  <2>4. Blocks[m.file] \in Nat
    BY <1>2, ExtractAssumption
  <2>5. m.block \in 0 .. Blocks[m.file]
    BY <1>2, <2>1, <2>2, <2>3, <2>4
  <2>6. <<m.file, m.block>> \in Object
    BY <1>2, <2>5 DEF Object
  <2>7. QED
    BY <2>6 DEF ExtractInv, TypeOK
<1>5. PICK e \in Message :
          /\ e.cmd = "GetBlockAck" /\ e.file = m.file /\ e.block = m.block
          /\ e.obj = archive[<<m.file, m.block>>]
          /\ toClient' = Append(toClient, e)
  BY <1>1, <1>2, <1>4, Packet
<1>6. /\ DOMAIN Flight' = DOMAIN Flight
      /\ \E n \in DOMAIN Flight :
            /\ Flight[n] = m /\ Flight'[n] = e
            /\ \A p \in DOMAIN Flight : p # n => Flight'[p] = Flight[p]
  BY <1>1, <1>5, FlightAnswer DEF ExtractInv
<1>7. \A p \in DOMAIN Flight : \/ Flight'[p] = Flight[p]
                               \/ /\ Flight'[p].cmd # "Bye" /\ Flight[p].cmd # "Bye"
                                  /\ Flight'[p].file = Flight[p].file
                                  /\ Flight'[p].block = Flight[p].block
  <2>1. PICK n \in DOMAIN Flight :
            /\ Flight[n] = m /\ Flight'[n] = e
            /\ \A p \in DOMAIN Flight : p # n => Flight'[p] = Flight[p]
    BY <1>6
  <2>2. QED
    BY <1>1, <1>5, <2>1
<1>8. \A a \in Elements(toClient') : AnswerTrue(a)'
  <2>1. Elements(toClient') = Elements(toClient) \cup {e}
    BY <1>1, <1>2, <1>5, AppendFacts
  <2>2. \A a : AnswerTrue(a)' <=> AnswerTrue(a)
    BY <1>1 DEF AnswerTrue
  <2>3. AnswerTrue(e)
    BY <1>5 DEF AnswerTrue
  <2>4. \A a \in Elements(toClient) : AnswerTrue(a)
    BY DEF ExtractInv, Packets
  <2>5. QED
    BY <2>1, <2>2, <2>3, <2>4
<1>9. QED
  BY <1>1, <1>4, <1>6, <1>7, <1>8, IdleStep

-----------------------------------------------------------------------------
(* The work list is filled. *)

\* A ticket has made all its requests.
LEMMA NextAction ==
    ASSUME ExtractInv, FillNext
    PROVE  Most'
<1> DEFINE t == workList[cursor]
           u == [t EXCEPT !.status = "AwaitingBlockConfirms"]
<1>1. /\ cursor \in DOMAIN workList
      /\ UNCHANGED <<streams, disk, archive, sealed, key, closing, scanning, pc>>
      /\ UNCHANGED <<toClient, toServer, outBuf>>
      /\ \/ UNCHANGED workList
         \/ /\ workList' = [workList EXCEPT ![cursor] = u]
            /\ t.status = "SendingBlockRequests" /\ AskedAll(t)
  BY DEF FillNext, fileVars, wireVars, archiveVars
<1>2. CASE UNCHANGED workList
  <2>1. Flight' = Flight
    BY <1>1 DEF Flight
  <2>2. QED
    BY <1>1, <1>2, <2>1, IdleStep, SameAnswers
<1>3. CASE /\ workList' = [workList EXCEPT ![cursor] = u]
           /\ t.status = "SendingBlockRequests" /\ AskedAll(t)
  <2>1. /\ workList \in Seq(Ticket) /\ t \in Ticket /\ t.next \in Nat /\ t.size \in Nat
        /\ TicketRight(cursor)
    BY <1>1, TicketFields DEF ExtractInv, TypeOK, Tickets
  <2>2. /\ u.status = "AwaitingBlockConfirms" /\ u.file = t.file /\ u.next = t.next
        /\ u.size = t.size /\ u.moved = t.moved /\ u.fp = t.fp
    BY <2>1 DEF Ticket
  <2>3. t.next = t.size
    BY <1>3, <2>1 DEF TicketRight, AskedAll
  <2> HIDE DEF u
  <2>4. /\ DOMAIN workList' = DOMAIN workList /\ Len(workList') = Len(workList)
        /\ \A i \in DOMAIN workList : workList'[i] = IF i = cursor THEN u ELSE workList[i]
    BY <1>3, <2>1
  <2>5. SameTickets /\ SameLists /\ (workList = <<>> => workList' = <<>>)
    BY <1>1, <2>2, <2>4 DEF SameTickets, SameLists
  <2>6. Tickets'
    <3>1. SUFFICES ASSUME NEW i \in DOMAIN workList PROVE TicketRight(i)'
      BY <1>1, <2>4 DEF ExtractInv, Tickets
    <3>2. TicketRight(i)
      BY DEF ExtractInv, Tickets
    <3>3. \A j \in 1 .. i - 1 : j \in DOMAIN workList
      BY TicketFields DEF ExtractInv
    <3>4. CASE i = cursor
      <4>1. workList'[i] = u /\ workList[i] = t
        BY <2>4, <3>4
      <4>2. HasList(t) /\ \A j \in 1 .. i - 1 : workList[j].file # t.file
        BY <1>3, <3>2, <4>1 DEF TicketRight, NoList
      <4>3. \A j \in 1 .. i - 1 : workList'[j].file # u.file
        BY <2>2, <2>5, <3>3, <4>2 DEF SameTickets
      <4>4. /\ workList'[i].file = t.file /\ workList'[i].size = t.size
            /\ workList'[i].next = t.next /\ workList'[i].moved = t.moved
            /\ workList'[i].fp = t.fp /\ workList'[i].status = "AwaitingBlockConfirms"
        BY <2>2, <4>1
      <4>5. t.fp = i /\ t.moved <= 0 /\ t.next <= t.size
        BY <3>2, <4>1 DEF TicketRight
      <4>6. HasList(workList[i])'
        BY <1>1, <4>2, <4>4 DEF HasList, Opens, Good
      <4>7. \A j \in 1 .. i - 1 : workList'[j].file # workList'[i].file
        BY <2>2, <4>1, <4>3
      <4> HIDE DEF t
      <4>8. QED
        BY <2>3, <4>4, <4>5, <4>6, <4>7 DEF TicketRight
    <3>5. CASE i # cursor
      <4>1. workList'[i] = workList[i]
        BY <2>4, <3>5
      <4>2. \A j \in 1 .. i - 1 : workList'[j].file = workList[j].file
        BY <2>5, <3>3 DEF SameTickets
      <4>3. QED
        BY <1>1, <3>2, <4>1, <4>2 DEF TicketRight, HasList, NoList, Opens, Good
    <3>6. QED
      BY <3>4, <3>5
  <2>7. Flight' = Flight
    BY <1>1 DEF Flight
  <2>8. /\ \A p, f, k : Asks(p, f, k)' <=> Asks(p, f, k)
        /\ \A p : Parts(p)' <=> Parts(p)
    BY <2>7 DEF Asks, Parts
  <2>9. Core'
    BY <1>1, <2>5, <2>8, QuietStep, SameAnswers
  <2>10. \A f \in File : Due(f, 0) => Due(f, 0)'
    BY <2>8 DEF Due
  <2>11. ListComes'
    BY <1>1, <2>5, <2>10, QuietLists
  <2>12. QED
    BY <2>6, <2>9, <2>11 DEF Most
<1>4. QED
  BY <1>1, <1>2, <1>3

\* The next block is asked for.
LEMMA RequestAction ==
    ASSUME ExtractInv, FillRequest
    PROVE  Most'
<1> DEFINE t == workList[cursor]
           u == [t EXCEPT !.next = t.next + 1]
<1>1. /\ cursor \in DOMAIN workList
      /\ UNCHANGED <<streams, disk, archive, sealed, key, closing, scanning, pc>>
      /\ UNCHANGED <<toClient, toServer>>
      /\ t.status = "SendingBlockRequests" /\ t.next < t.size
      /\ outBuf' = Append(outBuf, GetBlock(t.file, t.next + 1))
      /\ workList' = [workList EXCEPT ![cursor] = u]
  <2>1. workList \in Seq(Ticket)
    BY DEF ExtractInv, TypeOK
  <2>2. [workList EXCEPT ![cursor].next = t.next + 1] = [workList EXCEPT ![cursor] = u]
    BY <2>1
  <2>3. workList' = [workList EXCEPT ![cursor].next = t.next + 1]
    BY DEF FillRequest
  <2>4. /\ cursor \in DOMAIN workList
        /\ UNCHANGED <<streams, disk, archive, sealed, key, closing, scanning, pc>>
        /\ UNCHANGED <<toClient, toServer>>
        /\ t.status = "SendingBlockRequests" /\ t.next < t.size
        /\ outBuf' = Append(outBuf, GetBlock(t.file, t.next + 1))
    BY DEF FillRequest, SendsMore, fileVars, wireVars, archiveVars
  <2>5. QED
    BY <2>2, <2>3, <2>4
<1>2. /\ workList \in Seq(Ticket) /\ t \in Ticket /\ t.next \in Nat /\ t.size \in Nat
      /\ t.file \in File /\ TicketRight(cursor)
  BY <1>1, TicketFields DEF ExtractInv, TypeOK, Tickets
<1>3. PICK f \in File, n \in Nat : f = t.file /\ n = t.next + 1 /\ n # 0 /\ n <= t.size
  BY <1>1, <1>2
<1>4. PICK m \in Message : /\ m.cmd # "Bye" /\ m.file = f /\ m.block = n
                           /\ outBuf' = Append(outBuf, m)
  <2>1. GetBlock(f, n) \in Message /\ GetBlock(f, n).cmd # "Bye"
        /\ GetBlock(f, n).file = f /\ GetBlock(f, n).block = n
    BY Packet DEF Record
  <2>2. QED
    BY <1>1, <1>3, <2>1
<1>5. PICK e \in Nat : e = Len(Flight) + 1
  BY FlightType DEF ExtractInv
<1>6. /\ \A p, g, k : Asks(p, g, k)' <=> Asks(p, g, k) \/ (p = e /\ f = g /\ n = k)
      /\ \A p : Parts(p)' <=> Parts(p)
  BY <1>1, <1>4, <1>5, FlightAppend DEF ExtractInv
<1>7. \A p, g, k : Asks(p, g, k) => p \in Nat /\ p < e /\ g \in File /\ k \in Nat
  <2>1. SUFFICES ASSUME NEW p, NEW g, NEW k, Asks(p, g, k)
                 PROVE  p \in Nat /\ p < e /\ g \in File /\ k \in Nat
    OBVIOUS
  <2>2. p \in 1 .. Len(Flight) /\ Len(Flight) \in Nat
    BY <2>1, FlightType DEF ExtractInv, Asks
  <2>3. QED
    BY <1>5, <2>1, <2>2, AsksFacts DEF ExtractInv
<1>8. /\ u.next = n /\ u.file = f /\ u.size = t.size
      /\ u.status = t.status /\ u.moved = t.moved /\ u.fp = t.fp
  BY <1>2, <1>3 DEF Ticket
<1> HIDE DEF u
<1>9. /\ DOMAIN workList' = DOMAIN workList /\ Len(workList') = Len(workList)
      /\ \A i \in DOMAIN workList : workList'[i] = IF i = cursor THEN u ELSE workList[i]
  BY <1>1, <1>2
<1>10. \A i \in DOMAIN workList :
          /\ workList'[i].file = workList[i].file /\ workList'[i].size = workList[i].size
          /\ workList'[i].fp = workList[i].fp /\ workList'[i].moved = workList[i].moved
          /\ workList'[i].status = workList[i].status
          /\ workList'[i].next = IF i = cursor THEN n ELSE workList[i].next
  BY <1>3, <1>8, <1>9
<1>11. \A i \in DOMAIN workList : workList[i].next \in Nat /\ workList[i].file \in File
  BY TicketFields DEF ExtractInv
\* The ticket is the only one of its file that has asked for a block.
<1>12. /\ workList[cursor].file = f /\ workList[cursor].next = n - 1
       /\ \A i \in DOMAIN workList : workList[i].file = f /\ workList[i].next # 0 => i = cursor
  <2>1. workList[cursor].size # 0
    BY <1>1, <1>2
  <2>2. ASSUME NEW i \in DOMAIN workList, workList[i].file = f, workList[i].next # 0
        PROVE  i = cursor
    BY <1>1, <1>3, <2>1, <2>2, OnlyFirst DEF ExtractInv
  <2>3. QED
    BY <1>2, <1>3, <2>2
<1>13. \A g \in File, k \in Nat : Asked(g, k) => Asked(g, k)'
  <2>1. SUFFICES ASSUME NEW g \in File, NEW k \in Nat, NEW i \in DOMAIN workList,
                        workList[i].file = g, k <= workList[i].next
                 PROVE  workList'[i].file = g /\ k <= workList'[i].next
    BY <1>9 DEF Asked
  <2>2. workList[i].next <= workList'[i].next
    BY <1>10, <1>11, <1>12
  <2>3. QED
    BY <1>3, <1>10, <1>11, <2>1, <2>2
<1>14. Asked(f, n)'
  <2>1. cursor \in DOMAIN workList' /\ workList'[cursor].file = f /\ workList'[cursor].next = n
    BY <1>1, <1>9, <1>10, <1>12
  <2>2. n <= n
    OBVIOUS
  <2>3. QED
    BY <2>1, <2>2 DEF Asked
<1>15. \A k \in Nat, p \in Nat : Asks(p, f, k) /\ k # 0 => k < n
  <2>1. SUFFICES ASSUME NEW k \in Nat, NEW p \in Nat, Asks(p, f, k), k # 0 PROVE k < n
    OBVIOUS
  <2>2. PICK i \in DOMAIN workList : workList[i].file = f /\ k <= workList[i].next
    BY <2>1 DEF ExtractInv, Packets, Asked
  <2>3. i = cursor
    BY <1>11, <1>12, <2>1, <2>2
  <2>4. QED
    BY <1>12, <2>2, <2>3
<1>16. ~Asked(f, n)
  <2>1. SUFFICES ASSUME NEW i \in DOMAIN workList, workList[i].file = f, n <= workList[i].next
                 PROVE  FALSE
    BY DEF Asked
  <2>2. i = cursor
    BY <1>3, <1>11, <1>12, <2>1
  <2>3. QED
    BY <1>12, <2>1, <2>2
<1>17. \A g, k : /\ Due(g, k)' <=> Due(g, k) \/ (g = f /\ k = n)
                 /\ Good(g, k)' <=> Good(g, k)
                 /\ Saved(g, k)' <=> Saved(g, k)
  BY <1>1, <1>6 DEF Due, Good, Saved, HasBlock
<1>18. Packets'
  <2>1. closing' => ~scanning' /\ workList' = <<>>
    BY <1>1 DEF ExtractInv, Packets
  <2>2. \A p \in Nat, g \in File, k \in Nat : Asks(p, g, k)' => Asked(g, k)'
    BY <1>6, <1>13, <1>14 DEF ExtractInv, Packets
  <2>3. \A p \in Nat : Parts(p)' => closing'
    BY <1>1, <1>6 DEF ExtractInv, Packets
  <2>4. \A a \in Elements(toClient') : AnswerTrue(a)'
    BY <1>1, SameAnswers
  <2>5. QED
    BY <2>1, <2>2, <2>3, <2>4 DEF Packets
<1>19. Rising'
  <2>1. SUFFICES ASSUME NEW p \in Nat, NEW q \in Nat, NEW g \in File, NEW k \in Nat, NEW l \in Nat,
                        Asks(p, g, k)', Asks(q, g, l)', k # 0, l # 0, p < q
                 PROVE  k < l
    BY DEF Rising
  <2>2. CASE Asks(p, g, k) /\ Asks(q, g, l)
    BY <2>1, <2>2 DEF ExtractInv, Rising
  <2>3. CASE Asks(p, g, k) /\ q = e /\ g = f /\ l = n
    BY <1>15, <2>1, <2>3
  <2>4. CASE p = e
    BY <1>6, <1>7, <2>1, <2>4
  <2>5. QED
    BY <1>6, <2>1, <2>2, <2>3, <2>4
<1>20. Rest'
  <2>1. SUFFICES ASSUME NEW i \in DOMAIN workList, NEW p \in Nat, NEW k \in Nat, NEW l \in Nat,
                        Asks(p, workList[i].file, k)', k # 0, k < l, l <= workList'[i].next
                 PROVE  \E q \in Nat : p < q /\ Asks(q, workList[i].file, l)'
    BY <1>9, <1>10 DEF Rest
  <2>2. PICK g \in File : g = workList[i].file /\ g = workList'[i].file
    BY <1>10, <1>11
  <2>3. Asks(p, g, k)'
    BY <2>1, <2>2 DEF Asks
  <2>4. CASE i = cursor /\ l = n
    <3>1. g = f /\ k # n
      <4>1. g = f
        BY <1>12, <2>2, <2>4
      <4>2. k < n
        BY <2>1, <2>4
      <4>3. QED
        BY <4>1, <4>2
    <3>2. Asks(p, g, k)
      BY <1>6, <2>3, <3>1
    <3>3. p < e /\ Asks(e, g, l)'
      BY <1>6, <1>7, <2>4, <3>1, <3>2
    <3>4. QED
      BY <2>2, <3>3 DEF Asks
  <2>5. CASE ~(i = cursor /\ l = n)
    <3>1. l <= workList[i].next
      BY <1>3, <1>10, <1>11, <1>12, <2>1, <2>5
    <3>2. Asks(p, g, k)
      <4>1. SUFFICES ASSUME g = f, k = n PROVE FALSE
        BY <1>6, <2>3
      <4>2. workList[i].next # 0
        BY <1>11, <2>1, <3>1
      <4>3. i = cursor
        BY <1>12, <2>2, <4>1, <4>2
      <4>4. QED
        BY <1>12, <2>1, <3>1, <4>1, <4>3
    <3>3. PICK q \in Nat : p < q /\ Asks(q, g, l)
      <4>1. /\ Asks(p, workList[i].file, k) /\ k # 0 /\ k < l /\ l <= workList[i].next
        BY <2>1, <2>2, <3>1, <3>2
      <4>2. \E q \in Nat : p < q /\ Asks(q, workList[i].file, l)
        BY <4>1 DEF ExtractInv, Rest
      <4>3. QED
        BY <2>2, <4>2
    <3>4. Asks(q, g, l)'
      BY <1>6, <3>3
    <3>5. QED
      BY <2>2, <3>3, <3>4 DEF Asks
  <2>6. QED
    BY <2>4, <2>5
<1>21. SavedIsGood'
  <2>1. SUFFICES ASSUME NEW g \in File, NEW k \in Nat, Saved(g, k)
                 PROVE  Good(g, k) /\ ~Due(g, k)' /\ k # 0 /\ Asked(g, k)'
    BY <1>17 DEF SavedIsGood
  <2>2. Good(g, k) /\ ~Due(g, k) /\ k # 0 /\ Asked(g, k)
    BY <2>1 DEF ExtractInv, SavedIsGood
  <2>3. QED
    BY <1>13, <1>16, <1>17, <2>2
<1>22. GoodIsSaved'
  <2>1. SUFFICES ASSUME NEW i \in DOMAIN workList, NEW k \in 1 .. workList'[i].next,
                        Good(workList[i].file, k)', ~Due(workList[i].file, k)'
                 PROVE  Saved(workList[i].file, k)'
    BY <1>9, <1>10 DEF GoodIsSaved
  <2>2. PICK g \in File : g = workList[i].file /\ g = workList'[i].file
    BY <1>10, <1>11
  <2>3. Good(g, k) /\ ~Due(g, k) /\ ~(g = f /\ k = n)
    <3>1. Good(g, k)' /\ ~Due(g, k)'
      BY <2>1, <2>2 DEF Good, Due, Asks
    <3>2. QED
      BY <1>17, <3>1
  <2>4. k \in 1 .. workList[i].next
    BY <1>3, <1>10, <1>11, <1>12, <2>2, <2>3
  <2>5. Saved(g, k)
    BY <2>2, <2>3, <2>4 DEF ExtractInv, GoodIsSaved
  <2>6. Saved(g, k)'
    BY <1>17, <2>5
  <2>7. QED
    BY <2>2, <2>6 DEF Saved, HasBlock
<1>23. Kept'
  <2>1. SUFFICES ASSUME NEW i \in DOMAIN streams, NEW k \in Nat, Holds(i, k) PROVE Holds(i, k)'
    BY <1>1 DEF ExtractInv, Kept
  <2>2. i \in DOMAIN workList
    BY DEF ExtractInv, Tickets, TypeOK
  <2>3. workList'[i].file = workList[i].file /\ workList[i].next <= workList'[i].next
        /\ workList[i].next \in Nat /\ workList'[i].next \in Nat
    BY <1>10, <1>11, <1>12, <2>2
  <2>4. k \in 1 .. workList'[i].next
    BY <2>1, <2>3 DEF Holds
  <2>5. \A g, l : (HasBlock(disk, g, l)' <=> HasBlock(disk, g, l)) /\ (Good(g, l)' <=> Good(g, l))
    BY <1>1 DEF HasBlock, Good
  <2>6. QED
    BY <1>1, <2>1, <2>3, <2>4, <2>5 DEF Holds
<1>24. Tickets'
  <2>1. SUFFICES ASSUME NEW i \in DOMAIN workList PROVE TicketRight(i)'
    BY <1>1, <1>9 DEF ExtractInv, Tickets
  <2>2. TicketRight(i) /\ workList[i].size \in Nat /\ workList[i].next \in Nat
    BY TicketFields DEF ExtractInv, Tickets
  <2>3. \A j \in 1 .. i - 1 : j \in DOMAIN workList
    BY TicketFields DEF ExtractInv
  <2>4. workList'[i].next <= workList'[i].size
    BY <1>3, <1>10, <2>2 DEF TicketRight
  <2>5. workList'[i].status = "AwaitingBlockConfirms" => workList'[i].next = workList'[i].size
    BY <1>1, <1>10, <2>2 DEF TicketRight
  <2>6. NoList(workList[i]) => NoList(workList[i])'
    BY <1>10 DEF NoList
  <2>7. HasList(workList[i]) => HasList(workList[i])'
    BY <1>1, <1>10 DEF HasList, Opens, Good
  <2>8. (\A j \in 1 .. i - 1 : workList[j].file # workList[i].file)
           => \A j \in 1 .. i - 1 : workList'[j].file # workList'[i].file
    BY <1>10, <2>3
  <2>9. workList'[i].fp = i /\ workList'[i].moved <= 0
    BY <1>10, <2>2 DEF TicketRight
  <2>10. QED
    BY <2>2, <2>4, <2>5, <2>6, <2>7, <2>8, <2>9 DEF TicketRight
<1>25. ListComes'
  <2>1. /\ DOMAIN workList' = DOMAIN workList
        /\ \A i \in DOMAIN workList : /\ workList'[i].file = workList[i].file
                                      /\ workList'[i].size = workList[i].size
    BY <1>9, <1>10
  <2>2. SUFFICES ASSUME pc \in {"loop", "fill"}, NEW i \in DOMAIN workList,
                        Good(workList[i].file, 0)'
                 PROVE  \/ Due(workList[i].file, 0)'
                        \/ \E j \in DOMAIN workList :
                              workList[j].file = workList[i].file /\ workList[j].size # 0
    BY <1>1, <2>1 DEF ListComes
  <2>3. PICK g \in File : g = workList[i].file /\ g = workList'[i].file
    BY <1>10, <1>11
  <2>4. Good(g, 0)
    BY <1>1, <2>2, <2>3 DEF Good
  <2>5. CASE Due(g, 0)
    <3>1. Due(g, 0)'
      BY <1>17, <2>5
    <3>2. QED
      BY <2>3, <3>1 DEF Due, Asks
  <2>6. QED
    BY <2>2, <2>3, <2>4, <2>5 DEF ExtractInv, ListComes
<1>26. QED
  BY <1>18, <1>19, <1>20, <1>21, <1>22, <1>23, <1>24, <1>25 DEF Most, Core

-----------------------------------------------------------------------------
(* The scan. *)

\* A ticket is opened.
LEMMA OpenAction ==
    ASSUME ExtractInv, NEW f \in File, ExtractFile(f)
    PROVE  Most'
<1> DEFINE t == NewTicket(f)
<1>1. /\ scanning /\ scanning' = scanning
      /\ UNCHANGED <<archive, sealed, key, closing, pc>>
      /\ UNCHANGED <<toClient, toServer>>
      /\ streams' = Append(streams, <<>>) /\ disk' = <<>>
      /\ workList' = Append(workList, NewTicket(f))
      /\ outBuf' = Append(outBuf, GetBlock(f, 0))
  BY DEF ExtractFile, NextName, wireVars, archiveVars
<1>2. /\ \A i \in DOMAIN workList : NoList(workList[i]) /\ workList[i].next = 0
      /\ \A i \in DOMAIN streams : streams[i] = <<>>
  BY <1>1, NothingYet DEF ExtractInv
<1>3. PICK m \in Message : /\ m.cmd # "Bye" /\ m.file = f /\ m.block = 0
                           /\ outBuf' = Append(outBuf, m)
  BY <1>1, Packet DEF Record
<1>4. PICK e \in Nat : e = Len(Flight) + 1
  BY FlightType DEF ExtractInv
<1>5. /\ \A p, g, k : Asks(p, g, k)' <=> Asks(p, g, k) \/ (p = e /\ f = g /\ k = 0)
      /\ \A p : Parts(p)' <=> Parts(p)
  BY <1>1, <1>3, <1>4, FlightAppend DEF ExtractInv
<1>6. PICK n \in Nat : n = Len(workList) /\ n = Len(streams)
  BY DEF ExtractInv, TypeOK, Tickets
<1>7. /\ t \in Ticket /\ t.file = f /\ t.next = 0 /\ t.moved = 0 /\ t.fp = n + 1
      /\ t.size = 0 /\ t.status = "AwaitingBlockList"
  BY <1>6 DEF NewTicket, Ticket, Status
<1> HIDE DEF t
<1>8. /\ DOMAIN workList = 1 .. n /\ DOMAIN workList' = 1 .. n + 1 /\ Len(workList') = n + 1
      /\ \A i \in 1 .. n : workList'[i] = workList[i]
      /\ workList'[n + 1] = t
  <2>1. workList \in Seq(Ticket)
    BY DEF ExtractInv, TypeOK
  <2>2. workList' \in Seq(Ticket)
    BY <1>1, <1>7, <2>1, AppendFacts DEF t
  <2>3. workList' = Append(workList, t) /\ Len(workList) = n
    BY <1>1, <1>6 DEF t
  <2>4. /\ DOMAIN workList = 1 .. n /\ DOMAIN workList' = 1 .. n + 1
        /\ \A i \in DOMAIN workList : workList'[i] = workList[i]
        /\ workList'[n + 1] = t
    BY <1>7, <2>1, <2>3, AppendFacts
  <2>5. Len(workList') = n + 1
    BY <1>6, <2>2, <2>4
  <2>6. QED
    BY <2>4, <2>5
<1>9. /\ DOMAIN streams' = 1 .. n + 1 /\ Len(streams') = n + 1
      /\ \A i \in 1 .. n + 1 : streams'[i] = <<>>
  <2>1. streams \in Seq(Seq(Write)) /\ <<>> \in Seq(Write)
    BY DEF ExtractInv, TypeOK
  <2>2. /\ DOMAIN streams' = 1 .. n + 1 /\ DOMAIN streams = 1 .. n /\ Len(streams') = n + 1
        /\ \A i \in 1 .. n : streams'[i] = streams[i]
        /\ streams'[n + 1] = <<>>
    BY <1>1, <1>6, <2>1, AppendFacts
  <2>3. \A i \in 1 .. n + 1 : i \in 1 .. n \/ i = n + 1
    BY <1>6
  <2>4. QED
    BY <1>2, <2>2, <2>3
<1>10. \A i \in DOMAIN workList' : i \in 1 .. n \/ i = n + 1
  BY <1>6, <1>8
<1>11. \A i \in DOMAIN workList' : NoList(workList'[i]) /\ workList'[i].next = 0
  <2>1. NoList(t) /\ t.next = 0
    BY <1>7 DEF NoList
  <2>2. QED
    BY <1>2, <1>8, <1>10, <2>1
<1>12. \A g \in File, k \in Nat : ~Saved(g, k)'
  BY <1>1, <1>9 DEF Saved, HasBlock
<1>13. \A g \in File, k \in Nat : Asked(g, k) => Asked(g, k)'
  <2>1. \A i \in DOMAIN workList : i \in DOMAIN workList' /\ workList'[i] = workList[i]
    BY <1>6, <1>8
  <2>2. QED
    BY <2>1 DEF Asked
<1>14. Asked(f, 0)'
  <2>1. n + 1 \in DOMAIN workList' /\ workList'[n + 1].file = f /\ 0 <= workList'[n + 1].next
    BY <1>6, <1>7, <1>8
  <2>2. QED
    BY <2>1 DEF Asked
<1>15. Packets'
  <2>1. ~closing'
    BY <1>1 DEF ExtractInv, Packets
  <2>2. \A p \in Nat, g \in File, k \in Nat : Asks(p, g, k)' => Asked(g, k)'
    BY <1>5, <1>13, <1>14 DEF ExtractInv, Packets
  <2>3. \A p \in Nat : Parts(p)' => closing'
    BY <1>1, <1>5 DEF ExtractInv, Packets
  <2>4. \A a \in Elements(toClient') : AnswerTrue(a)'
    BY <1>1, SameAnswers
  <2>5. QED
    BY <2>1, <2>2, <2>3, <2>4 DEF Packets
<1>16. Rising'
  BY <1>5 DEF ExtractInv, Rising
<1>17. Rest'
  <2>1. SUFFICES ASSUME NEW i \in DOMAIN workList', NEW k \in Nat, NEW l \in Nat,
                        k < l, l <= workList'[i].next
                 PROVE  FALSE
    BY DEF Rest
  <2>2. QED
    BY <1>11, <2>1
<1>18. SavedIsGood'
  BY <1>12 DEF SavedIsGood
<1>19. GoodIsSaved'
  BY <1>11 DEF GoodIsSaved
<1>20. Kept'
  BY <1>9 DEF Kept
<1>21. Tickets'
  <2>1. SUFFICES ASSUME NEW i \in DOMAIN workList' PROVE TicketRight(i)'
    BY <1>8, <1>9 DEF Tickets
  <2>2. workList'[i].fp = i /\ workList'[i].moved <= 0
    <3>1. CASE i \in 1 .. n
      BY <1>8, <3>1 DEF ExtractInv, Tickets, TicketRight
    <3>2. CASE i = n + 1
      BY <1>7, <1>8, <3>2
    <3>3. QED
      BY <1>10, <3>1, <3>2
  <2>3. /\ workList'[i].next = 0 /\ workList'[i].size = 0
        /\ workList'[i].status = "AwaitingBlockList"
    BY <1>11 DEF NoList
  <2>4. NoList(workList[i])'
    BY <2>3 DEF NoList
  <2>5. QED
    BY <2>2, <2>3, <2>4 DEF TicketRight
<1>22. ListComes'
  <2>1. SUFFICES ASSUME pc \in {"loop", "fill"}, NEW i \in DOMAIN workList',
                        Good(workList[i].file, 0)'
                 PROVE  Due(workList[i].file, 0)'
    BY <1>1 DEF ListComes
  <2>2. PICK g : g = workList'[i].file
    OBVIOUS
  <2>3. \E p \in Nat : Asks(p, g, 0)'
    <3>1. CASE i \in 1 .. n
      <4>1. g = workList[i].file /\ Good(workList[i].file, 0)
        BY <1>1, <1>8, <2>1, <2>2, <3>1 DEF Good
      <4>2. workList[i].size = 0 /\ i \in DOMAIN workList
        BY <1>2, <1>8, <3>1 DEF NoList
      <4>3. \A j \in DOMAIN workList : workList[j].size = 0
        BY <1>2 DEF NoList
      <4>4. Due(g, 0)
        BY <2>1, <4>1, <4>2, <4>3 DEF ExtractInv, ListComes
      <4>5. QED
        BY <1>5, <4>4 DEF Due
    <3>2. CASE i = n + 1
      BY <1>5, <1>7, <1>8, <2>2, <3>2
    <3>3. QED
      BY <1>10, <3>1, <3>2
  <2>4. QED
    BY <2>2, <2>3 DEF Due, Asks
<1>23. QED
  BY <1>15, <1>16, <1>17, <1>18, <1>19, <1>20, <1>21, <1>22 DEF Most, Core

\* Without a ticket there is nothing on its way but goodbyes, and nothing is saved.
LEMMA NoTickets ==
    ASSUME ExtractInv, workList = <<>>
    PROVE  /\ streams = <<>>
           /\ \A p, f, k : ~Asks(p, f, k)
           /\ \A f \in File, k \in Nat : ~Saved(f, k)
<1>1. \A f \in File, k \in Nat : ~Asked(f, k)
  BY DEF Asked
<1>2. \A p, f, k : ~Asks(p, f, k)
  BY <1>1, AsksFacts DEF ExtractInv, Packets
<1>3. \A f \in File, k \in Nat : ~Saved(f, k)
  BY <1>1 DEF ExtractInv, SavedIsGood
<1>4. streams = <<>>
  <2>1. streams \in Seq(Seq(Write)) /\ Len(streams) = Len(workList) /\ Len(workList) = 0
    BY DEF ExtractInv, TypeOK, Tickets
  <2>2. QED
    BY <2>1
<1>5. QED
  BY <1>2, <1>3, <1>4

\* The goodbyes of either side.
LEMMA NoTicketsStep ==
    ASSUME ExtractInv, workList = <<>>,
           UNCHANGED <<workList, streams, disk, archive>>,
           closing', ~scanning',
           \A p, f, k : ~Asks(p, f, k)',
           \A m \in Elements(toClient') : AnswerTrue(m)'
    PROVE  Most'
<1>1. DOMAIN workList' = {} /\ workList' = <<>> /\ streams' = <<>>
  BY NoTickets
<1>2. \A f \in File, k \in Nat : ~Saved(f, k)'
  <2>1. \A f, k : Saved(f, k)' <=> Saved(f, k)
    BY DEF Saved, HasBlock
  <2>2. QED
    BY <2>1, NoTickets
<1>3. Packets' /\ Rising' /\ Rest'
  BY <1>1 DEF Packets, Rising, Rest
<1>4. SavedIsGood' /\ GoodIsSaved' /\ Kept'
  BY <1>1, <1>2 DEF SavedIsGood, GoodIsSaved, Kept
<1>5. Tickets' /\ ListComes'
  BY <1>1 DEF Tickets, ListComes
<1>6. QED
  BY <1>3, <1>4, <1>5 DEF Most, Core

\* There was nothing to extract.
LEMMA ByeAction ==
    ASSUME ExtractInv, EndScan, workList = <<>>
    PROVE  Most'
<1>1. /\ UNCHANGED <<workList, streams, disk, archive, toClient, toServer>>
      /\ closing' /\ ~scanning' /\ outBuf' = Append(outBuf, Bye)
  BY DEF EndScan, fileVars, wireVars, archiveVars
<1>2. Bye \in Message /\ Bye.cmd = "Bye"
  BY DEF Bye, Message
<1>3. \A p, f, k : ~Asks(p, f, k)'
  BY <1>1, <1>2, FlightAppend, NoTickets DEF ExtractInv
<1>4. QED
  BY <1>1, <1>3, NoTicketsStep, SameAnswers

\* The server has got a goodbye.
LEMMA LeaveAction ==
    ASSUME ExtractInv, ReceiveBye
    PROVE  /\ Most' /\ toClient' \in Seq(Message)
           /\ workList = <<>>
<1>1. /\ UNCHANGED <<workList, streams, disk, archive, closing, scanning, outBuf>>
      /\ toServer # <<>> /\ Head(toServer).cmd = "Bye" /\ toServer' = Tail(toServer)
      /\ toClient' \in {toClient, Append(toClient, Bye)}
  BY DEF ReceiveBye, ServerReceives, clientVars, fileVars, archiveVars
<1>2. /\ toServer \in Seq(Message) /\ toClient \in Seq(Message) /\ outBuf \in Seq(Message)
      /\ Tail(toServer) \in Seq(Message) /\ Head(toServer) \in Elements(toServer)
      /\ Elements(Tail(toServer)) \subseteq Elements(toServer)
  BY <1>1, TailFacts DEF ExtractInv, TypeOK
<1>3. Bye \in Message /\ Bye.cmd = "Bye"
  BY DEF Bye, Message
<1>4. /\ toClient' \in Seq(Message)
      /\ Elements(toClient') \subseteq Elements(toClient) \cup {Bye}
  <2>1. /\ Append(toClient, Bye) \in Seq(Message)
        /\ Elements(Append(toClient, Bye)) = Elements(toClient) \cup {Bye}
    BY <1>2, <1>3, AppendFacts
  <2>2. QED
    BY <1>1, <1>2, <2>1
<1>5. closing /\ ~scanning /\ workList = <<>>
  <2>1. PICK p \in DOMAIN Flight : Flight[p] = Head(toServer)
    BY <1>2, FlightParts DEF ExtractInv
  <2>2. p \in Nat /\ Parts(p)
    BY <1>1, <2>1, FlightType DEF ExtractInv, Parts
  <2>3. QED
    BY <2>2 DEF ExtractInv, Packets
<1>6. \A m \in (Elements(toClient) \cup Elements(toServer)) \cup Elements(outBuf) : m.cmd = "Bye"
  <2>1. \A p \in DOMAIN Flight : Flight[p].cmd = "Bye"
    BY <1>5, NoTickets DEF Asks
  <2>2. QED
    BY <2>1, FlightParts DEF ExtractInv
<1>7. Elements(outBuf') = Elements(outBuf) /\ Elements(toServer') \subseteq Elements(toServer)
  BY <1>1, <1>2
<1>8. \A m \in (Elements(toClient') \cup Elements(toServer')) \cup Elements(outBuf') : m.cmd = "Bye"
  BY <1>3, <1>4, <1>6, <1>7
<1>9. \A p \in DOMAIN Flight' : Flight'[p].cmd = "Bye"
  <2>1. /\ toClient' \in Seq(Message) /\ toServer' \in Seq(Message) /\ outBuf' \in Seq(Message)
    BY <1>1, <1>2, <1>4
  <2>2. Elements(Flight') = (Elements(toClient') \cup Elements(toServer')) \cup Elements(outBuf')
    <3>1. PICK a, b, c : a = toClient' /\ b = toServer' /\ c = outBuf'
      OBVIOUS
    <3>2. Elements((a \o b) \o c) = (Elements(a) \cup Elements(b)) \cup Elements(c)
      BY <2>1, <3>1, JoinParts
    <3>3. Flight' = (a \o b) \o c
      BY <3>1 DEF Flight
    <3>4. QED
      BY <3>1, <3>2, <3>3
  <2>3. \A p \in DOMAIN Flight' : Flight'[p] \in Elements(Flight')
    BY DEF Elements
  <2>4. QED
    BY <1>8, <2>2, <2>3
<1>10. \A p, f, k : ~Asks(p, f, k)'
  BY <1>9 DEF Asks
<1>11. \A m \in Elements(toClient') : AnswerTrue(m)'
  <2>1. \A m : m.cmd = "Bye" => AnswerTrue(m)'
    BY DEF AnswerTrue
  <2>2. QED
    BY <1>8, <2>1
<1>12. QED
  BY <1>1, <1>4, <1>5, <1>10, <1>11, NoTicketsStep

-----------------------------------------------------------------------------
(* An answer comes in. *)

\* Ticket i gets block k of f, and the queue moves on.
Arrives(i, f, k) ==
    /\ f = Answer.file /\ k = Answer.block /\ f = workList[i].file
    /\ Answer.obj = archive[<<f, k>>]
    /\ k # 0 => k <= workList[i].next /\ HasList(workList[i])
    /\ Asks(1, f, k)
    /\ \A p \in Nat : \A g, l : Asks(p, g, l)' <=> p # 0 /\ Asks(p + 1, g, l)
    /\ \A p \in Nat : Parts(p)' => Parts(p + 1)
    /\ \A m \in Elements(toClient') : AnswerTrue(m)'
    /\ \A g \in File, l \in Nat : Due(g, l) => Due(g, l)' \/ (g = f /\ l = k)

\* An answer comes in: it is the head of the queue, and what it says is true.
LEMMA Incoming ==
    ASSUME ExtractInv, NEW i \in DOMAIN workList, Receives(i)
    PROVE  \E f \in File, k \in Nat : Arrives(i, f, k)
<1>1. /\ toClient # <<>> /\ toClient' = Tail(toClient) /\ UNCHANGED <<toServer, outBuf>>
      /\ Answer.cmd = "GetBlockAck" /\ workList[i].file = Answer.file
      /\ \A j \in 1 .. i - 1 : workList[j].file # workList[i].file
      /\ archive' = archive
  BY DEF Receives, archiveVars
<1>2. /\ toClient \in Seq(Message) /\ Answer \in Message /\ Answer \in Elements(toClient)
      /\ Elements(Tail(toClient)) \subseteq Elements(toClient)
  BY <1>1, TailFacts DEF ExtractInv, TypeOK, Answer
<1>3. PICK f \in File, k \in Nat : f = Answer.file /\ k = Answer.block
  BY <1>1, <1>2, PacketFields
<1>4. /\ \A p \in Nat : \A g, l : Asks(p, g, l)' <=> p # 0 /\ Asks(p + 1, g, l)
      /\ \A p \in Nat : Parts(p)' => Parts(p + 1)
      /\ 1 \in DOMAIN Flight /\ Flight[1] = Answer
  BY <1>1, FlightTail DEF ExtractInv
<1>5. Asks(1, f, k)
  BY <1>1, <1>3, <1>4 DEF Asks
<1>6. k # 0 => k <= workList[i].next /\ HasList(workList[i])
  <2>1. SUFFICES ASSUME k # 0 PROVE k <= workList[i].next /\ HasList(workList[i])
    OBVIOUS
  <2>2. PICK j \in DOMAIN workList : workList[j].file = f /\ k <= workList[j].next
    BY <1>5 DEF ExtractInv, Packets, Asked
  <2>3. workList[j].next # 0
    BY <2>1, <2>2, TicketFields DEF ExtractInv
  <2>4. HasList(workList[j]) /\ i = j
    BY <1>1, <1>3, <2>2, <2>3, OnlyFirst DEF ExtractInv
  <2>5. QED
    BY <2>2, <2>4
<1>7. Answer.obj = archive[<<f, k>>]
  <2>1. AnswerTrue(Answer)
    BY <1>2 DEF ExtractInv, Packets
  <2>2. QED
    BY <1>1, <1>3, <2>1 DEF AnswerTrue
<1>8. \A m \in Elements(toClient') : AnswerTrue(m)'
  <2>1. \A m : AnswerTrue(m)' <=> AnswerTrue(m)
    BY <1>1 DEF AnswerTrue
  <2>2. \A m \in Elements(toClient) : AnswerTrue(m)
    BY DEF ExtractInv, Packets
  <2>3. Elements(toClient') \subseteq Elements(toClient)
    BY <1>1, <1>2
  <2>4. QED
    BY <2>1, <2>2, <2>3
<1>9. f = workList[i].file
  BY <1>1, <1>3
<1>10. \A g \in File, l \in Nat : Due(g, l) => Due(g, l)' \/ (g = f /\ l = k)
  <2>1. SUFFICES ASSUME NEW g \in File, NEW l \in Nat, NEW p \in Nat, Asks(p, g, l)
                 PROVE  Due(g, l)' \/ (g = f /\ l = k)
    BY DEF Due
  <2>2. CASE p = 1
    BY <1>3, <1>4, <2>1, <2>2 DEF Asks
  <2>3. CASE p # 1
    <3>1. p # 0
      BY <2>1, AsksFacts DEF ExtractInv
    <3>2. PICK q \in Nat : q # 0 /\ q + 1 = p
      <4>1. p - 1 \in Nat /\ p - 1 # 0 /\ (p - 1) + 1 = p
        BY <2>3, <3>1
      <4>2. QED
        BY <4>1
    <3>3. Asks(q, g, l)'
      BY <1>4, <2>1, <3>2
    <3>4. QED
      BY <3>3 DEF Due
  <2>4. QED
    BY <2>2, <2>3
<1>11. QED
  BY <1>3, <1>4, <1>5, <1>6, <1>7, <1>8, <1>9, <1>10 DEF Arrives

\* When block k of f comes in, the blocks saved of f are the good ones before it.
LEMMA SavedSoFar ==
    ASSUME ExtractInv, NEW i \in DOMAIN workList, NEW k \in Nat, k # 0,
           Asks(1, workList[i].file, k), k <= workList[i].next
    PROVE  \A l \in Nat : Saved(workList[i].file, l) <=> l \in 1 .. k - 1 /\ Good(workList[i].file, l)
<1>1. PICK f \in File, n \in Nat : f = workList[i].file /\ n = workList[i].next /\ n # 0 /\ k <= n
  BY TicketFields DEF ExtractInv
<1>2. ASSUME NEW l \in Nat, Saved(f, l) PROVE l \in 1 .. k - 1 /\ Good(f, l)
  <2>1. Good(f, l) /\ ~Due(f, l) /\ l # 0 /\ Asked(f, l)
    BY <1>2 DEF ExtractInv, SavedIsGood
  <2>2. PICK j \in DOMAIN workList : workList[j].file = f /\ l <= workList[j].next
    BY <2>1 DEF Asked
  <2>3. workList[j].next # 0
    BY <2>1, <2>2, TicketFields DEF ExtractInv
  <2>4. i = j
    BY <1>1, <2>2, <2>3, OnlyFirst DEF ExtractInv
  <2>5. l # k
    BY <1>1, <2>1 DEF Due
  <2>6. ~(k < l)
    <3>1. SUFFICES ASSUME k < l PROVE FALSE
      OBVIOUS
    <3>2. l <= workList[i].next
      BY <2>2, <2>4
    <3>3. \E q \in Nat : Asks(q, workList[i].file, l)
      BY <3>1, <3>2 DEF ExtractInv, Rest
    <3>4. QED
      BY <1>1, <2>1, <3>3 DEF Due
  <2>7. QED
    BY <2>1, <2>5, <2>6
<1>3. ASSUME NEW l \in Nat, l \in 1 .. k - 1, Good(f, l) PROVE Saved(f, l)
  <2>1. ~Due(f, l)
    <3>1. SUFFICES ASSUME NEW q \in Nat, Asks(q, f, l) PROVE FALSE
      BY DEF Due
    <3>2. q # 0
      BY <3>1, AsksFacts DEF ExtractInv
    <3>3. CASE q = 1
      <4>1. l = k
        BY <1>1, <3>1, <3>3 DEF Asks
      <4>2. QED
        BY <1>3, <4>1
    <3>4. CASE 1 < q
      <4>1. k < l
        BY <1>1, <1>3, <3>1, <3>4 DEF ExtractInv, Rising
      <4>2. QED
        BY <1>3, <4>1
    <3>5. QED
      BY <3>2, <3>3, <3>4
  <2>2. l \in 1 .. workList[i].next
    BY <1>1, <1>3
  <2>3. QED
    BY <1>1, <1>3, <2>1, <2>2 DEF ExtractInv, GoodIsSaved
<1>4. QED
  BY <1>1, <1>2, <1>3

\* The answer is used up, and the block that it brings is saved if it is good.
LEMMA Received ==
    ASSUME ExtractInv, NEW i \in DOMAIN workList, Receives(i), SameTickets,
           \A g \in File, l \in Nat : Saved(g, l)' <=>
               Saved(g, l) \/ (g = Answer.file /\ l = Answer.block /\ l # 0 /\ Good(g, l))
    PROVE  Packets' /\ Rising' /\ Rest' /\ SavedIsGood' /\ GoodIsSaved'
<1>1. PICK f \in File, k \in Nat : Arrives(i, f, k)
  BY Incoming
<1>2. ~closing /\ closing' = closing /\ scanning' = scanning /\ archive' = archive
  BY DEF Receives, archiveVars
<1>3. \A g, l : /\ Good(g, l)' <=> Good(g, l)
                /\ Asked(g, l)' <=> Asked(g, l)
  BY <1>2 DEF Good, Asked, SameTickets
<1>4. \A g \in File, l \in Nat : Saved(g, l)' <=>
          Saved(g, l) \/ (g = f /\ l = k /\ l # 0 /\ Good(g, l))
  BY <1>1 DEF Arrives
<1>5. \A g, l : Due(g, l)' => Due(g, l)
  BY <1>1 DEF Due, Arrives
<1>6. \A g \in File, l \in Nat : Due(g, l) => Due(g, l)' \/ (g = f /\ l = k)
  BY <1>1 DEF Arrives
<1>7. k # 0 => ~Due(f, k)'
  <2>1. SUFFICES ASSUME k # 0, NEW q \in Nat, Asks(q, f, k)' PROVE FALSE
    BY DEF Due
  <2>2. q # 0 /\ Asks(q + 1, f, k) /\ q + 1 \in Nat /\ 1 < q + 1
    BY <1>1, <2>1 DEF Arrives
  <2>3. k < k
    BY <1>1, <2>1, <2>2 DEF ExtractInv, Rising, Arrives
  <2>4. QED
    BY <2>3
<1>8. ASSUME NEW p \in Nat, NEW g, NEW l, Asks(p, g, l)'
       PROVE  \E r \in Nat : r = p + 1 /\ Asks(r, g, l)
  <2>1. Asks(p + 1, g, l)
    BY <1>1, <1>8 DEF Arrives
  <2>2. p + 1 \in Nat
    OBVIOUS
  <2>3. QED
    BY <2>1, <2>2
<1>9. Packets'
  <2>1. \A p \in Nat : ~Parts(p + 1)
    BY <1>2 DEF ExtractInv, Packets
  <2>2. \A p \in Nat : Parts(p)' => closing'
    BY <1>1, <2>1 DEF Arrives
  <2>3. \A p \in Nat, g \in File, l \in Nat : Asks(p, g, l)' => Asked(g, l)'
    <3>1. SUFFICES ASSUME NEW p \in Nat, NEW g \in File, NEW l \in Nat, Asks(p, g, l)'
                   PROVE  Asked(g, l)
      BY <1>3
    <3>2. \E r \in Nat : Asks(r, g, l)
      BY <1>8, <3>1
    <3>3. QED
      BY <3>2 DEF ExtractInv, Packets
  <2>4. QED
    BY <1>1, <1>2, <2>2, <2>3 DEF Packets, Arrives
<1>10. Rising'
  <2>1. SUFFICES ASSUME NEW p \in Nat, NEW q \in Nat, NEW g \in File, NEW a \in Nat, NEW b \in Nat,
                        Asks(p, g, a)', Asks(q, g, b)', a # 0, b # 0, p < q
                 PROVE  a < b
    BY DEF Rising
  <2>2. PICK r \in Nat : r = p + 1 /\ Asks(r, g, a)
    BY <1>8, <2>1
  <2>3. PICK t \in Nat : t = q + 1 /\ Asks(t, g, b)
    BY <1>8, <2>1
  <2>4. r < t
    BY <2>1, <2>2, <2>3
  <2>5. QED
    BY <2>1, <2>2, <2>3, <2>4 DEF ExtractInv, Rising
<1>11. Rest'
  <2>1. SUFFICES ASSUME NEW j \in DOMAIN workList, NEW p \in Nat, NEW a \in Nat, NEW b \in Nat,
                        Asks(p, workList[j].file, a)', a # 0, a < b, b <= workList'[j].next
                 PROVE  \E q \in Nat : p < q /\ Asks(q, workList[j].file, b)'
    BY DEF Rest, SameTickets
  <2>2. PICK g : /\ g = workList[j].file /\ g = workList'[j].file
                 /\ workList'[j].next = workList[j].next
    BY DEF SameTickets
  <2>3. Asks(p, g, a)'
    BY <2>1, <2>2 DEF Asks
  <2>4. Asks(p + 1, g, a) /\ p + 1 \in Nat
    BY <1>8, <2>3
  <2>5. PICK q \in Nat : p + 1 < q /\ Asks(q, g, b)
    <3>1. Asks(p + 1, workList[j].file, a) /\ b <= workList[j].next
      BY <2>1, <2>2, <2>4
    <3>2. \E q \in Nat : p + 1 < q /\ Asks(q, workList[j].file, b)
      BY <2>1, <2>4, <3>1 DEF ExtractInv, Rest
    <3>3. QED
      BY <2>2, <3>2
  <2>6. PICK r \in Nat : r # 0 /\ r + 1 = q /\ p < r
    <3>1. q - 1 \in Nat /\ q - 1 # 0 /\ (q - 1) + 1 = q /\ p < q - 1
      BY <2>5
    <3>2. QED
      BY <3>1
  <2>7. Asks(r, g, b)'
    BY <1>1, <2>5, <2>6 DEF Arrives
  <2>8. QED
    BY <2>2, <2>6, <2>7 DEF Asks
<1>12. SavedIsGood'
  <2>1. SUFFICES ASSUME NEW g \in File, NEW l \in Nat, Saved(g, l)'
                 PROVE  Good(g, l) /\ ~Due(g, l)' /\ l # 0 /\ Asked(g, l)
    BY <1>3 DEF SavedIsGood
  <2>2. CASE Saved(g, l)
    BY <1>5, <2>2 DEF ExtractInv, SavedIsGood
  <2>3. CASE g = f /\ l = k /\ l # 0 /\ Good(g, l)
    BY <1>1, <1>7, <2>3 DEF ExtractInv, Packets, Arrives
  <2>4. QED
    BY <1>4, <2>1, <2>2, <2>3
<1>13. GoodIsSaved'
  <2>1. SUFFICES ASSUME NEW j \in DOMAIN workList, NEW l \in 1 .. workList'[j].next,
                        Good(workList[j].file, l)', ~Due(workList[j].file, l)'
                 PROVE  Saved(workList[j].file, l)'
    BY DEF GoodIsSaved, SameTickets
  <2>2. PICK g \in File : /\ g = workList[j].file /\ g = workList'[j].file
                          /\ workList'[j].next = workList[j].next /\ workList[j].next \in Nat
    BY TicketFields DEF ExtractInv, SameTickets
  <2>3. Good(g, l) /\ ~Due(g, l)'
    <3>1. Good(g, l)' /\ ~Due(g, l)'
      BY <2>1, <2>2 DEF Good, Due, Asks
    <3>2. QED
      BY <1>3, <3>1
  <2>4. l \in Nat /\ l # 0 /\ l \in 1 .. workList[j].next
    BY <2>2
  <2>5. Saved(g, l)'
    <3>1. CASE Due(g, l)
      BY <1>4, <1>6, <2>3, <2>4, <3>1
    <3>2. CASE ~Due(g, l)
      <4>1. Saved(g, l)
        BY <2>2, <2>3, <2>4, <3>2 DEF ExtractInv, GoodIsSaved
      <4>2. QED
        BY <1>4, <2>4, <4>1
    <3>3. QED
      BY <3>1, <3>2
  <2>6. QED
    BY <2>2, <2>5 DEF Saved, HasBlock
<1>14. QED
  BY <1>9, <1>10, <1>11, <1>12, <1>13

-----------------------------------------------------------------------------
(* The writes. *)

\* The writes e are the writes d and more, each in turn.
Continues(d, e) == /\ IsPrefix(d, e)
                   /\ \A p \in Len(d) + 1 .. Len(e) : Promise!InTurn(e, p)

\* The blocks of two sequences of writes.
LEMMA HasJoined ==
    ASSUME NEW d \in Seq(Write), NEW e \in Seq(Write), NEW f, NEW k
    PROVE  HasBlock(d \o e, f, k) <=> HasBlock(d, f, k) \/ HasBlock(e, f, k)
<1>1. Elements(d \o e) = Elements(d) \cup Elements(e)
  BY JoinElements
<1>2. \A q : HasBlock(q, f, k) <=> \E w \in Elements(q) : w.file = f /\ w.block = k
  BY DEF HasBlock, Elements
<1>3. QED
  BY <1>1, <1>2

\* The blocks of a sequence and one more write.
LEMMA HasAppended ==
    ASSUME NEW d \in Seq(Write), NEW w \in Write, NEW f, NEW k
    PROVE  HasBlock(Append(d, w), f, k) <=> HasBlock(d, f, k) \/ (w.file = f /\ w.block = k)
<1>1. Elements(Append(d, w)) = Elements(d) \cup {w}
  BY AppendFacts
<1>2. \A q : HasBlock(q, f, k) <=> \E v \in Elements(q) : v.file = f /\ v.block = k
  BY DEF HasBlock, Elements
<1>3. QED
  BY <1>1, <1>2

\* The blocks written before the last write of a sequence, or before one that has
\* others behind it.
LEMMA BeforeAppended ==
    ASSUME NEW d \in Seq(Write), NEW w \in Write
    PROVE  /\ Promise!Before(Append(d, w), Len(d) + 1) = {d[q].block : q \in {p \in DOMAIN d : d[p].file = w.file}}
           /\ \A p \in DOMAIN d : Promise!Before(Append(d, w), p) = Promise!Before(d, p)
<1> DEFINE e == Append(d, w)
           n == Len(d)
<1>1. /\ n \in Nat /\ DOMAIN d = 1 .. n /\ e[n + 1] = w
      /\ \A p \in 1 .. n : e[p] = d[p]
  BY AppendFacts
<1> HIDE DEF e, n
<1>2. 1 .. (n + 1) - 1 = 1 .. n
  BY <1>1
<1>3. Promise!Before(e, n + 1) = {d[q].block : q \in {p \in 1 .. n : d[p].file = w.file}}
  BY <1>1, <1>2 DEF Promise!Before
<1>4. ASSUME NEW p \in 1 .. n PROVE Promise!Before(e, p) = Promise!Before(d, p)
  <2>1. \A q \in 1 .. p - 1 : q \in 1 .. n
    BY <1>1
  <2>2. e[p] = d[p] /\ \A q \in 1 .. p - 1 : e[q] = d[q]
    BY <1>1, <2>1
  <2>3. {q \in 1 .. p - 1 : e[q].file = e[p].file} = {q \in 1 .. p - 1 : d[q].file = d[p].file}
    BY <2>2
  <2>4. QED
    BY <2>2, <2>3 DEF Promise!Before
<1>5. QED
  BY <1>1, <1>3, <1>4 DEF e, n

\* The next block of the copy is written.
LEMMA OneMore ==
    ASSUME NEW d \in Seq(Write), NEW f \in File, NEW k \in 1 .. Blocks[f], Good(f, k),
           \A l \in Nat : HasBlock(d, f, l) <=> l \in 1 .. k - 1 /\ Good(f, l)
    PROVE  Continues(d, Append(d, [file |-> f, block |-> k]))
<1> DEFINE w == [file |-> f, block |-> k]
           e == Append(d, w)
           n == Len(d)
<1>1. Blocks[f] \in Nat /\ k \in Nat
  BY ExtractAssumption
<1>2. w \in Write /\ w.file = f /\ w.block = k
  BY <1>1 DEF Write
<1>3. /\ e \in Seq(Write) /\ Len(e) = n + 1 /\ n \in Nat /\ DOMAIN d = 1 .. n
      /\ \A p \in 1 .. n : e[p] = d[p]
      /\ e[n + 1] = w
  <2> HIDE DEF w
  <2>1. e \in Seq(Write) /\ Len(e) = n + 1 /\ n \in Nat
    BY <1>2
  <2>2. QED
    BY <1>2, <2>1, AppendFacts
<1> HIDE DEF e, n, w
<1>4. Copy(f) = {l \in 1 .. Blocks[f] : Good(f, l)}
  BY DEF Copy, Good
<1>5. \A p \in DOMAIN d : d[p].block \in Nat
  <2>1. \A p \in DOMAIN d : d[p] \in Write
    OBVIOUS
  <2>2. QED
    BY <2>1 DEF Write
<1>6. {d[q].block : q \in {p \in DOMAIN d : d[p].file = w.file}} = {l \in Copy(f) : l < k}
  <2>1. ASSUME NEW q \in DOMAIN d, d[q].file = f PROVE d[q].block \in Copy(f) /\ d[q].block < k
    <3>1. HasBlock(d, f, d[q].block) /\ d[q].block \in Nat
      BY <1>5, <2>1 DEF HasBlock
    <3>2. d[q].block \in 1 .. k - 1 /\ Good(f, d[q].block)
      BY <3>1
    <3>3. QED
      BY <1>1, <1>4, <3>2
  <2>2. ASSUME NEW l \in Copy(f), l < k PROVE \E q \in DOMAIN d : d[q].file = f /\ d[q].block = l
    <3>1. l \in 1 .. k - 1 /\ Good(f, l) /\ l \in Nat
      BY <1>1, <1>4, <2>2
    <3>2. QED
      BY <3>1 DEF HasBlock
  <2>3. QED
    BY <1>2, <2>1, <2>2
<1>7. Promise!Before(e, n + 1) = {l \in Copy(f) : l < k}
  BY <1>2, <1>6, BeforeAppended DEF e, n
<1>8. k \in Copy(f)
  BY <1>4
<1>9. Promise!InTurn(e, n + 1)
  BY <1>2, <1>3, <1>7, <1>8 DEF Promise!InTurn
<1>10. IsPrefix(d, e)
  <2>1. Len(d) <= Len(e)
    BY <1>3 DEF n
  <2>2. SubSeq(d, 1, Len(d)) = SubSeq(e, 1, Len(d))
    BY <1>3 DEF n
  <2>3. QED
    BY <2>1, <2>2 DEF IsPrefix
<1>11. \A p \in n + 1 .. Len(e) : p = n + 1
  BY <1>3
<1>12. QED
  BY <1>9, <1>10, <1>11 DEF Continues, e, n, w

\* A sequence of writes that stays as it is.
LEMMA ContinuesSelf ==
    ASSUME NEW d \in Seq(Write)
    PROVE  Continues(d, d)
<1>1. Len(d) \in Nat /\ Len(d) + 1 .. Len(d) = {}
  OBVIOUS
<1>2. IsPrefix(d, d)
  BY <1>1 DEF IsPrefix
<1>3. QED
  BY <1>1, <1>2 DEF Continues

\* A sequence is continued, and then by one more write.
LEMMA ContinuesTwice ==
    ASSUME NEW d \in Seq(Write), NEW e \in Seq(Write), NEW w \in Write,
           Continues(d, e), Continues(e, Append(e, w))
    PROVE  Continues(d, Append(e, w))
<1> DEFINE x == Append(e, w)
<1>1. /\ x \in Seq(Write) /\ Len(x) = Len(e) + 1 /\ Len(e) \in Nat /\ Len(d) \in Nat
      /\ DOMAIN e = 1 .. Len(e) /\ \A p \in 1 .. Len(e) : x[p] = e[p]
  BY AppendFacts
<1>2. Len(d) <= Len(e) /\ SubSeq(d, 1, Len(d)) = SubSeq(e, 1, Len(d))
  BY DEF Continues, IsPrefix
<1>3. IsPrefix(d, x)
  <2>1. SubSeq(e, 1, Len(d)) = SubSeq(x, 1, Len(d))
    <3>1. \A p \in 1 .. Len(d) : p \in 1 .. Len(e)
      BY <1>1, <1>2
    <3>2. \A p \in 1 .. Len(d) : x[p] = e[p]
      BY <1>1, <3>1
    <3> HIDE DEF x
    <3>3. QED
      BY <1>1, <1>2, <3>2
  <2>2. Len(d) <= Len(x)
    BY <1>1, <1>2
  <2>3. QED
    BY <1>2, <2>1, <2>2 DEF IsPrefix
<1>4. Promise!InTurn(x, Len(e) + 1)
  <2>1. Len(e) + 1 \in Len(e) + 1 .. Len(x)
    BY <1>1
  <2>2. QED
    BY <2>1 DEF Continues
<1>5. ASSUME NEW p \in Len(d) + 1 .. Len(e) PROVE Promise!InTurn(x, p)
  <2>1. p \in DOMAIN e /\ x[p] = e[p]
    BY <1>1
  <2>2. Promise!InTurn(e, p)
    BY DEF Continues
  <2>3. Promise!Before(x, p) = Promise!Before(e, p)
    BY <2>1, BeforeAppended
  <2> HIDE DEF x
  <2>4. QED
    BY <2>1, <2>2, <2>3 DEF Promise!InTurn
<1>6. \A p \in Len(d) + 1 .. Len(x) : p \in Len(d) + 1 .. Len(e) \/ p = Len(e) + 1
  BY <1>1
<1>7. QED
  BY <1>3, <1>4, <1>5, <1>6 DEF Continues

\* The blocks of no write, and of one.
LEMMA HasOne ==
    /\ \A f, k : ~HasBlock(<<>>, f, k)
    /\ \A w, f, k : HasBlock(<<w>>, f, k) <=> w.file = f /\ w.block = k
<1>1. DOMAIN <<>> = {}
  OBVIOUS
<1>2. \A w : DOMAIN <<w>> = {1} /\ <<w>>[1] = w
  OBVIOUS
<1>3. QED
  BY <1>1, <1>2 DEF HasBlock

\* What a stream holds, is one block of the file of its ticket, and the disk goes on with it.
LEMMA InStream ==
    ASSUME ExtractInv, NEW i \in DOMAIN streams, streams[i] # <<>>
    PROVE  \E v \in Nat, w \in Write :
              /\ i \in DOMAIN workList /\ Holds(i, v) /\ v # 0 /\ workList[i].next # 0
              /\ w = [file |-> workList[i].file, block |-> v] /\ streams[i] = <<w>>
              /\ disk \o streams[i] = Append(disk, w)
              /\ Continues(disk, Append(disk, w))
              /\ \A g, l : HasBlock(streams[i], g, l) <=> g = workList[i].file /\ l = v
<1>1. PICK v \in Nat : Holds(i, v)
  BY DEF ExtractInv, Kept
<1>2. i \in DOMAIN workList
  <2>1. /\ DOMAIN streams = 1 .. Len(streams) /\ DOMAIN workList = 1 .. Len(workList)
        /\ Len(streams) = Len(workList)
    BY DEF ExtractInv, TypeOK, Tickets
  <2>2. QED
    BY <2>1
<1>3. PICK f \in File, n \in Nat : /\ f = workList[i].file /\ n = workList[i].next
                                   /\ n <= Blocks[f] \/ n = 0
  <2>1. workList[i].file \in File /\ workList[i].next \in Nat /\ TicketRight(i)
    BY <1>2, TicketFields DEF ExtractInv, Tickets
  <2>2. /\ workList[i].next <= workList[i].size /\ workList[i].size \in Nat
        /\ workList[i].size = 0 \/ workList[i].size = Blocks[workList[i].file]
    BY <1>2, <2>1, TicketFields DEF ExtractInv, TicketRight, NoList, HasList
  <2>3. workList[i].next <= Blocks[workList[i].file] \/ workList[i].next = 0
    BY <2>1, <2>2
  <2>4. QED
    BY <2>1, <2>3
<1>4. /\ v \in 1 .. n /\ Good(f, v) /\ streams[i] = <<[file |-> f, block |-> v]>>
      /\ \A l \in Nat : HasBlock(disk, f, l) <=> l \in 1 .. v - 1 /\ Good(f, l)
  BY <1>1, <1>3 DEF Holds
<1>5. n # 0 /\ v # 0 /\ v \in 1 .. Blocks[f]
  <2>1. Blocks[f] \in Nat
    BY ExtractAssumption
  <2>2. QED
    BY <1>3, <1>4, <2>1
<1>6. PICK w \in Write : w = [file |-> f, block |-> v]
  BY DEF Write
<1>7. disk \in Seq(Write)
  BY DEF ExtractInv, TypeOK
<1>8. disk \o streams[i] = Append(disk, w)
  <2>1. disk \o <<w>> = Append(disk, w)
    BY <1>7
  <2>2. QED
    BY <1>4, <1>6, <2>1
<1>9. Continues(disk, Append(disk, w))
  BY <1>4, <1>5, <1>6, <1>7, OneMore
<1>10. \A g, l : HasBlock(streams[i], g, l) <=> g = f /\ l = v
  <2>1. w.file = f /\ w.block = v /\ streams[i] = <<w>>
    BY <1>4, <1>6
  <2>2. QED
    BY <2>1, HasOne
<1>11. QED
  BY <1>1, <1>2, <1>3, <1>4, <1>5, <1>6, <1>8, <1>9, <1>10

\* Two tickets of a file do not both have something in their streams.
LEMMA OtherStream ==
    ASSUME ExtractInv, NEW i \in DOMAIN workList, NEW j \in DOMAIN streams,
           workList[i].next # 0, streams[j] # <<>>, j # i
    PROVE  /\ workList[j].file # workList[i].file
           /\ \A l : ~HasBlock(streams[j], workList[i].file, l)
<1>1. PICK v \in Nat, w \in Write :
          /\ j \in DOMAIN workList /\ workList[j].next # 0
          /\ \A g, l : HasBlock(streams[j], g, l) <=> g = workList[j].file /\ l = v
  BY InStream
<1>2. workList[i].file # workList[j].file
  BY <1>1, OnlyFirst DEF ExtractInv
<1>3. QED
  BY <1>1, <1>2

\* Block k of f has come in, is genuine, and is written behind what the stream held.
LEMMA InstallFacts ==
    ASSUME ExtractInv, SameTickets, archive' = archive,
           NEW i \in DOMAIN workList, NEW f \in File, NEW k \in Nat, NEW w \in Write,
           f = workList[i].file, k # 0, k <= workList[i].next, Asks(1, f, k), Good(f, k),
           w = [file |-> f, block |-> k], Install(i, w)
    PROVE  /\ \A g, l : Saved(g, l)' <=> Saved(g, l) \/ (g = f /\ l = k)
           /\ Kept' /\ Continues(disk, disk')
           /\ streams' \in Seq(Seq(Write)) /\ disk' \in Seq(Write) /\ DOMAIN streams' = DOMAIN streams
           /\ Len(streams') = Len(streams)
<1>1. /\ streams \in Seq(Seq(Write)) /\ disk \in Seq(Write)
      /\ DOMAIN streams = 1 .. Len(streams) /\ DOMAIN workList = 1 .. Len(workList)
      /\ Len(streams) = Len(workList) /\ i \in DOMAIN streams
  BY DEF ExtractInv, TypeOK, Tickets
<1>2. PICK kept \in {<<>>, <<w>>} :
          /\ streams' = [streams EXCEPT ![i] = kept]
          /\ disk' = disk \o streams[i] \o (IF kept = <<>> THEN <<w>> ELSE <<>>)
  BY DEF Install
<1>3. /\ kept \in Seq(Write) /\ streams' \in Seq(Seq(Write)) /\ DOMAIN streams' = DOMAIN streams
      /\ Len(streams') = Len(streams)
      /\ streams'[i] = kept /\ \A j \in DOMAIN streams : j # i => streams'[j] = streams[j]
  <2>1. kept \in Seq(Write)
    <3>1. <<>> \in Seq(Write) /\ <<w>> \in Seq(Write)
      OBVIOUS
    <3>2. kept = <<>> \/ kept = <<w>>
      OBVIOUS
    <3>3. QED
      BY <3>1, <3>2
  <2>2. QED
    BY <1>1, <1>2, <2>1
<1>4. PICK e \in Seq(Write) : e = disk \o streams[i]
  <2>1. streams[i] \in Seq(Write)
    BY <1>1
  <2>2. QED
    BY <1>1, <2>1, JoinFacts
<1>5. \A g, l : HasBlock(e, g, l) <=> HasBlock(disk, g, l) \/ HasBlock(streams[i], g, l)
  <2>1. streams[i] \in Seq(Write)
    BY <1>1
  <2>2. QED
    BY <1>1, <1>4, <2>1, HasJoined
<1>6. w.file = f /\ w.block = k
  OBVIOUS
<1>7. k \in 1 .. Blocks[f]
  <2>1. workList[i].next \in Nat /\ workList[i].size \in Nat /\ TicketRight(i) /\ Blocks[f] \in Nat
    BY TicketFields, ExtractAssumption DEF ExtractInv, Tickets
  <2>2. /\ workList[i].next <= workList[i].size
        /\ workList[i].size = 0 \/ workList[i].size = Blocks[f]
    BY <2>1 DEF TicketRight, NoList, HasList
  <2>3. QED
    BY <2>1, <2>2
<1>8. workList[i].next # 0
  BY TicketFields DEF ExtractInv
<1>9. Continues(disk, e)
  <2>1. CASE streams[i] = <<>>
    <3>1. disk \o <<>> = disk
      BY <1>1
    <3>2. QED
      BY <1>1, <1>4, <2>1, <3>1, ContinuesSelf
  <2>2. CASE streams[i] # <<>>
    <3>1. PICK v \in Write : disk \o streams[i] = Append(disk, v) /\ Continues(disk, Append(disk, v))
      BY <1>1, <2>2, InStream
    <3>2. QED
      BY <1>4, <3>1
  <2>3. QED
    BY <2>1, <2>2
<1>10. \A l \in Nat : HasBlock(e, f, l) <=> l \in 1 .. k - 1 /\ Good(f, l)
  <2>1. SUFFICES ASSUME NEW l \in Nat
                 PROVE  HasBlock(e, f, l) <=> Saved(f, l)
    BY SavedSoFar
  <2>2. ASSUME NEW j \in DOMAIN streams, HasBlock(streams[j], f, l)
        PROVE  j = i
    <3>1. SUFFICES ASSUME j # i PROVE FALSE
      OBVIOUS
    <3>2. streams[j] # <<>>
      BY <2>2, HasOne
    <3>3. QED
      BY <1>8, <2>2, <3>1, <3>2, OtherStream
  <2>3. QED
    BY <1>1, <1>5, <2>2 DEF Saved
<1>11. PICK x \in Seq(Write) : x = disk' /\ x = IF kept = <<>> THEN Append(e, w) ELSE e
  <2>1. /\ e \o <<w>> = Append(e, w) /\ e \o <<>> = e
        /\ Append(e, w) \in Seq(Write)
    OBVIOUS
  <2>2. QED
    BY <1>2, <1>4, <2>1
<1>12. Continues(disk, disk')
  <2>1. CASE kept = <<>>
    <3>1. Continues(e, Append(e, w))
      BY <1>7, <1>10, OneMore
    <3>2. Continues(disk, Append(e, w))
      BY <1>1, <1>9, <3>1, ContinuesTwice
    <3>3. QED
      BY <1>11, <2>1, <3>2
  <2>2. CASE kept # <<>>
    BY <1>9, <1>11, <2>2
  <2>3. QED
    BY <2>1, <2>2
<1>13. \A g, l : HasBlock(kept, g, l) <=> kept # <<>> /\ g = f /\ l = k
  <2>1. kept = <<>> \/ kept = <<w>>
    OBVIOUS
  <2>2. <<w>> # <<>>
    OBVIOUS
  <2>3. QED
    BY <1>6, <2>1, <2>2, HasOne
<1>14. \A g, l : HasBlock(x, g, l) <=> HasBlock(e, g, l) \/ (kept = <<>> /\ g = f /\ l = k)
  <2>1. CASE kept = <<>>
    BY <1>6, <1>11, <2>1, HasAppended
  <2>2. CASE kept # <<>>
    BY <1>11, <2>2
  <2>3. QED
    BY <2>1, <2>2
<1>15. \A g, l : Saved(g, l)' <=> Saved(g, l) \/ (g = f /\ l = k)
  <2>1. SUFFICES ASSUME NEW g, NEW l PROVE Saved(g, l)' <=> Saved(g, l) \/ (g = f /\ l = k)
    OBVIOUS
  <2>2. Saved(g, l)' <=> \/ HasBlock(x, g, l)
                         \/ HasBlock(kept, g, l)
                         \/ \E j \in DOMAIN streams : j # i /\ HasBlock(streams[j], g, l)
    <3>1. Saved(g, l)' <=> HasBlock(x, g, l) \/ \E j \in DOMAIN streams' : HasBlock(streams'[j], g, l)
      BY <1>11 DEF Saved, HasBlock
    <3>2. QED
      BY <1>1, <1>3, <3>1
  <2>3. Saved(g, l) <=> \/ HasBlock(disk, g, l)
                        \/ HasBlock(streams[i], g, l)
                        \/ \E j \in DOMAIN streams : j # i /\ HasBlock(streams[j], g, l)
    BY <1>1 DEF Saved
  <2>4. QED
    BY <1>5, <1>13, <1>14, <2>2, <2>3
<1>16. Kept'
  <2>1. SUFFICES ASSUME NEW j \in DOMAIN streams, streams'[j] # <<>>
                 PROVE  \E v \in Nat : Holds(j, v)'
    BY <1>3 DEF Kept
  <2>2. CASE j = i
    <3>1. kept = <<w>> /\ kept # <<>> /\ x = e
      BY <1>3, <1>11, <2>1, <2>2
    <3>2. PICK n \in Nat : n = workList[i].next /\ n = workList'[i].next /\ workList'[i].file = f
      BY TicketFields DEF ExtractInv, SameTickets
    <3>3. k \in 1 .. n
      BY <3>2
    <3>4. streams'[i] = <<[file |-> f, block |-> k]>>
      BY <1>3, <3>1
    <3>5. /\ Good(f, k)'
          /\ \A l \in Nat : HasBlock(disk, f, l)' <=> l \in 1 .. k - 1 /\ Good(f, l)'
      <4>1. \A l : /\ Good(f, l)' <=> Good(f, l)
                   /\ HasBlock(disk, f, l)' <=> HasBlock(x, f, l)
        BY <1>11 DEF Good, HasBlock
      <4>2. QED
        BY <1>10, <3>1, <4>1
    <3>6. Holds(i, k)'
      <4>1. /\ Good(workList[i].file, k)'
            /\ \A l \in Nat : HasBlock(disk, workList[i].file, l)' <=> l \in 1 .. k - 1 /\ Good(workList[i].file, l)'
        BY <3>2, <3>5 DEF Good, HasBlock
      <4>2. QED
        BY <3>2, <3>3, <3>4, <4>1 DEF Holds, Good, HasBlock
    <3>7. QED
      BY <2>2, <3>6
  <2>3. CASE j # i
    <3>1. streams'[j] = streams[j] /\ streams[j] # <<>>
      BY <1>3, <2>1, <2>3
    <3>2. PICK v \in Nat : j \in DOMAIN workList /\ Holds(j, v)
      BY <3>1, InStream
    <3>3. workList[j].file # f
      BY <1>8, <2>3, <3>1, OtherStream
    <3>4. PICK g \in File, n \in Nat : /\ g = workList[j].file /\ g = workList'[j].file
                              /\ n = workList[j].next /\ n = workList'[j].next /\ g # f
      BY <3>2, <3>3, TicketFields DEF ExtractInv, SameTickets
    <3>5. \A l : ~HasBlock(streams[i], g, l)
      <4>1. SUFFICES ASSUME NEW l, HasBlock(streams[i], g, l) PROVE FALSE
        OBVIOUS
      <4>2. streams[i] # <<>>
        BY <4>1, HasOne
      <4>3. g = workList[i].file
        BY <1>1, <4>1, <4>2, InStream
      <4>4. QED
        BY <3>4, <4>3
    <3>6. \A l : HasBlock(x, g, l) <=> HasBlock(disk, g, l)
      BY <1>5, <1>14, <3>4, <3>5
    <3>7. /\ streams[j] = <<[file |-> g, block |-> v]>>
          /\ v \in 1 .. n /\ Good(g, v)
          /\ \A l \in Nat : HasBlock(disk, g, l) <=> l \in 1 .. v - 1 /\ Good(g, l)
      BY ONLY <3>2, <3>4 DEF Holds
    <3>8. Holds(j, v)'
      <4>1. \A l : /\ Good(g, l)' <=> Good(g, l)
                   /\ HasBlock(disk, g, l)' <=> HasBlock(x, g, l)
        BY <1>11 DEF Good, HasBlock
      <4>2. /\ Good(g, v)'
            /\ \A l \in Nat : HasBlock(disk, g, l)' <=> l \in 1 .. v - 1 /\ Good(g, l)'
        BY <3>6, <3>7, <4>1
      <4>3. /\ Good(workList[j].file, v)'
            /\ \A l \in Nat : HasBlock(disk, workList[j].file, l)' <=> l \in 1 .. v - 1 /\ Good(workList[j].file, l)'
        BY <3>4, <4>2 DEF Good, HasBlock
      <4>4. streams'[j] = <<[file |-> workList'[j].file, block |-> v]>> /\ v \in 1 .. workList'[j].next
        BY <3>1, <3>4, <3>7
      <4>5. QED
        BY <4>3, <4>4 DEF Holds, Good, HasBlock
    <3>9. QED
      BY <3>8
  <2>4. QED
    BY <2>2, <2>3
<1>17. QED
  BY <1>3, <1>11, <1>12, <1>15, <1>16

\* At the exit a stream is flushed.
LEMMA FlushAction ==
    ASSUME ExtractInv, ExitFlush
    PROVE  /\ Most' /\ Continues(disk, disk')
           /\ streams' \in Seq(Seq(Write)) /\ disk' \in Seq(Write) /\ DOMAIN streams' = DOMAIN streams
<1>1. /\ UNCHANGED <<workList, archive, sealed, key, closing, scanning, pc>>
      /\ UNCHANGED <<toClient, toServer, outBuf>>
  BY DEF ExitFlush, clientVars, archiveVars, wireVars
<1>2. PICK i \in DOMAIN streams : /\ streams[i] # <<>> /\ disk' = disk \o streams[i]
                                  /\ streams' = [streams EXCEPT ![i] = <<>>]
  BY DEF ExitFlush
<1>3. /\ streams \in Seq(Seq(Write)) /\ disk \in Seq(Write)
  BY DEF ExtractInv, TypeOK
<1>4. PICK v \in Nat, w \in Write :
          /\ i \in DOMAIN workList /\ workList[i].next # 0
          /\ w = [file |-> workList[i].file, block |-> v]
          /\ disk \o streams[i] = Append(disk, w)
          /\ Continues(disk, Append(disk, w))
          /\ \A g, l : HasBlock(streams[i], g, l) <=> g = workList[i].file /\ l = v
  BY <1>2, InStream
<1>5. /\ streams' \in Seq(Seq(Write)) /\ DOMAIN streams' = DOMAIN streams
      /\ Len(streams') = Len(streams)
      /\ streams'[i] = <<>> /\ \A j \in DOMAIN streams : j # i => streams'[j] = streams[j]
  <2>1. <<>> \in Seq(Write)
    OBVIOUS
  <2>2. QED
    BY <1>2, <1>3, <2>1
<1>6. PICK x \in Seq(Write) : x = disk' /\ x = Append(disk, w)
  <2>1. Append(disk, w) \in Seq(Write)
    BY <1>3
  <2>2. QED
    BY <1>2, <1>4, <2>1
<1>7. \A g, l : HasBlock(x, g, l) <=> HasBlock(disk, g, l) \/ HasBlock(streams[i], g, l)
  <2>1. w.file = workList[i].file /\ w.block = v
    BY <1>4
  <2>2. QED
    BY <1>3, <1>4, <1>6, <2>1, HasAppended
<1>8. \A g, l : Saved(g, l)' <=> Saved(g, l)
  <2>1. SUFFICES ASSUME NEW g, NEW l PROVE Saved(g, l)' <=> Saved(g, l)
    OBVIOUS
  <2>2. Saved(g, l)' <=> \/ HasBlock(x, g, l)
                         \/ \E j \in DOMAIN streams : j # i /\ HasBlock(streams[j], g, l)
    <3>1. Saved(g, l)' <=> HasBlock(x, g, l) \/ \E j \in DOMAIN streams' : HasBlock(streams'[j], g, l)
      BY <1>6 DEF Saved, HasBlock
    <3>2. ~HasBlock(streams'[i], g, l)
      BY <1>5, HasOne
    <3>3. QED
      BY <1>2, <1>5, <3>1, <3>2
  <2>3. Saved(g, l) <=> \/ HasBlock(disk, g, l)
                        \/ HasBlock(streams[i], g, l)
                        \/ \E j \in DOMAIN streams : j # i /\ HasBlock(streams[j], g, l)
    BY <1>2 DEF Saved
  <2>4. QED
    BY <1>7, <2>2, <2>3
<1>9. Kept'
  <2>1. SUFFICES ASSUME NEW j \in DOMAIN streams, streams'[j] # <<>>
                 PROVE  \E u \in Nat : Holds(j, u)'
    BY <1>5 DEF Kept
  <2>2. j # i /\ streams'[j] = streams[j] /\ streams[j] # <<>>
    BY <1>5, <2>1
  <2>3. PICK u \in Nat : j \in DOMAIN workList /\ Holds(j, u)
    BY <2>2, InStream
  <2>4. workList[j].file # workList[i].file
    BY <1>4, <2>2, OtherStream
  <2>5. PICK g : g = workList[j].file /\ g = workList'[j].file
    BY <1>1
  <2>6. \A l : HasBlock(x, g, l) <=> HasBlock(disk, g, l)
    BY <1>4, <1>7, <2>4, <2>5
  <2>7. /\ streams[j] = <<[file |-> g, block |-> u]>>
        /\ u \in 1 .. workList[j].next /\ Good(g, u)
        /\ \A l \in Nat : HasBlock(disk, g, l) <=> l \in 1 .. u - 1 /\ Good(g, l)
    BY ONLY <2>3, <2>5 DEF Holds
  <2>8. \A l : /\ Good(g, l)' <=> Good(g, l)
               /\ HasBlock(disk, g, l)' <=> HasBlock(x, g, l)
    BY <1>1, <1>6 DEF Good, HasBlock
  <2>9. /\ Good(g, u)'
        /\ \A l \in Nat : HasBlock(disk, g, l)' <=> l \in 1 .. u - 1 /\ Good(g, l)'
    BY <2>6, <2>7, <2>8
  <2>10. /\ Good(workList[j].file, u)'
         /\ \A l \in Nat : HasBlock(disk, workList[j].file, l)' <=> l \in 1 .. u - 1 /\ Good(workList[j].file, l)'
    BY <2>5, <2>9 DEF Good, HasBlock
  <2>11. streams'[j] = <<[file |-> workList'[j].file, block |-> u]>> /\ u \in 1 .. workList'[j].next
    BY <1>1, <2>2, <2>5, <2>7
  <2>12. Holds(j, u)'
    BY <2>10, <2>11 DEF Holds, Good, HasBlock
  <2>13. QED
    BY <2>12
<1>10. Tickets' /\ SameTickets /\ SameLists
  <2>1. Len(workList') = Len(workList) /\ DOMAIN workList' = DOMAIN workList
    BY <1>1
  <2>2. \A j \in DOMAIN workList : TicketRight(j)' <=> TicketRight(j)
    BY <1>1 DEF TicketRight, HasList, NoList, Opens, Good
  <2>3. QED
    BY <1>1, <1>5, <2>1, <2>2 DEF ExtractInv, Tickets, SameTickets, SameLists
<1>11. /\ \A p, f, k : Asks(p, f, k)' <=> Asks(p, f, k)
       /\ \A p : Parts(p)' <=> Parts(p)
  BY <1>1 DEF Asks, Parts, Flight
<1>12. \A f, k : /\ Due(f, k)' <=> Due(f, k)
                 /\ Good(f, k)' <=> Good(f, k)
                 /\ Asked(f, k)' <=> Asked(f, k)
  BY <1>1, <1>11 DEF Due, Good, Asked
<1>13. Packets'
  <2>1. \A m \in Elements(toClient') : AnswerTrue(m)'
    BY <1>1, SameAnswers
  <2>2. QED
    BY <1>1, <1>11, <1>12, <2>1 DEF ExtractInv, Packets
<1>14. Rising'
  BY <1>11 DEF ExtractInv, Rising
<1>15. Rest'
  BY <1>1, <1>11 DEF ExtractInv, Rest
<1>16. SavedIsGood'
  BY <1>8, <1>12 DEF ExtractInv, SavedIsGood
<1>17. GoodIsSaved'
  BY <1>1, <1>8, <1>12 DEF ExtractInv, GoodIsSaved
<1>18. ListComes'
  BY <1>1, <1>10, <1>12, QuietLists
<1>19. Continues(disk, disk')
  BY <1>4, <1>6
<1>20. QED
  BY <1>5, <1>6, <1>9, <1>10, <1>13, <1>14, <1>15, <1>16, <1>17, <1>18, <1>19 DEF Most, Core

\* An answer without data, or one that ends the loop.
LEMMA UselessAction ==
    ASSUME ExtractInv, NEW i \in DOMAIN workList,
           ReceiveNothing(i) \/ ReceiveSealed(i) \/ ReceiveAborts(i)
    PROVE  Most'
<1>1. /\ Receives(i) /\ UNCHANGED <<workList, streams, disk>>
      /\ UNCHANGED <<scanning, archive, sealed, key>>
  BY DEF ReceiveNothing, ReceiveSealed, ReceiveAborts, Receives, fileVars, archiveVars
<1>2. PICK f \in File, k \in Nat : Arrives(i, f, k)
  BY <1>1, Incoming
<1>3. Tickets' /\ SameTickets /\ SameLists
  BY <1>1, QuietTickets
<1>4. workList[i].size \in Nat /\ workList[i].next \in Nat /\ workList[i].next <= workList[i].size
  BY TicketFields DEF ExtractInv, Tickets, TicketRight
<1>5. \/ ReceiveNothing(i) /\ ~Good(f, k)
      \/ k = 0 /\ pc' \notin {"loop", "fill"}
  <2>1. CASE ReceiveNothing(i)
    <3>1. k <= workList[i].size
      BY <1>2, <1>4 DEF Arrives
    <3>2. Answer.obj = "none"
      BY <1>2, <2>1, <3>1 DEF ReceiveNothing, Usable, Arrives
    <3>3. QED
      BY <1>2, <2>1, <3>2 DEF Arrives, Good
  <2>2. CASE ReceiveSealed(i)
    BY <1>2, <2>2 DEF ReceiveSealed, Arrives, HasList
  <2>3. CASE ReceiveAborts(i)
    BY <1>2, <2>3 DEF ReceiveAborts, Arrives
  <2>4. QED
    BY <2>1, <2>2, <2>3
<1>6. \A g, l : /\ Saved(g, l)' <=> Saved(g, l)
                /\ Good(g, l)' <=> Good(g, l)
  BY <1>1 DEF Saved, HasBlock, Good
<1>7. \A g \in File, l \in Nat : Saved(g, l)' <=>
          Saved(g, l) \/ (g = Answer.file /\ l = Answer.block /\ l # 0 /\ Good(g, l))
  <2>1. f = Answer.file /\ k = Answer.block
    BY <1>2 DEF Arrives
  <2>2. QED
    BY <1>5, <1>6, <2>1
<1>8. Packets' /\ Rising' /\ Rest' /\ SavedIsGood' /\ GoodIsSaved'
  BY <1>1, <1>3, <1>7, Received
<1>9. Kept'
  BY <1>1, <1>3, KeptStays
<1>10. ListComes'
  <2>1. CASE pc' \notin {"loop", "fill"}
    BY <2>1 DEF ListComes
  <2>2. CASE ReceiveNothing(i) /\ ~Good(f, k)
    <3>1. \A g \in File : Good(g, 0) /\ Due(g, 0) => Due(g, 0)'
      <4>1. \A g \in File, l \in Nat : Due(g, l) => Due(g, l)' \/ (g = f /\ l = k)
        BY <1>2 DEF Arrives
      <4>2. 0 \in Nat
        OBVIOUS
      <4>3. QED
        BY <2>2, <4>1, <4>2
    <3>2. pc' = pc
      BY <2>2 DEF ReceiveNothing
    <3>3. QED
      BY <1>1, <1>3, <3>1, <3>2, QuietLists
  <2>3. QED
    BY <1>5, <2>1, <2>2
<1>11. QED
  BY <1>3, <1>8, <1>9, <1>10 DEF Most, Core

\* The list of a ticket comes in.
LEMMA ListAction ==
    ASSUME ExtractInv, NEW i \in DOMAIN workList, ReceiveList(i)
    PROVE  Most' /\ workList' \in Seq(Ticket) /\ DOMAIN workList' = DOMAIN workList
<1>1. /\ Receives(i) /\ UNCHANGED <<streams, disk>>
      /\ UNCHANGED <<scanning, archive, sealed, key>>
      /\ ~scanning /\ Opens
      /\ Answer.block = 0 /\ Answer.obj = "good"
      /\ \A j \in 1 .. i - 1 : workList[j].file # workList[i].file
  BY DEF ReceiveList, Receives, fileVars, archiveVars
<1>2. PICK f \in File : Arrives(i, f, 0)
  <2>1. PICK f \in File, k \in Nat : Arrives(i, f, k)
    BY <1>1, Incoming
  <2>2. k = 0
    BY <1>1, <2>1 DEF Arrives
  <2>3. QED
    BY <2>1, <2>2
<1>3. PICK n \in Nat : /\ n = Blocks[f] /\ n # 0 /\ workList[i].next < n
                       /\ workList' = [workList EXCEPT ![i] = [workList[i] EXCEPT !.size = n,
                                                       !.status = "SendingBlockRequests"]]
  <2>1. Blocks[f] \in Nat /\ Blocks[f] # 0 /\ f = Answer.file
    BY <1>2, ExtractAssumption DEF Arrives
  <2>2. /\ workList[i].next < Blocks[f]
        /\ workList' = [workList EXCEPT ![i] = [workList[i] EXCEPT !.size = Blocks[f],
                                                       !.status = "SendingBlockRequests"]]
    BY <2>1, Zenon DEF ReceiveList, WtAssert
  <2>3. QED
    BY <2>1, <2>2, Zenon
<1>4. workList \in Seq(Ticket) /\ workList[i] \in Ticket
  BY DEF ExtractInv, TypeOK
<1>5. /\ workList' \in Seq(Ticket) /\ DOMAIN workList' = DOMAIN workList
      /\ Len(workList') = Len(workList)
      /\ \A j \in DOMAIN workList : j # i => workList'[j] = workList[j]
      /\ workList'[i] = [workList[i] EXCEPT !.size = n, !.status = "SendingBlockRequests"]
  <2>1. [workList[i] EXCEPT !.size = n, !.status = "SendingBlockRequests"] \in Ticket
    BY <1>4 DEF Ticket, Status
  <2>2. QED
    BY <1>3, <1>4, <2>1
<1>6. /\ workList'[i].file = workList[i].file /\ workList'[i].next = workList[i].next
      /\ workList'[i].size = n /\ workList'[i].status = "SendingBlockRequests"
      /\ workList'[i].fp = workList[i].fp /\ workList'[i].moved = workList[i].moved
  BY <1>4, <1>5 DEF Ticket
<1>7. SameTickets
  BY <1>5, <1>6 DEF SameTickets
<1>8. f = workList[i].file /\ Good(f, 0)
  BY <1>1, <1>2 DEF Arrives, Good
<1>9. \A g, l : /\ Saved(g, l)' <=> Saved(g, l)
                /\ Good(g, l)' <=> Good(g, l)
  BY <1>1 DEF Saved, HasBlock, Good
<1>10. Packets' /\ Rising' /\ Rest' /\ SavedIsGood' /\ GoodIsSaved'
  <2>1. \A g \in File, l \in Nat : Saved(g, l)' <=>
          Saved(g, l) \/ (g = Answer.file /\ l = Answer.block /\ l # 0 /\ Good(g, l))
    BY <1>1, <1>9
  <2>2. QED
    BY <1>1, <1>7, <2>1, Received
<1>11. Kept'
  BY <1>1, <1>7, KeptStays
<1>12. Tickets'
  <2>1. TicketRight(i)'
    <3>1. TicketRight(i) /\ workList[i].next \in Nat
      BY TicketFields DEF ExtractInv, Tickets
    <3>2. workList'[i].fp = i /\ workList'[i].moved <= 0 /\ workList'[i].next <= workList'[i].size
      BY <1>3, <1>6, <3>1 DEF TicketRight
    <3>3. HasList(workList[i])'
      <4>1. Opens' /\ ~scanning' /\ archive' = archive
        BY <1>1 DEF Opens
      <4>2. workList'[i].size = Blocks[workList'[i].file] /\ workList'[i].file = f
        BY <1>3, <1>6, <1>8
      <4>3. QED
        BY <1>6, <1>8, <4>1, <4>2 DEF HasList, Good
    <3>4. \A j \in 1 .. i - 1 : workList'[j].file # workList'[i].file
      <4>1. \A j \in 1 .. i - 1 : j \in DOMAIN workList
        BY TicketFields DEF ExtractInv
      <4>2. \A j \in DOMAIN workList : workList'[j].file = workList[j].file
        BY <1>7 DEF SameTickets
      <4>3. QED
        BY <1>1, <4>1, <4>2
    <3>5. QED
      BY <1>6, <3>2, <3>3, <3>4 DEF TicketRight
  <2>2. ASSUME NEW j \in DOMAIN workList, j # i PROVE TicketRight(j)'
    <3>1. TicketRight(j)
      BY DEF ExtractInv, Tickets
    <3>2. workList'[j] = workList[j]
      BY <1>5, <2>2
    <3>3. HasList(workList[j]) => HasList(workList[j])'
      BY <1>1, <3>2 DEF HasList, Good, Opens
    <3>4. \A m \in 1 .. j - 1 : workList'[m].file = workList[m].file
      <4>1. \A m \in 1 .. j - 1 : m \in DOMAIN workList
        BY TicketFields DEF ExtractInv
      <4>2. QED
        BY <1>7, <4>1 DEF SameTickets
    <3>5. QED
      BY <3>1, <3>2, <3>3, <3>4 DEF TicketRight, NoList
  <2>3. Len(streams') = Len(workList')
    BY <1>1, <1>5 DEF ExtractInv, Tickets
  <2>4. QED
    BY <1>5, <2>1, <2>2, <2>3 DEF Tickets
<1>13. ListComes'
  <2>1. SUFFICES ASSUME NEW j \in DOMAIN workList', Good(workList[j].file, 0)', pc \in {"loop", "fill"}
                 PROVE  \/ Due(workList[j].file, 0)'
                        \/ \E m \in DOMAIN workList' :
                              workList'[m].file = workList'[j].file /\ workList'[m].size # 0
    BY DEF ListComes, ReceiveList
  <2>2. PICK g \in File : g = workList[j].file /\ g = workList'[j].file /\ j \in DOMAIN workList
    BY <1>5, <1>7, TicketFields DEF ExtractInv, SameTickets
  <2>3. CASE g = f
    BY <1>3, <1>5, <1>6, <1>8, <2>2, <2>3
  <2>4. CASE g # f
    <3>1. Good(g, 0)
      BY <1>1, <2>1, <2>2 DEF Good
    <3>2. CASE Due(g, 0)
      <4>1. Due(g, 0)'
        BY <1>2, <2>4, <3>2 DEF Arrives
      <4>2. QED
        BY <2>2, <4>1 DEF Due, Asks
    <3>3. CASE \E m \in DOMAIN workList : workList[m].file = g /\ workList[m].size # 0
      <4>1. PICK m \in DOMAIN workList : workList[m].file = g /\ workList[m].size # 0
        BY <3>3
      <4>2. m # i /\ workList'[m] = workList[m]
        BY <1>5, <1>8, <2>4, <4>1
      <4>3. QED
        BY <1>5, <2>2, <4>1, <4>2
    <3>4. QED
      BY <2>1, <2>2, <3>1, <3>2, <3>3 DEF ExtractInv, ListComes
  <2>5. QED
    BY <2>3, <2>4
<1>14. QED
  BY <1>5, <1>10, <1>11, <1>12, <1>13 DEF Most, Core

\* A block comes in, and is installed if it is genuine.
LEMMA BlockAction ==
    ASSUME ExtractInv, NEW i \in DOMAIN workList, ReceiveBlock(i)
    PROVE  /\ Most' /\ Continues(disk, disk')
           /\ workList' \in Seq(Ticket) /\ DOMAIN workList' = DOMAIN workList
           /\ \A j \in DOMAIN workList : workList'[j].fp = workList[j].fp
           /\ \A j \in DOMAIN workList : workList'[j].status = workList[j].status
           /\ streams' \in Seq(Seq(Write)) /\ disk' \in Seq(Write)
           /\ DOMAIN streams' = DOMAIN streams
<1> DEFINE t == [workList[i] EXCEPT !.moved = @ - 1]
<1>1. /\ Receives(i) /\ UNCHANGED <<scanning, archive, sealed, key, pc>>
      /\ Answer.block # 0
      /\ IF Genuine(Answer.obj)
         THEN /\ Install(t.fp, [file |-> t.file, block |-> Answer.block])
              /\ workList' = IF Done(t) THEN RemoveAt(workList, i)
                             ELSE [workList EXCEPT ![i] = t]
         ELSE /\ workList' = [workList EXCEPT ![i] = t]
              /\ UNCHANGED fileVars
  BY DEF ReceiveBlock, Receives, archiveVars
<1>2. PICK f \in File, k \in Nat : Arrives(i, f, k) /\ k # 0 /\ k = Answer.block
  <2>1. PICK f \in File, k \in Nat : Arrives(i, f, k)
    BY <1>1, Incoming
  <2>2. k = Answer.block
    BY <2>1 DEF Arrives
  <2>3. QED
    BY <1>1, <2>1, <2>2
<1>3. /\ workList \in Seq(Ticket) /\ workList[i] \in Ticket
      /\ streams \in Seq(Seq(Write)) /\ disk \in Seq(Write)
  BY DEF ExtractInv, TypeOK
<1>4. /\ t \in Ticket /\ t.file = workList[i].file /\ t.status = workList[i].status
      /\ t.size = workList[i].size /\ t.next = workList[i].next /\ t.fp = workList[i].fp
      /\ t.moved = workList[i].moved - 1
  <2>1. ASSUME NEW x \in Ticket
        PROVE  /\ [x EXCEPT !.moved = x.moved - 1] \in Ticket
               /\ [x EXCEPT !.moved = x.moved - 1].moved = x.moved - 1
               /\ \A a \in {"file", "status", "size", "next", "fp"} :
                     [x EXCEPT !.moved = x.moved - 1][a] = x[a]
    BY <2>1 DEF Ticket
  <2>2. QED
    BY <1>3, <2>1
<1>5. TicketRight(i) /\ workList[i].moved \in Int
  BY TicketFields DEF ExtractInv, Tickets
<1>6. t.moved < 0 /\ ~Done(t) /\ t.fp = i
  <2>1. workList[i].moved <= 0 /\ workList[i].fp = i
    BY <1>5 DEF TicketRight
  <2>2. t.moved < 0
    BY <1>4, <1>5, <2>1
  <2>3. t.moved # 0
    BY <2>2
  <2>4. QED
    BY <1>4, <2>1, <2>2, <2>3 DEF Done
<1>7. PICK u \in Ticket :
          /\ workList' = [workList EXCEPT ![i] = u]
          /\ u.file = f /\ u.status = workList[i].status /\ u.moved < 0
          /\ u.size = workList[i].size /\ u.next = workList[i].next /\ u.fp = workList[i].fp
          /\ Genuine(Answer.obj) => Install(i, [file |-> f, block |-> k])
          /\ ~Genuine(Answer.obj) => UNCHANGED <<streams, disk>>
  <2>1. f = workList[i].file
    BY <1>2 DEF Arrives
  <2>2. workList' = [workList EXCEPT ![i] = t]
    BY <1>1, <1>6
  <2>3. Genuine(Answer.obj) => Install(i, [file |-> f, block |-> k])
    BY <1>1, <1>2, <1>4, <1>6, <2>1
  <2>4. ~Genuine(Answer.obj) => UNCHANGED <<streams, disk>>
    BY <1>1 DEF fileVars
  <2> HIDE DEF t
  <2>5. QED
    BY <1>4, <1>6, <2>1, <2>2, <2>3, <2>4
<1>8. /\ workList' \in Seq(Ticket) /\ DOMAIN workList' = DOMAIN workList
      /\ Len(workList') = Len(workList)
      /\ \A j \in DOMAIN workList : j # i => workList'[j] = workList[j]
      /\ workList'[i] = u
  BY <1>3, <1>7
<1>9. f = workList[i].file
  BY <1>2 DEF Arrives
<1>10. SameTickets /\ SameLists
  BY <1>7, <1>8, <1>9 DEF SameTickets, SameLists
<1>11. Genuine(Answer.obj) <=> Good(f, k)
  BY <1>2 DEF Genuine, Good, Arrives
<1>12. /\ \A g \in File, l \in Nat : Saved(g, l)' <=> Saved(g, l) \/ (g = f /\ l = k /\ Good(g, l))
       /\ Kept' /\ Continues(disk, disk')
       /\ streams' \in Seq(Seq(Write)) /\ disk' \in Seq(Write) /\ DOMAIN streams' = DOMAIN streams
       /\ Len(streams') = Len(streams)
  <2>1. CASE Good(f, k)
    <3>1. PICK w \in Write : w = [file |-> f, block |-> k]
      BY DEF Write
    <3>2. Install(i, w)
      BY <1>7, <1>11, <2>1, <3>1
    <3>3. k <= workList[i].next /\ Asks(1, f, k)
      BY <1>2 DEF Arrives
    <3>4. /\ \A g, l : Saved(g, l)' <=> Saved(g, l) \/ (g = f /\ l = k)
          /\ Kept' /\ Continues(disk, disk')
          /\ streams' \in Seq(Seq(Write)) /\ disk' \in Seq(Write) /\ DOMAIN streams' = DOMAIN streams
          /\ Len(streams') = Len(streams)
      BY <1>1, <1>2, <1>9, <1>10, <2>1, <3>1, <3>2, <3>3, InstallFacts
    <3>5. QED
      BY <2>1, <3>4
  <2>2. CASE ~Good(f, k)
    <3>1. UNCHANGED <<streams, disk>>
      BY <1>7, <1>11, <2>2
    <3>2. Kept'
      BY <1>1, <1>10, <3>1, KeptStays
    <3>3. Continues(disk, disk')
      BY <1>3, <3>1, ContinuesSelf
    <3>4. \A g, l : Saved(g, l)' <=> Saved(g, l)
      BY <3>1 DEF Saved, HasBlock
    <3>5. QED
      BY <1>3, <2>2, <3>1, <3>2, <3>3, <3>4
  <2>3. QED
    BY <2>1, <2>2
<1>13. Packets' /\ Rising' /\ Rest' /\ SavedIsGood' /\ GoodIsSaved'
  <2>1. f = Answer.file /\ k = Answer.block
    BY <1>2 DEF Arrives
  <2>2. \A g \in File, l \in Nat : Saved(g, l)' <=>
          Saved(g, l) \/ (g = Answer.file /\ l = Answer.block /\ l # 0 /\ Good(g, l))
    BY <1>2, <1>12, <2>1
  <2>3. QED
    BY <1>1, <1>10, <2>2, Received
<1>14. ListComes'
  <2>1. \A g \in File : Due(g, 0) => Due(g, 0)'
    BY <1>2 DEF Arrives
  <2>2. QED
    BY <1>1, <1>10, <2>1, QuietLists
<1>15. Tickets'
  <2>1. \A j \in DOMAIN workList : \A m \in 1 .. j - 1 : workList'[m].file = workList[m].file
    <3>1. \A j \in DOMAIN workList : \A m \in 1 .. j - 1 : m \in DOMAIN workList
      BY TicketFields DEF ExtractInv
    <3>2. QED
      BY <1>10, <3>1 DEF SameTickets
  <2>2. ASSUME NEW j \in DOMAIN workList PROVE TicketRight(j)'
    <3>1. TicketRight(j)
      BY DEF ExtractInv, Tickets
    <3>2. /\ workList'[j].file = workList[j].file /\ workList'[j].status = workList[j].status
          /\ workList'[j].size = workList[j].size /\ workList'[j].next = workList[j].next
          /\ workList'[j].fp = workList[j].fp
      BY <1>7, <1>8, <1>9
    <3>3. workList'[j].moved <= 0
      <4>1. CASE j = i
        <5>1. u.moved \in Int
          BY DEF Ticket
        <5>2. QED
          BY <1>7, <1>8, <4>1, <5>1
      <4>2. CASE j # i
        BY <1>8, <3>1, <4>2 DEF TicketRight
      <4>3. QED
        BY <4>1, <4>2
    <3>4. HasList(workList[j]) => HasList(workList[j])'
      BY <1>1, <3>2 DEF HasList, Good, Opens
    <3>5. NoList(workList[j]) => NoList(workList[j])'
      BY <3>2 DEF NoList
    <3>6. QED
      BY <2>1, <3>1, <3>2, <3>3, <3>4, <3>5 DEF TicketRight
  <2>3. Len(streams') = Len(workList')
    <3>1. Len(streams) = Len(workList)
      BY DEF ExtractInv, Tickets
    <3>2. QED
      BY <1>8, <1>12, <3>1
  <2>4. QED
    BY <1>8, <2>2, <2>3 DEF Tickets
<1>16. \A j \in DOMAIN workList : /\ workList'[j].fp = workList[j].fp
                                  /\ workList'[j].status = workList[j].status
  BY <1>7, <1>8
<1>17. QED
  BY <1>8, <1>12, <1>13, <1>14, <1>15, <1>16 DEF Most, Core

-----------------------------------------------------------------------------
(* The types, and the registration of the output handler. *)

\* The handlers that touch no ticket, no stream and no pipe.
LEMMA PlainTypes ==
    ASSUME ExtractInv,
           \/ \E f \in File : Skip(f)
           \/ NextArgument \/ FillStart \/ ExitEnds \/ ClientSignal \/ ServerSignal
           \/ ClientHangup \/ ServerHangup \/ UNCHANGED vars
    PROVE  TypeOK' /\ Wake'
<1>1. UNCHANGED <<workList, streams, disk, outBuf, toServer, toClient, closing, registered>>
  BY DEF Skip, NextName, NextArgument, FillStart, ExitEnds, ClientSignal, ServerSignal,
         ClientHangup, ServerHangup, vars, clientVars, fileVars, wireVars, archiveVars
<1>2. UNCHANGED <<summary, archive, sealed, key>>
  BY DEF Skip, NextName, NextArgument, FillStart, ExitEnds, ClientSignal, ServerSignal,
         ClientHangup, ServerHangup, vars, clientVars, fileVars, wireVars, archiveVars
<1>3. /\ args' \in Seq(SUBSET File) /\ todo' \in Seq(File) /\ scanning' \in BOOLEAN
  <2>1. args \in Seq(SUBSET File) /\ todo \in Seq(File) /\ scanning \in BOOLEAN
    BY DEF ExtractInv, TypeOK
  <2>2. ASSUME NEW f \in File, Skip(f) PROVE args' = args /\ todo' = Tail(todo) /\ todo # <<>> /\ scanning' = scanning
    BY <2>2 DEF Skip, NextName
  <2>3. CASE NextArgument
    <3>1. args' = Tail(args) /\ args # <<>> /\ todo' = Names /\ scanning' = scanning
      BY <2>3 DEF NextArgument
    <3>2. Tail(args) \in Seq(SUBSET File)
      BY <2>1, <3>1, TailFacts
    <3>3. QED
      BY <2>1, <3>1, <3>2, ExtractAssumption
  <2>4. CASE \E f \in File : Skip(f)
    <3>1. Tail(todo) \in Seq(File)
      BY <2>1, <2>2, <2>4, TailFacts
    <3>2. QED
      BY <2>1, <2>2, <2>4, <3>1
  <2>5. CASE FillStart \/ ExitEnds \/ ClientSignal \/ ServerSignal
             \/ ClientHangup \/ ServerHangup \/ UNCHANGED vars
    BY <2>1, <2>5 DEF FillStart, ExitEnds, ClientSignal, ServerSignal,
         ClientHangup, ServerHangup, vars, clientVars, fileVars, wireVars, archiveVars
  <2>6. QED
    BY <2>3, <2>4, <2>5
<1>4. /\ pc' \in {"loop", "fill", "exiting", "ended", "aborted", "killed"}
      /\ cursor' \in Nat /\ serverUp' \in BOOLEAN /\ faults' \in Nat
  <2>1. /\ pc \in {"loop", "fill", "exiting", "ended", "aborted", "killed"}
        /\ cursor \in Nat /\ serverUp \in BOOLEAN /\ faults \in Nat
    BY DEF ExtractInv, TypeOK
  <2>2. faults + 1 \in Nat
    BY <2>1
  <2>3. pc' \in {pc, "fill", "exiting", "ended", "killed"} /\ cursor' \in {cursor, 1}
    BY DEF Skip, NextName, NextArgument, FillStart, ExitEnds, ClientSignal, ServerSignal,
          ClientHangup, ServerHangup, vars, clientVars, fileVars, wireVars, archiveVars
  <2>4. serverUp' \in {serverUp, FALSE} /\ faults' \in {faults, faults + 1}
    BY DEF Skip, NextName, NextArgument, FillStart, ExitEnds, ClientSignal, ServerSignal,
          ClientHangup, ServerHangup, vars, clientVars, fileVars, wireVars, archiveVars
  <2>5. pc' \in {"loop", "fill", "exiting", "ended", "aborted", "killed"}
    BY <2>1, <2>3
  <2>6. cursor' \in Nat
    BY <2>1, <2>3
  <2>7. serverUp' \in BOOLEAN
    BY <2>1, <2>4
  <2>8. faults' \in Nat
    BY <2>1, <2>2, <2>4
  <2>9. QED
    BY <2>5, <2>6, <2>7, <2>8
<1>5. TypeOK'
  BY <1>1, <1>2, <1>3, <1>4 DEF ExtractInv, TypeOK
<1>6. \/ pc' = pc /\ cursor' = cursor
      \/ pc' \notin {"loop", "fill"}
      \/ pc' = "fill" /\ cursor' = 1 /\ registered
  BY DEF Skip, NextName, NextArgument, FillStart, ExitEnds, ClientSignal, ServerSignal,
         ClientHangup, ServerHangup, vars, clientVars, fileVars, wireVars, archiveVars
<1>7. Wake'
  <2>1. CASE pc' = pc /\ cursor' = cursor
    BY <1>1, <2>1 DEF ExtractInv, Wake
  <2>2. CASE pc' \notin {"loop", "fill"}
    BY <2>2 DEF Wake
  <2>3. CASE pc' = "fill" /\ cursor' = 1 /\ registered
    <3>1. \A i \in DOMAIN workList : ~(i < 1)
      BY TicketFields DEF ExtractInv
    <3>2. QED
      BY <1>1, <2>3, <3>1 DEF Wake
  <2>4. QED
    BY <1>6, <2>1, <2>2, <2>3
<1>8. QED
  BY <1>5, <1>7

\* The scan.
LEMMA ScanTypes ==
    ASSUME ExtractInv, EndScan \/ \E f \in File : ExtractFile(f)
    PROVE  TypeOK' /\ Wake'
<1>1. /\ UNCHANGED <<cursor, toServer, toClient, summary, archive, sealed, key, serverUp, faults, pc, args>>
      /\ pc = "loop"
  BY DEF EndScan, ExtractFile, NextName, wireVars, archiveVars
<1>2. /\ workList \in Seq(Ticket) /\ outBuf \in Seq(Message)
      /\ streams \in Seq(Seq(Write)) /\ disk \in Seq(Write) /\ todo \in Seq(File)
      /\ \A i \in DOMAIN workList : workList[i].fp \in DOMAIN streams
  BY DEF ExtractInv, TypeOK
<1>3. CASE EndScan
  <2>1. outBuf' \in Seq(Message) /\ closing' \in BOOLEAN /\ registered' \in BOOLEAN
    <3>1. Append(outBuf, Bye) \in Seq(Message)
      BY <1>2 DEF Message, Bye
    <3>2. QED
      BY <1>3, <3>1 DEF EndScan, WriteReg, ExtractInv, TypeOK
  <2>2. UNCHANGED <<workList, streams, disk, todo>> /\ scanning' \in BOOLEAN
    BY <1>3 DEF EndScan, fileVars
  <2>3. TypeOK'
    BY <1>1, <2>1, <2>2 DEF ExtractInv, TypeOK
  <2>4. registered' = TRUE \/ UNCHANGED <<registered, outBuf>>
    BY <1>3 DEF EndScan, WriteReg
  <2>5. Wake'
    BY <1>1, <2>2, <2>4 DEF ExtractInv, Wake
  <2>6. QED
    BY <2>3, <2>5
<1>4. CASE \E f \in File : ExtractFile(f)
  <2>1. PICK f \in File : ExtractFile(f)
    BY <1>4
  <2>2. PICK t : /\ t = NewTicket(f) /\ workList' = Append(workList, t)
    BY <2>1 DEF ExtractFile
  <2>3. Len(streams) \in Nat /\ t \in Ticket /\ t.fp = Len(streams) + 1
    BY <1>2, <2>2 DEF NewTicket, Ticket, Status
  <2>4. streams' = Append(streams, <<>>) /\ disk' = <<>> /\ outBuf' = Append(outBuf, GetBlock(f, 0))
    BY <2>1 DEF ExtractFile
  <2>5. /\ todo' = Tail(todo) /\ todo # <<>> /\ registered' = TRUE
        /\ UNCHANGED <<scanning, closing>>
    BY <2>1 DEF ExtractFile, NextName, WriteReg
  <2>6. Tail(todo) \in Seq(File)
    BY <1>2, <2>5, TailFacts
  <2>7. /\ workList' \in Seq(Ticket) /\ DOMAIN workList' = 1 .. Len(workList) + 1
        /\ \A i \in DOMAIN workList : workList'[i] = workList[i]
        /\ workList'[Len(workList) + 1] = t /\ DOMAIN workList = 1 .. Len(workList)
    BY <1>2, <2>2, <2>3, AppendFacts
  <2>8. /\ streams' \in Seq(Seq(Write)) /\ DOMAIN streams' = 1 .. Len(streams) + 1
        /\ DOMAIN streams = 1 .. Len(streams)
    <3>1. <<>> \in Seq(Write)
      OBVIOUS
    <3>2. QED
      BY <1>2, <2>4, <3>1, AppendFacts
  <2>9. \A i \in DOMAIN workList' : workList'[i].fp \in DOMAIN streams'
    <3>1. \A i \in DOMAIN workList' : i \in DOMAIN workList \/ i = Len(workList) + 1
      <4>1. Len(workList) \in Nat
        BY <1>2
      <4>2. QED
        BY <2>7, <4>1
    <3>2. \A n \in DOMAIN streams : n \in DOMAIN streams'
      BY <2>3, <2>8
    <3>3. Len(streams) + 1 \in DOMAIN streams'
      BY <2>3, <2>8
    <3>4. QED
      BY <1>2, <2>3, <2>7, <3>1, <3>2, <3>3
  <2>10. outBuf' \in Seq(Message)
    <3>1. GetBlock(f, 0) \in Message
      BY DEF GetBlock, Message, Record
    <3>2. QED
      BY <1>2, <2>4, <3>1
  <2>11. disk' \in Seq(Write)
    BY <2>4
  <2>12. TypeOK'
    BY <1>1, <2>5, <2>6, <2>7, <2>8, <2>9, <2>10, <2>11 DEF ExtractInv, TypeOK
  <2>13. Wake'
    BY <1>1, <2>5 DEF Wake
  <2>14. QED
    BY <2>12, <2>13
<1>5. QED
  BY <1>3, <1>4

\* The output handler.
LEMMA OutputTypes ==
    ASSUME ExtractInv, OutputBuffered \/ FillRequest \/ FillNext \/ FillEnd
    PROVE  TypeOK' /\ Wake'
<1>1. UNCHANGED <<scanning, args, todo, closing, streams, disk, toClient, serverUp,
                  summary, archive, sealed, key, faults>>
  BY DEF OutputBuffered, FillRequest, FillNext, FillEnd, fileVars, wireVars, archiveVars
<1>2. /\ workList \in Seq(Ticket) /\ outBuf \in Seq(Message) /\ toServer \in Seq(Message)
      /\ cursor \in Nat /\ registered \in BOOLEAN
      /\ \A i \in DOMAIN workList : workList[i].fp \in DOMAIN streams
  BY DEF ExtractInv, TypeOK
<1>3. ASSUME outBuf # <<>>, WriteOut
      PROVE  /\ outBuf' \in Seq(Message) /\ toServer' \in Seq(Message)
             /\ registered' \in BOOLEAN /\ ((registered => registered') \/ outBuf' # <<>>)
  <2>1. Head(outBuf) \in Message /\ Tail(outBuf) \in Seq(Message)
    BY <1>2, <1>3, TailFacts
  <2>2. CASE WritePacket /\ UNCHANGED registered
    BY <1>2, <2>1, <2>2 DEF WritePacket
  <2>3. CASE WriteFails
    BY <1>2, <1>3, <2>3 DEF WriteFails
  <2>4. QED
    BY <1>3, <2>2, <2>3 DEF WriteOut
<1>4. CASE OutputBuffered
  <2>1. /\ UNCHANGED <<workList, cursor, pc>> /\ pc = "loop" /\ registered
        /\ outBuf # <<>> /\ WriteOut
    BY <1>4 DEF OutputBuffered
  <2>2. /\ outBuf' \in Seq(Message) /\ toServer' \in Seq(Message)
        /\ registered' \in BOOLEAN /\ (registered' \/ outBuf' # <<>>)
    BY <1>3, <2>1
  <2>3. TypeOK'
    BY <1>1, <2>1, <2>2 DEF ExtractInv, TypeOK
  <2>4. Wake'
    BY <2>1, <2>2 DEF Wake
  <2>5. QED
    BY <2>3, <2>4
<1>5. CASE FillRequest
  <2>1. PICK i \in DOMAIN workList, t \in Ticket :
            /\ i = cursor /\ t = workList[i]
            /\ outBuf' = Append(outBuf, GetBlock(t.file, t.next + 1))
            /\ workList' = [workList EXCEPT ![i] = [t EXCEPT !.next = t.next + 1]]
            /\ UNCHANGED <<cursor, registered, pc, toServer>> /\ pc = "fill"
    <3>1. cursor \in DOMAIN workList /\ workList[cursor] \in Ticket
      BY <1>2, <1>5 DEF FillRequest
    <3>2. QED
      BY <1>5, <3>1 DEF FillRequest, wireVars
  <2>2. t.file \in File /\ t.next + 1 \in Nat
    BY DEF Ticket
  <2>3. GetBlock(t.file, t.next + 1) \in Message
    BY <2>2 DEF GetBlock, Message, Record
  <2>4. outBuf' \in Seq(Message) /\ outBuf' # <<>>
    <3>1. PICK m \in Message : outBuf' = Append(outBuf, m)
      BY <2>1, <2>3
    <3>2. Append(outBuf, m) \in Seq(Message) /\ Append(outBuf, m) # <<>>
      <4>1. /\ Append(outBuf, m) \in Seq(Message) /\ Len(outBuf) \in Nat
            /\ Len(Append(outBuf, m)) = Len(outBuf) + 1
        BY <1>2
      <4>2. Len(<<>>) = 0
        OBVIOUS
      <4>3. Len(Append(outBuf, m)) # 0
        BY <4>1
      <4>4. QED
        BY <4>1, <4>2, <4>3
    <3>3. QED
      BY <3>1, <3>2
  <2>5. [t EXCEPT !.next = t.next + 1] \in Ticket /\ [t EXCEPT !.next = t.next + 1].fp = t.fp
    BY <2>2 DEF Ticket
  <2>6. /\ workList' \in Seq(Ticket) /\ DOMAIN workList' = DOMAIN workList
        /\ \A j \in DOMAIN workList : workList'[j].fp = workList[j].fp
    BY <1>2, <2>1, <2>5
  <2>7. TypeOK'
    BY <1>1, <1>2, <2>1, <2>4, <2>6 DEF ExtractInv, TypeOK
  <2>8. Wake'
    BY <2>1, <2>4 DEF ExtractInv, Wake
  <2>9. QED
    BY <2>7, <2>8
<1>6. CASE FillNext
  <2>1. PICK i \in DOMAIN workList, t \in Ticket :
            /\ i = cursor /\ t = workList[i] /\ ~SendsMore(t)
            /\ IF t.status = "SendingBlockRequests" /\ Len(outBuf) <= Desired /\ AskedAll(t)
               THEN workList' = [workList EXCEPT ![i] = [t EXCEPT !.status = "AwaitingBlockConfirms"]]
               ELSE UNCHANGED workList
            /\ cursor' = cursor + 1
            /\ UNCHANGED <<registered, pc, toServer, outBuf>> /\ pc = "fill"
    <3>1. cursor \in DOMAIN workList /\ workList[cursor] \in Ticket
      BY <1>2, <1>6 DEF FillNext
    <3>2. QED
      BY <1>6, <3>1 DEF FillNext, wireVars
  <2>2. /\ [t EXCEPT !.status = "AwaitingBlockConfirms"] \in Ticket
        /\ [t EXCEPT !.status = "AwaitingBlockConfirms"].fp = t.fp
        /\ [t EXCEPT !.status = "AwaitingBlockConfirms"].status = "AwaitingBlockConfirms"
    BY DEF Ticket, Status
  <2>3. /\ workList' \in Seq(Ticket) /\ DOMAIN workList' = DOMAIN workList
        /\ \A j \in DOMAIN workList : workList'[j].fp = workList[j].fp
        /\ \A j \in DOMAIN workList :
              workList[j].status # "SendingBlockRequests" => workList'[j].status # "SendingBlockRequests"
    <3>1. PICK u \in Ticket : /\ u = [t EXCEPT !.status = "AwaitingBlockConfirms"]
                             /\ u.fp = t.fp /\ u.status = "AwaitingBlockConfirms"
      BY <2>2
    <3>2. workList' = [workList EXCEPT ![i] = u] \/ workList' = workList
      BY <2>1, <3>1
    <3>3. CASE workList' = [workList EXCEPT ![i] = u]
      BY <1>2, <2>1, <3>1, <3>3
    <3>4. CASE workList' = workList
      BY <1>2, <3>4
    <3>5. QED
      BY <3>2, <3>3, <3>4
  <2>4. cursor' \in Nat /\ cursor' >= 1
    BY <1>2, <2>1
  <2>5. TypeOK'
    BY <1>1, <1>2, <2>1, <2>3, <2>4 DEF ExtractInv, TypeOK
  <2>6. outBuf = <<>> => workList'[i].status # "SendingBlockRequests"
    <3>1. SUFFICES ASSUME outBuf = <<>>, t.status = "SendingBlockRequests"
                   PROVE  workList' = [workList EXCEPT ![i] = [t EXCEPT !.status = "AwaitingBlockConfirms"]]
      BY <1>2, <2>1, <2>2, <2>3
    <3>2. Len(outBuf) = 0 /\ Desired \in Nat /\ Desired # 0
      BY <3>1, ExtractAssumption
    <3>3. Len(outBuf) < Desired /\ Len(outBuf) <= Desired
      BY <3>2
    <3>4. ~(t.next < t.size)
      BY <2>1, <3>1, <3>3 DEF SendsMore
    <3>5. t.next >= t.size
      <4>1. t.next \in Nat /\ t.size \in Nat
        BY DEF Ticket
      <4>2. QED
        BY <3>4, <4>1
    <3>6. QED
      BY <2>1, <3>1, <3>3, <3>5 DEF AskedAll
  <2>7. Wake'
    <3>1. SUFFICES ASSUME outBuf = <<>>, NEW j \in DOMAIN workList, j < cursor'
                   PROVE  workList'[j].status # "SendingBlockRequests"
      BY <2>1, <2>3, <2>4 DEF ExtractInv, Wake
    <3>2. j \in Nat
      BY TicketFields DEF ExtractInv
    <3>3. j < cursor \/ j = i
      BY <1>2, <2>1, <3>1, <3>2
    <3>4. j < cursor => workList[j].status # "SendingBlockRequests"
      BY <2>1, <3>1 DEF ExtractInv, Wake
    <3>5. QED
      BY <2>3, <2>6, <3>1, <3>3, <3>4
  <2>8. QED
    BY <2>5, <2>7
<1>7. CASE FillEnd
  <2>1. /\ UNCHANGED <<workList, cursor>> /\ cursor \notin DOMAIN workList /\ pc = "fill"
        /\ outBuf # <<>> => WriteOut /\ pc' = "loop"
        /\ outBuf = <<>> => /\ pc' \in {"exiting", "loop"} /\ registered' = FALSE
                            /\ UNCHANGED <<outBuf, toServer>>
    BY <1>7 DEF FillEnd
  <2>2. /\ outBuf' \in Seq(Message) /\ toServer' \in Seq(Message)
        /\ outBuf # <<>> => registered' \in BOOLEAN /\ ((registered => registered') \/ outBuf' # <<>>)
    BY <1>2, <1>3, <2>1
  <2>3. pc' \in {"exiting", "loop"} /\ registered' \in BOOLEAN
    BY <1>2, <2>1, <2>2
  <2>4. TypeOK'
    BY <1>1, <2>1, <2>2, <2>3 DEF ExtractInv, TypeOK
  <2>5. CASE outBuf # <<>>
    <3>1. registered
      BY <2>1 DEF ExtractInv, Wake
    <3>2. registered' \/ outBuf' # <<>>
      BY <2>2, <2>5, <3>1
    <3>3. pc' = "loop"
      BY <2>1, <2>5
    <3>4. QED
      BY <2>4, <3>2, <3>3 DEF Wake
  <2>6. CASE outBuf = <<>>
    <3>1. \A j \in DOMAIN workList : j < cursor
      <4>1. ASSUME NEW j \in DOMAIN workList PROVE j < cursor
        <5>1. j \in 1 .. Len(workList) /\ Len(workList) \in Nat /\ DOMAIN workList = 1 .. Len(workList)
          BY TicketFields DEF ExtractInv
        <5>2. cursor >= 1 /\ cursor \notin 1 .. Len(workList)
          BY <2>1, <5>1 DEF ExtractInv, Wake
        <5>3. QED
          BY <1>2, <5>1, <5>2
      <4>2. QED
        BY <4>1
    <3>2. \A j \in DOMAIN workList : workList[j].status # "SendingBlockRequests"
      BY <2>1, <2>6, <3>1 DEF ExtractInv, Wake
    <3>3. QED
      BY <2>1, <2>3, <2>4, <3>2 DEF Wake
  <2>7. QED
    BY <2>5, <2>6
<1>8. QED
  BY <1>4, <1>5, <1>6, <1>7

\* The input handlers of the client and of the server, and the exit.
LEMMA InputTypes ==
    ASSUME ExtractInv,
           \/ InputStep \/ ServerStep \/ ExitFlush
    PROVE  TypeOK' /\ Wake'
<1>1. /\ workList \in Seq(Ticket) /\ toServer \in Seq(Message) /\ toClient \in Seq(Message)
      /\ streams \in Seq(Seq(Write)) /\ disk \in Seq(Write)
      /\ \A i \in DOMAIN workList : workList[i].fp \in DOMAIN streams
  BY DEF ExtractInv, TypeOK
<1>2. CASE InputStep
  <2>1. PICK i \in DOMAIN workList :
            \/ ReceiveNothing(i) \/ ReceiveSealed(i) \/ ReceiveAborts(i)
            \/ ReceiveList(i) \/ ReceiveBlock(i)
    BY <1>2 DEF InputStep
  <2>2. /\ UNCHANGED <<scanning, args, todo, cursor, closing, outBuf, toServer, serverUp,
                       summary, archive, sealed, key, faults>>
        /\ pc = "loop" /\ toClient # <<>> /\ toClient' = Tail(toClient)
    BY <2>1 DEF ReceiveNothing, ReceiveSealed, ReceiveAborts, ReceiveList, ReceiveBlock, Receives,
                archiveVars
  <2>3. toClient' \in Seq(Message)
    <3>1. Tail(toClient) \in Seq(Message)
      BY <1>1, <2>2, TailFacts
    <3>2. QED
      BY <2>2, <3>1
  <2>4. CASE ReceiveNothing(i) \/ ReceiveSealed(i) \/ ReceiveAborts(i)
    <3>1. /\ UNCHANGED <<workList, registered, streams, disk>>
          /\ pc' \in {pc, "exiting", "aborted"}
      BY <2>4 DEF ReceiveNothing, ReceiveSealed, ReceiveAborts, fileVars
    <3>2. TypeOK'
      BY <2>2, <2>3, <3>1 DEF ExtractInv, TypeOK
    <3>3. Wake'
      BY <2>2, <3>1 DEF ExtractInv, Wake
    <3>4. QED
      BY <3>2, <3>3
  <2>5. CASE ReceiveList(i)
    <3>1. /\ UNCHANGED <<pc, streams, disk>> /\ registered' = TRUE
      BY <2>5 DEF ReceiveList, WriteReg, fileVars
    <3>2. workList' \in Seq(Ticket) /\ DOMAIN workList' = DOMAIN workList /\ Tickets' /\ Tickets
      BY <2>5, ListAction DEF ExtractInv, Most
    <3>3. \A j \in DOMAIN workList' : workList'[j].fp \in DOMAIN streams'
      <4>1. \A j \in DOMAIN workList : workList'[j].fp = j /\ workList[j].fp = j
        BY <3>2 DEF Tickets, TicketRight
      <4>2. QED
        BY <1>1, <3>1, <3>2, <4>1
    <3>4. TypeOK'
      BY <2>2, <2>3, <3>1, <3>2, <3>3 DEF ExtractInv, TypeOK
    <3>5. Wake'
      BY <2>2, <3>1 DEF Wake
    <3>6. QED
      BY <3>4, <3>5
  <2>6. CASE ReceiveBlock(i)
    <3>1. UNCHANGED <<pc, registered>>
      BY <2>6 DEF ReceiveBlock
    <3>2. /\ workList' \in Seq(Ticket) /\ DOMAIN workList' = DOMAIN workList
          /\ \A j \in DOMAIN workList : workList'[j].fp = workList[j].fp
          /\ \A j \in DOMAIN workList : workList'[j].status = workList[j].status
          /\ streams' \in Seq(Seq(Write)) /\ disk' \in Seq(Write) /\ DOMAIN streams' = DOMAIN streams
      BY <2>6, BlockAction
    <3>3. \A j \in DOMAIN workList' : workList'[j].fp \in DOMAIN streams'
      BY <1>1, <3>2
    <3>4. TypeOK'
      BY <2>2, <2>3, <3>1, <3>2, <3>3 DEF ExtractInv, TypeOK
    <3>5. Wake'
      BY <2>2, <3>1, <3>2 DEF ExtractInv, Wake
    <3>6. QED
      BY <3>4, <3>5
  <2>7. QED
    BY <2>1, <2>4, <2>5, <2>6
<1>3. CASE AcceptGetBlock
  <2>1. UNCHANGED <<clientVars, fileVars, serverUp, archiveVars, faults>>
    BY <1>3 DEF AcceptGetBlock
  <2>2. /\ toServer # <<>> /\ toServer' = Tail(toServer) /\ Head(toServer).cmd = "GetBlock"
        /\ toClient' = Append(toClient, GetBlockAck(Head(toServer).file, Head(toServer).block,
                                                    archive[<<Head(toServer).file, Head(toServer).block>>]))
    BY <1>3 DEF AcceptGetBlock, ServerReceives
  <2>3. /\ Head(toServer) \in Message /\ Tail(toServer) \in Seq(Message)
    BY <1>1, <2>2, TailFacts
  <2>4. PICK f \in File, k \in Nat : f = Head(toServer).file /\ k = Head(toServer).block
    BY <2>2, <2>3, PacketFields
  <2>5. PICK o \in Record : o = archive[<<f, k>>]
    BY <1>3, <2>4, AnswerAction
  <2>6. PICK m \in Message : m = GetBlockAck(f, k, o)
    BY Packet
  <2>7. toClient' \in Seq(Message) /\ toServer' \in Seq(Message)
    <3>1. Append(toClient, m) \in Seq(Message)
      BY <1>1
    <3>2. toClient' = Append(toClient, m)
      BY <2>2, <2>4, <2>5, <2>6
    <3>3. QED
      BY <2>2, <2>3, <3>1, <3>2
  <2>8. TypeOK'
    BY <2>1, <2>7 DEF ExtractInv, TypeOK, clientVars, fileVars, archiveVars
  <2>9. Wake'
    BY <2>1 DEF ExtractInv, Wake, clientVars
  <2>10. QED
    BY <2>8, <2>9
<1>4. CASE ReceiveBye
  <2>1. UNCHANGED <<clientVars, fileVars, archiveVars, faults>> /\ serverUp' = FALSE
    BY <1>4 DEF ReceiveBye
  <2>2. toServer # <<>> /\ toServer' = Tail(toServer)
    BY <1>4 DEF ReceiveBye, ServerReceives
  <2>3. Tail(toServer) \in Seq(Message)
    BY <1>1, <2>2, TailFacts
  <2>4. toClient' \in Seq(Message)
    BY <1>4, LeaveAction
  <2>5. TypeOK'
    BY <2>1, <2>2, <2>3, <2>4 DEF ExtractInv, TypeOK, clientVars, fileVars, archiveVars
  <2>6. Wake'
    BY <2>1 DEF ExtractInv, Wake, clientVars
  <2>7. QED
    BY <2>5, <2>6
<1>5. CASE ExitFlush
  <2>1. UNCHANGED <<clientVars, wireVars, serverUp, archiveVars, faults>>
    BY <1>5 DEF ExitFlush
  <2>2. streams' \in Seq(Seq(Write)) /\ disk' \in Seq(Write) /\ DOMAIN streams' = DOMAIN streams
    BY <1>5, FlushAction
  <2>3. TypeOK'
    BY <2>1, <2>2 DEF ExtractInv, TypeOK, clientVars, wireVars, archiveVars
  <2>4. Wake'
    BY <2>1 DEF ExtractInv, Wake, clientVars
  <2>5. QED
    BY <2>3, <2>4
<1>6. QED
  BY <1>2, <1>3, <1>4, <1>5 DEF ServerStep

-----------------------------------------------------------------------------
(* The theorems. *)

\* An extraction begins with nothing on its way and nothing written.
LEMMA Begins ==
    ASSUME Init
    PROVE  ExtractInv
<1>1. /\ pc = "loop" /\ scanning = TRUE /\ args \in Arguments /\ todo = Names
      /\ workList = <<>> /\ cursor = 0 /\ closing = FALSE /\ registered \in BOOLEAN
      /\ outBuf = <<>> /\ streams = <<>> /\ disk = <<>> /\ toServer = <<>> /\ toClient = <<>>
      /\ serverUp = TRUE /\ summary \in SUBSET File /\ archive \in [Object -> Record]
      /\ sealed \in {0, 1} /\ key = NewKey(sealed) /\ faults = 0
  BY DEF Init
<1>2. TypeOK
  <2>1. args \in Seq(SUBSET File) /\ todo \in Seq(File)
    BY <1>1, ExtractAssumption
  <2>2. sealed \in Nat /\ key \in Nat
    BY <1>1 DEF NewKey
  <2>3. /\ <<>> \in Seq(Message) /\ <<>> \in Seq(Ticket) /\ <<>> \in Seq(Write)
        /\ <<>> \in Seq(Seq(Write)) /\ DOMAIN <<>> = {}
    OBVIOUS
  <2>4. QED
    BY <1>1, <2>1, <2>2, <2>3 DEF TypeOK
<1>3. DOMAIN workList = {} /\ DOMAIN streams = {} /\ DOMAIN disk = {} /\ Elements(toClient) = {}
  BY <1>1 DEF Elements
<1>4. Flight = <<>>
  BY <1>1 DEF Flight
<1>5. \A p, f, k : ~Asks(p, f, k) /\ ~Parts(p)
  <2>1. DOMAIN <<>> = {}
    OBVIOUS
  <2>2. QED
    BY <1>4, <2>1 DEF Asks, Parts
<1>6. \A f, k : ~Saved(f, k)
  BY <1>3 DEF Saved, HasBlock
<1>7. Tickets
  BY <1>1, <1>3 DEF Tickets
<1>8. Packets
  BY <1>1, <1>3, <1>5 DEF Packets
<1>9. Rising /\ Rest /\ SavedIsGood /\ GoodIsSaved /\ Kept /\ ListComes
  BY <1>3, <1>5, <1>6 DEF Rising, Rest, SavedIsGood, GoodIsSaved, Kept, ListComes
<1>10. Wake
  BY <1>1, <1>3 DEF Wake
<1>11. QED
  BY <1>2, <1>7, <1>8, <1>9, <1>10 DEF ExtractInv

\* What a step may do to the disk.
LEMMA StepFacts ==
    ASSUME ExtractInv, [Next]_vars
    PROVE  ExtractInv' /\ archive' = archive /\ Continues(disk, disk')
<1>1. disk \in Seq(Write)
  BY DEF ExtractInv, TypeOK
<1>2. ASSUME disk' = disk PROVE Continues(disk, disk')
  BY <1>1, <1>2, ContinuesSelf
<1>3. ASSUME Most', TypeOK', Wake' PROVE ExtractInv'
  BY <1>3 DEF ExtractInv, Most, Core
<1>4. CASE \/ \E f \in File : Skip(f)
           \/ NextArgument \/ FillStart \/ ExitEnds \/ ClientSignal \/ ServerSignal
           \/ ClientHangup \/ ServerHangup \/ UNCHANGED vars
  <2>1. Most' /\ TypeOK' /\ Wake'
    BY <1>4, IdleAction, PlainTypes
  <2>2. disk' = disk /\ archive' = archive
    BY <1>4 DEF Skip, NextName, NextArgument, FillStart, ExitEnds, ClientSignal, ServerSignal,
                ClientHangup, ServerHangup, vars, clientVars, fileVars, wireVars, archiveVars
  <2>3. QED
    BY <1>2, <1>3, <2>1, <2>2
<1>5. CASE EndScan
  <2>1. Most'
    BY <1>5, IdleAction, ByeAction
  <2>2. TypeOK' /\ Wake'
    BY <1>5, ScanTypes
  <2>3. disk' = disk /\ archive' = archive
    BY <1>5 DEF EndScan, fileVars, archiveVars
  <2>4. QED
    BY <1>2, <1>3, <2>1, <2>2, <2>3
<1>6. ASSUME NEW f \in File, ExtractFile(f) PROVE ExtractInv' /\ archive' = archive /\ Continues(disk, disk')
  <2>1. Most' /\ TypeOK' /\ Wake'
    BY <1>6, OpenAction, ScanTypes
  <2>2. scanning /\ disk' = <<>> /\ archive' = archive
    BY <1>6 DEF ExtractFile, NextName, archiveVars
  <2>3. disk = <<>>
    BY <2>2, NothingYet DEF ExtractInv
  <2>4. QED
    BY <1>2, <1>3, <2>1, <2>2, <2>3
<1>7. CASE OutputBuffered \/ FillRequest \/ FillNext \/ FillEnd
  <2>1. Most'
    BY <1>7, WriteAction, IdleAction, RequestAction, NextAction
  <2>2. TypeOK' /\ Wake'
    BY <1>7, OutputTypes
  <2>3. disk' = disk /\ archive' = archive
    BY <1>7 DEF OutputBuffered, FillRequest, FillNext, FillEnd, fileVars, archiveVars
  <2>4. QED
    BY <1>2, <1>3, <2>1, <2>2, <2>3
<1>8. CASE InputStep
  <2>1. PICK i \in DOMAIN workList :
            \/ ReceiveNothing(i) \/ ReceiveSealed(i) \/ ReceiveAborts(i)
            \/ ReceiveList(i) \/ ReceiveBlock(i)
    BY <1>8 DEF InputStep
  <2>2. Most' /\ Continues(disk, disk')
    <3>1. CASE ReceiveNothing(i) \/ ReceiveSealed(i) \/ ReceiveAborts(i)
      <4>1. disk' = disk
        BY <3>1 DEF ReceiveNothing, ReceiveSealed, ReceiveAborts, fileVars
      <4>2. QED
        BY <1>2, <3>1, <4>1, UselessAction
    <3>2. CASE ReceiveList(i)
      <4>1. disk' = disk
        BY <3>2 DEF ReceiveList, fileVars
      <4>2. QED
        BY <1>2, <3>2, <4>1, ListAction
    <3>3. CASE ReceiveBlock(i)
      BY <3>3, BlockAction
    <3>4. QED
      BY <2>1, <3>1, <3>2, <3>3
  <2>3. TypeOK' /\ Wake'
    BY <1>8, InputTypes
  <2>4. archive' = archive
    BY <2>1 DEF ReceiveNothing, ReceiveSealed, ReceiveAborts, ReceiveList, ReceiveBlock, Receives,
                archiveVars
  <2>5. QED
    BY <1>3, <2>2, <2>3, <2>4
<1>9. CASE ServerStep
  <2>1. Most'
    BY <1>9, AnswerAction, LeaveAction DEF ServerStep
  <2>2. TypeOK' /\ Wake'
    BY <1>9, InputTypes
  <2>3. disk' = disk /\ archive' = archive
    BY <1>9 DEF ServerStep, AcceptGetBlock, ReceiveBye, fileVars, archiveVars
  <2>4. QED
    BY <1>2, <1>3, <2>1, <2>2, <2>3
<1>10. CASE ExitFlush
  <2>1. Most' /\ Continues(disk, disk')
    BY <1>10, FlushAction
  <2>2. TypeOK' /\ Wake'
    BY <1>10, InputTypes
  <2>3. archive' = archive
    BY <1>10 DEF ExitFlush, archiveVars
  <2>4. QED
    BY <1>3, <2>1, <2>2, <2>3
<1>11. QED
  BY <1>4, <1>5, <1>6, <1>7, <1>8, <1>9, <1>10 DEF Next, ClientStep, ScanStep, OutputStep

\* When the client waits for nothing that could come, all good blocks are installed.
LEMMA WaitFacts ==
    ASSUME ExtractInv
    PROVE  WaitsWithAll
<1>1. SUFFICES ASSUME Waits, NEW i \in DOMAIN workList, Good(workList[i].file, 0)
               PROVE  Installed(workList[i].file) = Copy(workList[i].file)
  BY DEF WaitsWithAll, Good
<1>2. PICK f \in File : f = workList[i].file
  BY TicketFields DEF ExtractInv
<1>3. \A g, k : ~Due(g, k)
  <2>1. Flight = <<>>
    BY <1>1 DEF Waits, Flight
  <2>2. DOMAIN <<>> = {}
    OBVIOUS
  <2>3. QED
    BY <2>1, <2>2 DEF Due, Asks
<1>4. PICK j \in DOMAIN workList : workList[j].file = f /\ workList[j].size # 0
  BY <1>1, <1>2, <1>3 DEF ExtractInv, ListComes, Waits
<1>5. HasList(workList[j]) /\ TicketRight(j)
  BY <1>4, OnlyFirst DEF ExtractInv, Tickets
<1>6. workList[j].next = Blocks[f] /\ workList[j].next \in Nat
  <2>1. workList[j].status \in Status /\ workList[j].next \in Nat
    BY TicketFields DEF ExtractInv
  <2>2. workList[j].status # "SendingBlockRequests"
    BY <1>1 DEF ExtractInv, Wake, Waits
  <2>3. workList[j].status = "AwaitingBlockConfirms"
    BY <1>5, <2>1, <2>2 DEF Status, HasList
  <2>4. QED
    BY <1>4, <1>5, <2>1, <2>3 DEF TicketRight, HasList
<1>7. \A b : b \in Installed(f) <=> Saved(f, b)
  <2>1. \A b : b \in Installed(f) <=> \E w \in Written : w.file = f /\ w.block = b
    BY DEF Installed
  <2>2. \A w : w \in Written <=> \/ \E p \in DOMAIN disk : w = disk[p]
                                 \/ \E m \in DOMAIN streams : \E p \in DOMAIN streams[m] : w = streams[m][p]
    BY DEF Written, ToSet
  <2>3. QED
    BY <2>1, <2>2 DEF Saved, HasBlock
<1>8. ASSUME NEW b, Saved(f, b) PROVE b \in Copy(f)
  <2>1. b \in Nat
    <3>1. disk \in Seq(Write) /\ streams \in Seq(Seq(Write))
      BY DEF ExtractInv, TypeOK
    <3>2. \A p \in DOMAIN disk : disk[p] \in Write
      BY <3>1
    <3>3. \A m \in DOMAIN streams : streams[m] \in Seq(Write)
      BY <3>1
    <3>4. \A m \in DOMAIN streams : \A p \in DOMAIN streams[m] : streams[m][p] \in Write
      BY <3>3
    <3>5. QED
      BY <1>8, <3>2, <3>4 DEF Saved, HasBlock, Write
  <2>2. Good(f, b) /\ b # 0 /\ Asked(f, b)
    BY <1>8, <2>1 DEF ExtractInv, SavedIsGood
  <2>3. PICK m \in DOMAIN workList : workList[m].file = f /\ b <= workList[m].next
    BY <2>2 DEF Asked
  <2>4. workList[m].next # 0
    BY <2>1, <2>2, <2>3, TicketFields DEF ExtractInv
  <2>5. m = j
    BY <1>4, <2>3, <2>4, OnlyFirst DEF ExtractInv
  <2>6. b \in 1 .. Blocks[f]
    BY <1>6, <2>1, <2>2, <2>3, <2>5
  <2>7. QED
    BY <2>2, <2>6 DEF Copy, Good
<1>9. ASSUME NEW b \in Copy(f) PROVE Saved(f, b)
  <2>1. b \in 1 .. workList[j].next /\ Good(f, b)
    BY <1>6 DEF Copy, Good
  <2>2. QED
    BY <1>3, <1>4, <2>1 DEF ExtractInv, GoodIsSaved
<1>10. Installed(f) = Copy(f)
  BY <1>7, <1>8, <1>9
<1>11. QED
  BY <1>2, <1>10

\* The invariant from which all the rest follows.
THEOREM Invariance == Spec => []ExtractInv
<1>1. Init => ExtractInv
  BY Begins
<1>2. ExtractInv /\ [Next]_vars => ExtractInv'
  BY StepFacts
<1>3. QED
  BY <1>1, <1>2, PTL DEF Spec

\* The variables of an extraction have their types: a ticket keeps its own stream, and
\* counts no more requests than can be (wt_new, wt_send_block_requests).
THEOREM TypesHold == Spec => []TypeOK
<1>1. ExtractInv => TypeOK
  BY DEF ExtractInv
<1>2. QED
  BY <1>1, Invariance, PTL

\* An extraction that waits, as all do in the end, waits with every block of every list
\* it could get: the work list neither forgets a request nor loses an answer, whatever
\* the output queue's limit, the number of files and arguments, and the damage.
THEOREM NothingLeftBehind == Spec => []WaitsWithAll
<1>1. ExtractInv => WaitsWithAll
  BY WaitFacts
<1>2. QED
  BY <1>1, Invariance, PTL

\* What is written is the archived copy up to some block, in the order of the list,
\* however the streams are flushed and wherever the process ends (install_block).
THEOREM KeepsPromise == Spec => Implements
<1>1. Init => Promise!Init
  BY DEF Init, Promise!Init
<1>2. ASSUME ExtractInv, [Next]_vars
      PROVE  [Promise!Further]_(Promise!vars)
  <2>1. archive' = archive /\ Continues(disk, disk')
    BY <1>2, StepFacts
  <2>2. UNCHANGED [f \in File |-> Copy(f)]
    <3>1. \A f : Copy(f)' = Copy(f)
      BY <2>1 DEF Copy
    <3>2. QED
      BY <3>1
  <2>3. \A p \in Len(disk) + 1 .. Len(disk') : Promise!InTurn(disk', p)
    BY <2>1 DEF Continues
  <2>4. Promise!IsPrefix(disk, disk')
    BY <2>1 DEF Continues, IsPrefix, Promise!IsPrefix
  <2>5. Promise!Further
    BY <2>2, <2>3, <2>4 DEF Promise!Further
  <2>6. QED
    BY <2>5
<1>3. QED
  BY <1>1, <1>2, Invariance, PTL DEF Spec, Implements, Promise!Spec
-----------------------------------------------------------------------------
(* Sealing: what ExtractSession takes for granted of a block that is good.  *)
(* Hash, Deflate and KeyStream stand for any functions: what is asked of    *)
(* them is a hypothesis of the theorem that needs it.                       *)

CONSTANTS Base, IvSize, Hash(_), Deflate(_), KeyStream(_,_,_)
Seal == INSTANCE Sealing

\* strlen stops at the first NUL.
LEMMA StrlenFacts ==
    ASSUME NEW s, s \in Seq(Int)
    PROVE  /\ Seal!Strlen(s) \in 0 .. Len(s)
           /\ \A i \in 1 .. Seal!Strlen(s) : s[i] # 0
           /\ Seal!Strlen(s) < Len(s) => s[Seal!Strlen(s) + 1] = 0
<1> DEFINE IsLength(n) == /\ \A i \in 1 .. n : s[i] # 0
                          /\ n < Len(s) => s[n + 1] = 0
           Nul == {n \in Nat : n = Len(s) \/ (n < Len(s) /\ s[n + 1] = 0)}
<1>1. PICK n \in Nul : \A m \in Nul : n <= m
  <2>1. Nul \subseteq Nat /\ Len(s) \in Nul
    OBVIOUS
  <2> HIDE DEF Nul
  <2>2. QED
    BY <2>1, SmallestNumber
<1>2. n \in 0 .. Len(s) /\ IsLength(n)
  <2>1. n \in 0 .. Len(s) /\ (n < Len(s) => s[n + 1] = 0)
    OBVIOUS
  <2>2. ASSUME NEW i \in 1 .. n, s[i] = 0 PROVE FALSE
    <3>1. i - 1 \in Nul
      BY <2>1, <2>2
    <3>2. n <= i - 1
      BY <1>1, <3>1
    <3>3. QED
      BY <3>2
  <2>3. QED
    BY <2>1, <2>2
<1>3. \E k \in 0 .. Len(s) : (\A i \in 1 .. k : s[i] # 0) /\ (k < Len(s) => s[k + 1] = 0)
  BY <1>2
<1>4. QED
  BY <1>3, Zenon DEF Seal!Strlen

\* strncpy leaves an IV as it is just if nothing but NULs follows a NUL in it.
LEMMA StrncpySame ==
    ASSUME NEW s \in Seq(Int)
    PROVE  Seal!Strncpy(s) = s <=> Seal!Survives(s)
<1> DEFINE n == Seal!Strlen(s)
           t == Seal!Strncpy(s)
<1>1. n \in 0 .. Len(s) /\ (\A i \in 1 .. n : s[i] # 0) /\ (n < Len(s) => s[n + 1] = 0)
  BY StrlenFacts
<1>2. t = [i \in DOMAIN s |-> IF i <= n THEN s[i] ELSE 0] /\ DOMAIN s = 1 .. Len(s)
  BY DEF Seal!Strncpy
<1>3. s = [i \in DOMAIN s |-> s[i]]
  OBVIOUS
<1> HIDE DEF n, t
<1>4. ASSUME Seal!Survives(s) PROVE t = s
  <2>1. ASSUME NEW i \in DOMAIN s, ~ (i <= n) PROVE s[i] = 0
    <3>1. n + 1 \in DOMAIN s /\ s[n + 1] = 0 /\ (i = n + 1 \/ n + 1 < i)
      BY <1>1, <1>2, <2>1
    <3>2. QED
      BY <1>4, <3>1 DEF Seal!Survives
  <2>2. QED
    BY <1>2, <1>3, <2>1
<1>5. ASSUME t = s, NEW i \in DOMAIN s, NEW j \in DOMAIN s, i < j, s[i] = 0
      PROVE  s[j] = 0
  <2>1. i \in Nat /\ j \in Nat /\ ~ (i <= n)
    BY <1>1, <1>2, <1>5
  <2>2. ~ (j <= n)
    BY <1>1, <1>5, <2>1
  <2>3. t[j] = 0
    BY <1>2, <2>2
  <2>4. QED
    BY <1>5, <2>3
<1>6. QED
  BY <1>4, <1>5 DEF Seal!Survives, t

\* Random bytes that are the same up to the first NUL give one key.
LEMMA KeysSame ==
    ASSUME NEW n \in Nat, NEW r \in [1 .. n -> Int], NEW s \in [1 .. n -> Int],
           Seal!SameKey(r, s)
    PROVE  Seal!RandomKey(r) = Seal!RandomKey(s)
<1> DEFINE a == Append(r, 0)
           b == Append(s, 0)
           p == Seal!Strlen(a)
           q == Seal!Strlen(b)
<1>1. /\ a \in Seq(Int) /\ Len(a) = n + 1 /\ a[n + 1] = 0 /\ \A i \in 1 .. n : a[i] = r[i]
      /\ b \in Seq(Int) /\ Len(b) = n + 1 /\ b[n + 1] = 0 /\ \A i \in 1 .. n : b[i] = s[i]
  <2>1. r \in Seq(Int) /\ s \in Seq(Int) /\ Len(r) = n /\ Len(s) = n
    OBVIOUS
  <2>2. QED
    BY <2>1
<1> HIDE DEF a, b
<1>2. /\ p \in 0 .. n + 1 /\ (\A i \in 1 .. p : a[i] # 0) /\ (p < n + 1 => a[p + 1] = 0)
      /\ q \in 0 .. n + 1 /\ (\A i \in 1 .. q : b[i] # 0) /\ (q < n + 1 => b[q + 1] = 0)
  BY <1>1, StrlenFacts
<1> HIDE DEF p, q
<1>3. p <= n /\ a[p + 1] = 0 /\ q <= n /\ b[q + 1] = 0
  <2>1. p # n + 1 /\ q # n + 1
    BY <1>1, <1>2
  <2>2. QED
    BY <1>2, <2>1
<1>4. ASSUME NEW i \in 1 .. n + 1, i <= p + 1 PROVE a[i] = b[i]
  <2>1. CASE i = n + 1
    BY <1>1, <2>1
  <2>2. CASE i \in 1 .. n
    <3>1. \A j \in 1 .. i - 1 : r[j] # 0
      BY <1>1, <1>2, <1>4, <2>2
    <3>2. r[i] = s[i]
      BY <2>2, <3>1 DEF Seal!SameKey
    <3>3. QED
      BY <1>1, <2>2, <3>2
  <2>3. QED
    BY <2>1, <2>2
<1>5. p = q
  <2>1. p + 1 \in 1 .. n + 1 /\ b[p + 1] = 0
    BY <1>2, <1>3, <1>4
  <2>2. ~ (p < q)
    BY <1>2, <2>1
  <2>3. ASSUME q < p PROVE FALSE
    <3>1. q + 1 \in 1 .. p /\ q + 1 \in 1 .. n + 1
      BY <1>2, <2>3
    <3>2. a[q + 1] = b[q + 1] /\ a[q + 1] # 0
      BY <1>2, <1>4, <3>1
    <3>3. QED
      BY <1>3, <3>2
  <2>4. QED
    BY <1>2, <2>2, <2>3
<1>6. SubSeq(a, 1, p) = SubSeq(b, 1, q)
  <2>1. SubSeq(a, 1, p) = [i \in 1 .. p |-> a[i]] /\ SubSeq(b, 1, p) = [i \in 1 .. p |-> b[i]]
    BY <1>1, <1>2
  <2>2. \A i \in 1 .. p : a[i] = b[i]
    BY <1>2, <1>3, <1>4
  <2>3. QED
    BY <1>5, <2>1, <2>2
<1>7. QED
  BY <1>6 DEF Seal!RandomKey, Seal!StringToKey, a, b, p, q

\* A key gives a key stream for an IV and a text of n bytes.
HasStream(own, iv, n) == KeyStream(own, iv, n) \in Seq(Int) /\ Len(KeyStream(own, iv, n)) = n

\* The streams agree with which a text of n bytes is encrypted and decrypted.
StreamsAgree(own, other, iv, n) ==
    \A i \in 1 .. n : KeyStream(own, iv, n)[i] % Base = KeyStream(other, Seal!Strncpy(iv), n)[i] % Base

\* The length of a concatenation.
LEMMA ConcatLen ==
    ASSUME NEW p \in Seq(Int), NEW q \in Seq(Int)
    PROVE  Len(p \o q) = Len(p) + Len(q)
OBVIOUS

\* What comes back from decrypt is the text if the two key streams agree, and only then.
LEMMA DecryptFacts ==
    ASSUME Base \in Nat \ {0}, IvSize \in Nat,
           NEW own, NEW other, NEW iv \in [1 .. IvSize -> Seal!Byte], NEW text \in Seq(Seal!Byte),
           HasStream(own, iv, Len(text)), HasStream(other, Seal!Strncpy(iv), Len(text))
    PROVE  Seal!Decrypt(other, Seal!Encrypt(own, iv, text)) = text
              <=> StreamsAgree(own, other, iv, Len(text))
<1> DEFINE n == Len(text)
           k == KeyStream(own, iv, n)
           l == KeyStream(other, Seal!Strncpy(iv), n)
           c == Seal!Plus(text, k)
           e == Seal!Encrypt(own, iv, text)
           d == Seal!Decrypt(other, e)
<1>0. k \in Seq(Int) /\ Len(k) = n /\ l \in Seq(Int) /\ Len(l) = n
  BY DEF HasStream
<1> HIDE DEF k, l
<1>1. c \in Seq(Int) /\ Len(c) = n /\ \A i \in 1 .. n : c[i] = (text[i] + k[i]) % Base
  <2>1. \A i \in 1 .. n : text[i] \in Int /\ k[i] \in Int
    BY <1>0 DEF Seal!Byte
  <2>2. \A i \in 1 .. n : (text[i] + k[i]) % Base \in Int
    BY <2>1
  <2>3. c = [i \in 1 .. n |-> (text[i] + k[i]) % Base]
    BY DEF Seal!Plus
  <2> HIDE DEF c
  <2>4. QED
    BY <2>2, <2>3
<1>2. e = iv \o c
  BY DEF Seal!Encrypt, k
<1> HIDE DEF c
<1>3. SubSeq(e, 1, IvSize) = iv /\ SubSeq(e, IvSize + 1, Len(e)) = c
  <2>1. iv \in Seq(Int) /\ Len(iv) = IvSize /\ n \in Nat
    BY DEF Seal!Byte
  <2> HIDE DEF e, n
  <2>2. Len(e) = IvSize + n
    <3>1. Len(c) = n /\ c \in Seq(Int)
      BY <1>1 DEF n
    <3> HIDE DEF n
    <3>2. Len(iv \o c) = Len(iv) + Len(c)
      BY <2>1, <3>1, ConcatLen
    <3>3. QED
      BY <1>2, <2>1, <3>1, <3>2
  <2>3. \A i \in 1 .. IvSize : e[i] = iv[i]
    BY <1>1, <1>2, <2>1
  <2>4. \A i \in 1 .. n : e[i + IvSize] = c[i]
    BY <1>1, <1>2, <2>1
  <2>5. e \in Seq(Int)
    BY <1>1, <1>2, <2>1
  <2>6. SubSeq(e, 1, IvSize) = [i \in 1 .. IvSize |-> e[i]]
    BY <2>2, <2>5
  <2>7. SubSeq(e, IvSize + 1, Len(e)) = [i \in 1 .. n |-> e[i + IvSize]]
    BY <2>1, <2>2, <2>5
  <2>8. iv = [i \in 1 .. IvSize |-> iv[i]] /\ c = [i \in 1 .. n |-> c[i]]
    BY <1>1, <2>1
  <2>9. QED
    BY <2>3, <2>4, <2>6, <2>7, <2>8
<1>4. d = [i \in 1 .. n |-> (c[i] - l[i]) % Base]
  <2>1. d = Seal!Minus(c, KeyStream(other, Seal!Strncpy(iv), Len(c)))
    BY <1>3 DEF Seal!Decrypt
  <2>2. d = Seal!Minus(c, l)
    BY <1>1, <2>1 DEF l
  <2>3. DOMAIN c = 1 .. n
    BY <1>1
  <2> HIDE DEF d
  <2>4. QED
    BY <2>2, <2>3 DEF Seal!Minus
<1>5. ASSUME NEW i \in 1 .. n
      PROVE  (c[i] - l[i]) % Base = text[i] <=> k[i] % Base = l[i] % Base
  <2> DEFINE x == text[i]
             y == k[i]
             z == l[i]
  <2>1. x \in Int /\ x \in 0 .. Base - 1 /\ y \in Int /\ z \in Int
    BY <1>0 DEF Seal!Byte
  <2>2. c[i] = (x + y) % Base
    BY <1>1
  <2> HIDE DEF x, y, z
  <2>3. x + y \in Int /\ (x + y) % Base \in Int
    BY <2>1
  <2>4. (Base * 0 + x) % Base = x
    BY <2>1, RemainderIs
  <2>5. x % Base = x
    BY <2>1, <2>4
  <2>6. Congruent((x + y) % Base, x + y, Base) /\ Congruent(z, z, Base)
        /\ Congruent(x, x, Base) /\ Congruent(y, y, Base)
    BY <2>1, <2>3, CongruentSelf
  <2>7. Congruent(((x + y) % Base) - z, (x + y) - z, Base)
    BY <2>1, <2>3, <2>6, CongruentSum
  <2>8. (((x + y) % Base) - z) % Base = ((x + y) - z) % Base
    <3>1. ((x + y) % Base) - z \in Int /\ (x + y) - z \in Int
      BY <2>1, <2>3
    <3>2. QED
      BY <2>7, <3>1, CongruentRemainders
  <2>9. ((x + y) - z) % Base = x % Base <=> y % Base = z % Base
    <3>1. (x + y) - z \in Int
      BY <2>1
    <3>2. ((x + y) - z) % Base = x % Base <=> Congruent((x + y) - z, x, Base)
      BY <2>1, <3>1, CongruentRemainders
    <3>3. y % Base = z % Base <=> Congruent(y, z, Base)
      BY <2>1, CongruentRemainders
    <3>4. \A p \in Int : (x + y) - z = x + Base * p <=> y = z + Base * p
      <4>1. ASSUME NEW p \in Int PROVE (x + y) - z = x + Base * p <=> y = z + Base * p
        <5> DEFINE m == Base * p
        <5>1. m \in Int
          OBVIOUS
        <5> HIDE DEF m
        <5>2. (x + y) - z = x + m <=> y = z + m
          BY <2>1, <5>1
        <5>3. QED
          BY <5>2 DEF m
      <4>2. QED
        BY <4>1
    <3>5. Congruent((x + y) - z, x, Base) <=> Congruent(y, z, Base)
      BY <3>4 DEF Congruent
    <3>6. QED
      BY <3>2, <3>3, <3>5
  <2>10. (c[i] - z) % Base = x <=> y % Base = z % Base
    BY <2>2, <2>5, <2>8, <2>9
  <2>11. QED
    BY <2>10 DEF x, y, z
<1>6. text = [i \in 1 .. n |-> text[i]]
  OBVIOUS
<1> HIDE DEF d
<1>7. d = text <=> \A i \in 1 .. n : (c[i] - l[i]) % Base = text[i]
  BY <1>4, <1>6
<1>8. QED
  BY <1>5, <1>7 DEF d, e, k, l, StreamsAgree

\* No other text compresses to what data compresses to, a text.
Lossless(data) == /\ Deflate(data) \in Seq(Seal!Byte)
                  /\ \A d \in Seq(Seal!Byte) : Deflate(d) = Deflate(data) => d = data

\* do_crypt_test: what is compressed and encrypted with one key comes back from decrypt
\* and decompress with another just if the key stream of the first key and the IV agrees,
\* byte by byte, with that of the other key and the IV as strncpy copies it.
THEOREM OpensWhenStreamsAgree ==
    ASSUME Base \in Nat \ {0}, IvSize \in Nat,
           NEW own, NEW other, NEW iv \in [1 .. IvSize -> Seal!Byte],
           NEW data \in Seq(Seal!Byte), Lossless(data),
           HasStream(own, iv, Len(Deflate(data))),
           HasStream(other, Seal!Strncpy(iv), Len(Deflate(data)))
    PROVE  Seal!CryptTest(own, other, iv, data) = {data}
              <=> StreamsAgree(own, other, iv, Len(Deflate(data)))
<1> DEFINE text == Deflate(data)
           d == Seal!Decrypt(other, Seal!Encrypt(own, iv, text))
           S == UNION {[1 .. m -> Seal!Byte] : m \in 0 .. Len(data)}
<1>1. text \in Seq(Seal!Byte)
  BY DEF Lossless
<1>2. d = text <=> StreamsAgree(own, other, iv, Len(text))
  <2>1. HasStream(own, iv, Len(text)) /\ HasStream(other, Seal!Strncpy(iv), Len(text))
    OBVIOUS
  <2> HIDE DEF text
  <2>2. QED
    BY <1>1, <2>1, DecryptFacts
<1>3. Seal!CryptTest(own, other, iv, data) = {x \in S : Deflate(x) = d}
  BY DEF Seal!CryptTest, Seal!Decompress, Seal!Compress
<1>4. data \in S
  <2>1. data \in [1 .. Len(data) -> Seal!Byte] /\ Len(data) \in 0 .. Len(data)
    OBVIOUS
  <2>2. QED
    BY <2>1
<1>5. \A x \in S : x \in Seq(Seal!Byte)
  <2>1. ASSUME NEW x \in S PROVE x \in Seq(Seal!Byte)
    <3>1. PICK m \in 0 .. Len(data) : x \in [1 .. m -> Seal!Byte]
      OBVIOUS
    <3>2. m \in Nat
      OBVIOUS
    <3>3. QED
      BY <3>1, <3>2
  <2>2. QED
    BY <2>1
<1> HIDE DEF S, d
<1>6. \A x \in S : Deflate(x) = text => x = data
  BY <1>5 DEF Lossless, text
<1>7. {x \in S : Deflate(x) = d} = {data} <=> d = text
  <2>1. ASSUME d = text PROVE {x \in S : Deflate(x) = d} = {data}
    BY <1>4, <1>6, <2>1 DEF text
  <2>2. ASSUME {x \in S : Deflate(x) = d} = {data} PROVE d = text
    BY <2>2 DEF text
  <2>3. QED
    BY <2>1, <2>2
<1>8. QED
  BY <1>2, <1>3, <1>7

\* Two runs whose random bytes agree up to the first NUL have one key, and what the one
\* seals comes back in the other, whatever the cipher, under each IV in which nothing but
\* NULs follows a NUL: strncpy loses nothing of such an IV.
THEOREM SealedComesBack ==
    ASSUME Base \in Nat \ {0}, IvSize \in Nat,
           NEW m \in Nat, NEW r \in [1 .. m -> Seal!Byte], NEW s \in [1 .. m -> Seal!Byte],
           Seal!SameKey(r, s),
           NEW iv \in [1 .. IvSize -> Seal!Byte], Seal!Survives(iv),
           NEW data \in Seq(Seal!Byte), Lossless(data),
           HasStream(Seal!RandomKey(r), iv, Len(Deflate(data)))
    PROVE  Seal!CryptTest(Seal!RandomKey(r), Seal!RandomKey(s), iv, data) = {data}
<1>1. Seal!RandomKey(r) = Seal!RandomKey(s)
  <2>1. r \in [1 .. m -> Int] /\ s \in [1 .. m -> Int]
    BY DEF Seal!Byte
  <2>2. QED
    BY <2>1, KeysSame
<1>2. Seal!Strncpy(iv) = iv
  <2>1. iv \in Seq(Int)
    BY DEF Seal!Byte
  <2>2. QED
    BY <2>1, StrncpySame
<1> DEFINE n == Len(Deflate(data))
           own == Seal!RandomKey(r)
<1>3. HasStream(own, iv, n) /\ HasStream(own, Seal!Strncpy(iv), n)
  BY <1>2
<1> HIDE DEF own
<1>4. Seal!CryptTest(own, own, iv, data) = {data} <=> StreamsAgree(own, own, iv, n)
  BY <1>3, OpensWhenStreamsAgree
<1>5. StreamsAgree(own, own, iv, n)
  BY <1>2 DEF StreamsAgree
<1>6. Seal!CryptTest(own, own, iv, data) = {data}
  BY <1>4, <1>5
<1>7. QED
  BY <1>1, <1>6 DEF own
=============================================================================
