------------------------- MODULE CommunicatorProofs -------------------------
(***************************************************************************)
(* The Communicator loses nothing and keeps the order, and a wait that     *)
(* joined the worker has flushed: for any clients, programs, completion    *)
(* actions and batch size.                                                 *)
(***************************************************************************)
EXTENDS Communicator, TLAPS

\* Sequences of the same length and the same elements are the same.
LEMMA SameSequence ==
    ASSUME NEW S, NEW p \in Seq(S), NEW q \in Seq(S), Len(p) = Len(q),
           \A i \in 1 .. Len(p) : p[i] = q[i]
    PROVE  p = q
OBVIOUS

\* The first element of a sequence goes to the end of the one before it.
LEMMA MoveHead ==
    ASSUME NEW S, NEW p \in Seq(S), NEW q \in Seq(S), q # <<>>
    PROVE  /\ Head(q) \in S /\ Tail(q) \in Seq(S)
           /\ Append(p, Head(q)) \in Seq(S)
           /\ Append(p, Head(q)) \o Tail(q) = p \o q
<1>1. Head(q) \in S /\ Tail(q) \in Seq(S) /\ Append(p, Head(q)) \in Seq(S)
  OBVIOUS
<1>2. Len(Append(p, Head(q)) \o Tail(q)) = Len(p \o q)
  BY <1>1
<1>3. ASSUME NEW i \in 1 .. Len(p \o q)
      PROVE  (Append(p, Head(q)) \o Tail(q))[i] = (p \o q)[i]
  BY <1>1
<1>4. Append(p, Head(q)) \o Tail(q) \in Seq(S) /\ p \o q \in Seq(S)
  BY <1>1
<1>5. QED
  BY <1>1, <1>2, <1>3, <1>4

\* Concatenation is associative.
LEMMA Associative ==
    ASSUME NEW S, NEW p \in Seq(S), NEW q \in Seq(S), NEW r \in Seq(S)
    PROVE  (p \o q) \o r = p \o (q \o r)
<1>1. (p \o q) \o r \in Seq(S) /\ p \o (q \o r) \in Seq(S)
  OBVIOUS
<1>2. Len((p \o q) \o r) = Len(p \o (q \o r))
  OBVIOUS
<1>3. ASSUME NEW i \in 1 .. Len((p \o q) \o r)
      PROVE  ((p \o q) \o r)[i] = (p \o (q \o r))[i]
  OBVIOUS
<1>4. QED
  BY <1>1, <1>2, <1>3

\* What is appended to the second part is appended to the whole.
LEMMA AppendSecond ==
    ASSUME NEW S, NEW p \in Seq(S), NEW q \in Seq(S), NEW e \in S
    PROVE  p \o Append(q, e) = Append(p \o q, e)
<1>1. p \o Append(q, e) \in Seq(S) /\ Append(p \o q, e) \in Seq(S)
  OBVIOUS
<1>2. Len(p \o Append(q, e)) = Len(Append(p \o q, e))
  OBVIOUS
<1>3. ASSUME NEW i \in 1 .. Len(Append(p \o q, e))
      PROVE  (p \o Append(q, e))[i] = Append(p \o q, e)[i]
  OBVIOUS
<1>4. QED
  BY <1>1, <1>2, <1>3

\* A sequence is what its two parts make when put together.
LEMMA Parts ==
    ASSUME NEW S, NEW q \in Seq(S), NEW a \in Seq(S), NEW b \in Seq(S),
           Len(a) + Len(b) = Len(q),
           \A i \in 1 .. Len(a) : a[i] = q[i],
           \A i \in 1 .. Len(b) : b[i] = q[Len(a) + i]
    PROVE  a \o b = q
<1>1. a \o b \in Seq(S) /\ Len(a \o b) = Len(q)
  OBVIOUS
<1>2. ASSUME NEW i \in 1 .. Len(a \o b) PROVE (a \o b)[i] = q[i]
  <2>1. Len(a) \in Nat /\ Len(b) \in Nat /\ i \in Nat /\ i <= Len(a) + Len(b)
    BY <1>1
  <2>2. CASE i <= Len(a)
    BY <2>2
  <2>3. CASE Len(a) < i
    <3>1. i - Len(a) \in 1 .. Len(b)
      BY <2>1, <2>3
    <3>2. (a \o b)[i] = b[i - Len(a)]
      BY <2>1, <2>3
    <3>3. b[i - Len(a)] = q[Len(a) + (i - Len(a))]
      BY <3>1
    <3>4. QED
      BY <2>1, <3>2, <3>3
  <2>4. QED
    BY <2>1, <2>2, <2>3
<1> DEFINE x == a \o b
<1>3. x \in Seq(S) /\ Len(x) = Len(q) /\ \A i \in 1 .. Len(x) : x[i] = q[i]
  BY <1>1, <1>2
<1> HIDE DEF x
<1>4. x = q
  BY <1>3, SameSequence
<1>5. QED
  BY <1>4 DEF x

\* A sequence is cut in two.
LEMMA CutAt ==
    ASSUME NEW S, NEW q \in Seq(S), NEW n \in 0 .. Len(q)
    PROVE  /\ SubSeq(q, 1, n) \in Seq(S)
           /\ SubSeq(q, n + 1, Len(q)) \in Seq(S)
           /\ Len(SubSeq(q, n + 1, Len(q))) <= Len(q)
           /\ SubSeq(q, 1, n) \o SubSeq(q, n + 1, Len(q)) = q
<1> DEFINE a == SubSeq(q, 1, n)
           b == SubSeq(q, n + 1, Len(q))
<1>1. a \in Seq(S) /\ Len(a) = n
  OBVIOUS
<1>2. b \in Seq(S) /\ Len(b) = Len(q) - n
  OBVIOUS
<1>3. \A i \in 1 .. n : a[i] = q[i]
  OBVIOUS
<1>4. \A i \in 1 .. Len(q) - n : b[i] = q[n + i]
  OBVIOUS
<1>0. n \in Nat /\ Len(q) \in Nat
  OBVIOUS
<1> HIDE DEF a, b
<1>5. Len(a) + Len(b) = Len(q) /\ Len(b) <= Len(q)
  BY <1>0, <1>1, <1>2
<1>6. a \o b = q
  <2>1. \A i \in 1 .. Len(a) : a[i] = q[i]
    BY <1>1, <1>3
  <2>2. \A i \in 1 .. Len(b) : b[i] = q[Len(a) + i]
    BY <1>1, <1>2, <1>4
  <2>3. QED
    BY <1>1, <1>2, <1>5, <2>1, <2>2, Parts
<1>7. a \in Seq(S) /\ b \in Seq(S) /\ Len(b) <= Len(q) /\ a \o b = q
  BY <1>1, <1>2, <1>5, <1>6
<1>8. QED
  BY <1>7, Zenon DEF a, b

-----------------------------------------------------------------------------
\* Every step of a client, of the worker or of neither keeps the types.
LEMMA TypesKept == TypeOK /\ [Next]_vars => TypeOK'
<1> USE CommunicatorAssumption
<1> SUFFICES ASSUME TypeOK, [Next]_vars PROVE TypeOK'
  OBVIOUS
<1>1. ASSUME NEW c \in Client, ClientPush(c) PROVE TypeOK'
  <2> DEFINE p == script[c]
  <2>1. p \in Seq(Block \cup {Wait}) /\ p # <<>> /\ Head(p) # Wait
    BY <1>1 DEF ClientPush, TypeOK
  <2>2. Head(p) \in Block /\ Tail(p) \in Seq(Block \cup {Wait})
    BY <2>1
  <2>3. /\ queue' = Append(queue, Head(p)) /\ pushed' = Append(pushed, Head(p))
        /\ script' = [script EXCEPT ![c] = Tail(p)]
    BY <1>1 DEF ClientPush, Push
  <2> HIDE DEF p
  <2>4. /\ queue' \in Seq(Block) /\ pushed' \in Seq(Block)
        /\ script' \in [Client -> Seq(Block \cup {Wait})]
    <3> DEFINE h == Head(p)
               r == Tail(p)
    <3>1. h \in Block /\ r \in Seq(Block \cup {Wait})
      BY <2>2
    <3> HIDE DEF h, r
    <3>2. queue' \in Seq(Block) /\ pushed' \in Seq(Block)
      BY <2>3, <3>1 DEF TypeOK, h
    <3>3. script' \in [Client -> Seq(Block \cup {Wait})]
      BY <2>3, <3>1 DEF TypeOK, r
    <3>4. QED
      BY <3>2, <3>3
  <2>5. QED
    BY <1>1, <2>4 DEF ClientPush, TypeOK, workerVars
<1>2. ASSUME NEW c \in Client, ClientWait(c) PROVE TypeOK'
  BY <1>2 DEF ClientWait, TypeOK, workerVars, Idle
<1>3. ASSUME NEW c \in Client, Look(c) PROVE TypeOK'
  BY <1>3 DEF Look, TypeOK, workerVars, Idle
<1>4. ASSUME NEW c \in Client, Stop(c) PROVE TypeOK'
  BY <1>4 DEF Stop, Tell, TypeOK, workerVars, Idle
<1>5. ASSUME NEW c \in Client, Join(c) PROVE TypeOK'
  BY <1>5 DEF Join, TypeOK, workerVars, Idle
<1>6. ASSUME NEW c \in Client, Check(c) PROVE TypeOK'
  BY <1>6 DEF Check, TypeOK, workerVars, Idle
<1>7. CASE Test
  BY <1>7 DEF Test, TypeOK, clientVars
<1>8. CASE Peek
  BY <1>8 DEF Peek, TypeOK, clientVars
<1>9. CASE Stage
  <2>1. queue \in Seq(Block) /\ Batch \in 0 .. Len(queue)
    BY DEF TypeOK, Batch
  <2>2. Taken \in Seq(Block) /\ Left \in Seq(Block)
    BY <2>1, CutAt DEF Taken, Left
  <2>3. QED
    BY <1>9, <2>2 DEF Stage, TypeOK, clientVars
<1>10. CASE Unlock
  BY <1>10 DEF Unlock, TypeOK, clientVars
<1>11. CASE WriteBlock
  <2> DEFINE h == Head(toWrite)
  <2>1. toWrite \in Seq(Block) /\ toWrite # <<>>
    BY <1>11 DEF WriteBlock, TypeOK
  <2>2. h \in Block /\ Tail(toWrite) \in Seq(Block)
    BY <2>1
  <2>3. /\ written' = Append(written, h) /\ toComplete' = Append(toComplete, h)
        /\ toWrite' = Tail(toWrite)
    BY <1>11 DEF WriteBlock
  <2> HIDE DEF h
  <2>4. written' \in Seq(Block) /\ toComplete' \in Seq(Block) /\ toWrite' \in Seq(Block)
    BY <2>2, <2>3 DEF TypeOK
  <2>5. QED
    BY <1>11, <2>4 DEF WriteBlock, TypeOK, clientVars
<1>12. CASE WriteThrows
  BY <1>12 DEF WriteThrows, TypeOK, clientVars
<1>13. CASE WritesDone
  BY <1>13 DEF WritesDone, TypeOK, clientVars
<1>14. CASE ActPushes
  <2> DEFINE b == Head(toComplete)
             a == acts[b]
  <2>1. b \in Block /\ a \in Seq(Seq(Block)) /\ a # <<>> /\ Head(a) # <<>>
    BY <1>14 DEF ActPushes, TypeOK
  <2>2. Head(a) \in Seq(Block) /\ Tail(a) \in Seq(Seq(Block))
    BY <2>1
  <2>3. Head(Head(a)) \in Block /\ Tail(Head(a)) \in Seq(Block)
    BY <2>1, <2>2
  <2>4. <<Tail(Head(a))>> \o Tail(a) \in Seq(Seq(Block))
    BY <2>2, <2>3
  <2>5. /\ queue' = Append(queue, Head(Head(a))) /\ pushed' = Append(pushed, Head(Head(a)))
        /\ acts' = [acts EXCEPT ![b] = <<Tail(Head(a))>> \o Tail(a)]
    BY <1>14 DEF ActPushes, Push
  <2> HIDE DEF a
  <2>6. queue' \in Seq(Block) /\ pushed' \in Seq(Block)
    BY <2>3, <2>5 DEF TypeOK
  <2>7. acts' \in [Block -> Seq(Seq(Block))]
    BY <2>1, <2>4, <2>5 DEF TypeOK
  <2>8. QED
    BY <1>14, <2>6, <2>7 DEF ActPushes, TypeOK, clientVars
<1>15. CASE ActReturns
  <2> DEFINE b == Head(toComplete)
  <2>1. b \in Block /\ acts[b] \in Seq(Seq(Block)) /\ acts[b] # <<>>
    BY <1>15 DEF ActReturns, TypeOK
  <2>2. Tail(acts[b]) \in Seq(Seq(Block))
    BY <2>1
  <2>3. acts' = [acts EXCEPT ![b] = Tail(acts[b])]
    BY <1>15 DEF ActReturns
  <2>4. acts' \in [Block -> Seq(Seq(Block))]
    BY <2>1, <2>2, <2>3 DEF TypeOK
  <2>5. QED
    BY <1>15, <2>4 DEF ActReturns, TypeOK, clientVars
<1>16. CASE CompleteBlock
  <2>1. Head(toComplete) \in Block /\ Tail(toComplete) \in Seq(Block)
    BY <1>16 DEF CompleteBlock, TypeOK
  <2>2. completed' \in Seq(Block) /\ toComplete' \in Seq(Block)
    BY <1>16, <2>1 DEF CompleteBlock, TypeOK
  <2>3. QED
    BY <1>16, <2>2 DEF CompleteBlock, TypeOK, clientVars
<1>17. CASE BatchDone
  BY <1>17 DEF BatchDone, TypeOK, clientVars
<1>18. CASE Rest \/ UNCHANGED vars
  BY <1>18 DEF Rest, TypeOK, vars, workerVars, clientVars
<1>19. QED
  BY <1>1, <1>2, <1>3, <1>4, <1>5, <1>6, <1>7, <1>8, <1>9, <1>10, <1>11, <1>12,
     <1>13, <1>14, <1>15, <1>16, <1>17, <1>18
  DEF Next, WorkerStep, ClientStep

\* The types, for all programs.
THEOREM TypesHold == Spec => []TypeOK
<1>1. Init => TypeOK
  BY CommunicatorAssumption DEF Init, TypeOK, Idle
<1>2. QED
  BY <1>1, TypesKept, PTL DEF Spec

-----------------------------------------------------------------------------
(* What else is kept, whoever moves.                                         *)

\* Between two batches the worker has nothing in its hands, and it completes
\* nothing before it has written everything.
PhaseInv ==
    /\ wpc \in {"test", "peek", "stage", "ended"} => toWrite = <<>> /\ toComplete = <<>>
    /\ wpc = "unlock" => toComplete = <<>>
    /\ wpc = "complete" => toWrite = <<>>

\* Client c has seen the queue empty since it called wait: what had been pushed
\* by then has left the queue, and after the join it is completed.
MarkInv ==
    \A c \in Client :
        /\ mark[c] <= Len(pushed)
        /\ cpc[c] \in {"stop", "join"} => mark[c] + Len(queue) <= Len(pushed)
        /\ cpc[c] = "joined" => mark[c] <= Len(completed)

\* Only the worker moves blocks, and it leaves a phase with empty hands.
LEMMA PhaseKept == TypeOK /\ PhaseInv /\ [Next]_vars => PhaseInv'
<1> SUFFICES ASSUME TypeOK, PhaseInv, [Next]_vars PROVE PhaseInv'
  OBVIOUS
<1>1. ASSUME NEW c \in Client, ClientStep(c) PROVE PhaseInv'
  BY <1>1 DEF ClientStep, ClientPush, ClientWait, Look, Stop, Join, Check, workerVars,
              PhaseInv
<1>2. CASE WorkerStep
  <2>1. CASE Test \/ Peek \/ Stage \/ Unlock
    BY <2>1 DEF Test, Peek, Stage, Unlock, PhaseInv
  <2>2. CASE WriteBlock \/ WriteThrows \/ WritesDone
    BY <2>2 DEF WriteBlock, WriteThrows, WritesDone, PhaseInv
  <2>3. CASE ActPushes \/ ActReturns \/ CompleteBlock \/ BatchDone
    BY <2>3 DEF ActPushes, ActReturns, CompleteBlock, BatchDone, PhaseInv
  <2>4. QED
    BY <1>2, <2>1, <2>2, <2>3 DEF WorkerStep
<1>3. CASE Rest \/ UNCHANGED vars
  BY <1>3 DEF Rest, vars, workerVars, PhaseInv
<1>4. QED
  BY <1>1, <1>2, <1>3 DEF Next

\* A push goes to the end of the whole.
LEMMA PushKeeps ==
    ASSUME TypeOK, NothingLost, NEW b \in Block, Push(b),
           UNCHANGED <<toWrite, toComplete, written, completed>>
    PROVE  NothingLost'
<1> DEFINE x == completed \o toComplete \o toWrite
<1>1. x \in Seq(Block) /\ queue \in Seq(Block)
  BY DEF TypeOK
<1>2. pushed = x \o queue
  BY DEF NothingLost
<1>3. pushed' = Append(pushed, b) /\ queue' = Append(queue, b)
  BY DEF Push
<1> HIDE DEF x
<1>4. pushed' = x \o queue'
  <2>1. x \o Append(queue, b) = Append(x \o queue, b)
    BY <1>1, AppendSecond
  <2>2. QED
    BY <1>2, <1>3, <2>1
<1>5. QED
  BY <1>4 DEF x, NothingLost

\* A block that moves keeps its place between those before it and those after it.
LEMMA OrderKept == TypeOK /\ PhaseInv /\ NothingLost /\ [Next]_vars => NothingLost'
<1> SUFFICES ASSUME TypeOK, PhaseInv, NothingLost, [Next]_vars PROVE NothingLost'
  OBVIOUS
<1>1. ASSUME NEW c \in Client, ClientPush(c) PROVE NothingLost'
  <2>1. Head(script[c]) \in Block
    <3>1. script[c] \in Seq(Block \cup {Wait}) /\ script[c] # <<>> /\ Head(script[c]) # Wait
      BY <1>1 DEF ClientPush, TypeOK
    <3>2. QED
      BY <3>1
  <2>2. QED
    BY <1>1, <2>1, PushKeeps DEF ClientPush, workerVars
<1>2. ASSUME NEW c \in Client, ClientStep(c), ~ClientPush(c) PROVE NothingLost'
  BY <1>2 DEF ClientStep, ClientWait, Look, Stop, Join, Check, workerVars, NothingLost
<1>3. CASE Stage
  <2> DEFINE x == completed \o toComplete
  <2>1. /\ x \in Seq(Block) /\ queue \in Seq(Block) /\ Batch \in 0 .. Len(queue)
    BY CommunicatorAssumption DEF TypeOK, Batch
  <2>2. /\ Taken \in Seq(Block) /\ Left \in Seq(Block) /\ Taken \o Left = queue
    BY <2>1, CutAt DEF Taken, Left
  <2>3. toWrite = <<>> /\ toWrite' = Taken /\ queue' = Left /\ x' = x /\ pushed' = pushed
        /\ written' = written
    BY <1>3 DEF Stage, PhaseInv
  <2>4. pushed = (x \o <<>>) \o queue /\ written = x
    BY <2>3 DEF NothingLost
  <2> HIDE DEF x
  <2>5. x \o <<>> = x
    BY <2>1
  <2>6. (x \o Taken) \o Left = x \o queue
    <3>1. Taken \in Seq(Block) /\ Left \in Seq(Block) /\ x \in Seq(Block)
      BY <2>1, <2>2
    <3>2. (x \o Taken) \o Left = x \o (Taken \o Left)
      BY <3>1, Associative
    <3>3. QED
      BY <2>2, <3>2
  <2>7. pushed' = (x' \o toWrite') \o queue' /\ written' = x'
    BY <2>3, <2>4, <2>5, <2>6
  <2>8. QED
    BY <2>7 DEF x, NothingLost
<1>4. CASE WriteBlock
  <2> DEFINE x == completed \o toComplete
             h == Head(toWrite)
  <2>1. /\ x \in Seq(Block) /\ completed \in Seq(Block) /\ toComplete \in Seq(Block)
        /\ toWrite \in Seq(Block) /\ toWrite # <<>>
    BY <1>4 DEF TypeOK, WriteBlock
  <2>2. /\ toComplete' = Append(toComplete, h) /\ toWrite' = Tail(toWrite)
        /\ written' = Append(written, h)
        /\ completed' = completed /\ pushed' = pushed /\ queue' = queue
    BY <1>4 DEF WriteBlock
  <2>3. h \in Block /\ Append(x, h) \o Tail(toWrite) = x \o toWrite
    <3> HIDE DEF x
    <3>1. x \in Seq(Block) /\ toWrite \in Seq(Block) /\ toWrite # <<>>
      BY <2>1
    <3>2. /\ Head(toWrite) \in Block
          /\ Append(x, Head(toWrite)) \o Tail(toWrite) = x \o toWrite
      BY ONLY <3>1, MoveHead
    <3>3. QED
      BY <3>2 DEF h
  <2>4. completed \o Append(toComplete, h) = Append(x, h)
    BY <2>1, <2>3, AppendSecond
  <2>5. pushed = (x \o toWrite) \o queue /\ written = x
    BY DEF NothingLost
  <2>6. completed' \o toComplete' = Append(x, h)
    BY <2>2, <2>4
  <2> HIDE DEF x, h
  <2>7. /\ pushed' = ((completed' \o toComplete') \o toWrite') \o queue'
        /\ written' = completed' \o toComplete'
    BY <2>2, <2>3, <2>5, <2>6
  <2>8. QED
    BY <2>7 DEF NothingLost
<1>5. CASE CompleteBlock
  <2>1. completed \in Seq(Block) /\ toComplete \in Seq(Block) /\ toComplete # <<>>
    BY <1>5 DEF CompleteBlock, TypeOK
  <2>2. Append(completed, Head(toComplete)) \o Tail(toComplete) = completed \o toComplete
    BY <2>1, MoveHead
  <2>3. completed' \o toComplete' = completed \o toComplete
    BY <1>5, <2>2 DEF CompleteBlock
  <2>4. QED
    BY <1>5, <2>3 DEF CompleteBlock, NothingLost
<1>6. CASE ActPushes
  <2> DEFINE a == acts[Head(toComplete)]
  <2>1. a \in Seq(Seq(Block)) /\ a # <<>> /\ Head(a) # <<>>
    BY <1>6 DEF ActPushes, TypeOK
  <2>2. Head(a) \in Seq(Block)
    BY <2>1
  <2>3. Head(Head(a)) \in Block
    BY <2>1, <2>2
  <2>4. QED
    BY <1>6, <2>3, PushKeeps DEF ActPushes
<1>7. CASE Test \/ Peek \/ Unlock \/ WriteThrows \/ WritesDone \/ ActReturns \/ BatchDone
  BY <1>7 DEF Test, Peek, Unlock, WriteThrows, WritesDone, ActReturns, BatchDone, NothingLost
<1>8. CASE Rest \/ UNCHANGED vars
  BY <1>8 DEF Rest, vars, workerVars, NothingLost
<1>9. QED
  BY <1>1, <1>2, <1>3, <1>4, <1>5, <1>6, <1>7, <1>8 DEF Next, WorkerStep

\* Nothing is taken back: pushes and completions only add up, and what has left
\* the queue stays out of it.
Grown == /\ Len(pushed') >= Len(pushed)
         /\ Len(completed') >= Len(completed)
         /\ Len(pushed') - Len(queue') >= Len(pushed) - Len(queue)

\* A push adds one to the pushed blocks and to the queue.
LEMMA PushGrows ==
    ASSUME TypeOK, NEW b, Push(b), UNCHANGED completed
    PROVE  Grown
<1>1. /\ Len(pushed') = Len(pushed) + 1 /\ Len(queue') = Len(queue) + 1
      /\ Len(completed') = Len(completed)
  BY DEF TypeOK, Push
<1>2. Len(pushed) \in Nat /\ Len(queue) \in Nat /\ Len(completed) \in Nat
  BY DEF TypeOK
<1>3. QED
  BY <1>1, <1>2 DEF Grown

\* So does every step, or it leaves the lengths alone or the queue shorter.
LEMMA LengthsGrow == TypeOK /\ [Next]_vars => Grown
<1> SUFFICES ASSUME TypeOK, [Next]_vars PROVE Grown
  OBVIOUS
<1>0. Len(pushed) \in Nat /\ Len(queue) \in Nat /\ Len(completed) \in Nat
  BY DEF TypeOK
<1>1. ASSUME NEW c \in Client, ClientPush(c) PROVE Grown
  BY <1>1, PushGrows DEF ClientPush
<1>2. CASE ActPushes
  BY <1>2, PushGrows DEF ActPushes
<1>3. CASE Stage
  <2>1. queue \in Seq(Block) /\ Batch \in 0 .. Len(queue)
    BY CommunicatorAssumption DEF TypeOK, Batch
  <2>2. Len(Left) <= Len(queue) /\ Left \in Seq(Block)
    BY <2>1, CutAt DEF Left
  <2>3. queue' = Left /\ pushed' = pushed /\ completed' = completed
    BY <1>3 DEF Stage
  <2>4. Len(Left) \in Nat
    BY <2>2
  <2>5. QED
    BY <1>0, <2>2, <2>3, <2>4 DEF Grown
<1>4. CASE CompleteBlock
  <2>1. Len(completed') = Len(completed) + 1 /\ pushed' = pushed /\ queue' = queue
    BY <1>4 DEF CompleteBlock, TypeOK
  <2>2. QED
    BY <1>0, <2>1 DEF Grown
<1>5. CASE UNCHANGED <<queue, pushed, completed>>
  BY <1>0, <1>5 DEF Grown
<1>6. QED
  BY <1>1, <1>2, <1>3, <1>4, <1>5
  DEF Next, ClientStep, WorkerStep, ClientWait, Look, Stop, Join, Check, Test, Peek,
      Unlock, WriteBlock, WriteThrows, WritesDone, ActReturns, BatchDone, Rest, vars

\* What a wait has seen stays true while it stops and joins the worker: an ended
\* worker has nothing in its hands, so what left the queue is completed.
LEMMA MarkKept ==
    TypeOK /\ PhaseInv /\ NothingLost /\ MarkInv /\ [Next]_vars => MarkInv'
<1> SUFFICES ASSUME TypeOK, PhaseInv, NothingLost, MarkInv, [Next]_vars,
                    NEW c \in Client
             PROVE  /\ mark'[c] <= Len(pushed')
                    /\ cpc'[c] \in {"stop", "join"} => mark'[c] + Len(queue') <= Len(pushed')
                    /\ cpc'[c] = "joined" => mark'[c] <= Len(completed')
  BY DEF MarkInv
<1> DEFINE Goal == /\ mark'[c] <= Len(pushed')
                   /\ cpc'[c] \in {"stop", "join"} => mark'[c] + Len(queue') <= Len(pushed')
                   /\ cpc'[c] = "joined" => mark'[c] <= Len(completed')
<1>1. TypeOK' /\ Grown
  BY TypesKept, LengthsGrow
<1>2. /\ Len(pushed) \in Nat /\ Len(queue) \in Nat /\ Len(completed) \in Nat
      /\ Len(pushed') \in Nat /\ Len(queue') \in Nat /\ Len(completed') \in Nat
      /\ mark[c] \in Nat
  BY <1>1 DEF TypeOK
<1>3. /\ mark[c] <= Len(pushed)
      /\ cpc[c] \in {"stop", "join"} => mark[c] + Len(queue) <= Len(pushed)
      /\ cpc[c] = "joined" => mark[c] <= Len(completed)
  BY DEF MarkInv
<1>4. CASE cpc'[c] = cpc[c] /\ mark'[c] = mark[c]
  BY <1>1, <1>2, <1>3, <1>4 DEF Grown
<1>5. CASE ClientWait(c)
  <2>1. mark'[c] = Len(pushed) /\ cpc'[c] = "look"
    BY <1>5 DEF ClientWait, TypeOK
  <2>2. QED
    BY <1>1, <1>2, <2>1 DEF Grown
<1>6. CASE Look(c)
  <2>1. /\ mark'[c] = mark[c] /\ pushed' = pushed /\ queue' = queue
        /\ cpc'[c] = IF queue = <<>> THEN "stop" ELSE "check"
    BY <1>6 DEF Look, TypeOK
  <2>2. queue = <<>> => Len(queue) = 0
    OBVIOUS
  <2>3. QED
    BY <1>2, <1>3, <2>1, <2>2
<1>7. CASE Stop(c)
  <2>1. /\ mark'[c] = mark[c] /\ pushed' = pushed /\ queue' = queue
        /\ cpc[c] = "stop" /\ cpc'[c] = "join"
    BY <1>7 DEF Stop, TypeOK
  <2>2. QED
    BY <1>2, <1>3, <2>1
<1>8. CASE Join(c)
  <2>1. /\ mark'[c] = mark[c] /\ pushed' = pushed /\ completed' = completed
        /\ cpc[c] = "join" /\ cpc'[c] = "joined" /\ wpc = "ended"
    BY <1>8 DEF Join, ThreadGone, TypeOK
  <2>2. toWrite = <<>> /\ toComplete = <<>>
    BY <2>1 DEF PhaseInv
  <2>3. Len(pushed) = Len(completed) + Len(queue)
    <3>1. completed \in Seq(Block) /\ queue \in Seq(Block)
      BY DEF TypeOK
    <3>2. pushed = ((completed \o <<>>) \o <<>>) \o queue
      BY <2>2 DEF NothingLost
    <3>3. completed \o <<>> = completed
      BY <3>1
    <3>4. QED
      BY <3>1, <3>2, <3>3
  <2>4. QED
    BY <1>2, <1>3, <2>1, <2>3
<1>9. CASE Check(c)
  <2>1. mark'[c] = mark[c] /\ pushed' = pushed /\ cpc'[c] \in {"look", "gaveUp"}
    BY <1>9 DEF Check, TypeOK
  <2>2. QED
    BY <1>2, <1>3, <2>1
<1>10. ASSUME NEW d \in Client, ClientStep(d), d # c
       PROVE  cpc'[c] = cpc[c] /\ mark'[c] = mark[c]
  BY <1>10 DEF ClientStep, ClientPush, ClientWait, Look, Stop, Join, Check, TypeOK
<1>11. CASE ClientPush(c) \/ WorkerStep \/ Rest \/ UNCHANGED vars
  <2>1. cpc'[c] = cpc[c] /\ mark'[c] = mark[c]
    BY <1>11
    DEF ClientPush, WorkerStep, Test, Peek, Stage, Unlock, WriteBlock, WriteThrows,
        WritesDone, ActPushes, ActReturns, CompleteBlock, BatchDone, Rest, vars, clientVars
  <2>2. QED
    BY <1>4, <2>1
<1> HIDE DEF Goal
<1>12. Goal
  <2>1. CASE \E d \in Client : ClientStep(d)
    BY <1>4, <1>5, <1>6, <1>7, <1>8, <1>9, <1>10, <1>11, <2>1 DEF ClientStep, Goal
  <2>2. QED
    BY <1>11, <2>1 DEF Next, Goal
<1>13. QED
  BY <1>12 DEF Goal

-----------------------------------------------------------------------------
\* The inductive invariant.
Inv == TypeOK /\ PhaseInv /\ NothingLost /\ MarkInv

\* The invariant holds at the start and is kept by every step.
LEMMA InvHolds == Spec => []Inv
<1>1. Init => Inv
  <2> SUFFICES ASSUME Init PROVE Inv
    OBVIOUS
  <2>1. TypeOK
    BY CommunicatorAssumption DEF Init, TypeOK, Idle
  <2>2. NothingLost
    BY DEF Init, NothingLost
  <2>3. PhaseInv /\ MarkInv
    BY DEF Init, PhaseInv, MarkInv
  <2>4. QED
    BY <2>1, <2>2, <2>3 DEF Inv
<1>2. Inv /\ [Next]_vars => Inv'
  BY TypesKept, PhaseKept, OrderKept, MarkKept DEF Inv
<1>3. QED
  BY <1>1, <1>2, PTL DEF Spec

\* No block is lost, written twice, written out of order or completed before it is
\* written.
THEOREM NothingIsLost == Spec => []NothingLost
<1>1. Inv => NothingLost
  BY DEF Inv
<1>2. QED
  BY <1>1, InvHolds, PTL

\* A wait that joined the worker has flushed what was pushed before it.
THEOREM JoinHasFlushed == Spec => []JoinFlushes
<1>1. Inv => JoinFlushes
  BY DEF Inv, MarkInv, JoinFlushes
<1>2. QED
  BY <1>1, InvHolds, PTL
=============================================================================
