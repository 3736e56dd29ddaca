---------------------------- MODULE Communicator ----------------------------
(***************************************************************************)
(* The Communicator of the rewrite, with threads: clients push blocks on a *)
(* queue, one worker thread takes them off in batches, writes each to the  *)
(* transport and then runs the completion actions of each, and a client    *)
(* that calls wait tells the worker to stop and joins it.                  *)
(*                                                                         *)
(* A step is a piece of a thread between two accesses to what threads      *)
(* share: m_queue, m_needed and the mutex.  The body of a lock_guard in    *)
(* push and queue_empty is one step; the only access to m_queue outside a  *)
(* lock is a read by the worker, which sees the queue before or after it.  *)
(* m_needed is not atomic, but every turn of the loops that read it calls  *)
(* a function the compiler cannot see through, so it is read afresh.       *)
(*                                                                         *)
(* A completion action is the sequence of blocks that it has still to push *)
(* on the same Communicator.  Written blocks are a history: what a         *)
(* transport does with a block is left out, except that it may throw.      *)
(***************************************************************************)
EXTENDS Integers, Sequences, FiniteSets, SequencesExt

CONSTANTS
    Client,      \* the threads that use the Communicator
    Worker,      \* its own thread
    Nobody,      \* the mutex is free
    Block,
    Wait,        \* in a program: a call of wait; any other entry is a push
    Program,     \* Program[c]: the calls that client c makes, in order
    Acts,        \* Acts[b]: the completion actions block b is pushed with
    BatchSize,   \* m_batch_size
    MayThrow     \* whether the transport may fail to write

ASSUME CommunicatorAssumption ==
    /\ Worker \notin Client /\ Nobody \notin Client \cup {Worker}
    /\ Wait \notin Block
    /\ Program \in [Client -> Seq(Block \cup {Wait})]
    /\ Acts \in [Block -> Seq(Seq(Block))]
    /\ BatchSize \in Nat \ {0}
    /\ MayThrow \in BOOLEAN

VARIABLES
    mutex,       \* m_queue_access: who holds it
    queue,       \* m_queue
    needed,      \* m_needed
    wpc,         \* where the worker is
    toWrite,     \* blocks_to_stage: those the first for_each has still to visit
    toComplete,  \* and those it has visited and the second one has not
    acts,        \* acts[b]: m_act_queue of block b
    cpc,         \* where client c is
    script,      \* the calls that client c has still to make
    \* history
    pushed,      \* the blocks that push was called with, by anybody
    written,     \* the blocks that the transport has written
    completed,   \* the blocks whose completion_action has returned
    mark         \* mark[c]: the length of pushed when c last called wait

workerVars == <<wpc, toWrite, toComplete, acts>>
clientVars == <<cpc, script, mark>>
vars == <<mutex, queue, needed, workerVars, clientVars, pushed, written, completed>>

Init ==
    /\ mutex = Nobody /\ queue = <<>> /\ needed = TRUE
    /\ wpc = "test" /\ toWrite = <<>> /\ toComplete = <<>> /\ acts = Acts
    /\ cpc = [c \in Client |-> "ready"] /\ script = Program
    /\ pushed = <<>> /\ written = <<>> /\ completed = <<>>
    /\ mark = [c \in Client |-> 0]

-----------------------------------------------------------------------------
\* Communicator::push, by a client or by a completion action.
Push(b) ==
    /\ mutex = Nobody
    /\ queue' = Append(queue, b)
    /\ pushed' = Append(pushed, b)

-----------------------------------------------------------------------------
(* The clients. *)

\* A client is between two calls, its last wait, if any, over: with the worker
\* joined, or given up.
Idle == {"ready", "joined", "gaveUp"}

\* A thread of a process that has called std::terminate does nothing.
Running == wpc # "thrown"

ClientPush(c) ==
    /\ Running
    /\ cpc[c] \in Idle /\ script[c] # <<>> /\ Head(script[c]) # Wait
    /\ Push(Head(script[c]))
    /\ script' = [script EXCEPT ![c] = Tail(@)]
    /\ UNCHANGED <<mutex, needed, workerVars, cpc, mark, written, completed>>

ClientWait(c) ==
    /\ Running
    /\ cpc[c] \in Idle /\ script[c] # <<>> /\ Head(script[c]) = Wait
    /\ script' = [script EXCEPT ![c] = Tail(@)]
    /\ cpc' = [cpc EXCEPT ![c] = "look"]
    /\ mark' = [mark EXCEPT ![c] = Len(pushed)]
    /\ UNCHANGED <<mutex, queue, needed, workerVars, pushed, written, completed>>

\* The loop of wait.  queue_empty, under the lock:
Look(c) ==
    /\ Running /\ cpc[c] = "look" /\ mutex = Nobody
    /\ cpc' = [cpc EXCEPT ![c] = IF queue = <<>> THEN "stop" ELSE "check"]
    /\ UNCHANGED <<mutex, queue, needed, workerVars, script, mark,
                   pushed, written, completed>>

\* Empty: the worker is told to stop ...
NotTell == UNCHANGED needed   \* mutant: m_needed stays as it is
Tell    == needed' = FALSE

Stop(c) ==
    /\ Running /\ cpc[c] = "stop"
    /\ Tell
    /\ cpc' = [cpc EXCEPT ![c] = "join"]
    /\ UNCHANGED <<mutex, queue, workerVars, script, mark, pushed, written, completed>>

\* ... and joined.  To join a thread that was joined before does nothing.
ThreadTold == ~needed   \* mutant: join is forgotten
ThreadGone == wpc = "ended"
Join(c) ==
    /\ Running /\ cpc[c] = "join" /\ ThreadGone
    /\ cpc' = [cpc EXCEPT ![c] = "joined"]
    /\ UNCHANGED <<mutex, queue, needed, workerVars, script, mark,
                   pushed, written, completed>>

\* Not empty: is there still a worker?  If so, sleep and look again.
Check(c) ==
    /\ Running /\ cpc[c] = "check"
    /\ cpc' = [cpc EXCEPT ![c] = IF needed THEN "look" ELSE "gaveUp"]
    /\ UNCHANGED <<mutex, queue, needed, workerVars, script, mark,
                   pushed, written, completed>>

-----------------------------------------------------------------------------
(* The worker. *)

\* while(m_needed)
Test ==
    /\ wpc = "test"
    /\ wpc' = IF needed THEN "peek" ELSE "ended"
    /\ UNCHANGED <<mutex, queue, needed, toWrite, toComplete, acts, clientVars,
                   pushed, written, completed>>

\* comm_batch looks at the queue without the lock, and sleeps if it is empty.
Peek ==
    /\ wpc = "peek"
    /\ wpc' = IF queue = <<>> THEN "test" ELSE "stage"
    /\ UNCHANGED <<mutex, queue, needed, toWrite, toComplete, acts, clientVars,
                   pushed, written, completed>>

\* Under the lock, at most a batch is taken off the front of the queue.
Batch == IF Len(queue) <= BatchSize THEN Len(queue) ELSE BatchSize

TakenBlind ==   \* mutant: the minimum is forgotten, front() of nothing is anything
    [i \in 1 .. BatchSize |-> IF i \in DOMAIN queue THEN queue[i] ELSE Nobody]
Taken == SubSeq(queue, 1, Batch)

LeftLess == SubSeq(queue, Batch, Len(queue))   \* mutant: one pop too few
Left     == SubSeq(queue, Batch + 1, Len(queue))

Stage ==
    /\ wpc = "stage" /\ mutex = Nobody
    /\ mutex' = Worker
    /\ toWrite' = Taken
    /\ queue' = Left
    /\ wpc' = "unlock"
    /\ UNCHANGED <<needed, toComplete, acts, clientVars, pushed, written, completed>>

\* The lock is given back before anything is written or completed.
Unlock ==
    /\ wpc = "unlock"
    /\ mutex' = Nobody
    /\ wpc' = "write"
    /\ UNCHANGED <<queue, needed, toWrite, toComplete, acts, clientVars,
                   pushed, written, completed>>

\* The first for_each: Transport::write ...
WriteBlock ==
    /\ wpc = "write" /\ toWrite # <<>>
    /\ written' = Append(written, Head(toWrite))
    /\ toComplete' = Append(toComplete, Head(toWrite))
    /\ toWrite' = Tail(toWrite)
    /\ UNCHANGED <<mutex, queue, needed, wpc, acts, clientVars, pushed, completed>>

\* ... may throw; nothing in the thread catches it and the process ends.
WriteThrows ==
    /\ MayThrow
    /\ wpc = "write" /\ toWrite # <<>>
    /\ wpc' = "thrown"
    /\ UNCHANGED <<mutex, queue, needed, toWrite, toComplete, acts, clientVars,
                   pushed, written, completed>>

WritesDone ==
    /\ wpc = "write" /\ toWrite = <<>>
    /\ wpc' = "complete"
    /\ UNCHANGED <<mutex, queue, needed, toWrite, toComplete, acts, clientVars,
                   pushed, written, completed>>

\* The second for_each: completion_action runs the actions of the block in
\* order.  An action pushes ...
ActPushes ==
    LET b == Head(toComplete)
    IN  /\ wpc = "complete" /\ toComplete # <<>>
        /\ acts[b] # <<>> /\ Head(acts[b]) # <<>>
        /\ Push(Head(Head(acts[b])))
        /\ acts' = [acts EXCEPT ![b] = <<Tail(Head(@))>> \o Tail(@)]
        /\ UNCHANGED <<mutex, needed, wpc, toWrite, toComplete, clientVars,
                       written, completed>>

\* ... and, when it has returned, is taken off the queue of the block.
ActReturns ==
    LET b == Head(toComplete)
    IN  /\ wpc = "complete" /\ toComplete # <<>>
        /\ acts[b] # <<>> /\ Head(acts[b]) = <<>>
        /\ acts' = [acts EXCEPT ![b] = Tail(@)]
        /\ UNCHANGED <<mutex, queue, needed, wpc, toWrite, toComplete, clientVars,
                       pushed, written, completed>>

CompleteBlock ==
    LET b == Head(toComplete)
    IN  /\ wpc = "complete" /\ toComplete # <<>> /\ acts[b] = <<>>
        /\ completed' = Append(completed, b)
        /\ toComplete' = Tail(toComplete)
        /\ UNCHANGED <<mutex, queue, needed, wpc, toWrite, acts, clientVars,
                       pushed, written>>

BatchDone ==
    /\ wpc = "complete" /\ toComplete = <<>>
    /\ wpc' = "test"
    /\ UNCHANGED <<mutex, queue, needed, toWrite, toComplete, acts, clientVars,
                   pushed, written, completed>>

-----------------------------------------------------------------------------
ClientStep(c) ==
    ClientPush(c) \/ ClientWait(c) \/ Look(c) \/ Stop(c) \/ Join(c) \/ Check(c)

WorkerStep ==
    \/ Test \/ Peek \/ Stage \/ Unlock \/ WriteBlock \/ WriteThrows \/ WritesDone
    \/ ActPushes \/ ActReturns \/ CompleteBlock \/ BatchDone

\* Every program has run, or the process is gone.
Rest == /\ \/ wpc = "thrown"
           \/ wpc = "ended" /\ \A c \in Client : cpc[c] \in Idle /\ script[c] = <<>>
        /\ UNCHANGED vars

Next == WorkerStep \/ Rest \/ \E c \in Client : ClientStep(c)

Spec == Init /\ [][Next]_vars

\* The kernel schedules every thread that can run.  Nothing is assumed of the
\* mutex beyond that: who waits for it gets it if it stays free.
Fairness == WF_vars(WorkerStep) /\ \A c \in Client : WF_vars(ClientStep(c))

FairSpec == Spec /\ Fairness

-----------------------------------------------------------------------------
(* Properties. *)

TypeOK ==
    /\ mutex \in {Nobody, Worker} /\ needed \in BOOLEAN
    /\ wpc \in {"test", "peek", "stage", "unlock", "write", "complete", "ended", "thrown"}
    /\ queue \in Seq(Block) /\ toWrite \in Seq(Block) /\ toComplete \in Seq(Block)
    /\ acts \in [Block -> Seq(Seq(Block))]
    /\ cpc \in [Client -> Idle \cup {"look", "stop", "join", "check"}]
    /\ script \in [Client -> Seq(Block \cup {Wait})]
    /\ pushed \in Seq(Block) /\ written \in Seq(Block) /\ completed \in Seq(Block)
    /\ mark \in [Client -> Nat]

\* Whoever pushes, and whenever, every block that was pushed is in one place:
\* completed, written, about to be written or in the queue, in the order of the
\* pushes.  So blocks are written once and in order, and none is completed before
\* it is written.
NothingLost ==
    /\ pushed = completed \o toComplete \o toWrite \o queue
    /\ written = completed \o toComplete

\* A wait that joined the worker has flushed: whatever had been pushed when it was
\* called is written and completed (db_test.cpp:89-91).  The worker may have been
\* in the middle of a batch when the queue was found empty; what is pushed after
\* that, by another client or a completion action, may stay in the queue for ever.
JoinFlushes == \A c \in Client : cpc[c] = "joined" => mark[c] <= Len(completed)

\* A call of wait comes back, unless a write threw.
WaitReturns ==
    \A c \in Client : (cpc[c] = "look") ~> (cpc[c] \in Idle \/ wpc = "thrown")
=============================================================================
