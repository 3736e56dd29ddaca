--------------------------- MODULE BackupSession ---------------------------
(***************************************************************************)
(* A backup run of cryptar version 1: the client's event loop, its work    *)
(* list of tickets and its Berkeley DB tables, the pipe pair to the        *)
(* server, the server's handlers and its archive table, over any number    *)
(* of runs, with signals and lost connections in between.                  *)
(*                                                                         *)
(* Each process is single threaded: glib dispatches one handler at a time, *)
(* so an action is a handler.  The one loop that is cut in steps is        *)
(* wt_process_queue (pc = "fill"), which runs to its end before any other  *)
(* handler of the client but not before the server or a signal.            *)
(*                                                                         *)
(* What is abstracted:                                                     *)
(*  - a file id is the file (filename.c gives each name one id);           *)
(*  - the bytes of a block are a number; two blocks of the same bytes have *)
(*    the same number.  Compression and encryption are left out: several   *)
(*    runs are those of a CLEARTEXT build, since any other draws a new key *)
(*    each time and cannot open its old lists (ExtractSession);            *)
(*  - sizes are counted in messages: Desired is desired_queue_size;        *)
(*  - offsets and lengths: which old blocks a cover reuses and how many    *)
(*    blocks it adds are free choices within bounds;                       *)
(*  - the greeting (hello, hello ack) has taken place: a run begins in     *)
(*    do_archive, inside the input handler that received the ack;          *)
(*  - an object is shorter than 65536 bytes, so that the 16-bit length of  *)
(*    remote.c loses nothing.                                              *)
(***************************************************************************)
EXTENDS Integers, Sequences, FiniteSets, SequencesExt

CONSTANTS
    File,         \* the files of the client
    NoFile,       \* the file field of a message about no file
    Nothing,      \* the archived copy of a file that was never archived
    Plan,         \* the orders in which ftw may report the files of a run
    MinNew,       \* bounds of the number of blocks a cover adds
    MaxNew,
    MaxQueue,     \* WT_MAX_QUEUE_SIZE
    Desired,      \* desired_queue_size, in messages
    MaxSession,   \* bound: runs of the client
    MaxFault      \* bound: signals and lost connections

ASSUME ConstantsAssumption ==
    /\ NoFile \notin File
    /\ Plan \subseteq Seq(File)
    /\ MinNew \in Nat /\ MaxNew \in Nat
    /\ MaxQueue \in Nat
    /\ Desired \in Nat \ {0}
    /\ MaxSession \in Nat /\ MaxFault \in Nat

VARIABLES
    \* the client process: lost when it ends
    pc,           \* "down", "loop" (in the event loop), "fill", "aborted" (a failed
                  \* assertion), "noPreference" (that of ios_read_int32)
    scanning,     \* more_work of workticket.c: do_archive is under way
    todo,         \* the files ftw has still to report
    workList,     \* work_list: the tickets, in order of insertion
    cursor,       \* the ticket wt_process_queue has reached
    closing,      \* ignore_input and ignore_output: send_bye has run
    registered,   \* the output handler is an event source of the loop
    outBuf,       \* ios_write_buf, as whole packets
    \* the client's tables: on disk
    summary,      \* kSummary: block_list_remote_id by file, 0 for no record
    blockTable,   \* kBlocks: the local block ids saved
    bytes,        \* bytes[i]: what block i holds; the last i is the kBlocks counter
    \* the pipes
    toServer, toClient,
    \* the server: serverUp is its process, store its archive table
    serverUp,
    store,        \* store[i] is archive record i; the last i is the counter
    \* what bounds the model
    sessions, faults

clientVars == <<pc, scanning, todo, workList, cursor, closing, registered, outBuf>>
tableVars  == <<summary, blockTable, bytes>>
serverVars == <<serverUp, store>>
wireVars   == <<toServer, toClient>>
boundVars  == <<sessions, faults>>
vars == <<clientVars, tableVars, serverVars, wireVars, boundVars>>

-----------------------------------------------------------------------------
(* The data. *)

Status == {"AwaitingBlockList", "SendingBlocks", "AwaitingBlockConfirms",
           "AwaitingBlockListConfirm"}

\* A DBBlock of a ticket, and what block_list_to_stream keeps of it: the
\* in_new_cover mark does not travel.
Entry     == [local : Nat, remote : Nat, cover : BOOLEAN]
ListEntry == [local : Nat, remote : Nat]

Ticket == [file : File, status : Status, blocks : Seq(Entry), next : Nat, moved : Int]

\* What an archive record holds: a block, a block list, or, in the answer to
\* a request that found no record, nothing.
Object == [kind : {"block", "list", "none"}, data : Nat, list : Seq(ListEntry)]

BlockObject(d) == [kind |-> "block", data |-> d, list |-> <<>>]
ListObject(l)  == [kind |-> "list", data |-> 0, list |-> l]
NoObject       == [kind |-> "none", data |-> 0, list |-> <<>>]

Message == [cmd   : {"PutBlock", "PutBlockAck", "GetBlock", "GetBlockAck", "Bye"},
            file  : File \cup {NoFile},
            block : Nat,     \* local block id, 0 for a block list
            id    : Nat,     \* archive id
            obj   : Object]

PutBlock(f, b, o)    == [cmd |-> "PutBlock", file |-> f, block |-> b, id |-> 0, obj |-> o]
PutBlockAck(f, b, i) == [cmd |-> "PutBlockAck", file |-> f, block |-> b, id |-> i,
                         obj |-> NoObject]
GetBlock(f, b, i)    == [cmd |-> "GetBlock", file |-> f, block |-> b, id |-> i,
                         obj |-> NoObject]
GetBlockAck(f, b, o) == [cmd |-> "GetBlockAck", file |-> f, block |-> b, id |-> 0, obj |-> o]
Bye == [cmd |-> "Bye", file |-> NoFile, block |-> 0, id |-> 0, obj |-> NoObject]

-----------------------------------------------------------------------------
(* The state a run of the program starts from: empty tables, nobody up. *)

Init ==
    /\ pc = "down" /\ scanning = FALSE /\ todo = <<>> /\ workList = <<>>
    /\ cursor = 0 /\ closing = FALSE /\ registered = FALSE /\ outBuf = <<>>
    /\ summary = [f \in File |-> 0] /\ blockTable = {} /\ bytes = <<>>
    /\ toServer = <<>> /\ toClient = <<>>
    /\ serverUp = FALSE /\ store = <<>>
    /\ sessions = 0 /\ faults = 0

\* The process ends: what it held in memory is gone.
ClientGone ==
    /\ pc' = "down" /\ scanning' = FALSE /\ todo' = <<>> /\ workList' = <<>>
    /\ cursor' = 0 /\ closing' = FALSE /\ registered' = FALSE /\ outBuf' = <<>>

\* A failed g_assert: abort() ends the process on the spot.
AssertFails ==
    /\ pc' = "aborted"
    /\ UNCHANGED <<scanning, todo, workList, cursor, closing, registered, outBuf>>

\* `cryptar --backup': the server is started through the daemon command, greets,
\* and do_archive begins.
StartRun ==
    /\ pc = "down" /\ ~serverUp /\ sessions < MaxSession
    /\ pc' = "loop" /\ scanning' = TRUE /\ todo' \in Plan /\ workList' = <<>>
    /\ cursor' = 0 /\ closing' = FALSE /\ registered' \in BOOLEAN /\ outBuf' = <<>>
    /\ serverUp' = TRUE /\ toServer' = <<>> /\ toClient' = <<>>
    /\ sessions' = sessions + 1
    /\ UNCHANGED <<tableVars, store, faults>>

-----------------------------------------------------------------------------
(* Covers: cover_update_remote followed by cover_save_local.  Old blocks     *)
(* come first, then the new ones, whose ids start after Len(bytes).  The     *)
(* blocks `keep' of the old list are found in the file, those of `move' at   *)
(* another offset, which gives them another local id.  Ids are only compared *)
(* for equality, so they are numbered by position and may leave gaps.        *)

NewCover(old, keep, move, n) ==
    [k \in 1 .. Len(old) + n |->
        IF k > Len(old) THEN [local |-> Len(bytes) + k, remote |-> 0, cover |-> TRUE]
        ELSE [local  |-> IF k \in move THEN Len(bytes) + k ELSE old[k].local,
              remote |-> old[k].remote,
              cover  |-> k \in keep]]

\* What the new ids stand for: the bytes of the moved block, or new bytes.
CoverBytes(old, n) ==
    bytes \o [k \in 1 .. Len(old) + n |->
                 IF k > Len(old) THEN Len(bytes) + k ELSE bytes[old[k].local]]

\* The blocks of a cover that cover_save_local records: those that had no local
\* id and are in the remote store.
SavedAll(cover)     ==   \* mutant: remote_id is not looked at
    {cover[k].local : k \in {j \in DOMAIN cover : cover[j].local > Len(bytes)}}
SavedByCover(cover) ==
    {cover[k].local : k \in {j \in DOMAIN cover : /\ cover[j].local > Len(bytes)
                                                  /\ cover[j].remote # 0}}

-----------------------------------------------------------------------------
(* do_archive: ftw calls archive_it for each file, and archive_it calls      *)
(* cycle_main_loop, which may run the output handler but not the input       *)
(* handler: do_archive runs inside it, and glib does not re-enter a source.  *)

QueueFull == Len(workList) > MaxQueue

NewTicket(f, s, b) == [file |-> f, status |-> s, blocks |-> b, next |-> 0, moved |-> 0]

\* io_write_reg: the output handler is among the event sources.
NoWriteReg == UNCHANGED registered   \* mutant: the call is forgotten
WriteReg   == registered' = TRUE

\* ftw reports the next file, once archive_it has seen room in the work list.
Reported(f) == /\ pc = "loop" /\ scanning /\ todo # <<>> /\ f = Head(todo)
               /\ ~QueueFull

Report(f) ==
    /\ Reported(f)
    /\ todo' = Tail(todo)
    /\ UNCHANGED <<pc, scanning, cursor, closing, summary, toServer, toClient,
                   serverVars, boundVars>>

\* No summary: a new file, or one whose first backup was cut short.
VisitNew(f) ==
    /\ Report(f)
    /\ summary[f] = 0
    /\ \E n \in MinNew .. MaxNew :
          /\ workList' = Append(workList,
                                NewTicket(f, "SendingBlocks", NewCover(<<>>, {}, {}, n)))
          /\ bytes' = CoverBytes(<<>>, n)
    /\ WriteReg
    /\ UNCHANGED <<outBuf, blockTable>>

\* A summary and another checksum: the block list has to come back first.
VisitChanged(f) ==
    /\ Report(f)
    /\ summary[f] # 0
    /\ workList' = Append(workList, NewTicket(f, "AwaitingBlockList", <<>>))
    /\ outBuf' = Append(outBuf, GetBlock(f, 0, summary[f]))
    /\ WriteReg
    /\ UNCHANGED <<blockTable, bytes>>

\* A summary, another date or length, but the same checksum: nothing to do.
VisitUnchanged(f) ==
    /\ Report(f)
    /\ summary[f] # 0
    /\ UNCHANGED <<workList, outBuf, registered, blockTable, bytes>>

\* A summary with the date and length the file has: a preference is asked for that
\* nothing stores, and an assertion on the record that is not there ends the
\* client (silent_default).  No later run is modelled: the counters that were
\* not synced may go back (Tables).
VisitUntouched(f) ==
    /\ Reported(f)
    /\ summary[f] # 0
    /\ pc' = "noPreference"
    /\ UNCHANGED <<scanning, todo, workList, cursor, closing, registered, outBuf,
                   tableVars, serverVars, wireVars, boundVars>>

\* send_bye after whatever is in the buffer.
SayBye == /\ outBuf' = Append(outBuf, Bye)
          /\ closing' = TRUE
          /\ WriteReg

\* wt_more() is false: nothing is left to wait for.
ByeAlways(list) == SayBye   \* mutants: the test is dropped, or the goodbye
ByeNever(list)  == UNCHANGED <<outBuf, closing, registered>>
ByeIfDone(list) == IF list = <<>> THEN SayBye ELSE UNCHANGED <<outBuf, closing, registered>>

EndScan ==
    /\ pc = "loop" /\ scanning /\ todo = <<>>
    /\ scanning' = FALSE
    /\ ByeIfDone(workList)
    /\ UNCHANGED <<pc, todo, workList, cursor, tableVars, serverVars, wireVars, boundVars>>

-----------------------------------------------------------------------------
(* io_output_handler.  It fills an empty buffer from the work list, one      *)
(* block of a ticket at a time, and then writes.  A write of several packets *)
(* is as many calls in a row.                                                *)

WritePacket == /\ toServer' = Append(toServer, Head(outBuf))
               /\ outBuf' = Tail(outBuf)

\* The pipe has lost its reader (SIGPIPE is ignored): the handler deregisters
\* itself with data left to write.
WriteFails == /\ ~serverUp
              /\ registered' = FALSE
              /\ UNCHANGED <<toServer, outBuf>>

WriteOut == (WritePacket /\ UNCHANGED registered) \/ WriteFails

OutputBuffered ==
    /\ pc = "loop" /\ registered /\ outBuf # <<>>
    /\ WriteOut
    /\ UNCHANGED <<pc, scanning, todo, workList, cursor, closing,
                   toClient, tableVars, serverVars, boundVars>>

FillStart ==
    /\ pc = "loop" /\ registered /\ outBuf = <<>>
    /\ pc' = "fill" /\ cursor' = 1
    /\ UNCHANGED <<scanning, todo, workList, closing, registered, outBuf,
                   wireVars, tableVars, serverVars, boundVars>>

\* The loop of wt_send_blocks goes round once more for ticket t.
SendsMore(t) == /\ t.status = "SendingBlocks"
                /\ Len(outBuf) < Desired
                /\ t.next < Len(t.blocks)

\* num_blocks_moved counts a block that was sent.
NotCounted(t) == t   \* mutant: as in wt_send_block_requests
Counted(t)    == [t EXCEPT !.moved = @ + 1]

\* The next block is queued, unless the server has it or the file does not.
FillBlock ==
    /\ pc = "fill" /\ cursor \in DOMAIN workList
    /\ LET t == workList[cursor]
           e == t.blocks[t.next + 1]
           u == [t EXCEPT !.next = t.next + 1]
       IN  /\ SendsMore(t)
           /\ IF e.cover /\ e.remote = 0
              THEN /\ outBuf' = Append(outBuf, PutBlock(t.file, e.local,
                                                       BlockObject(bytes[e.local])))
                   /\ workList' = [workList EXCEPT ![cursor] = Counted(u)]
              ELSE /\ workList' = [workList EXCEPT ![cursor] = u]
                   /\ UNCHANGED outBuf
    /\ UNCHANGED <<pc, scanning, todo, cursor, closing, registered,
                   wireVars, tableVars, serverVars, boundVars>>

\* wt_do_work returns, and g_slist_foreach goes to the next ticket.
FillNext ==
    /\ pc = "fill" /\ cursor \in DOMAIN workList
    /\ LET t == workList[cursor]
       IN  /\ ~SendsMore(t)
           /\ IF t.status = "SendingBlocks" /\ Len(outBuf) <= Desired
                 /\ t.next >= Len(t.blocks)
              THEN workList' = [workList EXCEPT ![cursor] =
                                   [t EXCEPT !.status = "AwaitingBlockConfirms"]]
              ELSE UNCHANGED workList
    /\ cursor' = cursor + 1
    /\ UNCHANGED <<pc, scanning, todo, closing, registered, outBuf,
                   wireVars, tableVars, serverVars, boundVars>>

\* The work list had nothing to say: the handler deregisters itself, and after
\* a bye the process ends; otherwise it writes.
FillEnd ==
    /\ pc = "fill" /\ cursor \notin DOMAIN workList
    /\ IF outBuf # <<>>
       THEN /\ WriteOut /\ pc' = "loop"
            /\ UNCHANGED <<scanning, todo, workList, cursor, closing>>
       ELSE /\ UNCHANGED toServer
            /\ IF closing THEN ClientGone
               ELSE /\ pc' = "loop" /\ registered' = FALSE
                    /\ UNCHANGED <<scanning, todo, workList, cursor, closing, outBuf>>
    /\ UNCHANGED <<toClient, tableVars, serverVars, boundVars>>

-----------------------------------------------------------------------------
(* io_input_handler and the accept functions of the client.                  *)

\* A packet of command c is dispatched.  During do_archive the handler is not
\* re-entered; after send_bye it ignores its input.
ClientReceives(c) == /\ pc = "loop" /\ ~scanning /\ ~closing
                     /\ toClient # <<>> /\ Head(toClient).cmd = c
                     /\ toClient' = Tail(toClient)

\* wt_find: ticket i is the first of file f.
WtFind(f, i) == /\ i \in DOMAIN workList
                /\ workList[i].file = f
                /\ \A j \in 1 .. i - 1 : workList[j].file # f

NoTicket(f) == \A i \in DOMAIN workList : workList[i].file # f

\* wt_find_block: block k is the first of ticket t with local id b.
WtFirstBlock(t, b, k) ==   \* mutant: the ids are not compared
    k = 1 /\ k \in DOMAIN t.blocks
WtFindBlock(t, b, k) == /\ k \in DOMAIN t.blocks
                        /\ t.blocks[k].local = b
                        /\ \A j \in 1 .. k - 1 : t.blocks[j].local # b

\* block_list_to_stream: every block of the ticket, in the new cover or not.
BlockListShort(b) ==   \* mutant: the loop ends one block early
    [k \in 1 .. Len(b) - 1 |-> [local |-> b[k].local, remote |-> b[k].remote]]
BlockListWhole(b) == b   \* mutant: the mark travels as well
BlockList(b) == [k \in DOMAIN b |-> [local |-> b[k].local, remote |-> b[k].remote]]

\* The test that follows the decrement of num_blocks_moved, t before and u after.
DueAtOnce(t, u) == t.status = "AwaitingBlockConfirms"   \* mutant: no count
DuePostDecrement(t, u) ==   \* mutant: wt->num_blocks_moved-- == 0
    t.moved = 0 /\ t.status = "AwaitingBlockConfirms"
ListDue(t, u) == u.moved = 0 /\ t.status = "AwaitingBlockConfirms"

\* The server has stored block k of ticket i.  The last one due sends the list.
AckBlock(i, k, m) ==
    LET t == workList[i]
        u == [t EXCEPT !.blocks[k].remote = m.id, !.moved = t.moved - 1]
    IN  /\ IF ListDue(t, u)
           THEN /\ workList' = [workList EXCEPT ![i] =
                                   [u EXCEPT !.status = "AwaitingBlockListConfirm"]]
                /\ outBuf' = Append(outBuf, PutBlock(t.file, 0,
                                                     ListObject(BlockList(u.blocks))))
                /\ WriteReg
           ELSE /\ workList' = [workList EXCEPT ![i] = u]
                /\ UNCHANGED <<outBuf, registered>>
        /\ blockTable' = blockTable \cup {m.block}
        /\ UNCHANGED pc

\* accept_put_ack for a block.  No ticket of the file is a failed assertion,
\* no such block in the first one a warning.
AcceptBlockAck(m) ==
    \/ NoTicket(m.file) /\ AssertFails /\ UNCHANGED blockTable
    \/ \E i \in DOMAIN workList :
          /\ WtFind(m.file, i)
          /\ \/ \E k \in DOMAIN workList[i].blocks :
                   WtFindBlock(workList[i], m.block, k) /\ AckBlock(i, k, m)
             \/ /\ \A k \in DOMAIN workList[i].blocks : workList[i].blocks[k].local # m.block
                /\ UNCHANGED <<pc, workList, outBuf, registered, blockTable>>

ReceiveBlockAck ==
    /\ ClientReceives("PutBlockAck") /\ Head(toClient).block # 0
    /\ AcceptBlockAck(Head(toClient))
    /\ UNCHANGED <<scanning, todo, cursor, closing, summary, bytes,
                   toServer, serverVars, boundVars>>

\* accept_put_ack for a block list: wt_finish, and a bye with the last ticket.
AcceptListAck(m) ==
    \/ NoTicket(m.file) /\ AssertFails /\ UNCHANGED summary
    \/ \E i \in DOMAIN workList :
          /\ WtFind(m.file, i)
          /\ summary' = [summary EXCEPT ![m.file] = m.id]
          /\ workList' = RemoveAt(workList, i)
          /\ ByeIfDone(workList')
          /\ UNCHANGED <<pc, scanning, todo, cursor>>

ReceiveListAck ==
    /\ ClientReceives("PutBlockAck") /\ Head(toClient).block = 0
    /\ AcceptListAck(Head(toClient))
    /\ UNCHANGED <<blockTable, bytes, toServer, serverVars, boundVars>>

\* start_archive: the cover of ticket i is computed from the list received.
StartArchive(i, list) ==
    \E keep \in SUBSET DOMAIN list : \E move \in SUBSET keep : \E n \in MinNew .. MaxNew :
        LET cover == NewCover(list, keep, move, n)
        IN  /\ workList' = [workList EXCEPT ![i].blocks = cover,
                                            ![i].status = "SendingBlocks",
                                            ![i].next = 0]
            /\ bytes' = CoverBytes(list, n)
            /\ blockTable' = blockTable \cup SavedByCover(cover)
            /\ WriteReg

\* wt_assert, before the cover is computed: next_block_to_queue is that of ticket
\* t, and the list the one that has just come in.
WtAssert(t, list) == t.next < Len(list)

\* accept_get_ack_block_list.  When the server has no list the ticket stays as
\* it is.
AcceptBlockList(m) ==
    \/ NoTicket(m.file) /\ AssertFails /\ UNCHANGED <<blockTable, bytes>>
    \/ \E i \in DOMAIN workList :
          /\ WtFind(m.file, i)
          /\ \/ /\ m.obj.kind # "none" /\ ~WtAssert(workList[i], m.obj.list)
                /\ AssertFails /\ UNCHANGED <<blockTable, bytes>>
             \/ /\ m.obj.kind # "none" /\ WtAssert(workList[i], m.obj.list)
                /\ StartArchive(i, m.obj.list)
                /\ UNCHANGED <<pc, outBuf>>
             \/ /\ m.obj.kind = "none"
                /\ UNCHANGED <<pc, workList, outBuf, registered, blockTable, bytes>>

ReceiveBlockList ==
    /\ ClientReceives("GetBlockAck")
    /\ AcceptBlockList(Head(toClient))
    /\ UNCHANGED <<scanning, todo, cursor, closing, summary,
                   toServer, serverVars, boundVars>>

-----------------------------------------------------------------------------
(* The server: its input handler.  What it answers goes to toClient in the   *)
(* order of the requests.                                                    *)

ServerReceives(c) == /\ serverUp /\ toServer # <<>> /\ Head(toServer).cmd = c
                     /\ toServer' = Tail(toServer)

\* accept_put_block: db_archive_add, synchronously on disk, then the ack.
AcceptPutBlock ==
    LET m == Head(toServer)
    IN  /\ ServerReceives("PutBlock")
        /\ store' = Append(store, m.obj)
        /\ toClient' = Append(toClient, PutBlockAck(m.file, m.block, Len(store) + 1))
        /\ UNCHANGED <<clientVars, tableVars, serverUp, boundVars>>

\* accept_get_block: the record, or an answer with no data.
AcceptGetBlock ==
    LET m == Head(toServer)
    IN  /\ ServerReceives("GetBlock")
        /\ toClient' = Append(toClient, GetBlockAck(m.file, m.block,
                          IF m.id \in DOMAIN store THEN store[m.id] ELSE NoObject))
        /\ UNCHANGED <<clientVars, tableVars, serverVars, boundVars>>

\* receive_bye: the server says goodbye in turn and leaves its loop, in general
\* before its output handler runs again.
ReceiveBye ==
    /\ ServerReceives("Bye")
    /\ serverUp' = FALSE
    /\ toClient' \in {toClient, Append(toClient, Bye)}
    /\ UNCHANGED <<clientVars, tableVars, store, boundVars>>

-----------------------------------------------------------------------------
(* Signals and lost connections.  sig_quit_handler closes the tables, so the *)
(* counters that db_get_next_index does not sync survive as well.            *)

ClientSignal ==
    /\ pc \in {"loop", "fill"} /\ faults < MaxFault
    /\ ClientGone
    /\ faults' = faults + 1
    /\ UNCHANGED <<tableVars, wireVars, serverVars, sessions>>

ServerSignal ==
    /\ serverUp /\ faults < MaxFault
    /\ serverUp' = FALSE
    /\ faults' = faults + 1
    /\ UNCHANGED <<clientVars, tableVars, wireVars, store, sessions>>

\* A handler of the client sees the end of the connection and quits the loop.
\* During the scan only the output handler can; archive_it then stops ftw.
ClientHangup ==
    /\ pc = "loop" /\ ~serverUp
    /\ scanning => registered
    /\ ClientGone
    /\ UNCHANGED <<tableVars, wireVars, serverVars, boundVars>>

\* The server sees that the client is gone, perhaps with packets unread.
ServerHangup ==
    /\ pc \in {"down", "aborted", "noPreference"} /\ serverUp
    /\ serverUp' = FALSE
    /\ UNCHANGED <<clientVars, tableVars, wireVars, store, boundVars>>

\* All the runs are over, or the last that is modelled.
Rest == /\ (pc = "down" /\ sessions = MaxSession) \/ pc = "noPreference"
        /\ ~serverUp
        /\ UNCHANGED vars

-----------------------------------------------------------------------------
ArchiveStep ==
    \/ EndScan
    \/ \E f \in File : \/ VisitNew(f) \/ VisitChanged(f)
                       \/ VisitUnchanged(f) \/ VisitUntouched(f)

OutputStep == OutputBuffered \/ FillStart \/ FillBlock \/ FillNext \/ FillEnd

InputStep == ReceiveBlockAck \/ ReceiveListAck \/ ReceiveBlockList

ClientStep == ArchiveStep \/ OutputStep \/ InputStep

ServerStep == AcceptPutBlock \/ AcceptGetBlock \/ ReceiveBye

Next == \/ StartRun \/ ClientStep \/ ServerStep
        \/ ClientSignal \/ ServerSignal \/ ClientHangup \/ ServerHangup
        \/ Rest

Spec == Init /\ [][Next]_vars

\* archive_it waits for room in the work list, and looks at nothing else.
Spinning == scanning /\ QueueFull /\ todo # <<>>

\* The kernel runs each process while it has something to do, its loop
\* dispatches what is ready, and the end of a connection is noticed.  Nothing
\* obliges the user to start a run, or a signal to arrive.
Fairness == /\ WF_vars(ClientStep) /\ WF_vars(ServerStep)
            /\ WF_vars(ClientHangup /\ ~Spinning) /\ WF_vars(ServerHangup)

FairSpec == Spec /\ Fairness

-----------------------------------------------------------------------------
(* Properties. *)

TypeOK ==
    /\ pc \in {"down", "loop", "fill", "aborted", "noPreference"}
    /\ scanning \in BOOLEAN /\ closing \in BOOLEAN /\ registered \in BOOLEAN
    /\ todo \in Seq(File) /\ workList \in Seq(Ticket) /\ cursor \in Nat
    /\ outBuf \in Seq(Message)
    /\ summary \in [File -> Nat]
    /\ blockTable \subseteq Nat /\ bytes \in Seq(Nat)
    /\ toServer \in Seq(Message) /\ toClient \in Seq(Message)
    /\ serverUp \in BOOLEAN /\ store \in Seq(Object)
    /\ sessions \in Nat /\ faults \in Nat

\* Archive record i is the block whose bytes local block id b stands for.
Stored(i, b) == /\ i \in DOMAIN store
                /\ store[i].kind = "block"
                /\ b \in DOMAIN bytes /\ store[i].data = bytes[b]

\* A summary on the client's disk can always be restored from: its block list
\* is on the server, and every block of the list is there with the bytes that
\* the client took it to hold.  (wt_finish runs last, after every ack.)
SummaryComplete ==
    \A f \in File : summary[f] # 0 =>
        /\ summary[f] \in DOMAIN store
        /\ store[summary[f]].kind = "list"
        /\ \A k \in DOMAIN store[summary[f]].list :
              Stored(store[summary[f]].list[k].remote, store[summary[f]].list[k].local)

\* A block recorded in the client's block table is on the server.
BlockTableStored == \A b \in blockTable : \E i \in DOMAIN store : Stored(i, b)

\* The blocks of ticket t that are on their way, or whose ack is.
InFlight(t) ==
    LET Mine(m) == m.file = t.file /\ \E k \in DOMAIN t.blocks : t.blocks[k].local = m.block
        On(q)   == Cardinality({i \in DOMAIN q : Mine(q[i])})
    IN  On(outBuf) + On(toServer) + On(toClient)

\* num_blocks_moved is what workticket.h:52-60 says: the blocks of the ticket
\* that were sent and for which no ack was received, wherever they are now.
MovedIsInFlight == \A i \in DOMAIN workList : workList[i].moved = InFlight(workList[i])

\* num_blocks_moved is a guint32: an ack too many would make it 2^32 - 1, and
\* the ticket would never be done.
NoWrap == \A i \in DOMAIN workList : workList[i].moved >= 0

\* A ticket that waits for block acks when none is due is stuck: only the ack
\* that brings num_blocks_moved to zero sends the list.
Stuck(t) == t.status = "AwaitingBlockConfirms" /\ t.moved = 0

\* A file that is stuck loses nothing: all that its ticket lists is already in
\* the archived copy.  (num_blocks_moved may reach zero early, between two
\* fills of the output buffer, but then blocks are still to be sent, because
\* the new ones end the list.)
StuckHasNothingNew ==
    \A i \in DOMAIN workList : Stuck(workList[i]) =>
        LET t == workList[i]
        IN  \A k \in DOMAIN t.blocks :
               /\ summary[t.file] # 0
               /\ \E j \in DOMAIN store[summary[t.file]].list :
                     store[summary[t.file]].list[j].remote = t.blocks[k].remote

\* The goodbye is the last word: no ticket is open, nothing else is to be sent
\* and no answer is expected.
ByeIsLast == closing => /\ workList = <<>> /\ ~scanning /\ todo = <<>>
                        /\ outBuf \in {<<>>, <<Bye>>}
                        /\ \A i \in DOMAIN toServer : toServer[i] = Bye
                        /\ \A i \in DOMAIN toClient : toClient[i] = Bye

\* The output handler is registered whenever there is something to write or
\* a ticket with blocks to send: no wake-up is lost.  (A failed write deregisters it
\* as well, but then nobody is left to read.)
NoLostWakeup ==
    (outBuf # <<>> \/ \E i \in DOMAIN workList : workList[i].status = "SendingBlocks")
        => registered \/ ~serverUp

\* No g_assert of wt_find, wt_assert fails: an ack finds its ticket, a
\* block list received is not empty.  (VisitUntouched's is another.)
NeverAborts == pc # "aborted"

\* The promise of BackupPromise.  The archived copy of a file is what its
\* summary leads to on the server; a ticket that has its cover is pending.
Copy(f) ==
    IF summary[f] = 0 THEN Nothing
    ELSE LET l == store[summary[f]].list
         IN  [k \in DOMAIN l |-> store[l[k].remote].data]

Sending(f) ==
    {[k \in DOMAIN workList[i].blocks |-> bytes[workList[i].blocks[k].local]] :
        i \in {j \in DOMAIN workList : /\ workList[j].file = f
                                       /\ workList[j].status # "AwaitingBlockList"}}

Promise == INSTANCE BackupPromise WITH archived <- [f \in File |-> Copy(f)],
                                       pending  <- [f \in File |-> Sending(f)]

Implements == Promise!Spec

\* A run comes to its end: its own, that of a signal or a lost connection, or that
\* of a file which was not touched.
RunEnds == scanning ~> pc \in {"down", "noPreference"}

\* The ids that MaxSession runs can give to records.
RecordId == 0 .. MaxSession * (MaxNew + 1) * Cardinality(File)

\* A ticket leads to a new summary: the file of every ticket is committed to the
\* archive, unless a signal or a lost connection intervenes, or the scan meets a
\* file that was not touched since its backup, which ends the client and loses
\* the tickets of all the others.
BackupCommits ==
    \A f \in File : \A s \in RecordId :
        (summary[f] = s /\ \E i \in DOMAIN workList : workList[i].file = f)
            ~> (summary[f] # s \/ faults > 0 \/ pc = "noPreference")
=============================================================================
