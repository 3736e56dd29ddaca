--------------------------- MODULE ExtractSession ---------------------------
(***************************************************************************)
(* An extraction by cryptar version 1: do_extract visits the files of the  *)
(* arguments and asks for their block lists, the work list asks for the    *)
(* blocks, and what comes back is checked and written into the one file    *)
(* the-recovered-file.  The archive may lack objects or hold damaged ones. *)
(*                                                                         *)
(* As in BackupSession an action is a handler, the loop of                 *)
(* wt_process_queue is cut in steps, and the greeting has taken place.     *)
(* An extraction changes no table, so that one run is enough.              *)
(*                                                                         *)
(* What is abstracted:                                                     *)
(*  - a block of a list is its file and its place in the list; its bytes   *)
(*    are either those that the list's checksum is of, or not;             *)
(*  - a key is a number, and data opens with the key that sealed it        *)
(*    (encrypt, compress); a build with CLEARTEXT has no key, which is 0;  *)
(*  - sizes are counted in messages: Desired is desired_queue_size.        *)
(***************************************************************************)
EXTENDS Integers, Sequences, FiniteSets, SequencesExt

CONSTANTS
    File,         \* the files of the client
    Blocks,       \* Blocks[f]: the length of the archived block list of f
    Names,        \* the names in the table of files, in the order of its cursor
    Arguments,    \* the command lines: what each argument is a prefix of
    Desired,      \* desired_queue_size, in messages
    MaxDamage,    \* bound: objects that the archive lacks or holds damaged
    MaxFault      \* bound: signals and lost connections

ASSUME ExtractAssumption ==
    /\ Blocks \in [File -> Nat \ {0}]
    /\ Names \in Seq(File)
    /\ Arguments \subseteq Seq(SUBSET File) \ {<<>>}
    /\ Desired \in Nat \ {0}
    /\ MaxDamage \in Nat /\ MaxFault \in Nat

VARIABLES
    \* the client process
    pc,           \* "loop", "fill", "exiting" (stdio is being flushed), "ended",
                  \* "aborted", "killed"
    scanning,     \* do_extract is under way
    args,         \* the arguments, from the one it has reached on; without any
                  \* there is one pass that matches all files
    todo,         \* the names that the cursor has still to come to
    workList,     \* work_list
    cursor,       \* the ticket wt_process_queue has reached
    closing,      \* ignore_input and ignore_output: send_bye has run
    registered,   \* the output handler is an event source of the loop
    outBuf,       \* ios_write_buf, as whole packets
    key,          \* hashkey: the key of this run, 0 for a CLEARTEXT build
    \* the-recovered-file: what each FILE keeps, and what the kernel has
    streams, disk,
    \* the client's tables: the files that have a summary
    summary,
    \* the pipes
    toServer, toClient,
    \* the server
    serverUp,
    archive,      \* archive[<<f, k>>]: the record of block k of f, of the list for k = 0
    sealed,       \* the key that the records were encrypted with
    \* what bounds the model
    faults

clientVars  == <<pc, scanning, args, todo, workList, cursor, closing, registered, outBuf>>
fileVars    == <<streams, disk>>
wireVars    == <<toServer, toClient>>
archiveVars == <<archive, sealed, summary, key>>
vars == <<clientVars, fileVars, wireVars, serverUp, archiveVars, faults>>

-----------------------------------------------------------------------------
(* The data. *)

\* What the server has under an archive id: what was stored, something that is
\* too short or of another block, or nothing.
Record == {"good", "bad", "none"}

Status == {"AwaitingBlockList", "SendingBlockRequests", "AwaitingBlockConfirms"}

\* `size' is the length of blockList, `fp' the stream of the ticket.
Ticket == [file : File, status : Status, size : Nat, next : Nat, moved : Int, fp : Nat]

\* A block written into the-recovered-file.
Write == [file : File, block : Nat]

Message == [cmd : {"GetBlock", "GetBlockAck"}, file : File, block : Nat,
            obj : Record] \cup {[cmd |-> "Bye"]}

GetBlock(f, k)       == [cmd |-> "GetBlock", file |-> f, block |-> k, obj |-> "none"]
GetBlockAck(f, k, o) == [cmd |-> "GetBlockAck", file |-> f, block |-> k, obj |-> o]
Bye == [cmd |-> "Bye"]

\* What the summaries and the lists lead to on the server.
Object == UNION {{f} \X (0 .. Blocks[f]) : f \in File}

-----------------------------------------------------------------------------
(* Keys. *)

\* init_crypto: every run of a build without CLEARTEXT draws a key of its own,
\* which is stored nowhere; set_key is never called.
NewKey(old) == IF old = 0 THEN 0 ELSE old + 1

\* decrypt and do_decompress give back what was encrypted.
Opens == key = sealed

-----------------------------------------------------------------------------
\* do_extract begins, on some archive made by earlier runs.
Init ==
    /\ pc = "loop" /\ scanning = TRUE /\ args \in Arguments /\ todo = Names
    /\ workList = <<>>
    /\ cursor = 0 /\ closing = FALSE /\ registered \in BOOLEAN /\ outBuf = <<>>
    /\ streams = <<>> /\ disk = <<>>
    /\ toServer = <<>> /\ toClient = <<>> /\ serverUp = TRUE
    /\ summary \in SUBSET File
    /\ archive \in [Object -> Record]
    /\ Cardinality({o \in Object : archive[o] # "good"}) <= MaxDamage
    /\ sealed \in {0, 1} /\ key = NewKey(sealed)
    /\ faults = 0

-----------------------------------------------------------------------------
(* do_extract: for each argument extract_it looks at each file name and      *)
(* calls cycle_main_loop, which may run the output handler but not the input *)
(* handler: do_extract runs inside it, and glib does not re-enter a source.  *)

\* io_write_reg: the output handler is among the event sources.
NoWriteReg == UNCHANGED registered   \* mutant: the call is forgotten
WriteReg   == registered' = TRUE

\* The cursor comes to the name of f (db_curs_next).
NextName(f) ==
    /\ pc = "loop" /\ scanning /\ todo # <<>> /\ f = Head(todo)
    /\ todo' = Tail(todo)
    /\ UNCHANGED <<pc, scanning, args, cursor, closing, wireVars, serverUp, archiveVars, faults>>

\* The argument is no prefix of it, or it has no summary: its first backup was cut short.
Skip(f) ==
    /\ NextName(f)
    /\ f \notin Head(args) \/ f \notin summary
    /\ UNCHANGED <<workList, registered, outBuf, fileVars>>

NewTicketNoFile(f) ==   \* mutant: wt->fp is left as g_new0 has made it
    [file |-> f, status |-> "AwaitingBlockList", size |-> 0, next |-> 0, moved |-> 0,
     fp |-> 0]
NewTicket(f) ==
    [file |-> f, status |-> "AwaitingBlockList", size |-> 0, next |-> 0, moved |-> 0,
     fp |-> Len(streams) + 1]

\* extract_file: all tickets open, and empty, the same the-recovered-file.
ExtractFile(f) ==
    /\ NextName(f)
    /\ f \in Head(args) /\ f \in summary
    /\ streams' = Append(streams, <<>>) /\ disk' = <<>>
    /\ workList' = Append(workList, NewTicket(f))
    /\ outBuf' = Append(outBuf, GetBlock(f, 0))
    /\ WriteReg

\* The cursor is at its end, and a new one begins for the next argument.
NextArgument ==
    /\ pc = "loop" /\ scanning /\ todo = <<>> /\ Len(args) > 1
    /\ args' = Tail(args) /\ todo' = Names
    /\ UNCHANGED <<pc, scanning, workList, cursor, closing, registered, outBuf,
                   fileVars, wireVars, serverUp, archiveVars, faults>>

\* A bye when there is nothing to wait for.
EndScan ==
    /\ pc = "loop" /\ scanning /\ todo = <<>> /\ Len(args) = 1
    /\ scanning' = FALSE
    /\ IF workList = <<>>
       THEN outBuf' = Append(outBuf, Bye) /\ closing' = TRUE /\ WriteReg
       ELSE UNCHANGED <<outBuf, closing, registered>>
    /\ UNCHANGED <<pc, args, todo, workList, cursor, fileVars, wireVars, serverUp, archiveVars, faults>>

-----------------------------------------------------------------------------
(* io_output_handler. *)

WritePacket == /\ toServer' = Append(toServer, Head(outBuf))
               /\ outBuf' = Tail(outBuf)

\* The pipe has lost its reader (SIGPIPE is ignored): the handler deregisters
\* itself with data left to write.
WriteFails == /\ ~serverUp
              /\ registered' = FALSE
              /\ UNCHANGED <<toServer, outBuf>>

WriteOut == (WritePacket /\ UNCHANGED registered) \/ WriteFails

OutputBuffered ==
    /\ pc = "loop" /\ registered /\ outBuf # <<>>
    /\ WriteOut
    /\ UNCHANGED <<pc, scanning, args, todo, workList, cursor, closing,
                   fileVars, toClient, serverUp, archiveVars, faults>>

FillStart ==
    /\ pc = "loop" /\ registered /\ outBuf = <<>>
    /\ pc' = "fill" /\ cursor' = 1
    /\ UNCHANGED <<scanning, args, todo, workList, closing, registered, outBuf,
                   fileVars, wireVars, serverUp, archiveVars, faults>>

\* The loop of wt_send_block_requests goes round once more for ticket t.
SendsMore(t) == /\ t.status = "SendingBlockRequests"
                /\ Len(outBuf) < Desired
                /\ t.next < t.size

\* All requests of ticket t have been made.
AskedButOne(t) == t.next + 1 >= t.size   \* mutant: off by one
AskedAll(t)    == t.next >= t.size

\* The next block of the list is asked for.  num_blocks_moved is not counted up.
FillRequest ==
    /\ pc = "fill" /\ cursor \in DOMAIN workList
    /\ LET t == workList[cursor]
       IN  /\ SendsMore(t)
           /\ outBuf' = Append(outBuf, GetBlock(t.file, t.next + 1))
           /\ workList' = [workList EXCEPT ![cursor].next = t.next + 1]
    /\ UNCHANGED <<pc, scanning, args, todo, cursor, closing, registered,
                   fileVars, wireVars, serverUp, archiveVars, faults>>

\* wt_do_work returns, and g_slist_foreach goes to the next ticket.
FillNext ==
    /\ pc = "fill" /\ cursor \in DOMAIN workList
    /\ LET t == workList[cursor]
       IN  /\ ~SendsMore(t)
           /\ IF t.status = "SendingBlockRequests" /\ Len(outBuf) <= Desired /\ AskedAll(t)
              THEN workList' = [workList EXCEPT ![cursor].status = "AwaitingBlockConfirms"]
              ELSE UNCHANGED workList
    /\ cursor' = cursor + 1
    /\ UNCHANGED <<pc, scanning, args, todo, closing, registered, outBuf,
                   fileVars, wireVars, serverUp, archiveVars, faults>>

\* The work list had nothing to say: the handler deregisters itself, and after
\* a bye the process ends; otherwise it writes.
FillEnd ==
    /\ pc = "fill" /\ cursor \notin DOMAIN workList
    /\ IF outBuf # <<>>
       THEN WriteOut /\ pc' = "loop"
       ELSE /\ pc' = IF closing THEN "exiting" ELSE "loop"
            /\ registered' = FALSE
            /\ UNCHANGED <<outBuf, toServer>>
    /\ UNCHANGED <<scanning, args, todo, workList, cursor, closing,
                   fileVars, toClient, serverUp, archiveVars, faults>>

-----------------------------------------------------------------------------
(* io_input_handler and accept_get_ack. *)

\* An answer is dispatched.  wt_find: ticket i is the first of its file.
Answer == Head(toClient)

Receives(i) ==
    /\ pc = "loop" /\ ~scanning /\ ~closing
    /\ toClient # <<>> /\ Answer.cmd = "GetBlockAck"
    /\ i \in DOMAIN workList /\ workList[i].file = Answer.file
    /\ \A j \in 1 .. i - 1 : workList[j].file # Answer.file
    /\ toClient' = Tail(toClient)
    /\ UNCHANGED <<scanning, args, todo, cursor, closing, outBuf,
                   toServer, serverUp, archiveVars, faults>>

\* There is something to decrypt: the server has found the list, or a block that
\* the ticket knows.
Usable(t) == Answer.obj # "none" /\ Answer.block <= t.size

\* Otherwise a warning, and the ticket stays as it is.
ReceiveNothing(i) ==
    /\ Receives(i) /\ ~Usable(workList[i])
    /\ UNCHANGED <<pc, workList, registered, fileVars>>

\* do_decompress of what the wrong key has made of it: exit(1).
ReceiveSealed(i) ==
    /\ Receives(i) /\ Usable(workList[i]) /\ ~Opens
    /\ pc' = "exiting"
    /\ UNCHANGED <<workList, registered, fileVars>>

\* wt_assert, with the ticket's counter and the list that has just come in.
WtAssert(next, size) == next < size

\* accept_get_ack_block_list and start_extract.  The counter is not reset.
ReceiveList(i) ==
    LET n == Blocks[Answer.file]
    IN  /\ Receives(i) /\ Usable(workList[i]) /\ Opens
        /\ Answer.block = 0 /\ Answer.obj = "good" /\ WtAssert(workList[i].next, n)
        /\ workList' = [workList EXCEPT ![i] = [@ EXCEPT !.size = n, !.status = "SendingBlockRequests"]]
        /\ WriteReg
        /\ UNCHANGED <<pc, fileVars>>

\* A list that is too short is read beyond its end, or wt_assert fails: the
\* process ends without a flush.
ReceiveAborts(i) ==
    /\ Receives(i) /\ Usable(workList[i]) /\ Opens
    /\ Answer.block = 0
    /\ Answer.obj = "bad" \/ ~WtAssert(workList[i].next, Blocks[Answer.file])
    /\ pc' = "aborted"
    /\ UNCHANGED <<workList, registered, fileVars>>

\* install_block: the strong checksum of the bytes is that of the list.
AnyBytes(o) == o # "none"   \* mutant: no checksum
Genuine(o)  == o = "good"

\* fseek flushes what the stream holds; fwrite keeps the block in the stream, or
\* writes it through if it is long.
Install(fp, w) ==
    \E kept \in {<<>>, <<w>>} :
        /\ streams' = [streams EXCEPT ![fp] = kept]
        /\ disk' = disk \o streams[fp] \o (IF kept = <<>> THEN <<w>> ELSE <<>>)

\* All blocks acked, says the code.
Done(t) == t.moved = 0 /\ t.status = "AwaitingBlockConfirms"

\* accept_get_ack_block.  An imposter is not installed.
ReceiveBlock(i) ==
    /\ Receives(i) /\ Usable(workList[i]) /\ Opens /\ Answer.block # 0
    /\ LET t == [workList[i] EXCEPT !.moved = @ - 1]
       IN  IF Genuine(Answer.obj)
           THEN /\ Install(t.fp, [file |-> t.file, block |-> Answer.block])
                /\ workList' = IF Done(t) THEN RemoveAt(workList, i)
                               ELSE [workList EXCEPT ![i] = t]
           ELSE /\ workList' = [workList EXCEPT ![i] = t]
                /\ UNCHANGED fileVars
    /\ UNCHANGED <<pc, registered>>

-----------------------------------------------------------------------------
(* The server: its input handler. *)

ServerReceives(c) == /\ serverUp /\ toServer # <<>> /\ Head(toServer).cmd = c
                     /\ toServer' = Tail(toServer)

\* accept_get_block: the record, or an answer with no data.
AcceptGetBlock ==
    LET m == Head(toServer)
    IN  /\ ServerReceives("GetBlock")
        /\ toClient' = Append(toClient, GetBlockAck(m.file, m.block, archive[<<m.file, m.block>>]))
        /\ UNCHANGED <<clientVars, fileVars, serverUp, archiveVars, faults>>

\* receive_bye: the server leaves its loop, in general before it has answered.
ReceiveBye ==
    /\ ServerReceives("Bye")
    /\ serverUp' = FALSE
    /\ toClient' \in {toClient, Append(toClient, Bye)}
    /\ UNCHANGED <<clientVars, fileVars, archiveVars, faults>>

-----------------------------------------------------------------------------
(* The end of the client, signals and lost connections. *)

\* stdio flushes its streams, in no order that the code could rely on.
ExitFlush ==
    /\ pc = "exiting"
    /\ \E i \in DOMAIN streams :
          /\ streams[i] # <<>>
          /\ disk' = disk \o streams[i]
          /\ streams' = [streams EXCEPT ![i] = <<>>]
    /\ UNCHANGED <<clientVars, wireVars, serverUp, archiveVars, faults>>

ExitEnds ==
    /\ pc = "exiting" /\ \A i \in DOMAIN streams : streams[i] = <<>>
    /\ pc' = "ended"
    /\ UNCHANGED <<scanning, args, todo, workList, cursor, closing, registered, outBuf,
                   fileVars, wireVars, serverUp, archiveVars, faults>>

\* sig_quit_handler ends in exit(2); SIGKILL, or a crash, ends the process at once.
ClientSignal ==
    /\ faults < MaxFault
    /\ \/ pc \in {"loop", "fill"} /\ pc' = "exiting"
       \/ pc \in {"loop", "fill", "exiting"} /\ pc' = "killed"
    /\ faults' = faults + 1
    /\ UNCHANGED <<scanning, args, todo, workList, cursor, closing, registered, outBuf,
                   fileVars, wireVars, serverUp, archiveVars>>

ServerSignal ==
    /\ serverUp /\ faults < MaxFault
    /\ serverUp' = FALSE
    /\ faults' = faults + 1
    /\ UNCHANGED <<clientVars, fileVars, wireVars, archiveVars>>

\* A handler of the client sees the end of the connection and quits the loop, to
\* which do_extract returns only when its scan is over.
ClientHangup ==
    /\ pc = "loop" /\ ~serverUp /\ ~scanning
    /\ pc' = "exiting"
    /\ UNCHANGED <<scanning, args, todo, workList, cursor, closing, registered, outBuf,
                   fileVars, wireVars, serverUp, archiveVars, faults>>

\* The server sees that the client is gone, perhaps with packets unread.
ServerHangup ==
    /\ pc \in {"ended", "aborted", "killed"} /\ serverUp
    /\ serverUp' = FALSE
    /\ UNCHANGED <<clientVars, fileVars, wireVars, archiveVars, faults>>

-----------------------------------------------------------------------------
ScanStep == NextArgument \/ EndScan \/ \E f \in File : Skip(f) \/ ExtractFile(f)

OutputStep == OutputBuffered \/ FillStart \/ FillRequest \/ FillNext \/ FillEnd

InputStep == \E i \in DOMAIN workList :
    ReceiveNothing(i) \/ ReceiveSealed(i) \/ ReceiveList(i) \/ ReceiveAborts(i) \/ ReceiveBlock(i)

ClientStep == ScanStep \/ OutputStep \/ InputStep \/ ExitFlush \/ ExitEnds

ServerStep == AcceptGetBlock \/ ReceiveBye

Next == \/ ClientStep \/ ServerStep
        \/ ClientSignal \/ ServerSignal \/ ClientHangup \/ ServerHangup

Spec == Init /\ [][Next]_vars

\* As in BackupSession: each process runs while it has something to do, and the
\* end of a connection is noticed.
Fairness == /\ WF_vars(ClientStep) /\ WF_vars(ServerStep)
            /\ WF_vars(ClientHangup) /\ WF_vars(ServerHangup)

FairSpec == Spec /\ Fairness

-----------------------------------------------------------------------------
(* Properties. *)

TypeOK ==
    /\ pc \in {"loop", "fill", "exiting", "ended", "aborted", "killed"}
    /\ scanning \in BOOLEAN /\ closing \in BOOLEAN /\ registered \in BOOLEAN
    /\ args \in Seq(SUBSET File) /\ todo \in Seq(File) /\ workList \in Seq(Ticket) /\ cursor \in Nat
    /\ \A i \in DOMAIN workList : workList[i].fp \in DOMAIN streams
    /\ outBuf \in Seq(Message) /\ toServer \in Seq(Message) /\ toClient \in Seq(Message)
    /\ streams \in Seq(Seq(Write)) /\ disk \in Seq(Write)
    /\ summary \subseteq File /\ archive \in [Object -> Record]
    /\ sealed \in Nat /\ key \in Nat
    /\ serverUp \in BOOLEAN /\ faults \in Nat

\* The blocks of f that the archive can give.
Copy(f) == {k \in 1 .. Blocks[f] : archive[<<f, k>>] = "good"}

\* The blocks of f that the disk and the streams of the client have.
Written      == ToSet(disk) \cup UNION {ToSet(streams[i]) : i \in DOMAIN streams}
Installed(f) == {w.block : w \in {v \in Written : v.file = f}}

\* What is written for a file is the archived copy up to some block, in its
\* order: no imposter, no block out of order or twice.  (install_block)
Promise == INSTANCE ExtractPromise WITH copy <- [f \in File |-> Copy(f)], got <- disk

Implements == Promise!Spec

\* A client that waits for an answer that is not to come, as every extraction
\* does in the end, waits with all that can be had: of every ticket whose list
\* exists, every block that the archive can give is installed.
Waits == /\ pc = "loop" /\ ~scanning /\ ~registered /\ outBuf = <<>>
         /\ toServer = <<>> /\ toClient = <<>> /\ serverUp

WaitsWithAll ==
    Waits => \A i \in DOMAIN workList :
                archive[<<workList[i].file, 0>>] = "good" =>
                    Installed(workList[i].file) = Copy(workList[i].file)

\* The client was aborted, by a list that is damaged or by arguments that match a
\* file twice.  (ios_read_int32, wt_assert)
AbortDue ==
    pc = "aborted" /\ \E i \in DOMAIN workList :
        \/ archive[<<workList[i].file, 0>>] = "bad"
        \/ \E j \in DOMAIN workList : i # j /\ workList[i].file = workList[j].file

\* The scan will come to f.
Sought(f) == /\ scanning /\ f \in summary
             /\ \/ f \in ToSet(todo) /\ f \in Head(args)
                \/ f \in ToSet(Names) /\ \E i \in 2 .. Len(args) : f \in args[i]

\* A file with a summary and a list, in an archive that can be decrypted, gets all
\* its blocks, whatever else is missing, unless a signal or a lost connection
\* intervenes, or one of the two things that abort the client: nothing else does.
Extracts ==
    \A f \in File :
        (Sought(f) /\ archive[<<f, 0>>] = "good" /\ Opens)
            ~> (Installed(f) = Copy(f) \/ faults > 0 \/ AbortDue)

\* src/version-1/doc/usage.txt:92-95: "To restore those files again: cryptar --extract
\* work-files".  A file gets all its blocks, in every build.
Restores ==
    \A f \in File : Sought(f) ~> Installed(f) = Copy(f)
=============================================================================
