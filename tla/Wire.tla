--------------------------------- MODULE Wire ---------------------------------
(***************************************************************************)
(* One direction of the connection, as bytes: the packets of the protocol, *)
(* the output buffer and the handler that empties it, a pipe that holds    *)
(* only so much, the input buffer and the loop that takes whole packets    *)
(* from it and reads their fields.  A read or a write moves as many bytes  *)
(* as the kernel likes.                                                    *)
(*                                                                         *)
(* The sender's handlers are a script of the packets they send, at any     *)
(* time; wt_process_queue, which the output handler calls when its buffer  *)
(* is empty, is one of those times.  One turn of the loop in               *)
(* read_and_dispatch_commands is one step, during which the receiver does  *)
(* nothing else.  What the handlers do with a packet is left to            *)
(* BackupSession and ExtractSession.                                       *)
(***************************************************************************)
EXTENDS IosBuf

CONSTANTS
    Scripts,   \* the sequences of packets that a sender may send
    PipeSize,  \* what the pipe holds
    BufSize,   \* BUF_SIZE of the input handler
    MaxError   \* the number of writes that may fail

-----------------------------------------------------------------------------
(* The packets (enum proto_command; the numbers are theirs). *)

Hello == 0
HelloAck == 1
Bye == 2
PutBlock == 3
PutBlockAck == 4
GetBlock == 5
GetBlockAck == 6

\* send_hello, send_hello_ack, send_bye, send_put_block, send_put_ack,
\* send_get_block, send_get_ack.
Fields(p) ==
    CASE p.cmd = Hello -> Int8(p.version) \o Int32(p.archive) \o Int32(p.pass)
                            \o Int8(p.create) \o Str(p.message)
      [] p.cmd = HelloAck -> Int8(p.version) \o Int16(p.error) \o Int32(p.archive)
                               \o Str(p.message)
      [] p.cmd = Bye -> Int8(p.version) \o Int16(p.error)
      [] p.cmd \in {PutBlock, GetBlockAck} -> Int32(p.file) \o Int32(p.block) \o Str(p.data)
      [] p.cmd \in {PutBlockAck, GetBlock} -> Int32(p.file) \o Int32(p.block) \o Int32(p.archive)

Encode(p) == Int8(p.cmd) \o Fields(p)

\* receive_hello, receive_hello_ack (which reads no archive id), receive_bye,
\* receive_put_block, receive_put_ack, receive_get_block, receive_get_ack.
Decode(s) ==
    LET cmd == Int8At(s, 0)
        \* the n-th 32-bit field behind the command
        field(n) == Int32At(s, 1 + (n - 1) * WordBytes)
    IN  CASE cmd = Hello -> [cmd |-> cmd, version |-> Int8At(s, 1),
                             archive |-> Int32At(s, 2), pass |-> Int32At(s, 2 + WordBytes),
                             create |-> Int8At(s, 2 + 2 * WordBytes),
                             message |-> StrAt(s, 3 + 2 * WordBytes)]
          [] cmd = HelloAck -> [cmd |-> cmd, version |-> Int8At(s, 1), error |-> Int16At(s, 2),
                                message |-> StrAt(s, 2 + ShortBytes)]
          [] cmd = Bye -> [cmd |-> cmd, version |-> Int8At(s, 1), error |-> Int16At(s, 2)]
          [] cmd \in {PutBlock, GetBlockAck} ->
                [cmd |-> cmd, file |-> field(1), block |-> field(2),
                 data |-> StrAt(s, 1 + 2 * WordBytes)]
          [] cmd \in {PutBlockAck, GetBlock} ->
                [cmd |-> cmd, file |-> field(1), block |-> field(2), archive |-> field(3)]

\* The structs that send_* is given: the fields have their width, and the length of
\* the packet fits in the 32 bits before it.
Packet ==
    LET Field == Word(WordBytes)
    IN  {p \in [cmd : {Hello}, version : Word(1), archive : Field, pass : Field,
                create : Word(1), message : Seq(Byte)]
              \cup [cmd : {HelloAck}, version : Word(1), error : Word(ShortBytes),
                    archive : Field, message : Seq(Byte)]
              \cup [cmd : {Bye}, version : Word(1), error : Word(ShortBytes)]
              \cup [cmd : {PutBlock, GetBlockAck}, file : Field, block : Field,
                    data : Seq(Byte)]
              \cup [cmd : {PutBlockAck, GetBlock}, file : Field, block : Field,
                    archive : Field] :
            Len(Encode(p)) \in Field}

ASSUME WireAssumption ==
    /\ PipeSize \in Nat \ {0} /\ BufSize \in Nat \ {0} /\ MaxError \in Nat
    /\ GetBlockAck < Base
    /\ Scripts \subseteq Seq(Packet)

-----------------------------------------------------------------------------
VARIABLES
    script,        \* the packets still to be sent
    out,           \* ios_write_buf
    registered,    \* the output handler is a source of the loop
    ignoreOutput,  \* ignore_output
    closed,        \* the sender has left its loop and closed the pipe
    pipe,
    in,            \* ios_read_buf
    dispatching,   \* the receiver is in read_and_dispatch_commands
    gone,          \* the receiver has left its loop
    errors,        \* the writes that failed
    \* history
    sent,          \* the packets that io_send_ios accepted
    got            \* the packets that were dispatched, as their receiver reads them

senderVars == <<script, out, registered, ignoreOutput, closed, sent>>
receiverVars == <<in, dispatching, gone, got>>
vars == <<senderVars, receiverVars, pipe, errors>>

Init ==
    /\ script \in Scripts
    /\ out = IosNew /\ registered = TRUE /\ ignoreOutput = FALSE /\ closed = FALSE
    /\ pipe = <<>>
    /\ in = IosNew /\ dispatching = FALSE /\ gone = FALSE
    /\ errors = 0
    /\ sent = <<>> /\ got = <<>>

-----------------------------------------------------------------------------
(* The sender. *)

\* io_send_ios.
SendIos(packet) ==
    LET bytes == Int32(Len(packet)) \o packet
    IN  /\ out' = IosAppend(out, bytes)
        /\ registered' = TRUE

\* A handler of the sender calls one of send_*.
SendPacket ==
    /\ ~closed /\ script # <<>>
    /\ script' = Tail(script)
    /\ LET p == Head(script)
       IN  \/ /\ ignoreOutput
              /\ UNCHANGED <<out, registered, ignoreOutput, sent>>
           \/ /\ ~ignoreOutput
              /\ SendIos(Encode(p))
              /\ sent' = Append(sent, p)
              /\ ignoreOutput' = (p.cmd = Bye)  \* io_no_more_output, in send_bye
    /\ UNCHANGED <<closed, receiverVars, pipe, errors>>

\* io_output_handler, with nothing to write.
Deregister ==
    /\ ~closed /\ registered /\ IosSize(out) = 0
    /\ registered' = FALSE
    /\ closed' = ignoreOutput
    /\ UNCHANGED <<script, out, ignoreOutput, sent, receiverVars, pipe, errors>>

\* io_output_handler: some bytes are written.
Write(n) ==
    /\ ~closed /\ registered /\ ~gone
    /\ n <= IosSize(out) /\ n <= PipeSize - Len(pipe)
    /\ pipe' = pipe \o SubSeq(out.data, out.rp + 1, out.rp + n)
    /\ out' = IosSkip(out, n)
    /\ UNCHANGED <<script, registered, ignoreOutput, closed, sent, receiverVars, errors>>

\* io_output_handler: the write reports an error and the handler removes itself.
WriteError ==
    /\ ~closed /\ registered /\ IosSize(out) > 0
    /\ errors < MaxError /\ errors' = errors + 1
    /\ registered' = FALSE
    /\ UNCHANGED <<script, out, ignoreOutput, closed, sent, receiverVars, pipe>>

\* io_output_handler: the other side has hung up.
SenderHangup ==
    /\ ~closed /\ registered /\ gone
    /\ registered' = FALSE /\ closed' = TRUE
    /\ UNCHANGED <<script, out, ignoreOutput, sent, receiverVars, pipe, errors>>

-----------------------------------------------------------------------------
(* The receiver. *)

\* io_input_handler: some of the bytes in the pipe are read.
Read(n) ==
    /\ ~gone /\ ~dispatching /\ ~closed
    /\ n <= Len(pipe) /\ n <= BufSize
    /\ pipe' = SubSeq(pipe, n + 1, Len(pipe))
    /\ in' = IosAppend(in, SubSeq(pipe, 1, n))
    /\ dispatching' = TRUE
    /\ UNCHANGED <<gone, got, senderVars, errors>>

\* io_input_handler: a hangup is looked at before what there is to read.
ReceiverHangup ==
    /\ ~gone /\ ~dispatching /\ closed
    /\ gone' = TRUE
    /\ UNCHANGED <<in, dispatching, got, senderVars, pipe, errors>>

\* A slip: a packet is taken only when a byte of the next one is there.
HasMore(b) ==
    /\ IosSize(b) >= WordBytes + 1
    /\ Int32At(IosUnread(b), 0) < IosSize(b) - WordBytes

\* The tests of read_and_dispatch_one_command.
HasPacket(b) ==
    /\ IosSize(b) >= WordBytes + 1
    /\ Int32At(IosUnread(b), 0) <= IosSize(b) - WordBytes

\* read_and_dispatch_one_command, with a whole packet; the loop goes on.
Dispatch ==
    /\ dispatching /\ HasPacket(in)
    /\ LET length == Int32At(IosUnread(in), 0)
           packet == SubSeq(IosUnread(in), WordBytes + 1, WordBytes + length)
       IN  /\ got' = Append(got, Decode(packet))
           /\ in' = IosSkip(in, WordBytes + length)
    /\ UNCHANGED <<dispatching, gone, senderVars, pipe, errors>>

\* receive_bye has called quit_main_loop.
ByeHeard == got # <<>> /\ Last(got).cmd = Bye

\* read_and_dispatch_one_command, without one; cycle_main_loop then sees whether
\* quit_main_loop was called.
Wait ==
    /\ dispatching /\ ~HasPacket(in)
    /\ dispatching' = FALSE
    /\ gone' = ByeHeard
    /\ UNCHANGED <<in, got, senderVars, pipe, errors>>

-----------------------------------------------------------------------------
SenderStep == SendPacket \/ Deregister \/ (\E n \in 1 .. PipeSize : Write(n)) \/ SenderHangup
ReceiverStep == (\E n \in 1 .. BufSize : Read(n)) \/ ReceiverHangup \/ Dispatch \/ Wait

Next == SenderStep \/ WriteError \/ ReceiverStep

Spec == Init /\ [][Next]_vars

\* Both processes are scheduled, and g_main_run calls whatever handler is due.
Fairness ==
    /\ WF_vars(SendPacket)
    /\ WF_vars(Deregister \/ (\E n \in 1 .. PipeSize : Write(n)) \/ SenderHangup)
    /\ WF_vars(ReceiverStep)

FairSpec == Spec /\ Fairness

-----------------------------------------------------------------------------
(* Properties. *)

\* The variables hold what the code can hold.
TypeOK ==
    /\ out \in IosType /\ in \in IosType
    /\ pipe \in Seq(Byte) /\ Len(pipe) <= PipeSize
    /\ {registered, ignoreOutput, closed, dispatching, gone} \subseteq BOOLEAN
    /\ errors \in 0 .. MaxError

\* No buffer is written beyond what is allocated for it or read beyond what is in
\* it, however reads and writes cut the packets (ios_append, ios_grow, ios_read).
Fits ==
    \A b \in {out, in} : b.rp <= Len(b.data) /\ Len(b.data) <= b.alloc

\* A packet as its receiver is to understand it: all fields, but of a hello ack
\* only those that the handler uses, version and error.
Agree(p, q) ==
    IF p.cmd = HelloAck THEN q.cmd = HelloAck /\ q.version = p.version /\ q.error = p.error
                        ELSE q = p

\* Packets arrive whole, once and in order, each with the fields it was sent with.
Channel == INSTANCE PacketChannel
Implements == Channel!Spec

\* A packet that was sent is dispatched, unless a write failed or the receiver
\* left: no packet waits in a buffer for ever.
Delivered ==
    \A n \in 1 .. 4 : (Len(sent) >= n) ~> (Len(got) >= n \/ errors > 0 \/ gone)
=============================================================================
