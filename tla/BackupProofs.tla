---------------------------- MODULE BackupProofs ----------------------------
(***************************************************************************)
(* BackupSession keeps its types; what a summary leads to is complete, the *)
(* block table tells the truth, and num_blocks_moved never wraps.          *)
(*                                                                         *)
(* TypeOK is not inductive by itself: a block is filled from its local id, *)
(* so that the type of what is sent rests on every local id, wherever it   *)
(* is kept, having been given out by the kBlocks counter before.           *)
(*                                                                         *)
(* The rest follows one block.  Its local id is new: it is on its way      *)
(* (Flying) or still marked as not stored in a ticket (Fresh).  It is on   *)
(* its way once, and belongs to at most one entry of one ticket.  So an    *)
(* ack takes one away from the blocks of the ticket that were sent and are *)
(* not stored, and num_blocks_moved, which it decrements, stays at least   *)
(* their number: when it reaches zero with nothing left to send, the whole *)
(* list is stored, and only then the list is sent.                         *)
(*                                                                         *)
(* Also, no wake-up of the output handler is lost.  And, when each file is *)
(* reported once in a run, the client never aborts, counts exactly what is *)
(* on its way, strands no new block, says goodbye last, and keeps the      *)
(* promise of BackupPromise.                                               *)
(*                                                                         *)
(* That argument follows a file.  It has at most one ticket, and at        *)
(* most one packet on its way that is about the file and not about a       *)
(* block.  Every packet on its way is accounted for by the ticket of its   *)
(* file: it is what a ticket of that status waits for.  So an answer finds *)
(* its ticket, in the state that the answer supposes, and once the last    *)
(* ticket is gone there is no packet left.                                 *)
(***************************************************************************)
EXTENDS BackupSession, SequenceLemmas, FiniteSetTheorems

-----------------------------------------------------------------------------
(* Types. *)

\* The types of the data, the local ids being in D.
EntryOf(D)     == [local : D, remote : Nat, cover : BOOLEAN]
ListEntryOf(D) == [local : D, remote : Nat]
TicketOf(D)    == [file : File, status : Status, blocks : Seq(EntryOf(D)),
                   next : Nat, moved : Int]
ObjectOf(D)    == [kind : {"block", "list", "none"}, data : Nat, list : Seq(ListEntryOf(D))]
MessageOf(D)   == [cmd   : {"PutBlock", "PutBlockAck", "GetBlock", "GetBlockAck", "Bye"},
                   file  : File \cup {NoFile},
                   block : D \cup {0},
                   id    : Nat,
                   obj   : ObjectOf(D)]

\* The local ids given out.
Ids == 1 .. Len(bytes)

\* The inductive type invariant: the plain variables, and the data by ids.
Plain == /\ pc \in {"down", "loop", "fill", "aborted", "noPreference"}
         /\ scanning \in BOOLEAN /\ closing \in BOOLEAN /\ registered \in BOOLEAN
         /\ serverUp \in BOOLEAN
         /\ todo \in Seq(File) /\ cursor \in Nat
         /\ summary \in [File -> Nat] /\ blockTable \subseteq Nat /\ bytes \in Seq(Nat)
         /\ sessions \in Nat /\ faults \in Nat

LocalsKnown == /\ workList \in Seq(TicketOf(Ids))
               /\ outBuf \in Seq(MessageOf(Ids))
               /\ toServer \in Seq(MessageOf(Ids))
               /\ toClient \in Seq(MessageOf(Ids))
               /\ store \in Seq(ObjectOf(Ids))

TypeInv == Plain /\ LocalsKnown

-----------------------------------------------------------------------------
(* The types grow with the ids. *)

\* A sequence over a set is one over any larger set.
LEMMA SeqMonotone ==
    ASSUME NEW S, NEW T, S \subseteq T
    PROVE  Seq(S) \subseteq Seq(T)
<1>1. SUFFICES ASSUME NEW q \in Seq(S) PROVE q \in Seq(T)
  OBVIOUS
<1>2. \A i \in 1 .. Len(q) : q[i] \in T
  OBVIOUS
<1>3. q = [i \in 1 .. Len(q) |-> q[i]] /\ Len(q) \in Nat
  OBVIOUS
<1>4. [i \in 1 .. Len(q) |-> q[i]] \in Seq(T)
  BY <1>2, <1>3
<1>5. QED
  BY <1>3, <1>4

\* A larger set of ids makes larger types.
LEMMA TypesMonotone ==
    ASSUME NEW D, NEW E, D \subseteq E
    PROVE  /\ Seq(EntryOf(D)) \subseteq Seq(EntryOf(E))
           /\ Seq(ListEntryOf(D)) \subseteq Seq(ListEntryOf(E))
           /\ Seq(TicketOf(D)) \subseteq Seq(TicketOf(E))
           /\ Seq(ObjectOf(D)) \subseteq Seq(ObjectOf(E))
           /\ Seq(MessageOf(D)) \subseteq Seq(MessageOf(E))
<1>1. Seq(EntryOf(D)) \subseteq Seq(EntryOf(E))
  <2>1. EntryOf(D) \subseteq EntryOf(E)
    BY DEF EntryOf
  <2>2. QED
    BY <2>1, SeqMonotone
<1>2. Seq(ListEntryOf(D)) \subseteq Seq(ListEntryOf(E))
  <2>1. ListEntryOf(D) \subseteq ListEntryOf(E)
    BY DEF ListEntryOf
  <2>2. QED
    BY <2>1, SeqMonotone
<1>3. Seq(TicketOf(D)) \subseteq Seq(TicketOf(E))
  <2>1. TicketOf(D) \subseteq TicketOf(E)
    BY <1>1 DEF TicketOf
  <2>2. QED
    BY <2>1, SeqMonotone
<1>4. ObjectOf(D) \subseteq ObjectOf(E)
  BY <1>2 DEF ObjectOf
<1>5. Seq(MessageOf(D)) \subseteq Seq(MessageOf(E))
  <2>1. MessageOf(D) \subseteq MessageOf(E)
    BY <1>4 DEF MessageOf
  <2>2. QED
    BY <2>1, SeqMonotone
<1>6. QED
  BY <1>1, <1>2, <1>3, <1>4, <1>5, SeqMonotone

\* With ids that are numbers, the types are those of BackupSession.
LEMMA TypesRefined ==
    ASSUME NEW D, D \subseteq Nat
    PROVE  /\ Seq(TicketOf(D)) \subseteq Seq(Ticket)
           /\ Seq(ObjectOf(D)) \subseteq Seq(Object)
           /\ Seq(MessageOf(D)) \subseteq Seq(Message)
<1>1. /\ Seq(TicketOf(D)) \subseteq Seq(TicketOf(Nat))
      /\ Seq(ObjectOf(D)) \subseteq Seq(ObjectOf(Nat))
      /\ Seq(MessageOf(D)) \subseteq Seq(MessageOf(Nat))
  BY TypesMonotone
<1>2. TicketOf(Nat) = Ticket
  BY DEF TicketOf, Ticket, EntryOf, Entry
<1>3. ObjectOf(Nat) = Object
  BY DEF ObjectOf, Object, ListEntryOf, ListEntry
<1>4. Nat \cup {0} = Nat
  OBVIOUS
<1>5. MessageOf(Nat) = Message
  BY <1>3, <1>4 DEF MessageOf, Message
<1>6. QED
  BY <1>1, <1>2, <1>3, <1>5

-----------------------------------------------------------------------------
(* The types of what the handlers build. *)

\* The archive records that the handlers build, and the lack of one, are objects.
LEMMA ObjectTypes ==
    ASSUME NEW D
    PROVE  /\ NoObject \in ObjectOf(D)
           /\ \A d \in Nat : BlockObject(d) \in ObjectOf(D)
           /\ \A l \in Seq(ListEntryOf(D)) : ListObject(l) \in ObjectOf(D)
BY DEF NoObject, BlockObject, ListObject, ObjectOf

\* The packets that send_put_block, send_put_ack, send_get_block, send_get_ack
\* and send_bye write are messages.
LEMMA MessageTypes ==
    ASSUME NEW D, NEW f \in File, NEW b \in D \cup {0}, NEW i \in Nat, NEW o \in ObjectOf(D)
    PROVE  /\ PutBlock(f, b, o) \in MessageOf(D)
           /\ PutBlockAck(f, b, i) \in MessageOf(D)
           /\ GetBlock(f, b, i) \in MessageOf(D)
           /\ GetBlockAck(f, b, o) \in MessageOf(D)
           /\ Bye \in MessageOf(D)
BY ObjectTypes DEF PutBlock, PutBlockAck, GetBlock, GetBlockAck, Bye, MessageOf

\* A ticket whose fields are updated.
LEMMA TicketUpdates ==
    ASSUME NEW D, NEW t \in TicketOf(D)
    PROVE  /\ \A n \in Nat : [t EXCEPT !.next = n] \in TicketOf(D)
           /\ \A s \in Status : [t EXCEPT !.status = s] \in TicketOf(D)
           /\ \A m \in Int : [t EXCEPT !.moved = m] \in TicketOf(D)
           /\ \A b \in Seq(EntryOf(D)) : [t EXCEPT !.blocks = b] \in TicketOf(D)
           /\ Counted(t) \in TicketOf(D)
           /\ t.file \in File /\ t.status \in Status /\ t.blocks \in Seq(EntryOf(D))
           /\ t.next \in Nat /\ t.moved \in Int
<1> DEFINE B == Seq(EntryOf(D))
<1> HIDE DEF B
<1>1. TicketOf(D) = [file : File, status : Status, blocks : B, next : Nat, moved : Int]
  BY DEF TicketOf, B
<1>2. /\ \A n \in Nat : [t EXCEPT !.next = n] \in TicketOf(D)
      /\ \A s \in Status : [t EXCEPT !.status = s] \in TicketOf(D)
      /\ \A m \in Int : [t EXCEPT !.moved = m] \in TicketOf(D)
      /\ \A b \in B : [t EXCEPT !.blocks = b] \in TicketOf(D)
  BY <1>1
<1>3. /\ t.file \in File /\ t.status \in Status /\ t.blocks \in B
      /\ t.next \in Nat /\ t.moved \in Int
  BY <1>1
<1>4. Counted(t) \in TicketOf(D)
  BY <1>1, <1>3 DEF Counted
<1>5. QED
  BY <1>2, <1>3, <1>4 DEF B

\* The list that is sent has an entry for each block of the ticket.
LEMMA BlockListType ==
    ASSUME NEW D, NEW b \in Seq(EntryOf(D))
    PROVE  BlockList(b) \in Seq(ListEntryOf(D))
<1>1. DOMAIN b = 1 .. Len(b) /\ Len(b) \in Nat
  OBVIOUS
<1>2. \A k \in 1 .. Len(b) : [local |-> b[k].local, remote |-> b[k].remote] \in ListEntryOf(D)
  <2>1. \A k \in 1 .. Len(b) : b[k] \in EntryOf(D)
    OBVIOUS
  <2>2. QED
    BY <2>1 DEF EntryOf, ListEntryOf
<1>3. BlockList(b) = [k \in 1 .. Len(b) |-> [local |-> b[k].local, remote |-> b[k].remote]]
  BY <1>1 DEF BlockList
<1>4. BlockList(b) \in [1 .. Len(b) -> ListEntryOf(D)]
  BY <1>2, <1>3
<1>5. QED
  BY <1>1, <1>4

\* A cover has the old blocks and the new ones, and gives out ids for as many.
LEMMA NewCoverType ==
    ASSUME bytes \in Seq(Nat),
           NEW old \in Seq(ListEntryOf(Ids)), NEW keep \in SUBSET DOMAIN old,
           NEW move \in SUBSET keep, NEW n \in Nat
    PROVE  /\ NewCover(old, keep, move, n) \in
                 Seq(EntryOf(1 .. Len(bytes) + Len(old) + n))
           /\ CoverBytes(old, n) \in Seq(Nat)
           /\ Len(CoverBytes(old, n)) = Len(bytes) + Len(old) + n
           /\ Len(NewCover(old, keep, move, n)) = Len(old) + n
           /\ \A i \in Ids : CoverBytes(old, n)[i] = bytes[i]
<1> DEFINE N == Len(bytes) + Len(old) + n
           added == [k \in 1 .. Len(old) + n |->
                       IF k > Len(old) THEN Len(bytes) + k ELSE bytes[old[k].local]]
<1>1. Len(bytes) \in Nat /\ Len(old) \in Nat /\ DOMAIN old = 1 .. Len(old)
  OBVIOUS
<1>2. \A k \in 1 .. Len(old) : old[k].local \in Ids /\ old[k].remote \in Nat
  <2>1. \A k \in 1 .. Len(old) : old[k] \in ListEntryOf(Ids)
    OBVIOUS
  <2>2. QED
    BY <2>1 DEF ListEntryOf
<1>3. Ids \subseteq 1 .. N
  BY <1>1 DEF Ids
<1>4. ASSUME NEW k \in 1 .. Len(old) + n
      PROVE  NewCover(old, keep, move, n)[k] \in EntryOf(1 .. N)
  <2>1. Len(bytes) + k \in 1 .. N
    BY <1>1
  <2>2. CASE k > Len(old)
    <3>1. NewCover(old, keep, move, n)[k] =
              [local |-> Len(bytes) + k, remote |-> 0, cover |-> TRUE]
      BY <2>2 DEF NewCover
    <3>2. QED
      BY <2>1, <3>1 DEF EntryOf
  <2>3. CASE ~(k > Len(old))
    <3>1. NewCover(old, keep, move, n)[k] =
              [local  |-> IF k \in move THEN Len(bytes) + k ELSE old[k].local,
               remote |-> old[k].remote, cover |-> k \in keep]
      BY <2>3 DEF NewCover
    <3>2. k \in 1 .. Len(old)
      BY <1>1, <2>3
    <3>3. old[k].local \in 1 .. N /\ old[k].remote \in Nat
      BY <1>2, <1>3, <3>2
    <3>4. (k \in keep) \in BOOLEAN
      OBVIOUS
    <3>5. QED
      BY <2>1, <3>1, <3>3, <3>4 DEF EntryOf
  <2>4. QED
    BY <2>2, <2>3
<1>5. /\ NewCover(old, keep, move, n) \in Seq(EntryOf(1 .. N))
      /\ Len(NewCover(old, keep, move, n)) = Len(old) + n
  <2>1. NewCover(old, keep, move, n) \in [1 .. Len(old) + n -> EntryOf(1 .. N)]
    BY <1>4 DEF NewCover
  <2>2. Len(old) + n \in Nat
    BY <1>1
  <2>3. \A m \in Nat : \A c \in [1 .. m -> EntryOf(1 .. N)] :
            c \in Seq(EntryOf(1 .. N)) /\ Len(c) = m
    OBVIOUS
  <2>4. QED
    BY <2>1, <2>2, <2>3
<1>6. added \in Seq(Nat) /\ Len(added) = Len(old) + n
  <2>1. \A k \in 1 .. Len(old) + n : added[k] \in Nat
    BY <1>1, <1>2 DEF Ids
  <2>2. added \in [1 .. Len(old) + n -> Nat]
    BY <2>1
  <2>3. QED
    BY <1>1, <2>2
<1>7. CoverBytes(old, n) = bytes \o added
  BY DEF CoverBytes
<1>8. CoverBytes(old, n) \in Seq(Nat) /\ Len(CoverBytes(old, n)) = N
  BY <1>1, <1>6, <1>7
<1>9. \A i \in Ids : CoverBytes(old, n)[i] = bytes[i]
  <2>1. \A i \in DOMAIN bytes : (bytes \o added)[i] = bytes[i]
    BY <1>6, ConcatFacts
  <2>2. QED
    BY <1>1, <1>7, <2>1 DEF Ids
<1>10. QED
  BY <1>5, <1>8, <1>9
-----------------------------------------------------------------------------
(* The steps. *)

\* The inductive invariant implies the type invariant.
LEMMA TypeInvRefines == TypeInv => TypeOK
<1>1. Ids \subseteq Nat
  BY DEF Ids
<1>2. QED
  BY <1>1, TypesRefined DEF TypeInv, Plain, LocalsKnown, TypeOK

\* The types hold before the first run.
LEMMA TypeInit == Init => TypeInv
<1>1. SUFFICES ASSUME Init PROVE TypeInv
  OBVIOUS
<1>2. \A S : <<>> \in Seq(S)
  OBVIOUS
<1>3. QED
  BY <1>1, <1>2 DEF Init, TypeInv, Plain, LocalsKnown

\* A process that ends leaves the types alone.
LEMMA GoneTypes ==
    ASSUME TypeInv, ClientGone, UNCHANGED tableVars, UNCHANGED wireVars,
           UNCHANGED serverVars, sessions' \in Nat, faults' \in Nat
    PROVE  TypeInv'
<1>1. \A S : <<>> \in Seq(S)
  OBVIOUS
<1>2. Ids' = Ids
  BY DEF Ids, tableVars
<1>3. QED
  BY <1>1, <1>2 DEF TypeInv, Plain, LocalsKnown, ClientGone, tableVars, wireVars, serverVars

\* More ids: what was typed stays typed.
LEMMA GrownTypes ==
    ASSUME TypeInv, NEW n \in Nat, Len(bytes') = Len(bytes) + n
    PROVE  /\ Ids \subseteq Ids' /\ Ids' \subseteq Nat
           /\ workList \in Seq(TicketOf(Ids'))
           /\ outBuf \in Seq(MessageOf(Ids'))
           /\ toServer \in Seq(MessageOf(Ids'))
           /\ toClient \in Seq(MessageOf(Ids'))
           /\ store \in Seq(ObjectOf(Ids'))
<1>1. Len(bytes) \in Nat
  BY DEF TypeInv, Plain
<1>2. Ids \subseteq Ids' /\ Ids' \subseteq Nat
  BY <1>1 DEF Ids
<1>3. QED
  BY <1>2, TypesMonotone DEF TypeInv, LocalsKnown

\* A goodbye, said or not.
LEMMA ByeTypes ==
    ASSUME TypeInv, NEW list, ByeIfDone(list)
    PROVE  /\ outBuf' \in Seq(MessageOf(Ids))
           /\ closing' \in BOOLEAN /\ registered' \in BOOLEAN
<1>1. Bye \in MessageOf(Ids)
  BY DEF Bye, MessageOf, NoObject, ObjectOf
<1>2. outBuf \in Seq(MessageOf(Ids)) /\ closing \in BOOLEAN /\ registered \in BOOLEAN
  BY DEF TypeInv, Plain, LocalsKnown
<1>3. CASE SayBye
  BY <1>1, <1>2, <1>3 DEF SayBye, WriteReg
<1>4. CASE UNCHANGED <<outBuf, closing, registered>>
  BY <1>2, <1>4
<1>5. QED
  BY <1>3, <1>4 DEF ByeIfDone

\* do_archive and archive_it keep the types.
LEMMA TypeArchive == TypeInv /\ ArchiveStep => TypeInv'
<1>1. SUFFICES ASSUME TypeInv, ArchiveStep PROVE TypeInv'
  OBVIOUS
<1>2. CASE EndScan
  <2>1. Ids' = Ids
    BY <1>2 DEF EndScan, tableVars, Ids
  <2>2. Bye \in MessageOf(Ids)
    BY DEF Bye, MessageOf, NoObject, ObjectOf
  <2>3. outBuf' \in Seq(MessageOf(Ids)) /\ closing' \in BOOLEAN /\ registered' \in BOOLEAN
    BY <1>1, <1>2, <2>2, ByeTypes DEF EndScan
  <2>4. QED
    BY <1>1, <1>2, <2>1, <2>3
    DEF EndScan, TypeInv, Plain, LocalsKnown, tableVars, serverVars, wireVars, boundVars
<1>3. ASSUME NEW f \in File, VisitNew(f) PROVE TypeInv'
  <2>1. todo' \in Seq(File)
    BY <1>1, <1>3 DEF VisitNew, Report, Reported, TypeInv, Plain
  <2>2. PICK n \in MinNew .. MaxNew :
          /\ workList' = Append(workList,
                                NewTicket(f, "SendingBlocks", NewCover(<<>>, {}, {}, n)))
          /\ bytes' = CoverBytes(<<>>, n)
    BY <1>3 DEF VisitNew
  <2>3. n \in Nat
    BY ConstantsAssumption
  <2>4. /\ NewCover(<<>>, {}, {}, n) \in Seq(EntryOf(1 .. Len(bytes) + n))
        /\ bytes' \in Seq(Nat)
        /\ Len(bytes') = Len(bytes) + n
    <3>1. <<>> \in Seq(ListEntryOf(Ids)) /\ Len(<<>>) = 0 /\ bytes \in Seq(Nat)
      BY <1>1 DEF TypeInv, Plain
    <3>2. {} \in SUBSET DOMAIN <<>> /\ {} \in SUBSET {}
      OBVIOUS
    <3>3. Len(bytes) + 0 + n = Len(bytes) + n
      BY <2>3, <3>1
    <3>4. QED
      BY <2>2, <2>3, <3>1, <3>2, <3>3, NewCoverType
  <2>5. NewTicket(f, "SendingBlocks", NewCover(<<>>, {}, {}, n)) \in TicketOf(Ids')
    BY <2>4 DEF NewTicket, TicketOf, Status, Ids
  <2>6. /\ Ids \subseteq Ids' /\ Ids' \subseteq Nat
        /\ workList \in Seq(TicketOf(Ids')) /\ outBuf \in Seq(MessageOf(Ids'))
        /\ toServer \in Seq(MessageOf(Ids')) /\ toClient \in Seq(MessageOf(Ids'))
        /\ store \in Seq(ObjectOf(Ids'))
    BY <1>1, <2>3, <2>4, GrownTypes
  <2> DEFINE T == TicketOf(Ids')
             t == NewTicket(f, "SendingBlocks", NewCover(<<>>, {}, {}, n))
  <2>7. workList' = Append(workList, t)
    BY <2>2
  <2> HIDE DEF T, t
  <2>8. workList' \in Seq(T)
    BY <2>5, <2>6, <2>7 DEF T, t
  <2>9. LocalsKnown'
    BY <1>3, <2>6, <2>8 DEF VisitNew, Report, Reported, LocalsKnown, T, serverVars
  <2>10. Plain'
    BY <1>1, <1>3, <2>1, <2>4 DEF VisitNew, Report, Reported, WriteReg, TypeInv, Plain,
       serverVars, boundVars
  <2>11. QED
    BY <2>9, <2>10 DEF TypeInv
<1>4. ASSUME NEW f \in File, VisitChanged(f) PROVE TypeInv'
  <2>1. todo' \in Seq(File)
    BY <1>1, <1>4 DEF VisitChanged, Report, Reported, TypeInv, Plain
  <2>2. Ids' = Ids
    BY <1>4 DEF VisitChanged, Ids
  <2>3. NewTicket(f, "AwaitingBlockList", <<>>) \in TicketOf(Ids)
    BY DEF NewTicket, TicketOf, Status
  <2>4. GetBlock(f, 0, summary[f]) \in MessageOf(Ids)
    <3>1. summary[f] \in Nat
      BY <1>1 DEF TypeInv, Plain
    <3>2. QED
      BY <3>1, ObjectTypes, MessageTypes
  <2>5. QED
    BY <1>1, <1>4, <2>1, <2>2, <2>3, <2>4
    DEF VisitChanged, Report, Reported, WriteReg, TypeInv, Plain, LocalsKnown, serverVars, boundVars
<1>5. ASSUME NEW f \in File, VisitUnchanged(f) PROVE TypeInv'
  <2>1. todo' \in Seq(File)
    BY <1>1, <1>5 DEF VisitUnchanged, Report, Reported, TypeInv, Plain
  <2>2. Ids' = Ids
    BY <1>5 DEF VisitUnchanged, Ids
  <2>3. QED
    BY <1>1, <1>5, <2>1, <2>2
    DEF VisitUnchanged, Report, Reported, TypeInv, Plain, LocalsKnown, serverVars, boundVars
<1>6. ASSUME NEW f \in File, VisitUntouched(f) PROVE TypeInv'
  <2>1. Ids' = Ids
    BY <1>6 DEF VisitUntouched, tableVars, Ids
  <2>2. QED
    BY <1>1, <1>6, <2>1
    DEF VisitUntouched, TypeInv, Plain, LocalsKnown, tableVars, serverVars, wireVars, boundVars
<1>7. QED
  BY <1>1, <1>2, <1>3, <1>4, <1>5, <1>6 DEF ArchiveStep

\* A packet goes from the output buffer to the pipe, unless the write fails.
LEMMA WriteTypes ==
    ASSUME TypeInv, WriteOut, outBuf # <<>>
    PROVE  /\ outBuf' \in Seq(MessageOf(Ids)) /\ toServer' \in Seq(MessageOf(Ids))
           /\ registered' \in BOOLEAN
<1>1. /\ outBuf \in Seq(MessageOf(Ids)) /\ toServer \in Seq(MessageOf(Ids))
      /\ registered \in BOOLEAN
  BY DEF TypeInv, Plain, LocalsKnown
<1>2. CASE WritePacket /\ UNCHANGED registered
  <2>1. outBuf' \in Seq(MessageOf(Ids)) /\ toServer' \in Seq(MessageOf(Ids))
    BY <1>1, <1>2, TailFacts DEF WritePacket
  <2>2. registered' \in BOOLEAN
    BY <1>1, <1>2
  <2>3. QED
    BY <2>1, <2>2
<1>3. CASE WriteFails
  BY <1>1, <1>3 DEF WriteFails
<1>4. QED
  BY <1>2, <1>3 DEF WriteOut

\* io_output_handler and wt_process_queue keep the types.
LEMMA TypeOutput == TypeInv /\ OutputStep => TypeInv'
<1>1. SUFFICES ASSUME TypeInv, OutputStep PROVE TypeInv'
  OBVIOUS
<1>2. CASE OutputBuffered
  <2>1. Ids' = Ids
    BY <1>2 DEF OutputBuffered, tableVars, Ids
  <2>2. QED
    BY <1>1, <1>2, <2>1, WriteTypes
    DEF OutputBuffered, TypeInv, Plain, LocalsKnown, tableVars, serverVars, boundVars
<1>3. CASE FillStart
  <2>1. Ids' = Ids
    BY <1>3 DEF FillStart, tableVars, Ids
  <2>2. QED
    BY <1>1, <1>3, <2>1
    DEF FillStart, TypeInv, Plain, LocalsKnown, tableVars, serverVars, wireVars, boundVars
<1>4. CASE FillBlock
  <2> DEFINE t == workList[cursor]
             e == t.blocks[t.next + 1]
             u == [t EXCEPT !.next = t.next + 1]
             m == PutBlock(t.file, e.local, BlockObject(bytes[e.local]))
  <2>1. Ids' = Ids
    BY <1>4 DEF FillBlock, tableVars, Ids
  <2>2. workList \in Seq(TicketOf(Ids)) /\ cursor \in DOMAIN workList
    BY <1>1, <1>4 DEF FillBlock, TypeInv, LocalsKnown
  <2>3. t \in TicketOf(Ids)
    BY <2>2
  <2>4. t.next + 1 \in DOMAIN t.blocks
    BY <1>4, <2>3 DEF FillBlock, SendsMore, TicketOf
  <2>5. e \in EntryOf(Ids)
    BY <2>3, <2>4 DEF TicketOf
  <2>6. u \in TicketOf(Ids) /\ Counted(u) \in TicketOf(Ids)
    <3>0. t.next \in Nat
      BY <2>3, TicketUpdates
    <3>1. t.next + 1 \in Nat
      BY <3>0
    <3>2. u \in TicketOf(Ids)
      BY <2>3, <3>1, TicketUpdates
    <3>3. QED
      BY <3>2, TicketUpdates
  <2>7. m \in MessageOf(Ids)
    <3>0. bytes \in Seq(Nat)
      BY <1>1 DEF TypeInv, Plain
    <3>1. e.local \in Ids /\ bytes[e.local] \in Nat
      <4>1. e.local \in Ids
        BY <2>5 DEF EntryOf
      <4> HIDE DEF e
      <4>2. QED
        BY <3>0, <4>1 DEF Ids
    <3>2. BlockObject(bytes[e.local]) \in ObjectOf(Ids)
      BY <3>1, ObjectTypes
    <3>3. t.file \in File
      BY <2>3 DEF TicketOf
    <3>4. QED
      BY <3>1, <3>2, <3>3, MessageTypes
  <2>8. /\ workList' \in {[workList EXCEPT ![cursor] = u],
                          [workList EXCEPT ![cursor] = Counted(u)]}
        /\ outBuf' \in {outBuf, Append(outBuf, m)}
    BY <1>4 DEF FillBlock
  <2>9. workList' \in Seq(TicketOf(Ids))
    BY <2>2, <2>6, <2>8
  <2>10. outBuf' \in Seq(MessageOf(Ids))
    <3>1. outBuf \in Seq(MessageOf(Ids))
      BY <1>1 DEF TypeInv, LocalsKnown
    <3>2. outBuf' \in {outBuf, Append(outBuf, m)}
      BY <2>8
    <3> HIDE DEF m
    <3>3. CASE outBuf' = outBuf
      BY <3>1, <3>3
    <3>4. CASE outBuf' = Append(outBuf, m)
      <4>1. Append(outBuf, m) \in Seq(MessageOf(Ids))
        BY <3>1, <2>7
      <4>2. QED
        BY <3>4, <4>1
    <3>5. QED
      BY <3>2, <3>3, <3>4
  <2>11. QED
    BY <1>1, <1>4, <2>1, <2>9, <2>10
    DEF FillBlock, TypeInv, Plain, LocalsKnown, tableVars, serverVars, wireVars, boundVars
<1>5. CASE FillNext
  <2> DEFINE t == workList[cursor]
             u == [t EXCEPT !.status = "AwaitingBlockConfirms"]
  <2>1. Ids' = Ids
    BY <1>5 DEF FillNext, tableVars, Ids
  <2>2. workList \in Seq(TicketOf(Ids)) /\ cursor \in DOMAIN workList
    BY <1>1, <1>5 DEF FillNext, TypeInv, LocalsKnown
  <2>3. u \in TicketOf(Ids)
    <3>1. t \in TicketOf(Ids)
      BY <2>2
    <3>2. QED
      BY <3>1, TicketUpdates DEF Status
  <2>4. workList' \in {workList, [workList EXCEPT ![cursor] = u]}
    BY <1>5 DEF FillNext
  <2>5. workList' \in Seq(TicketOf(Ids))
    BY <2>2, <2>3, <2>4
  <2>6. QED
    BY <1>1, <1>5, <2>1, <2>5
    DEF FillNext, TypeInv, Plain, LocalsKnown, tableVars, serverVars, wireVars, boundVars
<1>6. CASE FillEnd
  <2>1. Ids' = Ids
    BY <1>6 DEF FillEnd, tableVars, Ids
  <2>2. CASE outBuf # <<>>
    BY <1>1, <1>6, <2>1, <2>2, WriteTypes
    DEF FillEnd, TypeInv, Plain, LocalsKnown, tableVars, serverVars, boundVars
  <2>3. CASE outBuf = <<>> /\ closing
    BY <1>1, <1>6, <2>3, GoneTypes
    DEF FillEnd, TypeInv, Plain, wireVars, boundVars
  <2>4. CASE outBuf = <<>> /\ ~closing
    BY <1>1, <1>6, <2>1, <2>4
    DEF FillEnd, TypeInv, Plain, LocalsKnown, tableVars, serverVars, boundVars
  <2>5. QED
    BY <2>2, <2>3, <2>4
<1>7. QED
  BY <1>1, <1>2, <1>3, <1>4, <1>5, <1>6 DEF OutputStep

\* A packet is taken from the pipe.
LEMMA ReceiveTypes ==
    ASSUME TypeInv, NEW c, ClientReceives(c)
    PROVE  /\ toClient' \in Seq(MessageOf(Ids))
           /\ Head(toClient) \in MessageOf(Ids)
BY TailFacts DEF ClientReceives, TypeInv, LocalsKnown

\* The fields of a message.
LEMMA MessageFields ==
    ASSUME NEW D, NEW m \in MessageOf(D)
    PROVE  /\ m.file \in File \cup {NoFile} /\ m.block \in D \cup {0} /\ m.id \in Nat
           /\ m.obj \in ObjectOf(D) /\ m.obj.list \in Seq(ListEntryOf(D))
BY DEF MessageOf, ObjectOf

\* accept_put_ack for a block keeps the types: the id stored in the ticket is
\* that of an archive record.
LEMMA TypeBlockAck == TypeInv /\ ReceiveBlockAck => TypeInv'
<1> DEFINE m == Head(toClient)
<1>1. SUFFICES ASSUME TypeInv, ReceiveBlockAck PROVE TypeInv'
  OBVIOUS
<1>2. toClient' \in Seq(MessageOf(Ids)) /\ m \in MessageOf(Ids)
  BY <1>1, ReceiveTypes DEF ReceiveBlockAck
<1>3. Ids' = Ids
  BY <1>1 DEF ReceiveBlockAck, Ids
<1>4. m.block \in Nat /\ m.id \in Nat
  BY <1>2, MessageFields DEF Ids
<1>5. /\ pc' \in {pc, "aborted"}
      /\ workList' \in Seq(TicketOf(Ids)) /\ outBuf' \in Seq(MessageOf(Ids))
      /\ registered' \in BOOLEAN /\ blockTable' \subseteq Nat
  <2>1. /\ workList \in Seq(TicketOf(Ids)) /\ outBuf \in Seq(MessageOf(Ids))
        /\ registered \in BOOLEAN /\ blockTable \subseteq Nat
    BY <1>1 DEF TypeInv, Plain, LocalsKnown
  <2>2. CASE AssertFails /\ UNCHANGED blockTable
    BY <2>1, <2>2 DEF AssertFails
  <2>3. ASSUME NEW i \in DOMAIN workList, NEW k \in DOMAIN workList[i].blocks,
               AckBlock(i, k, m)
        PROVE  /\ pc' \in {pc, "aborted"}
               /\ workList' \in Seq(TicketOf(Ids)) /\ outBuf' \in Seq(MessageOf(Ids))
               /\ registered' \in BOOLEAN /\ blockTable' \subseteq Nat
    <3> DEFINE t == workList[i]
               b == [t.blocks EXCEPT ![k].remote = m.id]
               u == [t EXCEPT !.blocks[k].remote = m.id, !.moved = t.moved - 1]
               v == [u EXCEPT !.status = "AwaitingBlockListConfirm"]
               w == PutBlock(t.file, 0, ListObject(BlockList(u.blocks)))
    <3>1. t \in TicketOf(Ids)
      BY <2>1
    <3>2. t.file \in File /\ t.blocks \in Seq(EntryOf(Ids)) /\ t.moved \in Int
      BY <3>1, TicketUpdates
    <3>3. b \in Seq(EntryOf(Ids))
      <4>1. t.blocks[k] \in EntryOf(Ids)
        BY <3>2
      <4>2. [t.blocks[k] EXCEPT !.remote = m.id] \in EntryOf(Ids)
        BY <1>4, <4>1 DEF EntryOf
      <4>3. QED
        BY <3>2, <4>2
    <3>4. u = [[t EXCEPT !.blocks = b] EXCEPT !.moved = t.moved - 1] /\ u.blocks = b
      BY <3>1 DEF TicketOf
    <3>5. u \in TicketOf(Ids)
      <4>1. [t EXCEPT !.blocks = b] \in TicketOf(Ids)
        BY <3>1, <3>3, TicketUpdates
      <4>2. t.moved - 1 \in Int
        BY <3>2
      <4>3. QED
        BY <3>4, <4>1, <4>2, TicketUpdates
    <3>6. v \in TicketOf(Ids)
      BY <3>5, TicketUpdates DEF Status
    <3>7. w \in MessageOf(Ids)
      <4>1. ListObject(BlockList(u.blocks)) \in ObjectOf(Ids)
        BY <3>3, <3>4, BlockListType, ObjectTypes
      <4>2. QED
        BY <3>2, <4>1, MessageTypes
    <3>8. /\ workList' \in {[workList EXCEPT ![i] = v], [workList EXCEPT ![i] = u]}
          /\ outBuf' \in {outBuf, Append(outBuf, w)}
          /\ registered' \in {TRUE, registered}
          /\ blockTable' = blockTable \cup {m.block}
          /\ pc' = pc
      BY <2>3 DEF AckBlock, WriteReg
    <3> HIDE DEF b, u, v, w
    <3>9. workList' \in Seq(TicketOf(Ids))
      BY <2>1, <3>5, <3>6, <3>8
    <3>10. outBuf' \in Seq(MessageOf(Ids))
      <4> DEFINE M == MessageOf(Ids)
      <4>1. outBuf \in Seq(M) /\ w \in M
        BY <2>1, <3>7
      <4> HIDE DEF M
      <4>2. Append(outBuf, w) \in Seq(M)
        BY <4>1
      <4>3. QED
        BY <3>8, <4>1, <4>2 DEF M
    <3>11. QED
      BY <1>4, <2>1, <3>8, <3>9, <3>10
  <2>4. QED
    BY <1>1, <2>1, <2>2, <2>3 DEF ReceiveBlockAck, AcceptBlockAck
<1>6. QED
  BY <1>1, <1>2, <1>3, <1>5
  DEF ReceiveBlockAck, TypeInv, Plain, LocalsKnown, serverVars, boundVars

\* accept_put_ack for a block list, with wt_finish, keeps the types.
LEMMA TypeListAck == TypeInv /\ ReceiveListAck => TypeInv'
<1> DEFINE m == Head(toClient)
<1>1. SUFFICES ASSUME TypeInv, ReceiveListAck PROVE TypeInv'
  OBVIOUS
<1>2. toClient' \in Seq(MessageOf(Ids)) /\ m \in MessageOf(Ids)
  BY <1>1, ReceiveTypes DEF ReceiveListAck
<1>3. Ids' = Ids
  BY <1>1 DEF ReceiveListAck, Ids
<1>4. m.id \in Nat
  BY <1>2, MessageFields
<1>5. CASE AssertFails /\ UNCHANGED summary
  BY <1>1, <1>2, <1>3, <1>5
  DEF ReceiveListAck, AssertFails, TypeInv, Plain, LocalsKnown, serverVars, boundVars
<1>6. ASSUME NEW i \in DOMAIN workList, WtFind(m.file, i),
             summary' = [summary EXCEPT ![m.file] = m.id],
             workList' = RemoveAt(workList, i), ByeIfDone(workList'),
             UNCHANGED <<pc, scanning, todo, cursor>>
      PROVE  TypeInv'
  <2>1. summary' \in [File -> Nat]
    BY <1>1, <1>4, <1>6 DEF TypeInv, Plain
  <2>2. workList' \in Seq(TicketOf(Ids))
    BY <1>1, <1>6, RemoveAtFacts DEF TypeInv, LocalsKnown
  <2>3. outBuf' \in Seq(MessageOf(Ids)) /\ closing' \in BOOLEAN /\ registered' \in BOOLEAN
    BY <1>1, <1>6, ByeTypes
  <2>4. QED
    BY <1>1, <1>2, <1>3, <1>6, <2>1, <2>2, <2>3
    DEF ReceiveListAck, TypeInv, Plain, LocalsKnown, serverVars, boundVars
<1>7. QED
  BY <1>1, <1>5, <1>6 DEF ReceiveListAck, AcceptListAck

\* The cover that start_archive computes is made of ids given out by then.
LEMMA StartArchiveTypes ==
    ASSUME TypeInv, NEW list \in Seq(ListEntryOf(Ids)), NEW i \in DOMAIN workList,
           StartArchive(i, list)
    PROVE  /\ \E n \in Nat : Len(bytes') = Len(bytes) + n
           /\ bytes' \in Seq(Nat)
           /\ workList' \in Seq(TicketOf(Ids'))
           /\ blockTable' \subseteq Nat
           /\ registered' \in BOOLEAN
<1>1. PICK keep \in SUBSET DOMAIN list, move \in SUBSET DOMAIN list, n \in MinNew .. MaxNew :
        LET cover == NewCover(list, keep, move, n)
        IN  /\ move \subseteq keep
            /\ workList' = [workList EXCEPT ![i].blocks = cover,
                                            ![i].status = "SendingBlocks",
                                            ![i].next = 0]
            /\ bytes' = CoverBytes(list, n)
            /\ blockTable' = blockTable \cup SavedByCover(cover)
            /\ WriteReg
  BY DEF StartArchive
<1> DEFINE cover == NewCover(list, keep, move, n)
           t == workList[i]
           u == [t EXCEPT !.blocks = cover, !.status = "SendingBlocks", !.next = 0]
<1>2. n \in Nat /\ Len(list) \in Nat
  BY ConstantsAssumption
<1>3. /\ bytes' \in Seq(Nat)
      /\ Len(bytes') = Len(bytes) + (Len(list) + n)
      /\ cover \in Seq(EntryOf(1 .. Len(bytes'))) /\ Len(list) + n \in Nat
  <2>1. bytes \in Seq(Nat) /\ Len(bytes) \in Nat
    BY DEF TypeInv, Plain
  <2>2. /\ bytes' \in Seq(Nat) /\ Len(bytes') = Len(bytes) + Len(list) + n
        /\ cover \in Seq(EntryOf(1 .. Len(bytes) + Len(list) + n))
    BY <1>1, <1>2, <2>1, NewCoverType
  <2>3. QED
    BY <1>2, <2>1, <2>2
<1>4. workList \in Seq(TicketOf(Ids'))
  BY <1>3, GrownTypes
<1>5. u \in TicketOf(Ids')
  <2>1. t \in TicketOf(Ids') /\ cover \in Seq(EntryOf(Ids'))
    BY <1>3, <1>4 DEF Ids
  <2>2. u = [[[t EXCEPT !.blocks = cover] EXCEPT !.status = "SendingBlocks"] EXCEPT !.next = 0]
    BY <2>1 DEF TicketOf
  <2>3. QED
    BY <2>1, <2>2, TicketUpdates DEF Status
<1>6. workList' = [workList EXCEPT ![i] = u]
  BY <1>1
<1>7. workList' \in Seq(TicketOf(Ids'))
  BY <1>4, <1>5, <1>6
<1>8. blockTable' \subseteq Nat
  <2>1. \A k \in DOMAIN cover : cover[k].local \in Nat
    <3> HIDE DEF cover
    <3>1. \A k \in DOMAIN cover : cover[k] \in EntryOf(1 .. Len(bytes'))
      BY <1>3
    <3>2. QED
      BY <3>1 DEF EntryOf
  <2>2. blockTable \subseteq Nat
    BY DEF TypeInv, Plain
  <2>3. QED
    BY <1>1, <2>1, <2>2 DEF SavedByCover
<1>9. QED
  BY <1>1, <1>3, <1>7, <1>8 DEF WriteReg

\* accept_get_ack for a block list, with start_archive, keeps the types.
LEMMA TypeBlockList == TypeInv /\ ReceiveBlockList => TypeInv'
<1> DEFINE m == Head(toClient)
<1>1. SUFFICES ASSUME TypeInv, ReceiveBlockList PROVE TypeInv'
  OBVIOUS
<1>2. toClient' \in Seq(MessageOf(Ids)) /\ m \in MessageOf(Ids)
  BY <1>1, ReceiveTypes DEF ReceiveBlockList
<1>3. CASE AssertFails /\ UNCHANGED <<blockTable, bytes>>
  <2>1. Ids' = Ids
    BY <1>3 DEF Ids
  <2>2. QED
    BY <1>1, <1>2, <1>3, <2>1
    DEF ReceiveBlockList, AssertFails, TypeInv, Plain, LocalsKnown, serverVars, boundVars
<1>4. ASSUME NEW i \in DOMAIN workList, StartArchive(i, m.obj.list), UNCHANGED <<pc, outBuf>>
      PROVE  TypeInv'
  <2>1. m.obj.list \in Seq(ListEntryOf(Ids))
    BY <1>2, MessageFields
  <2>2. PICK n \in Nat : Len(bytes') = Len(bytes) + n
    BY <1>1, <1>4, <2>1, StartArchiveTypes
  <2>3. /\ bytes' \in Seq(Nat) /\ workList' \in Seq(TicketOf(Ids'))
        /\ blockTable' \subseteq Nat /\ registered' \in BOOLEAN
    BY <1>1, <1>4, <2>1, StartArchiveTypes
  <2>4. /\ outBuf \in Seq(MessageOf(Ids')) /\ toServer \in Seq(MessageOf(Ids'))
        /\ store \in Seq(ObjectOf(Ids')) /\ Ids \subseteq Ids'
    BY <1>1, <2>2, GrownTypes
  <2>5. toClient' \in Seq(MessageOf(Ids'))
    BY <1>2, <2>4, TypesMonotone
  <2>6. QED
    BY <1>1, <1>4, <2>3, <2>4, <2>5
    DEF ReceiveBlockList, TypeInv, Plain, LocalsKnown, serverVars, boundVars
<1>5. CASE UNCHANGED <<workList, registered, blockTable, bytes, pc, outBuf>>
  <2>1. Ids' = Ids
    BY <1>5 DEF Ids
  <2>2. QED
    BY <1>1, <1>2, <1>5, <2>1
    DEF ReceiveBlockList, TypeInv, Plain, LocalsKnown, serverVars, boundVars
<1>6. QED
  BY <1>1, <1>3, <1>4, <1>5 DEF ReceiveBlockList, AcceptBlockList

\* The handlers of the server keep the types.
LEMMA TypeServer == TypeInv /\ ServerStep => TypeInv'
<1> DEFINE m == Head(toServer)
<1>1. SUFFICES ASSUME TypeInv, ServerStep PROVE TypeInv'
  OBVIOUS
<1>2. ASSUME NEW c, ServerReceives(c)
      PROVE  toServer' \in Seq(MessageOf(Ids)) /\ m \in MessageOf(Ids)
  BY <1>1, <1>2, TailFacts DEF ServerReceives, TypeInv, LocalsKnown
<1>3. Ids' = Ids
  BY <1>1 DEF ServerStep, AcceptPutBlock, AcceptGetBlock, ReceiveBye, Ids, tableVars
<1>4. /\ toClient \in Seq(MessageOf(Ids)) /\ store \in Seq(ObjectOf(Ids))
      /\ Len(store) + 1 \in Nat
  BY <1>1 DEF TypeInv, LocalsKnown
<1>5. CASE AcceptPutBlock
  <2>1. toServer' \in Seq(MessageOf(Ids)) /\ m \in MessageOf(Ids)
    BY <1>2, <1>5 DEF AcceptPutBlock
  <2>2. m.obj \in ObjectOf(Ids)
    BY <2>1, MessageFields
  <2>3. PutBlockAck(m.file, m.block, Len(store) + 1) \in MessageOf(Ids)
    BY <1>4, <2>1, ObjectTypes, MessageFields DEF PutBlockAck, MessageOf
  <2>4. /\ store' = Append(store, m.obj)
        /\ toClient' = Append(toClient, PutBlockAck(m.file, m.block, Len(store) + 1))
    BY <1>5 DEF AcceptPutBlock
  <2>5. store' \in Seq(ObjectOf(Ids)) /\ toClient' \in Seq(MessageOf(Ids))
    BY <1>4, <2>2, <2>3, <2>4
  <2>6. QED
    BY <1>1, <1>3, <1>5, <2>1, <2>5
    DEF AcceptPutBlock, TypeInv, Plain, LocalsKnown, clientVars, tableVars, boundVars
<1>6. CASE AcceptGetBlock
  <2> DEFINE o == IF m.id \in DOMAIN store THEN store[m.id] ELSE NoObject
  <2>1. toServer' \in Seq(MessageOf(Ids)) /\ m \in MessageOf(Ids)
    BY <1>2, <1>6 DEF AcceptGetBlock
  <2>2. o \in ObjectOf(Ids)
    BY <1>4, ObjectTypes
  <2>3. GetBlockAck(m.file, m.block, o) \in MessageOf(Ids)
    BY <2>1, <2>2, MessageFields DEF GetBlockAck, MessageOf
  <2>4. toClient' = Append(toClient, GetBlockAck(m.file, m.block, o))
    BY <1>6 DEF AcceptGetBlock
  <2>5. toClient' \in Seq(MessageOf(Ids))
    BY <1>4, <2>3, <2>4
  <2>6. QED
    BY <1>1, <1>3, <1>6, <2>1, <2>5
    DEF AcceptGetBlock, TypeInv, Plain, LocalsKnown, clientVars, tableVars, serverVars, boundVars
<1>7. CASE ReceiveBye
  <2>1. toServer' \in Seq(MessageOf(Ids))
    BY <1>2, <1>7 DEF ReceiveBye
  <2>2. Bye \in MessageOf(Ids)
    BY DEF Bye, MessageOf, NoObject, ObjectOf
  <2>3. toClient' \in Seq(MessageOf(Ids))
    BY <1>4, <1>7, <2>2 DEF ReceiveBye
  <2>4. QED
    BY <1>1, <1>3, <1>7, <2>1, <2>3
    DEF ReceiveBye, TypeInv, Plain, LocalsKnown, clientVars, tableVars, boundVars
<1>8. QED
  BY <1>1, <1>5, <1>6, <1>7 DEF ServerStep

\* The start of a run, signals, lost connections and idle steps keep the types.
LEMMA TypeOther ==
    ASSUME TypeInv,
           \/ StartRun \/ ClientSignal \/ ServerSignal \/ ClientHangup \/ ServerHangup
           \/ UNCHANGED vars
    PROVE  TypeInv'
<1>1. CASE StartRun
  <2>1. Ids' = Ids
    BY <1>1 DEF StartRun, tableVars, Ids
  <2>2. todo' \in Seq(File)
    BY <1>1, ConstantsAssumption DEF StartRun
  <2>3. \A S : <<>> \in Seq(S)
    OBVIOUS
  <2>4. sessions' \in Nat /\ registered' \in BOOLEAN
    BY <1>1 DEF StartRun, TypeInv, Plain
  <2>5. QED
    BY <1>1, <2>1, <2>2, <2>3, <2>4 DEF StartRun, TypeInv, Plain, LocalsKnown, tableVars
<1>2. CASE ClientSignal
  BY <1>2, GoneTypes DEF ClientSignal, TypeInv, Plain
<1>3. CASE ClientHangup
  BY <1>3, GoneTypes DEF ClientHangup, TypeInv, Plain, boundVars
<1>4. CASE ServerSignal
  <2>1. Ids' = Ids
    BY <1>4 DEF ServerSignal, tableVars, Ids
  <2>2. faults' \in Nat
    BY <1>4 DEF ServerSignal, TypeInv, Plain
  <2>3. Plain'
    BY <1>4, <2>2 DEF ServerSignal, TypeInv, Plain, clientVars, tableVars
  <2>4. LocalsKnown'
    BY <1>4, <2>1
    DEF ServerSignal, TypeInv, LocalsKnown, clientVars, wireVars
  <2>5. QED
    BY <2>3, <2>4 DEF TypeInv
<1>5. CASE ServerHangup \/ UNCHANGED vars
  <2>1. Ids' = Ids
    BY <1>5 DEF ServerHangup, vars, tableVars, Ids
  <2>2. QED
    BY <1>5, <2>1
    DEF ServerHangup, vars, TypeInv, Plain, LocalsKnown, clientVars, tableVars, wireVars,
        serverVars, boundVars
<1>6. QED
  BY <1>1, <1>2, <1>3, <1>4, <1>5

\* Every step keeps the types.
LEMMA TypeStep == TypeInv /\ [Next]_vars => TypeInv'
<1>1. SUFFICES ASSUME TypeInv, [Next]_vars PROVE TypeInv'
  OBVIOUS
<1>2. CASE ClientStep
  BY <1>1, <1>2, TypeArchive, TypeOutput, TypeBlockAck, TypeListAck, TypeBlockList
  DEF ClientStep, InputStep
<1>3. CASE ServerStep
  BY <1>1, <1>3, TypeServer
<1>4. CASE \/ StartRun \/ ClientSignal \/ ServerSignal \/ ClientHangup \/ ServerHangup
           \/ UNCHANGED vars
  BY <1>1, <1>4, TypeOther
<1>5. QED
  BY <1>1, <1>2, <1>3, <1>4 DEF Next, Rest

\* The types hold in every behaviour: in particular every block sent has been
\* filled from a local id that the kBlocks counter had given out.
THEOREM TypeCorrect == Spec => []TypeOK
<1>1. Init => TypeInv
  BY TypeInit
<1>2. TypeInv /\ [Next]_vars => TypeInv'
  BY TypeStep
<1>3. TypeInv => TypeOK
  BY TypeInvRefines
<1>4. QED
  BY <1>1, <1>2, <1>3, PTL DEF Spec


-----------------------------------------------------------------------------
(* What is stored. *)

Messages == Elements(outBuf) \cup Elements(toServer) \cup Elements(toClient)

\* Every block of a list is on the server.
Complete(l) == \A k \in DOMAIN l : Stored(l[k].remote, l[k].local)

\* A packet tells the truth about what it carries or confirms.
MessageTrue(m) ==
    /\ Complete(m.obj.list)
    /\ m.cmd = "PutBlock" =>
          IF m.block = 0 THEN m.obj.kind = "list"
          ELSE m.obj.kind = "block" /\ m.obj.data = bytes[m.block]
    /\ m.cmd = "PutBlockAck" =>
          IF m.block = 0 THEN m.id \in DOMAIN store /\ store[m.id].kind = "list"
          ELSE Stored(m.id, m.block)

\* An entry of a ticket is stored, or it is a new block of the cover.
EntryTrue(e) == IF e.remote = 0 THEN e.cover ELSE Stored(e.remote, e.local)

StorageInv ==
    /\ \A i \in DOMAIN store : Complete(store[i].list)
    /\ \A m \in Messages : MessageTrue(m)
    /\ \A i \in DOMAIN workList : \A k \in DOMAIN workList[i].blocks :
          EntryTrue(workList[i].blocks[k])
    /\ \A f \in File : summary[f] # 0 => /\ summary[f] \in DOMAIN store
                                         /\ store[summary[f]].kind = "list"
    /\ BlockTableStored

-----------------------------------------------------------------------------
(* What is on its way. *)

BlocksOf(q) == {q[i].block : i \in DOMAIN q} \ {0}

Once(q) == \A i, j \in DOMAIN q : q[i].block = q[j].block /\ i # j => q[i].block = 0

Flying == BlocksOf(outBuf) \cup BlocksOf(toServer) \cup BlocksOf(toClient)

\* A block is on its way once, as a packet or as its ack.
FliesOnce == /\ Once(outBuf) /\ Once(toServer) /\ Once(toClient)
             /\ BlocksOf(outBuf) \cap BlocksOf(toServer) = {}
             /\ BlocksOf(outBuf) \cap BlocksOf(toClient) = {}
             /\ BlocksOf(toServer) \cap BlocksOf(toClient) = {}

\* Id b is that of an entry of a ticket that is not stored.
Fresh(b) == \E i \in DOMAIN workList : \E k \in DOMAIN workList[i].blocks :
               workList[i].blocks[k].remote = 0 /\ workList[i].blocks[k].local = b

\* The entries of a ticket that were sent and are not stored.
Unacked(t) == {k \in DOMAIN t.blocks : k <= t.next /\ t.blocks[k].remote = 0}

\* No entry of a list has a new id.
ListOld(l) == \A k \in DOMAIN l : l[k].local \notin Flying /\ ~Fresh(l[k].local)

\* A ticket counts enough: every entry sent and not stored, and it does not
\* wait for acks before all is sent.
CountsEnough(t) ==
    /\ Cardinality(Unacked(t)) <= t.moved
    /\ t.status = "AwaitingBlockConfirms" => t.next >= Len(t.blocks)

\* Where a block on its way is found in a ticket, it was sent and is not stored.
SentEntry(t) == \A k \in DOMAIN t.blocks :
                   t.blocks[k].local \in Flying => t.blocks[k].remote = 0 /\ k <= t.next

CountInv ==
    /\ FliesOnce
    /\ \A i \in DOMAIN workList : CountsEnough(workList[i]) /\ SentEntry(workList[i])
    /\ \A i, j \in DOMAIN workList :
          \A k \in DOMAIN workList[i].blocks, l \in DOMAIN workList[j].blocks :
             /\ workList[i].blocks[k].remote = 0
             /\ workList[i].blocks[k].local = workList[j].blocks[l].local
             => i = j /\ k = l
    /\ \A i \in DOMAIN store : ListOld(store[i].list)
    /\ \A m \in Messages : ListOld(m.obj.list)

Inv == TypeInv /\ StorageInv /\ CountInv

-----------------------------------------------------------------------------
(* Queues. *)

\* A packet appended to a queue adds its block, if it carries one.
LEMMA AppendBlocks ==
    ASSUME NEW S, NEW q \in Seq(S), NEW m \in S
    PROVE  /\ BlocksOf(Append(q, m)) = BlocksOf(q) \cup ({m.block} \ {0})
           /\ Once(q) /\ m.block \notin BlocksOf(q) => Once(Append(q, m))
<1>1. /\ DOMAIN Append(q, m) = 1 .. Len(q) + 1 /\ DOMAIN q = 1 .. Len(q) /\ Len(q) \in Nat
      /\ \A i \in DOMAIN q : Append(q, m)[i] = q[i]
      /\ Append(q, m)[Len(q) + 1] = m
  BY AppendFacts
<1>2. \A i \in 1 .. Len(q) + 1 : i \in 1 .. Len(q) \/ i = Len(q) + 1
  BY <1>1
<1>3. BlocksOf(Append(q, m)) = BlocksOf(q) \cup ({m.block} \ {0})
  <2>1. ASSUME NEW x \in BlocksOf(Append(q, m))
        PROVE  x \in BlocksOf(q) \cup ({m.block} \ {0})
    BY <1>1, <1>2 DEF BlocksOf
  <2>2. ASSUME NEW x \in BlocksOf(q) \cup ({m.block} \ {0})
        PROVE  x \in BlocksOf(Append(q, m))
    BY <1>1, <1>2 DEF BlocksOf
  <2>3. QED
    BY <2>1, <2>2
<1>4. ASSUME Once(q), m.block \notin BlocksOf(q) PROVE Once(Append(q, m))
  BY <1>1, <1>2, <1>4 DEF Once, BlocksOf
<1>5. QED
  BY <1>3, <1>4

\* The packet taken from a queue takes its block away.
LEMMA TailBlocks ==
    ASSUME NEW S, NEW q \in Seq(S), q # <<>>, Once(q)
    PROVE  /\ BlocksOf(Tail(q)) = BlocksOf(q) \ {Head(q).block}
           /\ Once(Tail(q))
           /\ Head(q).block \in BlocksOf(q) \cup {0}
<1>1. /\ DOMAIN q = 1 .. Len(q) /\ Len(q) \in Nat /\ Len(q) >= 1 /\ Head(q) = q[1]
      /\ DOMAIN Tail(q) = 1 .. Len(q) - 1
      /\ \A i \in DOMAIN Tail(q) : i + 1 \in DOMAIN q /\ Tail(q)[i] = q[i + 1]
  BY TailFacts
<1>2. \A i \in DOMAIN q : i # 1 => i - 1 \in DOMAIN Tail(q) /\ Tail(q)[i - 1] = q[i]
  <2>1. ASSUME NEW i \in DOMAIN q, i # 1
        PROVE  i - 1 \in DOMAIN Tail(q) /\ Tail(q)[i - 1] = q[i]
    <3>1. i \in Int /\ i - 1 \in 1 .. Len(q) - 1 /\ (i - 1) + 1 = i
      BY <1>1, <2>1
    <3>2. QED
      BY <1>1, <3>1
  <2>2. QED
    BY <2>1
<1>3. ASSUME NEW x \in BlocksOf(Tail(q)) PROVE x \in BlocksOf(q) \ {Head(q).block}
  <2>1. PICK i \in DOMAIN Tail(q) : x = Tail(q)[i].block
    BY DEF BlocksOf
  <2>2. x # 0 /\ i + 1 \in DOMAIN q /\ x = q[i + 1].block /\ i + 1 # 1 /\ 1 \in DOMAIN q
    BY <1>1, <2>1 DEF BlocksOf
  <2>3. x # q[1].block
    BY <2>2 DEF Once
  <2>4. QED
    BY <1>1, <2>2, <2>3 DEF BlocksOf
<1>4. ASSUME NEW x \in BlocksOf(q) \ {Head(q).block} PROVE x \in BlocksOf(Tail(q))
  <2>1. PICK i \in DOMAIN q : x = q[i].block
    BY DEF BlocksOf
  <2>2. i # 1 /\ x # 0
    BY <1>1, <2>1 DEF BlocksOf
  <2>3. QED
    BY <1>2, <2>1, <2>2 DEF BlocksOf
<1>5. Once(Tail(q))
  <2>1. SUFFICES ASSUME NEW i \in DOMAIN Tail(q), NEW j \in DOMAIN Tail(q),
                        Tail(q)[i].block = Tail(q)[j].block, i # j
                 PROVE  Tail(q)[i].block = 0
    BY DEF Once
  <2>2. i + 1 \in DOMAIN q /\ j + 1 \in DOMAIN q /\ i + 1 # j + 1
    BY <1>1, <2>1
  <2>3. QED
    BY <1>1, <2>1, <2>2 DEF Once
<1>6. Head(q).block \in BlocksOf(q) \cup {0}
  BY <1>1 DEF BlocksOf
<1>7. QED
  BY <1>3, <1>4, <1>5, <1>6

-----------------------------------------------------------------------------
(* The archive and the ids only grow, and what was true stays true. *)

Grown == /\ DOMAIN store \subseteq DOMAIN store'
         /\ \A i \in DOMAIN store : store'[i] = store[i]
         /\ DOMAIN bytes \subseteq DOMAIN bytes'
         /\ \A i \in DOMAIN bytes : bytes'[i] = bytes[i]

\* What was stored, and every statement about it, stays true as the archive and
\* the ids grow.
LEMMA TruthGrows ==
    ASSUME Grown
    PROVE  /\ \A i, b : Stored(i, b) => Stored(i, b)'
           /\ \A l : Complete(l) => Complete(l)'
           /\ \A e : EntryTrue(e) => EntryTrue(e)'
           /\ \A m : MessageTrue(m) /\ m.block \in DOMAIN bytes \cup {0} => MessageTrue(m)'
<1>1. \A i, b : Stored(i, b) => Stored(i, b)'
  BY DEF Stored, Grown
<1>2. \A l : Complete(l) => Complete(l)'
  BY <1>1 DEF Complete
<1>3. \A e : EntryTrue(e) => EntryTrue(e)'
  BY <1>1 DEF EntryTrue
<1>4. \A m : MessageTrue(m) /\ m.block \in DOMAIN bytes \cup {0} => MessageTrue(m)'
  BY <1>1, <1>2 DEF MessageTrue, Grown
<1>5. QED
  BY <1>1, <1>2, <1>3, <1>4

\* A message or a list known before stays true.
LEMMA OldMessages ==
    ASSUME Inv, Grown, NEW m \in Messages
    PROVE  MessageTrue(m)'
<1>1. m \in MessageOf(Ids)
  BY DEF Inv, TypeInv, LocalsKnown, Messages, Elements
<1>2. m.block \in DOMAIN bytes \cup {0}
  BY <1>1, MessageFields DEF Ids, Inv, TypeInv, Plain
<1>3. QED
  BY <1>2, TruthGrows DEF Inv, StorageInv

-----------------------------------------------------------------------------
(* A step that moves packets and tickets about, but neither sends a block,   *)
(* nor stores anything, nor computes a cover.  Ticket i of the new work list *)
(* was ticket h[i] of the old one, or it is a new one without blocks.        *)

MovedTicket(i, j) ==
    /\ j \in DOMAIN workList
    /\ workList'[i].blocks = workList[j].blocks
    /\ workList'[i].next = workList[j].next
    /\ workList'[i].moved = workList[j].moved
    /\ workList'[i].status # workList[j].status => workList[j].next >= Len(workList[j].blocks)

EmptyTicket(i) ==
    /\ workList'[i].blocks = <<>>
    /\ workList'[i].moved = 0
    /\ workList'[i].status # "AwaitingBlockConfirms"

\* Such a step keeps both invariants.
LEMMA QuietStep ==
    ASSUME Inv, UNCHANGED <<store, bytes, blockTable>>,
           \A m \in Messages' : \/ m \in Messages
                                \/ m.obj = NoObject /\ m.cmd \in {"GetBlock", "Bye"}
                                \/ /\ m.cmd = "GetBlockAck"
                                   /\ \/ m.obj = NoObject
                                      \/ \E i \in DOMAIN store : m.obj = store[i],
           Flying' \subseteq Flying, FliesOnce',
           NEW h \in [DOMAIN workList' -> Nat],
           \A i, j \in DOMAIN workList' : h[i] = h[j] /\ h[i] # 0 => i = j,
           \A i \in DOMAIN workList' : IF h[i] = 0 THEN EmptyTicket(i) ELSE MovedTicket(i, h[i]),
           \A f \in File : \/ summary'[f] = summary[f]
                           \/ summary'[f] \in DOMAIN store /\ store[summary'[f]].kind = "list"
    PROVE  StorageInv' /\ CountInv'
<1>1. Grown
  BY DEF Grown
<1>2. \A m \in Messages' : m \notin Messages =>
        \/ m.obj.list = <<>>
        \/ \E i \in DOMAIN store : m.obj.list = store[i].list
  BY DEF NoObject
<1>3. StorageInv'
  <2>1. (\A i \in DOMAIN store : Complete(store[i].list))'
    BY <1>1, TruthGrows DEF Inv, StorageInv
  <2>2. ASSUME NEW m \in Messages' PROVE MessageTrue(m)'
    <3>1. CASE m \in Messages
      BY <1>1, <3>1, OldMessages
    <3>2. CASE m \notin Messages
      <4>1. Complete(m.obj.list)'
        BY <1>1, <1>2, <3>2, TruthGrows DEF Complete, Inv, StorageInv
      <4>2. m.cmd \notin {"PutBlock", "PutBlockAck"}
        BY <3>2
      <4>3. QED
        BY <4>1, <4>2 DEF MessageTrue
    <3>3. QED
      BY <3>1, <3>2
  <2>3. ASSUME NEW i \in DOMAIN workList', NEW k \in DOMAIN workList'[i].blocks
        PROVE  EntryTrue(workList[i].blocks[k])'
    BY <1>1, TruthGrows DEF Inv, StorageInv, EmptyTicket, MovedTicket
  <2>4. ASSUME NEW f \in File, summary'[f] # 0
        PROVE  summary'[f] \in DOMAIN store' /\ store'[summary'[f]].kind = "list"
    BY <2>4 DEF Inv, StorageInv
  <2>5. BlockTableStored'
    BY DEF Inv, StorageInv, BlockTableStored, Stored
  <2>6. QED
    BY <2>1, <2>2, <2>3, <2>4, <2>5 DEF StorageInv
<1>4. \A b : Fresh(b)' => Fresh(b)
  BY DEF Fresh, EmptyTicket, MovedTicket
<1>5. \A l : ListOld(l) => ListOld(l)'
  BY <1>4 DEF ListOld
<1>6. CountInv'
  <2>1. ASSUME NEW i \in DOMAIN workList' PROVE (CountsEnough(workList[i]) /\ SentEntry(workList[i]))'
    <3>1. CASE h[i] = 0
      <4>1. workList'[i].blocks = <<>> /\ EmptyTicket(i)
        BY <3>1 DEF EmptyTicket
      <4>2. Unacked(workList'[i]) = {}
        BY <4>1 DEF Unacked
      <4>3. QED
        BY <4>1, <4>2, FS_EmptySet DEF CountsEnough, SentEntry, EmptyTicket, Unacked
    <3>2. CASE h[i] # 0
      <4> DEFINE j == h[i]
      <4>1. MovedTicket(i, j) /\ j \in DOMAIN workList
        BY <3>2 DEF MovedTicket
      <4>2. CountsEnough(workList[j]) /\ SentEntry(workList[j])
        BY <4>1 DEF Inv, CountInv
      <4>3. Unacked(workList'[i]) = Unacked(workList[j])
        BY <4>1 DEF Unacked, MovedTicket
      <4>4. CountsEnough(workList'[i])
        BY <4>1, <4>2, <4>3 DEF CountsEnough, MovedTicket
      <4>5. SentEntry(workList[i])'
        BY <4>1, <4>2 DEF SentEntry, MovedTicket
      <4>6. QED
        BY <4>4, <4>5 DEF CountsEnough, Unacked
    <3>3. QED
      BY <3>1, <3>2
  <2>2. ASSUME NEW i \in DOMAIN workList', NEW j \in DOMAIN workList',
               NEW k \in DOMAIN workList'[i].blocks, NEW l \in DOMAIN workList'[j].blocks,
               workList'[i].blocks[k].remote = 0,
               workList'[i].blocks[k].local = workList'[j].blocks[l].local
        PROVE  i = j /\ k = l
    <3>1. h[i] # 0 /\ h[j] # 0
      BY DEF EmptyTicket
    <3>2. MovedTicket(i, h[i]) /\ MovedTicket(j, h[j])
      BY <3>1
    <3>3. h[i] = h[j] /\ k = l
      BY <2>2, <3>2 DEF MovedTicket, Inv, CountInv
    <3>4. QED
      BY <3>1, <3>3
  <2>3. (\A i \in DOMAIN store : ListOld(store[i].list))'
    BY <1>5 DEF Inv, CountInv
  <2>4. ASSUME NEW m \in Messages' PROVE ListOld(m.obj.list)'
    <3>1. CASE m \in Messages
      BY <1>5, <3>1 DEF Inv, CountInv
    <3>2. CASE m.obj.list = <<>>
      BY <3>2 DEF ListOld
    <3>3. CASE \E i \in DOMAIN store : m.obj.list = store[i].list
      BY <1>5, <3>3 DEF Inv, CountInv
    <3>4. QED
      BY <1>2, <3>1, <3>2, <3>3
  <2>5. QED
    BY <2>1, <2>2, <2>3, <2>4 DEF CountInv
<1>7. QED
  BY <1>3, <1>6

-----------------------------------------------------------------------------
(* What the steps do to the queues. *)

\* Packets of one queue: Elements of the three.
LEMMA QueueTypes ==
    ASSUME TypeInv
    PROVE  /\ outBuf \in Seq(MessageOf(Ids)) /\ toServer \in Seq(MessageOf(Ids))
           /\ toClient \in Seq(MessageOf(Ids))
           /\ \A m \in Messages : m \in MessageOf(Ids)
           /\ \A q \in Seq(MessageOf(Ids)) : \A i \in DOMAIN q : q[i].block \in Ids \cup {0}
           /\ 0 \notin Flying /\ Flying \subseteq Ids
<1>1. /\ outBuf \in Seq(MessageOf(Ids)) /\ toServer \in Seq(MessageOf(Ids))
      /\ toClient \in Seq(MessageOf(Ids))
  BY DEF TypeInv, LocalsKnown
<1>2. \A q \in Seq(MessageOf(Ids)) : \A i \in DOMAIN q :
         q[i] \in MessageOf(Ids) /\ q[i].block \in Ids \cup {0}
  <2>1. \A q \in Seq(MessageOf(Ids)) : \A i \in DOMAIN q : q[i] \in MessageOf(Ids)
    OBVIOUS
  <2>2. QED
    BY <2>1, MessageFields
<1>3. \A m \in Messages : m \in MessageOf(Ids)
  BY <1>1, <1>2 DEF Messages, Elements
<1>4. \A q \in Seq(MessageOf(Ids)) : BlocksOf(q) \subseteq Ids /\ 0 \notin BlocksOf(q)
  BY <1>2 DEF BlocksOf
<1>5. 0 \notin Flying /\ Flying \subseteq Ids
  BY <1>1, <1>4 DEF Flying
<1>6. QED
  BY <1>1, <1>2, <1>3, <1>5

\* A packet from the buffer to the pipe.
LEMMA WriteQueues ==
    ASSUME Inv, WritePacket, outBuf # <<>>, UNCHANGED toClient
    PROVE  Messages' \subseteq Messages /\ Flying' \subseteq Flying /\ FliesOnce'
<1> DEFINE m == Head(outBuf)
<1>1. /\ outBuf \in Seq(MessageOf(Ids)) /\ toServer \in Seq(MessageOf(Ids)) /\ m \in MessageOf(Ids)
      /\ m \in Elements(outBuf) /\ Elements(Tail(outBuf)) \subseteq Elements(outBuf)
      /\ m.block \in BlocksOf(outBuf) \cup {0}
  <2>1. outBuf \in Seq(MessageOf(Ids)) /\ toServer \in Seq(MessageOf(Ids))
    BY QueueTypes DEF Inv
  <2>2. /\ m \in MessageOf(Ids) /\ m \in Elements(outBuf) /\ 1 \in DOMAIN outBuf /\ m = outBuf[1]
        /\ Elements(Tail(outBuf)) \subseteq Elements(outBuf)
    BY <2>1, TailFacts
  <2>3. m.block \in BlocksOf(outBuf) \cup {0}
    BY <2>2 DEF BlocksOf
  <2>4. QED
    BY <2>1, <2>2, <2>3
<1>2. FliesOnce /\ outBuf' = Tail(outBuf) /\ toServer' = Append(toServer, m)
  BY DEF Inv, CountInv, WritePacket
<1>3. BlocksOf(outBuf') = BlocksOf(outBuf) \ {m.block} /\ Once(outBuf)'
  BY <1>1, <1>2, TailBlocks DEF FliesOnce
<1>4. BlocksOf(toServer') = BlocksOf(toServer) \cup ({m.block} \ {0})
  BY <1>1, <1>2, AppendBlocks
<1>5. m.block \notin BlocksOf(toServer) /\ m.block \notin BlocksOf(toClient)
  BY <1>1, <1>2 DEF FliesOnce, BlocksOf
<1>6. Once(toServer)'
  BY <1>1, <1>2, <1>5, AppendBlocks DEF FliesOnce
<1>7. Messages' \subseteq Messages
  <2>1. Elements(toServer') = Elements(toServer) \cup {m}
    BY <1>1, <1>2, AppendFacts
  <2>2. QED
    BY <1>1, <1>2, <2>1 DEF Messages
<1>8. Flying' \subseteq Flying
  BY <1>1, <1>3, <1>4 DEF Flying
<1>9. FliesOnce'
  BY <1>2, <1>3, <1>4, <1>5, <1>6 DEF FliesOnce
<1>10. QED
  BY <1>7, <1>8, <1>9

\* A packet is appended to the output buffer; its block, if it has one, is not
\* on its way.  The pipe to the client has been read, or not.
LEMMA SendQueues ==
    ASSUME Inv, NEW m \in MessageOf(Ids'), Ids \subseteq Ids', outBuf' = Append(outBuf, m),
           UNCHANGED toServer,
           \/ toClient' = toClient
           \/ toClient # <<>> /\ toClient' = Tail(toClient),
           m.block \notin Flying
    PROVE  /\ Messages' \subseteq Messages \cup {m}
           /\ Flying' \subseteq Flying \cup ({m.block} \ {0})
           /\ toClient # <<>> /\ toClient' = Tail(toClient) /\ m.block = 0
                 => Flying' \subseteq Flying \ {Head(toClient).block}
           /\ FliesOnce'
<1>1. outBuf \in Seq(MessageOf(Ids')) /\ toClient \in Seq(MessageOf(Ids'))
  BY QueueTypes, TypesMonotone DEF Inv
<1>2. FliesOnce
  BY DEF Inv, CountInv
<1>3. /\ BlocksOf(outBuf') = BlocksOf(outBuf) \cup ({m.block} \ {0})
      /\ Once(outBuf)'
      /\ Elements(outBuf') = Elements(outBuf) \cup {m}
  BY <1>1, <1>2, AppendBlocks, AppendFacts DEF Flying, FliesOnce
<1>4. /\ Elements(toClient') \subseteq Elements(toClient)
      /\ BlocksOf(toClient') \subseteq BlocksOf(toClient) /\ Once(toClient)'
      /\ toClient # <<>> /\ toClient' = Tail(toClient)
            => BlocksOf(toClient') = BlocksOf(toClient) \ {Head(toClient).block}
  <2>1. CASE toClient' = toClient
    <3>1. CASE toClient # <<>> /\ toClient' = Tail(toClient)
      BY <1>1, <1>2, <3>1, TailBlocks, TailFacts DEF FliesOnce
    <3>2. CASE ~(toClient # <<>> /\ toClient' = Tail(toClient))
      BY <1>2, <2>1, <3>2 DEF FliesOnce
    <3>3. QED
      BY <3>1, <3>2
  <2>2. CASE toClient # <<>> /\ toClient' = Tail(toClient)
    BY <1>1, <1>2, <2>2, TailBlocks, TailFacts DEF FliesOnce
  <2>3. QED
    BY <2>1, <2>2
<1>5. Messages' \subseteq Messages \cup {m}
  BY <1>3, <1>4 DEF Messages
<1>6. Flying' \subseteq Flying \cup ({m.block} \ {0})
  BY <1>3, <1>4 DEF Flying
<1>7. FliesOnce'
  BY <1>2, <1>3, <1>4 DEF FliesOnce, Flying
<1>8. ASSUME toClient # <<>>, toClient' = Tail(toClient), m.block = 0
      PROVE  Flying' \subseteq Flying \ {Head(toClient).block}
  <2>1. Head(toClient).block \in BlocksOf(toClient) \cup {0}
    BY <1>1, <1>2, <1>8, TailBlocks DEF FliesOnce
  <2>2. 0 \notin Flying'
    BY DEF Flying, BlocksOf
  <2>3. QED
    BY <1>2, <1>3, <1>4, <1>8, <2>1, <2>2 DEF Flying, FliesOnce
<1>9. QED
  BY <1>5, <1>6, <1>7, <1>8

\* The client reads a packet and sends nothing.
LEMMA ReadQueues ==
    ASSUME Inv, toClient # <<>>, toClient' = Tail(toClient), UNCHANGED <<outBuf, toServer>>
    PROVE  /\ Messages' \subseteq Messages
           /\ Flying' \subseteq Flying \ {Head(toClient).block}
           /\ FliesOnce'
<1>1. toClient \in Seq(MessageOf(Ids)) /\ FliesOnce
  BY QueueTypes DEF Inv, CountInv
<1>2. /\ Elements(toClient') \subseteq Elements(toClient)
      /\ BlocksOf(toClient') = BlocksOf(toClient) \ {Head(toClient).block} /\ Once(toClient)'
      /\ Head(toClient).block \in BlocksOf(toClient) \cup {0}
  BY <1>1, TailBlocks, TailFacts DEF FliesOnce
<1>3. 0 \notin Flying
  BY DEF Flying, BlocksOf
<1>4. Flying' \subseteq Flying \ {Head(toClient).block}
  BY <1>1, <1>2, <1>3 DEF Flying, FliesOnce
<1>5. QED
  BY <1>1, <1>2, <1>4 DEF Messages, FliesOnce

\* The server reads a packet, and answers with one about the same block or
\* about none, or does not answer.
LEMMA AnswerQueues ==
    ASSUME Inv, toServer # <<>>, toServer' = Tail(toServer), UNCHANGED outBuf,
           NEW m \in MessageOf(Ids), m.block \in {Head(toServer).block, 0},
           toClient' \in {toClient, Append(toClient, m)}
    PROVE  /\ Messages' \subseteq Messages \cup {m}
           /\ Flying' \subseteq Flying
           /\ FliesOnce'
<1> DEFINE b == Head(toServer).block
<1>1. toServer \in Seq(MessageOf(Ids)) /\ toClient \in Seq(MessageOf(Ids)) /\ FliesOnce
  BY QueueTypes DEF Inv, CountInv
<1>2. /\ Elements(toServer') \subseteq Elements(toServer)
      /\ BlocksOf(toServer') = BlocksOf(toServer) \ {b} /\ Once(toServer)'
      /\ b \in BlocksOf(toServer) \cup {0}
  BY <1>1, TailBlocks, TailFacts DEF FliesOnce
<1>3. m.block \notin BlocksOf(toClient) /\ m.block \notin BlocksOf(outBuf)
  BY <1>1, <1>2 DEF FliesOnce, BlocksOf
<1>4. /\ Elements(toClient') \subseteq Elements(toClient) \cup {m}
      /\ BlocksOf(toClient') \subseteq BlocksOf(toClient) \cup ({b} \ {0})
      /\ Once(toClient)'
  <2>1. CASE toClient' = toClient
    BY <1>1, <2>1 DEF FliesOnce
  <2>2. CASE toClient' = Append(toClient, m)
    BY <1>1, <1>3, <2>2, AppendBlocks, AppendFacts DEF FliesOnce
  <2>3. QED
    BY <2>1, <2>2
<1>5. Messages' \subseteq Messages \cup {m}
  BY <1>2, <1>4 DEF Messages
<1>6. Flying' \subseteq Flying
  BY <1>2, <1>4 DEF Flying
<1>7. FliesOnce'
  <2>1. b \notin BlocksOf(outBuf)
    BY <1>1, <1>2 DEF FliesOnce, BlocksOf
  <2> HIDE DEF b
  <2>2. QED
    BY <1>1, <1>2, <1>4, <2>1 DEF FliesOnce
<1>8. QED
  BY <1>5, <1>6, <1>7

-----------------------------------------------------------------------------
(* A cover is computed: a new file (VisitNew) or start_archive. *)

\* An entry of a cover is a new block, or an old one under its old id or, when it
\* moved, under a new id that stands for the same bytes.
LEMMA CoverFacts ==
    ASSUME bytes \in Seq(Nat),
           NEW list \in Seq(ListEntryOf(Ids)), NEW keep \in SUBSET DOMAIN list,
           NEW move \in SUBSET keep, NEW n \in Nat,
           NEW k \in DOMAIN NewCover(list, keep, move, n)
    PROVE  LET e == NewCover(list, keep, move, n)[k]
           IN  /\ k \in Nat \ {0}
               /\ \/ e.remote = 0 /\ e.cover /\ e.local = Len(bytes) + k
                  \/ /\ k \in DOMAIN list /\ e.remote = list[k].remote
                     /\ \/ e.local = list[k].local
                        \/ /\ e.local = Len(bytes) + k
                           /\ CoverBytes(list, n)[Len(bytes) + k] = bytes[list[k].local]
<1> DEFINE e == NewCover(list, keep, move, n)[k]
           added == [j \in 1 .. Len(list) + n |->
                       IF j > Len(list) THEN Len(bytes) + j ELSE bytes[list[j].local]]
<1>1. /\ Len(bytes) \in Nat /\ Len(list) \in Nat /\ DOMAIN list = 1 .. Len(list)
      /\ k \in 1 .. Len(list) + n
  BY DEF NewCover
<1>2. CASE k > Len(list)
  <2>1. e = [local |-> Len(bytes) + k, remote |-> 0, cover |-> TRUE]
    BY <1>1, <1>2 DEF NewCover
  <2>2. QED
    BY <1>1, <2>1
<1>3. CASE ~(k > Len(list))
  <2>1. k \in DOMAIN list
    BY <1>1, <1>3
  <2>2. e = [local  |-> IF k \in move THEN Len(bytes) + k ELSE list[k].local,
             remote |-> list[k].remote, cover |-> k \in keep]
    BY <1>1, <1>3 DEF NewCover
  <2>3. CoverBytes(list, n)[Len(bytes) + k] = bytes[list[k].local]
    <3>1. added \in Seq(Nat) /\ Len(added) = Len(list) + n
      <4>1. \A j \in 1 .. Len(list) : list[j] \in ListEntryOf(Ids)
        BY <1>1
      <4>2. \A j \in 1 .. Len(list) : bytes[list[j].local] \in Nat
        <5>1. /\ bytes \in Seq(Nat)
              /\ \A j \in 1 .. Len(list) : list[j].local \in 1 .. Len(bytes)
          BY <4>1 DEF Ids, ListEntryOf
        <5>2. QED
          BY <5>1
      <4>3. added \in [1 .. Len(list) + n -> Nat]
        BY <1>1, <4>2
      <4>4. QED
        BY <1>1, <4>3
    <3>2. CoverBytes(list, n) = bytes \o added
      BY DEF CoverBytes
    <3>3. added[k] = bytes[list[k].local]
      BY <1>1, <1>3
    <3> HIDE DEF added
    <3>4. (bytes \o added)[Len(bytes) + k] = added[k]
      BY <1>1, <3>1
    <3>5. QED
      BY <3>2, <3>3, <3>4
  <2>4. QED
    BY <1>1, <2>1, <2>2, <2>3
<1>4. QED
  BY <1>2, <1>3

\* The bytes of the ids given out before a cover are as they were.
LEMMA CoverGrows ==
    ASSUME bytes \in Seq(Nat), NEW list \in Seq(ListEntryOf(Ids)), NEW n \in Nat,
           bytes' = CoverBytes(list, n), UNCHANGED store
    PROVE  /\ Grown /\ bytes' \in Seq(Nat)
           /\ Len(bytes') = Len(bytes) + Len(list) + n
           /\ Len(bytes) \in Nat /\ Len(list) \in Nat
<1>1. /\ bytes' \in Seq(Nat) /\ Len(bytes') = Len(bytes) + Len(list) + n
      /\ \A i \in Ids : bytes'[i] = bytes[i]
  <2>1. {} \in SUBSET DOMAIN list /\ {} \in SUBSET {}
    OBVIOUS
  <2>2. QED
    BY <2>1, NewCoverType
<1>2. DOMAIN bytes = Ids /\ Len(bytes) \in Nat /\ Len(list) \in Nat
  BY DEF Ids
<1>3. DOMAIN bytes' = 1 .. Len(bytes')
  BY <1>1
<1>4. Ids \subseteq 1 .. Len(bytes')
  BY <1>1, <1>2 DEF Ids
<1>5. QED
  BY <1>1, <1>2, <1>3, <1>4 DEF Grown

\* The locals of tickets and lists are ids given out.
LEMMA LocalsInIds ==
    ASSUME TypeInv
    PROVE  /\ \A i \in DOMAIN workList : \A k \in DOMAIN workList[i].blocks :
                 workList[i].blocks[k].local \in Ids
           /\ \A i \in DOMAIN store : \A k \in DOMAIN store[i].list :
                 store[i].list[k].local \in Ids
           /\ \A m \in Messages : \A k \in DOMAIN m.obj.list : m.obj.list[k].local \in Ids
<1>1. ASSUME NEW i \in DOMAIN workList, NEW k \in DOMAIN workList[i].blocks
      PROVE  workList[i].blocks[k].local \in Ids
  <2>1. workList[i] \in TicketOf(Ids)
    BY DEF TypeInv, LocalsKnown
  <2>2. workList[i].blocks \in Seq(EntryOf(Ids))
    BY <2>1, TicketUpdates
  <2>3. workList[i].blocks[k] \in EntryOf(Ids)
    BY <2>2
  <2>4. QED
    BY <2>3 DEF EntryOf
<1>2. \A l \in Seq(ListEntryOf(Ids)) : \A k \in DOMAIN l : l[k].local \in Ids
  <2>1. \A l \in Seq(ListEntryOf(Ids)) : \A k \in DOMAIN l : l[k] \in ListEntryOf(Ids)
    OBVIOUS
  <2>2. QED
    BY <2>1 DEF ListEntryOf
<1>3. \A i \in DOMAIN store : store[i].list \in Seq(ListEntryOf(Ids))
  <2>1. \A i \in DOMAIN store : store[i] \in ObjectOf(Ids)
    BY DEF TypeInv, LocalsKnown
  <2>2. QED
    BY <2>1 DEF ObjectOf
<1>4. \A m \in Messages : m.obj.list \in Seq(ListEntryOf(Ids))
  BY QueueTypes, MessageFields
<1>5. QED
  BY <1>1, <1>2, <1>3, <1>4

\* A step that gives a ticket its cover keeps both invariants: the old blocks of
\* the cover are stored, the new ones have ids that nobody holds.
LEMMA CoverStep ==
    ASSUME Inv, NEW list \in Seq(ListEntryOf(Ids)), Complete(list), ListOld(list),
           NEW keep \in SUBSET DOMAIN list, NEW move \in SUBSET keep, NEW n \in Nat,
           NEW cover, cover = NewCover(list, keep, move, n),
           bytes' = CoverBytes(list, n), UNCHANGED <<store, summary>>,
           NEW x \in DOMAIN workList', workList'[x].blocks = cover, workList'[x].next = 0,
           workList'[x].moved >= 0, workList'[x].status = "SendingBlocks",
           \A i \in DOMAIN workList' : i # x => i \in DOMAIN workList /\ workList'[i] = workList[i],
           Messages' \subseteq Messages, Flying' \subseteq Flying, FliesOnce',
           blockTable' \subseteq blockTable \cup SavedByCover(cover)
    PROVE  StorageInv' /\ CountInv'
<1>1. Grown /\ Len(bytes) \in Nat /\ DOMAIN bytes = 1 .. Len(bytes) /\ bytes \in Seq(Nat)
  <2>1. bytes \in Seq(Nat)
    BY DEF Inv, TypeInv, Plain
  <2>2. QED
    BY <2>1, CoverGrows
<1>2. \A k \in DOMAIN cover :
        /\ k \in Nat \ {0}
        /\ \/ cover[k].remote = 0 /\ cover[k].cover /\ cover[k].local = Len(bytes) + k
           \/ /\ k \in DOMAIN list /\ cover[k].remote = list[k].remote
              /\ \/ cover[k].local = list[k].local
                 \/ /\ cover[k].local = Len(bytes) + k
                    /\ bytes'[Len(bytes) + k] = bytes[list[k].local]
  BY <1>1, CoverFacts
<1>3. \A k \in DOMAIN list : Stored(list[k].remote, list[k].local) /\ list[k].remote # 0
  <2>1. 0 \notin DOMAIN store
    BY DEF Inv, TypeInv, LocalsKnown
  <2>2. QED
    BY <2>1 DEF Complete, Stored
<1>4. \A k \in DOMAIN cover : cover[k].local \in DOMAIN bytes'
  <2>1. cover \in Seq(EntryOf(1 .. Len(bytes')))
    <3>1. cover \in Seq(EntryOf(1 .. Len(bytes) + Len(list) + n))
      <4>1. NewCover(list, keep, move, n) \in Seq(EntryOf(1 .. Len(bytes) + Len(list) + n))
        BY <1>1, NewCoverType, Zenon
      <4>2. QED
        BY <4>1
    <3>2. Len(bytes') = Len(bytes) + Len(list) + n
      BY <1>1, CoverGrows
    <3>3. QED
      BY <3>1, <3>2
  <2>2. bytes' \in Seq(Nat)
    BY <1>1, CoverGrows
  <2>3. \A k \in DOMAIN cover : cover[k] \in EntryOf(1 .. Len(bytes'))
    BY <2>1
  <2>4. QED
    BY <2>2, <2>3 DEF EntryOf
<1>5. \A k \in DOMAIN cover : EntryTrue(cover[k])'
  <2>1. SUFFICES ASSUME NEW k \in DOMAIN cover PROVE EntryTrue(cover[k])'
    OBVIOUS
  <2>2. CASE cover[k].remote = 0
    BY <1>2, <1>3, <2>2 DEF EntryTrue
  <2>3. CASE /\ k \in DOMAIN list /\ cover[k].remote = list[k].remote
             /\ cover[k].local = list[k].local
    BY <1>1, <1>3, <2>3 DEF EntryTrue, Stored, Grown
  <2>4. CASE /\ k \in DOMAIN list /\ cover[k].remote = list[k].remote
             /\ bytes'[cover[k].local] = bytes[list[k].local]
    BY <1>1, <1>3, <1>4, <2>4 DEF EntryTrue, Stored, Grown
  <2>5. QED
    BY <1>2, <2>2, <2>3, <2>4
<1>6. StorageInv'
  <2>1. (\A i \in DOMAIN store : Complete(store[i].list))'
    BY <1>1, TruthGrows DEF Inv, StorageInv
  <2>2. (\A m \in Messages : MessageTrue(m))'
    BY <1>1, OldMessages
  <2>3. ASSUME NEW i \in DOMAIN workList', NEW k \in DOMAIN workList'[i].blocks
        PROVE  EntryTrue(workList[i].blocks[k])'
    <3>1. CASE i = x
      BY <1>5, <3>1
    <3>2. CASE i # x
      BY <1>1, <3>2, TruthGrows DEF Inv, StorageInv
    <3>3. QED
      BY <3>1, <3>2
  <2>4. ASSUME NEW f \in File, summary'[f] # 0
        PROVE  summary'[f] \in DOMAIN store' /\ store'[summary'[f]].kind = "list"
    BY <2>4 DEF Inv, StorageInv
  <2>5. ASSUME NEW b \in blockTable' PROVE (\E i \in DOMAIN store : Stored(i, b))'
    <3>1. CASE b \in blockTable
      BY <1>1, <3>1, TruthGrows DEF Inv, StorageInv, BlockTableStored, Grown
    <3>2. CASE b \in SavedByCover(cover)
      <4>1. PICK k \in DOMAIN cover : b = cover[k].local /\ cover[k].remote # 0
        BY <3>2 DEF SavedByCover
      <4>2. EntryTrue(cover[k])'
        BY <1>5
      <4>3. QED
        BY <4>1, <4>2 DEF EntryTrue, Stored
    <3>3. QED
      BY <3>1, <3>2
  <2>6. QED
    BY <2>1, <2>2, <2>3, <2>4, <2>5 DEF StorageInv, BlockTableStored
<1>7. CountInv'
  <2>1. /\ \A k \in DOMAIN cover : Len(bytes) + k \notin Ids
        /\ \A k \in DOMAIN list : list[k].local \in Ids
    <3>1. \A k \in DOMAIN cover : Len(bytes) + k \notin Ids
      BY <1>1, <1>2 DEF Ids
    <3>2. \A k \in DOMAIN list : list[k] \in ListEntryOf(Ids)
      OBVIOUS
    <3>3. QED
      BY <3>1, <3>2 DEF ListEntryOf
  <2>2. \A k \in DOMAIN cover : cover[k].local \notin Flying
    <3>1. Flying \subseteq Ids
      BY QueueTypes DEF Inv
    <3>2. QED
      BY <1>2, <2>1, <3>1 DEF ListOld
  <2>3. \A k \in DOMAIN cover : cover[k].remote = 0 => cover[k].local = Len(bytes) + k
    BY <1>2, <1>3
  <2>4. ASSUME NEW i \in DOMAIN workList'
        PROVE  (CountsEnough(workList[i]) /\ SentEntry(workList[i]))'
    <3>1. CASE i = x
      <4>1. Unacked(workList'[x]) = {}
        BY <1>2 DEF Unacked
      <4>2. CountsEnough(workList'[x])
        BY <4>1, FS_EmptySet DEF CountsEnough
      <4>3. SentEntry(workList[x])'
        BY <2>2 DEF SentEntry
      <4>4. QED
        BY <3>1, <4>2, <4>3 DEF CountsEnough, Unacked
    <3>2. CASE i # x
      <4>1. i \in DOMAIN workList /\ workList'[i] = workList[i]
        BY <3>2
      <4>2. CountsEnough(workList[i]) /\ SentEntry(workList[i])
        BY <4>1 DEF Inv, CountInv
      <4>3. QED
        BY <4>1, <4>2 DEF CountsEnough, Unacked, SentEntry
    <3>3. QED
      BY <3>1, <3>2
  <2>5. ASSUME NEW i \in DOMAIN workList', NEW j \in DOMAIN workList',
               NEW k \in DOMAIN workList'[i].blocks, NEW l \in DOMAIN workList'[j].blocks,
               workList'[i].blocks[k].remote = 0,
               workList'[i].blocks[k].local = workList'[j].blocks[l].local
        PROVE  i = j /\ k = l
    <3>1. CASE i = x /\ j = x
      <4>1. cover[k].local = Len(bytes) + k /\ cover[l].local = cover[k].local
        BY <2>3, <2>5, <3>1
      <4>2. cover[l].local = Len(bytes) + l
        BY <1>2, <2>1, <3>1, <4>1
      <4>3. k \in Nat /\ l \in Nat
        BY <1>2, <3>1
      <4>4. QED
        BY <1>1, <3>1, <4>1, <4>2, <4>3
    <3>2. CASE i = x /\ j # x
      <4>1. workList'[j].blocks[l].local \in Ids
        BY <3>2, LocalsInIds DEF Inv
      <4>2. QED
        BY <2>1, <2>3, <2>5, <3>2, <4>1
    <3>3. CASE i # x /\ j = x
      <4>1. workList'[i].blocks[k].local \in Ids /\ Fresh(workList'[i].blocks[k].local)
        <5>1. i \in DOMAIN workList /\ workList'[i] = workList[i]
          BY <3>3
        <5>2. QED
          BY <2>5, <5>1, LocalsInIds DEF Inv, Fresh
      <4>2. l \in DOMAIN cover /\ cover[l].local = workList'[i].blocks[k].local
        BY <2>5, <3>3
      <4>3. l \in DOMAIN list /\ cover[l].local = list[l].local
        BY <1>2, <2>1, <2>3, <4>1, <4>2
      <4>4. QED
        BY <4>1, <4>2, <4>3 DEF ListOld
    <3>4. CASE i # x /\ j # x
      BY <2>5, <3>4 DEF Inv, CountInv
    <3>5. QED
      BY <3>1, <3>2, <3>3, <3>4
  <2>6. ASSUME NEW b \in Ids, Fresh(b)' PROVE Fresh(b)
    <3>1. PICK i \in DOMAIN workList' : \E k \in DOMAIN workList'[i].blocks :
             workList'[i].blocks[k].remote = 0 /\ workList'[i].blocks[k].local = b
      BY <2>6 DEF Fresh
    <3>2. i # x
      BY <2>1, <2>3, <3>1
    <3>3. QED
      BY <3>1, <3>2 DEF Fresh
  <2>7. ASSUME NEW l, ListOld(l), \A k \in DOMAIN l : l[k].local \in Ids PROVE ListOld(l)'
    BY <2>6, <2>7 DEF ListOld
  <2>8. (\A i \in DOMAIN store : ListOld(store[i].list))'
    BY <2>7, LocalsInIds DEF Inv, CountInv
  <2>9. (\A m \in Messages : ListOld(m.obj.list))'
    BY <2>7, LocalsInIds DEF Inv, CountInv
  <2>10. QED
    BY <2>4, <2>5, <2>8, <2>9 DEF CountInv
<1>8. QED
  BY <1>6, <1>7

-----------------------------------------------------------------------------
(* A block is sent, is stored, is acknowledged. *)

\* The entries sent and not stored can be counted.
LEMMA UnackedFinite ==
    ASSUME NEW D, NEW t \in TicketOf(D)
    PROVE  IsFiniteSet(Unacked(t)) /\ Cardinality(Unacked(t)) \in Nat
<1>1. DOMAIN t.blocks = 1 .. Len(t.blocks) /\ Len(t.blocks) \in Nat
  BY TicketUpdates
<1>2. Unacked(t) \in SUBSET (1 .. Len(t.blocks))
  BY <1>1 DEF Unacked
<1>3. IsFiniteSet(1 .. Len(t.blocks))
  BY <1>1, FS_Interval
<1>4. IsFiniteSet(Unacked(t))
  BY <1>2, <1>3, FS_Subset
<1>5. QED
  BY <1>4, FS_CardinalityType

\* What counts enough does not wrap.
LEMMA CountIsNat ==
    ASSUME NEW D, NEW t \in TicketOf(D), CountsEnough(t)
    PROVE  t.moved >= 0
<1>1. Cardinality(Unacked(t)) \in Nat /\ t.moved \in Int
  BY UnackedFinite, TicketUpdates
<1>2. Cardinality(Unacked(t)) <= t.moved
  BY DEF CountsEnough
<1>3. QED
  BY <1>1, <1>2

\* wt_send_blocks: a block that is sent was not on its way, and is counted.
LEMMA FillBlockStep == Inv /\ FillBlock => StorageInv' /\ CountInv'
<1> DEFINE t == workList[cursor]
           k0 == t.next + 1
           e == t.blocks[k0]
           u == [t EXCEPT !.next = k0]
           m == PutBlock(t.file, e.local, BlockObject(bytes[e.local]))
<1>1. SUFFICES ASSUME Inv, FillBlock PROVE StorageInv' /\ CountInv'
  OBVIOUS
<1>2. cursor \in DOMAIN workList /\ SendsMore(t) /\ UNCHANGED <<tableVars, serverVars, wireVars>>
  BY <1>1 DEF FillBlock
<1>3. /\ t \in TicketOf(Ids) /\ workList \in Seq(TicketOf(Ids)) /\ bytes \in Seq(Nat)
      /\ t.blocks \in Seq(EntryOf(Ids)) /\ t.next \in Nat /\ t.moved \in Int
      /\ t.file \in File /\ t.status = "SendingBlocks"
  <2>1. t \in TicketOf(Ids) /\ workList \in Seq(TicketOf(Ids)) /\ bytes \in Seq(Nat)
    BY <1>1, <1>2 DEF Inv, TypeInv, Plain, LocalsKnown
  <2>2. QED
    BY <1>2, <2>1, TicketUpdates DEF SendsMore
<1>4. k0 \in DOMAIN t.blocks /\ k0 \in Nat /\ e \in EntryOf(Ids)
  BY <1>2, <1>3 DEF SendsMore
<1>5. e.local \in Ids /\ e.local # 0 /\ EntryTrue(e)
  BY <1>1, <1>2, <1>4 DEF EntryOf, Ids, Inv, StorageInv
<1>6. e.local \notin Flying
  <2>1. SentEntry(t)
    BY <1>1, <1>2 DEF Inv, CountInv
  <2>2. ~(k0 <= t.next)
    BY <1>3
  <2>3. QED
    BY <1>4, <2>1, <2>2 DEF SentEntry
<1>7. m \in MessageOf(Ids) /\ m.block = e.local /\ m.obj.list = <<>>
      /\ m.obj.kind = "block" /\ m.obj.data = bytes[m.block] /\ m.cmd = "PutBlock"
  <2>1. bytes[e.local] \in Nat
    <3>1. \A b \in Ids : bytes[b] \in Nat
      BY <1>3 DEF Ids
    <3>2. QED
      BY <1>5, <3>1
  <2>2. BlockObject(bytes[e.local]) \in ObjectOf(Ids)
    BY <2>1, ObjectTypes
  <2>3. m \in MessageOf(Ids)
    BY <1>3, <1>5, <2>2, MessageTypes
  <2>4. QED
    BY <2>3 DEF PutBlock, BlockObject
<1>8. u.blocks = t.blocks /\ u.next = k0 /\ u.moved = t.moved /\ u.status = t.status
  BY <1>3 DEF TicketOf
<1>9. /\ Counted(u).blocks = t.blocks /\ Counted(u).next = k0
      /\ Counted(u).moved = t.moved + 1 /\ Counted(u).status = t.status
  BY <1>3 DEF TicketOf, Counted
<1>10. \/ /\ e.cover /\ e.remote = 0
          /\ outBuf' = Append(outBuf, m) /\ workList' = [workList EXCEPT ![cursor] = Counted(u)]
       \/ /\ e.remote # 0
          /\ outBuf' = outBuf /\ workList' = [workList EXCEPT ![cursor] = u]
  BY <1>1, <1>5 DEF FillBlock, EntryTrue
<1> HIDE DEF t, k0, e, u, m
<1>11. /\ DOMAIN workList' = DOMAIN workList
       /\ \A i \in DOMAIN workList : i # cursor => workList'[i] = workList[i]
       /\ workList'[cursor].blocks = t.blocks /\ workList'[cursor].next = k0
       /\ workList'[cursor].status = t.status
       /\ workList'[cursor].moved = IF e.remote = 0 THEN t.moved + 1 ELSE t.moved
  BY <1>2, <1>3, <1>8, <1>9, <1>10
<1>12. \A i \in DOMAIN workList : workList'[i].blocks = workList[i].blocks
  BY <1>2, <1>11 DEF t
<1>13. /\ Messages' \subseteq Messages \cup {m}
       /\ Flying' \subseteq Flying \cup {e.local} /\ (e.remote # 0 => Flying' \subseteq Flying)
       /\ FliesOnce'
  <2>1. CASE outBuf' = Append(outBuf, m) /\ e.remote = 0
    <3>1. m \in MessageOf(Ids') /\ Ids' = Ids
      BY <1>2, <1>7 DEF Ids, tableVars
    <3>2. UNCHANGED toServer /\ toClient' = toClient /\ Ids \subseteq Ids'
      BY <1>2, <3>1 DEF wireVars
    <3>3. m.block \notin Flying /\ {m.block} \ {0} \subseteq {e.local}
      BY <1>6, <1>7
    <3>4. /\ Messages' \subseteq Messages \cup {m}
          /\ Flying' \subseteq Flying \cup ({m.block} \ {0})
          /\ FliesOnce'
      <4>1. outBuf' = Append(outBuf, m) /\ m \in MessageOf(Ids') /\ m.block \notin Flying
        BY <2>1, <3>1, <3>3
      <4>2. QED
        BY <1>1, <3>2, <4>1, SendQueues
    <3>5. QED
      BY <2>1, <3>3, <3>4
  <2>2. CASE outBuf' = outBuf /\ e.remote # 0
    BY <1>1, <1>2, <2>2 DEF wireVars, Messages, Flying, FliesOnce, Inv, CountInv
  <2>3. QED
    BY <1>10, <2>1, <2>2
<1>14. Grown
  BY <1>2 DEF Grown, tableVars, serverVars
<1>15. StorageInv'
  <2>1. (\A i \in DOMAIN store : Complete(store[i].list))'
    BY <1>1, <1>2, <1>14, TruthGrows DEF Inv, StorageInv, serverVars
  <2>2. ASSUME NEW x \in Messages' PROVE MessageTrue(x)'
    <3>1. CASE x \in Messages
      BY <1>1, <1>14, <3>1, OldMessages
    <3>2. CASE x = m
      BY <1>2, <1>5, <1>7, <3>2 DEF MessageTrue, Complete, tableVars
    <3>3. QED
      BY <1>13, <3>1, <3>2
  <2>3. ASSUME NEW i \in DOMAIN workList', NEW k \in DOMAIN workList'[i].blocks
        PROVE  EntryTrue(workList[i].blocks[k])'
    BY <1>1, <1>11, <1>12, <1>14, TruthGrows DEF Inv, StorageInv
  <2>4. (\A f \in File : summary[f] # 0 => summary[f] \in DOMAIN store
                                           /\ store[summary[f]].kind = "list")'
    BY <1>1, <1>2 DEF Inv, StorageInv, tableVars, serverVars
  <2>5. BlockTableStored'
    BY <1>1, <1>2 DEF Inv, StorageInv, BlockTableStored, Stored, tableVars, serverVars
  <2>6. QED
    BY <2>1, <2>2, <2>3, <2>4, <2>5 DEF StorageInv
<1>16. CountsEnough(workList'[cursor])
  <2>1. CountsEnough(t) /\ IsFiniteSet(Unacked(t)) /\ Cardinality(Unacked(t)) \in Nat
    BY <1>1, <1>2, <1>3, UnackedFinite DEF Inv, CountInv, t
  <2>2. \A k \in DOMAIN t.blocks : k \in Nat
    BY <1>3
  <2>3. \A k \in DOMAIN t.blocks : k <= k0 <=> k <= t.next \/ k = k0
    BY <1>3, <2>2 DEF k0
  <2>4. CASE e.remote = 0
    <3>1. Unacked(workList'[cursor]) = Unacked(t) \cup {k0}
      BY <1>4, <1>11, <2>3, <2>4 DEF Unacked, e
    <3>2. Cardinality(Unacked(t) \cup {k0}) <= Cardinality(Unacked(t)) + 1
      BY <2>1, FS_AddElement
    <3>3. Cardinality(Unacked(t) \cup {k0}) \in Nat
      BY <2>1, FS_AddElement, FS_CardinalityType
    <3>4. QED
      BY <1>3, <1>11, <2>1, <2>4, <3>1, <3>2, <3>3 DEF CountsEnough
  <2>5. CASE e.remote # 0
    <3>1. Unacked(workList'[cursor]) = Unacked(t)
      BY <1>4, <1>11, <2>3, <2>5 DEF Unacked, e
    <3>2. QED
      BY <1>3, <1>11, <2>1, <2>5, <3>1 DEF CountsEnough
  <2>6. QED
    BY <2>4, <2>5
<1>17. e.remote = 0 =>
         \A i \in DOMAIN workList : \A k \in DOMAIN workList[i].blocks :
            workList[i].blocks[k].local = e.local => i = cursor /\ k = k0
  BY <1>1, <1>2, <1>4 DEF Inv, CountInv, t, e
<1>18. ASSUME NEW i \in DOMAIN workList' PROVE SentEntry(workList[i])'
  <2>1. i \in DOMAIN workList /\ SentEntry(workList[i])
    BY <1>1, <1>11 DEF Inv, CountInv
  <2>2. SUFFICES ASSUME NEW k \in DOMAIN workList[i].blocks,
                        workList[i].blocks[k].local \in Flying'
                 PROVE  workList[i].blocks[k].remote = 0 /\ k <= workList'[i].next
    BY <1>12, <2>1 DEF SentEntry
  <2>3. CASE workList[i].blocks[k].local \in Flying
    <3>1. workList[i].blocks[k].remote = 0 /\ k <= workList[i].next
      BY <2>1, <2>3 DEF SentEntry
    <3>2. CASE i = cursor
      <4>1. k \in Nat /\ k <= t.next
        BY <1>3, <3>1, <3>2 DEF t
      <4>2. k <= k0
        BY <1>3, <4>1 DEF k0
      <4>3. QED
        BY <1>11, <3>1, <3>2, <4>2
    <3>3. CASE i # cursor
      BY <1>11, <2>1, <3>1, <3>3
    <3>4. QED
      BY <3>2, <3>3
  <2>4. CASE workList[i].blocks[k].local = e.local /\ e.remote = 0
    <3>1. i = cursor /\ k = k0
      BY <1>17, <2>1, <2>4
    <3>2. QED
      BY <1>4, <1>11, <2>4, <3>1 DEF t, e
  <2>5. QED
    BY <1>13, <2>2, <2>3, <2>4
<1>19. \A b : Fresh(b)' => Fresh(b)
  BY <1>11, <1>12 DEF Fresh
<1>20. e.remote = 0 => Fresh(e.local)
  BY <1>2, <1>4 DEF Fresh, t, e
<1>21. \A l : ListOld(l) => ListOld(l)'
  BY <1>13, <1>19, <1>20 DEF ListOld
<1>22. CountInv'
  <2>1. ASSUME NEW i \in DOMAIN workList' PROVE CountsEnough(workList'[i])
    <3>1. CASE i = cursor
      BY <1>16, <3>1
    <3>2. CASE i # cursor
      BY <1>1, <1>11, <3>2 DEF Inv, CountInv
    <3>3. QED
      BY <3>1, <3>2
  <2>2. (\A i \in DOMAIN workList : CountsEnough(workList[i]))'
    BY <2>1 DEF CountsEnough, Unacked
  <2>3. (\A i \in DOMAIN workList : SentEntry(workList[i]))'
    BY <1>18
  <2>4. ASSUME NEW i \in DOMAIN workList', NEW j \in DOMAIN workList',
               NEW k \in DOMAIN workList'[i].blocks, NEW l \in DOMAIN workList'[j].blocks,
               workList'[i].blocks[k].remote = 0,
               workList'[i].blocks[k].local = workList'[j].blocks[l].local
        PROVE  i = j /\ k = l
    BY <1>1, <1>11, <1>12, <2>4 DEF Inv, CountInv
  <2>5. (\A i \in DOMAIN store : ListOld(store[i].list))'
    BY <1>1, <1>2, <1>21 DEF Inv, CountInv, serverVars
  <2>6. ASSUME NEW x \in Messages' PROVE ListOld(x.obj.list)'
    <3>1. CASE x \in Messages
      BY <1>1, <1>21, <3>1 DEF Inv, CountInv
    <3>2. CASE x = m
      BY <1>7, <3>2 DEF ListOld
    <3>3. QED
      BY <1>13, <3>1, <3>2
  <2>7. QED
    BY <1>13, <2>2, <2>3, <2>4, <2>5, <2>6 DEF CountInv
<1>23. QED
  BY <1>15, <1>22

\* A ticket whose block k is acknowledged, as record n of the archive.
Acked(t, k, n) == [t EXCEPT !.blocks[k].remote = n, !.moved = t.moved - 1]

\* A ticket one of whose blocks is acknowledged.
LEMMA AckedTicket ==
    ASSUME NEW D, NEW t \in TicketOf(D), NEW k0 \in DOMAIN t.blocks, NEW n \in Nat
    PROVE  LET u == Acked(t, k0, n)
           IN  /\ DOMAIN u.blocks = DOMAIN t.blocks
               /\ \A k \in DOMAIN t.blocks : /\ u.blocks[k].local = t.blocks[k].local
                                             /\ k # k0 => u.blocks[k] = t.blocks[k]
               /\ u.blocks[k0].remote = n
               /\ u.blocks \in Seq(EntryOf(D))
               /\ u.file = t.file /\ u.next = t.next /\ u.moved = t.moved - 1 /\ u.status = t.status
               /\ u \in TicketOf(D)
<1>0. PICK u : u = [t EXCEPT !.blocks[k0].remote = n, !.moved = t.moved - 1]
  OBVIOUS
<1>00. u = Acked(t, k0, n)
  BY <1>0 DEF Acked
<1>1. t.blocks \in Seq(EntryOf(D)) /\ t.moved \in Int
  BY TicketUpdates
<1>2. \A k \in DOMAIN t.blocks : t.blocks[k] \in EntryOf(D)
  BY <1>1
<1>3. [t.blocks[k0] EXCEPT !.remote = n] \in EntryOf(D)
  BY <1>2 DEF EntryOf
<1>4. u.blocks = [t.blocks EXCEPT ![k0] = [t.blocks[k0] EXCEPT !.remote = n]]
  BY <1>0 DEF TicketOf
<1>5. u.blocks \in Seq(EntryOf(D))
  BY <1>1, <1>3, <1>4
<1>6. /\ u.blocks[k0].remote = n /\ u.blocks[k0].local = t.blocks[k0].local
      /\ DOMAIN u.blocks = DOMAIN t.blocks
      /\ \A k \in DOMAIN t.blocks : k # k0 => u.blocks[k] = t.blocks[k]
  BY <1>2, <1>4 DEF EntryOf
<1>7. /\ u.file = t.file /\ u.next = t.next /\ u.moved = t.moved - 1 /\ u.status = t.status
  BY <1>0 DEF TicketOf
<1>8. u \in TicketOf(D)
  <2>1. PICK v : v = [t EXCEPT !.blocks = u.blocks]
    OBVIOUS
  <2>2. v \in TicketOf(D)
    BY <1>5, <2>1, TicketUpdates
  <2>3. u = [v EXCEPT !.moved = t.moved - 1]
    <3>1. u = [t EXCEPT !.blocks = [t.blocks EXCEPT ![k0] = [t.blocks[k0] EXCEPT !.remote = n]],
                        !.moved = t.moved - 1]
      BY <1>0
    <3>2. u = [t EXCEPT !.blocks = u.blocks, !.moved = t.moved - 1]
      BY <1>4, <3>1
    <3>3. QED
      BY <2>1, <3>2 DEF TicketOf
  <2>4. t.moved - 1 \in Int
    BY <1>1
  <2>5. \A x \in Int : [v EXCEPT !.moved = x] \in TicketOf(D)
    BY <2>2, TicketUpdates
  <2>6. QED
    BY <2>3, <2>4, <2>5
<1>9. QED
  BY <1>00, <1>5, <1>6, <1>7, <1>8

\* accept_put_ack: the ack of a block takes one away from the entries sent and not
\* stored; a list that is sent has all its blocks stored.
LEMMA AckBlockStep ==
    ASSUME Inv, ClientReceives("PutBlockAck"), Head(toClient).block # 0,
           NEW i0 \in DOMAIN workList, NEW k0 \in DOMAIN workList[i0].blocks,
           WtFindBlock(workList[i0], Head(toClient).block, k0),
           AckBlock(i0, k0, Head(toClient)),
           UNCHANGED <<summary, bytes, toServer, store>>
    PROVE  StorageInv' /\ CountInv'
<1> DEFINE m == Head(toClient)
           b == m.block
           t == workList[i0]
           u == [t EXCEPT !.blocks[k0].remote = m.id, !.moved = t.moved - 1]
           v == [u EXCEPT !.status = "AwaitingBlockListConfirm"]
           w == PutBlock(t.file, 0, ListObject(BlockList(u.blocks)))
<1>1. /\ m \in Messages /\ m \in MessageOf(Ids) /\ b \in Flying /\ m.cmd = "PutBlockAck"
      /\ toClient # <<>> /\ toClient' = Tail(toClient)
  <2>1. toClient # <<>> /\ toClient \in Seq(MessageOf(Ids)) /\ FliesOnce
    BY QueueTypes DEF ClientReceives, Inv, CountInv
  <2>2. m \in Elements(toClient) /\ m \in MessageOf(Ids) /\ b \in BlocksOf(toClient)
    BY <2>1, TailFacts, TailBlocks DEF FliesOnce
  <2>3. QED
    BY <2>1, <2>2 DEF Messages, Flying, ClientReceives
<1>2. Stored(m.id, b) /\ m.id \in Nat /\ m.id # 0
  <2>1. MessageTrue(m)
    BY <1>1 DEF Inv, StorageInv
  <2>2. Stored(m.id, b)
    BY <1>1, <2>1 DEF MessageTrue
  <2>3. 0 \notin DOMAIN store
    BY DEF Inv, TypeInv, LocalsKnown
  <2>4. QED
    BY <1>1, <2>2, <2>3, MessageFields DEF Stored
<1>3. /\ t \in TicketOf(Ids) /\ t.blocks \in Seq(EntryOf(Ids)) /\ t.moved \in Int
      /\ t.next \in Nat /\ t.file \in File /\ workList \in Seq(TicketOf(Ids))
      /\ CountsEnough(t) /\ SentEntry(t)
  <2>1. t \in TicketOf(Ids) /\ workList \in Seq(TicketOf(Ids)) /\ CountsEnough(t) /\ SentEntry(t)
    BY DEF Inv, TypeInv, LocalsKnown, CountInv
  <2>2. QED
    BY <2>1, TicketUpdates
<1>4. t.blocks[k0].local = b /\ t.blocks[k0].remote = 0 /\ k0 <= t.next
  BY <1>1, <1>3 DEF WtFindBlock, SentEntry
<1>5. /\ DOMAIN u.blocks = DOMAIN t.blocks
      /\ \A k \in DOMAIN t.blocks : /\ u.blocks[k].local = t.blocks[k].local
                                    /\ k # k0 => u.blocks[k] = t.blocks[k]
      /\ u.blocks[k0].remote = m.id
      /\ u.blocks \in Seq(EntryOf(Ids))
      /\ u.next = t.next /\ u.moved = t.moved - 1 /\ u.status = t.status
  <2>1. t \in TicketOf(Ids) /\ k0 \in DOMAIN t.blocks /\ m.id \in Nat
    BY <1>2, <1>3
  <2>2. u = Acked(t, k0, m.id)
    BY DEF Acked
  <2> HIDE DEF t, m, u
  <2>3. QED
    BY <2>1, <2>2, AckedTicket
<1>6. /\ v.blocks = u.blocks /\ v.next = u.next /\ v.moved = u.moved
      /\ v.status = "AwaitingBlockListConfirm"
  BY <1>3 DEF TicketOf
<1>7. \/ /\ ListDue(t, u) /\ workList' = [workList EXCEPT ![i0] = v]
         /\ outBuf' = Append(outBuf, w)
      \/ /\ workList' = [workList EXCEPT ![i0] = u]
         /\ outBuf' = outBuf
  BY DEF AckBlock
<1>8. w \in MessageOf(Ids) /\ w.block = 0 /\ w.cmd = "PutBlock"
      /\ w.obj.kind = "list" /\ w.obj.list = BlockList(u.blocks)
  <2>1. ListObject(BlockList(u.blocks)) \in ObjectOf(Ids)
    BY <1>5, BlockListType, ObjectTypes
  <2>2. w \in MessageOf(Ids)
    BY <1>3, <2>1, MessageTypes
  <2>3. QED
    BY <2>2 DEF PutBlock, ListObject
<1>9. blockTable' = blockTable \cup {b}
  BY DEF AckBlock
<1> HIDE DEF m, b, t, u, v, w
<1>10. /\ DOMAIN workList' = DOMAIN workList
       /\ \A i \in DOMAIN workList : i # i0 => workList'[i] = workList[i]
       /\ workList'[i0].blocks = u.blocks /\ workList'[i0].next = t.next
       /\ workList'[i0].moved = t.moved - 1
       /\ workList'[i0].status \in {t.status, "AwaitingBlockListConfirm"}
  BY <1>3, <1>5, <1>6, <1>7
\* One entry less waits for its ack, and one is taken off the count.
<1>11. /\ Unacked(u) = Unacked(t) \ {k0}
       /\ IsFiniteSet(Unacked(u)) /\ Cardinality(Unacked(u)) \in Nat
       /\ Cardinality(Unacked(u)) <= t.moved - 1
  <2>1. Unacked(u) = Unacked(t) \ {k0} /\ k0 \in Unacked(t)
    <3>1. k0 \in Unacked(t)
      BY <1>4 DEF Unacked, t
    <3>2. k0 \notin Unacked(u)
      BY <1>2, <1>5 DEF Unacked
    <3>3. \A k \in DOMAIN t.blocks : k # k0 => (k \in Unacked(u) <=> k \in Unacked(t))
      BY <1>5 DEF Unacked
    <3>4. Unacked(u) \subseteq DOMAIN t.blocks /\ Unacked(t) \subseteq DOMAIN t.blocks
      BY <1>5 DEF Unacked
    <3>5. QED
      BY <3>1, <3>2, <3>3, <3>4
  <2>2. IsFiniteSet(Unacked(t)) /\ Cardinality(Unacked(t)) \in Nat
    BY <1>3, UnackedFinite
  <2>3. IsFiniteSet(Unacked(u)) /\ Cardinality(Unacked(u)) = Cardinality(Unacked(t)) - 1
    BY <2>1, <2>2, FS_RemoveElement
  <2>4. Cardinality(Unacked(u)) \in Nat
    BY <2>3, FS_CardinalityType
  <2>5. Cardinality(Unacked(t)) <= t.moved
    BY <1>3 DEF CountsEnough
  <2>6. QED
    BY <1>3, <2>1, <2>2, <2>3, <2>4, <2>5
<1>12. \A k \in DOMAIN u.blocks : EntryTrue(u.blocks[k])
  <2>1. \A k \in DOMAIN t.blocks : EntryTrue(t.blocks[k])
    BY DEF Inv, StorageInv, t
  <2>2. EntryTrue(u.blocks[k0])
    BY <1>2, <1>4, <1>5 DEF EntryTrue, t
  <2>3. QED
    BY <1>5, <2>1, <2>2
\* The list that is sent is complete.
<1>13. ListDue(t, u) => \A k \in DOMAIN u.blocks : u.blocks[k].remote # 0
  <2>1. SUFFICES ASSUME ListDue(t, u), NEW k \in DOMAIN u.blocks PROVE u.blocks[k].remote # 0
    OBVIOUS
  <2>2. u.moved = 0 /\ t.status = "AwaitingBlockConfirms" /\ t.next >= Len(t.blocks)
    BY <1>3, <2>1 DEF ListDue, CountsEnough
  <2>3. Cardinality(Unacked(u)) = 0
    BY <1>3, <1>5, <1>11, <2>2
  <2>4. Unacked(u) = {}
    BY <1>11, <2>3, FS_EmptySet
  <2>5. k <= u.next
    <3>1. k \in 1 .. Len(t.blocks) /\ Len(t.blocks) \in Nat
      BY <1>3, <1>5
    <3>2. QED
      BY <1>3, <1>5, <2>2, <3>1
  <2>6. QED
    BY <2>4, <2>5 DEF Unacked
<1>14. ListDue(t, u) => Complete(w.obj.list)
  <2>1. \A k \in DOMAIN BlockList(u.blocks) :
           /\ k \in DOMAIN u.blocks
           /\ BlockList(u.blocks)[k].local = u.blocks[k].local
           /\ BlockList(u.blocks)[k].remote = u.blocks[k].remote
    BY DEF BlockList
  <2>2. QED
    BY <1>8, <1>12, <1>13, <2>1 DEF Complete, EntryTrue
<1>15. /\ Messages' \subseteq Messages \cup {w}
       /\ ~ListDue(t, u) => Messages' \subseteq Messages
       /\ Flying' \subseteq Flying \ {b}
       /\ FliesOnce'
  <2>1. CASE ListDue(t, u) /\ outBuf' = Append(outBuf, w)
    <3>1. Ids' = Ids
      BY DEF Ids
    <3>2. w \in MessageOf(Ids') /\ w.block \notin Flying /\ Ids \subseteq Ids'
      BY <1>8, <3>1 DEF Flying, BlocksOf
    <3>3. /\ Messages' \subseteq Messages \cup {w}
          /\ Flying' \subseteq Flying \ {Head(toClient).block}
          /\ FliesOnce'
      BY <1>1, <1>8, <2>1, <3>2, SendQueues
    <3>4. QED
      BY <2>1, <3>3 DEF b, m
  <2>2. CASE outBuf' = outBuf
    <3>1. /\ Messages' \subseteq Messages /\ Flying' \subseteq Flying \ {Head(toClient).block}
          /\ FliesOnce'
      BY <1>1, <2>2, ReadQueues
    <3>2. QED
      BY <3>1 DEF b, m
  <2>3. QED
    BY <1>7, <2>1, <2>2
<1>16. Grown
  BY DEF Grown
<1>17. StorageInv'
  <2>1. (\A i \in DOMAIN store : Complete(store[i].list))'
    BY <1>16, TruthGrows DEF Inv, StorageInv
  <2>2. ASSUME NEW x \in Messages' PROVE MessageTrue(x)'
    <3>1. CASE x \in Messages
      BY <1>16, <3>1, OldMessages
    <3>2. CASE x = w /\ ListDue(t, u)
      <4>1. Complete(x.obj.list)
        BY <1>14, <3>2
      <4>2. Complete(x.obj.list)'
        BY <1>16, <4>1, TruthGrows
      <4>3. x.cmd = "PutBlock" /\ x.block = 0 /\ x.obj.kind = "list"
        BY <1>8, <3>2
      <4>4. QED
        BY <4>2, <4>3 DEF MessageTrue
    <3>3. QED
      BY <1>15, <3>1, <3>2
  <2>3. ASSUME NEW i \in DOMAIN workList', NEW k \in DOMAIN workList'[i].blocks
        PROVE  EntryTrue(workList[i].blocks[k])'
    <3>1. CASE i = i0
      BY <1>10, <1>12, <1>16, <3>1, TruthGrows
    <3>2. CASE i # i0
      BY <1>10, <1>16, <3>2, TruthGrows DEF Inv, StorageInv
    <3>3. QED
      BY <3>1, <3>2
  <2>4. (\A f \in File : summary[f] # 0 => summary[f] \in DOMAIN store
                                           /\ store[summary[f]].kind = "list")'
    BY DEF Inv, StorageInv
  <2>5. BlockTableStored'
    <3>1. m.id \in DOMAIN store
      BY <1>2 DEF Stored
    <3>2. QED
      BY <1>2, <1>9, <3>1 DEF Inv, StorageInv, BlockTableStored, Stored
  <2>6. QED
    BY <2>1, <2>2, <2>3, <2>4, <2>5 DEF StorageInv
<1>18. \A x : Fresh(x)' => Fresh(x) /\ x # b
  <2>1. SUFFICES ASSUME NEW x, NEW i \in DOMAIN workList', NEW k \in DOMAIN workList'[i].blocks,
                        workList'[i].blocks[k].remote = 0, workList'[i].blocks[k].local = x
                 PROVE  Fresh(x) /\ x # b
    BY DEF Fresh
  <2>2. /\ i \in DOMAIN workList /\ k \in DOMAIN workList[i].blocks
        /\ workList[i].blocks[k].remote = 0 /\ workList[i].blocks[k].local = x
        /\ ~(i = i0 /\ k = k0)
    BY <1>2, <1>5, <1>10, <2>1 DEF t
  <2>3. Fresh(x)
    BY <2>2 DEF Fresh
  <2>4. x # b
    BY <1>4, <2>2 DEF Inv, CountInv, t
  <2>5. QED
    BY <2>3, <2>4
<1>19. \A l : ListOld(l) => ListOld(l)'
  BY <1>15, <1>18 DEF ListOld
<1>20. CountInv'
  <2>1. ASSUME NEW i \in DOMAIN workList' PROVE CountsEnough(workList'[i])
    <3>1. CASE i = i0
      <4>1. Unacked(workList'[i0]) = Unacked(u)
        BY <1>5, <1>10 DEF Unacked
      <4>2. workList'[i0].status = "AwaitingBlockConfirms" =>
               workList'[i0].next >= Len(workList'[i0].blocks)
        <5>1. Len(u.blocks) = Len(t.blocks)
          BY <1>3, <1>5
        <5>2. QED
          BY <1>3, <1>10, <5>1 DEF CountsEnough
      <4>3. QED
        BY <1>10, <1>11, <3>1, <4>1, <4>2 DEF CountsEnough
    <3>2. CASE i # i0
      BY <1>10, <3>2 DEF Inv, CountInv
    <3>3. QED
      BY <3>1, <3>2
  <2>2. (\A i \in DOMAIN workList : CountsEnough(workList[i]))'
    BY <2>1 DEF CountsEnough, Unacked
  <2>3. ASSUME NEW i \in DOMAIN workList' PROVE SentEntry(workList[i])'
    <3>1. SUFFICES ASSUME NEW k \in DOMAIN workList'[i].blocks,
                          workList'[i].blocks[k].local \in Flying'
                   PROVE  workList'[i].blocks[k].remote = 0 /\ k <= workList'[i].next
      BY DEF SentEntry
    <3>2. /\ i \in DOMAIN workList /\ k \in DOMAIN workList[i].blocks
          /\ workList[i].blocks[k].local \in Flying \ {b}
          /\ workList'[i].next = workList[i].next
      BY <1>5, <1>10, <1>15, <3>1 DEF t
    <3>3. workList[i].blocks[k].remote = 0 /\ k <= workList[i].next
      BY <3>2 DEF Inv, CountInv, SentEntry
    <3>4. ~(i = i0 /\ k = k0)
      BY <1>4, <3>2 DEF t
    <3>5. workList'[i].blocks[k] = workList[i].blocks[k]
      BY <1>5, <1>10, <3>2, <3>4 DEF t
    <3>6. QED
      BY <3>2, <3>3, <3>5
  <2>4. ASSUME NEW i \in DOMAIN workList', NEW j \in DOMAIN workList',
               NEW k \in DOMAIN workList'[i].blocks, NEW l \in DOMAIN workList'[j].blocks,
               workList'[i].blocks[k].remote = 0,
               workList'[i].blocks[k].local = workList'[j].blocks[l].local
        PROVE  i = j /\ k = l
    <3>1. \A n \in DOMAIN workList :
             /\ DOMAIN workList'[n].blocks = DOMAIN workList[n].blocks
             /\ \A x \in DOMAIN workList[n].blocks :
                   workList'[n].blocks[x].local = workList[n].blocks[x].local
      BY <1>5, <1>10 DEF t
    <3>2. ~(i = i0 /\ k = k0)
      BY <1>2, <1>5, <1>10, <2>4
    <3>3. workList[i].blocks[k].remote = 0 /\ k \in DOMAIN workList[i].blocks
      BY <1>5, <1>10, <2>4, <3>1, <3>2 DEF t
    <3>4. QED
      BY <1>10, <2>4, <3>1, <3>3 DEF Inv, CountInv
  <2>5. (\A i \in DOMAIN store : ListOld(store[i].list))'
    BY <1>19 DEF Inv, CountInv
  <2>6. ASSUME NEW x \in Messages' PROVE ListOld(x.obj.list)'
    <3>1. CASE x \in Messages
      BY <1>19, <3>1 DEF Inv, CountInv
    <3>2. CASE x = w /\ ListDue(t, u)
      <4>1. DOMAIN x.obj.list = DOMAIN u.blocks
            /\ \A k \in DOMAIN u.blocks : x.obj.list[k].local = u.blocks[k].local
        BY <1>8, <3>2 DEF BlockList
      <4>2. SUFFICES ASSUME NEW k \in DOMAIN u.blocks, NEW c, c = u.blocks[k].local
                     PROVE  c \notin Flying' /\ ~Fresh(c)'
        BY <4>1 DEF ListOld
      <4>3. /\ i0 \in DOMAIN workList' /\ k \in DOMAIN workList'[i0].blocks
            /\ workList'[i0].blocks[k].remote # 0 /\ workList'[i0].blocks[k].local = c
        BY <1>10, <1>13, <3>2, <4>2
      <4>4. c \notin Flying'
        BY <2>3, <4>3 DEF SentEntry
      <4>5. ~Fresh(c)'
        <5>1. SUFFICES ASSUME NEW j \in DOMAIN workList', NEW l \in DOMAIN workList'[j].blocks,
                              workList'[j].blocks[l].remote = 0,
                              workList'[j].blocks[l].local = c
                       PROVE  FALSE
          BY DEF Fresh
        <5>2. j = i0 /\ l = k
          BY <2>4, <4>3, <5>1
        <5>3. QED
          BY <4>3, <5>1, <5>2
      <4>6. QED
        BY <4>4, <4>5
    <3>3. QED
      BY <1>15, <3>1, <3>2
  <2>7. QED
    BY <1>15, <2>2, <2>3, <2>4, <2>5, <2>6 DEF CountInv
<1>21. QED
  BY <1>17, <1>20

\* accept_put_block: what is stored is what the block stands for, and the ack
\* names it.
LEMMA AcceptPutBlockStep == Inv /\ AcceptPutBlock => StorageInv' /\ CountInv'
<1> DEFINE m == Head(toServer)
           id == Len(store) + 1
           a == PutBlockAck(m.file, m.block, id)
<1>1. SUFFICES ASSUME Inv, AcceptPutBlock PROVE StorageInv' /\ CountInv'
  OBVIOUS
<1>2. /\ toServer # <<>> /\ toServer' = Tail(toServer) /\ m.cmd = "PutBlock"
      /\ store' = Append(store, m.obj) /\ toClient' = Append(toClient, a)
      /\ UNCHANGED outBuf /\ UNCHANGED workList /\ UNCHANGED bytes
      /\ UNCHANGED summary /\ UNCHANGED blockTable
  BY <1>1 DEF AcceptPutBlock, ServerReceives, clientVars, tableVars
<1>3. /\ toServer \in Seq(MessageOf(Ids)) /\ m \in MessageOf(Ids) /\ m \in Messages
      /\ m.obj \in ObjectOf(Ids) /\ m.block \in Ids \cup {0}
      /\ store \in Seq(ObjectOf(Ids)) /\ bytes \in Seq(Nat) /\ id \in Nat
  <2>1. toServer \in Seq(MessageOf(Ids)) /\ store \in Seq(ObjectOf(Ids)) /\ bytes \in Seq(Nat)
    BY <1>1 DEF Inv, TypeInv, Plain, LocalsKnown
  <2>2. m \in MessageOf(Ids) /\ m \in Elements(toServer)
    BY <1>2, <2>1, TailFacts
  <2>3. QED
    BY <2>1, <2>2, MessageFields DEF Messages
<1>4. MessageTrue(m) /\ ListOld(m.obj.list)
  BY <1>1, <1>3 DEF Inv, StorageInv, CountInv
<1>5. /\ DOMAIN store' = 1 .. id /\ DOMAIN store = 1 .. Len(store) /\ store'[id] = m.obj
      /\ \A i \in DOMAIN store : store'[i] = store[i]
      /\ \A i \in DOMAIN store' : i \in DOMAIN store \/ i = id
  <2>1. /\ DOMAIN store' = 1 .. id /\ DOMAIN store = 1 .. Len(store) /\ store'[id] = m.obj
        /\ \A i \in DOMAIN store : store'[i] = store[i]
    BY <1>2, <1>3, AppendFacts
  <2>2. \A i \in 1 .. id : i \in 1 .. Len(store) \/ i = id
    BY <1>3
  <2>3. QED
    BY <2>1, <2>2
<1>6. Grown
  <2>1. DOMAIN store \subseteq DOMAIN store'
    BY <1>3, <1>5
  <2>2. QED
    BY <1>2, <1>5, <2>1 DEF Grown
<1>7. /\ a \in MessageOf(Ids) /\ a.block = m.block /\ a.obj.list = <<>>
      /\ a.cmd = "PutBlockAck" /\ a.id = id
  BY <1>3, ObjectTypes DEF PutBlockAck, MessageOf, NoObject
<1>8. Messages' \subseteq Messages \cup {a} /\ Flying' \subseteq Flying /\ FliesOnce'
  BY <1>1, <1>2, <1>7, AnswerQueues
<1>9. id \in DOMAIN store'
  BY <1>3, <1>5
<1>10. StorageInv'
  <2>1. ASSUME NEW i \in DOMAIN store' PROVE Complete(store[i].list)'
    <3>1. SUFFICES ASSUME NEW l, l = store'[i].list PROVE Complete(l)'
      BY DEF Complete
    <3>2. Complete(l)
      BY <1>1, <1>4, <1>5, <3>1 DEF Inv, StorageInv, MessageTrue
    <3>3. QED
      BY <1>6, <3>2, TruthGrows
  <2>2. ASSUME NEW x \in Messages' PROVE MessageTrue(x)'
    <3>1. CASE x \in Messages
      BY <1>1, <1>6, <3>1, OldMessages
    <3>2. CASE x = a
      <4>1. /\ x.cmd = "PutBlockAck" /\ x.obj.list = <<>> /\ x.id \in DOMAIN store'
            /\ x.block = m.block /\ store'[x.id] = m.obj
        BY <1>5, <1>7, <1>9, <3>2
      <4>2. x.block # 0 => Stored(x.id, x.block)'
        BY <1>2, <1>3, <1>4, <4>1 DEF Stored, MessageTrue, Ids
      <4>3. x.block = 0 => store'[x.id].kind = "list"
        BY <1>2, <1>4, <4>1 DEF MessageTrue
      <4>4. Complete(x.obj.list)'
        BY <4>1 DEF Complete
      <4>5. QED
        BY <4>1, <4>2, <4>3, <4>4 DEF MessageTrue
    <3>3. QED
      BY <1>8, <3>1, <3>2
  <2>3. (\A i \in DOMAIN workList : \A k \in DOMAIN workList[i].blocks :
           EntryTrue(workList[i].blocks[k]))'
    BY <1>1, <1>2, <1>6, TruthGrows DEF Inv, StorageInv
  <2>4. (\A f \in File : summary[f] # 0 => summary[f] \in DOMAIN store
                                           /\ store[summary[f]].kind = "list")'
    BY <1>1, <1>2, <1>6 DEF Inv, StorageInv, Grown
  <2>5. ASSUME NEW c \in blockTable' PROVE (\E i \in DOMAIN store : Stored(i, c))'
    BY <1>1, <1>2, <1>6, TruthGrows DEF Inv, StorageInv, BlockTableStored, Grown
  <2>6. QED
    BY <2>1, <2>2, <2>3, <2>4, <2>5 DEF StorageInv, BlockTableStored
<1>11. CountInv'
  <2>1. \A c : Fresh(c)' => Fresh(c)
    BY <1>2 DEF Fresh
  <2>2. \A l : ListOld(l) => ListOld(l)'
    BY <1>8, <2>1 DEF ListOld
  <2>3. ASSUME NEW i \in DOMAIN store' PROVE ListOld(store[i].list)'
    <3>1. SUFFICES ASSUME NEW l, l = store'[i].list PROVE ListOld(l)'
      BY DEF ListOld
    <3>2. ListOld(l)
      BY <1>1, <1>4, <1>5, <3>1 DEF Inv, CountInv
    <3>3. QED
      BY <2>2, <3>2
  <2>4. ASSUME NEW x \in Messages' PROVE ListOld(x.obj.list)'
    <3>1. CASE x \in Messages
      BY <1>1, <2>2, <3>1 DEF Inv, CountInv
    <3>2. CASE x.obj.list = <<>>
      BY <3>2 DEF ListOld
    <3>3. QED
      BY <1>7, <1>8, <3>1, <3>2
  <2>5. (\A i \in DOMAIN workList : CountsEnough(workList[i]) /\ SentEntry(workList[i]))'
    BY <1>1, <1>2, <1>8 DEF Inv, CountInv, CountsEnough, Unacked, SentEntry
  <2>6. QED
    BY <1>1, <1>2, <1>8, <2>3, <2>4, <2>5 DEF Inv, CountInv
<1>12. QED
  BY <1>10, <1>11

-----------------------------------------------------------------------------
(* The quiet steps. *)

\* The work list is the same, or gone, and no packet is new.
LEMMA SameTickets ==
    ASSUME Inv, UNCHANGED <<store, bytes, blockTable>>,
           workList' = workList \/ workList' = <<>>,
           \A m \in Messages' : \/ m \in Messages
                                \/ m.obj = NoObject /\ m.cmd \in {"GetBlock", "Bye"}
                                \/ /\ m.cmd = "GetBlockAck"
                                   /\ \/ m.obj = NoObject
                                      \/ \E i \in DOMAIN store : m.obj = store[i],
           Flying' \subseteq Flying, FliesOnce',
           UNCHANGED summary
    PROVE  StorageInv' /\ CountInv'
<1> DEFINE h == [i \in DOMAIN workList' |-> i]
<1>1. DOMAIN workList' \subseteq DOMAIN workList /\ DOMAIN workList \subseteq Nat \ {0}
  BY DEF Inv, TypeInv, LocalsKnown
<1>2. h \in [DOMAIN workList' -> Nat]
  BY <1>1
<1>3. \A i, j \in DOMAIN workList' : h[i] = h[j] /\ h[i] # 0 => i = j
  OBVIOUS
<1>4. \A i \in DOMAIN workList' : h[i] # 0 /\ workList'[i] = workList[i]
  BY <1>1
<1>5. \A i \in DOMAIN workList' : MovedTicket(i, h[i])
  BY <1>1, <1>4 DEF MovedTicket
<1> HIDE DEF h
<1>6. QED
  BY <1>2, <1>3, <1>4, <1>5, QuietStep

\* What the queues look like when one is as before or empty.
LEMMA StillQueues ==
    ASSUME Inv, outBuf' \in {outBuf, <<>>}, toServer' \in {toServer, <<>>},
           toClient' \in {toClient, <<>>}
    PROVE  Messages' \subseteq Messages /\ Flying' \subseteq Flying /\ FliesOnce'
<1>1. \A q : q = <<>> => Elements(q) = {} /\ BlocksOf(q) = {} /\ Once(q)
  BY DEF Elements, BlocksOf, Once
<1>2. /\ Elements(outBuf') \subseteq Elements(outBuf) /\ BlocksOf(outBuf') \subseteq BlocksOf(outBuf)
      /\ Once(outBuf)'
  BY <1>1 DEF Inv, CountInv, FliesOnce
<1>3. /\ Elements(toServer') \subseteq Elements(toServer)
      /\ BlocksOf(toServer') \subseteq BlocksOf(toServer) /\ Once(toServer)'
      /\ Elements(toClient') \subseteq Elements(toClient)
      /\ BlocksOf(toClient') \subseteq BlocksOf(toClient) /\ Once(toClient)'
  BY <1>1 DEF Inv, CountInv, FliesOnce
<1>4. QED
  BY <1>2, <1>3 DEF Messages, Flying, FliesOnce, Inv, CountInv

\* A goodbye goes out, or not, after the pipe was read, or not.
LEMMA ByeQueues ==
    ASSUME Inv, NEW list, ByeIfDone(list), UNCHANGED toServer, Ids' = Ids,
           \/ toClient' = toClient
           \/ toClient # <<>> /\ toClient' = Tail(toClient)
    PROVE  /\ Messages' \subseteq Messages \cup {Bye}
           /\ Flying' \subseteq Flying /\ FliesOnce'
<1>1. CASE outBuf' = Append(outBuf, Bye)
  <2>1. Bye \in MessageOf(Ids') /\ Bye.block = 0 /\ Bye.block \notin Flying
    BY DEF Bye, MessageOf, NoObject, ObjectOf, Flying, BlocksOf
  <2>2. QED
    BY <1>1, <2>1, SendQueues
<1>2. CASE outBuf' = outBuf /\ toClient' = toClient
  BY <1>2, StillQueues
<1>3. CASE outBuf' = outBuf /\ toClient # <<>> /\ toClient' = Tail(toClient)
  BY <1>3, ReadQueues
<1>4. QED
  BY <1>1, <1>2, <1>3 DEF ByeIfDone, SayBye

\* do_archive and archive_it keep the invariant.
LEMMA InvArchive == Inv /\ ArchiveStep => StorageInv' /\ CountInv'
<1>1. SUFFICES ASSUME Inv, ArchiveStep PROVE StorageInv' /\ CountInv'
  OBVIOUS
<1>2. CASE EndScan
  <2>1. /\ UNCHANGED store /\ UNCHANGED bytes /\ UNCHANGED blockTable /\ UNCHANGED summary
        /\ workList' = workList /\ toServer' = toServer /\ toClient' = toClient
        /\ ByeIfDone(workList)
    BY <1>2 DEF EndScan, tableVars, serverVars, wireVars
  <2>2. Messages' \subseteq Messages \cup {Bye} /\ Flying' \subseteq Flying /\ FliesOnce'
    <3>1. Ids' = Ids
      BY <2>1 DEF Ids
    <3>2. QED
      BY <1>1, <2>1, <3>1, ByeQueues
  <2>3. Bye.obj = NoObject /\ Bye.cmd = "Bye"
    BY DEF Bye
  <2>4. QED
    BY <1>1, <2>1, <2>2, <2>3, SameTickets
<1>3. ASSUME NEW f \in File, VisitNew(f) PROVE StorageInv' /\ CountInv'
  <2>1. PICK n \in MinNew .. MaxNew :
          /\ workList' = Append(workList,
                                NewTicket(f, "SendingBlocks", NewCover(<<>>, {}, {}, n)))
          /\ bytes' = CoverBytes(<<>>, n)
    BY <1>3 DEF VisitNew
  <2> DEFINE cover == NewCover(<<>>, {}, {}, n)
             t == NewTicket(f, "SendingBlocks", cover)
             x == Len(workList) + 1
  <2>2. n \in Nat
    BY ConstantsAssumption
  <2>3. t.blocks = cover /\ t.next = 0 /\ t.moved >= 0 /\ t.status = "SendingBlocks"
    BY DEF NewTicket
  <2> HIDE DEF cover, t
  <2>4. /\ x \in DOMAIN workList' /\ workList'[x] = t
        /\ \A i \in DOMAIN workList' : i # x => i \in DOMAIN workList /\ workList'[i] = workList[i]
    <3>1. workList' = Append(workList, t) /\ workList \in Seq(TicketOf(Ids))
      BY <1>1, <2>1 DEF t, cover, Inv, TypeInv, LocalsKnown
    <3>2. QED
      BY <3>1
  <2>5. Messages' \subseteq Messages /\ Flying' \subseteq Flying /\ FliesOnce'
    <3>1. outBuf' = outBuf /\ toServer' = toServer /\ toClient' = toClient
      BY <1>3 DEF VisitNew, Report, Reported
    <3>2. QED
      BY <1>1, <3>1, StillQueues
  <2>6. UNCHANGED <<store, summary>> /\ blockTable' \subseteq blockTable \cup SavedByCover(cover)
    BY <1>3 DEF VisitNew, Report, Reported, serverVars
  <2>7. /\ <<>> \in Seq(ListEntryOf(Ids)) /\ Complete(<<>>) /\ ListOld(<<>>)
        /\ {} \in SUBSET DOMAIN <<>> /\ {} \in SUBSET {}
    BY DEF Complete, ListOld
  <2>8. cover = NewCover(<<>>, {}, {}, n) /\ bytes' = CoverBytes(<<>>, n)
    BY <2>1 DEF cover
  <2> HIDE DEF x
  <2>9. QED
    BY <1>1, <2>2, <2>3, <2>4, <2>5, <2>6, <2>7, <2>8, CoverStep
<1>4. ASSUME NEW f \in File, VisitChanged(f) PROVE StorageInv' /\ CountInv'
  <2> DEFINE t == NewTicket(f, "AwaitingBlockList", <<>>)
             m == GetBlock(f, 0, summary[f])
             h == [i \in DOMAIN workList' |-> IF i \in DOMAIN workList THEN i ELSE 0]
  <2>1. /\ UNCHANGED <<store, bytes, blockTable>> /\ UNCHANGED summary /\ UNCHANGED toServer
        /\ toClient' = toClient
        /\ workList' = Append(workList, t) /\ outBuf' = Append(outBuf, m)
    BY <1>4 DEF VisitChanged, Report, Reported, serverVars
  <2>2. m \in MessageOf(Ids) /\ m.block = 0 /\ m.obj = NoObject /\ m.cmd = "GetBlock"
    <3>1. summary[f] \in Nat
      BY <1>1 DEF Inv, TypeInv, Plain
    <3>2. QED
      BY <3>1 DEF GetBlock, MessageOf, NoObject, ObjectOf
  <2>3. t.blocks = <<>> /\ t.moved = 0 /\ t.status = "AwaitingBlockList"
    BY DEF NewTicket
  <2> HIDE DEF t, m
  <2>4. /\ Messages' \subseteq Messages \cup {m} /\ Flying' \subseteq Flying /\ FliesOnce'
    <3>1. m \in MessageOf(Ids') /\ Ids \subseteq Ids' /\ m.block \notin Flying
      BY <2>1, <2>2 DEF Ids, Flying, BlocksOf
    <3>2. QED
      BY <1>1, <2>1, <2>2, <3>1, SendQueues
  <2>5. /\ DOMAIN workList' \subseteq Nat /\ DOMAIN workList \subseteq Nat \ {0}
        /\ \A i \in DOMAIN workList' : workList'[i] = IF i \in DOMAIN workList THEN workList[i] ELSE t
    <3>1. workList \in Seq(TicketOf(Ids))
      BY <1>1 DEF Inv, TypeInv, LocalsKnown
    <3>2. QED
      BY <2>1, <3>1
  <2>6. h \in [DOMAIN workList' -> Nat]
    BY <2>5
  <2>7. \A i, j \in DOMAIN workList' : h[i] = h[j] /\ h[i] # 0 => i = j
    OBVIOUS
  <2>8. ASSUME NEW i \in DOMAIN workList'
        PROVE  IF h[i] = 0 THEN EmptyTicket(i) ELSE MovedTicket(i, h[i])
    BY <2>3, <2>5 DEF EmptyTicket, MovedTicket
  <2> HIDE DEF h
  <2>9. QED
    BY <1>1, <2>1, <2>2, <2>4, <2>6, <2>7, <2>8, QuietStep
<1>5. ASSUME NEW f \in File, VisitUnchanged(f) PROVE StorageInv' /\ CountInv'
  <2>1. /\ UNCHANGED <<store, bytes, blockTable>> /\ UNCHANGED summary /\ workList' = workList
        /\ outBuf' = outBuf /\ toServer' = toServer /\ toClient' = toClient
    BY <1>5 DEF VisitUnchanged, Report, Reported, serverVars
  <2>2. QED
    BY <1>1, <2>1, StillQueues, SameTickets
<1>6. ASSUME NEW f \in File, VisitUntouched(f) PROVE StorageInv' /\ CountInv'
  <2>1. /\ UNCHANGED <<store, bytes, blockTable>> /\ UNCHANGED summary /\ workList' = workList
        /\ outBuf' = outBuf /\ toServer' = toServer /\ toClient' = toClient
    BY <1>6 DEF VisitUntouched, serverVars, tableVars, wireVars
  <2>2. QED
    BY <1>1, <2>1, StillQueues, SameTickets
<1>7. QED
  BY <1>1, <1>2, <1>3, <1>4, <1>5, <1>6 DEF ArchiveStep

\* A process ends, a handler looks and does nothing, a run starts.
LEMMA InvStill ==
    ASSUME Inv, UNCHANGED tableVars, UNCHANGED store,
           workList' = workList \/ workList' = <<>>,
           outBuf' \in {outBuf, <<>>}, toServer' \in {toServer, <<>>},
           toClient' \in {toClient, <<>>}
    PROVE  StorageInv' /\ CountInv'
<1>1. Messages' \subseteq Messages /\ Flying' \subseteq Flying /\ FliesOnce'
  BY StillQueues
<1>2. UNCHANGED <<store, bytes, blockTable>> /\ UNCHANGED summary
  BY DEF tableVars
<1>3. QED
  BY <1>1, <1>2, SameTickets

\* A packet is written, or the write fails.
LEMMA InvWrite ==
    ASSUME Inv, WriteOut, outBuf # <<>>, UNCHANGED toClient, UNCHANGED tableVars,
           UNCHANGED store, workList' = workList
    PROVE  StorageInv' /\ CountInv'
<1>1. Messages' \subseteq Messages /\ Flying' \subseteq Flying /\ FliesOnce'
  <2>1. CASE WritePacket
    BY <2>1, WriteQueues
  <2>2. CASE WriteFails
    BY <2>2, StillQueues DEF WriteFails
  <2>3. QED
    BY <2>1, <2>2 DEF WriteOut
<1>2. UNCHANGED <<store, bytes, blockTable>> /\ UNCHANGED summary
  BY DEF tableVars
<1>3. QED
  BY <1>1, <1>2, SameTickets

\* wt_do_work: a ticket waits for acks only when all its blocks were sent.
LEMMA FillNextStep == Inv /\ FillNext => StorageInv' /\ CountInv'
<1>1. SUFFICES ASSUME Inv, FillNext PROVE StorageInv' /\ CountInv'
  OBVIOUS
<1> DEFINE t == workList[cursor]
           h == [i \in DOMAIN workList' |-> i]
<1>2. /\ UNCHANGED <<store, bytes, blockTable>> /\ UNCHANGED summary
      /\ outBuf' = outBuf /\ toServer' = toServer /\ toClient' = toClient
      /\ cursor \in DOMAIN workList
      /\ \/ workList' = workList
         \/ /\ t.next >= Len(t.blocks)
            /\ workList' = [workList EXCEPT ![cursor] =
                               [t EXCEPT !.status = "AwaitingBlockConfirms"]]
  BY <1>1 DEF FillNext, tableVars, serverVars, wireVars
<1>3. workList \in Seq(TicketOf(Ids)) /\ t \in TicketOf(Ids)
  BY <1>1, <1>2 DEF Inv, TypeInv, LocalsKnown
<1>4. DOMAIN workList' = DOMAIN workList /\ DOMAIN workList \subseteq Nat \ {0}
  BY <1>2, <1>3
<1>5. ASSUME NEW i \in DOMAIN workList' PROVE MovedTicket(i, i)
  <2>1. CASE workList' = workList
    BY <1>4, <2>1 DEF MovedTicket
  <2>2. CASE /\ t.next >= Len(t.blocks)
             /\ workList' = [workList EXCEPT ![cursor] =
                                [t EXCEPT !.status = "AwaitingBlockConfirms"]]
    BY <1>2, <1>3, <1>4, <2>2 DEF MovedTicket, TicketOf
  <2>3. QED
    BY <1>2, <2>1, <2>2
<1>6. Messages' \subseteq Messages /\ Flying' \subseteq Flying /\ FliesOnce'
  BY <1>1, <1>2, StillQueues
<1>7. /\ h \in [DOMAIN workList' -> Nat]
      /\ \A i, j \in DOMAIN workList' : h[i] = h[j] /\ h[i] # 0 => i = j
      /\ \A i \in DOMAIN workList' : h[i] # 0 /\ MovedTicket(i, h[i])
  BY <1>4, <1>5
<1> HIDE DEF h
<1>8. QED
  BY <1>1, <1>2, <1>6, <1>7, QuietStep

\* io_output_handler and wt_process_queue keep the invariant.
LEMMA InvOutput == Inv /\ OutputStep => StorageInv' /\ CountInv'
<1>1. SUFFICES ASSUME Inv, OutputStep PROVE StorageInv' /\ CountInv'
  OBVIOUS
<1>2. CASE OutputBuffered
  BY <1>1, <1>2, InvWrite DEF OutputBuffered, serverVars
<1>3. CASE FillStart
  BY <1>1, <1>3, InvStill DEF FillStart, serverVars, wireVars
<1>4. CASE FillBlock
  BY <1>1, <1>4, FillBlockStep
<1>5. CASE FillNext
  BY <1>1, <1>5, FillNextStep
<1>6. CASE FillEnd
  <2>1. CASE outBuf # <<>>
    BY <1>1, <1>6, <2>1, InvWrite DEF FillEnd, serverVars
  <2>2. CASE outBuf = <<>>
    <3>1. /\ UNCHANGED tableVars /\ UNCHANGED store
          /\ toServer' = toServer /\ toClient' = toClient
      BY <1>6, <2>2 DEF FillEnd, serverVars
    <3>2. (workList' = workList \/ workList' = <<>>) /\ outBuf' \in {outBuf, <<>>}
      BY <1>6, <2>2 DEF FillEnd, ClientGone
    <3>3. QED
      BY <1>1, <3>1, <3>2, InvStill
  <2>3. QED
    BY <2>1, <2>2
<1>7. QED
  BY <1>1, <1>2, <1>3, <1>4, <1>5, <1>6 DEF OutputStep

\* The client reads a packet: it is of a known type, and true.
LEMMA ReadFacts ==
    ASSUME Inv, NEW c, ClientReceives(c)
    PROVE  /\ toClient # <<>> /\ toClient' = Tail(toClient)
           /\ Head(toClient) \in Messages /\ Head(toClient) \in MessageOf(Ids)
           /\ MessageTrue(Head(toClient)) /\ ListOld(Head(toClient).obj.list)
<1>1. toClient # <<>> /\ toClient' = Tail(toClient) /\ toClient \in Seq(MessageOf(Ids))
  BY DEF ClientReceives, Inv, TypeInv, LocalsKnown
<1>2. Head(toClient) \in Elements(toClient) /\ Head(toClient) \in MessageOf(Ids)
  BY <1>1, TailFacts
<1>3. Head(toClient) \in Messages
  BY <1>2 DEF Messages
<1>4. QED
  BY <1>1, <1>2, <1>3 DEF Inv, StorageInv, CountInv

\* A packet is read, and the tickets and the tables stay.
LEMMA ReadOnly ==
    ASSUME Inv, NEW c, ClientReceives(c), UNCHANGED <<store, bytes, blockTable>>,
           UNCHANGED summary, workList' = workList, UNCHANGED <<outBuf, toServer>>
    PROVE  StorageInv' /\ CountInv'
<1>1. /\ Messages' \subseteq Messages /\ Flying' \subseteq Flying \ {Head(toClient).block}
      /\ FliesOnce'
  BY ReadFacts, ReadQueues
<1>2. Flying' \subseteq Flying
  BY <1>1
<1>3. QED
  BY <1>1, <1>2, SameTickets

\* accept_put_ack for a block: abort, ticket found, or a block nobody knows.
LEMMA BlockAckStep == Inv /\ ReceiveBlockAck => StorageInv' /\ CountInv'
<1> DEFINE m == Head(toClient)
<1>1. SUFFICES ASSUME Inv, ReceiveBlockAck PROVE StorageInv' /\ CountInv'
  OBVIOUS
<1>2. /\ ClientReceives("PutBlockAck") /\ m.block # 0 /\ AcceptBlockAck(m)
      /\ UNCHANGED <<summary, bytes, toServer, store>>
  BY <1>1 DEF ReceiveBlockAck, serverVars
<1>3. CASE AssertFails /\ UNCHANGED blockTable
  BY <1>1, <1>2, <1>3, ReadOnly DEF AssertFails
<1>4. CASE UNCHANGED <<pc, workList, outBuf, registered, blockTable>>
  BY <1>1, <1>2, <1>4, ReadOnly
<1>5. ASSUME NEW i \in DOMAIN workList, NEW k \in DOMAIN workList[i].blocks,
             WtFindBlock(workList[i], m.block, k), AckBlock(i, k, m)
      PROVE  StorageInv' /\ CountInv'
  BY <1>1, <1>2, <1>5, AckBlockStep
<1>6. QED
  BY <1>2, <1>3, <1>4, <1>5 DEF AcceptBlockAck

\* accept_put_ack for a block list: the summary becomes a list that is stored.
LEMMA ListAckStep == Inv /\ ReceiveListAck => StorageInv' /\ CountInv'
<1> DEFINE m == Head(toClient)
<1>1. SUFFICES ASSUME Inv, ReceiveListAck PROVE StorageInv' /\ CountInv'
  OBVIOUS
<1>2. /\ ClientReceives("PutBlockAck") /\ m.block = 0 /\ AcceptListAck(m)
      /\ UNCHANGED <<store, bytes, blockTable>> /\ UNCHANGED toServer
  BY <1>1 DEF ReceiveListAck, serverVars
<1>3. m.cmd = "PutBlockAck" /\ toClient # <<>> /\ toClient' = Tail(toClient) /\ MessageTrue(m)
  BY <1>1, <1>2, ReadFacts DEF ClientReceives
<1>4. CASE AssertFails /\ UNCHANGED summary
  BY <1>1, <1>2, <1>4, ReadOnly DEF AssertFails
<1>5. ASSUME NEW i0 \in DOMAIN workList, summary' = [summary EXCEPT ![m.file] = m.id],
             workList' = RemoveAt(workList, i0), ByeIfDone(workList')
      PROVE  StorageInv' /\ CountInv'
  <2> DEFINE h == [i \in DOMAIN workList' |-> IF i < i0 THEN i ELSE i + 1]
  <2>1. Messages' \subseteq Messages \cup {Bye} /\ Flying' \subseteq Flying /\ FliesOnce'
    <3>1. Ids' = Ids
      BY <1>2 DEF Ids
    <3>2. QED
      BY <1>1, <1>2, <1>3, <1>5, <3>1, ByeQueues
  <2>2. Bye.obj = NoObject /\ Bye.cmd = "Bye"
    BY DEF Bye
  <2>3. /\ DOMAIN workList = 1 .. Len(workList) /\ Len(workList) \in Nat
        /\ DOMAIN workList' = 1 .. Len(workList) - 1
        /\ \A j \in DOMAIN workList' :
              workList'[j] = IF j < i0 THEN workList[j] ELSE workList[j + 1]
    <3>1. workList \in Seq(TicketOf(Ids))
      BY <1>1 DEF Inv, TypeInv, LocalsKnown
    <3>2. QED
      BY <1>5, <3>1, RemoveAtFacts
  <2>4. h \in [DOMAIN workList' -> Nat]
    BY <2>3
  <2>5. \A i \in DOMAIN workList' : h[i] # 0 /\ h[i] \in DOMAIN workList /\ workList'[i] = workList[h[i]]
    BY <1>5, <2>3
  <2>6. \A i, j \in DOMAIN workList' : h[i] = h[j] /\ h[i] # 0 => i = j
    BY <1>5, <2>3
  <2>7. \A i \in DOMAIN workList' : MovedTicket(i, h[i])
    BY <2>5 DEF MovedTicket
  <2>8. \A f \in File : \/ summary'[f] = summary[f]
                        \/ summary'[f] \in DOMAIN store /\ store[summary'[f]].kind = "list"
    <3>1. m.id \in DOMAIN store /\ store[m.id].kind = "list"
      BY <1>2, <1>3 DEF MessageTrue
    <3>2. summary \in [File -> Nat]
      BY <1>1 DEF Inv, TypeInv, Plain
    <3>3. QED
      BY <1>5, <3>1, <3>2
  <2> HIDE DEF h
  <2>9. QED
    BY <1>1, <1>2, <2>1, <2>2, <2>4, <2>5, <2>6, <2>7, <2>8, QuietStep
<1>6. QED
  BY <1>2, <1>4, <1>5 DEF AcceptListAck

\* accept_get_ack for a block list: the cover starts from a list that is stored.
LEMMA BlockListStep == Inv /\ ReceiveBlockList => StorageInv' /\ CountInv'
<1> DEFINE m == Head(toClient)
<1>1. SUFFICES ASSUME Inv, ReceiveBlockList PROVE StorageInv' /\ CountInv'
  OBVIOUS
<1>2. /\ ClientReceives("GetBlockAck") /\ AcceptBlockList(m)
      /\ UNCHANGED summary /\ UNCHANGED toServer /\ UNCHANGED store
  BY <1>1 DEF ReceiveBlockList, serverVars
<1>3. CASE AssertFails /\ UNCHANGED <<blockTable, bytes>>
  BY <1>1, <1>2, <1>3, ReadOnly DEF AssertFails
<1>4. CASE UNCHANGED <<workList, registered, blockTable, bytes, pc, outBuf>>
  BY <1>1, <1>2, <1>4, ReadOnly
<1>5. ASSUME NEW i0 \in DOMAIN workList, StartArchive(i0, m.obj.list), UNCHANGED <<pc, outBuf>>
      PROVE  StorageInv' /\ CountInv'
  <2>1. PICK keep \in SUBSET DOMAIN m.obj.list, move \in SUBSET DOMAIN m.obj.list,
             n \in MinNew .. MaxNew :
          LET cover == NewCover(m.obj.list, keep, move, n)
          IN  /\ move \subseteq keep
              /\ workList' = [workList EXCEPT ![i0].blocks = cover,
                                              ![i0].status = "SendingBlocks",
                                              ![i0].next = 0]
              /\ bytes' = CoverBytes(m.obj.list, n)
              /\ blockTable' = blockTable \cup SavedByCover(cover)
    BY <1>5 DEF StartArchive
  <2> DEFINE list == m.obj.list
             cover == NewCover(list, keep, move, n)
             t == workList[i0]
  <2>2. list \in Seq(ListEntryOf(Ids)) /\ Complete(list) /\ ListOld(list)
    BY <1>1, <1>2, ReadFacts, MessageFields DEF MessageTrue
  <2>3. n \in Nat
    BY ConstantsAssumption
  <2>4. /\ workList \in Seq(TicketOf(Ids)) /\ t \in TicketOf(Ids) /\ CountsEnough(t)
    BY <1>1 DEF Inv, TypeInv, LocalsKnown, CountInv
  <2>5. t.moved >= 0
    BY <2>4, CountIsNat
  <2>6. /\ i0 \in DOMAIN workList' /\ workList'[i0].blocks = cover /\ workList'[i0].next = 0
        /\ workList'[i0].moved = t.moved /\ workList'[i0].status = "SendingBlocks"
        /\ \A i \in DOMAIN workList' : i # i0 => i \in DOMAIN workList /\ workList'[i] = workList[i]
    <3> HIDE DEF cover
    <3>1. workList' = [workList EXCEPT ![i0] =
                          [t EXCEPT !.blocks = cover, !.status = "SendingBlocks", !.next = 0]]
      BY <2>1 DEF cover
    <3>2. QED
      BY <2>4, <3>1 DEF TicketOf
  <2>7. Messages' \subseteq Messages /\ Flying' \subseteq Flying /\ FliesOnce'
    <3>1. toClient # <<>> /\ toClient' = Tail(toClient)
      BY <1>1, <1>2, ReadFacts
    <3>2. QED
      BY <1>1, <1>2, <1>5, <3>1, ReadQueues
  <2>8. /\ cover = NewCover(list, keep, move, n) /\ bytes' = CoverBytes(list, n)
        /\ blockTable' \subseteq blockTable \cup SavedByCover(cover)
        /\ UNCHANGED <<store, summary>>
    BY <1>2, <2>1
  <2>9. workList'[i0].moved >= 0
    BY <2>5, <2>6
  <2> HIDE DEF list, cover, t
  <2>10. keep \in SUBSET DOMAIN list /\ move \in SUBSET keep
    BY <2>1 DEF list
  <2>11. QED
    BY <1>1, <2>2, <2>3, <2>6, <2>7, <2>8, <2>9, <2>10, CoverStep
<1>6. QED
  BY <1>2, <1>3, <1>4, <1>5 DEF AcceptBlockList

\* The handlers of the server keep the invariant.
LEMMA InvServer == Inv /\ ServerStep => StorageInv' /\ CountInv'
<1> DEFINE m == Head(toServer)
<1>1. SUFFICES ASSUME Inv, ServerStep PROVE StorageInv' /\ CountInv'
  OBVIOUS
<1>2. ASSUME NEW c, ServerReceives(c)
      PROVE  /\ toServer # <<>> /\ toServer' = Tail(toServer) /\ m \in MessageOf(Ids)
             /\ m.cmd = c
  BY <1>1, <1>2, TailFacts DEF ServerReceives, Inv, TypeInv, LocalsKnown
<1>3. CASE AcceptPutBlock
  BY <1>1, <1>3, AcceptPutBlockStep
<1>4. CASE AcceptGetBlock
  <2> DEFINE o == IF m.id \in DOMAIN store THEN store[m.id] ELSE NoObject
             w == GetBlockAck(m.file, m.block, o)
  <2>1. /\ toServer # <<>> /\ toServer' = Tail(toServer) /\ m \in MessageOf(Ids)
        /\ toClient' = Append(toClient, w) /\ outBuf' = outBuf
        /\ UNCHANGED <<store, bytes, blockTable>> /\ UNCHANGED summary /\ workList' = workList
    BY <1>2, <1>4 DEF AcceptGetBlock, clientVars, tableVars, serverVars
  <2>2. o \in ObjectOf(Ids)
    BY <1>1, ObjectTypes DEF Inv, TypeInv, LocalsKnown
  <2>3. w \in MessageOf(Ids) /\ w.block = m.block /\ w.cmd = "GetBlockAck" /\ w.obj = o
    BY <2>1, <2>2, MessageFields DEF GetBlockAck, MessageOf
  <2>4. o = NoObject \/ \E i \in DOMAIN store : o = store[i]
    OBVIOUS
  <2> HIDE DEF o, w
  <2>5. Messages' \subseteq Messages \cup {w} /\ Flying' \subseteq Flying /\ FliesOnce'
    BY <1>1, <2>1, <2>3, AnswerQueues
  <2>6. QED
    BY <1>1, <2>1, <2>3, <2>4, <2>5, SameTickets
<1>5. CASE ReceiveBye
  <2>1. /\ toServer # <<>> /\ toServer' = Tail(toServer) /\ m \in MessageOf(Ids)
        /\ toClient' \in {toClient, Append(toClient, Bye)}
        /\ outBuf' = outBuf
        /\ UNCHANGED <<store, bytes, blockTable>> /\ UNCHANGED summary /\ workList' = workList
    BY <1>2, <1>5 DEF ReceiveBye, clientVars, tableVars
  <2>2. Bye \in MessageOf(Ids) /\ Bye.block = 0 /\ Bye.obj = NoObject /\ Bye.cmd = "Bye"
    BY DEF Bye, MessageOf, NoObject, ObjectOf
  <2>3. Messages' \subseteq Messages \cup {Bye} /\ Flying' \subseteq Flying /\ FliesOnce'
    BY <1>1, <2>1, <2>2, AnswerQueues
  <2>4. QED
    BY <1>1, <2>1, <2>2, <2>3, SameTickets
<1>6. QED
  BY <1>1, <1>3, <1>4, <1>5 DEF ServerStep

\* The start of a run, signals, lost connections and idle steps keep the invariant.
LEMMA InvOther ==
    ASSUME Inv,
           \/ StartRun \/ ClientSignal \/ ServerSignal \/ ClientHangup \/ ServerHangup
           \/ UNCHANGED vars
    PROVE  StorageInv' /\ CountInv'
<1>1. /\ UNCHANGED tableVars /\ UNCHANGED store
      /\ workList' = workList \/ workList' = <<>>
      /\ outBuf' \in {outBuf, <<>>} /\ toServer' \in {toServer, <<>>}
      /\ toClient' \in {toClient, <<>>}
  BY DEF StartRun, ClientSignal, ServerSignal, ClientHangup, ServerHangup, ClientGone,
         vars, clientVars, tableVars, serverVars, wireVars
<1>2. QED
  BY <1>1, InvStill

\* The invariant holds before the first run.
LEMMA InvInit == Init => Inv
<1>1. SUFFICES ASSUME Init PROVE Inv
  OBVIOUS
<1>2. TypeInv
  BY <1>1, TypeInit
<1>3. StorageInv
  BY <1>1 DEF Init, StorageInv, Messages, Elements, BlockTableStored
<1>4. CountInv
  BY <1>1 DEF Init, CountInv, FliesOnce, Once, BlocksOf, Messages, Elements
<1>5. QED
  BY <1>2, <1>3, <1>4 DEF Inv

\* Every step keeps the invariant.
LEMMA InvStep == Inv /\ [Next]_vars => Inv'
<1>1. SUFFICES ASSUME Inv, [Next]_vars PROVE Inv'
  OBVIOUS
<1>2. TypeInv'
  BY <1>1, TypeStep DEF Inv
<1>3. CASE ClientStep
  BY <1>1, <1>2, <1>3, InvArchive, InvOutput, BlockAckStep, ListAckStep, BlockListStep
  DEF ClientStep, InputStep, Inv
<1>4. CASE ServerStep
  BY <1>1, <1>2, <1>4, InvServer DEF Inv
<1>5. CASE \/ StartRun \/ ClientSignal \/ ServerSignal \/ ClientHangup \/ ServerHangup
           \/ UNCHANGED vars
  BY <1>1, <1>2, <1>5, InvOther DEF Inv
<1>6. QED
  BY <1>1, <1>3, <1>4, <1>5 DEF Next, Rest

-----------------------------------------------------------------------------
(* The theorems. *)

\* The invariant holds at every moment.
LEMMA InvAlways == Spec => []Inv
<1>1. Init => Inv
  BY InvInit
<1>2. Inv /\ [Next]_vars => Inv'
  BY InvStep
<1>3. QED
  BY <1>1, <1>2, PTL DEF Spec

\* A summary on the client's disk leads, at every moment and whatever signals
\* and lost connections there were, to a block list on the server all of whose
\* blocks are there with the right bytes.
THEOREM SummariesComplete == Spec => []SummaryComplete
<1>1. Inv => SummaryComplete
  BY DEF Inv, StorageInv, SummaryComplete, Complete
<1>2. QED
  BY <1>1, InvAlways, PTL

\* A block that the client's table records is on the server.
THEOREM BlockTableTrue == Spec => []BlockTableStored
<1>1. Inv => BlockTableStored
  BY DEF Inv, StorageInv
<1>2. QED
  BY <1>1, InvAlways, PTL

\* num_blocks_moved never goes below zero during a backup, not even when ftw
\* reports a file twice and two tickets share the acks.
THEOREM CountNeverWraps == Spec => []NoWrap
<1>1. Inv => NoWrap
  <2>1. SUFFICES ASSUME Inv, NEW i \in DOMAIN workList PROVE workList[i].moved >= 0
    BY DEF NoWrap
  <2>2. workList[i] \in TicketOf(Ids) /\ CountsEnough(workList[i])
    BY <2>1 DEF Inv, TypeInv, LocalsKnown, CountInv
  <2>3. QED
    BY <2>2, CountIsNat
<1>2. QED
  BY <1>1, InvAlways, PTL

-----------------------------------------------------------------------------
(* The output handler. *)

\* Of a fill that has found nothing so far, the tickets behind the cursor have
\* nothing to send.
WakeInv ==
    /\ NoLostWakeup
    /\ pc = "fill" =>
          /\ registered /\ cursor >= 1
          /\ outBuf = <<>> => \A i \in DOMAIN workList :
                                 i < cursor => workList[i].status # "SendingBlocks"

\* The client's process has ended, or starts.
LEMMA WakeGone ==
    ASSUME outBuf' = <<>>, workList' = <<>>, pc' # "fill"
    PROVE  WakeInv'
BY DEF WakeInv, NoLostWakeup

\* A handler that puts the output handler in the loop.
LEMMA WakeRegistered ==
    ASSUME registered', pc' # "fill"
    PROVE  WakeInv'
BY DEF WakeInv, NoLostWakeup

\* The server is gone.
LEMMA WakeAlone ==
    ASSUME ~serverUp', pc' # "fill"
    PROVE  WakeInv'
BY DEF WakeInv, NoLostWakeup

\* A handler that leaves the buffer, and gives no ticket blocks to send.
LEMMA WakeQuiet ==
    ASSUME WakeInv, UNCHANGED <<registered, outBuf>>, pc' # "fill", serverUp' => serverUp,
           \A i \in DOMAIN workList' : workList'[i].status = "SendingBlocks" =>
               \E j \in DOMAIN workList : workList[j].status = "SendingBlocks"
    PROVE  WakeInv'
BY DEF WakeInv, NoLostWakeup

\* The output handler.
LEMMA WakeWrite ==
    ASSUME registered, WriteOut, pc' # "fill", UNCHANGED serverUp
    PROVE  WakeInv'
BY WakeRegistered, WakeAlone DEF WriteOut, WriteFails

LEMMA WakeOutput == TypeInv /\ WakeInv /\ OutputStep => WakeInv'
<1>1. SUFFICES ASSUME TypeInv, WakeInv, OutputStep PROVE WakeInv'
  OBVIOUS
<1>2. /\ workList \in Seq(TicketOf(Ids)) /\ cursor \in Nat
      /\ DOMAIN workList = 1 .. Len(workList) /\ Len(workList) \in Nat
  BY <1>1 DEF TypeInv, LocalsKnown, Plain
<1>3. CASE OutputBuffered
  BY <1>3, WakeWrite DEF OutputBuffered, serverVars
<1>4. CASE FillStart
  BY <1>1, <1>2, <1>4 DEF FillStart, serverVars, WakeInv, NoLostWakeup
<1>5. CASE FillBlock
  <2> DEFINE t == workList[cursor]
  <2>1. pc = "fill" /\ cursor \in DOMAIN workList /\ registered' = registered /\ cursor' = cursor
    BY <1>5 DEF FillBlock
  <2>2. t \in TicketOf(Ids) /\ t.status = "SendingBlocks"
    BY <1>2, <1>5 DEF FillBlock, SendsMore
  <2>3. PICK u : /\ workList' = [workList EXCEPT ![cursor] = u] /\ u.status = t.status
                 /\ outBuf' = <<>> => outBuf = <<>>
    <3>1. /\ [t EXCEPT !.next = t.next + 1].status = t.status
          /\ Counted([t EXCEPT !.next = t.next + 1]).status = t.status
      BY <2>2 DEF TicketOf, Counted
    <3>2. ASSUME NEW e PROVE Append(outBuf, e) # <<>>
      <4>1. outBuf \in Seq(MessageOf(Ids) \cup {e})
        BY <1>1, SeqMonotone DEF TypeInv, LocalsKnown
      <4>2. Len(Append(outBuf, e)) = Len(outBuf) + 1 /\ Len(outBuf) \in Nat
        BY <4>1
      <4>3. QED
        BY <4>2
    <3> DEFINE w == [t EXCEPT !.next = t.next + 1]
    <3>3. \/ workList' = [workList EXCEPT ![cursor] = w] /\ outBuf' = outBuf
          \/ /\ workList' = [workList EXCEPT ![cursor] = Counted(w)]
             /\ \E e : outBuf' = Append(outBuf, e)
      BY <1>5 DEF FillBlock
    <3> HIDE DEF t, w
    <3>4. w.status = t.status /\ Counted(w).status = t.status
      BY <3>1 DEF t, w
    <3>5. QED
      BY <3>2, <3>3, <3>4
  <2>4. \A i \in DOMAIN workList' : i \in DOMAIN workList /\ workList'[i].status = workList[i].status
    BY <2>1, <2>3
  <2>5. QED
    BY <1>1, <2>1, <2>3, <2>4 DEF WakeInv, NoLostWakeup
<1>6. CASE FillNext
  <2> DEFINE t == workList[cursor]
             u == [t EXCEPT !.status = "AwaitingBlockConfirms"]
             Sent == t.status = "SendingBlocks" /\ Len(outBuf) <= Desired /\ t.next >= Len(t.blocks)
  <2>1. /\ pc = "fill" /\ cursor \in DOMAIN workList /\ UNCHANGED <<registered, outBuf>>
        /\ cursor' = cursor + 1 /\ ~SendsMore(t)
    BY <1>6 DEF FillNext
  <2>2. IF Sent THEN workList' = [workList EXCEPT ![cursor] = u] ELSE UNCHANGED workList
    BY <1>6 DEF FillNext
  <2>3. t \in TicketOf(Ids) /\ u.status = "AwaitingBlockConfirms"
    <3>1. t \in TicketOf(Ids)
      BY <1>2, <2>1
    <3>2. QED
      BY <3>1 DEF TicketOf
  <2>4. DOMAIN workList' = DOMAIN workList
    BY <2>2
  <2>5. \A i \in DOMAIN workList' : i # cursor => workList'[i] = workList[i]
    BY <2>2
  <2>6. outBuf = <<>> => workList'[cursor].status # "SendingBlocks"
    <3>1. SUFFICES ASSUME outBuf = <<>> PROVE workList'[cursor].status # "SendingBlocks"
      OBVIOUS
    <3>2. Len(outBuf) < Desired /\ Len(outBuf) <= Desired
      <4>1. Len(outBuf) = 0 /\ Desired \in Nat /\ Desired # 0
        BY <3>1, ConstantsAssumption
      <4>2. QED
        BY <4>1
    <3>3. t.next \in Nat /\ Len(t.blocks) \in Nat
      <4>1. t.next \in Nat /\ t.blocks \in Seq(EntryOf(Ids))
        BY <2>3, TicketUpdates
      <4>2. QED
        BY <4>1
    <3>4. t.status # "SendingBlocks" \/ Sent
      BY <2>1, <3>2, <3>3 DEF SendsMore
    <3>5. workList'[cursor] = IF Sent THEN u ELSE t
      BY <2>1, <2>2
    <3> HIDE DEF t, u, Sent
    <3>6. QED
      BY <2>3, <3>4, <3>5
  <2>7. registered' /\ cursor' >= 1
    BY <1>1, <1>2, <2>1 DEF WakeInv
  <2>8. \A i \in DOMAIN workList' : i < cursor' /\ i # cursor => i < cursor
    BY <1>2, <2>1, <2>4
  <2>9. outBuf' = <<>> => \A i \in DOMAIN workList' : i < cursor' => workList'[i].status # "SendingBlocks"
    BY <1>1, <2>1, <2>4, <2>5, <2>6, <2>8 DEF WakeInv
  <2>10. QED
    BY <2>7, <2>9 DEF WakeInv, NoLostWakeup
<1>7. CASE FillEnd
  <2>1. pc = "fill" /\ cursor \notin DOMAIN workList
    BY <1>7 DEF FillEnd
  <2>2. registered /\ \A i \in DOMAIN workList : i < cursor
    BY <1>1, <1>2, <2>1 DEF WakeInv
  <2>3. CASE outBuf # <<>>
    BY <1>7, <2>2, <2>3, WakeWrite DEF FillEnd, serverVars
  <2>4. CASE outBuf = <<>>
    <3>1. CASE ClientGone
      BY <3>1, WakeGone DEF ClientGone
    <3>2. CASE pc' = "loop" /\ UNCHANGED <<workList, outBuf>>
      BY <1>1, <2>1, <2>2, <2>4, <3>2 DEF WakeInv, NoLostWakeup
    <3>3. QED
      BY <1>7, <2>4, <3>1, <3>2 DEF FillEnd
  <2>5. QED
    BY <2>3, <2>4
<1>8. QED
  BY <1>1, <1>3, <1>4, <1>5, <1>6, <1>7 DEF OutputStep

\* The input handler.
LEMMA WakeInput == TypeInv /\ WakeInv /\ InputStep => WakeInv'
<1> DEFINE m == Head(toClient)
<1>1. SUFFICES ASSUME TypeInv, WakeInv, InputStep PROVE WakeInv'
  OBVIOUS
<1>2. workList \in Seq(TicketOf(Ids))
  BY <1>1 DEF TypeInv, LocalsKnown
<1>server. UNCHANGED serverUp
  BY <1>1 DEF InputStep, ReceiveBlockAck, ReceiveListAck, ReceiveBlockList, serverVars
<1>3. ASSUME AssertFails PROVE WakeInv'
  BY <1>1, <1>3, <1>server, WakeQuiet DEF AssertFails
<1>4. ASSUME NEW i \in DOMAIN workList, NEW k \in DOMAIN workList[i].blocks, AckBlock(i, k, m),
             pc = "loop"
      PROVE  WakeInv'
  <2> DEFINE t == workList[i]
             u == [t EXCEPT !.blocks[k].remote = m.id, !.moved = t.moved - 1]
  <2>1. CASE WriteReg
    BY <1>4, <2>1, WakeRegistered DEF AckBlock, WriteReg
  <2>2. CASE workList' = [workList EXCEPT ![i] = u] /\ UNCHANGED <<outBuf, registered>>
    <3>1. t \in TicketOf(Ids)
      BY <1>2, <1>4
    <3>2. u.status = t.status
      BY <3>1 DEF TicketOf
    <3> HIDE DEF t, u
    <3>3. \A j \in DOMAIN workList' : j \in DOMAIN workList /\ workList'[j].status = workList[j].status
      BY <1>4, <2>2, <3>2 DEF t
    <3>4. QED
      BY <1>1, <1>4, <1>server, <2>2, <3>3, WakeQuiet DEF AckBlock
  <2>3. QED
    BY <1>4, <2>1, <2>2 DEF AckBlock
<1>5. CASE ReceiveBlockAck
  <2>1. pc = "loop" /\ AcceptBlockAck(m)
    BY <1>5 DEF ReceiveBlockAck, ClientReceives
  <2>2. CASE UNCHANGED <<pc, workList, outBuf, registered, blockTable>>
    BY <1>1, <1>server, <2>1, <2>2, WakeQuiet
  <2>3. QED
    BY <1>3, <1>4, <2>1, <2>2 DEF AcceptBlockAck
<1>6. CASE ReceiveListAck
  <2>1. pc = "loop" /\ AcceptListAck(m)
    BY <1>6 DEF ReceiveListAck, ClientReceives
  <2>2. ASSUME NEW i \in DOMAIN workList, workList' = RemoveAt(workList, i), pc' = pc,
               ByeIfDone(workList')
        PROVE  WakeInv'
    <3>1. CASE SayBye
      BY <2>1, <2>2, <3>1, WakeRegistered DEF SayBye, WriteReg
    <3>2. CASE UNCHANGED <<outBuf, closing, registered>>
      <4>1. \A j \in DOMAIN workList' : \E l \in DOMAIN workList : workList'[j] = workList[l]
        <5>1. /\ DOMAIN workList = 1 .. Len(workList) /\ Len(workList) \in Nat
              /\ DOMAIN workList' = 1 .. Len(workList) - 1
              /\ \A j \in DOMAIN workList' :
                    workList'[j] = IF j < i THEN workList[j] ELSE workList[j + 1]
          BY <1>2, <2>2, RemoveAtFacts
        <5>2. QED
          BY <5>1
      <4>2. QED
        BY <1>1, <1>server, <2>1, <2>2, <3>2, <4>1, WakeQuiet
    <3>3. QED
      BY <2>2, <3>1, <3>2 DEF ByeIfDone
  <2>3. QED
    BY <1>3, <2>1, <2>2 DEF AcceptListAck
<1>7. CASE ReceiveBlockList
  <2>1. pc = "loop" /\ AcceptBlockList(m)
    BY <1>7 DEF ReceiveBlockList, ClientReceives
  <2>2. ASSUME NEW i \in DOMAIN workList, StartArchive(i, m.obj.list), pc' = pc
        PROVE  WakeInv'
    BY <2>1, <2>2, WakeRegistered DEF StartArchive, WriteReg
  <2>3. CASE UNCHANGED <<pc, workList, outBuf, registered, blockTable, bytes>>
    BY <1>1, <1>server, <2>1, <2>3, WakeQuiet
  <2>4. QED
    BY <1>3, <2>1, <2>2, <2>3 DEF AcceptBlockList
<1>8. QED
  BY <1>1, <1>5, <1>6, <1>7 DEF InputStep

\* Every step keeps it.
LEMMA WakeStep == TypeInv /\ WakeInv /\ [Next]_vars => WakeInv'
<1>1. SUFFICES ASSUME TypeInv, WakeInv, [Next]_vars PROVE WakeInv'
  OBVIOUS
<1>2. CASE ClientGone \/ StartRun
  BY <1>2, WakeGone DEF ClientGone, StartRun
<1>3. CASE UNCHANGED clientVars /\ (serverUp' => serverUp)
  BY <1>1, <1>3 DEF clientVars, WakeInv, NoLostWakeup
<1>4. CASE ArchiveStep
  <2>1. pc' # "fill"
    BY <1>4 DEF ArchiveStep, EndScan, VisitNew, VisitChanged, VisitUnchanged, VisitUntouched,
                Report, Reported
  <2>2. registered' \/ (UNCHANGED <<registered, outBuf, workList>> /\ UNCHANGED serverUp)
    BY <1>4 DEF ArchiveStep, EndScan, ByeIfDone, SayBye, VisitNew, VisitChanged,
                VisitUnchanged, VisitUntouched, Report, WriteReg, serverVars
  <2>3. QED
    BY <1>1, <2>1, <2>2, WakeRegistered, WakeQuiet
<1>5. QED
  BY <1>1, <1>2, <1>3, <1>4, WakeOutput, WakeInput
  DEF Next, ClientStep, ServerStep, AcceptPutBlock, AcceptGetBlock, ReceiveBye, ClientSignal,
      ServerSignal, ClientHangup, ServerHangup, Rest, vars, serverVars

\* Whenever there is something to write, or a ticket with blocks to send, the
\* output handler is an event source of the client's loop, or there is no server left.
THEOREM NoWakeupLost == Spec => []NoLostWakeup
<1>1. Init => WakeInv
  BY DEF Init, WakeInv, NoLostWakeup
<1>2. Inv /\ WakeInv /\ [Next]_vars => WakeInv'
  BY WakeStep DEF Inv
<1>3. WakeInv => NoLostWakeup
  BY DEF WakeInv
<1>4. QED
  BY <1>1, <1>2, <1>3, InvAlways, PTL DEF Spec

-----------------------------------------------------------------------------
(* One visit of each file. *)

\* ftw reports no file twice: no directory of the list lies inside another.
OnceEach == \A s \in Plan : \A i, j \in DOMAIN s : s[i] = s[j] => i = j

Tickets == Elements(workList)

\* The local ids of the blocks of ticket t.
Locals(t) == {t.blocks[k].local : k \in DOMAIN t.blocks}

\* The file that packet m is about as a whole, if it is.
Asked(m) == IF m.block = 0 /\ m.cmd # "Bye" THEN {m.file} ELSE {}

FilesOf(q) == UNION {Asked(q[i]) : i \in DOMAIN q}

AskOnce(q) == \A i, j \in DOMAIN q : Asked(q[i]) = Asked(q[j]) /\ i # j => Asked(q[i]) = {}

\* At most one packet on its way is about a file as a whole.
AskedOnce == /\ AskOnce(outBuf) /\ AskOnce(toServer) /\ AskOnce(toClient)
             /\ FilesOf(outBuf) \cap FilesOf(toServer) = {}
             /\ FilesOf(outBuf) \cap FilesOf(toClient) = {}
             /\ FilesOf(toServer) \cap FilesOf(toClient) = {}

\* A file has one ticket, or is still to be visited, and then once.
FileOnce ==
    /\ \A i, j \in DOMAIN workList : workList[i].file = workList[j].file => i = j
    /\ \A i, j \in DOMAIN todo : todo[i] = todo[j] => i = j
    /\ \A t \in Tickets : \A i \in DOMAIN todo : t.file # todo[i]
    /\ scanning \/ todo = <<>>

\* Packet m is what ticket t waits for.
Accounts(t, m) ==
    /\ t.file = m.file
    /\ \/ /\ t.status = "AwaitingBlockList" /\ m.block = 0
          /\ \/ m.cmd = "GetBlock" /\ m.id = summary[t.file]
             \/ m.cmd = "GetBlockAck" /\ m.obj = store[summary[t.file]]
       \/ /\ t.status \in {"SendingBlocks", "AwaitingBlockConfirms"}
          /\ m.cmd \in {"PutBlock", "PutBlockAck"} /\ m.block # 0 /\ m.block \in Locals(t)
       \/ /\ t.status = "AwaitingBlockListConfirm" /\ m.block = 0
          /\ \/ m.cmd = "PutBlock" /\ m.obj.list = BlockList(t.blocks)
             \/ /\ m.cmd = "PutBlockAck" /\ m.id \in DOMAIN store
                /\ store[m.id].list = BlockList(t.blocks)

\* Every packet has its ticket, or is the goodbye.
Talk == \A m \in Messages : (m = Bye /\ closing) \/ \E t \in Tickets : Accounts(t, m)

\* All that ticket t lists is in the archived copy.
OnlyOld(t) == \A k \in DOMAIN t.blocks :
                 /\ summary[t.file] # 0
                 /\ \E j \in DOMAIN store[summary[t.file]].list :
                       store[summary[t.file]].list[j].remote = t.blocks[k].remote

\* What a ticket counts is on its way; the new blocks come last, so that one of
\* them is on its way when all is sent.
TicketSound(t) ==
    /\ t.moved = Cardinality(Flying \cap Locals(t))
    /\ \A k \in DOMAIN t.blocks :
          k <= t.next /\ t.blocks[k].remote = 0 => t.blocks[k].local \in Flying
    /\ t.status = "AwaitingBlockList" => t.blocks = <<>> /\ t.next = 0 /\ summary[t.file] # 0
    /\ t.status = "SendingBlocks" =>
          OnlyOld(t) \/ (t.blocks # <<>> /\ t.blocks[Len(t.blocks)].remote = 0)
    /\ Stuck(t) => OnlyOld(t)

Sound == \A t \in Tickets : TicketSound(t)

\* Only in the fill that sends its last block is a ticket sent and still sending.
SentInFill ==
    /\ \A i \in DOMAIN workList :
          /\ workList[i].status = "SendingBlocks" /\ workList[i].blocks # <<>>
          /\ workList[i].next >= Len(workList[i].blocks)
          => pc = "fill" /\ i = cursor
    /\ pc = "fill" => Len(outBuf) <= Desired

\* After the goodbye there is nothing to do and nothing more to say.
ByeSaid == closing => workList = <<>> /\ ~scanning /\ todo = <<>> /\ outBuf \in {<<>>, <<Bye>>}

Running == FileOnce /\ AskedOnce /\ Talk /\ Sound /\ SentInFill /\ ByeSaid

\* No block list is empty.
ListsFull == /\ \A i \in DOMAIN store : store[i].kind = "list" => store[i].list # <<>>
             /\ \A m \in Messages : m.obj.kind = "list" => m.obj.list # <<>>

VisitInv == /\ ListsFull
            /\ pc # "aborted"
            /\ IF pc = "down" THEN workList = <<>> /\ ~closing ELSE Running

-----------------------------------------------------------------------------
(* The packets about whole files. *)

\* A packet appended to a queue.
LEMMA AppendAsks ==
    ASSUME NEW S, NEW q \in Seq(S), NEW m \in S
    PROVE  /\ FilesOf(Append(q, m)) = FilesOf(q) \cup Asked(m)
           /\ AskOnce(q) /\ Asked(m) \cap FilesOf(q) = {} => AskOnce(Append(q, m))
<1>1. /\ DOMAIN Append(q, m) = 1 .. Len(q) + 1 /\ DOMAIN q = 1 .. Len(q) /\ Len(q) \in Nat
      /\ \A i \in DOMAIN q : Append(q, m)[i] = q[i]
      /\ Append(q, m)[Len(q) + 1] = m
  BY AppendFacts
<1>2. \A i \in DOMAIN Append(q, m) : i \in DOMAIN q \/ i = Len(q) + 1
  BY <1>1
<1>3. \A i \in DOMAIN q : i \in DOMAIN Append(q, m)
  BY <1>1
<1>4. Len(q) + 1 \in DOMAIN Append(q, m)
  BY <1>1
<1>5. FilesOf(Append(q, m)) = FilesOf(q) \cup Asked(m)
  <2>1. ASSUME NEW x \in FilesOf(Append(q, m)) PROVE x \in FilesOf(q) \cup Asked(m)
    BY <1>1, <1>2 DEF FilesOf
  <2>2. ASSUME NEW x \in FilesOf(q) \cup Asked(m) PROVE x \in FilesOf(Append(q, m))
    BY <1>1, <1>3, <1>4 DEF FilesOf
  <2>3. QED
    BY <2>1, <2>2
<1>6. ASSUME AskOnce(q), Asked(m) \cap FilesOf(q) = {} PROVE AskOnce(Append(q, m))
  <2>1. SUFFICES ASSUME NEW i \in DOMAIN Append(q, m), NEW j \in DOMAIN Append(q, m), i # j,
                        Asked(Append(q, m)[i]) = Asked(Append(q, m)[j])
                 PROVE  Asked(Append(q, m)[i]) = {}
    BY DEF AskOnce
  <2>2. \A k \in DOMAIN q : Asked(q[k]) \subseteq FilesOf(q)
    BY DEF FilesOf
  <2>3. QED
    BY <1>1, <1>2, <1>6, <2>1, <2>2 DEF AskOnce
<1>7. QED
  BY <1>5, <1>6

\* The packet taken from a queue.
LEMMA TailAsks ==
    ASSUME NEW S, NEW q \in Seq(S), q # <<>>
    PROVE  /\ Elements(q) = Elements(Tail(q)) \cup {Head(q)}
           /\ FilesOf(q) = FilesOf(Tail(q)) \cup Asked(Head(q))
           /\ AskOnce(q) => /\ AskOnce(Tail(q))
                            /\ Asked(Head(q)) \cap FilesOf(Tail(q)) = {}
<1>1. /\ DOMAIN q = 1 .. Len(q) /\ Len(q) \in Nat /\ Len(q) >= 1 /\ Head(q) = q[1] /\ 1 \in DOMAIN q
      /\ DOMAIN Tail(q) = 1 .. Len(q) - 1
      /\ \A i \in DOMAIN Tail(q) : i + 1 \in DOMAIN q /\ i + 1 # 1 /\ Tail(q)[i] = q[i + 1]
  BY TailFacts
<1>2. \A i \in DOMAIN q : i # 1 => i - 1 \in DOMAIN Tail(q) /\ Tail(q)[i - 1] = q[i]
  <2>1. ASSUME NEW i \in DOMAIN q, i # 1
        PROVE  i - 1 \in DOMAIN Tail(q) /\ Tail(q)[i - 1] = q[i]
    <3>1. i \in Int /\ i - 1 \in 1 .. Len(q) - 1 /\ (i - 1) + 1 = i
      BY <1>1, <2>1
    <3>2. QED
      BY <1>1, <3>1
  <2>2. QED
    BY <2>1
<1>3. Elements(q) = Elements(Tail(q)) \cup {Head(q)}
  <2>1. ASSUME NEW x \in Elements(q) PROVE x \in Elements(Tail(q)) \cup {Head(q)}
    <3>1. PICK i \in DOMAIN q : x = q[i]
      BY DEF Elements
    <3>2. i # 1 => x = Tail(q)[i - 1] /\ i - 1 \in DOMAIN Tail(q)
      BY <1>2, <3>1
    <3>3. QED
      BY <1>1, <3>1, <3>2 DEF Elements
  <2>2. ASSUME NEW x \in Elements(Tail(q)) \cup {Head(q)} PROVE x \in Elements(q)
    BY TailFacts
  <2>3. QED
    BY <2>1, <2>2
<1>4. FilesOf(q) = FilesOf(Tail(q)) \cup Asked(Head(q))
  <2>1. ASSUME NEW x \in FilesOf(q) PROVE x \in FilesOf(Tail(q)) \cup Asked(Head(q))
    BY <1>1, <1>2 DEF FilesOf
  <2>2. ASSUME NEW x \in FilesOf(Tail(q)) \cup Asked(Head(q)) PROVE x \in FilesOf(q)
    BY <1>1 DEF FilesOf
  <2>3. QED
    BY <2>1, <2>2
<1>5. ASSUME AskOnce(q) PROVE AskOnce(Tail(q))
  <2>1. SUFFICES ASSUME NEW i \in DOMAIN Tail(q), NEW j \in DOMAIN Tail(q), i # j,
                        Asked(Tail(q)[i]) = Asked(Tail(q)[j])
                 PROVE  Asked(Tail(q)[i]) = {}
    BY DEF AskOnce
  <2>2. i + 1 \in DOMAIN q /\ j + 1 \in DOMAIN q /\ i + 1 # j + 1
    BY <1>1, <2>1
  <2>3. QED
    BY <1>1, <1>5, <2>1, <2>2 DEF AskOnce
<1>6. ASSUME AskOnce(q) PROVE Asked(Head(q)) \cap FilesOf(Tail(q)) = {}
  <2>1. SUFFICES ASSUME NEW i \in DOMAIN Tail(q), NEW x \in Asked(Head(q)), x \in Asked(Tail(q)[i])
                 PROVE  FALSE
    BY DEF FilesOf
  <2>2. Asked(q[1]) = {x} /\ Asked(q[i + 1]) = {x}
    BY <1>1, <2>1 DEF Asked
  <2>3. 1 \in DOMAIN q /\ i + 1 \in DOMAIN q /\ i + 1 # 1
    BY <1>1
  <2>4. Asked(q[1]) = {}
    BY <1>6, <2>2, <2>3 DEF AskOnce
  <2>5. QED
    BY <2>2, <2>4
<1>7. QED
  BY <1>3, <1>4, <1>5, <1>6

\* What is on its way is what the packets are about.
LEMMA FlyingIsOfMessages ==
    /\ Flying = {m.block : m \in Messages} \ {0}
    /\ Flying' = {m.block : m \in Messages'} \ {0}
BY DEF Flying, BlocksOf, Messages, Elements

\* A packet from the buffer to the pipe.
LEMMA WriteTalk ==
    ASSUME Inv, AskedOnce, WritePacket, outBuf # <<>>, UNCHANGED toClient
    PROVE  Messages' = Messages /\ Flying' = Flying /\ AskedOnce'
<1> DEFINE m == Head(outBuf)
<1>1. /\ outBuf \in Seq(MessageOf(Ids)) /\ toServer \in Seq(MessageOf(Ids)) /\ m \in MessageOf(Ids)
      /\ outBuf' = Tail(outBuf) /\ toServer' = Append(toServer, m)
  <2>1. outBuf \in Seq(MessageOf(Ids)) /\ toServer \in Seq(MessageOf(Ids))
    BY QueueTypes DEF Inv
  <2>2. m \in MessageOf(Ids)
    BY <2>1, TailFacts
  <2>3. QED
    BY <2>1, <2>2 DEF WritePacket
<1>2. /\ Elements(outBuf) = Elements(outBuf') \cup {m} /\ FilesOf(outBuf) = FilesOf(outBuf') \cup Asked(m)
      /\ AskOnce(outBuf)' /\ Asked(m) \cap FilesOf(outBuf') = {}
  BY <1>1, TailAsks DEF AskedOnce
<1>3. /\ Elements(toServer') = Elements(toServer) \cup {m}
      /\ FilesOf(toServer') = FilesOf(toServer) \cup Asked(m)
  BY <1>1, AppendFacts, AppendAsks
<1>4. Asked(m) \cap FilesOf(toServer) = {} /\ Asked(m) \cap FilesOf(toClient) = {}
  BY <1>2 DEF AskedOnce
<1>5. AskOnce(toServer)'
  BY <1>1, <1>4, AppendAsks DEF AskedOnce
<1>6. Messages' = Messages
  BY <1>2, <1>3 DEF Messages
<1>7. AskedOnce'
  BY <1>2, <1>3, <1>4, <1>5 DEF AskedOnce
<1>8. QED
  BY <1>6, <1>7, FlyingIsOfMessages

\* The client reads a packet.
LEMMA ReadTalk ==
    ASSUME Inv, AskedOnce, toClient # <<>>
    PROVE  LET m == Head(toClient)
               q == Tail(toClient)
           IN  /\ Elements(toClient) = Elements(q) \cup {m}
               /\ FilesOf(toClient) = FilesOf(q) \cup Asked(m)
               /\ BlocksOf(q) = BlocksOf(toClient) \ {m.block}
               /\ m.block \in BlocksOf(toClient) \cup {0}
               /\ m.block \notin BlocksOf(outBuf) \cup BlocksOf(toServer)
               /\ AskOnce(q)
               /\ Asked(m) \cap (FilesOf(outBuf) \cup FilesOf(toServer) \cup FilesOf(q)) = {}
<1> DEFINE m == Head(toClient)
           q == Tail(toClient)
<1>1. toClient \in Seq(MessageOf(Ids)) /\ FliesOnce
  BY QueueTypes DEF Inv, CountInv
<1>2. /\ Elements(toClient) = Elements(q) \cup {m} /\ FilesOf(toClient) = FilesOf(q) \cup Asked(m)
      /\ AskOnce(q) /\ Asked(m) \cap FilesOf(q) = {}
  BY <1>1, TailAsks DEF AskedOnce
<1>3. /\ BlocksOf(q) = BlocksOf(toClient) \ {m.block}
      /\ m.block \in BlocksOf(toClient) \cup {0}
  BY <1>1, TailBlocks DEF FliesOnce
<1>4. m.block \notin BlocksOf(outBuf) \cup BlocksOf(toServer)
  BY <1>1, <1>3 DEF FliesOnce, BlocksOf
<1>5. Asked(m) \cap (FilesOf(outBuf) \cup FilesOf(toServer) \cup FilesOf(q)) = {}
  BY <1>2 DEF AskedOnce
<1>6. QED
  BY <1>2, <1>3, <1>4, <1>5

\* A handler has read a packet, or none, and sends one, or none.
LEMMA TalkQueues ==
    ASSUME Inv, AskedOnce, UNCHANGED toServer, Ids \subseteq Ids',
           NEW R, NEW W \in SUBSET MessageOf(Ids'),
           \/ R = {} /\ toClient' = toClient
           \/ toClient # <<>> /\ R = {Head(toClient)} /\ toClient' = Tail(toClient),
           \/ W = {} /\ outBuf' = outBuf
           \/ \E m : W = {m} /\ outBuf' = Append(outBuf, m),
           \A m \in W : Asked(m) \cap (FilesOf(outBuf) \cup FilesOf(toServer) \cup FilesOf(toClient')) = {}
    PROVE  /\ Messages' \cup R = Messages \cup W
           /\ Messages' \subseteq Messages \cup W
           /\ Flying' = (Flying \ {m.block : m \in R}) \cup ({m.block : m \in W} \ {0})
           /\ AskedOnce'
           /\ \A m \in R, x \in Messages' : Asked(x) \cap Asked(m) # {} => x \in W
<1>1. outBuf \in Seq(MessageOf(Ids')) /\ toClient \in Seq(MessageOf(Ids))
  BY QueueTypes, TypesMonotone DEF Inv
<1>2. /\ Elements(outBuf') = Elements(outBuf) \cup W
      /\ FilesOf(outBuf') = FilesOf(outBuf) \cup UNION {Asked(m) : m \in W}
      /\ BlocksOf(outBuf') = BlocksOf(outBuf) \cup ({m.block : m \in W} \ {0})
      /\ AskOnce(outBuf)'
  <2>1. CASE W = {} /\ outBuf' = outBuf
    BY <2>1 DEF AskedOnce
  <2>2. CASE \E m : W = {m} /\ outBuf' = Append(outBuf, m)
    <3>1. PICK m \in MessageOf(Ids') : W = {m} /\ outBuf' = Append(outBuf, m)
      BY <2>2
    <3>2. Asked(m) \cap FilesOf(outBuf) = {} /\ AskOnce(outBuf)
      BY <3>1 DEF AskedOnce
    <3>3. /\ Elements(outBuf') = Elements(outBuf) \cup {m}
          /\ FilesOf(outBuf') = FilesOf(outBuf) \cup Asked(m)
          /\ BlocksOf(outBuf') = BlocksOf(outBuf) \cup ({m.block} \ {0})
          /\ AskOnce(outBuf)'
      BY <1>1, <3>1, <3>2, AppendFacts, AppendAsks, AppendBlocks
    <3>4. QED
      BY <3>1, <3>3
  <2>3. QED
    BY <2>1, <2>2
<1>3. /\ Elements(toClient) = Elements(toClient') \cup R
      /\ FilesOf(toClient') \subseteq FilesOf(toClient)
      /\ BlocksOf(toClient') = BlocksOf(toClient) \ {m.block : m \in R}
      /\ \A m \in R : m.block \notin BlocksOf(outBuf) \cup BlocksOf(toServer)
      /\ AskOnce(toClient)'
      /\ \A m \in R : Asked(m) \cap (FilesOf(outBuf) \cup FilesOf(toServer) \cup FilesOf(toClient')) = {}
  <2>1. CASE R = {} /\ toClient' = toClient
    BY <2>1 DEF AskedOnce
  <2>2. CASE toClient # <<>> /\ R = {Head(toClient)} /\ toClient' = Tail(toClient)
    BY <2>2, ReadTalk
  <2>3. QED
    BY <2>1, <2>2
<1>4. Messages' \cup R = Messages \cup W /\ Messages' \subseteq Messages \cup W
  BY <1>2, <1>3 DEF Messages
<1>5. Flying' = (Flying \ {m.block : m \in R}) \cup ({m.block : m \in W} \ {0})
  BY <1>2, <1>3 DEF Flying
<1>6. AskedOnce'
  BY <1>2, <1>3 DEF AskedOnce
<1>7. ASSUME NEW m \in R, NEW x \in Messages', Asked(x) \cap Asked(m) # {}, x \notin W
      PROVE  FALSE
  <2>1. x \in Elements(outBuf) \cup Elements(toServer) \cup Elements(toClient')
    BY <1>2, <1>7 DEF Messages
  <2>2. Asked(x) \subseteq FilesOf(outBuf) \cup FilesOf(toServer) \cup FilesOf(toClient')
    BY <2>1 DEF Elements, FilesOf
  <2>3. QED
    BY <1>3, <1>7, <2>2
<1>8. QED
  BY <1>4, <1>5, <1>6, <1>7

\* A handler has read a packet, and sends none.
LEMMA ReadsOnly ==
    ASSUME Inv, AskedOnce, UNCHANGED toServer, Ids \subseteq Ids', UNCHANGED outBuf,
           toClient # <<>>, toClient' = Tail(toClient)
    PROVE  /\ Messages' \subseteq Messages
           /\ Flying' = Flying \ {Head(toClient).block}
           /\ AskedOnce'
           /\ \A x \in Messages' : Asked(x) \cap Asked(Head(toClient)) = {}
<1>1. PICK m : m = Head(toClient)
  OBVIOUS
<1>2. PICK W : W = {}
  OBVIOUS
<1>3. PICK R : R = {m}
  OBVIOUS
<1>4. /\ W \in SUBSET MessageOf(Ids')
      /\ (W = {} /\ outBuf' = outBuf) \/ (\E x : W = {x} /\ outBuf' = Append(outBuf, x))
      /\ \A x \in W : Asked(x) \cap (FilesOf(outBuf) \cup FilesOf(toServer) \cup FilesOf(toClient')) = {}
      /\ \/ R = {} /\ toClient' = toClient
         \/ toClient # <<>> /\ R = {Head(toClient)} /\ toClient' = Tail(toClient)
  BY <1>1, <1>2, <1>3
<1>5. /\ Messages' \subseteq Messages \cup W
      /\ Flying' = (Flying \ {x.block : x \in R}) \cup ({x.block : x \in W} \ {0})
      /\ AskedOnce'
      /\ \A y \in R, x \in Messages' : Asked(x) \cap Asked(y) # {} => x \in W
  BY <1>4, TalkQueues
<1>6. {x.block : x \in R} = {m.block} /\ {x.block : x \in W} = {}
  BY <1>2, <1>3
<1>7. QED
  BY <1>1, <1>2, <1>3, <1>5, <1>6

\* A handler that has read nothing sends a packet, or none.
LEMMA SendTalk ==
    ASSUME Inv, AskedOnce, UNCHANGED <<toServer, toClient>>, Ids \subseteq Ids',
           NEW W \in SUBSET MessageOf(Ids'),
           \/ W = {} /\ outBuf' = outBuf
           \/ \E m : W = {m} /\ outBuf' = Append(outBuf, m),
           \A m \in W : Asked(m) \cap (FilesOf(outBuf) \cup FilesOf(toServer) \cup FilesOf(toClient)) = {}
    PROVE  /\ Messages' = Messages \cup W
           /\ Flying' = Flying \cup ({m.block : m \in W} \ {0})
           /\ AskedOnce'
<1> DEFINE R == {}
<1>1. R = {} /\ toClient' = toClient
  OBVIOUS
<1>2. {m.block : m \in R} = {}
  OBVIOUS
<1> HIDE DEF R
<1>3. \A m \in W : Asked(m) \cap (FilesOf(outBuf) \cup FilesOf(toServer) \cup FilesOf(toClient')) = {}
  BY <1>1
<1>4. /\ Messages' \cup R = Messages \cup W
      /\ Flying' = (Flying \ {m.block : m \in R}) \cup ({m.block : m \in W} \ {0})
      /\ AskedOnce'
  BY <1>1, <1>3, TalkQueues
<1>5. QED
  BY <1>1, <1>2, <1>4

\* The server takes a packet, and answers for the same block or file.
LEMMA AnswerTalk ==
    ASSUME Inv, AskedOnce, toServer # <<>>, toServer' = Tail(toServer), UNCHANGED outBuf,
           NEW m \in MessageOf(Ids),
           \/ toClient' = Append(toClient, m) /\ m.block = Head(toServer).block
           \/ toClient' = toClient /\ Head(toServer).block = 0,
           Asked(m) \subseteq Asked(Head(toServer))
    PROVE  /\ Messages' \subseteq Messages \cup {m}
           /\ Flying' = Flying
           /\ AskedOnce'
<1> DEFINE h == Head(toServer)
<1>1. toServer \in Seq(MessageOf(Ids)) /\ toClient \in Seq(MessageOf(Ids)) /\ FliesOnce
  BY QueueTypes DEF Inv, CountInv
<1>2. /\ Elements(toServer) = Elements(toServer') \cup {h}
      /\ FilesOf(toServer) = FilesOf(toServer') \cup Asked(h)
      /\ AskOnce(toServer)' /\ Asked(h) \cap FilesOf(toServer') = {}
  BY <1>1, TailAsks DEF AskedOnce
<1>3. BlocksOf(toServer') = BlocksOf(toServer) \ {h.block} /\ h.block \in BlocksOf(toServer) \cup {0}
  BY <1>1, TailBlocks DEF FliesOnce
<1>4. Asked(m) \cap FilesOf(toClient) = {} /\ Asked(m) \cap FilesOf(outBuf) = {}
  BY <1>2 DEF AskedOnce
<1>5. /\ Elements(toClient') \subseteq Elements(toClient) \cup {m}
      /\ FilesOf(toClient') \subseteq FilesOf(toClient) \cup Asked(m)
      /\ BlocksOf(toClient') = BlocksOf(toClient) \cup ({h.block} \ {0})
      /\ AskOnce(toClient)'
  <2>1. CASE toClient' = toClient /\ h.block = 0
    BY <2>1 DEF AskedOnce
  <2>2. CASE toClient' = Append(toClient, m) /\ m.block = h.block
    <3>1. AskOnce(toClient) /\ Asked(m) \cap FilesOf(toClient) = {}
      BY <1>4 DEF AskedOnce
    <3>2. QED
      BY <1>1, <2>2, <3>1, AppendFacts, AppendAsks, AppendBlocks
  <2>3. QED
    BY <2>1, <2>2
<1>6. Messages' \subseteq Messages \cup {m}
  BY <1>2, <1>5 DEF Messages
<1>7. Flying' = Flying
  <2>1. 0 \notin BlocksOf(toServer)
    BY DEF BlocksOf
  <2>2. QED
    BY <1>3, <1>5, <2>1 DEF Flying
<1>8. AskedOnce'
  BY <1>2, <1>4, <1>5 DEF AskedOnce
<1>9. QED
  BY <1>6, <1>7, <1>8

-----------------------------------------------------------------------------
(* The tickets. *)

\* A ticket joins the work list, changes in its place, or leaves.
LEMMA TicketsJoin ==
    ASSUME Inv, NEW u \in TicketOf(Ids'), Ids \subseteq Ids', workList' = Append(workList, u)
    PROVE  Tickets' = Tickets \cup {u}
<1>1. workList \in Seq(TicketOf(Ids'))
  BY TypesMonotone DEF Inv, TypeInv, LocalsKnown
<1>2. QED
  BY <1>1, AppendFacts DEF Tickets

LEMMA TicketsChange ==
    ASSUME FileOnce, NEW i0 \in DOMAIN workList, NEW u, workList' = [workList EXCEPT ![i0] = u]
    PROVE  /\ Tickets' = (Tickets \ {workList[i0]}) \cup {u}
           /\ DOMAIN workList' = DOMAIN workList
           /\ workList'[i0] = u
           /\ \A i \in DOMAIN workList : i # i0 => workList'[i] = workList[i]
<1>1. /\ DOMAIN workList' = DOMAIN workList /\ workList'[i0] = u
      /\ \A i \in DOMAIN workList : i # i0 => workList'[i] = workList[i]
  OBVIOUS
<1>2. \A i \in DOMAIN workList : workList[i] = workList[i0] => i = i0
  BY DEF FileOnce
<1>3. ASSUME NEW t \in Tickets' PROVE t \in (Tickets \ {workList[i0]}) \cup {u}
  BY <1>1, <1>2 DEF Tickets, Elements
<1>4. ASSUME NEW t \in (Tickets \ {workList[i0]}) \cup {u} PROVE t \in Tickets'
  BY <1>1 DEF Tickets, Elements
<1>5. QED
  BY <1>1, <1>3, <1>4

LEMMA TicketsLeave ==
    ASSUME Inv, FileOnce, NEW i0 \in DOMAIN workList, workList' = RemoveAt(workList, i0)
    PROVE  /\ Tickets' = Tickets \ {workList[i0]}
           /\ \A i, j \in DOMAIN workList' : workList'[i].file = workList'[j].file => i = j
<1> DEFINE h == [i \in DOMAIN workList' |-> IF i < i0 THEN i ELSE i + 1]
<1>1. /\ DOMAIN workList = 1 .. Len(workList) /\ Len(workList) \in Nat
      /\ DOMAIN workList' = 1 .. Len(workList) - 1
      /\ \A j \in DOMAIN workList' : workList'[j] = IF j < i0 THEN workList[j] ELSE workList[j + 1]
  BY RemoveAtFacts DEF Inv, TypeInv, LocalsKnown
<1>2. \A i \in DOMAIN workList' : h[i] \in DOMAIN workList /\ h[i] # i0 /\ workList'[i] = workList[h[i]]
  BY <1>1
<1>3. \A i, j \in DOMAIN workList' : h[i] = h[j] => i = j
  BY <1>1
<1>4. \A i \in DOMAIN workList : i # i0 => \E j \in DOMAIN workList' : workList'[j] = workList[i]
  <2>1. ASSUME NEW i \in DOMAIN workList, i # i0
        PROVE  \E j \in DOMAIN workList' : workList'[j] = workList[i]
    <3>1. CASE i < i0
      BY <1>1, <3>1
    <3>2. CASE i > i0
      <4>1. i - 1 \in DOMAIN workList' /\ ~(i - 1 < i0) /\ (i - 1) + 1 = i
        BY <1>1, <3>2
      <4>2. QED
        BY <1>1, <4>1
    <3>3. QED
      BY <1>1, <2>1, <3>1, <3>2
  <2>2. QED
    BY <2>1
<1> HIDE DEF h
<1>5. \A i \in DOMAIN workList : workList[i] = workList[i0] => i = i0
  BY DEF FileOnce
<1>6. ASSUME NEW t \in Tickets' PROVE t \in Tickets \ {workList[i0]}
  BY <1>2, <1>5 DEF Tickets, Elements
<1>7. ASSUME NEW t \in Tickets \ {workList[i0]} PROVE t \in Tickets'
  BY <1>4 DEF Tickets, Elements
<1>8. \A i, j \in DOMAIN workList' : workList'[i].file = workList'[j].file => i = j
  BY <1>2, <1>3 DEF FileOnce
<1>9. QED
  BY <1>6, <1>7, <1>8

\* The types of a ticket; an entry whose block is not stored is in no other.
LEMMA TicketFacts ==
    ASSUME Inv, NEW t \in Tickets
    PROVE  /\ t \in TicketOf(Ids) /\ t.file \in File /\ t.status \in Status
           /\ t.blocks \in Seq(EntryOf(Ids)) /\ t.next \in Nat /\ t.moved \in Int
           /\ DOMAIN t.blocks = 1 .. Len(t.blocks) /\ Len(t.blocks) \in Nat
           /\ Locals(t) \subseteq Ids
           /\ \A u \in Tickets : t.file # u.file =>
                 \A k \in DOMAIN t.blocks : t.blocks[k].remote = 0 => t.blocks[k].local \notin Locals(u)
<1>1. t \in TicketOf(Ids)
  BY DEF Inv, TypeInv, LocalsKnown, Tickets, Elements
<1>2. /\ t.file \in File /\ t.status \in Status
      /\ t.blocks \in Seq(EntryOf(Ids)) /\ t.next \in Nat /\ t.moved \in Int
  BY <1>1, TicketUpdates
<1>3. DOMAIN t.blocks = 1 .. Len(t.blocks) /\ Len(t.blocks) \in Nat
  BY <1>2
<1>4. Locals(t) \subseteq Ids
  <2>1. \A k \in DOMAIN t.blocks : t.blocks[k] \in EntryOf(Ids)
    BY <1>2
  <2>2. QED
    BY <2>1 DEF Locals, EntryOf
<1>5. ASSUME NEW u \in Tickets, t.file # u.file, NEW k \in DOMAIN t.blocks, t.blocks[k].remote = 0,
             t.blocks[k].local \in Locals(u)
      PROVE  FALSE
  <2>1. PICK i \in DOMAIN workList, j \in DOMAIN workList : t = workList[i] /\ u = workList[j]
    BY DEF Tickets, Elements
  <2>2. PICK l \in DOMAIN u.blocks : u.blocks[l].local = t.blocks[k].local
    BY <1>5 DEF Locals
  <2>3. i = j
    BY <1>5, <2>1, <2>2 DEF Inv, CountInv
  <2>4. QED
    BY <1>5, <2>1, <2>3
<1>6. QED
  BY <1>1, <1>2, <1>3, <1>4, <1>5

\* A ticket that a step leaves alone stays sound, and accounts for what it did.
LEMMA TicketStays ==
    ASSUME Inv, Grown, NEW t \in Tickets, TicketSound(t), summary'[t.file] = summary[t.file],
           Flying' \cap Locals(t) = Flying \cap Locals(t)
    PROVE  TicketSound(t)' /\ \A m : Accounts(t, m) => Accounts(t, m)'
<1>1. t.file \in File
  BY TicketFacts
<1>2. summary[t.file] # 0 => /\ summary[t.file] \in DOMAIN store
                             /\ store'[summary'[t.file]] = store[summary[t.file]]
  BY <1>1 DEF Inv, StorageInv, Grown
<1>3. OnlyOld(t) => OnlyOld(t)'
  BY <1>2 DEF OnlyOld
<1>4. \A k \in DOMAIN t.blocks : t.blocks[k].local \in Flying => t.blocks[k].local \in Flying'
  BY DEF Locals
<1>5. Locals(t)' = Locals(t)
  BY DEF Locals
<1>6. TicketSound(t)'
  BY <1>3, <1>4, <1>5 DEF TicketSound, Stuck
<1>7. ASSUME NEW m, Accounts(t, m) PROVE Accounts(t, m)'
  <2>1. CASE t.status = "AwaitingBlockList"
    <3>1. summary[t.file] # 0
      BY <2>1 DEF TicketSound
    <3>2. QED
      BY <1>2, <1>7, <2>1, <3>1 DEF Accounts
  <2>2. CASE t.status \in {"SendingBlocks", "AwaitingBlockConfirms"}
    BY <1>5, <1>7, <2>2 DEF Accounts
  <2>3. CASE t.status = "AwaitingBlockListConfirm"
    BY <1>7, <2>3 DEF Accounts, Grown
  <2>4. QED
    BY <1>7, <2>1, <2>2, <2>3 DEF Accounts
<1>8. QED
  BY <1>6, <1>7

\* A step that leaves every ticket alone, and puts something on the wire only for
\* a ticket.
LEMMA TalkStays ==
    ASSUME Inv, Talk, Sound, Grown, UNCHANGED workList, UNCHANGED summary, Flying' = Flying,
           closing => closing',
           \A m \in Messages' : \/ m \in Messages
                                \/ m = Bye /\ closing'
                                \/ \E t \in Tickets : Accounts(t, m)'
    PROVE  Talk' /\ Sound'
<1>1. Tickets' = Tickets
  BY DEF Tickets
<1>2. \A t \in Tickets : TicketSound(t)' /\ \A m : Accounts(t, m) => Accounts(t, m)'
  BY TicketStays DEF Sound
<1>3. Sound'
  BY <1>1, <1>2 DEF Sound
<1>4. Talk'
  BY <1>1, <1>2 DEF Talk
<1>5. QED
  BY <1>3, <1>4

\* A step that stores nothing and sends no list.
LEMMA ListsStay ==
    ASSUME ListsFull, UNCHANGED store,
           \A m \in Messages' : m \in Messages \/ m.obj.kind # "list"
    PROVE  ListsFull'
BY DEF ListsFull

\* A ticket that is sent has no fill to wait for but its own.
LEMMA SentStays ==
    ASSUME SentInFill, UNCHANGED workList, pc # "fill" \/ cursor \notin DOMAIN workList,
           pc' = "fill" => Len(outBuf') <= Desired
    PROVE  SentInFill'
BY DEF SentInFill

-----------------------------------------------------------------------------
(* The steps of a run that change no ticket. *)

\* Nothing has been said before the first run.
LEMMA VisitInit == Init => VisitInv
BY DEF Init, VisitInv, ListsFull, Messages, Elements

\* The client's process ends.
LEMMA VisitGone ==
    ASSUME Inv, VisitInv, ClientGone, toServer' \in {toServer}, UNCHANGED toClient, UNCHANGED store
    PROVE  VisitInv'
<1>1. Messages' \subseteq Messages
  BY StillQueues DEF ClientGone
<1>2. ListsFull'
  BY <1>1, ListsStay DEF VisitInv
<1>3. QED
  BY <1>2 DEF VisitInv, ClientGone

\* A run starts.
LEMMA VisitStart ==
    ASSUME OnceEach, VisitInv, StartRun
    PROVE  VisitInv'
<1>1. /\ pc' = "loop" /\ workList' = <<>> /\ outBuf' = <<>> /\ toServer' = <<>> /\ toClient' = <<>>
      /\ todo' \in Plan /\ scanning' = TRUE /\ closing' = FALSE /\ UNCHANGED store
  BY DEF StartRun
<1>2. Messages' = {} /\ Tickets' = {} /\ DOMAIN workList' = {}
  BY <1>1 DEF Messages, Elements, Tickets
<1>3. ListsFull'
  BY <1>1, <1>2 DEF VisitInv, ListsFull
<1>4. FileOnce'
  BY <1>1, <1>2 DEF FileOnce, OnceEach
<1>5. AskedOnce'
  BY <1>1 DEF AskedOnce, AskOnce, FilesOf
<1>6. Talk' /\ Sound' /\ SentInFill' /\ ByeSaid'
  BY <1>1, <1>2 DEF Talk, Sound, SentInFill, ByeSaid
<1>7. QED
  BY <1>1, <1>3, <1>4, <1>5, <1>6 DEF VisitInv, Running

\* A packet is written, or the write fails.
LEMMA VisitWrite ==
    ASSUME Inv, VisitInv, pc \in {"loop", "fill"}, pc = "fill" => cursor \notin DOMAIN workList,
           outBuf # <<>>, WriteOut, pc' = "loop",
           UNCHANGED <<scanning, todo, workList, cursor, closing, toClient, summary, bytes, store>>
    PROVE  VisitInv'
<1>1. Running /\ ListsFull
  BY DEF VisitInv
<1>2. Messages' = Messages /\ Flying' = Flying /\ AskedOnce'
  <2>1. CASE WritePacket
    BY <1>1, <2>1, WriteTalk DEF Running
  <2>2. CASE WriteFails
    BY <1>1, <2>2 DEF WriteFails, Running, Messages, Flying, AskedOnce
  <2>3. QED
    BY <2>1, <2>2 DEF WriteOut
<1>3. Grown
  BY DEF Grown
<1>4. Talk' /\ Sound'
  BY <1>1, <1>2, <1>3, TalkStays DEF Running
<1>5. ListsFull'
  BY <1>1, <1>2, ListsStay
<1>6. FileOnce'
  BY <1>1 DEF Running, FileOnce, Tickets
<1>7. SentInFill'
  BY <1>1, SentStays DEF Running
<1>8. ByeSaid'
  <2>1. Tail(<<Bye>>) = <<>>
    OBVIOUS
  <2>2. QED
    BY <1>1, <2>1 DEF Running, ByeSaid, WriteOut, WritePacket, WriteFails
<1>9. QED
  BY <1>2, <1>4, <1>5, <1>6, <1>7, <1>8 DEF VisitInv, Running

\* The output handler starts a fill, or ends one that has found nothing.
LEMMA VisitFill ==
    ASSUME Inv, VisitInv, pc \in {"loop", "fill"}, pc = "fill" => cursor \notin DOMAIN workList,
           outBuf = <<>>, pc' \in {"loop", "fill"},
           UNCHANGED <<outBuf, toServer, toClient>>,
           UNCHANGED <<scanning, todo, workList, closing, summary, bytes, store>>
    PROVE  VisitInv'
<1>1. Running /\ ListsFull
  BY DEF VisitInv
<1>2. Messages' = Messages /\ Flying' = Flying /\ AskedOnce'
  BY <1>1 DEF Messages, Flying, AskedOnce, Running
<1>3. Grown
  BY DEF Grown
<1>4. Talk' /\ Sound'
  BY <1>1, <1>2, <1>3, TalkStays DEF Running
<1>5. ListsFull'
  BY <1>1, <1>2, ListsStay
<1>6. FileOnce' /\ ByeSaid'
  BY <1>1 DEF Running, FileOnce, Tickets, ByeSaid
<1>7. SentInFill'
  <2>1. Len(outBuf') <= Desired
    <3>1. Len(outBuf') = 0 /\ Desired \in Nat
      BY ConstantsAssumption
    <3>2. QED
      BY <3>1
  <2>2. QED
    BY <1>1, <2>1, SentStays DEF Running
<1>8. QED
  BY <1>2, <1>4, <1>5, <1>6, <1>7 DEF VisitInv, Running

\* The scan is over: with no ticket there is no packet, and the goodbye is all
\* there is to say.
LEMMA VisitEnd ==
    ASSUME Inv, VisitInv, EndScan
    PROVE  VisitInv'
<1>1. /\ pc = "loop" /\ pc' = "loop" /\ scanning /\ scanning' = FALSE /\ todo = <<>> /\ todo' = todo
      /\ ByeIfDone(workList) /\ UNCHANGED workList /\ UNCHANGED cursor
      /\ UNCHANGED <<toServer, toClient, summary, bytes, store>>
  BY DEF EndScan, tableVars, serverVars, wireVars
<1>2. Running /\ ListsFull /\ ~closing
  BY <1>1 DEF VisitInv, Running, ByeSaid
<1>3. Ids' = Ids /\ Bye \in MessageOf(Ids) /\ Asked(Bye) = {} /\ Bye.block = 0 /\ Bye.obj.kind = "none"
  BY <1>1 DEF Ids, Bye, MessageOf, NoObject, ObjectOf, Asked
<1>4. PICK W \in SUBSET {Bye} : \/ W = {} /\ UNCHANGED <<outBuf, closing>>
                                \/ /\ W = {Bye} /\ outBuf' = Append(outBuf, Bye) /\ closing'
                                   /\ workList = <<>>
  BY <1>1 DEF ByeIfDone, SayBye
<1>5. /\ Messages' = Messages \cup W
      /\ Flying' = Flying \cup ({m.block : m \in W} \ {0})
      /\ AskedOnce'
  <2>1. W \in SUBSET MessageOf(Ids') /\ Ids \subseteq Ids' /\ UNCHANGED <<toServer, toClient>>
    BY <1>1, <1>3
  <2>2. \A m \in W : Asked(m) = {}
    BY <1>3
  <2>3. \/ W = {} /\ outBuf' = outBuf
        \/ \E m : W = {m} /\ outBuf' = Append(outBuf, m)
    BY <1>4
  <2>4. QED
    BY <1>2, <2>1, <2>2, <2>3, SendTalk DEF Running
<1>6. Flying' = Flying
  BY <1>3, <1>5
<1>7. Grown
  BY <1>1 DEF Grown
<1>8. Talk' /\ Sound'
  BY <1>1, <1>2, <1>4, <1>5, <1>6, <1>7, TalkStays DEF Running
<1>9. ListsFull'
  BY <1>1, <1>2, <1>3, <1>4, <1>5, ListsStay
<1>10. FileOnce'
  BY <1>1, <1>2 DEF Running, FileOnce, Tickets
<1>11. SentInFill'
  BY <1>1, <1>2, SentStays DEF Running
<1>12. ByeSaid'
  <2>1. SUFFICES ASSUME closing' PROVE outBuf' = <<Bye>> /\ workList = <<>>
    BY <1>1 DEF ByeSaid
  <2>2. workList = <<>> /\ outBuf' = Append(outBuf, Bye)
    BY <1>2, <1>4, <2>1
  <2>3. Messages = {}
    BY <1>2, <2>2 DEF Running, Talk, Tickets, Elements
  <2>4. outBuf = <<>>
    <3>1. DOMAIN outBuf = {}
      BY <2>3 DEF Messages, Elements
    <3>2. outBuf \in Seq(MessageOf(Ids)) /\ DOMAIN outBuf = 1 .. Len(outBuf) /\ Len(outBuf) \in Nat
      BY QueueTypes DEF Inv
    <3>3. Len(outBuf) = 0
      BY <3>1, <3>2
    <3>4. QED
      BY <3>2, <3>3
  <2>5. QED
    BY <2>2, <2>4
<1>13. QED
  BY <1>1, <1>5, <1>8, <1>9, <1>10, <1>11, <1>12 DEF VisitInv, Running

-----------------------------------------------------------------------------
(* The server. *)

\* The server takes a packet.
LEMMA TakeFacts ==
    ASSUME Inv, NEW c, ServerReceives(c)
    PROVE  /\ toServer # <<>> /\ toServer' = Tail(toServer)
           /\ Head(toServer) \in Messages /\ Head(toServer) \in MessageOf(Ids)
           /\ Head(toServer).cmd = c
<1>1. toServer # <<>> /\ toServer' = Tail(toServer) /\ toServer \in Seq(MessageOf(Ids))
  BY QueueTypes DEF ServerReceives, Inv
<1>2. Head(toServer) \in Elements(toServer) /\ Head(toServer) \in MessageOf(Ids)
  BY <1>1, TailFacts
<1>3. QED
  BY <1>1, <1>2 DEF Messages, ServerReceives

\* It answers, or not, with what the ticket of the file waits for.
LEMMA VisitAnswer ==
    ASSUME Inv, VisitInv, NEW c, ServerReceives(c), UNCHANGED clientVars, UNCHANGED tableVars, Grown,
           NEW m \in MessageOf(Ids),
           \/ toClient' = Append(toClient, m) /\ m.block = Head(toServer).block
           \/ toClient' = toClient /\ Head(toServer).block = 0,
           pc # "down" => /\ Asked(m) \subseteq Asked(Head(toServer))
                          /\ (m = Bye /\ closing) \/ \E t \in Tickets : Accounts(t, m)',
           ListsFull'
    PROVE  VisitInv'
<1>1. UNCHANGED <<pc, scanning, todo, workList, cursor, closing, outBuf, summary>>
  BY DEF clientVars, tableVars
<1>2. CASE pc = "down"
  BY <1>1, <1>2 DEF VisitInv
<1>3. CASE pc # "down"
  <2>1. Running
    BY <1>3 DEF VisitInv
  <2>2. Messages' \subseteq Messages \cup {m} /\ Flying' = Flying /\ AskedOnce'
    BY <1>1, <1>3, <2>1, TakeFacts, AnswerTalk DEF Running
  <2>3. Talk' /\ Sound'
    BY <1>1, <1>3, <2>1, <2>2, TalkStays DEF Running
  <2>4. FileOnce' /\ SentInFill' /\ ByeSaid'
    BY <1>1, <2>1 DEF Running, FileOnce, Tickets, SentInFill, ByeSaid
  <2>5. QED
    BY <1>1, <1>3, <2>2, <2>3, <2>4 DEF VisitInv, Running
<1>4. QED
  BY <1>2, <1>3

\* A block or a list is stored.
LEMMA VisitPut ==
    ASSUME Inv, VisitInv, AcceptPutBlock
    PROVE  VisitInv'
<1> DEFINE h == Head(toServer)
<1>1. /\ ServerReceives("PutBlock") /\ UNCHANGED clientVars /\ UNCHANGED tableVars
      /\ store' = Append(store, h.obj) /\ toClient' = Append(toClient, PutBlockAck(h.file, h.block, Len(store) + 1))
  BY DEF AcceptPutBlock
<1>2. h \in Messages /\ h \in MessageOf(Ids) /\ h.cmd = "PutBlock" /\ h # Bye
  BY <1>1, TakeFacts DEF Bye
<1>3. /\ store \in Seq(ObjectOf(Ids)) /\ h.obj \in ObjectOf(Ids) /\ h.file \in File \cup {NoFile}
      /\ h.block \in Ids \cup {0}
  BY <1>2, MessageFields DEF Inv, TypeInv, LocalsKnown, MessageOf
<1>4. PICK n \in Nat : n = Len(store) + 1
  BY <1>3
<1>5. PICK a : a = PutBlockAck(h.file, h.block, n)
  OBVIOUS
<1>6. /\ a \in MessageOf(Ids) /\ a.block = h.block /\ a.file = h.file /\ a.cmd = "PutBlockAck" /\ a.id = n
      /\ a.obj.kind = "none" /\ Asked(a) = Asked(h)
  BY <1>2, <1>3, <1>5, ObjectTypes DEF PutBlockAck, MessageOf, NoObject, Asked
<1>7. /\ DOMAIN store = 1 .. Len(store) /\ Len(store) \in Nat /\ n \notin DOMAIN store
      /\ DOMAIN store' = DOMAIN store \cup {n} /\ store'[n] = h.obj
      /\ \A i \in DOMAIN store : store'[i] = store[i]
  BY <1>1, <1>3, <1>4, AppendFacts
<1>8. Grown
  BY <1>1, <1>7 DEF Grown, tableVars
<1>9. toClient' = Append(toClient, a)
  BY <1>1, <1>4, <1>5
<1>10. ListsFull'
  <2>1. Messages' \subseteq Messages \cup {a}
    BY <1>1, <1>2, <1>6, <1>9, TakeFacts, AnswerQueues DEF clientVars
  <2>2. ListsFull
    BY DEF VisitInv
  <2>3. QED
    BY <1>2, <1>6, <1>7, <2>1, <2>2 DEF ListsFull
<1>11. ASSUME pc # "down" PROVE \E t \in Tickets : Accounts(t, a)'
  <2>1. Talk
    BY <1>11 DEF VisitInv, Running
  <2>2. PICK t \in Tickets : Accounts(t, h)
    BY <1>2, <2>1 DEF Talk
  <2>3. Locals(t)' = Locals(t)
    BY DEF Locals
  <2>4. Accounts(t, a)'
    BY <1>2, <1>6, <1>7, <2>2, <2>3 DEF Accounts
  <2>5. QED
    BY <2>4
<1>12. QED
  BY <1>1, <1>6, <1>8, <1>9, <1>10, <1>11, VisitAnswer

\* A list is asked for, and is there.
LEMMA VisitGet ==
    ASSUME Inv, VisitInv, AcceptGetBlock
    PROVE  VisitInv'
<1> DEFINE h == Head(toServer)
           o == IF h.id \in DOMAIN store THEN store[h.id] ELSE NoObject
<1>1. /\ ServerReceives("GetBlock") /\ UNCHANGED clientVars /\ UNCHANGED tableVars /\ UNCHANGED store
      /\ toClient' = Append(toClient, GetBlockAck(h.file, h.block, o))
  BY DEF AcceptGetBlock, serverVars
<1>2. h \in Messages /\ h \in MessageOf(Ids) /\ h.cmd = "GetBlock" /\ h # Bye
  BY <1>1, TakeFacts DEF Bye
<1>3. /\ o \in ObjectOf(Ids) /\ h.file \in File \cup {NoFile} /\ h.block \in Ids \cup {0}
  BY <1>2, MessageFields, ObjectTypes DEF Inv, TypeInv, LocalsKnown, MessageOf
<1>4. PICK a : a = GetBlockAck(h.file, h.block, o)
  OBVIOUS
<1>5. /\ a \in MessageOf(Ids) /\ a.block = h.block /\ a.file = h.file /\ a.cmd = "GetBlockAck"
      /\ a.obj = o /\ Asked(a) = Asked(h)
  BY <1>2, <1>3, <1>4 DEF GetBlockAck, MessageOf, Asked
<1>6. Grown
  BY <1>1 DEF Grown, tableVars
<1>7. toClient' = Append(toClient, a)
  BY <1>1, <1>4
<1>8. ListsFull'
  <2>1. Messages' \subseteq Messages \cup {a}
    BY <1>1, <1>2, <1>5, <1>7, TakeFacts, AnswerQueues DEF clientVars
  <2>2. ListsFull
    BY DEF VisitInv
  <2>3. o.kind = "list" => o.list # <<>>
    BY <2>2 DEF ListsFull, NoObject
  <2>4. QED
    BY <1>1, <1>5, <2>1, <2>2, <2>3 DEF ListsFull
<1>9. ASSUME pc # "down" PROVE \E t \in Tickets : Accounts(t, a)'
  <2>1. Talk /\ Sound
    BY <1>9 DEF VisitInv, Running
  <2>2. PICK t \in Tickets : Accounts(t, h)
    BY <1>2, <2>1 DEF Talk
  <2>3. t.status = "AwaitingBlockList" /\ h.block = 0 /\ h.id = summary[t.file] /\ t.file = h.file
    BY <1>2, <2>2 DEF Accounts
  <2>4. summary[t.file] # 0 /\ t.file \in File
    BY <2>1, <2>3, TicketFacts DEF Sound, TicketSound
  <2>5. o = store[summary[t.file]]
    BY <2>3, <2>4 DEF Inv, StorageInv
  <2>6. UNCHANGED summary
    BY <1>1 DEF tableVars
  <2>7. Accounts(t, a)'
    BY <1>1, <1>5, <2>3, <2>5, <2>6 DEF Accounts
  <2>8. QED
    BY <2>7
<1> HIDE DEF h, o
<1>10. QED
  BY <1>1, <1>5, <1>6, <1>7, <1>8, <1>9, VisitAnswer DEF h

\* The goodbye arrives.
LEMMA VisitBye ==
    ASSUME Inv, VisitInv, ReceiveBye
    PROVE  VisitInv'
<1> DEFINE h == Head(toServer)
<1>1. /\ ServerReceives("Bye") /\ UNCHANGED clientVars /\ UNCHANGED tableVars /\ UNCHANGED store
      /\ toClient' \in {toClient, Append(toClient, Bye)}
  BY DEF ReceiveBye
<1>2. h \in Messages /\ h \in MessageOf(Ids) /\ h.cmd = "Bye"
  BY <1>1, TakeFacts
<1>3. Bye \in MessageOf(Ids) /\ Bye.block = 0 /\ Asked(Bye) = {} /\ Bye.obj.kind = "none"
  BY ObjectTypes DEF Bye, MessageOf, NoObject, Asked
<1>4. Grown
  BY <1>1 DEF Grown, tableVars
<1>5. ListsFull'
  <2>1. Messages' \subseteq Messages \cup {Bye}
    BY <1>1, <1>2, <1>3, TakeFacts, AnswerQueues DEF clientVars
  <2>2. QED
    BY <1>1, <1>3, <2>1, ListsStay DEF VisitInv
<1>6. CASE pc = "down"
  BY <1>1, <1>5, <1>6 DEF VisitInv, clientVars
<1>7. CASE pc # "down"
  <2>1. Talk
    BY <1>7 DEF VisitInv, Running
  <2>2. h = Bye /\ closing
    BY <1>2, <2>1 DEF Talk, Accounts
  <2> HIDE DEF h
  <2>3. h.block = 0 /\ Asked(Bye) \subseteq Asked(h)
    BY <1>3, <2>2
  <2>4. \/ toClient' = Append(toClient, Bye) /\ Bye.block = h.block
        \/ toClient' = toClient /\ h.block = 0
    BY <1>1, <1>3, <2>3
  <2>5. QED
    BY <1>1, <1>3, <1>4, <1>5, <1>7, <2>2, <2>3, <2>4, VisitAnswer DEF h
<1>8. QED
  BY <1>6, <1>7

-----------------------------------------------------------------------------
(* The scan: a file gets its ticket. *)

\* The file that is reported has neither ticket nor packet, and does not come again.
LEMMA ReportFacts ==
    ASSUME Inv, VisitInv, NEW f, Report(f)
    PROVE  /\ f \in File /\ Running /\ ListsFull /\ ~closing /\ pc = "loop"
           /\ \A t \in Tickets : t.file # f
           /\ \A m \in Messages : m.file # f
           /\ \A i, j \in DOMAIN todo' : todo'[i] = todo'[j] => i = j
           /\ \A i \in DOMAIN todo' : todo'[i] # f /\ \A t \in Tickets : t.file # todo'[i]
           /\ f \notin FilesOf(outBuf) \cup FilesOf(toServer) \cup FilesOf(toClient)
           /\ UNCHANGED <<pc, scanning, cursor, closing, toServer, toClient>>
           /\ UNCHANGED summary /\ UNCHANGED store
<1>1. /\ pc = "loop" /\ scanning /\ todo # <<>> /\ f = Head(todo) /\ todo' = Tail(todo)
      /\ UNCHANGED <<pc, scanning, cursor, closing, toServer, toClient>>
      /\ UNCHANGED summary /\ UNCHANGED store
  BY DEF Report, Reported, serverVars
<1>2. Running /\ ListsFull /\ ~closing
  BY <1>1 DEF VisitInv, Running, ByeSaid
<1>3. /\ todo \in Seq(File) /\ f \in File /\ 1 \in DOMAIN todo /\ f = todo[1]
      /\ DOMAIN todo = 1 .. Len(todo) /\ DOMAIN todo' = 1 .. Len(todo) - 1
      /\ \A i \in DOMAIN todo' : i + 1 \in DOMAIN todo /\ todo'[i] = todo[i + 1]
  BY <1>1, TailFacts DEF Inv, TypeInv, Plain
<1>4. \A t \in Tickets : t.file # f
  BY <1>2, <1>3 DEF Running, FileOnce
<1>5. \A m \in Messages : m.file # f
  BY <1>2, <1>4 DEF Running, Talk, Accounts
<1>6. \A i, j \in DOMAIN todo' : todo'[i] = todo'[j] => i = j
  <2>1. \A i, j \in DOMAIN todo : todo[i] = todo[j] => i = j
    BY <1>2 DEF Running, FileOnce
  <2>2. \A i, j \in DOMAIN todo' : i + 1 = j + 1 => i = j
    BY <1>3
  <2>3. QED
    BY <1>3, <2>1, <2>2
<1>7. \A i \in DOMAIN todo' : todo'[i] # f /\ \A t \in Tickets : t.file # todo'[i]
  <2>1. \A i \in DOMAIN todo' : i + 1 # 1
    BY <1>3
  <2>2. QED
    BY <1>2, <1>3, <2>1 DEF Running, FileOnce
<1>8. f \notin FilesOf(outBuf) \cup FilesOf(toServer) \cup FilesOf(toClient)
  BY <1>5 DEF FilesOf, Asked, Messages, Elements
<1>9. QED
  BY <1>1, <1>2, <1>3, <1>4, <1>5, <1>6, <1>7, <1>8

\* The files stay apart, with a ticket for the file that is reported or without.
LEMMA ReportFiles ==
    ASSUME Inv, VisitInv, NEW f, Report(f), Ids \subseteq Ids',
           \/ workList' = workList
           \/ \E u \in TicketOf(Ids') : u.file = f /\ workList' = Append(workList, u)
    PROVE  FileOnce'
<1>1. FileOnce /\ scanning'
  BY ReportFacts DEF Running, Report, Reported
<1>2. CASE workList' = workList
  <2>1. Tickets' = Tickets
    BY <1>2 DEF Tickets
  <2>2. \A t \in Tickets' : \A i \in DOMAIN todo' : t.file # todo'[i]
    BY <2>1, ReportFacts
  <2>3. \A i, j \in DOMAIN todo' : todo'[i] = todo'[j] => i = j
    BY ReportFacts
  <2>4. QED
    BY <1>1, <1>2, <2>2, <2>3 DEF FileOnce
<1>3. ASSUME NEW u \in TicketOf(Ids'), u.file = f, workList' = Append(workList, u) PROVE FileOnce'
  <2>1. Tickets' = Tickets \cup {u}
    BY <1>3, TicketsJoin
  <2>2. \A t \in Tickets' : \A i \in DOMAIN todo' : t.file # todo'[i]
    BY <1>3, <2>1, ReportFacts
  <2>3. \A i, j \in DOMAIN todo' : todo'[i] = todo'[j] => i = j
    BY ReportFacts
  <2>4. workList \in Seq(TicketOf(Ids'))
    BY TypesMonotone DEF Inv, TypeInv, LocalsKnown
  <2>5. /\ \A i \in DOMAIN workList' : i \in DOMAIN workList \/ i = Len(workList) + 1
        /\ \A i \in DOMAIN workList : workList'[i] = workList[i]
        /\ workList'[Len(workList) + 1] = u
    BY <1>3, <2>4, AppendFacts
  <2>6. \A i \in DOMAIN workList : workList[i].file # f
    BY ReportFacts DEF Tickets, Elements
  <2>7. \A i, j \in DOMAIN workList' : workList'[i].file = workList'[j].file => i = j
    BY <1>1, <1>3, <2>5, <2>6 DEF FileOnce
  <2>8. QED
    BY <1>1, <2>2, <2>3, <2>7 DEF FileOnce
<1>4. QED
  BY <1>2, <1>3

\* The tickets there were are as they were.
LEMMA JoinStays ==
    ASSUME Inv, Running, Grown, UNCHANGED summary, UNCHANGED closing, Flying' = Flying,
           NEW u, Tickets' = Tickets \cup {u}, TicketSound(u)',
           \A m \in Messages' : m \in Messages \/ Accounts(u, m)'
    PROVE  Talk' /\ Sound'
<1>1. \A t \in Tickets : TicketSound(t)' /\ \A m : Accounts(t, m) => Accounts(t, m)'
  BY TicketStays DEF Running, Sound
<1>2. Sound'
  BY <1>1 DEF Sound
<1>3. Talk'
  BY <1>1 DEF Running, Talk
<1>4. QED
  BY <1>2, <1>3

\* A ticket that joins the list has blocks to send, or none.
LEMMA JoinSent ==
    ASSUME Inv, SentInFill, NEW u \in TicketOf(Ids'), Ids \subseteq Ids', workList' = Append(workList, u),
           pc = "loop", pc' = "loop", u.status = "SendingBlocks" /\ u.blocks # <<>> => ~(u.next >= Len(u.blocks))
    PROVE  SentInFill'
<1>1. workList \in Seq(TicketOf(Ids'))
  BY TypesMonotone DEF Inv, TypeInv, LocalsKnown
<1>2. /\ \A i \in DOMAIN workList' : i \in DOMAIN workList \/ i = Len(workList) + 1
      /\ \A i \in DOMAIN workList : workList'[i] = workList[i]
      /\ workList'[Len(workList) + 1] = u
  BY <1>1, AppendFacts
<1>3. QED
  BY <1>2 DEF SentInFill

\* A file that is as it was.
LEMMA VisitOld ==
    ASSUME Inv, VisitInv, NEW f, VisitUnchanged(f)
    PROVE  VisitInv'
<1>1. Report(f) /\ UNCHANGED <<workList, outBuf, bytes>>
  BY DEF VisitUnchanged
<1>2. /\ Running /\ ListsFull /\ ~closing /\ pc = "loop"
      /\ UNCHANGED <<pc, scanning, cursor, closing, toServer, toClient>>
      /\ UNCHANGED summary /\ UNCHANGED store
  BY <1>1, ReportFacts
<1>3. Grown /\ Ids \subseteq Ids'
  BY <1>1, <1>2 DEF Grown, Ids
<1>4. Messages' = Messages /\ Flying' = Flying /\ AskedOnce'
  BY <1>1, <1>2 DEF Messages, Flying, AskedOnce, Running
<1>5. Talk' /\ Sound'
  BY <1>1, <1>2, <1>3, <1>4, TalkStays DEF Running
<1>6. FileOnce'
  BY <1>1, <1>3, ReportFiles
<1>7. SentInFill'
  BY <1>1, <1>2, SentStays DEF Running
<1>8. ListsFull'
  BY <1>2, <1>4, ListsStay
<1>9. QED
  BY <1>2, <1>4, <1>5, <1>6, <1>7, <1>8 DEF VisitInv, Running, ByeSaid

\* The list of a changed file is asked for.
LEMMA VisitAsks ==
    ASSUME Inv, VisitInv, NEW f, VisitChanged(f)
    PROVE  VisitInv'
<1>1. /\ Report(f) /\ summary[f] # 0
      /\ workList' = Append(workList, NewTicket(f, "AwaitingBlockList", <<>>))
      /\ outBuf' = Append(outBuf, GetBlock(f, 0, summary[f])) /\ UNCHANGED bytes
  BY DEF VisitChanged
<1>2. /\ Running /\ ListsFull /\ ~closing /\ pc = "loop" /\ f \in File
      /\ UNCHANGED <<pc, scanning, cursor, closing, toServer, toClient>>
      /\ UNCHANGED summary /\ UNCHANGED store
      /\ f \notin FilesOf(outBuf) \cup FilesOf(toServer) \cup FilesOf(toClient)
  BY <1>1, ReportFacts
<1>3. Grown /\ Ids = Ids'
  BY <1>1, <1>2 DEF Grown, Ids
<1>4. PICK u : u = NewTicket(f, "AwaitingBlockList", <<>>)
  OBVIOUS
<1>5. /\ u.file = f /\ u.status = "AwaitingBlockList" /\ u.blocks = <<>> /\ u.next = 0 /\ u.moved = 0
      /\ u \in TicketOf(Ids)
  BY <1>2, <1>4 DEF NewTicket, TicketOf, Status
<1>6. PICK m : m = GetBlock(f, 0, summary[f])
  OBVIOUS
<1>7. /\ m \in MessageOf(Ids) /\ m.file = f /\ m.block = 0 /\ m.cmd = "GetBlock" /\ m.id = summary[f]
      /\ m.obj.kind = "none" /\ Asked(m) = {f}
  <2>1. summary[f] \in Nat
    BY <1>2 DEF Inv, TypeInv, Plain
  <2>2. QED
    BY <1>2, <1>6, <2>1, ObjectTypes DEF GetBlock, MessageOf, NoObject, Asked
<1>8. /\ Messages' = Messages \cup {m}
      /\ Flying' = Flying
      /\ AskedOnce'
  <2>1. {m} \in SUBSET MessageOf(Ids') /\ Ids \subseteq Ids' /\ {x.block : x \in {m}} \ {0} = {}
    BY <1>3, <1>7
  <2>2. \A x \in {m} : Asked(x) \cap (FilesOf(outBuf) \cup FilesOf(toServer) \cup FilesOf(toClient)) = {}
    BY <1>2, <1>7
  <2>3. \E x : {m} = {x} /\ outBuf' = Append(outBuf, x)
    BY <1>1, <1>6
  <2> DEFINE W == {m}
  <2> HIDE DEF W
  <2>4. /\ Messages' = Messages \cup W
        /\ Flying' = Flying \cup ({x.block : x \in W} \ {0})
        /\ AskedOnce'
    BY <1>2, <2>1, <2>2, <2>3, SendTalk DEF Running, W
  <2>5. QED
    BY <2>1, <2>4 DEF W
<1>9. TicketSound(u)'
  <2>1. /\ DOMAIN u.blocks = {} /\ Flying' \cap Locals(u) = {} /\ summary'[u.file] # 0
    BY <1>1, <1>2, <1>5 DEF Locals
  <2>2. Cardinality(Flying' \cap Locals(u)) = 0
    BY <2>1, FS_EmptySet
  <2>3. Locals(u)' = Locals(u)
    BY DEF Locals
  <2>4. QED
    BY <1>5, <2>1, <2>2, <2>3 DEF TicketSound, Stuck
<1>10. Accounts(u, m)'
  BY <1>2, <1>5, <1>7 DEF Accounts
<1>11. Tickets' = Tickets \cup {u}
  BY <1>1, <1>3, <1>4, <1>5, TicketsJoin
<1>12. Talk' /\ Sound'
  BY <1>2, <1>3, <1>8, <1>9, <1>10, <1>11, JoinStays
<1>13. FileOnce'
  BY <1>1, <1>3, <1>4, <1>5, ReportFiles
<1>14. SentInFill'
  BY <1>1, <1>2, <1>3, <1>4, <1>5, JoinSent DEF Running
<1>15. ListsFull'
  BY <1>2, <1>7, <1>8, ListsStay
<1>16. QED
  BY <1>2, <1>8, <1>12, <1>13, <1>14, <1>15 DEF VisitInv, Running, ByeSaid

\* A ticket whose cover has just been computed: none of its blocks is on its
\* way, and the new ones come last.
LEMMA CoverSound ==
    ASSUME Inv, NEW list \in Seq(ListEntryOf(Ids)), ListOld(list),
           NEW keep \in SUBSET DOMAIN list, NEW move \in SUBSET keep, NEW n \in Nat,
           NEW t, t.blocks = NewCover(list, keep, move, n), t.next = 0, t.moved = 0,
           t.status = "SendingBlocks", Flying' \subseteq Flying,
           list # <<>> => summary'[t.file] # 0 /\ store'[summary'[t.file]].list = list
    PROVE  /\ TicketSound(t)'
           /\ t.blocks # <<>> => ~(t.next >= Len(t.blocks))
<1> DEFINE cover == NewCover(list, keep, move, n)
<1>1. /\ Len(cover) = Len(list) + n /\ DOMAIN cover = 1 .. Len(list) + n
      /\ Len(list) \in Nat /\ DOMAIN list = 1 .. Len(list) /\ bytes \in Seq(Nat) /\ Len(bytes) \in Nat
  <2>1. bytes \in Seq(Nat)
    BY DEF Inv, TypeInv, Plain
  <2>2. Len(cover) = Len(list) + n
    BY <2>1, NewCoverType
  <2>3. QED
    BY <2>1, <2>2 DEF NewCover
<1>2. Flying \subseteq Ids
  BY QueueTypes DEF Inv
<1>3. ASSUME NEW k \in DOMAIN cover PROVE k \in Nat \ {0} /\ cover[k].local \notin Flying
  <2>1. bytes \in Seq(Nat)
    BY <1>1
  <2>2. /\ k \in Nat \ {0}
        /\ \/ cover[k].local = Len(bytes) + k
           \/ k \in DOMAIN list /\ cover[k].local = list[k].local
    BY <2>1, CoverFacts
  <2>3. Len(bytes) + k \notin Ids
    BY <1>1, <2>2 DEF Ids
  <2>4. QED
    BY <1>2, <2>2, <2>3 DEF ListOld
<1>4. Flying' \cap Locals(t) = {} /\ Locals(t)' = Locals(t)
  BY <1>3 DEF Locals
<1>5. Cardinality(Flying' \cap Locals(t)) = 0
  BY <1>4, FS_EmptySet
<1>6. \A k \in DOMAIN t.blocks : ~(k <= t.next)
  <2>1. \A k \in DOMAIN cover : ~(k <= 0)
    BY <1>1
  <2> HIDE DEF cover
  <2>2. QED
    BY <2>1 DEF cover
<1>7. OnlyOld(t)' \/ (t.blocks # <<>> /\ t.blocks[Len(t.blocks)].remote = 0)
  <2>1. CASE n = 0
    <3>1. \A k \in DOMAIN cover : k \in DOMAIN list /\ ~(k > Len(list))
      BY <1>1, <2>1
    <3>2. \A k \in DOMAIN cover : cover[k].remote = list[k].remote
      BY <3>1 DEF NewCover
    <3>3. \A k \in DOMAIN cover : list # <<>>
      BY <1>1, <3>1
    <3> HIDE DEF cover
    <3>4. QED
      BY <3>1, <3>2, <3>3 DEF OnlyOld, cover
  <2>2. CASE n # 0
    <3>1. Len(cover) \in DOMAIN cover /\ Len(cover) > Len(list)
      BY <1>1, <2>2
    <3>2. cover[Len(cover)].remote = 0
      BY <3>1 DEF NewCover
    <3>3. cover # <<>>
      BY <3>1
    <3> HIDE DEF cover
    <3>4. QED
      BY <3>2, <3>3 DEF cover
  <2>3. QED
    BY <2>1, <2>2
<1>8. TicketSound(t)'
  BY <1>4, <1>5, <1>6, <1>7 DEF TicketSound, Stuck
<1>9. t.blocks # <<>> => ~(t.next >= Len(t.blocks))
  <2>1. SUFFICES ASSUME cover # <<>> PROVE ~(0 >= Len(cover))
    OBVIOUS
  <2>2. cover \in Seq(EntryOf(1 .. Len(bytes) + Len(list) + n))
    BY <1>1, NewCoverType
  <2> HIDE DEF cover
  <2>3. QED
    BY <2>1, <2>2
<1>10. QED
  BY <1>8, <1>9

\* A new file has its cover at once.
LEMMA VisitCovers ==
    ASSUME Inv, Inv', VisitInv, NEW f, VisitNew(f)
    PROVE  VisitInv'
<1>1. /\ Report(f) /\ summary[f] = 0 /\ UNCHANGED outBuf
      /\ \E n \in MinNew .. MaxNew :
            /\ workList' = Append(workList, NewTicket(f, "SendingBlocks", NewCover(<<>>, {}, {}, n)))
            /\ bytes' = CoverBytes(<<>>, n)
  BY DEF VisitNew
<1>2. PICK n \in Nat :
            /\ workList' = Append(workList, NewTicket(f, "SendingBlocks", NewCover(<<>>, {}, {}, n)))
            /\ bytes' = CoverBytes(<<>>, n)
  BY <1>1, ConstantsAssumption
<1>3. /\ Running /\ ListsFull /\ ~closing /\ pc = "loop" /\ f \in File
      /\ UNCHANGED <<pc, scanning, cursor, closing, toServer, toClient>>
      /\ UNCHANGED summary /\ UNCHANGED store
  BY <1>1, ReportFacts
<1>4. <<>> \in Seq(ListEntryOf(Ids)) /\ {} \in SUBSET DOMAIN <<>> /\ {} \in SUBSET {} /\ Len(<<>>) = 0
  OBVIOUS
<1>5. /\ Grown /\ Len(bytes') = Len(bytes) + 0 + n /\ Len(bytes) \in Nat /\ bytes \in Seq(Nat)
  BY <1>2, <1>3, <1>4, CoverGrows DEF Inv, TypeInv, Plain
<1>6. Ids \subseteq Ids'
  BY <1>5 DEF Ids
<1>7. PICK cover : cover = NewCover(<<>>, {}, {}, n)
  OBVIOUS
<1>8. cover \in Seq(EntryOf(Ids'))
  <2>1. cover \in Seq(EntryOf(1 .. Len(bytes) + 0 + n))
    BY <1>4, <1>5, <1>7, NewCoverType
  <2>2. QED
    BY <1>5, <2>1 DEF Ids
<1>9. PICK u : u = NewTicket(f, "SendingBlocks", cover)
  OBVIOUS
<1>10. /\ u.file = f /\ u.status = "SendingBlocks" /\ u.blocks = cover /\ u.next = 0 /\ u.moved = 0
       /\ u \in TicketOf(Ids')
  BY <1>3, <1>8, <1>9 DEF NewTicket, TicketOf, Status
<1>11. /\ workList' = Append(workList, u)
  BY <1>2, <1>7, <1>9
<1>12. Messages' = Messages /\ Flying' = Flying /\ AskedOnce'
  BY <1>1, <1>3 DEF Messages, Flying, AskedOnce, Running
<1>13. TicketSound(u)' /\ (u.blocks # <<>> => ~(u.next >= Len(u.blocks)))
  <2>1. ListOld(<<>>)
    BY DEF ListOld
  <2>2. QED
    BY <1>4, <1>7, <1>10, <1>12, <2>1, CoverSound
<1>14. Tickets' = Tickets \cup {u}
  BY <1>6, <1>10, <1>11, TicketsJoin
<1>15. Talk' /\ Sound'
  BY <1>3, <1>5, <1>12, <1>13, <1>14, JoinStays
<1>16. FileOnce'
  BY <1>1, <1>6, <1>10, <1>11, ReportFiles
<1>17. SentInFill'
  BY <1>3, <1>6, <1>10, <1>11, <1>13, JoinSent DEF Running
<1>18. ListsFull'
  BY <1>3, <1>12, ListsStay
<1>19. QED
  BY <1>3, <1>12, <1>15, <1>16, <1>17, <1>18 DEF VisitInv, Running, ByeSaid

-----------------------------------------------------------------------------
(* The steps that change a ticket in its place. *)

\* The ticket of a file is the only one.
LEMMA OneTicket ==
    ASSUME FileOnce, NEW i \in DOMAIN workList, NEW v \in Tickets
    PROVE  v # workList[i] <=> v.file # workList[i].file
<1>1. PICK j \in DOMAIN workList : v = workList[j]
  BY DEF Tickets, Elements
<1>2. QED
  BY <1>1 DEF FileOnce

\* Ticket i0 becomes u; the others, and what they wait for, are as they were.
LEMMA ChangeStays ==
    ASSUME Inv, Running, Grown, UNCHANGED summary, UNCHANGED closing, UNCHANGED todo, UNCHANGED scanning,
           NEW i0 \in DOMAIN workList, NEW u, u.file = workList[i0].file,
           workList' = [workList EXCEPT ![i0] = u], TicketSound(u)',
           \A v \in Tickets : v # workList[i0] => Flying' \cap Locals(v) = Flying \cap Locals(v),
           \A m \in Messages' : \/ Accounts(u, m)'
                                \/ m \in Messages /\ ~Accounts(workList[i0], m)
    PROVE  Talk' /\ Sound' /\ FileOnce'
<1>1. /\ Tickets' = (Tickets \ {workList[i0]}) \cup {u}
      /\ DOMAIN workList' = DOMAIN workList
      /\ workList'[i0] = u
      /\ \A i \in DOMAIN workList : i # i0 => workList'[i] = workList[i]
  BY TicketsChange DEF Running
<1>2. \A v \in Tickets : v # workList[i0] =>
         TicketSound(v)' /\ \A m : Accounts(v, m) => Accounts(v, m)'
  BY TicketStays DEF Running, Sound
<1>3. Sound'
  BY <1>1, <1>2 DEF Sound
<1>4. Talk'
  <2>1. ASSUME NEW m \in Messages', ~Accounts(u, m)'
        PROVE  (m = Bye /\ closing)' \/ \E v \in Tickets' : Accounts(v, m)'
    <3>1. m \in Messages /\ ~Accounts(workList[i0], m)
      BY <2>1
    <3>2. (m = Bye /\ closing) \/ \E v \in Tickets : Accounts(v, m)
      BY <3>1 DEF Running, Talk
    <3>3. QED
      BY <1>1, <1>2, <3>1, <3>2
  <2>2. u \in Tickets'
    BY <1>1
  <2>3. QED
    BY <2>1, <2>2 DEF Talk
<1>5. FileOnce'
  <2>1. workList[i0] \in Tickets
    BY DEF Tickets, Elements
  <2>2. \A t \in Tickets' : \E v \in Tickets : t.file = v.file
    BY <1>1, <2>1
  <2>3. \A i \in DOMAIN workList : workList'[i].file = workList[i].file
    BY <1>1
  <2>4. \A i, j \in DOMAIN workList' : workList'[i].file = workList'[j].file => i = j
    BY <1>1, <2>3 DEF Running, FileOnce
  <2>5. \A t \in Tickets' : \A i \in DOMAIN todo' : t.file # todo'[i]
    BY <2>2 DEF Running, FileOnce
  <2>6. QED
    BY <2>4, <2>5 DEF Running, FileOnce
<1>6. QED
  BY <1>3, <1>4, <1>5

\* What is on its way can be counted.
LEMMA FlyingFinite ==
    ASSUME TypeInv, NEW S
    PROVE  IsFiniteSet(Flying \cap S) /\ Cardinality(Flying \cap S) \in Nat
<1>1. Flying \subseteq Ids
  BY QueueTypes
<1>2. IsFiniteSet(Ids)
  <2>1. Len(bytes) \in Nat
    BY DEF TypeInv, Plain
  <2>2. QED
    BY <2>1, FS_Interval DEF Ids
<1>3. IsFiniteSet(Flying \cap S)
  BY <1>1, <1>2, FS_Subset
<1>4. QED
  BY <1>3, FS_CardinalityType

\* A ticket of the fill advances by one block, which goes into the buffer if it
\* is not stored.
LEMMA AdvanceSound ==
    ASSUME Inv, NEW i0 \in DOMAIN workList, NEW t, t = workList[i0], TicketSound(t),
           t.status = "SendingBlocks", t.next < Len(t.blocks),
           UNCHANGED summary, UNCHANGED store,
           NEW x, x.file = t.file, x.blocks = t.blocks, x.next = t.next + 1, x.status = t.status,
           LET e == t.blocks[t.next + 1]
           IN  \/ e.remote # 0 /\ x.moved = t.moved /\ Flying' = Flying
               \/ e.remote = 0 /\ x.moved = t.moved + 1 /\ Flying' = Flying \cup {e.local}
    PROVE  /\ TicketSound(x)' /\ Locals(x) = Locals(t)
           /\ \A v \in Tickets : v.file # t.file => Flying' \cap Locals(v) = Flying \cap Locals(v)
           /\ \A m : Accounts(t, m) => Accounts(x, m)'
<1>1. t \in Tickets
  BY DEF Tickets, Elements
<1>2. /\ t.blocks \in Seq(EntryOf(Ids)) /\ t.next \in Nat /\ t.moved \in Int
      /\ DOMAIN t.blocks = 1 .. Len(t.blocks) /\ Len(t.blocks) \in Nat
  BY <1>1, TicketFacts
<1>3. PICK k0 : k0 = t.next + 1
  OBVIOUS
<1>4. k0 \in DOMAIN t.blocks /\ k0 \in Nat /\ ~(k0 <= t.next)
  BY <1>2, <1>3
<1>5. PICK e : e = t.blocks[k0]
  OBVIOUS
<1>6. \/ e.remote # 0 /\ x.moved = t.moved /\ Flying' = Flying
      \/ e.remote = 0 /\ x.moved = t.moved + 1 /\ Flying' = Flying \cup {e.local}
  BY <1>3, <1>5
<1>7. e.local \notin Flying /\ e.local \in Locals(t)
  BY <1>4, <1>5 DEF Inv, CountInv, SentEntry, Locals
<1>8. Locals(x) = Locals(t) /\ Locals(x)' = Locals(t)
  BY DEF Locals
<1>9. x.moved = Cardinality(Flying' \cap Locals(t))
  <2>1. t.moved = Cardinality(Flying \cap Locals(t)) /\ IsFiniteSet(Flying \cap Locals(t))
    BY FlyingFinite DEF TicketSound, Inv
  <2>2. CASE Flying' = Flying /\ x.moved = t.moved
    BY <2>1, <2>2
  <2>3. CASE Flying' = Flying \cup {e.local} /\ x.moved = t.moved + 1
    <3>1. Flying' \cap Locals(t) = (Flying \cap Locals(t)) \cup {e.local}
      BY <1>7, <2>3
    <3>2. e.local \notin Flying \cap Locals(t)
      BY <1>7
    <3>3. Cardinality((Flying \cap Locals(t)) \cup {e.local}) = Cardinality(Flying \cap Locals(t)) + 1
      BY <2>1, <3>2, FS_AddElement
    <3>4. QED
      BY <2>1, <2>3, <3>1, <3>3
  <2>4. QED
    BY <1>6, <2>2, <2>3
<1>10. ASSUME NEW k \in DOMAIN x.blocks, k <= x.next, x.blocks[k].remote = 0
       PROVE  x.blocks[k].local \in Flying'
  <2>1. k <= t.next \/ k = k0
    BY <1>2, <1>3, <1>10
  <2>2. CASE k <= t.next
    BY <1>6, <1>10, <2>2 DEF TicketSound
  <2>3. CASE k = k0
    BY <1>5, <1>6, <1>10, <2>3
  <2>4. QED
    BY <2>1, <2>2, <2>3
<1>11. OnlyOld(x)' \/ (x.blocks # <<>> /\ x.blocks[Len(x.blocks)].remote = 0)
  <2>1. OnlyOld(t) => OnlyOld(x)'
    BY DEF OnlyOld
  <2>2. QED
    BY <2>1 DEF TicketSound
<1>12. TicketSound(x)'
  BY <1>8, <1>9, <1>10, <1>11 DEF TicketSound, Stuck
<1>13. ASSUME NEW v \in Tickets, v.file # t.file PROVE Flying' \cap Locals(v) = Flying \cap Locals(v)
  <2>1. e.remote = 0 => e.local \notin Locals(v)
    BY <1>1, <1>4, <1>5, <1>13, TicketFacts
  <2>2. QED
    BY <1>6, <2>1
<1>14. \A m : Accounts(t, m) => Accounts(x, m)'
  BY <1>8 DEF Accounts
<1>15. QED
  BY <1>8, <1>12, <1>13, <1>14

\* The fill sends a block, or passes one by.
LEMMA VisitSends ==
    ASSUME Inv, VisitInv, FillBlock
    PROVE  VisitInv'
<1>1. /\ pc = "fill" /\ cursor \in DOMAIN workList /\ SendsMore(workList[cursor])
      /\ UNCHANGED <<pc, scanning, todo, cursor, closing, toServer, toClient, summary, bytes, store>>
  BY DEF FillBlock, wireVars, tableVars, serverVars
<1>2. Running /\ ListsFull
  BY <1>1 DEF VisitInv
<1>3. PICK t : t = workList[cursor]
  OBVIOUS
<1>4. /\ t \in Tickets /\ t \in TicketOf(Ids) /\ t.file \in File
      /\ t.blocks \in Seq(EntryOf(Ids)) /\ t.next \in Nat /\ t.moved \in Int
      /\ DOMAIN t.blocks = 1 .. Len(t.blocks) /\ Len(t.blocks) \in Nat /\ TicketSound(t)
  <2>1. t \in Tickets
    BY <1>1, <1>3 DEF Tickets, Elements
  <2>2. QED
    BY <1>2, <2>1, TicketFacts DEF Running, Sound
<1>5. /\ t.status = "SendingBlocks" /\ t.next < Len(t.blocks) /\ Len(outBuf) < Desired
      /\ t.next + 1 \in DOMAIN t.blocks
  BY <1>1, <1>3, <1>4 DEF SendsMore
<1>6. PICK e : e = t.blocks[t.next + 1]
  OBVIOUS
<1>7. e \in EntryOf(Ids) /\ e.local \in Ids /\ e.local # 0 /\ EntryTrue(e)
  <2>1. e \in EntryOf(Ids)
    BY <1>4, <1>5, <1>6
  <2>2. EntryTrue(e)
    BY <1>1, <1>3, <1>5, <1>6 DEF Inv, StorageInv
  <2>3. QED
    BY <2>1, <2>2 DEF EntryOf, Ids
<1>8. PICK u : u = [t EXCEPT !.next = t.next + 1]
  OBVIOUS
<1>9. /\ u.file = t.file /\ u.blocks = t.blocks /\ u.next = t.next + 1
      /\ u.moved = t.moved /\ u.status = t.status
      /\ Counted(u).file = t.file /\ Counted(u).blocks = t.blocks /\ Counted(u).next = t.next + 1
      /\ Counted(u).moved = t.moved + 1 /\ Counted(u).status = t.status
  BY <1>4, <1>8 DEF TicketOf, Counted
<1>10. PICK m : m = PutBlock(t.file, e.local, BlockObject(bytes[e.local]))
  OBVIOUS
<1>11. /\ m \in MessageOf(Ids) /\ m.file = t.file /\ m.block = e.local /\ m.cmd = "PutBlock"
       /\ m.obj.kind = "block" /\ Asked(m) = {}
  <2>1. bytes[e.local] \in Nat
    BY <1>7 DEF Inv, TypeInv, Plain, Ids
  <2>2. m \in MessageOf(Ids)
    BY <1>4, <1>7, <1>10, <2>1, ObjectTypes, MessageTypes
  <2>3. QED
    BY <1>7, <1>10, <2>2 DEF PutBlock, BlockObject, Asked
<1>12. \/ /\ e.remote = 0
          /\ outBuf' = Append(outBuf, m) /\ workList' = [workList EXCEPT ![cursor] = Counted(u)]
       \/ /\ e.remote # 0
          /\ outBuf' = outBuf /\ workList' = [workList EXCEPT ![cursor] = u]
  BY <1>3, <1>6, <1>7, <1>8, <1>10 DEF FillBlock, EntryTrue
<1>13. PICK x : /\ x = IF e.remote = 0 THEN Counted(u) ELSE u
                /\ workList' = [workList EXCEPT ![cursor] = x]
  BY <1>12
<1>14. PICK W : /\ W = IF e.remote = 0 THEN {m} ELSE {}
                /\ \/ W = {} /\ outBuf' = outBuf
                   \/ \E y : W = {y} /\ outBuf' = Append(outBuf, y)
  BY <1>12
<1>15. /\ Messages' = Messages \cup W
       /\ Flying' = Flying \cup ({y.block : y \in W} \ {0})
       /\ AskedOnce'
  <2>1. W \in SUBSET MessageOf(Ids') /\ Ids \subseteq Ids' /\ \A y \in W : Asked(y) = {}
    BY <1>1, <1>11, <1>14 DEF Ids
  <2>2. QED
    BY <1>1, <1>2, <1>14, <2>1, SendTalk DEF Running
<1>16. Flying' = IF e.remote = 0 THEN Flying \cup {e.local} ELSE Flying
  BY <1>7, <1>11, <1>14, <1>15
<1>17. /\ TicketSound(x)' /\ Locals(x) = Locals(t)
       /\ \A v \in Tickets : v.file # t.file => Flying' \cap Locals(v) = Flying \cap Locals(v)
       /\ \A y : Accounts(t, y) => Accounts(x, y)'
  <2>1. /\ x.file = t.file /\ x.blocks = t.blocks /\ x.next = t.next + 1 /\ x.status = t.status
        /\ x.moved = IF e.remote = 0 THEN t.moved + 1 ELSE t.moved
    BY <1>9, <1>13
  <2>2. \/ e.remote # 0 /\ x.moved = t.moved /\ Flying' = Flying
        \/ e.remote = 0 /\ x.moved = t.moved + 1 /\ Flying' = Flying \cup {e.local}
    BY <1>16, <2>1
  <2>3. QED
    BY <1>1, <1>3, <1>4, <1>5, <1>6, <2>1, <2>2, AdvanceSound
<1>18. \A y \in W : Accounts(x, y)'
  <2>1. x.file = t.file /\ x.status = "SendingBlocks" /\ Locals(x)' = Locals(t) /\ e.local \in Locals(t)
    BY <1>5, <1>6, <1>9, <1>13 DEF Locals
  <2>2. QED
    BY <1>7, <1>11, <1>14, <2>1 DEF Accounts
<1>19. Talk' /\ Sound' /\ FileOnce'
  <2>1. Grown /\ x.file = workList[cursor].file
    BY <1>1, <1>3, <1>9, <1>13 DEF Grown
  <2>2. \A v \in Tickets : v # workList[cursor] => Flying' \cap Locals(v) = Flying \cap Locals(v)
    BY <1>1, <1>2, <1>3, <1>17, OneTicket DEF Running
  <2>3. \A y \in Messages' : Accounts(x, y)' \/ (y \in Messages /\ ~Accounts(workList[cursor], y))
    BY <1>3, <1>15, <1>17, <1>18
  <2>4. QED
    BY <1>1, <1>2, <1>13, <1>17, <2>1, <2>2, <2>3, ChangeStays
<1>20. SentInFill'
  <2>1. Len(outBuf') <= Desired
    <3>1. outBuf \in Seq(MessageOf(Ids)) /\ Desired \in Nat
      BY ConstantsAssumption, QueueTypes DEF Inv
    <3>2. QED
      BY <1>5, <1>11, <1>12, <3>1
  <2>2. DOMAIN workList' = DOMAIN workList /\ \A i \in DOMAIN workList : i # cursor => workList'[i] = workList[i]
    BY <1>13
  <2>3. QED
    BY <1>1, <1>2, <2>1, <2>2 DEF SentInFill, Running
<1>21. ByeSaid'
  <2>1. ~closing
    BY <1>1, <1>2 DEF Running, ByeSaid
  <2>2. QED
    BY <1>1, <2>1 DEF ByeSaid
<1>22. ListsFull'
  <2>1. \A y \in Messages' : y \in Messages \/ y.obj.kind # "list"
    BY <1>11, <1>14, <1>15
  <2>2. QED
    BY <1>1, <1>2, <2>1, ListsStay
<1>23. QED
  BY <1>1, <1>15, <1>19, <1>20, <1>21, <1>22 DEF VisitInv, Running

\* The fill leaves a ticket, which is sent or not.
LEMMA VisitNext ==
    ASSUME Inv, VisitInv, FillNext
    PROVE  VisitInv'
<1>1. /\ pc = "fill" /\ cursor \in DOMAIN workList /\ ~SendsMore(workList[cursor])
      /\ cursor' = cursor + 1
      /\ UNCHANGED <<pc, scanning, todo, closing, outBuf, toServer, toClient, summary, bytes, store>>
  BY DEF FillNext, wireVars, tableVars, serverVars
<1>2. Running /\ ListsFull
  BY <1>1 DEF VisitInv
<1>3. PICK t : t = workList[cursor]
  OBVIOUS
<1>4. /\ t \in Tickets /\ t \in TicketOf(Ids)
      /\ t.blocks \in Seq(EntryOf(Ids)) /\ t.next \in Nat
      /\ DOMAIN t.blocks = 1 .. Len(t.blocks) /\ Len(t.blocks) \in Nat /\ TicketSound(t)
  <2>1. t \in Tickets
    BY <1>1, <1>3 DEF Tickets, Elements
  <2>2. QED
    BY <1>2, <2>1, TicketFacts DEF Running, Sound
<1>5. Len(outBuf) <= Desired
  BY <1>1, <1>2 DEF Running, SentInFill
<1>6. Messages' = Messages /\ Flying' = Flying /\ AskedOnce'
  BY <1>1, <1>2 DEF Messages, Flying, AskedOnce, Running
<1>7. ListsFull'
  BY <1>1, <1>2, <1>6, ListsStay
<1>8. ByeSaid'
  <2>1. ~closing
    BY <1>1, <1>2 DEF Running, ByeSaid
  <2>2. QED
    BY <1>1, <2>1 DEF ByeSaid
<1>9. Grown
  BY <1>1 DEF Grown
<1>10. CASE t.status = "SendingBlocks" /\ t.next >= Len(t.blocks)
  <2>1. PICK u : u = [t EXCEPT !.status = "AwaitingBlockConfirms"]
    OBVIOUS
  <2>2. workList' = [workList EXCEPT ![cursor] = u]
    BY <1>3, <1>5, <1>10, <2>1 DEF FillNext
  <2>3. /\ u.file = t.file /\ u.blocks = t.blocks /\ u.next = t.next /\ u.moved = t.moved
        /\ u.status = "AwaitingBlockConfirms"
    BY <1>4, <2>1 DEF TicketOf
  <2>4. Locals(u) = Locals(t) /\ Locals(u)' = Locals(t)
    BY <2>3 DEF Locals
  <2>5. OnlyOld(t) => OnlyOld(u)'
    BY <1>1, <2>3 DEF OnlyOld
  \* The last block is not stored: it is on its way, and counted.
  <2>6. t.moved = 0 => OnlyOld(t)
    <3>1. SUFFICES ASSUME t.moved = 0, ~OnlyOld(t) PROVE FALSE
      OBVIOUS
    <3>2. t.blocks # <<>> /\ t.blocks[Len(t.blocks)].remote = 0
      BY <1>4, <1>10, <3>1 DEF TicketSound
    <3>3. Len(t.blocks) \in DOMAIN t.blocks /\ Len(t.blocks) <= t.next
      BY <1>4, <1>10, <3>2
    <3>4. t.blocks[Len(t.blocks)].local \in Flying \cap Locals(t)
      BY <1>4, <3>2, <3>3 DEF TicketSound, Locals
    <3>5. IsFiniteSet(Flying \cap Locals(t)) /\ Cardinality(Flying \cap Locals(t)) = 0
      BY <1>4, <3>1, FlyingFinite DEF TicketSound, Inv
    <3>6. QED
      BY <3>4, <3>5, FS_EmptySet
  <2>7. TicketSound(u)'
    BY <1>4, <1>6, <2>3, <2>4, <2>5, <2>6 DEF TicketSound, Stuck
  <2>8. \A y : Accounts(t, y) => Accounts(u, y)'
    BY <1>10, <2>3, <2>4 DEF Accounts
  <2>9. Talk' /\ Sound' /\ FileOnce'
    BY <1>1, <1>2, <1>3, <1>6, <1>9, <2>2, <2>3, <2>7, <2>8, ChangeStays
  <2>10. SentInFill'
    BY <1>1, <1>2, <1>5, <2>2, <2>3 DEF SentInFill, Running
  <2>11. QED
    BY <1>1, <1>6, <1>7, <1>8, <2>9, <2>10 DEF VisitInv, Running
<1>11. CASE ~(t.status = "SendingBlocks" /\ t.next >= Len(t.blocks))
  <2>1. UNCHANGED workList
    BY <1>3, <1>11 DEF FillNext
  <2>2. Talk' /\ Sound'
    BY <1>1, <1>2, <1>6, <1>9, <2>1, TalkStays DEF Running
  <2>3. FileOnce'
    BY <1>1, <1>2, <2>1 DEF Running, FileOnce, Tickets
  <2>4. SentInFill'
    BY <1>1, <1>2, <1>3, <1>5, <1>11, <2>1 DEF SentInFill, Running
  <2>5. QED
    BY <1>1, <1>6, <1>7, <1>8, <2>2, <2>3, <2>4 DEF VisitInv, Running
<1>12. QED
  BY <1>10, <1>11

-----------------------------------------------------------------------------
(* The answers of the server. *)

\* A packet that the client reads has its ticket, which is the one found.
LEMMA TheTicket ==
    ASSUME Inv, VisitInv, NEW c, ClientReceives(c)
    PROVE  /\ Running /\ ListsFull /\ pc = "loop" /\ ~scanning /\ ~closing
           /\ ~NoTicket(Head(toClient).file)
           /\ \A i \in DOMAIN workList : WtFind(Head(toClient).file, i) => Accounts(workList[i], Head(toClient))
<1>1. Running /\ ListsFull /\ pc = "loop" /\ ~scanning /\ ~closing
  BY DEF VisitInv, ClientReceives
<1>2. PICK m : m = Head(toClient)
  OBVIOUS
<1>3. m \in Messages
  BY <1>2, ReadFacts
<1>4. PICK t \in Tickets : Accounts(t, m)
  BY <1>1, <1>3 DEF Running, Talk
<1>5. PICK j \in DOMAIN workList : t = workList[j]
  BY DEF Tickets, Elements
<1>6. t.file = m.file
  BY <1>4 DEF Accounts
<1>7. ~NoTicket(m.file)
  BY <1>5, <1>6 DEF NoTicket
<1>8. ASSUME NEW i \in DOMAIN workList, WtFind(m.file, i) PROVE Accounts(workList[i], m)
  <2>1. i = j
    BY <1>1, <1>5, <1>6, <1>8 DEF WtFind, Running, FileOnce
  <2>2. QED
    BY <1>4, <1>5, <2>1
<1>9. QED
  BY <1>1, <1>2, <1>7, <1>8

\* What is asked is asked by a packet on its way.
LEMMA FilesOfMessages ==
    FilesOf(outBuf) \cup FilesOf(toServer) \cup FilesOf(toClient) = UNION {Asked(m) : m \in Messages}
BY DEF FilesOf, Messages, Elements

\* The blocks of a ticket are all stored, or none of them is that of an ack.
LEMMA NewIsNotOld ==
    ASSUME Inv, NEW t, t.file \in File, NEW k \in DOMAIN t.blocks, t.blocks[k].remote = 0
    PROVE  ~OnlyOld(t)
<1>1. SUFFICES ASSUME OnlyOld(t) PROVE FALSE
  OBVIOUS
<1>2. PICK n \in DOMAIN store : n = summary[t.file]
  BY <1>1 DEF OnlyOld, Inv, StorageInv
<1>3. PICK j \in DOMAIN store[n].list : store[n].list[j].remote = 0
  BY <1>1, <1>2 DEF OnlyOld
<1>4. Stored(0, store[n].list[j].local)
  BY <1>3 DEF Inv, StorageInv, Complete
<1>5. QED
  BY <1>4 DEF Stored, Inv, TypeInv, LocalsKnown

\* Ticket x is what ticket t is after the ack of block k, record n.
AckedAs(t, k, n, x) ==
    /\ k \in DOMAIN t.blocks /\ t.blocks[k].remote = 0 /\ k <= t.next /\ n # 0
    /\ x.file = t.file /\ x.next = t.next /\ x.moved = t.moved - 1
    /\ DOMAIN x.blocks = DOMAIN t.blocks /\ x.blocks \in Seq(EntryOf(Ids)) /\ x.blocks[k].remote = n
    /\ \A l \in DOMAIN t.blocks : /\ x.blocks[l].local = t.blocks[l].local
                                  /\ l # k => x.blocks[l] = t.blocks[l]
    /\ t.status # "AwaitingBlockList" /\ x.status \in {t.status, "AwaitingBlockListConfirm"}
    /\ x.moved = 0 => x.status # "AwaitingBlockConfirms"

\* The ack takes the block off the count.
LEMMA AckSound ==
    ASSUME Inv, VisitInv, Running, pc = "loop", NEW i0 \in DOMAIN workList, NEW t, t = workList[i0],
           NEW k0, NEW n, NEW x, AckedAs(t, k0, n, x),
           t.blocks[k0].local \in Flying, Flying' = Flying \ {t.blocks[k0].local}
    PROVE  /\ TicketSound(x)' /\ Locals(x) = Locals(t) /\ Locals(x)' = Locals(t)
           /\ x.moved = 0 => Flying' \cap Locals(t) = {}
<1>0. /\ t \in TicketOf(Ids) /\ TicketSound(t)
      /\ k0 \in DOMAIN t.blocks /\ t.blocks[k0].remote = 0 /\ k0 <= t.next /\ n # 0
      /\ x.file = t.file /\ x.next = t.next /\ x.moved = t.moved - 1
      /\ DOMAIN x.blocks = DOMAIN t.blocks /\ x.blocks \in Seq(EntryOf(Ids)) /\ x.blocks[k0].remote = n
      /\ \A k \in DOMAIN t.blocks : /\ x.blocks[k].local = t.blocks[k].local
                                    /\ k # k0 => x.blocks[k] = t.blocks[k]
      /\ t.status # "AwaitingBlockList" /\ x.status \in {t.status, "AwaitingBlockListConfirm"}
      /\ x.moved = 0 => x.status # "AwaitingBlockConfirms"
  <2>1. t \in Tickets
    BY DEF Tickets, Elements
  <2>2. t \in TicketOf(Ids) /\ TicketSound(t)
    BY <2>1, TicketFacts DEF Running, Sound
  <2>3. QED
    BY <2>2 DEF AckedAs
<1>1. Locals(x) = Locals(t) /\ Locals(x)' = Locals(t)
  BY <1>0 DEF Locals
<1>2. x.moved = Cardinality(Flying' \cap Locals(t)) /\ IsFiniteSet(Flying' \cap Locals(t))
  <2>1. IsFiniteSet(Flying \cap Locals(t)) /\ t.moved = Cardinality(Flying \cap Locals(t))
    BY <1>0, FlyingFinite DEF Inv, TicketSound
  <2>2. t.blocks[k0].local \in Flying \cap Locals(t)
    BY <1>0 DEF Locals
  <2>3. Flying' \cap Locals(t) = (Flying \cap Locals(t)) \ {t.blocks[k0].local}
    OBVIOUS
  <2>4. IsFiniteSet(Flying' \cap Locals(t))
    BY <2>1, <2>3, FS_Subset
  <2>5. PICK S : S = Flying \cap Locals(t)
    OBVIOUS
  <2>6. PICK b : b = t.blocks[k0].local
    OBVIOUS
  <2>7. Cardinality(S \ {b}) = Cardinality(S) - 1
    <3>1. IsFiniteSet(S) /\ b \in S
      BY <2>1, <2>2, <2>5, <2>6
    <3>2. QED
      BY <3>1, FS_RemoveElement
  <2>8. x.moved = t.moved - 1 /\ Flying' \cap Locals(t) = S \ {b}
    BY <1>0, <2>3, <2>5, <2>6
  <2>9. QED
    BY <2>1, <2>4, <2>5, <2>7, <2>8
<1>3. x.moved = 0 => Flying' \cap Locals(t) = {}
  BY <1>2, FS_EmptySet
<1>4. ASSUME NEW k \in DOMAIN x.blocks, k <= x.next, x.blocks[k].remote = 0
      PROVE  x.blocks[k].local \in Flying'
  <2>1. k # k0 /\ t.blocks[k].remote = 0 /\ t.blocks[k].local \in Flying
    BY <1>0, <1>4 DEF TicketSound
  <2>2. t.blocks[k].local # t.blocks[k0].local
    BY <1>0, <1>4, <2>1 DEF Inv, CountInv
  <2>3. QED
    BY <1>0, <1>4, <2>1, <2>2
<1>5. ASSUME x.status = "SendingBlocks" PROVE x.blocks # <<>> /\ x.blocks[Len(x.blocks)].remote = 0
  <2>1. t.file \in File /\ t.blocks \in Seq(EntryOf(Ids)) /\ t.next \in Nat
    BY <1>0, TicketUpdates
  <2>2. t.status = "SendingBlocks" /\ ~OnlyOld(t)
    BY <1>0, <1>5, <2>1, NewIsNotOld
  <2>3. t.blocks # <<>> /\ t.blocks[Len(t.blocks)].remote = 0
    BY <1>0, <2>2 DEF TicketSound
  <2>4. Len(x.blocks) = Len(t.blocks) /\ Len(t.blocks) \in DOMAIN t.blocks /\ x.blocks # <<>>
    BY <1>0, <2>1, <2>3
  <2>5. ~(t.next >= Len(t.blocks))
    BY <2>2, <2>3 DEF Running, SentInFill
  <2>6. k0 # Len(t.blocks)
    BY <1>0, <2>1, <2>5
  <2>7. QED
    BY <1>0, <2>3, <2>4, <2>6
<1>6. TicketSound(x)'
  BY <1>0, <1>1, <1>2, <1>4, <1>5 DEF TicketSound, Stuck
<1>7. QED
  BY <1>1, <1>3, <1>6

\* The ack of a block: the last one due sends the block list.
LEMMA VisitAck ==
    ASSUME Inv, VisitInv, ReceiveBlockAck
    PROVE  VisitInv'
<1>1. /\ ClientReceives("PutBlockAck") /\ Head(toClient).block # 0
      /\ AcceptBlockAck(Head(toClient))
      /\ UNCHANGED <<scanning, todo, cursor, closing, summary, bytes, toServer, store>>
  BY DEF ReceiveBlockAck, serverVars
<1>2. PICK m : m = Head(toClient)
  OBVIOUS
<1>3. /\ toClient # <<>> /\ toClient' = Tail(toClient) /\ m \in Messages /\ m \in MessageOf(Ids)
      /\ MessageTrue(m) /\ m.cmd = "PutBlockAck" /\ m.block # 0
  BY <1>1, <1>2, ReadFacts DEF ClientReceives
<1>4. /\ Running /\ ListsFull /\ pc = "loop" /\ ~scanning /\ ~closing
      /\ ~NoTicket(m.file)
      /\ \A i \in DOMAIN workList : WtFind(m.file, i) => Accounts(workList[i], m)
  BY <1>1, <1>2, TheTicket
<1>5. PICK i0 \in DOMAIN workList :
         /\ WtFind(m.file, i0)
         /\ \/ \E k \in DOMAIN workList[i0].blocks :
                  WtFindBlock(workList[i0], m.block, k) /\ AckBlock(i0, k, m)
            \/ \A k \in DOMAIN workList[i0].blocks : workList[i0].blocks[k].local # m.block
  BY <1>1, <1>2, <1>4 DEF AcceptBlockAck
<1>6. PICK t : t = workList[i0]
  OBVIOUS
<1>7. /\ Accounts(t, m) /\ m.block \in Locals(t) /\ t.file = m.file
      /\ t.status \in {"SendingBlocks", "AwaitingBlockConfirms"}
  BY <1>3, <1>4, <1>5, <1>6 DEF Accounts
<1>8. PICK k0 \in DOMAIN t.blocks : WtFindBlock(t, m.block, k0) /\ AckBlock(i0, k0, m)
  BY <1>5, <1>6, <1>7 DEF Locals
<1>9. /\ t \in Tickets /\ t \in TicketOf(Ids) /\ t.file \in File
      /\ t.blocks \in Seq(EntryOf(Ids)) /\ t.next \in Nat /\ t.moved \in Int
      /\ DOMAIN t.blocks = 1 .. Len(t.blocks) /\ Len(t.blocks) \in Nat /\ TicketSound(t)
  <2>1. t \in Tickets
    BY <1>6 DEF Tickets, Elements
  <2>2. QED
    BY <1>4, <2>1, TicketFacts DEF Running, Sound
<1>10. /\ m.block \in Flying /\ t.blocks[k0].local = m.block
       /\ t.blocks[k0].remote = 0 /\ k0 <= t.next
  <2>1. m.block \in Flying
    BY <1>3, FlyingIsOfMessages
  <2>2. t.blocks[k0].local = m.block
    BY <1>8 DEF WtFindBlock
  <2>3. QED
    BY <1>6, <2>1, <2>2 DEF Inv, CountInv, SentEntry
<1>11. m.id \in Nat /\ m.id # 0
  <2>1. Stored(m.id, m.block)
    BY <1>3 DEF MessageTrue
  <2>2. QED
    BY <1>3, <2>1, MessageFields DEF Stored, Inv, TypeInv, LocalsKnown
<1>12. PICK u : u = Acked(t, k0, m.id)
  OBVIOUS
<1>13. /\ DOMAIN u.blocks = DOMAIN t.blocks
       /\ \A k \in DOMAIN t.blocks : /\ u.blocks[k].local = t.blocks[k].local
                                     /\ k # k0 => u.blocks[k] = t.blocks[k]
       /\ u.blocks[k0].remote = m.id
       /\ u.blocks \in Seq(EntryOf(Ids))
       /\ u.file = t.file /\ u.next = t.next /\ u.moved = t.moved - 1 /\ u.status = t.status
       /\ u \in TicketOf(Ids)
  <2>1. t \in TicketOf(Ids) /\ k0 \in DOMAIN t.blocks /\ m.id \in Nat
    BY <1>8, <1>9, <1>11
  <2>2. QED
    BY <1>12, <2>1, AckedTicket
<1>14. PICK v : v = [u EXCEPT !.status = "AwaitingBlockListConfirm"]
  OBVIOUS
<1>15. /\ v.blocks = u.blocks /\ v.file = t.file /\ v.next = t.next /\ v.moved = t.moved - 1
       /\ v.status = "AwaitingBlockListConfirm"
  BY <1>13, <1>14 DEF TicketOf
<1>16. PICK w : w = PutBlock(t.file, 0, ListObject(BlockList(u.blocks)))
  OBVIOUS
<1>17. /\ pc' = pc
       /\ \/ /\ ListDue(t, u)
             /\ workList' = [workList EXCEPT ![i0] = v] /\ outBuf' = Append(outBuf, w)
          \/ /\ ~ListDue(t, u)
             /\ workList' = [workList EXCEPT ![i0] = u] /\ outBuf' = outBuf
  BY <1>6, <1>8, <1>12, <1>14, <1>16 DEF AckBlock, Acked
<1>18. /\ w \in MessageOf(Ids) /\ w.block = 0 /\ w.cmd = "PutBlock" /\ w.file = t.file
       /\ w.obj.list = BlockList(u.blocks) /\ w.obj.list # <<>> /\ Asked(w) = {t.file}
  <2>1. ListObject(BlockList(u.blocks)) \in ObjectOf(Ids)
    BY <1>13, BlockListType, ObjectTypes
  <2>2. w \in MessageOf(Ids)
    BY <1>9, <1>16, <2>1, MessageTypes
  <2>3. k0 \in DOMAIN BlockList(u.blocks)
    BY <1>13 DEF BlockList
  <2>4. BlockList(u.blocks) # <<>>
    BY <2>3
  <2>5. QED
    BY <1>16, <2>2, <2>4 DEF PutBlock, ListObject, Asked
<1>19. PICK x : /\ x = IF ListDue(t, u) THEN v ELSE u
                /\ workList' = [workList EXCEPT ![i0] = x]
  BY <1>17
<1>20. PICK W : /\ W = IF ListDue(t, u) THEN {w} ELSE {}
                /\ \/ W = {} /\ outBuf' = outBuf
                   \/ \E y : W = {y} /\ outBuf' = Append(outBuf, y)
  BY <1>17
\* No packet asks for the file of the ticket yet.
<1>21. ASSUME t.status = "AwaitingBlockConfirms"
       PROVE  t.file \notin FilesOf(outBuf) \cup FilesOf(toServer) \cup FilesOf(toClient)
  <2>1. SUFFICES ASSUME NEW y \in Messages, t.file \in Asked(y) PROVE FALSE
    BY FilesOfMessages
  <2>2. y.block = 0 /\ y # Bye /\ y.file = t.file
    BY <2>1 DEF Asked, Bye
  <2>3. PICK z \in Tickets : Accounts(z, y)
    BY <1>4, <2>2 DEF Talk, Running
  <2>4. z = t
    BY <1>4, <1>6, <2>2, <2>3, OneTicket DEF Accounts, Running
  <2>5. QED
    BY <1>21, <2>2, <2>3, <2>4 DEF Accounts
<1>22. FilesOf(toClient') \subseteq FilesOf(toClient)
  BY <1>3, TailAsks, QueueTypes DEF Inv
<1>23. /\ Messages' \subseteq Messages \cup W
       /\ Flying' = Flying \ {m.block}
       /\ AskedOnce'
  <2>1. W \in SUBSET MessageOf(Ids') /\ Ids \subseteq Ids' /\ {y.block : y \in W} \ {0} = {}
    BY <1>1, <1>18, <1>20 DEF Ids
  <2>2. \A y \in W : Asked(y) \cap (FilesOf(outBuf) \cup FilesOf(toServer) \cup FilesOf(toClient')) = {}
    BY <1>18, <1>20, <1>21, <1>22 DEF ListDue
  <2>3. PICK R : R = {m}
    OBVIOUS
  <2>4. toClient # <<>> /\ R = {Head(toClient)} /\ toClient' = Tail(toClient)
    BY <1>2, <1>3, <2>3
  <2>5. /\ Messages' \subseteq Messages \cup W
        /\ Flying' = (Flying \ {y.block : y \in R}) \cup ({y.block : y \in W} \ {0})
        /\ AskedOnce'
    <3>1. AskedOnce /\ UNCHANGED toServer
      BY <1>1, <1>4 DEF Running
    <3>2. (W = {} /\ outBuf' = outBuf) \/ \E y : W = {y} /\ outBuf' = Append(outBuf, y)
      BY <1>20
    <3>3. QED
      BY <2>1, <2>2, <2>4, <3>1, <3>2, TalkQueues
  <2>6. {y.block : y \in R} = {m.block}
    BY <2>3
  <2>7. QED
    BY <2>1, <2>5, <2>6
<1>24. /\ x.file = t.file /\ x.next = t.next /\ x.moved = t.moved - 1 /\ x.blocks = u.blocks
       /\ x.status = IF ListDue(t, u) THEN "AwaitingBlockListConfirm" ELSE t.status
  BY <1>13, <1>15, <1>19
<1>25. /\ TicketSound(x)' /\ Locals(x) = Locals(t) /\ Locals(x)' = Locals(t)
       /\ x.moved = 0 => Flying' \cap Locals(t) = {}
  <2>1. x.status \in {t.status, "AwaitingBlockListConfirm"} /\ t.status # "AwaitingBlockList"
    BY <1>7, <1>24
  <2>2. x.moved = 0 => x.status # "AwaitingBlockConfirms"
    BY <1>13, <1>24 DEF ListDue
  <2>3. t.blocks[k0].local \in Flying /\ Flying' = Flying \ {t.blocks[k0].local}
    BY <1>10, <1>23
  <2>4. /\ DOMAIN x.blocks = DOMAIN t.blocks /\ x.blocks \in Seq(EntryOf(Ids)) /\ x.blocks[k0].remote = m.id
        /\ \A k \in DOMAIN t.blocks : /\ x.blocks[k].local = t.blocks[k].local
                                      /\ k # k0 => x.blocks[k] = t.blocks[k]
    BY <1>13, <1>24
  <2>5. AckedAs(t, k0, m.id, x)
    BY <1>8, <1>10, <1>11, <1>24, <2>1, <2>2, <2>4 DEF AckedAs
  <2>6. QED
    BY <1>4, <1>5, <1>6, <2>3, <2>5, AckSound
<1>26. \A y \in Messages' : Accounts(x, y)' \/ (y \in Messages /\ ~Accounts(t, y))
  <2>1. CASE ListDue(t, u)
    <3>1. x.moved = 0 /\ x.status = "AwaitingBlockListConfirm" /\ t.status = "AwaitingBlockConfirms"
      BY <1>13, <1>24, <2>1 DEF ListDue
    <3>2. ASSUME NEW y \in Messages', y \notin W PROVE y \in Messages /\ ~Accounts(t, y)
      <4>1. y \in Messages
        BY <1>23, <3>2
      <4>2. SUFFICES ASSUME y.block # 0, y.block \in Locals(t) PROVE FALSE
        BY <3>1, <4>1 DEF Accounts
      <4>3. y.block \in Flying'
        BY <3>2, <4>2, FlyingIsOfMessages
      <4>4. QED
        BY <1>25, <3>1, <4>2, <4>3
    <3>3. W = {w} /\ Accounts(x, w)'
      BY <1>18, <1>20, <1>24, <2>1, <3>1 DEF Accounts
    <3>4. QED
      BY <3>2, <3>3
  <2>2. CASE ~ListDue(t, u)
    <3>1. W = {} /\ x.status = t.status
      BY <1>20, <1>24, <2>2
    <3>2. \A y : Accounts(t, y) => Accounts(x, y)'
      BY <1>7, <1>24, <1>25, <3>1 DEF Accounts
    <3>3. QED
      BY <1>23, <3>1, <3>2
  <2>3. QED
    BY <2>1, <2>2
<1>27. Talk' /\ Sound' /\ FileOnce'
  <2>1. Grown /\ x.file = workList[i0].file
    BY <1>1, <1>6, <1>24 DEF Grown
  <2>2. ASSUME NEW z \in Tickets, z # workList[i0] PROVE Flying' \cap Locals(z) = Flying \cap Locals(z)
    <3>1. t.file # z.file
      BY <1>4, <1>6, <2>2, OneTicket DEF Running
    <3>2. m.block \notin Locals(z)
      BY <1>9, <1>10, <3>1, TicketFacts
    <3>3. QED
      BY <1>23, <3>2
  <2>3. QED
    BY <1>1, <1>4, <1>6, <1>19, <1>25, <1>26, <2>1, <2>2, ChangeStays
<1>28. SentInFill'
  <2>1. /\ DOMAIN workList' = DOMAIN workList /\ workList'[i0] = x
        /\ \A i \in DOMAIN workList : i # i0 => workList'[i] = workList[i]
    BY <1>19
  <2>2. Len(x.blocks) = Len(t.blocks) /\ t.blocks # <<>>
    BY <1>9, <1>13, <1>24
  <2>3. \A i \in DOMAIN workList : ~(/\ workList[i].status = "SendingBlocks" /\ workList[i].blocks # <<>>
                                     /\ workList[i].next >= Len(workList[i].blocks))
    BY <1>4 DEF Running, SentInFill
  <2>4. ~(x.status = "SendingBlocks" /\ x.next >= Len(x.blocks))
    BY <1>6, <1>24, <2>2, <2>3
  <2>5. pc' # "fill"
    BY <1>4, <1>17
  <2>6. QED
    BY <2>1, <2>3, <2>4, <2>5 DEF SentInFill
<1>29. ByeSaid' /\ pc' = "loop"
  BY <1>1, <1>4, <1>17 DEF ByeSaid
<1>30. ListsFull'
  <2>1. \A y \in Messages' : y.obj.kind = "list" => y.obj.list # <<>>
    BY <1>4, <1>18, <1>20, <1>23 DEF ListsFull
  <2>2. QED
    BY <1>1, <1>4, <2>1 DEF ListsFull
<1>31. QED
  BY <1>23, <1>27, <1>28, <1>29, <1>30 DEF VisitInv, Running

\* The ack of a block list: the ticket is done, and the goodbye comes after the last.
LEMMA VisitDone ==
    ASSUME Inv, VisitInv, ReceiveListAck
    PROVE  VisitInv'
<1>1. /\ ClientReceives("PutBlockAck") /\ Head(toClient).block = 0
      /\ AcceptListAck(Head(toClient))
      /\ UNCHANGED <<bytes, toServer, store>>
  BY DEF ReceiveListAck, serverVars
<1>2. PICK m : m = Head(toClient)
  OBVIOUS
<1>3. /\ toClient # <<>> /\ toClient' = Tail(toClient) /\ m \in Messages
      /\ m.cmd = "PutBlockAck" /\ m.block = 0 /\ Asked(m) = {m.file}
  BY <1>1, <1>2, ReadFacts DEF ClientReceives, Asked
<1>4. /\ Running /\ ListsFull /\ pc = "loop" /\ ~scanning /\ ~closing
      /\ ~NoTicket(m.file)
      /\ \A i \in DOMAIN workList : WtFind(m.file, i) => Accounts(workList[i], m)
  BY <1>1, <1>2, TheTicket
<1>5. PICK i0 \in DOMAIN workList :
         /\ WtFind(m.file, i0)
         /\ summary' = [summary EXCEPT ![m.file] = m.id]
         /\ workList' = RemoveAt(workList, i0)
         /\ ByeIfDone(workList')
         /\ UNCHANGED <<pc, scanning, todo, cursor>>
  BY <1>1, <1>2, <1>4 DEF AcceptListAck
<1>6. PICK t : t = workList[i0]
  OBVIOUS
<1>7. /\ t \in Tickets /\ Accounts(t, m) /\ t.file = m.file /\ t.status = "AwaitingBlockListConfirm"
  BY <1>3, <1>4, <1>5, <1>6 DEF Accounts, Tickets, Elements
<1>8. Ids' = Ids /\ Bye \in MessageOf(Ids) /\ Asked(Bye) = {} /\ Bye.block = 0 /\ Bye.obj.kind = "none"
  BY <1>1 DEF Ids, Bye, MessageOf, NoObject, ObjectOf, Asked
<1>9. PICK W \in SUBSET {Bye} : \/ W = {} /\ UNCHANGED <<outBuf, closing>>
                                \/ /\ W = {Bye} /\ outBuf' = Append(outBuf, Bye) /\ closing'
                                   /\ workList' = <<>>
  BY <1>5 DEF ByeIfDone, SayBye
<1>10. /\ Messages' \subseteq Messages \cup W
       /\ Flying' = Flying
       /\ AskedOnce'
       /\ \A y \in Messages' : Asked(y) = {m.file} => y = Bye
  <2>1. W \in SUBSET MessageOf(Ids') /\ Ids \subseteq Ids' /\ {y.block : y \in W} \ {0} = {}
    BY <1>8
  <2>2. PICK R : R = {m}
    OBVIOUS
  <2>3. toClient # <<>> /\ R = {Head(toClient)} /\ toClient' = Tail(toClient)
    BY <1>2, <1>3, <2>2
  <2>4. AskedOnce /\ UNCHANGED toServer
    BY <1>1, <1>4 DEF Running
  <2>5. (W = {} /\ outBuf' = outBuf) \/ \E y : W = {y} /\ outBuf' = Append(outBuf, y)
    BY <1>9
  <2>6. \A y \in W : Asked(y) \cap (FilesOf(outBuf) \cup FilesOf(toServer) \cup FilesOf(toClient')) = {}
    BY <1>8
  <2>7. /\ Messages' \subseteq Messages \cup W
        /\ Flying' = (Flying \ {y.block : y \in R}) \cup ({y.block : y \in W} \ {0})
        /\ AskedOnce'
        /\ \A z \in R, y \in Messages' : Asked(y) \cap Asked(z) # {} => y \in W
    <3>1. (R = {} /\ toClient' = toClient)
          \/ (toClient # <<>> /\ R = {Head(toClient)} /\ toClient' = Tail(toClient))
      BY <2>3
    <3>2. W \in SUBSET MessageOf(Ids') /\ Ids \subseteq Ids'
      BY <2>1
    <3>3. QED
      BY <2>4, <2>5, <2>6, <3>1, <3>2, TalkQueues
  <2>8. {y.block : y \in R} = {0} /\ 0 \notin Flying
    BY <1>3, <2>2, QueueTypes DEF Inv
  <2>9. \A y \in Messages' : Asked(y) = {m.file} => y = Bye
    BY <1>3, <2>2, <2>7
  <2>10. QED
    BY <1>8, <2>1, <2>7, <2>8, <2>9
<1>11. /\ Tickets' = Tickets \ {t}
       /\ \A i, j \in DOMAIN workList' : workList'[i].file = workList'[j].file => i = j
  BY <1>4, <1>5, <1>6, TicketsLeave DEF Running
<1>12. ASSUME NEW z \in Tickets, z # t
       PROVE  TicketSound(z)' /\ \A y : Accounts(z, y) => Accounts(z, y)'
  <2>1. z.file # m.file
    BY <1>4, <1>5, <1>6, <1>7, <1>12, OneTicket DEF Running
  <2>2. summary'[z.file] = summary[z.file]
    BY <1>5, <2>1
  <2>3. Grown
    BY <1>1 DEF Grown
  <2>4. TicketSound(z)
    BY <1>4 DEF Running, Sound
  <2>5. QED
    BY <1>10, <2>2, <2>3, <2>4, TicketStays
<1>13. Sound'
  BY <1>11, <1>12 DEF Sound
\* What was said before the goodbye belongs to the other tickets.
<1>14. ASSUME NEW y \in Messages', y \in Messages PROVE \E z \in Tickets' : Accounts(z, y)'
  <2>1. PICK z \in Tickets : Accounts(z, y)
    BY <1>4, <1>14 DEF Running, Talk
  <2>2. CASE z = t
    <3>1. y.file = m.file /\ y.block = 0 /\ y.cmd # "Bye"
      BY <1>7, <2>1, <2>2 DEF Accounts
    <3>2. y = Bye
      BY <1>10, <3>1 DEF Asked
    <3>3. QED
      BY <3>1, <3>2 DEF Bye
  <2>3. CASE z # t
    BY <1>11, <1>12, <2>1, <2>3
  <2>4. QED
    BY <2>2, <2>3
<1>15. Talk'
  BY <1>9, <1>10, <1>14 DEF Talk
<1>16. FileOnce'
  <2>1. \A z \in Tickets' : \A i \in DOMAIN todo' : z.file # todo'[i]
    BY <1>4, <1>5, <1>11 DEF Running, FileOnce
  <2>2. QED
    BY <1>4, <1>5, <1>11, <2>1 DEF Running, FileOnce
<1>17. SentInFill'
  <2>1. ASSUME NEW i \in DOMAIN workList' PROVE \E j \in DOMAIN workList : workList'[i] = workList[j]
    <3>1. workList'[i] \in Tickets
      BY <1>11 DEF Tickets, Elements
    <3>2. QED
      BY <3>1 DEF Tickets, Elements
  <2>2. \A i \in DOMAIN workList : ~(/\ workList[i].status = "SendingBlocks" /\ workList[i].blocks # <<>>
                                     /\ workList[i].next >= Len(workList[i].blocks))
    BY <1>4 DEF Running, SentInFill
  <2>3. QED
    BY <1>4, <1>5, <2>1, <2>2 DEF SentInFill
<1>18. ByeSaid'
  <2>1. SUFFICES ASSUME closing' PROVE outBuf' = <<Bye>> /\ workList' = <<>> /\ ~scanning' /\ todo' = <<>>
    BY DEF ByeSaid
  <2>2. workList' = <<>> /\ outBuf' = Append(outBuf, Bye) /\ ~scanning' /\ todo' = <<>>
    BY <1>4, <1>5, <1>9, <2>1 DEF Running, FileOnce
  <2>3. Tickets' = {}
    BY <2>2 DEF Tickets, Elements
  <2>4. Elements(outBuf) \subseteq Messages /\ Elements(outBuf) \subseteq Messages'
    <3>1. outBuf \in Seq(MessageOf(Ids))
      BY QueueTypes DEF Inv
    <3>2. Elements(outBuf') = Elements(outBuf) \cup {Bye}
      BY <1>8, <2>2, <3>1, AppendFacts
    <3>3. QED
      BY <3>2 DEF Messages
  <2>5. Elements(outBuf) = {}
    BY <1>14, <2>3, <2>4
  <2>6. outBuf = <<>>
    <3>1. DOMAIN outBuf = {}
      BY <2>5 DEF Elements
    <3>2. outBuf \in Seq(MessageOf(Ids)) /\ DOMAIN outBuf = 1 .. Len(outBuf) /\ Len(outBuf) \in Nat
      BY QueueTypes DEF Inv
    <3>3. Len(outBuf) = 0
      BY <3>1, <3>2
    <3>4. QED
      BY <3>2, <3>3
  <2>7. QED
    BY <2>2, <2>6
<1>19. ListsFull'
  BY <1>1, <1>4, <1>8, <1>10, ListsStay
<1>20. QED
  BY <1>4, <1>5, <1>10, <1>13, <1>15, <1>16, <1>17, <1>18, <1>19 DEF VisitInv, Running

\* A block list: it is the one in the archive, which is not empty, and the cover
\* is computed from it.
LEMMA VisitList ==
    ASSUME Inv, VisitInv, ReceiveBlockList
    PROVE  VisitInv'
<1>1. /\ ClientReceives("GetBlockAck") /\ AcceptBlockList(Head(toClient))
      /\ UNCHANGED <<scanning, todo, cursor, closing, summary, toServer, store>>
  BY DEF ReceiveBlockList, serverVars
<1>2. PICK m : m = Head(toClient)
  OBVIOUS
<1>3. /\ toClient # <<>> /\ toClient' = Tail(toClient) /\ m \in Messages /\ m \in MessageOf(Ids)
      /\ m.cmd = "GetBlockAck" /\ ListOld(m.obj.list) /\ m.obj.list \in Seq(ListEntryOf(Ids))
  <2>1. m \in Messages /\ m \in MessageOf(Ids) /\ ListOld(m.obj.list)
    BY <1>1, <1>2, ReadFacts
  <2>2. m.obj.list \in Seq(ListEntryOf(Ids))
    BY <2>1, MessageFields
  <2>3. QED
    BY <1>1, <1>2, <2>1, <2>2 DEF ClientReceives
<1>4. /\ Running /\ ListsFull /\ pc = "loop" /\ ~scanning /\ ~closing
      /\ ~NoTicket(m.file)
      /\ \A i \in DOMAIN workList : WtFind(m.file, i) => Accounts(workList[i], m)
  BY <1>1, <1>2, TheTicket
<1>5. PICK i0 \in DOMAIN workList :
         /\ WtFind(m.file, i0)
         /\ \/ /\ m.obj.kind # "none" /\ ~WtAssert(workList[i0], m.obj.list)
            \/ /\ m.obj.kind # "none" /\ WtAssert(workList[i0], m.obj.list)
               /\ StartArchive(i0, m.obj.list)
               /\ UNCHANGED <<pc, outBuf>>
            \/ m.obj.kind = "none"
  BY <1>1, <1>2, <1>4 DEF AcceptBlockList
<1>6. PICK t : t = workList[i0]
  OBVIOUS
<1>7. /\ t \in Tickets /\ t \in TicketOf(Ids) /\ t.file \in File /\ TicketSound(t) /\ Accounts(t, m)
      /\ t.file = m.file /\ t.status = "AwaitingBlockList" /\ m.block = 0 /\ Asked(m) = {m.file}
      /\ m.obj = store[summary[t.file]] /\ t.blocks = <<>> /\ t.next = 0 /\ summary[t.file] # 0
  <2>1. t \in Tickets /\ Accounts(t, m)
    BY <1>4, <1>5, <1>6 DEF Tickets, Elements
  <2>2. t \in TicketOf(Ids) /\ t.file \in File /\ TicketSound(t)
    BY <1>4, <2>1, TicketFacts DEF Running, Sound
  <2>3. t.file = m.file /\ t.status = "AwaitingBlockList" /\ m.block = 0 /\ m.obj = store[summary[t.file]]
    BY <1>3, <2>1 DEF Accounts
  <2>4. QED
    BY <1>3, <2>1, <2>2, <2>3 DEF TicketSound, Asked
<1>8. PICK list : list = m.obj.list
  OBVIOUS
<1>9. /\ m.obj.kind = "list" /\ list # <<>> /\ list = store[summary[t.file]].list
      /\ list \in Seq(ListEntryOf(Ids)) /\ WtAssert(t, list)
  <2>1. summary[t.file] \in DOMAIN store /\ store[summary[t.file]].kind = "list"
    BY <1>7 DEF Inv, StorageInv
  <2>2. list # <<>> /\ list \in Seq(ListEntryOf(Ids))
    BY <1>3, <1>4, <1>7, <1>8, <2>1 DEF ListsFull
  <2>3. WtAssert(t, list)
    BY <1>7, <2>2 DEF WtAssert
  <2>4. QED
    BY <1>7, <1>8, <2>1, <2>2, <2>3
<1>10. StartArchive(i0, list) /\ UNCHANGED <<pc, outBuf>>
  BY <1>5, <1>6, <1>8, <1>9
<1>11. PICK keep \in SUBSET DOMAIN list, move \in SUBSET DOMAIN list, n \in MinNew .. MaxNew :
          LET cover == NewCover(list, keep, move, n)
          IN  /\ move \in SUBSET keep
              /\ workList' = [workList EXCEPT ![i0].blocks = cover,
                                              ![i0].status = "SendingBlocks",
                                              ![i0].next = 0]
              /\ bytes' = CoverBytes(list, n)
  <2>1. \A keep \in SUBSET DOMAIN list : \A move \in SUBSET keep : move \in SUBSET DOMAIN list
    OBVIOUS
  <2>2. QED
    BY <1>10, <2>1, Zenon DEF StartArchive
<1>12. n \in Nat
  BY <1>11, ConstantsAssumption
<1>13. PICK cover : cover = NewCover(list, keep, move, n)
  OBVIOUS
<1>14. PICK u : u = [[[t EXCEPT !.blocks = cover] EXCEPT !.status = "SendingBlocks"] EXCEPT !.next = 0]
  OBVIOUS
<1>15. workList' = [workList EXCEPT ![i0] = u]
  BY <1>5, <1>6, <1>7, <1>11, <1>13, <1>14
<1>16. /\ u.file = t.file /\ u.status = "SendingBlocks" /\ u.blocks = cover /\ u.next = 0 /\ u.moved = 0
  <2>1. Locals(t) = {}
    BY <1>7 DEF Locals
  <2>2. t.moved = 0
    BY <1>7, <2>1, FS_EmptySet DEF TicketSound
  <2>3. QED
    BY <1>7, <1>14, <2>2 DEF TicketOf
<1>17. Grown
  BY <1>1, <1>9, <1>11, <1>12, CoverGrows DEF Inv, TypeInv, Plain
<1>18. /\ Messages' \subseteq Messages
       /\ Flying' = Flying
       /\ AskedOnce'
       /\ \A y \in Messages' : Asked(y) # {m.file}
  <2>1. Ids \subseteq Ids'
    <3>1. bytes \in Seq(Nat) /\ bytes' \in Seq(Nat)
      BY <1>1, <1>9, <1>11, <1>12, CoverGrows DEF Inv, TypeInv, Plain
    <3>2. QED
      BY <1>17, <3>1 DEF Ids, Grown
  <2>2. AskedOnce /\ UNCHANGED toServer /\ UNCHANGED outBuf
    BY <1>1, <1>4, <1>10 DEF Running
  <2>3. /\ Messages' \subseteq Messages
        /\ Flying' = Flying \ {m.block}
        /\ AskedOnce'
        /\ \A y \in Messages' : Asked(y) \cap Asked(m) = {}
    BY <1>2, <1>3, <2>1, <2>2, ReadsOnly
  <2>4. 0 \notin Flying
    BY QueueTypes DEF Inv
  <2>5. QED
    BY <1>7, <2>3, <2>4
<1>19. TicketSound(u)' /\ (u.blocks # <<>> => ~(u.next >= Len(u.blocks)))
  <2>1. ListOld(list) /\ Flying' \subseteq Flying
    BY <1>3, <1>8, <1>18
  <2>2. list # <<>> => summary'[u.file] # 0 /\ store'[summary'[u.file]].list = list
    BY <1>1, <1>7, <1>9, <1>16
  <2>3. u.blocks = NewCover(list, keep, move, n)
    BY <1>13, <1>16
  <2>4. keep \in SUBSET DOMAIN list /\ move \in SUBSET keep
    BY <1>11
  <2>5. QED
    BY <1>9, <1>12, <1>16, <2>1, <2>2, <2>3, <2>4, CoverSound
<1>20. Talk' /\ Sound' /\ FileOnce'
  <2>1. ASSUME NEW y \in Messages' PROVE y \in Messages /\ ~Accounts(workList[i0], y)
    <3>1. y \in Messages /\ Asked(y) # {m.file}
      BY <1>18
    <3>2. QED
      BY <1>6, <1>7, <3>1 DEF Accounts, Asked
  <2>2. u.file = workList[i0].file
    BY <1>6, <1>16
  <2>3. QED
    BY <1>1, <1>4, <1>5, <1>15, <1>17, <1>18, <1>19, <2>1, <2>2, ChangeStays
<1>21. SentInFill'
  <2>1. /\ DOMAIN workList' = DOMAIN workList /\ workList'[i0] = u
        /\ \A i \in DOMAIN workList : i # i0 => workList'[i] = workList[i]
    BY <1>5, <1>15
  <2>2. pc' = "loop"
    BY <1>4, <1>10
  <2>3. QED
    BY <1>4, <1>19, <2>1, <2>2 DEF Running, SentInFill
<1>22. ByeSaid' /\ pc' = "loop"
  BY <1>1, <1>4, <1>10 DEF ByeSaid
<1>23. ListsFull'
  BY <1>1, <1>4, <1>18, ListsStay
<1>24. QED
  BY <1>18, <1>20, <1>21, <1>22, <1>23 DEF VisitInv, Running

-----------------------------------------------------------------------------
(* Every step. *)

\* The server's process ends, the client's on the spot, or nothing happens.
LEMMA VisitStill ==
    ASSUME Inv, VisitInv, pc' = pc \/ (pc = "loop" /\ pc' = "noPreference"),
           UNCHANGED <<scanning, todo, workList, cursor, closing, outBuf>>,
           UNCHANGED <<summary, bytes, toServer, toClient, store>>
    PROVE  VisitInv'
<1>1. Messages' = Messages /\ Flying' = Flying
  BY DEF Messages, Flying
<1>2. ListsFull'
  BY <1>1, ListsStay DEF VisitInv
<1>3. ASSUME Running PROVE Running'
  <2>1. Grown
    BY DEF Grown
  <2>2. Talk' /\ Sound'
    BY <1>1, <1>3, <2>1, TalkStays DEF Running
  <2>3. FileOnce'
    BY <1>3 DEF Running, FileOnce, Tickets
  <2>4. AskedOnce' /\ SentInFill' /\ ByeSaid'
    BY <1>3 DEF Running, AskedOnce, SentInFill, ByeSaid
  <2>5. QED
    BY <2>2, <2>3, <2>4 DEF Running
<1>4. QED
  BY <1>2, <1>3 DEF VisitInv

LEMMA VisitNoPreference ==
    ASSUME Inv, VisitInv, NEW f, VisitUntouched(f)
    PROVE  VisitInv'
BY VisitStill DEF VisitUntouched, Reported, tableVars, serverVars, wireVars

LEMMA VisitArchive == Inv /\ Inv' /\ VisitInv /\ ArchiveStep => VisitInv'
BY VisitEnd, VisitCovers, VisitAsks, VisitOld, VisitNoPreference DEF ArchiveStep

LEMMA VisitOutput == Inv /\ VisitInv /\ OutputStep => VisitInv'
<1> SUFFICES ASSUME Inv, VisitInv, OutputStep PROVE VisitInv'
  OBVIOUS
<1>1. CASE OutputBuffered
  BY <1>1, VisitWrite DEF OutputBuffered, tableVars, serverVars
<1>2. CASE FillStart
  BY <1>2, VisitFill DEF FillStart, wireVars, tableVars, serverVars
<1>3. CASE FillBlock
  BY <1>3, VisitSends
<1>4. CASE FillNext
  BY <1>4, VisitNext
<1>5. CASE FillEnd
  <2>1. CASE outBuf # <<>>
    BY <1>5, <2>1, VisitWrite DEF FillEnd, tableVars, serverVars
  <2>2. CASE outBuf = <<>> /\ closing
    BY <1>5, <2>2, VisitGone DEF FillEnd, serverVars
  <2>3. CASE outBuf = <<>> /\ ~closing
    BY <1>5, <2>3, VisitFill DEF FillEnd, tableVars, serverVars
  <2>4. QED
    BY <2>1, <2>2, <2>3
<1>6. QED
  BY <1>1, <1>2, <1>3, <1>4, <1>5 DEF OutputStep

LEMMA VisitInput == Inv /\ VisitInv /\ InputStep => VisitInv'
BY VisitAck, VisitDone, VisitList DEF InputStep

LEMMA VisitServer == Inv /\ VisitInv /\ ServerStep => VisitInv'
BY VisitPut, VisitGet, VisitBye DEF ServerStep

LEMMA VisitOther ==
    ASSUME OnceEach, Inv, VisitInv,
           \/ StartRun \/ ClientSignal \/ ServerSignal \/ ClientHangup \/ ServerHangup
           \/ UNCHANGED vars
    PROVE  VisitInv'
<1>1. CASE StartRun
  BY <1>1, VisitStart
<1>2. CASE ClientSignal
  BY <1>2, VisitGone DEF ClientSignal, wireVars, serverVars
<1>3. CASE ClientHangup
  BY <1>3, VisitGone DEF ClientHangup, wireVars, serverVars
<1>4. CASE ServerSignal
  BY <1>4, VisitStill DEF ServerSignal, clientVars, tableVars, wireVars
<1>5. CASE ServerHangup
  BY <1>5, VisitStill DEF ServerHangup, clientVars, tableVars, wireVars
<1>6. CASE UNCHANGED vars
  BY <1>6, VisitStill DEF vars, clientVars, tableVars, wireVars, serverVars
<1>7. QED
  BY <1>1, <1>2, <1>3, <1>4, <1>5, <1>6

\* Every step keeps it.
LEMMA VisitStep == OnceEach /\ Inv /\ Inv' /\ VisitInv /\ [Next]_vars => VisitInv'
<1> SUFFICES ASSUME OnceEach, Inv, Inv', VisitInv, [Next]_vars PROVE VisitInv'
  OBVIOUS
<1>1. CASE ClientStep
  BY <1>1, VisitArchive, VisitOutput, VisitInput DEF ClientStep
<1>2. CASE ServerStep
  BY <1>2, VisitServer
<1>3. CASE \/ StartRun \/ ClientSignal \/ ServerSignal \/ ClientHangup \/ ServerHangup
           \/ UNCHANGED vars
  BY <1>3, VisitOther
<1>4. QED
  BY <1>1, <1>2, <1>3 DEF Next, Rest

LEMMA VisitAlways == OnceEach => (Spec => []VisitInv)
<1> SUFFICES ASSUME OnceEach PROVE Spec => []VisitInv
  OBVIOUS
<1>1. Init => VisitInv
  BY VisitInit
<1>2. Inv /\ Inv' /\ VisitInv /\ [Next]_vars => VisitInv'
  BY VisitStep
<1>3. QED
  BY <1>1, <1>2, InvAlways, PTL DEF Spec

\* No g_assert of the client fails: an ack finds its ticket, and a block list that
\* comes back is not empty.
THEOREM NoAbort == OnceEach => (Spec => []NeverAborts)
<1> SUFFICES ASSUME OnceEach PROVE Spec => []NeverAborts
  OBVIOUS
<1>1. VisitInv => NeverAborts
  BY DEF VisitInv, NeverAborts
<1>2. QED
  BY <1>1, VisitAlways, PTL

\* After the goodbye nothing is open, to be sent, or expected.
THEOREM GoodbyeIsLast == OnceEach => (Spec => []ByeIsLast)
<1> SUFFICES ASSUME OnceEach PROVE Spec => []ByeIsLast
  OBVIOUS
<1>1. VisitInv => ByeIsLast
  <2> SUFFICES ASSUME VisitInv, closing
               PROVE  /\ workList = <<>> /\ ~scanning /\ todo = <<>> /\ outBuf \in {<<>>, <<Bye>>}
                      /\ \A i \in DOMAIN toServer : toServer[i] = Bye
                      /\ \A i \in DOMAIN toClient : toClient[i] = Bye
    BY DEF ByeIsLast
  <2>1. Running
    BY DEF VisitInv
  <2>2. workList = <<>> /\ ~scanning /\ todo = <<>> /\ outBuf \in {<<>>, <<Bye>>}
    BY <2>1 DEF Running, ByeSaid
  <2>3. \A m \in Messages : m = Bye
    BY <2>1, <2>2 DEF Running, Talk, Tickets, Elements
  <2>4. QED
    BY <2>2, <2>3 DEF Messages, Elements
<1>2. QED
  BY <1>1, VisitAlways, PTL

\* A file that is stuck loses nothing: all that its ticket lists is already in the
\* archived copy.
THEOREM StuckIsHarmless == OnceEach => (Spec => []StuckHasNothingNew)
<1> SUFFICES ASSUME OnceEach PROVE Spec => []StuckHasNothingNew
  OBVIOUS
<1>1. VisitInv => StuckHasNothingNew
  <2> SUFFICES ASSUME VisitInv, NEW i \in DOMAIN workList, Stuck(workList[i])
               PROVE  OnlyOld(workList[i])
    BY DEF StuckHasNothingNew, OnlyOld
  <2>1. workList[i] \in Tickets
    BY DEF Tickets, Elements
  <2>2. Running
    BY DEF VisitInv
  <2>3. QED
    BY <2>1, <2>2 DEF Running, Sound, TicketSound
<1>2. QED
  BY <1>1, VisitAlways, PTL

-----------------------------------------------------------------------------
(* What is counted. *)

\* The places in queue q of the packets about the blocks of ticket t.
OnQueue(t, q) == {i \in DOMAIN q : /\ q[i].file = t.file
                                   /\ \E k \in DOMAIN t.blocks : t.blocks[k].local = q[i].block}

\* There are as many as blocks of the ticket in the queue.
LEMMA QueueCount ==
    ASSUME Inv, Running, NEW t \in Tickets, NEW q \in Seq(MessageOf(Ids)), Once(q),
           Elements(q) \subseteq Messages
    PROVE  /\ IsFiniteSet(BlocksOf(q) \cap Locals(t))
           /\ Cardinality(OnQueue(t, q)) = Cardinality(BlocksOf(q) \cap Locals(t))
<1>1. DOMAIN q = 1 .. Len(q) /\ Len(q) \in Nat /\ \A i \in DOMAIN q : q[i] \in Messages
  BY DEF Elements
<1>2. Locals(t) \subseteq Ids /\ 0 \notin Ids
  BY TicketFacts DEF Ids
<1>3. ASSUME NEW i \in DOMAIN q, q[i].block \in Locals(t) PROVE q[i].file = t.file
  <2>1. q[i] \in Messages /\ q[i].block # 0 /\ q[i].block \in Flying
    BY <1>1, <1>2, <1>3, FlyingIsOfMessages
  <2>2. PICK z \in Tickets : Accounts(z, q[i])
    BY <2>1 DEF Running, Talk, Bye
  <2>3. z.file = q[i].file /\ q[i].block \in Locals(z)
    BY <2>1, <2>2 DEF Accounts
  <2>4. PICK k \in DOMAIN t.blocks : t.blocks[k].local = q[i].block
    BY <1>3 DEF Locals
  <2>5. SentEntry(t)
    BY DEF Tickets, Elements, Inv, CountInv
  <2>6. t.blocks[k].remote = 0
    BY <2>1, <2>4, <2>5 DEF SentEntry
  <2>7. QED
    BY <2>2, <2>3, <2>4, <2>6, TicketFacts
<1>4. PICK S : S = OnQueue(t, q)
  OBVIOUS
<1>5. PICK T : T = BlocksOf(q) \cap Locals(t)
  OBVIOUS
<1>6. \A i \in DOMAIN q : i \in S <=> q[i].block \in Locals(t)
  BY <1>3, <1>4 DEF OnQueue, Locals
<1>7. S \subseteq DOMAIN q
  BY <1>4 DEF OnQueue
<1>8. IsFiniteSet(S)
  <2>1. IsFiniteSet(DOMAIN q)
    BY <1>1, FS_Interval
  <2>2. QED
    BY <1>7, <2>1, FS_Subset
<1>9. PICK h : h = [i \in S |-> q[i].block]
  OBVIOUS
<1>10. h \in Bijection(S, T)
  <2>1. h \in [S -> T]
    <3>1. \A i \in S : q[i].block \in T
      BY <1>2, <1>5, <1>6, <1>7 DEF BlocksOf
    <3>2. QED
      BY <1>9, <3>1
  <2>2. ASSUME NEW i \in S, NEW j \in S, h[i] = h[j] PROVE i = j
    <3>1. q[i].block = q[j].block /\ q[i].block # 0
      BY <1>2, <1>6, <1>7, <1>9, <2>2
    <3>2. QED
      BY <1>7, <3>1 DEF Once
  <2>3. ASSUME NEW b \in T PROVE \E i \in S : h[i] = b
    <3>1. PICK i \in DOMAIN q : b = q[i].block
      BY <1>5 DEF BlocksOf
    <3>2. i \in S
      BY <1>5, <1>6, <3>1
    <3>3. QED
      BY <1>9, <3>1, <3>2
  <2>4. QED
    BY <2>1, <2>2, <2>3 DEF Bijection, Injection, Surjection, IsInjective
<1>11. ExistsBijection(S, T)
  BY <1>10 DEF ExistsBijection
<1>12. QED
  BY <1>4, <1>5, <1>8, <1>11, FS_Bijection

\* The sizes of three sets that are apart.
LEMMA ThreeApart ==
    ASSUME NEW A, NEW B, NEW C, IsFiniteSet(A), IsFiniteSet(B), IsFiniteSet(C),
           A \cap B = {}, A \cap C = {}, B \cap C = {}
    PROVE  Cardinality(A \cup B \cup C) = Cardinality(A) + Cardinality(B) + Cardinality(C)
<1>1. Cardinality({}) = 0
  BY FS_EmptySet
<1>2. /\ Cardinality(A) \in Nat /\ Cardinality(B) \in Nat /\ Cardinality(C) \in Nat
  BY FS_CardinalityType
<1>3. IsFiniteSet(A \cup B) /\ Cardinality(A \cup B) = Cardinality(A) + Cardinality(B)
  <2>1. IsFiniteSet(A \cup B)
        /\ Cardinality(A \cup B) = Cardinality(A) + Cardinality(B) - Cardinality(A \cap B)
    BY FS_Union
  <2>2. Cardinality(A \cap B) = 0
    BY <1>1
  <2>3. QED
    BY <1>2, <2>1, <2>2
<1>4. (A \cup B) \cap C = {}
  OBVIOUS
<1>5. Cardinality((A \cup B) \cup C) = Cardinality(A \cup B) + Cardinality(C)
  <2>1. Cardinality((A \cup B) \cup C)
           = Cardinality(A \cup B) + Cardinality(C) - Cardinality((A \cup B) \cap C)
    BY <1>3, FS_Union
  <2>2. Cardinality((A \cup B) \cap C) = 0
    BY <1>1, <1>4
  <2>3. QED
    BY <1>2, <1>3, <2>1, <2>2
<1>6. QED
  BY <1>2, <1>3, <1>5

\* num_blocks_moved is the number of the blocks of the ticket that were sent and
\* whose ack has not been received.
THEOREM CountIsExact == OnceEach => (Spec => []MovedIsInFlight)
<1> SUFFICES ASSUME OnceEach PROVE Spec => []MovedIsInFlight
  OBVIOUS
<1>1. Inv /\ VisitInv => MovedIsInFlight
  <2> SUFFICES ASSUME Inv, VisitInv, NEW i0 \in DOMAIN workList
               PROVE  workList[i0].moved = InFlight(workList[i0])
    BY DEF MovedIsInFlight
  <2>1. PICK t : t = workList[i0]
    OBVIOUS
  <2>2. t \in Tickets /\ Running
    BY <2>1 DEF Tickets, Elements, VisitInv
  <2>3. InFlight(t) = Cardinality(OnQueue(t, outBuf)) + Cardinality(OnQueue(t, toServer))
                      + Cardinality(OnQueue(t, toClient))
    BY DEF InFlight, OnQueue
  <2>4. /\ outBuf \in Seq(MessageOf(Ids)) /\ toServer \in Seq(MessageOf(Ids))
        /\ toClient \in Seq(MessageOf(Ids)) /\ FliesOnce
    BY QueueTypes DEF Inv, CountInv
  <2>5. /\ Elements(outBuf) \subseteq Messages /\ Elements(toServer) \subseteq Messages
        /\ Elements(toClient) \subseteq Messages
    BY DEF Messages
  <2>6. PICK A, B, C : /\ A = BlocksOf(outBuf) \cap Locals(t)
                       /\ B = BlocksOf(toServer) \cap Locals(t)
                       /\ C = BlocksOf(toClient) \cap Locals(t)
    OBVIOUS
  <2>7. /\ IsFiniteSet(A) /\ Cardinality(OnQueue(t, outBuf)) = Cardinality(A)
        /\ IsFiniteSet(B) /\ Cardinality(OnQueue(t, toServer)) = Cardinality(B)
        /\ IsFiniteSet(C) /\ Cardinality(OnQueue(t, toClient)) = Cardinality(C)
    <3>1. Once(outBuf) /\ Once(toServer) /\ Once(toClient)
      BY <2>4 DEF FliesOnce
    <3>2. IsFiniteSet(A) /\ Cardinality(OnQueue(t, outBuf)) = Cardinality(A)
      BY <2>2, <2>4, <2>5, <2>6, <3>1, QueueCount
    <3>3. IsFiniteSet(B) /\ Cardinality(OnQueue(t, toServer)) = Cardinality(B)
      BY <2>2, <2>4, <2>5, <2>6, <3>1, QueueCount
    <3>4. IsFiniteSet(C) /\ Cardinality(OnQueue(t, toClient)) = Cardinality(C)
      BY <2>2, <2>4, <2>5, <2>6, <3>1, QueueCount
    <3>5. QED
      BY <3>2, <3>3, <3>4
  <2>8. A \cap B = {} /\ A \cap C = {} /\ B \cap C = {} /\ Flying \cap Locals(t) = A \cup B \cup C
    BY <2>4, <2>6 DEF FliesOnce, Flying
  <2>9. Cardinality(Flying \cap Locals(t)) = Cardinality(A) + Cardinality(B) + Cardinality(C)
    BY <2>7, <2>8, ThreeApart
  <2>10. t.moved = Cardinality(Flying \cap Locals(t))
    BY <2>2 DEF Running, Sound, TicketSound
  <2>11. QED
    BY <2>1, <2>3, <2>7, <2>9, <2>10
<1>2. QED
  BY <1>1, InvAlways, VisitAlways, PTL

-----------------------------------------------------------------------------
(* The promise. *)

\* What a ticket that has its cover is sending.
Content(t) == [k \in DOMAIN t.blocks |-> bytes[t.blocks[k].local]]

Covered(f) == {t \in Tickets : t.file = f /\ t.status # "AwaitingBlockList"}

LEMMA SendingOfTickets ==
    ASSUME NEW f
    PROVE  /\ Sending(f) = {Content(t) : t \in Covered(f)}
           /\ Sending(f)' = {Content(t) : t \in Covered(f)}'
BY DEF Sending, Content, Covered, Tickets, Elements

\* The archived copy of a file whose summary stays is as it was.
LEMMA CopyStays ==
    ASSUME Inv, Grown, NEW f \in File, summary'[f] = summary[f]
    PROVE  Copy(f)' = Copy(f)
<1>1. CASE summary[f] = 0
  BY <1>1 DEF Copy
<1>2. CASE summary[f] # 0
  <2>1. PICK n \in DOMAIN store : n = summary[f]
    BY <1>2 DEF Inv, StorageInv
  <2>2. PICK l : l = store[n].list
    OBVIOUS
  <2>3. store'[n].list = l
    BY <2>1, <2>2 DEF Grown
  <2>4. \A k \in DOMAIN l : l[k].remote \in DOMAIN store
    BY <2>1, <2>2 DEF Inv, StorageInv, Complete, Stored
  <2>5. \A k \in DOMAIN l : store'[l[k].remote] = store[l[k].remote]
    BY <2>4 DEF Grown
  <2>6. Copy(f) = [k \in DOMAIN l |-> store[l[k].remote].data]
    BY <1>2, <2>1, <2>2 DEF Copy
  <2>7. Copy(f)' = [k \in DOMAIN l |-> store'[l[k].remote].data]
    BY <1>2, <2>1, <2>3 DEF Copy
  <2>8. QED
    BY <2>5, <2>6, <2>7
<1>3. QED
  BY <1>1, <1>2

\* What a ticket sends stays what it is.
LEMMA ContentStays ==
    ASSUME Inv, Grown, NEW t \in Tickets, NEW u, DOMAIN u.blocks = DOMAIN t.blocks,
           \A k \in DOMAIN t.blocks : u.blocks[k].local = t.blocks[k].local
    PROVE  Content(u)' = Content(t)
<1>1. \A k \in DOMAIN t.blocks : t.blocks[k].local \in DOMAIN bytes
  <2>1. Locals(t) \subseteq Ids
    BY TicketFacts
  <2>2. DOMAIN bytes = Ids
    BY DEF Inv, TypeInv, Plain, Ids
  <2>3. QED
    BY <2>1, <2>2 DEF Locals
<1>2. QED
  BY <1>1 DEF Content, Grown

\* The steps of the promise.
LEMMA PromiseStutters ==
    ASSUME \A f \in File : Copy(f)' = Copy(f) /\ Sending(f)' = Sending(f)
    PROVE  UNCHANGED Promise!vars
BY DEF Promise!vars

LEMMA PromiseAbandons ==
    ASSUME \A f \in File : Copy(f)' = Copy(f) /\ Sending(f)' = {}
    PROVE  Promise!Next
BY DEF Promise!Next, Promise!Abandon

LEMMA PromiseBegins ==
    ASSUME NEW f \in File, NEW c, Sending(f)' = Sending(f) \cup {c},
           \A g \in File : /\ Copy(g)' = Copy(g)
                           /\ g # f => Sending(g)' = Sending(g)
    PROVE  Promise!Next
<1>1. Promise!Begin(f)
  BY DEF Promise!Begin
<1>2. QED
  BY <1>1 DEF Promise!Next

LEMMA PromiseCommits ==
    ASSUME NEW f \in File, NEW c \in Sending(f), Copy(f)' = c, Sending(f)' = Sending(f) \ {c},
           \A g \in File : g # f => Copy(g)' = Copy(g) /\ Sending(g)' = Sending(g)
    PROVE  Promise!Next
<1>1. Promise!Commit(f)
  BY DEF Promise!Commit
<1>2. QED
  BY <1>1 DEF Promise!Next

\* A file whose tickets stay has the same to send.
LEMMA SendingStays ==
    ASSUME NEW f, Covered(f)' = Covered(f), \A t \in Covered(f) : Content(t)' = Content(t)
    PROVE  Sending(f)' = Sending(f)
<1>1. ASSUME NEW t \in Covered(f)' PROVE Content(t)' \in {Content(z) : z \in Covered(f)}
  BY <1>1
<1>2. ASSUME NEW t \in Covered(f) PROVE Content(t) \in {Content(z) : z \in Covered(f)}'
  BY <1>2
<1>3. {Content(t) : t \in Covered(f)}' = {Content(t) : t \in Covered(f)}
  BY <1>1, <1>2
<1>4. QED
  BY <1>3, SendingOfTickets

\* The client's process ends, or starts.
LEMMA GoneKeepsPromise ==
    ASSUME Inv, workList' = <<>>, UNCHANGED summary, UNCHANGED bytes, UNCHANGED store
    PROVE  Promise!Next
<1>1. Grown
  BY DEF Grown
<1>2. \A f \in File : Copy(f)' = Copy(f)
  BY <1>1, CopyStays
<1>3. \A f \in File : Sending(f)' = {}
  BY DEF Sending
<1>4. QED
  BY <1>2, <1>3, PromiseAbandons

\* A step that leaves the work list alone.
LEMMA SameKeepsPromise ==
    ASSUME Inv, Grown, UNCHANGED workList, UNCHANGED summary
    PROVE  UNCHANGED Promise!vars
<1>1. \A f \in File : Copy(f)' = Copy(f)
  BY CopyStays
<1>2. \A f : Covered(f)' = Covered(f) /\ Covered(f) \subseteq Tickets
  BY DEF Covered, Tickets
<1>3. \A t \in Tickets : Content(t)' = Content(t)
  BY ContentStays
<1>4. \A f : Sending(f)' = Sending(f)
  BY <1>2, <1>3, SendingStays
<1>5. QED
  BY <1>1, <1>4, PromiseStutters

\* A ticket changes in its place, and sends what it did.
LEMMA PlaceKeepsPromise ==
    ASSUME Inv, FileOnce, Grown, UNCHANGED summary,
           NEW i0 \in DOMAIN workList, NEW t, t = workList[i0],
           NEW u, workList' = [workList EXCEPT ![i0] = u], u.file = t.file,
           DOMAIN u.blocks = DOMAIN t.blocks,
           \A k \in DOMAIN t.blocks : u.blocks[k].local = t.blocks[k].local,
           u.status = "AwaitingBlockList" <=> t.status = "AwaitingBlockList"
    PROVE  UNCHANGED Promise!vars
<1>1. \A f \in File : Copy(f)' = Copy(f)
  BY CopyStays
<1>2. Tickets' = (Tickets \ {t}) \cup {u} /\ t \in Tickets
  BY TicketsChange DEF Tickets, Elements
<1>3. \A z \in Tickets : Content(z)' = Content(z)
  BY ContentStays
<1>4. Content(u)' = Content(t)
  BY <1>2, ContentStays
<1>5. ASSUME NEW f PROVE Sending(f)' = Sending(f)
  <2>1. CASE t \in Covered(f)
    <3>1. Covered(f)' = (Covered(f) \ {t}) \cup {u} /\ Covered(f) \subseteq Tickets
      BY <1>2, <2>1 DEF Covered
    <3>2. {Content(z) : z \in Covered(f)}' = {Content(z) : z \in Covered(f)}
      <4>1. ASSUME NEW z \in Covered(f)' PROVE Content(z)' \in {Content(y) : y \in Covered(f)}
        BY <1>3, <1>4, <2>1, <3>1, <4>1
      <4>2. ASSUME NEW z \in Covered(f) PROVE Content(z) \in {Content(y) : y \in Covered(f)}'
        BY <1>3, <1>4, <2>1, <3>1, <4>2
      <4>3. QED
        BY <4>1, <4>2
    <3>3. QED
      BY <3>2, SendingOfTickets
  <2>2. CASE t \notin Covered(f)
    <3>1. Covered(f)' = Covered(f) /\ Covered(f) \subseteq Tickets
      BY <1>2, <2>2 DEF Covered
    <3>2. QED
      BY <1>3, <3>1, SendingStays
  <2>3. QED
    BY <2>1, <2>2
<1>6. QED
  BY <1>1, <1>5, PromiseStutters

\* A ticket without a cover joins.
LEMMA AskKeepsPromise ==
    ASSUME Inv, Grown, UNCHANGED summary, NEW u, Tickets' = Tickets \cup {u},
           u.status = "AwaitingBlockList"
    PROVE  UNCHANGED Promise!vars
<1>1. \A f \in File : Copy(f)' = Copy(f)
  BY CopyStays
<1>2. \A f : Covered(f)' = Covered(f) /\ Covered(f) \subseteq Tickets
  BY DEF Covered
<1>3. \A t \in Tickets : Content(t)' = Content(t)
  BY ContentStays
<1>4. \A f : Sending(f)' = Sending(f)
  BY <1>2, <1>3, SendingStays
<1>5. QED
  BY <1>1, <1>4, PromiseStutters

\* A ticket gets its cover, in its place or as it joins.
LEMMA CoverKeepsPromise ==
    ASSUME Inv, Grown, UNCHANGED summary, NEW S, \A z \in S : z.status = "AwaitingBlockList",
           NEW u, Tickets' = (Tickets \ S) \cup {u}, u.file \in File, u.status # "AwaitingBlockList"
    PROVE  Promise!Next
<1>1. \A f \in File : Copy(f)' = Copy(f)
  BY CopyStays
<1>2. \A t \in Tickets : Content(t)' = Content(t)
  BY ContentStays
<1>3. \A f : Covered(f) \subseteq Tickets
  BY DEF Covered
<1>4. \A f : f # u.file => Covered(f)' = Covered(f)
  BY DEF Covered
<1>5. \A f : f # u.file => Sending(f)' = Sending(f)
  BY <1>2, <1>3, <1>4, SendingStays
<1>6. Covered(u.file)' = Covered(u.file) \cup {u}
  BY DEF Covered
<1>7. Sending(u.file)' = Sending(u.file) \cup {Content(u)'}
  BY <1>2, <1>3, <1>6, SendingOfTickets
<1>8. PICK c : c = Content(u)'
  OBVIOUS
<1>9. QED
  BY <1>1, <1>5, <1>7, <1>8, PromiseBegins

\* The ack of a block list: the new copy is the one that the ticket was sending.
LEMMA DoneKeepsPromise ==
    ASSUME Inv, VisitInv, ReceiveListAck
    PROVE  Promise!Next
<1>1. /\ ClientReceives("PutBlockAck") /\ Head(toClient).block = 0
      /\ AcceptListAck(Head(toClient)) /\ UNCHANGED bytes /\ UNCHANGED store
  BY DEF ReceiveListAck, serverVars
<1>2. PICK m : m = Head(toClient)
  OBVIOUS
<1>3. m \in Messages /\ m \in MessageOf(Ids) /\ m.cmd = "PutBlockAck" /\ m.block = 0
  BY <1>1, <1>2, ReadFacts DEF ClientReceives
<1>4. /\ Running /\ ~NoTicket(m.file)
      /\ \A i \in DOMAIN workList : WtFind(m.file, i) => Accounts(workList[i], m)
  BY <1>1, <1>2, TheTicket
<1>5. PICK i0 \in DOMAIN workList :
         /\ WtFind(m.file, i0)
         /\ summary' = [summary EXCEPT ![m.file] = m.id]
         /\ workList' = RemoveAt(workList, i0)
  BY <1>1, <1>2, <1>4 DEF AcceptListAck
<1>6. PICK t : t = workList[i0]
  OBVIOUS
<1>7. /\ t \in Tickets /\ t.file = m.file /\ t.file \in File /\ t.status = "AwaitingBlockListConfirm"
      /\ m.id \in DOMAIN store /\ store[m.id].list = BlockList(t.blocks)
  <2>1. t \in Tickets /\ Accounts(t, m)
    BY <1>4, <1>5, <1>6 DEF Tickets, Elements
  <2>2. QED
    BY <1>3, <2>1, TicketFacts DEF Accounts
<1>8. Grown
  BY <1>1 DEF Grown
<1>9. Tickets' = Tickets \ {t}
  BY <1>4, <1>5, <1>6, TicketsLeave DEF Running
<1>10. \A z \in Tickets : z.file = t.file => z = t
  BY <1>4, <1>5, <1>6, OneTicket DEF Running
<1>11. \A g \in File : g # t.file => Copy(g)' = Copy(g) /\ Sending(g)' = Sending(g)
  <2>1. SUFFICES ASSUME NEW g \in File, g # t.file PROVE Copy(g)' = Copy(g) /\ Sending(g)' = Sending(g)
    OBVIOUS
  <2>2. summary'[g] = summary[g]
    BY <1>5, <1>7, <2>1
  <2>3. Copy(g)' = Copy(g)
    BY <1>8, <2>2, CopyStays
  <2>4. Covered(g)' = Covered(g) /\ Covered(g) \subseteq Tickets
    BY <1>9, <2>1 DEF Covered
  <2>5. \A z \in Covered(g) : Content(z)' = Content(z)
    BY <1>8, <2>4, ContentStays
  <2>6. QED
    BY <2>3, <2>4, <2>5, SendingStays
<1>12. Covered(t.file) = {t} /\ Covered(t.file)' = {}
  BY <1>7, <1>9, <1>10 DEF Covered
<1>13. Sending(t.file) = {Content(t)} /\ Sending(t.file)' = {}
  BY <1>12, SendingOfTickets
<1>14. Copy(t.file)' = Content(t)
  <2>1. summary'[t.file] = m.id /\ m.id # 0
    <3>1. 0 \notin DOMAIN store
      BY DEF Inv, TypeInv, LocalsKnown
    <3>2. summary \in [File -> Nat]
      BY DEF Inv, TypeInv, Plain
    <3>3. QED
      BY <1>5, <1>7, <3>1, <3>2
  <2>2. PICK l : l = BlockList(t.blocks)
    OBVIOUS
  <2>3. /\ DOMAIN l = DOMAIN t.blocks
        /\ \A k \in DOMAIN t.blocks : l[k].local = t.blocks[k].local
    BY <2>2 DEF BlockList
  <2>4. \A k \in DOMAIN l : store[l[k].remote].data = bytes[l[k].local]
    BY <1>7, <2>2 DEF Inv, StorageInv, Complete, Stored
  <2>5. Copy(t.file)' = [k \in DOMAIN l |-> store[l[k].remote].data]
    BY <1>1, <1>7, <2>1, <2>2 DEF Copy
  <2>6. QED
    BY <2>3, <2>4, <2>5 DEF Content
<1>15. PICK c : c = Content(t)
  OBVIOUS
<1>16. c \in Sending(t.file) /\ Copy(t.file)' = c /\ Sending(t.file)' = Sending(t.file) \ {c}
  BY <1>13, <1>14, <1>15
<1>17. QED
  BY <1>7, <1>11, <1>16, PromiseCommits

\* A block list: the ticket gets its cover, unless the handler does nothing.
LEMMA ListKeepsPromise ==
    ASSUME Inv, VisitInv, ReceiveBlockList
    PROVE  [Promise!Next]_(Promise!vars)
<1>1. /\ ClientReceives("GetBlockAck") /\ AcceptBlockList(Head(toClient))
      /\ UNCHANGED summary /\ UNCHANGED store
  BY DEF ReceiveBlockList, serverVars
<1>2. PICK m : m = Head(toClient)
  OBVIOUS
<1>3. m.cmd = "GetBlockAck" /\ m.obj.list \in Seq(ListEntryOf(Ids))
  <2>1. m \in MessageOf(Ids) /\ m.cmd = "GetBlockAck"
    BY <1>1, <1>2, ReadFacts DEF ClientReceives
  <2>2. QED
    BY <2>1, MessageFields
<1>4. /\ Running
      /\ \A i \in DOMAIN workList : WtFind(m.file, i) => Accounts(workList[i], m)
  BY <1>1, <1>2, TheTicket
<1>5. CASE UNCHANGED workList /\ UNCHANGED bytes
  <2>1. Grown
    BY <1>1, <1>5 DEF Grown
  <2>2. QED
    BY <1>1, <1>5, <2>1, SameKeepsPromise
<1>6. CASE ~(UNCHANGED workList /\ UNCHANGED bytes)
  <2>1. PICK i0 \in DOMAIN workList : WtFind(m.file, i0) /\ StartArchive(i0, m.obj.list)
    BY <1>1, <1>2, <1>6 DEF AcceptBlockList, AssertFails
  <2>2. PICK t : t = workList[i0]
    OBVIOUS
  <2>3. t.status = "AwaitingBlockList" /\ t \in TicketOf(Ids) /\ t.file \in File
    <3>1. t \in Tickets /\ Accounts(t, m)
      BY <1>4, <2>1, <2>2 DEF Tickets, Elements
    <3>2. QED
      BY <1>3, <3>1, TicketFacts DEF Accounts
  <2>4. PICK list : list = m.obj.list
    OBVIOUS
  <2>5. PICK keep \in SUBSET DOMAIN list, move \in SUBSET DOMAIN list, n \in MinNew .. MaxNew :
           LET cover == NewCover(list, keep, move, n)
           IN  /\ move \in SUBSET keep
               /\ workList' = [workList EXCEPT ![i0].blocks = cover,
                                               ![i0].status = "SendingBlocks",
                                               ![i0].next = 0]
               /\ bytes' = CoverBytes(list, n)
    <3>1. \A keep \in SUBSET DOMAIN list : \A move \in SUBSET keep : move \in SUBSET DOMAIN list
      OBVIOUS
    <3>2. StartArchive(i0, list)
      BY <2>1, <2>4
    <3>3. QED
      BY <3>1, <3>2, Zenon DEF StartArchive
  <2>6. PICK cover : cover = NewCover(list, keep, move, n)
    OBVIOUS
  <2>7. PICK u : u = [[[t EXCEPT !.blocks = cover] EXCEPT !.status = "SendingBlocks"] EXCEPT !.next = 0]
    OBVIOUS
  <2>8. workList' = [workList EXCEPT ![i0] = u] /\ u.file = t.file /\ u.status = "SendingBlocks"
    BY <2>1, <2>2, <2>3, <2>5, <2>6, <2>7 DEF TicketOf
  <2>9. Grown
    <3>1. n \in Nat /\ list \in Seq(ListEntryOf(Ids)) /\ bytes \in Seq(Nat)
      BY <1>3, <2>4, <2>5, ConstantsAssumption DEF Inv, TypeInv, Plain
    <3>2. QED
      BY <1>1, <2>5, <3>1, CoverGrows
  <2>10. PICK S : S = {t}
    OBVIOUS
  <2>11. Tickets' = (Tickets \ S) \cup {u} /\ \A z \in S : z.status = "AwaitingBlockList"
    BY <1>4, <2>1, <2>2, <2>3, <2>8, <2>10, TicketsChange DEF Running
  <2>12. QED
    BY <1>1, <2>3, <2>8, <2>9, <2>11, CoverKeepsPromise
<1>7. QED
  BY <1>5, <1>6

\* The ack of a block.
LEMMA AckKeepsPromise ==
    ASSUME Inv, VisitInv, ReceiveBlockAck
    PROVE  UNCHANGED Promise!vars
<1>1. /\ ClientReceives("PutBlockAck") /\ AcceptBlockAck(Head(toClient))
      /\ UNCHANGED summary /\ UNCHANGED store /\ UNCHANGED bytes
  BY DEF ReceiveBlockAck, serverVars
<1>2. PICK m : m = Head(toClient)
  OBVIOUS
<1>3. m.id \in Nat
  BY <1>1, <1>2, ReadFacts, MessageFields
<1>4. Grown
  BY <1>1 DEF Grown
<1>5. FileOnce
  BY <1>1, TheTicket DEF Running
<1>6. CASE UNCHANGED workList
  BY <1>1, <1>4, <1>6, SameKeepsPromise
<1>7. CASE ~UNCHANGED workList
  <2>1. PICK i0 \in DOMAIN workList : \E k \in DOMAIN workList[i0].blocks : AckBlock(i0, k, m)
    BY <1>1, <1>2, <1>7 DEF AcceptBlockAck, AssertFails
  <2>2. PICK k0 \in DOMAIN workList[i0].blocks : AckBlock(i0, k0, m)
    BY <2>1
  <2>3. PICK t : t = workList[i0]
    OBVIOUS
  <2>4. t \in TicketOf(Ids) /\ k0 \in DOMAIN t.blocks
    BY <2>1, <2>2, <2>3, TicketFacts DEF Tickets, Elements
  <2>5. PICK u : u = Acked(t, k0, m.id)
    OBVIOUS
  <2>6. /\ DOMAIN u.blocks = DOMAIN t.blocks
        /\ \A k \in DOMAIN t.blocks : u.blocks[k].local = t.blocks[k].local
        /\ u.file = t.file /\ u.status = t.status /\ u \in TicketOf(Ids)
    BY <1>3, <2>4, <2>5, AckedTicket
  <2>7. PICK v : v = [u EXCEPT !.status = "AwaitingBlockListConfirm"]
    OBVIOUS
  <2>8. v.blocks = u.blocks /\ v.file = t.file /\ v.status = "AwaitingBlockListConfirm"
    BY <2>6, <2>7 DEF TicketOf
  <2>9. \/ t.status = "AwaitingBlockConfirms" /\ workList' = [workList EXCEPT ![i0] = v]
        \/ workList' = [workList EXCEPT ![i0] = u]
    BY <2>2, <2>3, <2>5, <2>7 DEF AckBlock, Acked, ListDue
  <2>10. PICK x : x \in {u, v} /\ workList' = [workList EXCEPT ![i0] = x]
                 /\ (x.status = "AwaitingBlockList" <=> t.status = "AwaitingBlockList")
    BY <2>6, <2>8, <2>9
  <2>11. /\ x.file = t.file /\ DOMAIN x.blocks = DOMAIN t.blocks
         /\ \A k \in DOMAIN t.blocks : x.blocks[k].local = t.blocks[k].local
    BY <2>6, <2>8, <2>10
  <2>12. QED
    BY <1>1, <1>4, <1>5, <2>1, <2>3, <2>10, <2>11, PlaceKeepsPromise
<1>8. QED
  BY <1>6, <1>7

\* A new file: its cover joins.
LEMMA NewKeepsPromise ==
    ASSUME Inv, VisitInv, NEW f, VisitNew(f)
    PROVE  Promise!Next
<1>1. /\ Report(f)
      /\ \E n \in MinNew .. MaxNew :
            /\ workList' = Append(workList, NewTicket(f, "SendingBlocks", NewCover(<<>>, {}, {}, n)))
            /\ bytes' = CoverBytes(<<>>, n)
  BY DEF VisitNew
<1>2. PICK n \in Nat :
            /\ workList' = Append(workList, NewTicket(f, "SendingBlocks", NewCover(<<>>, {}, {}, n)))
            /\ bytes' = CoverBytes(<<>>, n)
  BY <1>1, ConstantsAssumption
<1>3. f \in File /\ UNCHANGED summary /\ UNCHANGED store
  BY <1>1, ReportFacts
<1>4. <<>> \in Seq(ListEntryOf(Ids)) /\ {} \in SUBSET DOMAIN <<>> /\ {} \in SUBSET {} /\ Len(<<>>) = 0
  OBVIOUS
<1>5. /\ Grown /\ Len(bytes') = Len(bytes) + 0 + n /\ Len(bytes) \in Nat /\ bytes \in Seq(Nat)
  BY <1>2, <1>3, <1>4, CoverGrows DEF Inv, TypeInv, Plain
<1>6. Ids \subseteq Ids'
  BY <1>5 DEF Ids
<1>7. PICK cover : cover = NewCover(<<>>, {}, {}, n)
  OBVIOUS
<1>8. cover \in Seq(EntryOf(Ids'))
  <2>1. cover \in Seq(EntryOf(1 .. Len(bytes) + 0 + n))
    BY <1>4, <1>5, <1>7, NewCoverType
  <2>2. QED
    BY <1>5, <2>1 DEF Ids
<1>9. PICK u : u = NewTicket(f, "SendingBlocks", cover)
  OBVIOUS
<1>10. u.file \in File /\ u.status # "AwaitingBlockList" /\ u \in TicketOf(Ids')
  BY <1>3, <1>8, <1>9 DEF NewTicket, TicketOf, Status
<1>11. workList' = Append(workList, u)
  BY <1>2, <1>7, <1>9
<1>12. PICK S : S = {}
  OBVIOUS
<1>13. Tickets' = (Tickets \ S) \cup {u} /\ \A z \in S : z.status = "AwaitingBlockList"
  BY <1>6, <1>10, <1>11, <1>12, TicketsJoin
<1>14. QED
  BY <1>3, <1>5, <1>10, <1>13, CoverKeepsPromise

\* A changed file: its ticket has no cover yet.
LEMMA ChangedKeepsPromise ==
    ASSUME Inv, VisitInv, NEW f, VisitChanged(f)
    PROVE  UNCHANGED Promise!vars
<1>1. /\ Report(f)
      /\ workList' = Append(workList, NewTicket(f, "AwaitingBlockList", <<>>))
      /\ UNCHANGED bytes
  BY DEF VisitChanged
<1>2. f \in File /\ UNCHANGED summary /\ UNCHANGED store
  BY <1>1, ReportFacts
<1>3. Grown /\ Ids \subseteq Ids'
  BY <1>1, <1>2 DEF Grown, Ids
<1>4. PICK u : u = NewTicket(f, "AwaitingBlockList", <<>>)
  OBVIOUS
<1>5. u.status = "AwaitingBlockList" /\ u \in TicketOf(Ids')
  BY <1>2, <1>4 DEF NewTicket, TicketOf, Status
<1>6. Tickets' = Tickets \cup {u}
  BY <1>1, <1>3, <1>4, <1>5, TicketsJoin
<1>7. QED
  BY <1>2, <1>3, <1>5, <1>6, AskKeepsPromise

LEMMA ArchiveKeepsPromise ==
    ASSUME Inv, VisitInv, ArchiveStep
    PROVE  [Promise!Next]_(Promise!vars)
<1>1. CASE EndScan
  <2>1. Grown /\ UNCHANGED workList /\ UNCHANGED summary
    BY <1>1 DEF EndScan, tableVars, serverVars, Grown
  <2>2. QED
    BY <2>1, SameKeepsPromise
<1>2. ASSUME NEW f, VisitUnchanged(f) PROVE UNCHANGED Promise!vars
  <2>1. Grown /\ UNCHANGED workList /\ UNCHANGED summary
    BY <1>2 DEF VisitUnchanged, Report, Reported, serverVars, Grown
  <2>2. QED
    BY <2>1, SameKeepsPromise
<1>3. ASSUME NEW f, VisitUntouched(f) PROVE UNCHANGED Promise!vars
  <2>1. Grown /\ UNCHANGED workList /\ UNCHANGED summary
    BY <1>3 DEF VisitUntouched, tableVars, serverVars, Grown
  <2>2. QED
    BY <2>1, SameKeepsPromise
<1>4. QED
  BY <1>1, <1>2, <1>3, NewKeepsPromise, ChangedKeepsPromise DEF ArchiveStep

\* A block of the ticket is passed over or queued, and the ticket counts it.
LEMMA FillKeepsPromise ==
    ASSUME Inv, VisitInv, FillBlock
    PROVE  UNCHANGED Promise!vars
<1>1. /\ pc = "fill" /\ cursor \in DOMAIN workList
      /\ UNCHANGED summary /\ UNCHANGED bytes /\ UNCHANGED store
  BY DEF FillBlock, tableVars, serverVars
<1>2. FileOnce
  BY <1>1 DEF VisitInv, Running
<1>3. PICK t : t = workList[cursor]
  OBVIOUS
<1>4. t \in TicketOf(Ids)
  BY <1>1, <1>3, TicketFacts DEF Tickets, Elements
<1>5. PICK u : u = [t EXCEPT !.next = t.next + 1]
  OBVIOUS
<1>6. /\ u.file = t.file /\ u.blocks = t.blocks /\ u.status = t.status
      /\ Counted(u).file = t.file /\ Counted(u).blocks = t.blocks /\ Counted(u).status = t.status
  BY <1>4, <1>5 DEF TicketOf, Counted
<1>7. PICK x \in {u, Counted(u)} : workList' = [workList EXCEPT ![cursor] = x]
  <2>1. CASE t.blocks[t.next + 1].cover /\ t.blocks[t.next + 1].remote = 0
    BY <1>3, <1>5, <2>1 DEF FillBlock
  <2>2. CASE ~(t.blocks[t.next + 1].cover /\ t.blocks[t.next + 1].remote = 0)
    BY <1>3, <1>5, <2>2 DEF FillBlock
  <2>3. QED
    BY <2>1, <2>2
<1>8. x.file = t.file /\ x.blocks = t.blocks /\ x.status = t.status
  BY <1>6, <1>7
<1>9. Grown
  BY <1>1 DEF Grown
<1>10. /\ DOMAIN x.blocks = DOMAIN t.blocks
       /\ \A k \in DOMAIN t.blocks : x.blocks[k].local = t.blocks[k].local
       /\ (x.status = "AwaitingBlockList" <=> t.status = "AwaitingBlockList")
  BY <1>8
<1>11. QED
  BY <1>1, <1>2, <1>3, <1>7, <1>8, <1>9, <1>10, PlaceKeepsPromise

\* The ticket whose blocks are all sent waits for their acks.
LEMMA NextKeepsPromise ==
    ASSUME Inv, VisitInv, FillNext
    PROVE  UNCHANGED Promise!vars
<1>1. /\ pc = "fill" /\ cursor \in DOMAIN workList
      /\ UNCHANGED summary /\ UNCHANGED bytes /\ UNCHANGED store
  BY DEF FillNext, tableVars, serverVars
<1>2. FileOnce
  BY <1>1 DEF VisitInv, Running
<1>3. PICK t : t = workList[cursor]
  OBVIOUS
<1>4. t \in TicketOf(Ids)
  BY <1>1, <1>3, TicketFacts DEF Tickets, Elements
<1>5. Grown
  BY <1>1 DEF Grown
<1>6. CASE UNCHANGED workList
  BY <1>1, <1>5, <1>6, SameKeepsPromise
<1>7. CASE ~UNCHANGED workList
  <2>1. PICK u : u = [t EXCEPT !.status = "AwaitingBlockConfirms"]
    OBVIOUS
  <2>2. t.status = "SendingBlocks" /\ workList' = [workList EXCEPT ![cursor] = u]
    BY <1>3, <1>7, <2>1 DEF FillNext
  <2>3. u.file = t.file /\ u.blocks = t.blocks /\ u.status = "AwaitingBlockConfirms"
    BY <1>4, <2>1 DEF TicketOf
  <2>4. /\ DOMAIN u.blocks = DOMAIN t.blocks
        /\ \A k \in DOMAIN t.blocks : u.blocks[k].local = t.blocks[k].local
        /\ (u.status = "AwaitingBlockList" <=> t.status = "AwaitingBlockList")
    BY <2>2, <2>3
  <2>5. QED
    BY <1>1, <1>2, <1>3, <1>5, <2>2, <2>3, <2>4, PlaceKeepsPromise
<1>8. QED
  BY <1>6, <1>7

LEMMA OutputKeepsPromise ==
    ASSUME Inv, VisitInv, OutputStep
    PROVE  [Promise!Next]_(Promise!vars)
<1>1. CASE OutputBuffered \/ FillStart
  <2>1. Grown /\ UNCHANGED workList /\ UNCHANGED summary
    BY <1>1 DEF OutputBuffered, FillStart, tableVars, serverVars, Grown
  <2>2. QED
    BY <2>1, SameKeepsPromise
<1>2. CASE FillEnd
  <2>1. UNCHANGED summary /\ UNCHANGED bytes /\ UNCHANGED store
    BY <1>2 DEF FillEnd, tableVars, serverVars
  <2>2. CASE outBuf = <<>> /\ closing
    <3>1. workList' = <<>>
      BY <1>2, <2>2 DEF FillEnd, ClientGone
    <3>2. QED
      BY <2>1, <3>1, GoneKeepsPromise
  <2>3. CASE ~(outBuf = <<>> /\ closing)
    <3>1. UNCHANGED workList
      BY <1>2, <2>3 DEF FillEnd
    <3>2. Grown
      BY <2>1 DEF Grown
    <3>3. QED
      BY <2>1, <3>1, <3>2, SameKeepsPromise
  <2>4. QED
    BY <2>2, <2>3
<1>3. QED
  BY <1>1, <1>2, FillKeepsPromise, NextKeepsPromise DEF OutputStep

LEMMA ServerKeepsPromise ==
    ASSUME Inv, ServerStep
    PROVE  UNCHANGED Promise!vars
<1>1. UNCHANGED workList /\ UNCHANGED summary /\ UNCHANGED bytes
  BY DEF ServerStep, AcceptPutBlock, AcceptGetBlock, ReceiveBye, clientVars, tableVars
<1>2. Grown
  <2>1. CASE AcceptPutBlock
    <3>1. store' = Append(store, Head(toServer).obj)
      BY <2>1 DEF AcceptPutBlock
    <3>2. store \in Seq(Object)
      BY TypeInvRefines DEF Inv, TypeOK
    <3>3. /\ DOMAIN store = 1 .. Len(store) /\ DOMAIN store' = 1 .. Len(store) + 1
          /\ Len(store) \in Nat /\ \A i \in DOMAIN store : store'[i] = store[i]
      BY <3>1, <3>2
    <3>4. QED
      BY <1>1, <3>3 DEF Grown
  <2>2. CASE AcceptGetBlock \/ ReceiveBye
    BY <1>1, <2>2 DEF AcceptGetBlock, ReceiveBye, serverVars, Grown
  <2>3. QED
    BY <2>1, <2>2 DEF ServerStep
<1>3. QED
  BY <1>1, <1>2, SameKeepsPromise

LEMMA OthersKeepPromise ==
    ASSUME Inv,
           \/ StartRun \/ ClientSignal \/ ServerSignal \/ ClientHangup \/ ServerHangup
           \/ UNCHANGED vars
    PROVE  [Promise!Next]_(Promise!vars)
<1>1. UNCHANGED summary /\ UNCHANGED bytes /\ UNCHANGED store
  BY DEF StartRun, ClientSignal, ServerSignal, ClientHangup, ServerHangup, vars, tableVars,
         serverVars
<1>2. CASE StartRun \/ ClientSignal \/ ClientHangup
  <2>1. workList' = <<>>
    BY <1>2 DEF StartRun, ClientSignal, ClientHangup, ClientGone
  <2>2. QED
    BY <1>1, <2>1, GoneKeepsPromise
<1>3. CASE ServerSignal \/ ServerHangup \/ UNCHANGED vars
  <2>1. Grown /\ UNCHANGED workList
    BY <1>1, <1>3 DEF ServerSignal, ServerHangup, vars, clientVars, Grown
  <2>2. QED
    BY <1>1, <2>1, SameKeepsPromise
<1>4. QED
  BY <1>2, <1>3

\* Every step is a step of the promise, or leaves it as it is.
LEMMA PromiseStep ==
    Inv /\ VisitInv /\ [Next]_vars => [Promise!Next]_(Promise!vars)
<1> SUFFICES ASSUME Inv, VisitInv, [Next]_vars PROVE [Promise!Next]_(Promise!vars)
  OBVIOUS
<1>1. CASE ClientStep
  BY <1>1, ArchiveKeepsPromise, OutputKeepsPromise, AckKeepsPromise, DoneKeepsPromise,
     ListKeepsPromise DEF ClientStep, InputStep
<1>2. CASE ServerStep
  BY <1>2, ServerKeepsPromise
<1>3. CASE \/ StartRun \/ ClientSignal \/ ServerSignal \/ ClientHangup \/ ServerHangup
           \/ UNCHANGED vars
  BY <1>3, OthersKeepPromise
<1>4. QED
  BY <1>1, <1>2, <1>3 DEF Next, Rest

\* What extraction can fetch changes from one whole copy to another whole copy that
\* the client was sending, and never to anything in between.
THEOREM KeepsPromise == OnceEach => (Spec => Implements)
<1> SUFFICES ASSUME OnceEach PROVE Spec => Implements
  OBVIOUS
<1>1. Init => Promise!Init
  BY DEF Init, Promise!Init, Copy, Sending
<1>2. QED
  BY <1>1, PromiseStep, InvAlways, VisitAlways, PTL DEF Spec, Implements, Promise!Spec
=============================================================================
