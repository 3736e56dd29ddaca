------------------------------ MODULE Covering ------------------------------
(***************************************************************************)
(* One file through its backups: the cover that covering.c computes from   *)
(* the block list of the last backup and the file as it is now, the blocks *)
(* that are read from the file and stored, and the file that an extraction *)
(* puts together from the list.                                            *)
(*                                                                         *)
(* cover_update_remote is cut in its loops.  Sending, acknowledging and    *)
(* the tables are in BackupSession; here a backup stores its blocks one    *)
(* after another and then its list, or is cut short.                       *)
(*                                                                         *)
(* What is abstracted:                                                     *)
(*  - local and remote ids: a block carries what the server holds for it;  *)
(*  - the strong checksum of some bytes is those bytes (no collisions);    *)
(*    of the weak one only the low half, all that hash.c compares, is      *)
(*    kept: any function of them (many collisions);                        *)
(*  - the hash table of the file: what hash_find returns of it.  BlockHash  *)
(*    has the table, the checksum, and how the file is scanned;            *)
(*  - offsets stay below 2^32 and block lengths below 2^16.                *)
(***************************************************************************)
EXTENDS Integers, Sequences, TLC

CONSTANTS
    Byte,         \* the values of a byte
    Junk,         \* memory from g_malloc that fread did not reach
    NoSum,        \* file_sha1 of a file never archived: zeros
    Content,      \* what the file may hold
    BlockLength,  \* PREF_BLOCK_LENGTH
    Word,         \* the step of the rolling checksum: 4 bytes
    Checksum,     \* the low halves of weak checksums
    Weak(_),      \* WCsum_get & 0xffff, of whole words
    MaxBackup     \* bound: backups begun

ASSUME CoveringAssumption ==
    /\ Content \subseteq Seq(Byte)
    /\ Junk \notin Byte /\ NoSum \notin Seq(Byte)
    /\ BlockLength \in Nat \ {0} /\ Word \in Nat \ {0}
    /\ 0 \in Checksum
    /\ MaxBackup \in Nat

VARIABLES
    file,         \* the file
    pc,           \* "idle", "await", "cover", "tail", "fill", "extract", "extracted"
    blocks,       \* sig.blockList of the ticket, or the list being extracted
    oldLen,       \* len: the blocks that came with the list
    i,            \* the index of the loop under way, from 1
    soFar,        \* so_far
    sum,          \* summary->file_sha1 of the ticket; its length is file_length
    steady,       \* history: the file has not changed since its backup began
    archive,      \* what wt_finish last committed: the list and the file_sha1 (and
                  \* two things not kept: how many blocks were old, and steady)
    recovered,    \* the-recovered-file: the bytes written, by position
    backups

loopVars == <<blocks, oldLen, i, soFar, sum, steady>>
vars == <<file, pc, loopVars, archive, recovered, backups>>

-----------------------------------------------------------------------------
(* The data.  Positions count from 1, offsets from 0 as in the code.         *)

\* `strong' and `data' are what was read from the file and what was sent: the
\* block's whole length.  A block not yet read has remote = FALSE.
Block == [offset : Nat, length : Nat \ {0}, weak : Checksum, strong : Seq(Byte),
          data : Seq(Byte \cup {Junk}), cover : BOOLEAN, remote : BOOLEAN]

\* The positions of a block.
Span(b) == b.offset + 1 .. b.offset + b.length

\* fseek, then fread of n bytes: less at the end of the file.
ReadAt(f, o, n) == SubSeq(f, o + 1, IF o + n < Len(f) THEN o + n ELSE Len(f))

\* db_block_new, as cover_complete_cover fills it in.
NewBlock(o, n) == [offset |-> o, length |-> n, weak |-> 0, strong |-> <<>>, data |-> <<>>,
                   cover |-> TRUE, remote |-> FALSE]

-----------------------------------------------------------------------------
(* cover_hash: which old blocks are in the file, and where.                  *)

\* WCsum_make_hash enters every offset at which a whole block can begin, in one
\* pass for each remainder by the word.
Windows == {o \in 0 .. Len(file) : o + BlockLength <= Len(file)}
WeakAt(o) == Weak(ReadAt(file, o, BlockLength))
EnteredBefore(o, p) == \/ o % Word < p % Word
                       \/ o % Word = p % Word /\ o < p

\* hash_find: the first offset entered under weak checksum w.
FirstEntered(o, w) ==
    /\ o \in Windows /\ WeakAt(o) = w
    /\ \A p \in Windows : EnteredBefore(p, o) => WeakAt(p) # w

\* SCsum_match, at offset o.
WeakMatch(o, b)   == o + b.length <= Len(file)   \* mutant: SCsum_cmp is left out
StrongMatch(o, b) == /\ o + b.length <= Len(file)
                     /\ ReadAt(file, o, b.length) = b.strong

\* What hash_find may return: an offset for each checksum it finds.  When the file
\* has changed since its backup began, perhaps while it was scanned, that may
\* be any offset (one where no block matches is as good as none).
Firsts  == [w \in {WeakAt(o) : o \in Windows} |-> CHOOSE o \in Windows : FirstEntered(o, w)]
Matches == {o \in 0 .. Len(file) : \E k \in DOMAIN archive.list : StrongMatch(o, archive.list[k])}
Lookups == IF steady THEN {Firsts} ELSE UNION {[W -> Matches] : W \in SUBSET Checksum}

\* The block as cover_hash leaves it, where h is what hash_find returns;
\* in_new_cover did not travel in the list.
Found(h, b) ==
    IF b.weak \in DOMAIN h /\ StrongMatch(h[b.weak], b)
    THEN [b EXCEPT !.cover = TRUE, !.offset = h[b.weak]]
    ELSE [b EXCEPT !.cover = FALSE]

\* g_ptr_array_sort by offset: t, taken in the order q, is sorted.  qsort leaves
\* open in which order ties come.
SortedBy(t, q) ==
    /\ \A k \in DOMAIN t : q[k] \in DOMAIN t
    /\ \A k \in DOMAIN t : \A l \in DOMAIN t : k < l => t[q[k]].offset <= t[q[l]].offset

-----------------------------------------------------------------------------
Init ==
    /\ file \in Content
    /\ pc = "idle" /\ blocks = <<>> /\ oldLen = 0 /\ i = 0 /\ soFar = 0 /\ sum = NoSum
    /\ steady = TRUE
    /\ archive = [list |-> <<>>, old |-> 0, sum |-> NoSum, steady |-> TRUE]
    /\ recovered = <<>> /\ backups = 0

\* Somebody writes to the file, perhaps while the work list holds its ticket.
Edit ==
    /\ pc \in {"idle", "await", "fill"}
    /\ file' \in Content \ {file}
    /\ steady' = (pc = "idle")
    /\ UNCHANGED <<pc, blocks, oldLen, i, soFar, sum, archive, recovered, backups>>

\* The ticket goes: committed, or the client ends.
Leave == /\ pc' = "idle"
         /\ blocks' = <<>> /\ oldLen' = 0 /\ i' = 0 /\ soFar' = 0 /\ sum' = NoSum
         /\ steady' = TRUE

\* archive_file finds another checksum, and requests the old list if there is one.
StartBackup ==
    /\ pc = "idle" /\ backups < MaxBackup
    /\ file # archive.sum
    /\ pc' = "await" /\ sum' = file /\ backups' = backups + 1
    /\ UNCHANGED <<file, blocks, oldLen, i, soFar, steady, archive, recovered>>

\* With the old list at hand: cover_update_remote from cover_hash to the sort.
CoverWith(h) ==
    /\ pc' = "cover"
    /\ LET t == [k \in DOMAIN archive.list |-> Found(h, archive.list[k])]
       IN  \E q \in Permutations(DOMAIN t) :
              /\ SortedBy(t, q)
              /\ blocks' = [k \in DOMAIN t |-> t[q[k]]]
    /\ oldLen' = Len(archive.list)
    /\ i' = 1 /\ soFar' = 0
    /\ UNCHANGED <<file, sum, steady, archive, recovered, backups>>

CoverHash == pc = "await" /\ \E h \in Lookups : CoverWith(h)

-----------------------------------------------------------------------------
(* cover_complete_cover.                                                     *)

\* A hole before old block i, whether that block is in the file or not.
CoverHole ==
    /\ pc = "cover" /\ i <= oldLen
    /\ soFar < blocks[i].offset
    /\ blocks' = Append(blocks, NewBlock(soFar, BlockLength))
    /\ soFar' = soFar + BlockLength
    /\ UNCHANGED <<file, pc, oldLen, i, sum, steady, archive, recovered, backups>>

\* How far the cover reaches with block b behind it.
ReachAny(b) == IF b.offset + b.length > soFar   \* mutant: in_new_cover is not looked at
               THEN b.offset + b.length ELSE soFar
Reach(b)    == IF b.cover /\ b.offset + b.length > soFar
               THEN b.offset + b.length ELSE soFar

PassBlock ==
    /\ pc = "cover" /\ i <= oldLen
    /\ blocks[i].offset <= soFar
    /\ soFar' = Reach(blocks[i])
    /\ i' = i + 1
    /\ UNCHANGED <<file, pc, blocks, oldLen, sum, steady, archive, recovered, backups>>

\* The loop over the old blocks ends.
CoverOld ==
    /\ pc = "cover" /\ i > oldLen
    /\ pc' = "tail"
    /\ UNCHANGED <<file, loopVars, archive, recovered, backups>>

\* The offset and length of the next block of the tail.  The last one is pushed
\* back, and keeps its short length.
TailLength == IF BlockLength < Len(sum) - soFar THEN BlockLength ELSE Len(sum) - soFar
TailOffset == IF TailLength < BlockLength /\ Len(sum) > BlockLength
              THEN soFar - (BlockLength - TailLength) ELSE soFar

CoverTail ==
    /\ pc = "tail" /\ soFar < Len(sum)
    /\ blocks' = Append(blocks, NewBlock(TailOffset, TailLength))
    /\ soFar' = soFar + TailLength
    /\ UNCHANGED <<file, pc, oldLen, i, sum, steady, archive, recovered, backups>>

CoverDone ==
    /\ pc = "tail" /\ soFar >= Len(sum)
    /\ pc' = "fill" /\ i' = 1
    /\ UNCHANGED <<file, blocks, oldLen, soFar, sum, steady, archive, recovered, backups>>

-----------------------------------------------------------------------------
(* wt_send_blocks and cover_fill_block, and what becomes of the ticket.      *)

\* cover_fill_block: the checksums are those of the bytes read, the data sent is as
\* long as the block says.  WCsum_get reads words: behind bytes that do not fill
\* their last word it reads what follows the buffer.
Unsought(b)  == ReadAt(file, 0, b.length)   \* mutant: the fseek is left out
BytesRead(b) == ReadAt(file, b.offset, b.length)
WeakOf(d) == {w \in Checksum : Len(d) % Word = 0 => w = Weak(d)}
Filled(b, w) ==
    [b EXCEPT !.weak = w, !.strong = BytesRead(b),
              !.data = [k \in 1 .. b.length |->
                           IF k <= Len(BytesRead(b)) THEN BytesRead(b)[k] ELSE Junk],
              !.remote = TRUE]

FillBlock ==
    /\ pc = "fill" /\ i <= Len(blocks)
    /\ IF blocks[i].cover /\ ~blocks[i].remote
       THEN \E w \in WeakOf(BytesRead(blocks[i])) :
               blocks' = [blocks EXCEPT ![i] = Filled(blocks[i], w)]
       ELSE UNCHANGED blocks
    /\ i' = i + 1
    /\ UNCHANGED <<file, pc, oldLen, soFar, sum, steady, archive, recovered, backups>>

\* The ack of the block list: wt_finish.  A ticket with no new block does not
\* come here (see BackupSession): it stays until the client ends.
Commit ==
    /\ pc = "fill" /\ i > Len(blocks) /\ Len(blocks) > oldLen
    /\ archive' = [list |-> blocks, old |-> oldLen, sum |-> sum, steady |-> steady]
    /\ Leave
    /\ UNCHANGED <<file, recovered, backups>>

\* The client or the connection ends before that.
Interrupt ==
    /\ pc \in {"await", "cover", "tail", "fill"}
    /\ Leave
    /\ UNCHANGED <<file, archive, recovered, backups>>

-----------------------------------------------------------------------------
(* An extraction.  The requests, their answers and so the calls of           *)
(* install_block come in the order of the list.                              *)

StartExtract ==
    /\ pc = "idle" /\ archive.list # <<>>
    /\ pc' = "extract" /\ blocks' = archive.list /\ oldLen' = archive.old
    /\ i' = 1 /\ sum' = archive.sum /\ steady' = archive.steady
    /\ UNCHANGED <<file, soFar, archive, recovered, backups>>

\* The test on the strong checksum.
Passes(b) == b.data = b.strong

\* fseek to the offset of b, fwrite of its data.
WrittenAt(b, r) ==
    [p \in Span(b) \cup DOMAIN r |-> IF p \in Span(b) THEN b.data[p - b.offset] ELSE r[p]]

\* install_block.  An imposter is skipped.
InstallBlock ==
    /\ pc = "extract" /\ i <= Len(blocks)
    /\ recovered' = IF Passes(blocks[i]) THEN WrittenAt(blocks[i], recovered) ELSE recovered
    /\ i' = i + 1
    /\ UNCHANGED <<file, pc, blocks, oldLen, soFar, sum, steady, archive, backups>>

ExtractDone ==
    /\ pc = "extract" /\ i > Len(blocks)
    /\ pc' = "extracted"
    /\ UNCHANGED <<file, loopVars, archive, recovered, backups>>

Close ==
    /\ pc = "extracted"
    /\ Leave /\ recovered' = <<>>
    /\ UNCHANGED <<file, archive, backups>>

-----------------------------------------------------------------------------
CoverStep   == CoverHash \/ CoverHole \/ PassBlock \/ CoverOld \/ CoverTail \/ CoverDone
SendStep    == StartBackup \/ FillBlock \/ Commit \/ Interrupt
ExtractStep == StartExtract \/ InstallBlock \/ ExtractDone \/ Close

Next == Edit \/ CoverStep \/ SendStep \/ ExtractStep

Spec == Init /\ [][Next]_vars

-----------------------------------------------------------------------------
(* Properties. *)

TypeOK ==
    /\ file \in Seq(Byte)
    /\ pc \in {"idle", "await", "cover", "tail", "fill", "extract", "extracted"}
    /\ blocks \in Seq(Block) /\ oldLen \in 0 .. Len(blocks)
    /\ i \in Nat /\ soFar \in Nat
    /\ sum \in Seq(Byte) \cup {NoSum}
    /\ steady \in BOOLEAN
    /\ archive \in [list : Seq(Block), old : Nat, sum : Seq(Byte) \cup {NoSum},
                    steady : BOOLEAN]
    /\ archive.old <= Len(archive.list)
    /\ \A p \in DOMAIN recovered : p \in Nat \ {0} /\ recovered[p] \in Byte \cup {Junk}
    /\ backups \in Nat

\* An old block that cover_hash takes into the cover is what the file holds at the
\* offset it now has, although hash_find compares half a checksum and returns
\* one offset among several, and although the block may have been stored while
\* the file changed.
KeptIsThere ==
    pc \in {"cover", "tail"} =>
        \A k \in 1 .. oldLen : blocks[k].cover =>
            ReadAt(file, blocks[k].offset, blocks[k].length) = blocks[k].data

\* Position p lies in a block of the cover.
Covered(p) == \E k \in DOMAIN blocks : blocks[k].cover /\ p \in Span(blocks[k])

\* Every byte of the file lies in the cover, but for the end of a file longer
\* than a block: fewer bytes than a block has.
CoverReaches ==
    pc = "fill" => \A p \in 1 .. Len(sum) :
        Covered(p) \/ (BlockLength < Len(sum) /\ p > Len(sum) - BlockLength + 1)

\* What an extraction writes if the file did not change during its last backup
\* (whatever happened in those before), position by position: the file's byte,
\* unless a block that has left the file lies there, and also then if a whole new
\* block does.  And every block of the cover that was read whole is written.
Whole(b)     == Len(b.strong) = b.length
StaleAt(p)   == \E k \in 1 .. oldLen : ~blocks[k].cover /\ p \in Span(blocks[k])
RenewedAt(p) == \E k \in oldLen + 1 .. Len(blocks) : Whole(blocks[k]) /\ p \in Span(blocks[k])
WholeAt(p)   == \E k \in DOMAIN blocks : /\ blocks[k].cover /\ Whole(blocks[k])
                                         /\ p \in Span(blocks[k])

ExtractTrue ==
    pc = "extracted" /\ steady =>
        /\ \A p \in DOMAIN recovered :
              \/ p \in DOMAIN sum /\ recovered[p] = sum[p]
              \/ StaleAt(p) /\ ~RenewedAt(p)
        /\ \A p \in DOMAIN sum : WholeAt(p) => p \in DOMAIN recovered

\* covering.c:123-124: cover_complete_cover fills in the holes of the covering.
CoverWhole == pc = "fill" => \A p \in DOMAIN sum : Covered(p)
=============================================================================
