----------------------------- MODULE BlockHash -----------------------------
(***************************************************************************)
(* Covering with the hash table of the file in place of what hash_find is  *)
(* said to return there: WCsum_make_hash of checksum.c scans the file      *)
(* through two buffers, in one pass for each remainder by the word, rolls  *)
(* the weak checksum along, and enters it with its offset into the table   *)
(* of hash.c, in which cover_hash looks the old blocks up.                 *)
(*                                                                         *)
(* A step is a turn of the scan's loop, with the reads it makes; the file  *)
(* may change between two of them.  What the buffers hold before they are  *)
(* first read into is never looked at, and left out.                       *)
(***************************************************************************)
EXTENDS Covering

CONSTANTS
    Base,     \* the values of a byte: 256
    M16       \* what the sums are kept modulo: 0x10000

INSTANCE WeakSum

ASSUME HashAssumption ==
    /\ Base \in Nat /\ M16 \in Nat \ {0} /\ Byte \subseteq Int
    /\ BlockLength % Word = 0
    /\ Checksum = LowHalves
    /\ \A b \in [1 .. BlockLength -> Byte] : Weak(b) = WCsumGet(b).s1

VARIABLES
    scan,     \* "none", "pass": between two passes, or "turn": in the loop of a pass
    init,     \* init_offset
    table,    \* hash_table
    local     \* the file position, last_buf, buf, num, i, csum and offset of
              \* WCsum_make_hash_sub

hashVars == <<scan, init, table, local>>

NoTable == <<>>
NoLocal == [at |-> 0, last |-> <<>>, buf |-> <<>>, num |-> 0, i |-> 0,
            csum |-> [s1 |-> 0, s2 |-> 0], offset |-> 0]

-----------------------------------------------------------------------------
(* WCsum_make_hash. *)

\* What fread of a block returns at a position, and what it reads: zeros fill the
\* rest of the buffer.
NumRead(at) == IF at + BlockLength <= Len(file) THEN BlockLength
               ELSE IF at <= Len(file) THEN Len(file) - at ELSE 0
BufferUpdate(at) == [k \in 1 .. BlockLength |-> IF at + k <= Len(file) THEN file[at + k] ELSE 0]

HashStart ==
    /\ pc = "await" /\ scan = "none" /\ archive.list # <<>>
    /\ scan' = "pass" /\ init' = 0 /\ table' = HashCreate
    /\ UNCHANGED <<vars, local>>

\* WCsum_make_hash_sub, up to its loop.  There is none if no whole block can be read.
HashPass ==
    /\ scan = "pass" /\ init < Word
    /\ IF NumRead(init) < BlockLength
       THEN init' = init + 1 /\ UNCHANGED <<scan, local>>
       ELSE /\ scan' = "turn"
            /\ local' = [at |-> init + BlockLength, last |-> <<>>, buf |-> BufferUpdate(init),
                         num |-> NumRead(init), i |-> NumRead(init),
                         csum |-> WCsumGet(BufferUpdate(init)), offset |-> init]
            /\ UNCHANGED init
    /\ UNCHANGED <<vars, table>>

\* The buffer is used up.
UsedUp == local.i + Word > local.num

\* The loop ends there: no whole word follows.
NoBlockFollows == UsedUp /\ NumRead(local.at) < BlockLength   \* mutant
NoWordFollows  == UsedUp /\ (local.num # BlockLength \/ NumRead(local.at) < Word)

\* The buffers change roles, and the next bytes are read.
Swapped == [local EXCEPT !.at = @ + BlockLength, !.last = local.buf,
                         !.buf = BufferUpdate(local.at), !.num = NumRead(local.at), !.i = 0]

\* The checksum moves on by a word.
Rolled(s) == [s EXCEPT !.csum = WCsumUpdate(s.last, s.buf, s.i, s.csum), !.i = @ + Word,
                       !.offset = @ + Word]

HashTurn ==
    /\ scan = "turn"
    /\ table' = HashInsert(table, local.csum, local.offset)
    /\ IF NoWordFollows
       THEN scan' = "pass" /\ init' = init + 1 /\ local' = NoLocal
       ELSE local' = Rolled(IF UsedUp THEN Swapped ELSE local) /\ UNCHANGED <<scan, init>>
    /\ UNCHANGED vars

-----------------------------------------------------------------------------
(* cover_update_remote: a list without blocks needs no table. *)

HashReady == scan = "pass" /\ init = Word

\* What hash_find returns for each checksum it finds.
Lookup == [w \in {v \in DOMAIN table : HashFind(table, v) # {}} |->
              CHOOSE o \in HashFind(table, w) : TRUE]

HashDestroy == scan' = "none" /\ init' = 0 /\ table' = NoTable /\ local' = NoLocal

HashCover ==
    /\ pc = "await"
    /\ HashReady \/ (scan = "none" /\ archive.list = <<>>)
    /\ CoverWith(Lookup)
    /\ HashDestroy

-----------------------------------------------------------------------------
HashInit ==
    /\ Init
    /\ scan = "none" /\ init = 0 /\ table = NoTable /\ local = NoLocal

HashStep == HashStart \/ HashPass \/ HashTurn \/ HashCover

\* Covering's other steps.
OtherStep ==
    \/ Edit \/ StartBackup \/ FillBlock \/ Commit \/ ExtractStep
    \/ CoverHole \/ PassBlock \/ CoverOld \/ CoverTail \/ CoverDone

HashNext ==
    \/ HashStep
    \/ Interrupt /\ HashDestroy
    \/ OtherStep /\ UNCHANGED hashVars

HashSpec == HashInit /\ [][HashNext]_<<vars, hashVars>>

-----------------------------------------------------------------------------
(* Properties. *)

Half == [s1 : LowHalves, s2 : LowHalves]

HashTypeOK ==
    /\ scan \in {"none", "pass", "turn"} /\ init \in 0 .. Word
    /\ scan # "none" => pc = "await" /\ DOMAIN table = LowHalves
    /\ scan = "none" => table = NoTable
    /\ \A w \in DOMAIN table : table[w] \in Seq([key : {w}, value : Nat])
    /\ local \in [at : Nat, last : Seq(Int), buf : Seq(Int), num : 0 .. BlockLength,
                  i : 0 .. BlockLength, csum : Half, offset : Nat]
    /\ scan = "turn" => /\ init < Word
                        /\ local.i % Word = 0 /\ Len(local.buf) = BlockLength
                        /\ Len(local.last) = BlockLength \/ local.i = BlockLength

\* The bytes in the window: what is left of the last buffer, and as much of the new one.
Window == [k \in 1 .. BlockLength |-> IF k + local.i <= BlockLength
                                      THEN local.last[k + local.i]
                                      ELSE local.buf[k + local.i - BlockLength]]

\* checksum.c:217, the assertion of WCsum_verify: the checksum rolled along is that
\* of the bytes in the window, also when the file changes under the scan.
SumsRoll == scan = "turn" => local.csum = WCsumGet(Window)

\* If the file has not changed, hash_find returns what Covering says of it: for
\* each checksum of a whole block of the file, the first offset in the order of the passes.
FindsFirst == HashReady /\ steady => Lookup = Firsts

\* Covering, for this checksum and this scan: a file that changes under the scan
\* makes hash_find return what may be anywhere, which Covering allows for.
Implements == Spec
=============================================================================
