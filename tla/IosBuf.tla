-------------------------------- MODULE IosBuf --------------------------------
(***************************************************************************)
(* The IOSBuf of version-1/ios.c: a buffer that is appended to at its end  *)
(* and read from a read pointer, and that moves its unread bytes to the    *)
(* front when it would outgrow what is allocated for it.  A buffer is the  *)
(* record of its len bytes (data), its read pointer and its alloc_len.     *)
(*                                                                         *)
(* A byte is a number below Base; a 16-bit integer has ShortBytes bytes    *)
(* and a 32-bit integer has WordBytes, the most significant first.         *)
(***************************************************************************)
EXTENDS Integers, Sequences, SequencesExt

CONSTANTS
    Base,        \* the number of values of a byte
    ShortBytes,  \* sizeof(gint16)
    WordBytes,   \* sizeof(gint32)
    MinSize      \* IOS_MIN_SIZE

ASSUME IosBufAssumption ==
    /\ Base \in Nat \ {0, 1}
    /\ ShortBytes \in Nat \ {0} /\ WordBytes \in Nat \ {0}
    /\ MinSize \in Nat

Byte == 0 .. Base - 1

\* struct ios_buf.
IosType == [data : Seq(Byte), rp : Nat, alloc : Nat]

\* ios_new, and ios_reset but for what is allocated.
IosNew == [data |-> <<>>, rp |-> 0, alloc |-> MinSize]

\* ios_buffer_size.
IosSize(b) == Len(b.data) - b.rp

\* ios_buffer: the bytes from the read pointer on.
IosUnread(b) == SubSeq(b.data, b.rp + 1, Len(b.data))

\* ios_read of n bytes that are there.
IosSkip(b, n) == [b EXCEPT !.rp = @ + n]

\* ios_grow: the unread bytes move to the front, and the buffer may be enlarged.
IosGrow(b, size) ==
    [data |-> IosUnread(b), rp |-> 0, alloc |-> IF b.alloc < size THEN size ELSE b.alloc]

\* A slip: the test leaves out the bytes that were read.
TooSmallUnread(b, n) == IosSize(b) + n > b.alloc

\* The test of ios_append (it counts the bytes that were read twice).
TooSmall(b, n) == Len(b.data) + b.rp + n > b.alloc

\* ios_append, with the growth factor 1.2.
IosAppend(b, bytes) ==
    LET n == Len(bytes)
        room == IF n > 0 /\ TooSmall(b, n) THEN IosGrow(b, ((Len(b.data) + n) * 6) \div 5) ELSE b
    IN  [room EXCEPT !.data = @ \o bytes]

-----------------------------------------------------------------------------
(* Integers and strings. *)

\* The powers of Base, and the numbers that w bytes can hold.
Power[k \in Nat] == IF k = 0 THEN 1 ELSE Base * Power[k - 1]
Word(w) == 0 .. Power[w] - 1

\* A slip: a digit may be larger than a byte.
DigitsWide(n, w) == [i \in 1 .. w |-> n \div Power[w - i]]

\* The w bytes of a number, in network order; higher digits are dropped.
Digits(n, w) == [i \in 1 .. w |-> (n \div Power[w - i]) % Base]

Int8(n) == Digits(n, 1)
Int16(n) == Digits(n, ShortBytes)
Int32(n) == Digits(n, WordBytes)

\* ios_append_string writes the length and the bytes.
Str(s) == Int32(Len(s)) \o s

\* The number in the w bytes of s behind the first o (ios_int16_at, ios_int32_at).
NumberAt(s, o, w) ==
    LET value[k \in 0 .. w] == IF k = 0 THEN 0 ELSE value[k - 1] * Base + s[o + k]
    IN  value[w]

Int8At(s, o) == NumberAt(s, o, 1)
Int16At(s, o) == NumberAt(s, o, ShortBytes)
Int32At(s, o) == NumberAt(s, o, WordBytes)

\* ios_read of n bytes behind the first o: nothing (NULL) if they are not there.
ReadAt(s, o, n) == IF o + n > Len(s) THEN <<>> ELSE SubSeq(s, o + 1, o + n)

\* A slip: the length is taken for the beginning of the string.
StrFrom(s, o) == ReadAt(s, o, Int32At(s, o))

\* ios_read_str.
StrAt(s, o) == ReadAt(s, o + WordBytes, Int32At(s, o))
=============================================================================
