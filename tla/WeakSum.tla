------------------------------ MODULE WeakSum ------------------------------
(***************************************************************************)
(* The weak checksum of checksum.c and the hash table of hash.c: how the   *)
(* checksum of a block of bytes is computed and rolled on by a word, and   *)
(* what the table finds under it.  BlockHash puts them together.           *)
(*                                                                         *)
(* guint32 arithmetic, of which only the low 16 bits of each half are      *)
(* kept, is arithmetic modulo M16.  Blocks are whole words, as             *)
(* WCsum_make_hash_sub asserts.                                            *)
(***************************************************************************)
EXTENDS Integers, Sequences

CONSTANTS
    Word,     \* the bytes of a word: 4
    Base,     \* the values of a byte: 256.  A byte is a signed char.
    M16       \* what the sums are kept modulo: 0x10000

\* The low half of a checksum, which is all that hash.c compares.
LowHalves == 0 .. M16 - 1

-----------------------------------------------------------------------------
(* The checksum. *)

\* CHAR4_TO_INT32 of the word behind b[i].
CharsToInt(b, i) ==
    LET v[k \in 0 .. Word] == IF k = 0 THEN 0 ELSE (v[k - 1] * Base + b[i + k]) % M16
    IN  v[Word]

\* WCsum_get.  The last word has weight 1, the first one the number of words.
WCsumGet(b) ==
    LET n == Len(b) \div Word
        v[k \in 0 .. n] ==
            IF k = 0 THEN [s1 |-> 0, s2 |-> 0]
            ELSE LET s == CharsToInt(b, Word * (k - 1))
                 IN  [s1 |-> (v[k - 1].s1 + s) % M16,
                      s2 |-> (v[k - 1].s2 + (n - (k - 1)) * s) % M16]
    IN  v[n]

\* WCsum_update: word i of the old buffer leaves, that of the new one enters.
WCsumUpdateOld(old, new, i, sum) ==   \* mutant: s2 takes s1 as it was
    LET out == CharsToInt(old, i)
    IN  [s1 |-> (sum.s1 - out + CharsToInt(new, i)) % M16,
         s2 |-> (sum.s2 - (Len(old) \div Word) * out + sum.s1) % M16]
WCsumUpdate(old, new, i, sum) ==
    LET out == CharsToInt(old, i)
        s1  == (sum.s1 - out + CharsToInt(new, i)) % M16
    IN  [s1 |-> s1, s2 |-> (sum.s2 - (Len(old) \div Word) * out + s1) % M16]

-----------------------------------------------------------------------------
(* The table: buckets of entries, in the order they were entered. *)

\* hash_create.
HashCreate == [index \in LowHalves |-> <<>>]

\* hash_insert: the index is the low half of the key, and all that is kept of it.
HashPrepend(table, key, value) ==   \* mutant: g_slist_prepend
    [table EXCEPT ![key.s1] = <<[key |-> key.s1, value |-> value]>> \o @]
HashInsert(table, key, value) ==
    [table EXCEPT ![key.s1] = Append(@, [key |-> key.s1, value |-> value])]

\* hash_find: the value of the first entry of the bucket with that key, if there is one.
HashFind(table, low) ==
    LET found == {k \in DOMAIN table[low] : table[low][k].key = low}
    IN  {table[low][k].value : k \in {l \in found : \A m \in found : l <= m}}
=============================================================================
