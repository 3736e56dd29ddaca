---------------------------- MODULE MCBlockHash ----------------------------
(***************************************************************************)
(* The instance of BlockHash, and with it of Covering, that TLC checks:    *)
(* words of two bytes, blocks of two words, and sums modulo 4, to which    *)
(* the last byte of a word counts, as the last two of four do in 16 bits.  *)
(***************************************************************************)
EXTENDS BlockHash, FiniteSets

Sum == INSTANCE WeakSum WITH Word <- 2, Base <- 4, M16 <- 4

LowHalf(d) == Sum!WCsumGet(d).s1

Bytes == {0 - 1, 0, 1}

\* A file shorter than a block; one of two blocks that has the second one, P, once more
\* behind one byte, where a later pass finds it; and one that ends in half a block, with P
\* at the end, in a buffer that the file does not fill.  The first block of the second
\* file has the low half of other bytes in both.
P == <<1, 0, 0 - 1, 1>>
Contents == { <<0 - 1, 1>>, <<0>> \o P \o <<0, 0 - 1, 1>>, <<1, 0 - 1>> \o P }
=============================================================================
