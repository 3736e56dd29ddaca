------------------------------- MODULE Sealing -------------------------------
(***************************************************************************)
(* What version 1 does to data before it leaves the client and after it    *)
(* comes back, in a build without CLEARTEXT: compress.c and encryption.c.  *)
(*                                                                         *)
(* zlib, the hash of a key and the key stream of the cipher are parameters.*)
(* What opens is a set of at most one text; with none the process ends.    *)
(***************************************************************************)
EXTENDS Integers, Sequences

CONSTANTS
    Base,     \* the values of a byte
    IvSize,   \* ivsize: 16
    Hash(_),          \* the hash of a string
    Deflate(_),       \* compress
    KeyStream(_,_,_)  \* the key stream of a key and an IV, so many bytes of it

Byte == 0 .. Base - 1

-----------------------------------------------------------------------------
(* Keys. *)

\* strlen: the number of bytes before the first NUL.
Strlen(s) ==
    CHOOSE n \in 0 .. Len(s) : (\A i \in 1 .. n : s[i] # 0) /\ (n < Len(s) => s[n + 1] = 0)

\* string_to_key: the hash of what strlen sees.
StringToKey(s) == Hash(SubSeq(s, 1, Strlen(s)))

\* generate_random_key, with the bytes that the generator gives and a NUL behind them.
RandomKey(random) == StringToKey(Append(random, 0))

-----------------------------------------------------------------------------
(* Compression. *)

\* do_compress.
Compress(data) == Deflate(data)

\* do_decompress: what nothing compresses to, or has no room, ends the process.
Decompress(stream, length) ==
    {data \in UNION {[1 .. n -> Byte] : n \in 0 .. length} : Deflate(data) = stream}

-----------------------------------------------------------------------------
(* Encryption. *)

Plus(s, t) == [i \in DOMAIN s |-> (s[i] + t[i]) % Base]
Minus(s, t) == [i \in DOMAIN s |-> (s[i] - t[i]) % Base]

\* encrypt: the IV, and the text in counter mode.
Encrypt(key, iv, text) == iv \o Plus(text, KeyStream(key, iv, Len(text)))

\* strncpy stops at a NUL and fills the rest with NULs.
Strncpy(s) == [i \in DOMAIN s |-> IF i <= Strlen(s) THEN s[i] ELSE 0]

\* decrypt: the IV is copied as a string.
Decrypt(key, sealed) ==
    LET iv == Strncpy(SubSeq(sealed, 1, IvSize))
        text == SubSeq(sealed, IvSize + 1, Len(sealed))
    IN  Minus(text, KeyStream(key, iv, Len(text)))

\* do_crypt_test, with a key for each direction: what comes back.
CryptTest(key, other, iv, data) ==
    Decompress(Decrypt(other, Encrypt(key, iv, Compress(data))), Len(data))

-----------------------------------------------------------------------------
(* What it takes that data come back. *)

\* The random bytes of two keys are the same up to the first NUL.
SameKey(r, s) == \A i \in DOMAIN r : (\A j \in 1 .. i - 1 : r[j] # 0) => r[i] = s[i]

\* Nothing but NULs follows a NUL in an IV.
Survives(iv) == \A i, j \in DOMAIN iv : i < j /\ iv[i] = 0 => iv[j] = 0
=============================================================================
