------------------------------ MODULE WireProofs ------------------------------
(***************************************************************************)
(* Wire keeps its types, no buffer is written or read beyond its ends, and *)
(* the packets arrive whole, once and in order, as they were meant.        *)
(*                                                                         *)
(* First, a number, a string and a packet are read as they were written.   *)
(* A number is a sum over its bytes: both the powers of Base and the sum   *)
(* are recursive functions, and what they compute follows by induction,    *)
(* from the fact that a set of natural numbers has a smallest one.         *)
(*                                                                         *)
(* Then, the unread bytes of the input buffer, the bytes in the pipe and   *)
(* the unread bytes of the output buffer are one text, in this order: the  *)
(* frames of the packets that were sent and not yet dispatched.  A packet  *)
(* is sent behind the last frame; a write and a read move bytes without a  *)
(* change of the text, wherever they cut it; so that what stands first in  *)
(* the input buffer is a length, and the packet behind it the next one.    *)
(***************************************************************************)
EXTENDS Wire, SequenceLemmas

-----------------------------------------------------------------------------
(* Numbers and their bytes. *)

\* The powers of Base.
LEMMA PowerFacts ==
    /\ Power \in [Nat -> Nat \ {0}]
    /\ Power[0] = 1 /\ \A n \in Nat : Power[n + 1] = Base * Power[n]
<1> DEFINE S == Nat \ {0}
           step == [x \in Nat \X S |-> Base * x[2]]
           Def(f) == [k \in Nat |-> IF k = 0 THEN 1 ELSE Base * f[k - 1]]
<1>1. step \in [Nat \X S -> S]
  BY IosBufAssumption
<1>2. PICK f : Recursive(f, S, 1, step)
  <2> HIDE DEF step
  <2>1. 1 \in S
    OBVIOUS
  <2> HIDE DEF S
  <2>2. QED
    BY <1>1, <2>1, Recursion, Zenon
<1>3. ASSUME NEW n \in Nat PROVE f[n + 1] = Base * f[n]
  <2>1. <<n, f[n]>> \in Nat \X S
    BY <1>2 DEF Recursive
  <2>2. QED
    BY <1>2, <2>1 DEF Recursive
<1>4. f = Def(f)
  <2>1. ASSUME NEW k \in Nat PROVE f[k] = Def(f)[k]
    <3>1. k = 0 \/ (k - 1 \in Nat /\ (k - 1) + 1 = k)
      OBVIOUS
    <3>2. k # 0 => f[k] = Base * f[k - 1]
      BY <1>3, <3>1
    <3>3. QED
      BY <1>2, <3>2 DEF Recursive
  <2>2. QED
    BY <1>2, <2>1 DEF Recursive
<1>5. Power = Def(Power)
  BY <1>4 DEF Power
<1> HIDE DEF step
<1>6. \A n \in Nat : Power[n] = IF n = 0 THEN 1 ELSE Base * Power[n - 1]
  BY <1>5
<1>7. Power[0] = 1
  BY <1>6
<1>8. ASSUME NEW n \in Nat PROVE Power[n + 1] = Base * Power[n]
  BY <1>6
<1>9. ASSUME NEW n \in Nat PROVE Power[n] \in S
  <2> DEFINE T == {m \in Nat : Power[m] \in S}
  <2>1. 0 \in T
    BY <1>7
  <2>2. ASSUME NEW m \in Nat, m \in T PROVE m + 1 \in T
    BY <1>8, <2>2, IosBufAssumption
  <2> HIDE DEF T
  <2>3. n \in T
    BY <2>1, <2>2, Induction
  <2>4. QED
    BY <2>3 DEF T
<1>10. Power \in [Nat -> S]
  BY <1>5, <1>9
<1>11. QED
  BY <1>7, <1>8, <1>10

\* The digit of a quotient is what the next quotient leaves.
LEMMA DividedTwice ==
    ASSUME NEW n \in Nat, NEW d \in Nat \ {0}, NEW b \in Nat \ {0}
    PROVE  n \div d = b * (n \div (b * d)) + ((n \div d) % b)
<1> DEFINE q == n \div d
           r == n % d
           p == q \div b
           t == q % b
<1>1. q \in Nat /\ r \in 0 .. d - 1 /\ n = d * q + r
  BY Quotient
<1>2. p \in Nat /\ t \in 0 .. b - 1 /\ q = b * p + t
  BY <1>1, Quotient
<1> HIDE DEF q, r, p, t
<1>3. b * d \in Nat \ {0}
  OBVIOUS
<1>4. n = (b * d) * p + (d * t + r)
  <2>1. d * q = d * (b * p) + d * t
    BY <1>1, <1>2
  <2>2. d * (b * p) = (b * d) * p
    BY <1>2
  <2>3. d * q \in Int /\ d * t \in Int /\ (b * d) * p \in Int
    BY <1>1, <1>2
  <2>4. QED
    BY <1>1, <2>1, <2>2, <2>3
<1>5. d * t + r \in 0 .. (b * d) - 1
  <2>1. d * t <= d * (b - 1)
    BY <1>2, Multiples
  <2>2. d * (b - 1) = b * d - d
    OBVIOUS
  <2>3. d * t \in Nat /\ b * d \in Nat
    BY <1>2
  <2>4. QED
    BY <1>1, <2>1, <2>2, <2>3
<1>6. n \div (b * d) = p
  BY <1>2, <1>3, <1>4, <1>5, QuotientIs
<1>7. QED
  BY <1>2, <1>6 DEF q, p, t

\* v has the numbers in the first bytes of s behind o.
ValueOf(v, s, o, w) ==
    v = [k \in 0 .. w |-> IF k = 0 THEN 0 ELSE v[k - 1] * Base + s[o + k]]

\* A number is the value of its bytes.
LEMMA NumberFacts ==
    ASSUME NEW s \in Seq(Byte), NEW o \in Nat, NEW w \in Nat, o + w <= Len(s)
    PROVE  \E v \in [0 .. w -> Nat] :
              /\ v[0] = 0
              /\ \A k \in 0 .. w - 1 : v[k + 1] = v[k] * Base + s[o + (k + 1)]
              /\ NumberAt(s, o, w) = v[w]
<1> DEFINE digit(k) == IF k < w THEN s[o + (k + 1)] ELSE 0
           step == [x \in Nat \X Nat |-> x[2] * Base + digit(x[1])]
<1>1. \A k \in Nat : digit(k) \in Nat
  <2>1. ASSUME NEW k \in Nat, k < w PROVE s[o + (k + 1)] \in Nat
    <3>1. o + (k + 1) \in 1 .. Len(s)
      BY <2>1
    <3>2. s[o + (k + 1)] \in Byte
      BY <3>1
    <3>3. QED
      BY <3>2, IosBufAssumption DEF Byte
  <2>2. QED
    BY <2>1
<1> HIDE DEF digit
<1>2. step \in [Nat \X Nat -> Nat]
  <2>1. ASSUME NEW x \in Nat \X Nat PROVE x[2] * Base + digit(x[1]) \in Nat
    <3>1. x[1] \in Nat /\ x[2] \in Nat
      OBVIOUS
    <3>2. digit(x[1]) \in Nat
      BY <1>1, <3>1
    <3>3. QED
      BY <3>1, <3>2, IosBufAssumption
  <2>2. QED
    BY <2>1
<1>3. PICK f : Recursive(f, Nat, 0, step)
  <2> HIDE DEF step
  <2>1. 0 \in Nat
    OBVIOUS
  <2>2. QED
    BY <1>2, <2>1, Recursion, Zenon
<1>4. f \in [Nat -> Nat] /\ f[0] = 0
  BY <1>3 DEF Recursive
<1>5. ASSUME NEW k \in Nat PROVE f[k + 1] = f[k] * Base + digit(k)
  <2>1. <<k, f[k]>> \in Nat \X Nat
    BY <1>4
  <2>2. QED
    BY <1>3, <2>1 DEF Recursive
<1> HIDE DEF step
<1> DEFINE v == [k \in 0 .. w |-> f[k]]
<1>6. ValueOf(v, s, o, w)
  <2>1. ASSUME NEW k \in 1 .. w PROVE v[k] = v[k - 1] * Base + s[o + k]
    <3>1. k - 1 \in Nat /\ (k - 1) + 1 = k /\ k - 1 < w
      OBVIOUS
    <3>2. f[k] = f[k - 1] * Base + digit(k - 1)
      BY <1>5, <3>1
    <3>3. digit(k - 1) = s[o + k]
      BY <3>1 DEF digit
    <3>4. QED
      BY <3>1, <3>2, <3>3
  <2>2. v[0] = 0
    BY <1>4
  <2>3. \A k \in 0 .. w : v[k] = IF k = 0 THEN 0 ELSE v[k - 1] * Base + s[o + k]
    <3>1. \A k \in 0 .. w : k = 0 \/ k \in 1 .. w
      OBVIOUS
    <3> HIDE DEF v
    <3>2. QED
      BY <2>1, <2>2, <3>1
  <2>4. QED
    BY <2>3 DEF ValueOf
<1> DEFINE u == CHOOSE u : ValueOf(u, s, o, w)
<1>7. ValueOf(u, s, o, w)
  <2> HIDE DEF v
  <2>1. QED
    BY <1>6
<1>8. NumberAt(s, o, w) = u[w]
  BY DEF NumberAt, ValueOf
<1> HIDE DEF u, v
<1>9. u[0] = 0
  BY <1>7 DEF ValueOf
<1>10. ASSUME NEW k \in 0 .. w - 1 PROVE u[k + 1] = u[k] * Base + s[o + (k + 1)]
  <2>1. k + 1 \in 0 .. w /\ k + 1 # 0 /\ (k + 1) - 1 = k
    OBVIOUS
  <2>2. QED
    BY <1>7, <2>1 DEF ValueOf
<1>11. ASSUME NEW k \in 0 .. w PROVE u[k] \in Nat
  <2> DEFINE T == {m \in Nat : m <= w => u[m] \in Nat}
  <2>1. 0 \in T
    BY <1>9
  <2>2. ASSUME NEW m \in Nat, m \in T PROVE m + 1 \in T
    <3>1. SUFFICES ASSUME m + 1 <= w PROVE u[m + 1] \in Nat
      OBVIOUS
    <3>2. m \in 0 .. w - 1 /\ u[m] \in Nat
      BY <2>2, <3>1
    <3>3. u[m + 1] = u[m] * Base + digit(m)
      BY <1>10, <3>2 DEF digit
    <3>4. digit(m) \in Nat
      BY <1>1
    <3>5. QED
      BY <3>2, <3>3, <3>4, IosBufAssumption
  <2> HIDE DEF T
  <2>3. k \in T
    BY <2>1, <2>2, Induction
  <2>4. QED
    BY <2>3 DEF T
<1>12. u \in [0 .. w -> Nat]
  BY <1>7, <1>11 DEF ValueOf
<1>13. QED
  BY <1>8, <1>9, <1>10, <1>12

\* The text t stands in s behind the first o bytes.
At(s, o, t) == /\ o + Len(t) <= Len(s)
               /\ \A i \in 1 .. Len(t) : s[o + i] = t[i]

\* The digits of a number are bytes.
LEMMA DigitsFacts ==
    ASSUME NEW n \in Nat, NEW w \in Nat
    PROVE  /\ Digits(n, w) \in Seq(Byte) /\ Len(Digits(n, w)) = w
           /\ \A i \in 1 .. w : Digits(n, w)[i] = (n \div Power[w - i]) % Base
<1>1. ASSUME NEW i \in 1 .. w PROVE (n \div Power[w - i]) % Base \in Byte
  <2>1. w - i \in Nat
    OBVIOUS
  <2>2. Power[w - i] \in Nat \ {0}
    BY <2>1, PowerFacts
  <2>3. n \div Power[w - i] \in Nat
    BY <2>2, Quotient
  <2>4. (n \div Power[w - i]) % Base \in 0 .. Base - 1
    BY <2>3, Quotient, IosBufAssumption
  <2>5. QED
    BY <2>4 DEF Byte
<1> DEFINE d(i) == (n \div Power[w - i]) % Base
<1>2. \A i \in 1 .. w : d(i) \in Byte
  BY <1>1
<1> HIDE DEF d
<1>3. /\ [i \in 1 .. w |-> d(i)] \in Seq(Byte) /\ Len([i \in 1 .. w |-> d(i)]) = w
  BY <1>2
<1>4. QED
  BY <1>3 DEF d, Digits

\* What was written as a number is read as that number.
LEMMA NumberRead ==
    ASSUME NEW s \in Seq(Byte), NEW o \in Nat, NEW w \in Nat, NEW n \in Word(w),
           At(s, o, Digits(n, w))
    PROVE  NumberAt(s, o, w) = n
<1>1. n \in Nat /\ n < Power[w] /\ Power[w] \in Nat
  BY PowerFacts DEF Word
<1>2. /\ o + w <= Len(s)
      /\ \A i \in 1 .. w : s[o + i] = (n \div Power[w - i]) % Base
  BY <1>1, DigitsFacts DEF At
<1>3. PICK v \in [0 .. w -> Nat] :
              /\ v[0] = 0
              /\ \A k \in 0 .. w - 1 : v[k + 1] = v[k] * Base + s[o + (k + 1)]
              /\ NumberAt(s, o, w) = v[w]
  BY <1>2, NumberFacts
<1> DEFINE T == {k \in Nat : k <= w => v[k] = n \div Power[w - k]}
<1>4. 0 \in T
  <2>1. n \div Power[w] = 0
    <3> DEFINE d == Power[w]
    <3>1. n \in Nat /\ d \in Nat /\ n < d
      BY <1>1
    <3> HIDE DEF d
    <3>2. d \in Nat \ {0} /\ n \in 0 .. d - 1 /\ d * 0 + n = n
      BY <3>1
    <3>3. (d * 0 + n) \div d = 0
      BY <3>2, QuotientIs
    <3>4. QED
      BY <3>2, <3>3 DEF d
  <2>2. w - 0 = w
    OBVIOUS
  <2>3. QED
    BY <1>3, <2>1, <2>2
<1>5. ASSUME NEW k \in Nat, k \in T PROVE k + 1 \in T
  <2>1. SUFFICES ASSUME k + 1 <= w PROVE v[k + 1] = n \div Power[w - (k + 1)]
    OBVIOUS
  <2> DEFINE j == w - (k + 1)
             d == Power[j]
  <2>2. j \in Nat /\ j + 1 = w - k /\ k \in 0 .. w - 1 /\ k + 1 \in 1 .. w
    BY <2>1
  <2>3. d \in Nat \ {0} /\ Power[w - k] = Base * d
    BY <2>2, PowerFacts
  <2>4. v[k] = n \div (Base * d)
    BY <1>5, <2>2, <2>3
  <2>5. s[o + (k + 1)] = (n \div d) % Base
    BY <1>2, <2>2
  <2>6. v[k + 1] = v[k] * Base + s[o + (k + 1)]
    BY <1>3, <2>2
  <2> HIDE DEF d, j
  <2>7. n \div d = Base * (n \div (Base * d)) + ((n \div d) % Base)
    <3>1. Base \in Nat \ {0} /\ d \in Nat \ {0} /\ n \in Nat
      BY <1>1, <2>3, IosBufAssumption
    <3>2. QED
      BY ONLY <3>1, DividedTwice, Zenon
  <2>8. v[k] \in Nat
    BY <1>3, <2>2
  <2>9. Base * v[k] = v[k] * Base
    BY <2>8, IosBufAssumption
  <2>10. v[k + 1] = n \div d
    BY <2>4, <2>5, <2>6, <2>7, <2>9
  <2>11. QED
    BY <2>10 DEF d, j
<1> HIDE DEF T
<1>6. w \in T
  BY <1>4, <1>5, Induction
<1>7. v[w] = n \div Power[0]
  <2>1. w - w = 0
    OBVIOUS
  <2>2. QED
    BY <1>6, <2>1 DEF T
<1>8. n \div 1 = n
  BY <1>1
<1>9. QED
  BY <1>3, <1>7, <1>8, PowerFacts

-----------------------------------------------------------------------------
(* Strings, and where they stand in a text. *)

\* s is a and then b.
Joins(s, a, b) ==
    /\ s \in Seq(Byte) /\ Len(s) = Len(a) + Len(b)
    /\ Len(a) \in Nat /\ Len(b) \in Nat
    /\ At(s, 0, a) /\ At(s, Len(a), b)
    /\ \A t \in Seq(Byte), o \in Nat :
          /\ At(a, o, t) => At(s, o, t)
          /\ At(b, o, t) => At(s, Len(a) + o, t)

\* Texts put together stand where they were put.
LEMMA JoinFacts ==
    ASSUME NEW a \in Seq(Byte), NEW b \in Seq(Byte)
    PROVE  Joins(a \o b, a, b)
<1>1. /\ a \o b \in Seq(Byte) /\ Len(a \o b) = Len(a) + Len(b)
      /\ Len(a) \in Nat /\ Len(b) \in Nat
      /\ \A i \in 1 .. Len(a) : (a \o b)[i] = a[i]
      /\ \A i \in 1 .. Len(b) : (a \o b)[Len(a) + i] = b[i]
  OBVIOUS
<1>2. At(a \o b, 0, a) /\ At(a \o b, Len(a), b)
  BY <1>1 DEF At
<1>3. ASSUME NEW t \in Seq(Byte), NEW o \in Nat
      PROVE  /\ At(a, o, t) => At(a \o b, o, t)
             /\ At(b, o, t) => At(a \o b, Len(a) + o, t)
  <2>1. Len(t) \in Nat
    OBVIOUS
  <2> DEFINE s == a \o b
  <2> HIDE DEF s
  <2>2. /\ Len(s) = Len(a) + Len(b)
        /\ \A i \in 1 .. Len(a) : s[i] = a[i]
        /\ \A i \in 1 .. Len(b) : s[Len(a) + i] = b[i]
    BY <1>1 DEF s
  <2>3. ASSUME At(a, o, t) PROVE At(s, o, t)
    <3>1. ASSUME NEW i \in 1 .. Len(t) PROVE s[o + i] = t[i]
      <4>1. o + i \in 1 .. Len(a) /\ a[o + i] = t[i]
        BY <1>1, <2>1, <2>3 DEF At
      <4>2. QED
        BY <2>2, <4>1
    <3>2. QED
      BY <1>1, <2>1, <2>2, <2>3, <3>1 DEF At
  <2>4. ASSUME At(b, o, t) PROVE At(s, Len(a) + o, t)
    <3>1. ASSUME NEW i \in 1 .. Len(t) PROVE s[(Len(a) + o) + i] = t[i]
      <4>1. o + i \in 1 .. Len(b) /\ b[o + i] = t[i]
        BY <1>1, <2>1, <2>4 DEF At
      <4>2. (Len(a) + o) + i = Len(a) + (o + i)
        BY <1>1, <2>1
      <4>3. QED
        BY <2>2, <4>1, <4>2
    <3>2. QED
      BY <1>1, <2>1, <2>2, <2>4, <3>1 DEF At
  <2>5. QED
    BY <2>3, <2>4 DEF s
<1>4. QED
  BY <1>1, <1>2, <1>3 DEF Joins

\* Two texts are equal that have the same bytes.
LEMMA SameBytes ==
    ASSUME NEW a \in Seq(Byte), NEW b \in Seq(Byte), Len(a) = Len(b),
           \A i \in 1 .. Len(a) : a[i] = b[i]
    PROVE  a = b
OBVIOUS

\* A text is determined by where it stands.
LEMMA AtIsSubSeq ==
    ASSUME NEW s \in Seq(Byte), NEW o \in Nat, NEW t \in Seq(Byte), At(s, o, t)
    PROVE  SubSeq(s, o + 1, o + Len(t)) = t
<1>1. Len(t) \in Nat /\ o + Len(t) <= Len(s) /\ \A i \in 1 .. Len(t) : s[o + i] = t[i]
  BY DEF At
<1>2. /\ SubSeq(s, o + 1, o + Len(t)) \in Seq(Byte)
      /\ Len(SubSeq(s, o + 1, o + Len(t))) = Len(t)
  BY <1>1
<1>3. \A i \in 1 .. Len(t) : SubSeq(s, o + 1, o + Len(t))[i] = s[o + i]
  BY <1>1
<1> DEFINE u == SubSeq(s, o + 1, o + Len(t))
<1> HIDE DEF u
<1>4. u \in Seq(Byte) /\ Len(u) = Len(t) /\ \A i \in 1 .. Len(t) : u[i] = t[i]
  BY <1>1, <1>2, <1>3 DEF u
<1>5. u = t
  BY <1>4, SameBytes
<1>6. QED
  BY <1>5 DEF u

\* What was written as a string is read as that string.
LEMMA StringFacts ==
    ASSUME NEW t \in Seq(Byte)
    PROVE  /\ Str(t) \in Seq(Byte) /\ Len(Str(t)) = WordBytes + Len(t) /\ Len(t) \in Nat
           /\ Len(t) \in Word(WordBytes) =>
                 \A s \in Seq(Byte), o \in Nat : At(s, o, Str(t)) => StrAt(s, o) = t
<1> DEFINE n == Int32(Len(t))
<1>1. /\ WordBytes \in Nat /\ Len(t) \in Nat
      /\ n \in Seq(Byte) /\ Len(n) = WordBytes
  <2>1. WordBytes \in Nat /\ Len(t) \in Nat
    BY IosBufAssumption
  <2>2. QED
    BY <2>1, DigitsFacts DEF Int32
<1>2. Str(t) = n \o t
  BY DEF Str
<1> HIDE DEF n
<1>3. /\ n \o t \in Seq(Byte) /\ Len(n \o t) = WordBytes + Len(t)
      /\ \A i \in 1 .. WordBytes : (n \o t)[i] = n[i]
      /\ \A i \in 1 .. Len(t) : (n \o t)[WordBytes + i] = t[i]
  BY <1>1
<1>4. ASSUME Len(t) \in Word(WordBytes), NEW s \in Seq(Byte), NEW o \in Nat, At(s, o, n \o t)
      PROVE  StrAt(s, o) = t
  <2>1. At(s, o, n)
    <3>1. ASSUME NEW i \in 1 .. WordBytes PROVE s[o + i] = n[i]
      <4>1. i \in 1 .. Len(n \o t)
        BY <1>1, <1>3
      <4>2. s[o + i] = (n \o t)[i]
        BY <1>4, <4>1 DEF At
      <4>3. QED
        BY <1>3, <4>2
    <3>2. o + WordBytes <= Len(s)
      BY <1>1, <1>3, <1>4 DEF At
    <3>3. QED
      BY <1>1, <3>1, <3>2 DEF At
  <2>2. At(s, o + WordBytes, t)
    <3>1. (o + WordBytes) + Len(t) <= Len(s)
      BY <1>1, <1>3, <1>4 DEF At
    <3>2. ASSUME NEW i \in 1 .. Len(t) PROVE s[(o + WordBytes) + i] = t[i]
      <4>1. WordBytes + i \in 1 .. Len(n \o t) /\ o + (WordBytes + i) = (o + WordBytes) + i
        BY <1>1, <1>3
      <4>2. s[o + (WordBytes + i)] = (n \o t)[WordBytes + i]
        BY <1>4, <4>1 DEF At
      <4>3. QED
        BY <1>3, <4>1, <4>2
    <3>3. QED
      BY <3>1, <3>2 DEF At
  <2>3. Int32At(s, o) = Len(t)
    BY <1>1, <1>4, <2>1, NumberRead DEF n, Int32, Int32At
  <2>4. o + WordBytes \in Nat /\ ~ ((o + WordBytes) + Len(t) > Len(s))
    BY <1>1, <2>2 DEF At
  <2>5. ReadAt(s, o + WordBytes, Len(t)) = t
    BY <2>2, <2>4, AtIsSubSeq DEF ReadAt
  <2>6. QED
    BY <2>3, <2>5 DEF StrAt
<1>5. QED
  BY <1>1, <1>2, <1>3, <1>4

-----------------------------------------------------------------------------
(* The packets. *)

\* The fields that are numbers.
LEMMA FieldFacts ==
    ASSUME NEW w \in Nat, NEW n \in Word(w)
    PROVE  /\ n \in Nat /\ Digits(n, w) \in Seq(Byte) /\ Len(Digits(n, w)) = w
           /\ \A s \in Seq(Byte), o \in Nat : At(s, o, Digits(n, w)) => NumberAt(s, o, w) = n
<1>1. n \in Nat
  BY PowerFacts DEF Word
<1>2. QED
  BY <1>1, DigitsFacts, NumberRead

\* ios_append_int8, and ios_read_int8 after it.
LEMMA ByteFacts ==
    ASSUME NEW n \in Word(1)
    PROVE  /\ Int8(n) \in Seq(Byte) /\ Len(Int8(n)) = 1
           /\ \A s \in Seq(Byte), o \in Nat : At(s, o, Int8(n)) => Int8At(s, o) = n
BY FieldFacts DEF Int8, Int8At

\* ios_append_int16, and ios_read_int16 after it.
LEMMA ShortFacts ==
    ASSUME NEW n \in Word(ShortBytes)
    PROVE  /\ Int16(n) \in Seq(Byte) /\ Len(Int16(n)) = ShortBytes
           /\ \A s \in Seq(Byte), o \in Nat : At(s, o, Int16(n)) => Int16At(s, o) = n
BY FieldFacts, IosBufAssumption DEF Int16, Int16At

\* ios_append_int32, and ios_read_int32 after it.
LEMMA WordFacts ==
    ASSUME NEW n \in Word(WordBytes)
    PROVE  /\ Int32(n) \in Seq(Byte) /\ Len(Int32(n)) = WordBytes
           /\ \A s \in Seq(Byte), o \in Nat : At(s, o, Int32(n)) => Int32At(s, o) = n
BY FieldFacts, IosBufAssumption DEF Int32, Int32At

\* What a packet is, by its command.
Shape(p) ==
    \/ p \in [cmd : {Hello}, version : Word(1), archive : Word(WordBytes),
              pass : Word(WordBytes), create : Word(1), message : Seq(Byte)]
    \/ p \in [cmd : {HelloAck}, version : Word(1), error : Word(ShortBytes),
              archive : Word(WordBytes), message : Seq(Byte)]
    \/ p \in [cmd : {Bye}, version : Word(1), error : Word(ShortBytes)]
    \/ p \in [cmd : {PutBlock, GetBlockAck}, file : Word(WordBytes), block : Word(WordBytes),
              data : Seq(Byte)]
    \/ p \in [cmd : {PutBlockAck, GetBlock}, file : Word(WordBytes), block : Word(WordBytes),
              archive : Word(WordBytes)]

\* A packet has the fields of its command, and a length that fits in a word.
LEMMA PacketShape == \A p : p \in Packet <=> Shape(p) /\ Len(Encode(p)) \in Word(WordBytes)
BY DEF Packet, Shape

\* The number of a command fits in a byte.
LEMMA CommandByte == \A c \in 0 .. 6 : c \in Word(1)
<1>1. Power[1] = Base
  <2>1. Power[0 + 1] = Base * Power[0] /\ Power[0] = 1
    BY PowerFacts
  <2>2. QED
    BY <2>1, IosBufAssumption
<1>2. QED
  BY <1>1, WireAssumption, IosBufAssumption DEF Word, GetBlockAck

\* Where the fields stand in a text of two to five of them.
LEMMA TwoFields ==
    ASSUME NEW a \in Seq(Byte), NEW b \in Seq(Byte)
    PROVE  LET s == a \o b
           IN  /\ s \in Seq(Byte) /\ Len(s) = Len(a) + Len(b)
               /\ At(s, 0, a) /\ At(s, Len(a), b)
BY JoinFacts DEF Joins

\* Three fields.
LEMMA ThreeFields ==
    ASSUME NEW a \in Seq(Byte), NEW b \in Seq(Byte), NEW c \in Seq(Byte)
    PROVE  LET s == (a \o b) \o c
           IN  /\ s \in Seq(Byte) /\ Len(s) = (Len(a) + Len(b)) + Len(c)
               /\ At(s, 0, a) /\ At(s, Len(a), b) /\ At(s, Len(a) + Len(b), c)
<1> DEFINE x == a \o b
           s == x \o c
<1>1. /\ x \in Seq(Byte) /\ Len(x) = Len(a) + Len(b)
      /\ At(x, 0, a)
      /\ At(x, Len(a), b)
  BY TwoFields
<1>2. /\ Len(a) \in Nat /\ Len(b) \in Nat /\ Len(c) \in Nat
      /\ {0, Len(a), Len(a) + Len(b)} \subseteq Nat
  OBVIOUS
<1> HIDE DEF x
<1>3. Joins(s, x, c)
  BY <1>1, JoinFacts
<1> HIDE DEF s
<1>4. /\ s \in Seq(Byte) /\ Len(s) = (Len(a) + Len(b)) + Len(c)
      /\ At(s, 0, a)
      /\ At(s, Len(a), b)
      /\ At(s, Len(a) + Len(b), c)
  BY <1>1, <1>2, <1>3 DEF Joins
<1>5. QED
  BY <1>4 DEF s, x

\* Four fields.
LEMMA FourFields ==
    ASSUME NEW a \in Seq(Byte), NEW b \in Seq(Byte), NEW c \in Seq(Byte),
           NEW d \in Seq(Byte)
    PROVE  LET s == ((a \o b) \o c) \o d
           IN  /\ s \in Seq(Byte) /\ Len(s) = ((Len(a) + Len(b)) + Len(c)) + Len(d)
               /\ At(s, 0, a) /\ At(s, Len(a), b) /\ At(s, Len(a) + Len(b), c)
               /\ At(s, (Len(a) + Len(b)) + Len(c), d)
<1> DEFINE x == (a \o b) \o c
           s == x \o d
<1>1. /\ x \in Seq(Byte) /\ Len(x) = (Len(a) + Len(b)) + Len(c)
      /\ At(x, 0, a)
      /\ At(x, Len(a), b)
      /\ At(x, Len(a) + Len(b), c)
  BY ThreeFields
<1>2. /\ Len(a) \in Nat /\ Len(b) \in Nat /\ Len(c) \in Nat /\ Len(d) \in Nat
      /\ {0, Len(a), Len(a) + Len(b), (Len(a) + Len(b)) + Len(c)} \subseteq Nat
  OBVIOUS
<1> HIDE DEF x
<1>3. Joins(s, x, d)
  BY <1>1, JoinFacts
<1> HIDE DEF s
<1>4. /\ s \in Seq(Byte) /\ Len(s) = ((Len(a) + Len(b)) + Len(c)) + Len(d)
      /\ At(s, 0, a)
      /\ At(s, Len(a), b)
      /\ At(s, Len(a) + Len(b), c)
      /\ At(s, (Len(a) + Len(b)) + Len(c), d)
  BY <1>1, <1>2, <1>3 DEF Joins
<1>5. QED
  BY <1>4 DEF s, x

\* Five fields.
LEMMA FiveFields ==
    ASSUME NEW a \in Seq(Byte), NEW b \in Seq(Byte), NEW c \in Seq(Byte),
           NEW d \in Seq(Byte), NEW e \in Seq(Byte)
    PROVE  LET s == (((a \o b) \o c) \o d) \o e
           IN  /\ s \in Seq(Byte) /\ Len(s) = (((Len(a) + Len(b)) + Len(c)) + Len(d)) + Len(e)
               /\ At(s, 0, a) /\ At(s, Len(a), b) /\ At(s, Len(a) + Len(b), c)
               /\ At(s, (Len(a) + Len(b)) + Len(c), d)
               /\ At(s, ((Len(a) + Len(b)) + Len(c)) + Len(d), e)
<1> DEFINE x == ((a \o b) \o c) \o d
           s == x \o e
<1>1. /\ x \in Seq(Byte) /\ Len(x) = ((Len(a) + Len(b)) + Len(c)) + Len(d)
      /\ At(x, 0, a)
      /\ At(x, Len(a), b)
      /\ At(x, Len(a) + Len(b), c)
      /\ At(x, (Len(a) + Len(b)) + Len(c), d)
  BY FourFields
<1>2. /\ Len(a) \in Nat /\ Len(b) \in Nat /\ Len(c) \in Nat /\ Len(d) \in Nat /\ Len(e) \in Nat
      /\ {0, Len(a), Len(a) + Len(b), (Len(a) + Len(b)) + Len(c),
          ((Len(a) + Len(b)) + Len(c)) + Len(d)} \subseteq Nat
  OBVIOUS
<1> HIDE DEF x
<1>3. Joins(s, x, e)
  BY <1>1, JoinFacts
<1> HIDE DEF s
<1>4. /\ s \in Seq(Byte) /\ Len(s) = (((Len(a) + Len(b)) + Len(c)) + Len(d)) + Len(e)
      /\ At(s, 0, a)
      /\ At(s, Len(a), b)
      /\ At(s, Len(a) + Len(b), c)
      /\ At(s, (Len(a) + Len(b)) + Len(c), d)
      /\ At(s, ((Len(a) + Len(b)) + Len(c)) + Len(d), e)
  BY <1>1, <1>2, <1>3 DEF Joins
<1>5. QED
  BY <1>4 DEF s, x

\* Behind a command.
LEMMA CommandFields ==
    ASSUME NEW k \in Seq(Byte), Len(k) = 1, NEW v \in Seq(Byte)
    PROVE  /\ k \o v \in Seq(Byte) /\ Len(k \o v) = 1 + Len(v) /\ At(k \o v, 0, k)
           /\ \A t \in Seq(Byte), o \in Nat : At(v, o, t) => At(k \o v, 1 + o, t)
BY JoinFacts DEF Joins

\* The fields of the two packets of the greeting.
LEMMA HelloFields ==
    ASSUME NEW p, p.cmd = 0
    PROVE  Fields(p) = (((Int8(p.version) \o Int32(p.archive)) \o Int32(p.pass))
                            \o Int8(p.create)) \o Str(p.message)
BY DEF Fields, Hello, HelloAck, Bye, PutBlock, PutBlockAck, GetBlock, GetBlockAck

\* The same of a hello ack.
LEMMA HelloAckFields ==
    ASSUME NEW p, p.cmd = 1
    PROVE  Fields(p) = ((Int8(p.version) \o Int16(p.error)) \o Int32(p.archive)) \o Str(p.message)
BY DEF Fields, Hello, HelloAck, Bye, PutBlock, PutBlockAck, GetBlock, GetBlockAck

\* A packet is read as it was written: a hello.
LEMMA HelloRead ==
    ASSUME NEW p \in [cmd : {Hello}, version : Word(1), archive : Word(WordBytes),
                      pass : Word(WordBytes), create : Word(1), message : Seq(Byte)],
           Len(Encode(p)) \in Word(WordBytes)
    PROVE  Encode(p) \in Seq(Byte) /\ Agree(p, Decode(Encode(p)))
<1> DEFINE W == WordBytes
           S == ShortBytes
           k == Int8(p.cmd)
           a == Int8(p.version)
           b == Int32(p.archive)
           c == Int32(p.pass)
           d == Int8(p.create)
           e == Str(p.message)
           v == (((a \o b) \o c) \o d) \o e
           s == k \o v
<1>1. p.cmd = 0 /\ p.cmd \in Word(1) /\ W \in Nat /\ S \in Nat
  BY CommandByte, IosBufAssumption
  DEF Hello, HelloAck, Bye, PutBlock, PutBlockAck, GetBlock, GetBlockAck
<1>2. /\ k \in Seq(Byte) /\ Len(k) = 1
      /\ a \in Seq(Byte) /\ Len(a) = 1
      /\ b \in Seq(Byte) /\ Len(b) = W
      /\ c \in Seq(Byte) /\ Len(c) = W
      /\ d \in Seq(Byte) /\ Len(d) = 1
      /\ e \in Seq(Byte) /\ Len(e) = W + Len(p.message) /\ Len(p.message) \in Nat
  BY <1>1, ByteFacts, ShortFacts, WordFacts, StringFacts
<1>3. Encode(p) = s
  BY <1>1, HelloFields DEF Encode
<1> HIDE DEF k, a, b, c, d, e, W, S
<1>4. /\ v \in Seq(Byte) /\ Len(v) >= Len(p.message)
      /\ At(v, 0, a) /\ At(v, 1, b) /\ At(v, 1 + W, c) /\ At(v, 1 + 2 * W, d) /\ At(v, 2 + 2 * W, e)
  <2>1. /\ v \in Seq(Byte) /\ Len(v) = (((Len(a) + Len(b)) + Len(c)) + Len(d)) + Len(e)
        /\ At(v, 0, a)
        /\ At(v, Len(a), b)
        /\ At(v, Len(a) + Len(b), c)
        /\ At(v, (Len(a) + Len(b)) + Len(c), d)
        /\ At(v, ((Len(a) + Len(b)) + Len(c)) + Len(d), e)
    <3>1. /\ a \in Seq(Byte) /\ b \in Seq(Byte) /\ c \in Seq(Byte) /\ d \in Seq(Byte)
          /\ e \in Seq(Byte)
      BY <1>2
    <3>2. QED
      BY ONLY <3>1, FiveFields DEF v
  <2> HIDE DEF v
  <2>2. QED
    BY <1>1, <1>2, <2>1
<1> HIDE DEF v
<1>5. /\ s \in Seq(Byte) /\ Len(s) = 1 + Len(v) /\ At(s, 0, k)
      /\ \A t \in Seq(Byte), o \in Nat : At(v, o, t) => At(s, 1 + o, t)
  BY <1>2, <1>4, CommandFields
<1> HIDE DEF s
<1>6. /\ At(s, 1, a) /\ At(s, 2, b) /\ At(s, 2 + W, c) /\ At(s, 2 + 2 * W, d) /\ At(s, 3 + 2 * W, e)
  <2>1. /\ 1 + 0 = 1 /\ 1 + 1 = 2 /\ 1 + (1 + W) = 2 + W
        /\ 1 + (1 + 2 * W) = 2 + 2 * W /\ 1 + (2 + 2 * W) = 3 + 2 * W
        /\ {0, 1, 1 + W, 1 + 2 * W, 2 + 2 * W} \subseteq Nat
    BY <1>1
  <2>2. /\ At(s, 1 + 0, a) /\ At(s, 1 + 1, b) /\ At(s, 1 + (1 + W), c)
        /\ At(s, 1 + (1 + 2 * W), d) /\ At(s, 1 + (2 + 2 * W), e)
    BY <1>2, <1>4, <1>5, <2>1
  <2>3. QED
    BY <2>1, <2>2
<1>7. Len(p.message) \in Word(WordBytes)
  <2>1. Len(v) \in Nat /\ Len(s) \in Word(WordBytes) /\ Len(s) >= Len(p.message)
    BY <1>2, <1>3, <1>4, <1>5
  <2>2. Power[WordBytes] \in Nat
    BY PowerFacts, IosBufAssumption
  <2>3. QED
    BY <1>2, <2>1, <2>2 DEF Word
<1>8. /\ Int8At(s, 0) = p.cmd
      /\ Int8At(s, 1) = p.version
      /\ Int32At(s, 2) = p.archive
      /\ Int32At(s, 2 + W) = p.pass
      /\ Int8At(s, 2 + 2 * W) = p.create
      /\ StrAt(s, 3 + 2 * W) = p.message
  BY <1>1, <1>2, <1>7, <1>5, <1>6, ByteFacts, ShortFacts, WordFacts, StringFacts
  DEF k, a, b, c, d, e, W, S
<1>9. Decode(s) = [cmd |-> 0, version |-> p.version, archive |-> p.archive, pass |-> p.pass,
                   create |-> p.create, message |-> p.message]
  BY <1>1, <1>8
    DEF Decode, Hello, HelloAck, Bye, PutBlock, PutBlockAck, GetBlock, GetBlockAck, W
<1>10. Decode(s) = p
  BY <1>1, <1>9
<1>11. QED
  BY <1>1, <1>3, <1>5, <1>10 DEF Agree, HelloAck

\* A hello ack, of which the archive id is not read.
LEMMA HelloAckRead ==
    ASSUME NEW p \in [cmd : {HelloAck}, version : Word(1), error : Word(ShortBytes),
                      archive : Word(WordBytes), message : Seq(Byte)],
           Len(Encode(p)) \in Word(WordBytes)
    PROVE  Encode(p) \in Seq(Byte) /\ Agree(p, Decode(Encode(p)))
<1> DEFINE W == WordBytes
           S == ShortBytes
           k == Int8(p.cmd)
           a == Int8(p.version)
           b == Int16(p.error)
           c == Int32(p.archive)
           d == Str(p.message)
           v == ((a \o b) \o c) \o d
           s == k \o v
<1>1. p.cmd = 1 /\ p.cmd \in Word(1) /\ W \in Nat /\ S \in Nat
  BY CommandByte, IosBufAssumption
  DEF Hello, HelloAck, Bye, PutBlock, PutBlockAck, GetBlock, GetBlockAck
<1>2. /\ k \in Seq(Byte) /\ Len(k) = 1
      /\ a \in Seq(Byte) /\ Len(a) = 1
      /\ b \in Seq(Byte) /\ Len(b) = S
      /\ c \in Seq(Byte) /\ Len(c) = W
      /\ d \in Seq(Byte) /\ Len(d) = W + Len(p.message) /\ Len(p.message) \in Nat
  BY <1>1, ByteFacts, ShortFacts, WordFacts, StringFacts
<1>3. Encode(p) = s
  BY <1>1, HelloAckFields DEF Encode
<1> HIDE DEF k, a, b, c, d, W, S
<1>4. /\ v \in Seq(Byte) /\ Len(v) >= Len(p.message)
      /\ At(v, 0, a) /\ At(v, 1, b) /\ At(v, 1 + S, c) /\ At(v, 1 + S + W, d)
  <2>1. /\ v \in Seq(Byte) /\ Len(v) = ((Len(a) + Len(b)) + Len(c)) + Len(d)
        /\ At(v, 0, a)
        /\ At(v, Len(a), b)
        /\ At(v, Len(a) + Len(b), c)
        /\ At(v, (Len(a) + Len(b)) + Len(c), d)
    <3>1. a \in Seq(Byte) /\ b \in Seq(Byte) /\ c \in Seq(Byte) /\ d \in Seq(Byte)
      BY <1>2
    <3>2. QED
      BY ONLY <3>1, FourFields DEF v
  <2> HIDE DEF v
  <2>2. QED
    BY <1>1, <1>2, <2>1
<1> HIDE DEF v
<1>5. /\ s \in Seq(Byte) /\ Len(s) = 1 + Len(v) /\ At(s, 0, k)
      /\ \A t \in Seq(Byte), o \in Nat : At(v, o, t) => At(s, 1 + o, t)
  BY <1>2, <1>4, CommandFields
<1> HIDE DEF s
<1>6. /\ At(s, 1, a) /\ At(s, 2, b) /\ At(s, 2 + S, c) /\ At(s, 2 + S + W, d)
  <2>1. /\ 1 + 0 = 1 /\ 1 + 1 = 2 /\ 1 + (1 + S) = 2 + S /\ 1 + (1 + S + W) = 2 + S + W
        /\ {0, 1, 1 + S, 1 + S + W} \subseteq Nat
    BY <1>1
  <2>2. /\ At(s, 1 + 0, a) /\ At(s, 1 + 1, b) /\ At(s, 1 + (1 + S), c) /\ At(s, 1 + (1 + S + W), d)
    BY <1>2, <1>4, <1>5, <2>1
  <2>3. QED
    BY <2>1, <2>2
<1>7. Len(p.message) \in Word(WordBytes)
  <2>1. Len(v) \in Nat /\ Len(s) \in Word(WordBytes) /\ Len(s) >= Len(p.message)
    BY <1>2, <1>3, <1>4, <1>5
  <2>2. Power[WordBytes] \in Nat
    BY PowerFacts, IosBufAssumption
  <2>3. QED
    BY <1>2, <2>1, <2>2 DEF Word
<1>8. /\ Int8At(s, 0) = p.cmd
      /\ Int8At(s, 1) = p.version
      /\ Int16At(s, 2) = p.error
  BY <1>1, <1>2, <1>7, <1>5, <1>6, ByteFacts, ShortFacts, WordFacts, StringFacts
  DEF k, a, b, c, d, W, S
<1>9. Decode(s) = [cmd |-> 1, version |-> p.version, error |-> p.error,
                   message |-> StrAt(s, 2 + ShortBytes)]
  BY <1>1, <1>8 DEF Decode, Hello, HelloAck, Bye, PutBlock, PutBlockAck, GetBlock, GetBlockAck
<1>10. QED
  BY <1>1, <1>3, <1>5, <1>9 DEF Agree, HelloAck

\* A goodbye.
LEMMA ByeRead ==
    ASSUME NEW p \in [cmd : {Bye}, version : Word(1), error : Word(ShortBytes)],
           Len(Encode(p)) \in Word(WordBytes)
    PROVE  Encode(p) \in Seq(Byte) /\ Agree(p, Decode(Encode(p)))
<1> DEFINE W == WordBytes
           S == ShortBytes
           k == Int8(p.cmd)
           a == Int8(p.version)
           b == Int16(p.error)
           v == a \o b
           s == k \o v
<1>1. p.cmd = 2 /\ p.cmd \in Word(1) /\ W \in Nat /\ S \in Nat
  BY CommandByte, IosBufAssumption
  DEF Hello, HelloAck, Bye, PutBlock, PutBlockAck, GetBlock, GetBlockAck
<1>2. /\ k \in Seq(Byte) /\ Len(k) = 1
      /\ a \in Seq(Byte) /\ Len(a) = 1
      /\ b \in Seq(Byte) /\ Len(b) = S
  BY <1>1, ByteFacts, ShortFacts, WordFacts, StringFacts
<1>3. Encode(p) = s
  BY <1>1 DEF Encode, Fields, Hello, HelloAck, Bye, PutBlock, PutBlockAck, GetBlock, GetBlockAck
<1> HIDE DEF k, a, b, W, S
<1>4. /\ v \in Seq(Byte) /\ Len(v) \in Nat
      /\ At(v, 0, a) /\ At(v, 1, b)
  <2>1. /\ v \in Seq(Byte) /\ Len(v) = Len(a) + Len(b)
        /\ At(v, 0, a)
        /\ At(v, Len(a), b)
    BY ONLY <1>2, TwoFields DEF v
  <2> HIDE DEF v
  <2>2. QED
    BY <1>1, <1>2, <2>1
<1> HIDE DEF v
<1>5. /\ s \in Seq(Byte) /\ Len(s) = 1 + Len(v) /\ At(s, 0, k)
      /\ \A t \in Seq(Byte), o \in Nat : At(v, o, t) => At(s, 1 + o, t)
  BY <1>2, <1>4, CommandFields
<1> HIDE DEF s
<1>6. /\ At(s, 1, a) /\ At(s, 2, b)
  <2>1. /\ 1 + 0 = 1 /\ 1 + 1 = 2
        /\ {0, 1} \subseteq Nat
    BY <1>1
  <2>2. /\ At(s, 1 + 0, a) /\ At(s, 1 + 1, b)
    BY <1>2, <1>4, <1>5, <2>1
  <2>3. QED
    BY <2>1, <2>2
<1>8. /\ Int8At(s, 0) = p.cmd
      /\ Int8At(s, 1) = p.version
      /\ Int16At(s, 2) = p.error
  BY <1>1, <1>2, <1>5, <1>6, ByteFacts, ShortFacts, WordFacts, StringFacts
  DEF k, a, b, W, S
<1>9. Decode(s) = [cmd |-> 2, version |-> p.version, error |-> p.error]
  BY <1>1, <1>8 DEF Decode, Hello, HelloAck, Bye, PutBlock, PutBlockAck, GetBlock, GetBlockAck
<1>10. Decode(s) = p
  BY <1>1, <1>9
<1>11. QED
  BY <1>1, <1>3, <1>5, <1>10 DEF Agree, HelloAck

\* A packet with an object.
LEMMA ObjectRead ==
    ASSUME NEW p \in [cmd : {PutBlock, GetBlockAck}, file : Word(WordBytes),
                      block : Word(WordBytes), data : Seq(Byte)],
           Len(Encode(p)) \in Word(WordBytes)
    PROVE  Encode(p) \in Seq(Byte) /\ Agree(p, Decode(Encode(p)))
<1> DEFINE W == WordBytes
           S == ShortBytes
           k == Int8(p.cmd)
           a == Int32(p.file)
           b == Int32(p.block)
           c == Str(p.data)
           v == (a \o b) \o c
           s == k \o v
<1>1. p.cmd \in {3, 6} /\ p.cmd \in Word(1) /\ W \in Nat /\ S \in Nat
  BY CommandByte, IosBufAssumption
  DEF Hello, HelloAck, Bye, PutBlock, PutBlockAck, GetBlock, GetBlockAck
<1>2. /\ k \in Seq(Byte) /\ Len(k) = 1
      /\ a \in Seq(Byte) /\ Len(a) = W
      /\ b \in Seq(Byte) /\ Len(b) = W
      /\ c \in Seq(Byte) /\ Len(c) = W + Len(p.data) /\ Len(p.data) \in Nat
  BY <1>1, ByteFacts, ShortFacts, WordFacts, StringFacts
<1>3. Encode(p) = s
  BY <1>1 DEF Encode, Fields, Hello, HelloAck, Bye, PutBlock, PutBlockAck, GetBlock, GetBlockAck
<1> HIDE DEF k, a, b, c, W, S
<1>4. /\ v \in Seq(Byte) /\ Len(v) >= Len(p.data)
      /\ At(v, 0, a) /\ At(v, W, b) /\ At(v, 2 * W, c)
  <2>1. /\ v \in Seq(Byte) /\ Len(v) = (Len(a) + Len(b)) + Len(c)
        /\ At(v, 0, a)
        /\ At(v, Len(a), b)
        /\ At(v, Len(a) + Len(b), c)
    BY ONLY <1>2, ThreeFields DEF v
  <2> HIDE DEF v
  <2>2. QED
    BY <1>1, <1>2, <2>1
<1> HIDE DEF v
<1>5. /\ s \in Seq(Byte) /\ Len(s) = 1 + Len(v) /\ At(s, 0, k)
      /\ \A t \in Seq(Byte), o \in Nat : At(v, o, t) => At(s, 1 + o, t)
  BY <1>2, <1>4, CommandFields
<1> HIDE DEF s
<1>6. /\ At(s, 1, a) /\ At(s, 1 + W, b) /\ At(s, 1 + 2 * W, c)
  <2>1. /\ 1 + 0 = 1 /\ 1 + W = 1 + W /\ 1 + (2 * W) = 1 + 2 * W
        /\ {0, W, 2 * W} \subseteq Nat
    BY <1>1
  <2>2. /\ At(s, 1 + 0, a) /\ At(s, 1 + W, b) /\ At(s, 1 + (2 * W), c)
    BY <1>2, <1>4, <1>5, <2>1
  <2>3. QED
    BY <2>1, <2>2
<1>7. Len(p.data) \in Word(WordBytes)
  <2>1. Len(v) \in Nat /\ Len(s) \in Word(WordBytes) /\ Len(s) >= Len(p.data)
    BY <1>2, <1>3, <1>4, <1>5
  <2>2. Power[WordBytes] \in Nat
    BY PowerFacts, IosBufAssumption
  <2>3. QED
    BY <1>2, <2>1, <2>2 DEF Word
<1>8. /\ Int8At(s, 0) = p.cmd
      /\ Int32At(s, 1) = p.file
      /\ Int32At(s, 1 + W) = p.block
      /\ StrAt(s, 1 + 2 * W) = p.data
  BY <1>1, <1>2, <1>7, <1>5, <1>6, ByteFacts, ShortFacts, WordFacts, StringFacts
  DEF k, a, b, c, W, S
<1>9. Decode(s) = [cmd |-> p.cmd, file |-> p.file, block |-> p.block, data |-> p.data]
  <2>1. 1 + (1 - 1) * W = 1 /\ 1 + (2 - 1) * W = 1 + W
    BY <1>1
  <2>2. QED
    BY <1>1, <1>8, <2>1
    DEF Decode, Hello, HelloAck, Bye, PutBlock, PutBlockAck, GetBlock, GetBlockAck, W
<1>10. Decode(s) = p
  BY <1>1, <1>9
<1>11. QED
  BY <1>1, <1>3, <1>5, <1>10 DEF Agree, HelloAck

\* A packet with three ids.
LEMMA IdsRead ==
    ASSUME NEW p \in [cmd : {PutBlockAck, GetBlock}, file : Word(WordBytes),
                      block : Word(WordBytes), archive : Word(WordBytes)],
           Len(Encode(p)) \in Word(WordBytes)
    PROVE  Encode(p) \in Seq(Byte) /\ Agree(p, Decode(Encode(p)))
<1> DEFINE W == WordBytes
           S == ShortBytes
           k == Int8(p.cmd)
           a == Int32(p.file)
           b == Int32(p.block)
           c == Int32(p.archive)
           v == (a \o b) \o c
           s == k \o v
<1>1. p.cmd \in {4, 5} /\ p.cmd \in Word(1) /\ W \in Nat /\ S \in Nat
  BY CommandByte, IosBufAssumption
  DEF Hello, HelloAck, Bye, PutBlock, PutBlockAck, GetBlock, GetBlockAck
<1>2. /\ k \in Seq(Byte) /\ Len(k) = 1
      /\ a \in Seq(Byte) /\ Len(a) = W
      /\ b \in Seq(Byte) /\ Len(b) = W
      /\ c \in Seq(Byte) /\ Len(c) = W
  BY <1>1, ByteFacts, ShortFacts, WordFacts, StringFacts
<1>3. Encode(p) = s
  BY <1>1 DEF Encode, Fields, Hello, HelloAck, Bye, PutBlock, PutBlockAck, GetBlock, GetBlockAck
<1> HIDE DEF k, a, b, c, W, S
<1>4. /\ v \in Seq(Byte) /\ Len(v) \in Nat
      /\ At(v, 0, a) /\ At(v, W, b) /\ At(v, 2 * W, c)
  <2>1. /\ v \in Seq(Byte) /\ Len(v) = (Len(a) + Len(b)) + Len(c)
        /\ At(v, 0, a)
        /\ At(v, Len(a), b)
        /\ At(v, Len(a) + Len(b), c)
    BY ONLY <1>2, ThreeFields DEF v
  <2> HIDE DEF v
  <2>2. QED
    BY <1>1, <1>2, <2>1
<1> HIDE DEF v
<1>5. /\ s \in Seq(Byte) /\ Len(s) = 1 + Len(v) /\ At(s, 0, k)
      /\ \A t \in Seq(Byte), o \in Nat : At(v, o, t) => At(s, 1 + o, t)
  BY <1>2, <1>4, CommandFields
<1> HIDE DEF s
<1>6. /\ At(s, 1, a) /\ At(s, 1 + W, b) /\ At(s, 1 + 2 * W, c)
  <2>1. /\ 1 + 0 = 1 /\ 1 + W = 1 + W /\ 1 + (2 * W) = 1 + 2 * W
        /\ {0, W, 2 * W} \subseteq Nat
    BY <1>1
  <2>2. /\ At(s, 1 + 0, a) /\ At(s, 1 + W, b) /\ At(s, 1 + (2 * W), c)
    BY <1>2, <1>4, <1>5, <2>1
  <2>3. QED
    BY <2>1, <2>2
<1>8. /\ Int8At(s, 0) = p.cmd
      /\ Int32At(s, 1) = p.file
      /\ Int32At(s, 1 + W) = p.block
      /\ Int32At(s, 1 + 2 * W) = p.archive
  BY <1>1, <1>2, <1>5, <1>6, ByteFacts, ShortFacts, WordFacts, StringFacts
  DEF k, a, b, c, W, S
<1>9. Decode(s) = [cmd |-> p.cmd, file |-> p.file, block |-> p.block, archive |-> p.archive]
  <2>1. 1 + (1 - 1) * W = 1 /\ 1 + (2 - 1) * W = 1 + W /\ 1 + (3 - 1) * W = 1 + 2 * W
    BY <1>1
  <2>2. QED
    BY <1>1, <1>8, <2>1
    DEF Decode, Hello, HelloAck, Bye, PutBlock, PutBlockAck, GetBlock, GetBlockAck, W
<1>10. Decode(s) = p
  BY <1>1, <1>9
<1>11. QED
  BY <1>1, <1>3, <1>5, <1>10 DEF Agree, HelloAck

\* The bytes of a packet, and what its receiver makes of them.
LEMMA PacketRead ==
    ASSUME NEW p \in Packet
    PROVE  /\ Encode(p) \in Seq(Byte) /\ Len(Encode(p)) \in Word(WordBytes)
           /\ Agree(p, Decode(Encode(p)))
BY PacketShape, HelloRead, HelloAckRead, ByeRead, ObjectRead, IdsRead DEF Shape

-----------------------------------------------------------------------------
(* Texts that are put together and taken apart. *)

\* The bytes of two texts put together.
LEMMA JoinBytes ==
    ASSUME NEW a \in Seq(Byte), NEW b \in Seq(Byte)
    PROVE  /\ a \o b \in Seq(Byte) /\ Len(a \o b) = Len(a) + Len(b)
           /\ Len(a) \in Nat /\ Len(b) \in Nat
           /\ \A i \in 1 .. Len(a) : (a \o b)[i] = a[i]
           /\ \A i \in 1 .. Len(b) : (a \o b)[Len(a) + i] = b[i]
OBVIOUS

\* It does not matter which texts are put together first.
LEMMA JoinAssociates ==
    ASSUME NEW a \in Seq(Byte), NEW b \in Seq(Byte), NEW c \in Seq(Byte)
    PROVE  (a \o b) \o c = a \o (b \o c)
<1> DEFINE x == (a \o b) \o c
           y == a \o (b \o c)
           ab == a \o b
           bc == b \o c
<1>1. /\ Len(a) \in Nat /\ Len(b) \in Nat /\ Len(c) \in Nat
      /\ ab \in Seq(Byte) /\ Len(ab) = Len(a) + Len(b)
      /\ bc \in Seq(Byte) /\ Len(bc) = Len(b) + Len(c)
      /\ \A i \in 1 .. Len(a) : ab[i] = a[i]
      /\ \A i \in 1 .. Len(b) : ab[Len(a) + i] = b[i]
      /\ \A i \in 1 .. Len(b) : bc[i] = b[i]
      /\ \A i \in 1 .. Len(c) : bc[Len(b) + i] = c[i]
  BY JoinBytes
<1>2. x = ab \o c /\ y = a \o bc
  OBVIOUS
<1> HIDE DEF ab, bc
<1>3. /\ x \in Seq(Byte) /\ Len(x) = (Len(a) + Len(b)) + Len(c)
      /\ y \in Seq(Byte) /\ Len(y) = (Len(a) + Len(b)) + Len(c)
      /\ \A i \in 1 .. Len(ab) : x[i] = ab[i]
      /\ \A i \in 1 .. Len(c) : x[Len(ab) + i] = c[i]
      /\ \A i \in 1 .. Len(a) : y[i] = a[i]
      /\ \A i \in 1 .. Len(bc) : y[Len(a) + i] = bc[i]
  <2> HIDE DEF x, y
  <2>1. /\ ab \o c \in Seq(Byte) /\ Len(ab \o c) = Len(ab) + Len(c)
        /\ \A i \in 1 .. Len(ab) : (ab \o c)[i] = ab[i]
        /\ \A i \in 1 .. Len(c) : (ab \o c)[Len(ab) + i] = c[i]
    BY <1>1, JoinBytes
  <2>2. /\ a \o bc \in Seq(Byte) /\ Len(a \o bc) = Len(a) + Len(bc)
        /\ \A i \in 1 .. Len(a) : (a \o bc)[i] = a[i]
        /\ \A i \in 1 .. Len(bc) : (a \o bc)[Len(a) + i] = bc[i]
    BY <1>1, JoinBytes
  <2>3. /\ Len(ab) + Len(c) = (Len(a) + Len(b)) + Len(c)
        /\ Len(a) + Len(bc) = (Len(a) + Len(b)) + Len(c)
    BY <1>1
  <2>4. QED
    BY <1>2, <2>1, <2>2, <2>3
<1> HIDE DEF x, y
<1>4. ASSUME NEW i \in 1 .. Len(x) PROVE x[i] = y[i]
  <2>1. CASE i <= Len(a)
    <3>1. i \in 1 .. Len(a) /\ i \in 1 .. Len(ab)
      BY <1>1, <2>1
    <3>2. QED
      BY <1>1, <1>3, <3>1
  <2>2. CASE i > Len(a) /\ i <= Len(a) + Len(b)
    <3> DEFINE j == i - Len(a)
    <3>1. j \in 1 .. Len(b) /\ i = Len(a) + j /\ i \in 1 .. Len(ab) /\ j \in 1 .. Len(bc)
      BY <1>1, <2>2
    <3> HIDE DEF j
    <3>2. x[i] = b[j] /\ y[i] = b[j]
      BY <1>1, <1>3, <3>1
    <3>3. QED
      BY <3>2
  <2>3. CASE i > Len(a) + Len(b)
    <3> DEFINE j == i - (Len(a) + Len(b))
    <3>1. /\ j \in 1 .. Len(c) /\ i = Len(ab) + j /\ Len(b) + j \in 1 .. Len(bc)
          /\ i = Len(a) + (Len(b) + j)
      BY <1>1, <1>3, <2>3
    <3> HIDE DEF j
    <3>2. x[i] = c[j] /\ y[i] = c[j]
      BY <1>1, <1>3, <3>1
    <3>3. QED
      BY <3>2
  <2>4. QED
    BY <1>1, <2>1, <2>2, <2>3
<1>5. x = y
  BY <1>3, <1>4, SameBytes
<1>6. QED
  BY <1>5 DEF x, y

\* The first bytes of a text, and the others.
First(s, n) == SubSeq(s, 1, n)
Behind(s, n) == SubSeq(s, n + 1, Len(s))

\* A text taken apart, and put together again.
LEMMA SplitFacts ==
    ASSUME NEW s \in Seq(Byte), NEW n \in Nat, n <= Len(s)
    PROVE  /\ First(s, n) \in Seq(Byte) /\ Len(First(s, n)) = n
           /\ Behind(s, n) \in Seq(Byte) /\ Len(Behind(s, n)) = Len(s) - n
           /\ \A i \in 1 .. n : First(s, n)[i] = s[i]
           /\ \A i \in 1 .. Len(s) - n : Behind(s, n)[i] = s[n + i]
           /\ First(s, n) \o Behind(s, n) = s
<1> DEFINE a == First(s, n)
           b == Behind(s, n)
<1>1. /\ a \in Seq(Byte) /\ Len(a) = n /\ b \in Seq(Byte) /\ Len(b) = Len(s) - n
      /\ \A i \in 1 .. n : a[i] = s[i]
      /\ \A i \in 1 .. Len(s) - n : b[i] = s[n + i]
      /\ Len(s) \in Nat
  BY DEF First, Behind
<1> HIDE DEF a, b
<1>2. /\ a \o b \in Seq(Byte) /\ Len(a \o b) = Len(s)
      /\ \A i \in 1 .. n : (a \o b)[i] = a[i]
      /\ \A i \in 1 .. Len(s) - n : (a \o b)[n + i] = b[i]
  BY <1>1
<1>3. ASSUME NEW i \in 1 .. Len(a \o b) PROVE (a \o b)[i] = s[i]
  <2>1. CASE i <= n
    BY <1>1, <1>2, <2>1
  <2>2. CASE i > n
    <3> DEFINE j == i - n
    <3>1. j \in 1 .. Len(s) - n /\ i = n + j
      BY <1>1, <1>2, <2>2
    <3> HIDE DEF j
    <3>2. QED
      BY <1>1, <1>2, <3>1
  <2>3. QED
    BY <2>1, <2>2
<1>4. a \o b = s
  BY <1>2, <1>3, SameBytes
<1>5. QED
  BY <1>1, <1>4 DEF a, b

\* The first bytes are taken from two texts.
LEMMA BehindJoin ==
    ASSUME NEW a \in Seq(Byte), NEW b \in Seq(Byte), NEW n \in Nat, n <= Len(a)
    PROVE  Behind(a, n) \o b = Behind(a \o b, n)
<1> DEFINE s == a \o b
           x == Behind(a, n)
           y == x \o b
           z == Behind(s, n)
<1>1. /\ s \in Seq(Byte) /\ Len(s) = Len(a) + Len(b) /\ Len(a) \in Nat /\ Len(b) \in Nat
      /\ \A i \in 1 .. Len(a) : s[i] = a[i]
      /\ \A i \in 1 .. Len(b) : s[Len(a) + i] = b[i]
  BY JoinBytes
<1> HIDE DEF s
<1>2. /\ x \in Seq(Byte) /\ Len(x) = Len(a) - n /\ \A i \in 1 .. Len(a) - n : x[i] = a[n + i]
      /\ z \in Seq(Byte) /\ Len(z) = Len(s) - n /\ \A i \in 1 .. Len(s) - n : z[i] = s[n + i]
  <2>1. n <= Len(s)
    BY <1>1
  <2>2. QED
    BY <1>1, <2>1, SplitFacts
<1> HIDE DEF x, z
<1>3. /\ y \in Seq(Byte) /\ Len(y) = Len(x) + Len(b)
      /\ \A i \in 1 .. Len(x) : y[i] = x[i]
      /\ \A i \in 1 .. Len(b) : y[Len(x) + i] = b[i]
  BY <1>2, JoinBytes
<1> HIDE DEF y
<1>4. ASSUME NEW i \in 1 .. Len(y) PROVE y[i] = z[i]
  <2>1. CASE i <= Len(x)
    <3>1. /\ i \in 1 .. Len(a) - n /\ i \in 1 .. Len(s) - n
          /\ n + i \in 1 .. Len(a) /\ i \in 1 .. Len(x)
      BY <1>1, <1>2, <2>1
    <3>2. QED
      BY <1>1, <1>2, <1>3, <3>1
  <2>2. CASE i > Len(x)
    <3> DEFINE j == i - Len(x)
    <3>1. j \in 1 .. Len(b) /\ i = Len(x) + j /\ i \in 1 .. Len(s) - n /\ n + i = Len(a) + j
      BY <1>1, <1>2, <1>3, <2>2
    <3> HIDE DEF j
    <3>2. QED
      BY <1>1, <1>2, <1>3, <3>1
  <2>3. QED
    BY <1>2, <1>3, <2>1, <2>2
<1>5. Len(y) = Len(z)
  BY <1>1, <1>2, <1>3
<1>6. y = z
  BY <1>2, <1>3, <1>4, <1>5, SameBytes
<1>7. QED
  BY <1>6 DEF s, x, y, z

\* What stands in a text stands in its parts.
LEMMA AtBehind ==
    ASSUME NEW s \in Seq(Byte), NEW o \in Nat, NEW t \in Seq(Byte), At(s, o, t),
           NEW n \in Nat, n <= o
    PROVE  At(Behind(s, n), o - n, t)
<1> DEFINE b == Behind(s, n)
<1>1. /\ Len(s) \in Nat /\ Len(t) \in Nat /\ o + Len(t) <= Len(s) /\ n <= Len(s)
      /\ \A i \in 1 .. Len(t) : s[o + i] = t[i]
  BY DEF At
<1>2. Len(b) = Len(s) - n /\ \A i \in 1 .. Len(s) - n : b[i] = s[n + i]
  BY <1>1, SplitFacts
<1> HIDE DEF b
<1>3. ASSUME NEW i \in 1 .. Len(t) PROVE b[(o - n) + i] = t[i]
  <2>1. (o - n) + i \in 1 .. Len(s) - n /\ n + ((o - n) + i) = o + i
    BY <1>1
  <2>2. QED
    BY <1>1, <1>2, <2>1
<1>4. At(b, o - n, t)
  BY <1>1, <1>2, <1>3 DEF At
<1>5. QED
  BY <1>4 DEF b

\* What stands within the first of two texts stands there alone.
LEMMA AtFirstPart ==
    ASSUME NEW a \in Seq(Byte), NEW b \in Seq(Byte), NEW o \in Nat, NEW t \in Seq(Byte),
           At(a \o b, o, t), o + Len(t) <= Len(a)
    PROVE  At(a, o, t)
<1> DEFINE s == a \o b
<1>1. /\ Len(t) \in Nat /\ Len(a) \in Nat /\ \A i \in 1 .. Len(a) : s[i] = a[i]
      /\ \A i \in 1 .. Len(t) : s[o + i] = t[i]
  BY DEF At
<1> HIDE DEF s
<1>2. ASSUME NEW i \in 1 .. Len(t) PROVE a[o + i] = t[i]
  <2>1. o + i \in 1 .. Len(a)
    BY <1>1
  <2>2. QED
    BY <1>1, <2>1
<1>3. QED
  BY <1>2 DEF At

\* The two parts of a text stand where it stands.
LEMMA AtParts ==
    ASSUME NEW s \in Seq(Byte), NEW o \in Nat, NEW x \in Seq(Byte), NEW y \in Seq(Byte),
           At(s, o, x \o y)
    PROVE  At(s, o, x) /\ At(s, o + Len(x), y)
<1> DEFINE t == x \o y
<1>1. /\ Len(x) \in Nat /\ Len(y) \in Nat /\ Len(t) = Len(x) + Len(y) /\ Len(s) \in Nat
      /\ \A i \in 1 .. Len(x) : t[i] = x[i]
      /\ \A i \in 1 .. Len(y) : t[Len(x) + i] = y[i]
      /\ o + Len(t) <= Len(s) /\ \A i \in 1 .. Len(t) : s[o + i] = t[i]
  BY DEF At
<1> HIDE DEF t
<1>2. ASSUME NEW i \in 1 .. Len(x) PROVE s[o + i] = x[i]
  <2>1. i \in 1 .. Len(t)
    BY <1>1
  <2>2. QED
    BY <1>1, <2>1
<1>3. ASSUME NEW i \in 1 .. Len(y) PROVE s[(o + Len(x)) + i] = y[i]
  <2>1. Len(x) + i \in 1 .. Len(t) /\ (o + Len(x)) + i = o + (Len(x) + i)
    BY <1>1
  <2>2. QED
    BY <1>1, <2>1
<1>4. o + Len(x) <= Len(s) /\ (o + Len(x)) + Len(y) <= Len(s)
  BY <1>1
<1>5. QED
  BY <1>2, <1>3, <1>4 DEF At

-----------------------------------------------------------------------------
(* The buffers. *)

BufferOK(b) == b \in IosType /\ b.rp <= Len(b.data) /\ Len(b.data) <= b.alloc

\* The unread bytes of a buffer are the text behind its read pointer.
LEMMA BufferFacts ==
    ASSUME NEW b, BufferOK(b)
    PROVE  /\ b.data \in Seq(Byte) /\ b.rp \in Nat /\ b.alloc \in Nat
           /\ IosUnread(b) = Behind(b.data, b.rp)
           /\ IosUnread(b) \in Seq(Byte)
           /\ Len(IosUnread(b)) = IosSize(b) /\ IosSize(b) \in Nat
<1>1. /\ b.data \in Seq(Byte) /\ b.rp \in Nat /\ b.alloc \in Nat /\ b.rp <= Len(b.data)
      /\ Len(b.data) \in Nat
  BY DEF BufferOK, IosType
<1>2. IosUnread(b) = Behind(b.data, b.rp)
  BY DEF IosUnread, Behind
<1>3. /\ Behind(b.data, b.rp) \in Seq(Byte)
      /\ Len(Behind(b.data, b.rp)) = Len(b.data) - b.rp
  BY <1>1, SplitFacts
<1>4. IosSize(b) = Len(b.data) - b.rp /\ IosSize(b) \in Nat
  BY <1>1 DEF IosSize
<1>5. QED
  BY <1>1, <1>2, <1>3, <1>4

\* ios_new makes a buffer with nothing in it.
LEMMA NewBuffer == BufferOK(IosNew) /\ IosUnread(IosNew) = <<>>
<1>1. BufferOK(IosNew)
  BY IosBufAssumption DEF BufferOK, IosNew, IosType
<1>2. IosUnread(IosNew) \in Seq(Byte) /\ Len(IosUnread(IosNew)) = 0
  BY <1>1, BufferFacts DEF IosSize, IosNew
<1>3. QED
  BY <1>1, <1>2

\* A buffer that grows by a fifth has become no smaller.
LEMMA Grows == ASSUME NEW m \in Nat PROVE (m * 6) \div 5 \in Nat /\ m <= (m * 6) \div 5
OBVIOUS

\* A text of which nothing is taken.
LEMMA NothingTaken == ASSUME NEW s \in Seq(Byte) PROVE Behind(s, 0) = s
<1>0. Len(s) \in Nat /\ 0 \in Nat /\ 0 <= Len(s)
  OBVIOUS
<1>1. /\ Behind(s, 0) \in Seq(Byte) /\ Len(Behind(s, 0)) = Len(s) - 0 /\ Len(s) \in Nat
      /\ \A i \in 1 .. Len(s) - 0 : Behind(s, 0)[i] = s[0 + i]
  BY <1>0, SplitFacts
<1>2. Len(Behind(s, 0)) = Len(s)
  BY <1>1
<1>3. ASSUME NEW i \in 1 .. Len(Behind(s, 0)) PROVE Behind(s, 0)[i] = s[i]
  <2>1. i \in 1 .. Len(s) - 0 /\ 0 + i = i
    BY <1>1
  <2>2. QED
    BY <1>1, <2>1
<1>4. QED
  BY <1>1, <1>2, <1>3, SameBytes

\* ios_append writes within what is allocated, and adds to the unread bytes.
LEMMA AppendBytes ==
    ASSUME NEW b, BufferOK(b), NEW x \in Seq(Byte)
    PROVE  /\ BufferOK(IosAppend(b, x))
           /\ IosUnread(IosAppend(b, x)) = IosUnread(b) \o x
<1> DEFINE n == Len(x)
           size == ((Len(b.data) + n) * 6) \div 5
           grow == n > 0 /\ TooSmall(b, n)
           room == IF grow THEN IosGrow(b, size) ELSE b
           y == IosAppend(b, x)
<1>1. /\ b.data \in Seq(Byte) /\ b.rp \in Nat /\ b.alloc \in Nat
      /\ b.rp <= Len(b.data) /\ Len(b.data) <= b.alloc
      /\ Len(b.data) \in Nat /\ n \in Nat
      /\ IosUnread(b) \in Seq(Byte) /\ Len(IosUnread(b)) = Len(b.data) - b.rp
      /\ IosUnread(b) = Behind(b.data, b.rp)
  BY BufferFacts DEF BufferOK, IosSize
<1>2. /\ room \in IosType
      /\ room.rp <= Len(room.data) /\ Len(room.data) + n <= room.alloc
      /\ Behind(room.data, room.rp) = IosUnread(b)
  <2>1. CASE grow
    <3>1. size \in Nat /\ Len(b.data) + n <= size
      <4>1. Len(b.data) + n \in Nat
        BY <1>1
      <4>2. QED
        BY <4>1, Grows
    <3> HIDE DEF size
    <3>2. /\ room = [data |-> IosUnread(b), rp |-> 0,
                     alloc |-> IF b.alloc < size THEN size ELSE b.alloc]
      BY <2>1 DEF IosGrow
    <3> HIDE DEF room
    <3>3. /\ room.data = IosUnread(b) /\ room.rp = 0 /\ room.alloc \in Nat /\ size <= room.alloc
          /\ room \in IosType
      BY <1>1, <3>1, <3>2 DEF IosType
    <3>4. Behind(IosUnread(b), 0) = IosUnread(b)
      BY <1>1, NothingTaken
    <3>5. QED
      BY <1>1, <3>1, <3>3, <3>4
  <2>2. CASE ~grow
    <3>1. room = b
      BY <2>2
    <3> HIDE DEF room
    <3>2. n = 0 \/ Len(b.data) + b.rp + n <= b.alloc
      BY <1>1, <2>2 DEF TooSmall
    <3>3. b \in IosType
      BY DEF BufferOK
    <3>4. QED
      BY <1>1, <3>1, <3>2, <3>3
  <2>3. QED
    BY <2>1, <2>2
<1>3. y = [room EXCEPT !.data = @ \o x]
  BY DEF IosAppend
<1> HIDE DEF room, y
<1>4. /\ y = [data |-> room.data \o x, rp |-> room.rp, alloc |-> room.alloc]
      /\ room.data \in Seq(Byte) /\ room.rp \in Nat /\ room.alloc \in Nat
  BY <1>2, <1>3 DEF IosType
<1>5. y.data = room.data \o x /\ y.rp = room.rp /\ y.alloc = room.alloc
  BY <1>4
<1>6. /\ room.data \o x \in Seq(Byte) /\ Len(room.data \o x) = Len(room.data) + n
      /\ Len(room.data) \in Nat
  BY <1>4, JoinBytes
<1>7. BufferOK(y)
  BY <1>1, <1>2, <1>4, <1>5, <1>6 DEF BufferOK, IosType
<1>8. Behind(room.data, room.rp) \o x = Behind(room.data \o x, room.rp)
  BY <1>2, <1>4, BehindJoin
<1>9. IosUnread(y) = IosUnread(b) \o x
  BY <1>2, <1>5, <1>7, <1>8, BufferFacts
<1>10. QED
  BY <1>7, <1>9 DEF y

\* ios_read takes what is there from the unread bytes.
LEMMA SkipBytes ==
    ASSUME NEW b, BufferOK(b), NEW n \in Nat, n <= IosSize(b)
    PROVE  /\ BufferOK(IosSkip(b, n))
           /\ IosUnread(IosSkip(b, n)) = Behind(IosUnread(b), n)
           /\ SubSeq(b.data, b.rp + 1, b.rp + n) = First(IosUnread(b), n)
<1> DEFINE y == IosSkip(b, n)
           d == b.data
           r == b.rp
           u == IosUnread(b)
<1>1. /\ d \in Seq(Byte) /\ r \in Nat /\ b.alloc \in Nat /\ Len(d) \in Nat
      /\ r <= Len(d) /\ Len(d) <= b.alloc /\ n <= Len(d) - r
      /\ u \in Seq(Byte) /\ Len(u) = Len(d) - r /\ u = Behind(d, r)
  BY BufferFacts DEF BufferOK, IosSize
<1>2. y = [data |-> d, rp |-> r + n, alloc |-> b.alloc]
  BY DEF IosSkip, BufferOK, IosType
<1>3. y.data = d /\ y.rp = r + n /\ y.alloc = b.alloc
  BY <1>2
<1> HIDE DEF y, d, r, u
<1>4. BufferOK(y)
  <2>1. y \in IosType
    BY <1>1, <1>2 DEF IosType
  <2>2. QED
    BY <1>1, <1>3, <2>1 DEF BufferOK
<1>5. /\ \A i \in 1 .. Len(d) - r : u[i] = d[r + i]
  BY <1>1, SplitFacts
<1>6. IosUnread(y) = Behind(u, n)
  <2>1. IosUnread(y) = Behind(d, r + n)
    BY <1>3, <1>4, BufferFacts
  <2>2. /\ Behind(d, r + n) \in Seq(Byte) /\ Len(Behind(d, r + n)) = Len(d) - (r + n)
        /\ \A i \in 1 .. Len(d) - (r + n) : Behind(d, r + n)[i] = d[(r + n) + i]
    <3>1. r + n \in Nat /\ r + n <= Len(d)
      BY <1>1
    <3>2. QED
      BY <1>1, <3>1, SplitFacts
  <2>3. /\ Behind(u, n) \in Seq(Byte) /\ Len(Behind(u, n)) = Len(u) - n
        /\ \A i \in 1 .. Len(u) - n : Behind(u, n)[i] = u[n + i]
    BY <1>1, SplitFacts
  <2>4. ASSUME NEW i \in 1 .. Len(Behind(u, n)) PROVE Behind(d, r + n)[i] = Behind(u, n)[i]
    <3>1. /\ i \in 1 .. Len(u) - n /\ i \in 1 .. Len(d) - (r + n) /\ n + i \in 1 .. Len(d) - r
          /\ r + (n + i) = (r + n) + i
      BY <1>1, <2>3
    <3>2. QED
      BY <1>5, <2>2, <2>3, <3>1
  <2>5. Len(Behind(d, r + n)) = Len(Behind(u, n))
    BY <1>1, <2>2, <2>3
  <2>6. QED
    BY <2>1, <2>2, <2>3, <2>4, <2>5, SameBytes
<1>7. SubSeq(d, r + 1, r + n) = First(u, n)
  <2> DEFINE z == SubSeq(d, r + 1, r + n)
  <2>1. /\ z \in Seq(Byte) /\ Len(z) = n
        /\ \A i \in 1 .. n : z[i] = d[r + i]
    BY <1>1
  <2> HIDE DEF z
  <2>2. /\ First(u, n) \in Seq(Byte) /\ Len(First(u, n)) = n
        /\ \A i \in 1 .. n : First(u, n)[i] = u[i]
    BY <1>1, SplitFacts
  <2>3. ASSUME NEW i \in 1 .. n PROVE z[i] = First(u, n)[i]
    <3>1. i \in 1 .. Len(d) - r
      BY <1>1
    <3>2. QED
      BY <1>5, <2>1, <2>2, <3>1
  <2>4. z = First(u, n)
    BY <2>1, <2>2, <2>3, SameBytes
  <2>5. QED
    BY <2>4 DEF z
<1>8. QED
  BY <1>4, <1>6, <1>7 DEF y, d, r, u

-----------------------------------------------------------------------------
(* What is under way: the frames of the packets that are not dispatched yet. *)

\* A packet behind its length, as io_send_ios writes it.
Frame(p) == Int32(Len(Encode(p))) \o Encode(p)

\* The bytes in the input buffer, in the pipe and in the output buffer.
Stream == (IosUnread(in) \o pipe) \o IosUnread(out)

\* The frames of the packets behind the first g of list stand one behind the other
\* in s, and nothing else does; c[k] is where the k-th ends, counted from the
\* beginning of all that was sent.
Framed(s, list, g, c) ==
    /\ c \in [Nat -> Nat]
    /\ c[Len(list)] = c[g] + Len(s)
    /\ \A j, k \in 0 .. Len(list) : j <= k => c[j] <= c[k]
    /\ \A k \in 1 .. Len(list) : c[k] = c[k - 1] + Len(Frame(list[k]))
    /\ \A k \in g + 1 .. Len(list) : At(s, c[k - 1] - c[g], Frame(list[k]))

Conveyed(s, list, g) == \E c : Framed(s, list, g, c)

BuffersOK ==
    /\ BufferOK(out) /\ BufferOK(in)
    /\ pipe \in Seq(Byte) /\ Len(pipe) <= PipeSize
FlagsOK ==
    /\ registered \in BOOLEAN /\ ignoreOutput \in BOOLEAN /\ closed \in BOOLEAN
    /\ dispatching \in BOOLEAN /\ gone \in BOOLEAN
    /\ errors \in 0 .. MaxError
PacketsOK ==
    /\ script \in Seq(Packet) /\ sent \in Seq(Packet)
    /\ got \in Seq({Decode(s) : s \in Seq(Byte)}) /\ Len(got) <= Len(sent)

\* The inductive invariant.
Inv == BuffersOK /\ FlagsOK /\ PacketsOK /\ Conveyed(Stream, sent, Len(got))

\* The frame of a packet, and its two parts.
LEMMA FrameFacts ==
    ASSUME NEW p \in Packet
    PROVE  /\ Frame(p) \in Seq(Byte) /\ Int32(Len(Encode(p))) \in Seq(Byte)
           /\ Encode(p) \in Seq(Byte) /\ Len(Encode(p)) \in Nat
           /\ Len(Int32(Len(Encode(p)))) = WordBytes
           /\ Len(Frame(p)) = WordBytes + Len(Encode(p))
           /\ WordBytes \in Nat /\ WordBytes > 0
<1>1. /\ Encode(p) \in Seq(Byte) /\ Len(Encode(p)) \in Word(WordBytes)
  BY PacketRead
<1>2. /\ Int32(Len(Encode(p))) \in Seq(Byte) /\ Len(Int32(Len(Encode(p)))) = WordBytes
  BY <1>1, WordFacts
<1>3. /\ Frame(p) \in Seq(Byte) /\ Len(Frame(p)) = WordBytes + Len(Encode(p))
      /\ Len(Encode(p)) \in Nat
  BY <1>1, <1>2, JoinBytes DEF Frame
<1>4. QED
  BY <1>1, <1>2, <1>3, IosBufAssumption

\* d continues the first n places of c by one, e bytes behind the last.
Continues(d, c, n, e) ==
    /\ d \in [Nat -> Nat] /\ d[n + 1] = c[n] + e
    /\ \A k \in 0 .. n : d[k] = c[k]
    /\ \A k \in 0 .. n + 1 : d[k] \in Nat

\* There is always such a continuation.
LEMMA OneMore ==
    ASSUME NEW c \in [Nat -> Nat], NEW n \in Nat, NEW e \in Nat
    PROVE  \E d : Continues(d, c, n, e)
<1> DEFINE d == [c EXCEPT ![n + 1] = c[n] + e]
<1>1. n + 1 \in Nat /\ c[n] + e \in Nat
  OBVIOUS
<1>2. d \in [Nat -> Nat] /\ d[n + 1] = c[n] + e
  BY <1>1
<1>3. \A k \in 0 .. n : d[k] = c[k]
  OBVIOUS
<1> HIDE DEF d
<1>4. \A k \in 0 .. n + 1 : d[k] \in Nat
  BY <1>2
<1>5. QED
  BY <1>2, <1>3, <1>4 DEF Continues

\* A packet that is sent comes behind everything that is under way.
LEMMA SentIsConveyed ==
    ASSUME NEW s \in Seq(Byte), NEW list \in Seq(Packet), NEW g \in 0 .. Len(list),
           Conveyed(s, list, g), NEW p \in Packet
    PROVE  Conveyed(s \o Frame(p), Append(list, p), g)
<1>1. PICK c : Framed(s, list, g, c)
  BY DEF Conveyed
<1> DEFINE n == Len(list)
           l == Append(list, p)
           f == Frame(p)
           t == s \o f
<1>2. /\ n \in Nat /\ Len(l) = n + 1 /\ l[n + 1] = p
      /\ \A k \in 1 .. n : l[k] = list[k]
  <2>1. /\ l \in Seq(Packet) /\ DOMAIN l = 1 .. n + 1 /\ DOMAIN list = 1 .. n
        /\ \A k \in DOMAIN list : l[k] = list[k]
        /\ l[n + 1] = p
    BY AppendFacts
  <2> HIDE DEF l
  <2>2. n \in Nat /\ Len(l) \in Nat /\ DOMAIN l = 1 .. Len(l)
    BY <2>1
  <2>3. QED
    BY <2>1, <2>2
<1>3. f \in Seq(Byte) /\ Len(f) \in Nat
  BY FrameFacts, JoinBytes
<1>4. PICK d : /\ d \in [Nat -> Nat] /\ d[n + 1] = c[n] + Len(f)
               /\ \A k \in 0 .. n : d[k] = c[k]
               /\ \A k \in 0 .. n + 1 : d[k] \in Nat
  <2>1. c \in [Nat -> Nat]
    BY <1>1 DEF Framed
  <2> HIDE DEF n, f
  <2>2. n \in Nat /\ Len(f) \in Nat
    BY <1>2, <1>3
  <2>3. PICK d : Continues(d, c, n, Len(f))
    BY <2>1, <2>2, OneMore, Zenon
  <2>4. QED
    BY <2>3, Zenon DEF Continues
<1>5. /\ Joins(t, s, f)
  BY <1>3, JoinFacts
<1>6. /\ t \in Seq(Byte) /\ Len(t) = Len(s) + Len(f) /\ Len(s) \in Nat
      /\ At(t, Len(s), f)
      /\ \A r \in Seq(Byte), o \in Nat : At(s, o, r) => At(t, o, r)
  BY <1>5 DEF Joins
<1>7. /\ c[n] = c[g] + Len(s)
      /\ \A j, k \in 0 .. n : j <= k => c[j] <= c[k]
      /\ \A k \in 1 .. n : c[k] = c[k - 1] + Len(Frame(list[k]))
      /\ \A k \in g + 1 .. n : At(s, c[k - 1] - c[g], Frame(list[k]))
      /\ \A k \in 0 .. n : c[k] \in Nat
  BY <1>1, <1>2 DEF Framed
<1>8. g \in 0 .. n /\ n \in 0 .. n /\ \A k \in 1 .. n : list[k] \in Packet
  BY <1>2
<1> HIDE DEF n, l, f, t
<1>9. /\ d[n + 1] = d[g] + Len(t)
  <2>1. c[n] \in Nat /\ c[g] \in Nat /\ d[g] = c[g] /\ c[n] = c[g] + Len(s)
    BY <1>4, <1>7, <1>8
  <2>2. (c[g] + Len(s)) + Len(f) = c[g] + (Len(s) + Len(f))
    BY <1>3, <1>6, <2>1
  <2>3. QED
    BY <1>4, <1>6, <2>1, <2>2
<1>10. ASSUME NEW j \in 0 .. n + 1, NEW k \in 0 .. n + 1, j <= k PROVE d[j] <= d[k]
  <2>1. CASE k <= n
    <3>1. j \in 0 .. n /\ k \in 0 .. n
      BY <1>2, <1>10, <2>1
    <3>2. QED
      BY <1>4, <1>7, <1>10, <3>1
  <2>2. CASE k = n + 1 /\ j <= n
    <3>1. j \in 0 .. n /\ n \in 0 .. n /\ c[j] <= c[n] /\ c[j] \in Nat /\ c[n] \in Nat
      BY <1>2, <1>7, <1>10, <2>2
    <3>2. d[j] = c[j] /\ d[k] = c[n] + Len(f)
      BY <1>4, <2>2, <3>1
    <3>3. c[j] <= c[n] + Len(f)
      BY <1>3, <3>1
    <3>4. QED
      BY <3>2, <3>3
  <2>3. CASE k = n + 1 /\ j = n + 1
    <3>1. n + 1 \in 0 .. n + 1
      BY <1>2
    <3>2. d[n + 1] \in Nat
      BY <1>4, <3>1
    <3>3. QED
      BY <2>3, <3>2
  <2>4. QED
    BY <1>2, <1>10, <2>1, <2>2, <2>3
<1>11. ASSUME NEW k \in 1 .. n + 1 PROVE d[k] = d[k - 1] + Len(Frame(l[k]))
  <2>1. CASE k <= n
    <3>1. k \in 1 .. n /\ k \in 0 .. n /\ k - 1 \in 0 .. n
      BY <1>2, <2>1
    <3>2. QED
      BY <1>2, <1>4, <1>7, <3>1
  <2>2. CASE k = n + 1
    <3>1. k - 1 = n /\ n \in 0 .. n
      BY <1>2, <2>2
    <3>2. d[n + 1] = d[n] + Len(Frame(l[n + 1]))
      BY <1>2, <1>4, <3>1 DEF f
    <3>3. QED
      BY <2>2, <3>1, <3>2
  <2>3. QED
    BY <1>2, <2>1, <2>2
<1>12. ASSUME NEW k \in g + 1 .. n + 1 PROVE At(t, d[k - 1] - d[g], Frame(l[k]))
  <2>1. CASE k <= n
    <3>1. /\ k \in g + 1 .. n /\ k \in 1 .. n /\ k - 1 \in 0 .. n /\ g <= k - 1
      BY <1>2, <1>8, <2>1
    <3>2. /\ d[k - 1] = c[k - 1] /\ d[g] = c[g] /\ l[k] = list[k] /\ list[k] \in Packet
      BY <1>2, <1>4, <1>8, <3>1
    <3>3. c[k - 1] \in Nat /\ c[g] \in Nat /\ c[g] <= c[k - 1]
      BY <1>2, <1>7, <1>8, <3>1
    <3>4. c[k - 1] - c[g] \in Nat
      BY <3>3
    <3>40. Frame(list[k]) \in Seq(Byte)
      BY <3>2, FrameFacts
    <3>5. At(s, c[k - 1] - c[g], Frame(list[k]))
      BY <1>7, <3>1
    <3>6. QED
      BY <1>6, <3>2, <3>4, <3>40, <3>5
  <2>2. CASE k = n + 1
    <3>1. k - 1 = n /\ n \in 0 .. n
      BY <1>2, <2>2
    <3>2. d[k - 1] = c[n] /\ d[g] = c[g] /\ l[k] = p
      BY <1>2, <1>4, <1>8, <2>2, <3>1
    <3>3. c[n] - c[g] = Len(s)
      BY <1>2, <1>6, <1>7, <1>8
    <3>4. QED
      BY <1>6, <3>2, <3>3 DEF f
  <2>3. QED
    BY <1>2, <1>8, <2>1, <2>2
<1>13. Framed(t, l, g, d)
  <2>1. /\ d \in [Nat -> Nat] /\ d[Len(l)] = d[g] + Len(t)
    BY <1>2, <1>4, <1>9
  <2>2. \A j, k \in 0 .. Len(l) : j <= k => d[j] <= d[k]
    BY <1>2, <1>10
  <2>3. \A k \in 1 .. Len(l) : d[k] = d[k - 1] + Len(Frame(l[k]))
    BY <1>2, <1>11
  <2>4. \A k \in g + 1 .. Len(l) : At(t, d[k - 1] - d[g], Frame(l[k]))
    BY <1>2, <1>12
  <2>5. QED
    BY <2>1, <2>2, <2>3, <2>4 DEF Framed
<1>14. Conveyed(t, l, g)
  BY <1>4, <1>13 DEF Conveyed
<1>15. QED
  BY <1>14 DEF t, l, f

\* What is under way begins with the frame of the next packet.
LEMMA NextFrame ==
    ASSUME NEW s \in Seq(Byte), NEW list \in Seq(Packet), NEW g \in 0 .. Len(list),
           Conveyed(s, list, g), s # <<>>
    PROVE  /\ g + 1 \in 1 .. Len(list) /\ list[g + 1] \in Packet
           /\ At(s, 0, Frame(list[g + 1]))
           /\ Conveyed(Behind(s, Len(Frame(list[g + 1]))), list, g + 1)
<1>1. PICK c : Framed(s, list, g, c)
  BY DEF Conveyed
<1> DEFINE n == Len(list)
           f == Frame(list[g + 1])
           t == Behind(s, Len(f))
<1>2. /\ n \in Nat /\ g \in 0 .. n /\ n \in 0 .. n
      /\ \A k \in 1 .. n : list[k] \in Packet
      /\ Len(s) \in Nat /\ Len(s) > 0
  <2>1. n \in Nat /\ \A k \in 1 .. n : list[k] \in Packet
    OBVIOUS
  <2>2. Len(s) \in Nat /\ Len(s) > 0
    OBVIOUS
  <2>3. QED
    BY <2>1, <2>2
<1>3. /\ c[n] = c[g] + Len(s)
      /\ \A j, k \in 0 .. n : j <= k => c[j] <= c[k]
      /\ \A k \in 1 .. n : c[k] = c[k - 1] + Len(Frame(list[k]))
      /\ \A k \in g + 1 .. n : At(s, c[k - 1] - c[g], Frame(list[k]))
      /\ \A k \in 0 .. n : c[k] \in Nat
  BY <1>1, <1>2 DEF Framed
<1> HIDE DEF n
<1>4. g + 1 \in 1 .. n /\ g + 1 \in g + 1 .. n /\ (g + 1) - 1 = g /\ c[g] - c[g] = 0
  BY <1>2, <1>3
<1>5. list[g + 1] \in Packet /\ At(s, 0, f)
  BY <1>2, <1>3, <1>4
<1>6. f \in Seq(Byte) /\ Len(f) \in Nat /\ Len(f) <= Len(s)
  <2>1. f \in Seq(Byte) /\ Len(f) \in Nat
    BY <1>5, FrameFacts, JoinBytes
  <2>2. 0 + Len(f) <= Len(s)
    BY <1>5 DEF At
  <2>3. QED
    BY <1>2, <2>1, <2>2
<1>7. c[g + 1] = c[g] + Len(f)
  BY <1>3, <1>4
<1> HIDE DEF f
<1>8. /\ t \in Seq(Byte) /\ Len(t) = Len(s) - Len(f)
  BY <1>6, SplitFacts
<1>9. c[n] = c[g + 1] + Len(t)
  BY <1>2, <1>3, <1>4, <1>6, <1>7, <1>8
<1>10. ASSUME NEW k \in (g + 1) + 1 .. n PROVE At(t, c[k - 1] - c[g + 1], Frame(list[k]))
  <2>1. /\ k \in g + 1 .. n /\ k \in 1 .. n /\ k - 1 \in 0 .. n /\ g + 1 <= k - 1
        /\ g + 1 \in 0 .. n
    BY <1>2, <1>4
  <2> DEFINE o == c[k - 1] - c[g]
             r == Frame(list[k])
  <2>2. c[k - 1] \in Nat /\ c[g] \in Nat /\ c[g + 1] \in Nat /\ c[g + 1] <= c[k - 1]
    BY <1>2, <1>3, <2>1
  <2>3. o \in Nat /\ Len(f) <= o /\ o - Len(f) = c[k - 1] - c[g + 1]
    BY <1>6, <1>7, <2>2
  <2>4. r \in Seq(Byte)
    BY <1>2, <2>1, FrameFacts
  <2>5. At(s, o, r)
    BY <1>3, <2>1
  <2> HIDE DEF o, r, t
  <2>6. At(t, o - Len(f), r)
    BY <1>6, <2>3, <2>4, <2>5, AtBehind DEF t
  <2>7. QED
    BY <2>3, <2>6 DEF r
<1> HIDE DEF t
<1>11. Framed(t, list, g + 1, c)
  <2>1. c \in [Nat -> Nat]
    BY <1>1 DEF Framed
  <2>2. \A k \in (g + 1) + 1 .. n : At(t, c[k - 1] - c[g + 1], Frame(list[k]))
    BY <1>10
  <2>3. QED
    BY <1>3, <1>9, <2>1, <2>2 DEF Framed, n
<1>12. Conveyed(t, list, g + 1)
  BY <1>11 DEF Conveyed
<1>13. QED
  BY <1>4, <1>5, <1>12 DEF t, f, n

-----------------------------------------------------------------------------
(* The inductive invariant. *)

\* The text under way is that of the input buffer, and then the others.
LEMMA StreamFacts ==
    ASSUME BuffersOK
    PROVE  /\ IosUnread(in) \in Seq(Byte) /\ IosUnread(out) \in Seq(Byte)
           /\ Len(IosUnread(in)) = IosSize(in) /\ IosSize(in) \in Nat
           /\ Len(IosUnread(out)) = IosSize(out) /\ IosSize(out) \in Nat
           /\ IosUnread(in) \o pipe \in Seq(Byte)
           /\ pipe \o IosUnread(out) \in Seq(Byte)
           /\ Stream \in Seq(Byte)
           /\ Stream = IosUnread(in) \o (pipe \o IosUnread(out))
<1>1. /\ IosUnread(in) \in Seq(Byte) /\ IosUnread(out) \in Seq(Byte) /\ pipe \in Seq(Byte)
      /\ Len(IosUnread(in)) = IosSize(in) /\ IosSize(in) \in Nat
      /\ Len(IosUnread(out)) = IosSize(out) /\ IosSize(out) \in Nat
  BY BufferFacts DEF BuffersOK
<1>2. IosUnread(in) \o pipe \in Seq(Byte) /\ pipe \o IosUnread(out) \in Seq(Byte)
  BY <1>1, JoinBytes
<1>3. Stream \in Seq(Byte)
  BY <1>1, <1>2, JoinBytes DEF Stream
<1>4. Stream = IosUnread(in) \o (pipe \o IosUnread(out))
  BY <1>1, JoinAssociates DEF Stream
<1>5. QED
  BY <1>1, <1>2, <1>3, <1>4

\* The same in the next state.
LEMMA NextStream ==
    ASSUME BuffersOK'
    PROVE  Stream' = IosUnread(in') \o (pipe' \o IosUnread(out'))
<1>1. /\ IosUnread(in') \in Seq(Byte) /\ IosUnread(out') \in Seq(Byte) /\ pipe' \in Seq(Byte)
  BY BufferFacts DEF BuffersOK
<1>2. QED
  BY <1>1, JoinAssociates DEF Stream

\* At the beginning nothing is under way.
LEMMA InitHolds == Init => Inv
<1> SUFFICES ASSUME Init PROVE Inv
  OBVIOUS
<1>1. BuffersOK
  <2>1. pipe \in Seq(Byte) /\ Len(pipe) <= PipeSize
    BY WireAssumption DEF Init
  <2>2. QED
    BY <2>1, NewBuffer DEF Init, BuffersOK
<1>2. FlagsOK
  <2>1. errors \in 0 .. MaxError
    BY WireAssumption DEF Init
  <2>2. QED
    BY <2>1, Zenon DEF Init, FlagsOK
<1>3. PacketsOK
  BY WireAssumption DEF Init, PacketsOK
<1>4. Conveyed(Stream, sent, Len(got))
  <2> DEFINE c == [k \in Nat |-> 0]
  <2>1. Stream = <<>>
    BY NewBuffer DEF Init, Stream
  <2>2. c \in [Nat -> Nat] /\ \A k \in Nat : c[k] = 0
    OBVIOUS
  <2> HIDE DEF c
  <2>3. sent = <<>> /\ got = <<>> /\ Len(sent) = 0 /\ Len(got) = 0 /\ Len(Stream) = 0
    BY <2>1 DEF Init
  <2>4. Framed(Stream, sent, Len(got), c)
    BY <2>2, <2>3 DEF Framed
  <2>5. QED
    BY <2>4 DEF Conveyed
<1>5. QED
  BY <1>1, <1>2, <1>3, <1>4 DEF Inv

\* A step that leaves the bytes and the packets alone.
LEMMA FlagStep ==
    ASSUME Inv, FlagsOK', script' = script, UNCHANGED <<out, pipe, in, sent, got>>
    PROVE  Inv'
<1>1. BuffersOK' /\ PacketsOK'
  BY DEF Inv, BuffersOK, PacketsOK
<1>2. Conveyed(Stream, sent, Len(got))'
  BY DEF Inv, Stream
<1>3. QED
  BY <1>1, <1>2 DEF Inv

\* A packet is sent: its frame comes last.
LEMMA SendPacketStep == Inv /\ SendPacket => Inv'
<1> SUFFICES ASSUME Inv, SendPacket PROVE Inv'
  OBVIOUS
<1>1. /\ script \in Seq(Packet) /\ script # <<>> /\ sent \in Seq(Packet)
      /\ got \in Seq({Decode(s) : s \in Seq(Byte)}) /\ Len(got) <= Len(sent)
      /\ script' = Tail(script)
  BY DEF Inv, PacketsOK, SendPacket
<1>2. Head(script) \in Packet /\ script' \in Seq(Packet)
  BY <1>1, TailFacts
<1>3. UNCHANGED <<closed, in, dispatching, gone, got, pipe, errors>>
  BY DEF SendPacket, receiverVars
<1>4. CASE UNCHANGED <<out, registered, ignoreOutput, sent>>
  <2>1. FlagsOK' /\ BuffersOK'
    BY <1>3, <1>4 DEF Inv, FlagsOK, BuffersOK
  <2>2. PacketsOK'
    BY <1>1, <1>2, <1>3, <1>4 DEF PacketsOK
  <2>3. Conveyed(Stream, sent, Len(got))'
    BY <1>3, <1>4 DEF Inv, Stream
  <2>4. QED
    BY <2>1, <2>2, <2>3 DEF Inv
<1>5. CASE /\ SendIos(Encode(Head(script)))
           /\ sent' = Append(sent, Head(script))
           /\ ignoreOutput' = (Head(script).cmd = Bye)
  <2> DEFINE p == Head(script)
  <2>1. /\ out' = IosAppend(out, Frame(p)) /\ registered' = TRUE
        /\ Frame(p) \in Seq(Byte) /\ p \in Packet
    BY <1>2, <1>5, FrameFacts DEF SendIos, Frame
  <2>2. sent' = Append(sent, p) /\ ignoreOutput' \in BOOLEAN
    BY <1>5
  <2> HIDE DEF p
  <2>3. BufferOK(out) /\ BuffersOK
    BY DEF Inv, BuffersOK
  <2>4. BufferOK(out') /\ IosUnread(out') = IosUnread(out) \o Frame(p)
    BY <2>1, <2>3, AppendBytes
  <2>5. BuffersOK'
    BY <1>3, <2>3, <2>4 DEF BuffersOK
  <2>6. FlagsOK'
    BY <1>3, <2>1, <2>2 DEF Inv, FlagsOK
  <2>7. PacketsOK'
    <3>1. sent' \in Seq(Packet) /\ Len(sent') = Len(sent) + 1 /\ Len(sent) \in Nat
      BY <1>1, <2>1, <2>2
    <3>2. Len(got) <= Len(sent')
      BY <1>1, <3>1
    <3>3. QED
      BY <1>1, <1>2, <1>3, <3>1, <3>2 DEF PacketsOK
  <2>8. Stream' = Stream \o Frame(p)
    <3>1. Stream' = (IosUnread(in) \o pipe) \o (IosUnread(out) \o Frame(p))
      BY <1>3, <2>4 DEF Stream
    <3>2. QED
      BY <2>1, <2>3, <3>1, StreamFacts, JoinAssociates DEF Stream
  <2>9. Conveyed(Stream \o Frame(p), Append(sent, p), Len(got))
    <3>1. Len(got) \in 0 .. Len(sent)
      BY <1>1
    <3>2. Stream \in Seq(Byte) /\ Conveyed(Stream, sent, Len(got))
      BY <2>3, StreamFacts DEF Inv
    <3>3. QED
      BY <1>1, <2>1, <3>1, <3>2, SentIsConveyed
  <2>10. Conveyed(Stream, sent, Len(got))'
    BY <1>3, <2>2, <2>8, <2>9
  <2>11. QED
    BY <2>5, <2>6, <2>7, <2>10 DEF Inv
<1>6. QED
  BY <1>4, <1>5 DEF SendPacket

\* io_output_handler moves bytes from its buffer into the pipe.
LEMMA WriteStep == ASSUME NEW n \in 1 .. PipeSize PROVE Inv /\ Write(n) => Inv'
<1> SUFFICES ASSUME Inv, Write(n) PROVE Inv'
  OBVIOUS
<1>1. /\ n \in Nat /\ n <= IosSize(out) /\ n <= PipeSize - Len(pipe) /\ PipeSize \in Nat
      /\ pipe' = pipe \o SubSeq(out.data, out.rp + 1, out.rp + n)
      /\ out' = IosSkip(out, n)
      /\ UNCHANGED <<script, registered, ignoreOutput, closed, sent, in, dispatching, gone, got,
                     errors>>
  BY WireAssumption DEF Write, receiverVars
<1> DEFINE u == IosUnread(out)
<1>2. BuffersOK /\ BufferOK(out) /\ pipe \in Seq(Byte)
  BY DEF Inv, BuffersOK
<1>3. u \in Seq(Byte) /\ Len(u) = IosSize(out) /\ IosSize(out) \in Nat
  BY <1>2, StreamFacts
<1>4. BufferOK(out') /\ IosUnread(out') = Behind(u, n) /\ pipe' = pipe \o First(u, n)
  BY <1>1, <1>2, SkipBytes
<1>5. /\ First(u, n) \in Seq(Byte) /\ Len(First(u, n)) = n /\ Behind(u, n) \in Seq(Byte)
      /\ First(u, n) \o Behind(u, n) = u
  BY <1>1, <1>3, SplitFacts
<1> HIDE DEF u
<1>6. BuffersOK'
  <2>1. pipe' \in Seq(Byte) /\ Len(pipe') = Len(pipe) + n /\ Len(pipe) \in Nat
    BY <1>2, <1>4, <1>5, JoinBytes
  <2>2. Len(pipe') <= PipeSize
    BY <1>1, <2>1
  <2>3. QED
    BY <1>1, <1>2, <1>4, <2>1, <2>2 DEF BuffersOK
<1>7. FlagsOK' /\ PacketsOK'
  BY <1>1 DEF Inv, FlagsOK, PacketsOK
<1>8. Stream' = Stream
  <2> DEFINE i == IosUnread(in)
             f == First(u, n)
             b == Behind(u, n)
  <2>1. i \in Seq(Byte)
    BY <1>2, StreamFacts
  <2>2. Stream' = (i \o (pipe \o f)) \o b
    BY <1>1, <1>4 DEF Stream
  <2>3. Stream = (i \o pipe) \o (f \o b)
    BY <1>5 DEF Stream, u
  <2> HIDE DEF i, f, b
  <2>4. i \o (pipe \o f) = (i \o pipe) \o f
    BY <1>2, <1>5, <2>1, JoinAssociates DEF f
  <2>5. i \o pipe \in Seq(Byte)
    BY <1>2, <2>1, JoinBytes
  <2>6. ((i \o pipe) \o f) \o b = (i \o pipe) \o (f \o b)
    BY <1>5, <2>5, JoinAssociates DEF f, b
  <2>7. QED
    BY <2>2, <2>3, <2>4, <2>6
<1>9. Conveyed(Stream, sent, Len(got))'
  BY <1>1, <1>8 DEF Inv
<1>10. QED
  BY <1>6, <1>7, <1>9 DEF Inv

\* io_input_handler moves bytes from the pipe into its buffer.
LEMMA ReadStep == ASSUME NEW n \in 1 .. BufSize PROVE Inv /\ Read(n) => Inv'
<1> SUFFICES ASSUME Inv, Read(n) PROVE Inv'
  OBVIOUS
<1>1. /\ n \in Nat /\ n <= Len(pipe)
      /\ pipe' = Behind(pipe, n)
      /\ in' = IosAppend(in, First(pipe, n))
      /\ dispatching' = TRUE
      /\ UNCHANGED <<gone, got, script, out, registered, ignoreOutput, closed, sent, errors>>
  BY WireAssumption DEF Read, senderVars, Behind, First
<1>2. /\ BuffersOK /\ BufferOK(in) /\ BufferOK(out) /\ pipe \in Seq(Byte)
      /\ Len(pipe) <= PipeSize /\ Len(pipe) \in Nat /\ PipeSize \in Nat
  BY WireAssumption DEF Inv, BuffersOK
<1> DEFINE f == First(pipe, n)
           b == Behind(pipe, n)
<1>3. f \in Seq(Byte) /\ b \in Seq(Byte) /\ Len(b) = Len(pipe) - n /\ f \o b = pipe
  BY <1>1, <1>2, SplitFacts
<1>4. pipe' = b /\ in' = IosAppend(in, f)
  BY <1>1
<1> HIDE DEF f, b
<1>5. BufferOK(in') /\ IosUnread(in') = IosUnread(in) \o f
  BY <1>2, <1>3, <1>4, AppendBytes
<1>6. BuffersOK'
  <2>1. Len(pipe') <= PipeSize
    BY <1>1, <1>2, <1>3, <1>4
  <2>2. QED
    BY <1>1, <1>2, <1>3, <1>4, <1>5, <2>1 DEF BuffersOK
<1>7. FlagsOK' /\ PacketsOK'
  BY <1>1 DEF Inv, FlagsOK, PacketsOK
<1>8. Stream' = Stream
  <2>1. Stream' = ((IosUnread(in) \o f) \o b) \o IosUnread(out)
    BY <1>1, <1>4, <1>5 DEF Stream
  <2>2. (IosUnread(in) \o f) \o b = IosUnread(in) \o pipe
    <3> DEFINE i == IosUnread(in)
    <3>1. i \in Seq(Byte)
      BY <1>2, StreamFacts
    <3> HIDE DEF i
    <3>2. (i \o f) \o b = i \o (f \o b)
      BY <1>3, <3>1, JoinAssociates
    <3>3. QED
      BY <1>3, <3>2 DEF i
  <2>3. QED
    BY <2>1, <2>2 DEF Stream
<1>9. Conveyed(Stream, sent, Len(got))'
  BY <1>1, <1>8 DEF Inv
<1>10. QED
  BY <1>6, <1>7, <1>9 DEF Inv

\* The packet that Dispatch takes is the next one that was sent, whole.
LEMMA TakesNext ==
    ASSUME Inv, Dispatch
    PROVE  LET p == sent[Len(got) + 1]
           IN  /\ Len(got) + 1 \in 1 .. Len(sent) /\ p \in Packet
               /\ got' = Append(got, Decode(Encode(p)))
               /\ in' = IosSkip(in, Len(Frame(p)))
               /\ Len(Frame(p)) \in Nat /\ Len(Frame(p)) <= IosSize(in)
               /\ Conveyed(Behind(Stream, Len(Frame(p))), sent, Len(got) + 1)
<1> DEFINE g == Len(got)
           p == sent[g + 1]
           e == Encode(p)
           u == IosUnread(in)
           rest == pipe \o IosUnread(out)
           length == Int32At(u, 0)
<1>1. /\ u \in Seq(Byte) /\ rest \in Seq(Byte) /\ Len(u) = IosSize(in) /\ IosSize(in) \in Nat
      /\ Stream \in Seq(Byte) /\ Stream = u \o rest
  BY StreamFacts DEF Inv
<1>2. /\ IosSize(in) >= WordBytes + 1 /\ length <= IosSize(in) - WordBytes
      /\ got' = Append(got, Decode(SubSeq(u, WordBytes + 1, WordBytes + length)))
      /\ in' = IosSkip(in, WordBytes + length)
  BY DEF Dispatch, HasPacket
<1>3. /\ sent \in Seq(Packet) /\ g \in Nat /\ g <= Len(sent) /\ Len(sent) \in Nat
      /\ Conveyed(Stream, sent, g)
  BY DEF Inv, PacketsOK
<1>4. WordBytes \in Nat /\ WordBytes > 0
  BY IosBufAssumption
<1>5. Stream # <<>>
  <2>1. Len(Stream) = Len(u) + Len(rest) /\ Len(rest) \in Nat
    BY <1>1, JoinBytes
  <2>2. Len(Stream) > 0
    BY <1>1, <1>2, <1>4, <2>1
  <2>3. Len(<<>>) = 0
    OBVIOUS
  <2>4. QED
    BY <2>2, <2>3
<1>6. /\ g + 1 \in 1 .. Len(sent) /\ p \in Packet /\ At(Stream, 0, Frame(p))
      /\ Conveyed(Behind(Stream, Len(Frame(p))), sent, g + 1)
  <2>1. g \in 0 .. Len(sent)
    BY <1>3
  <2>2. QED
    BY <1>1, <1>3, <1>5, <2>1, NextFrame
<1> HIDE DEF g, p
<1> DEFINE h == Int32(Len(e))
<1>7. /\ Frame(p) \in Seq(Byte) /\ h \in Seq(Byte) /\ e \in Seq(Byte) /\ Len(e) \in Nat
      /\ Len(h) = WordBytes /\ Len(Frame(p)) = WordBytes + Len(e) /\ Frame(p) = h \o e
      /\ Len(e) \in Word(WordBytes)
  BY <1>6, FrameFacts, PacketRead DEF Frame
<1> HIDE DEF e, u, rest
<1>8. At(Stream, 0, h) /\ At(Stream, 0 + Len(h), e)
  BY <1>1, <1>6, <1>7, AtParts
<1>9. length = Len(e)
  <2>1. At(u, 0, h)
    <3>1. 0 + Len(h) <= Len(u)
      BY <1>1, <1>2, <1>4, <1>7
    <3>2. QED
      BY <1>1, <1>7, <1>8, <3>1, AtFirstPart
  <2>2. QED
    BY <1>1, <1>7, <2>1, WordFacts
<1> HIDE DEF length, h
<1>10. SubSeq(u, WordBytes + 1, WordBytes + length) = e
  <2>1. WordBytes + Len(e) <= Len(u)
    BY <1>1, <1>2, <1>4, <1>7, <1>9
  <2>2. At(Stream, WordBytes, e)
    BY <1>4, <1>7, <1>8
  <2>3. At(u, WordBytes, e)
    BY <1>1, <1>4, <1>7, <2>1, <2>2, AtFirstPart
  <2>4. SubSeq(u, WordBytes + 1, WordBytes + Len(e)) = e
    BY <1>1, <1>4, <1>7, <2>3, AtIsSubSeq
  <2>5. QED
    BY <1>9, <2>4
<1>11. /\ got' = Append(got, Decode(e)) /\ in' = IosSkip(in, Len(Frame(p)))
       /\ Len(Frame(p)) \in Nat /\ Len(Frame(p)) <= IosSize(in)
  <2>1. /\ Len(Frame(p)) = WordBytes + length /\ Len(Frame(p)) \in Nat
        /\ Len(Frame(p)) <= IosSize(in)
    BY <1>1, <1>2, <1>4, <1>7, <1>9
  <2>2. got' = Append(got, Decode(e))
    BY <1>2, <1>10, Zenon
  <2>3. in' = IosSkip(in, Len(Frame(p)))
    BY <1>2, <2>1, Zenon
  <2>4. QED
    BY <2>1, <2>2, <2>3, Zenon
<1>12. QED
  BY <1>6, <1>11 DEF g, p, e

\* A packet is dispatched: its frame was the first.
LEMMA DispatchStep == Inv /\ Dispatch => Inv'
<1> SUFFICES ASSUME Inv, Dispatch PROVE Inv'
  OBVIOUS
<1> DEFINE g == Len(got)
           p == sent[g + 1]
           n == Len(Frame(p))
           x == Decode(Encode(p))
<1>1. /\ g + 1 \in 1 .. Len(sent) /\ p \in Packet /\ got' = Append(got, x)
      /\ in' = IosSkip(in, n) /\ n \in Nat /\ n <= IosSize(in)
      /\ Conveyed(Behind(Stream, n), sent, g + 1)
  BY TakesNext
<1>2. UNCHANGED <<dispatching, gone, script, out, registered, ignoreOutput, closed, sent, pipe,
                  errors>>
  BY DEF Dispatch, senderVars
<1> HIDE DEF n
<1>3. /\ BuffersOK /\ BufferOK(in) /\ PacketsOK
      /\ got \in Seq({Decode(s) : s \in Seq(Byte)})
  BY DEF Inv, BuffersOK, PacketsOK
<1>4. BufferOK(in') /\ IosUnread(in') = Behind(IosUnread(in), n)
  BY <1>1, <1>3, SkipBytes
<1>5. BuffersOK' /\ FlagsOK'
  BY <1>2, <1>3, <1>4 DEF Inv, BuffersOK, FlagsOK
<1>6. Len(got') = g + 1 /\ PacketsOK'
  <2>1. x \in {Decode(s) : s \in Seq(Byte)}
    <3>1. Encode(p) \in Seq(Byte)
      BY <1>1, PacketRead
    <3>2. QED
      BY <3>1
  <2> DEFINE S == {Decode(s) : s \in Seq(Byte)}
  <2>2. got \in Seq(S) /\ x \in S
    BY <1>3, <2>1
  <2> HIDE DEF S, x
  <2>3. got' \in Seq(S) /\ Len(got') = g + 1
    BY <1>1, <2>2
  <2>4. Len(got') <= Len(sent)
    BY <1>1, <2>3
  <2>5. QED
    BY <1>2, <1>3, <2>3, <2>4 DEF PacketsOK, S
<1>7. Stream' = Behind(Stream, n)
  <2> DEFINE u == IosUnread(in)
             rest == pipe \o IosUnread(out)
  <2>1. /\ u \in Seq(Byte) /\ rest \in Seq(Byte) /\ Stream = u \o rest /\ n <= Len(u)
    BY <1>1, <1>3, StreamFacts
  <2>2. Stream' = Behind(u, n) \o rest
    <3>1. Stream' = IosUnread(in') \o (pipe' \o IosUnread(out'))
      BY <1>5, NextStream
    <3>2. QED
      BY <1>2, <1>4, <3>1
  <2> HIDE DEF u, rest
  <2>3. Behind(u, n) \o rest = Behind(u \o rest, n)
    BY <1>1, <2>1, BehindJoin
  <2>4. QED
    BY <2>1, <2>2, <2>3
<1>8. Conveyed(Stream, sent, Len(got))'
  BY <1>1, <1>2, <1>6, <1>7
<1>9. QED
  BY <1>5, <1>6, <1>8 DEF Inv

\* Every step keeps the invariant.
LEMMA NextStep == Inv /\ [Next]_vars => Inv'
<1> SUFFICES ASSUME Inv, [Next]_vars PROVE Inv'
  OBVIOUS
<1>1. CASE SendPacket
  BY <1>1, SendPacketStep
<1>2. CASE Deregister
  <2>1. FlagsOK'
    BY <1>2 DEF Inv, FlagsOK, Deregister, receiverVars
  <2>2. script' = script /\ UNCHANGED <<out, pipe, in, sent, got>>
    BY <1>2 DEF Deregister, receiverVars
  <2>3. QED
    BY <2>1, <2>2, FlagStep
<1>3. CASE \E n \in 1 .. PipeSize : Write(n)
  BY <1>3, WriteStep
<1>4. CASE SenderHangup
  <2>1. FlagsOK'
    BY <1>4 DEF Inv, FlagsOK, SenderHangup, receiverVars
  <2>2. script' = script /\ UNCHANGED <<out, pipe, in, sent, got>>
    BY <1>4 DEF SenderHangup, receiverVars
  <2>3. QED
    BY <2>1, <2>2, FlagStep
<1>5. CASE WriteError
  <2>1. errors' \in 0 .. MaxError
    BY <1>5, WireAssumption DEF Inv, FlagsOK, WriteError
  <2>2. FlagsOK'
    BY <1>5, <2>1 DEF Inv, FlagsOK, WriteError, receiverVars
  <2>3. script' = script /\ UNCHANGED <<out, pipe, in, sent, got>>
    BY <1>5 DEF WriteError, receiverVars
  <2>4. QED
    BY <2>2, <2>3, FlagStep
<1>6. CASE \E n \in 1 .. BufSize : Read(n)
  BY <1>6, ReadStep
<1>7. CASE ReceiverHangup
  <2>1. FlagsOK'
    BY <1>7 DEF Inv, FlagsOK, ReceiverHangup, senderVars
  <2>2. script' = script /\ UNCHANGED <<out, pipe, in, sent, got>>
    BY <1>7 DEF ReceiverHangup, senderVars
  <2>3. QED
    BY <2>1, <2>2, FlagStep
<1>8. CASE Dispatch
  BY <1>8, DispatchStep
<1>9. CASE Wait
  <2>1. gone' \in BOOLEAN
    BY <1>9 DEF Wait, ByeHeard
  <2>2. FlagsOK'
    BY <1>9, <2>1 DEF Inv, FlagsOK, Wait, senderVars
  <2>3. script' = script /\ UNCHANGED <<out, pipe, in, sent, got>>
    BY <1>9 DEF Wait, senderVars
  <2>4. QED
    BY <2>2, <2>3, FlagStep
<1>10. CASE UNCHANGED vars
  <2>1. FlagsOK'
    BY <1>10 DEF Inv, FlagsOK, vars, senderVars, receiverVars
  <2>2. script' = script /\ UNCHANGED <<out, pipe, in, sent, got>>
    BY <1>10 DEF vars, senderVars, receiverVars
  <2>3. QED
    BY <2>1, <2>2, FlagStep
<1>11. QED
  BY <1>1, <1>2, <1>3, <1>4, <1>5, <1>6, <1>7, <1>8, <1>9, <1>10
  DEF Next, SenderStep, ReceiverStep

\* What is under way are always the frames of the packets that were sent and not
\* dispatched, in order (io_send_ios, the two I/O handlers, read_and_dispatch_commands).
THEOREM Invariant == Spec => []Inv
BY InitHolds, NextStep, PTL DEF Spec

-----------------------------------------------------------------------------
(* What the invariant shows. *)

\* The variables hold what the code can hold, and the kernel's pipe never more than
\* it has room for.
THEOREM TypesHold == Spec => []TypeOK
<1>1. Inv => TypeOK
  BY DEF Inv, BuffersOK, FlagsOK, BufferOK, TypeOK
<1>2. QED
  BY <1>1, Invariant, PTL

\* ios_append and ios_read stay within their buffers, whatever is sent and however
\* reads and writes cut it.
THEOREM BuffersFit == Spec => []Fits
<1>1. Inv => Fits
  BY DEF Inv, BuffersOK, BufferOK, Fits
<1>2. QED
  BY <1>1, Invariant, PTL

-----------------------------------------------------------------------------
(* The promise of the channel. *)

\* Both sides begin with nothing sent and nothing received.
LEMMA StartsAsPromised == Init => Channel!Init
BY DEF Init, Channel!Init

\* A list that grows by one keeps what it had.
LEMMA Grown ==
    ASSUME NEW S, NEW q \in Seq(S), NEW e \in S
    PROVE  /\ Len(q) \in Nat /\ Len(Append(q, e)) = Len(q) + 1
           /\ Append(q, e)[Len(q) + 1] = e
           /\ SubSeq(Append(q, e), 1, Len(q)) = q
OBVIOUS

\* Sending a packet, or nothing after a goodbye, is a step of the channel or none.
LEMMA SendAsPromised == Inv /\ SendPacket => [Channel!Next]_<<sent, got>>
<1> SUFFICES ASSUME Inv, SendPacket, UNCHANGED <<sent, got>> => FALSE PROVE Channel!Send
  BY DEF Channel!Next
<1>1. /\ script \in Seq(Packet) /\ script # <<>> /\ sent \in Seq(Packet)
      /\ got' = got /\ sent' = Append(sent, Head(script))
  BY DEF Inv, PacketsOK, SendPacket, receiverVars
<1>2. Head(script) \in Packet
  BY <1>1, TailFacts
<1>3. QED
  BY <1>1, <1>2, Grown DEF Channel!Send

\* Dispatching a packet delivers it.
LEMMA DispatchAsPromised == Inv /\ Dispatch => Channel!Deliver
<1> SUFFICES ASSUME Inv, Dispatch PROVE Channel!Deliver
  OBVIOUS
<1> DEFINE g == Len(got)
           p == sent[g + 1]
           x == Decode(Encode(p))
<1>1. g + 1 \in 1 .. Len(sent) /\ p \in Packet /\ got' = Append(got, x)
  BY TakesNext
<1>2. sent' = sent
  BY DEF Dispatch, senderVars
<1>3. Encode(p) \in Seq(Byte) /\ Agree(p, x)
  BY <1>1, PacketRead
<1> DEFINE S == {Decode(s) : s \in Seq(Byte)}
<1>4. got \in Seq(S) /\ x \in S /\ Len(sent) \in Nat
  BY <1>3 DEF Inv, PacketsOK
<1> HIDE DEF S, x
<1>5. /\ g \in Nat /\ Len(got') = g + 1 /\ SubSeq(got', 1, g) = got /\ got'[g + 1] = x
  BY <1>1, <1>4, Grown
<1>6. g < Len(sent)
  BY <1>1, <1>4, <1>5
<1>7. QED
  BY <1>2, <1>3, <1>5, <1>6 DEF Channel!Deliver

\* Packets arrive whole, once and in order, each with the fields it was sent with:
\* io_send_ios, the two I/O handlers and read_and_dispatch_commands together carry
\* out what the protocol handlers count on, for all packets whose fields have their
\* width, all sizes of buffers and pipe, and all cuts.
THEOREM KeepsPromise == Spec => Implements
<1>1. Inv /\ [Next]_vars => [Channel!Next]_<<sent, got>>
  <2> SUFFICES ASSUME Inv, [Next]_vars PROVE [Channel!Next]_<<sent, got>>
    OBVIOUS
  <2>1. CASE SendPacket
    BY <2>1, SendAsPromised
  <2>2. CASE Dispatch
    BY <2>2, DispatchAsPromised DEF Channel!Next
  <2>3. CASE \/ Deregister \/ (\E n \in 1 .. PipeSize : Write(n)) \/ SenderHangup \/ WriteError
             \/ (\E n \in 1 .. BufSize : Read(n)) \/ ReceiverHangup \/ Wait
    BY <2>3 DEF Deregister, Write, SenderHangup, WriteError, Read, ReceiverHangup, Wait,
                senderVars, receiverVars
  <2>4. CASE UNCHANGED vars
    BY <2>4 DEF vars, senderVars, receiverVars
  <2>5. QED
    BY <2>1, <2>2, <2>3, <2>4 DEF Next, SenderStep, ReceiverStep
<1>2. QED
  BY <1>1, StartsAsPromised, Invariant, PTL DEF Spec, Implements, Channel!Spec
===============================================================================
