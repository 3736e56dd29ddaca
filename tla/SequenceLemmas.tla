--------------------------- MODULE SequenceLemmas ---------------------------
(***************************************************************************)
(* What the operations on queues and lists do to the elements; induction   *)
(* over the natural numbers and recursive functions of them, which follow  *)
(* from the fact that a set of numbers has a smallest one; division and    *)
(* remainders.                                                             *)
(***************************************************************************)
EXTENDS Integers, Sequences, SequencesExt, TLAPS, WellFoundedInduction

\* The elements of queue q.
Elements(q) == {q[i] : i \in DOMAIN q}

\* A packet is appended to a queue.
LEMMA AppendFacts ==
    ASSUME NEW S, NEW q \in Seq(S), NEW e \in S
    PROVE  /\ Append(q, e) \in Seq(S)
           /\ DOMAIN Append(q, e) = 1 .. Len(q) + 1
           /\ DOMAIN q = 1 .. Len(q)
           /\ \A i \in DOMAIN q : Append(q, e)[i] = q[i]
           /\ Append(q, e)[Len(q) + 1] = e
           /\ Elements(Append(q, e)) = Elements(q) \cup {e}
<1>1. Append(q, e) \in Seq(S) /\ Len(Append(q, e)) = Len(q) + 1
  OBVIOUS
<1>2. DOMAIN Append(q, e) = 1 .. Len(q) + 1 /\ DOMAIN q = 1 .. Len(q)
  OBVIOUS
<1>3. \A i \in DOMAIN q : Append(q, e)[i] = q[i]
  OBVIOUS
<1>4. Append(q, e)[Len(q) + 1] = e
  OBVIOUS
<1>5. Elements(Append(q, e)) = Elements(q) \cup {e}
  <2>1. ASSUME NEW x \in Elements(Append(q, e)) PROVE x \in Elements(q) \cup {e}
    BY <1>2, <1>3, <1>4 DEF Elements
  <2>2. ASSUME NEW x \in Elements(q) \cup {e} PROVE x \in Elements(Append(q, e))
    BY <1>2, <1>3, <1>4 DEF Elements
  <2>3. QED
    BY <2>1, <2>2
<1>6. QED
  BY <1>1, <1>2, <1>3, <1>4, <1>5

\* A packet is taken from the head of a queue.
LEMMA TailFacts ==
    ASSUME NEW S, NEW q \in Seq(S), q # <<>>
    PROVE  /\ Tail(q) \in Seq(S) /\ Head(q) \in S
           /\ DOMAIN q = 1 .. Len(q) /\ 1 \in DOMAIN q /\ Head(q) = q[1]
           /\ DOMAIN Tail(q) = 1 .. Len(q) - 1
           /\ \A i \in DOMAIN Tail(q) : i + 1 \in DOMAIN q /\ Tail(q)[i] = q[i + 1]
           /\ Elements(Tail(q)) \subseteq Elements(q)
           /\ Head(q) \in Elements(q)
<1>1. Tail(q) \in Seq(S) /\ Head(q) \in S /\ Len(Tail(q)) = Len(q) - 1
  OBVIOUS
<1>2. /\ DOMAIN q = 1 .. Len(q) /\ 1 \in DOMAIN q /\ Head(q) = q[1]
      /\ DOMAIN Tail(q) = 1 .. Len(q) - 1
  OBVIOUS
<1>3. \A i \in DOMAIN Tail(q) : i + 1 \in DOMAIN q /\ Tail(q)[i] = q[i + 1]
  BY <1>2
<1>4. Elements(Tail(q)) \subseteq Elements(q) /\ Head(q) \in Elements(q)
  BY <1>2, <1>3 DEF Elements
<1>5. QED
  BY <1>1, <1>2, <1>3, <1>4

\* A ticket leaves the work list.
LEMMA RemoveAtFacts ==
    ASSUME NEW S, NEW q \in Seq(S), NEW i \in DOMAIN q
    PROVE  /\ RemoveAt(q, i) \in Seq(S)
           /\ DOMAIN RemoveAt(q, i) = 1 .. Len(q) - 1
           /\ \A j \in DOMAIN RemoveAt(q, i) :
                 RemoveAt(q, i)[j] = IF j < i THEN q[j] ELSE q[j + 1]
<1>1. SubSeq(q, 1, i - 1) \in Seq(S) /\ Len(SubSeq(q, 1, i - 1)) = i - 1
  OBVIOUS
<1>2. SubSeq(q, i + 1, Len(q)) \in Seq(S) /\ Len(SubSeq(q, i + 1, Len(q))) = Len(q) - i
  OBVIOUS
<1>3. \A j \in 1 .. i - 1 : SubSeq(q, 1, i - 1)[j] = q[j]
  OBVIOUS
<1>4. \A j \in 1 .. Len(q) - i : SubSeq(q, i + 1, Len(q))[j] = q[i + j]
  OBVIOUS
<1>5. /\ RemoveAt(q, i) \in Seq(S)
      /\ DOMAIN RemoveAt(q, i) = 1 .. Len(q) - 1
  <2>1. i \in 1 .. Len(q) /\ Len(q) \in Nat
    OBVIOUS
  <2>2. RemoveAt(q, i) \in Seq(S)
    BY <1>1, <1>2 DEF RemoveAt
  <2>3. Len(RemoveAt(q, i)) = Len(q) - 1
    BY <1>1, <1>2, <2>1 DEF RemoveAt
  <2>4. QED
    BY <2>2, <2>3
<1>6. ASSUME NEW j \in 1 .. Len(q) - 1
      PROVE  RemoveAt(q, i)[j] = IF j < i THEN q[j] ELSE q[j + 1]
  <2>1. CASE j < i
    BY <1>1, <1>2, <1>3, <2>1 DEF RemoveAt
  <2>2. CASE j >= i
    <3> DEFINE a == SubSeq(q, 1, i - 1)
               b == SubSeq(q, i + 1, Len(q))
               k == j - (i - 1)
    <3>1. /\ i \in 1 .. Len(q) /\ Len(q) \in Nat /\ k \in 1 .. Len(q) - i
          /\ i + k = j + 1 /\ j = (i - 1) + k
      BY <2>2
    <3>2. b[k] = q[j + 1]
      BY <1>4, <3>1
    <3>3. a \in Seq(S) /\ Len(a) = i - 1 /\ b \in Seq(S) /\ Len(b) = Len(q) - i
      BY <1>1, <1>2
    <3>4. RemoveAt(q, i) = a \o b
      BY DEF RemoveAt
    <3> HIDE DEF a, b, k
    <3>5. (a \o b)[Len(a) + k] = b[k]
      <4>1. Len(a) \in Nat /\ Len(b) \in Nat /\ k \in 1 .. Len(b)
        BY <3>1, <3>3
      <4>2. QED
        BY ONLY <3>3, <4>1
    <3>6. QED
      BY <2>2, <3>1, <3>2, <3>3, <3>4, <3>5
  <2>3. QED
    BY <2>1, <2>2
<1>7. QED
  BY <1>5, <1>6

\* Two sequences are put together.
LEMMA ConcatFacts ==
    ASSUME NEW S, NEW p \in Seq(S), NEW q \in Seq(S)
    PROVE  /\ p \o q \in Seq(S)
           /\ DOMAIN (p \o q) = 1 .. Len(p) + Len(q)
           /\ DOMAIN p = 1 .. Len(p)
           /\ \A i \in DOMAIN p : i \in DOMAIN (p \o q) /\ (p \o q)[i] = p[i]
OBVIOUS

-----------------------------------------------------------------------------
(* Induction over the natural numbers. *)

\* Every set of natural numbers with an element has a smallest one.
LEMMA SmallestNumber ==
    ASSUME NEW T \in SUBSET Nat, T # {}
    PROVE  \E x \in T : \A y \in T : x <= y
<1> DEFINE Less == {ss \in Nat \X Nat : ss[1] < ss[2]}
<1>1. OpToRel(<, Nat) = Less
  BY Zenon DEF OpToRel
<1>2. IsWellFoundedOn(Less, Nat)
  <2> HIDE DEF Less
  <2>1. IsWellFoundedOn(OpToRel(<, Nat), Nat)
    BY NatLessThanWellFounded, Zenon
  <2>2. QED
    BY <1>1, <2>1, Zenon
<1>3. PICK x \in T : \A y \in T : <<y, x>> \notin Less
  <2> HIDE DEF Less
  <2>1. QED
    BY <1>2, WFMin, Zenon
<1>4. ASSUME NEW y \in T PROVE x <= y
  <2>1. x \in Nat /\ y \in Nat
    OBVIOUS
  <2>2. <<y, x>> \in Nat \X Nat /\ <<y, x>>[1] = y /\ <<y, x>>[2] = x
    BY <2>1
  <2>3. ~ (y < x)
    BY <1>3, <2>2
  <2>4. QED
    BY <2>1, <2>3
<1>5. QED
  BY <1>4

\* Induction, about a set.
LEMMA Induction ==
    ASSUME NEW T, 0 \in T, \A n \in Nat : n \in T => n + 1 \in T
    PROVE  \A n \in Nat : n \in T
<1> DEFINE Rest == {n \in Nat : n \notin T}
<1>1. SUFFICES ASSUME Rest # {} PROVE FALSE
  OBVIOUS
<1>2. Rest \in SUBSET Nat
  OBVIOUS
<1>3. PICK x \in Rest : \A y \in Rest : x <= y
  <2> HIDE DEF Rest
  <2>1. QED
    BY <1>1, <1>2, SmallestNumber
<1>4. QED
  BY <1>3

\* f begins with a and goes on by step.
Recursive(f, S, a, step) ==
    f \in [Nat -> S] /\ f[0] = a /\ \A n \in Nat : f[n + 1] = step[<<n, f[n]>>]

\* A function on the natural numbers can be defined by recursion.
LEMMA Recursion ==
    ASSUME NEW S, NEW a \in S, NEW step \in [Nat \X S -> S]
    PROVE  \E f : Recursive(f, S, a, step)
<1> DEFINE Upto(n, f) == /\ f \in [0 .. n -> S] /\ f[0] = a
                         /\ \A i \in 0 .. n - 1 : f[i + 1] = step[<<i, f[i]>>]
           T == {n \in Nat : \E f : Upto(n, f)}
\* Two of them agree.
<1>1. ASSUME NEW n \in Nat, NEW m \in Nat, n <= m, NEW f, NEW g, Upto(n, f), Upto(m, g)
      PROVE  \A i \in 0 .. n : f[i] = g[i]
  <2> DEFINE U == {i \in Nat : i <= n => f[i] = g[i]}
  <2>1. 0 \in U
    BY <1>1
  <2>2. ASSUME NEW i \in Nat, i \in U PROVE i + 1 \in U
    <3>1. SUFFICES ASSUME i + 1 <= n PROVE f[i + 1] = g[i + 1]
      OBVIOUS
    <3>2. i \in 0 .. n - 1 /\ i \in 0 .. m - 1 /\ f[i] = g[i]
      BY <1>1, <2>2, <3>1
    <3>3. QED
      BY <1>1, <3>2
  <2>3. \A i \in Nat : i \in U
    <3> HIDE DEF U
    <3>1. QED
      BY <2>1, <2>2, Induction
  <2>4. QED
    BY <2>3
<1>2. 0 \in T
  <2>1. Upto(0, [i \in 0 .. 0 |-> a])
    OBVIOUS
  <2>2. QED
    BY <2>1
<1>3. ASSUME NEW n \in Nat, n \in T PROVE n + 1 \in T
  <2>1. PICK f : Upto(n, f)
    BY <1>3
  <2> DEFINE g == [i \in 0 .. n + 1 |-> IF i = n + 1 THEN step[<<n, f[n]>>] ELSE f[i]]
  <2>2. \A i \in 0 .. n : g[i] = f[i] /\ f[i] \in S
    BY <2>1
  <2>3. g[n + 1] = step[<<n, f[n]>>] /\ step[<<n, f[n]>>] \in S
    <3>1. f[n] \in S
      BY <2>1
    <3>2. <<n, f[n]>> \in Nat \X S
      BY <3>1
    <3>3. QED
      BY <3>2
  <2>4. g \in [0 .. n + 1 -> S]
    <3>1. ASSUME NEW i \in 0 .. n + 1 PROVE g[i] \in S
      <4>1. i = n + 1 \/ i \in 0 .. n
        OBVIOUS
      <4> HIDE DEF g
      <4>2. QED
        BY <2>2, <2>3, <4>1
    <3>2. QED
      BY <3>1
  <2>5. g[0] = a
    BY <2>1, <2>2
  <2>6. \A i \in 0 .. (n + 1) - 1 : g[i + 1] = step[<<i, g[i]>>]
    <3>1. ASSUME NEW i \in 0 .. n PROVE g[i + 1] = step[<<i, g[i]>>]
      <4> HIDE DEF g
      <4>1. CASE i = n
        BY <4>1, <2>2, <2>3
      <4>2. CASE i < n
        <5>1. i \in 0 .. n - 1 /\ i + 1 \in 0 .. n
          BY <4>2
        <5>2. QED
          BY <2>1, <2>2, <5>1
      <4>3. QED
        BY <4>1, <4>2
    <3>2. QED
      <4> HIDE DEF g
      <4>1. (n + 1) - 1 = n
        OBVIOUS
      <4>2. QED
        BY <3>1, <4>1
  <2>7. Upto(n + 1, g)
    <3> HIDE DEF g
    <3>1. QED
      BY <2>4, <2>5, <2>6
  <2>8. QED
    <3> HIDE DEF Upto
    <3>1. QED
      BY <2>7
<1>4. \A n \in Nat : n \in T
  <2> HIDE DEF T
  <2>1. QED
    BY <1>2, <1>3, Induction
<1>5. \A n \in Nat : Upto(n, CHOOSE f : Upto(n, f))
  BY <1>4
<1> DEFINE h == [n \in Nat |-> (CHOOSE f : Upto(n, f))[n]]
<1> HIDE DEF Upto, T
<1>6. ASSUME NEW n \in Nat PROVE h[n] \in S
  <2>1. Upto(n, CHOOSE f : Upto(n, f))
    BY <1>5
  <2>2. QED
    BY <2>1 DEF Upto
<1>7. h[0] = a
  <2>1. Upto(0, CHOOSE f : Upto(0, f))
    BY <1>5
  <2>2. QED
    BY <2>1 DEF Upto
<1>8. ASSUME NEW n \in Nat PROVE h[n + 1] = step[<<n, h[n]>>]
  <2> DEFINE f == CHOOSE e : Upto(n, e)
             g == CHOOSE e : Upto(n + 1, e)
  <2>1. Upto(n, f) /\ Upto(n + 1, g)
    BY <1>5
  <2>2. h[n] = f[n] /\ h[n + 1] = g[n + 1]
    OBVIOUS
  <2> HIDE DEF f, g
  <2>3. f[n] = g[n]
    BY <1>1, <2>1
  <2>4. g[n + 1] = step[<<n, g[n]>>]
    BY <2>1 DEF Upto
  <2>5. QED
    BY <2>2, <2>3, <2>4
<1>9. h \in [Nat -> S]
  BY <1>6
<1>10. QED
  BY <1>7, <1>8, <1>9 DEF Recursive

-----------------------------------------------------------------------------
(* Division. *)

\* Division by one, and by a product.
LEMMA Quotient ==
    ASSUME NEW n \in Nat, NEW d \in Nat \ {0}
    PROVE  /\ n \div d \in Nat /\ n % d \in 0 .. d - 1
           /\ n = d * (n \div d) + (n % d)
OBVIOUS

\* A product and a remainder are divided into what they were made of.
LEMMA QuotientIs ==
    ASSUME NEW d \in Nat \ {0}, NEW q \in Nat, NEW r \in 0 .. d - 1
    PROVE  (d * q + r) \div d = q
OBVIOUS

\* Multiples keep their order.
LEMMA Multiples ==
    ASSUME NEW a \in Nat, NEW b \in Nat, NEW c \in Nat, a <= b
    PROVE  c * a <= c * b
OBVIOUS

\* The remainder is what a number exceeds a multiple by.
LEMMA Remainder ==
    ASSUME NEW a \in Int, NEW d \in Nat \ {0}
    PROVE  /\ a \div d \in Int /\ a % d \in 0 .. d - 1
           /\ a = d * (a \div d) + (a % d)
OBVIOUS

\* A multiple and less than the divisor leave the latter.
LEMMA RemainderIs ==
    ASSUME NEW d \in Nat \ {0}, NEW q \in Int, NEW r \in 0 .. d - 1
    PROVE  (d * q + r) % d = r
OBVIOUS

\* a and b differ by a multiple of d.
Congruent(a, b, d) == \E q \in Int : a = b + d * q

\* Congruent numbers are those with one remainder.
LEMMA CongruentRemainders ==
    ASSUME NEW d \in Nat \ {0}, NEW a \in Int, NEW b \in Int
    PROVE  Congruent(a, b, d) <=> a % d = b % d
<1>1. ASSUME Congruent(a, b, d) PROVE a % d = b % d
  <2>1. PICK q \in Int : a = b + d * q
    BY <1>1 DEF Congruent
  <2> DEFINE p == b \div d
             r == b % d
  <2>2. p \in Int /\ r \in 0 .. d - 1 /\ b = d * p + r
    BY Remainder
  <2> HIDE DEF p, r
  <2>3. p + q \in Int /\ d * (p + q) = d * p + d * q
    BY <2>2
  <2>4. a = d * (p + q) + r
    <3>1. d * p \in Int /\ d * q \in Int /\ d * (p + q) \in Int /\ r \in Int
      BY <2>2, <2>3
    <3>2. QED
      BY <2>1, <2>2, <2>3, <3>1
  <2>5. a % d = r
    BY <2>2, <2>3, <2>4, RemainderIs
  <2>6. QED
    BY <2>5 DEF r
<1>2. ASSUME a % d = b % d PROVE Congruent(a, b, d)
  <2> DEFINE p == a \div d
             q == b \div d
             r == b % d
  <2>1. p \in Int /\ q \in Int /\ r \in Int /\ a = d * p + r /\ b = d * q + r
    BY <1>2, Remainder
  <2> HIDE DEF p, q, r
  <2>2. p - q \in Int /\ d * (p - q) = d * p - d * q
    BY <2>1
  <2>3. a = b + d * (p - q)
    <3>1. d * p \in Int /\ d * q \in Int /\ d * (p - q) \in Int
      BY <2>1
    <3>2. QED
      BY <2>1, <2>2, <3>1
  <2>4. QED
    BY <2>2, <2>3 DEF Congruent
<1>3. QED
  BY <1>1, <1>2

\* Congruences are added, and subtracted.
LEMMA CongruentSum ==
    ASSUME NEW d \in Nat \ {0}, NEW a \in Int, NEW b \in Int, NEW x \in Int, NEW y \in Int,
           Congruent(a, b, d), Congruent(x, y, d)
    PROVE  Congruent(a + x, b + y, d) /\ Congruent(a - x, b - y, d)
<1>1. PICK p \in Int : a = b + d * p
  BY DEF Congruent
<1>2. PICK q \in Int : x = y + d * q
  BY DEF Congruent
<1>3. /\ d * (p + q) = d * p + d * q /\ d * (p - q) = d * p - d * q
      /\ d * p \in Int /\ d * q \in Int /\ p + q \in Int /\ p - q \in Int
  OBVIOUS
<1>4. a + x = b + y + d * (p + q) /\ a - x = b - y + d * (p - q)
  BY <1>1, <1>2, <1>3
<1>5. QED
  BY <1>3, <1>4 DEF Congruent

\* Congruence is transitive.
LEMMA CongruentTrans ==
    ASSUME NEW d \in Nat \ {0}, NEW a \in Int, NEW b \in Int, NEW c \in Int,
           Congruent(a, b, d), Congruent(b, c, d)
    PROVE  Congruent(a, c, d)
  BY CongruentRemainders

\* A number and its remainder are congruent.
LEMMA CongruentSelf ==
    ASSUME NEW d \in Nat \ {0}, NEW a \in Int
    PROVE  Congruent(a, a, d) /\ Congruent(a % d, a, d) /\ Congruent(a, a % d, d)
<1>1. a % d \in 0 .. d - 1 /\ a % d \in Int
  BY Remainder
<1>2. (d * 0 + (a % d)) % d = a % d
  BY <1>1, RemainderIs
<1>3. (a % d) % d = a % d
  BY <1>1, <1>2
<1>4. QED
  BY <1>1, <1>3, CongruentRemainders

\* A number of a class of remainders is followed by the next one a whole d later.
LEMMA NextOfClass ==
    ASSUME NEW d \in Nat \ {0}, NEW a \in Int, NEW b \in Int, a % d = b % d, a < b
    PROVE  a + d <= b
<1>1. PICK q \in Int : b = a + d * q
  BY CongruentRemainders DEF Congruent
<1>2. q >= 1
  <2>1. SUFFICES ASSUME q <= 0 PROVE FALSE
    OBVIOUS
  <2>2. d * q <= 0
    BY <2>1
  <2>3. d * q \in Int
    OBVIOUS
  <2>4. QED
    BY <1>1, <2>2, <2>3
<1>3. d * q >= d /\ d * q \in Int
  <2>1. q - 1 \in Nat /\ d * (q - 1) \in Nat
    BY <1>2
  <2>2. d * (q - 1) = d * q - d /\ d * q \in Int
    OBVIOUS
  <2>3. QED
    BY <2>1, <2>2
<1>4. QED
  BY <1>1, <1>3
=============================================================================
