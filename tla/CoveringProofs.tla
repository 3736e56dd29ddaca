--------------------------- MODULE CoveringProofs ---------------------------
(***************************************************************************)
(* What holds of covers and extractions, for files and blocks of every     *)
(* length, any weak checksum and any number of backups; and, for the weak  *)
(* checksum of the code, words and blocks of every length, that the scan   *)
(* of the file through its two buffers and the hash table do what the      *)
(* module Covering says of them.                                           *)
(***************************************************************************)
EXTENDS BlockHash, SequenceLemmas, SequenceTheorems

-----------------------------------------------------------------------------
(* What ReadAt returns.                                                      *)

LEMMA ReadAtFacts ==
    ASSUME NEW f \in Seq(Byte), NEW o \in Nat, NEW n \in Nat \ {0}
    PROVE  /\ ReadAt(f, o, n) \in Seq(Byte)
           /\ Len(ReadAt(f, o, n)) <= n
           /\ Len(ReadAt(f, o, n)) = n <=> o + n <= Len(f)
           /\ \A k \in 1 .. Len(ReadAt(f, o, n)) :
                 o + k \in DOMAIN f /\ ReadAt(f, o, n)[k] = f[o + k]
<1> DEFINE e == IF o + n < Len(f) THEN o + n ELSE Len(f)
<1>1. e \in Nat /\ e <= Len(f) /\ e <= o + n /\ (e = o + n <=> o + n <= Len(f))
  OBVIOUS
<1>2. \A k \in o + 1 .. e : k \in DOMAIN f /\ f[k] \in Byte
  BY <1>1
<1> HIDE DEF e
<1>3. /\ SubSeq(f, o + 1, e) \in Seq(Byte)
      /\ Len(SubSeq(f, o + 1, e)) = IF o + 1 <= e THEN e - (o + 1) + 1 ELSE 0
      /\ \A k \in 1 .. e - (o + 1) + 1 : SubSeq(f, o + 1, e)[k] = f[o + 1 + k - 1]
  <2>1. o + 1 \in Int /\ e \in Int
    BY <1>1
  <2>2. \A k \in o + 1 .. e : f[k] \in Byte
    BY <1>2
  <2>3. QED
    BY <2>1, <2>2, SubSeqProperties
<1>4. ReadAt(f, o, n) = SubSeq(f, o + 1, e)
  BY DEF ReadAt, e
<1>5. Len(ReadAt(f, o, n)) <= n /\ (Len(ReadAt(f, o, n)) = n <=> o + n <= Len(f))
  BY <1>1, <1>3, <1>4
<1>6. ASSUME NEW k \in 1 .. Len(ReadAt(f, o, n))
      PROVE  o + k \in DOMAIN f /\ ReadAt(f, o, n)[k] = f[o + k]
  <2>1. o + k \in o + 1 .. e /\ k \in 1 .. e - (o + 1) + 1
    BY <1>1, <1>3, <1>4
  <2>2. SubSeq(f, o + 1, e)[k] = f[o + 1 + k - 1] /\ o + 1 + k - 1 = o + k
    BY <1>3, <2>1
  <2>3. QED
    BY <1>2, <1>4, <2>1, <2>2
<1>7. QED
  BY <1>3, <1>4, <1>5, <1>6

-----------------------------------------------------------------------------
(* The invariant of the data: what a block holds when it has been stored.    *)

DataOK(b) == b.remote => /\ Len(b.data) = b.length
                         /\ Whole(b) => b.data = b.strong

\* New blocks are of the cover, old ones have been stored.
Sides(l, n) == \A k \in DOMAIN l : (k <= n => l[k].remote) /\ (k > n => l[k].cover)

Backing == pc \in {"cover", "tail", "fill"}

DataInv ==
    /\ \A k \in DOMAIN blocks : DataOK(blocks[k])
    /\ \A k \in DOMAIN archive.list : DataOK(archive.list[k]) /\ archive.list[k].remote
    /\ Sides(archive.list, archive.old)
    /\ archive.list # <<>> => archive.sum \in Seq(Byte)
    /\ pc \in {"await", "extract", "extracted"} \/ Backing => sum \in Seq(Byte)
    /\ pc \in {"cover", "fill", "extract"} => i >= 1
    /\ Backing => Sides(blocks, oldLen)
    /\ pc = "fill" => \A k \in DOMAIN blocks : k < i => blocks[k].remote
    /\ pc \in {"extract", "extracted"} =>
          /\ blocks = archive.list /\ oldLen = archive.old
          /\ sum = archive.sum /\ steady = archive.steady

\* Of two offsets one is entered before the other.
LEMMA EnteredTotal ==
    ASSUME NEW o \in Nat, NEW p \in Nat
    PROVE  EnteredBefore(o, p) \/ EnteredBefore(p, o) \/ o = p
<1>1. o % Word \in Int /\ p % Word \in Int
  BY CoveringAssumption, Quotient
<1>2. QED
  BY <1>1 DEF EnteredBefore

\* A checksum of a block of the file is entered first at one offset, which Firsts has.
LEMMA FirstFacts ==
    ASSUME file \in Seq(Byte), NEW w \in {WeakAt(o) : o \in Windows}
    PROVE  /\ DOMAIN Firsts = {WeakAt(o) : o \in Windows}
           /\ Firsts[w] \in Nat /\ FirstEntered(Firsts[w], w)
           /\ \A o : FirstEntered(o, w) => o = Firsts[w]
<1> DEFINE S == {o \in Windows : WeakAt(o) = w}
           R == {o % Word : o \in S}
<1>1. Windows \subseteq Nat /\ S # {}
  BY DEF Windows
<1>2. ASSUME NEW o \in Nat PROVE o % Word \in Nat
  BY CoveringAssumption, Quotient
<1>3. R \in SUBSET Nat /\ R # {}
  BY <1>1, <1>2
<1>4. PICK r \in R : \A q \in R : r <= q
  <2> HIDE DEF R
  <2>1. QED
    BY <1>3, SmallestNumber
<1> DEFINE T == {o \in S : o % Word = r}
<1>5. T \in SUBSET Nat /\ T # {}
  BY <1>1
<1>6. PICK x \in T : \A y \in T : x <= y
  <2> HIDE DEF T
  <2>1. QED
    BY <1>5, SmallestNumber
<1>7. FirstEntered(x, w)
  <2>1. ASSUME NEW p \in Windows, EnteredBefore(p, x), WeakAt(p) = w PROVE FALSE
    <3>1. p \in S /\ p % Word \in R
      BY <2>1
    <3>2. r <= p % Word /\ x % Word = r /\ x \in Nat /\ p \in Nat /\ r \in Nat /\ p % Word \in Nat
      BY <1>1, <1>2, <1>3, <1>4, <3>1
    <3>3. p % Word = r /\ p < x
      <4> HIDE DEF S, R, T
      <4>1. QED
        BY <2>1, <3>2 DEF EnteredBefore
    <3>4. p \in T
      BY <3>1, <3>3
    <3>5. QED
      BY <1>6, <3>2, <3>3, <3>4
  <2>2. QED
    BY <2>1 DEF FirstEntered
<1>8. ASSUME NEW o, NEW p, FirstEntered(o, w), FirstEntered(p, w) PROVE o = p
  <2>1. o \in Nat /\ p \in Nat /\ o \in Windows /\ p \in Windows
    BY <1>1, <1>8 DEF FirstEntered
  <2>2. ~EnteredBefore(o, p) /\ ~EnteredBefore(p, o)
    BY <1>8 DEF FirstEntered
  <2>3. QED
    BY <2>1, <2>2, EnteredTotal
<1>9. Firsts[w] = CHOOSE o \in Windows : FirstEntered(o, w)
  BY DEF Firsts
<1>10. x \in Windows
  OBVIOUS
<1> HIDE DEF S, R, T
<1>11. FirstEntered(Firsts[w], w) /\ Firsts[w] \in Windows
  BY <1>7, <1>9, <1>10
<1>12. DOMAIN Firsts = {WeakAt(o) : o \in Windows}
  BY DEF Firsts
<1>13. QED
  BY <1>1, <1>8, <1>11, <1>12

\* What hash_find returns is an offset.
LEMMA LookupFacts ==
    ASSUME file \in Seq(Byte), NEW h \in Lookups, NEW w \in DOMAIN h
    PROVE  h[w] \in Nat
<1>1. CASE steady
  <2>1. h = Firsts
    BY <1>1 DEF Lookups
  <2>2. DOMAIN Firsts = {WeakAt(o) : o \in Windows}
    BY DEF Firsts
  <2>3. QED
    BY <2>1, <2>2, FirstFacts
<1>2. CASE ~steady
  <2>1. PICK W \in SUBSET Checksum : h \in [W -> Matches]
    BY <1>2 DEF Lookups
  <2>2. h[w] \in Matches
    BY <2>1
  <2>3. QED
    BY <2>2 DEF Matches
<1>3. QED
  BY <1>1, <1>2

\* What cover_hash does to a stored block.
LEMMA FoundFacts ==
    ASSUME file \in Seq(Byte), NEW h \in Lookups, NEW b \in Block, b.remote, DataOK(b)
    PROVE  /\ Found(h, b) \in Block /\ Found(h, b).remote /\ DataOK(Found(h, b))
           /\ Found(h, b).cover =>
                 /\ ReadAt(file, Found(h, b).offset, Found(h, b).length) = Found(h, b).data
                 /\ Whole(Found(h, b))
<1> DEFINE g == Found(h, b)
<1>1. CASE b.weak \in DOMAIN h /\ StrongMatch(h[b.weak], b)
  <2> DEFINE o == h[b.weak]
  <2>1. o \in Nat
    BY <1>1, LookupFacts
  <2>2. o + b.length <= Len(file) /\ ReadAt(file, o, b.length) = b.strong
    BY <1>1 DEF StrongMatch
  <2>3. g = [b EXCEPT !.cover = TRUE, !.offset = o]
    BY <1>1 DEF Found
  <2> HIDE DEF g, o
  <2>4. b.length \in Nat \ {0}
    BY DEF Block
  <2>5. Len(ReadAt(file, o, b.length)) = b.length
    BY <2>1, <2>2, <2>4, ReadAtFacts
  <2>6. Whole(b) /\ b.data = b.strong /\ Len(b.data) = b.length
    BY <2>2, <2>5 DEF DataOK, Whole
  <2>7. /\ g \in Block /\ g.offset = o /\ g.length = b.length /\ g.data = b.data
        /\ g.strong = b.strong /\ g.remote = b.remote
    BY <2>1, <2>3 DEF Block
  <2>8. QED
    BY <2>2, <2>6, <2>7 DEF DataOK, Whole, g
<1>2. CASE ~ (b.weak \in DOMAIN h /\ StrongMatch(h[b.weak], b))
  <2>1. g = [b EXCEPT !.cover = FALSE]
    BY <1>2 DEF Found
  <2> HIDE DEF g
  <2>2. /\ g \in Block /\ g.cover = FALSE /\ g.length = b.length /\ g.data = b.data
        /\ g.strong = b.strong /\ g.remote = b.remote
    BY <2>1 DEF Block
  <2>3. QED
    BY <2>2 DEF DataOK, Whole, g
<1>3. QED
  BY <1>1, <1>2

\* What cover_fill_block does to a block.
LEMMA FilledFacts ==
    ASSUME file \in Seq(Byte), NEW b \in Block, NEW w \in Checksum
    PROVE  /\ Filled(b, w) \in Block /\ Filled(b, w).remote /\ DataOK(Filled(b, w))
           /\ Filled(b, w).offset = b.offset /\ Filled(b, w).length = b.length
           /\ Filled(b, w).cover = b.cover
           /\ Whole(Filled(b, w)) => ReadAt(file, b.offset, b.length) = Filled(b, w).data
<1> DEFINE r == ReadAt(file, b.offset, b.length)
           d == [k \in 1 .. b.length |-> IF k <= Len(r) THEN r[k] ELSE Junk]
<1>1. b.length \in Nat \ {0} /\ b.offset \in Nat
  BY DEF Block
<1>2. r \in Seq(Byte) /\ Len(r) <= b.length
  BY <1>1, ReadAtFacts
<1>3. Filled(b, w) = [b EXCEPT !.weak = w, !.strong = r, !.data = d, !.remote = TRUE]
  BY DEF Filled, BytesRead
<1> HIDE DEF r
<1>4. d \in Seq(Byte \cup {Junk}) /\ Len(d) = b.length
  <2>1. \A k \in 1 .. b.length : d[k] \in Byte \cup {Junk}
    BY <1>1, <1>2
  <2>2. QED
    BY <1>1, <2>1
<1>5. Len(r) = b.length => d = r
  BY <1>1, <1>2
<1> HIDE DEF d
<1>6. /\ Filled(b, w) \in Block
      /\ Filled(b, w).offset = b.offset /\ Filled(b, w).length = b.length
      /\ Filled(b, w).cover = b.cover /\ Filled(b, w).remote = TRUE
      /\ Filled(b, w).strong = r /\ Filled(b, w).data = d
  BY <1>2, <1>3, <1>4 DEF Block
<1>7. DataOK(Filled(b, w))
  BY <1>4, <1>5, <1>6 DEF DataOK, Whole
<1>8. Whole(Filled(b, w)) => r = Filled(b, w).data
  BY <1>5, <1>6 DEF Whole
<1>9. QED
  BY <1>6, <1>7, <1>8 DEF r

-----------------------------------------------------------------------------
(* Types and data.                                                           *)

Inv == TypeOK /\ DataInv

LEMMA InitInv ==
    Init => Inv
<1> SUFFICES ASSUME Init PROVE Inv
  OBVIOUS
<1>1. file \in Seq(Byte)
  BY CoveringAssumption DEF Init
<1>2. QED
  BY <1>1 DEF Init, Inv, TypeOK, DataInv, Sides, Backing

\* A new block joins the cover.
LEMMA NewBlockStep ==
    ASSUME Inv, pc \in {"cover", "tail"},
           NEW o \in Nat, NEW n \in Nat \ {0},
           blocks' = Append(blocks, NewBlock(o, n)), soFar' \in Nat,
           UNCHANGED <<file, pc, oldLen, i, sum, steady, archive, recovered, backups>>
    PROVE  Inv'
<1> USE DEF Inv
<1> DEFINE b == NewBlock(o, n)
<1>1. b \in Block /\ DataOK(b) /\ b.cover
  BY CoveringAssumption DEF b, NewBlock, Block, DataOK
<1>2. blocks \in Seq(Block) /\ oldLen \in 0 .. Len(blocks)
  BY DEF TypeOK
<1> HIDE DEF b
<1>3. /\ blocks' \in Seq(Block) /\ DOMAIN blocks' = 1 .. Len(blocks) + 1
      /\ DOMAIN blocks = 1 .. Len(blocks)
      /\ \A k \in DOMAIN blocks : blocks'[k] = blocks[k]
      /\ blocks'[Len(blocks) + 1] = b
  BY <1>1, <1>2, AppendFacts DEF b
<1>4. Len(blocks') = Len(blocks) + 1
  BY <1>3
<1>5. TypeOK'
  BY <1>2, <1>3, <1>4 DEF TypeOK
<1>6. \A k \in DOMAIN blocks' : DataOK(blocks'[k])
  BY <1>1, <1>3 DEF DataInv
<1>7. Sides(blocks', oldLen')
  <2>1. Sides(blocks, oldLen)
    BY DEF DataInv, Backing
  <2>2. QED
    BY <1>1, <1>2, <1>3, <2>1 DEF Sides
<1>8. DataInv'
  BY <1>6, <1>7 DEF DataInv, Backing
<1>9. QED
  BY <1>5, <1>8

LEMMA CoverHashStep ==
    ASSUME Inv, CoverHash
    PROVE  Inv'
<1> USE DEF Inv
<1>0. PICK h \in Lookups : CoverWith(h)
  BY DEF CoverHash
<1> DEFINE l == archive.list
           t == [k \in DOMAIN l |-> Found(h, l[k])]
<1>1. PICK q \in Permutations(DOMAIN t) :
         SortedBy(t, q) /\ blocks' = [k \in DOMAIN t |-> t[q[k]]]
  BY <1>0 DEF CoverWith
<1>2. file \in Seq(Byte) /\ l \in Seq(Block)
  BY DEF TypeOK
<1>3. DOMAIN t = DOMAIN l /\ DOMAIN l = 1 .. Len(l)
  BY <1>2
<1>4. \A k \in DOMAIN l : q[k] \in DOMAIN l
  BY <1>1, <1>3 DEF SortedBy
<1>5. ASSUME NEW k \in DOMAIN l
      PROVE  t[k] \in Block /\ t[k].remote /\ DataOK(t[k])
  <2>1. l[k] \in Block /\ l[k].remote /\ DataOK(l[k])
    BY <1>2 DEF DataInv
  <2>2. QED
    BY <1>2, <2>1, FoundFacts
<1> HIDE DEF t
<1>6. /\ blocks' \in Seq(Block) /\ Len(blocks') = Len(l) /\ DOMAIN blocks' = 1 .. Len(l)
      /\ \A k \in DOMAIN blocks' : blocks'[k].remote /\ DataOK(blocks'[k])
  <2>1. \A k \in 1 .. Len(l) : t[q[k]] \in Block /\ t[q[k]].remote /\ DataOK(t[q[k]])
    BY <1>3, <1>4, <1>5
  <2>2. blocks' = [k \in 1 .. Len(l) |-> t[q[k]]] /\ Len(l) \in Nat
    BY <1>1, <1>2, <1>3
  <2>3. blocks' \in Seq(Block) /\ Len(blocks') = Len(l) /\ DOMAIN blocks' = 1 .. Len(l)
    BY <2>1, <2>2
  <2>4. QED
    BY <2>1, <2>2, <2>3
<1> HIDE DEF l
<1>7. /\ oldLen' = Len(l) /\ i' = 1 /\ soFar' = 0 /\ pc' = "cover" /\ pc = "await"
      /\ UNCHANGED <<file, sum, steady, archive, recovered, backups>>
  BY <1>0 DEF CoverHash, CoverWith, l
<1>8. TypeOK'
  BY <1>2, <1>6, <1>7 DEF TypeOK
<1>9. DataInv'
  <2>1. Sides(blocks', oldLen')
    BY <1>2, <1>6, <1>7 DEF Sides
  <2>2. QED
    BY <1>6, <1>7, <2>1 DEF DataInv, Backing
<1>10. QED
  BY <1>8, <1>9

LEMMA FillBlockInv ==
    ASSUME Inv, FillBlock
    PROVE  Inv'
<1> USE DEF Inv
<1>1. /\ file \in Seq(Byte) /\ blocks \in Seq(Block) /\ oldLen \in 0 .. Len(blocks)
      /\ i \in 1 .. Len(blocks) /\ i \in DOMAIN blocks /\ DOMAIN blocks = 1 .. Len(blocks)
  BY DEF TypeOK, DataInv, FillBlock
<1>2. /\ pc = "fill" /\ pc' = "fill" /\ i' = i + 1
      /\ UNCHANGED <<file, pc, oldLen, soFar, sum, steady, archive, recovered, backups>>
  BY DEF FillBlock
<1>3. Sides(blocks, oldLen)
  BY <1>2 DEF DataInv, Backing
<1>4. CASE blocks[i].cover /\ ~blocks[i].remote
  <2>1. PICK w \in Checksum : blocks' = [blocks EXCEPT ![i] = Filled(blocks[i], w)]
    BY <1>4 DEF FillBlock, WeakOf
  <2>2. blocks[i] \in Block
    BY <1>1
  <2>3. /\ Filled(blocks[i], w) \in Block /\ Filled(blocks[i], w).remote
        /\ DataOK(Filled(blocks[i], w)) /\ Filled(blocks[i], w).cover = blocks[i].cover
    BY <1>1, <2>2, FilledFacts
  <2>4. /\ blocks' \in Seq(Block) /\ Len(blocks') = Len(blocks)
        /\ DOMAIN blocks' = DOMAIN blocks
        /\ blocks'[i] = Filled(blocks[i], w)
        /\ \A k \in DOMAIN blocks : k # i => blocks'[k] = blocks[k]
    BY <1>1, <2>1, <2>3
  <2>5. TypeOK'
    BY <1>1, <1>2, <2>4 DEF TypeOK
  <2>6. \A k \in DOMAIN blocks' : DataOK(blocks'[k])
    BY <2>3, <2>4 DEF DataInv
  <2>7. Sides(blocks', oldLen')
    BY <1>2, <1>3, <1>4, <2>3, <2>4 DEF Sides
  <2>8. \A k \in DOMAIN blocks' : k < i' => blocks'[k].remote
    BY <1>1, <1>2, <2>3, <2>4 DEF DataInv
  <2>9. DataInv'
    BY <1>1, <1>2, <2>6, <2>7, <2>8 DEF DataInv, Backing
  <2>10. QED
    BY <2>5, <2>9
<1>5. CASE ~(blocks[i].cover /\ ~blocks[i].remote)
  <2>1. blocks' = blocks
    BY <1>5 DEF FillBlock
  <2>2. TypeOK'
    BY <1>1, <1>2, <2>1 DEF TypeOK
  <2>3. blocks[i].remote
    BY <1>1, <1>3, <1>5 DEF Sides
  <2>4. \A k \in DOMAIN blocks' : k < i' => blocks'[k].remote
    BY <1>1, <1>2, <2>1, <2>3 DEF DataInv
  <2>5. DataInv'
    BY <1>1, <1>2, <1>3, <2>1, <2>4 DEF DataInv, Backing
  <2>6. QED
    BY <2>2, <2>5
<1>6. QED
  BY <1>4, <1>5

LEMMA InstallBlockInv ==
    ASSUME Inv, InstallBlock
    PROVE  Inv'
<1> USE DEF Inv
<1> DEFINE b == blocks[i]
<1>1. /\ pc = "extract" /\ i' = i + 1 /\ i >= 1
      /\ UNCHANGED <<file, pc, blocks, oldLen, soFar, sum, steady, archive, backups>>
  BY DEF InstallBlock, DataInv
<1>2. i \in DOMAIN blocks /\ b \in Block /\ b.remote /\ DataOK(b)
  BY <1>1 DEF TypeOK, DataInv, InstallBlock
<1>3. \A p \in DOMAIN recovered' : p \in Nat \ {0} /\ recovered'[p] \in Byte \cup {Junk}
  <2>1. CASE Passes(b)
    <3>1. b.data \in Seq(Byte \cup {Junk}) /\ Len(b.data) = b.length
          /\ b.offset \in Nat /\ b.length \in Nat
      BY <1>2 DEF DataOK, Block
    <3>2. recovered' = WrittenAt(b, recovered)
      BY <2>1 DEF InstallBlock
    <3>3. ASSUME NEW p \in Span(b)
          PROVE  p \in Nat \ {0} /\ b.data[p - b.offset] \in Byte \cup {Junk}
      BY <3>1 DEF Span
    <3>4. ASSUME NEW p \in DOMAIN recovered
          PROVE  p \in Nat \ {0} /\ recovered[p] \in Byte \cup {Junk}
      BY DEF TypeOK
    <3> HIDE DEF b
    <3>5. QED
      BY <3>2, <3>3, <3>4 DEF WrittenAt
  <2>2. CASE ~Passes(b)
    BY <2>2 DEF InstallBlock, TypeOK
  <2>3. QED
    BY <2>1, <2>2
<1>4. TypeOK'
  BY <1>1, <1>3 DEF TypeOK
<1>5. DataInv'
  BY <1>1 DEF DataInv, Backing, TypeOK
<1>6. QED
  BY <1>4, <1>5

\* Where the ticket goes.
LEMMA LeaveInv ==
    ASSUME Inv, Leave, archive' = archive \/ Commit, UNCHANGED <<file, backups>>,
           recovered' \in {recovered, <<>>}
    PROVE  Inv'
<1> USE DEF Inv
<1>1. /\ pc' = "idle" /\ blocks' = <<>> /\ oldLen' = 0 /\ i' = 0 /\ soFar' = 0 /\ sum' = NoSum
      /\ steady' = TRUE
  BY DEF Leave
<1>2. /\ archive' \in [list : Seq(Block), old : Nat, sum : Seq(Byte) \cup {NoSum}, steady : BOOLEAN]
      /\ archive'.old <= Len(archive'.list)
      /\ \A k \in DOMAIN archive'.list : DataOK(archive'.list[k]) /\ archive'.list[k].remote
      /\ Sides(archive'.list, archive'.old)
      /\ archive'.list # <<>> => archive'.sum \in Seq(Byte)
  <2>1. CASE archive' = archive
    BY <2>1 DEF TypeOK, DataInv
  <2>2. CASE Commit
    <3>1. /\ archive' = [list |-> blocks, old |-> oldLen, sum |-> sum, steady |-> steady]
          /\ pc = "fill" /\ i > Len(blocks)
      BY <2>2 DEF Commit
    <3>2. /\ archive'.list = blocks /\ archive'.old = oldLen /\ archive'.sum = sum
          /\ archive'.steady = steady
      BY <3>1
    <3>3. /\ blocks \in Seq(Block) /\ oldLen \in 0 .. Len(blocks) /\ i \in Nat
          /\ sum \in Seq(Byte) /\ steady \in BOOLEAN /\ Sides(blocks, oldLen)
          /\ \A k \in DOMAIN blocks : DataOK(blocks[k]) /\ (k < i => blocks[k].remote)
      BY <3>1 DEF TypeOK, DataInv, Backing
    <3>4. \A k \in DOMAIN blocks : k < i
      BY <3>1, <3>3
    <3>5. QED
      BY <3>1, <3>2, <3>3, <3>4
  <2>3. QED
    BY <2>1, <2>2
<1>3. \A p \in DOMAIN recovered' : p \in Nat \ {0} /\ recovered'[p] \in Byte \cup {Junk}
  BY DEF TypeOK
<1>4. TypeOK'
  BY <1>1, <1>2, <1>3 DEF TypeOK
<1>5. DataInv'
  BY <1>1, <1>2 DEF DataInv, Backing
<1>6. QED
  BY <1>4, <1>5

LEMMA NextInv ==
    ASSUME Inv, [Next]_vars
    PROVE  Inv'
<1>1. CASE Edit
  BY <1>1, CoveringAssumption DEF Inv, Edit, TypeOK, DataInv, Backing, loopVars
<1>2. CASE StartBackup
  BY <1>2 DEF Inv, StartBackup, TypeOK, DataInv, Backing
<1>3. CASE CoverHash
  BY <1>3, CoverHashStep
<1>4. CASE CoverHole
  <2>1. soFar \in Nat /\ BlockLength \in Nat \ {0} /\ soFar' \in Nat
    BY <1>4, CoveringAssumption DEF Inv, TypeOK, CoverHole
  <2>2. /\ pc \in {"cover", "tail"}
        /\ blocks' = Append(blocks, NewBlock(soFar, BlockLength))
        /\ UNCHANGED <<file, pc, oldLen, i, sum, steady, archive, recovered, backups>>
    BY <1>4 DEF CoverHole
  <2>3. QED
    BY <2>1, <2>2, NewBlockStep
<1>5. CASE PassBlock
  <2>1. /\ i \in DOMAIN blocks /\ blocks[i] \in Block /\ soFar \in Nat
    BY <1>5 DEF Inv, TypeOK, DataInv, PassBlock
  <2>2. soFar' \in Nat
    BY <1>5, <2>1 DEF PassBlock, Reach, Block
  <2>3. QED
    BY <1>5, <2>2 DEF Inv, PassBlock, TypeOK, DataInv, Backing
<1>6. CASE CoverOld
  BY <1>6 DEF Inv, CoverOld, TypeOK, DataInv, Backing, loopVars
<1>7. CASE CoverTail
  <2>1. soFar \in Nat /\ Len(sum) \in Nat /\ soFar < Len(sum) /\ BlockLength \in Nat \ {0}
    BY <1>7, CoveringAssumption DEF Inv, TypeOK, DataInv, Backing, CoverTail
  <2>2. TailLength \in Nat \ {0} /\ TailOffset \in Nat
    BY <2>1 DEF TailLength, TailOffset
  <2>3. /\ pc \in {"cover", "tail"} /\ soFar' \in Nat
        /\ blocks' = Append(blocks, NewBlock(TailOffset, TailLength))
        /\ UNCHANGED <<file, pc, oldLen, i, sum, steady, archive, recovered, backups>>
    BY <1>7, <2>1, <2>2 DEF CoverTail
  <2>4. QED
    BY <2>2, <2>3, NewBlockStep
<1>8. CASE CoverDone
  BY <1>8 DEF Inv, CoverDone, TypeOK, DataInv, Backing
<1>9. CASE FillBlock
  BY <1>9, FillBlockInv
<1>10. CASE Commit
  BY <1>10, LeaveInv DEF Commit
<1>11. CASE Interrupt
  BY <1>11, LeaveInv DEF Interrupt
<1>12. CASE StartExtract
  BY <1>12 DEF Inv, StartExtract, TypeOK, DataInv, Backing
<1>13. CASE InstallBlock
  BY <1>13, InstallBlockInv
<1>14. CASE ExtractDone
  BY <1>14 DEF Inv, ExtractDone, TypeOK, DataInv, Backing, loopVars
<1>15. CASE Close
  BY <1>15, LeaveInv DEF Close
<1>16. CASE UNCHANGED vars
  BY <1>16 DEF Inv, vars, loopVars, TypeOK, DataInv, Backing
<1>17. QED
  BY <1>1, <1>2, <1>3, <1>4, <1>5, <1>6, <1>7, <1>8, <1>9, <1>10, <1>11, <1>12, <1>13,
     <1>14, <1>15, <1>16 DEF Next, CoverStep, SendStep, ExtractStep

\* Every step leaves the state well typed: in particular a block that is pushed
\* back from the end of the file keeps an offset that is no negative number.
THEOREM TypesHold == Spec => []TypeOK
<1>1. Spec => []Inv
  BY InitInv, NextInv, PTL DEF Spec
<1>2. Inv => TypeOK
  BY DEF Inv
<1>3. QED
  BY <1>1, <1>2, PTL

-----------------------------------------------------------------------------
(* What is kept is there.                                                    *)

LEMMA KeptStep ==
    ASSUME Inv, KeptIsThere, [Next]_vars
    PROVE  KeptIsThere'
<1>1. CASE CoverHash
  <2>0. PICK h \in Lookups : CoverWith(h)
    BY <1>1 DEF CoverHash
  <2> DEFINE l == archive.list
             t == [k \in DOMAIN l |-> Found(h, l[k])]
  <2>1. PICK q \in Permutations(DOMAIN t) :
           SortedBy(t, q) /\ blocks' = [k \in DOMAIN t |-> t[q[k]]]
    BY <2>0 DEF CoverWith
  <2>2. l \in Seq(Block) /\ file \in Seq(Byte) /\ file' = file /\ oldLen' = Len(l)
    BY <2>0 DEF CoverWith, Inv, TypeOK
  <2>3. ASSUME NEW k \in 1 .. Len(l), blocks'[k].cover
        PROVE  ReadAt(file, blocks'[k].offset, blocks'[k].length) = blocks'[k].data
    <3>1. k \in DOMAIN t /\ q[k] \in DOMAIN l
      BY <2>1, <2>2 DEF SortedBy
    <3>2. blocks'[k] = Found(h, l[q[k]])
      BY <2>1, <3>1
    <3>3. l[q[k]] \in Block /\ l[q[k]].remote /\ DataOK(l[q[k]])
      BY <2>2, <3>1 DEF Inv, DataInv
    <3>4. QED
      BY <2>2, <2>3, <3>2, <3>3, FoundFacts
  <2> HIDE DEF l, t
  <2>4. QED
    BY <2>2, <2>3 DEF KeptIsThere
<1>2. CASE CoverHole \/ CoverTail
  <2>1. PICK b : blocks' = Append(blocks, b)
    BY <1>2 DEF CoverHole, CoverTail
  <2>2. /\ pc \in {"cover", "tail"} /\ UNCHANGED <<file, pc, oldLen>>
        /\ blocks \in Seq(Block) /\ oldLen \in 0 .. Len(blocks)
    BY <1>2 DEF CoverHole, CoverTail, Inv, TypeOK
  <2>3. \A k \in 1 .. oldLen : blocks'[k] = blocks[k]
    BY <2>1, <2>2
  <2>4. QED
    BY <2>2, <2>3 DEF KeptIsThere
<1>3. CASE PassBlock \/ CoverOld
  BY <1>3 DEF PassBlock, CoverOld, loopVars, KeptIsThere
<1>4. CASE UNCHANGED vars
  BY <1>4 DEF vars, loopVars, KeptIsThere
<1>5. CASE Edit
  BY <1>5 DEF Edit, KeptIsThere
<1>6. CASE StartBackup \/ CoverDone \/ FillBlock \/ Commit \/ Interrupt \/ ExtractStep
  <2>1. pc' \notin {"cover", "tail"}
    BY <1>6 DEF StartBackup, CoverDone, FillBlock, Commit, Interrupt, Leave, ExtractStep,
                StartExtract, InstallBlock, ExtractDone, Close
  <2>2. QED
    BY <2>1 DEF KeptIsThere
<1>7. QED
  BY <1>1, <1>2, <1>3, <1>4, <1>5, <1>6 DEF Next, CoverStep, SendStep

\* A block of the old list goes into the cover only where the file holds its very
\* bytes, whatever the weak checksum confuses and however the file was read
\* when the block was stored.
THEOREM KeptBlocksAreThere == Spec => []KeptIsThere
<1>1. Init => KeptIsThere
  BY DEF Init, KeptIsThere
<1>2. Spec => [](Inv /\ KeptIsThere)
  BY <1>1, InitInv, NextInv, KeptStep, PTL DEF Spec
<1>3. QED
  BY <1>2, PTL

-----------------------------------------------------------------------------
(* How far a cover reaches.                                                  *)

CoverFar ==
    /\ pc = "cover" => \A p \in 1 .. soFar : Covered(p)
    /\ pc \in {"tail", "fill"} =>
          \/ \A p \in 1 .. soFar : Covered(p)
          \/ /\ BlockLength < Len(sum) /\ soFar = Len(sum)
             /\ \A p \in 1 .. Len(sum) - BlockLength + 1 : Covered(p)
    /\ pc = "fill" => soFar >= Len(sum)

\* A new block covers its span and leaves covered what was.
LEMMA AppendCovers ==
    ASSUME Inv, NEW o \in Nat, NEW n \in Nat \ {0},
           blocks' = Append(blocks, NewBlock(o, n))
    PROVE  /\ \A p : Covered(p) => Covered(p)'
           /\ \A p \in o + 1 .. o + n : Covered(p)'
<1> DEFINE b == NewBlock(o, n)
<1>1. b \in Block /\ b.cover /\ Span(b) = o + 1 .. o + n
  BY CoveringAssumption DEF NewBlock, Block, Span
<1>2. blocks \in Seq(Block)
  BY DEF Inv, TypeOK
<1> HIDE DEF b
<1>3. /\ DOMAIN blocks' = 1 .. Len(blocks) + 1 /\ DOMAIN blocks = 1 .. Len(blocks)
      /\ \A k \in DOMAIN blocks : blocks'[k] = blocks[k]
      /\ blocks'[Len(blocks) + 1] = b
  BY <1>1, <1>2, AppendFacts DEF b
<1>4. Len(blocks) \in Nat
  BY <1>2
<1>5. \A p : Covered(p) => Covered(p)'
  BY <1>3, <1>4 DEF Covered
<1>6. \A p \in o + 1 .. o + n : Covered(p)'
  BY <1>1, <1>3, <1>4 DEF Covered
<1>7. QED
  BY <1>5, <1>6

LEMMA CoverHoleFar ==
    ASSUME Inv, CoverFar, CoverHole
    PROVE  CoverFar'
<1>1. soFar \in Nat /\ BlockLength \in Nat \ {0}
  BY CoveringAssumption DEF Inv, TypeOK
<1>2. /\ blocks' = Append(blocks, NewBlock(soFar, BlockLength))
      /\ soFar' = soFar + BlockLength /\ pc = "cover" /\ pc' = "cover"
  BY DEF CoverHole
<1>3. \A p \in 1 .. soFar : Covered(p)'
  BY <1>1, <1>2, AppendCovers DEF CoverFar
<1>4. \A p \in soFar + 1 .. soFar + BlockLength : Covered(p)'
  BY <1>1, <1>2, AppendCovers
<1>5. \A p \in 1 .. soFar' : Covered(p)'
  BY <1>1, <1>2, <1>3, <1>4
<1>6. QED
  BY <1>2, <1>5 DEF CoverFar

LEMMA PassBlockFar ==
    ASSUME Inv, CoverFar, PassBlock
    PROVE  CoverFar'
<1> DEFINE b == blocks[i]
<1>1. /\ soFar \in Nat /\ i \in DOMAIN blocks /\ b \in Block
  BY DEF Inv, TypeOK, DataInv, PassBlock
<1>2. /\ blocks' = blocks /\ pc = "cover" /\ pc' = "cover" /\ b.offset <= soFar
      /\ soFar' = IF b.cover /\ b.offset + b.length > soFar THEN b.offset + b.length ELSE soFar
  BY DEF PassBlock, Reach
<1>3. \A p : Covered(p)' <=> Covered(p)
  BY <1>2 DEF Covered
<1>4. b.cover => \A p \in b.offset + 1 .. b.offset + b.length : Covered(p)
  BY <1>1 DEF Covered, Span
<1>5. b.offset \in Nat /\ b.length \in Nat
  BY <1>1 DEF Block
<1> HIDE DEF b
<1>6. \A p \in 1 .. soFar' : Covered(p)
  BY <1>1, <1>2, <1>4, <1>5 DEF CoverFar
<1>7. QED
  BY <1>2, <1>3, <1>6 DEF CoverFar

LEMMA CoverTailFar ==
    ASSUME Inv, CoverFar, CoverTail
    PROVE  CoverFar'
<1>1. soFar \in Nat /\ Len(sum) \in Nat /\ soFar < Len(sum) /\ BlockLength \in Nat \ {0}
  BY CoveringAssumption DEF Inv, TypeOK, DataInv, Backing, CoverTail
<1>2. TailLength \in Nat \ {0} /\ TailOffset \in Nat
  BY <1>1 DEF TailLength, TailOffset
<1>3. /\ blocks' = Append(blocks, NewBlock(TailOffset, TailLength))
      /\ soFar' = soFar + TailLength /\ pc = "tail" /\ pc' = "tail" /\ sum' = sum
  BY DEF CoverTail
<1>4. \A p \in 1 .. soFar : Covered(p)
  BY <1>1, <1>3 DEF CoverFar
<1>5. \A p \in 1 .. soFar : Covered(p)'
  BY <1>2, <1>3, <1>4, AppendCovers
<1>6. \A p \in TailOffset + 1 .. TailOffset + TailLength : Covered(p)'
  BY <1>2, <1>3, AppendCovers
<1>7. CASE TailOffset = soFar
  <2>1. \A p \in 1 .. soFar' : Covered(p)'
    BY <1>1, <1>2, <1>3, <1>5, <1>6, <1>7
  <2>2. QED
    BY <1>3, <2>1 DEF CoverFar
<1>8. CASE TailOffset # soFar
  <2>1. /\ BlockLength < Len(sum) /\ TailLength = Len(sum) - soFar
        /\ TailLength < BlockLength
    BY <1>1, <1>8 DEF TailOffset, TailLength
  <2>2. soFar' = Len(sum) /\ Len(sum) - BlockLength + 1 <= soFar
    BY <1>1, <1>3, <2>1
  <2>3. \A p \in 1 .. Len(sum) - BlockLength + 1 : Covered(p)'
    BY <1>1, <1>5, <2>1, <2>2
  <2>4. QED
    BY <1>3, <2>1, <2>2, <2>3 DEF CoverFar
<1>9. QED
  BY <1>7, <1>8

LEMMA FillBlockFar ==
    ASSUME Inv, CoverFar, FillBlock
    PROVE  CoverFar'
<1>1. /\ file \in Seq(Byte) /\ blocks \in Seq(Block) /\ i \in DOMAIN blocks
      /\ UNCHANGED <<pc, soFar, sum>>
  BY DEF Inv, TypeOK, DataInv, FillBlock
<1>2. /\ DOMAIN blocks' = DOMAIN blocks
      /\ \A k \in DOMAIN blocks : /\ blocks'[k].cover = blocks[k].cover
                                  /\ Span(blocks'[k]) = Span(blocks[k])
  <2>1. CASE blocks' = blocks
    BY <2>1
  <2>2. CASE \E w \in Checksum : blocks' = [blocks EXCEPT ![i] = Filled(blocks[i], w)]
    <3>0. PICK w \in Checksum : blocks' = [blocks EXCEPT ![i] = Filled(blocks[i], w)]
      BY <2>2
    <3>1. blocks[i] \in Block
      BY <1>1
    <3>2. /\ Filled(blocks[i], w).cover = blocks[i].cover
          /\ Filled(blocks[i], w).offset = blocks[i].offset
          /\ Filled(blocks[i], w).length = blocks[i].length
      BY <1>1, <3>1, FilledFacts
    <3>3. QED
      BY <1>1, <3>0, <3>2 DEF Span
  <2>3. QED
    BY <2>1, <2>2 DEF FillBlock, WeakOf
<1>3. \A p : Covered(p)' <=> Covered(p)
  BY <1>2 DEF Covered
<1>4. QED
  BY <1>1, <1>3 DEF CoverFar

LEMMA FarStep ==
    ASSUME Inv, CoverFar, [Next]_vars
    PROVE  CoverFar'
<1>1. CASE CoverHole
  BY <1>1, CoverHoleFar
<1>2. CASE PassBlock
  BY <1>2, PassBlockFar
<1>3. CASE CoverTail
  BY <1>3, CoverTailFar
<1>4. CASE FillBlock
  BY <1>4, FillBlockFar
<1>5. CASE CoverHash
  <2>1. soFar' = 0 /\ pc' = "cover"
    BY <1>5 DEF CoverHash, CoverWith
  <2>2. QED
    BY <2>1 DEF CoverFar
<1>6. CASE CoverOld \/ CoverDone \/ Edit \/ UNCHANGED vars
  <2>1. /\ blocks' = blocks /\ soFar' = soFar /\ sum' = sum
        /\ \/ pc' = pc
           \/ pc = "cover" /\ pc' = "tail"
           \/ pc = "tail" /\ pc' = "fill" /\ soFar >= Len(sum)
    BY <1>6 DEF CoverOld, CoverDone, Edit, vars, loopVars
  <2>2. \A p : Covered(p)' <=> Covered(p)
    BY <2>1 DEF Covered
  <2>3. QED
    BY <2>1, <2>2 DEF CoverFar
<1>7. CASE StartBackup \/ Commit \/ Interrupt \/ ExtractStep
  <2>1. pc' \notin {"cover", "tail", "fill"}
    BY <1>7 DEF StartBackup, Commit, Interrupt, Leave, ExtractStep,
                StartExtract, InstallBlock, ExtractDone, Close
  <2>2. QED
    BY <2>1 DEF CoverFar
<1>8. QED
  BY <1>1, <1>2, <1>3, <1>4, <1>5, <1>6, <1>7 DEF Next, CoverStep, SendStep

\* A cover reaches every byte of the file but fewer than a block at its end, and
\* every byte of a file that is no longer than a block.
THEOREM CoverLeavesOnlyTheEnd == Spec => []CoverReaches
<1>1. Init => CoverFar
  BY DEF Init, CoverFar
<1>2. Spec => [](Inv /\ CoverFar)
  BY <1>1, InitInv, NextInv, FarStep, PTL DEF Spec
<1>3. Inv /\ CoverFar => CoverReaches
  <2> SUFFICES ASSUME Inv, CoverFar, pc = "fill", NEW p \in 1 .. Len(sum)
               PROVE  Covered(p) \/ (BlockLength < Len(sum) /\ p > Len(sum) - BlockLength + 1)
    BY DEF CoverReaches
  <2>1. Len(sum) \in Nat /\ soFar \in Nat /\ BlockLength \in Nat
    BY CoveringAssumption DEF Inv, TypeOK, DataInv, Backing
  <2>2. QED
    BY <2>1 DEF CoverFar
<1>4. QED
  BY <1>2, <1>3, PTL

-----------------------------------------------------------------------------
(* What an extraction writes, if the file was steady during its last backup. *)

\* Block b, if it was read whole, holds the bytes of file s in its span.
TrueBlock(b, s) == b.cover /\ b.remote /\ Whole(b) =>
                      \A p \in Span(b) : p \in DOMAIN s /\ b.data[p - b.offset] = s[p]
TrueList(l, s)  == \A k \in DOMAIN l : TrueBlock(l[k], s)

\* What the blocks before the i-th have left in the recovered file.
Renewed(p) == \E k \in oldLen + 1 .. Len(blocks) :
                 k < i /\ Whole(blocks[k]) /\ p \in Span(blocks[k])
Installed ==
    /\ steady => \A p \in DOMAIN recovered :
                    \/ p \in DOMAIN sum /\ recovered[p] = sum[p]
                    \/ StaleAt(p) /\ ~Renewed(p)
    /\ \A k \in DOMAIN blocks : k < i /\ Whole(blocks[k]) => Span(blocks[k]) \subseteq DOMAIN recovered

RestoreInv ==
    /\ steady /\ (pc = "await" \/ Backing) => file = sum
    /\ steady /\ Backing => TrueList(blocks, sum)
    /\ archive.steady => TrueList(archive.list, archive.sum)
    /\ IF pc \in {"extract", "extracted"} THEN Installed ELSE recovered = <<>>
    /\ pc = "extracted" => i > Len(blocks)

\* A block that holds what is read at its place is true of the file.
LEMMA ReadIsTrue ==
    ASSUME NEW f \in Seq(Byte), NEW b \in Block,
           b.cover /\ b.remote /\ Whole(b) =>
               /\ ReadAt(f, b.offset, b.length) = b.data /\ DataOK(b)
    PROVE  TrueBlock(b, f)
<1> SUFFICES ASSUME b.cover, b.remote, Whole(b), NEW p \in Span(b)
             PROVE  p \in DOMAIN f /\ b.data[p - b.offset] = f[p]
  BY DEF TrueBlock
<1>1. b.offset \in Nat /\ b.length \in Nat \ {0} /\ p \in b.offset + 1 .. b.offset + b.length
  BY DEF Block, Span
<1>2. ReadAt(f, b.offset, b.length) = b.data /\ Len(b.data) = b.length
  BY DEF DataOK
<1> DEFINE k == p - b.offset
<1>3. k \in 1 .. b.length /\ b.offset + k = p
  BY <1>1
<1> HIDE DEF k
<1>4. \A j \in 1 .. Len(ReadAt(f, b.offset, b.length)) :
         b.offset + j \in DOMAIN f /\ ReadAt(f, b.offset, b.length)[j] = f[b.offset + j]
  BY <1>1, ReadAtFacts
<1>5. b.offset + k \in DOMAIN f /\ b.data[k] = f[b.offset + k]
  BY <1>2, <1>3, <1>4
<1>6. QED
  BY <1>3, <1>5 DEF k

LEMMA CoverHashTrue ==
    ASSUME Inv, RestoreInv, CoverHash
    PROVE  RestoreInv'
<1>0. PICK h \in Lookups : CoverWith(h)
  BY DEF CoverHash
<1> DEFINE l == archive.list
           t == [k \in DOMAIN l |-> Found(h, l[k])]
<1>1. PICK q \in Permutations(DOMAIN t) :
         SortedBy(t, q) /\ blocks' = [k \in DOMAIN t |-> t[q[k]]]
  BY <1>0 DEF CoverWith
<1>2. l \in Seq(Block) /\ file \in Seq(Byte)
  BY DEF Inv, TypeOK
<1>3. ASSUME NEW k \in DOMAIN blocks' PROVE TrueBlock(blocks'[k], file)
  <2>1. k \in DOMAIN t /\ q[k] \in DOMAIN l
    BY <1>1 DEF SortedBy
  <2>2. blocks'[k] = Found(h, l[q[k]])
    BY <1>1, <2>1
  <2>3. l[q[k]] \in Block /\ l[q[k]].remote /\ DataOK(l[q[k]])
    BY <1>2, <2>1 DEF Inv, DataInv
  <2>4. /\ Found(h, l[q[k]]) \in Block /\ DataOK(Found(h, l[q[k]]))
        /\ Found(h, l[q[k]]).cover => ReadAt(file, Found(h, l[q[k]]).offset, Found(h, l[q[k]]).length)
                                      = Found(h, l[q[k]]).data
    BY <1>2, <2>3, FoundFacts
  <2>5. TrueBlock(Found(h, l[q[k]]), file)
    BY <1>2, <2>4, ReadIsTrue
  <2>6. QED
    BY <2>2, <2>5
<1> HIDE DEF l, t
<1>4. /\ pc = "await" /\ pc' = "cover"
      /\ UNCHANGED <<file, sum, steady, archive, recovered>>
  BY <1>0 DEF CoverHash, CoverWith
<1>5. steady => TrueList(blocks', sum')
  BY <1>3, <1>4 DEF TrueList, RestoreInv
<1>6. QED
  BY <1>4, <1>5 DEF RestoreInv, Backing

LEMMA NewBlockTrue ==
    ASSUME Inv, RestoreInv, CoverHole \/ CoverTail
    PROVE  RestoreInv'
<1>1. PICK o, n : blocks' = Append(blocks, NewBlock(o, n))
  BY DEF CoverHole, CoverTail
<1>2. blocks \in Seq(Block)
  BY DEF Inv, TypeOK
<1>3. ~NewBlock(o, n).remote
  BY DEF NewBlock
<1>4. /\ pc \in {"cover", "tail"}
      /\ UNCHANGED <<file, pc, sum, steady, archive, recovered>>
  BY DEF CoverHole, CoverTail
<1>5. ASSUME steady, NEW k \in DOMAIN blocks' PROVE TrueBlock(blocks'[k], sum)
  <2> DEFINE b == NewBlock(o, n)
  <2> HIDE DEF b
  <2>1. blocks' = Append(blocks, b) /\ ~b.remote
    BY <1>1, <1>3 DEF b
  <2>2. (k \in DOMAIN blocks /\ blocks'[k] = blocks[k]) \/ blocks'[k] = b
    BY <1>2, <2>1
  <2>3. TrueBlock(b, sum)
    BY <2>1 DEF TrueBlock
  <2>4. \A j \in DOMAIN blocks : TrueBlock(blocks[j], sum)
    BY <1>4, <1>5 DEF RestoreInv, Backing, TrueList
  <2>5. QED
    BY <2>2, <2>3, <2>4
<1>6. steady => TrueList(blocks', sum')
  BY <1>4, <1>5 DEF TrueList
<1>7. QED
  BY <1>4, <1>6 DEF RestoreInv, Backing

LEMMA FillBlockTrue ==
    ASSUME Inv, RestoreInv, FillBlock
    PROVE  RestoreInv'
<1>1. /\ file \in Seq(Byte) /\ blocks \in Seq(Block) /\ i \in DOMAIN blocks
      /\ pc = "fill"
      /\ UNCHANGED <<file, pc, sum, steady, archive, recovered>>
  BY DEF Inv, TypeOK, DataInv, FillBlock, Backing
<1>2. steady => file = sum /\ TrueList(blocks, sum)
  BY <1>1 DEF RestoreInv, Backing
<1>3. ASSUME steady PROVE TrueList(blocks', sum)
  <2>1. CASE blocks' = blocks
    BY <1>2, <1>3, <2>1
  <2>2. CASE \E w \in Checksum : blocks' = [blocks EXCEPT ![i] = Filled(blocks[i], w)]
    <3>0. PICK w \in Checksum : blocks' = [blocks EXCEPT ![i] = Filled(blocks[i], w)]
      BY <2>2
    <3>1. blocks[i] \in Block
      BY <1>1
    <3>2. /\ Filled(blocks[i], w) \in Block /\ DataOK(Filled(blocks[i], w))
          /\ Whole(Filled(blocks[i], w)) =>
                ReadAt(file, Filled(blocks[i], w).offset, Filled(blocks[i], w).length)
                   = Filled(blocks[i], w).data
      BY <1>1, <3>1, FilledFacts
    <3>3. TrueBlock(Filled(blocks[i], w), sum)
      BY <1>1, <1>2, <1>3, <3>2, ReadIsTrue
    <3>4. /\ DOMAIN blocks' = DOMAIN blocks /\ blocks'[i] = Filled(blocks[i], w)
          /\ \A k \in DOMAIN blocks : k # i => blocks'[k] = blocks[k]
      BY <1>1, <3>0
    <3>5. QED
      BY <1>2, <1>3, <3>3, <3>4 DEF TrueList
  <2>3. QED
    BY <2>1, <2>2 DEF FillBlock, WeakOf
<1>4. QED
  BY <1>1, <1>3 DEF RestoreInv, Backing

LEMMA InstallTrue ==
    ASSUME Inv, RestoreInv, InstallBlock
    PROVE  RestoreInv'
<1> DEFINE b == blocks[i]
<1>1. /\ pc = "extract" /\ pc' = "extract" /\ i' = i + 1 /\ i \in Nat /\ i >= 1 /\ i <= Len(blocks)
      /\ UNCHANGED <<file, blocks, oldLen, soFar, sum, steady, archive, backups>>
  BY DEF InstallBlock, Inv, DataInv, TypeOK
<1>2. /\ i \in DOMAIN blocks /\ b \in Block /\ b.remote /\ DataOK(b)
      /\ steady => TrueBlock(b, sum)
      /\ DOMAIN blocks = 1 .. Len(blocks) /\ Len(blocks) \in Nat /\ oldLen \in Nat
      /\ i > oldLen => b.cover
  BY <1>1 DEF TypeOK, DataInv, Inv, RestoreInv, TrueList, Sides
<1>3. Installed
  BY <1>1 DEF RestoreInv
<1>4. \A p : StaleAt(p)' <=> StaleAt(p)
  BY <1>1 DEF StaleAt
<1>5. CASE Passes(b)
  <2>1. Len(b.data) = b.length /\ Whole(b)
    BY <1>2, <1>5 DEF DataOK, Passes, Whole
  <2>2. recovered' = WrittenAt(b, recovered)
    BY <1>5 DEF InstallBlock
  <2> HIDE DEF b
  <2>3. /\ DOMAIN recovered' = Span(b) \cup DOMAIN recovered
        /\ \A p \in Span(b) : recovered'[p] = b.data[p - b.offset]
        /\ \A p \in DOMAIN recovered \ Span(b) : recovered'[p] = recovered[p]
    BY <2>2 DEF WrittenAt
  <2>4. \A p : Renewed(p)' => Renewed(p) \/ (i > oldLen /\ p \in Span(b))
    BY <1>1, <1>2 DEF Renewed, b
  <2>5. ASSUME steady, NEW p \in DOMAIN recovered'
        PROVE  \/ p \in DOMAIN sum' /\ recovered'[p] = sum'[p]
               \/ StaleAt(p)' /\ ~Renewed(p)'
    <3>1. CASE p \in Span(b) /\ b.cover
      BY <1>1, <1>2, <2>1, <2>3, <2>5, <3>1 DEF TrueBlock
    <3>2. CASE p \in Span(b) /\ ~b.cover
      <4>1. i <= oldLen
        BY <1>1, <1>2, <3>2
      <4>2. StaleAt(p)
        BY <1>1, <1>2, <3>2, <4>1 DEF StaleAt, b
      <4>3. ~Renewed(p)'
        BY <1>1, <1>2, <4>1 DEF Renewed
      <4>4. QED
        BY <1>4, <4>2, <4>3
    <3>3. CASE p \notin Span(b)
      <4>1. p \in DOMAIN recovered /\ recovered'[p] = recovered[p]
        BY <2>3, <3>3
      <4>2. Renewed(p)' => Renewed(p)
        BY <2>4, <3>3
      <4>3. QED
        BY <1>1, <1>3, <1>4, <2>5, <4>1, <4>2 DEF Installed
    <3>4. QED
      BY <3>1, <3>2, <3>3
  <2>6. ASSUME NEW k \in DOMAIN blocks', k < i', Whole(blocks'[k])
        PROVE  Span(blocks'[k]) \subseteq DOMAIN recovered'
    <3>1. CASE k = i
      BY <1>1, <2>3, <3>1 DEF b
    <3>2. CASE k # i
      <4>1. k \in DOMAIN blocks /\ k < i /\ blocks'[k] = blocks[k]
        BY <1>1, <1>2, <2>6, <3>2
      <4>2. Span(blocks[k]) \subseteq DOMAIN recovered
        BY <1>1, <1>3, <2>6, <4>1 DEF Installed
      <4>3. QED
        BY <2>3, <4>1, <4>2
    <3>3. QED
      BY <3>1, <3>2
  <2>7. Installed'
    BY <1>1, <2>5, <2>6 DEF Installed
  <2>8. QED
    BY <1>1, <2>7 DEF RestoreInv, Backing
<1>6. CASE ~Passes(b)
  <2>1. recovered' = recovered
    BY <1>6 DEF InstallBlock
  <2>2. ~Whole(b)
    BY <1>2, <1>6 DEF DataOK, Passes
  <2>3. \A p : Renewed(p)' => Renewed(p)
    BY <1>1, <1>2, <2>2 DEF Renewed
  <2>4. \A k \in DOMAIN blocks' : k < i' /\ Whole(blocks'[k]) => k < i
    BY <1>1, <1>2, <2>2
  <2>5. Installed'
    BY <1>1, <1>3, <1>4, <2>1, <2>3, <2>4 DEF Installed
  <2>6. QED
    BY <1>1, <2>5 DEF RestoreInv, Backing
<1>7. QED
  BY <1>5, <1>6

LEMMA RestoreStep ==
    ASSUME Inv, RestoreInv, [Next]_vars
    PROVE  RestoreInv'
<1>1. CASE Edit
  BY <1>1 DEF Edit, RestoreInv, Backing, loopVars
<1>2. CASE StartBackup
  BY <1>2 DEF StartBackup, RestoreInv, Backing
<1>3. CASE CoverHash
  BY <1>3, CoverHashTrue
<1>4. CASE CoverHole \/ CoverTail
  BY <1>4, NewBlockTrue
<1>5. CASE PassBlock \/ CoverOld \/ CoverDone
  BY <1>5 DEF PassBlock, CoverOld, CoverDone, loopVars, RestoreInv, Backing
<1>6. CASE FillBlock
  BY <1>6, FillBlockTrue
<1>7. CASE Commit
  <2>1. /\ pc = "fill" /\ pc' = "idle" /\ recovered' = recovered
        /\ archive' = [list |-> blocks, old |-> oldLen, sum |-> sum, steady |-> steady]
    BY <1>7 DEF Commit, Leave
  <2>2. archive'.list = blocks /\ archive'.sum = sum /\ archive'.steady = steady
    BY <2>1
  <2>3. steady => TrueList(blocks, sum)
    BY <2>1 DEF RestoreInv, Backing
  <2>4. QED
    BY <2>1, <2>2, <2>3 DEF RestoreInv, Backing
<1>8. CASE Interrupt
  BY <1>8 DEF Interrupt, Leave, RestoreInv, Backing
<1>9. CASE StartExtract
  <2>1. /\ pc = "idle" /\ pc' = "extract" /\ i' = 1 /\ archive' = archive
        /\ recovered' = recovered /\ blocks' = archive.list
    BY <1>9 DEF StartExtract
  <2>2. recovered' = <<>>
    BY <2>1 DEF RestoreInv
  <2>3. archive.list \in Seq(Block)
    BY DEF Inv, TypeOK
  <2>4. Installed'
    BY <2>1, <2>2, <2>3 DEF Installed
  <2>5. QED
    BY <2>1, <2>4 DEF RestoreInv, Backing
<1>10. CASE InstallBlock
  BY <1>10, InstallTrue
<1>11. CASE ExtractDone \/ UNCHANGED vars
  <2>1. /\ UNCHANGED <<blocks, oldLen, i, sum, steady, file, archive, recovered>>
        /\ \/ pc' = pc
           \/ pc = "extract" /\ pc' = "extracted" /\ i > Len(blocks)
    BY <1>11 DEF ExtractDone, vars, loopVars
  <2>2. Installed' <=> Installed
    BY <2>1 DEF Installed, StaleAt, Renewed
  <2>3. QED
    BY <2>1, <2>2 DEF RestoreInv, Backing
<1>12. CASE Close
  BY <1>12 DEF Close, Leave, RestoreInv, Backing
<1>13. QED
  BY <1>1, <1>2, <1>3, <1>4, <1>5, <1>6, <1>7, <1>8, <1>9, <1>10, <1>11, <1>12
     DEF Next, CoverStep, SendStep, ExtractStep

\* If the file did not change during its last backup, an extraction writes a wrong
\* byte only where a block lies that has left the file and no new block was read
\* whole, and it writes every byte of the blocks of the cover that were.
THEOREM ExtractionIsTrue == Spec => []ExtractTrue
<1>1. Init => RestoreInv
  BY DEF Init, RestoreInv, Backing, TrueList
<1>2. Inv /\ RestoreInv /\ [Next]_vars => RestoreInv'
  BY RestoreStep
<1>3. Spec => [](Inv /\ RestoreInv)
  BY <1>1, <1>2, InitInv, NextInv, PTL DEF Spec
<1>4. Inv /\ RestoreInv => ExtractTrue
  <2> SUFFICES ASSUME Inv, RestoreInv, pc = "extracted", steady
               PROVE  /\ \A p \in DOMAIN recovered :
                            \/ p \in DOMAIN sum /\ recovered[p] = sum[p]
                            \/ StaleAt(p) /\ ~RenewedAt(p)
                      /\ \A p \in DOMAIN sum : WholeAt(p) => p \in DOMAIN recovered
    BY DEF ExtractTrue
  <2>1. Installed /\ i > Len(blocks) /\ i \in Nat /\ blocks \in Seq(Block) /\ oldLen \in Nat
    BY DEF RestoreInv, Inv, TypeOK
  <2>2. \A k \in DOMAIN blocks : k < i
    BY <2>1
  <2>3. \A k \in oldLen + 1 .. Len(blocks) : k < i
    BY <2>1
  <2>4. \A p : RenewedAt(p) => Renewed(p)
    BY <2>3 DEF RenewedAt, Renewed
  <2>5. \A p \in DOMAIN recovered :
           \/ p \in DOMAIN sum /\ recovered[p] = sum[p]
           \/ StaleAt(p) /\ ~RenewedAt(p)
    BY <2>1, <2>4 DEF Installed
  <2>6. \A p \in DOMAIN sum : WholeAt(p) => p \in DOMAIN recovered
    BY <2>1, <2>2 DEF Installed, WholeAt
  <2>7. QED
    BY <2>5, <2>6
<1>5. QED
  BY <1>3, <1>4, PTL

-----------------------------------------------------------------------------
(* The weak checksum.                                                        *)

LEMMA SumConstants ==
    /\ Word \in Nat \ {0} /\ BlockLength \in Nat \ {0}
    /\ M16 \in Nat \ {0} /\ Base \in Nat
    /\ LowHalves \subseteq Int /\ 0 \in LowHalves
    /\ \A a \in Int : a % M16 \in LowHalves
BY CoveringAssumption, HashAssumption, Remainder DEF LowHalves

\* v has the numbers in the first bytes of a word.
CharsOf(v, b, j) ==
    v = [k \in 0 .. Word |-> IF k = 0 THEN 0 ELSE (v[k - 1] * Base + b[j + k]) % M16]

\* The number in a word, byte by byte.
LEMMA CharsFacts ==
    ASSUME NEW b, NEW j \in Nat, \A k \in 1 .. Word : b[j + k] \in Int
    PROVE  \E v \in [0 .. Word -> LowHalves] :
              /\ v[0] = 0
              /\ \A k \in 0 .. Word - 1 : v[k + 1] = (v[k] * Base + b[j + (k + 1)]) % M16
              /\ CharsToInt(b, j) = v[Word]
<1> DEFINE byte(k) == IF k < Word THEN b[j + (k + 1)] ELSE 0
           step == [x \in Nat \X LowHalves |-> (x[2] * Base + byte(x[1])) % M16]
<1>1. \A k \in Nat : byte(k) \in Int
  <2>1. ASSUME NEW k \in Nat, k < Word PROVE b[j + (k + 1)] \in Int
    <3>1. k + 1 \in 1 .. Word
      BY <2>1, SumConstants
    <3>2. QED
      BY <3>1
  <2>2. QED
    BY <2>1
<1> HIDE DEF byte
<1>2. step \in [Nat \X LowHalves -> LowHalves]
  <2>1. ASSUME NEW x \in Nat \X LowHalves PROVE (x[2] * Base + byte(x[1])) % M16 \in LowHalves
    <3>1. x[1] \in Nat /\ x[2] \in LowHalves
      OBVIOUS
    <3>2. x[2] \in Int /\ byte(x[1]) \in Int
      BY <1>1, <3>1, SumConstants
    <3>3. x[2] * Base + byte(x[1]) \in Int
      BY <3>2, SumConstants
    <3>4. QED
      BY <3>3, SumConstants
  <2>2. QED
    BY <2>1
<1>3. PICK f : Recursive(f, LowHalves, 0, step)
  <2> HIDE DEF step
  <2>1. QED
    BY <1>2, SumConstants, Recursion, Zenon
<1>4. f \in [Nat -> LowHalves] /\ f[0] = 0
  BY <1>3 DEF Recursive
<1>5. ASSUME NEW k \in Nat PROVE f[k + 1] = (f[k] * Base + byte(k)) % M16
  <2>1. <<k, f[k]>> \in Nat \X LowHalves
    BY <1>4
  <2>2. QED
    BY <1>3, <2>1 DEF Recursive
<1> HIDE DEF step
<1> DEFINE v == [k \in 0 .. Word |-> f[k]]
<1>6. CharsOf(v, b, j)
  <2>1. ASSUME NEW k \in 1 .. Word PROVE v[k] = (v[k - 1] * Base + b[j + k]) % M16
    <3>1. k - 1 \in Nat /\ (k - 1) + 1 = k /\ k - 1 < Word
      BY SumConstants
    <3>2. f[k] = (f[k - 1] * Base + byte(k - 1)) % M16
      BY <1>5, <3>1
    <3>3. byte(k - 1) = b[j + k]
      BY <3>1 DEF byte
    <3>4. v[k] = f[k] /\ v[k - 1] = f[k - 1]
      <4>1. k \in 0 .. Word /\ k - 1 \in 0 .. Word
        BY SumConstants
      <4>2. QED
        BY <4>1
    <3>5. QED
      BY <3>2, <3>3, <3>4
  <2>2. v[0] = 0
    BY <1>4, SumConstants
  <2>3. \A k \in 0 .. Word :
           v[k] = IF k = 0 THEN 0 ELSE (v[k - 1] * Base + b[j + k]) % M16
    <3>1. \A k \in 0 .. Word : k = 0 \/ k \in 1 .. Word
      BY SumConstants
    <3> HIDE DEF v
    <3>2. QED
      BY <2>1, <2>2, <3>1
  <2>4. QED
    BY <2>3 DEF CharsOf
<1> DEFINE u == CHOOSE u : CharsOf(u, b, j)
<1>7. CharsOf(u, b, j)
  <2> HIDE DEF v
  <2>1. QED
    BY <1>6
<1>8. CharsToInt(b, j) = u[Word]
  BY DEF CharsToInt, CharsOf
<1> HIDE DEF u, v
<1>9. u[0] = 0 /\ DOMAIN u = 0 .. Word
  BY <1>7, SumConstants DEF CharsOf
<1>10. ASSUME NEW k \in 0 .. Word - 1
       PROVE  u[k + 1] = (u[k] * Base + b[j + (k + 1)]) % M16
  <2>1. k + 1 \in 0 .. Word /\ k + 1 # 0 /\ (k + 1) - 1 = k
    BY SumConstants
  <2>2. QED
    BY <1>7, <2>1 DEF CharsOf
<1>11. ASSUME NEW k \in 0 .. Word PROVE u[k] \in LowHalves
  <2> DEFINE T == {m \in Nat : m <= Word => u[m] \in LowHalves}
  <2>1. 0 \in T
    BY <1>9, SumConstants
  <2>2. ASSUME NEW m \in Nat, m \in T PROVE m + 1 \in T
    <3>1. SUFFICES ASSUME m + 1 <= Word PROVE u[m + 1] \in LowHalves
      OBVIOUS
    <3>2. m \in 0 .. Word - 1 /\ u[m] \in LowHalves
      BY <2>2, <3>1, SumConstants
    <3>3. u[m + 1] = (u[m] * Base + byte(m)) % M16
      BY <1>10, <3>2, SumConstants DEF byte
    <3>4. u[m] * Base + byte(m) \in Int
      <4>1. u[m] \in Int /\ byte(m) \in Int
        BY <1>1, <3>2, SumConstants
      <4> HIDE DEF T
      <4>2. QED
        BY <4>1, SumConstants
    <3>5. QED
      BY <3>3, <3>4, SumConstants
  <2> HIDE DEF T
  <2>3. k \in T
    BY <2>1, <2>2, Induction
  <2>4. QED
    BY <2>3 DEF T
<1>12. u \in [0 .. Word -> LowHalves]
  <2>1. u = [k \in 0 .. Word |-> u[k]]
    BY <1>7 DEF CharsOf
  <2>2. QED
    BY <1>11, <2>1
<1>13. QED
  BY <1>8, <1>9, <1>10, <1>12

\* The number in a word is one of its bytes only, wherever the word stands.
LEMMA CharsSame ==
    ASSUME NEW b, NEW c, NEW j \in Nat, NEW l \in Nat,
           \A k \in 1 .. Word : b[j + k] \in Int /\ c[l + k] = b[j + k]
    PROVE  CharsToInt(b, j) \in LowHalves /\ CharsToInt(c, l) = CharsToInt(b, j)
<1>1. PICK v \in [0 .. Word -> LowHalves] :
         /\ v[0] = 0
         /\ \A k \in 0 .. Word - 1 : v[k + 1] = (v[k] * Base + b[j + (k + 1)]) % M16
         /\ CharsToInt(b, j) = v[Word]
  BY CharsFacts
<1>2. PICK u \in [0 .. Word -> LowHalves] :
         /\ u[0] = 0
         /\ \A k \in 0 .. Word - 1 : u[k + 1] = (u[k] * Base + c[l + (k + 1)]) % M16
         /\ CharsToInt(c, l) = u[Word]
  BY CharsFacts
<1> DEFINE T == {m \in Nat : m <= Word => u[m] = v[m]}
<1>3. 0 \in T
  BY <1>1, <1>2
<1>4. ASSUME NEW m \in Nat, m \in T PROVE m + 1 \in T
  <2>1. SUFFICES ASSUME m + 1 <= Word PROVE u[m + 1] = v[m + 1]
    OBVIOUS
  <2>2. m \in 0 .. Word - 1 /\ m + 1 \in 1 .. Word /\ u[m] = v[m]
    BY <1>4, <2>1, SumConstants
  <2>3. c[l + (m + 1)] = b[j + (m + 1)]
    BY <2>2
  <2>4. QED
    BY <1>1, <1>2, <2>2, <2>3
<1> HIDE DEF T
<1>5. Word \in T
  BY <1>3, <1>4, Induction, SumConstants
<1>6. u[Word] = v[Word] /\ v[Word] \in LowHalves
  BY <1>5, SumConstants DEF T
<1>7. QED
  BY <1>1, <1>2, <1>6

\* The words of a block lie in it.
LEMMA Words ==
    ASSUME NEW len \in Nat, len % Word = 0
    PROVE  /\ len \div Word \in Nat /\ len = Word * (len \div Word)
           /\ \A k \in 0 .. (len \div Word) - 1 :
                 Word * k \in Nat /\ Word * k + Word <= len /\ Word * (k + 1) = Word * k + Word
<1> DEFINE n == len \div Word
<1>1. n \in Nat /\ len = Word * n
  BY SumConstants, Quotient
<1> HIDE DEF n
<1>2. ASSUME NEW k \in 0 .. n - 1
      PROVE  Word * k \in Nat /\ Word * k + Word <= len /\ Word * (k + 1) = Word * k + Word
  <2>1. k \in Nat /\ k + 1 \in Nat /\ k + 1 <= n
    BY <1>1
  <2>2. Word * (k + 1) <= Word * n
    BY <1>1, <2>1, SumConstants, Multiples
  <2>3. Word * k \in Nat /\ Word * (k + 1) = Word * k + Word
    BY <2>1, SumConstants
  <2>4. QED
    BY <1>1, <2>2, <2>3, SumConstants
<1>3. QED
  BY <1>1, <1>2 DEF n

\* v has the two sums over the first words of a block of n.
SumOf(v, b, n) ==
    v = [k \in 0 .. n |->
            IF k = 0 THEN [s1 |-> 0, s2 |-> 0]
            ELSE [s1 |-> (v[k - 1].s1 + CharsToInt(b, Word * (k - 1))) % M16,
                  s2 |-> (v[k - 1].s2 + (n - (k - 1)) * CharsToInt(b, Word * (k - 1))) % M16]]

\* The sums s with word c of weight w.
Added(s, c, w) == [s1 |-> (s.s1 + c) % M16, s2 |-> (s.s2 + w * c) % M16]

LEMMA AddedFacts ==
    ASSUME NEW s \in Half, NEW c \in Int, NEW w \in Int
    PROVE  Added(s, c, w) \in Half
<1>1. s.s1 \in Int /\ s.s2 \in Int
  BY SumConstants DEF Half
<1>2. w * c \in Int
  OBVIOUS
<1>3. s.s1 + c \in Int /\ s.s2 + w * c \in Int
  BY <1>1, <1>2
<1>4. (s.s1 + c) % M16 \in LowHalves /\ (s.s2 + w * c) % M16 \in LowHalves
  BY <1>3, SumConstants
<1>5. QED
  BY <1>4 DEF Added, Half

\* The checksum of a block, word by word.
LEMMA SumFacts ==
    ASSUME NEW b \in Seq(Int), NEW n \in Nat, n = Len(b) \div Word, Len(b) % Word = 0
    PROVE  \E v \in [0 .. n -> Half] :
              /\ v[0] = [s1 |-> 0, s2 |-> 0]
              /\ \A k \in 0 .. n - 1 : v[k + 1] = Added(v[k], CharsToInt(b, Word * k), n - k)
              /\ WCsumGet(b) = v[n]
<1> DEFINE word(k) == IF k < n THEN CharsToInt(b, Word * k) ELSE 0
           zero == [s1 |-> 0, s2 |-> 0]
           step == [x \in Nat \X Half |-> Added(x[2], word(x[1]), n - x[1])]
<1>1. zero \in Half
  BY SumConstants DEF Half
<1>2. \A k \in Nat : word(k) \in Int
  <2>1. ASSUME NEW k \in Nat, k < n PROVE CharsToInt(b, Word * k) \in Int
    <3>1. k \in 0 .. n - 1 /\ Len(b) \in Nat
      BY <2>1
    <3>2. Word * k \in Nat /\ Word * k + Word <= Len(b)
      BY <3>1, Words
    <3> DEFINE j == Word * k
    <3> HIDE DEF j
    <3>3. j \in Nat /\ j + Word <= Len(b)
      BY <3>2 DEF j
    <3>4. ASSUME NEW l \in 1 .. Word PROVE b[j + l] \in Int /\ b[j + l] = b[j + l]
      <4>1. l \in Nat /\ l >= 1 /\ l <= Word /\ Word \in Nat /\ Len(b) \in Nat
        BY SumConstants
      <4>2. j + l \in 1 .. Len(b)
        BY <3>3, <4>1
      <4>3. QED
        BY <4>2
    <3>5. CharsToInt(b, j) \in LowHalves
      BY <3>3, <3>4, CharsSame
    <3>6. QED
      BY <3>5, SumConstants DEF j
  <2>2. QED
    BY <2>1
<1> HIDE DEF word, zero
<1>3. step \in [Nat \X Half -> Half]
  <2>1. ASSUME NEW x \in Nat \X Half PROVE Added(x[2], word(x[1]), n - x[1]) \in Half
    <3>1. x[1] \in Nat /\ x[2] \in Half
      OBVIOUS
    <3>2. word(x[1]) \in Int /\ n - x[1] \in Int
      BY <1>2, <3>1
    <3>3. QED
      BY <3>1, <3>2, AddedFacts
  <2>2. QED
    BY <2>1
<1>4. PICK f : Recursive(f, Half, zero, step)
  <2> HIDE DEF step
  <2>1. QED
    BY <1>1, <1>3, Recursion, Zenon
<1>5. f \in [Nat -> Half] /\ f[0] = zero
  BY <1>4 DEF Recursive
<1>6. ASSUME NEW k \in Nat PROVE f[k + 1] = Added(f[k], word(k), n - k)
  <2>1. <<k, f[k]>> \in Nat \X Half
    BY <1>5
  <2>2. QED
    BY <1>4, <2>1 DEF Recursive
<1> HIDE DEF step
<1> DEFINE v == [k \in 0 .. n |-> f[k]]
<1>7. SumOf(v, b, n)
  <2>1. ASSUME NEW k \in 1 .. n
        PROVE  v[k] = Added(v[k - 1], CharsToInt(b, Word * (k - 1)), n - (k - 1))
    <3>1. /\ k - 1 \in Nat /\ (k - 1) + 1 = k /\ k - 1 < n
          /\ k \in 0 .. n /\ k - 1 \in 0 .. n
      OBVIOUS
    <3>2. f[k] = Added(f[k - 1], word(k - 1), n - (k - 1))
      BY <1>6, <3>1
    <3>3. word(k - 1) = CharsToInt(b, Word * (k - 1))
      BY <3>1 DEF word
    <3>4. v[k] = f[k] /\ v[k - 1] = f[k - 1]
      BY <3>1
    <3>5. QED
      BY <3>2, <3>3, <3>4
  <2>2. v[0] = zero
    BY <1>5
  <2>3. \A k \in 0 .. n :
           v[k] = IF k = 0 THEN zero
                  ELSE Added(v[k - 1], CharsToInt(b, Word * (k - 1)), n - (k - 1))
    <3>1. \A k \in 0 .. n : k = 0 \/ k \in 1 .. n
      OBVIOUS
    <3> HIDE DEF v
    <3>2. QED
      BY <2>1, <2>2, <3>1
  <2>4. QED
    BY <2>3 DEF SumOf, Added, zero
<1> DEFINE u == CHOOSE u : SumOf(u, b, Len(b) \div Word)
<1>8. SumOf(u, b, n)
  <2> HIDE DEF v
  <2>1. QED
    BY <1>7
<1>9. WCsumGet(b) = u[n]
  <2>1. WCsumGet(b) = u[Len(b) \div Word]
    BY Zenon DEF WCsumGet, SumOf
  <2>2. QED
    BY <2>1
<1> HIDE DEF u, v
<1>10. u[0] = zero /\ DOMAIN u = 0 .. n
  BY <1>8 DEF SumOf, zero
<1>11. ASSUME NEW k \in 0 .. n - 1
       PROVE  u[k + 1] = Added(u[k], CharsToInt(b, Word * k), n - k)
  <2>1. k + 1 \in 0 .. n /\ k + 1 # 0 /\ (k + 1) - 1 = k
    OBVIOUS
  <2>2. QED
    BY <1>8, <2>1 DEF SumOf, Added
<1>12. ASSUME NEW k \in 0 .. n PROVE u[k] \in Half
  <2> DEFINE T == {m \in Nat : m <= n => u[m] \in Half}
  <2>1. 0 \in T
    BY <1>1, <1>10
  <2>2. ASSUME NEW m \in Nat, m \in T PROVE m + 1 \in T
    <3>1. SUFFICES ASSUME m + 1 <= n PROVE u[m + 1] \in Half
      OBVIOUS
    <3>2. m \in 0 .. n - 1 /\ u[m] \in Half /\ n - m \in Int
      BY <2>2, <3>1
    <3>3. u[m + 1] = Added(u[m], word(m), n - m)
      BY <1>11, <3>2 DEF word
    <3>4. word(m) \in Int
      BY <1>2
    <3> HIDE DEF T
    <3>5. QED
      BY <3>2, <3>3, <3>4, AddedFacts
  <2> HIDE DEF T
  <2>3. \A m \in Nat : m \in T
    BY <2>1, <2>2, Induction, Zenon
  <2>4. k \in T
    BY <2>3
  <2>5. QED
    BY <2>4 DEF T
<1>13. u \in [0 .. n -> Half]
  <2>1. u = [k \in 0 .. n |-> u[k]]
    BY <1>8 DEF SumOf
  <2>2. QED
    BY <1>12, <2>1
<1>14. QED
  BY <1>9, <1>10, <1>11, <1>13 DEF zero

\* s and t are the sums of two blocks, of which the second has lost word `out' of the
\* first, whose weight was w.
Shifted(s, t, out, w) ==
    /\ Congruent(t.s1, s.s1 - out, M16)
    /\ Congruent(t.s2, s.s2 - w * out + s.s1 - out, M16)

\* ... and both go on by one word, with the weight it has in each.
LEMMA ShiftedOn ==
    ASSUME NEW s \in Half, NEW t \in Half, NEW out \in Int, NEW w \in Int,
           NEW c \in Int, NEW m \in Int, Shifted(s, t, out, w)
    PROVE  Shifted(Added(s, c, m), Added(t, c, m + 1), out, w)
<1> DEFINE x == Added(s, c, m)
           y == Added(t, c, m + 1)
<1>1. s.s1 \in Int /\ s.s2 \in Int /\ t.s1 \in Int /\ t.s2 \in Int
  BY SumConstants DEF Half
<1>2. m * c \in Int /\ (m + 1) * c = m * c + c /\ w * out \in Int
  OBVIOUS
<1>3. /\ x.s1 = (s.s1 + c) % M16 /\ x.s2 = (s.s2 + m * c) % M16
      /\ y.s1 = (t.s1 + c) % M16 /\ y.s2 = (t.s2 + (m + 1) * c) % M16
  BY DEF Added
<1>4. x.s1 \in Int /\ x.s2 \in Int /\ y.s1 \in Int /\ y.s2 \in Int
  <2>1. s.s1 + c \in Int /\ s.s2 + m * c \in Int /\ t.s1 + c \in Int /\ t.s2 + (m + 1) * c \in Int
    BY <1>1, <1>2
  <2>2. \A a \in Int : a % M16 \in Int
    BY SumConstants
  <2>3. QED
    BY <1>3, <2>1, <2>2
<1> HIDE DEF x, y
<1> DEFINE mc == m * c
           wo == w * out
<1>5. mc \in Int /\ wo \in Int
  BY <1>2
<1> HIDE DEF mc, wo
<1>6. /\ Congruent(x.s1, s.s1 + c, M16) /\ Congruent(x.s2, s.s2 + mc, M16)
      /\ Congruent(t.s1 + c, y.s1, M16) /\ Congruent(y.s1, t.s1 + c, M16)
      /\ Congruent(y.s2, t.s2 + (mc + c), M16)
  <2>1. s.s1 + c \in Int /\ s.s2 + mc \in Int /\ t.s1 + c \in Int /\ t.s2 + (mc + c) \in Int
    BY <1>1, <1>5
  <2>2. y.s2 = (t.s2 + (mc + c)) % M16 /\ x.s2 = (s.s2 + mc) % M16
    BY <1>2, <1>3 DEF mc
  <2>3. QED
    BY <1>3, <2>1, <2>2, CongruentSelf, SumConstants
<1>7. Congruent(y.s1, x.s1 - out, M16)
  <2>1. Congruent(t.s1 + c, (s.s1 - out) + c, M16)
    <3>1. Congruent(t.s1, s.s1 - out, M16) /\ Congruent(c, c, M16)
      BY SumConstants, CongruentSelf DEF Shifted
    <3>2. s.s1 - out \in Int
      BY <1>1
    <3>3. QED
      BY <1>1, <3>1, <3>2, CongruentSum, SumConstants
  <2>2. Congruent(s.s1 + c, x.s1, M16)
    <3>1. s.s1 + c \in Int
      BY <1>1
    <3>2. Congruent(s.s1 + c, (s.s1 + c) % M16, M16)
      BY <3>1, CongruentSelf, SumConstants
    <3>3. QED
      BY <1>3, <3>2
  <2>3. Congruent((s.s1 + c) - out, x.s1 - out, M16)
    <3>1. Congruent(out, out, M16) /\ s.s1 + c \in Int
      BY <1>1, SumConstants, CongruentSelf
    <3>2. QED
      BY <1>1, <1>4, <2>2, <3>1, CongruentSum, SumConstants
  <2>4. (s.s1 + c) - out = (s.s1 - out) + c
    BY <1>1
  <2>5. (s.s1 - out) + c \in Int /\ t.s1 + c \in Int /\ x.s1 - out \in Int
    BY <1>1, <1>4
  <2>6. Congruent(t.s1 + c, x.s1 - out, M16)
    BY <2>1, <2>3, <2>4, <2>5, CongruentTrans, SumConstants
  <2>7. QED
    BY <1>4, <1>6, <2>5, <2>6, CongruentTrans, SumConstants
<1>8. Congruent(y.s2, x.s2 - wo + x.s1 - out, M16)
  <2> DEFINE e == s.s2 - wo + s.s1 - out
             g == (s.s2 + mc) + (s.s1 + c)
             h == x.s2 + x.s1
             d == wo + out
  <2>1. e \in Int /\ g \in Int /\ h \in Int /\ d \in Int /\ mc + c \in Int /\ e + (mc + c) \in Int
    BY <1>1, <1>4, <1>5
  <2>2. e + (mc + c) = g - d /\ h - d = x.s2 - wo + x.s1 - out
    BY <1>1, <1>4, <1>5
  <2>3. Congruent(g, h, M16)
    <3>1. Congruent(s.s2 + mc, x.s2, M16) /\ Congruent(s.s1 + c, x.s1, M16)
      <4>1. s.s2 + mc \in Int /\ s.s1 + c \in Int
        BY <1>1, <1>5
      <4>2. x.s2 = (s.s2 + mc) % M16
        BY <1>3 DEF mc
      <4>3. QED
        BY <1>3, <4>1, <4>2, CongruentSelf, SumConstants
    <3>2. s.s2 + mc \in Int /\ s.s1 + c \in Int
      BY <1>1, <1>5
    <3>3. QED
      BY <1>4, <3>1, <3>2, CongruentSum, SumConstants
  <2>4. Congruent(t.s2, e, M16)
    BY DEF Shifted, wo
  <2> HIDE DEF e, g, h, d
  <2>5. Congruent(t.s2 + (mc + c), e + (mc + c), M16)
    <3>1. Congruent(mc + c, mc + c, M16)
      BY <2>1, SumConstants, CongruentSelf
    <3>2. QED
      BY <1>1, <2>1, <2>4, <3>1, CongruentSum, SumConstants
  <2>6. Congruent(g - d, h - d, M16)
    <3>1. Congruent(d, d, M16)
      BY <2>1, SumConstants, CongruentSelf
    <3>2. QED
      BY <2>1, <2>3, <3>1, CongruentSum, SumConstants
  <2>7. t.s2 + (mc + c) \in Int /\ g - d \in Int /\ h - d \in Int
    BY <1>1, <2>1
  <2>8. Congruent(t.s2 + (mc + c), h - d, M16)
    BY <2>2, <2>5, <2>6, <2>7, CongruentTrans, SumConstants
  <2>9. Congruent(y.s2, h - d, M16)
    BY <1>4, <1>6, <2>7, <2>8, CongruentTrans, SumConstants
  <2>10. QED
    BY <2>2, <2>9
<1>9. QED
  BY <1>7, <1>8 DEF Shifted, x, y, wo

\* At the first words, one of which b has lost in c.
LEMMA ShiftedFirst ==
    ASSUME NEW s \in Half, NEW t \in Half, NEW out \in Int, NEW w \in Int,
           s = Added([s1 |-> 0, s2 |-> 0], out, w), t = [s1 |-> 0, s2 |-> 0]
    PROVE  Shifted(s, t, out, w)
<1> DEFINE wo == w * out
<1>1. wo \in Int
  OBVIOUS
<1>2. s.s1 = (0 + out) % M16 /\ s.s2 = (0 + wo) % M16 /\ t.s1 = 0 /\ t.s2 = 0
  BY DEF Added
<1>3. s.s1 \in Int /\ s.s2 \in Int
  BY SumConstants DEF Half
<1> HIDE DEF wo
<1>4. Congruent(out, s.s1, M16) /\ Congruent(wo, s.s2, M16)
  <2>1. s.s1 = out % M16 /\ s.s2 = wo % M16
    BY <1>1, <1>2
  <2>2. QED
    BY <1>1, <2>1, CongruentSelf, SumConstants
<1>5. Congruent(out - out, s.s1 - out, M16) /\ Congruent(wo - wo, s.s2 - wo, M16)
  <2>1. Congruent(out, out, M16) /\ Congruent(wo, wo, M16)
    BY <1>1, CongruentSelf, SumConstants
  <2>2. QED
    BY <1>1, <1>3, <1>4, <2>1, CongruentSum, SumConstants
<1>6. Congruent((wo - wo) + (out - out), (s.s2 - wo) + (s.s1 - out), M16)
  <2>1. wo - wo \in Int /\ out - out \in Int /\ s.s2 - wo \in Int /\ s.s1 - out \in Int
    BY <1>1, <1>3
  <2>2. QED
    BY <1>5, <2>1, CongruentSum, SumConstants
<1>7. /\ out - out = 0 /\ (wo - wo) + (out - out) = 0
      /\ (s.s2 - wo) + (s.s1 - out) = s.s2 - wo + s.s1 - out
  BY <1>1, <1>3
<1>8. QED
  BY <1>2, <1>5, <1>6, <1>7 DEF Shifted, wo

\* The sums s of n words without the first, `out', and with a last one, c.
Moved(s, out, n, c) == [s1 |-> (s.s1 - out + c) % M16,
                        s2 |-> (s.s2 - n * out + ((s.s1 - out + c) % M16)) % M16]

\* At the last word, which has weight one: the sums of the second block are those of
\* the first, without the word that went and with the one that came.
LEMMA ShiftedLast ==
    ASSUME NEW s \in Half, NEW t \in Half, NEW out \in Int, NEW w \in Int, NEW c \in Int,
           Shifted(s, t, out, w)
    PROVE  Added(t, c, 1) = Moved(s, out, w, c)
<1> DEFINE wo == w * out
           x == s.s1 - out + c
           y == s.s2 - wo
<1>1. s.s1 \in Int /\ s.s2 \in Int /\ t.s1 \in Int /\ t.s2 \in Int /\ wo \in Int
  <2>1. wo \in Int
    OBVIOUS
  <2> HIDE DEF wo
  <2>2. s.s1 \in Int /\ s.s2 \in Int /\ t.s1 \in Int /\ t.s2 \in Int
    BY SumConstants DEF Half
  <2>3. QED
    BY <2>1, <2>2
<1> HIDE DEF wo
<1>2. x \in Int /\ y \in Int /\ x % M16 \in Int
  BY <1>1, SumConstants
<1>3. Congruent(c, c, M16) /\ Congruent(y, y, M16) /\ Congruent(x, x % M16, M16)
  <2> HIDE DEF x, y
  <2>1. QED
    BY <1>2, CongruentSelf, SumConstants
<1>4. Congruent(t.s1 + c, x, M16)
  <2>1. s.s1 - out \in Int /\ Congruent(t.s1, s.s1 - out, M16)
    BY <1>1 DEF Shifted
  <2>2. Congruent(t.s1 + c, (s.s1 - out) + c, M16)
    BY <1>1, <1>3, <2>1, CongruentSum, SumConstants
  <2>3. QED
    BY <2>2
<1>5. Congruent(t.s2 + c, y + x, M16)
  <2> DEFINE z == s.s2 - wo + s.s1 - out
  <2>1. z \in Int /\ z + c = y + x
    BY <1>1
  <2>2. Congruent(t.s2, z, M16)
    BY DEF Shifted, wo
  <2> HIDE DEF z
  <2>3. Congruent(t.s2 + c, z + c, M16)
    BY <1>1, <1>3, <2>1, <2>2, CongruentSum, SumConstants
  <2>4. QED
    BY <2>1, <2>3
<1>6. Congruent(y + x, y + (x % M16), M16)
  <2> HIDE DEF x, y
  <2>1. QED
    BY <1>2, <1>3, CongruentSum, SumConstants
<1> HIDE DEF x, y
<1>7. t.s1 + c \in Int /\ t.s2 + c \in Int /\ y + x \in Int /\ y + (x % M16) \in Int
  BY <1>1, <1>2
<1>8. Congruent(t.s2 + c, y + (x % M16), M16)
  BY <1>5, <1>6, <1>7, CongruentTrans, SumConstants
<1>9. (t.s1 + c) % M16 = x % M16 /\ (t.s2 + c) % M16 = (y + (x % M16)) % M16
  BY <1>2, <1>4, <1>7, <1>8, CongruentRemainders, SumConstants
<1>10. 1 * c = c
  OBVIOUS
<1>11. Added(t, c, 1) = [s1 |-> x % M16, s2 |-> (y + (x % M16)) % M16]
  BY <1>9, <1>10 DEF Added
<1>12. QED
  BY <1>11 DEF Moved, x, y, wo

\* Block c has lost the first word of b.
Behind(c, b) == \A p \in 1 .. BlockLength - Word : c[p] = b[p + Word]

\* The checksum of a block that moves on by a word.
LEMMA SumMovesOn ==
    ASSUME NEW b \in Seq(Int), NEW c \in Seq(Int), Len(b) = BlockLength, Len(c) = BlockLength,
           Behind(c, b), NEW out, out = CharsToInt(b, 0),
           NEW in, in = CharsToInt(c, BlockLength - Word),
           NEW n, n = BlockLength \div Word, NEW s, s = WCsumGet(b)
    PROVE  WCsumGet(c) = Moved(s, out, n, in)
<1>1. BlockLength \in Nat /\ BlockLength % Word = 0
  BY SumConstants, HashAssumption
<1>2. /\ n \in Nat /\ BlockLength = Word * n
      /\ \A k \in 0 .. n - 1 :
            Word * k \in Nat /\ Word * k + Word <= BlockLength /\ Word * (k + 1) = Word * k + Word
  BY <1>1, Words
<1>3. n >= 1
  <2>1. SUFFICES ASSUME n = 0 PROVE FALSE
    BY <1>2
  <2>2. Word * n = 0
    BY <2>1, SumConstants
  <2>3. QED
    BY <1>2, <2>2, SumConstants
<1>4. PICK v \in [0 .. n -> Half] :
         /\ v[0] = [s1 |-> 0, s2 |-> 0]
         /\ \A k \in 0 .. n - 1 : v[k + 1] = Added(v[k], CharsToInt(b, Word * k), n - k)
         /\ WCsumGet(b) = v[n]
  BY <1>1, <1>2, SumFacts
<1>5. PICK u \in [0 .. n -> Half] :
         /\ u[0] = [s1 |-> 0, s2 |-> 0]
         /\ \A k \in 0 .. n - 1 : u[k + 1] = Added(u[k], CharsToInt(c, Word * k), n - k)
         /\ WCsumGet(c) = u[n]
  BY <1>1, <1>2, SumFacts
<1>6. ASSUME NEW k \in 0 .. n - 1
      PROVE  CharsToInt(b, Word * k) \in Int /\ CharsToInt(c, Word * k) \in Int
  <2> DEFINE j == Word * k
  <2>1. j \in Nat /\ j + Word <= BlockLength
    BY <1>2
  <2> HIDE DEF j
  <2>2. ASSUME NEW l \in 1 .. Word PROVE b[j + l] \in Int /\ c[j + l] \in Int
    <3>1. j + l \in 1 .. BlockLength
      BY <2>1, SumConstants
    <3>2. QED
      BY <3>1
  <2>3. CharsToInt(b, j) \in LowHalves /\ CharsToInt(c, j) \in LowHalves
    BY <2>1, <2>2, CharsSame
  <2>4. QED
    BY <2>3, SumConstants DEF j
<1>7. ASSUME NEW k \in 0 .. n - 2
      PROVE  CharsToInt(c, Word * k) = CharsToInt(b, Word * (k + 1))
  <2> DEFINE j == Word * k
  <2>0. k \in 0 .. n - 1 /\ k + 1 \in 0 .. n - 1
    BY <1>2
  <2>1. j \in Nat /\ Word * (k + 1) = j + Word
    BY <1>2, <2>0
  <2>2. Word * (k + 1) + Word <= BlockLength
    BY <1>2, <2>0
  <2> HIDE DEF j
  <2>3. ASSUME NEW l \in 1 .. Word
        PROVE  b[(j + Word) + l] \in Int /\ c[j + l] = b[(j + Word) + l]
    <3>1. /\ j + l \in 1 .. BlockLength - Word /\ (j + Word) + l = (j + l) + Word
          /\ (j + Word) + l \in 1 .. BlockLength
      <4>1. l \in Nat /\ l >= 1 /\ l <= Word /\ Word \in Nat
        BY SumConstants
      <4>2. (j + Word) + Word <= BlockLength
        BY <2>1, <2>2
      <4>3. QED
        BY <1>1, <2>1, <4>1, <4>2
    <3>2. c[j + l] = b[(j + l) + Word]
      BY <3>1 DEF Behind
    <3>3. b[(j + Word) + l] \in Int
      BY <3>1
    <3>4. QED
      BY <3>1, <3>2, <3>3
  <2>4. j + Word \in Nat
    BY <2>1, SumConstants
  <2>5. CharsToInt(c, j) = CharsToInt(b, j + Word)
    BY <2>1, <2>3, <2>4, CharsSame
  <2>6. QED
    BY <2>1, <2>5 DEF j
<1>8. out \in Int /\ in \in Int /\ out = CharsToInt(b, Word * 0) /\ in = CharsToInt(c, Word * (n - 1))
  <2>1. Word * 0 = 0 /\ 0 \in 0 .. n - 1 /\ n - 1 \in 0 .. n - 1
    BY <1>2, <1>3, SumConstants
  <2>2. Word * ((n - 1) + 1) = Word * (n - 1) + Word /\ (n - 1) + 1 = n /\ Word * (n - 1) \in Nat
    BY <1>2, <2>1
  <2>3. Word * (n - 1) = BlockLength - Word
    BY <1>2, <2>2, SumConstants
  <2>4. out = CharsToInt(b, Word * 0) /\ in = CharsToInt(c, Word * (n - 1))
    BY <2>1, <2>3
  <2>5. QED
    BY <1>6, <2>1, <2>4
<1> DEFINE T == {k \in Nat : k <= n - 1 => Shifted(v[k + 1], u[k], out, n)}
<1>9. 0 \in T
  <2>1. v[0 + 1] = Added(v[0], out, n) /\ v[0 + 1] \in Half /\ u[0] \in Half
    <3>1. 0 \in 0 .. n - 1 /\ 0 + 1 \in 0 .. n /\ 0 \in 0 .. n /\ n - 0 = n
      BY <1>2, <1>3
    <3>2. QED
      BY <1>4, <1>8, <3>1
  <2> DEFINE x == v[0 + 1]
             y == u[0]
  <2>2. Shifted(x, y, out, n)
    <3>1. x \in Half /\ y \in Half /\ out \in Int /\ n \in Int
      BY <1>2, <1>8, <2>1
    <3>2. x = Added([s1 |-> 0, s2 |-> 0], out, n) /\ y = [s1 |-> 0, s2 |-> 0]
      BY <1>4, <1>5, <2>1
    <3> HIDE DEF x, y
    <3>3. QED
      BY <3>1, <3>2, ShiftedFirst
  <2>3. QED
    BY <2>2
<1>10. ASSUME NEW k \in Nat, k \in T PROVE k + 1 \in T
  <2>1. SUFFICES ASSUME k + 1 <= n - 1 PROVE Shifted(v[(k + 1) + 1], u[k + 1], out, n)
    OBVIOUS
  <2>2. /\ k \in 0 .. n - 1 /\ k + 1 \in 0 .. n - 1 /\ k \in 0 .. n - 2
        /\ k \in 0 .. n /\ k + 1 \in 0 .. n
        /\ n - k = (n - (k + 1)) + 1 /\ n - (k + 1) \in Int
    BY <1>2, <2>1
  <2>3. Shifted(v[k + 1], u[k], out, n)
    BY <1>2, <1>10, <2>1
  <2>4. v[k + 1] \in Half /\ u[k] \in Half
    BY <2>2
  <2> DEFINE d == CharsToInt(c, Word * k)
             m == n - (k + 1)
  <2>5. d \in Int /\ d = CharsToInt(b, Word * (k + 1))
    BY <1>6, <1>7, <2>2
  <2>6. u[k + 1] = Added(u[k], d, m + 1)
    BY <1>5, <2>2
  <2>7. v[(k + 1) + 1] = Added(v[k + 1], d, m)
    BY <1>4, <2>2, <2>5
  <2> HIDE DEF d, m
  <2>8. m \in Int
    BY <2>2 DEF m
  <2>9. Shifted(Added(v[k + 1], d, m), Added(u[k], d, m + 1), out, n)
    BY <1>2, <1>8, <2>3, <2>4, <2>5, <2>8, ShiftedOn
  <2>10. QED
    BY <2>6, <2>7, <2>9
<1> HIDE DEF T
<1>11. \A k \in Nat : k \in T
  BY <1>9, <1>10, Induction, Zenon
<1>12. Shifted(v[n], u[n - 1], out, n)
  <2>1. n - 1 \in Nat /\ n - 1 <= n - 1 /\ (n - 1) + 1 = n
    BY <1>2, <1>3
  <2>2. n - 1 \in T
    BY <1>11, <2>1
  <2>3. QED
    BY <2>1, <2>2 DEF T
<1>13. u[n] = Added(u[n - 1], in, 1)
  <2>1. n - 1 \in 0 .. n - 1 /\ (n - 1) + 1 = n /\ n - (n - 1) = 1
    BY <1>2, <1>3
  <2>2. QED
    BY <1>5, <1>8, <2>1
<1>14. v[n] \in Half /\ u[n - 1] \in Half /\ s = v[n]
  <2>1. n \in 0 .. n /\ n - 1 \in 0 .. n
    BY <1>2, <1>3
  <2>2. QED
    BY <1>4, <1>5, <2>1
<1>15. Added(u[n - 1], in, 1) = Moved(s, out, n, in)
  <2> DEFINE x == v[n]
             y == u[n - 1]
  <2>1. x \in Half /\ y \in Half /\ out \in Int /\ in \in Int /\ n \in Int /\ s = x
    BY <1>2, <1>8, <1>14
  <2>2. Shifted(x, y, out, n)
    BY <1>12
  <2> HIDE DEF x, y
  <2>3. Added(y, in, 1) = Moved(x, out, n, in)
    BY <2>1, <2>2, ShiftedLast
  <2>4. QED
    BY <2>1, <2>3 DEF y
<1>16. QED
  BY <1>5, <1>13, <1>15

-----------------------------------------------------------------------------
(* The scan of the file.                                                     *)

\* The local variables of a pass.
Local == [at : Nat, last : Seq(Int), buf : Seq(Int), num : 0 .. BlockLength,
          i : 0 .. BlockLength, csum : Half, offset : Nat]

\* In the middle of a pass.
LocalOK(s) == /\ s.i % Word = 0 /\ Len(s.buf) = BlockLength
              /\ Len(s.last) = BlockLength \/ s.i = BlockLength

\* The bytes in the window of s.
WindowOf(s) == [k \in 1 .. BlockLength |-> IF k + s.i <= BlockLength THEN s.last[k + s.i]
                                           ELSE s.buf[k + s.i - BlockLength]]

\* What fread returns and reads.
LEMMA ReadFacts ==
    ASSUME file \in Seq(Byte), NEW at \in Nat
    PROVE  /\ NumRead(at) \in 0 .. BlockLength
           /\ BufferUpdate(at) \in Seq(Int) /\ Len(BufferUpdate(at)) = BlockLength
           /\ BufferUpdate(at) = [k \in 1 .. BlockLength |-> BufferUpdate(at)[k]]
           /\ \A k \in 1 .. BlockLength :
                 at + k <= Len(file) => BufferUpdate(at)[k] = file[at + k]
<1>1. BlockLength \in Nat /\ Len(file) \in Nat
  BY SumConstants
<1>2. NumRead(at) \in 0 .. BlockLength
  BY <1>1 DEF NumRead
<1>3. ASSUME NEW k \in 1 .. BlockLength
      PROVE  (IF at + k <= Len(file) THEN file[at + k] ELSE 0) \in Int
  <2>1. CASE at + k <= Len(file)
    <3>1. at + k \in 1 .. Len(file)
      BY <1>1, <2>1
    <3>2. file[at + k] \in Byte
      BY <3>1
    <3>3. QED
      BY <2>1, <3>2, HashAssumption
  <2>2. QED
    BY <2>1
<1>4. QED
  BY <1>1, <1>2, <1>3 DEF BufferUpdate

\* A buffer that is not used up holds another word, and one that is was used up to its
\* end, if it is full.
LEMMA WordsLeft ==
    ASSUME NEW j \in 0 .. BlockLength, j % Word = 0
    PROVE  /\ j < BlockLength => j + Word <= BlockLength
           /\ (j + Word) % Word = 0
           /\ Word <= BlockLength
<1>1. BlockLength \in Nat \ {0} /\ Word \in Nat \ {0} /\ BlockLength % Word = 0 /\ j \in Int
  BY SumConstants, HashAssumption
<1>2. ASSUME j < BlockLength PROVE j + Word <= BlockLength
  <2>1. j % Word = BlockLength % Word /\ BlockLength \in Int
    BY <1>1
  <2>2. QED
    BY <1>1, <1>2, <2>1, NextOfClass
<1>3. 0 % Word = BlockLength % Word /\ 0 < BlockLength /\ BlockLength \in Int
  BY <1>1
<1>4. 0 + Word <= BlockLength
  BY <1>1, <1>3, NextOfClass
<1>5. Congruent(j + Word, j, Word)
  <2>1. j + Word = j + Word * 1 /\ 1 \in Int
    BY <1>1
  <2>2. QED
    BY <2>1 DEF Congruent
<1>6. (j + Word) % Word = 0
  <2>1. j + Word \in Int
    BY <1>1
  <2>2. (j + Word) % Word = j % Word
    BY <1>1, <1>5, <2>1, CongruentRemainders
  <2>3. QED
    BY <2>2
<1>7. QED
  BY <1>1, <1>2, <1>4, <1>6

\* The window holds bytes.
LEMMA WindowFacts ==
    ASSUME NEW s \in Local, LocalOK(s)
    PROVE  /\ WindowOf(s) \in Seq(Int) /\ Len(WindowOf(s)) = BlockLength
           /\ \A k \in 1 .. BlockLength :
                 WindowOf(s)[k] = IF k + s.i <= BlockLength THEN s.last[k + s.i]
                                  ELSE s.buf[k + s.i - BlockLength]
<1>1. /\ s.last \in Seq(Int) /\ s.buf \in Seq(Int) /\ s.i \in 0 .. BlockLength
      /\ BlockLength \in Nat
  BY SumConstants DEF Local
<1>2. ASSUME NEW k \in 1 .. BlockLength
      PROVE  (IF k + s.i <= BlockLength THEN s.last[k + s.i]
              ELSE s.buf[k + s.i - BlockLength]) \in Int
  <2>1. CASE k + s.i <= BlockLength
    <3>1. Len(s.last) = BlockLength /\ k + s.i \in 1 .. BlockLength
      BY <1>1, <2>1 DEF LocalOK
    <3>2. s.last[k + s.i] \in Int
      BY <1>1, <3>1
    <3>3. QED
      BY <2>1, <3>2
  <2>2. CASE ~(k + s.i <= BlockLength)
    <3>1. Len(s.buf) = BlockLength /\ k + s.i - BlockLength \in 1 .. BlockLength
      BY <1>1, <2>2 DEF LocalOK
    <3>2. s.buf[k + s.i - BlockLength] \in Int
      BY <1>1, <3>1
    <3>3. QED
      BY <2>2, <3>2
  <2>3. QED
    BY <2>1, <2>2
<1>3. QED
  BY <1>1, <1>2 DEF WindowOf

\* The word behind b[j] and the one behind c[l] are the same bytes.
SameWord(b, j, c, l) == \A k \in 1 .. Word : b[j + k] \in Int /\ c[l + k] = b[j + k]

LEMMA SameWordFacts ==
    ASSUME NEW b, NEW c, NEW j \in Nat, NEW l \in Nat, SameWord(b, j, c, l)
    PROVE  CharsToInt(b, j) \in LowHalves /\ CharsToInt(c, l) = CharsToInt(b, j)
BY CharsSame DEF SameWord

\* Where the loop rolls on.
Full(s) == Len(s.last) = BlockLength /\ s.i + Word <= BlockLength

\* The checksum of the window rolls along with it.
LEMMA RolledFacts ==
    ASSUME NEW s \in Local, LocalOK(s), Full(s), NEW r, r = Rolled(s)
    PROVE  /\ r \in Local /\ LocalOK(r) /\ r.i = s.i + Word /\ r.offset = s.offset + Word
           /\ r.at = s.at /\ r.last = s.last /\ r.buf = s.buf /\ r.num = s.num
           /\ s.csum = WCsumGet(WindowOf(s)) => r.csum = WCsumGet(WindowOf(r))
<1> DEFINE b == WindowOf(s)
           c == WindowOf(r)
           n == BlockLength \div Word
           out == CharsToInt(s.last, s.i)
           in == CharsToInt(s.buf, s.i)
<1>1. /\ s.at \in Nat /\ s.last \in Seq(Int) /\ s.buf \in Seq(Int) /\ s.num \in 0 .. BlockLength
      /\ s.i \in 0 .. BlockLength /\ s.i \in Nat /\ s.csum \in Half /\ s.offset \in Nat
      /\ BlockLength \in Nat /\ Word \in Nat \ {0} /\ s.i + Word <= BlockLength
      /\ Len(s.last) = BlockLength /\ Len(s.buf) = BlockLength /\ s.i % Word = 0
  BY SumConstants DEF Local, LocalOK, Full
<1>2. /\ r.i = s.i + Word /\ r.offset = s.offset + Word
      /\ r.at = s.at /\ r.last = s.last /\ r.buf = s.buf /\ r.num = s.num
      /\ r.csum = WCsumUpdate(s.last, s.buf, s.i, s.csum)
      /\ r = [at |-> s.at, last |-> s.last, buf |-> s.buf, num |-> s.num, i |-> s.i + Word,
              csum |-> WCsumUpdate(s.last, s.buf, s.i, s.csum), offset |-> s.offset + Word]
  BY DEF Rolled, Local
<1>3. ASSUME NEW k \in 1 .. Word
      PROVE  /\ s.last[s.i + k] \in Int /\ s.buf[s.i + k] \in Int
             /\ s.i + k \in 1 .. BlockLength
  <2>0. k \in Nat /\ k >= 1 /\ k <= Word
    BY <1>1
  <2>1. s.i + k \in 1 .. BlockLength
    BY <1>1, <2>0
  <2>2. s.last \in Seq(Int) /\ s.buf \in Seq(Int) /\ s.i + k \in DOMAIN s.last /\ s.i + k \in DOMAIN s.buf
    BY <1>1, <2>1
  <2>3. s.last[s.i + k] \in Int /\ s.buf[s.i + k] \in Int
    BY <2>2
  <2>4. QED
    BY <2>1, <2>3
<1>4. out \in LowHalves /\ in \in LowHalves
  BY <1>1, <1>3, CharsSame
<1>5. WCsumUpdate(s.last, s.buf, s.i, s.csum) = Moved(s.csum, out, n, in)
  BY <1>1 DEF WCsumUpdate, Moved
<1>6. Moved(s.csum, out, n, in) \in Half
  <2> HIDE DEF out, in, n
  <2>1. out \in Int /\ in \in Int /\ s.csum.s1 \in Int /\ s.csum.s2 \in Int
    BY <1>1, <1>4, SumConstants DEF Half
  <2>2. n \in Int
    BY <1>1, Quotient DEF n
  <2>3. s.csum.s1 - out + in \in Int /\ n * out \in Int
    BY <2>1, <2>2
  <2>4. (s.csum.s1 - out + in) % M16 \in LowHalves /\ (s.csum.s1 - out + in) % M16 \in Int
    BY <2>3, SumConstants
  <2>5. s.csum.s2 - n * out + ((s.csum.s1 - out + in) % M16) \in Int
    BY <2>1, <2>3, <2>4
  <2>6. (s.csum.s2 - n * out + ((s.csum.s1 - out + in) % M16)) % M16 \in LowHalves
    BY <2>5, SumConstants
  <2>7. QED
    BY <2>4, <2>6 DEF Moved, Half
<1> HIDE DEF out, in, n
<1>7. r \in Local /\ LocalOK(r)
  <2>1. s.i + Word \in 0 .. BlockLength /\ (s.i + Word) % Word = 0 /\ s.offset + Word \in Nat
    <3>0. PICK j \in Nat : j = s.i
      BY <1>1
    <3>1. j \in 0 .. BlockLength /\ j % Word = 0 /\ j + Word <= BlockLength
      BY <1>1, <3>0
    <3>2. (j + Word) % Word = 0
      BY <3>1, WordsLeft
    <3>3. j + Word \in 0 .. BlockLength
      BY <1>1, <3>1
    <3>4. s.i + Word \in 0 .. BlockLength
      <4>1. s.i + Word = j + Word
        BY <3>0, Zenon
      <4>2. QED
        BY <3>3, <4>1, Zenon
    <3>5. (s.i + Word) % Word = 0
      <4>1. s.i + Word = j + Word
        BY <3>0, Zenon
      <4>2. QED
        BY <3>2, <4>1, Zenon
    <3>6. s.offset + Word \in Nat
      BY <1>1
    <3>7. QED
      BY <3>4, <3>5, <3>6, Zenon
  <2>2. r \in Local
    BY <1>1, <1>2, <1>5, <1>6, <2>1 DEF Local
  <2>3. LocalOK(r)
    BY <1>1, <1>2, <2>1 DEF LocalOK
  <2>4. QED
    BY <2>2, <2>3
<1>8. /\ b \in Seq(Int) /\ Len(b) = BlockLength /\ c \in Seq(Int) /\ Len(c) = BlockLength
      /\ \A k \in 1 .. BlockLength :
            /\ b[k] = IF k + s.i <= BlockLength THEN s.last[k + s.i]
                      ELSE s.buf[k + s.i - BlockLength]
            /\ c[k] = IF k + (s.i + Word) <= BlockLength THEN s.last[k + (s.i + Word)]
                      ELSE s.buf[k + (s.i + Word) - BlockLength]
  BY <1>2, <1>7, WindowFacts
<1> HIDE DEF b, c
<1>9. Behind(c, b)
  <2>1. ASSUME NEW p \in 1 .. BlockLength - Word PROVE c[p] = b[p + Word]
    <3>1. /\ p \in 1 .. BlockLength /\ p + Word \in 1 .. BlockLength
          /\ (p + Word) + s.i = p + (s.i + Word)
      BY <1>1
    <3>2. CASE p + (s.i + Word) <= BlockLength
      <4>1. c[p] = s.last[p + (s.i + Word)]
        BY <1>1, <1>8, <3>1, <3>2
      <4>2. b[p + Word] = s.last[(p + Word) + s.i]
        BY <1>1, <1>8, <3>1, <3>2
      <4>3. QED
        BY <3>1, <4>1, <4>2, Zenon
    <3>3. CASE ~(p + (s.i + Word) <= BlockLength)
      <4>1. c[p] = s.buf[p + (s.i + Word) - BlockLength]
        BY <1>1, <1>8, <3>1, <3>3
      <4>2. b[p + Word] = s.buf[(p + Word) + s.i - BlockLength]
        BY <1>1, <1>8, <3>1, <3>3
      <4>3. (p + Word) + s.i - BlockLength = p + (s.i + Word) - BlockLength
        BY <1>1, <3>1
      <4>4. QED
        BY <4>1, <4>2, <4>3, Zenon
    <3>4. QED
      BY <3>2, <3>3
  <2>2. QED
    BY <2>1 DEF Behind
<1>10. out = CharsToInt(b, 0)
  <2>1. ASSUME NEW k \in 1 .. Word PROVE b[0 + k] = s.last[s.i + k]
    <3>1. 0 + k = k /\ k \in 1 .. BlockLength /\ k + s.i = s.i + k /\ k + s.i <= BlockLength
      BY <1>1
    <3>2. QED
      BY <1>8, <3>1
  <2>2. CharsToInt(b, 0) = CharsToInt(s.last, s.i)
    <3>1. SameWord(s.last, s.i, b, 0)
      BY <1>3, <2>1 DEF SameWord
    <3>2. QED
      BY <1>1, <3>1, SameWordFacts
  <2>3. QED
    BY <2>2 DEF out
<1>11. in = CharsToInt(c, BlockLength - Word)
  <2> DEFINE j == BlockLength - Word
  <2>1. ASSUME NEW k \in 1 .. Word PROVE c[j + k] = s.buf[s.i + k]
    <3>1. /\ j + k \in 1 .. BlockLength /\ ~((j + k) + (s.i + Word) <= BlockLength)
          /\ (j + k) + (s.i + Word) - BlockLength = s.i + k
      BY <1>1
    <3> HIDE DEF j
    <3>2. QED
      BY <1>8, <3>1
  <2>2. j \in Nat
    BY <1>1
  <2> HIDE DEF j
  <2>3. CharsToInt(c, j) = CharsToInt(s.buf, s.i)
    <3>1. SameWord(s.buf, s.i, c, j)
      BY <1>3, <2>1 DEF SameWord
    <3>2. QED
      BY <1>1, <2>2, <3>1, SameWordFacts
  <2>4. QED
    BY <2>3 DEF in, j
<1>12. ASSUME s.csum = WCsumGet(b) PROVE r.csum = WCsumGet(c)
  <2>1. WCsumGet(c) = Moved(WCsumGet(b), out, n, in)
    BY <1>8, <1>9, <1>10, <1>11, SumMovesOn DEF n
  <2>2. QED
    BY <1>2, <1>5, <1>12, <2>1
<1>13. QED
  BY <1>2, <1>7, <1>12 DEF b, c

\* A buffer that was used up was full, and its window is the buffer that follows.
LEMMA UsedUpFacts ==
    ASSUME HashTypeOK, scan = "turn", UsedUp, local.num = BlockLength
    PROVE  /\ local.i = BlockLength
           /\ \A k \in 1 .. BlockLength : WindowOf(local)[k] = local.buf[k]
<1>1. /\ local \in Local /\ LocalOK(local) /\ local.i \in 0 .. BlockLength
      /\ local.i % Word = 0 /\ BlockLength \in Nat /\ Word \in Nat
  BY SumConstants DEF HashTypeOK, Local, LocalOK
<1>2. local.i = BlockLength
  <2>0. PICK j \in 0 .. BlockLength : j = local.i
    BY <1>1
  <2>1. j + Word > BlockLength /\ j % Word = 0
    BY <1>1, <2>0 DEF UsedUp
  <2>2. j < BlockLength => j + Word <= BlockLength
    BY <2>1, WordsLeft
  <2>3. QED
    BY <1>1, <2>0, <2>1, <2>2
<1>3. ASSUME NEW k \in 1 .. BlockLength PROVE WindowOf(local)[k] = local.buf[k]
  <2>1. ~(k + BlockLength <= BlockLength) /\ k + BlockLength - BlockLength = k
    BY <1>1
  <2>2. WindowOf(local)[k] = IF k + local.i <= BlockLength THEN local.last[k + local.i]
                             ELSE local.buf[k + local.i - BlockLength]
    BY <1>1, WindowFacts
  <2>3. QED
    BY <1>2, <2>1, <2>2
<1>4. QED
  BY <1>2, <1>3

\* Blocks of the same bytes are the same block.
LEMMA SameBytes ==
    ASSUME NEW b \in Seq(Int), NEW c \in Seq(Int), Len(b) = BlockLength, Len(c) = BlockLength,
           \A k \in 1 .. BlockLength : b[k] = c[k]
    PROVE  b = c
<1>1. b \in [1 .. BlockLength -> Int] /\ c \in [1 .. BlockLength -> Int]
  OBVIOUS
<1>2. QED
  BY <1>1

\* Where the loop of a pass goes on.
LEMMA GoesOn ==
    ASSUME file \in Seq(Byte), HashTypeOK, scan = "turn", ~NoWordFollows,
           NEW s, s = IF UsedUp THEN Swapped ELSE local
    PROVE  /\ s \in Local /\ LocalOK(s) /\ Full(s)
           /\ s.csum = local.csum /\ s.offset = local.offset
           /\ WindowOf(s) = WindowOf(local)
           /\ IF UsedUp
              THEN /\ local.i = BlockLength /\ local.num = BlockLength /\ NumRead(local.at) >= Word
                   /\ s.i = 0 /\ s.at = local.at + BlockLength
                   /\ s.last = local.buf /\ s.buf = BufferUpdate(local.at)
                   /\ s.num = NumRead(local.at)
              ELSE s = local /\ local.i + Word <= local.num
<1>1. /\ local \in Local /\ LocalOK(local) /\ local.i \in 0 .. BlockLength /\ local.at \in Nat
      /\ local.num \in 0 .. BlockLength /\ BlockLength \in Nat /\ Word \in Nat \ {0}
      /\ Len(local.buf) = BlockLength /\ local.buf \in Seq(Int)
      /\ Len(local.last) = BlockLength \/ local.i = BlockLength
  BY SumConstants DEF HashTypeOK, Local, LocalOK
<1>2. CASE UsedUp
  <2>1. local.num = BlockLength /\ NumRead(local.at) >= Word
    <3>1. NumRead(local.at) \in 0 .. BlockLength
      BY <1>1, ReadFacts
    <3>2. QED
      BY <1>1, <1>2, <3>1 DEF NoWordFollows
  <2>2. /\ local.i = BlockLength
        /\ \A k \in 1 .. BlockLength : WindowOf(local)[k] = local.buf[k]
    BY <1>2, <2>1, UsedUpFacts
  <2>3. /\ s.i = 0 /\ s.at = local.at + BlockLength /\ s.last = local.buf
        /\ s.buf = BufferUpdate(local.at) /\ s.num = NumRead(local.at)
        /\ s.csum = local.csum /\ s.offset = local.offset
        /\ s = [at |-> local.at + BlockLength, last |-> local.buf,
                buf |-> BufferUpdate(local.at), num |-> NumRead(local.at), i |-> 0,
                csum |-> local.csum, offset |-> local.offset]
    BY <1>1, <1>2 DEF Swapped, Local
  <2>4. /\ NumRead(local.at) \in 0 .. BlockLength
        /\ BufferUpdate(local.at) \in Seq(Int) /\ Len(BufferUpdate(local.at)) = BlockLength
    BY <1>1, ReadFacts
  <2>5. s \in Local
    <3>1. local.csum \in Half /\ local.offset \in Nat /\ local.at + BlockLength \in Nat /\ 0 \in 0 .. BlockLength
      BY <1>1 DEF Local
    <3>2. QED
      BY <1>1, <2>3, <2>4, <3>1 DEF Local
  <2>6. LocalOK(s) /\ Full(s)
    <3>1. 0 % Word = 0 /\ 0 + Word <= BlockLength
      <4>1. 0 \in 0 .. BlockLength /\ 0 % Word = 0
        BY <1>1
      <4>2. Word <= BlockLength
        BY <4>1, WordsLeft
      <4>3. QED
        BY <1>1, <4>1, <4>2
    <3>2. QED
      BY <1>1, <2>3, <2>4, <3>1 DEF LocalOK, Full
  <2>7. WindowOf(s) = WindowOf(local)
    <3>1. /\ WindowOf(s) \in Seq(Int) /\ Len(WindowOf(s)) = BlockLength
          /\ \A k \in 1 .. BlockLength :
                WindowOf(s)[k] = IF k + s.i <= BlockLength THEN s.last[k + s.i]
                                 ELSE s.buf[k + s.i - BlockLength]
      BY <2>5, <2>6, WindowFacts
    <3>2. WindowOf(local) \in Seq(Int) /\ Len(WindowOf(local)) = BlockLength
      BY <1>1, WindowFacts
    <3>3. ASSUME NEW k \in 1 .. BlockLength PROVE WindowOf(s)[k] = WindowOf(local)[k]
      <4>1. k + 0 = k /\ k <= BlockLength
        BY <1>1
      <4>2. WindowOf(s)[k] = local.buf[k]
        BY <2>3, <3>1, <4>1
      <4>3. QED
        BY <2>2, <4>2
    <3>4. QED
      BY <3>1, <3>2, <3>3, SameBytes
  <2>8. QED
    BY <1>2, <2>1, <2>2, <2>3, <2>5, <2>6, <2>7
<1>3. CASE ~UsedUp
  <2>1. s = local
    BY <1>3
  <2>2. local.i + Word <= local.num /\ local.i + Word <= BlockLength /\ local.i # BlockLength
    BY <1>1, <1>3 DEF UsedUp
  <2>3. QED
    BY <1>1, <1>3, <2>1, <2>2 DEF Full
<1>4. QED
  BY <1>2, <1>3

\* The table, typed.
TableOK == /\ DOMAIN table = LowHalves
           /\ \A w \in LowHalves : table[w] \in Seq([key : {w}, value : Nat])

\* An offset is entered.
LEMMA InsertFacts ==
    ASSUME TableOK, NEW key \in Half, NEW value \in Nat,
           table' = HashInsert(table, key, value)
    PROVE  /\ TableOK'
           /\ \A w \in LowHalves : w # key.s1 => table'[w] = table[w]
           /\ DOMAIN table[key.s1] = 1 .. Len(table[key.s1])
           /\ DOMAIN table'[key.s1] = 1 .. Len(table[key.s1]) + 1
           /\ \A k \in DOMAIN table[key.s1] : table'[key.s1][k] = table[key.s1][k]
           /\ table'[key.s1][Len(table[key.s1]) + 1] = [key |-> key.s1, value |-> value]
<1> DEFINE l == key.s1
           e == [key |-> l, value |-> value]
           q == table[l]
<1>1. l \in LowHalves /\ e \in [key : {l}, value : Nat]
  BY DEF Half
<1>2. q \in Seq([key : {l}, value : Nat])
  BY <1>1 DEF TableOK
<1>3. table' = [table EXCEPT ![l] = Append(q, e)]
  BY DEF HashInsert
<1> HIDE DEF q, e, l
<1>4. DOMAIN table' = LowHalves /\ table'[l] = Append(q, e)
      /\ \A w \in LowHalves : w # l => table'[w] = table[w]
  BY <1>1, <1>3 DEF TableOK
<1>5. /\ Append(q, e) \in Seq([key : {l}, value : Nat])
      /\ DOMAIN Append(q, e) = 1 .. Len(q) + 1 /\ DOMAIN q = 1 .. Len(q)
      /\ \A k \in DOMAIN q : Append(q, e)[k] = q[k]
      /\ Append(q, e)[Len(q) + 1] = e
  BY <1>1, <1>2, AppendFacts
<1>6. TableOK'
  BY <1>4, <1>5 DEF TableOK
<1>7. QED
  BY <1>4, <1>5, <1>6 DEF q, e, l

\* Where a pass begins.
LEMMA PassFacts ==
    ASSUME file \in Seq(Byte), init \in Nat, HashPass, scan' = "turn"
    PROVE  /\ local' \in Local /\ LocalOK(local') /\ local'.csum = WCsumGet(WindowOf(local'))
           /\ NumRead(init) = BlockLength
           /\ local'.at = init + BlockLength /\ local'.buf = BufferUpdate(init)
           /\ local'.num = BlockLength /\ local'.i = BlockLength /\ local'.offset = init
           /\ init' = init /\ init < Word
<1> DEFINE b == BufferUpdate(init)
<1>1. /\ NumRead(init) \in 0 .. BlockLength /\ b \in Seq(Int) /\ Len(b) = BlockLength
      /\ BlockLength \in Nat /\ BlockLength % Word = 0
  BY ReadFacts, SumConstants, HashAssumption
<1> HIDE DEF b
<1>2. ~(NumRead(init) < BlockLength) /\ init < Word /\ init' = init
  BY DEF HashPass
<1>3. NumRead(init) = BlockLength
  BY <1>1, <1>2
<1>4. local' = [at |-> init + BlockLength, last |-> <<>>, buf |-> b,
                num |-> BlockLength, i |-> BlockLength, csum |-> WCsumGet(b), offset |-> init]
  BY <1>2, <1>3 DEF HashPass, b
<1>5. WCsumGet(b) \in Half
  <2> DEFINE n == Len(b) \div Word
  <2>1. n \in Nat /\ Len(b) % Word = 0
    <3>1. n \in Nat
      BY <1>1, Words
    <3>2. QED
      BY <1>1, <3>1
  <2>2. n \in 0 .. n
    <3> HIDE DEF n
    <3>1. QED
      BY <2>1
  <2>3. PICK v \in [0 .. n -> Half] : WCsumGet(b) = v[n]
    BY <1>1, <2>1, SumFacts
  <2>4. QED
    BY <2>2, <2>3
<1>6. local' \in Local
  <2>1. <<>> \in Seq(Int) /\ init + BlockLength \in Nat /\ BlockLength \in 0 .. BlockLength
    BY <1>1
  <2>2. QED
    BY <1>1, <1>4, <1>5, <2>1 DEF Local
<1>7. LocalOK(local')
  BY <1>1, <1>4 DEF LocalOK
<1>8. WindowOf(local') = b
  <2> DEFINE s == local'
  <2>1. s.i = BlockLength /\ s.buf = b
    BY <1>4
  <2> HIDE DEF s
  <2>2. /\ WindowOf(s) \in Seq(Int) /\ Len(WindowOf(s)) = BlockLength
        /\ \A k \in 1 .. BlockLength :
              WindowOf(s)[k] = IF k + s.i <= BlockLength THEN s.last[k + s.i]
                               ELSE s.buf[k + s.i - BlockLength]
    BY <1>6, <1>7, WindowFacts DEF s
  <2>3. ASSUME NEW k \in 1 .. BlockLength PROVE WindowOf(s)[k] = b[k]
    <3>1. ~(k + BlockLength <= BlockLength) /\ k + BlockLength - BlockLength = k
      BY <1>1
    <3>2. QED
      BY <2>1, <2>2, <3>1
  <2>4. WindowOf(s) = b
    BY <1>1, <2>2, <2>3, SameBytes
  <2>5. QED
    BY <2>4 DEF s
<1>9. QED
  BY <1>2, <1>3, <1>4, <1>6, <1>7, <1>8 DEF b

-----------------------------------------------------------------------------
(* What the scan has entered, if the file has not changed.                   *)

\* The weak checksum at offset o of file f, and what fread returns and reads there.
WeakIn(f, o) == Weak(ReadAt(f, o, BlockLength))
NumIn(f, at) == IF at + BlockLength <= Len(f) THEN BlockLength
                ELSE IF at <= Len(f) THEN Len(f) - at ELSE 0
BufferIn(f, at) == [k \in 1 .. BlockLength |-> IF at + k <= Len(f) THEN f[at + k] ELSE 0]

LEMMA InFile ==
    /\ \A o : WeakAt(o) = WeakIn(file, o)
    /\ \A at : NumRead(at) = NumIn(file, at) /\ BufferUpdate(at) = BufferIn(file, at)
BY DEF WeakAt, WeakIn, NumRead, NumIn, BufferUpdate, BufferIn

\* Table t has the offsets of E in file f, each in the list of its checksum, in the
\* order of the passes.
HasEntered(f, t, E) ==
    \A w \in LowHalves :
        /\ \A k \in DOMAIN t[w] : t[w][k].value \in E /\ WeakIn(f, t[w][k].value) = w
        /\ \A o \in E : WeakIn(f, o) = w => \E k \in DOMAIN t[w] : t[w][k].value = o
        /\ \A j, k \in DOMAIN t[w] : j < k => EnteredBefore(t[w][j].value, t[w][k].value)

\* Those of the passes done, and of this one until its offset.
EnteredSoFar == {o \in Windows : \/ o % Word < init
                                 \/ scan = "turn" /\ o % Word = init /\ o < local.offset}

\* The two buffers hold the bytes of the file around its offset.
AtOffset ==
    /\ local.offset \in Windows /\ local.offset % Word = init
    /\ local.at \in Nat /\ local.at >= BlockLength
    /\ local.at + local.i = local.offset + BlockLength + BlockLength
    /\ local.buf = BufferIn(file, local.at - BlockLength)
    /\ local.num = NumIn(file, local.at - BlockLength)
    /\ \/ local.i = BlockLength
       \/ /\ local.at >= BlockLength + BlockLength
          /\ local.last = BufferIn(file, local.at - BlockLength - BlockLength)

FirstInv == scan # "none" /\ steady => HasEntered(file, table, EnteredSoFar) /\ (scan = "turn" => AtOffset)

\* The class of an offset.
LEMMA ClassFacts ==
    ASSUME NEW o \in Nat
    PROVE  /\ o % Word \in 0 .. Word - 1 /\ o % Word <= o
           /\ (o + Word) % Word = o % Word
           /\ o < Word => o % Word = o
           /\ \A p \in Nat : p % Word = o % Word /\ o < p => o + Word <= p
<1>1. Word \in Nat \ {0} /\ o \in Int
  BY SumConstants
<1>2. o % Word \in 0 .. Word - 1 /\ o % Word <= o
  <2> DEFINE q == o \div Word
             r == o % Word
  <2>1. q \in Nat /\ r \in 0 .. Word - 1 /\ o = Word * q + r
    BY <1>1, Quotient
  <2> HIDE DEF q, r
  <2>2. Word * q \in Nat
    BY <1>1, <2>1
  <2>3. r \in 0 .. Word - 1 /\ r <= o
    BY <1>1, <2>1, <2>2
  <2>4. QED
    BY <2>3 DEF r
<1>3. (o + Word) % Word = o % Word
  <2>1. Congruent(o + Word, o, Word)
    <3>1. o + Word = o + Word * 1 /\ 1 \in Int
      BY <1>1
    <3>2. QED
      BY <3>1 DEF Congruent
  <2>2. o + Word \in Int
    BY <1>1
  <2>3. QED
    BY <1>1, <2>1, <2>2, CongruentRemainders
<1>4. ASSUME o < Word PROVE o % Word = o
  <2>1. o \in 0 .. Word - 1 /\ Word * 0 + o = o /\ 0 \in Int
    BY <1>1, <1>4
  <2>2. (Word * 0 + o) % Word = o
    BY <1>1, <2>1, RemainderIs
  <2>3. QED
    BY <2>1, <2>2
<1>5. ASSUME NEW p \in Nat, p % Word = o % Word, o < p PROVE o + Word <= p
  <2>1. p \in Int /\ o % Word = p % Word
    BY <1>5
  <2>2. QED
    BY <1>1, <1>5, <2>1, NextOfClass
<1>6. QED
  BY <1>2, <1>3, <1>4, <1>5

\* The weak checksum of a block of the file.
LEMMA WeakFacts ==
    ASSUME file \in Seq(Byte), NEW o \in Windows
    PROVE  /\ o \in Nat /\ o + BlockLength <= Len(file)
           /\ ReadAt(file, o, BlockLength) \in Seq(Byte)
           /\ Len(ReadAt(file, o, BlockLength)) = BlockLength
           /\ \A k \in 1 .. BlockLength : ReadAt(file, o, BlockLength)[k] = file[o + k]
           /\ WeakAt(o) = WCsumGet(ReadAt(file, o, BlockLength)).s1
           /\ WeakAt(o) \in LowHalves
<1> DEFINE b == ReadAt(file, o, BlockLength)
<1>1. o \in Nat /\ o + BlockLength <= Len(file) /\ BlockLength \in Nat \ {0}
  BY SumConstants DEF Windows
<1>2. /\ b \in Seq(Byte) /\ Len(b) = BlockLength
      /\ \A k \in 1 .. BlockLength : b[k] = file[o + k]
  BY <1>1, ReadAtFacts
<1>3. WeakAt(o) = Weak(b)
  BY DEF WeakAt
<1> HIDE DEF b
<1>4. b \in [1 .. BlockLength -> Byte]
  BY <1>2
<1>5. Weak(b) = WCsumGet(b).s1
  BY <1>4, HashAssumption
<1>6. WCsumGet(b).s1 \in LowHalves
  <2>1. b \in Seq(Int)
    <3>1. b \in [1 .. BlockLength -> Int]
      BY <1>4, HashAssumption
    <3>2. QED
      BY <1>1, <3>1
  <2>2. PICK n \in Nat : n = Len(b) \div Word
    BY <1>1, <1>2, SumConstants, Quotient
  <2>3. Len(b) % Word = 0
    BY <1>2, HashAssumption
  <2>4. PICK v \in [0 .. n -> Half] : WCsumGet(b) = v[n]
    BY <2>1, <2>2, <2>3, SumFacts
  <2>5. n \in 0 .. n
    BY <2>2
  <2>6. WCsumGet(b) \in Half
    BY <2>4, <2>5
  <2>7. QED
    BY <2>6 DEF Half
<1>7. QED
  BY <1>1, <1>2, <1>3, <1>5, <1>6 DEF b

\* The next offset is entered behind all the others.
LEMMA EnterOne ==
    ASSUME TableOK, NEW E \in SUBSET Windows, HasEntered(file, table, E), NEW o \in Windows,
           NEW key \in Half, key.s1 = WeakIn(file, o), \A p \in E : EnteredBefore(p, o),
           table' = HashInsert(table, key, o), NEW F, F = E \cup {o}
    PROVE  HasEntered(file, table', F)
<1>1. o \in Nat
  BY DEF Windows
<1> DEFINE l == key.s1
           n == Len(table[l])
<1>2. /\ TableOK'
      /\ \A w \in LowHalves : w # l => table'[w] = table[w]
      /\ DOMAIN table[l] = 1 .. n /\ DOMAIN table'[l] = 1 .. n + 1
      /\ \A k \in DOMAIN table[l] : table'[l][k] = table[l][k]
      /\ table'[l][n + 1] = [key |-> l, value |-> o]
  BY <1>1, InsertFacts
<1>3. l \in LowHalves /\ table[l] \in Seq([key : {l}, value : Nat]) /\ n \in Nat
  <2>1. l \in LowHalves
    BY DEF Half
  <2>2. table[l] \in Seq([key : {l}, value : Nat])
    BY <2>1 DEF TableOK
  <2> HIDE DEF l
  <2>3. QED
    BY <2>1, <2>2
<1>4. table'[l][n + 1].value = o
  BY <1>2
<1>5. l = WeakIn(file, o)
  OBVIOUS
<1> HIDE DEF l, n
<1>6. ASSUME NEW w \in LowHalves
      PROVE  /\ \A k \in DOMAIN table[w] : /\ table[w][k].value \in E
                                           /\ WeakIn(file, table[w][k].value) = w
             /\ \A p \in E : WeakIn(file, p) = w => \E k \in DOMAIN table[w] : table[w][k].value = p
             /\ \A j, k \in DOMAIN table[w] :
                   j < k => EnteredBefore(table[w][j].value, table[w][k].value)
  BY DEF HasEntered
<1>7. ASSUME NEW w \in LowHalves, w # l
      PROVE  /\ \A k \in DOMAIN table'[w] : /\ table'[w][k].value \in F
                                            /\ WeakIn(file, table'[w][k].value) = w
             /\ \A p \in F : WeakIn(file, p) = w => \E k \in DOMAIN table'[w] : table'[w][k].value = p
             /\ \A j, k \in DOMAIN table'[w] :
                   j < k => EnteredBefore(table'[w][j].value, table'[w][k].value)
  <2>1. table'[w] = table[w]
    BY <1>2, <1>7
  <2>2. QED
    BY <1>5, <1>6, <1>7, <2>1
<1>8. DOMAIN table'[l] = DOMAIN table[l] \cup {n + 1} /\ n + 1 \notin DOMAIN table[l]
  BY <1>2, <1>3
<1>9. \A k \in DOMAIN table'[l] : table'[l][k].value \in F /\ WeakIn(file, table'[l][k].value) = l
  BY <1>2, <1>3, <1>4, <1>5, <1>6, <1>8
<1>10. ASSUME NEW p \in F, WeakIn(file, p) = l PROVE \E k \in DOMAIN table'[l] : table'[l][k].value = p
  <2>1. CASE p = o
    BY <1>4, <1>8, <2>1
  <2>2. CASE p \in E
    <3>1. PICK k \in DOMAIN table[l] : table[l][k].value = p
      BY <1>3, <1>6, <1>10, <2>2
    <3>2. QED
      BY <1>2, <1>8, <3>1
  <2>3. QED
    BY <2>1, <2>2
<1>11. ASSUME NEW j \in DOMAIN table'[l], NEW k \in DOMAIN table'[l], j < k
       PROVE  EnteredBefore(table'[l][j].value, table'[l][k].value)
  <2>1. j \in 1 .. n /\ j \in DOMAIN table[l] /\ (k = n + 1 \/ k \in DOMAIN table[l])
    BY <1>2, <1>3, <1>11
  <2>2. table'[l][j].value = table[l][j].value /\ table[l][j].value \in E
    BY <1>2, <1>3, <1>6, <2>1
  <2>3. CASE k = n + 1
    BY <1>4, <2>2, <2>3
  <2>4. CASE k \in DOMAIN table[l]
    <3>1. table'[l][k].value = table[l][k].value
      BY <1>2, <2>4
    <3>2. EnteredBefore(table[l][j].value, table[l][k].value)
      BY <1>3, <1>6, <1>11, <2>1, <2>4
    <3>3. QED
      BY <2>2, <3>1, <3>2
  <2>5. QED
    BY <2>1, <2>3, <2>4
<1>12. ASSUME NEW w \in LowHalves
       PROVE  /\ \A k \in DOMAIN table'[w] : /\ table'[w][k].value \in F
                                             /\ WeakIn(file, table'[w][k].value) = w
              /\ \A p \in F : WeakIn(file, p) = w => \E k \in DOMAIN table'[w] : table'[w][k].value = p
              /\ \A j, k \in DOMAIN table'[w] :
                    j < k => EnteredBefore(table'[w][j].value, table'[w][k].value)
  <2>1. CASE w = l
    BY <1>9, <1>10, <1>11, <2>1
  <2>2. CASE w # l
    BY <1>7, <2>2
  <2>3. QED
    BY <2>1, <2>2
<1>13. QED
  BY <1>12 DEF HasEntered

\* The window is the block of the file at the offset, and so is the checksum.
LEMMA WindowIsThere ==
    ASSUME file \in Seq(Byte), local \in Local, LocalOK(local), AtOffset,
           local.csum = WCsumGet(WindowOf(local))
    PROVE  local.csum.s1 = WeakIn(file, local.offset)
<1> DEFINE o == local.offset
           b == ReadAt(file, o, BlockLength)
<1>1. /\ BlockLength \in Nat /\ local.i \in 0 .. BlockLength /\ local.at \in Nat /\ o \in Windows
      /\ local.at >= BlockLength /\ local.at + local.i = o + BlockLength + BlockLength
      /\ local.buf = BufferUpdate(local.at - BlockLength)
      /\ \/ local.i = BlockLength
         \/ /\ local.at >= BlockLength + BlockLength
            /\ local.last = BufferUpdate(local.at - BlockLength - BlockLength)
  BY SumConstants, InFile DEF AtOffset, Local
<1>2. /\ o \in Nat /\ o + BlockLength <= Len(file) /\ b \in Seq(Byte) /\ Len(b) = BlockLength
      /\ \A k \in 1 .. BlockLength : b[k] = file[o + k]
      /\ WeakAt(o) = WCsumGet(b).s1
  BY <1>1, WeakFacts
<1>3. /\ WindowOf(local) \in Seq(Int) /\ Len(WindowOf(local)) = BlockLength
      /\ \A k \in 1 .. BlockLength :
            WindowOf(local)[k] = IF k + local.i <= BlockLength THEN local.last[k + local.i]
                                 ELSE local.buf[k + local.i - BlockLength]
  BY WindowFacts
<1> HIDE DEF b, o
<1>4. ASSUME NEW k \in 1 .. BlockLength PROVE WindowOf(local)[k] = b[k]
  <2>0. /\ Len(file) \in Nat /\ o + k <= Len(file)
        /\ local.at \in Int /\ local.i \in Int /\ o \in Int /\ k \in Int /\ BlockLength \in Int
        /\ local.at + local.i = o + BlockLength + BlockLength
    BY <1>1, <1>2
  <2>1. CASE k + local.i <= BlockLength
    <3> DEFINE a == local.at - BlockLength - BlockLength
               j == k + local.i
    <3>1. local.last = BufferUpdate(a) /\ a \in Nat /\ j \in 1 .. BlockLength /\ a + j = o + k
      <4>1. local.i < BlockLength /\ k \in Nat /\ k >= 1
        BY <1>1, <2>1
      <4>2. local.last = BufferUpdate(a)
        BY <1>1, <4>1
      <4>3. a \in Nat /\ j \in 1 .. BlockLength
        BY <1>1, <2>1, <4>1
      <4>4. a + j = o + k
        <5>1. a + j = ((local.at + local.i) - (BlockLength + BlockLength)) + k
          BY <2>0
        <5>2. QED
          BY <2>0, <5>1
      <4>5. QED
        BY <4>2, <4>3, <4>4
    <3>2. WindowOf(local)[k] = local.last[j]
      BY <1>3, <2>1
    <3> HIDE DEF a, j
    <3>3. BufferUpdate(a)[j] = file[a + j]
      BY <2>0, <3>1, ReadFacts
    <3>4. QED
      BY <1>2, <3>1, <3>2, <3>3
  <2>2. CASE ~(k + local.i <= BlockLength)
    <3> DEFINE a == local.at - BlockLength
               j == k + local.i - BlockLength
    <3>1. local.buf = BufferUpdate(a) /\ a \in Nat /\ j \in 1 .. BlockLength /\ a + j = o + k
      <4>1. local.buf = BufferUpdate(a)
        BY <1>1
      <4>2. a \in Nat /\ j \in 1 .. BlockLength
        BY <1>1, <2>2
      <4>3. a + j = o + k
        BY <2>0
      <4>4. QED
        BY <4>1, <4>2, <4>3
    <3>2. WindowOf(local)[k] = local.buf[j]
      BY <1>3, <2>2
    <3> HIDE DEF a, j
    <3>3. BufferUpdate(a)[j] = file[a + j]
      BY <2>0, <3>1, ReadFacts
    <3>4. QED
      BY <1>2, <3>1, <3>2, <3>3
  <2>3. QED
    BY <2>1, <2>2
<1>5. b \in Seq(Int)
  <2>1. b \in [1 .. BlockLength -> Byte]
    BY <1>2
  <2>2. b \in [1 .. BlockLength -> Int]
    BY <2>1, HashAssumption
  <2>3. QED
    BY <1>1, <2>2
<1>6. WindowOf(local) = b
  BY <1>2, <1>3, <1>4, <1>5, SameBytes
<1>7. QED
  BY <1>2, <1>6, InFile DEF o

-----------------------------------------------------------------------------
(* The steps of the scan keep all of this.                                   *)

HashInv == Inv /\ HashTypeOK /\ SumsRoll /\ FirstInv
ScanInv == HashTypeOK /\ SumsRoll /\ FirstInv

\* What the types say.
LEMMA Typed ==
    ASSUME HashTypeOK
    PROVE  /\ scan \in {"none", "pass", "turn"} /\ init \in 0 .. Word /\ init \in Nat
           /\ local \in Local
           /\ scan # "none" => pc = "await" /\ TableOK
           /\ scan = "turn" => init < Word /\ LocalOK(local)
BY SumConstants DEF HashTypeOK, Local, LocalOK, TableOK

\* ... and what makes them hold in the next state.
LEMMA TypedIf ==
    ASSUME scan' \in {"none", "pass", "turn"}, init' \in 0 .. Word, local' \in Local,
           scan' = "none" => table' = NoTable,
           scan' # "none" => pc' = "await" /\ TableOK',
           scan' = "turn" => init' < Word /\ LocalOK(local')
    PROVE  HashTypeOK'
<1>1. \A w \in DOMAIN table' : table'[w] \in Seq([key : {w}, value : Nat])
  <2>1. CASE scan' = "none"
    BY <2>1 DEF NoTable
  <2>2. CASE scan' # "none"
    BY <2>2 DEF TableOK
  <2>3. QED
    BY <2>1, <2>2
<1>2. QED
  BY <1>1 DEF HashTypeOK, Local, LocalOK, TableOK

LEMMA NoLocalTyped ==
    NoLocal \in Local
<1>1. 0 \in Nat /\ <<>> \in Seq(Int) /\ 0 \in 0 .. BlockLength /\ 0 \in LowHalves
  BY SumConstants
<1>2. QED
  BY <1>1 DEF NoLocal, Local, Half

\* A turn of the loop in an unchanged file: behind the offset entered, the pass ends
\* if and only if no other block of its class begins.
LEMMA TurnEntersNext ==
    ASSUME HashInv, scan = "turn", steady, HashTurn
    PROVE  /\ HasEntered(file, table', EnteredSoFar \cup {local.offset})
           /\ NoWordFollows =>
                 \A o \in Windows : o % Word = init => o <= local.offset
           /\ ~NoWordFollows =>
                 /\ local.offset + Word \in Windows
                 /\ IF UsedUp THEN local.at = local.offset + BlockLength
                    ELSE local.i < BlockLength
<1>1. /\ file \in Seq(Byte) /\ local \in Local /\ LocalOK(local) /\ TableOK
      /\ AtOffset /\ HasEntered(file, table, EnteredSoFar)
      /\ local.csum = WCsumGet(WindowOf(local)) /\ init \in Nat
  BY Typed DEF HashInv, Inv, TypeOK, FirstInv, SumsRoll, Window, WindowOf
<1> DEFINE o == local.offset
           a == local.at - BlockLength
           at == local.at
           j == local.i
           num == local.num
<1>2. /\ o \in Windows /\ o \in Nat /\ o + BlockLength <= Len(file) /\ o % Word = init
      /\ a \in Nat /\ at \in Nat /\ at = a + BlockLength /\ j \in 0 .. BlockLength
      /\ num \in 0 .. BlockLength /\ num = NumIn(file, a)
      /\ a + j = o + BlockLength
      /\ BlockLength \in Nat \ {0} /\ Word \in Nat \ {0} /\ Len(file) \in Nat
      /\ NumRead(at) = NumIn(file, at) /\ Word <= BlockLength
  <2>1. /\ o \in Windows /\ o % Word = init /\ at \in Nat /\ at >= BlockLength
        /\ at + j = o + BlockLength + BlockLength /\ num = NumIn(file, a)
        /\ j \in 0 .. BlockLength /\ num \in 0 .. BlockLength
    BY <1>1 DEF AtOffset, Local
  <2>2. o \in Nat /\ o + BlockLength <= Len(file)
    BY <2>1 DEF Windows
  <2>3. BlockLength \in Nat \ {0} /\ Word \in Nat \ {0} /\ Len(file) \in Nat
    BY <1>1, SumConstants
  <2>4. Word <= BlockLength
    <3>1. 0 \in 0 .. BlockLength /\ 0 % Word = 0
      BY <2>3
    <3>2. QED
      BY <3>1, WordsLeft
  <2>5. NumRead(at) = NumIn(file, at)
    BY InFile
  <2>6. a \in Nat /\ at = a + BlockLength
    BY <2>1, <2>3
  <2> HIDE DEF o, a, at, j, num
  <2>7. a + j = o + BlockLength
    <3>1. /\ o \in Int /\ a \in Int /\ j \in Int /\ BlockLength \in Int
          /\ (a + BlockLength) + j = o + BlockLength + BlockLength
      BY <2>1, <2>2, <2>3, <2>6
    <3>2. QED
      BY <3>1
  <2>8. QED
    BY <2>1, <2>2, <2>3, <2>4, <2>5, <2>6, <2>7
<1>3. HasEntered(file, table', EnteredSoFar \cup {o})
  <2>1. local.csum.s1 = WeakIn(file, o) /\ local.csum \in Half
    BY <1>1, WindowIsThere DEF Local
  <2>2. table' = HashInsert(table, local.csum, o)
    BY DEF HashTurn
  <2>3. EnteredSoFar \in SUBSET Windows
    BY DEF EnteredSoFar
  <2> HIDE DEF o
  <2>4. ASSUME NEW p \in EnteredSoFar PROVE EnteredBefore(p, o)
    <3>1. p % Word < init \/ (p % Word = init /\ p < o)
      BY DEF EnteredSoFar, o
    <3>2. QED
      BY <1>2, <3>1 DEF EnteredBefore
  <2>5. QED
    BY <1>1, <1>2, <2>1, <2>2, <2>3, <2>4, EnterOne
<1>4. UsedUp <=> j + Word > num
  BY DEF UsedUp
<1>5. NoWordFollows <=> UsedUp /\ (num # BlockLength \/ NumRead(at) < Word)
  BY DEF NoWordFollows
<1>6. UsedUp /\ num = BlockLength => j = BlockLength
  BY UsedUpFacts DEF HashInv
<1> HIDE DEF o, a, at, j, num
<1>7. a + num <= Len(file) /\ (num # BlockLength => a + num = Len(file))
  <2>1. a <= Len(file)
    BY <1>2
  <2>2. QED
    BY <1>2, <2>1 DEF NumIn
<1>8. ASSUME NoWordFollows PROVE o + Word + BlockLength > Len(file)
  <2>1. CASE num # BlockLength
    BY <1>2, <1>4, <1>5, <1>7, <1>8, <2>1
  <2>2. CASE num = BlockLength
    <3>1. j = BlockLength /\ NumIn(file, at) < Word /\ at = o + BlockLength
      BY <1>2, <1>5, <1>6, <1>8, <2>2
    <3>2. Len(file) - at < Word
      BY <1>2, <3>1 DEF NumIn
    <3>3. QED
      BY <1>2, <3>1, <3>2
  <2>3. QED
    BY <2>1, <2>2
<1>9. ASSUME NoWordFollows, NEW p \in Windows, p % Word = init PROVE p <= o
  <2>1. p \in Nat /\ p + BlockLength <= Len(file)
    BY DEF Windows
  <2>2. ASSUME o < p PROVE FALSE
    <3>1. o + Word <= p
      BY <1>2, <1>9, <2>1, <2>2, ClassFacts
    <3>2. QED
      BY <1>2, <1>8, <1>9, <2>1, <3>1
  <2>3. QED
    BY <1>2, <2>1, <2>2
<1>10. ASSUME ~NoWordFollows
       PROVE  /\ o + Word + BlockLength <= Len(file)
              /\ IF UsedUp THEN at = o + BlockLength ELSE j < BlockLength
  <2>1. CASE UsedUp
    <3>1. num = BlockLength /\ ~(NumIn(file, at) < Word)
      BY <1>2, <1>5, <1>10, <2>1
    <3>2. j = BlockLength /\ at = o + BlockLength
      BY <1>2, <1>6, <2>1, <3>1
    <3>3. at + Word <= Len(file)
      BY <1>2, <3>1 DEF NumIn
    <3>4. QED
      BY <1>2, <2>1, <3>2, <3>3
  <2>2. CASE ~UsedUp
    BY <1>2, <1>4, <1>7, <2>2
  <2>3. QED
    BY <2>1, <2>2
<1>11. ASSUME o + Word + BlockLength <= Len(file) PROVE o + Word \in Windows
  <2>1. o + Word \in 0 .. Len(file) /\ (o + Word) + BlockLength <= Len(file)
    BY <1>2, <1>11
  <2>2. QED
    BY <2>1 DEF Windows
<1>12. QED
  BY <1>3, <1>9, <1>10, <1>11 DEF o, at, j

LEMMA TurnScan ==
    ASSUME HashInv, HashTurn
    PROVE  ScanInv'
<1>1. /\ file \in Seq(Byte) /\ local \in Local /\ LocalOK(local) /\ TableOK /\ scan = "turn"
      /\ HashTypeOK /\ init \in Nat /\ init < Word /\ pc = "await" /\ Word \in Nat
      /\ local.csum = WCsumGet(WindowOf(local)) /\ local.csum \in Half /\ local.offset \in Nat
  BY Typed, SumConstants DEF HashInv, Inv, TypeOK, SumsRoll, Window, WindowOf, HashTurn, Local
<1>2. /\ file' = file /\ pc' = pc /\ steady' = steady /\ Windows' = Windows
      /\ table' = HashInsert(table, local.csum, local.offset)
  BY DEF HashTurn, vars, loopVars, Windows
<1>3. TableOK'
  BY <1>1, <1>2, InsertFacts
<1>4. CASE NoWordFollows
  <2>1. scan' = "pass" /\ init' = init + 1 /\ local' = NoLocal
    BY <1>4 DEF HashTurn
  <2>2. init' \in 0 .. Word /\ local' \in Local
    BY <1>1, <2>1, NoLocalTyped
  <2>3. HashTypeOK'
    BY <1>1, <1>2, <1>3, <2>1, <2>2, TypedIf
  <2>4. SumsRoll'
    BY <2>1 DEF SumsRoll
  <2>5. ASSUME steady PROVE HasEntered(file, table', EnteredSoFar')
    <3>1. /\ HasEntered(file, table', EnteredSoFar \cup {local.offset})
          /\ \A o \in Windows : o % Word = init => o <= local.offset
      BY <1>1, <1>4, <2>5, TurnEntersNext
    <3>2. local.offset \in Windows /\ local.offset % Word = init
      BY <1>1, <2>5 DEF HashInv, FirstInv, AtOffset
    <3>3. EnteredSoFar' = {o \in Windows : o % Word < init + 1}
      BY <1>2, <2>1 DEF EnteredSoFar
    <3>4. ASSUME NEW o \in Windows
          PROVE  o % Word < init + 1 <=> o \in EnteredSoFar \cup {local.offset}
      <4>1. o \in Nat /\ o % Word \in Nat
        BY SumConstants, ClassFacts DEF Windows
      <4>2. o \in EnteredSoFar <=> o % Word < init \/ (o % Word = init /\ o < local.offset)
        BY <1>1 DEF EnteredSoFar
      <4>3. o % Word = init => (o < local.offset \/ o = local.offset)
        BY <1>1, <3>1, <4>1
      <4>4. QED
        BY <1>1, <3>2, <4>1, <4>2, <4>3
    <3>5. EnteredSoFar' = EnteredSoFar \cup {local.offset}
      <4>1. EnteredSoFar \subseteq Windows
        BY DEF EnteredSoFar
      <4>2. QED
        BY <3>2, <3>3, <3>4, <4>1
    <3>6. QED
      BY <3>1, <3>5
  <2>6. FirstInv'
    BY <1>2, <2>1, <2>5 DEF FirstInv
  <2>7. QED
    BY <2>3, <2>4, <2>6 DEF ScanInv
<1>5. CASE ~NoWordFollows
  <2> DEFINE s == IF UsedUp THEN Swapped ELSE local
             r == Rolled(s)
  <2>1. scan' = "turn" /\ init' = init /\ local' = r
    BY <1>1, <1>5 DEF HashTurn
  <2>2. /\ s \in Local /\ LocalOK(s) /\ Full(s)
        /\ s.csum = local.csum /\ s.offset = local.offset
        /\ WindowOf(s) = WindowOf(local)
        /\ IF UsedUp
           THEN /\ local.i = BlockLength /\ local.num = BlockLength /\ NumRead(local.at) >= Word
                /\ s.i = 0 /\ s.at = local.at + BlockLength
                /\ s.last = local.buf /\ s.buf = BufferUpdate(local.at)
                /\ s.num = NumRead(local.at)
           ELSE s = local /\ local.i + Word <= local.num
    BY <1>1, <1>5, GoesOn
  <2> HIDE DEF s
  <2>3. /\ r \in Local /\ LocalOK(r) /\ r.i = s.i + Word /\ r.offset = s.offset + Word
        /\ r.at = s.at /\ r.last = s.last /\ r.buf = s.buf /\ r.num = s.num
        /\ s.csum = WCsumGet(WindowOf(s)) => r.csum = WCsumGet(WindowOf(r))
    BY <2>2, RolledFacts
  <2> HIDE DEF r
  <2>4. HashTypeOK'
    BY <1>1, <1>2, <1>3, <2>1, <2>3, TypedIf
  <2>5. SumsRoll'
    <3>1. local'.csum = WCsumGet(WindowOf(local'))
      BY <1>1, <2>1, <2>2, <2>3
    <3>2. QED
      BY <3>1 DEF SumsRoll, Window, WindowOf
  <2>6. ASSUME steady PROVE HasEntered(file, table', EnteredSoFar') /\ AtOffset'
    <3>1. /\ HasEntered(file, table', EnteredSoFar \cup {local.offset})
          /\ local.offset + Word \in Windows
          /\ IF UsedUp THEN local.at = local.offset + BlockLength ELSE local.i < BlockLength
      BY <1>1, <1>5, <2>6, TurnEntersNext
    <3>2. AtOffset
      BY <1>1, <2>6 DEF HashInv, FirstInv
    <3>3. local.offset \in Windows /\ local.offset % Word = init /\ (local.offset + Word) % Word = init
      BY <1>1, <3>2, ClassFacts DEF AtOffset
    <3>4. EnteredSoFar' = {o \in Windows : o % Word < init \/ (o % Word = init /\ o < local.offset + Word)}
      BY <1>2, <2>1, <2>2, <2>3 DEF EnteredSoFar
    <3>5. ASSUME NEW o \in Windows
          PROVE  (o % Word < init \/ (o % Word = init /\ o < local.offset + Word))
                 <=> o \in EnteredSoFar \cup {local.offset}
      <4>1. o \in Nat /\ o % Word \in Nat
        BY SumConstants, ClassFacts DEF Windows
      <4>2. o \in EnteredSoFar <=> o % Word < init \/ (o % Word = init /\ o < local.offset)
        BY <1>1 DEF EnteredSoFar
      <4>3. o % Word = init /\ local.offset < o => local.offset + Word <= o
        BY <1>1, <3>3, <4>1, ClassFacts
      <4>4. Word > 0
        BY SumConstants
      <4>5. QED
        BY <1>1, <3>3, <4>1, <4>2, <4>3, <4>4
    <3>6. EnteredSoFar' = EnteredSoFar \cup {local.offset}
      <4>1. EnteredSoFar \subseteq Windows
        BY DEF EnteredSoFar
      <4>2. QED
        BY <3>3, <3>4, <3>5, <4>1
    <3>7. /\ r.at \in Nat /\ r.at >= BlockLength
          /\ r.at + r.i = local.offset + Word + BlockLength + BlockLength
          /\ r.buf = BufferIn(file, r.at - BlockLength)
          /\ r.num = NumIn(file, r.at - BlockLength)
          /\ r.at >= BlockLength + BlockLength
          /\ r.last = BufferIn(file, r.at - BlockLength - BlockLength)
      <4>1. /\ local.at \in Nat /\ local.i \in 0 .. BlockLength /\ BlockLength \in Nat
            /\ local.at >= BlockLength
            /\ local.at + local.i = local.offset + BlockLength + BlockLength
        BY <1>1, <3>2, SumConstants DEF AtOffset, Local
      <4>2. CASE UsedUp
        <5>1. r.at = local.at + BlockLength /\ r.i = 0 + Word
          BY <2>2, <2>3, <4>2
        <5>2. r.at - BlockLength = local.at /\ r.at - BlockLength - BlockLength = local.at - BlockLength
          BY <4>1, <5>1
        <5>3. r.buf = BufferIn(file, local.at) /\ r.num = NumIn(file, local.at)
          BY <2>2, <2>3, <4>2, InFile
        <5>4. r.last = BufferIn(file, local.at - BlockLength)
          BY <2>2, <2>3, <3>2, <4>2 DEF AtOffset
        <5>5. r.at + r.i = local.offset + Word + BlockLength + BlockLength
          <6>1. local.at = local.offset + BlockLength
            BY <3>1, <4>2
          <6>2. r.at = local.offset + BlockLength + BlockLength /\ r.i = Word
            BY <1>1, <5>1, <6>1
          <6>3. local.offset \in Int /\ Word \in Int /\ BlockLength \in Int
            BY <1>1, <4>1
          <6>4. (local.offset + BlockLength + BlockLength) + Word
                   = local.offset + Word + BlockLength + BlockLength
            BY <6>3
          <6>5. QED
            BY <6>2, <6>4, Zenon
        <5>6. r.at \in Nat /\ r.at >= BlockLength /\ r.at >= BlockLength + BlockLength
          BY <4>1, <5>1
        <5>7. QED
          BY <5>2, <5>3, <5>4, <5>5, <5>6
      <4>3. CASE ~UsedUp
        <5>1. /\ r.at = local.at /\ r.i = local.i + Word /\ r.buf = local.buf
              /\ r.num = local.num /\ r.last = local.last
          BY <2>2, <2>3, <4>3
        <5>2. local.i # BlockLength
          BY <3>1, <4>1, <4>3
        <5>3. r.at + r.i = local.offset + Word + BlockLength + BlockLength
          <6>1. /\ local.at \in Int /\ local.i \in Int /\ local.offset \in Int
                /\ Word \in Int /\ BlockLength \in Int
                /\ local.at + local.i = local.offset + BlockLength + BlockLength
            BY <1>1, <4>1
          <6>2. local.at + (local.i + Word) = local.offset + Word + BlockLength + BlockLength
            BY <6>1
          <6>3. QED
            BY <5>1, <6>2
        <5>4. QED
          BY <3>2, <4>1, <5>1, <5>2, <5>3 DEF AtOffset
      <4>4. QED
        BY <4>2, <4>3
    <3>8. AtOffset'
      BY <1>2, <2>1, <2>2, <2>3, <3>1, <3>3, <3>7 DEF AtOffset
    <3>9. QED
      BY <3>1, <3>6, <3>8
  <2>7. FirstInv'
    BY <1>2, <2>1, <2>6 DEF FirstInv
  <2>8. QED
    BY <2>4, <2>5, <2>7 DEF ScanInv
<1>6. QED
  BY <1>4, <1>5

LEMMA PassScan ==
    ASSUME HashInv, HashPass
    PROVE  ScanInv'
<1>1. /\ file \in Seq(Byte) /\ local \in Local /\ TableOK /\ scan = "pass" /\ HashTypeOK
      /\ init \in Nat /\ init < Word /\ pc = "await" /\ Word \in Nat /\ Len(file) \in Nat
      /\ BlockLength \in Nat \ {0} /\ NumRead(init) \in 0 .. BlockLength
  <2>1. scan = "pass" /\ init < Word /\ HashTypeOK /\ file \in Seq(Byte)
    BY DEF HashInv, Inv, TypeOK, HashPass
  <2>2. local \in Local /\ TableOK /\ init \in Nat /\ pc = "await"
    BY <2>1, Typed
  <2>3. NumRead(init) \in 0 .. BlockLength
    BY <2>1, <2>2, ReadFacts
  <2>4. QED
    BY <2>1, <2>2, <2>3, SumConstants
<1>2. /\ file' = file /\ pc' = pc /\ steady' = steady /\ Windows' = Windows /\ table' = table
  BY DEF HashPass, vars, loopVars, Windows
<1>3. TableOK'
  BY <1>1, <1>2 DEF TableOK
<1>4. steady => HasEntered(file, table, EnteredSoFar)
  BY <1>1 DEF HashInv, FirstInv
<1>5. EnteredSoFar = {o \in Windows : o % Word < init}
  BY <1>1 DEF EnteredSoFar
<1>6. CASE NumRead(init) < BlockLength
  <2>1. scan' = "pass" /\ init' = init + 1 /\ local' = local
    BY <1>1, <1>6 DEF HashPass
  <2>2. HashTypeOK'
    <3>1. init' \in 0 .. Word
      BY <1>1, <2>1
    <3>2. QED
      BY <1>1, <1>2, <1>3, <2>1, <3>1, TypedIf
  <2>3. SumsRoll'
    BY <2>1 DEF SumsRoll
  <2>4. EnteredSoFar' = {o \in Windows : o % Word < init + 1}
    BY <1>2, <2>1 DEF EnteredSoFar
  <2>5. init + BlockLength > Len(file)
    BY <1>1, <1>6 DEF NumRead
  <2>6. ASSUME NEW o \in Windows PROVE o % Word < init + 1 <=> o % Word < init
    <3>1. o \in Nat /\ o + BlockLength <= Len(file)
      BY DEF Windows
    <3>2. o % Word \in Nat /\ o % Word <= o
      BY <1>1, <3>1, ClassFacts
    <3>3. QED
      BY <1>1, <2>5, <3>1, <3>2
  <2>7. EnteredSoFar' = EnteredSoFar
    BY <1>5, <2>4, <2>6
  <2>8. FirstInv'
    BY <1>2, <1>4, <2>1, <2>7 DEF FirstInv
  <2>9. QED
    BY <2>2, <2>3, <2>8 DEF ScanInv
<1>7. CASE ~(NumRead(init) < BlockLength)
  <2>1. scan' = "turn"
    BY <1>7 DEF HashPass
  <2>2. /\ local' \in Local /\ LocalOK(local') /\ local'.csum = WCsumGet(WindowOf(local'))
        /\ NumRead(init) = BlockLength
        /\ local'.at = init + BlockLength /\ local'.buf = BufferUpdate(init)
        /\ local'.num = BlockLength /\ local'.i = BlockLength /\ local'.offset = init
        /\ init' = init
    BY <1>1, <2>1, PassFacts
  <2>3. HashTypeOK'
    <3>1. init' \in 0 .. Word
      BY <1>1, <2>2
    <3>2. QED
      BY <1>1, <1>2, <1>3, <2>1, <2>2, <3>1, TypedIf
  <2>4. SumsRoll'
    BY <2>2 DEF SumsRoll, Window, WindowOf
  <2>5. EnteredSoFar' = {o \in Windows : o % Word < init \/ (o % Word = init /\ o < init)}
    BY <1>2, <2>1, <2>2 DEF EnteredSoFar
  <2>6. ASSUME NEW o \in Windows, o % Word = init PROVE ~(o < init)
    <3>1. o \in Nat
      BY DEF Windows
    <3>2. o % Word <= o
      BY <3>1, ClassFacts
    <3>3. QED
      BY <1>1, <2>6, <3>1, <3>2
  <2>7. EnteredSoFar' = EnteredSoFar
    BY <1>5, <2>5, <2>6
  <2>8. AtOffset'
    <3>1. init + BlockLength <= Len(file)
      BY <1>1, <2>2 DEF NumRead
    <3>2. init \in Windows
      BY <1>1, <3>1 DEF Windows
    <3>3. init % Word = init
      BY <1>1, ClassFacts
    <3>4. (init + BlockLength) - BlockLength = init
      BY <1>1
    <3>5. /\ local'.buf = BufferIn(file, local'.at - BlockLength)
          /\ local'.num = NumIn(file, local'.at - BlockLength)
      BY <2>2, <3>4, InFile
    <3>6. /\ local'.at \in Nat /\ local'.at >= BlockLength
          /\ local'.at + local'.i = local'.offset + BlockLength + BlockLength
      BY <1>1, <2>2
    <3>7. QED
      BY <1>2, <2>2, <3>2, <3>3, <3>5, <3>6 DEF AtOffset
  <2>9. FirstInv'
    BY <1>2, <1>4, <2>7, <2>8 DEF FirstInv
  <2>10. QED
    BY <2>3, <2>4, <2>9 DEF ScanInv
<1>8. QED
  BY <1>6, <1>7

LEMMA StartScan ==
    ASSUME HashInv, HashStart
    PROVE  ScanInv'
<1>1. /\ scan' = "pass" /\ init' = 0 /\ table' = HashCreate /\ local' = local
      /\ file' = file /\ pc' = pc /\ pc = "await" /\ local \in Local /\ Word \in Nat
  BY Typed, SumConstants DEF HashInv, HashStart, vars, loopVars
<1>2. DOMAIN table' = LowHalves /\ \A w \in LowHalves : table'[w] = <<>>
  BY <1>1 DEF HashCreate
<1>3. HashTypeOK'
  <2>1. TableOK'
    <3>1. ASSUME NEW w \in LowHalves PROVE table'[w] \in Seq([key : {w}, value : Nat])
      <4>1. <<>> \in Seq([key : {w}, value : Nat])
        OBVIOUS
      <4>2. QED
        BY <1>2, <4>1
    <3>2. QED
      BY <1>2, <3>1 DEF TableOK
  <2>2. init' \in 0 .. Word
    BY <1>1
  <2>3. QED
    BY <1>1, <2>1, <2>2, TypedIf
<1>4. SumsRoll'
  BY <1>1 DEF SumsRoll
<1>5. Windows' = Windows
  BY <1>1 DEF Windows
<1>6. EnteredSoFar' = {}
  <2>1. EnteredSoFar' = {o \in Windows : o % Word < 0}
    BY <1>1, <1>5 DEF EnteredSoFar
  <2>2. ASSUME NEW o \in Windows PROVE ~(o % Word < 0)
    <3>1. o \in Nat
      BY DEF Windows
    <3>2. o % Word \in 0 .. Word - 1
      BY <3>1, ClassFacts
    <3>3. QED
      BY <1>1, <3>2
  <2>3. QED
    BY <2>1, <2>2
<1>7. HasEntered(file, table', {})
  BY <1>2 DEF HasEntered
<1>8. FirstInv'
  BY <1>1, <1>6, <1>7 DEF FirstInv
<1>9. QED
  BY <1>3, <1>4, <1>8 DEF ScanInv

\* The table is gone.
LEMMA DestroyScan ==
    ASSUME HashDestroy
    PROVE  ScanInv'
<1>1. scan' = "none" /\ init' = 0 /\ table' = NoTable /\ local' = NoLocal
  BY DEF HashDestroy
<1>2. init' \in 0 .. Word /\ local' \in Local
  BY <1>1, NoLocalTyped, SumConstants
<1>3. HashTypeOK'
  BY <1>1, <1>2, TypedIf
<1>4. QED
  BY <1>1, <1>3 DEF ScanInv, SumsRoll, FirstInv

\* While the file is scanned, all that can happen to it is that somebody writes.
LEMMA OtherScan ==
    ASSUME HashInv, OtherStep, UNCHANGED hashVars
    PROVE  ScanInv'
<1>1. /\ scan' = scan /\ init' = init /\ table' = table /\ local' = local
      /\ scan \in {"none", "pass", "turn"} /\ init \in 0 .. Word /\ local \in Local
      /\ scan # "none" => pc = "await" /\ TableOK
      /\ scan = "turn" => init < Word /\ LocalOK(local)
      /\ scan = "none" => table = NoTable
  BY Typed DEF HashInv, hashVars, HashTypeOK
<1>2. pc = "await" => Edit
  BY DEF OtherStep, StartBackup, FillBlock, Commit, ExtractStep, StartExtract, InstallBlock,
         ExtractDone, Close, CoverHole, PassBlock, CoverOld, CoverTail, CoverDone
<1>3. scan # "none" => pc' = "await" /\ steady' = FALSE
  BY <1>1, <1>2 DEF Edit
<1>4. TableOK' <=> TableOK
  BY <1>1 DEF TableOK
<1>5. HashTypeOK'
  BY <1>1, <1>3, <1>4, TypedIf
<1>6. SumsRoll'
  BY <1>1 DEF HashInv, SumsRoll, Window
<1>7. FirstInv'
  BY <1>1, <1>3 DEF FirstInv
<1>8. QED
  BY <1>5, <1>6, <1>7 DEF ScanInv

-----------------------------------------------------------------------------
(* What hash_find returns.                                                   *)

\* The first entry of the list.
LEMMA FindFacts ==
    ASSUME TableOK, NEW w \in LowHalves
    PROVE  /\ DOMAIN table[w] = 1 .. Len(table[w]) /\ Len(table[w]) \in Nat
           /\ \A k \in DOMAIN table[w] : table[w][k].value \in Nat
           /\ HashFind(table, w) = IF 1 \in DOMAIN table[w] THEN {table[w][1].value} ELSE {}
<1> DEFINE q == table[w]
<1>1. q \in Seq([key : {w}, value : Nat])
  BY DEF TableOK
<1> DEFINE found == {k \in DOMAIN q : q[k].key = w}
           smallest == {l \in found : \A m \in found : l <= m}
<1>2. HashFind(table, w) = {q[k].value : k \in smallest}
  BY DEF HashFind
<1> HIDE DEF q
<1>3. /\ DOMAIN q = 1 .. Len(q) /\ Len(q) \in Nat
      /\ \A k \in DOMAIN q : q[k].value \in Nat /\ q[k].key = w
  <2>1. ASSUME NEW k \in DOMAIN q PROVE q[k].value \in Nat /\ q[k].key = w
    <3>1. q[k] \in [key : {w}, value : Nat]
      <4> DEFINE S == [key : {w}, value : Nat]
      <4>1. q \in Seq(S)
        BY <1>1
      <4> HIDE DEF S
      <4>2. q[k] \in S
        BY <4>1
      <4>3. QED
        BY <4>2 DEF S
    <3>2. QED
      BY <3>1
  <2>2. DOMAIN q = 1 .. Len(q) /\ Len(q) \in Nat
    BY <1>1
  <2>3. QED
    BY <2>1, <2>2
<1>4. found = 1 .. Len(q)
  BY <1>3
<1> HIDE DEF found
<1>5. smallest = IF 1 \in 1 .. Len(q) THEN {1} ELSE {}
  <2>1. CASE 1 \in 1 .. Len(q)
    <3>1. \A l \in 1 .. Len(q) : (\A m \in 1 .. Len(q) : l <= m) <=> l = 1
      BY <1>3, <2>1
    <3>2. QED
      BY <1>4, <2>1, <3>1
  <2>2. CASE 1 \notin 1 .. Len(q)
    <3>1. 1 .. Len(q) = {}
      BY <1>3, <2>2
    <3>2. QED
      BY <1>4, <2>2, <3>1
  <2>3. QED
    BY <2>1, <2>2
<1> HIDE DEF smallest
<1>6. HashFind(table, w) = IF 1 \in DOMAIN q THEN {q[1].value} ELSE {}
  BY <1>2, <1>3, <1>5
<1>7. QED
  BY <1>3, <1>6 DEF q

LEMMA LookupTyped ==
    ASSUME TableOK
    PROVE  /\ DOMAIN Lookup = {w \in LowHalves : 1 \in DOMAIN table[w]}
           /\ \A w \in DOMAIN Lookup : Lookup[w] = table[w][1].value /\ Lookup[w] \in Nat
<1>1. DOMAIN Lookup = {w \in LowHalves : HashFind(table, w) # {}}
  BY DEF Lookup, TableOK
<1>2. ASSUME NEW w \in LowHalves PROVE HashFind(table, w) # {} <=> 1 \in DOMAIN table[w]
  BY FindFacts
<1>3. DOMAIN Lookup = {w \in LowHalves : 1 \in DOMAIN table[w]}
  BY <1>1, <1>2
<1>4. ASSUME NEW w \in DOMAIN Lookup PROVE Lookup[w] = table[w][1].value /\ Lookup[w] \in Nat
  <2>1. w \in LowHalves /\ 1 \in DOMAIN table[w]
    BY <1>3
  <2>2. HashFind(table, w) = {table[w][1].value} /\ table[w][1].value \in Nat
    BY <2>1, FindFacts
  <2>3. Lookup[w] = CHOOSE o \in HashFind(table, w) : TRUE
    BY DEF Lookup
  <2>4. QED
    BY <2>2, <2>3
<1>5. QED
  BY <1>3, <1>4

\* When the scan of an unchanged file is done, hash_find returns the first offset
\* entered with a checksum, of all the offsets of the file.
LEMMA ReadyFindsFirst ==
    ASSUME HashInv, HashReady, steady
    PROVE  Lookup = Firsts
<1>1. /\ file \in Seq(Byte) /\ TableOK /\ HasEntered(file, table, EnteredSoFar)
      /\ scan = "pass" /\ init = Word /\ Word \in Nat
  BY Typed, SumConstants DEF HashInv, Inv, TypeOK, FirstInv, HashReady
<1>2. EnteredSoFar = Windows
  <2>1. ASSUME NEW o \in Windows PROVE o % Word < init
    <3>1. o \in Nat
      BY DEF Windows
    <3>2. o % Word \in 0 .. Word - 1
      BY <3>1, ClassFacts
    <3>3. QED
      BY <1>1, <3>2
  <2>2. QED
    BY <2>1 DEF EnteredSoFar
<1>3. \A o : WeakIn(file, o) = WeakAt(o)
  BY InFile
<1>4. ASSUME NEW w \in LowHalves
      PROVE  /\ \A k \in DOMAIN table[w] : table[w][k].value \in Windows /\ WeakAt(table[w][k].value) = w
             /\ \A o \in Windows : WeakAt(o) = w => \E k \in DOMAIN table[w] : table[w][k].value = o
             /\ \A j, k \in DOMAIN table[w] :
                   j < k => EnteredBefore(table[w][j].value, table[w][k].value)
             /\ DOMAIN table[w] = 1 .. Len(table[w]) /\ Len(table[w]) \in Nat
  <2>1. DOMAIN table[w] = 1 .. Len(table[w]) /\ Len(table[w]) \in Nat
    BY <1>1, FindFacts
  <2>2. QED
    BY <1>1, <1>2, <1>3, <2>1 DEF HasEntered
<1>5. DOMAIN Lookup = {w \in LowHalves : 1 \in DOMAIN table[w]}
  BY <1>1, LookupTyped
<1>6. DOMAIN Firsts = {WeakAt(o) : o \in Windows}
  BY DEF Firsts
<1>7. ASSUME NEW o \in Windows PROVE WeakAt(o) \in DOMAIN Lookup
  <2> DEFINE w == WeakAt(o)
  <2>1. w \in LowHalves
    BY <1>1, WeakFacts
  <2>2. PICK k \in DOMAIN table[w] : table[w][k].value = o
    BY <1>4, <2>1
  <2> HIDE DEF w
  <2>3. DOMAIN table[w] = 1 .. Len(table[w]) /\ Len(table[w]) \in Nat
    BY <1>4, <2>1
  <2>4. 1 \in DOMAIN table[w]
    BY <2>2, <2>3
  <2>5. w \in DOMAIN Lookup
    BY <1>5, <2>1, <2>4
  <2>6. QED
    BY <2>5 DEF w
<1>8. ASSUME NEW w \in DOMAIN Lookup
      PROVE  w \in DOMAIN Firsts /\ Lookup[w] = Firsts[w]
  <2>1. w \in LowHalves /\ 1 \in DOMAIN table[w]
    BY <1>5
  <2> DEFINE o == table[w][1].value
  <2>2. o \in Windows /\ WeakAt(o) = w
    BY <1>4, <2>1
  <2>3. ASSUME NEW p \in Windows, EnteredBefore(p, o), WeakAt(p) = w PROVE FALSE
    <3>1. PICK k \in DOMAIN table[w] : table[w][k].value = p
      BY <1>4, <2>1, <2>3
    <3>2. k = 1 \/ 1 < k
      BY <1>4, <2>1, <3>1
    <3>3. p = o \/ EnteredBefore(o, p)
      BY <1>4, <2>1, <3>1, <3>2
    <3> HIDE DEF o
    <3>4. o \in Nat /\ p \in Nat
      BY <2>2 DEF Windows
    <3>5. o % Word \in Int /\ p % Word \in Int
      BY <1>1, <3>4, ClassFacts
    <3>6. QED
      BY <2>3, <3>3, <3>4, <3>5 DEF EnteredBefore
  <2>4. Lookup[w] = o
    BY <1>1, LookupTyped
  <2> HIDE DEF o
  <2>5. FirstEntered(o, w)
    BY <2>2, <2>3 DEF FirstEntered
  <2>6. w \in {WeakAt(x) : x \in Windows}
    BY <2>2
  <2>7. o = Firsts[w]
    BY <1>1, <2>5, <2>6, FirstFacts
  <2>8. QED
    BY <1>6, <2>4, <2>6, <2>7
<1>9. DOMAIN Lookup = DOMAIN Firsts
  BY <1>6, <1>7, <1>8
<1>10. Lookup = [w \in DOMAIN Lookup |-> Lookup[w]] /\ Firsts = [w \in DOMAIN Firsts |-> Firsts[w]]
  BY DEF Lookup, Firsts
<1>11. QED
  BY <1>8, <1>9, <1>10

-----------------------------------------------------------------------------
(* Covering is implemented.                                                  *)

\* All that cover_hash does depends on what it finds for each block.
LEMMA CoverWithSame ==
    ASSUME NEW g, NEW h, CoverWith(g),
           \A k \in DOMAIN archive.list : Found(g, archive.list[k]) = Found(h, archive.list[k])
    PROVE  CoverWith(h)
<1> DEFINE t == [k \in DOMAIN archive.list |-> Found(g, archive.list[k])]
           u == [k \in DOMAIN archive.list |-> Found(h, archive.list[k])]
<1>1. t = u
  OBVIOUS
<1>2. \E q \in Permutations(DOMAIN t) :
         SortedBy(t, q) /\ blocks' = [k \in DOMAIN t |-> t[q[k]]]
  BY DEF CoverWith
<1>3. /\ pc' = "cover" /\ oldLen' = Len(archive.list) /\ i' = 1 /\ soFar' = 0
      /\ UNCHANGED <<file, sum, steady, archive, recovered, backups>>
  BY DEF CoverWith
<1>4. \E q \in Permutations(DOMAIN u) :
         SortedBy(u, q) /\ blocks' = [k \in DOMAIN u |-> u[q[k]]]
  <2> HIDE DEF t, u
  <2>1. QED
    BY <1>1, <1>2
<1>5. QED
  BY <1>3, <1>4 DEF CoverWith

\* With the table of a file that has not changed, or of one that has.
LEMMA CoverMaps ==
    ASSUME HashInv, HashCover
    PROVE  CoverHash
<1>1. /\ pc = "await" /\ CoverWith(Lookup)
      /\ HashReady \/ (scan = "none" /\ archive.list = <<>>)
      /\ file \in Seq(Byte) /\ archive.list \in Seq(Block)
  BY DEF HashCover, HashInv, Inv, TypeOK
<1>2. SUFFICES \E h \in Lookups :
                  \A k \in DOMAIN archive.list : Found(Lookup, archive.list[k]) = Found(h, archive.list[k])
  BY <1>1, CoverWithSame DEF CoverHash
<1>3. CASE steady
  <2>1. Firsts \in Lookups
    BY <1>3 DEF Lookups
  <2>2. HashReady => Lookup = Firsts
    BY <1>3, ReadyFindsFirst
  <2>3. archive.list = <<>> => DOMAIN archive.list = {}
    OBVIOUS
  <2>4. QED
    BY <1>1, <2>1, <2>2, <2>3
<1>4. CASE ~steady
  <2>1. /\ DOMAIN Lookup \subseteq Checksum
        /\ \A w \in DOMAIN Lookup : Lookup[w] \in Nat
    <3>1. CASE scan = "none"
      <4>1. table = NoTable
        BY <3>1 DEF HashInv, HashTypeOK
      <4>2. DOMAIN Lookup = {}
        BY <4>1 DEF Lookup, NoTable
      <4>3. QED
        BY <4>2
    <3>2. CASE scan # "none"
      <4>1. TableOK
        BY <3>2, Typed DEF HashInv
      <4>2. QED
        BY <4>1, LookupTyped, HashAssumption
    <3>3. QED
      BY <3>1, <3>2
  <2> DEFINE W == {w \in DOMAIN Lookup : Lookup[w] \in Matches}
             h == [w \in W |-> Lookup[w]]
  <2>2. h \in Lookups
    <3>1. W \in SUBSET Checksum /\ h \in [W -> Matches]
      BY <2>1
    <3>2. QED
      BY <1>4, <3>1 DEF Lookups
  <2>3. ASSUME NEW k \in DOMAIN archive.list
        PROVE  Found(Lookup, archive.list[k]) = Found(h, archive.list[k])
    <3> DEFINE b == archive.list[k]
    <3>1. b \in Block /\ b.length \in Nat /\ Len(file) \in Nat
      <4>1. b \in Block
        BY <1>1
      <4> HIDE DEF b
      <4>2. b.length \in Nat
        BY <4>1 DEF Block
      <4>3. QED
        BY <1>1, <4>1, <4>2
    <3>2. CASE b.weak \in DOMAIN Lookup /\ StrongMatch(Lookup[b.weak], b)
      <4>1. Lookup[b.weak] \in 0 .. Len(file)
        BY <2>1, <3>1, <3>2 DEF StrongMatch
      <4>2. Lookup[b.weak] \in Matches
        BY <3>2, <4>1 DEF Matches
      <4>3. b.weak \in DOMAIN h /\ h[b.weak] = Lookup[b.weak]
        BY <3>2, <4>2
      <4> HIDE DEF h, b
      <4>4. Found(Lookup, b) = Found(h, b)
        BY <3>2, <4>3 DEF Found
      <4>5. QED
        BY <4>4 DEF b
    <3>3. CASE ~(b.weak \in DOMAIN Lookup /\ StrongMatch(Lookup[b.weak], b))
      <4>1. ~(b.weak \in DOMAIN h /\ StrongMatch(h[b.weak], b))
        <5>1. b.weak \in DOMAIN h => b.weak \in DOMAIN Lookup /\ h[b.weak] = Lookup[b.weak]
          OBVIOUS
        <5> HIDE DEF h, b
        <5>2. QED
          BY <3>3, <5>1
      <4> HIDE DEF h, b
      <4>2. Found(Lookup, b) = Found(h, b)
        BY <3>3, <4>1 DEF Found
      <4>3. QED
        BY <4>2 DEF b
    <3>4. QED
      BY <3>2, <3>3
  <2> HIDE DEF h
  <2>4. QED
    BY <2>2, <2>3
<1>5. QED
  BY <1>3, <1>4

LEMMA HashMaps ==
    ASSUME HashInv, [HashNext]_<<vars, hashVars>>
    PROVE  [Next]_vars
<1>1. CASE HashCover
  BY <1>1, CoverMaps DEF Next, CoverStep
<1>2. CASE HashStart \/ HashPass \/ HashTurn \/ UNCHANGED <<vars, hashVars>>
  BY <1>2 DEF HashStart, HashPass, HashTurn
<1>3. CASE Interrupt
  BY <1>3 DEF Next, SendStep
<1>4. CASE OtherStep
  BY <1>4 DEF OtherStep, Next, CoverStep, SendStep
<1>5. QED
  BY <1>1, <1>2, <1>3, <1>4 DEF HashNext, HashStep

LEMMA HashInitInv ==
    HashInit => HashInv
<1> SUFFICES ASSUME HashInit PROVE HashInv
  OBVIOUS
<1>1. /\ Init /\ scan = "none" /\ init = 0 /\ table = NoTable /\ local = NoLocal
  BY DEF HashInit
<1>2. Inv
  BY <1>1, InitInv
<1>3. init \in 0 .. Word /\ local \in Local
  BY <1>1, NoLocalTyped, SumConstants
<1>4. \A w \in DOMAIN table : table[w] \in Seq([key : {w}, value : Nat])
  BY <1>1 DEF NoTable
<1>5. HashTypeOK
  BY <1>1, <1>3, <1>4 DEF HashTypeOK, Local
<1>6. QED
  BY <1>1, <1>2, <1>5 DEF HashInv, SumsRoll, FirstInv

LEMMA HashNextInv ==
    ASSUME HashInv, [HashNext]_<<vars, hashVars>>
    PROVE  HashInv'
<1>1. Inv'
  <2>1. [Next]_vars
    BY HashMaps
  <2>2. QED
    BY <2>1, NextInv DEF HashInv
<1>2. ScanInv'
  <2>1. CASE HashStart
    BY <2>1, StartScan
  <2>2. CASE HashPass
    BY <2>2, PassScan
  <2>3. CASE HashTurn
    BY <2>3, TurnScan
  <2>4. CASE HashCover \/ (Interrupt /\ HashDestroy)
    BY <2>4, DestroyScan DEF HashCover
  <2>5. CASE OtherStep /\ UNCHANGED hashVars
    BY <2>5, OtherScan
  <2>6. CASE UNCHANGED <<vars, hashVars>>
    <3>1. /\ scan' = scan /\ init' = init /\ table' = table /\ local' = local
          /\ pc' = pc /\ file' = file /\ steady' = steady
      BY <2>6 DEF vars, loopVars, hashVars
    <3>2. HashTypeOK'
      BY <3>1 DEF HashInv, HashTypeOK
    <3>3. SumsRoll'
      BY <3>1 DEF HashInv, SumsRoll, Window
    <3>4. EnteredSoFar' = EnteredSoFar /\ (AtOffset' <=> AtOffset)
      <4>1. Windows' = Windows
        BY <3>1 DEF Windows
      <4>2. QED
        BY <3>1, <4>1 DEF EnteredSoFar, AtOffset
    <3>5. FirstInv'
      BY <3>1, <3>4 DEF HashInv, FirstInv
    <3>6. QED
      BY <3>2, <3>3, <3>5 DEF ScanInv
  <2>7. QED
    BY <2>1, <2>2, <2>3, <2>4, <2>5, <2>6 DEF HashNext, HashStep
<1>3. QED
  BY <1>1, <1>2 DEF HashInv, ScanInv

LEMMA HashInvariant ==
    HashSpec => []HashInv
BY HashInitInv, HashNextInv, PTL DEF HashSpec

\* The variables of the scan and the table have their types.
THEOREM HashTyped == HashSpec => []HashTypeOK
<1>1. HashInv => HashTypeOK
  BY DEF HashInv
<1>2. QED
  BY <1>1, HashInvariant, PTL

\* The checksum that is rolled along the file, whatever happens to the file meanwhile,
\* is the checksum of the bytes in the window.
THEOREM ChecksumRolls == HashSpec => []SumsRoll
<1>1. HashInv => SumsRoll
  BY DEF HashInv
<1>2. QED
  BY <1>1, HashInvariant, PTL

\* The scan of an unchanged file enters every offset at which a block begins, and
\* hash_find returns the first one.
THEOREM FirstIsFound == HashSpec => []FindsFirst
<1>1. HashInv => FindsFirst
  BY ReadyFindsFirst DEF FindsFirst
<1>2. QED
  BY <1>1, HashInvariant, PTL

\* The scan, the checksum and the table implement what Covering says of hash_find.
THEOREM ScanImplementsCovering == HashSpec => Implements
<1>1. HashInit => Init
  BY DEF HashInit
<1>2. HashInv /\ [HashNext]_<<vars, hashVars>> => [Next]_vars
  BY HashMaps
<1>3. QED
  BY <1>1, <1>2, HashInvariant, PTL DEF HashSpec, Spec, Implements

\* With them, then, kept blocks are in the file, the cover reaches all but its end, and
\* what is extracted is true.
THEOREM ScanIsTrue == HashSpec => [](KeptIsThere /\ CoverReaches /\ ExtractTrue)
BY ScanImplementsCovering, KeptBlocksAreThere, CoverLeavesOnlyTheEnd, ExtractionIsTrue, PTL
   DEF Implements
=============================================================================
