-------------------------- MODULE BlockStoreProofs --------------------------
(***************************************************************************)
(* Theorems about BlockStore, for any processes, keys, contents and names  *)
(* and any number of ids, texts and faults: the types, that what opens was *)
(* given to this block or name in one piece, and that a read that no write *)
(* overlaps brings what the last undisturbed write left.                   *)
(*                                                                         *)
(* Two arguments carry them.  Alone: a write that no other overlaps finds  *)
(* its file empty when it fills it, and a read that no write overlaps      *)
(* finds it as it was measured.  Owned: every chunk of what a file holds,  *)
(* has held, will hold or was read from is of a text that was sealed for   *)
(* that file, so that a mixture of writes, or what a stop of the machine   *)
(* leaves of them, opens as a text of that file or as none.                *)
(***************************************************************************)
EXTENDS BlockStore, TLAPS

-----------------------------------------------------------------------------
(* The data. *)

WriteRec == [op : {"write"}, path : Path, data : Cipher, alone : BOOLEAN]
ReadRec  == [op : {"read"}, path : Path, len : 0 .. 2, alone : BOOLEAN,
             key : PhraseKey \cup {None}]

\* A cipher in memory or in a file is a short sequence.
LEMMA CipherIsShort ==
    \A c : c \in Cipher <=> c \in Seq(Chunk) /\ Len(c) \in 0 .. 2
<1>1. ASSUME NEW c \in Cipher PROVE c \in Seq(Chunk) /\ Len(c) \in 0 .. 2
  <2>1. PICK n \in 0 .. 2 : c \in [1 .. n -> Chunk]
    BY DEF Cipher
  <2>2. QED
    BY <2>1
<1>2. ASSUME NEW c, c \in Seq(Chunk), Len(c) \in 0 .. 2 PROVE c \in Cipher
  <2>1. c \in [1 .. Len(c) -> Chunk]
    BY <1>2
  <2>2. QED
    BY <1>2, <2>1 DEF Cipher
<1>3. QED
  BY <1>1, <1>2

\* A block that was not read or given anything, and a file that was truncated.
LEMMA NoCipher == <<>> \in Cipher
<1>1. <<>> \in Seq(Chunk) /\ Len(<<>>) \in 0 .. 2
  OBVIOUS
<1>2. QED
  BY <1>1, CipherIsShort

\* A new text, whole.
LEMMA WholeIsCipher ==
    ASSUME NEW n \in 1 .. MaxText, NEW size \in 1 .. 2
    PROVE  /\ Whole(n, size) \in Cipher
           /\ DOMAIN Whole(n, size) = 1 .. size
           /\ \A i \in 1 .. size : Whole(n, size)[i] = <<n, i>> /\ <<n, i>> # Junk
<1>1. \A i \in 1 .. size : <<n, i>> \in Chunk /\ <<n, i>> # Junk
  BY DEF Chunk, Junk
<1>2. Whole(n, size) \in [1 .. size -> Chunk]
  BY <1>1 DEF Whole
<1>3. QED
  BY <1>1, <1>2 DEF Cipher, Whole

\* Two sequences, one behind the other.
LEMMA ConcatFacts ==
    ASSUME NEW S, NEW p \in Seq(S), NEW q \in Seq(S)
    PROVE  /\ p \o q \in Seq(S) /\ Len(p \o q) = Len(p) + Len(q)
           /\ Len(p) \in Nat /\ Len(q) \in Nat
           /\ DOMAIN p = 1 .. Len(p) /\ DOMAIN q = 1 .. Len(q)
           /\ DOMAIN (p \o q) = 1 .. Len(p) + Len(q)
           /\ \A i \in 1 .. Len(p) : (p \o q)[i] = p[i]
           /\ \A i \in 1 .. Len(q) : (p \o q)[Len(p) + i] = q[i]
OBVIOUS

\* What is written over a file, as a whole or in part.
LEMMA OverlayIsCipher ==
    ASSUME NEW c \in Cipher, NEW old \in Cipher
    PROVE  /\ Overlay(c, old) \in Cipher
           /\ Overlay(c, <<>>) = c
           /\ \A i \in DOMAIN Overlay(c, old) :
                 \/ i \in DOMAIN c /\ Overlay(c, old)[i] = c[i]
                 \/ i \in DOMAIN old /\ Overlay(c, old)[i] = old[i]
<1>1. c \in Seq(Chunk) /\ Len(c) \in 0 .. 2 /\ old \in Seq(Chunk) /\ Len(old) \in 0 .. 2
  BY CipherIsShort
<1> DEFINE rest == SubSeq(old, Len(c) + 1, Len(old))
<1>2. /\ rest \in Seq(Chunk)
      /\ Len(rest) = IF Len(c) + 1 <= Len(old) THEN Len(old) - Len(c) ELSE 0
      /\ \A i \in 1 .. Len(rest) : rest[i] = old[Len(c) + i] /\ Len(c) + i \in 1 .. Len(old)
  BY <1>1
<1> HIDE DEF rest
<1>3. Overlay(c, old) = c \o rest
  BY DEF Overlay, rest
<1>4. /\ c \o rest \in Seq(Chunk) /\ Len(c \o rest) = Len(c) + Len(rest)
      /\ Len(c) \in Nat /\ Len(rest) \in Nat
      /\ DOMAIN c = 1 .. Len(c) /\ DOMAIN (c \o rest) = 1 .. Len(c) + Len(rest)
      /\ \A i \in 1 .. Len(c) : (c \o rest)[i] = c[i]
      /\ \A i \in 1 .. Len(rest) : (c \o rest)[Len(c) + i] = rest[i]
  BY <1>1, <1>2, ConcatFacts
<1>5. ASSUME NEW i \in 1 .. Len(c) + Len(rest)
      PROVE  \/ i \in DOMAIN c /\ (c \o rest)[i] = c[i]
             \/ i \in DOMAIN old /\ (c \o rest)[i] = old[i]
  <2>1. i \in 1 .. Len(c) \/ \E j \in 1 .. Len(rest) : i = Len(c) + j
    <3>1. i > Len(c) => i - Len(c) \in 1 .. Len(rest) /\ i = Len(c) + (i - Len(c))
      BY <1>4
    <3>2. i \in 1 .. Len(c) \/ i > Len(c)
      BY <1>4
    <3>3. QED
      BY <3>1, <3>2
  <2>2. DOMAIN old = 1 .. Len(old)
    BY <1>1
  <2>3. QED
    BY <1>2, <1>4, <2>1, <2>2
<1>6. Overlay(c, <<>>) = c
  BY <1>1 DEF Overlay
<1>7. QED
  <2>1. Len(c) + Len(rest) \in 0 .. 2
    BY <1>1, <1>2
  <2>2. QED
    BY <1>3, <1>4, <1>5, <1>6, <2>1, CipherIsShort

\* What a write that is cut short has written.
LEMMA PartIsCipher ==
    ASSUME NEW c \in Cipher, NEW k \in 0 .. 1, k = 0 \/ k < Len(c)
    PROVE  /\ SubSeq(c, 1, k) \in Cipher
           /\ \A i \in DOMAIN SubSeq(c, 1, k) : i \in DOMAIN c /\ SubSeq(c, 1, k)[i] = c[i]
<1>1. c \in Seq(Chunk) /\ Len(c) \in 0 .. 2
  BY CipherIsShort
<1>2. /\ SubSeq(c, 1, k) \in Seq(Chunk) /\ Len(SubSeq(c, 1, k)) = k
      /\ DOMAIN SubSeq(c, 1, k) = 1 .. k /\ DOMAIN c = 1 .. Len(c)
      /\ \A i \in 1 .. k : SubSeq(c, 1, k)[i] = c[i] /\ i \in 1 .. Len(c)
      /\ k \in 0 .. 2
  BY <1>1
<1>3. QED
  BY <1>2, CipherIsShort

\* What a stop of the machine may leave of a file.
LEMMA FirstPartIsCipher ==
    ASSUME NEW c \in Cipher, NEW k \in 0 .. Len(c)
    PROVE  /\ SubSeq(c, 1, k) \in Cipher
           /\ \A i \in DOMAIN SubSeq(c, 1, k) : i \in DOMAIN c /\ SubSeq(c, 1, k)[i] = c[i]
<1>1. c \in Seq(Chunk) /\ Len(c) \in 0 .. 2
  BY CipherIsShort
<1>2. k \in 0 .. 2 /\ k <= Len(c)
  <2>1. ASSUME NEW n \in 0 .. 2, NEW i \in 0 .. n PROVE i \in 0 .. 2 /\ i <= n
    OBVIOUS
  <2>2. QED
    BY <1>1, <2>1
<1>3. SubSeq(c, 1, k) \in Seq(Chunk) /\ Len(SubSeq(c, 1, k)) = k
  BY <1>1, <1>2
<1>4. DOMAIN SubSeq(c, 1, k) = 1 .. k /\ DOMAIN c = 1 .. Len(c)
  BY <1>1, <1>3
<1>5. \A i \in 1 .. k : SubSeq(c, 1, k)[i] = c[i] /\ i \in 1 .. Len(c)
  BY <1>1, <1>2
<1>6. QED
  BY <1>2, <1>3, <1>4, <1>5, CipherIsShort

\* What is read from a file that may have changed since it was measured.
LEMMA ContentsIsCipher ==
    ASSUME NEW q, file[q] \in Cipher, NEW len \in 0 .. 2
    PROVE  /\ Contents(q, len) \in Cipher
           /\ len = Len(file[q]) => Contents(q, len) = file[q]
           /\ \A i \in DOMAIN Contents(q, len) :
                 \/ Contents(q, len)[i] = Junk
                 \/ i \in DOMAIN file[q] /\ Contents(q, len)[i] = file[q][i]
<1>1. file[q] \in Seq(Chunk) /\ Junk \in Chunk
  BY CipherIsShort DEF Chunk
<1>2. Contents(q, len) \in [1 .. len -> Chunk]
  BY <1>1 DEF Contents
<1>3. ASSUME len = Len(file[q]) PROVE Contents(q, len) = file[q]
  BY <1>1, <1>3 DEF Contents
<1>4. Contents(q, len) \in Cipher
  BY <1>2 DEF Cipher
<1>5. QED
  BY <1>1, <1>3, <1>4 DEF Contents

-----------------------------------------------------------------------------
(* The invariants. *)

\* A process that is at a file is at one that exists.
Busy(p) == pc[p].op # "idle" => pc[p].path \in DOMAIN file

\* A write that is alone will fill an empty file that no other write is at.
AloneWrite(p) ==
    (pc[p].op = "write" /\ pc[p].alone) =>
        /\ file[pc[p].path] = <<>>
        /\ \A r \in Process \ {p} : pc[r].op = "write" => pc[r].path # pc[p].path

\* A read that is alone will find the file as it was measured.
AloneRead(p) ==
    (pc[p].op = "read" /\ pc[p].alone) =>
        /\ \A r \in Process : pc[r].op = "write" => pc[r].path # pc[p].path
        /\ pc[p].len = Len(file[pc[p].path])

\* A file holds what the last write that ran alone put there, until the next one.
KeepsLast == \A q \in DOMAIN last : Writing(q) = {} => file[q] = last[q]

FileInv == KeepsLast /\ \A p \in Process : Busy(p) /\ AloneWrite(p) /\ AloneRead(p)

\* Text t was sealed for file q.
Owns(q, t) == \/ \E id \in Id : q = BlockToFilename(id) /\ t.for = id
              \/ \E name \in Name : /\ q = ConfigName(name) /\ t.for = name
                                    /\ t.data \in Stored

\* Every chunk of c is of a text that was sealed for file q.
Owned(q, c) == \A i \in DOMAIN c : c[i] # Junk => /\ c[i][1] \in DOMAIN texts
                                                  /\ Owns(q, texts[c[i][1]])

\* A Config that has a name was saved under it, as it is.
Saved(o) == \E n \in DOMAIN texts : /\ texts[n].for = o.name
                                    /\ texts[n].data = [root |-> o.root, key |-> o.key]

\* What process p holds is its own file's, and what it reads is for what it holds.
Holds(p) ==
    /\ Has(p, "block") => Owned(BlockToFilename(object[p].id), object[p].cipher)
    /\ (Has(p, "config") /\ object[p].name # None) => Saved(object[p])
    /\ pc[p].op = "write" => Owned(pc[p].path, pc[p].data)
    /\ pc[p].op = "read" =>
          IF pc[p].key = None
          THEN Has(p, "block") /\ pc[p].path = BlockToFilename(object[p].id)
          ELSE \E name \in Name : pc[p].path = ConfigName(name)

OwnInv == /\ \A q \in DOMAIN file : Owned(q, file[q])
          /\ \A q \in Path : \A v \in versions[q] \ {None} : Owned(q, v)
          /\ \A p \in Process : Holds(p)

\* While the machine is down no process is at a file.
DownInv == ~up => last = <<>> /\ \A p \in Process : pc[p].op = "idle"

Inv == TypeOK /\ FileInv /\ OwnInv /\ DownInv

-----------------------------------------------------------------------------
(* What a step does to files: one of five things. *)

\* The step is about memory alone.
Rests(p) == pc[p] = Idle /\ UNCHANGED <<pc, file, versions, last>>

StartsWrite(p, q, c) == pc[p] = Idle /\ OpenToWrite(p, q, c) /\ UNCHANGED last

StartsRead(p, q, key) == /\ pc[p] = Idle /\ OpenToRead(p, q, key)
                         /\ UNCHANGED <<file, versions, last>>

\* All or a first part c of the data is written; only all of it is remembered.
EndsWrite(p, c) ==
    /\ pc[p].op = "write" /\ pc' = [pc EXCEPT ![p] = Idle]
    /\ Stores(pc[p].path, Overlay(c, file[pc[p].path]))
    /\ \A i \in DOMAIN c : i \in DOMAIN pc[p].data /\ c[i] = pc[p].data[i]
    /\ \/ Disturbs(pc[p].path)
       \/ /\ pc[p].alone /\ c = pc[p].data
          /\ last' = [r \in DOMAIN last \cup {pc[p].path} |->
                         IF r = pc[p].path THEN c ELSE last[r]]

EndsRead(p) == /\ pc[p].op = "read" /\ pc' = [pc EXCEPT ![p] = Idle]
               /\ UNCHANGED <<file, versions, last>>

Shape(p) == \/ Rests(p)
            \/ \E q \in Path, c \in Cipher : StartsWrite(p, q, c)
            \/ \E q \in Path, key \in PhraseKey \cup {None} : StartsRead(p, q, key)
            \/ \E c \in Cipher : EndsWrite(p, c)
            \/ EndsRead(p)

\* The fields of what a process does at a file.
WriteFacts(d) == /\ d.op = "write" /\ d # Idle /\ d \in WriteRec
                 /\ d.path \in Path /\ d.data \in Cipher /\ d.alone \in BOOLEAN
                 /\ [d EXCEPT !.alone = FALSE] \in WriteRec
ReadFacts(d) == /\ d.op = "read" /\ d # Idle /\ d \in ReadRec
                /\ d.path \in Path /\ d.len \in 0 .. 2 /\ d.alone \in BOOLEAN
                /\ d.key \in PhraseKey \cup {None}
                /\ [d EXCEPT !.alone = FALSE] \in ReadRec

\* What a process does: nothing, or a write or a read with its fields.
LEMMA DoingFacts ==
    \A d \in Doing : (d = Idle /\ d.op = "idle") \/ WriteFacts(d) \/ ReadFacts(d)
<1>1. Idle.op = "idle"
  BY DEF Idle
<1>2. ASSUME NEW d \in WriteRec PROVE WriteFacts(d)
  <2>1. d.op = "write" /\ d # Idle
    BY <1>1 DEF WriteRec
  <2>2. d.path \in Path /\ d.data \in Cipher /\ d.alone \in BOOLEAN
    BY DEF WriteRec
  <2>3. [d EXCEPT !.alone = FALSE] \in WriteRec
    BY DEF WriteRec
  <2>4. QED
    BY <2>1, <2>2, <2>3 DEF WriteFacts
<1>3. ASSUME NEW d \in ReadRec PROVE ReadFacts(d)
  <2>1. d.op = "read" /\ d # Idle
    BY <1>1 DEF ReadRec
  <2>2. d.path \in Path /\ d.len \in 0 .. 2 /\ d.alone \in BOOLEAN /\ d.key \in PhraseKey \cup {None}
    BY DEF ReadRec
  <2>3. [d EXCEPT !.alone = FALSE] \in ReadRec
    BY DEF ReadRec
  <2>4. QED
    BY <2>1, <2>2, <2>3 DEF ReadFacts
<1>4. QED
  BY <1>1, <1>2, <1>3 DEF Doing, WriteRec, ReadRec

\* What is in memory: a block, a Config, or nothing.
LEMMA ObjectFacts ==
    ASSUME TypeOK, NEW p \in Process
    PROVE  /\ Has(p, "block") => /\ object[p] \in Block
                                 /\ object[p].id \in Id /\ object[p].key \in Key
                                 /\ object[p].cipher \in Cipher
                                 /\ BlockToFilename(object[p].id) \in Path
           /\ Has(p, "config") => /\ object[p] \in Config
                                  /\ object[p].root \in Id
                                  /\ object[p].key \in PhraseKey \cup {None}
                                  /\ object[p].name \in Name \cup {None}
           /\ ~(Has(p, "block") /\ Has(p, "config"))
<1>1. object[p] \in Block \cup Config \cup {None}
  BY DEF TypeOK
<1>2. CASE object[p] \in Block
  BY <1>2 DEF Has, Block, Path
<1>3. CASE object[p] \in Config
  BY <1>3 DEF Has, Config
<1>4. CASE object[p] = None
  BY <1>4 DEF Has
<1>5. QED
  BY <1>1, <1>2, <1>3, <1>4

\* A write that is cut short.
LEMMA CutShort ==
    ASSUME TypeOK, NEW p \in Process, pc[p].op = "write", FillsInPart(p),
           pc' = [pc EXCEPT ![p] = Idle]
    PROVE  \E c \in Cipher : EndsWrite(p, c)
<1>1. PICK k \in 0 .. 1 : /\ k = 0 \/ k < Len(pc[p].data)
                          /\ Stores(pc[p].path, Overlay(SubSeq(pc[p].data, 1, k), file[pc[p].path]))
                          /\ Disturbs(pc[p].path)
  BY DEF FillsInPart
<1>2. pc[p].data \in Cipher
  BY DoingFacts DEF TypeOK, WriteFacts, ReadFacts, Idle
<1>3. QED
  BY <1>1, <1>2, PartIsCipher DEF EndsWrite

\* Every step has one of the five shapes.
LEMMA StepShape ==
    ASSUME TypeOK, NEW p \in Process, Step(p)
    PROVE  Shape(p)
<1>2. CASE NewEmpty(p) \/ NewBlock(p) \/ BlockById(p) \/ SetContent(p) \/ NewConfig(p)
           \/ SaveAborts(p)
  <2>1. Rests(p)
    BY <1>2 DEF NewEmpty, NewBlock, BlockById, SetContent, NewConfig, SaveAborts, Saves, Quiet,
                Makable, storeVars, Rests
  <2>2. QED
    BY <2>1 DEF Shape
<1>3. CASE Write(p)
  BY <1>3, ObjectFacts DEF Write, Shape, StartsWrite
<1>4. CASE Save(p) \/ SaveAs(p)
  <2>1. \A name \in Name : ConfigName(name) \in Path
    BY DEF Path
  <2>2. CanSeal => Whole(Len(texts) + 1, 1) \in Cipher
    <3>1. CanSeal => Len(texts) + 1 \in 1 .. MaxText
      BY StoreAssumption DEF CanSeal, TypeOK
    <3>2. QED
      BY <3>1, WholeIsCipher
  <2>3. CASE Save(p)
    <3>1. object[p].name \in Name /\ Archive(p, object[p]) /\ pc[p] = Idle /\ UNCHANGED last
      BY <2>3, ObjectFacts DEF Save, Saves, Quiet
    <3>2. QED
      BY <2>1, <2>2, <3>1 DEF Archive, Shape, StartsWrite
  <2>4. CASE SaveAs(p)
    <3>1. PICK name \in Name, phrase \in Phrase :
             /\ Saves(p)
             /\ Archive(p, [object[p] EXCEPT !.name = name, !.key = PhraseToKey(phrase)])
      BY <2>4 DEF SaveAs
    <3>2. [object[p] EXCEPT !.name = name, !.key = PhraseToKey(phrase)].name = name
      BY <3>1, ObjectFacts DEF Saves, Config
    <3>3. StartsWrite(p, ConfigName(name), Whole(Len(texts) + 1, 1)) /\ CanSeal
      BY <3>1, <3>2 DEF Saves, Quiet, Archive, StartsWrite
    <3>4. QED
      BY <2>1, <2>2, <3>3 DEF Shape
  <2>5. QED
    BY <1>4, <2>3, <2>4
<1>5. CASE Read(p)
  BY <1>5, ObjectFacts DEF Read, Shape, StartsRead, storeVars
<1>6. CASE Load(p)
  <2>1. \A name \in Name : ConfigName(name) \in Path
    BY DEF Path
  <2>2. \A phrase \in Phrase : PhraseToKey(phrase) \in PhraseKey
    BY DEF PhraseKey
  <2>3. QED
    BY <1>6, <2>1, <2>2 DEF Load, Shape, StartsRead, storeVars
<1>7. CASE Fill(p)
  <2>1. pc[p].data \in Cipher
    BY <1>7, DoingFacts DEF TypeOK, Fill, WriteFacts, ReadFacts, Idle
  <2>2. EndsWrite(p, pc[p].data)
    BY <1>7 DEF Fill, EndsWrite
  <2>3. QED
    BY <2>1, <2>2 DEF Shape
<1>8. CASE FillFails(p) \/ Crash(p)
  BY <1>8, CutShort DEF FillFails, Crash, Shape
<1>9. CASE Fetch(p) \/ Rehydrate(p)
  BY <1>9 DEF Fetch, Rehydrate, EndsRead, Shape, storeVars
<1>10. QED
  BY <1>2, <1>3, <1>4, <1>5, <1>6, <1>7, <1>8, <1>9 DEF Step

-----------------------------------------------------------------------------
(* Files. *)

FileTypes == /\ DOMAIN file \subseteq Path /\ \A q \in DOMAIN file : file[q] \in Cipher
             /\ pc \in [Process -> Doing]
             /\ DOMAIN last \subseteq DOMAIN file /\ \A q \in DOMAIN last : last[q] \in Cipher

\* What OpenToWrite does to process r.
LEMMA Opening ==
    ASSUME pc \in [Process -> Doing], NEW p \in Process, NEW q \in Path, NEW c \in Cipher,
           OpenToWrite(p, q, c), pc[p] = Idle
    PROVE  /\ pc' \in [Process -> Doing]
           /\ WriteFacts(pc'[p]) /\ pc'[p].path = q /\ pc'[p].data = c
           /\ pc'[p].alone = (Writing(q) = {})
           /\ \A r \in Process \ {p} :
                 \/ pc[r].op = "idle" /\ pc'[r] = pc[r]
                 \/ /\ WriteFacts(pc[r]) /\ WriteFacts(pc'[r])
                    /\ pc'[r].path = pc[r].path /\ pc'[r].data = pc[r].data
                    /\ pc'[r].alone => pc[r].alone /\ pc[r].path # q
                 \/ /\ ReadFacts(pc[r]) /\ ReadFacts(pc'[r])
                    /\ pc'[r].path = pc[r].path /\ pc'[r].len = pc[r].len
                    /\ pc'[r].key = pc[r].key
                    /\ pc'[r].alone => pc[r].alone /\ pc[r].path # q
<1> DEFINE mine == [op |-> "write", path |-> q, data |-> c, alone |-> Writing(q) = {}]
<1>1. pc' = [r \in Process |-> IF r = p THEN mine
                               ELSE IF pc[r] # Idle /\ pc[r].path = q
                                    THEN [pc[r] EXCEPT !.alone = FALSE] ELSE pc[r]]
  BY DEF OpenToWrite
<1>2. mine \in WriteRec /\ mine.path = q /\ mine.data = c /\ mine.alone = (Writing(q) = {})
  BY DEF WriteRec
<1> HIDE DEF mine
<1>3. \A d \in WriteRec \cup ReadRec : d \in Doing
  BY DEF Doing, WriteRec, ReadRec
<1>4. WriteFacts(mine)
  <2>1. mine.op = "write"
    BY <1>2 DEF WriteRec
  <2>2. QED
    BY <1>2, <1>3, <2>1, DoingFacts DEF ReadFacts, Idle
<1>5. ASSUME NEW r \in Process \ {p}
      PROVE  /\ pc'[r] \in Doing
             /\ \/ pc[r].op = "idle" /\ pc'[r] = pc[r]
                \/ /\ WriteFacts(pc[r]) /\ WriteFacts(pc'[r])
                   /\ pc'[r].path = pc[r].path /\ pc'[r].data = pc[r].data
                   /\ pc'[r].alone => pc[r].alone /\ pc[r].path # q
                \/ /\ ReadFacts(pc[r]) /\ ReadFacts(pc'[r])
                   /\ pc'[r].path = pc[r].path /\ pc'[r].len = pc[r].len
                   /\ pc'[r].key = pc[r].key
                   /\ pc'[r].alone => pc[r].alone /\ pc[r].path # q
  <2>1. pc'[r] = IF pc[r] # Idle /\ pc[r].path = q THEN [pc[r] EXCEPT !.alone = FALSE] ELSE pc[r]
    BY <1>1
  <2>2. CASE pc[r] = Idle
    BY <2>1, <2>2 DEF Idle
  <2>3. CASE WriteFacts(pc[r])
    <3>1. CASE pc[r].path = q
      <4>1. pc'[r] = [pc[r] EXCEPT !.alone = FALSE] /\ pc'[r] \in WriteRec
        BY <2>1, <2>3, <3>1 DEF WriteFacts
      <4>2. /\ pc'[r].op = "write" /\ pc'[r].path = pc[r].path /\ pc'[r].data = pc[r].data
            /\ pc'[r].alone = FALSE
        BY <2>3, <4>1 DEF WriteFacts, WriteRec
      <4>3. WriteFacts(pc'[r])
        BY <1>3, <4>1, <4>2, DoingFacts DEF ReadFacts, Idle
      <4>4. QED
        BY <1>3, <2>3, <4>1, <4>2, <4>3
    <3>2. CASE pc[r].path # q
      BY <1>3, <2>1, <2>3, <3>2 DEF WriteFacts
    <3>3. QED
      BY <3>1, <3>2
  <2>4. CASE ReadFacts(pc[r])
    <3>1. CASE pc[r].path = q
      <4>1. pc'[r] = [pc[r] EXCEPT !.alone = FALSE] /\ pc'[r] \in ReadRec
        BY <2>1, <2>4, <3>1 DEF ReadFacts
      <4>2. /\ pc'[r].op = "read" /\ pc'[r].path = pc[r].path /\ pc'[r].len = pc[r].len
            /\ pc'[r].key = pc[r].key /\ pc'[r].alone = FALSE
        BY <2>4, <4>1 DEF ReadFacts, ReadRec
      <4>3. ReadFacts(pc'[r])
        BY <1>3, <4>1, <4>2, DoingFacts DEF WriteFacts, Idle
      <4>4. QED
        BY <1>3, <2>4, <4>1, <4>2, <4>3
    <3>2. CASE pc[r].path # q
      BY <1>3, <2>1, <2>4, <3>2 DEF ReadFacts
    <3>3. QED
      BY <3>1, <3>2
  <2>5. QED
    BY <2>2, <2>3, <2>4, DoingFacts
<1>6. pc'[p] = mine /\ mine \in Doing
  BY <1>1, <1>2, <1>3
<1>7. pc' \in [Process -> Doing]
  <2>1. \A r \in Process : pc'[r] \in Doing
    BY <1>5, <1>6
  <2>2. QED
    BY <1>1, <2>1
<1>8. QED
  BY <1>2, <1>4, <1>5, <1>6, <1>7

\* The types of what a step does to files.
LEMMA ShapeTypes ==
    ASSUME FileTypes, NEW p \in Process, Shape(p), Busy(p)
    PROVE  FileTypes'
<1>1. Idle \in Doing /\ <<>> \in Cipher
  BY NoCipher DEF Doing
<1>2. CASE Rests(p)
  BY <1>2 DEF Rests, FileTypes
<1>3. ASSUME NEW q \in Path, NEW c \in Cipher, StartsWrite(p, q, c) PROVE FileTypes'
  <2>1. pc' \in [Process -> Doing]
    BY <1>3, Opening DEF StartsWrite, FileTypes
  <2>2. file' = [r \in DOMAIN file \cup {q} |-> IF r = q THEN <<>> ELSE file[r]] /\ last' = last
    BY <1>3 DEF StartsWrite, OpenToWrite, Stores, Truncated
  <2>3. QED
    BY <1>1, <2>1, <2>2 DEF FileTypes
<1>4. ASSUME NEW q \in Path, NEW key \in PhraseKey \cup {None}, StartsRead(p, q, key)
      PROVE  FileTypes'
  <2> DEFINE mine == [op |-> "read", path |-> q, len |-> Measure(q),
                      alone |-> Writing(q) = {}, key |-> key]
  <2>1. q \in DOMAIN file /\ pc' = [pc EXCEPT ![p] = mine] /\ UNCHANGED <<file, last>>
    BY <1>4 DEF StartsRead, OpenToRead
  <2>2. Measure(q) \in 0 .. 2
    BY <2>1, CipherIsShort DEF Measure, FileTypes
  <2>3. mine \in ReadRec
    BY <2>2 DEF ReadRec
  <2>4. mine \in Doing
    BY <2>3 DEF Doing, ReadRec
  <2>5. QED
    BY <2>1, <2>4 DEF FileTypes
<1>5. ASSUME NEW c \in Cipher, EndsWrite(p, c) PROVE FileTypes'
  <2> DEFINE q == pc[p].path
             new == Overlay(c, file[q])
  <2>1. q \in Path /\ q \in DOMAIN file
    BY <1>5, DoingFacts DEF EndsWrite, FileTypes, WriteFacts, ReadFacts, Busy
  <2>2. new \in Cipher
    BY <2>1, OverlayIsCipher DEF FileTypes
  <2>3. /\ file' = [r \in DOMAIN file \cup {q} |-> IF r = q THEN new ELSE file[r]]
        /\ pc' = [pc EXCEPT ![p] = Idle]
        /\ \/ last' = [r \in DOMAIN last \ {q} |-> last[r]]
           \/ last' = [r \in DOMAIN last \cup {q} |-> IF r = q THEN c ELSE last[r]]
    BY <1>5 DEF EndsWrite, Stores, Disturbs
  <2> HIDE DEF new, q
  <2>4. QED
    BY <1>1, <2>1, <2>2, <2>3 DEF FileTypes
<1>6. CASE EndsRead(p)
  BY <1>1, <1>6 DEF EndsRead, FileTypes
<1>7. QED
  BY <1>2, <1>3, <1>4, <1>5, <1>6 DEF Shape

\* Nobody writes q: in terms of each process.
LEMMA NobodyWrites ==
    \A q : Writing(q) = {} <=> \A r \in Process : pc[r].op = "write" => pc[r].path # q
BY DEF Writing

\* A file is opened for writing.
LEMMA FileStartsWrite ==
    ASSUME FileTypes, FileInv, NEW p \in Process, NEW q \in Path, NEW c \in Cipher,
           StartsWrite(p, q, c)
    PROVE  FileInv'
<1>1. /\ file' = [r \in DOMAIN file \cup {q} |-> IF r = q THEN <<>> ELSE file[r]]
      /\ last' = last
  BY DEF StartsWrite, OpenToWrite, Stores, Truncated
<1>2. /\ WriteFacts(pc'[p]) /\ pc'[p].path = q /\ pc'[p].data = c
      /\ pc'[p].alone = (Writing(q) = {})
  BY Opening DEF StartsWrite, FileTypes
<1>3. \A r \in Process \ {p} :
         \/ pc[r].op = "idle" /\ pc'[r] = pc[r]
         \/ /\ WriteFacts(pc[r]) /\ WriteFacts(pc'[r])
            /\ pc'[r].path = pc[r].path /\ pc'[r].data = pc[r].data
            /\ pc'[r].alone => pc[r].alone /\ pc[r].path # q
         \/ /\ ReadFacts(pc[r]) /\ ReadFacts(pc'[r])
            /\ pc'[r].path = pc[r].path /\ pc'[r].len = pc[r].len
            /\ pc'[r].key = pc[r].key
            /\ pc'[r].alone => pc[r].alone /\ pc[r].path # q
  BY Opening DEF StartsWrite, FileTypes
<1>4. pc[p].op = "idle"
  BY DEF StartsWrite, Idle
<1>5. \A r \in Process \ {p} : pc'[r].op = pc[r].op /\ (pc[r].op # "idle" => pc'[r].path = pc[r].path)
  BY <1>3 DEF WriteFacts, ReadFacts
<1>6. KeepsLast'
  <2>1. SUFFICES ASSUME NEW r \in DOMAIN last, Writing(r)' = {} PROVE file'[r] = last[r]
    BY <1>1 DEF KeepsLast
  <2>2. r # q
    BY <1>2, <2>1 DEF Writing, WriteFacts
  <2>3. Writing(r) = {}
    BY <1>4, <1>5, <2>1 DEF Writing
  <2>4. QED
    BY <1>1, <2>2, <2>3 DEF FileInv, KeepsLast, FileTypes
<1>7. ASSUME NEW r \in Process PROVE Busy(r)'
  BY <1>1, <1>2, <1>5 DEF Busy, FileInv
<1>8. ASSUME NEW r \in Process PROVE AloneWrite(r)'
  <2>1. SUFFICES ASSUME pc'[r].op = "write", pc'[r].alone
                 PROVE  /\ file'[pc'[r].path] = <<>>
                        /\ \A s \in Process \ {r} : pc'[s].op = "write" => pc'[s].path # pc'[r].path
    BY DEF AloneWrite
  <2>2. CASE r = p
    <3>1. \A s \in Process : pc[s].op = "write" => pc[s].path # q
      <4>1. Writing(q) = {}
        BY <1>2, <2>1, <2>2
      <4>2. QED
        BY <4>1, NobodyWrites
    <3>2. file'[q] = <<>>
      BY <1>1
    <3>3. QED
      BY <1>2, <1>5, <2>2, <3>1, <3>2
  <2>3. CASE r # p
    <3>1. pc[r].op = "write" /\ pc[r].alone /\ pc[r].path # q /\ pc'[r].path = pc[r].path
      BY <1>3, <2>1, <2>3 DEF WriteFacts, ReadFacts
    <3>2. file'[pc[r].path] = file[pc[r].path]
      BY <1>1, <3>1 DEF FileInv, Busy
    <3>3. QED
      BY <1>2, <1>5, <3>1, <3>2 DEF FileInv, AloneWrite
  <2>4. QED
    BY <2>2, <2>3
<1>9. ASSUME NEW r \in Process PROVE AloneRead(r)'
  <2>1. SUFFICES ASSUME pc'[r].op = "read", pc'[r].alone
                 PROVE  /\ \A s \in Process : pc'[s].op = "write" => pc'[s].path # pc'[r].path
                        /\ pc'[r].len = Len(file'[pc'[r].path])
    BY DEF AloneRead
  <2>2. /\ r # p /\ pc[r].op = "read" /\ pc[r].alone /\ pc[r].path # q
        /\ pc'[r].path = pc[r].path /\ pc'[r].len = pc[r].len
    BY <1>2, <1>3, <2>1 DEF WriteFacts, ReadFacts
  <2>3. file'[pc[r].path] = file[pc[r].path]
    BY <1>1, <2>2 DEF FileInv, Busy
  <2>4. QED
    BY <1>2, <1>5, <2>2, <2>3 DEF FileInv, AloneRead
<1>10. QED
  BY <1>6, <1>7, <1>8, <1>9 DEF FileInv

\* A file is measured.
LEMMA FileStartsRead ==
    ASSUME FileTypes, FileInv, NEW p \in Process, NEW q \in Path,
           NEW key \in PhraseKey \cup {None}, StartsRead(p, q, key)
    PROVE  FileInv'
<1> DEFINE mine == [op |-> "read", path |-> q, len |-> Measure(q),
                    alone |-> Writing(q) = {}, key |-> key]
<1>1. /\ q \in DOMAIN file /\ UNCHANGED <<file, last>>
      /\ pc'[p] = mine /\ \A r \in Process \ {p} : pc'[r] = pc[r]
      /\ pc[p].op = "idle"
  BY DEF StartsRead, OpenToRead, FileTypes, Idle
<1>2. \A r \in Process : pc'[r].op = "write" => r # p /\ pc[r].op = "write" /\ pc'[r] = pc[r]
  BY <1>1
<1>3. \A r : Writing(r)' = Writing(r)
  BY <1>1, <1>2 DEF Writing
<1>4. KeepsLast'
  BY <1>1, <1>3 DEF FileInv, KeepsLast
<1>5. ASSUME NEW r \in Process PROVE (Busy(r) /\ AloneWrite(r))'
  BY <1>1, <1>2 DEF FileInv, Busy, AloneWrite
<1>6. ASSUME NEW r \in Process PROVE AloneRead(r)'
  <2>1. CASE r = p
    <3>1. pc'[p].path = q /\ pc'[p].len = Len(file[q]) /\ pc'[p].alone = (Writing(q) = {})
      BY <1>1 DEF Measure
    <3>2. pc'[p].alone => \A s \in Process : pc[s].op = "write" => pc[s].path # q
      <4>1. SUFFICES ASSUME pc'[p].alone PROVE Writing(q) = {}
        BY NobodyWrites
      <4>2. QED
        BY <3>1, <4>1
    <3>3. QED
      BY <1>1, <1>2, <2>1, <3>1, <3>2 DEF AloneRead
  <2>2. CASE r # p
    BY <1>1, <1>2, <2>2 DEF FileInv, AloneRead
  <2>3. QED
    BY <2>1, <2>2
<1>7. QED
  BY <1>4, <1>5, <1>6 DEF FileInv

\* The end of a write: the file is filled, in whole or in part.
LEMMA FileEndsWrite ==
    ASSUME FileTypes, FileInv, NEW p \in Process, NEW c \in Cipher, EndsWrite(p, c)
    PROVE  FileInv'
<1> DEFINE q == pc[p].path
           new == Overlay(c, file[q])
<1>1. /\ pc[p].op = "write" /\ q \in DOMAIN file
      /\ file' = [r \in DOMAIN file \cup {q} |-> IF r = q THEN new ELSE file[r]]
      /\ pc'[p] = Idle /\ pc'[p].op = "idle" /\ \A r \in Process \ {p} : pc'[r] = pc[r]
      /\ \/ last' = [r \in DOMAIN last \ {q} |-> last[r]]
         \/ /\ pc[p].alone
            /\ last' = [r \in DOMAIN last \cup {q} |-> IF r = q THEN c ELSE last[r]]
  BY DEF EndsWrite, Stores, Disturbs, FileInv, Busy, FileTypes, Idle
<1>2. pc[p].alone => new = c
  BY <1>1, OverlayIsCipher DEF FileInv, AloneWrite, FileTypes
<1> HIDE DEF q, new
<1>3. \A r \in Process : pc'[r].op # "idle" => r # p /\ pc'[r] = pc[r]
  BY <1>1
<1>4. \A r \in Process \ {p} : pc[r].op # "idle" /\ pc[r].alone => pc[r].path # q
  BY <1>1, DoingFacts DEF FileInv, AloneWrite, AloneRead, FileTypes, WriteFacts, ReadFacts, q
<1>5. KeepsLast'
  <2>1. SUFFICES ASSUME NEW r \in DOMAIN last', Writing(r)' = {} PROVE file'[r] = last'[r]
    BY DEF KeepsLast
  <2>2. CASE r = q
    BY <1>1, <1>2, <2>1, <2>2
  <2>3. CASE r # q
    <3>1. Writing(r) = {}
      BY <1>1, <2>1, <2>3 DEF Writing, q
    <3>2. QED
      BY <1>1, <2>1, <2>3, <3>1 DEF FileInv, KeepsLast, FileTypes
  <2>4. QED
    BY <2>2, <2>3
<1>6. ASSUME NEW r \in Process PROVE Busy(r)'
  BY <1>1, <1>3 DEF FileInv, Busy
<1>7. ASSUME NEW r \in Process PROVE AloneWrite(r)'
  <2>1. SUFFICES ASSUME pc'[r].op = "write", pc'[r].alone
                 PROVE  /\ file'[pc'[r].path] = <<>>
                        /\ \A s \in Process \ {r} : pc'[s].op = "write" => pc'[s].path # pc'[r].path
    BY DEF AloneWrite
  <2>2. r # p /\ pc'[r] = pc[r] /\ pc[r].path # q /\ pc[r].path \in DOMAIN file
    BY <1>3, <1>4, <2>1 DEF FileInv, Busy
  <2>3. file'[pc[r].path] = file[pc[r].path]
    BY <1>1, <2>2
  <2>4. QED
    BY <1>3, <2>1, <2>2, <2>3 DEF FileInv, AloneWrite
<1>8. ASSUME NEW r \in Process PROVE AloneRead(r)'
  <2>1. SUFFICES ASSUME pc'[r].op = "read", pc'[r].alone
                 PROVE  /\ \A s \in Process : pc'[s].op = "write" => pc'[s].path # pc'[r].path
                        /\ pc'[r].len = Len(file'[pc'[r].path])
    BY DEF AloneRead
  <2>2. r # p /\ pc'[r] = pc[r] /\ pc[r].path # q /\ pc[r].path \in DOMAIN file
    BY <1>3, <1>4, <2>1 DEF FileInv, Busy
  <2>3. file'[pc[r].path] = file[pc[r].path]
    BY <1>1, <2>2
  <2>4. QED
    BY <1>3, <2>1, <2>2, <2>3 DEF FileInv, AloneRead
<1>9. QED
  BY <1>5, <1>6, <1>7, <1>8 DEF FileInv

\* The invariant of files is kept by every shape.
LEMMA FileStep ==
    ASSUME FileTypes, FileInv, NEW p \in Process, Shape(p)
    PROVE  FileInv'
<1>1. CASE Rests(p)
  BY <1>1 DEF Rests, FileInv, KeepsLast, Writing, Busy, AloneWrite, AloneRead
<1>2. CASE EndsRead(p)
  <2>1. /\ UNCHANGED <<file, last>> /\ pc[p].op = "read" /\ pc'[p].op = "idle"
        /\ \A r \in Process \ {p} : pc'[r] = pc[r]
    BY <1>2 DEF EndsRead, FileTypes, Idle
  <2>2. \A r \in Process : pc'[r].op # "idle" => r # p /\ pc'[r] = pc[r]
    BY <2>1
  <2>3. \A r : Writing(r)' = Writing(r)
    BY <2>1, <2>2 DEF Writing
  <2>4. KeepsLast'
    BY <2>1, <2>3 DEF FileInv, KeepsLast
  <2>5. ASSUME NEW r \in Process PROVE (Busy(r) /\ AloneWrite(r) /\ AloneRead(r))'
    BY <2>1, <2>2 DEF FileInv, Busy, AloneWrite, AloneRead
  <2>6. QED
    BY <2>4, <2>5 DEF FileInv
<1>3. QED
  BY <1>1, <1>2, FileStartsWrite, FileStartsRead, FileEndsWrite DEF Shape

-----------------------------------------------------------------------------
(* Memory and cipher texts. *)

TextsGrow == \/ texts' = texts
             \/ \E t \in Text : texts' = Append(texts, t) /\ Len(texts) < MaxText

\* The step gives p the object o, and may make a text.
Gives(p, o) == /\ object' = [object EXCEPT ![p] = o]
               /\ o \in Block \cup Config \cup {None}
               /\ TextsGrow
               /\ ids' \in 0 .. MaxId /\ faults' \in 0 .. MaxFault /\ type' = type

\* Texts are only added: what was true of one stays true.
LEMMA OwnedGrows ==
    ASSUME texts \in Seq(Text), TextsGrow
    PROVE  /\ \A q, c : Owned(q, c) => Owned(q, c)'
           /\ \A o : Saved(o) => Saved(o)'
           /\ texts' \in Seq(Text)
           /\ Len(texts) <= MaxText => Len(texts') <= MaxText
<1>1. /\ \A n \in DOMAIN texts : n \in DOMAIN texts' /\ texts'[n] = texts[n]
      /\ texts' \in Seq(Text)
      /\ Len(texts') = Len(texts) \/ (Len(texts) < MaxText /\ Len(texts') = Len(texts) + 1)
  <2>1. CASE texts' = texts
    <3>1. (\A n \in DOMAIN texts : n \in DOMAIN texts' /\ texts'[n] = texts[n]) /\ texts' \in Seq(Text)
      BY <2>1
    <3>2. Len(texts') = Len(texts)
      BY <2>1
    <3>3. QED
      BY <3>1, <3>2
  <2>2. ASSUME NEW t \in Text, texts' = Append(texts, t), Len(texts) < MaxText
        PROVE  /\ \A n \in DOMAIN texts : n \in DOMAIN texts' /\ texts'[n] = texts[n]
               /\ texts' \in Seq(Text)
               /\ Len(texts') = Len(texts) + 1
    BY <2>2
  <2>3. QED
    BY <2>1, <2>2 DEF TextsGrow
<1>2. \A q, c : Owned(q, c) => Owned(q, c)'
  BY <1>1 DEF Owned, Owns
<1>3. \A o : Saved(o) => Saved(o)'
  BY <1>1 DEF Saved
<1>4. QED
  BY <1>1, <1>2, <1>3, StoreAssumption

\* A text that is made is a text, and its whole cipher is of its file.
LEMMA NewText ==
    ASSUME TypeOK, CanSeal, NEW t \in Text, texts' = Append(texts, t)
    PROVE  /\ TextsGrow
           /\ Len(texts) + 1 \in DOMAIN texts' /\ texts'[Len(texts) + 1] = t
           /\ \A q : Owns(q, t) => \A n : n = Len(texts) + 1 =>
                 \A size \in 1 .. 2 : Whole(n, size) \in Cipher /\ Owned(q, Whole(n, size))'
<1>1. TextsGrow
  BY DEF TextsGrow, CanSeal
<1>2. /\ Len(texts) + 1 \in DOMAIN texts' /\ texts'[Len(texts) + 1] = t
      /\ Len(texts) + 1 \in 1 .. MaxText
  BY StoreAssumption DEF TypeOK, CanSeal
<1>3. ASSUME NEW q, Owns(q, t), NEW n, n = Len(texts) + 1, NEW size \in 1 .. 2
      PROVE  Whole(n, size) \in Cipher /\ Owned(q, Whole(n, size))'
  <2>1. /\ Whole(n, size) \in Cipher /\ DOMAIN Whole(n, size) = 1 .. size
        /\ \A i \in 1 .. size : Whole(n, size)[i] = <<n, i>>
    BY <1>2, <1>3, WholeIsCipher
  <2>2. \A i \in DOMAIN Whole(n, size) : Whole(n, size)[i][1] = Len(texts) + 1
    BY <1>3, <2>1
  <2>3. Owns(q, texts'[Len(texts) + 1])
    BY <1>2, <1>3
  <2>4. QED
    BY <1>2, <2>1, <2>2, <2>3 DEF Owned, Owns
<1>4. QED
  BY <1>1, <1>2, <1>3

\* What the texts of blocks and Configs are.
LEMMA TextTypes ==
    /\ \A key \in Key, id \in Id, v \in Content :
          /\ BlockText(key, id, v) \in Text /\ BlockText(key, id, v).size \in 1 .. 2
          /\ Owns(BlockToFilename(id), BlockText(key, id, v))
    /\ \A key \in PhraseKey, name \in Name, root \in Id :
          LET t == Sealed(key, name, [root |-> root, key |-> key], 1)
          IN  /\ t \in Text /\ Owns(ConfigName(name), t)
              /\ t.for = name /\ t.data = [root |-> root, key |-> key]
<1>1. ASSUME NEW key \in Key, NEW id \in Id, NEW v \in Content
      PROVE  /\ BlockText(key, id, v) \in Text /\ BlockText(key, id, v).size \in 1 .. 2
             /\ Owns(BlockToFilename(id), BlockText(key, id, v))
  <2>1. (IF v \in Long THEN 2 ELSE 1) \in 1 .. 2
    OBVIOUS
  <2>2. BlockText(key, id, v).for = id
    BY DEF BlockText, Sealed
  <2>3. QED
    BY <2>1, <2>2 DEF BlockText, Sealed, Text, Owns
<1>2. ASSUME NEW key \in PhraseKey, NEW name \in Name, NEW root \in Id
      PROVE  LET t == Sealed(key, name, [root |-> root, key |-> key], 1)
             IN  /\ t \in Text /\ Owns(ConfigName(name), t)
                 /\ t.for = name /\ t.data = [root |-> root, key |-> key]
  BY DEF Sealed, Text, Stored, Owns
<1>3. QED
  BY <1>1, <1>2

\* An object that a constructor makes.
LEMMA ObjectTypes ==
    /\ \A id \in Id, key \in Key, c \in Cipher :
          /\ BlockOf(id, key, c) \in Block /\ BlockOf(id, key, c).is = "block"
          /\ BlockOf(id, key, c).id = id /\ BlockOf(id, key, c).cipher = c
    /\ \A root \in Id, key \in PhraseKey \cup {None}, name \in Name \cup {None} :
          /\ ConfigOf(root, key, name) \in Config /\ ConfigOf(root, key, name).is = "config"
          /\ ConfigOf(root, key, name).root = root /\ ConfigOf(root, key, name).key = key
          /\ ConfigOf(root, key, name).name = name
BY DEF BlockOf, ConfigOf, Block, Config

\* A step that leaves the object as it is gives it again.
LEMMA GivesSame ==
    ASSUME TypeOK, NEW p \in Process, UNCHANGED <<object, ids, type>>, TextsGrow,
           faults' \in 0 .. MaxFault
    PROVE  Gives(p, object[p])
BY DEF Gives, TypeOK

\* A block that is given new contents, or made with them, holds a text of its own.
LEMMA SealedBlock ==
    ASSUME Inv, CanSeal, NEW p \in Process, NEW id \in Id, NEW key \in Key, NEW v \in Content,
           texts' = Append(texts, BlockText(key, id, v)),
           NEW c, c = Whole(Len(texts) + 1, BlockText(key, id, v).size),
           Makes(p, BlockOf(id, key, c)),
           pc'[p].op = "idle", type' = type, faults' = faults, ids' \in 0 .. MaxId
    PROVE  (\E o : Gives(p, o)) /\ Holds(p)'
<1> DEFINE t == BlockText(key, id, v)
           o == BlockOf(id, key, c)
<1>1. t \in Text /\ t.size \in 1 .. 2 /\ Owns(BlockToFilename(id), t)
  BY TextTypes
<1>2. TextsGrow /\ c \in Cipher /\ Owned(BlockToFilename(id), c)'
  <2> HIDE DEF t
  <2>1. texts' = Append(texts, t) /\ c = Whole(Len(texts) + 1, t.size)
    BY DEF t
  <2>2. QED
    BY <1>1, <2>1, NewText DEF Inv
<1>3. o \in Block /\ o.is = "block" /\ o.id = id /\ o.cipher = c
  BY <1>2, ObjectTypes
<1> HIDE DEF o
<1>4. object' = [object EXCEPT ![p] = o] /\ object'[p] = o
  BY DEF Makes, Inv, TypeOK, o
<1>5. Gives(p, o)
  BY <1>2, <1>3, <1>4 DEF Gives, Inv, TypeOK
<1>6. Holds(p)'
  BY <1>2, <1>3, <1>4 DEF Holds, Has
<1>7. QED
  BY <1>5, <1>6

\* What process p holds after a step of its memory.
LEMMA MemoryHolds ==
    ASSUME Inv, NEW p \in Process,
           \/ NewEmpty(p) \/ NewBlock(p) \/ BlockById(p) \/ SetContent(p)
           \/ NewConfig(p) \/ SaveAborts(p)
    PROVE  (\E o : Gives(p, o)) /\ Holds(p)'
<1>1. pc[p] = Idle /\ pc'[p].op = "idle"
  BY DEF NewEmpty, NewBlock, BlockById, SetContent, NewConfig, SaveAborts, Saves, Quiet, Makable,
         Idle
<1>2. /\ faults' = faults /\ type' = type /\ ids \in 0 .. MaxId /\ faults \in 0 .. MaxFault
      /\ object \in [Process -> Block \cup Config \cup {None}]
  BY DEF NewEmpty, NewBlock, BlockById, SetContent, NewConfig, SaveAborts, Saves, Quiet, Makable,
         storeVars, Inv, TypeOK
<1>3. FreshId <= MaxId => FreshId \in Id /\ FreshId \in 0 .. MaxId
  BY <1>2, StoreAssumption DEF FreshId, Id
<1>4. ASSUME NEW id \in Id, NEW key \in Key, Makes(p, BlockOf(id, key, <<>>)),
             texts' = texts, ids' \in 0 .. MaxId
      PROVE  (\E o : Gives(p, o)) /\ Holds(p)'
  <2>1. /\ BlockOf(id, key, <<>>) \in Block /\ BlockOf(id, key, <<>>).is = "block"
        /\ BlockOf(id, key, <<>>).cipher = <<>>
    BY NoCipher, ObjectTypes
  <2>2. object'[p] = BlockOf(id, key, <<>>)
    BY <1>2, <1>4 DEF Makes
  <2>3. Gives(p, BlockOf(id, key, <<>>))
    BY <1>2, <1>4, <2>1 DEF Gives, Makes, TextsGrow
  <2>4. Holds(p)'
    BY <1>1, <2>1, <2>2 DEF Holds, Has, Owned
  <2>5. QED
    BY <2>3, <2>4
<1>5. CASE NewEmpty(p)
  BY <1>3, <1>4, <1>5 DEF NewEmpty
<1>6. CASE BlockById(p)
  <2>1. 1 .. ids \subseteq Id
    BY <1>2, StoreAssumption DEF Id
  <2>2. PICK id \in 1 .. ids, key \in Key : Makes(p, BlockOf(id, key, <<>>))
    BY <1>6 DEF BlockById
  <2>3. texts' = texts /\ ids' = ids
    BY <1>6 DEF BlockById
  <2>4. QED
    BY <1>2, <1>4, <2>1, <2>2, <2>3
<1>7. CASE NewBlock(p)
  <2>1. PICK id \in Id : id = FreshId
    BY <1>3, <1>7 DEF NewBlock
  <2>2. PICK key \in Key, v \in Content :
           /\ texts' = Append(texts, BlockText(key, id, v))
           /\ Makes(p, BlockOf(id, key, Whole(Len(texts) + 1, BlockText(key, id, v).size)))
    BY <1>7, <2>1 DEF NewBlock
  <2>3. PICK c : c = Whole(Len(texts) + 1, BlockText(key, id, v).size)
    OBVIOUS
  <2>4. CanSeal /\ ids' \in 0 .. MaxId
    BY <1>3, <1>7 DEF NewBlock
  <2>5. QED
    BY <1>1, <1>2, <2>2, <2>3, <2>4, SealedBlock
<1>8. CASE SetContent(p)
  <2> DEFINE o == object[p]
  <2>1. /\ Has(p, "block") /\ CanSeal /\ o \in Block /\ o.is = "block"
        /\ o.id \in Id /\ o.key \in Key
    BY <1>8, ObjectFacts DEF SetContent, Has, Inv
  <2>2. PICK id \in Id, key \in Key : id = o.id /\ key = o.key
    BY <2>1
  <2>3. PICK v \in Content :
           /\ texts' = Append(texts, BlockText(key, id, v))
           /\ object' = [object EXCEPT ![p].cipher =
                            Whole(Len(texts) + 1, BlockText(key, id, v).size)]
    BY <1>8, <2>2 DEF SetContent
  <2>4. PICK c : c = Whole(Len(texts) + 1, BlockText(key, id, v).size)
    OBVIOUS
  <2>5. [o EXCEPT !.cipher = c] = BlockOf(id, key, c)
    BY <2>1, <2>2 DEF Block, BlockOf
  <2>6. object' = [object EXCEPT ![p] = [o EXCEPT !.cipher = c]]
    BY <2>3, <2>4
  <2>7. Makes(p, BlockOf(id, key, c))
    BY <2>5, <2>6 DEF Makes
  <2>8. ids' \in 0 .. MaxId
    BY <1>2, <1>8 DEF SetContent
  <2>9. QED
    BY <1>1, <1>2, <2>1, <2>3, <2>4, <2>7, <2>8, SealedBlock
<1>9. CASE NewConfig(p)
  <2>1. PICK key \in PhraseKey \cup {None} : Makes(p, ConfigOf(FreshId, key, None))
    BY <1>9 DEF NewConfig
  <2>2. PICK id \in Id : id = FreshId
    BY <1>3, <1>9 DEF NewConfig
  <2> DEFINE o == ConfigOf(id, key, None)
  <2>3. o \in Config /\ o.is = "config" /\ o.name = None
    BY ObjectTypes
  <2> HIDE DEF o
  <2>4. object' = [object EXCEPT ![p] = o] /\ object'[p] = o /\ texts' = texts /\ ids' \in 0 .. MaxId
    BY <1>2, <1>3, <1>9, <2>1, <2>2 DEF NewConfig, Makes, o
  <2>5. Gives(p, o)
    BY <1>2, <2>3, <2>4 DEF Gives, TextsGrow
  <2>6. Holds(p)'
    BY <1>1, <2>3, <2>4 DEF Holds, Has
  <2>7. QED
    BY <2>5, <2>6
<1>10. CASE SaveAborts(p)
  <2>1. object' = [object EXCEPT ![p] = None] /\ object'[p] = None /\ texts' = texts /\ ids' = ids
    BY <1>2, <1>10 DEF SaveAborts, Makes
  <2>2. Gives(p, None)
    BY <1>2, <2>1 DEF Gives, TextsGrow
  <2>3. Holds(p)'
    BY <1>1, <2>1 DEF Holds, Has
  <2>4. QED
    BY <2>2, <2>3
<1>11. QED
  BY <1>5, <1>6, <1>7, <1>8, <1>9, <1>10

\* What process p holds when a write ends, one way or another.
LEMMA WriteEndHolds ==
    ASSUME Inv, NEW p \in Process, Fill(p) \/ FillFails(p) \/ Crash(p)
    PROVE  (\E o : Gives(p, o)) /\ Holds(p)'
<1>1. /\ pc'[p].op = "idle" /\ texts' = texts /\ ids' = ids /\ type' = type
      /\ faults' \in 0 .. MaxFault /\ object \in [Process -> Block \cup Config \cup {None}]
      /\ TextsGrow /\ ids \in 0 .. MaxId
  BY StoreAssumption DEF Inv, TypeOK, Fill, FillFails, Crash, Idle, TextsGrow
<1>2. CASE object' = object
  <2>1. Gives(p, object[p])
    BY <1>1, <1>2, GivesSame DEF Inv
  <2>2. Holds(p)'
    BY <1>1, <1>2, OwnedGrows DEF Inv, OwnInv, Holds, Has, TypeOK
  <2>3. QED
    BY <2>1, <2>2
<1>3. CASE Crash(p)
  <2>1. object' = [object EXCEPT ![p] = None] /\ object'[p] = None
    BY <1>1, <1>3 DEF Crash, Makes
  <2>2. Gives(p, None)
    BY <1>1, <2>1 DEF Gives
  <2>3. Holds(p)'
    BY <1>1, <2>1 DEF Holds, Has
  <2>4. QED
    BY <2>2, <2>3
<1>4. QED
  BY <1>2, <1>3 DEF Fill, FillFails

\* What process p holds when it has opened the file of a block.
LEMMA BlockOpenHolds ==
    ASSUME Inv, NEW p \in Process, Write(p) \/ Read(p)
    PROVE  (\E o : Gives(p, o)) /\ Holds(p)'
<1>1. /\ UNCHANGED <<object, texts, ids, type, faults>> /\ TextsGrow
      /\ faults \in 0 .. MaxFault /\ Has(p, "block")
  BY DEF Inv, TypeOK, Write, Read, storeVars, TextsGrow
<1>2. \E o : Gives(p, o)
  BY <1>1, GivesSame DEF Inv
<1>3. Owned(BlockToFilename(object[p].id), object[p].cipher)'
  BY <1>1, OwnedGrows DEF Inv, OwnInv, Holds, TypeOK
<1>4. ~Has(p, "config")'
  BY <1>1 DEF Has
<1>5. CASE Write(p)
  <2>1. WriteFacts(pc'[p]) /\ pc'[p].path = BlockToFilename(object[p].id)
        /\ pc'[p].data = object[p].cipher
    BY <1>1, <1>5, Opening, ObjectFacts DEF Write, Inv, TypeOK, Idle
  <2>2. QED
    BY <1>1, <1>2, <1>3, <1>4, <2>1 DEF Holds, WriteFacts
<1>6. CASE Read(p)
  <2>1. pc'[p].op = "read" /\ pc'[p].path = BlockToFilename(object[p].id) /\ pc'[p].key = None
    BY <1>6 DEF Read, OpenToRead, Inv, TypeOK
  <2>2. QED
    BY <1>1, <1>2, <1>3, <1>4, <2>1 DEF Holds, Has
<1>7. QED
  BY <1>5, <1>6

\* A Config that is archived is saved as it is, in a text of its file.
LEMMA ArchiveHolds ==
    ASSUME Inv, NEW p \in Process, NEW c \in Config, c.name \in Name,
           c.key \in PhraseKey, Quiet(p), Archive(p, c)
    PROVE  Gives(p, c) /\ Holds(p)'
<1> DEFINE t == Sealed(c.key, c.name, [root |-> c.root, key |-> c.key], 1)
           q == ConfigName(c.name)
<1>1. c.root \in Id /\ c.is = "config"
  BY DEF Config
<1>2. /\ t \in Text /\ Owns(q, t)
      /\ t.for = c.name /\ t.data = [root |-> c.root, key |-> c.key]
  BY <1>1, TextTypes
<1>3. PICK d : d = Whole(Len(texts) + 1, 1)
  OBVIOUS
<1>4. /\ CanSeal /\ texts' = Append(texts, t) /\ OpenToWrite(p, q, d)
      /\ object' = [object EXCEPT ![p] = c] /\ object'[p] = c
      /\ ids' = ids /\ type' = type /\ faults' = faults /\ pc[p] = Idle
  BY <1>3 DEF Archive, Makes, Quiet, Inv, TypeOK
<1>5. q \in Path
  BY DEF Path
<1> HIDE DEF t, q
<1>6. /\ TextsGrow /\ d \in Cipher /\ Owned(q, d)'
      /\ Len(texts) + 1 \in DOMAIN texts' /\ texts'[Len(texts) + 1] = t
  BY <1>2, <1>3, <1>4, NewText DEF Inv
<1>7. Gives(p, c)
  BY <1>4, <1>6 DEF Gives, Inv, TypeOK
<1>8. WriteFacts(pc'[p]) /\ pc'[p].path = q /\ pc'[p].data = d
  BY <1>4, <1>5, <1>6, Opening DEF Inv, TypeOK
<1>9. Saved(object[p])'
  BY <1>2, <1>4, <1>6 DEF Saved
<1>10. Holds(p)'
  BY <1>1, <1>4, <1>6, <1>8, <1>9 DEF Holds, Has, WriteFacts
<1>11. QED
  BY <1>7, <1>10

\* What process p holds when it saves its Config.
LEMMA SaveHolds ==
    ASSUME Inv, NEW p \in Process, Save(p) \/ SaveAs(p)
    PROVE  (\E o : Gives(p, o)) /\ Holds(p)'
<1>1. /\ object[p] \in Config /\ object[p].key \in PhraseKey \cup {None}
      /\ object[p].name \in Name \cup {None} /\ Quiet(p)
  BY ObjectFacts DEF Save, SaveAs, Saves, Inv
<1>2. CASE Save(p)
  <2>1. object[p].name \in Name /\ object[p].name # None /\ object[p].key \in PhraseKey
    BY <1>1, <1>2 DEF Save
  <2>2. Archive(p, object[p])
    BY <1>2 DEF Save
  <2>3. QED
    BY <1>1, <2>1, <2>2, ArchiveHolds
<1>3. CASE SaveAs(p)
  <2>1. PICK name \in Name, phrase \in Phrase :
           Archive(p, [object[p] EXCEPT !.name = name, !.key = PhraseToKey(phrase)])
    BY <1>3 DEF SaveAs
  <2>2. PhraseToKey(phrase) \in PhraseKey
    BY DEF PhraseKey
  <2>3. PICK c : c = [object[p] EXCEPT !.name = name, !.key = PhraseToKey(phrase)]
    OBVIOUS
  <2>4. c \in Config /\ c.name = name /\ c.key = PhraseToKey(phrase)
    BY <1>1, <2>2, <2>3 DEF Config
  <2>5. QED
    BY <1>1, <2>1, <2>2, <2>3, <2>4, ArchiveHolds
<1>4. QED
  BY <1>2, <1>3

\* What process p holds when it has opened the file of a Config to load it.
LEMMA LoadHolds ==
    ASSUME Inv, NEW p \in Process, Load(p)
    PROVE  (\E o : Gives(p, o)) /\ Holds(p)'
<1>1. PICK name \in Name, phrase \in Phrase :
         OpenToRead(p, ConfigName(name), PhraseToKey(phrase)) /\ Makes(p, None)
  BY DEF Load
<1>2. PhraseToKey(phrase) # None
  BY KeyAssumption DEF PhraseKey
<1>3. /\ object' = [object EXCEPT ![p] = None] /\ object'[p] = None
      /\ texts' = texts /\ ids' = ids /\ type' = type /\ faults' = faults
  BY <1>1 DEF Makes, Load, storeVars, Inv, TypeOK
<1>4. Gives(p, None)
  BY <1>3 DEF Gives, TextsGrow, Inv, TypeOK
<1>5. pc'[p].op = "read" /\ pc'[p].path = ConfigName(name) /\ pc'[p].key = PhraseToKey(phrase)
  BY <1>1 DEF OpenToRead, Inv, TypeOK
<1>6. Holds(p)'
  BY <1>2, <1>3, <1>5 DEF Holds, Has
<1>7. QED
  BY <1>4, <1>6

\* What is read from a file is owned by it.
LEMMA ContentsOwned ==
    ASSUME Inv, NEW p \in Process, pc[p].op = "read"
    PROVE  /\ Contents(pc[p].path, pc[p].len) \in Cipher
           /\ Owned(pc[p].path, Contents(pc[p].path, pc[p].len))
           /\ pc[p].len = Len(file[pc[p].path])
                 => Contents(pc[p].path, pc[p].len) = file[pc[p].path]
<1> DEFINE q == pc[p].path
           len == pc[p].len
<1>1. len \in 0 .. 2 /\ q \in DOMAIN file
  BY DoingFacts DEF Inv, TypeOK, FileInv, Busy, WriteFacts, ReadFacts, Idle
<1>2. file[q] \in Cipher /\ Owned(q, file[q])
  BY <1>1 DEF Inv, TypeOK, OwnInv
<1> HIDE DEF q, len
<1>3. QED
  BY <1>1, <1>2, ContentsIsCipher DEF Owned, q, len

\* A text that opens is of the file that the chunks are of.
LEMMA OpenedOwned ==
    ASSUME TypeOK, NEW q, NEW c, NEW key, Owned(q, c), NEW n \in Opened(c, key)
    PROVE  n \in DOMAIN texts /\ Owns(q, texts[n])
<1>1. n \in DOMAIN texts /\ Decompresses(n, c) /\ n \in 1 .. MaxText
  BY StoreAssumption DEF Opened, TypeOK
<1>2. texts[n].size \in 1 .. 2
  <2>1. texts[n] \in Text
    BY <1>1 DEF TypeOK
  <2>2. QED
    BY <2>1 DEF Text
<1>3. 1 \in DOMAIN c /\ c[1] = <<n, 1>> /\ c[1] # Junk
  <2>1. 1 \in DOMAIN c /\ c[1] = <<n, 1>>
    BY <1>1, <1>2 DEF Decompresses
  <2>2. <<n, 1>> # Junk
    BY <1>1 DEF Junk
  <2>3. QED
    BY <2>1, <2>2
<1>4. QED
  BY <1>1, <1>3 DEF Owned

\* What process p holds when it has read a block.
LEMMA FetchHolds ==
    ASSUME Inv, NEW p \in Process, Fetch(p)
    PROVE  (\E o : Gives(p, o)) /\ Holds(p)'
<1>1. /\ pc[p].op = "read" /\ pc[p].key = None
      /\ texts' = texts /\ ids' = ids /\ type' = type /\ faults' = faults
      /\ pc'[p].op = "idle"
  BY DEF Fetch, storeVars, Inv, TypeOK, Idle
<1>2. Has(p, "block") /\ pc[p].path = BlockToFilename(object[p].id)
  BY <1>1 DEF Inv, OwnInv, Holds
<1>3. PICK c : c = Contents(pc[p].path, pc[p].len)
  OBVIOUS
<1>4. c \in Cipher /\ Owned(pc[p].path, c)
  BY <1>1, <1>3, ContentsOwned
<1>5. PICK o : o = [object[p] EXCEPT !.cipher = c]
  OBVIOUS
<1>6. o \in Block /\ o.is = "block" /\ o.id = object[p].id /\ o.cipher = c
  BY <1>2, <1>4, <1>5, ObjectFacts DEF Block, Inv
<1>7. object' = [object EXCEPT ![p] = o] /\ object'[p] = o
  BY <1>3, <1>5 DEF Fetch, Inv, TypeOK
<1>8. Gives(p, o)
  BY <1>1, <1>6, <1>7 DEF Gives, TextsGrow, Inv, TypeOK
<1>9. Owned(BlockToFilename(o.id), c)
  BY <1>2, <1>4, <1>6
<1>10. Owned(BlockToFilename(o.id), c)'
  BY <1>1, <1>9, OwnedGrows DEF TextsGrow, Inv, TypeOK
<1>11. Holds(p)'
  BY <1>1, <1>6, <1>7, <1>10 DEF Holds, Has
<1>12. QED
  BY <1>8, <1>11

\* What process p holds when it has loaded a Config, or has not.
LEMMA RehydrateHolds ==
    ASSUME Inv, NEW p \in Process, Rehydrate(p)
    PROVE  (\E o : Gives(p, o)) /\ Holds(p)'
<1>1. /\ pc[p].op = "read" /\ pc[p].key # None
      /\ texts' = texts /\ ids' = ids /\ type' = type /\ faults' = faults
      /\ pc'[p].op = "idle" /\ TextsGrow /\ faults' \in 0 .. MaxFault
  BY DEF Rehydrate, storeVars, Inv, TypeOK, Idle, TextsGrow
<1>2. PICK name \in Name : pc[p].path = ConfigName(name)
  BY <1>1 DEF Inv, OwnInv, Holds
<1>3. CASE UNCHANGED object
  <2>1. Gives(p, object[p])
    BY <1>1, <1>3, GivesSame DEF Inv
  <2>2. Holds(p)'
    BY <1>1, <1>3, OwnedGrows DEF Inv, OwnInv, Holds, Has, TypeOK
  <2>3. QED
    BY <2>1, <2>2
<1>4. CASE \E n \in Opened(Contents(pc[p].path, pc[p].len), pc[p].key) :
              Makes(p, ConfigOf(texts[n].data.root, texts[n].data.key, pc[p].path[2]))
  <2>1. PICK n \in Opened(Contents(pc[p].path, pc[p].len), pc[p].key) :
           Makes(p, ConfigOf(texts[n].data.root, texts[n].data.key, pc[p].path[2]))
    BY <1>4
  <2>2. n \in DOMAIN texts /\ Owns(pc[p].path, texts[n])
    BY <1>1, ContentsOwned, OpenedOwned DEF Inv
  <2>3. pc[p].path[2] = name
    BY <1>2 DEF ConfigName
  <2>4. texts[n].for = name /\ texts[n].data \in Stored
    BY <1>2, <2>2 DEF Owns, ConfigName, BlockToFilename
  <2>5. PICK o : o = ConfigOf(texts[n].data.root, texts[n].data.key, name)
    OBVIOUS
  <2>6. /\ o \in Config /\ o.is = "config" /\ o.name = name
        /\ texts[n].data = [root |-> o.root, key |-> o.key]
    BY <2>4, <2>5, ObjectTypes DEF Stored
  <2>7. object' = [object EXCEPT ![p] = o] /\ object'[p] = o
    BY <2>1, <2>3, <2>5 DEF Makes, Inv, TypeOK
  <2>8. Gives(p, o)
    BY <1>1, <2>6, <2>7 DEF Gives, Inv, TypeOK
  <2>9. Saved(object[p])'
    BY <1>1, <2>2, <2>4, <2>6, <2>7 DEF Saved
  <2>10. Holds(p)'
    BY <1>1, <2>6, <2>7, <2>9 DEF Holds, Has
  <2>11. QED
    BY <2>8, <2>10
<1>5. QED
  BY <1>3, <1>4 DEF Rehydrate

-----------------------------------------------------------------------------
(* The step, and the theorems. *)

\* What process p holds after its step.
LEMMA StepHolds ==
    ASSUME Inv, NEW p \in Process, Step(p)
    PROVE  (\E o : Gives(p, o)) /\ Holds(p)'
BY MemoryHolds, WriteEndHolds, BlockOpenHolds, SaveHolds, LoadHolds, FetchHolds, RehydrateHolds
   DEF Step

\* The other processes stay where they are, in what they write and read.
LEMMA OthersStay ==
    ASSUME FileTypes, NEW p \in Process, Shape(p), NEW r \in Process \ {p}
    PROVE  /\ pc'[r].op = pc[r].op
           /\ pc[r].op = "write" => pc'[r].path = pc[r].path /\ pc'[r].data = pc[r].data
           /\ pc[r].op = "read" => pc'[r].path = pc[r].path /\ pc'[r].key = pc[r].key
<1>1. ASSUME NEW q \in Path, NEW c \in Cipher, StartsWrite(p, q, c)
      PROVE  /\ pc'[r].op = pc[r].op
             /\ pc[r].op = "write" => pc'[r].path = pc[r].path /\ pc'[r].data = pc[r].data
             /\ pc[r].op = "read" => pc'[r].path = pc[r].path /\ pc'[r].key = pc[r].key
  <2>1. pc \in [Process -> Doing] /\ OpenToWrite(p, q, c) /\ pc[p] = Idle
    BY <1>1 DEF StartsWrite, FileTypes
  <2>2. \/ pc[r].op = "idle" /\ pc'[r] = pc[r]
        \/ /\ WriteFacts(pc[r]) /\ WriteFacts(pc'[r])
           /\ pc'[r].path = pc[r].path /\ pc'[r].data = pc[r].data
        \/ /\ ReadFacts(pc[r]) /\ ReadFacts(pc'[r])
           /\ pc'[r].path = pc[r].path /\ pc'[r].key = pc[r].key
    BY <2>1, Opening
  <2>3. QED
    BY <2>2 DEF WriteFacts, ReadFacts
<1>2. CASE pc'[r] = pc[r]
  BY <1>2
<1>3. QED
  BY <1>1, <1>2 DEF Shape, Rests, StartsRead, OpenToRead, EndsWrite, EndsRead, FileTypes

\* What files hold stays their own.
LEMMA FilesOwned ==
    ASSUME Inv, NEW p \in Process, Shape(p), TextsGrow, NEW q \in DOMAIN file'
    PROVE  Owned(q, file[q])'
<1>1. \A r \in DOMAIN file : Owned(r, file[r]) /\ \A c : Owned(r, c) => Owned(r, c)'
  BY OwnedGrows DEF Inv, OwnInv, TypeOK
<1>2. CASE file' = file
  BY <1>1, <1>2 DEF Owned
<1>3. ASSUME NEW w \in Path, NEW c \in Cipher, StartsWrite(p, w, c) PROVE Owned(q, file[q])'
  <2>1. file' = [r \in DOMAIN file \cup {w} |-> IF r = w THEN <<>> ELSE file[r]]
    BY <1>3 DEF StartsWrite, OpenToWrite, Stores, Truncated
  <2>2. CASE q = w
    BY <2>1, <2>2 DEF Owned
  <2>3. CASE q # w
    BY <1>1, <2>1, <2>3 DEF Owned
  <2>4. QED
    BY <2>2, <2>3
<1>4. ASSUME NEW c \in Cipher, EndsWrite(p, c) PROVE Owned(q, file[q])'
  <2>1. PICK w : w = pc[p].path
    OBVIOUS
  <2>2. /\ w \in DOMAIN file /\ file[w] \in Cipher /\ Owned(w, pc[p].data) /\ Owned(w, file[w])
        /\ \A i \in DOMAIN c : i \in DOMAIN pc[p].data /\ c[i] = pc[p].data[i]
    BY <1>4, <2>1 DEF EndsWrite, Inv, FileInv, Busy, OwnInv, Holds, TypeOK
  <2>3. Owned(w, c)
    BY <2>2 DEF Owned
  <2>4. PICK new : new = Overlay(c, file[w])
    OBVIOUS
  <2>5. \A i \in DOMAIN new : (i \in DOMAIN c /\ new[i] = c[i])
                              \/ (i \in DOMAIN file[w] /\ new[i] = file[w][i])
    BY <2>2, <2>4, OverlayIsCipher
  <2>6. Owned(w, new)
    BY <2>2, <2>3, <2>5 DEF Owned
  <2>7. file' = [r \in DOMAIN file \cup {w} |-> IF r = w THEN new ELSE file[r]]
    BY <1>4, <2>1, <2>4 DEF EndsWrite, Stores
  <2>8. Owned(w, new)'
    BY <1>1, <2>2, <2>6
  <2>9. CASE q = w
    BY <2>7, <2>8, <2>9
  <2>10. CASE q # w
    BY <1>1, <2>7, <2>10 DEF Owned
  <2>11. QED
    BY <2>9, <2>10
<1>5. QED
  BY <1>2, <1>3, <1>4 DEF Shape, Rests, StartsRead, EndsRead

\* What a file has held is what it holds after some step.
LEMMA VersionsGrow ==
    ASSUME Inv, NEW p \in Process, Shape(p), FileTypes'
    PROVE  \/ versions' = versions
           \/ \E q \in Path : /\ q \in DOMAIN file' /\ file'[q] \in Cipher
                              /\ versions' = [versions EXCEPT ![q] = @ \cup {file'[q]}]
<1>1. ASSUME NEW q \in Path, NEW chunks, Stores(q, chunks)
      PROVE  /\ q \in DOMAIN file' /\ file'[q] \in Cipher
             /\ versions' = [versions EXCEPT ![q] = @ \cup {file'[q]}]
  <2>1. q \in DOMAIN file' /\ file'[q] = chunks
    BY <1>1 DEF Stores
  <2>2. QED
    BY <1>1, <2>1 DEF Stores, FileTypes
<1>2. ASSUME NEW q \in Path, NEW c \in Cipher, StartsWrite(p, q, c) PROVE Stores(q, <<>>)
  BY <1>2 DEF StartsWrite, OpenToWrite, Truncated
<1>3. ASSUME NEW c \in Cipher, EndsWrite(p, c)
      PROVE  pc[p].path \in Path /\ Stores(pc[p].path, Overlay(c, file[pc[p].path]))
  BY <1>3, DoingFacts DEF EndsWrite, Inv, TypeOK, WriteFacts, ReadFacts, Idle
<1>4. QED
  BY <1>1, <1>2, <1>3 DEF Shape, Rests, StartsRead, EndsRead

\* What the disk may hold of a file is the file's own.
LEMMA OnDiskOwned ==
    ASSUME Inv, NEW q \in Path, NEW v \in OnDisk(q)
    PROVE  v = None \/ (v \in Cipher /\ Owned(q, v))
<1>1. ASSUME NEW w \in versions[q] \ {None}, NEW k \in 0 .. Len(w), v = SubSeq(w, 1, k)
      PROVE  v \in Cipher /\ Owned(q, v)
  <2>1. w \in Cipher /\ Owned(q, w)
    BY DEF Inv, TypeOK, OwnInv
  <2>2. /\ v \in Cipher
        /\ \A i \in DOMAIN v : i \in DOMAIN w /\ v[i] = w[i]
    BY <1>1, <2>1, FirstPartIsCipher
  <2>3. QED
    BY <2>1, <2>2 DEF Owned
<1>2. v = None \/ \E w \in versions[q] \ {None} : v \in {SubSeq(w, 1, k) : k \in 0 .. Len(w)}
  <2>1. \/ v \in versions[q] \cap {None}
        \/ v \in UNION {{SubSeq(w, 1, k) : k \in 0 .. Len(w)} : w \in versions[q] \ {None}}
    BY Zenon DEF OnDisk
  <2>2. QED
    BY <2>1, Zenon
<1>3. v = None \/ \E w \in versions[q] \ {None} : \E k \in 0 .. Len(w) : v = SubSeq(w, 1, k)
  BY <1>2
<1>4. QED
  BY <1>1, <1>3

\* The machine stops: nothing is left but what was written.
LEMMA StopKeeps ==
    ASSUME Inv, MachineStops
    PROVE  Inv'
<1>1. /\ file' = <<>> /\ last' = <<>> /\ up' = FALSE /\ faults' \in 0 .. MaxFault
      /\ UNCHANGED <<type, ids, texts, versions>>
      /\ pc' = [p \in Process |-> Idle] /\ object' = [p \in Process |-> None]
  BY StoreAssumption DEF MachineStops, Inv, TypeOK
<1>2. /\ DOMAIN file' = {} /\ DOMAIN last' = {}
      /\ \A p \in Process : pc'[p].op = "idle" /\ object'[p] = None
  BY <1>1 DEF Idle
<1>3. pc' \in [Process -> Doing] /\ object' \in [Process -> Block \cup Config \cup {None}]
  BY <1>1 DEF Doing
<1>4. TypeOK'
  BY <1>1, <1>2, <1>3 DEF Inv, TypeOK
<1>5. FileInv'
  BY <1>2 DEF FileInv, KeepsLast, Busy, AloneWrite, AloneRead
<1>6. OwnInv'
  <2>1. \A q \in Path : \A v \in versions'[q] \ {None} : Owned(q, v)'
    BY <1>1 DEF Inv, OwnInv, Owned, Owns
  <2>2. QED
    BY <1>2, <2>1 DEF OwnInv, Holds, Has
<1>7. QED
  BY <1>1, <1>2, <1>4, <1>5, <1>6 DEF Inv, DownInv

\* It starts again: what the files hold is still their own.
LEMMA StartKeeps ==
    ASSUME Inv, MachineStarts
    PROVE  Inv'
<1>1. PICK left \in [Path -> UNION {OnDisk(q) : q \in Path}] :
         /\ \A q \in Path : left[q] \in OnDisk(q)
         /\ file' = [q \in {r \in Path : left[r] # None} |-> left[q]]
         /\ versions' = [q \in Path |-> {left[q]}]
  BY DEF MachineStarts
<1>2. /\ up' = TRUE /\ UNCHANGED <<type, ids, texts, pc, object, last, faults>>
      /\ last = <<>> /\ \A p \in Process : pc[p].op = "idle"
  BY DEF MachineStarts, Inv, DownInv
<1>3. \A q \in Path : left[q] = None \/ (left[q] \in Cipher /\ Owned(q, left[q]))
  BY <1>1, OnDiskOwned
<1>4. /\ DOMAIN file' \subseteq Path
      /\ \A q \in DOMAIN file' : file'[q] \in Cipher /\ Owned(q, file'[q])
  BY <1>1, <1>3
<1>5. /\ versions' \in [Path -> SUBSET (Cipher \cup {None})]
      /\ \A q \in Path : \A v \in versions'[q] \ {None} : Owned(q, v)
  BY <1>1, <1>3
<1>6. DOMAIN last' = {}
  BY <1>2
<1>7. TypeOK'
  BY <1>2, <1>4, <1>5, <1>6 DEF Inv, TypeOK
<1>8. FileInv'
  BY <1>2, <1>6 DEF FileInv, KeepsLast, Busy, AloneWrite, AloneRead
<1>9. OwnInv'
  <2>1. \A q, c : Owned(q, c) => Owned(q, c)'
    BY <1>2 DEF Owned, Owns
  <2>2. \A p \in Process : Holds(p)'
    BY <1>2, <2>1 DEF Inv, OwnInv, Holds, Has, Saved
  <2>3. QED
    BY <1>4, <1>5, <2>1, <2>2 DEF OwnInv
<1>10. QED
  BY <1>2, <1>7, <1>8, <1>9 DEF Inv, DownInv

\* The invariant holds before anything is stored.
LEMMA InvInit == Init => Inv
<1> SUFFICES ASSUME Init PROVE Inv
  OBVIOUS
<1>2. TypeOK
  <2>1. type \in [Process -> ConfigParam]
    BY StoreAssumption DEF Init, ConfigParam, TransportType
  <2>2. texts \in Seq(Text) /\ Len(texts) <= MaxText /\ ids \in 0 .. MaxId /\ faults \in 0 .. MaxFault
    BY StoreAssumption DEF Init
  <2>3. DOMAIN file = {} /\ DOMAIN last = {}
    BY DEF Init
  <2>4. pc \in [Process -> Doing] /\ object \in [Process -> Block \cup Config \cup {None}]
    BY DEF Init, Doing
  <2>5. versions \in [Path -> SUBSET (Cipher \cup {None})] /\ up \in BOOLEAN
    BY DEF Init
  <2>6. QED
    BY <2>1, <2>2, <2>3, <2>4, <2>5 DEF TypeOK
<1>3. /\ DOMAIN file = {} /\ DOMAIN last = {}
      /\ \A p \in Process : pc[p].op = "idle" /\ object[p] = None
  BY DEF Init, Idle
<1>4. FileInv
  BY <1>3 DEF FileInv, KeepsLast, Busy, AloneWrite, AloneRead
<1>5. OwnInv
  <2>1. \A q \in Path : versions[q] = {None}
    BY DEF Init
  <2>2. QED
    BY <1>3, <2>1 DEF OwnInv, Holds, Has
<1>6. QED
  BY <1>2, <1>4, <1>5 DEF Init, Inv, DownInv

\* Every step keeps the invariant.
LEMMA InvStep == Inv /\ [Next]_vars => Inv'
<1> SUFFICES ASSUME Inv, [Next]_vars PROVE Inv'
  OBVIOUS
<1>2. CASE UNCHANGED vars
  BY <1>2 DEF vars, Inv, TypeOK, FileInv, KeepsLast, Writing, Busy, AloneWrite, AloneRead,
              OwnInv, Owned, Owns, Holds, Has, Saved, DownInv
<1>3. ASSUME NEW p \in Process, Step(p) PROVE Inv'
  <2>1. Shape(p) /\ FileTypes
    BY <1>3, StepShape DEF Inv, TypeOK, FileTypes
  <2>2. PICK o : Gives(p, o)
    BY <1>3, StepHolds
  <2>3. Holds(p)'
    BY <1>3, StepHolds
  <2>4. texts \in Seq(Text) /\ Len(texts) <= MaxText
    BY DEF Inv, TypeOK
  <2>5. TypeOK'
    <3>1. FileTypes'
      BY <2>1, ShapeTypes DEF Inv, FileInv
    <3>2. texts' \in Seq(Text) /\ Len(texts') <= MaxText
      BY <2>2, <2>4, OwnedGrows DEF Gives
    <3>3. object' \in [Process -> Block \cup Config \cup {None}]
      BY <2>2 DEF Gives, Inv, TypeOK
    <3>4. ids' \in 0 .. MaxId /\ faults' \in 0 .. MaxFault /\ type' \in [Process -> ConfigParam]
      BY <2>2 DEF Gives, Inv, TypeOK
    <3>5. up' \in BOOLEAN
      BY <1>3 DEF Step, Inv, TypeOK
    <3>6. versions' \in [Path -> SUBSET (Cipher \cup {None})]
      BY <2>1, <3>1, VersionsGrow DEF Inv, TypeOK
    <3>7. QED
      BY <3>1, <3>2, <3>3, <3>4, <3>5, <3>6 DEF TypeOK, FileTypes
  <2>6. FileInv'
    BY <2>1, FileStep DEF Inv
  <2>7. OwnInv'
    <3>1. ASSUME NEW r \in Process \ {p} PROVE Holds(r)'
      <4>1. object'[r] = object[r]
        BY <2>2 DEF Gives, Inv, TypeOK
      <4>2. /\ \A q, c : Owned(q, c) => Owned(q, c)'
            /\ \A x : Saved(x) => Saved(x)'
        BY <2>2, <2>4, OwnedGrows DEF Gives
      <4>3. Holds(r)
        BY DEF Inv, OwnInv
      <4>4. Has(r, "block")' => Owned(BlockToFilename(object[r].id), object[r].cipher)'
        BY <4>1, <4>2, <4>3 DEF Holds, Has
      <4>5. (Has(r, "config") /\ object[r].name # None)' => Saved(object[r])'
        BY <4>1, <4>2, <4>3 DEF Holds, Has
      <4>6. pc'[r].op = "write" => Owned(pc[r].path, pc[r].data)'
        BY <2>1, <4>2, <4>3, OthersStay DEF Holds
      <4>7. QED
        BY <2>1, <4>1, <4>3, <4>4, <4>5, <4>6, OthersStay DEF Holds, Has
    <3>2. \A q \in DOMAIN file' : Owned(q, file[q])'
      BY <2>1, <2>2, FilesOwned DEF Gives
    <3>3. \A q \in Path : \A v \in versions'[q] \ {None} : Owned(q, v)'
      <4>1. FileTypes'
        BY <2>1, ShapeTypes DEF Inv, FileInv
      <4>2. \A q, c : Owned(q, c) => Owned(q, c)'
        BY <2>2, <2>4, OwnedGrows DEF Gives
      <4>3. \A q \in Path : \A v \in versions[q] \ {None} : Owned(q, v)'
        BY <4>2 DEF Inv, OwnInv
      <4>4. ASSUME NEW w \in Path, w \in DOMAIN file',
                   versions' = [versions EXCEPT ![w] = @ \cup {file'[w]}],
                   NEW q \in Path, NEW v \in versions'[q] \ {None}
            PROVE  Owned(q, v)'
        <5>1. v \in versions[q] \ {None} \/ (q = w /\ v = file'[w])
          BY <4>4 DEF Inv, TypeOK
        <5>2. Owned(w, file[w])'
          BY <3>2, <4>4
        <5>3. QED
          BY <4>3, <5>1, <5>2 DEF Owned
      <4>5. QED
        BY <2>1, <4>1, <4>3, <4>4, VersionsGrow
    <3>4. QED
      BY <2>3, <3>1, <3>2, <3>3 DEF OwnInv
  <2>8. DownInv'
    BY <1>3 DEF Step, DownInv
  <2>9. QED
    BY <2>5, <2>6, <2>7, <2>8 DEF Inv
<1>4. QED
  BY <1>2, <1>3, StopKeeps, StartKeeps DEF Next

\* The invariant always holds.
LEMMA InvAlways == Spec => []Inv
<1>1. QED
  BY InvInit, InvStep, PTL DEF Spec

\* The invariant tells where a block or a Config that opens comes from.
LEMMA InvAuthentic == Inv => Authentic
<1> SUFFICES ASSUME Inv PROVE Authentic
  OBVIOUS
<1>2. ASSUME NEW p \in Process, Has(p, "block"),
             NEW n \in Opened(object[p].cipher, object[p].key)
      PROVE  texts[n].for = object[p].id
  <2>1. Owned(BlockToFilename(object[p].id), object[p].cipher)
    BY <1>2 DEF Inv, OwnInv, Holds
  <2>2. Owns(BlockToFilename(object[p].id), texts[n])
    BY <1>2, <2>1, OpenedOwned DEF Inv
  <2>3. QED
    BY <2>2 DEF Owns, BlockToFilename, ConfigName
<1>3. ASSUME NEW p \in Process, Has(p, "config") /\ object[p].name # None
      PROVE  Saved(object[p])
  BY <1>3 DEF Inv, OwnInv, Holds
<1>4. QED
  BY <1>2, <1>3 DEF Authentic, Saved

\* A read that no write overlaps brings what the last write left.
LEMMA FetchesWhatLasts == Inv => \A p \in Process : FetchesLast(p)
<1>1. SUFFICES ASSUME Inv, NEW p \in Process, Fetch(p), pc[p].alone, pc[p].path \in DOMAIN last
               PROVE  object'[p].cipher = last[pc[p].path]
  BY DEF FetchesLast
<1>2. pc[p].op = "read" /\ Has(p, "block")
  BY <1>1 DEF Fetch, Inv, OwnInv, Holds
<1>3. Writing(pc[p].path) = {} /\ pc[p].len = Len(file[pc[p].path])
  BY <1>1, <1>2, NobodyWrites DEF Inv, FileInv, AloneRead
<1>4. Contents(pc[p].path, pc[p].len) = last[pc[p].path]
  BY <1>1, <1>2, <1>3, ContentsOwned DEF Inv, FileInv, KeepsLast
<1>5. object'[p] = [object[p] EXCEPT !.cipher = Contents(pc[p].path, pc[p].len)]
  BY <1>1 DEF Fetch, Inv, TypeOK
<1>6. [object[p] EXCEPT !.cipher = Contents(pc[p].path, pc[p].len)].cipher
         = Contents(pc[p].path, pc[p].len)
  BY <1>2, ObjectFacts DEF Block, Inv
<1>7. QED
  BY <1>4, <1>5, <1>6

\* The variables keep their types: whatever is read, in whatever state the file
\* is, is a block or a Config.
THEOREM TypesHold == Spec => []TypeOK
<1>1. Inv => TypeOK
  BY DEF Inv
<1>2. QED
  BY <1>1, InvAlways, PTL

\* DataBlock::plain_text never returns what was given to another block, or a mixture
\* of two writes, and Config (name, phrase) never what was not saved under that name.
THEOREM OpensOnlyItsOwn == Spec => []Authentic
<1>1. QED
  BY InvAlways, InvAuthentic, PTL

\* Block::read brings what the last write left, if no write overlaps the read and that
\* write was not overtaken or cut short, and the machine has not stopped since.
THEOREM LoneReadsTrue == Spec => LoneReads
<1>1. Inv /\ [Next]_vars => [\A p \in Process : FetchesLast(p)]_vars
  BY FetchesWhatLasts
<1>2. QED
  BY <1>1, InvAlways, PTL DEF Spec, LoneReads
=============================================================================
