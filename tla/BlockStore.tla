----------------------------- MODULE BlockStore -----------------------------
(***************************************************************************)
(* The store of the C++ rewrite: blocks that processes keep in memory, the *)
(* directory in which TransportFS keeps one file per block id, and the     *)
(* file of a Config.  Several processes share the directory (root.h: "it   *)
(* is reasonable that the user has multiple hosts"), and nothing locks it. *)
(*                                                                         *)
(* A write opens and truncates its file and then fills it; a read measures *)
(* its file and then reads that much: each is two steps here.              *)
(*                                                                         *)
(* What is abstracted:                                                     *)
(*  - a cipher text is a number n, its place in `texts', and a file or a   *)
(*    cipher in memory is a sequence of chunks <<n, i>>: chunk i of text n;*)
(*  - compress, encrypt, decrypt and decompress are the test that the file *)
(*    starts with a whole text sealed with the key at hand and ends as     *)
(*    some text of that key does (the checksums of bzip2 and CBC padding   *)
(*    tell everything else apart);                                         *)
(*  - `file' is what the processes see; nothing asks the kernel to write   *)
(*    it back, so that a stop of the machine leaves of each file a first   *)
(*    part of any of the `versions' that it has had;                       *)
(*  - the directory and all the processes are on one machine;              *)
(*  - a process has one object in memory at a time, a Block or a Config;   *)
(*    a CoverBlock, a DataBlock whose set_content does nothing, is one;    *)
(*  - m_status is left out: constructors set it and nothing reads it.      *)
(* A read of a missing file throws and changes nothing: it is not a step.  *)
(***************************************************************************)
EXTENDS Integers, Sequences, FiniteSets

CONSTANTS
    Process,     \* the processes that share the directory
    Key,         \* the crypto keys of blocks
    Phrase,      \* passphrases
    Name,        \* names of config files
    Content,     \* what blocks are given
    Long,        \* the contents that need two chunks: the stream does not buffer them
    Type,        \* the transports that processes ask for
    None,        \* no object, no name, no key
    MaxId,       \* bound: block ids drawn
    MaxText,     \* bound: cipher texts made
    MaxFault     \* bound: crashes, failed writes and stops of the machine

ASSUME StoreAssumption ==
    /\ Long \subseteq Content
    /\ Type \subseteq {"base_transport", "no_transport", "fs"}
    /\ MaxId \in Nat /\ MaxText \in Nat /\ MaxFault \in Nat

VARIABLES
    type,        \* the m_transport_type of the ConfigParam of each process
    ids,         \* block ids drawn so far
    texts,       \* every cipher text made, with what it was made of
    file,        \* file[q]: the chunks of file q, for the files that exist
    versions,    \* versions[q]: what file q has held since the machine started,
                 \* with None for no file: what may have been written back
    pc,          \* what each process is doing
    object,      \* the Block or the Config that it has in memory
    last,        \* history: what the last write left in a file, for the files
                 \* where it ran alone and to its end, since the machine started
    up,          \* the machine is up
    faults       \* what bounds the model

vars == <<type, ids, texts, file, versions, pc, object, last, up, faults>>

-----------------------------------------------------------------------------
(* The data. *)

Id == 1 .. MaxId

\* pseudo_random_string: an id that nobody has.
OldId == ids           \* mutant: drawn twice
FreshId == ids + 1

\* message_digest (id, true), and in_config_name.
OneName(id) == <<"block", 1>>     \* mutant: the id is left out
BlockToFilename(id) == <<"block", id>>
ConfigName(name) == <<"config", name>>
Path == {BlockToFilename(id) : id \in Id} \cup {ConfigName(name) : name \in Name}

\* phrase_to_key: a key that only this phrase has.
PhraseToKey(phrase) == <<"phrase", phrase>>
PhraseKey == {PhraseToKey(phrase) : phrase \in Phrase}

\* To have no key is not to have the key of a phrase.
ASSUME KeyAssumption == None \notin PhraseKey

\* What Config::serialize archives.
Stored == [root : Id, key : PhraseKey]

Text == [key : Key \cup PhraseKey, for : Id \cup Name, data : Content \cup Stored,
         size : 1 .. 2]

\* What the end of a buffer holds that fs.read did not fill.
Junk == <<0, 0>>
Chunk == {Junk} \cup ((1 .. MaxText) \X (1 .. 2))
Cipher == UNION {[1 .. n -> Chunk] : n \in 0 .. 2}

Block  == [is : {"block"}, id : Id, key : Key, cipher : Cipher]
Config == [is : {"config"}, root : Id, key : PhraseKey \cup {None}, name : Name \cup {None}]

Idle == [op |-> "idle"]
Doing == {Idle}
    \cup [op : {"write"}, path : Path, data : Cipher, alone : BOOLEAN]
    \cup [op : {"read"}, path : Path, len : 0 .. 2, alone : BOOLEAN,
          key : PhraseKey \cup {None}]

-----------------------------------------------------------------------------
(* Encryption and compression. *)

\* encrypt (compress (data), key)
Sealed(key, for, data, size) == [key |-> key, for |-> for, data |-> data, size |-> size]
BlockText(key, id, v) == Sealed(key, id, v, IF v \in Long THEN 2 ELSE 1)
Whole(n, size) == [i \in 1 .. size |-> <<n, i>>]

\* decrypt throws unless the padding is right: the cipher ends as a text of this key.
Decrypts(cipher, key) ==
    \E n \in DOMAIN texts : /\ texts[n].key = key
                            /\ cipher # <<>>
                            /\ cipher[Len(cipher)] = <<n, texts[n].size>>

\* decompress stops at the end of the stream, and ignores what follows it.
Decompresses(n, cipher) ==
    \A i \in 1 .. texts[n].size : i \in DOMAIN cipher /\ cipher[i] = <<n, i>>

\* What DataBlock::plain_text returns and what a Config is destreamed from: a text,
\* or none when decrypt or decompress throws.
Opened(cipher, key) ==
    {n \in DOMAIN texts : /\ texts[n].key = key
                          /\ Decrypts(cipher, key) /\ Decompresses(n, cipher)}

-----------------------------------------------------------------------------
(* Transports. *)

TransportType == {"invalid_transport", "base_transport", "no_transport", "fs"}

\* make_transport: what a block of p is read and written by; the others throw.
\* ConfigParam::transport keeps the first one it has made.
MakeTransport(p) == CASE type[p] = "no_transport" -> {"NoTransport"}
                      [] type[p] = "fs" -> {"TransportFS"}
                      [] OTHER -> {}

\* What the constructor of ConfigParam lets pass.
ConfigParam == TransportType \ {"invalid_transport"}

-----------------------------------------------------------------------------
(* Blocks in memory. *)

Init ==
    /\ type \in [Process -> Type]
    /\ ids = 0 /\ texts = <<>> /\ file = <<>>
    /\ versions = [q \in Path |-> {None}]
    /\ pc = [p \in Process |-> Idle]
    /\ object = [p \in Process |-> None]
    /\ last = <<>> /\ up = TRUE /\ faults = 0

CanSeal == Len(texts) < MaxText
Makes(p, o) == object' = [object EXCEPT ![p] = o]
BlockOf(id, key, cipher) == [is |-> "block", id |-> id, key |-> key, cipher |-> cipher]

Has(p, is) == object[p] # None /\ object[p].is = is

storeVars == <<type, file, versions, last, faults>>

\* A block is made with the transport of its process.
Makable(p) == pc[p] = Idle /\ MakeTransport(p) # {}

\* block_empty
NewEmpty(p) == \E key \in Key :
    /\ Makable(p) /\ FreshId <= MaxId
    /\ ids' = FreshId
    /\ Makes(p, BlockOf(FreshId, key, <<>>))
    /\ UNCHANGED <<texts, pc, storeVars>>

\* block_by_content
NewBlock(p) == \E key \in Key, v \in Content :
    /\ Makable(p) /\ FreshId <= MaxId /\ CanSeal
    /\ ids' = FreshId
    /\ LET t == BlockText(key, FreshId, v)
       IN  /\ texts' = Append(texts, t)
           /\ Makes(p, BlockOf(FreshId, key, Whole(Len(texts) + 1, t.size)))
    /\ UNCHANGED <<pc, storeVars>>

\* block_by_id: of an id that somebody has drawn, for a block or for the root
\* of a Config; nothing is fetched.
BlockById(p) == \E id \in 1 .. ids, key \in Key :
    /\ Makable(p)
    /\ Makes(p, BlockOf(id, key, <<>>))
    /\ UNCHANGED <<ids, texts, pc, storeVars>>

\* DataBlock::set_content
SetContent(p) == \E v \in Content :
    /\ pc[p] = Idle /\ Has(p, "block") /\ CanSeal
    /\ LET t == BlockText(object[p].key, object[p].id, v)
       IN  /\ texts' = Append(texts, t)
           /\ object' = [object EXCEPT ![p].cipher = Whole(Len(texts) + 1, t.size)]
    /\ UNCHANGED <<ids, pc, storeVars>>

-----------------------------------------------------------------------------
(* Files. *)

Writing(q) == {p \in Process : pc[p].op = "write" /\ pc[p].path = q}

\* ios_base::trunc.
Truncated(q) == <<>>

Stores(q, chunks) ==
    /\ file' = [r \in DOMAIN file \cup {q} |-> IF r = q THEN chunks ELSE file[r]]
    /\ versions' = [versions EXCEPT ![q] = @ \cup {chunks}]

\* The stream is opened: from now on whoever is at the same file is not alone.
OpenToWrite(p, q, cipher) ==
    /\ Stores(q, Truncated(q))
    /\ pc' = [r \in Process |->
         IF r = p THEN [op |-> "write", path |-> q, data |-> cipher, alone |-> Writing(q) = {}]
         ELSE IF pc[r] # Idle /\ pc[r].path = q THEN [pc[r] EXCEPT !.alone = FALSE]
         ELSE pc[r]]

\* Data written from the start of a file that may no longer be empty.
Overlay(cipher, old) ==
    cipher \o SubSeq(old, Len(cipher) + 1, Len(old))

\* seekg and tellg.
ShortOf(q) == IF Len(file[q]) > 1 THEN Len(file[q]) - 1 ELSE Len(file[q])  \* mutant
Measure(q) == Len(file[q])

OpenToRead(p, q, key) ==
    /\ q \in DOMAIN file
    /\ pc' = [pc EXCEPT ![p] = [op |-> "read", path |-> q, len |-> Measure(q),
                                alone |-> Writing(q) = {}, key |-> key]]

\* NoTransport reads and writes nothing, and these are no steps.
ByFile(p) == "TransportFS" \in MakeTransport(p)

\* Block::write up to the ofstream.
Write(p) ==
    /\ pc[p] = Idle /\ Has(p, "block") /\ ByFile(p)
    /\ OpenToWrite(p, BlockToFilename(object[p].id), object[p].cipher)
    /\ UNCHANGED <<type, ids, texts, object, last, faults>>

\* Block::read up to the length.
Read(p) ==
    /\ pc[p] = Idle /\ Has(p, "block") /\ ByFile(p)
    /\ OpenToRead(p, BlockToFilename(object[p].id), None)
    /\ UNCHANGED <<ids, texts, object, storeVars>>

Disturbs(q) == last' = [r \in DOMAIN last \ {q} |-> last[r]]

\* fs.write and fs.close, of a block or a Config.
Fill(p) ==
    /\ pc[p].op = "write"
    /\ LET q == pc[p].path
       IN  /\ Stores(q, Overlay(pc[p].data, file[q]))
           /\ IF pc[p].alone
              THEN last' = [r \in DOMAIN last \cup {q} |->
                               IF r = q THEN pc[p].data ELSE last[r]]
              ELSE Disturbs(q)
    /\ pc' = [pc EXCEPT ![p] = Idle]
    /\ UNCHANGED <<type, ids, texts, object, faults>>

\* Part of the data reaches the file, or nothing after the truncation.
FillsInPart(p) == \E k \in 0 .. 1 :
    LET q == pc[p].path
    IN  /\ k = 0 \/ k < Len(pc[p].data)
        /\ Stores(q, Overlay(SubSeq(pc[p].data, 1, k), file[q]))
        /\ Disturbs(q)

\* The disk is full.  The data of a short text is written by close, after the
\* test of the stream: write returns.  A long one makes it throw.
FillFails(p) ==
    /\ pc[p].op = "write" /\ pc[p].data # <<>> /\ faults < MaxFault
    /\ faults' = faults + 1
    /\ FillsInPart(p)
    /\ pc' = [pc EXCEPT ![p] = Idle]
    /\ UNCHANGED <<type, ids, texts, object>>

\* The file may have shrunk or grown since it was measured.
Contents(q, len) == [i \in 1 .. len |-> IF i <= Len(file[q]) THEN file[q][i] ELSE Junk]

\* fs.read and from_stream.
Fetch(p) ==
    /\ pc[p].op = "read" /\ pc[p].key = None
    /\ object' = [object EXCEPT ![p].cipher = Contents(pc[p].path, pc[p].len)]
    /\ pc' = [pc EXCEPT ![p] = Idle]
    /\ UNCHANGED <<ids, texts, storeVars>>

-----------------------------------------------------------------------------
(* The Config. *)

ConfigOf(root, key, name) == [is |-> "config", root |-> root, key |-> key, name |-> name]

Quiet(p) == pc[p] = Idle /\ UNCHANGED <<type, last, faults>>

\* Config (params): the key of the passphrase, if there is one, and the transport,
\* which the Config does not use.  The root id is
\* drawn by the constructor of BlockId.
NewConfig(p) == \E key \in PhraseKey \cup {None} :
    /\ Quiet(p) /\ MakeTransport(p) # {} /\ FreshId <= MaxId
    /\ ids' = FreshId
    /\ Makes(p, ConfigOf(FreshId, key, None))
    /\ UNCHANGED <<texts, file, versions, pc>>

\* save (): archive, seal and open the file.
Archive(p, c) ==
    /\ CanSeal
    /\ texts' = Append(texts, Sealed(c.key, c.name, [root |-> c.root, key |-> c.key], 1))
    /\ OpenToWrite(p, ConfigName(c.name), Whole(Len(texts) + 1, 1))
    /\ Makes(p, c)
    /\ UNCHANGED ids

Saves(p) == Quiet(p) /\ Has(p, "config")

Save(p) ==
    /\ Saves(p) /\ object[p].name # None /\ object[p].key # None
    /\ Archive(p, object[p])

\* save () asserts that there is a name and a key: the process ends.
SaveAborts(p) ==
    /\ Saves(p) /\ (object[p].name = None \/ object[p].key = None)
    /\ Makes(p, None)
    /\ UNCHANGED <<ids, texts, pc, file, versions>>

\* save (name, passphrase)
SaveAs(p) == \E name \in Name, phrase \in Phrase :
    /\ Saves(p)
    /\ Archive(p, [object[p] EXCEPT !.name = name, !.key = PhraseToKey(phrase)])

\* Config (name, passphrase) up to the length.
Load(p) == \E name \in Name, phrase \in Phrase :
    /\ pc[p] = Idle
    /\ OpenToRead(p, ConfigName(name), PhraseToKey(phrase))
    /\ Makes(p, None)
    /\ UNCHANGED <<ids, texts, storeVars>>

\* The rest: the archive in the file replaces the key and the root id.  When
\* decrypt or decompress throws there is no Config.
Rehydrate(p) ==
    /\ pc[p].op = "read" /\ pc[p].key # None
    /\ LET found == Opened(Contents(pc[p].path, pc[p].len), pc[p].key)
       IN  \/ found = {} /\ UNCHANGED object
           \/ \E n \in found :
                Makes(p, ConfigOf(texts[n].data.root, texts[n].data.key, pc[p].path[2]))
    /\ pc' = [pc EXCEPT ![p] = Idle]
    /\ UNCHANGED <<ids, texts, storeVars>>

-----------------------------------------------------------------------------
(* Ends of a process and of the machine. *)

\* The process is killed while a file is open for writing: the file keeps part of
\* the data.  (At any other time its memory is lost, and no more.)
Crash(p) ==
    /\ pc[p].op = "write" /\ faults < MaxFault
    /\ faults' = faults + 1
    /\ FillsInPart(p)
    /\ pc' = [pc EXCEPT ![p] = Idle]
    /\ Makes(p, None)
    /\ UNCHANGED <<type, ids, texts>>

\* A step of process p.
Step(p) ==
    /\ up /\ UNCHANGED up
    /\ \/ NewEmpty(p) \/ NewBlock(p) \/ BlockById(p) \/ SetContent(p)
       \/ Write(p) \/ Fill(p) \/ FillFails(p) \/ Read(p) \/ Fetch(p)
       \/ NewConfig(p) \/ Save(p) \/ SaveAborts(p) \/ SaveAs(p) \/ Load(p) \/ Rehydrate(p)
       \/ Crash(p)

\* What the disk may hold of file q: neither TransportFS::write nor Config::save asks
\* the kernel to write it back, so a first part of anything it has held, or nothing.
OnDisk(q) ==
    (versions[q] \cap {None})
    \cup (UNION {{SubSeq(v, 1, k) : k \in 0 .. Len(v)} : v \in versions[q] \ {None}})

\* The machine stops, with the processes and with what was not written back.
MachineStops ==
    /\ up /\ faults < MaxFault
    /\ up' = FALSE /\ faults' = faults + 1
    /\ file' = <<>> /\ last' = <<>>
    /\ pc' = [p \in Process |-> Idle]
    /\ object' = [p \in Process |-> None]
    /\ UNCHANGED <<type, ids, texts, versions>>

\* It starts again, with what was on the disk.
MachineStarts ==
    /\ ~up /\ up' = TRUE
    /\ \E left \in [Path -> UNION {OnDisk(q) : q \in Path}] :
         /\ \A q \in Path : left[q] \in OnDisk(q)
         /\ file' = [q \in {r \in Path : left[r] # None} |-> left[q]]
         /\ versions' = [q \in Path |-> {left[q]}]
    /\ UNCHANGED <<type, ids, texts, pc, object, last, faults>>

Next == MachineStops \/ MachineStarts \/ \E p \in Process : Step(p)

Spec == Init /\ [][Next]_vars

-----------------------------------------------------------------------------
(* Properties. *)

\* The variables keep their types.
TypeOK ==
    /\ type \in [Process -> ConfigParam]
    /\ ids \in 0 .. MaxId /\ texts \in Seq(Text) /\ Len(texts) <= MaxText
    /\ DOMAIN file \subseteq Path /\ \A q \in DOMAIN file : file[q] \in Cipher
    /\ versions \in [Path -> SUBSET (Cipher \cup {None})]
    /\ pc \in [Process -> Doing]
    /\ object \in [Process -> Block \cup Config \cup {None}]
    /\ DOMAIN last \subseteq DOMAIN file /\ \A q \in DOMAIN last : last[q] \in Cipher
    /\ up \in BOOLEAN /\ faults \in 0 .. MaxFault

\* Whatever processes write at once, crash in, or read half written, and whatever the
\* machine leaves when it stops, what plain_text returns was given for the id of that
\* block, in one piece, and the Config that a constructor returns was saved under that
\* name.
Authentic ==
    /\ \A p \in Process : Has(p, "block") =>
          \A n \in Opened(object[p].cipher, object[p].key) : texts[n].for = object[p].id
    /\ \A p \in Process : (Has(p, "config") /\ object[p].name # None) =>
          \E n \in DOMAIN texts : /\ texts[n].for = object[p].name
                                  /\ texts[n].data = [root |-> object[p].root,
                                                      key |-> object[p].key]

\* A read that no write overlaps brings what the last write put in the file, unless
\* that write was overtaken or cut short, or the machine has stopped since: an
\* answer of Block::read is never of before that write or of a part of it.
FetchesLast(p) ==
    (Fetch(p) /\ pc[p].alone /\ pc[p].path \in DOMAIN last)
        => object'[p].cipher = last[pc[p].path]
LoneReads == [][\A p \in Process : FetchesLast(p)]_vars
=============================================================================
