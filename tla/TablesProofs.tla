---------------------------- MODULE TablesProofs ----------------------------
(***************************************************************************)
(* Theorems about Tables: types, one file per id, what a summary leads to, *)
(* and that what the counters on disk have passed is kept.                 *)
(*                                                                         *)
(* Records are synced, so that a process sees what is on disk (mem = disk).*)
(* Without a loss no id in use is beyond its counter, so that a new one is *)
(* new; with one, a new id is still beyond the counter on disk.            *)
(***************************************************************************)
EXTENDS Tables, TLAPS

\* A table takes a record of its type.
LEMMA HavingTable ==
    ASSUME NEW t \in Tables, NEW f, IsTable(t, f), NEW k \in Keys(t), NEW v \in Records(t)
    PROVE  IsTable(t, Having(f, k, v))
<1>1. /\ DOMAIN Having(f, k, v) = DOMAIN f \cup {k}
      /\ Having(f, k, v)[k] = v
      /\ \A x \in DOMAIN f : x # k => Having(f, k, v)[x] = f[x]
  BY DEF Having
<1>2. DOMAIN f \subseteq Keys(t) /\ \A x \in DOMAIN f : f[x] \in Records(t)
  BY DEF IsTable
<1>3. DOMAIN Having(f, k, v) \subseteq Keys(t)
  BY <1>1, <1>2
<1>4. ASSUME NEW x \in DOMAIN Having(f, k, v)
      PROVE  Having(f, k, v)[x] \in Records(t)
  <2>1. CASE x = k
    BY <1>1, <2>1
  <2>2. CASE x # k
    <3>1. x \in DOMAIN f
      BY <1>1, <1>4, <2>2
    <3>2. QED
      BY <1>1, <1>2, <2>2, <3>1
  <2>3. QED
    BY <2>1, <2>2
<1>5. QED
  BY <1>3, <1>4 DEF IsTable

\* What db_put does to the types.
LEMMA PutTypes ==
    ASSUME TypeOK, NEW t \in Tables, NEW k \in Keys(t), NEW v \in Records(t), DbPut(t, k, v)
    PROVE  /\ mem' = [u \in Tables |-> mem'[u]] /\ disk' = [u \in Tables |-> disk'[u]]
           /\ \A u \in Tables : IsTable(u, mem'[u]) /\ IsTable(u, disk'[u])
<1>1. /\ mem = [u \in Tables |-> mem[u]] /\ disk = [u \in Tables |-> disk[u]]
      /\ \A u \in Tables : IsTable(u, mem[u]) /\ IsTable(u, disk[u])
  BY DEF TypeOK
<1>2. /\ mem' = [mem EXCEPT ![t] = Having(mem[t], k, v)]
      /\ disk' = [disk EXCEPT ![t] = Having(mem[t], k, v)]
  BY DEF DbPut
<1>3. /\ mem' = [u \in Tables |-> IF u = t THEN Having(mem[t], k, v) ELSE mem[u]]
      /\ disk' = [u \in Tables |-> IF u = t THEN Having(mem[t], k, v) ELSE disk[u]]
  BY <1>1, <1>2
<1>4. IsTable(t, Having(mem[t], k, v))
  BY <1>1, HavingTable
<1>5. QED
  BY <1>1, <1>3, <1>4

-----------------------------------------------------------------------------
(* Types. *)

PutType == [name : File, file : Id, block : Nat, object : Id, length : Length]
AckType == [name : File, file : Id, block : Nat, object : Id, length : Length, archive : Id]

\* A process ends.
LEMMA DownTypes ==
    ASSUME TypeOK, NEW p \in Process, Down(p)
    PROVE  up' \in [Process -> BOOLEAN] /\ toServer' \in Seq(PutType) /\ toClient' \in Seq(AckType)
  BY DEF TypeOK, Down

\* The counters on disk come from the counters.
LEMMA SyncTypes ==
    ASSUME TypeOK, NEW p \in Process, SyncCounters(p)
    PROVE  counted' \in [Tables -> Nat]
  BY DEF TypeOK, SyncCounters

\* A process reads what is on disk.
LEMMA FreshTypes ==
    ASSUME TypeOK, NEW p \in Process, Fresh(p)
    PROVE  /\ mem' = [t \in Tables |-> mem'[t]]
           /\ \A t \in Tables : IsTable(t, mem'[t])
           /\ counter' \in [Tables -> Nat]
<1>1. mem' = [t \in Tables |-> IF t \in Opened(p) THEN disk[t] ELSE mem[t]]
  BY DEF Fresh
<1>2. \A t \in Tables : IsTable(t, mem[t]) /\ IsTable(t, disk[t])
  BY DEF TypeOK
<1>3. counter' \in [Tables -> Nat]
  BY DEF TypeOK, Fresh
<1>4. QED
  BY <1>1, <1>2, <1>3

LEMMA KilledTypes ==
    ASSUME TypeOK, NEW p \in Process, Killed(p), aborted' \in BOOLEAN
    PROVE  TypeOK'
<1>1. /\ up' \in [Process -> BOOLEAN] /\ toServer' \in Seq(PutType) /\ toClient' \in Seq(AckType)
  BY DownTypes DEF Killed
<1>2. /\ mem' = [t \in Tables |-> mem'[t]]
      /\ \A t \in Tables : IsTable(t, mem'[t])
      /\ counter' \in [Tables -> Nat]
  BY FreshTypes DEF Killed
<1>3. lost' \in [Process -> BOOLEAN]
  <2>1. lost \in [Process -> BOOLEAN]
    BY DEF TypeOK
  <2>2. lost' = [lost EXCEPT ![p] = lost[p] \/ \E t \in Numbered(p) : counter[t] # counted[t]]
    BY DEF Killed
  <2> DEFINE now == lost[p] \/ \E t \in Numbered(p) : counter[t] # counted[t]
  <2>3. now \in BOOLEAN
    BY <2>1
  <2> HIDE DEF now
  <2>4. lost' = [lost EXCEPT ![p] = now]
    BY <2>2 DEF now
  <2>5. QED
    BY <2>1, <2>3, <2>4
<1>4. /\ UNCHANGED <<disk, counted, prefs, objects, starts>>
  BY DEF Killed
<1>5. QED
  BY <1>1, <1>2, <1>3, <1>4 DEF TypeOK, PutType, AckType

LEMMA InitTypes == Init => TypeOK
<1> SUFFICES ASSUME Init PROVE TypeOK
  OBVIOUS
<1>1. up \in [Process -> BOOLEAN] /\ lost \in [Process -> BOOLEAN] /\ aborted \in BOOLEAN
  BY DEF Init
<1>2. \A t : IsTable(t, Empty)
  BY DEF IsTable, Empty
<1>3. /\ mem = [t \in Tables |-> Empty] /\ disk = [t \in Tables |-> Empty]
      /\ counter = [t \in Tables |-> 0] /\ counted = [t \in Tables |-> 0]
  BY DEF Init
<1>4. /\ mem = [t \in Tables |-> mem[t]] /\ disk = [t \in Tables |-> disk[t]]
      /\ \A t \in Tables : IsTable(t, mem[t]) /\ IsTable(t, disk[t])
  BY <1>2, <1>3
<1>5. counter \in [Tables -> Nat] /\ counted \in [Tables -> Nat]
  BY <1>3
<1>6. prefs \subseteq Stored /\ objects \in Nat /\ starts \in Nat
  BY DEF Init
<1>7. /\ toServer \in Seq(PutType) /\ toClient \in Seq(AckType)
  BY DEF Init
<1>8. QED
  BY <1>1, <1>4, <1>5, <1>6, <1>7 DEF TypeOK, PutType, AckType

LEMMA PutStep ==
    ASSUME TypeOK, NEW f \in File, NEW l \in Length, PutBlock(f, l) \/ PutList(f, l)
    PROVE  TypeOK'
<1> DEFINE Block == IF PutList(f, l) THEN 0 ELSE NextIndex("block")
<1>1. counter \in [Tables -> Nat] /\ "block" \in Tables /\ "filename" \in Tables
  BY DEF TypeOK, Tables
<1>2. NextIndex("block") \in Nat
  BY <1>1 DEF NextIndex
<1>3. PICK b \in Nat : Put(f, b, l) /\ counter' \in [Tables -> Nat]
  BY <1>1, <1>2 DEF PutBlock, PutList
<1>4. mem["filename"][f] \in Id
  BY <1>1, <1>3 DEF Put, DbHas, TypeOK, IsTable, Records
<1> DEFINE m == [name |-> f, file |-> mem["filename"][f], block |-> b,
                 object |-> objects + 1, length |-> l]
<1>5. objects \in Nat /\ objects + 1 \in Id
  BY DEF TypeOK, Id
<1>6. m \in PutType
  BY <1>4, <1>5 DEF PutType
<1>7. toServer' = Append(toServer, m) /\ objects' = objects + 1
  BY <1>3 DEF Put
<1> HIDE DEF m
<1>8. toServer' \in Seq(PutType)
  BY <1>6, <1>7 DEF TypeOK, PutType
<1>9. /\ objects' \in Nat
      /\ UNCHANGED <<up, mem, disk, counted, prefs, toClient, starts, lost, aborted>>
  BY <1>3, <1>5, <1>7 DEF Put
<1>10. QED
  BY <1>3, <1>8, <1>9 DEF TypeOK, PutType

LEMMA AcceptAckTypes == TypeOK /\ AcceptAck => TypeOK'
<1> SUFFICES ASSUME TypeOK, AcceptAck PROVE TypeOK'
  OBVIOUS
<1> DEFINE a == Head(toClient)
           r == [name |-> a.name, archive |-> a.archive, object |-> a.object,
                 length |-> a.length]
<1>1. toClient \in Seq(AckType) /\ toClient # <<>>
  BY DEF TypeOK, AckType, AcceptAck
<1>2. a \in AckType /\ toClient' \in Seq(AckType)
  BY <1>1 DEF AcceptAck
<1>3. r \in ClientRecord /\ a.file \in Id /\ (a.block # 0 => a.block \in Id)
  BY <1>2 DEF AckType, ClientRecord, Id
<1>4. \/ a.block # 0 /\ DbPut("block", a.block, r)
      \/ DbPut("summary", a.file, r)
  BY DEF AcceptAck
<1>5. /\ "block" \in Tables /\ Keys("block") = Id /\ Records("block") = ClientRecord
      /\ "summary" \in Tables /\ Keys("summary") = Id /\ Records("summary") = ClientRecord
  BY DEF Tables, Keys, Records
<1> HIDE DEF a, r
<1>6. /\ mem' = [u \in Tables |-> mem'[u]] /\ disk' = [u \in Tables |-> disk'[u]]
      /\ \A u \in Tables : IsTable(u, mem'[u]) /\ IsTable(u, disk'[u])
  BY <1>3, <1>4, <1>5, PutTypes
<1>7. UNCHANGED <<up, counter, counted, prefs, toServer, objects, starts, lost, aborted>>
  BY DEF AcceptAck
<1>8. QED
  BY <1>2, <1>6, <1>7 DEF TypeOK, AckType

LEMMA AcceptPutTypes == TypeOK /\ AcceptPut => TypeOK'
<1> SUFFICES ASSUME TypeOK, AcceptPut PROVE TypeOK'
  OBVIOUS
<1> DEFINE p == Head(toServer)
           id == NextIndex("archive")
           r == [object |-> p.object, size |-> p.length, length |-> ShortLength(p.length)]
           k == [name |-> p.name, file |-> p.file, block |-> p.block,
                 object |-> p.object, length |-> p.length, archive |-> id]
<1>1. toServer \in Seq(PutType) /\ toServer # <<>>
  BY DEF TypeOK, PutType, AcceptPut
<1>2. p \in PutType /\ toServer' \in Seq(PutType)
  BY <1>1 DEF AcceptPut
<1>3. id \in Id
  BY DEF NextIndex, Id, TypeOK, Tables
<1>4. ShortLength(p.length) \in 0 .. ShortRange - 1
  <2>1. p.length \in Nat
    BY <1>2, TablesAssumption DEF PutType
  <2>2. ShortRange \in Nat /\ ShortRange > 0
    BY TablesAssumption
  <2> HIDE DEF p
  <2>3. QED
    BY <2>1, <2>2 DEF ShortLength
<1>5. r \in ArchiveRecord
  BY <1>2, <1>4 DEF PutType, ArchiveRecord
<1>6. k \in AckType
  BY <1>2, <1>3 DEF PutType, AckType
<1>7. DbPut("archive", id, r) /\ toClient' = Append(toClient, k)
      /\ counter' = [counter EXCEPT !["archive"] = id]
  BY DEF AcceptPut
<1>8. "archive" \in Tables /\ Keys("archive") = Id /\ Records("archive") = ArchiveRecord
  BY DEF Tables, Keys, Records
<1> HIDE DEF p, id, r, k
<1>9. /\ mem' = [u \in Tables |-> mem'[u]] /\ disk' = [u \in Tables |-> disk'[u]]
      /\ \A u \in Tables : IsTable(u, mem'[u]) /\ IsTable(u, disk'[u])
  BY <1>3, <1>5, <1>7, <1>8, PutTypes
<1>10. toClient' \in Seq(AckType)
  BY <1>6, <1>7 DEF TypeOK, AckType
<1>11. counter' \in [Tables -> Nat]
  BY <1>3, <1>7 DEF TypeOK, Id
<1>12. UNCHANGED <<up, counted, prefs, objects, starts, lost, aborted>>
  BY DEF AcceptPut
<1>13. QED
  BY <1>2, <1>9, <1>10, <1>11, <1>12 DEF TypeOK, PutType, AckType

LEMMA TypesKept == TypeOK /\ [Next]_vars => TypeOK'
<1> SUFFICES ASSUME TypeOK, [Next]_vars PROVE TypeOK'
  OBVIOUS
<1>1. CASE Start
  <2>1. mem' = disk /\ counter' = counted
    BY <1>1 DEF Start
  <2>2. /\ mem' = [t \in Tables |-> mem'[t]] /\ \A t \in Tables : IsTable(t, mem'[t])
        /\ counter' \in [Tables -> Nat]
    BY <2>1 DEF TypeOK
  <2>3. up' \in [Process -> BOOLEAN] /\ starts' \in Nat
    BY <1>1 DEF Start, TypeOK
  <2>4. UNCHANGED <<disk, counted, prefs, pipeVars, objects, lost, aborted>>
    BY <1>1 DEF Start
  <2>5. QED
    BY <2>2, <2>3, <2>4 DEF TypeOK, pipeVars
<1>2. ASSUME NEW p \in Process, Exit(p) PROVE TypeOK'
  <2>1. /\ up' \in [Process -> BOOLEAN] /\ toServer' \in Seq(PutType)
        /\ toClient' \in Seq(AckType)
    BY <1>2, DownTypes DEF Exit
  <2>2. counted' \in [Tables -> Nat]
    BY <1>2, SyncTypes DEF Exit, CloseAll
  <2>3. disk' = [t \in Tables |-> IF t \in Opened(p) THEN mem[t] ELSE disk[t]]
    BY <1>2 DEF Exit, CloseAll
  <2>4. disk' = [t \in Tables |-> disk'[t]] /\ \A t \in Tables : IsTable(t, disk'[t])
    BY <2>3 DEF TypeOK
  <2>5. UNCHANGED <<mem, counter, prefs, objects, starts, lost, aborted>>
    BY <1>2 DEF Exit
  <2>6. QED
    BY <2>1, <2>2, <2>4, <2>5 DEF TypeOK, PutType, AckType
<1>3. ASSUME NEW p \in Process, Kill(p) PROVE TypeOK'
  <2>1. Killed(p) /\ aborted' \in BOOLEAN
    BY <1>3 DEF Kill, TypeOK
  <2>2. QED
    BY <2>1, KilledTypes
<1>4. ASSUME NEW p \in Process, Evict(p) PROVE TypeOK'
  <2>1. counted' \in [Tables -> Nat]
    BY <1>4, SyncTypes DEF Evict
  <2>2. UNCHANGED <<up, mem, disk, counter, prefs, pipeVars, objects, starts, lost, aborted>>
    BY <1>4 DEF Evict
  <2>3. QED
    BY <2>1, <2>2 DEF TypeOK, pipeVars
<1>5. ASSUME NEW k \in Stored, PutPreference(k) PROVE TypeOK'
  <2>1. counted' \in [Tables -> Nat]
    BY <1>5, SyncTypes DEF PutPreference, Process
  <2>2. prefs' \subseteq Stored
    BY <1>5 DEF PutPreference, TypeOK
  <2>3. UNCHANGED <<up, mem, disk, counter, pipeVars, objects, starts, lost, aborted>>
    BY <1>5 DEF PutPreference
  <2>4. QED
    BY <2>1, <2>2, <2>3 DEF TypeOK, pipeVars
<1>6. ASSUME NEW k \in Preference, MissPreference(k) PROVE TypeOK'
  <2>1. Killed("client") /\ aborted' \in BOOLEAN /\ "client" \in Process
    BY <1>6 DEF MissPreference, Process
  <2>2. QED
    BY <2>1, KilledTypes
<1>7. ASSUME NEW f \in File, AddFile(f) PROVE TypeOK'
  <2>1. NextIndex("filename") \in Id
    BY DEF NextIndex, Id, TypeOK, Tables
  <2>2. /\ "filename" \in Tables /\ Keys("filename") = File /\ Records("filename") = Id
    BY DEF Tables, Keys, Records
  <2>3. DbPut("filename", f, NextIndex("filename"))
    BY <1>7 DEF AddFile
  <2>4. /\ mem' = [u \in Tables |-> mem'[u]] /\ disk' = [u \in Tables |-> disk'[u]]
        /\ \A u \in Tables : IsTable(u, mem'[u]) /\ IsTable(u, disk'[u])
    BY <2>1, <2>2, <2>3, PutTypes
  <2>5. counter' \in [Tables -> Nat]
    BY <1>7, <2>1 DEF AddFile, TypeOK, Id
  <2>6. UNCHANGED <<up, counted, prefs, pipeVars, objects, starts, lost, aborted>>
    BY <1>7 DEF AddFile
  <2>7. QED
    BY <2>4, <2>5, <2>6 DEF TypeOK, pipeVars
<1>8. ASSUME NEW f \in File, NEW l \in Length, PutBlock(f, l) \/ PutList(f, l) PROVE TypeOK'
  BY <1>8, PutStep
<1>9. CASE AcceptAck
  BY <1>9, AcceptAckTypes
<1>10. CASE AcceptPut
  BY <1>10, AcceptPutTypes
<1>11. CASE UNCHANGED vars
  BY <1>11 DEF TypeOK, vars, tableVars, pipeVars
<1>12. QED
  BY <1>1, <1>2, <1>3, <1>4, <1>5, <1>6, <1>7, <1>8, <1>9, <1>10, <1>11 DEF Next

\* The tables, counters and packets have their types, whatever is killed.
THEOREM TypesHold == Spec => []TypeOK
  BY InitTypes, TypesKept, PTL DEF Spec

-----------------------------------------------------------------------------
(* The invariant. *)

Owner(t) == IF t = "archive" THEN "server" ELSE "client"

\* What is counted and asked about below.
Watched == {"filename", "archive"}

\* db_put syncs.
Synced == mem = disk

\* A counter on disk is behind the counter; a process at rest has written it.
Behind ==
    /\ \A t \in Watched : counted[t] <= counter[t]
    /\ \A t \in Watched : ~up[Owner(t)] => counter[t] = counted[t]

\* A file is named by one id, which no loss has made another file's.
NamesInv ==
    ~lost["client"] =>
        /\ \A f \in DOMAIN disk["filename"] : disk["filename"][f] <= counter["filename"]
        /\ \A f, g \in DOMAIN disk["filename"] :
              disk["filename"][f] = disk["filename"][g] => f = g

\* File f has the id n.
Named(f, n) == f \in DOMAIN disk["filename"] /\ disk["filename"][f] = n

\* Packets and summaries name a file by its id.
PacketsInv ==
    /\ \A i \in DOMAIN toServer : Named(toServer[i].name, toServer[i].file)
    /\ \A i \in DOMAIN toClient : Named(toClient[i].name, toClient[i].file)
    /\ \A id \in DOMAIN disk["summary"] : Named(disk["summary"][id].name, id)

\* Record a of archive t is the object as it was sent.
HoldsIn(t, a, object, length) ==
    /\ a \in DOMAIN t
    /\ t[a] = [object |-> object, size |-> length, length |-> ShortLength(length)]

Holds(a, object, length) == HoldsIn(disk["archive"], a, object, length)

\* Acks and summaries name what is archived.
ArchiveInv ==
    ~lost["server"] =>
        /\ \A id \in DOMAIN disk["archive"] : id <= counter["archive"]
        /\ \A i \in DOMAIN toClient :
              Holds(toClient[i].archive, toClient[i].object, toClient[i].length)
        /\ \A id \in DOMAIN disk["summary"] :
              Holds(disk["summary"][id].archive, disk["summary"][id].object,
                    disk["summary"][id].length)

Inv == TypeOK /\ Synced /\ Behind /\ NamesInv /\ PacketsInv /\ ArchiveInv

LEMMA InitInv == Init => Inv
<1> SUFFICES ASSUME Init PROVE Inv
  OBVIOUS
<1>1. TypeOK
  BY InitTypes
<1>2. mem = disk
  BY DEF Init
<1>3. /\ disk["filename"] = Empty /\ disk["archive"] = Empty /\ disk["summary"] = Empty
      /\ counter["filename"] = 0 /\ counter["archive"] = 0
      /\ counted["filename"] = 0 /\ counted["archive"] = 0
  BY DEF Init, Tables
<1>4. toServer = <<>> /\ toClient = <<>>
  BY DEF Init
<1>5. DOMAIN Empty = {}
  BY DEF Empty
<1>6. DOMAIN toServer = {} /\ DOMAIN toClient = {}
  BY <1>4
<1>7. QED
  BY <1>1, <1>2, <1>3, <1>5, <1>6
     DEF Inv, Synced, Behind, NamesInv, PacketsInv, ArchiveInv, Watched

\* A step that writes no record, and loses no counter that is not called lost.
Quiet ==
    /\ disk' = disk /\ mem' = disk
    /\ \A t \in Watched : lost'[Owner(t)] \/ (~lost[Owner(t)] /\ counter'[t] = counter[t])
    /\ toServer' \in {toServer, <<>>} /\ toClient' \in {toClient, <<>>}

LEMMA QuietStep ==
    ASSUME Inv, TypeOK', Quiet, Behind'
    PROVE  Inv'
<1>1. disk' = disk /\ mem' = disk
  BY DEF Quiet
<1>2. /\ lost'["client"] \/ (~lost["client"] /\ counter'["filename"] = counter["filename"])
      /\ lost'["server"] \/ (~lost["server"] /\ counter'["archive"] = counter["archive"])
  BY DEF Quiet, Watched, Owner
<1>3. /\ toServer' = toServer \/ DOMAIN toServer' = {}
      /\ toClient' = toClient \/ DOMAIN toClient' = {}
  BY DEF Quiet
<1>4. NamesInv'
  BY <1>1, <1>2 DEF Inv, NamesInv
<1>5. \A f, n : Named(f, n) => Named(f, n)'
  BY <1>1 DEF Named
<1>6. PacketsInv'
  BY <1>1, <1>3, <1>5 DEF Inv, PacketsInv
<1>7. \A a, o, l : Holds(a, o, l) => Holds(a, o, l)'
  BY <1>1 DEF Holds, HoldsIn, ShortLength
<1>8. ArchiveInv'
  BY <1>1, <1>2, <1>3, <1>7 DEF Inv, ArchiveInv
<1>9. QED
  BY <1>1, <1>4, <1>6, <1>8 DEF Inv, Synced

\* A process that is killed has lost no counter, or is said to have lost one.
LEMMA KilledStep ==
    ASSUME Inv, TypeOK', NEW p \in Process, Killed(p)
    PROVE  Inv'
<1>1. /\ counter \in [Tables -> Nat] /\ counted \in [Tables -> Nat]
      /\ lost \in [Process -> BOOLEAN] /\ up \in [Process -> BOOLEAN]
      /\ disk = [t \in Tables |-> disk[t]]
  BY DEF Inv, TypeOK
<1>2. Watched \subseteq Tables /\ \A t \in Watched : Owner(t) \in Process
  BY DEF Watched, Tables, Owner, Process
<1>3. counter' = [t \in Tables |-> IF t \in Numbered(p) THEN counted[t] ELSE counter[t]]
  BY DEF Killed, Fresh
<1>4. \A t \in Watched : t \in Numbered(p) <=> Owner(t) = p
  BY DEF Watched, Numbered, Opened, Owner, Process
<1>5. lost' = [lost EXCEPT ![p] = lost[p] \/ \E t \in Numbered(p) : counter[t] # counted[t]]
  BY DEF Killed
<1> DEFINE now == lost[p] \/ \E t \in Numbered(p) : counter[t] # counted[t]
<1>6. lost'[p] = now /\ \A q \in Process : q # p => lost'[q] = lost[q]
  BY <1>1, <1>5
<1>7. ASSUME NEW t \in Watched
      PROVE  lost'[Owner(t)] \/ (~lost[Owner(t)] /\ counter'[t] = counter[t])
  <2>1. CASE Owner(t) = p
    <3>1. t \in Numbered(p)
      BY <1>4, <2>1
    <3>2. now \/ (~lost[p] /\ counter[t] = counted[t])
      BY <3>1
    <3>3. counter'[t] = counted[t]
      BY <1>2, <1>3, <3>1
    <3>4. QED
      BY <1>6, <2>1, <3>2, <3>3
  <2>2. CASE Owner(t) # p
    <3>1. lost'[Owner(t)] = lost[Owner(t)]
      BY <1>2, <1>6, <2>2
    <3>2. counter'[t] = counter[t]
      BY <1>2, <1>3, <1>4, <2>2
    <3>3. lost[Owner(t)] \in BOOLEAN
      BY <1>1, <1>2
    <3>4. QED
      BY <3>1, <3>2, <3>3
  <2>3. QED
    BY <2>1, <2>2
<1>8. disk' = disk /\ mem' = disk
  <2>1. mem = disk /\ disk' = disk
    BY DEF Inv, Synced, Killed
  <2>2. mem' = [t \in Tables |-> IF t \in Opened(p) THEN disk[t] ELSE mem[t]]
    BY DEF Killed, Fresh
  <2>3. mem' = [t \in Tables |-> disk[t]]
    BY <2>1, <2>2
  <2>4. QED
    BY <1>1, <2>1, <2>3
<1>9. toServer' = <<>> /\ toClient' = <<>> /\ up' = [up EXCEPT ![p] = FALSE] /\ counted' = counted
  BY DEF Killed, Down
<1>10. Quiet
  BY <1>7, <1>8, <1>9 DEF Quiet
<1>11. ASSUME NEW t \in Watched
       PROVE  counted'[t] <= counter'[t] /\ (~up'[Owner(t)] => counter'[t] = counted'[t])
  <2>1. counted[t] \in Nat /\ counted[t] <= counter[t]
    BY <1>1, <1>2 DEF Inv, Behind
  <2>2. CASE Owner(t) = p
    <3>1. counter'[t] = counted[t]
      BY <1>2, <1>3, <1>4, <2>2
    <3>2. QED
      BY <1>9, <2>1, <3>1
  <2>3. CASE Owner(t) # p
    <3>1. counter'[t] = counter[t]
      BY <1>2, <1>3, <1>4, <2>3
    <3>2. up'[Owner(t)] = up[Owner(t)]
      BY <1>1, <1>2, <1>9, <2>3
    <3>3. QED
      BY <1>9, <2>1, <3>1, <3>2 DEF Inv, Behind
  <2>4. QED
    BY <2>2, <2>3
<1>12. Behind'
  BY <1>11 DEF Behind, Owner
<1>13. QED
  BY <1>10, <1>12, QuietStep

\* What the invariant says of the counters, with their types.
LEMMA CounterFacts ==
    ASSUME Inv
    PROVE  /\ counter \in [Tables -> Nat] /\ counted \in [Tables -> Nat]
           /\ up \in [Process -> BOOLEAN] /\ lost \in [Process -> BOOLEAN]
           /\ Watched \subseteq Tables
           /\ \A t \in Watched : /\ counted[t] \in Nat /\ counter[t] \in Nat
                                 /\ counted[t] <= counter[t] /\ Owner(t) \in Process
                                 /\ lost[Owner(t)] \in BOOLEAN
<1>1. /\ counter \in [Tables -> Nat] /\ counted \in [Tables -> Nat]
      /\ up \in [Process -> BOOLEAN] /\ lost \in [Process -> BOOLEAN]
  BY DEF Inv, TypeOK
<1>2. Watched \subseteq Tables /\ \A t \in Watched : Owner(t) \in Process
  BY DEF Watched, Tables, Owner, Process
<1>3. \A t \in Watched : counted[t] <= counter[t]
  BY DEF Inv, Behind
<1>4. QED
  BY <1>1, <1>2, <1>3

LEMMA StartStep ==
    ASSUME Inv, TypeOK', Start
    PROVE  Inv'
<1>1. \A t \in Watched : counter[t] = counted[t]
  <2>1. ASSUME NEW t \in Watched PROVE counter[t] = counted[t]
    <3>1. ~up[Owner(t)]
      BY CounterFacts DEF Start
    <3>2. QED
      BY <3>1 DEF Inv, Behind
  <2>2. QED
    BY <2>1
<1>2. mem' = disk /\ disk' = disk /\ counter' = counted /\ counted' = counted
      /\ lost' = lost /\ toServer' = toServer /\ toClient' = toClient
  BY DEF Start, pipeVars
<1>3. Quiet
  BY <1>1, <1>2, CounterFacts DEF Quiet
<1>4. Behind'
  BY <1>1, <1>2, CounterFacts DEF Behind, Owner
<1>5. QED
  BY <1>3, <1>4, QuietStep

\* Steps after which the counters of p are on disk.
LEMMA SyncBehind ==
    ASSUME Inv, NEW p \in Process, SyncCounters(p), counter' = counter,
           up' = up \/ up' = [up EXCEPT ![p] = FALSE]
    PROVE  Behind'
<1>1. \A t \in Watched : t \in Numbered(p) <=> Owner(t) = p
  BY DEF Watched, Numbered, Opened, Owner, Process
<1>2. counted' = [t \in Tables |-> IF t \in Numbered(p) THEN counter[t] ELSE counted[t]]
  BY DEF SyncCounters
<1>3. ASSUME NEW t \in Watched
      PROVE  counted'[t] <= counter'[t] /\ (~up'[Owner(t)] => counter'[t] = counted'[t])
  <2>1. CASE Owner(t) = p
    <3>1. counted'[t] = counter[t]
      BY <1>1, <1>2, <2>1, CounterFacts
    <3>2. QED
      BY <3>1, CounterFacts
  <2>2. CASE Owner(t) # p
    <3>1. counted'[t] = counted[t]
      BY <1>1, <1>2, <2>2, CounterFacts
    <3>2. up'[Owner(t)] = up[Owner(t)]
      BY <2>2, CounterFacts
    <3>3. QED
      BY <3>1, <3>2, CounterFacts DEF Inv, Behind
  <2>3. QED
    BY <2>1, <2>2
<1>4. QED
  BY <1>3 DEF Behind, Owner

LEMMA ExitStep ==
    ASSUME Inv, TypeOK', NEW p \in Process, Exit(p)
    PROVE  Inv'
<1>1. /\ SyncCounters(p) /\ up' = [up EXCEPT ![p] = FALSE] /\ counter' = counter
      /\ lost' = lost /\ mem' = mem /\ toServer' = <<>> /\ toClient' = <<>>
  BY DEF Exit, CloseAll, Down
<1>2. disk' = disk
  <2>1. disk' = [t \in Tables |-> IF t \in Opened(p) THEN mem[t] ELSE disk[t]]
    BY DEF Exit, CloseAll
  <2>2. mem = disk /\ disk = [t \in Tables |-> disk[t]]
    BY DEF Inv, Synced, TypeOK
  <2>3. disk' = [t \in Tables |-> disk[t]]
    BY <2>1, <2>2
  <2>4. QED
    BY <2>2, <2>3
<1>3. Quiet
  BY <1>1, <1>2, CounterFacts DEF Quiet, Inv, Synced
<1>4. Behind'
  BY <1>1, SyncBehind
<1>5. QED
  BY <1>3, <1>4, QuietStep

\* The database or a preference brings the counters to the disk.
LEMMA SyncStep ==
    ASSUME Inv, TypeOK', NEW p \in Process, SyncCounters(p),
           UNCHANGED <<up, mem, disk, counter, pipeVars, lost>>
    PROVE  Inv'
<1>1. Quiet
  BY CounterFacts DEF Quiet, pipeVars, Inv, Synced
<1>2. Behind'
  BY SyncBehind
<1>3. QED
  BY <1>1, <1>2, QuietStep

\* A record put in table t is there, and nothing else changes.
LEMMA PutFacts ==
    ASSUME Inv, NEW t \in Tables, NEW k, NEW v, DbPut(t, k, v)
    PROVE  /\ mem' = disk'
           /\ disk'[t] = Having(disk[t], k, v)
           /\ \A u \in Tables : u # t => disk'[u] = disk[u]
<1>1. mem = disk /\ disk = [u \in Tables |-> disk[u]]
  BY DEF Inv, Synced, TypeOK
<1>2. /\ mem' = [mem EXCEPT ![t] = Having(mem[t], k, v)]
      /\ disk' = [disk EXCEPT ![t] = Having(mem[t], k, v)]
  BY DEF DbPut
<1>3. mem' = disk' /\ disk' = [disk EXCEPT ![t] = Having(disk[t], k, v)]
  BY <1>1, <1>2
<1>4. QED
  BY <1>1, <1>3

LEMMA AddFileStep ==
    ASSUME Inv, TypeOK', NEW f \in File, AddFile(f)
    PROVE  Inv' /\ NamesKept
<1> DEFINE ids == disk["filename"]
           n == counter["filename"] + 1
<1>1. /\ "filename" \in Tables /\ "archive" \in Tables /\ "summary" \in Tables
      /\ "filename" \in Watched /\ "archive" \in Watched
  BY DEF Tables, Watched
<1>2. /\ mem' = disk' /\ disk'["filename"] = Having(ids, f, n)
      /\ disk'["archive"] = disk["archive"] /\ disk'["summary"] = disk["summary"]
  <2>1. DbPut("filename", f, n)
    BY DEF AddFile, NextIndex
  <2>2. QED
    BY <1>1, <2>1, PutFacts
<1>3. f \notin DOMAIN ids
  BY DEF AddFile, DbHas, Inv, Synced
<1>4. /\ DOMAIN disk'["filename"] = DOMAIN ids \cup {f}
      /\ disk'["filename"][f] = n
      /\ \A g \in DOMAIN ids : disk'["filename"][g] = ids[g]
  BY <1>2, <1>3 DEF Having
<1>5. /\ counter' = [counter EXCEPT !["filename"] = n] /\ counted' = counted
      /\ up' = up /\ lost' = lost /\ toServer' = toServer /\ toClient' = toClient
  BY DEF AddFile, NextIndex, pipeVars
<1>6. /\ counter["filename"] \in Nat /\ counted["filename"] \in Nat
      /\ counted["filename"] <= counter["filename"]
      /\ counter'["filename"] = n /\ counter'["archive"] = counter["archive"]
  BY <1>1, <1>5, CounterFacts
<1>7. \A g \in DOMAIN ids : ids[g] \in Nat
  BY <1>1 DEF Inv, TypeOK, IsTable, Records, Id
<1>8. NamesInv'
  <2> HIDE DEF ids
  <2>1. SUFFICES ASSUME ~lost["client"]
                 PROVE  /\ \A g \in DOMAIN disk'["filename"] : disk'["filename"][g] <= n
                        /\ \A g, h \in DOMAIN disk'["filename"] :
                              disk'["filename"][g] = disk'["filename"][h] => g = h
    BY <1>5, <1>6 DEF NamesInv
  <2>2. /\ \A g \in DOMAIN ids : ids[g] <= counter["filename"]
        /\ \A g, h \in DOMAIN ids : ids[g] = ids[h] => g = h
    BY <2>1 DEF Inv, NamesInv, ids
  <2>3. \A g \in DOMAIN ids : ids[g] <= n /\ ids[g] # n
    BY <1>6, <1>7, <2>2
  <2>4. QED
    BY <1>4, <1>6, <2>2, <2>3
<1>9. \A g, i : Named(g, i) => Named(g, i)'
  BY <1>4 DEF Named
<1>10. PacketsInv'
  BY <1>2, <1>5, <1>9 DEF Inv, PacketsInv
<1>11. \A a, o, l : Holds(a, o, l) => Holds(a, o, l)'
  BY <1>2 DEF Holds, HoldsIn, ShortLength
<1>12. ArchiveInv'
  BY <1>2, <1>5, <1>6, <1>11 DEF Inv, ArchiveInv
<1>13. Behind'
  <2>1. up["client"] /\ Owner("filename") = "client"
    BY DEF AddFile, Owner
  <2>2. \A t \in Watched : t = "filename" \/ t = "archive"
    BY DEF Watched
  <2>3. QED
    BY <1>5, <1>6, <2>1, <2>2 DEF Inv, Behind, Owner
<1>14. NamesKept
  <2>1. ASSUME NEW g \in DOMAIN ids, NEW h \in DOMAIN disk'["filename"],
               ids[g] <= counted["filename"], h \notin DOMAIN ids
        PROVE  disk'["filename"][h] # ids[g]
    <3>1. disk'["filename"][h] = n
      BY <1>4, <2>1
    <3>2. ids[g] \in Nat
      BY <1>7
    <3> HIDE DEF ids
    <3>3. QED
      BY <1>6, <2>1, <3>1, <3>2
  <2>2. QED
    BY <2>1 DEF NamesKept
<1>15. QED
  BY <1>2, <1>8, <1>10, <1>12, <1>13, <1>14 DEF Inv, Synced

LEMMA PutInv ==
    ASSUME Inv, TypeOK', NEW f \in File, NEW l \in Length, PutBlock(f, l) \/ PutList(f, l)
    PROVE  Inv'
<1>1. /\ "filename" \in Tables /\ "archive" \in Tables /\ "block" \in Tables
      /\ Watched = {"filename", "archive"}
  BY DEF Tables, Watched
<1>2. PICK b : Put(f, b, l)
  BY DEF PutBlock, PutList
<1> DEFINE m == [name |-> f, file |-> mem["filename"][f], block |-> b,
                 object |-> objects + 1, length |-> l]
<1>3. /\ toServer' = Append(toServer, m)
      /\ UNCHANGED <<up, mem, disk, counted, toClient, lost>>
  BY <1>2 DEF Put
<1>4. Named(m.name, m.file)
  BY <1>2 DEF Put, DbHas, Named, Inv, Synced
<1>5. /\ counter'["filename"] = counter["filename"] /\ counter'["archive"] = counter["archive"]
  BY <1>1, CounterFacts DEF PutBlock, PutList
<1>6. \A i \in DOMAIN toServer' : \/ i \in DOMAIN toServer /\ toServer'[i] = toServer[i]
                                  \/ toServer'[i] = m
  <2>1. toServer \in Seq(PutType)
    BY DEF Inv, TypeOK, PutType
  <2>2. Len(toServer) \in Nat /\ DOMAIN toServer = 1 .. Len(toServer)
    BY <2>1
  <2> HIDE DEF m
  <2>3. /\ DOMAIN toServer' = 1 .. Len(toServer) + 1
        /\ \A i \in 1 .. Len(toServer) : toServer'[i] = toServer[i]
        /\ toServer'[Len(toServer) + 1] = m
    BY <1>3, <2>1
  <2>4. QED
    BY <2>2, <2>3
<1> HIDE DEF m
<1>7. \A g, i : Named(g, i) => Named(g, i)'
  BY <1>3 DEF Named
<1>8. PacketsInv'
  BY <1>3, <1>4, <1>6, <1>7 DEF Inv, PacketsInv
<1>9. \A a, o, k : Holds(a, o, k) => Holds(a, o, k)'
  BY <1>3 DEF Holds, HoldsIn, ShortLength
<1>10. NamesInv' /\ ArchiveInv' /\ Behind'
  BY <1>1, <1>3, <1>5, <1>9 DEF Inv, NamesInv, ArchiveInv, Behind, Owner
<1>11. QED
  BY <1>3, <1>8, <1>10 DEF Inv, Synced

\* The head of a queue of packets, and the rest.
LEMMA HeadOf ==
    ASSUME NEW S, NEW q \in Seq(S), q # <<>>
    PROVE  /\ 1 \in DOMAIN q /\ Head(q) = q[1] /\ Head(q) \in S
           /\ \A i \in DOMAIN Tail(q) : i + 1 \in DOMAIN q /\ Tail(q)[i] = q[i + 1]
<1>1. DOMAIN q = 1 .. Len(q) /\ Len(q) \in Nat /\ Len(q) > 0
  OBVIOUS
<1>2. DOMAIN Tail(q) = 1 .. Len(q) - 1
  OBVIOUS
<1>3. \A i \in 1 .. Len(q) - 1 : Tail(q)[i] = q[i + 1]
  OBVIOUS
<1>4. QED
  BY <1>1, <1>2, <1>3

LEMMA AckStep ==
    ASSUME Inv, TypeOK', AcceptAck
    PROVE  Inv'
<1> DEFINE a == Head(toClient)
           r == [name |-> a.name, archive |-> a.archive, object |-> a.object,
                 length |-> a.length]
<1>1. /\ "filename" \in Tables /\ "archive" \in Tables /\ "block" \in Tables
      /\ "summary" \in Tables /\ Watched = {"filename", "archive"}
  BY DEF Tables, Watched
<1>2. toClient \in Seq(AckType) /\ toClient # <<>> /\ toClient' = Tail(toClient)
  BY DEF Inv, TypeOK, AckType, AcceptAck
<1>3. /\ 1 \in DOMAIN toClient /\ a = toClient[1]
      /\ \A i \in DOMAIN toClient' : i + 1 \in DOMAIN toClient /\ toClient'[i] = toClient[i + 1]
  BY <1>2, HeadOf
<1>4. /\ Named(a.name, a.file)
      /\ ~lost["server"] => Holds(a.archive, a.object, a.length)
  BY <1>3 DEF Inv, PacketsInv, ArchiveInv
<1>5. UNCHANGED <<up, counter, counted, prefs, toServer, objects, starts, lost, aborted>>
  BY DEF AcceptAck
<1>6. \/ DbPut("block", a.block, r)
      \/ DbPut("summary", a.file, r)
  BY DEF AcceptAck
<1>7. /\ r.name = a.name /\ r.archive = a.archive /\ r.object = a.object
      /\ r.length = a.length
  OBVIOUS
<1> HIDE DEF a, r
<1>8. /\ mem' = disk' /\ disk'["filename"] = disk["filename"]
      /\ disk'["archive"] = disk["archive"]
      /\ disk'["summary"] \in {disk["summary"], Having(disk["summary"], a.file, r)}
  BY <1>1, <1>6, PutFacts
<1>9. \A id \in DOMAIN disk'["summary"] :
         \/ id \in DOMAIN disk["summary"] /\ disk'["summary"][id] = disk["summary"][id]
         \/ id = a.file /\ disk'["summary"][id] = r
  BY <1>8 DEF Having
<1>10. \A f, n : Named(f, n) => Named(f, n)'
  BY <1>8 DEF Named
<1>11. PacketsInv'
  BY <1>3, <1>4, <1>5, <1>7, <1>9, <1>10 DEF Inv, PacketsInv
<1>12. \A b, o, l : Holds(b, o, l) => Holds(b, o, l)'
  BY <1>8 DEF Holds, HoldsIn, ShortLength
<1>13. ArchiveInv'
  BY <1>3, <1>4, <1>5, <1>7, <1>8, <1>9, <1>12 DEF Inv, ArchiveInv
<1>14. NamesInv' /\ Behind'
  BY <1>5, <1>8 DEF Inv, NamesInv, Behind, Owner
<1>15. QED
  BY <1>8, <1>11, <1>13, <1>14 DEF Inv, Synced

LEMMA ArchiveStep ==
    ASSUME Inv, TypeOK', AcceptPut
    PROVE  Inv' /\ ArchiveKept
<1> DEFINE p == Head(toServer)
           id == counter["archive"] + 1
           r == [object |-> p.object, size |-> p.length, length |-> ShortLength(p.length)]
           k == [name |-> p.name, file |-> p.file, block |-> p.block,
                 object |-> p.object, length |-> p.length, archive |-> id]
           old == disk["archive"]
<1>1. /\ "filename" \in Tables /\ "archive" \in Tables /\ "summary" \in Tables
      /\ Watched = {"filename", "archive"} /\ "archive" \in Watched
  BY DEF Tables, Watched
<1>2. toServer \in Seq(PutType) /\ toServer # <<>> /\ toServer' = Tail(toServer)
  BY DEF Inv, TypeOK, PutType, AcceptPut
<1>3. /\ 1 \in DOMAIN toServer /\ p = toServer[1]
      /\ \A i \in DOMAIN toServer' : i + 1 \in DOMAIN toServer /\ toServer'[i] = toServer[i + 1]
  BY <1>2, HeadOf
<1>4. Named(p.name, p.file)
  BY <1>3 DEF Inv, PacketsInv
<1>5. /\ DbPut("archive", id, r) /\ toClient' = Append(toClient, k)
      /\ counter' = [counter EXCEPT !["archive"] = id] /\ up["server"]
      /\ UNCHANGED <<up, counted, prefs, objects, starts, lost, aborted>>
  BY DEF AcceptPut, NextIndex
<1>6. /\ r = [object |-> k.object, size |-> k.length, length |-> ShortLength(k.length)]
      /\ k.archive = id /\ k.name = p.name /\ k.file = p.file
  OBVIOUS
<1>7. k \in AckType /\ toClient \in Seq(AckType)
  <2>1. p \in PutType
    BY <1>2, HeadOf
  <2>2. id \in Id
    BY <1>1, CounterFacts DEF Id
  <2> HIDE DEF p, id
  <2>3. QED
    BY <2>1, <2>2 DEF PutType, AckType, Inv, TypeOK
<1> HIDE DEF p, r, k
<1>8. /\ mem' = disk' /\ disk'["filename"] = disk["filename"]
      /\ disk'["summary"] = disk["summary"] /\ disk'["archive"] = Having(old, id, r)
  BY <1>1, <1>5, PutFacts
<1>9. /\ counter["archive"] \in Nat /\ counted["archive"] \in Nat
      /\ counted["archive"] <= counter["archive"]
      /\ counter'["archive"] = id /\ counter'["filename"] = counter["filename"]
  BY <1>1, <1>5, CounterFacts
<1>10. \A i \in DOMAIN old : i \in Nat
  BY <1>1 DEF Inv, TypeOK, IsTable, Keys, Id
<1> HIDE DEF id
<1>11. /\ DOMAIN disk'["archive"] = DOMAIN old \cup {id}
       /\ disk'["archive"][id] = r
       /\ \A i \in DOMAIN old : i # id => disk'["archive"][i] = old[i]
  BY <1>8 DEF Having
<1>12. id > counter["archive"] /\ id > counted["archive"] /\ id \in Nat
  BY <1>9 DEF id
<1>13. ArchiveKept
  <2>1. ASSUME NEW i \in DOMAIN old, i <= counted["archive"]
        PROVE  i \in DOMAIN disk'["archive"] /\ disk'["archive"][i] = old[i]
    <3>1. i # id
      BY <1>9, <1>10, <1>12, <2>1
    <3>2. QED
      BY <1>11, <3>1
  <2>2. QED
    BY <2>1 DEF ArchiveKept, old
<1>14. \A i \in DOMAIN toClient' : \/ i \in DOMAIN toClient /\ toClient'[i] = toClient[i]
                                   \/ toClient'[i] = k
  <2>1. Len(toClient) \in Nat /\ DOMAIN toClient = 1 .. Len(toClient)
    BY <1>7
  <2>2. /\ DOMAIN toClient' = 1 .. Len(toClient) + 1
        /\ \A i \in 1 .. Len(toClient) : toClient'[i] = toClient[i]
        /\ toClient'[Len(toClient) + 1] = k
    BY <1>5, <1>7
  <2>3. QED
    BY <2>1, <2>2
<1>15. \A f, n : Named(f, n) => Named(f, n)'
  BY <1>8 DEF Named
<1>16. PacketsInv'
  BY <1>3, <1>4, <1>6, <1>8, <1>14, <1>15 DEF Inv, PacketsInv
<1>17. ArchiveInv'
  <2>1. SUFFICES ASSUME ~lost["server"] PROVE ArchiveInv'
    BY <1>5 DEF ArchiveInv
  <2>2. \A i \in DOMAIN old : i <= counter["archive"]
    BY <2>1 DEF Inv, ArchiveInv
  <2>3. \A i \in DOMAIN old : i <= id /\ i # id
    BY <1>9, <1>10, <1>12, <2>2
  <2> DEFINE new == disk'["archive"]
  <2>4. \A b, o, l : HoldsIn(old, b, o, l) => HoldsIn(new, b, o, l)
    BY <1>11, <2>3 DEF HoldsIn, ShortLength
  <2>5. HoldsIn(new, k.archive, k.object, k.length)
    BY <1>6, <1>11 DEF HoldsIn, ShortLength
  <2>6. \A i \in DOMAIN new : i <= id
    BY <1>11, <1>12, <2>3
  <2>7. \A i \in DOMAIN toClient :
           HoldsIn(old, toClient[i].archive, toClient[i].object, toClient[i].length)
    BY <2>1 DEF Inv, ArchiveInv, Holds, old
  <2>8. \A i \in DOMAIN toClient' :
           HoldsIn(new, toClient'[i].archive, toClient'[i].object, toClient'[i].length)
    <3> HIDE DEF new, old
    <3>1. QED
      BY <1>14, <2>4, <2>5, <2>7
  <2>9. \A i \in DOMAIN disk["summary"] :
           HoldsIn(old, disk["summary"][i].archive, disk["summary"][i].object,
                   disk["summary"][i].length)
    BY <2>1 DEF Inv, ArchiveInv, Holds, old
  <2>10. \A i \in DOMAIN disk'["summary"] :
           HoldsIn(new, disk'["summary"][i].archive, disk'["summary"][i].object,
                   disk'["summary"][i].length)
    BY <1>8, <2>4, <2>9
  <2>11. QED
    BY <1>9, <2>6, <2>8, <2>10 DEF ArchiveInv, Holds
<1>18. NamesInv'
  BY <1>5, <1>8, <1>9 DEF Inv, NamesInv
<1>19. Behind'
  <2>1. counted'["archive"] <= counter'["archive"]
    BY <1>5, <1>9, <1>12
  <2>2. QED
    BY <1>1, <1>5, <1>9, <2>1 DEF Inv, Behind, Owner
<1>20. QED
  BY <1>8, <1>13, <1>16, <1>17, <1>18, <1>19 DEF Inv, Synced

LEMMA InvStep == Inv /\ [Next]_vars => Inv'
<1> SUFFICES ASSUME Inv, [Next]_vars PROVE Inv'
  OBVIOUS
<1>0. TypeOK'
  BY TypesKept DEF Inv
<1>1. CASE Start
  BY <1>0, <1>1, StartStep
<1>2. ASSUME NEW p \in Process, Exit(p) PROVE Inv'
  BY <1>0, <1>2, ExitStep
<1>3. ASSUME NEW p \in Process, Kill(p) PROVE Inv'
  BY <1>0, <1>3, KilledStep DEF Kill
<1>4. ASSUME NEW p \in Process, Evict(p) PROVE Inv'
  BY <1>0, <1>4, SyncStep DEF Evict
<1>5. ASSUME NEW k \in Stored, PutPreference(k) PROVE Inv'
  BY <1>0, <1>5, SyncStep DEF PutPreference, Process
<1>6. ASSUME NEW k \in Preference, MissPreference(k) PROVE Inv'
  BY <1>0, <1>6, KilledStep DEF MissPreference, Process
<1>7. ASSUME NEW f \in File, AddFile(f) PROVE Inv'
  BY <1>0, <1>7, AddFileStep
<1>8. ASSUME NEW f \in File, NEW l \in Length, PutBlock(f, l) \/ PutList(f, l) PROVE Inv'
  BY <1>0, <1>8, PutInv
<1>9. CASE AcceptAck
  BY <1>0, <1>9, AckStep
<1>10. CASE AcceptPut
  BY <1>0, <1>10, ArchiveStep
<1>11. CASE UNCHANGED vars
  <2>1. Quiet
    BY <1>11, CounterFacts DEF Quiet, vars, tableVars, pipeVars, Inv, Synced
  <2>2. Behind'
    BY <1>11 DEF Inv, Behind, Owner, vars, tableVars
  <2>3. QED
    BY <1>0, <2>1, <2>2, QuietStep
<1>12. QED
  BY <1>1, <1>2, <1>3, <1>4, <1>5, <1>6, <1>7, <1>8, <1>9, <1>10, <1>11 DEF Next

LEMMA InvHolds == Spec => []Inv
  BY InitInv, InvStep, PTL DEF Spec

-----------------------------------------------------------------------------
(* What follows. *)

\* db_filename_add gives no two files one id, and a summary is its file's, for any
\* number of runs and kills that lose no counter of the client.
THEOREM OneFile == Spec => []OneFilePerId
<1>1. Inv => OneFilePerId
  BY DEF Inv, NamesInv, PacketsInv, Named, OneFilePerId
<1>2. QED
  BY <1>1, InvHolds, PTL

\* db_archive_fetch finds what a summary names, for any number of runs and kills that
\* lose no counter of the server.
THEOREM SummariesReach == Spec => []SummaryReaches
<1>1. ASSUME Inv PROVE SummaryReaches
  <2>1. SUFFICES ASSUME ~lost["server"], NEW id \in DOMAIN disk["summary"]
                 PROVE  LET s == disk["summary"][id]
                        IN  /\ s.archive \in DOMAIN disk["archive"]
                            /\ ArchiveFetch(s.archive).object = s.object
                            /\ s.length < ShortRange =>
                                  ArchiveFetch(s.archive).length = s.length
    BY DEF SummaryReaches
  <2> DEFINE s == disk["summary"][id]
  <2>2. s.length \in Nat
    BY <1>1, <2>1, TablesAssumption DEF Inv, TypeOK, Tables, IsTable, Records, ClientRecord
  <2>3. /\ s.archive \in DOMAIN disk["archive"]
        /\ disk["archive"][s.archive] = [object |-> s.object, size |-> s.length,
                                         length |-> ShortLength(s.length)]
    BY <1>1, <2>1 DEF Inv, ArchiveInv, Holds, HoldsIn
  <2> HIDE DEF s
  <2>4. s.length < ShortRange => ShortLength(s.length) = s.length
    BY <2>2, TablesAssumption DEF ShortLength
  <2>5. /\ ArchiveFetch(s.archive).object = s.object
        /\ s.length < ShortRange => ArchiveFetch(s.archive).length = s.length
    BY <2>3, <2>4 DEF ArchiveFetch
  <2>6. QED
    BY <2>3, <2>5 DEF s
<1>2. QED
  BY <1>1, InvHolds, PTL

\* Steps that write neither names nor archive records keep both.
LEMMA SameKept ==
    ASSUME UNCHANGED <<disk["filename"], disk["archive"]>>
    PROVE  ArchiveKept /\ NamesKept
  BY DEF ArchiveKept, NamesKept

\* What the counters on disk have passed is kept by every step, whatever is lost.
THEOREM PassedKept == Spec => PassedIsKept
<1>1. ASSUME Inv, [Next]_vars PROVE [ArchiveKept /\ NamesKept]_vars
  <2>0. TypeOK'
    BY <1>1, TypesKept DEF Inv
  <2>1. /\ "filename" \in Tables /\ "archive" \in Tables /\ "block" \in Tables
        /\ "summary" \in Tables
    BY DEF Tables
  <2>2. CASE disk' = disk
    BY <2>2, SameKept
  <2>3. ASSUME NEW p \in Process, Exit(p) PROVE disk' = disk
    <3>1. disk' = [t \in Tables |-> IF t \in Opened(p) THEN mem[t] ELSE disk[t]]
      BY <2>3 DEF Exit, CloseAll
    <3>2. mem = disk /\ disk = [t \in Tables |-> disk[t]]
      BY <1>1 DEF Inv, Synced, TypeOK
    <3>3. disk' = [t \in Tables |-> disk[t]]
      BY <3>1, <3>2
    <3>4. QED
      BY <3>2, <3>3
  <2>4. CASE AcceptAck
    <3>1. PICK k, v : DbPut("block", k, v) \/ DbPut("summary", k, v)
      BY <2>4 DEF AcceptAck
    <3>2. UNCHANGED <<disk["filename"], disk["archive"]>>
      BY <1>1, <2>1, <3>1, PutFacts
    <3>3. QED
      BY <3>2, SameKept
  <2>5. CASE AcceptPut
    <3>1. ArchiveKept
      BY <1>1, <2>0, <2>5, ArchiveStep
    <3>2. PICK k, v : DbPut("archive", k, v)
      BY <2>5 DEF AcceptPut
    <3>3. disk'["filename"] = disk["filename"]
      BY <1>1, <2>1, <3>2, PutFacts
    <3>4. QED
      BY <3>1, <3>3 DEF NamesKept
  <2>6. ASSUME NEW f \in File, AddFile(f) PROVE ArchiveKept /\ NamesKept
    <3>1. NamesKept
      BY <1>1, <2>0, <2>6, AddFileStep
    <3>2. PICK n : DbPut("filename", f, n)
      BY <2>6 DEF AddFile
    <3>3. disk'["archive"] = disk["archive"]
      BY <1>1, <2>1, <3>2, PutFacts
    <3>4. QED
      BY <3>1, <3>3 DEF ArchiveKept
  <2>7. CASE Start \/ (\E p \in Process : Kill(p) \/ Evict(p))
             \/ (\E k \in Stored : PutPreference(k))
             \/ (\E k \in Preference : MissPreference(k))
             \/ UNCHANGED vars
    BY <2>2, <2>7 DEF Start, Kill, Killed, Evict, PutPreference, MissPreference, vars, tableVars
  <2>8. CASE \E f \in File, l \in Length : PutBlock(f, l) \/ PutList(f, l)
    BY <2>2, <2>8 DEF PutBlock, PutList, Put
  <2>9. QED
    BY <1>1, <2>2, <2>3, <2>4, <2>5, <2>6, <2>7, <2>8 DEF Next
<1>2. QED
  BY <1>1, InvHolds, PTL DEF Spec, PassedIsKept
=============================================================================
