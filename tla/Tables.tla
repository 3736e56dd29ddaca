-------------------------------- MODULE Tables --------------------------------
(***************************************************************************)
(* The Berkeley DB tables of version 1 on the disks of the client and the  *)
(* server, under kills.  A table is a file with a cache in the process     *)
(* that opened it.  db_put writes a record and syncs its table;            *)
(* db_get_next_index writes its counter, a record of the table of          *)
(* constants, and syncs nothing.  Closing a table writes its cache; a      *)
(* signal with a handler closes all; an assertion that fails, or a kill    *)
(* that no handler sees, loses what is only in the caches.                 *)
(*                                                                         *)
(* The client names files (filename.c), sends objects to the server, which *)
(* archives them (remote.c), and at the ack records the block (block.c) or *)
(* the summary (summary.c).  When an object may be sent is the matter of   *)
(* BackupSession.  An object is known by a number; its length matters      *)
(* because an archive record has 16 bits for it.                           *)
(***************************************************************************)
EXTENDS Integers, Sequences, FiniteSets

CONSTANTS
    File,        \* the names of the files
    Length,      \* the lengths that an object may have
    ShortRange,  \* 2^16
    Preference,  \* the integer preferences that the client asks for
    Stored,      \* those of them that something stores
    MaxObject,   \* bound: the objects that are sent
    MaxStart     \* bound: the times the client is started

ASSUME TablesAssumption ==
    /\ Length \subseteq Nat /\ ShortRange \in Nat \ {0}
    /\ Stored \subseteq Preference
    /\ MaxObject \in Nat /\ MaxStart \in Nat

Process == {"client", "server"}

\* database_names, without the constants (below) and the keys, which nothing fills.
Tables == {"filename", "summary", "block", "archive"}

\* db_open_client_dbs, db_open_server_dbs.
Opened(p) == IF p = "client" THEN {"filename", "summary", "block"} ELSE {"archive"}

\* The tables that db_get_next_index numbers; the client's counters are in
\* kConstants, with the preferences, the server's in kServerConstants.
Numbered(p) == Opened(p) \ {"summary"}

VARIABLES
    up,        \* up[p]: process p runs and has its tables open
    mem,       \* mem[t]: table t as the process sees it
    disk,      \* disk[t]: the file
    counter,   \* counter[t]: the counter of table t as the process sees it
    counted,   \* counted[t]: the counter in the file
    prefs,     \* the preferences in kConstants
    toServer,  \* put blocks on their way
    toClient,  \* acks on their way
    \* history
    objects,   \* the objects that have been sent
    starts,    \* the times the client was started
    lost,      \* lost[p]: a kill of p has set a counter back
    aborted    \* a preference that was not there has ended the client

tableVars == <<mem, disk, counter, counted>>
pipeVars == <<toServer, toClient>>
vars == <<up, tableVars, prefs, pipeVars, objects, starts, lost, aborted>>

\* A table that was never written.
Empty == [k \in {} |-> 0]

Init ==
    /\ up = [p \in Process |-> FALSE]
    /\ mem = [t \in Tables |-> Empty] /\ disk = mem
    /\ counter = [t \in Tables |-> 0] /\ counted = counter
    /\ prefs = {}
    /\ toServer = <<>> /\ toClient = <<>>
    /\ objects = 0 /\ starts = 0
    /\ lost = [p \in Process |-> FALSE] /\ aborted = FALSE

-----------------------------------------------------------------------------
(* What db_misc.c does to a table. *)

\* Table f with record v under key k.
Having(f, k, v) == [x \in DOMAIN f \cup {k} |-> IF x = k THEN v ELSE f[x]]

\* A slip: the record waits in the cache.
NoSync(t, k, v) ==
    /\ mem' = [mem EXCEPT ![t] = Having(@, k, v)]
    /\ UNCHANGED disk

\* db_put: the record is written and its table synced.
DbPut(t, k, v) ==
    /\ mem' = [mem EXCEPT ![t] = Having(@, k, v)]
    /\ disk' = [disk EXCEPT ![t] = Having(mem[t], k, v)]

\* db_get finds something.
DbHas(t, k) == k \in DOMAIN mem[t]

\* A slip: the first index is that of a record.
IndexNow(t) == IF counter[t] = 0 THEN 1 ELSE counter[t]

\* db_get_next_index returns this and makes it the counter.
NextIndex(t) == counter[t] + 1

\* The counters of process p reach the disk.
SyncCounters(p) == counted' = [t \in Tables |-> IF t \in Numbered(p) THEN counter[t] ELSE counted[t]]

\* open_db: what the file holds.
Fresh(p) ==
    /\ mem' = [t \in Tables |-> IF t \in Opened(p) THEN disk[t] ELSE mem[t]]
    /\ counter' = [t \in Tables |-> IF t \in Numbered(p) THEN counted[t] ELSE counter[t]]

\* A slip: the tables are left as they are.
CloseNothing(p) == UNCHANGED <<disk, counted>>

\* db_close_all: what the caches hold is written.
CloseAll(p) ==
    /\ disk' = [t \in Tables |-> IF t \in Opened(p) THEN mem[t] ELSE disk[t]]
    /\ SyncCounters(p)

-----------------------------------------------------------------------------
(* Processes. *)

\* The client opens its tables, and has a server started that opens its own.
Start ==
    /\ \A p \in Process : ~up[p]
    /\ starts < MaxStart /\ starts' = starts + 1
    /\ up' = [p \in Process |-> TRUE]
    /\ mem' = disk /\ counter' = counted
    /\ UNCHANGED <<disk, counted, prefs, pipeVars, objects, lost, aborted>>

\* Process p is gone, and the connection with it.
Down(p) ==
    /\ up' = [up EXCEPT ![p] = FALSE]
    /\ toServer' = <<>> /\ toClient' = <<>>

\* The process ends by exit or by a signal that has a handler (db_error_exit).
Exit(p) ==
    /\ up[p] /\ Down(p)
    /\ CloseAll(p)
    /\ UNCHANGED <<mem, counter, prefs, objects, starts, lost, aborted>>

\* What the process had not written is gone.
Killed(p) ==
    /\ up[p] /\ Down(p)
    /\ Fresh(p)
    /\ lost' = [lost EXCEPT ![p] = @ \/ \E t \in Numbered(p) : counter[t] # counted[t]]
    /\ UNCHANGED <<disk, counted, prefs, objects, starts>>

\* A kill that no handler sees, a failed assertion, a loss of power.
Kill(p) == Killed(p) /\ UNCHANGED aborted

\* The database writes the page of the counters for reasons of its own.
Evict(p) ==
    /\ up[p] /\ SyncCounters(p)
    /\ UNCHANGED <<up, mem, disk, counter, prefs, pipeVars, objects, starts, lost, aborted>>

-----------------------------------------------------------------------------
(* The client's tables. *)

\* const_put_int, by do_create or at the hello ack: the sync takes the counters along.
PutPreference(k) ==
    /\ up["client"]
    /\ prefs' = prefs \cup {k}
    /\ SyncCounters("client")
    /\ UNCHANGED <<up, mem, disk, counter, pipeVars, objects, starts, lost, aborted>>

\* open_if_changed, of a file that has a summary, asks const_get_int for a preference
\* that is not stored: ios_read_int32 of an empty buffer fails its assertion.  (One that
\* is stored is read, which changes nothing.)
MissPreference(k) ==
    /\ k \notin prefs
    /\ \E f \in DOMAIN mem["filename"] : DbHas("summary", mem["filename"][f])
    /\ Killed("client")
    /\ aborted' = TRUE

\* archive_file meets a file without a name record (db_filename_fetch, db_filename_add).
AddFile(f) ==
    /\ up["client"] /\ ~DbHas("filename", f)
    /\ DbPut("filename", f, NextIndex("filename"))
    /\ counter' = [counter EXCEPT !["filename"] = NextIndex("filename")]
    /\ UNCHANGED <<up, counted, prefs, pipeVars, objects, starts, lost, aborted>>

\* A put block: the file, the local id of the block, or 0 for a block list, and the
\* object.  (The name of the file is history.)
Put(f, block, length) ==
    /\ up["client"] /\ up["server"] /\ DbHas("filename", f)
    /\ objects < MaxObject /\ objects' = objects + 1
    /\ toServer' = Append(toServer, [name |-> f, file |-> mem["filename"][f], block |-> block,
                                     object |-> objects + 1, length |-> length])
    /\ UNCHANGED <<up, mem, disk, counted, prefs, toClient, starts, lost, aborted>>

\* cover_save_local numbers a block, which is sent.
PutBlock(f, length) ==
    /\ Put(f, NextIndex("block"), length)
    /\ counter' = [counter EXCEPT !["block"] = NextIndex("block")]

\* send_block_list.
PutList(f, length) == Put(f, 0, length) /\ UNCHANGED counter

\* accept_put_ack: db_block_add for a block, db_summary_add for a list (the id of a
\* summary is that of its file, db_summary_new).
AcceptAck ==
    /\ up["client"] /\ toClient # <<>>
    /\ toClient' = Tail(toClient)
    /\ LET a == Head(toClient)
           r == [name |-> a.name, archive |-> a.archive, object |-> a.object, length |-> a.length]
       IN  IF a.block # 0 THEN DbPut("block", a.block, r) ELSE DbPut("summary", a.file, r)
    /\ UNCHANGED <<up, counter, counted, prefs, toServer, objects, starts, lost, aborted>>

-----------------------------------------------------------------------------
(* The server's table. *)

\* A slip: the length has room.
LongLength(length) == length

\* The length that ios_append_int16 writes.
ShortLength(length) == length % ShortRange

\* accept_put_block: db_archive_add, and the ack.
AcceptPut ==
    /\ up["server"] /\ toServer # <<>>
    /\ toServer' = Tail(toServer)
    /\ LET p == Head(toServer)
           id == NextIndex("archive")
       IN  /\ DbPut("archive", id, [object |-> p.object, size |-> p.length,
                                    length |-> ShortLength(p.length)])
           /\ counter' = [counter EXCEPT !["archive"] = id]
           /\ toClient' = Append(toClient, [name |-> p.name, file |-> p.file, block |-> p.block,
                                            object |-> p.object, length |-> p.length,
                                            archive |-> id])
    /\ UNCHANGED <<up, counted, prefs, objects, starts, lost, aborted>>

\* db_archive_fetch: the object, cut to the length that the record names.
ArchiveFetch(id) ==
    LET r == disk["archive"][id]
    IN  [object |-> r.object, length |-> IF r.length < r.size THEN r.length ELSE r.size]

-----------------------------------------------------------------------------
Next ==
    \/ Start
    \/ \E p \in Process : Exit(p) \/ Kill(p) \/ Evict(p)
    \/ \E k \in Stored : PutPreference(k)
    \/ \E k \in Preference : MissPreference(k)
    \/ \E f \in File : AddFile(f)
    \/ \E f \in File, l \in Length : PutBlock(f, l) \/ PutList(f, l)
    \/ AcceptAck
    \/ AcceptPut

Spec == Init /\ [][Next]_vars

-----------------------------------------------------------------------------
(* Properties. *)

\* The variables hold what the code can hold.
Id == Nat \ {0}
ClientRecord == [name : File, archive : Id, object : Id, length : Length]
ArchiveRecord == [object : Id, size : Length, length : 0 .. ShortRange - 1]

Records(t) ==
    CASE t = "filename" -> Id
      [] t \in {"summary", "block"} -> ClientRecord
      [] t = "archive" -> ArchiveRecord

Keys(t) == IF t = "filename" THEN File ELSE Id

IsTable(t, m) == DOMAIN m \subseteq Keys(t) /\ \A k \in DOMAIN m : m[k] \in Records(t)

TypeOK ==
    /\ up \in [Process -> BOOLEAN] /\ lost \in [Process -> BOOLEAN] /\ aborted \in BOOLEAN
    /\ mem = [t \in Tables |-> mem[t]] /\ disk = [t \in Tables |-> disk[t]]
    /\ \A t \in Tables : IsTable(t, mem[t]) /\ IsTable(t, disk[t])
    /\ counter \in [Tables -> Nat] /\ counted \in [Tables -> Nat]
    /\ prefs \subseteq Stored
    /\ toServer \in Seq([name : File, file : Id, block : Nat, object : Id, length : Length])
    /\ toClient \in Seq([name : File, file : Id, block : Nat, object : Id, length : Length,
                         archive : Id])
    /\ objects \in Nat /\ starts \in Nat

\* Two files never have one id, and so a file's summary is its own, unless a kill of
\* the client has set back a counter that db_get_next_index had not synced.
OneFilePerId ==
    LET ids == disk["filename"]
        summaries == disk["summary"]
    IN  ~lost["client"] =>
            /\ \A f, g \in DOMAIN ids : ids[f] = ids[g] => f = g
            /\ \A f \in DOMAIN ids : ids[f] \in DOMAIN summaries => summaries[ids[f]].name = f

\* What a summary on the client's disk leads to is on the server's disk, is the
\* object that was acknowledged, and comes back whole if it is shorter than 2^16,
\* unless a kill of the server has set back its counter.
SummaryReaches ==
    ~lost["server"] =>
        \A id \in DOMAIN disk["summary"] :
            LET s == disk["summary"][id]
            IN  /\ s.archive \in DOMAIN disk["archive"]
                /\ ArchiveFetch(s.archive).object = s.object
                /\ s.length < ShortRange => ArchiveFetch(s.archive).length = s.length

\* An archive record whose id the counter on disk has passed is never overwritten, and
\* the id of a file that it has passed is never given to another, by whatever kills:
\* db_close_all and const_put_int make safe all that came before them.
ArchiveKept ==
    \A id \in DOMAIN disk["archive"] :
        id <= counted["archive"] => id \in DOMAIN disk'["archive"]
                                    /\ disk'["archive"][id] = disk["archive"][id]
NamesKept ==
    \A f \in DOMAIN disk["filename"], g \in DOMAIN disk'["filename"] :
        /\ disk["filename"][f] <= counted["filename"]
        /\ g \notin DOMAIN disk["filename"]
        => disk'["filename"][g] # disk["filename"][f]

PassedIsKept == [][ArchiveKept /\ NamesKept]_vars

\* A preference that is not available is no error (src/version-1/prefs.c:186-187).
SilentDefault == ~aborted
=============================================================================
