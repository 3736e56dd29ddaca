------------------------------ MODULE MCTables ------------------------------
(***************************************************************************)
(* The instances of Tables that TLC checks.                                *)
(***************************************************************************)
EXTENDS Tables, TableViewer

CONSTANTS f1, f2

Swap == Permutations(File)

-----------------------------------------------------------------------------
(* cryptar-db, run on the tables that this instance can have: bytes have   *)
(* three values, a 16-bit integer has one byte and a 32-bit integer two.   *)

\* The record of table t under key k.  (What Tables leaves out is any number.)
RecordOf(t, k) ==
    LET r == disk[t][k]
    IN  CASE t = "filename" -> [version |-> 0, file_id |-> r]
          [] t = "summary" ->
                [version |-> 0, file_id |-> k, summary_time |-> 7, mod_time |-> 6,
                 file_length |-> r.length, inode_number |-> 8, permissions |-> 5,
                 file_sha1 |-> 2, block_list_sha1 |-> r.object,
                 block_list_length |-> r.length, block_list_remote_id |-> r.archive]
          [] t = "block" -> [version |-> 0, offset |-> 3, length |-> r.length]
          [] t = "archive" -> [version |-> 0, length |-> r.length]

\* Its bytes.
BytesOf(t, k) ==
    CASE t = "filename" -> Bytes(FilenameFields, RecordOf(t, k))
      [] t = "summary" -> Bytes(SummaryToStream, RecordOf(t, k))
      [] t = "block" -> Bytes(BlockAdd, RecordOf(t, k))
      [] t = "archive" -> Bytes(ArchiveFields, RecordOf(t, k))
                            \o [i \in 1 .. disk[t][k].size |-> disk[t][k].object]

\* The keys of table t in the order of the B-tree, as far as it matters.
KeysOf(t) == IF t = "filename" THEN SetToSeq(DOMAIN disk[t])
                               ELSE SetToSortSeq(DOMAIN disk[t], LAMBDA i, j : i < j)

Rows(t) == [i \in DOMAIN KeysOf(t) |-> [key |-> KeysOf(t)[i], bytes |-> BytesOf(t, KeysOf(t)[i])]]

\* The directories of the client and of the server.
Directories == [server \in BOOLEAN |->
    [t \in Tables |-> IF (t = "archive") = server THEN Rows(t) ELSE <<>>]]

\* cryptar-db -d<letter> -a<action> archive <id>.
View(letter, action, id) ==
    Run(<<<<"d", letter>>, <<"a", action>>>>, <<"archive", id>>, Directories)

\* With no process running, cryptar-db lists the ids of every table, and shows every
\* file, summary and archived object, alone or with all others, with its id and its
\* fields as they were stored.  (Blocks are left out: db_block_from_stream reads more
\* than db_block_add writes.)
ViewShows ==
    (\A p \in Process : ~up[p]) =>
        \A letter \in {"f", "s", "b", "a"} :
            LET t == Database[letter]
                shown == [i \in DOMAIN KeysOf(t) |->
                            [key |-> KeysOf(t)[i], rec |-> RecordOf(t, KeysOf(t)[i])]]
            IN  /\ View(letter, "l", "") = Ended([i \in DOMAIN KeysOf(t) |-> [key |-> KeysOf(t)[i]]])
                /\ t # "block" =>
                     /\ View(letter, "s", "") = Ended(shown)
                     /\ \A i \in DOMAIN shown :
                            View(letter, "f", shown[i].key) = Ended(<<shown[i]>>)
=============================================================================
