----------------------------- MODULE TableViewer -----------------------------
(***************************************************************************)
(* cryptar-db, which shows the tables of version 1, and the bytes of their *)
(* records: what db_*_add and *_to_stream write, and what *_from_stream    *)
(* takes for it.  The tool runs alone and changes no record, so that a run *)
(* of it is a function of its arguments and of the tables.                 *)
(*                                                                         *)
(* A record is given as the sequence of its fields with their widths in    *)
(* bytes.  What is printed is a sequence of ids and records; how it is     *)
(* laid out is left out.  A table is a sequence of keys and bytes, in the  *)
(* order of the B-tree.                                                    *)
(***************************************************************************)
EXTENDS IosBuf

CONSTANT SumBytes   \* SCsumLength

-----------------------------------------------------------------------------
(* The records. *)

Field(name, width) == [name |-> name, width |-> width]
Number(name) == Field(name, WordBytes)

\* db_filename_add and db_filename_from_stream.
FilenameFields == <<Field("version", ShortBytes), Number("file_id")>>

\* db_summary_to_stream.
SummaryToStream ==
    <<Field("version", 1), Number("file_id"), Number("summary_time"), Number("mod_time"),
      Number("file_length"), Number("inode_number"), Number("permissions"),
      Field("file_sha1", SumBytes), Field("block_list_sha1", SumBytes),
      Number("block_list_length"), Number("block_list_remote_id")>>

\* A slip: the fields in another order than they were written.
SummaryRemoteFirst == SubSeq(SummaryToStream, 1, 9) \o
    <<Number("block_list_remote_id"), Number("block_list_length")>>

\* db_summary_from_stream.
SummaryFromStream ==
    <<Field("version", 1), Number("file_id"), Number("summary_time"), Number("mod_time"),
      Number("file_length"), Number("inode_number"), Number("permissions"),
      Field("file_sha1", SumBytes), Field("block_list_sha1", SumBytes),
      Number("block_list_length"), Number("block_list_remote_id")>>

\* db_block_add.
BlockAdd == <<Field("version", 1), Number("offset"), Field("length", ShortBytes)>>

\* db_block_from_stream, before the data.
BlockFromStream ==
    <<Field("version", 1), Number("remote_id"), Number("offset"), Field("length", ShortBytes),
      Number("weak_checksum"), Field("strong_checksum", SumBytes)>>

\* db_archive_add and db_archive_from_stream, before the data.
ArchiveFields == <<Field("version", 1), Field("length", ShortBytes)>>

\* What is read of a record of table t.
FromStream(t) == CASE t = "filename" -> FilenameFields
                   [] t = "summary" -> SummaryFromStream
                   [] t = "block" -> BlockFromStream
                   [] t = "archive" -> ArchiveFields

\* The last thing read of a block or of an archived object is as long as its length says.
HasData(t) == t \in {"block", "archive"}

\* The bytes of record r.
Bytes(fields, r) ==
    FoldLeft(LAMBDA s, f : s \o Digits(r[f.name], f.width), <<>>, fields)

\* ios_set_buffer.
IosSetBuffer(b, bytes) == IosAppend([b EXCEPT !.data = <<>>, !.rp = 0], bytes)

\* One field is read (ios_read_int32 ...).  What is not there fails an assertion, or is a
\* NULL that is used.
TakeField(s, f) ==
    IF ~s.ok \/ IosSize(s.ios) < f.width
    THEN [s EXCEPT !.ok = FALSE]
    ELSE [s EXCEPT !.rec = (f.name :> NumberAt(IosUnread(s.ios), 0, f.width)) @@ @,
                   !.ios = IosSkip(@, f.width)]

\* db_*_from_stream: the record, the buffer behind it, and whether the process survives.
Read(t, ios) ==
    LET empty == [x \in {} |-> 0]
        s == FoldLeft(TakeField, [ok |-> TRUE, rec |-> empty, ios |-> ios], FromStream(t))
    IN  IF ~HasData(t) \/ ~s.ok THEN s
        ELSE IF IosSize(s.ios) < s.rec.length THEN [s EXCEPT !.ok = FALSE]
        ELSE [s EXCEPT !.ios = IosSkip(@, s.rec.length)]

-----------------------------------------------------------------------------
(* The arguments. *)

\* The letters of --database, their tables, and those that select the server's directory.
Database == [f |-> "filename", s |-> "summary", b |-> "block", a |-> "archive",
             c |-> "constants", e |-> "server_constants", k |-> "keys"]
ServerLetters == {"a", "e"}

\* The letters of --action.
Action == [f |-> "find", l |-> "list", s |-> "show"]

\* One option: an option letter and its argument.  A bad one leaves what was chosen before.
TakeOption(p, o) ==
    CASE o[1] = "d" /\ o[2] \in DOMAIN Database ->
            [p EXCEPT !.db = Database[o[2]], !.server = @ \/ o[2] \in ServerLetters]
      [] o[1] = "a" /\ o[2] \in DOMAIN Action -> [p EXCEPT !.action = Action[o[2]]]
      [] o[1] = "h" -> [p EXCEPT !.bad = TRUE, !.help = TRUE]
      [] OTHER -> [p EXCEPT !.bad = TRUE]

\* parse_cdb_options: the options in their order, and then the archive and the id.
Parsed(options, rest) ==
    LET p == FoldLeft(TakeOption, [db |-> "no", action |-> "no", server |-> FALSE,
                                   bad |-> FALSE, help |-> FALSE], options)
    IN  [p EXCEPT !.bad = \/ @
                          \/ ~p.help /\ Len(rest) < 1
                          \/ p.action = "find" /\ Len(rest) < 2]

-----------------------------------------------------------------------------
(* The run. *)

\* What may become of a run.
Ended(out) == {[exit |-> 0, out |-> out]}
Usage == {[exit |-> 1, out |-> <<>>]}
Aborted == {[exit |-> "abort", out |-> <<>>]}
Garbage == {[exit |-> 0, out |-> <<[key |-> "garbage"]>>]}

\* Tables that have a fetch and a display function; the others' are NULL.
Displayed == {"filename", "summary", "block", "archive"}

\* find_by_id: what db_get does not find is NULL, which db_*_display asserts it is not.
\* db_block_fetch frees its buffer before it reads it.
FindById(t, table, id) ==
    LET here == SelectSeq(table, LAMBDA e : e.key = id)
        r == Read(t, IosSetBuffer(IosNew, here[1].bytes))
    IN  CASE t = "block" -> Aborted \cup Garbage
          [] t \in Displayed \ {"block"} /\ here # <<>> /\ r.ok ->
                Ended(<<[key |-> id, rec |-> r.rec]>>)
          [] OTHER -> Aborted

\* display_all, at one record: one buffer serves for all of them.
ShowRecord(t, action, s, e) ==
    LET ios == IosSetBuffer(s.ios, e.bytes)
        r == Read(t, ios)
    IN  CASE action = "list" -> [s EXCEPT !.ios = ios, !.out = Append(@, [key |-> e.key])]
          [] action = "show" /\ t \in Displayed ->
                [ok |-> s.ok /\ r.ok, ios |-> r.ios,
                 out |-> Append(s.out, [key |-> e.key, rec |-> r.rec])]
          [] OTHER -> [s EXCEPT !.ios = ios]

DisplayAll(t, action, table) ==
    LET s == FoldLeft(LAMBDA x, e : ShowRecord(t, action, x, e),
                      [ok |-> TRUE, ios |-> IosNew, out |-> <<>>], table)
    IN  IF s.ok THEN Ended(s.out) ELSE Aborted

\* main.  tables[server][t] is what the directory of the server, or of the client, has.
Run(options, rest, tables) ==
    LET p == Parsed(options, rest)
    IN  CASE p.bad \/ p.db = "no" \/ p.action = "no" -> Usage
          [] OTHER -> IF p.action = "find" THEN FindById(p.db, tables[p.server][p.db], rest[2])
                      ELSE DisplayAll(p.db, p.action, tables[p.server][p.db])
=============================================================================
