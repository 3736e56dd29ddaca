# A verification project for cryptar

cryptar is an encrypted, differential backup program: a client splits files into blocks, sends the
blocks that the server lacks, compressed and encrypted, and keeps on its own disk what it needs to
ask for them again. The repository holds two programs:

- `version-1/`, in C: a client and a server that talk over a pipe pair in glib event loops and keep
  their tables in Berkeley DB. It works out which blocks of a file changed in the manner of rsync.
- `src/`, in C++: a rewrite that was begun later and has no backup path yet. It has blocks with
  asynchronous completion tokens, a communicator thread, transports and configuration files.

This directory holds TLA+ modules about that code, the TLC configurations that check them on small
instances, and proofs checked by TLAPS. It models the text of the code as written. (`accept_hello` in
`version-1/protocol.c` is pseudo-code at lines 585-588 and names an undeclared variable at line 655:
version 1 was left in the middle of a change, and as it stands no run gets through its greeting, see section 8. The
paths of a backup and of an extraction after the greeting are whole.)

Contents: 1 inventory, 2 plan, 3 the modules, 4 the runs, 5 bounds and fairness, 6 the proofs,
7 what is only model-checked and what is not modelled, 8 disagreements found.

## 1. Inventory

### Version 1

| component | state | operations | talks to |
|---|---|---|---|
| work list (`workticket.c`) | `work_list` of tickets (file, status, block list, `next_block_to_queue`, `num_blocks_moved`), `more_work` | `wt_insert`, `wt_find`, `wt_find_block`, `wt_process_queue`, `wt_send_blocks`, `wt_send_block_requests`, `wt_finish` | called by the scan, the protocol handlers and the output handler |
| protocol (`protocol.c`, `requests.c`) | none of its own | `send_*`, `receive_*`, `accept_*`, `start_archive`, `start_extract` | both processes, by packets |
| I/O (`io.c`, `main.c`) | output and input buffers, `ignore_input`, `ignore_output`, event sources | `io_output_handler`, `io_input_handler`, `io_write_reg`, `cycle_main_loop`, `quit_main_loop` | glib calls it; it calls the work list and the protocol |
| scan (`archive.c`) | the position of `ftw` in the archive list | `do_archive`, `archive_it`, `archive_file`, `open_if_changed` | runs inside the input handler that got the hello ack; inserts tickets |
| covering (`covering.c`, `hash.c`, `checksum.c`) | the block list of a ticket, a hash of the file's blocks | `cover_update_remote`, `cover_fill_block`, `cover_save_local` | called by the scan and by `start_archive` |
| client tables (`summary.c`, `block.c`, `filename.c`, `constants.c`, `db_misc.c`) | summary by file, blocks by local id, names, counters | `db_*_add`, `db_*_fetch`, `db_get_next_index` | every record is synced, the counters are not |
| server (`daemon.c`, `protocol.c`, `remote.c`) | archive table, its counter | `accept_put_block`, `accept_get_block`, `receive_bye`, `accept_hello` | answers the client in order |
| extraction (`extract.c`, `protocol.c`) | tickets, the files written | `do_extract`, `extract_it`, `start_extract`, `accept_get_ack_block`, `install_block` | the server, the work list |
| handshake and creation (`protocol.c`, `main.c`, `prefs.c`) | archive id, password, `PREF_MUST_CREATE` | `do_server_init`, `accept_hello`, `accept_hello_ack`, `do_create` | both processes |
| iosbuf (`ios.c`) | a buffer, its length and read pointer | append, read, reset, integers | everybody |
| encryption, compression (`encryption.c`, `compress.c`) | the key of the run | `init_crypto`, `encrypt`, `decrypt`, `do_compress`, `do_decompress`, `do_crypt_test` | the requests and the answers |
| `cryptar-db` | none | options, `find_by_id`, `display_all`, the `*_from_stream` of the records | the tables |
| options, preferences, logging | flags, records in a table | `const_get_*`, `const_put_*`, printing | everybody |

What is hard: a backup is a conversation in which both sides queue packets, acks are matched to
tickets by file id only, and one counter per ticket decides when the block list, and with it the
summary that makes the new copy reachable, may be sent. A signal, a lost connection or a failed
assertion may end either process at any moment, and the next run starts from what is on disk. The
output handler takes itself off the event loop and has to be put back. The scan runs inside the input
handler. A cover mixes old blocks, moved or gone, with new ones that are cut by offset and length,
may overlap, and are read later than they are planned. The tables sync records but not counters.
Packets cross a pipe in pieces, and a hang-up is seen before the data that is still in it. An extraction
meets objects that are missing or damaged, and writes many tickets into one file.

What makes it correct: a summary on the client's disk always leads to a complete copy on the server;
the block table names only blocks the server has; every block is counted once while it is under way;
the goodbye is last; every run ends and, undisturbed, commits every file that it set out to save. A cover
names every byte of the file; an old block is reused only where the file holds its bytes; an extraction
gives back the file, and what it has written when it is cut short is a prefix of it. Two files never share
an id. What a packet carries arrives whole, once, in order, as it was meant.

### The rewrite

| component | state | operations |
|---|---|---|
| Communicator | `m_queue`, `m_needed`, a worker thread | `push`, `wait`, `comm_batch`, `operator()` |
| Block and ACT | status, contents, queue of completion tokens | `write`, `read`, `completion_action` |
| Transport, Config, RootBlock | files | `read`, `write`, `save`, `add_store`, serialization |
| FileSystem, DBSet | stubs | almost no bodies |

What is hard there: two threads on one queue and one flag, the end of the worker, files that are
truncated before they are written, and several processes on one directory without a lock.
What makes it correct: what was pushed before a `wait` is written, once, in order; what a block or a
`Config` returns was given to it, in one piece, and a read that no write overlaps brings what the last such write left.

## 2. Plan

In order of importance. Lines 1 to 6 and 8 to 10 are done.

1. `BackupSession` with `BackupPromise`: a backup, with both processes, the pipes, the disk, signals.
2. Proofs: the types, and the invariant by which a committed summary is complete.
3. `Covering`: offsets and lengths of a cover, and what an extraction of it yields. `BlockHash` with `WeakSum`: the rolling
   sum and the hash table, and that covering with them implements `Covering`.
4. `ExtractSession` with `ExtractPromise` and `Sealing`: the work list, the server, the installation of blocks, keys.
5. `Tables` with `TableViewer`: counters that are not synced beside records that are, under kills.
6. `Wire` with `IosBuf` and `PacketChannel`: packets as bytes, in pieces.
7. The greeting: its two packets are in `Wire`; the rest waits for code that can run.
8. `Communicator` with completion tokens, and the proof that what was pushed before `wait` is written.
9. `BlockStore`: blocks and configuration files under crashes and concurrent processes.
10. Further proofs: `BlockStore`; that `num_blocks_moved` is exact when no file is visited twice; that
    `BackupSession` implements `BackupPromise`; that `ExtractSession` implements `ExtractPromise`; that no buffer of
    `Wire` overflows, and that `Wire` implements `PacketChannel`; that the rolling sum is right, and that `BlockHash`
    implements `Covering`.

## 3. The modules

**`BackupSession`** is the core. One action is one handler run to its end, because each process is
single threaded; only the loop over the work list in `wt_process_queue` is cut in one action per block
and per ticket (`pc = "fill"`), during which no other handler of the client runs, but the server and
signals do.

| code | module |
|---|---|
| `work_list`, `WorkTicket` | `workList`, records of `Ticket` |
| `more_work` | `scanning` |
| `ftw` and the files it has still to report | `todo` |
| `ios_write_buf`; the output handler being a source of the loop | `outBuf`; `registered` |
| `ignore_input`, `ignore_output` | `closing` |
| tables `kSummary`, `kBlocks` and the counter of `kBlocks` | `summary`, `blockTable`, `Len(bytes)` |
| archive table and its counter | `store`, `Len(store)` |
| the two pipes, with the server's output buffer | `toServer`, `toClient` |
| `archive_it`, `archive_file`, `open_if_changed`, `do_archive` | `VisitNew`, `VisitChanged`, `VisitUnchanged`, `VisitUntouched`, `EndScan` |
| `io_output_handler`, `wt_process_queue`, `wt_do_work`, `wt_send_blocks` | `OutputBuffered`, `FillStart`, `FillBlock`, `FillNext`, `FillEnd` |
| `accept_put_ack`, `wt_finish` | `ReceiveBlockAck`, `ReceiveListAck` |
| `accept_get_ack_block_list`, `start_archive`, `wt_assert` | `ReceiveBlockList` |
| `accept_put_block`, `accept_get_block`, `receive_bye` | `AcceptPutBlock`, `AcceptGetBlock`, `ReceiveBye` |
| `sig_quit_handler`, `io_cond_ok`, `g_assert` | `ClientSignal`, `ServerSignal`, `ClientHangup`, `ServerHangup`, `AssertFails` |

Covers are abstract: an old block is kept, moved (another offset, hence a new local id) or not in the
file any more, and a number of new blocks follows the old ones, as `cover_complete_cover` appends them.
That function also sorts the old blocks by offset; old blocks are never sent and are looked up by id, so
their order among themselves is left out. The bytes of a block are a number, `bytes[i]` for local id `i`;
for a new block it stands for whatever `cover_fill_block` will read. (Offsets and bytes
are in `Covering`.) A file with a summary is changed, or has another date or length but its old bytes
(`VisitUnchanged`), or has not been touched (`VisitUntouched`): then `archive.c:284` asks for a preference that nothing
stores, and an assertion ends the client in the middle of its scan. The model then stops (`pc = "noPreference"`) and has no
later run: counters that were not synced may go back at such an end, which is `Tables`' subject. A write on a pipe
that nobody reads deregisters the output handler with its data still in the buffer (`WriteFails`), in both conversations. Several runs of one client are those of a CLEARTEXT build: any other draws a new key in
each run and cannot read its old lists (`ExtractSession`). An `exit` in the middle of a scan (a file that cannot be opened,
`archive.c:283`) goes through the same handler as a signal and is covered by `ClientSignal`. A signal
inside a handler would leave part of what the handler saves: each handler adds at most one record to a
table except `cover_save_local`, and a part of what it records is harmless for the same reason as the
whole (`BlockTableStored` holds of every subset).

**`BackupPromise`** is what a backup promises, with two variables: `archived[f]`, the copy of file `f` that
an extraction would fetch now, and `pending[f]`, the copies being sent. An archived copy is only ever
replaced, in one step, by a whole pending copy. `BackupSession!Implements` says that the session
implements it: the archived copy is what the summary leads to on the server.

**`Covering`** follows one file through its backups and an extraction, with offsets, lengths and bytes. The
conversation, the ids and the tables are left to `BackupSession`; a backup here stores its blocks one by
one and then its list, or is cut short.

| code | module |
|---|---|
| the file; its `file_sha1` in the ticket; the committed list and summary | `file`; `sum`; `archive` |
| `sig.blockList`, the loop indices and `so_far` | `blocks`, `oldLen`, `i`, `soFar` |
| `archive_file`, `open_if_changed` | `StartBackup` |
| what `hash_find` returns after `WCsum_make_hash` | `Windows`, `EnteredBefore`, `FirstEntered`, `Firsts`, `Lookups` |
| `WCsum_get` of a new block | `WeakOf` |
| `SCsum_match`, `cover_hash`, the sort | `StrongMatch`, `Found`, `SortedBy`, `CoverWith`, `CoverHash` |
| `cover_complete_cover` | `CoverHole`, `PassBlock`, `CoverOld`, `CoverTail`, `CoverDone` |
| `cover_fill_block`, `wt_send_blocks` | `Filled`, `FillBlock` |
| `wt_finish` | `Commit`, `Leave` |
| `extract_file`, `install_block` | `StartExtract`, `InstallBlock`, `ExtractDone` |

The strong checksum of some bytes is those bytes, so that it has no collisions; the low half of the weak
one, which is all that `hash.c` compares, is the operator constant `Weak`, any function of the bytes. A
block carries what the server holds for it, `data`, which is as long as the block says, beside `strong`,
which is of the bytes that were read: where the read was short they differ, and the rest is `Junk`.
`g_ptr_array_sort` is not stable, so ties come in any order. The file changes between backups
and while its ticket waits or its blocks are sent; `steady` says that it has not, since the backup
began. `steady`, and of what is archived `cover` and `old`, are history: the code does not keep them.

`Covering` says in one formula, `Firsts`, what `hash_find` returns for a file that has not changed: of each checksum the
first offset in the order of the passes. Of one that has, perhaps while it was scanned, it says nothing: `hash_find`
may then return any offset (`Lookups`), and only `SCsum_match`, which reads the file again, keeps a block from being placed wrongly.

**`BlockHash`** is `Covering` with the scan and the table in place of that formula. It extends `Covering` by four variables, replaces
`CoverHash` by the steps of the scan, and claims that the result implements `Covering` (`Implements`).
**`WeakSum`** has what needs no state: the checksum and its update, and the operations of the hash table.

| code | module |
|---|---|
| the passes of `WCsum_make_hash`; `init_offset` | `scan`; `init` |
| `hash_table`, `hash_create`, `hash_insert`, `hash_find`, `hash_destroy` | `table`, `HashCreate`, `HashInsert`, `HashFind`, `Lookup`, `HashDestroy` |
| the local variables of `WCsum_make_hash_sub`, and its position in the file | `local` |
| `WCsum_make_hash_sub` up to its loop; a turn of the loop | `HashPass`; `HashTurn`, with `UsedUp`, `NoWordFollows`, `Swapped`, `Rolled` |
| `WCsum_buffer_update` | `NumRead`, `BufferUpdate` |
| `WCsum_get`, `WCsum_update` | `WCsumGet`, `WCsumUpdate` |
| `cover_update_remote`, `cover_hash` | `HashStart`, `HashCover` |

The file may change between two turns, so that a buffer may hold bytes of one content and the next of another. `BlockHash` fixes
the weak checksum of `Covering` to that of `WCsum_get` (`HashAssumption`).

**`MCBlockHash`** gives the contents a file may have. **`CoveringProofs`** holds the theorems about both modules.

**`Communicator`** is the class of the rewrite, with threads. A step lies between two accesses to what
the threads share. `push` and `queue_empty` are one step each, because they are one critical section;
the worker takes the lock (`Stage`), gives it back (`Unlock`) and then writes and completes block by
block without it.

| code | module |
|---|---|
| `m_queue`, `m_queue_access`, `m_needed` | `queue`, `mutex`, `needed` |
| `blocks_to_stage` | `toComplete \o toWrite`: visited and not yet visited by the first `for_each` |
| `m_act_queue` of a block; an action | `acts`; the sequence of blocks it has still to push |
| `wait` | `ClientWait`, `Look`, `Stop`, `Join`, `Check` |
| `operator()`, `comm_batch` | `Test`, `Peek`, `Stage`, `Unlock`, `WriteBlock`, `WriteThrows`, `WritesDone`, `BatchDone` |
| `Block::completion_action()` | `ActPushes`, `ActReturns`, `CompleteBlock` |

`m_queue.empty()` at the head of `comm_batch` is read without the lock; the only writers besides the
worker are pushes, so it reads the queue before or after one. `m_needed` is a plain `bool`: the loops that
read it call functions in other translation units on every turn, so that each turn reads it afresh. A
client is a program, a sequence of pushes and waits. `std::terminate` after an exception of the transport
stops everything (`Running`). `pushed`, `written`, `completed` and `mark` record history.

**`MCCommunicator`** has two clients' programs, one completion action that pushes, and one block with
two actions. **`CommunicatorProofs`** holds its theorems.

**`Tables`** has the Berkeley DB tables on both disks. A table is a file and a cache in the process
that opened it; a record is synced when it is written, a counter is not.

| code | module |
|---|---|
| the files; what a process sees of them | `disk`, `counted`; `mem`, `counter` |
| `db_put`, `db_get`, `db_get_next_index` | `DbPut`, `DbHas`, `NextIndex` |
| `db_open_client_dbs`, `db_open_server_dbs`, `db_close_all` | `Start`, `CloseAll` |
| an exit or a signal with a handler; a kill without one; a page that the database writes by itself | `Exit`; `Kill`; `Evict` |
| `const_put_int`, `const_get_int` of what is not stored | `PutPreference`, `MissPreference` |
| `db_filename_add`, `cover_save_local`, `send_block_list` | `AddFile`, `PutBlock`, `PutList` |
| `accept_put_ack`; `accept_put_block`, `db_archive_add`, `db_archive_fetch` | `AcceptAck`; `AcceptPut`, `ArchiveFetch` |

An object is a number with a length, because an archive record has 16 bits for it (`ShortRange`). When an object
may be sent is left to `BackupSession`. **`TableViewer`** is `cryptar-db` as a function of its arguments and the tables: the
fields of each record as they are written and as they are read, the options in their order, the three
actions. **`MCTables`** applies it to the tables of every state with no process running.
**`TablesProofs`** holds the theorems.

**`ExtractSession`** is to an extraction what `BackupSession` is to a backup; the greeting has taken place,
and an archive of earlier runs is given, of which some objects are missing or damaged.

| code | module |
|---|---|
| the arguments; the cursor on the table of names | `args`; `todo` |
| `extract_it`, `extract_file`, `do_extract` | `Skip`, `ExtractFile`, `NextArgument`, `EndScan` |
| the FILE of each ticket; the-recovered-file | `streams`; `disk` |
| `hashkey` of this run and of the one that made the archive | `key`; `sealed` |
| `wt_send_block_requests`, `io_output_handler` | `FillStart`, `FillRequest`, `FillNext`, `FillEnd`, `OutputBuffered` |
| `accept_get_ack_block_list`, `start_extract`, `wt_assert` | `ReceiveList`, `ReceiveAborts` |
| `accept_get_ack_block`, `install_block` | `ReceiveBlock`, `Install` |
| an answer without data; `do_decompress` of garbage | `ReceiveNothing`; `ReceiveSealed` |
| `accept_get_block`, `receive_bye` | `AcceptGetBlock`, `ReceiveBye` |
| `exit` and stdio | `ExitFlush`, `ExitEnds` |

`fwrite` keeps a block in the stream or writes it through, as long as it likes. **`ExtractPromise`** is the abstract
specification: `copy[f]` is the set of the blocks of `f` that the archive can give, `got` the sequence of writes; a
write is always of the next block of the copy of its file (`InTurn`), and no write is taken back. **`Sealing`** has the keys, the cipher and the compression over
parameters; no run is of it, **`ExtractProofs`** proves from it what `ExtractSession` assumes of a key, and holds the theorems about both.

**`Wire`** is one direction of the connection in bytes, over **`IosBuf`**, the buffer of `ios.c` with its
read pointer and what is allocated for it. **`PacketChannel`** is the abstract specification, **`WireProofs`** holds the
theorems.

| code | module |
|---|---|
| `ios_write_buf`, `ios_read_buf`; the pipe | `out`, `in`; `pipe` |
| `send_*`, `io_send_ios`, `io_no_more_output` | `Encode`, `SendIos`, `SendPacket` |
| `io_output_handler` | `Deregister`, `Write`, `WriteError`, `SenderHangup` |
| `io_input_handler` | `Read`, `ReceiverHangup` |
| `read_and_dispatch_commands`, `receive_*` | `Dispatch`, `Wait`, `Decode` |
| `struct proto_*` | `Packet` |

A handler of the sender is a packet of a script, sent at any time. Of a hello ack the handler
uses the version and the error; `Agree` asks for those alone. A field of `Packet` is a number below `Power[w]` for the `w` bytes of
its C type, so that the assumption on `Scripts` is what the types of the structs say, and that no packet is longer than its 32-bit
length can tell. `Power` and the value that `NumberAt` reads are recursive functions, about which TLAPS can reason.

**`BlockStore`** is the store of the rewrite. Processes share a directory; a write is the opening, which
truncates, and then the filling; a read is the measuring and then the reading.

| code | module |
|---|---|
| the directory as processes see it; what the disk may hold of it; the Block or Config in memory | `file`; `versions`, `OnDisk`; `object` |
| every cipher text made, with what it was made of | `texts` |
| `block_empty`, `block_by_content`, `block_by_id`, `set_content` | `NewEmpty`, `NewBlock`, `BlockById`, `SetContent` |
| `Block::write`, `TransportFS::write` | `Write`, `Fill`, `FillFails` |
| `Block::read`, `TransportFS::read` | `Read`, `Fetch` |
| `Config`, `save`, `save (name, phrase)` and the load | `NewConfig`, `Save`, `SaveAborts`, `SaveAs`, `Load`, `Rehydrate` |
| `make_transport`, `NoTransport` | `MakeTransport`, `Makable`, `ByFile` |
| a process that is killed; the machine that stops and starts again | `Crash`; `MachineStops`, `MachineStarts` |

The state of a stream between the two steps is in `pc`, with `alone`: whether any other write was at the
same file meanwhile. `last` and `alone` are history. A process that is killed loses its memory and the rest of the write it is in; what it has
written before stays, since the kernel has it. A stop of the machine is another matter: neither `TransportFS::write` (`transport.cpp:149-153`) nor
`Config::save` (`config.cpp:232-238`) syncs its file, so that of each one the disk may have a first part of anything it has held since
the last start, or of what it held then, or no file (`OnDisk`). (A file system that
gives a file its length before its data would leave other bytes as well; that is left out.) `decompress` stops at the end of its stream and ignores what
follows, so that a text which lies whole at the beginning opens, as long as the padding at the end is that of a text of
the same key. **`BlockStoreProofs`** holds the theorems.

**`MCBackup`** gives the orders in which files are visited, **`BackupProofs`** holds the theorems of section 6 about the
backup. **`SequenceLemmas`** has what several proofs need: what queues hold, induction, recursive functions, division.

## 4. The runs

`backup`, `ends` and `overlap` are of `MCBackup`; `cover` and `cover_whole` of `MCBlockHash`; `tables` and
`silent_default` of `MCTables`; `extract` and `restores` of `MCExtract`; `comm`, `wire` and `store` of
`MCCommunicator`, `MCWire` and `MCBlockStore`.

| run | instance | shows |
|---|---|---|
| `backup` | 2 files, 2 runs of the client, covers of 0 to 2 new blocks, 1 fault | the types; `SummaryComplete`: what a summary leads to is all on the server; `BlockTableStored`; `MovedIsInFlight`: `num_blocks_moved` is the number of blocks in the buffer, in the pipes or whose ack is; `ByeIsLast`; `NoLostWakeup`; `NeverAborts`; `StuckHasNothingNew`: a ticket that gets stuck (section 8) has only blocks that the archive has; `Implements`: the promise |
| `ends` | the same, 1 new block, under fairness | `RunEnds`: every run ends, whatever is interrupted; `BackupCommits`: every ticket leads to a new summary for its file unless something is, or the scan meets a file that was not touched |
| `overlap` | a file is visited twice in a run | even with acks and lists going to the wrong ticket, and a client that aborts, `num_blocks_moved` does not fall below zero (`NoWrap`). That nothing incomplete is committed here either is proved (section 6) |
| `comm` | 2 clients that push and wait, batches of 2, an action that pushes, a write may throw, under fairness | the types; `NothingLost`: every pushed block is in one place, in order; `JoinFlushes`: a wait that joined the worker has flushed what had been pushed; `WaitReturns`: every wait comes back unless a write threw |
| `cover` | the scan and the cover of a file of 2, 6 or 8 bytes in blocks of 2 words of 2 bytes, three backups, the file may change at any turn of the scan and at any time after it | `KeptIsThere`: an old block is reused only where the file holds its data; `CoverReaches`: the cover misses no byte but at the end of a file; `ExtractTrue`: if the file was steady during its last backup, a wrong byte is recovered only where a stale block lies and no whole new one does, and every whole block of the cover is recovered; `SumsRoll`: the rolled checksum is that of the bytes in the window (what `WCsum_verify` asserts in a debugging build); `FindsFirst`: what is found in the table of a steady file is what `Covering` says; `Implements`: with this checksum and this table a cover is one of `Covering` |
| `wire` | four conversations, a pipe of 6 bytes, 1 failed write, under fairness | the types; `Fits`: no buffer is written or read beyond its end; `Implements`: packets arrive whole, once, in order, each with its fields; `Delivered`: none stays in a buffer |
| `tables` | 2 files, 2 objects, 3 starts, kills at any step | the types; `OneFilePerId`; `SummaryReaches`: a summary leads to the object that was acknowledged, whole if its length fits; both but for a kill that sets a counter back; `PassedIsKept`: what the counter on disk has passed is safe even then; `ViewShows`: `cryptar-db` shows it all |
| `extract` | 2 files of 2 and 1 blocks, 3 command lines, 2 damaged or missing objects, 1 fault, under fairness | the types; `WaitsWithAll`: a client that waits for ever has installed all that can be had; `Implements`: what is written for a file is its copy up to some block, in order; `Extracts`: every file whose list is there gets its blocks if the key is the one of the archive, unless a fault, a damaged list or overlapping arguments end the client |
| `store` | 2 processes, contents of two chunks, one config file, three transports, 1 fault, which may be a stop of the machine | the types; `Authentic`: what opens was given to this block or name, in one piece; `LoneReads`: a read that no write overlaps brings what the last write left, if that one ran alone and to its end and the machine has not stopped since |
| `cover_whole` | violation | the cover misses the end of a file |
| `silent_default` | violation | a preference that nothing stores ends the client |
| `restores` | violation | an encrypted archive cannot be extracted by another run |

Deadlock is checked in `ends`, `comm`, `cover` and `cover_whole`. It is not checked where the code does get stuck or
comes to rest: with nothing to send (`backup`), with two tickets of one file (`overlap`), at the end of every
extraction (`extract`, `restores`), when both sides have said everything (`wire`), when the client is not started
again (`tables`, `silent_default`) and when the bounds on ids and texts are reached (`store`).

For each property of a passing run there is a mutant in `PROJECT.json`: a slip that this code could have
had (the list sent before all acks are in, a block list one entry short, a counter that is not
incremented, as indeed `wt_send_block_requests` does not, a forgotten `io_write_reg`, a goodbye without
its test, a test for room that forgets the bytes already read, a length measured one short, a record that is not
synced) and that the property catches. The mutated operators stand before the originals in the module.

## 5. Bounds and fairness

- `MaxSession = 2`: the second run meets files with a summary, an old list and a table; what a third run
  meets differs only in ids. Proofs hold for any number.
- `MaxNew = 2` with `Desired = 2`: the buffer fills before the second ticket's blocks, so that tickets are
  interleaved and a count reaches zero between two fills. Sizes are counted in messages.
- `MaxQueue = 20` is never reached with two files (section 8 says what happens beyond it).
- `MaxFault = 1`: a signal or hang-up at any step of either run, followed by a whole run.
- A file that was not touched ends what is modelled; what is committed and on its way then is checked, a later run is not.
- `MinNew = 0` only in `backup`: `ends` is about runs that no stuck ticket holds up.
- `comm`: 4 blocks and one more that an action pushes, with batches of 2: a batch that is full, one that
  is not, pushes during a batch and after the worker has ended, a second wait that joins again or gives up.
- `cover`: words of 2 signed bytes, blocks of 2 words, sums modulo 4, to which, as in the code, only the low bytes of a word
  count. With `P` for the block `1, 0, -1, 1`, the contents are `-1, 1` (shorter than a block), `1, -1, P` (with a short end) and `0, P, 0, -1, 1`.
  So `P` lies at offsets of both passes, in a buffer that is full and in one that the file does not fill, other blocks have the low half of
  its checksum, a pass goes from one buffer into the next, and a short last block overlaps another. Two backups meet an old list, and
  the third one a list that holds stale blocks already, beyond a shorter end too. The proofs have no such bounds.
- `wire`: bytes are decimal digits, and lengths have two of them. The pipe holds less than a packet, so that every
  one crosses it in pieces, and the buffers move their bytes several times. One packet follows the goodbye, and must not be sent.
- `tables`: three starts, so that a counter that was set back is used and written, and set back again. One length is
  below and one above the range of 16 bits.
- `extract`: the list of one file is longer than that of the other, both may be damaged, and the buffer of 2 messages is
  shorter than what one argument asks for. Command lines have one argument, two that overlap and two that do not.
- `store`: 2 ids and 2 texts for 2 processes: a block rewritten, by nothing or by another content, by the same or another process, a
  block that takes the id of a root, a config saved twice. A text of a block has two chunks, so that it can be there in part, and one of a
  `Config` has one; that a short text may be laid over a longer one of its id is left to the proofs. `MaxFault = 1`: a crash, a full disk or a stop of the machine, and all that is
  written and read afterwards. What the disk may hold (`versions`) no longer matters once no stop can come: the view `Seen` leaves it out then, so that
  TLC takes states that differ in nothing else for one. The proofs have neither bounds nor view.

Fairness of the Communicator is weak fairness of each thread; the mutex is not assumed to be fair. In
`wait` and in the worker the lock is held for a bounded time and free while they sleep.

Fairness of a backup is weak fairness of the client as a whole, of the server, and of noticing a lost connection: the
kernel schedules both processes, and `g_main_run` dispatches whatever source is ready. Nothing is assumed
of signals or of the user. The scan of a full work list (`Spinning`) does not notice the end of a
connection by itself: the assumption leaves it out. An extraction has the same fairness. `Wire` has weak
fairness of the sender's next packet, of its output handler, whichever branch is due, and of the receiver; a pipe
that stays full is emptied by the receiver, and a write that fails is never assumed. `tables`, `store`
and `cover` check safety only and assume none.

## 6. The proofs

TLAPS proves for every set of files, every set of visit orders (with repetitions), every bound, and so
any number of runs and faults, from `ConstantsAssumption` alone:

- `BackupProofs!TypeCorrect`: `Spec => []TypeOK`.
- `BackupProofs!SummariesComplete`: `Spec => []SummaryComplete`.
- `BackupProofs!BlockTableTrue`: `Spec => []BlockTableStored`.
- `BackupProofs!CountNeverWraps`: `Spec => []NoWrap`.

`TypeOK` is not inductive: a block is filled from its local id, so the type of a packet needs every local id,
in tickets, lists, packets and archive records, to be one that the counter has given out (`LocalsKnown`).

`SummaryComplete` is not inductive either. A list may be sent when `num_blocks_moved` falls to zero, and
nothing in `SummaryComplete` says that the count has anything to do with what is stored. The
invariant `Inv` adds, in two parts:

- `StorageInv`, what is true of data: every list, on the server, in a packet or in a ticket, has
  remote ids under which the server stores those very bytes, except for new blocks of a ticket; an ack
  names the record of its block.
- `CountInv`, the argument about one block: the block ids on their way (`Flying`) are on their way once,
  in one queue; an id not yet stored belongs to one entry of one ticket, and is in no list; an entry
  whose id is on its way was sent and is not stored. So an ack removes exactly one from the entries sent
  and not stored (`Unacked`), and `Cardinality(Unacked(t)) <= t.moved` is kept. It is an inequality because
  with two tickets of one file acks get lost and the count stays too high: that blocks a ticket but
  never makes it send its list too soon. When the count reaches zero and the ticket waits for acks,
  all its entries were sent and none is unstored: the list is complete.

`BackupProofs` has one lemma per handler. Steps that neither send, store nor compute a cover go through
`QuietStep`, which says that moving packets and tickets about keeps `Inv`; `CoverStep`, `FillBlockStep`,
`AcceptPutBlockStep` and `AckBlockStep` are the four that do.

- `BackupProofs!NoWakeupLost`: `Spec => []NoLostWakeup`. `WakeInv` adds that in a fill which has found nothing
  yet (`outBuf` empty) no ticket behind the cursor has blocks to send, so that the handler may deregister at the end.

Five more theorems hold if no visit order has a file twice, `OnceEach`, that is if no entry of the archive list lies inside
another. The hypothesis is needed: with two tickets of one file acks go to the wrong one, counts stay too high and the
client may abort (run `overlap`, section 8). They hold for any number of files, blocks, runs, signals and lost connections:

- `BackupProofs!NoAbort`: `OnceEach => (Spec => []NeverAborts)`.
- `BackupProofs!GoodbyeIsLast`: `OnceEach => (Spec => []ByeIsLast)`.
- `BackupProofs!StuckIsHarmless`: `OnceEach => (Spec => []StuckHasNothingNew)`.
- `BackupProofs!CountIsExact`: `OnceEach => (Spec => []MovedIsInFlight)`.
- `BackupProofs!KeepsPromise`: `OnceEach => (Spec => Implements)`.

They rest on `Inv` and on `VisitInv`, the account that a ticket gives of the conversation about its file:

- a file has one ticket or is still to be visited (`FileOnce`), and at most one packet about the file as a whole, not about a
  block of it, is on its way (`AskedOnce`);
- every packet on its way, unless it is the goodbye, is what the ticket of its file waits for in its status
  (`Talk`, `Accounts`): the request of the list that its summary leads to or its answer, a block of its cover or its
  ack, its list or the ack of it. So an answer finds its ticket, in the right status, and when no ticket is left nothing is on
  its way, which is `ByeIsLast`;
- `num_blocks_moved` is the number of the ticket's blocks that are on their way, and a sent block that is not stored is one of
  them (`TicketSound`). While a ticket still sends, its last block is new and not stored, or all of its blocks are old
  (the new blocks end a list); hence a count of zero means that the list is complete, or that there is nothing new;
- a ticket that has sent everything is still sending only in the fill that has just done it (`SentInFill`), and no list
  is empty (`ListsFull`), which with `next = 0` is what `wt_assert` asks for.

The refinement is proved step by step (`PromiseStep`): the end of the client is `Abandon`, a ticket that gets its cover
`Begin`, the ack of a list `Commit`, every other handler a stutter. At the commit `Inv` says that the stored list has every block
with its bytes, and `Accounts` that it is the list of this ticket, so that the new copy is the one that the ticket was sending.

For the Communicator, from `CommunicatorAssumption` alone, for any clients, programs, completion
actions and batch size:

- `CommunicatorProofs!TypesHold`: `Spec => []TypeOK`.
- `CommunicatorProofs!NothingIsLost`: `Spec => []NothingLost`.
- `CommunicatorProofs!JoinHasFlushed`: `Spec => []JoinFlushes`.

The invariant is `TypeOK /\ PhaseInv /\ NothingLost /\ MarkInv`. `NothingLost` needs `PhaseInv` (a batch is
taken with empty hands, so that it goes behind nothing). `JoinFlushes` needs `MarkInv`: since a client has
seen the queue empty, what had been pushed when it called `wait` has left the queue (`mark + Len(queue) <=
Len(pushed)`, which pushes and batches keep); at the join the worker has nothing in its hands, and by
`NothingLost` what has left the queue is then completed. The lemmas about sequences come first.

For the covering, from `CoveringAssumption` alone, for files and blocks of any length, any weak
checksum and any number of backups:

- `CoveringProofs!TypesHold`: `Spec => []TypeOK`.
- `CoveringProofs!KeptBlocksAreThere`: `Spec => []KeptIsThere`, with changes of the file at any time.
- `CoveringProofs!CoverLeavesOnlyTheEnd`: `Spec => []CoverReaches`.
- `CoveringProofs!ExtractionIsTrue`: `Spec => []ExtractTrue`.

All four rest on `Inv == TypeOK /\ DataInv`; `DataInv` says what a stored block holds: data of its whole length,
which is `strong` if the read was whole. `KeptIsThere` follows at `CoverHash`: a match is of the block's whole
length, hence the block is whole, hence its data is what the file holds. `CoverReaches` needs `CoverFar`, the
invariant of the loops: the first `soFar` positions are covered, or the last block was pushed back and
`soFar` is the length of the file. `ExtractTrue` needs `RestoreInv`: while a backup goes on and the file is steady it is what `sum` says, so that
every whole block of a cover holds the file's bytes at its place, and what has been installed so far is
the file's, or a stale block's that no new block has yet covered; new blocks come behind old ones in a list,
so they are installed over them. `ReadAtFacts` and `SubSeqProperties` say what a read returns.

For the scan and the table, from `HashAssumption` and `CoveringAssumption` (blocks are whole words, as `checksum.c:130` asserts, and
`Weak` is the low half of `WCsumGet`), for words, blocks and files of any length, any number of values of a byte and any modulus:

- `CoveringProofs!HashTyped`: `HashSpec => []HashTypeOK`.
- `CoveringProofs!ChecksumRolls`: `HashSpec => []SumsRoll`, with changes of the file at any turn.
- `CoveringProofs!FirstIsFound`: `HashSpec => []FindsFirst`.
- `CoveringProofs!ScanImplementsCovering`: `HashSpec => Implements`.
- `CoveringProofs!ScanIsTrue`: `HashSpec => [](KeptIsThere /\ CoverReaches /\ ExtractTrue)`.

`HashTypeOK`, and `TypeOK` of `Covering`, are proved and not checked by a run as well. All rest on `HashInv == Inv /\ HashTypeOK /\ SumsRoll /\ FirstInv`. `SumsRoll` is arithmetic: the checksum of a window moved on by
a word is the old one moved on by `WCsumUpdate` (`SumMovesOn`). Both sums are recursive functions, so that this is an induction over the words
(`Shifted` compares the sums of the two windows word by word, modulo `M16`); that the window moves on by just that word, across the
end of a buffer too, is `RolledFacts`. `FirstInv` carries `FindsFirst`: while a steady file is scanned, the table has entered exactly
the offsets behind the scan, each under the checksum of the bytes there and those of a bucket in the order of the passes
(`HasEntered`), and the buffers hold the file's bytes around the offset (`AtOffset`). By `SumsRoll` the checksum entered is then that of the block at the
offset; at the end of a pass no block of its remainder is left. The refinement maps every variable of `Covering` to itself. Each step of the scan is a
stutter, and `HashCover` is `CoverHash`: for a steady file by `FindsFirst`, for another since offsets where nothing
matches can be left out of what `hash_find` returns without changing the cover (`CoverMaps`).

For the tables, from `TablesAssumption` alone, for any files, lengths, preferences, starts and kills:

- `TablesProofs!TypesHold`: `Spec => []TypeOK`.
- `TablesProofs!OneFile`: `Spec => []OneFilePerId`.
- `TablesProofs!SummariesReach`: `Spec => []SummaryReaches`.
- `TablesProofs!PassedKept`: `Spec => PassedIsKept`, an action property.

The invariant is `Inv`: the cache and the file of a table agree (`Synced`, since `db_put` syncs); the counter on disk is never ahead of
the one in memory and is equal to it while the process is down (`Behind`); ids in use are at most the counter, and every
packet and summary has the id of its file (`NamesInv`, `PacketsInv`); every ack and summary names a record that
holds its object (`ArchiveInv`). The parts about ids are conditional on no kill having set a counter back, and
`Behind` is what makes a restart after an exit keep the condition. `PassedIsKept` needs only `Synced`, `Behind` and the types.

For the store of the rewrite, from `StoreAssumption` and `KeyAssumption` (no phrase is the absent key) alone, for any
processes, keys, contents and names, and any number of ids, texts and faults:

- `BlockStoreProofs!TypesHold`: `Spec => []TypeOK`.
- `BlockStoreProofs!OpensOnlyItsOwn`: `Spec => []Authentic`.
- `BlockStoreProofs!LoneReadsTrue`: `Spec => LoneReads`, an action property.

Two arguments carry them. A write that no other overlaps finds its file empty when it fills it, and a read that no write
overlaps finds the file as it was measured (`FileInv`); so the file holds what the last write that ran alone put there until the next
one comes or the machine stops (`KeepsLast`). And every chunk of what a file holds, of what it has held, of what is on its way there and of what
was read from there is of a text that was sealed for that file (`OwnInv`): a mixture of two writes, or what a stop of the machine
leaves of them, is made of texts of one id, and opens only if it begins with one of them, whole. The first argument carries `LoneReads`, the second `Authentic`.

That a closed file lasts is not claimed: while the machine runs this is what truncation does, and a stop of it may empty any file
(section 8).

For an extraction, from `ExtractAssumption` alone, for any files, lengths of lists, archives, command lines (files may be
named any number of times, and overlap), buffers and faults, with any key:

- `ExtractProofs!TypesHold`: `Spec => []TypeOK`.
- `ExtractProofs!NothingLeftBehind`: `Spec => []WaitsWithAll`.
- `ExtractProofs!KeepsPromise`: `Spec => Implements`.

All three rest on `ExtractProofs!Invariance`, `Spec => []ExtractInv`. `WaitsWithAll` is not inductive: nothing in it says what is
still on its way, nor why the requests are ever sent. The argument reads both pipes and the output buffer as one queue
(`Flight`), the oldest packet first, so that a request keeps its place when it is answered:

- in that queue the blocks of a file stand in rising order (`Rising`), and behind a block come all later ones up to the last
  one that its ticket has asked for (`Rest`). So when a block comes in, those of its file that have come in are exactly the
  earlier ones of the list; of these the good ones are saved (`SavedIsGood`, `GoodIsSaved`);
- only the first ticket of a file ever gets a list, since the search by file returns that one (`TicketRight`): the list that a
  later one asked for goes to it too, or ends in `wt_assert`. So all writes of a file go through one stream, and this holds at most the last of them, the disk all those
  before it (`Kept`), whenever `fwrite` or `exit` writes it through. That is `InTurn`: the refinement goes step by step, a
  flush that reaches the disk is `Further`, everything else a stutter;
- a ticket whose list is in the archive has the request or the list on its way, or a ticket of its file has the list
  (`ListComes`), and the output handler stays registered while a ticket has blocks to ask for, unless a failed write has left data in
  the buffer (`Wake`). With
  nothing on its way and nothing registered, every block has therefore been asked for and has come in: `WaitsWithAll`.

For `Sealing`, whatever the hash of keys, the compression and the cipher are, for any size of a byte, an IV and a key:

- `ExtractProofs!OpensWhenStreamsAgree`: if no other data compress to the same text, what one key seals opens with another just if
  the key stream of the first with the IV and that of the other with the IV as `strncpy` copies it agree, byte by byte.
- `ExtractProofs!SealedComesBack`: two runs whose random bytes agree up to the first NUL have one key, and with it
  data come back under every IV in which nothing but NULs follows a NUL.

So an archive of the same key opens, as `ExtractSession` assumes, but for some IVs; that the others do not open is a property of the cipher
and is not claimed. `do_crypt_test` expects that data always open (section 8). The proof says where `strlen` stops (`StrlenFacts`), that `strncpy` leaves just those IVs alone
(`StrncpySame`), and that subtracting what was added gives the text modulo the values of a byte (`DecryptFacts`).

For the connection, from `IosBufAssumption` and `WireAssumption` alone, for any scripts of packets, any base and width of
integers, any size of the pipe and the buffers, any cuts and any number of failed writes:

- `WireProofs!TypesHold`: `Spec => []TypeOK`.
- `WireProofs!BuffersFit`: `Spec => []Fits`.
- `WireProofs!KeepsPromise`: `Spec => Implements`.

They have two parts. `PacketRead`: `Decode(Encode(p))` is `p` as far as `Agree` asks. A text stands in another behind some bytes
(`At`), and what was written as a number, a string or a packet is read as that wherever it stands. For numbers this
is an induction over the bytes, from the fact that a set of natural numbers has a smallest element (`SmallestNumber` of
`SequenceLemmas`), by which also the recursive functions are shown to be what their definitions say.

`Inv`: the unread bytes of the input buffer, the pipe and the unread bytes of the output buffer are one text, `Stream`: the frames
of the packets that were sent and not yet dispatched, one behind the other, and nothing else (`Conveyed`). A packet is sent behind
the last frame (`SentIsConveyed`); a read or a write moves bytes within the text; so what `Dispatch` takes for a length is
one, the bytes behind it are the next packet (`NextFrame`, `TakesNext`), and without a whole packet it takes none. The refinement follows:
`SendPacket` is `Send`, or a stutter when output is ignored, `Dispatch` is `Deliver`, everything else a stutter. `Fits` needs only that
`ios_append` asks for enough when it counts the read bytes twice, and that no more is skipped than is there.

## 7. Only model-checked, and not modelled

Only checked: `ViewShows` (what a parser makes of a few cases) and the liveness properties `RunEnds`, `BackupCommits`, `WaitReturns`, `Delivered` and `Extracts` (liveness under fairness is out of the
prover's reach).

Not modelled:

- The greeting and the creation of an archive beyond the fields of their packets: what is written cannot run (section 8).
- In a backup: an empty archive list preference (`archive.c:77-83`), directories and links (which are only reported), a disk that fails.
- Two clients on one set of tables, and the wrap of a 32-bit index or of the 32-bit size of a buffer.
- In an extraction: a seek or a write that fails, which prints a warning. The offsets of its writes are in `Covering`.
- `Covering` keeps offsets below 2^32 and lengths below 2^16.
- Of the Communicator, the mode without threads and `pop`, which nothing calls.
- `RootBlock`, which inherits pure virtual functions and cannot be instantiated; `act.h`, whose actions no file defines; the
  stubs `filesystem.cpp` and `db.cpp`.
- Option parsing (but for `cryptar-db`), logging, the dialogue of `--create`, the fork of the remote command, the files
  inherited from rsync and those that nothing calls (`fileio.c`, `cryptar.c`, `cleanup.c`, `key.c`).

## 8. Disagreements between the code and what it says

Three are shown by runs:

- `cover_whole`: where the last block of a file longer than a block is short, `covering.c:177-180` moves its
  beginning back "to make it full length" but leaves its length short, so that it ends before the end of the file. The
  last bytes are in no block. `covering.c:123-124` says that the holes are filled. By
  `CoverLeavesOnlyTheEnd` nothing else is ever missed.
- `silent_default`: `open_if_changed` asks for a preference that nothing stores whenever a file looks unchanged, and the
  "silent default" of `prefs.c:186-197` is ignored: the assertion in `ios_read_int32` aborts the client.
- `restores`: a build without CLEARTEXT draws its key anew in each run (`encryption.c:146`) and keeps it nowhere; an extraction ends in
  `do_decompress` with the first answer that has data. `doc/usage.txt:92-95` shows how files are restored.

The following were met while modelling; the modules have the behaviour, and no run is kept for them.

In a backup (`BackupSession`, `Covering`):

- An empty file, or a change that only removes or moves blocks, leaves a ticket in `wt_AwaitingBlockConfirms` with no ack to
  come, although `workticket.h:58-61` says it is then done. The client never says goodbye.
- With more than 21 files to save the scan waits at `archive.c:135` for the input handler inside which it runs.
- The assertion of `workticket.c:447` looks at `next_block_to_queue` before `start_archive` resets it. It fails
  when a file is visited twice: its second block list goes to the first ticket, found by file id, which may have
  sent its blocks. (Acks go the same way, so that the second ticket is never done.)
- Old blocks that are no longer in the file stay in the list, whose stored form does not have `in_new_cover`, and an
  extraction installs them; `block.h:44-46` says that this field tells which blocks are part of the new file. By `ExtractionIsTrue` they
  do harm only where no whole new block lies.
- `covering.c:160-167` fills the hole before an old block with blocks of full length, also if that old block is stale
  and lies beyond the end of the file. What is read is then shorter than what is sent, and `install_block`
  rejects the block as an imposter.
- The hash compares the low half of the weak checksum only, and of each word only the low two bytes enter it; a
  block length that is no multiple of 4 aborts at `checksum.c:130`, and `do_create` does not ask for one.

In the tables (`Tables`, `TableViewer`):

- Counters are not synced: after a kill or a failed assertion two files may share an id, and a record of the server be overwritten. What
  was given out before the last clean end, or before a preference was stored, is safe (`PassedIsKept`).
- An object of 65536 bytes or more is cut to its length modulo 65536 when it is fetched.
- A block is recorded with 7 bytes and read with 35, so that `cryptar-db -d b -a s` aborts on any block table that is not
  empty; `db_block_fetch` reads its buffer after freeing it (`block.c:81-84`); the constants and keys have no fetch or display function.
- An option that selects a table of the server sticks: `-da -df` looks for file names in the server's directory. A missing id aborts.

In an extraction (`ExtractSession`, `Sealing`):

- `num_blocks_moved` is decremented for every block received and incremented for none, so that no ticket is removed and the
  client never ends by itself. The last block of each ticket may be in its stream until then.
- All tickets write into one file `the-recovered-file`, which each new ticket empties.
- Arguments that match a file twice abort the client (`wt_assert`), and so does a block list that is too short.
- `decrypt` copies the IV with `strncpy` (`encryption.c:302`): a block whose random IV has a NUL with another byte behind it does not
  come back, about 6 % of them. `do_crypt_test` (`compress.c:128-148`) expects that what it seals always comes back and warns
  otherwise; with such an IV `do_decompress` ends the process before it can. `SealedComesBack` (section 6) has the condition.

In the greeting: `start_remote_and_run` reads a preference before any table is open (`main.c:87`); `db_open_server_dbs`
reads the table of constants, which it has not opened (`db_misc.c:296-303`); no archive id is ever stored on the client before it is
read; `receive_hello_ack` skips the archive id that `send_hello_ack` writes; the answer to a ping goes out only if the output handler
runs in the same iteration (`protocol.c:594-596`).

In the rewrite (`BlockStore`):

- The data of a short text is written when the stream closes, after the test for an error (`transport.cpp:151`, `config.cpp:234-235`):
  a full disk is not noticed.
- Nothing is synced (`transport.cpp:149-153`, `config.cpp:232-238`), and a file is truncated before it is written: a stop of the machine may empty
  a file that was closed long before, and lose the old block or `Config` with the new one.
- A block made by id holds nothing until it is read, though `block.cpp:46-52` says that it is fetched; written first, it
  empties its file.
- `config.h:141-150` lists the transport and the root key among what is persisted; `config.cpp:246-253` archives only the root id and the key
  of the phrase. `ACT_Base` is called a no-op (`block.h:95`) and throws; completion tokens are said to be deleted
  after they ran (`block.cpp:123`) and are not. `~Communicator` deletes a transport that a `shared_ptr` owns.
