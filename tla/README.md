# A TLA+ verification of joedb

joedb stores a database as a journal: a file to which operations are appended.
Everything else is built on that file: a checkpoint in its head says how much
of it is valid, several processes may append to it under file locks, and a
server replicates it to clients that hold copies of it. This directory holds
TLA+ models of these mechanisms, TLC configurations that check them on small
instances, and proofs checked by TLAPS. Paths are relative to the repository;
`joedb/` stands for `src/joedb/`.

## 1. Inventory

| Component | State | Operations | Hard part | What makes it correct |
|---|---|---|---|---|
| Journal checkpoints (`joedb/journal/Readonly_Journal`, `Writable_Journal`, `Journal_Construction_Lock`, `File_Lock`) | head of the file (4 slots, signature), checkpoint fields of each journal object, tail and head file locks | construct, recover, lock and pull, write, soft and hard checkpoint, unlock, destroy | processes interleave; a process or the machine stops between two writes | an acknowledged hard checkpoint survives; the body is never modified; readers see a growing prefix |
| Journal codec (`Writable_Journal`, `Readonly_Journal::one_step`) | current table, field and record on each side | one operation per kind of change, replay | context shared between writer and reader | replay is the inverse of writing |
| `File_Buffer`, `Buffer`, compact integers | buffer, index, position | read, write, seek, flush | switching between reading and writing; encoding at powers of two | reads return what was written |
| Files (`Posix_File`, `Windows_File`, `Memory_File`, ...) | descriptor, locks | pread, pwrite, sync, locks | what survives a power failure | - |
| `Encoded_File`, Brotli | block index (itself a joedb database) | pread, pwrite of blocks | overlapping blocks | reads return the last write |
| `Client`, `Writable_Client`, `Client_Lock` | connection checkpoint, journal | transaction, pull, push | exception between lock and unlock | a transaction is pushed once, in order |
| `Server` (`joedb/concurrency/Server`, `joedb/asio/Server`) | the lock of the server, its queue, waiting pulls, a push in progress per session, timers | handshake, hash, read, pull, lock, push, unlock | coroutines that interleave at each await, timers that race with requests, clients that vanish | one lock owner; a push is applied entirely or not at all; the journal only grows; waiters are woken up |
| `Server_Connection`, `Server_Client`, `Robust_Connection`, `Keep_Alive_Thread` | channel, server checkpoint | the client side of the same requests, reconnection | lost answers, retries, a second thread on the channel | the local copy is a prefix of the server's journal |
| `Server_File`, `File_Connection` | a file on the server, or a second file | pull, push | caches of a remote file | same as above |
| `filebuf` | get and put areas, two positions | get, put, seek, putback, sync | the areas share one array | same as `File_Buffer` |
| `Freedom_Keeper` | used and free records | use, free, ordered iteration | two linked lists in one array | every record is used or free |
| Interpreted database (`Database`, `Table`, `Field`), `Multiplexer`, `Selective_Writable` | schema, records | schema and data operations | forwarding, dropped tables and fields | same state from the same journal |
| Tools (`joedb/ui`: interpreter, dump, pack, SQL, JSON, `joedb_push`) | - | read a journal or a database, write text or another journal | identifiers that differ from the ones of the source | the output says the same as the database |
| Compiled databases and clients (`joedb/compiler/generator`) | records, indexes, journal, version of the schema | rows, fields, vectors, upgrade, transactions | exceptions in the middle of an update; programs of different versions on one file | memory, file and replicas agree |
| RPC (`joedb/rpc`) | one call per channel | call, exception | - | - |
| ssh, websocket, loggers, text of the compiler and of the user interface | - | wrappers, text | - | - |

How they interact: a `Writable_Journal` calls its `File_Buffer` and file; a
`Client` owns a journal and calls a `Connection`; a `Server` owns a `Client`
(its journal, and the file lock through `Client_Lock`) and runs one coroutine
per session; a `Server_Connection` sends requests to it over a `Channel`, which
a keep-alive thread shares.

The list `components` of `PROJECT.json` names all parts, the ones that are not
modelled too, and `hazards` the places where the code can go wrong in a way
that a test would hardly reach.

## 2. Plan

Done:

1. `Journal`, `SharedLog`, with `JournalProofs`: checkpoints, sharing,
   failures.
2. `Server`, with `ServerProofs`: the server with arbitrary clients.
3. `Replication`, with `ReplicationProofs` and `ReplicationHistoryProofs`: the
   clients of a server, over channels that break.
4. `FreedomKeeper`, `InterpretedDatabase`, `JournalCodec`, `Writables`,
   `DataPipeline`, with `FreedomKeeperProofs` and `DataPipelineProofs`: what is in
   a journal, who reads it and how.
5. `GeneratedDatabase`, `GeneratedClients`, with `GeneratedProofs`: the code that
   `joedbc` generates.
6. `FileLayers`, with `FileLayersProofs`: the buffers and files under a journal
   or a stream.

Which module uses which: `JournalCodec` EXTENDS `InterpretedDatabase`, which
EXTENDS `FreedomKeeper`; `Writables` adds the tools, and `DataPipeline` composes
clients and tools on one file. `GeneratedDatabase` EXTENDS the interpreted
database, with which `GeneratedClients` compares it. `Journal` and `Server`
instantiate `SharedLog`. `Replication` takes of `Server` what a client can
observe. A module of proofs EXTENDS the module it is about;
`DataPipelineProofs` and `GeneratedProofs` also EXTEND `FreedomKeeperProofs`, and
`ReplicationHistoryProofs` EXTENDS `ReplicationProofs`.

Left:

7. Proofs: the tools of `DataPipeline` (`TextRoundTrip`, `CopiesFaithful`,
   `ExportsFaithful`), and the interpreted database against the compiled one
   (`EveryReaderAgrees`).
8. Failing writes as a fault of `Journal`, the thread of `Keep_Alive_Thread`,
   chained servers.

## 3. Modules

### Journal

One file, a set `Writer` of processes that open it with a `Writable_Journal`
and a set `Reader` that open it with a `Readonly_Journal`.

* The file is `size`, `slot` (the four checkpoint positions of the head),
  `sig` and `body`. A positive value stored twice in a pair is a hard
  checkpoint; a negative one is a soft checkpoint. One unit of the body
  holds one letter of `Value`, the mark of a transaction.
* `dsize`, `dhead` and `dbody` are what a power failure may leave of it. A write
  adds a possibility; `Sync` removes all but the current one. The head is 41
  bytes in one sector and is assumed to be written atomically: a power failure
  leaves the head of some moment since the last sync. Units of the body are
  independent of each other. (Were single slots torn apart, a hard checkpoint
  could be lost: crash between the second copy and the last datasync, reopen,
  soft checkpoint, power failure.)
* `tail` and `head` are the owners of the two exclusive file locks. A reader
  has the shared head lock while it is `opening` or `pulling`: `HeadFree` and
  `HeadShareable` say when the kernel can grant the lock.
* `jr[p]` holds `hard_index`, `soft_index`, `checkpoint_position` and
  `hard_checkpoint_position` of the journal object of `p`; `fpos`, `pos` and
  `val` are its file buffer: the units `fpos..pos-1` are not in the file yet.
* `ack` is the last position for which `hard_checkpoint_at` returned.

`LockTail` is the first half of `Journal_Construction_Lock`: the writer has the
tail, which an exclusive file takes when it is opened, and waits for the head.
`CreateJournal`, `OpenWriter` and `OpenFails` are the constructor once both
locks are there (`ConstructionLocked`), `FixSlot` and `FixSync` its
loop over invalid soft checkpoints. `LockHead`, then `OpenReader` or
`OpenReaderFails`, is the constructor of a reader, `StartPull` and `Pull` its
`pull`: the head lock is kept from the first to the second, and writers that
want it wait. An open that fails at `LockTail` (an exclusive file that is
locked already) has no action: it changes nothing; `Lock` is `Tail_Exclusive_Lock` with the
pull and the skip to the checkpoint; `Write` and `Flush` stand for all journal
operations; `SoftCheckpoint` and `SoftWrite` are `soft_checkpoint_at` before
and after it waits for the head lock; `HardCheckpoint` to `HardDatasync` are
the steps of `hard_checkpoint_at`; `Unlock` ends the transaction. `CloseWriter`
includes the destructor of `File_Buffer`. `Crash` kills a process,
`PowerFailure` the machine.

`SharedLog` is the abstract specification: a log that grows by whole
transactions, and readers that observe its length.

### Server

A set of `Session`s of one server. The server has one thread: a coroutine runs
from one `co_await` to the next without interruption. The variable `run` names
the session that is between two awaits; all other handlers need `run = None`.
That keeps the parts of a handler (`Pull`, then `LockNow`, then `PullTail`, ...)
separate actions without adding interleavings that the code does not have.

* `body` and `published` are the file and its last checkpoint; `checkpoint`,
  `hard` and `bufpos` are the journal object of the server. Other processes
  append to a shared file (`ExternalAppend`) while the server does not hold
  the file lock (`client_lock`).
* `locked`, `lock_waiters`, `pull_waiters`, `locking`, `push_writer` and
  `push_status` are the members of the same name. `woken` is the set of
  sessions whose `timer` has expired or was cancelled, and that have not been
  resumed yet.
* `lock_timer` is `lock_timeout_timer`; `due` is the set of its handlers that
  are queued. A queued handler runs even if the timer is cancelled, restarted,
  or its session ends.
* `got[s]` is a history variable: the data that the client sent in this push.

The client is arbitrary: any request with any position, any data, silence or
disconnection at any moment. A session that waits for the lock or for a push
does not notice that its client is gone. The server may be killed and
restarted at any moment (`Restart`).

### Replication

Clients of one server, each through a `Robust_Connection`. A journal is the
sequence of its transactions. `clients[c]` holds where the client is, the call
it executes, the state of its channel and the three checkpoints that the code
keeps (`server_checkpoint`, `connection_checkpoint`, the one of the journal);
`sessions` holds what the server knows of each connection, the old ones
included, with the request and the answer that are under way; `files` and
`tails` are the local files and their tail locks; `slog` and `holder` the
journal and the lock of the server. `acked` and `lost` are history variables.

`Send` writes the request of a call, the `Server...` actions execute it, and
`CheckDone`, `PullDone`, `PushDone` and `UnlockDone` are what the client does
with the answer. `Break` is a channel that breaks at any moment, `Notice` the
moment a side sees it, `Reconnect` the loop of `Robust_Connection::reconnect`
with its checks, after which the call is sent again. A reconnection that is
refused makes the call throw, and nothing more: `reconnect` has already installed
the new connection (`joedb/concurrency/Robust_Connection.cpp:28`), so that the client
is idle and connected, and its next call goes on with it. `KeepAlive` and `KeptAlive`
are a ping. `Restart` restarts the server, which may lose transactions
(`PowerLoss`). A client writes to a file of its own, to one that it shares, to
a `Server_File`, or only pushes what another program appends.

A client may diverge from its server in three ways, and `unchecked`, a history
variable that no action reads, marks the clients to which one of them happened:

* its reconnection was refused ("server checkpoint rolled back", or a content
  mismatch) and it went on: its next transaction compares an empty range, pulls
  nothing and is accepted, on a history that is not the one of the server;
* `get_tail_lock` compares what another client of the same file has pulled only
  from `connection_checkpoint` on;
* a pull that is retried after the server lost data starts from a
  checkpoint that was compared with the journal of the earlier server.

Such a client forks, in the model as in the code. The statements about histories are
for the other clients (`Trusted`), which share a server, and maybe a file, with it.
`PushedOnce`, `AckedStays`, `AnswersMatch` and `CallsReturn` are for all. In the same
situation a `Server_File`, which compares nothing, has a tail that starts before the
checkpoint of its journal: what it writes then leaves zeros in between
(`Hole`), and it pushes its whole tail or throws.

A pull-only server has an empty journal here: nobody writes to it. `lock_pull` by a
session that has the lock already ends the session (`ServerRelock`).

### Data: FreedomKeeper, InterpretedDatabase, JournalCodec, Writables, DataPipeline

An operation of the `Writable` interface is a record. `FreedomKeeper` has both
keepers, down to the links of the lists. `InterpretedDatabase` gives each
operation its precondition (`Accepts...`: what the code checks before its first
assignment) and its effect (`Applied...`). `JournalCodec` encodes an operation
against a context, as `Writable_Journal` does, and decodes it, as `one_step`
does. `Writables` has the tools: text and its interpretation, dump, pack, SQL
and JSON. In `DataPipeline`, clients take turns with transactions on one file,
and the tools read the file after every checkpoint. A `Writable_Database_Client`
multiplexes each operation to its database and to its journal, and replays
what the others wrote; a `Writable_Journal_Client` skips it. `IsCall` is what the
types of C++ guarantee of a call; a file to start with is what accepted calls
have written (`IsScript`).

### Compiled code: GeneratedDatabase, GeneratedClients

The sources are C++ programs that print C++; a definition of `GeneratedDatabase`
is one printed function, for every table, field and index at once. Functions
that throw in the middle leave behind what they did before (`ok = FALSE`): that
is what the properties are about. `GeneratedClients` has programs compiled for
different versions of a schema: they open a file, upgrade it, pull, run
transactions with inserts, updates, vectors, deletions and clears, abort, and
are refused when the file is newer than they are.

An index is a set of entries `<<key, record>>`, and an iterator one of them.
`remove_index_of` and `add_index_of` are called for the records of a vector in
turn, index after index: `Others`, `Taken`, `Added` and `Reached` say what these
loops leave, as sets, up to the first duplicate, which stops all of them;
`Reindexed` puts them together. The loops over the calls of a journal
(`Replayed`), of an upgrade (`UpgradedInTurn`) and of a function of the user
(`InTurn`) are recursive functions over their number.

### FileLayers

`setup` chooses a user and a file. The user is a journal (`File_Buffer`,
and the head directly), a stream (`filebuf`), or a reader of a file that another
process writes; the file is a `Memory_File`, an `Encoded_File` (its blobs, its
write buffer) or a `Server_File` (head and tail in memory, body on the server).
`expected` is what a file without any of these layers would hold, and `seen`
compares each read with it. Positions, sizes of buffers and lengths are small,
so that every limit falls inside of some operation; integers are encoded with
four-bit bytes (`Payload = 2`), which keeps all eight lengths within the
integers of TLC.

## 4. Model checking

Run `tlc -workers 2 -config X.cfg M`.

| Run | Checks | Bounds |
|---|---|---|
| `JournalDurability.cfg` | `TypeOK`, `HardCheckpointSurvives`, `WriterCheckpointWithinFile`, `HardBodyImmutable`, with crashes and power failures | 2 writers, body of 2 units, shared and exclusive mode |
| `JournalSharing.cfg` | `CheckpointWithinFile`, `RefinesSharedLog`, `CallsReturn`, `PublishedIsSeen`, without failures | 2 writers, 1 reader, 2 letters, body of 2 units, shared mode; the head lock is contended by both writers, in constructors and checkpoints, and by the reader |
| `ServerSafety.cfg` | `TypeOK`, `QueueInv`, `LockDiscipline`, `PullersInformed`, `PushOwnsTail`, `SendsJournal`, `PushAllOrNothing`, `ServesGrowingLog`, `LockGranted` | 2 sessions, 2 units, one of them there at the start, 3 requests, file shared or not (`SharedModes`) |
| `Replication.cfg` | `LinearHistory` (no history forks, but those of clients that went on after a refusal), `WriterUpToDate`, `PushedOnce`, `AckedStays`, `AnswersMatch` | 2 clients in 5 setups, 2 transactions, 2 connections per client, 1 failure |
| `ReplicationLiveness.cfg` | `CallsReturn` | 2 setups, 1 transaction, 2 connections per client, 1 failure |
| `DataPipeline.cfg` | `ReadersSeeWhatWasWritten`, `ReplicasAgree`, `KeepersSound`, `TextRoundTrip`, `CopiesFaithful` (pack and dump), `ExportsFaithful` (SQL and JSON) | 2 clients, 2 tables, 2 fields, 3 records, 2 operations after one of 3 scripts |
| `Generated.cfg` | `IndexesSound`, `FileReadable`, `ReplicasAgree`, `SchemaGuard`, `EveryReaderAgrees`, `UpgradeFillsNewFields` | 2 versions, 2 writers, 1 reader, 3 records, 2 operations, an empty and a filled file |
| `FileLayers.cfg` | `NoOverrun`, `ReadsSeeWrites`, `OrderKept`, `CloseKeepsAll`, `CopyFaithful` | 5 setups, 3 writes, file of 7 bytes, buffers of 2 and 3 bytes |

`Journal` and `Server` have a type invariant `TypeOK`. `Replication` and `FileLayers`
keep theirs with the proofs, as a part of the inductive invariant. In the data
modules the shape of the data (columns of the size of their table,
iterators of the records in use) is part of `KeepersSound` and `IndexesSound`.

Why these bounds: two writers are enough for one to have a stale view of what
the other did; a body of two units lets two transactions follow each other and
lets a checkpoint lie strictly between the header and the end of the file;
all four slots are used after three checkpoints. Two sessions and three
requests are enough for a lock, a conflicting lock or push, and a push after a
timeout. With two connections per client and one failure, each call meets a
lost request, a lost answer and a restart, with the old session still holding
the lock. The scripts of the data runs build a dense table, a table with
holes and a reference, and a file with a unique index, so that two further
operations reach every short form, both freedom keepers, and an update that
fails and is repaired. The bounds in guards are the constants whose names begin
with `Max`.

Fairness. In `Journal`, a writer inside a library call continues, with strong
fairness (`SF(Progress)`): it waits for the head lock, which readers take and
release again and again, and the kernel grants a lock to a process that waits
for it if it is free again and again. (Several readers whose shared locks always
overlap could keep a writer out for ever: the run has one reader, and the
property says nothing of that case.) A reader polls and releases the head lock
(`WF(StartPull)`, `WF(ReadHead)`); nobody has to open the file or
to start or end a transaction. In `Server`, the thread of the server continues
and timers expire; clients may do nothing forever. A holder of the lock
restarts its timer by each chunk of data; since requests are bounded, every
behaviour has finitely many restarts and weak fairness of the timer is what the
clock gives. A client that sends requests forever (the keep-alive thread does)
can keep the lock forever: that is the documented meaning of the timeout.
In `Replication`, running processes take their steps, a broken channel is
noticed (TCP and the keep-alive pings), a transaction ends, and the lock of the
server is given in the order of the requests, which is `LockGranted`, so that a
lock request is treated with strong fairness. A follower, which keeps the
lock between its calls, is closed some day, or nobody else would ever get it.
`CallsReturn` has an exception for a client that has lost its last connection
(`link = MaxLinks` and not `up`), a bound of the model: a call that is retried on the
last connection must return, also when it waits there for the lock that its own old
session still has.
Deadlock is checked in the `Server` runs only: in the others all processes may
simply stay idle, or reach the bound on their operations.

### What the code does differently from what is written

Four configurations show a disagreement; `findings` in `PROJECT.json` quotes the
lines.

* `JournalAbort.cfg`: the buffer of an aborted transaction is written by
  `~File_Buffer` after the lock is gone, over a published transaction.
* `ServerHardRollback.cfg`: with the option `hard_checkpoint`, the server
  checkpoints the position where a push started: the push is removed from
  the journal although its client is told that it succeeded.
* `DataPipelineSkip.cfg`: a journal client that shares its file encodes an update
  against the context of its own last operation; readers apply it to the last
  record of another client. A journal client that is alone on its file, as in
  the server, is not affected.
* `GeneratedUnique.cfg`: an update that violates a unique index frees the old key
  in memory but not in the file. If another record takes that key before
  the failed update is repaired, no program can replay the file. `Generated.cfg`
  shows that repairing first (`FixFirst`) is enough.

One more concerns the documentation. `src/doc/source/indexes.rst:61` says that a
multi-column index is updated when its last column is modified, and lines 36-37
that an entry is created at the first update of the last field. In the code
(`is_trigger`, `joedb/compiler/Compiler_Options.h:24-43`) any column of a non-unique index
triggers the update, and for a unique index it is the field with the greatest
identifier, which is not the last column if the index names its columns in another
order. `IsTrigger` is the code, `IndexesSound` states what the code does, and
`Generated.cfg` has the non-unique index `<<2, 1>>`, where the two disagree: an update
of column 2 moves the entry, although 1 is the last column.

Another one concerns the reconnection. `Robust_Connection.cpp:28` installs the new
connection before the tests of lines 34-37 refuse it, and nothing stops the client
from using it: as section 3 explains, it can fork silently at its next transaction.

Two more are visible in `Journal`, by changing the constants of
`JournalAbort.cfg`: with `Faults = {"crash"}` and hard checkpoints, a process killed
in the middle of a hard checkpoint takes the last soft checkpoint with it, and
the body that readers have seen is overwritten (`BodyImmutable`); with `Faults =
{"power"}` and a reader, a pull accepts a soft checkpoint beyond the end of the
file, which the constructor refuses (`CheckpointWithinFile`).

Limits of the statements: `CopiesFaithful` excludes, for dump, databases in which a field
references a dropped table, whose dump cannot be executed; `ExportsFaithful` allows
NULL for a cell; `EveryReaderAgrees` allows a cell that the compiled database
cleared with its record and the interpreted one did not; a `Server_File` is not
held to `LinearHistory` once the server has lost transactions, since it never
compares contents, nor is a client that is `unchecked` (section 3). A value that
`insert_into` refuses after it has written the record is in no run: the values of the
text commands are accepted, so that `TextRoundTrip` and `ReplicasAgree` do not speak of it.
`OrderKept` looks at an `Encoded_File` between two calls: the blobs of one `pwrite` are
one step, although the code writes and checkpoints one after the other
(`joedb/journal/Encoded_File.cpp:66-76`); a crash between two of them is not explored. The
tools of `DataPipeline` read files that the database accepts; on another file
`joedb_logdump --load`, which gives each operation to the dump first, would print one
operation more before it stops, and `joedb_logdump` without a database all of them. No
property says what a soft checkpoint is worth after a process was killed in the middle
of a hard one, which takes its slot (see above).

`Recovery::ignore_header` is a repair tool that gives up the guarantees of the
head; the durability properties are stated for scenarios without it
(constant `Recoveries`), and so are the theorems.

## 5. Proofs

Eight modules hold theorems; each is about the specification that TLC runs, with
the constants left free. `theorems` in `PROJECT.json` lists the results, and which
property of a run each one states. The induction over data that they need (the
length of a list, the number of calls) is by the least element of a set of
naturals, which the theorems about well-founded relations give.

### Journal (`JournalProofs`)

For every set of writers and readers and every file length:

| Theorem | States | Assumes |
|---|---|---|
| `TypeCorrect` | `[]TypeOK` | |
| `HardDurable` | `[]HardCheckpointSurvives` | nobody uses `ignore_header` |
| `WritersWithinFile` | `[]WriterCheckpointWithinFile` | the same |
| `HardBodyKept` | `HardBodyImmutable` | the same, no aborted transaction |
| `SharingRefinesLog` | `RefinesSharedLog` | the same, no fault |
| `ProcessesWithinFile` | `[]CheckpointWithinFile` | the same, no fault |
| `ReadersUndisturbed` | `BodyImmutable` | the same, no fault |

The inductive invariant of the first three is `HardInv`. `HardCheckpointSurvives`
speaks of the current head only; it is not inductive, because a power failure
replaces the head by any member of `dhead`, and because a writer overwrites slots
according to what it remembers. So `HardInv` says that *every* head that
a power failure may leave has a pair at or after `ack` (`HeadOK`), that a soft
checkpoint is never in the pair of the only hard checkpoint, that no second
copy exceeds what was synced, and, for the writer that holds the tail lock,
which pair it is about to overwrite at each step of `hard_checkpoint_at`
(`HolderInv`). Lemma `InvSurvives` derives the property from it; `HardInvNext`
has one step per action.

`HardBodyKept` adds `BodyInv`: what precedes `ack` is durable in one version only
(`DurableInv`), so that a power failure cannot change it, and the buffer of a
writer holds nothing below the checkpoint it knows (`BufferInv`), so that no
flush can. An aborted transaction breaks `BufferInv`, and the property:
`JournalAbort.cfg`.

The refinement maps a file to the log of the units below `Published`, the
checkpoint that a process which opens the file now would find. `LogInv` is what
makes a step of the code a step of the log: all slots are below the end of the
log, and the log within the file (`SlotInv`); no process knows more than what is
published, except the one that is publishing (`KnownInv`); the holder of the
tail lock knows where the log ends (`TailInv`), so that a checkpoint never
moves it back. `HeadLockInv` excludes that a constructor fixes a head
while a hard checkpoint is under way. The three theorems need `Faults = {}`, and
none of the faults can be admitted: section 4 gives the scenarios that break
them.

Assumptions on constants: `SizeAssumption`, `ProcessAssumption` and
`ScenarioAssumption` of `Journal`.

### Server (`ServerProofs`)

For every set of sessions, every length of the journal, every number of
requests and restarts, with and without a lock timeout, for a shared file and
for an exclusive one:

* `TypeCorrect`, `QueueSafe`, `LockSafe`, `PushTail`: `TypeOK`, `QueueInv`,
  `LockDiscipline` and `PushOwnsTail` are invariants;
* `PullersWoken`: so is `PullersInformed`;
* `PushAtomic`, `GrowingLog`, `SentIsJournal`: `PushAllOrNothing`,
  `ServesGrowingLog` and `[]SendsJournal`, if `UseHard = FALSE`. They fail with hard
  checkpoints, as `ServerHardRollback.cfg` shows.

The inductive invariant is `TypeOK /\ ServerInv`. None of its parts is inductive
alone. `TypeOK` needs `PushOwnsTail` and `PushInv`: they bound the position of
a push writer by the end that its client announced. `QueueInv` needs
`LockDiscipline`: the session that resumes is the one at the front, which
`pop_front` removes. `LockDiscipline` needs `QueueInv` and `WaitInv`: what
`unlock` wakes up, and what a push wakes up, are sessions that wait for the
lock and sessions that do not. `PushOwnsTail` needs `LockDiscipline` (two pushes
cannot be written at the same time), `PushInv` (no writer survives the end of
a push or a timeout) and `FileInv` (whoever has the lock of the server has the
one of the file, except inside the handler of a push that has just released
both), and `FileInv` needs `RunInv` to exclude that another session runs inside
that handler. There is one lemma per part (`RunNext` to `TailNext`) with one
step per action. `PushAtomic` follows from `PushInv` and `PushOwnsTail` at
`PushEnd`; `GrowingLog` and `SentIsJournal` from `JournalGrows`, which says that no
step moves the checkpoint back or writes below it.

`PullersWoken` needs `PullersInv`: a session that waits for data is in `pull_waiters`,
and what it waits for is not there yet, unless the session that has just
pushed is the running one, at `pushdone`, from where it wakes up all waiters
before anybody else runs (`RunInv`). The property is about exclusive files only,
as in the code: nobody tells the server what others append.

Assumptions on constants: `NoneAssumption`, `BoundAssumption`, `StartAssumption`
and `FlagAssumption` of `Server`.

### Replication (`ReplicationProofs`, `ReplicationHistoryProofs`)

For every set of clients, every assignment of files, kinds and keep-alive
threads to them, every number of transactions, connections and failures, with
and without a server that loses transactions:

* `TypeCorrect` and `AnswersMatchCalls`. The invariant is `BasicInv /\ ChannelInv`: a
  channel holds one message at most, it is the request of the call that the
  client has sent, or a ping, or the answer to it. `AnswersMatch` alone is not
  inductive: it speaks of answers, and an answer is made from a request.
* `AcknowledgedStays`: `AckedStays`, by `AckInv`: from the moment the server answers
  a push until the client reads the answer, the data is in the journal or lost.
* `NoDuplicate`: `PushedOnce`, by `PlaceInv`: there is one function that gives each
  transaction its position, in the journal, in all files, in the
  requests and in the calls that will be retried. Transactions at
  their positions cannot be twice in one sequence. A retried push is harmless
  because it carries its position: the server accepts it at the end of its
  journal only.
* `HistoryIsLinear`: `LinearHistory`, by `PullInv /\ HistoryInv`. For each client
  whose content was compared (`Trusted`), file and journal agree below what it
  has compared or received (`Reached`), and after an answer that it has not
  read yet, below what the answer announces (`Confirmed`). `CallShape` says that
  a push and a check carry the content of the file from `connection_checkpoint`
  on; it is what makes an answer to a retried call mean something.
* `WriterHasJournal`: `WriterUpToDate`, by `WriterInv`, which follows the lock from
  the answer of `lock_pull` to the push: while the session has the lock, nobody
  else moves the end of the journal, and the only request that this session may
  have under way is a ping.

Assumptions on constants: `NoneAssumption`, `BoundAssumption` and
`SetupAssumption` of `Replication`.

### Data (`FreedomKeeperProofs`, `DataPipelineProofs`)

`FreedomKeeperProofs` proves, for every number of records, that the operations
of `Freedom_Keeper.h` use, or free, exactly the records that they are
asked to, and keep the invariant `KeeperInv` (`UseVectorKeeps`, `FreeVectorKeeps`,
`GetFreeRecordIsFree`), and that this invariant says what `KeeperIsSound`, the
definition that TLC evaluates, says (`KeepersAreSound`). `KeeperIsSound` walks
along the links; `KeeperInv` names the walk: it has two tours, of the used and of
the free records, which share no place and together visit all of them. An
operation takes a place out of one tour and puts it at the end of the other.

`DataPipelineProofs` proves, for every set of clients, every schema, script,
number of tables, fields, records and calls:

* `AppliedInv`: a call that passes the checks of the database keeps `DBInv` (sound
  keepers, columns of the size of their table). The checks of `Database.cpp` are
  enough: no call that they let through is out of the bounds of a vector.
* `KeepersStaySound`: `[]KeepersSound`, from it.
* `ReadBackAll`: what the journal encodes for any list of accepted calls is read
  back from the same context as the same calls. The induction is on the
  number of calls; `ReadBack` is the step, one case per kind of operation and
  per short form. It needs `DBInv`: the short form of `insert` is chosen from the
  freedom keeper on one side, and decoded with the one on the other.
* `FileIsReadable`, `ReplicasStayEqual`: `[]ReadersSeeWhatWasWritten` and
  `[]ReplicasAgree`, if `JournalClients = {}`. The invariant is `PipeInv`: the reader
  of the committed operations has the database that was meant; a client that
  is late becomes that reader by replaying what it has not read (`LateInv`); the
  one that writes becomes it by replaying its own transaction (`WriterInv`).
  Equality of databases alone is not inductive: the *contexts* must be equal,
  since the next operation is encoded against them. A journal client that skips
  what it did not read has another context, and breaks both, as
  `DataPipelineSkip.cfg` shows.

Assumptions on constants: `ClientAssumption`, `BoundAssumption` and
`ScriptAssumption` of `DataPipeline`: a file to start with is what calls that were
all accepted have written.

### File layers (`FileLayersProofs`)

For every size of the buffers, of the blobs, of the head and of the reads and
writes, every base of the compact integers, and every number of calls:

* `ReferencesRoundTrip`: `compact_read` gives back what `compact_write` wrote, and
  takes as many bytes, for every integer that fits;
* `LayersHold`: `[]LayersInv`, the inductive invariant;
* `BuffersNeverOverrun`, `WhatIsReadWasWritten`, `BlobsKeepTheOrder`,
  `ClosedFilesAreWhole` and `CopiesAreWhole`: `[]NoOverrun`, `[]ReadsSeeWrites`,
  `[]OrderKept`, `[]CloseKeepsAll` and `[]CopyFaithful`, from it.

`ReadsSeeWrites` says nothing of the state between two reads, so the invariant
says what a read would give. There is a sequence of bytes `c` that the file
holds (`Holds`), and `expected` is `c` with what is in the buffer of the user
written over it (`Buffered`); while the user reads, the buffer is instead a part of
what the file shows (`Fetching`). The argument has two floors, as the code has.
The lower one is about a file of any kind that holds `c`: a `pread` gives a part of
`c` that is not empty unless nothing is left, a `full_pread` all that is
asked for, a `pwrite` makes it hold the patched sequence. For an `Encoded_File`,
`c` is what its blobs give with the write buffer over them, and what the blobs
give alone is one of the `images` that the file has had; this is where the order
of the blobs matters. For a `Server_File`, `c` is the head in memory, the
part on the server and the tail in memory, put together. The upper floor is `File_Buffer`
and `filebuf`, over whatever holds a sequence (`BufferInv`, `StreamInv`).
`NoOverrun` needs that after each operation the index is below the size at
which `check_write_buffer` flushes; `CloseKeepsAll` that the destructors run from the
buffer down. A reader of a file that another process writes stays at or below the
checkpoint that it pulled, where its buffer is empty (`Played`): without this,
it would keep bytes from before the write.

Assumptions on constants: `SizeAssumption`, `SetupAssumption` and
`IntegerAssumption` of `FileLayers` (the integers that are written fit in eight
bytes and in the extra bytes of the buffer).

### Compiled code (`GeneratedProofs`)

For every schema, every set of unique and non-unique indexes, single-row tables,
default values and custom functions that `joedbc` accepts, any number of
versions, of programs that write and that read, and journals, tables and
transactions of any length:

* `GeneratedInvHolds`: `[]GeneratedInv`, the inductive invariant, whatever the
  users do after an update that threw;
* `IndexesSoundHolds`: `[]IndexesSound`, from it;
* `ReplayInvHolds`, `FileReadableHolds`, `ReplicasAgreeHolds`: `[]ReplayInv`,
  `[]FileReadable` and `[]ReplicasAgree`, if `FixFirst`. Without it they are false:
  `GeneratedUnique.cfg`;
* `SchemaGuardHolds`: `[]SchemaGuard`, whatever the users do;
* `ReplayedSound`: any list of calls, whether a program accepts it or not, leaves the
  indexes of its reader sound until the call that throws;
* `UpgradeIs`: an automatic upgrade that does not throw leaves in memory what a
  replay of the calls that it has written gives.

`IndexesSound` is not inductive. It says nothing of the records that are not in
use, nor of what a key looks like while an update that threw is not repaired.
`IndexAt(g, v, i, bad)` does: the entries of an index are the iterators of the
records that are in it, each with its own record, the keys of a unique index
differ, and a key is the one of its record except for the cells in `bad`.
`IsStorage` says that columns and iterators have the size of their table and that the
keepers are sound (`FreedomKeeperProofs`). An operation (`Resized`, `InsertedRows`,
`DeletedRows`, `ReindexedRows`) keeps both; an update adds its cells to `bad` if it
throws and removes them if not, which is what `invalid` records.

`ReplicasAgree` compares a program that writes with one that plays its journal.
They do not make the same calls: an update that threw is not in the
journal, an insertion resizes at other moments, an upgrade writes all its
schema operations first. So `ReplayInv` says of the writer that it is `Mirrored` by
the replay of `log \o pending`: same records and lists of records, and
same cells and iterators but for the cells in `invalid` (`Agree`). An operation
keeps `Agree` on both sides (`AgreeAfter`), and one that the writer accepts is
accepted by the reader: this is where `FixFirst` is needed, since the entry that an
update has removed from the index of the writer is still in the one of
the reader, and would be a duplicate there. When nothing is invalid, equal records and
iterators give equal indexes (`AgreeEqual`). The programs that do not write hold
`Replayed(NewStorage(v), ...)` of the part that they have read, and go on from
there by `ReplayedConcat`.

`SchemaGuard` compares the file with a constant; what a program knows of the file
is in its memory. `SchemaInv` relates them: the schema that a program has in memory
is the one of the part of the file that it has read (`KnowsFile`), a program that
is open has found its own schema there, and has checked nothing beyond it
(`HasOwnSchema`), and the calls of a transaction hold no operation of the schema. A
replay appends to the schema in memory what `SchemaOf` finds in the calls
(`ReplayedSchema`); an upgrade of a compatible schema completes it
(`UpgradeCompletes`); so a program that starts a transaction with a schema that is
not longer than its own has exactly its own, in memory and in the file.

Assumptions on constants: `SchemaAssumption` of `GeneratedDatabase` (an index, a
single-row table, a default value and a custom function name tables and fields of the
schema, which the compiler looks up), `ProgramAssumption` and
`LogAssumption` of `GeneratedClients` (a file to start with is a list of calls:
nothing is assumed of whether they can be replayed).

### Only model-checked

* Liveness under fairness (`CallsReturn` of `Journal` and of `Replication`,
  `PublishedIsSeen`, `LockGranted`): out of reach of the prover.
* `TextRoundTrip`, `CopiesFaithful` and `ExportsFaithful` of `DataPipeline`: the tools
  renumber records and tables, so that a proof needs a bijection between two
  databases through all operations. Their texts are concatenations and folds,
  library operators with operators as parameters, of which no instance of an
  induction theorem can be cited.
* `EveryReaderAgrees` and `UpgradeFillsNewFields` of `GeneratedClients`: they hold
  for files that programs of these schemas have written, which are the ones of the
  runs. The theorems above allow any file; a proof of these two would first have
  to characterise the files that some version can have written, and compare
  the two databases, interpreted and compiled, cell by cell.

## 6. Not modelled

Servers chained to an upstream connection, the arithmetic of hashes (a hash is
the content it stands for), short or failing writes, damaged files and blobs,
the Brotli codec, multi-threaded executors (the server asserts that it has one
thread), the Windows variant of the file locks, the start and stop of the
keep-alive thread, blobs and iterators of compiled databases, RPC, the ssh and
websocket transports, option parsing and printed layout, and all components
marked `not_modelled` in `PROJECT.json`, which gives the reason for each.
