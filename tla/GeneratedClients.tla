-------------------------- MODULE GeneratedClients --------------------------
(***************************************************************************)
(* Programs that share a file through the classes that joedbc generates:   *)
(* Client (Client_h.cpp), which opens a file, upgrades its schema and      *)
(* executes transactions on a Writable_Database, and Readonly_Client.      *)
(* Programs compiled for different versions of the schema meet on the same *)
(* file.  The lock and the checkpoints are those of module Journal, and    *)
(* the encoding that of JournalCodec: here the file is the list of the     *)
(* calls that it holds.                                                    *)
(***************************************************************************)
EXTENDS GeneratedDatabase

CONSTANTS
  Writers, Readers,  \* programs: Client, Readonly_Client
  VersionOf,         \* program -> version
  Values,
  MaxRecord,         \* bound on record identifiers
  MaxOps,            \* bound on the calls of the programs
  Logs,              \* contents of the file at the start
  FixFirst           \* users repair an update that failed before anything else

Programs == Writers \union Readers

Nobody == 0

ASSUME ProgramAssumption == VersionOf \in [Programs -> Versions] /\ Nobody \notin Programs

ASSUME LogAssumption ==
  \A l \in Logs : l \in Seq(Range(l)) /\ \A i \in 1..Len(l) : IsCall(l[i])

VARIABLES
  programs,  \* of each program: its database and how much of the file it played
  log,       \* the calls that the file holds, up to its checkpoint
  holder,    \* the program whose transaction is running,
  pending,   \* the calls of that transaction,
  invalid,   \* and the cells whose last update threw
  count

vars == <<programs, log, holder, pending, invalid, count>>

Closed(p) ==
  [state |-> "closed", db |-> NewStorage(VersionOf[p]), position |-> 0, schema_checkpoint |-> 0]

-----------------------------------------------------------------------------
(* play_journal: up to the checkpoint of the file *)
Played(p) ==
  [programs[p] EXCEPT
    !.db = Replayed(@, SubSeq(log, programs[p].position + 1, Len(log))),
    !.position = Len(log)]

(* A mutant: the schema is not looked at again. *)
ThrowsUnlessSingleRow(prog) == ~prog.db.ok \/ ~check_single_row(prog.db)

(* read_journal throws "Can't upgrade schema during pull", "Pulled a schema  *)
(* change" or the failure of check_single_row, again at each pull            *)
Throws(prog) ==
  \/ ~prog.db.ok
  \/ Len(prog.db.schema) > prog.schema_checkpoint
  \/ ~check_single_row(prog.db)

(* The constructor of Client plays the journal before it takes the lock; *)
Construct(p) ==
  /\ p \in Writers /\ programs[p].state = "closed"
  /\ programs' = [programs EXCEPT ![p] = [Played(p) EXCEPT !.state = "constructed"]]
  /\ UNCHANGED <<log, holder, pending, invalid, count>>

(* its first transaction is initialize: play_journal, check_schema,          *)
(* auto_upgrade, which ends with a checkpoint, and check_single_row.         *)
Upgraded(p, played, upgraded) ==
  LET written == played.db.ok /\ SchemaIsCompatible(played.db) /\ upgraded.db.ok
  IN /\ log' = IF written THEN log \o upgraded.calls ELSE log
     /\ programs' = [programs EXCEPT ![p] =
          IF written /\ check_single_row(upgraded.db)
          THEN [state |-> "open", db |-> upgraded.db, position |-> Len(log'),
                schema_checkpoint |-> Len(upgraded.db.schema)]
          ELSE [played EXCEPT !.state = "failed"]]
     /\ UNCHANGED <<holder, pending, invalid, count>>

Initialize(p) ==
  /\ programs[p].state = "constructed" /\ holder = Nobody
  /\ \E played \in {Played(p)} : Upgraded(p, played, auto_upgrade(played.db))

(* Readonly_Client: no lock, and no upgrade *)
OpenReadonly(p) ==
  /\ p \in Readers /\ programs[p].state = "closed"
  /\ \E played \in {Played(p)} :
       /\ ~requires_schema_upgrade(played.db)
       /\ programs' = [programs EXCEPT ![p] =
            IF played.db.ok /\ SchemaIsCompatible(played.db)
            THEN [played EXCEPT !.state = "open", !.schema_checkpoint = Len(played.db.schema)]
            ELSE [played EXCEPT !.state = "failed"]]
  /\ UNCHANGED <<log, holder, pending, invalid, count>>

(* pull; the one of a Client takes the lock *)
Pull(p) ==
  /\ programs[p].state = "open" /\ programs[p].position < Len(log)
  /\ p \in Writers => holder = Nobody
  /\ \E played \in {Played(p)} :
       programs' = [programs EXCEPT ![p] =
         [played EXCEPT !.state = IF played.db.ok THEN "open" ELSE "failed"]]
  /\ UNCHANGED <<log, holder, pending, invalid, count>>

-----------------------------------------------------------------------------
(* Transactions *)

Begin(p) ==
  /\ p \in Writers /\ programs[p].state = "open" /\ holder = Nobody /\ count < MaxOps
  /\ \E played \in {Played(p)} :
       /\ programs' = [programs EXCEPT ![p] = played]
       /\ holder' = IF Throws(played) THEN Nobody ELSE p
  /\ UNCHANGED <<log, pending, invalid, count>>

(* What a program of the same version reads of the file and the transaction *)
Mirror == Replayed(NewStorage(VersionOf[holder]), log \o pending)

Cells(p, t, records) == {<<t, r, f>> : r \in records, f \in DOMAIN programs[p].db.tables[t].columns}

(* A call of the user on the Writable_Database that it locked, and the       *)
(* cells that it writes                                                      *)
Call(p, cells, w) ==
  /\ holder = p /\ count < MaxOps
  /\ FixFirst => invalid \subseteq cells
  /\ programs' = [programs EXCEPT ![p].db = [w.db EXCEPT !.ok = TRUE]]
  /\ pending' = w.calls
  /\ invalid' = w.invalid
  /\ count' = count + 1
  /\ UNCHANGED <<log, holder>>

Writer(p) == [db |-> programs[p].db, calls |-> pending, invalid |-> invalid]

Tables(p) == DOMAIN programs[p].db.tables \ SingleRow[VersionOf[p]]

Freedom(p, t) == programs[p].db.tables[t].freedom

Fields(p, t) == DOMAIN programs[p].db.tables[t].columns

Insert(p) ==
  \E t \in Tables(p) :
    \/ GetFreeRecord(Freedom(p, t)).record <= MaxRecord /\ Call(p, {}, new_record(Writer(p), t))
    \/ \E r \in 0..MaxRecord :
         ~IsUsed(Freedom(p, t), r) /\ Call(p, {}, insert_record(Writer(p), t, r))
    \/ /\ KeeperSize(Freedom(p, t)) + 1 <= MaxRecord
       /\ Call(p, {}, new_vector(Writer(p), t, 2))
    \/ \E v \in Values :
         /\ GetFreeRecord(Freedom(p, t)).record <= MaxRecord
         /\ Call(p, {}, new_with_values(Writer(p), t, v))

Delete(p) ==
  \E t \in Tables(p) :
    \/ \E r \in 0..MaxRecord :
         /\ IsUsed(Freedom(p, t), r)
         /\ Call(p, Cells(p, t, {r}), delete_record(Writer(p), t, r))
    \/ \E r \in 0..MaxRecord :
         /\ IsUsedVector(Freedom(p, t), r, 2)
         /\ Call(p, Cells(p, t, {r, r + 1}), delete_vector_of(Writer(p), t, r, 2))
    \/ Call(p, Cells(p, t, 0..MaxRecord), clear_table(Writer(p), t))

Set(p) ==
  \E t \in DOMAIN programs[p].db.tables : \E f \in Fields(p, t), r \in 0..MaxRecord :
    \/ \E v \in Values :
         IsUsed(Freedom(p, t), r) /\ Call(p, {<<t, r, f>>}, set_field(Writer(p), t, r, f, v))
    \/ \E vs \in [1..2 -> Values] :
         /\ t \in Tables(p) /\ IsUsedVector(Freedom(p, t), r, 2)
         /\ Call(p, {<<t, r, f>>, <<t, r + 1, f>>}, update_vector_of(Writer(p), t, r, f, vs))

(* A mutant: the program will play its own calls again. *)
CommitWithoutPosition(p) ==
  /\ holder = p /\ invalid = {}
  /\ holder' = Nobody
  /\ log' = log \o pending
  /\ pending' = <<>>
  /\ UNCHANGED <<programs, invalid, count>>

(* The end of a transaction; a user who repairs what failed does it before. *)
Commit(p) ==
  /\ holder = p /\ invalid = {}
  /\ holder' = Nobody
  /\ log' = log \o pending
  /\ pending' = <<>>
  /\ programs' = [programs EXCEPT ![p].position = Len(log')]
  /\ UNCHANGED <<invalid, count>>

(* An exception, or a crash: nothing was committed, and the program starts   *)
(* again from the file.                                                      *)
Abort(p) ==
  /\ holder = p /\ (pending # <<>> \/ invalid # {})
  /\ holder' = Nobody
  /\ pending' = <<>>
  /\ invalid' = {}
  /\ programs' = [programs EXCEPT ![p] = Closed(p)]
  /\ UNCHANGED <<log, count>>

Init ==
  /\ programs = [p \in Programs |-> Closed(p)]
  /\ log \in Logs
  /\ holder = Nobody
  /\ pending = <<>>
  /\ invalid = {}
  /\ count = 0

Next ==
  \E p \in Programs :
    \/ Construct(p) \/ Initialize(p) \/ OpenReadonly(p) \/ Pull(p)
    \/ Begin(p) \/ Insert(p) \/ Delete(p) \/ Set(p) \/ Commit(p) \/ Abort(p)

Spec == Init /\ [][Next]_vars

-----------------------------------------------------------------------------
(* The columns and the iterators have the size of their table, and a record  *)
(* in use never has an iterator left as resize made it, which                *)
(* remove_index_of would hand to erase.                                      *)
StorageSound(g) ==
  \A t \in DOMAIN g.tables :
    LET records == 0..(KeeperSize(g.tables[t].freedom) - 1)
    IN /\ \A f \in DOMAIN g.tables[t].columns : DOMAIN g.tables[t].columns[f] = records
       /\ \A i \in {j \in DOMAIN g.iterator : Indexes[g.version][j].t = t} :
            /\ DOMAIN g.iterator[i] = records
            /\ \A r \in Records(g.tables[t].freedom, TRUE) : g.iterator[i][r] # Singular

(* The entries of an index are those that the iterators of the records in    *)
(* use designate; they have distinct keys when the index is unique, and the  *)
(* key is the value of the record, except for the columns of a unique index  *)
(* that do not trigger its update and except, for other indexes, when a      *)
(* unique one stopped the update.  The columns that trigger an update are    *)
(* those of is_trigger in Compiler_Options.h: any column of an index that is *)
(* not unique, and the one with the greatest identifier of a unique one.     *)
(* doc/source/indexes.rst:61 (and 36-37) says the last column of the index.  *)
IndexesSound ==
  \A p \in Programs :
    LET g == programs[p].db
    IN /\ StorageSound(g)
       /\ g.ok =>
            \A i \in DOMAIN g.index :
              LET index == Indexes[g.version][i]
                  used  == Records(g.tables[index.t].freedom, TRUE)
              IN /\ g.index[i] = {g.iterator[i][r] : r \in used} \ {End}
                 /\ \A r \in used : g.iterator[i][r] # End => g.iterator[i][r][2] = r
                 /\ index.unique => \A d, e \in g.index[i] : d[1] = e[1] => d = e
                 /\ \A e \in g.index[i], k \in DOMAIN index.fs :
                      IsTrigger(index, index.t, index.fs[k]) /\ (holder = p => invalid = {}) =>
                        e[1][k] = g.tables[index.t].columns[index.fs[k]][e[2]]

(* What reached the journal of a transaction can be played by the others,    *)
(* when every update that failed was repaired,                               *)
FileReadable == holder # Nobody /\ invalid = {} => Mirror.ok

(* Every program holds what the journal says: the writer, also after an      *)
(* update that failed was repaired, the database that its journal gives,     *)
(* indexes and record lists included; the others the one that a program that *)
(* starts now would build from the part of the file that they have read.     *)
ReplicasAgree ==
  /\ holder # Nobody /\ invalid = {} =>
       \A mirror \in {Mirror} : mirror.ok => programs[holder].db = mirror
  /\ \A p \in Programs \ {holder} :
       programs[p].state = "open" =>
         programs[p].db = Replayed(NewStorage(VersionOf[p]), SubSeq(log, 1, programs[p].position))

(* The operations of the schema that a journal holds, in their order *)
WithSchema(schema, o) == IF o.op \in SchemaOps \union {"custom"} THEN Append(schema, o) ELSE schema

SchemaOf(os) ==
  LET s[i \in 0..Len(os)] == IF i = 0 THEN <<>> ELSE WithSchema(s[i - 1], os[i])
  IN s[Len(os)]

(* A program writes only if the schema of the file is exactly its own: one   *)
(* whose file was upgraded by another program since it opened it cannot      *)
(* start a transaction.                                                      *)
SchemaGuard == holder # Nobody => SchemaOf(log) = Schema[VersionOf[holder]]

(* A file that generated programs write can be read by all: by a program,    *)
(* unless the file has a newer schema, since whoever upgrades leaves what    *)
(* check_single_row and the indexes of the others accept; and by the         *)
(* interpreted database, which has the same records; a cell has the same     *)
(* value there, or the program cleared it with its record and did not set it *)
(* since.                                                                    *)
EveryReaderAgrees ==
  /\ \A p \in Programs :
       programs[p].state = "failed" => ~IsPrefix(SchemaOf(log), Schema[VersionOf[p]])
  /\ \E db \in {Play(NewDatabase(null), log)} :
       /\ db # Failed
       /\ \A p \in Programs \ {holder} :
            LET g == programs[p].db
            IN programs[p].state = "open" /\ programs[p].position = Len(log) =>
                 \A t \in DOMAIN g.tables :
                   LET used == Records(g.tables[t].freedom, TRUE)
                   IN /\ used = Records(db.tables[t].freedom, TRUE)
                      /\ \A r \in used, f \in DOMAIN g.tables[t].columns :
                           HasField(db, t, f) => g.tables[t].columns[f][r] \in
                             {db.tables[t].fields[f].column[r], Default(FieldType(g.version, t, f))}

(* An upgrade gives every record the default value of a new field.           *)
UpgradeFillsNewFields ==
  [][\A p \in Programs :
       programs[p].state = "constructed" /\ programs'[p].state = "open" /\ log' # log =>
         LET g == programs'[p].db
             before == Play(NewDatabase(null), log)
         IN \A t \in DOMAIN Defaults[g.version] : \A f \in DOMAIN Defaults[g.version][t] :
              ~HasField(before, t, f) =>
                \A r \in Records(g.tables[t].freedom, TRUE) :
                  g.tables[t].columns[f][r] = Defaults[g.version][t][f]]_vars
=============================================================================
