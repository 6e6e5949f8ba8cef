------------------------- MODULE GeneratedDatabase -------------------------
(***************************************************************************)
(* The database that joedbc generates for a schema: class Database         *)
(* (storage, indexes, internal_insert, internal_delete, internal_update),  *)
(* Database_Writable, which executes the operations of a journal, and      *)
(* Writable_Database, which keeps a database and a journal in sync.        *)
(*                                                                         *)
(* The source of these classes is printed by compiler/generator/*.cpp; a   *)
(* definition here is one printed function, for every table, field and     *)
(* index at once.  A program is compiled for one version of the schema.    *)
(*                                                                         *)
(* A function that throws has nevertheless done what precedes the throw:   *)
(* the field ok of the database becomes FALSE, and the next calls of the   *)
(* same function are skipped.  Record identifiers stay below Header::size, *)
(* so that the max_record_id of play_journal, the checkpoint in bytes, is  *)
(* never reached.                                                          *)
(***************************************************************************)
EXTENDS InterpretedDatabase, SequencesExt

CONSTANTS
  Versions,    \* versions of the program
  Schema,      \* version -> schema and custom operations of the .joedbi file
  Indexes,     \* version -> sequence of [unique, t, fs] of the .joedbc file
  SingleRow,   \* version -> tables with set_single_row
  Defaults,    \* version -> table -> field -> value, for the tables with values
  CustomClears \* name of a custom function -> the table that it clears

(* joedbc: the schema is executed by an interpreted database *)
Compiled ==
  [v \in Versions |->
    Play(NewDatabase(null), SelectSeq(Schema[v], LAMBDA o : o.op \in SchemaOps))]

(* What joedbc accepts: the operations of the file create the tables that    *)
(* the other options name.                                                   *)
ASSUME SchemaAssumption ==
  \A v \in Versions :
    /\ Schema[v] \in Seq(Range(Schema[v]))
    /\ \A o \in Range(Schema[v]) :
         /\ o.op \in SchemaOps \union {"custom"}
         /\ o.op = "custom" => CustomClears[o.name] \in DOMAIN Compiled[v].tables
    /\ \A t \in DOMAIN Compiled[v].tables : Compiled[v].tables[t].current_field_id \in Nat
    /\ \A i \in DOMAIN Indexes[v] :
         /\ Indexes[v][i].t \in DOMAIN Compiled[v].tables
         /\ Range(Indexes[v][i].fs) \subseteq DOMAIN Compiled[v].tables[Indexes[v][i].t].fields
    /\ SingleRow[v] \union DOMAIN Defaults[v] \subseteq DOMAIN Compiled[v].tables

(* Fields are numbered in the order in which they were added to their table *)
FieldTypes ==
  [v \in Versions |->
    [t \in {o.t : o \in {x \in ToSet(Schema[v]) : x.op = "add_field"}} |->
      SelectSeq(Schema[v], LAMBDA o : o.op = "add_field" /\ o.t = t)]]

FieldType(v, t, f) == FieldTypes[v][t][f].type

(* Index::is_trigger: any column, but the greatest field of a unique index *)
IsTrigger(index, t, f) ==
  /\ index.t = t
  /\ f \in ToSet(index.fs)
  /\ index.unique => \A other \in ToSet(index.fs) : other <= f

-----------------------------------------------------------------------------
(* Database: for each table a freedom keeper and one column per field; for   *)
(* each index a map, and for each record an iterator over it.  A map is a    *)
(* set of entries <<key, record>>, and an iterator one of these entries.     *)

End == <<>>            \* end() of a map

Singular == <<0>>      \* a value-initialized iterator

EmptyTable(table) ==
  [freedom |-> NewKeeper, columns |-> [f \in DOMAIN table.fields |-> EmptyMap]]

EmptyTables(tables) == [t \in DOMAIN tables |-> EmptyTable(tables[t])]

NewStorage(v) ==
  [version  |-> v,
   tables   |-> EmptyTables(Compiled[v].tables),
   index    |-> [i \in DOMAIN Indexes[v] |-> {}],
   iterator |-> [i \in DOMAIN Indexes[v] |-> EmptyMap],
   schema   |-> <<>>,
   ok       |-> TRUE]

(* data_of_<table>::resize *)
ResizedStorage(g, t, size) ==
  LET grow(column, value) ==
        [r \in 0..(size - 1) |-> IF r \in DOMAIN column THEN column[r] ELSE value]
      table == g.tables[t]
  IN IF size < KeeperSize(table.freedom) THEN g
     ELSE [g EXCEPT
            !.tables[t] =
              [freedom |-> Resize(@.freedom, size),
               columns |-> [f \in DOMAIN @.columns |->
                             grow(@.columns[f], Default(FieldType(g.version, t, f)))]],
            !.iterator = [i \in DOMAIN @ |-> IF Indexes[g.version][i].t = t
                                             THEN grow(@[i], Singular) ELSE @[i]]]

Key(g, i, r) ==
  LET index == Indexes[g.version][i]
  IN [k \in DOMAIN index.fs |-> g.tables[index.t].columns[index.fs[k]][r]]

(* remove_index_of, for the records of a vector: the entries that it leaves *)
Others(g, i, records) == g.index[i] \ {g.iterator[i][s] : s \in records}

(* add_index_of, for the records of a vector in turn, throws on one that has *)
(* the key of an entry that is there, or of a previous record of the vector. *)
Taken(g, i, r, n, s) ==
  /\ Indexes[g.version][i].unique
  /\ \/ \E e \in Others(g, i, r..(r + n - 1)) : e[1] = Key(g, i, s)
     \/ \E q \in r..(s - 1) : Key(g, i, q) = Key(g, i, s)

Duplicate(g, i, r, n) == \E s \in r..(r + n - 1) : Taken(g, i, r, n, s)

Added(g, i, r, n, s) == s \in r..(r + n - 1) /\ \A q \in r..s : ~Taken(g, i, r, n, q)

Triggered(g, t, f) == {i \in DOMAIN g.index : IsTrigger(Indexes[g.version][i], t, f)}

(* The indexes that an update triggers, in turn: out for all the records of  *)
(* the vector, then in again.  The first duplicate stops everything.         *)
Reached(g, t, r, f, n) ==
  {i \in Triggered(g, t, f) : \A j \in Triggered(g, t, f) : j < i => ~Duplicate(g, j, r, n)}

Reindexed(g, t, r, f, n) ==
  LET records == r..(r + n - 1)
      reached == Reached(g, t, r, f, n)
      added(i) == {s \in records : Added(g, i, r, n, s)}
  IN [g EXCEPT
       !.index = [i \in DOMAIN @ |->
                   IF i \in reached
                   THEN Others(g, i, records) \union {<<Key(g, i, s), s>> : s \in added(i)}
                   ELSE @[i]],
       !.iterator = [i \in DOMAIN @ |->
                      [s \in DOMAIN @[i] |->
                        IF i \notin reached \/ s \notin records THEN @[i][s]
                        ELSE IF s \in added(i) THEN <<Key(g, i, s), s>> ELSE End]],
       !.ok = \A i \in Triggered(g, t, f) : ~Duplicate(g, i, r, n)]

(* internal_delete of a vector, the last record first *)
FreedFromLast(k, r, n) == Iterate(LAMBDA l, i : Free(l, r + n - 1 - i), k, 0, n)

(* A mutant: the entries of a deleted record stay in the indexes. *)
DeletedIndexed(g, t, r, n) ==
  LET cleared(f, s, value) ==
        IF s \in r..(r + n - 1) THEN Default(FieldType(g.version, t, f)) ELSE value
  IN [g EXCEPT
       !.tables[t] =
         [freedom |-> FreedFromLast(@.freedom, r, n),
          columns |-> [f \in DOMAIN @.columns |->
                        [s \in DOMAIN @.columns[f] |-> cleared(f, s, @.columns[f][s])]]]]

Deleted(g, t, r, n) ==
  LET out == r..(r + n - 1)
      over(i) == Indexes[g.version][i].t = t
      cleared(f, s, value) == IF s \in out THEN Default(FieldType(g.version, t, f)) ELSE value
  IN [g EXCEPT
       !.index = [i \in DOMAIN @ |-> IF over(i) THEN Others(g, i, out) ELSE @[i]],
       !.iterator = [i \in DOMAIN @ |->
                      [s \in DOMAIN @[i] |-> IF over(i) /\ s \in out THEN End ELSE @[i][s]]],
       !.tables[t] =
         [freedom |-> FreedFromLast(@.freedom, r, n),
          columns |-> [f \in DOMAIN @.columns |->
                        [s \in DOMAIN @.columns[f] |-> cleared(f, s, @.columns[f][s])]]]]

internal_delete(g, t, r) ==
  IF ~IsUsed(g.tables[t].freedom, r) THEN [g EXCEPT !.ok = FALSE] ELSE Deleted(g, t, r, 1)

(* The loops over internal_delete: nobody passes a vector that is partly used *)
internal_delete_vector(g, t, r, n) ==
  IF ~IsUsedVector(g.tables[t].freedom, r, n) THEN [g EXCEPT !.ok = FALSE]
  ELSE Deleted(g, t, r, n)

Inserted(g, t, r, n) ==
  [g EXCEPT
    !.tables[t].freedom = UseVector(@, r, n),
    !.iterator = [i \in DOMAIN @ |->
                   [s \in DOMAIN @[i] |->
                     IF Indexes[g.version][i].t = t /\ s \in r..(r + n - 1) THEN End ELSE @[i][s]]]]

internal_vector_insert(g, t, r, n) ==
  IF ~IsFreeVector(g.tables[t].freedom, r, n) THEN [g EXCEPT !.ok = FALSE] ELSE Inserted(g, t, r, n)

(* internal_insert does not look whether the record is free *)
internal_insert(g, t, r) == Inserted(g, t, r, 1)

(* The value is stored before the indexes are updated *)
Stored(g, t, r, f, vs) ==
  [g EXCEPT !.tables[t].columns[f] =
    [s \in DOMAIN @ |-> IF s - r + 1 \in DOMAIN vs THEN vs[s - r + 1] ELSE @[s]]]

(* A mutant: the indexes are only updated when the value changes. *)
internal_update_unindexed(g, t, r, f, v) ==
  IF ~IsUsed(g.tables[t].freedom, r) THEN [g EXCEPT !.ok = FALSE]
  ELSE IF g.tables[t].columns[f][r] = v THEN g
  ELSE Reindexed(Stored(g, t, r, f, <<v>>), t, r, f, 1)

internal_update(g, t, r, f, v) ==
  IF ~IsUsed(g.tables[t].freedom, r) THEN [g EXCEPT !.ok = FALSE]
  ELSE Reindexed(Stored(g, t, r, f, <<v>>), t, r, f, 1)

internal_update_vector(g, t, r, f, vs) ==
  IF ~IsUsedVector(g.tables[t].freedom, r, Len(vs)) THEN [g EXCEPT !.ok = FALSE]
  ELSE Reindexed(Stored(g, t, r, f, vs), t, r, f, Len(vs))

-----------------------------------------------------------------------------
(* Database_Writable: the operations of a journal.  Tables and fields that   *)
(* the program does not know, because they were dropped, are ignored.        *)

KnowsField(g, o) == o.t \in DOMAIN g.tables /\ o.f \in DOMAIN g.tables[o.t].columns

InsertedRow(g, o) ==
  CASE o.op = "insert_into" ->
         IF o.r < 0 \/ IsUsed(g.tables[o.t].freedom, o.r) THEN [g EXCEPT !.ok = FALSE]
         ELSE internal_insert(ResizedStorage(g, o.t, o.r + 1), o.t, o.r)
    [] o.op = "insert_vector" ->
         IF o.r < 0 THEN [g EXCEPT !.ok = FALSE]
         ELSE internal_vector_insert(ResizedStorage(g, o.t, o.r + o.n), o.t, o.r, o.n)

(* Writable::delete_vector deletes the last record first *)
DeletedRow(g, o) ==
  CASE o.op = "delete_from" -> internal_delete(g, o.t, o.r)
    [] o.op = "delete_vector" -> internal_delete_vector(g, o.t, o.r, o.n)

(* A mutant: the vectors of a journal are not read. *)
UpdatedCellsNoVector(g, o) ==
  IF KnowsField(g, o) /\ o.op = "update" THEN internal_update(g, o.t, o.r, o.f, o.v) ELSE g

UpdatedCells(g, o) ==
  CASE ~KnowsField(g, o) -> g
    [] KnowsField(g, o) /\ o.op = "update" -> internal_update(g, o.t, o.r, o.f, o.v)
    [] KnowsField(g, o) /\ o.op = "update_vector" ->
         internal_update_vector(g, o.t, o.r, o.f, o.vs)

(* Schema operations and custom only go to the schema file *)
Executed(g, o) ==
  CASE ~g.ok -> g
    [] g.ok /\ o.op \in SchemaOps \union {"custom"} -> [g EXCEPT !.schema = Append(@, o)]
    [] g.ok /\ o.op \in {"comment", "timestamp", "valid_data"} -> g
    [] g.ok /\ o.op \in {"insert_into", "insert_vector"} ->
         IF o.t \in DOMAIN g.tables THEN InsertedRow(g, o) ELSE g
    [] g.ok /\ o.op \in {"delete_from", "delete_vector"} ->
         IF o.t \in DOMAIN g.tables THEN DeletedRow(g, o) ELSE g
    [] g.ok /\ o.op \in {"update", "update_vector"} -> UpdatedCells(g, o)

(* play_journal and replay_log *)
Replayed(g, os) ==
  LET h[i \in 0..Len(os)] == IF i = 0 THEN g ELSE Executed(h[i - 1], os[i])
  IN h[Len(os)]

(* check_schema: the schema of the file is a prefix of the compiled one *)
SchemaIsCompatible(g) == IsPrefix(g.schema, Schema[g.version])

requires_schema_upgrade(g) == Len(g.schema) < Len(Schema[g.version])

-----------------------------------------------------------------------------
(* Writable_Database: an internal function, then the same call to the        *)
(* journal, which is not reached if the first one throws.  A writer is the   *)
(* database, the calls that reached its journal, and the cells whose last    *)
(* update threw.                                                             *)

UsedList(k) == Walk(k, GetNext, used_list, UsedCount(k))

(* The cells that a call replaces *)
CellsOf(g, o) ==
  CASE o.op = "update" -> {<<o.t, o.r, o.f>>}
    [] o.op = "update_vector" -> {<<o.t, r, o.f>> : r \in o.r..(o.r + Len(o.vs) - 1)}
    [] o.op = "delete_from" -> {<<o.t, o.r, f>> : f \in DOMAIN g.tables[o.t].columns}
    [] o.op = "delete_vector" ->
         {<<o.t, r, f>> : r \in o.r..(o.r + o.n - 1), f \in DOMAIN g.tables[o.t].columns}
    [] OTHER -> {}

Written(w, g, o) ==
  IF g.ok THEN [db |-> g, calls |-> Append(w.calls, o), invalid |-> w.invalid \ CellsOf(g, o)]
  ELSE [db |-> g, calls |-> w.calls, invalid |-> w.invalid \union CellsOf(g, o)]

new_record(w, t) ==
  LET r == GetFreeRecord(w.db.tables[t].freedom).record
  IN Written(w, internal_insert(ResizedStorage(w.db, t, r + 1), t, r), insert_into(t, r))

insert_record(w, t, r) ==
  Written(w, internal_insert(ResizedStorage(w.db, t, r + 1), t, r), insert_into(t, r))

new_vector(w, t, n) ==
  LET r == KeeperSize(w.db.tables[t].freedom)
  IN Written(w, internal_vector_insert(ResizedStorage(w.db, t, r + n), t, r, n),
             insert_vector(t, r, n))

delete_record(w, t, r) == Written(w, internal_delete(w.db, t, r), delete_from(t, r))

delete_vector_of(w, t, r, n) ==
  Written(w, internal_delete_vector(w.db, t, r, n), delete_vector(t, r, n))

set_field(w, t, r, f, v) == Written(w, internal_update(w.db, t, r, f, v), update(t, r, f, v))

update_vector_of(w, t, r, f, vs) ==
  Written(w, internal_update_vector(w.db, t, r, f, vs), update_vector(t, r, f, vs))

(* Calls that a function makes in turn, until one of them throws; there is  *)
(* no setter for a field that was dropped.                                  *)
CalledInTurn(w, o) ==
  CASE ~w.db.ok -> w
    [] w.db.ok /\ o.op = "delete_from" -> delete_record(w, o.t, o.r)
    [] w.db.ok /\ o.op = "update" ->
         IF KnowsField(w.db, o) THEN set_field(w, o.t, o.r, o.f, o.v) ELSE w

InTurn(w, os) ==
  LET x[i \in 0..Len(os)] == IF i = 0 THEN w ELSE CalledInTurn(x[i - 1], os[i])
  IN x[Len(os)]

(* new_<table> with all the fields: one setter after the other *)
new_with_values(w, t, v) ==
  LET r == GetFreeRecord(w.db.tables[t].freedom).record
      last == Compiled[w.db.version].tables[t].current_field_id
  IN InTurn(new_record(w, t), [f \in 1..last |-> update(t, r, f, v)])

(* clear_<table>_table deletes the last record of the list until it is empty *)
clear_table(w, t) ==
  LET used == UsedList(w.db.tables[t].freedom)
  IN InTurn(w, [i \in DOMAIN used |-> delete_from(t, used[Len(used) + 1 - i])])

check_single_row(g) ==
  \A t \in SingleRow[g.version] :
    UsedCount(g.tables[t].freedom) = 1 /\ IsUsed(g.tables[t].freedom, 0)

-----------------------------------------------------------------------------
(* auto_upgrade: the missing part of the schema is written to the journal,   *)
(* then it is played again on the database, whose overrides add the row of   *)
(* a new single-row table, the default values of a new field, and run the    *)
(* custom functions.                                                         *)

UpgradeCreateTable(w) ==
  LET t == Len(SelectSeq(w.db.schema, LAMBDA o : o.op = "create_table"))
  IN IF t \in SingleRow[w.db.version] THEN new_record(w, t) ELSE w

UpgradeAddField(w, t) ==
  LET values == Defaults[w.db.version]
      f == Len(SelectSeq(w.db.schema, LAMBDA o : o.op = "add_field" /\ o.t = t))
      used == UsedList(w.db.tables[t].freedom)
  IN IF t \in DOMAIN values /\ f \in DOMAIN values[t]
     THEN InTurn(w, [i \in DOMAIN used |-> update(t, used[i], f, values[t][f])])
     ELSE w

(* A mutant: the default value of a new field is not written. *)
UpgradeDataNoDefault(w, o) ==
  CASE o.op = "create_table" -> UpgradeCreateTable(w)
    [] o.op = "custom" -> clear_table(w, CustomClears[o.name])
    [] OTHER -> w

UpgradeData(w, o) ==
  CASE o.op = "create_table" -> UpgradeCreateTable(w)
    [] o.op = "add_field" -> UpgradeAddField(w, o.t)
    [] o.op = "custom" -> clear_table(w, CustomClears[o.name])
    [] OTHER -> w

UpgradeStep(w, o) ==
  IF ~w.db.ok THEN w ELSE UpgradeData([w EXCEPT !.db = Executed(@, o)], o)

(* journal.valid_data(), which is not reached if something has thrown *)
EndUpgrade(w) == IF w.db.ok THEN [w EXCEPT !.calls = Append(@, valid_data)] ELSE w

UpgradedInTurn(w, os) ==
  LET x[i \in 0..Len(os)] == IF i = 0 THEN w ELSE UpgradeStep(x[i - 1], os[i])
  IN x[Len(os)]

auto_upgrade(g) ==
  LET missing == SubSeq(Schema[g.version], Len(g.schema) + 1, Len(Schema[g.version]))
      begun == [db |-> g, invalid |-> {},
                calls |-> <<comment("Automatic schema upgrade")>> \o missing]
  IN IF ~requires_schema_upgrade(g) THEN [db |-> g, invalid |-> {}, calls |-> <<>>]
     ELSE EndUpgrade(UpgradedInTurn(begun, missing))
=============================================================================
