----------------------------- MODULE Writables -----------------------------
(***************************************************************************)
(* The other implementations of Writable, and the tools built on them:     *)
(* Selective_Writable, the vector operations that Writable unrolls by      *)
(* default, the text and SQL forms of an operation                         *)
(* (Interpreter_Dump_Writable, SQL_Dump_Writable), the commands of the     *)
(* interpreter, dump, pack (dump.cpp) and JSON (json.cpp).                 *)
(*                                                                         *)
(* A text command has the shape of the call that it prints, with names     *)
(* where the call has identifiers: what the text loses is the numbering of *)
(* tables and fields, and this is what the interpreter has to find again.  *)
(***************************************************************************)
EXTENDS JournalCodec, SequencesExt

CONSTANTS UnknownTable, UnknownField,   \* Readable::default_table_name, default_field_name
          NULL                          \* of SQL

(* Concatenation of F(s[1]), F(s[2]), ... *)
Concat(F(_), s) == FoldLeft(LAMBDA a, x : a \o F(x), <<>>, s)

(* The elements of a set of numbers, in increasing order *)
Ascending(S) ==
  [i \in 1..Cardinality(S) |-> CHOOSE x \in S : Cardinality({y \in S : y <= x}) = i]

-----------------------------------------------------------------------------
(* Selective_Writable *)

ModeOf(o) ==
  CASE o.op \in SchemaOps \union {"custom"} -> "schema"
    [] o.op \in {"comment", "timestamp", "valid_data"} -> "information"
    [] OTHER -> "data"

Selected(mode, o) == ModeOf(o) \in mode

-----------------------------------------------------------------------------
(* The default insert_vector, delete_vector and update_vector of Writable *)

Unrolled(o) ==
  CASE o.op = "insert_vector" -> [i \in 1..o.n |-> insert_into(o.t, o.r + i - 1)]
    [] o.op = "delete_vector" -> [i \in 1..o.n |-> delete_from(o.t, o.r + o.n - i)]
    [] o.op = "update_vector" -> [i \in 1..Len(o.vs) |-> update(o.t, o.r + i - 1, o.f, o.vs[i])]
    [] OTHER -> <<o>>

-----------------------------------------------------------------------------
(* Interpreter_Writable: an operation as a command *)

TableName(db, t) == IF HasTable(db, t) THEN db.tables[t].name ELSE UnknownTable

FieldName(db, t, f) == IF HasField(db, t, f) THEN db.tables[t].fields[f].name ELSE UnknownField

TypeText(db, type) ==
  IF type.id = "reference" THEN [type EXCEPT !.table = TableName(db, @)] ELSE type

Text(schema, o) ==
  [x \in DOMAIN o |->
    CASE x = "t" -> TableName(schema, o.t)
      [] x = "f" -> FieldName(schema, o.t, o.f)
      [] x = "type" -> TypeText(schema, o.type)
      [] OTHER -> o[x]]

-----------------------------------------------------------------------------
(* The interpreter: Readable_Writable_Command_Processor,                   *)
(* Data_Manipulation_Command_Processor, Writable_Command_Processor         *)

(* parse_type: a reference to an unknown table is an unknown type *)
parse_type(db, text) ==
  IF text.id = "reference" THEN [text EXCEPT !.table = FindTable(db, @)] ELSE text

(* The call a command makes *)
ParsedCall(db, c) ==
  LET t == IF "t" \in DOMAIN c THEN FindTable(db, c.t) ELSE 0
  IN [x \in DOMAIN c |->
       CASE x = "t" -> t
         [] x = "f" -> IF HasTable(db, t) THEN FindField(db, t, c.f) ELSE 0
         [] x = "type" -> parse_type(db, c.type)
         [] OTHER -> c[x]]

(* parse_table and parse_type throw; a missing field is found out by the     *)
(* database, or by update_value ("bad field")                                *)
Parses(db, c) ==
  /\ "t" \in DOMAIN c => FindTable(db, c.t) # 0
  /\ "type" \in DOMAIN c /\ c.type.id = "reference" => FindTable(db, c.type.table) # 0

(* The calls of a command; an update_vector of size 0 makes none.            *)
process_command(db, c) ==
  LET o == ParsedCall(db, c)
  IN IF o.op = "update_vector" /\ o.vs = <<>> THEN <<>> ELSE <<o>>

(* Interpreter::main_loop on the commands of a file: Failed at an error      *)
Interpret(db, c) ==
  IF db = Failed \/ ~Parses(db, c) THEN Failed ELSE Play(db, process_command(db, c))

(* append_into and insert_into with values: the record is inserted, then     *)
(* every field is read and updated, until a value is missing or cannot be    *)
(* read; the operations already made are not undone.                         *)
InsertWithValues(db, t, r, vs) ==
  LET fields == Ascending(DOMAIN db.tables[t].fields)
      n == IF Len(vs) < Len(fields) THEN Len(vs) ELSE Len(fields)
  IN <<insert_into(t, r)>> \o [i \in 1..n |-> update(t, r, fields[i], vs[i])]

append_into(db, t, vs) == InsertWithValues(db, t, KeeperSize(db.tables[t].freedom), vs)

(* add_field with a default value: the new field is the last one, and is     *)
(* set in every used record                                                  *)
AddFieldWithDefault(db, t, name, type, v) ==
  LET f == db.tables[t].current_field_id + 1
      used == Ascending(Records(db.tables[t].freedom, TRUE))
  IN <<add_field(t, name, type)>> \o [i \in 1..Len(used) |-> update(t, used[i], f, v)]

-----------------------------------------------------------------------------
(* dump.cpp *)

UsedRecords(db, t) == Records(db.tables[t].freedom, TRUE)

(* The intervals of used records: first record and size *)
Runs(db, t) ==
  LET used   == UsedRecords(db, t)
      starts == Ascending({r \in used : r - 1 \notin used})
      size(r) == CHOOSE n \in 1..KeeperSize(db.tables[t].freedom) :
                   r + n \notin used /\ \A i \in 0..(n - 1) : r + i \in used
  IN [i \in 1..Len(starts) |-> [r |-> starts[i], n |-> size(starts[i])]]

Tids(db) == Ascending(DOMAIN db.tables)

Fids(db, t) == Ascending(DOMAIN db.tables[t].fields)

(* The position of x in the sorted set S; 0 when it is not there, which is   *)
(* what table_map[] inserts for a table that was dropped                     *)
Rank(S, x) == IF x \in S THEN Cardinality({y \in S : y <= x}) ELSE 0

(* dump(): identifiers are numbered again *)
DumpSchema(db) ==
  LET tids == Tids(db)
      map(t) == Rank(DOMAIN db.tables, t)
      type(t, f) == LET old == db.tables[t].fields[f].type
                    IN IF old.id = "reference" THEN reference(map(old.table)) ELSE old
      field(t, f) == add_field(map(t), db.tables[t].fields[f].name, type(t, f))
  IN [i \in 1..Len(tids) |-> create_table(db.tables[tids[i]].name)]
     \o Concat(LAMBDA t : Concat(LAMBDA f : <<field(t, f)>>, Fids(db, t)), tids)

DumpRows(db, t, mapped) ==
  LET runs == Runs(db, t)
      used == Ascending(UsedRecords(db, t))
  IN [i \in 1..Len(runs) |-> insert_vector(mapped, runs[i].r, runs[i].n)]
     \o Concat(LAMBDA f : [i \in 1..Len(used) |->
                            update(mapped, used[i], Rank(DOMAIN db.tables[t].fields, f),
                                   db.tables[t].fields[f].column[used[i]])],
               Fids(db, t))

Dump(db) ==
  DumpSchema(db) \o Concat(LAMBDA t : DumpRows(db, t, Rank(DOMAIN db.tables, t)), Tids(db))

(* A mutant: only the first record of an interval is written. *)
DumpRunFirstOnly(db, t, run) ==
  <<IF run.n > 1 THEN insert_vector(t, run.r, run.n) ELSE insert_into(t, run.r)>>
  \o Concat(LAMBDA f : <<update(t, run.r, f, db.tables[t].fields[f].column[run.r])>>, Fids(db, t))

(* dump_data(): identifiers are kept, the schema is written elsewhere *)
DumpRun(db, t, run) ==
  LET column(f) == db.tables[t].fields[f].column
      values(f) == [i \in 1..run.n |-> column(f)[run.r + i - 1]]
      cell(f)   == <<IF run.n > 1 THEN update_vector(t, run.r, f, values(f))
                                  ELSE update(t, run.r, f, column(f)[run.r])>>
  IN <<IF run.n > 1 THEN insert_vector(t, run.r, run.n) ELSE insert_into(t, run.r)>>
     \o Concat(cell, Fids(db, t))

DumpData(db) ==
  Concat(LAMBDA t : Concat(LAMBDA run : DumpRun(db, t, run), Runs(db, t)), Tids(db))

-----------------------------------------------------------------------------
(* SQL_Writable, and what an SQL engine does with the statements.  A table  *)
(* is its columns and its rows; a cell that was never set is NULL.          *)

NewSqlTable == [columns |-> {}, rows |-> EmptyMap]

SqlRow(columns) == [c \in columns |-> NULL]

SqlValue(v) == IF v = null THEN NULL ELSE v

RenamedKey(f, old, new) == Extended(Without(f, old), new, f[old])

SqlStatement(sql, schema, o) ==
  LET name  == TableName(schema, o.t)
      field == FieldName(schema, o.t, o.f)
      table == sql[name]
      with(rows, columns) == [sql EXCEPT ![name] = [rows |-> rows, columns |-> columns]]
      onRows(F(_)) == [r \in DOMAIN table.rows |-> F(table.rows[r])]
  IN CASE o.op = "create_table" -> Extended(sql, o.name, NewSqlTable)
       [] o.op = "drop_table" -> Without(sql, name)
       [] o.op = "rename_table" -> RenamedKey(sql, name, o.name)
       [] o.op = "add_field" ->
            with(onRows(LAMBDA row : Extended(row, o.name, NULL)), table.columns \union {o.name})
       [] o.op = "drop_field" ->
            with(onRows(LAMBDA row : Without(row, field)), table.columns \ {field})
       [] o.op = "rename_field" ->
            with(onRows(LAMBDA row : RenamedKey(row, field, o.name)),
                 (table.columns \ {field}) \union {o.name})
       [] o.op = "insert_into" ->
            with(Extended(table.rows, o.r, SqlRow(table.columns)), table.columns)
       [] o.op = "delete_from" -> with(Without(table.rows, o.r), table.columns)
       [] o.op = "update" ->
            IF o.r \in DOMAIN table.rows
            THEN [sql EXCEPT ![name].rows[o.r][field] = SqlValue(o.v)]
            ELSE sql
       [] o.op \in InformationOps -> sql

SqlDumped(sql, schema, o) ==
  FoldLeft(LAMBDA s, u : SqlStatement(s, schema, u), sql, Unrolled(o))

-----------------------------------------------------------------------------
(* write_json: a table is its size and its columns, without the unused      *)
(* records; a reference is the position of its target in the columns.       *)

(* A mutant: unused records take a position too. *)
TranslationOfAll(db, t) ==
  [r \in 0..(KeeperSize(db.tables[t].freedom) - 1) |->
    IF IsUsed(db.tables[t].freedom, r) THEN r ELSE -1]

Translation(db, t) ==
  [r \in 0..(KeeperSize(db.tables[t].freedom) - 1) |->
    IF IsUsed(db.tables[t].freedom, r)
    THEN Cardinality({i \in UsedRecords(db, t) : i < r})
    ELSE -1]

JsonValue(db, type, v) ==
  IF type.id # "reference" \/ ~HasTable(db, type.table) THEN v
  ELSE IF v \in DOMAIN Translation(db, type.table) THEN Translation(db, type.table)[v]
  ELSE -1

Json(db) ==
  [t \in DOMAIN db.tables |->
    LET used == Ascending(UsedRecords(db, t))
    IN [size |-> Len(used),
        columns |-> [f \in DOMAIN db.tables[t].fields |->
          [i \in 1..Len(used) |->
            JsonValue(db, db.tables[t].fields[f].type, db.tables[t].fields[f].column[used[i]])]]]]

-----------------------------------------------------------------------------
(* What the tools promise *)

(* A database as its user sees it: names, types, used records, values *)
View(db) ==
  LET tables == {db.tables[t].name : t \in DOMAIN db.tables}
  IN [n \in tables |->
       LET t == FindTable(db, n)
           fields == db.tables[t].fields
           names == {fields[f].name : f \in DOMAIN fields}
           field(m) == fields[FindField(db, t, m)]
       IN [types |-> [m \in names |-> TypeText(db, field(m).type)],
           rows  |-> [r \in UsedRecords(db, t) |-> [m \in names |-> field(m).column[r]]]]]

HasDanglingType(db) ==
  \E t \in DOMAIN db.tables : \E f \in DOMAIN db.tables[t].fields :
    LET type == db.tables[t].fields[f].type
    IN type.id = "reference" /\ ~HasTable(db, type.table)
============================================================================
