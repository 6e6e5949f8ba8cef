------------------------ MODULE InterpretedDatabase ------------------------
(***************************************************************************)
(* The interpreted database (interpreted/): joedb::Database, a Writable    *)
(* that executes the operations of a journal on tables held in memory.     *)
(*                                                                         *)
(* A call of the Writable interface (Writable.h) is a record whose field   *)
(* op names the member function.  Names are atoms: NoIdentifier stands for *)
(* the strings that is_identifier refuses.  All the scalar types behave    *)
(* alike and are one type, int32; a reference carries the identifier of    *)
(* the table it points to.                                                 *)
(*                                                                         *)
(* Every member function checks its arguments before its first             *)
(* assignment, so that an operation is its precondition, Accepts, and its  *)
(* effect, Applied.  An operation that is not accepted throws, and changes *)
(* nothing.                                                                *)
(***************************************************************************)
EXTENDS FreedomKeeper, Sequences, Functions

CONSTANT NoIdentifier

null == -1      \* Record_Id::null

int32 == [id |-> "int32", table |-> 0]

reference(t) == [id |-> "reference", table |-> t]

(* The value of a new cell: T{} for a number, Record_Id{} for a reference. *)
Default(type) == IF type.id = "reference" THEN null ELSE 0

-----------------------------------------------------------------------------
(* Calls of a Writable (Writable.h) *)

create_table(name) == [op |-> "create_table", name |-> name]
drop_table(t) == [op |-> "drop_table", t |-> t]
rename_table(t, name) == [op |-> "rename_table", t |-> t, name |-> name]
add_field(t, name, type) == [op |-> "add_field", t |-> t, name |-> name, type |-> type]
drop_field(t, f) == [op |-> "drop_field", t |-> t, f |-> f]
rename_field(t, f, name) == [op |-> "rename_field", t |-> t, f |-> f, name |-> name]
custom(name) == [op |-> "custom", name |-> name]
comment(text) == [op |-> "comment", text |-> text]
timestamp(time) == [op |-> "timestamp", time |-> time]
valid_data == [op |-> "valid_data"]
insert_into(t, r) == [op |-> "insert_into", t |-> t, r |-> r]
insert_vector(t, r, n) == [op |-> "insert_vector", t |-> t, r |-> r, n |-> n]
delete_from(t, r) == [op |-> "delete_from", t |-> t, r |-> r]
delete_vector(t, r, n) == [op |-> "delete_vector", t |-> t, r |-> r, n |-> n]
update(t, r, f, v) == [op |-> "update", t |-> t, r |-> r, f |-> f, v |-> v]
update_vector(t, r, f, vs) == [op |-> "update_vector", t |-> t, r |-> r, f |-> f, vs |-> vs]

SchemaOps == {"create_table", "drop_table", "rename_table",
              "add_field", "drop_field", "rename_field"}

InformationOps == {"custom", "comment", "timestamp", "valid_data"}

RowOps == {"insert_into", "insert_vector", "delete_from", "delete_vector"}

(* The types of the arguments that the effect of a call depends on: a record  *)
(* is an integer, a size is not negative, a vector of values is a sequence.   *)
IsCall(o) ==
  CASE o.op \in SchemaOps \union InformationOps -> TRUE
    [] o.op = "insert_into" -> o.r \in Int /\ o = insert_into(o.t, o.r)
    [] o.op = "delete_from" -> o.r \in Int /\ o = delete_from(o.t, o.r)
    [] o.op = "insert_vector" ->
         o.r \in Int /\ o.n \in Nat /\ o = insert_vector(o.t, o.r, o.n)
    [] o.op = "delete_vector" ->
         o.r \in Int /\ o.n \in Nat /\ o = delete_vector(o.t, o.r, o.n)
    [] o.op = "update" -> o.r \in Int /\ o = update(o.t, o.r, o.f, o.v)
    [] o.op = "update_vector" ->
         /\ o.r \in Int /\ o.vs \in Seq(Range(o.vs))
         /\ o = update_vector(o.t, o.r, o.f, o.vs)
    [] OTHER -> FALSE

-----------------------------------------------------------------------------
(* State: Database_Schema (tables, table_names, current_table_id) and the  *)
(* max_record_id of Database; Table (fields, field_names,                  *)
(* current_field_id, freedom); Field (type, column).                       *)

EmptyMap == [x \in {} |-> x]

Extended(f, x, y) == [z \in DOMAIN f \union {x} |-> IF z = x THEN y ELSE f[z]]

Without(f, x) == Restrict(f, DOMAIN f \ {x})

NewTable(name) ==
  [name |-> name, fields |-> EmptyMap, current_field_id |-> 0, freedom |-> NewKeeper]

Column(type, size) == [r \in 0..(size - 1) |-> Default(type)]

NewField(name, type, size) == [name |-> name, type |-> type, column |-> Column(type, size)]

NewDatabase(max) == [tables |-> EmptyMap, current_table_id |-> 0, max_record_id |-> max]

HasTable(db, t) == t \in DOMAIN db.tables

HasField(db, t, f) == HasTable(db, t) /\ f \in DOMAIN db.tables[t].fields

(* find_table and find_field: 0 when there is none *)
FindName(m, name) ==
  LET ids == {i \in DOMAIN m : m[i].name = name}
  IN IF ids = {} THEN 0 ELSE CHOOSE i \in ids : \A j \in ids : i <= j

FindTable(db, name) == FindName(db.tables, name)

FindField(db, t, name) == FindName(db.tables[t].fields, name)

-----------------------------------------------------------------------------
(* Schema: Database_Schema.cpp, and the fields of Table.cpp *)

AcceptsSchema(db, o) ==
  CASE o.op = "create_table" ->
         o.name # NoIdentifier /\ FindTable(db, o.name) = 0
    [] o.op = "drop_table" -> HasTable(db, o.t)
    [] o.op = "rename_table" ->
         o.name # NoIdentifier /\ FindTable(db, o.name) = 0 /\ HasTable(db, o.t)
    [] o.op = "add_field" ->
         o.name # NoIdentifier /\ HasTable(db, o.t) /\ FindField(db, o.t, o.name) = 0
    [] o.op = "drop_field" -> HasField(db, o.t, o.f)
    [] o.op = "rename_field" ->
         o.name # NoIdentifier /\ HasField(db, o.t, o.f) /\ FindField(db, o.t, o.name) = 0

WithNewTable(db, name) ==
  LET t == db.current_table_id + 1
  IN [db EXCEPT !.current_table_id = t, !.tables = Extended(@, t, NewTable(name))]

WithNewField(table, name, type) ==
  LET f == table.current_field_id + 1
  IN [table EXCEPT !.current_field_id = f,
                   !.fields = Extended(@, f, NewField(name, type, KeeperSize(table.freedom)))]

AppliedSchema(db, o) ==
  CASE o.op = "create_table" -> WithNewTable(db, o.name)
    [] o.op = "drop_table" -> [db EXCEPT !.tables = Without(@, o.t)]
    [] o.op = "rename_table" -> [db EXCEPT !.tables[o.t].name = o.name]
    [] o.op = "add_field" -> [db EXCEPT !.tables[o.t] = WithNewField(@, o.name, o.type)]
    [] o.op = "drop_field" -> [db EXCEPT !.tables[o.t].fields = Without(@, o.f)]
    [] o.op = "rename_field" -> [db EXCEPT !.tables[o.t].fields[o.f].name = o.name]

-----------------------------------------------------------------------------
(* Rows: the checks of Database.cpp, then Table.cpp *)

AcceptsRow(db, o) ==
  LET max   == db.max_record_id
      known == max >= 0
      freedom == db.tables[o.t].freedom
  IN /\ HasTable(db, o.t)
     /\ CASE o.op = "insert_into" ->
               /\ o.r >= 0
               /\ known => o.r <= max
               /\ o.r >= KeeperSize(freedom) \/ ~IsUsed(freedom, o.r)
          [] o.op = "insert_vector" ->
               /\ known => o.r < max /\ o.n < max
               /\ IsFreeVector(freedom, o.r, o.n)
          [] o.op = "delete_from" -> IsUsed(freedom, o.r)
          [] o.op = "delete_vector" -> IsUsedVector(freedom, o.r, o.n)

(* Field::resize keeps the cells, also those of deleted records *)
ResizedFields(fields, size) ==
  [f \in DOMAIN fields |->
    [fields[f] EXCEPT !.column =
      [r \in 0..(size - 1) |-> IF r \in DOMAIN @ THEN @[r] ELSE Default(fields[f].type)]]]

(* Fields are resized, and the freedom keeper grows by push_back *)
GrownTo(table, size) ==
  IF size <= KeeperSize(table.freedom) THEN table
  ELSE [table EXCEPT !.fields = ResizedFields(@, size),
                     !.freedom = Iterate(LAMBDA k, i : PushBack(k), @, 0, size - KeeperSize(@))]

InsertRecord(table, r) == [GrownTo(table, r + 1) EXCEPT !.freedom = Use(@, r)]

InsertVector(table, r, n) ==
  LET size == KeeperSize(table.freedom)
  IN IF r = size
     THEN [table EXCEPT !.fields = ResizedFields(@, size + n),
                        !.freedom = UseVector(Resize(@, size + n), r, n)]
     ELSE Iterate(InsertRecord, table, r, n)

AppliedRow(table, o) ==
  CASE o.op = "insert_into" -> InsertRecord(table, o.r)
    [] o.op = "insert_vector" -> InsertVector(table, o.r, o.n)
    [] o.op = "delete_from" -> [table EXCEPT !.freedom = Free(@, o.r)]
    [] o.op = "delete_vector" -> [table EXCEPT !.freedom = FreeVector(@, o.r, o.n)]

-----------------------------------------------------------------------------
(* Cells: Table.h, Field.h.  update_vector checks the first record and the *)
(* last one only.                                                          *)

AcceptsUpdate(db, o) ==
  /\ HasField(db, o.t, o.f)
  /\ LET freedom == db.tables[o.t].freedom
     IN CASE o.op = "update" -> IsUsed(freedom, o.r)
          [] o.op = "update_vector" ->
               o.vs = <<>> \/ /\ IsUsed(freedom, o.r)
                              /\ IsUsed(freedom, o.r + Len(o.vs) - 1)

AppliedUpdate(column, o) ==
  CASE o.op = "update" -> [column EXCEPT ![o.r] = o.v]
    [] o.op = "update_vector" ->
         [r \in DOMAIN column |->
           IF r - o.r + 1 \in DOMAIN o.vs THEN o.vs[r - o.r + 1] ELSE column[r]]

-----------------------------------------------------------------------------
Accepts(db, o) ==
  CASE o.op \in SchemaOps -> AcceptsSchema(db, o)
    [] o.op \in RowOps -> AcceptsRow(db, o)
    [] o.op \in InformationOps -> TRUE
    [] OTHER -> AcceptsUpdate(db, o)

Applied(db, o) ==
  CASE o.op \in SchemaOps -> AppliedSchema(db, o)
    [] o.op \in RowOps -> [db EXCEPT !.tables[o.t] = AppliedRow(@, o)]
    [] o.op \in InformationOps -> db
    [] OTHER -> [db EXCEPT !.tables[o.t].fields[o.f].column = AppliedUpdate(@, o)]

(* The databases a list of operations builds; Failed when one is refused.  *)
Failed == [failed |-> TRUE]

Play(db, os) ==
  LET d[i \in 0..Len(os)] ==
        IF i = 0 THEN db
        ELSE LET last == d[i - 1]
             IN IF last = Failed \/ ~Accepts(last, os[i]) THEN Failed ELSE Applied(last, os[i])
  IN d[Len(os)]
============================================================================
