---------------------------- MODULE DataPipeline ----------------------------
(***************************************************************************)
(* From a call of the Writable interface to every reader of the file:      *)
(* clients that share a journal write to it in turn, and read back what    *)
(* the others wrote; the tools (logdump, pack, dump, SQL, JSON) read it    *)
(* from the start.                                                         *)
(*                                                                         *)
(* A database client (Writable_Database_Client) multiplexes every call to  *)
(* its database, then to its journal, and replays the journal into its     *)
(* database before a transaction.  A journal client                        *)
(* (Writable_Journal_Client) has no database: it skips to the checkpoint.  *)
(* The locking protocol itself is in module Journal; here a transaction    *)
(* holds the lock, and what it wrote becomes visible at its checkpoint.    *)
(***************************************************************************)
EXTENDS Writables

CONSTANTS DatabaseClients, JournalClients,
          TableNames, FieldNames, Values,
          MaxTable, MaxField, MaxRecord,  \* bounds on identifiers
          MaxOps,                         \* bound on the calls after the script
          Scripts                         \* the calls that built the file before

Clients == DatabaseClients \union JournalClients

Nobody == 0

ASSUME ClientAssumption == Nobody \notin Clients

ASSUME BoundAssumption == {MaxTable, MaxField, MaxRecord, MaxOps} \subseteq Nat

(* A file is what calls that were all accepted have written. *)
IsScript(os) ==
  /\ os \in Seq(Range(os))
  /\ \A i \in 1..Len(os) : IsCall(os[i])
  /\ Play(NewDatabase(null), os) # Failed

ASSUME ScriptAssumption == \A script \in Scripts : IsScript(script)

VARIABLES
  clients,   \* of each client: context of its journal, database, and the
             \* committed operations that its journal did not read yet
  holder,    \* the client whose transaction is running
  pending,   \* operations of that transaction, not covered by a checkpoint
  tools,     \* what the tools compute from the committed operations
  meant,     \* the calls executed without any journal: committed and current
  count

vars == <<clients, holder, pending, tools, meant, count>>

-----------------------------------------------------------------------------
(* The tools: a reader whose database is multiplexed with the dumps         *)

NewTools ==
  [ctx |-> ResetContext, db |-> NewDatabase(null), schema |-> NewDatabase(null),
   text |-> NewDatabase(null), sql |-> EmptyMap]

(* A mutant: the schema comes first in the multiplexer of the dumps. *)
DumpedSchemaFirst(tool, o) ==
  [tool EXCEPT !.schema = IF o.op \in SchemaOps THEN Applied(@, o) ELSE @,
               !.text = Interpret(@, Text(IF o.op \in SchemaOps THEN Applied(tool.schema, o)
                                          ELSE tool.schema, o)),
               !.sql = SqlDumped(@, tool.schema, o)]

(* Interpreter_Dump_Writable and SQL_Dump_Writable print an operation, then  *)
(* apply it to their own schema; pack keeps the operations of the schema.    *)
Dumped(tool, o) ==
  [tool EXCEPT !.schema = IF o.op \in SchemaOps /\ Selected({"schema"}, o)
                          THEN Applied(@, o) ELSE @,
               !.text = Interpret(@, Text(tool.schema, o)),
               !.sql = SqlDumped(@, tool.schema, o)]

(* The dumps get what the database of the reader has accepted.  (With --load *)
(* the dump comes first, and prints one operation more of a file that the    *)
(* database refuses; without it there is no database.  On the files that     *)
(* programs of this kind write, the outcome is the same.)                    *)
ToolRead(tool, e, reader) ==
  [IF reader.db = Failed \/ IsSkipped(e) THEN tool ELSE Dumped(tool, Decoded(tool.ctx, e))
   EXCEPT !.ctx = reader.ctx, !.db = reader.db]

ToolStep(tool, e) == ToolRead(tool, e, one_step([ctx |-> tool.ctx, db |-> tool.db], e))

ToolRun(tool, es) ==
  LET t[i \in 0..Len(es)] == IF i = 0 THEN tool ELSE ToolStep(t[i - 1], es[i])
  IN t[Len(es)]

-----------------------------------------------------------------------------
(* Clients *)

ClientAt(reader) ==
  [ctx |-> reader.ctx, db |-> reader.db, unread |-> <<>>, alive |-> reader.db # Failed]

(* read_journal: play_until_checkpoint, or skip_directly_to the checkpoint *)
read_journal(c) ==
  IF c \in JournalClients THEN [clients[c] EXCEPT !.unread = <<>>]
  ELSE ClientAt(raw_play([ctx |-> clients[c].ctx, db |-> clients[c].db], clients[c].unread))

Pull(c) ==
  /\ clients[c].alive /\ holder = Nobody /\ clients[c].unread # <<>>
  /\ clients' = [clients EXCEPT ![c] = read_journal(c)]
  /\ UNCHANGED <<holder, pending, tools, meant, count>>

(* get_tail_lock and start_transaction *)
start_transaction(c) ==
  /\ clients[c].alive /\ holder = Nobody /\ count < MaxOps
  /\ clients' = [clients EXCEPT ![c] = read_journal(c)]
  /\ holder' = IF clients'[c].alive THEN c ELSE Nobody
  /\ UNCHANGED <<pending, tools, meant, count>>

(* Multiplexer: the database comes first, and the journal is not reached     *)
(* when it throws.  The calls after the one that throws are not made.        *)
AcceptedPrefix(db, os) ==
  LET n == CHOOSE k \in 0..Len(os) :
             \A i \in 1..Len(os) : (i <= k) = (Play(db, SubSeq(os, 1, i)) # Failed)
  IN SubSeq(os, 1, n)

Multiplex(c, made) ==
  /\ made # <<>>
  /\ pending' = pending \o EncodedAll(clients[c].ctx, made)
  /\ clients' = [clients EXCEPT ![c].ctx = ContextAfterAll(@, made),
                                ![c].db = IF c \in DatabaseClients THEN Play(@, made) ELSE @]
  /\ meant' = [meant EXCEPT !.current = Play(@, made)]
  /\ count' = count + 1
  /\ UNCHANGED <<holder, tools>>

Writes(c, os) ==
  /\ holder = c /\ count < MaxOps
  /\ Multiplex(c, AcceptedPrefix(meant.current, os))

(* do_checkpoint and push_unlock *)
Commit(c) ==
  /\ holder = c
  /\ holder' = Nobody
  /\ pending' = <<>>
  /\ tools' = ToolRun(tools, pending)
  /\ clients' = [d \in Clients |->
       IF d = c \/ ~clients[d].alive THEN clients[d]
       ELSE [clients[d] EXCEPT !.unread = @ \o pending]]
  /\ meant' = [meant EXCEPT !.committed = meant.current]
  /\ UNCHANGED count

(* An exception in the transaction: its operations stay behind the           *)
(* checkpoint and are overwritten; the client cannot lock again.             *)
Abort(c) ==
  /\ holder = c /\ pending # <<>>
  /\ holder' = Nobody
  /\ pending' = <<>>
  /\ clients' = [clients EXCEPT ![c].alive = FALSE]
  /\ meant' = [meant EXCEPT !.current = meant.committed]
  /\ UNCHANGED <<tools, count>>

-----------------------------------------------------------------------------
(* The calls and commands of a user *)

Tables == DOMAIN meant.current.tables

Fields(t) == DOMAIN meant.current.tables[t].fields

ValuesOf(t, f) ==
  IF meant.current.tables[t].fields[f].type.id = "reference" THEN null..MaxRecord ELSE Values

FieldCalls(t) ==
  {<<drop_field(t, f)>> : f \in Fields(t)}
  \union {<<rename_field(t, f, n)>> : f \in Fields(t), n \in FieldNames}

SchemaCalls ==
  LET tables == {x \in Tables \X FieldNames :
                   meant.current.tables[x[1]].current_field_id < MaxField}
      types  == {int32} \union {reference(u) : u \in Tables}
  IN {<<create_table(n)>> : n \in {m \in TableNames : meant.current.current_table_id < MaxTable}}
     \union {<<drop_table(t)>> : t \in Tables}
     \union {<<rename_table(t, n)>> : t \in Tables, n \in TableNames}
     \union {<<add_field(x[1], x[2], type)>> : x \in tables, type \in types}
     \union {AddFieldWithDefault(meant.current, x[1], x[2], type, 1) : x \in tables, type \in types}
     \union UNION {FieldCalls(t) : t \in Tables}

RowCalls ==
  LET vectors == {x \in (0..MaxRecord) \X {0, 2} : x[1] + x[2] - 1 <= MaxRecord}
      growing == {t \in Tables : KeeperSize(meant.current.tables[t].freedom) <= MaxRecord}
  IN {<<insert_into(t, r)>> : t \in Tables, r \in 0..MaxRecord}
     \union {<<delete_from(t, r)>> : t \in Tables, r \in 0..MaxRecord}
     \union {<<insert_vector(t, x[1], x[2])>> : t \in Tables, x \in vectors}
     \union {<<delete_vector(t, x[1], x[2])>> : t \in Tables, x \in vectors}
     \union {append_into(meant.current, t, <<v, v>>) : t \in growing, v \in Values}

CellCalls ==
  LET vectors == {x \in (0..MaxRecord) \X {0, 2, 3} : x[1] + x[2] - 1 <= MaxRecord}
  IN UNION {UNION {
       {<<update(t, r, f, v)>> : r \in 0..MaxRecord, v \in ValuesOf(t, f)}
       \union {<<update_vector(t, x[1], f, [i \in 1..x[2] |-> 1])>> : x \in vectors}
       : f \in Fields(t)} : t \in Tables}

ChangeSchema(c) == \E os \in SchemaCalls : Writes(c, os)

ChangeRows(c) == \E os \in RowCalls : Writes(c, os)

ChangeCells(c) == \E os \in CellCalls : Writes(c, os)

Remark(c) == Writes(c, <<comment("text")>>)

-----------------------------------------------------------------------------
(* The file that a script has built, as every program finds it               *)
InitAfter(es, reader, db) ==
  /\ clients = [c \in Clients |->
       ClientAt(IF c \in DatabaseClients THEN reader ELSE NewReader(null))]
  /\ holder = Nobody
  /\ pending = <<>>
  /\ tools = ToolRun(NewTools, es)
  /\ meant = [committed |-> db, current |-> db]
  /\ count = 0

Init ==
  \E script \in Scripts :
    \E es \in {EncodedAll(ResetContext, script)} :
      InitAfter(es, raw_play(NewReader(null), es), Play(NewDatabase(null), script))

Next ==
  \E c \in Clients :
    \/ Pull(c)
    \/ start_transaction(c)
    \/ ChangeSchema(c)
    \/ ChangeRows(c)
    \/ ChangeCells(c)
    \/ Remark(c)
    \/ Commit(c)
    \/ Abort(c)

Spec == Init /\ [][Next]_vars

-----------------------------------------------------------------------------
(* The file can always be read, and says what was meant: a reader that       *)
(* decodes the committed operations from the start accepts them all and      *)
(* obtains the database of the writers (contexts of the short forms,         *)
(* Readonly_Journal.cpp:278-341 against Writable_Journal.cpp:282-444).       *)
ReadersSeeWhatWasWritten == tools.db = meant.committed

(* Clients that read everything hold the same database, down to the order    *)
(* of the lists of records, and the same context, so that the next one to    *)
(* write encodes for all the others.                                         *)
ReplicasAgree ==
  \A c \in DatabaseClients :
    clients[c].alive /\ clients[c].unread = <<>> =>
      /\ clients[c].db = IF holder = c THEN meant.current ELSE meant.committed
      /\ holder # c => clients[c].ctx = tools.ctx

(* The lists of used and free records of every table stay sound, and its     *)
(* columns have its size, which is what makes every access by record valid.  *)
KeepersSound ==
  \A t \in Tables :
    LET table == meant.current.tables[t]
    IN /\ KeeperIsSound(table.freedom)
       /\ \A f \in DOMAIN table.fields :
            DOMAIN table.fields[f].column = 0..(KeeperSize(table.freedom) - 1)

(* The text that logdump prints, executed by the interpreter, rebuilds the   *)
(* database, identifiers and record lists included.                          *)
TextRoundTrip == tools.db # Failed => tools.text = tools.db

(* A copy loses nothing: a packed file holds the same records and values,    *)
(* and the text of dump, executed by the interpreter, rebuilds a database    *)
(* with the same names, records and values, except if a field references a   *)
(* table that was dropped.                                                   *)
CopiesFaithful ==
  LET step(s, o) == [schema |-> IF o.op \in SchemaOps THEN Applied(s.schema, o) ELSE s.schema,
                     db |-> Interpret(s.db, Text(s.schema, o))]
      same(db) == db # Failed /\ View(db) = View(tools.db)
  IN tools.db # Failed =>
       /\ same(raw_play([ctx |-> ResetContext, db |-> tools.schema],
                        EncodedAll(ResetContext, DumpData(tools.db))).db)
       /\ ~HasDanglingType(tools.db) =>
            same(FoldLeft(step, [schema |-> NewDatabase(null), db |-> NewDatabase(null)],
                          Dump(tools.db)).db)

(* A reference in the JSON output is -1, or the index in the columns of its  *)
(* target table of the record that it references.                            *)
JsonReferences ==
  LET json == Json(tools.db)
  IN \A t \in DOMAIN tools.db.tables : \A f \in DOMAIN tools.db.tables[t].fields :
       LET type == tools.db.tables[t].fields[f].type
           used == Ascending(UsedRecords(tools.db, t))
       IN type.id = "reference" /\ HasTable(tools.db, type.table) =>
            LET targets == Ascending(UsedRecords(tools.db, type.table))
            IN \A i \in 1..Len(used) :
                 LET v == tools.db.tables[t].fields[f].column[used[i]]
                     j == json[t].columns[f][i]
                 IN IF v \in UsedRecords(tools.db, type.table)
                    THEN j < json[type.table].size /\ targets[j + 1] = v
                    ELSE j = -1

(* The exports say what the database says: the SQL dump builds the same      *)
(* tables, columns and rows, with cells that are NULL or have the value of   *)
(* the database, and the references of the JSON output designate the same    *)
(* records.                                                                  *)
ExportsFaithful ==
  tools.db # Failed =>
    LET view == View(tools.db)
    IN /\ DOMAIN tools.sql = DOMAIN view
       /\ \A n \in DOMAIN view :
            /\ tools.sql[n].columns = DOMAIN view[n].types
            /\ DOMAIN tools.sql[n].rows = DOMAIN view[n].rows
            /\ \A r \in DOMAIN view[n].rows, m \in DOMAIN view[n].types :
                 tools.sql[n].rows[r][m] \in {NULL, SqlValue(view[n].rows[r][m])}
       /\ JsonReferences
============================================================================
