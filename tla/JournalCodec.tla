---------------------------- MODULE JournalCodec ----------------------------
(***************************************************************************)
(* What a journal stores: Writable_Journal encodes the calls of the        *)
(* Writable interface (Writable_Journal.cpp), Readonly_Journal decodes     *)
(* them and calls another Writable (Readonly_Journal.cpp).                 *)
(*                                                                         *)
(* The most frequent operations have short forms that leave out what the   *)
(* previous operation already said: append, update_last and update_next    *)
(* depend on the context of the journal, three members that both the       *)
(* writing and the reading side keep, and that only the constructor and    *)
(* rewind reset.  The bytes of an operation are abstracted to a record:    *)
(* its code, and the arguments that are written after it.                  *)
(***************************************************************************)
EXTENDS InterpretedDatabase

(* table_of_last_operation, record_of_last_operation, field_of_last_update *)
ResetContext == [table |-> 0, record |-> -1, field |-> 0]

-----------------------------------------------------------------------------
(* Writable_Journal::insert_into and generic_update: the form they choose *)

IsAppend(ctx, o) ==
  o.op = "insert_into" /\ o.t = ctx.table /\ o.r = ctx.record + 1

IsUpdateLast(ctx, o) ==
  o.op = "update" /\ o.t = ctx.table /\ o.r = ctx.record

IsUpdateNext(ctx, o) ==
  o.op = "update" /\ o.t = ctx.table /\ o.r = ctx.record + 1 /\ o.f = ctx.field

Encoded(ctx, o) ==
  CASE IsAppend(ctx, o) -> [code |-> "append"]
    [] IsUpdateLast(ctx, o) -> [code |-> "update_last", f |-> o.f, v |-> o.v]
    [] IsUpdateNext(ctx, o) -> [code |-> "update_next", v |-> o.v]
    [] OTHER -> [code |-> o.op, args |-> o]

(* A mutant: a vector of records leaves the context at its last record. *)
ContextAfterWriteAtLast(ctx, o) ==
  CASE o.op = "insert_into" -> [ctx EXCEPT !.table = o.t, !.record = o.r]
    [] o.op = "insert_vector" -> [ctx EXCEPT !.table = o.t, !.record = o.r + o.n - 1]
    [] o.op \in {"update", "update_vector"} -> [table |-> o.t, record |-> o.r, field |-> o.f]
    [] OTHER -> ctx

(* The context after an operation is written.  The three forms of an        *)
(* update leave it at the record and field that were updated.               *)
ContextAfterWrite(ctx, o) ==
  CASE o.op \in {"insert_into", "insert_vector"} ->
         [ctx EXCEPT !.table = o.t, !.record = o.r]
    [] o.op \in {"update", "update_vector"} -> [table |-> o.t, record |-> o.r, field |-> o.f]
    [] OTHER -> ctx

-----------------------------------------------------------------------------
(* Readonly_Journal::one_step *)

(* A mutant: the record of an append is not remembered. *)
ContextAfterReadNoAppend(ctx, e) ==
  CASE e.code \in {"insert_into", "insert_vector"} ->
         [ctx EXCEPT !.table = e.args.t, !.record = e.args.r]
    [] e.code = "update_next" -> [ctx EXCEPT !.record = @ + 1]
    [] e.code = "update_last" -> [ctx EXCEPT !.field = e.f]
    [] e.code \in {"update", "update_vector"} ->
         [table |-> e.args.t, record |-> e.args.r, field |-> e.args.f]
    [] OTHER -> ctx

ContextAfterRead(ctx, e) ==
  CASE e.code \in {"insert_into", "insert_vector"} ->
         [ctx EXCEPT !.table = e.args.t, !.record = e.args.r]
    [] e.code \in {"append", "update_next"} -> [ctx EXCEPT !.record = @ + 1]
    [] e.code = "update_last" -> [ctx EXCEPT !.field = e.f]
    [] e.code \in {"update", "update_vector"} ->
         [table |-> e.args.t, record |-> e.args.r, field |-> e.args.f]
    [] OTHER -> ctx

(* The call that one_step makes *)
Decoded(ctx, e) ==
  CASE e.code = "append" -> insert_into(ctx.table, ctx.record + 1)
    [] e.code = "update_last" -> update(ctx.table, ctx.record, e.f, e.v)
    [] e.code = "update_next" -> update(ctx.table, ctx.record + 1, ctx.field, e.v)
    [] OTHER -> e.args

(* update_vector: a vector of size 0 is not forwarded.  The values of       *)
(* another one are read directly into the storage of the database, when     *)
(* they fit there, before Database::update_vector makes its own checks.     *)
(* The test before that, "update_vector too big", compares the size with the *)
(* checkpoint: each value takes a byte at least, so that what a writer has   *)
(* checkpointed always passes it.                                            *)
IsSkipped(e) == e.code = "update_vector" /\ e.args.vs = <<>>

VectorFits(db, o) ==
  /\ HasField(db, o.t, o.f)
  /\ o.r >= 0
  /\ o.r + Len(o.vs) <= KeeperSize(db.tables[o.t].freedom)

(* A reader is the context of its journal and the database that it feeds.  *)
NewReader(max) == [ctx |-> ResetContext, db |-> NewDatabase(max)]

one_step(reader, e) ==
  LET o   == Decoded(reader.ctx, e)
      ctx == ContextAfterRead(reader.ctx, e)
      ok  == Accepts(reader.db, o) /\ (o.op = "update_vector" => VectorFits(reader.db, o))
  IN IF reader.db = Failed THEN reader
     ELSE IF IsSkipped(e) THEN [reader EXCEPT !.ctx = ctx]
     ELSE [ctx |-> ctx, db |-> IF ok THEN Applied(reader.db, o) ELSE Failed]

(* raw_play_until *)
raw_play(reader, es) ==
  LET p[i \in 0..Len(es)] == IF i = 0 THEN reader ELSE one_step(p[i - 1], es[i])
  IN p[Len(es)]

(* The contexts that a list of calls goes through, and its encoding *)
Contexts(ctx, os) ==
  LET c[i \in 0..Len(os)] == IF i = 0 THEN ctx ELSE ContextAfterWrite(c[i - 1], os[i])
  IN c

ContextAfterAll(ctx, os) == Contexts(ctx, os)[Len(os)]

EncodedAll(ctx, os) ==
  LET c == Contexts(ctx, os)
  IN [i \in 1..Len(os) |-> Encoded(c[i - 1], os[i])]
============================================================================
