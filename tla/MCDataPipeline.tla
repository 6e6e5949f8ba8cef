--------------------------- MODULE MCDataPipeline ---------------------------
(* Small instances of DataPipeline *)
EXTENDS DataPipeline

CONSTANTS tableA, tableB, fieldA, fieldB, d1, d2, j1

(* A table of integers, dense; *)
ScriptDense ==
  <<create_table(tableA), add_field(1, fieldA, int32), insert_vector(1, 0, 2),
    update(1, 0, 1, 2)>>

(* two tables, one that references the other and has a hole. *)
ScriptSparse ==
  <<create_table(tableA), create_table(tableB), add_field(1, fieldA, reference(2)),
    insert_into(2, 0), insert_vector(1, 0, 3), update(1, 2, 1, 0), delete_from(1, 1)>>

MCScripts == {<<>>, ScriptDense, ScriptSparse}

MCScriptDense == {ScriptDense}

Symmetry == Permutations({d1, d2})
============================================================================
