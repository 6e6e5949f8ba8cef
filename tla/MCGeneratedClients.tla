------------------------- MODULE MCGeneratedClients -------------------------
(* Small instances of GeneratedClients: two versions of a schema.  The       *)
(* second one adds a field with a default value, a table with a single row,  *)
(* and a custom function that clears a table; it drops a field.              *)
EXTENDS GeneratedClients

CONSTANTS tableA, tableB, tableC, fieldA, fieldB, fix, w1, w2, r1

MCVersions == {1, 2}

Schema1 ==
  <<create_table(tableA), add_field(1, fieldA, int32), create_table(tableB),
    add_field(2, fieldA, int32)>>

MCSchema ==
  [v \in MCVersions |->
    IF v = 1 THEN Schema1
    ELSE Schema1 \o <<add_field(1, fieldB, int32), create_table(tableC),
                      add_field(3, fieldA, int32), custom(fix), drop_field(2, 1)>>]

MCIndexes ==
  [v \in MCVersions |->
    IF v = 1 THEN <<[unique |-> TRUE, t |-> 1, fs |-> <<1>>]>>
    ELSE <<[unique |-> FALSE, t |-> 1, fs |-> <<2, 1>>], [unique |-> TRUE, t |-> 1, fs |-> <<1>>]>>]

MCSingleRow == [v \in MCVersions |-> IF v = 1 THEN {} ELSE {3}]

MCDefaults == [v \in MCVersions |->
  IF v = 1 THEN EmptyMap ELSE (1 :> (2 :> 2)) @@ (3 :> (1 :> 1))]

MCCustomClears == fix :> 2

MCVersionOf == [p \in {w1, w2, r1} |-> IF p = w1 THEN 1 ELSE 2]

MCVersionOfSame == [p \in {w1, w2, r1} |-> 1]

LogOfRecords ==
  Schema1 \o <<insert_vector(1, 0, 2), update(1, 0, 1, 1), update(1, 1, 1, 2), insert_into(2, 0),
               update(2, 0, 1, 1)>>

MCLogs == {<<>>, LogOfRecords}

MCLogOfRecords == {LogOfRecords}
=============================================================================
