------------------------- MODULE DataPipelineProofs -------------------------
(***************************************************************************)
(* For any clients, any script and any number of calls: the tables of the  *)
(* database stay sound, the file can always be read, and says what was     *)
(* meant.                                                                  *)
(*                                                                         *)
(* Three facts carry the proof.  An accepted call keeps the invariant of   *)
(* the database (DBInv).  What the journal writes for a call is read back  *)
(* as this call, in the context where it was written (ReadBack).  And a    *)
(* client that is late is at most a replay away from the tools (PipeInv).  *)
(***************************************************************************)
EXTENDS DataPipeline, FreedomKeeperProofs, FiniteSetTheorems

-----------------------------------------------------------------------------
(***************************************************************************)
(* The interpreted database.                                               *)
(***************************************************************************)

FieldInv(field, size) ==
  /\ field = [name |-> field.name, type |-> field.type, column |-> field.column]
  /\ field.column = [r \in 0..(size - 1) |-> field.column[r]]

FieldsInv(fields, size) ==
  /\ fields = [f \in DOMAIN fields |-> fields[f]]
  /\ IsFiniteSet(DOMAIN fields)
  /\ \A f \in DOMAIN fields : FieldInv(fields[f], size)

Table(name, fields, current_field_id, freedom) ==
  [name |-> name, fields |-> fields, current_field_id |-> current_field_id,
   freedom |-> freedom]

TableInv(table) ==
  /\ table = Table(table.name, table.fields, table.current_field_id, table.freedom)
  /\ KeeperInv(table.freedom)
  /\ FieldsInv(table.fields, KeeperSize(table.freedom))

Database(tables, current_table_id, max_record_id) ==
  [tables |-> tables, current_table_id |-> current_table_id, max_record_id |-> max_record_id]

DBInv(db) ==
  /\ db = Database(db.tables, db.current_table_id, db.max_record_id)
  /\ db.tables = [t \in DOMAIN db.tables |-> db.tables[t]]
  /\ \A t \in DOMAIN db.tables : TableInv(db.tables[t])

(* A table is made of a sound keeper and of columns of its size. *)
LEMMA TableIs ==
  ASSUME NEW name, NEW fields, NEW id, NEW freedom,
         KeeperInv(freedom), FieldsInv(fields, KeeperSize(freedom))
  PROVE  TableInv(Table(name, fields, id, freedom))
BY DEF TableInv, Table

(* Replacing a table by a sound one *)
LEMMA DatabaseIs ==
  ASSUME NEW db, DBInv(db), NEW t \in DOMAIN db.tables, NEW table, TableInv(table),
         NEW l, l = Database([db.tables EXCEPT ![t] = table], db.current_table_id,
                             db.max_record_id)
  PROVE  DBInv(l)
<1>1. /\ l.tables = [db.tables EXCEPT ![t] = table]
      /\ l = Database(l.tables, l.current_table_id, l.max_record_id)
  BY DEF Database
<1>2. /\ DOMAIN l.tables = DOMAIN db.tables
      /\ l.tables = [u \in DOMAIN l.tables |-> l.tables[u]]
      /\ \A u \in DOMAIN l.tables : l.tables[u] = IF u = t THEN table ELSE db.tables[u]
  BY <1>1
<1>3. \A u \in DOMAIN l.tables : TableInv(l.tables[u])
  BY <1>2 DEF DBInv
<1> QED
  BY <1>1, <1>2, <1>3 DEF DBInv

(* resize gives every column the new size. *)
LEMMA ResizedFieldsInv ==
  ASSUME NEW fields, NEW m, FieldsInv(fields, m), NEW size \in Nat,
         NEW g, g = ResizedFields(fields, size)
  PROVE  FieldsInv(g, size)
<1>1. DOMAIN g = DOMAIN fields /\ g = [f \in DOMAIN g |-> g[f]]
  BY DEF ResizedFields
<1>2. ASSUME NEW f \in DOMAIN fields
      PROVE  FieldInv(g[f], size)
  <2> DEFINE column == [r \in 0..(size - 1) |->
                         IF r \in DOMAIN fields[f].column THEN fields[f].column[r]
                         ELSE Default(fields[f].type)]
  <2>1. g[f] = [fields[f] EXCEPT !.column = column]
    BY DEF ResizedFields
  <2>2. fields[f] = [name |-> fields[f].name, type |-> fields[f].type,
                     column |-> fields[f].column]
    BY <1>2 DEF FieldsInv, FieldInv
  <2>3. column = [r \in 0..(size - 1) |-> column[r]]
    OBVIOUS
  <2> HIDE DEF column
  <2>4. g[f] = [name |-> fields[f].name, type |-> fields[f].type, column |-> column]
    BY <2>1, <2>2
  <2> QED
    BY <2>3, <2>4 DEF FieldInv
<1> QED
  BY <1>1, <1>2 DEF FieldsInv

(* The loop of a table that grows *)
Grown(k, first, n) == Iterate(LAMBDA l, i : PushBack(l), k, first, n)

(* The keepers that a table goes through when it grows *)
LEMMA GrowTimes ==
  ASSUME NEW k, NEW first \in Int, NEW n \in Nat
  PROVE  \E g : /\ g[0] = k /\ g[n] = Grown(k, first, n)
                /\ \A i \in 0..(n - 1) : g[i + 1] = PushBack(g[i])
<1> DEFINE Is(g, m) == g = [i \in 0..m |-> IF i = 0 THEN k ELSE PushBack(g[i - 1])]
           S == {m \in 0..n : \E g : Is(g, m)}
<1>1. 0 \in S
  <2>1. Is([i \in 0..0 |-> k], 0)
    OBVIOUS
  <2>2. \E g : Is(g, 0)
    BY <2>1
  <2> HIDE DEF Is
  <2> QED
    BY <2>2
<1>2. ASSUME NEW m \in 0..(n - 1), m \in S
      PROVE  m + 1 \in S
  <2>1. PICK g : Is(g, m)
    BY <1>2
  <2> DEFINE h == [i \in 0..(m + 1) |-> IF i = m + 1 THEN PushBack(g[m]) ELSE g[i]]
  <2>2. \A i \in 0..m : g[i] = IF i = 0 THEN k ELSE PushBack(g[i - 1])
    BY <2>1
  <2>3. ASSUME NEW i \in 0..(m + 1)
        PROVE  h[i] = IF i = 0 THEN k ELSE PushBack(h[i - 1])
    <3>1. CASE i = m + 1
      <4>1. h[i - 1] = g[m] /\ first + i - 1 = first + m /\ i # 0
        BY <3>1
      <4> QED
        BY <3>1, <4>1
    <3>2. CASE i # m + 1
      <4>1. i \in 0..m /\ h[i] = g[i] /\ (i # 0 => h[i - 1] = g[i - 1])
        BY <3>2
      <4> QED
        BY <2>2, <4>1
    <3> QED
      BY <3>1, <3>2
  <2>4. h = [i \in 0..(m + 1) |-> h[i]]
    OBVIOUS
  <2> HIDE DEF h
  <2>5. Is(h, m + 1)
    BY <2>3, <2>4
  <2> QED
    BY <2>5
<1> HIDE DEF S
<1>3. n \in S
  <2>1. \A m \in 0..n : m \in S
    BY <1>1, <1>2, InductionUpTo
  <2> QED
    BY <2>1
<1>4. \E g : Is(g, n)
  BY <1>3 DEF S
<1> DEFINE c == CHOOSE g : Is(g, n)
<1>5. Is(c, n)
  BY <1>4
<1>6. c[n] = Grown(k, first, n)
  BY DEF Grown, Iterate
<1> HIDE DEF c
<1>7. c[0] = k /\ \A i \in 0..(n - 1) : c[i + 1] = PushBack(c[i])
  <2>1. ASSUME NEW i \in 0..n
        PROVE  c[i] = IF i = 0 THEN k ELSE PushBack(c[i - 1])
    BY <1>5
  <2>2. ASSUME NEW i \in 0..(n - 1)
        PROVE  c[i + 1] = PushBack(c[i])
    <3>1. i + 1 \in 0..n /\ i + 1 # 0 /\ i + 1 - 1 = i /\ first + (i + 1) - 1 = first + i
      OBVIOUS
    <3> QED
      BY <2>1, <3>1
  <2>3. 0 \in 0..n
    OBVIOUS
  <2> QED
    BY <2>1, <2>2, <2>3
<1> QED
  BY <1>6, <1>7

(* The keeper of a table that grows *)
LEMMA GrownKeeps ==
  ASSUME NEW k, KeeperInv(k), NEW n \in Nat, NEW l, l = Grown(k, 0, n)
  PROVE  /\ KeeperInv(l) /\ KeeperSize(l) = KeeperSize(k) + n
         /\ \A i \in Nat : IsUsed(l, i) <=> IsUsed(k, i)
<1>1. PICK g : /\ g[0] = k /\ g[n] = Grown(k, 0, n)
               /\ \A i \in 0..(n - 1) : g[i + 1] = PushBack(g[i])
  BY GrowTimes, 0 \in Int
<1>2. KeeperSize(k) \in Nat
  BY KeeperTypes
<1> DEFINE Good(m) ==
             /\ KeeperInv(g[m]) /\ KeeperSize(g[m]) = KeeperSize(k) + m
             /\ \A i \in Nat : IsUsed(g[m], i) <=> IsUsed(k, i)
           S == {m \in 0..n : Good(m)}
<1>3. 0 \in S
  <2>1. Good(0)
    BY <1>1, <1>2
  <2> QED
    BY <2>1
<1>4. ASSUME NEW m \in 0..(n - 1), m \in S
      PROVE  m + 1 \in S
  <2>1. Good(m)
    BY <1>4
  <2>2. g[m + 1] = PushBack(g[m])
    BY <1>1
  <2>3. /\ KeeperInv(g[m + 1]) /\ KeeperSize(g[m + 1]) = KeeperSize(g[m]) + 1
        /\ \A i \in Nat : IsUsed(g[m + 1], i) <=> IsUsed(g[m], i)
    <3> DEFINE x == g[m]
               y == g[m + 1]
    <3>1. KeeperInv(x) /\ y = PushBack(x)
      BY <2>1, <2>2
    <3> HIDE DEF x, y
    <3>2. /\ Keeps(x, y, KeeperSize(x) + 1, UsedCount(x))
          /\ \A i \in Nat : IsUsed(y, i) <=> IsUsed(x, i)
      BY <3>1, PushBackKeeps
    <3> QED
      BY <3>2 DEF x, y, Keeps
  <2>4. KeeperSize(g[m + 1]) = KeeperSize(k) + (m + 1)
    BY <1>2, <2>1, <2>3
  <2>5. Good(m + 1)
    BY <2>1, <2>3, <2>4
  <2>6. m + 1 \in 0..n
    OBVIOUS
  <2> HIDE DEF Good
  <2> QED
    BY <2>5, <2>6
<1>5. n \in S
  <2> HIDE DEF S
  <2>1. \A m \in 0..n : m \in S
    BY <1>3, <1>4, InductionUpTo
  <2> QED
    BY <2>1
<1>6. Good(n)
  BY <1>5
<1>7. l = g[n]
  BY <1>1
<1> QED
  BY <1>6, <1>7

(* A table that grows stays sound. *)
LEMMA GrownToInv ==
  ASSUME NEW table, TableInv(table), NEW size \in Nat, NEW l, l = GrownTo(table, size)
  PROVE  /\ TableInv(l)
         /\ KeeperSize(l.freedom) = IF size <= KeeperSize(table.freedom)
                                    THEN KeeperSize(table.freedom) ELSE size
         /\ \A i \in Nat : IsUsed(l.freedom, i) <=> IsUsed(table.freedom, i)
<1> DEFINE k == table.freedom
<1>1. KeeperInv(k) /\ KeeperSize(k) \in Nat /\ FieldsInv(table.fields, KeeperSize(k))
  BY KeeperTypes DEF TableInv
<1>2. CASE size <= KeeperSize(k)
  BY <1>2 DEF GrownTo
<1>3. CASE ~(size <= KeeperSize(k))
  <2> DEFINE n == size - KeeperSize(k)
             m == Grown(k, 0, n)
             g == ResizedFields(table.fields, size)
  <2>1. n \in Nat /\ KeeperSize(k) + n = size
    BY <1>1, <1>3
  <2>2. l = Table(table.name, g, table.current_field_id, m)
    <3>1. l = [table EXCEPT !.fields = g, !.freedom = m]
      BY <1>3 DEF GrownTo, Grown
    <3>2. table = Table(table.name, table.fields, table.current_field_id, table.freedom)
      BY DEF TableInv
    <3> HIDE DEF g, m
    <3> QED
      BY <3>1, <3>2 DEF Table
  <2> HIDE DEF n
  <2>3. /\ KeeperInv(m) /\ KeeperSize(m) = size
        /\ \A i \in Nat : IsUsed(m, i) <=> IsUsed(k, i)
    <3> HIDE DEF k, m
    <3> QED
      BY <1>1, <2>1, GrownKeeps DEF m
  <2>4. FieldsInv(g, size)
    BY <1>1, ResizedFieldsInv
  <2> HIDE DEF m, g
  <2>5. TableInv(l) /\ l.freedom = m
    BY <2>2, <2>3, <2>4, TableIs DEF Table
  <2> QED
    BY <1>3, <2>3, <2>5
<1> QED
  BY <1>2, <1>3

(* An insertion uses a record that is free, or that the table does not have. *)
LEMMA InsertRecordInv ==
  ASSUME NEW table, TableInv(table), NEW r \in Nat, ~IsUsed(table.freedom, r),
         NEW l, l = InsertRecord(table, r)
  PROVE  /\ TableInv(l)
         /\ \A i \in Nat : IsUsed(l.freedom, i) <=> IsUsed(table.freedom, i) \/ i = r
<1> DEFINE m == GrownTo(table, r + 1)
           k == m.freedom
           u == UseVector(k, r, 1)
<1>1. /\ TableInv(m) /\ r + 1 <= KeeperSize(m.freedom)
      /\ \A i \in Nat : IsUsed(m.freedom, i) <=> IsUsed(table.freedom, i)
  <2> HIDE DEF m
  <2>1. r + 1 \in Nat /\ KeeperSize(table.freedom) \in Nat
    BY KeeperTypes DEF TableInv
  <2>2. /\ TableInv(m)
        /\ KeeperSize(m.freedom) = IF r + 1 <= KeeperSize(table.freedom)
                                   THEN KeeperSize(table.freedom) ELSE r + 1
        /\ \A i \in Nat : IsUsed(m.freedom, i) <=> IsUsed(table.freedom, i)
    BY <2>1, GrownToInv DEF m
  <2> QED
    BY <2>1, <2>2
<1>2. /\ m = Table(m.name, m.fields, m.current_field_id, m.freedom)
      /\ KeeperInv(m.freedom) /\ FieldsInv(m.fields, KeeperSize(m.freedom))
  BY <1>1 DEF TableInv
<1>3. l = [m EXCEPT !.freedom = u]
  BY DEF InsertRecord, Use
<1> HIDE DEF m
<1>4. l = Table(m.name, m.fields, m.current_field_id, u)
  <2> HIDE DEF u
  <2> QED
    BY <1>2, <1>3 DEF Table
<1>5. /\ Keeps(k, u, KeeperSize(k), UsedCount(k) + 1)
      /\ \A i \in Nat : IsUsed(u, i) <=> IsUsed(k, i) \/ In(i, r, 1)
  <2>1. KeeperInv(k) /\ r + 1 <= KeeperSize(k) /\ 1 \in Nat
    BY <1>1, <1>2
  <2>2. \A i \in r..(r + 1 - 1) : ~IsUsed(k, i)
    BY <1>1
  <2> HIDE DEF k, u
  <2> QED
    BY <2>1, <2>2, UseVectorKeeps DEF u
<1>6. KeeperInv(u) /\ KeeperSize(u) = KeeperSize(m.freedom)
  BY <1>5 DEF Keeps
<1>7. \A i \in Nat : In(i, r, 1) <=> i = r
  BY DEF In
<1> HIDE DEF u
<1>8. TableInv(l) /\ l.freedom = u
  BY <1>2, <1>4, <1>6, TableIs DEF Table
<1> QED
  BY <1>1, <1>5, <1>7, <1>8

(* The loop of an insertion in a table that is not only extended *)
Inserted(k, first, n) == Iterate(InsertRecord, k, first, n)

(* The tables that the insertion of a vector goes through *)
LEMMA InsertTimes ==
  ASSUME NEW k, NEW first \in Int, NEW n \in Nat
  PROVE  \E g : /\ g[0] = k /\ g[n] = Inserted(k, first, n)
                /\ \A i \in 0..(n - 1) : g[i + 1] = InsertRecord(g[i], first + i)
<1> DEFINE Is(g, m) == g = [i \in 0..m |-> IF i = 0 THEN k ELSE InsertRecord(g[i - 1], first + i - 1)]
           S == {m \in 0..n : \E g : Is(g, m)}
<1>1. 0 \in S
  <2>1. Is([i \in 0..0 |-> k], 0)
    OBVIOUS
  <2>2. \E g : Is(g, 0)
    BY <2>1
  <2> HIDE DEF Is
  <2> QED
    BY <2>2
<1>2. ASSUME NEW m \in 0..(n - 1), m \in S
      PROVE  m + 1 \in S
  <2>1. PICK g : Is(g, m)
    BY <1>2
  <2> DEFINE h == [i \in 0..(m + 1) |-> IF i = m + 1 THEN InsertRecord(g[m], first + m) ELSE g[i]]
  <2>2. \A i \in 0..m : g[i] = IF i = 0 THEN k ELSE InsertRecord(g[i - 1], first + i - 1)
    BY <2>1
  <2>3. ASSUME NEW i \in 0..(m + 1)
        PROVE  h[i] = IF i = 0 THEN k ELSE InsertRecord(h[i - 1], first + i - 1)
    <3>1. CASE i = m + 1
      <4>1. h[i - 1] = g[m] /\ first + i - 1 = first + m /\ i # 0
        BY <3>1
      <4> QED
        BY <3>1, <4>1
    <3>2. CASE i # m + 1
      <4>1. i \in 0..m /\ h[i] = g[i] /\ (i # 0 => h[i - 1] = g[i - 1])
        BY <3>2
      <4> QED
        BY <2>2, <4>1
    <3> QED
      BY <3>1, <3>2
  <2>4. h = [i \in 0..(m + 1) |-> h[i]]
    OBVIOUS
  <2> HIDE DEF h
  <2>5. Is(h, m + 1)
    BY <2>3, <2>4
  <2> QED
    BY <2>5
<1> HIDE DEF S
<1>3. n \in S
  <2>1. \A m \in 0..n : m \in S
    BY <1>1, <1>2, InductionUpTo
  <2> QED
    BY <2>1
<1>4. \E g : Is(g, n)
  BY <1>3 DEF S
<1> DEFINE c == CHOOSE g : Is(g, n)
<1>5. Is(c, n)
  BY <1>4
<1>6. c[n] = Inserted(k, first, n)
  BY DEF Inserted, Iterate
<1> HIDE DEF c
<1>7. c[0] = k /\ \A i \in 0..(n - 1) : c[i + 1] = InsertRecord(c[i], first + i)
  <2>1. ASSUME NEW i \in 0..n
        PROVE  c[i] = IF i = 0 THEN k ELSE InsertRecord(c[i - 1], first + i - 1)
    BY <1>5
  <2>2. ASSUME NEW i \in 0..(n - 1)
        PROVE  c[i + 1] = InsertRecord(c[i], first + i)
    <3>1. i + 1 \in 0..n /\ i + 1 # 0 /\ i + 1 - 1 = i /\ first + (i + 1) - 1 = first + i
      OBVIOUS
    <3> QED
      BY <2>1, <3>1
  <2>3. 0 \in 0..n
    OBVIOUS
  <2> QED
    BY <2>1, <2>2, <2>3
<1> QED
  BY <1>6, <1>7

(* Records inserted one by one *)
LEMMA InsertedInv ==
  ASSUME NEW table, TableInv(table), NEW r \in Nat, NEW n \in Nat,
         \A i \in r..(r + n - 1) : ~IsUsed(table.freedom, i),
         NEW l, l = Inserted(table, r, n)
  PROVE  TableInv(l)
<1>1. PICK g : /\ g[0] = table /\ g[n] = Inserted(table, r, n)
               /\ \A i \in 0..(n - 1) : g[i + 1] = InsertRecord(g[i], r + i)
  BY InsertTimes, r \in Int
<1> DEFINE Good(m) ==
             /\ TableInv(g[m])
             /\ \A i \in Nat : IsUsed(g[m].freedom, i) <=>
                                  IsUsed(table.freedom, i) \/ In(i, r, m)
           S == {m \in 0..n : Good(m)}
<1>2. 0 \in S
  <2>1. \A i \in Nat : ~In(i, r, 0)
    BY DEF In
  <2>2. Good(0)
    BY <1>1, <2>1
  <2> QED
    BY <2>2
<1>3. ASSUME NEW m \in 0..(n - 1), m \in S
      PROVE  m + 1 \in S
  <2>1. Good(m)
    BY <1>3
  <2> DEFINE x == g[m]
             y == g[m + 1]
  <2>2. /\ TableInv(x) /\ y = InsertRecord(x, r + m)
        /\ \A i \in Nat : IsUsed(x.freedom, i) <=> IsUsed(table.freedom, i) \/ In(i, r, m)
    BY <1>1, <2>1
  <2>3. r + m \in Nat /\ ~IsUsed(table.freedom, r + m) /\ ~In(r + m, r, m)
    <3>1. r + m \in r..(r + n - 1)
      OBVIOUS
    <3> QED
      BY <3>1 DEF In
  <2> HIDE DEF x, y
  <2>4. /\ TableInv(y)
        /\ \A i \in Nat : IsUsed(y.freedom, i) <=> IsUsed(x.freedom, i) \/ i = r + m
    BY <2>2, <2>3, InsertRecordInv
  <2>5. \A i \in Nat : In(i, r, m + 1) <=> In(i, r, m) \/ i = r + m
    BY DEF In
  <2>6. Good(m + 1)
    BY <2>2, <2>4, <2>5 DEF y
  <2>7. m + 1 \in 0..n
    OBVIOUS
  <2> HIDE DEF Good
  <2> QED
    BY <2>6, <2>7
<1>4. n \in S
  <2> HIDE DEF S
  <2>1. \A m \in 0..n : m \in S
    BY <1>2, <1>3, InductionUpTo
  <2> QED
    BY <2>1
<1>5. Good(n)
  BY <1>4
<1> QED
  BY <1>1, <1>5

(* What the check of an insertion establishes *)
LEMMA FreeVectorIsFree ==
  ASSUME NEW k, KeeperInv(k), NEW r \in Int, NEW n \in Nat, IsFreeVector(k, r, n)
  PROVE  r \in Nat /\ \A i \in r..(r + n - 1) : ~IsUsed(k, i)
<1>1. CASE DenseInv(k)
  <2>1. k.used_size \in Nat /\ k.dense = TRUE
    BY <1>1, DenseIs
  <2>2. r >= k.used_size
    BY <2>1 DEF IsFreeVector
  <2> QED
    BY <2>1, <2>2 DEF IsUsed
<1>2. CASE ListInv(k)
  <2>1. k.dense = FALSE /\ k.size \in Nat
    BY <1>2, ListFields
  <2>2. r >= 0 /\ \A i \in r..(r + n - 1) : i < k.size => k.is_free[i]
    BY <2>1 DEF IsFreeVector, ListIsFreeVector
  <2> QED
    BY <2>1, <2>2 DEF IsUsed, ListIsUsed
<1> QED
  BY <1>1, <1>2 DEF KeeperInv

(* and that of a deletion *)
LEMMA UsedVectorIsUsed ==
  ASSUME NEW k, KeeperInv(k), NEW r \in Int, NEW n \in Nat, IsUsedVector(k, r, n)
  PROVE  r \in Nat /\ r + n <= KeeperSize(k) /\ \A i \in r..(r + n - 1) : IsUsed(k, i)
<1>1. CASE DenseInv(k)
  <2>1. k.used_size \in Nat /\ k.free_size \in Nat /\ k.used_size <= k.free_size
        /\ k.dense = TRUE
    BY <1>1, DenseIs
  <2>2. r >= 0 /\ r <= k.used_size /\ n <= k.used_size - r
    BY <2>1 DEF IsUsedVector, DenseIsUsedVector
  <2> QED
    BY <2>1, <2>2 DEF IsUsed, KeeperSize
<1>2. CASE ListInv(k)
  <2>1. k.dense = FALSE /\ k.size \in Nat
    BY <1>2, ListFields
  <2>2. r >= 0 /\ n <= k.size - r /\ \A i \in r..(r + n - 1) : ~k.is_free[i]
    BY <2>1 DEF IsUsedVector, ListIsUsedVector
  <2> QED
    BY <2>1, <2>2 DEF IsUsed, ListIsUsed, KeeperSize
<1> QED
  BY <1>1, <1>2 DEF KeeperInv

(* insert_vector keeps a table sound, at its end or in a hole. *)
LEMMA InsertVectorInv ==
  ASSUME NEW table, TableInv(table), NEW r \in Int, NEW n \in Nat,
         IsFreeVector(table.freedom, r, n), NEW l, l = InsertVector(table, r, n)
  PROVE  TableInv(l)
<1> DEFINE k    == table.freedom
           size == KeeperSize(k)
<1>1. /\ table = Table(table.name, table.fields, table.current_field_id, k)
      /\ KeeperInv(k) /\ size \in Nat /\ FieldsInv(table.fields, size)
  BY KeeperTypes DEF TableInv
<1>2. r \in Nat /\ \A i \in r..(r + n - 1) : ~IsUsed(k, i)
  BY <1>1, FreeVectorIsFree
<1>3. CASE r = size
  <2> DEFINE g == ResizedFields(table.fields, size + n)
             m == Resize(k, size + n)
             u == UseVector(m, r, n)
  <2>1. l = [table EXCEPT !.fields = g, !.freedom = u]
    BY <1>3 DEF InsertVector
  <2>2. l = Table(table.name, g, table.current_field_id, u)
    <3> HIDE DEF g, u
    <3> QED
      BY <1>1, <2>1 DEF Table
  <2>3. FieldsInv(g, size + n)
    <3>1. size + n \in Nat
      BY <1>1
    <3> HIDE DEF size, k
    <3> QED
      BY <1>1, <3>1, ResizedFieldsInv
  <2>4. /\ KeeperInv(m) /\ KeeperSize(m) = size + n
        /\ \A i \in Nat : IsUsed(m, i) <=> IsUsed(k, i)
    <3>1. size + n \in Nat
      BY <1>1
    <3> HIDE DEF m, k
    <3>2. /\ Keeps(k, m, IF KeeperSize(k) < size + n THEN size + n ELSE KeeperSize(k),
                   UsedCount(k))
          /\ \A i \in Nat : IsUsed(m, i) <=> IsUsed(k, i)
      BY <1>1, <3>1, ResizeKeeps DEF m
    <3> QED
      BY <1>1, <3>2 DEF Keeps
  <2> HIDE DEF m, k, size, g
  <2>5. KeeperInv(u) /\ KeeperSize(u) = KeeperSize(m)
    <3>1. r + n <= KeeperSize(m)
      BY <1>1, <1>2, <1>3, <2>4
    <3>2. \A i \in r..(r + n - 1) : ~IsUsed(m, i)
      BY <1>2, <2>4
    <3>3. Keeps(m, u, KeeperSize(m), UsedCount(m) + n)
      <4> HIDE DEF u
      <4> QED
        BY <1>2, <2>4, <3>1, <3>2, UseVectorKeeps DEF u
    <3> QED
      BY <3>3 DEF Keeps
  <2> HIDE DEF u
  <2> QED
    BY <2>2, <2>3, <2>4, <2>5, TableIs
<1>4. CASE r # size
  <2>1. l = Inserted(table, r, n)
    BY <1>4 DEF InsertVector, Inserted
  <2> QED
    BY <1>2, <2>1, InsertedInv
<1> QED
  BY <1>3, <1>4

(* delete_vector keeps a table sound. *)
LEMMA DeleteVectorInv ==
  ASSUME NEW table, TableInv(table), NEW r \in Int, NEW n \in Nat,
         IsUsedVector(table.freedom, r, n),
         NEW l, l = [table EXCEPT !.freedom = FreeVector(@, r, n)]
  PROVE  TableInv(l)
<1> DEFINE k == table.freedom
           u == FreeVector(k, r, n)
<1>1. /\ table = Table(table.name, table.fields, table.current_field_id, k)
      /\ KeeperInv(k) /\ FieldsInv(table.fields, KeeperSize(k))
  BY DEF TableInv
<1>2. r \in Nat /\ r + n <= KeeperSize(k) /\ \A i \in r..(r + n - 1) : IsUsed(k, i)
  BY <1>1, UsedVectorIsUsed
<1>3. l = Table(table.name, table.fields, table.current_field_id, u)
  <2>1. l = [table EXCEPT !.freedom = u]
    OBVIOUS
  <2> HIDE DEF u
  <2> QED
    BY <1>1, <2>1 DEF Table
<1>4. Keeps(k, u, KeeperSize(k), UsedCount(k) - n)
  <2> HIDE DEF k, u
  <2> QED
    BY <1>1, <1>2, FreeVectorKeeps DEF u
<1> HIDE DEF u
<1> QED
  BY <1>1, <1>3, <1>4, TableIs DEF Keeps

(* A used record is a used vector of size 1. *)
LEMMA UsedRecordIsUsed ==
  ASSUME NEW k, KeeperInv(k), NEW r \in Int, IsUsed(k, r)
  PROVE  IsUsedVector(k, r, 1)
<1>1. CASE DenseInv(k)
  <2>1. k.used_size \in Nat /\ k.dense = TRUE
    BY <1>1, DenseIs
  <2> QED
    BY <2>1 DEF IsUsed, IsUsedVector, DenseIsUsedVector
<1>2. CASE ListInv(k)
  <2>1. k.dense = FALSE /\ k.size \in Nat
    BY <1>2, ListFields
  <2>2. r >= 0 /\ r < k.size /\ ~k.is_free[r]
    BY <2>1 DEF IsUsed, ListIsUsed
  <2>3. \A i \in r..(r + 1 - 1) : i = r
    OBVIOUS
  <2> QED
    BY <2>1, <2>2, <2>3 DEF IsUsedVector, ListIsUsedVector
<1> QED
  BY <1>1, <1>2 DEF KeeperInv

(* An accepted call on rows keeps its table sound. *)
LEMMA AppliedRowInv ==
  ASSUME NEW db, DBInv(db), NEW o, IsCall(o), o.op \in RowOps, AcceptsRow(db, o)
  PROVE  TableInv(AppliedRow(db.tables[o.t], o))
<1> DEFINE table == db.tables[o.t]
           k     == table.freedom
<1>1. TableInv(table) /\ KeeperInv(k)
  BY DEF DBInv, TableInv, AcceptsRow, HasTable
<1>2. CASE o.op = "insert_into"
  <2>1. o.r \in Int
    BY <1>2 DEF IsCall, SchemaOps, InformationOps
  <2>2. o.r >= 0 /\ (o.r >= KeeperSize(k) \/ ~IsUsed(k, o.r))
    BY <1>2 DEF AcceptsRow
  <2>3. AppliedRow(table, o) = InsertRecord(table, o.r)
    BY <1>2 DEF AppliedRow
  <2> HIDE DEF k, table
  <2>4. o.r \in Nat /\ ~IsUsed(k, o.r)
    <3>1. KeeperSize(k) \in Nat /\ (IsUsed(k, o.r) => o.r \in 0..(KeeperSize(k) - 1))
      BY <1>1, <2>1, KeeperTypes
    <3> QED
      BY <2>1, <2>2, <3>1
  <2>5. TableInv(InsertRecord(table, o.r))
    BY <1>1, <2>4, InsertRecordInv DEF k
  <2> QED
    BY <2>3, <2>5 DEF table
<1>3. CASE o.op = "insert_vector"
  <2>1. o.r \in Int /\ o.n \in Nat
    BY <1>3 DEF IsCall, SchemaOps, InformationOps
  <2>2. IsFreeVector(k, o.r, o.n)
    BY <1>3 DEF AcceptsRow
  <2>3. AppliedRow(table, o) = InsertVector(table, o.r, o.n)
    BY <1>3 DEF AppliedRow
  <2> HIDE DEF table
  <2>4. TableInv(InsertVector(table, o.r, o.n))
    BY <1>1, <2>1, <2>2, InsertVectorInv
  <2> QED
    BY <2>3, <2>4 DEF table
<1>4. CASE o.op = "delete_from"
  <2>1. o.r \in Int
    BY <1>4 DEF IsCall, SchemaOps, InformationOps
  <2>2. IsUsed(k, o.r)
    BY <1>4 DEF AcceptsRow
  <2>3. AppliedRow(table, o) = [table EXCEPT !.freedom = FreeVector(@, o.r, 1)]
    BY <1>4 DEF AppliedRow, Free
  <2>4. IsUsedVector(k, o.r, 1)
    BY <1>1, <2>1, <2>2, UsedRecordIsUsed
  <2> HIDE DEF table
  <2>5. TableInv([table EXCEPT !.freedom = FreeVector(@, o.r, 1)])
    BY <1>1, <2>1, <2>4, DeleteVectorInv
  <2> QED
    BY <2>3, <2>5 DEF table
<1>5. CASE o.op = "delete_vector"
  <2>1. o.r \in Int /\ o.n \in Nat
    BY <1>5 DEF IsCall, SchemaOps, InformationOps
  <2>2. IsUsedVector(k, o.r, o.n)
    BY <1>5 DEF AcceptsRow
  <2>3. AppliedRow(table, o) = [table EXCEPT !.freedom = FreeVector(@, o.r, o.n)]
    BY <1>5 DEF AppliedRow
  <2> HIDE DEF table
  <2>4. TableInv([table EXCEPT !.freedom = FreeVector(@, o.r, o.n)])
    BY <1>1, <2>1, <2>2, DeleteVectorInv
  <2> QED
    BY <2>3, <2>4 DEF table
<1> QED
  BY <1>2, <1>3, <1>4, <1>5 DEF RowOps

(* A table with another set of fields, of the same size *)
LEMMA WithFields ==
  ASSUME NEW table, TableInv(table), NEW g, FieldsInv(g, KeeperSize(table.freedom)), NEW id,
         NEW l, l = Table(table.name, g, id, table.freedom)
  PROVE  TableInv(l)
BY TableIs DEF TableInv

(* Replacing a field by one of the same size *)
LEMMA FieldReplaced ==
  ASSUME NEW fields, NEW size, FieldsInv(fields, size), NEW f \in DOMAIN fields,
         NEW x, FieldInv(x, size)
  PROVE  FieldsInv([fields EXCEPT ![f] = x], size)
BY DEF FieldsInv

Updated(db, o) == [db EXCEPT !.tables[o.t].fields[o.f].column = AppliedUpdate(@, o)]

(* An update keeps the database sound. *)
LEMMA AppliedUpdateInv ==
  ASSUME NEW db, DBInv(db), NEW o, o.op \in {"update", "update_vector"}, HasField(db, o.t, o.f),
         NEW l, l = Updated(db, o)
  PROVE  DBInv(l)
<1> DEFINE table  == db.tables[o.t]
           field  == table.fields[o.f]
           size   == KeeperSize(table.freedom)
           column == AppliedUpdate(field.column, o)
           x      == [field EXCEPT !.column = column]
           g      == [table.fields EXCEPT ![o.f] = x]
           t2     == [table EXCEPT !.fields = g]
<1>1. o.t \in DOMAIN db.tables /\ o.f \in DOMAIN table.fields
  BY DEF HasField, HasTable
<1>2. TableInv(table) /\ FieldsInv(table.fields, size)
  BY <1>1 DEF DBInv, TableInv
<1>3. FieldInv(field, size)
  BY <1>1, <1>2 DEF FieldsInv
<1>4. column = [r \in 0..(size - 1) |-> column[r]]
  <2>1. field.column = [r \in 0..(size - 1) |-> field.column[r]]
    BY <1>3 DEF FieldInv
  <2>2. CASE o.op = "update"
    BY <2>1, <2>2 DEF AppliedUpdate
  <2>3. CASE o.op = "update_vector"
    BY <2>1, <2>3 DEF AppliedUpdate
  <2> QED
    BY <2>2, <2>3
<1>5. l = Database([db.tables EXCEPT ![o.t] = t2], db.current_table_id, db.max_record_id)
  <2> HIDE DEF column
  <2>1. l = [db EXCEPT !.tables[o.t].fields[o.f].column = column]
    BY DEF column, Updated
  <2> QED
    BY <2>1 DEF DBInv, Database
<1> HIDE DEF column
<1>6. FieldInv(x, size)
  <2> HIDE DEF field
  <2>1. x = [name |-> field.name, type |-> field.type, column |-> column]
    BY <1>3 DEF FieldInv
  <2> HIDE DEF x
  <2> QED
    BY <1>4, <2>1 DEF FieldInv
<1> HIDE DEF x
<1>7. FieldsInv(g, size)
  BY <1>1, <1>2, <1>6, FieldReplaced
<1> HIDE DEF g
<1>8. t2 = Table(table.name, g, table.current_field_id, table.freedom)
  BY <1>2 DEF TableInv, Table
<1> HIDE DEF t2, table
<1>9. TableInv(t2)
  BY <1>2, <1>7, <1>8, WithFields
<1> QED
  BY <1>1, <1>5, <1>9, DatabaseIs

(* A new table is sound. *)
LEMMA NewTableInv == \A name : TableInv(NewTable(name))
<1> SUFFICES ASSUME NEW name
             PROVE  TableInv(NewTable(name))
  OBVIOUS
<1>1. NewKeeper = Dense(0, 0)
  BY DEF NewKeeper, Dense
<1>2. KeeperInv(NewKeeper)
  BY <1>1, DenseIsKeeper
<1>3. \A size : FieldsInv(EmptyMap, size)
  <2>1. DOMAIN EmptyMap = {} /\ EmptyMap = [f \in {} |-> EmptyMap[f]]
    BY DEF EmptyMap
  <2>2. IsFiniteSet({})
    BY FS_EmptySet
  <2> QED
    BY <2>1, <2>2 DEF FieldsInv
<1>4. NewTable(name) = Table(name, EmptyMap, 0, NewKeeper)
  BY DEF NewTable, Table
<1> QED
  BY <1>2, <1>3, <1>4, TableIs

(* A table with a new field is sound. *)
LEMMA NewFieldInv ==
  ASSUME NEW name, NEW type, NEW size
  PROVE  FieldInv(NewField(name, type, size), size)
<1> DEFINE column == Column(type, size)
<1>1. column = [r \in 0..(size - 1) |-> column[r]]
  <2>1. column = [r \in 0..(size - 1) |-> Default(type)]
    BY DEF Column
  <2> HIDE DEF column
  <2> QED
    BY <2>1
<1>2. NewField(name, type, size) = [name |-> name, type |-> type, column |-> column]
  BY DEF NewField
<1> HIDE DEF column
<1> QED
  BY <1>1, <1>2 DEF FieldInv

(* An accepted call on the schema keeps the database sound. *)
LEMMA AppliedSchemaInv ==
  ASSUME NEW db, DBInv(db), NEW o, o.op \in SchemaOps, AcceptsSchema(db, o)
  PROVE  DBInv(AppliedSchema(db, o))
<1>0. /\ db = Database(db.tables, db.current_table_id, db.max_record_id)
      /\ db.tables = [t \in DOMAIN db.tables |-> db.tables[t]]
      /\ \A t \in DOMAIN db.tables : TableInv(db.tables[t])
  BY DEF DBInv
<1>1. CASE o.op = "create_table"
  <2> DEFINE id == db.current_table_id + 1
             new == NewTable(o.name)
             ts == Extended(db.tables, id, new)
  <2>1. AppliedSchema(db, o) = [db EXCEPT !.current_table_id = id, !.tables = ts]
    BY <1>1 DEF AppliedSchema, WithNewTable
  <2>2. TableInv(new)
    BY NewTableInv
  <2> HIDE DEF new
  <2>3. /\ ts = [t \in DOMAIN ts |-> ts[t]]
        /\ \A t \in DOMAIN ts : TableInv(ts[t])
    BY <1>0, <2>2 DEF Extended
  <2> HIDE DEF ts, id
  <2>4. AppliedSchema(db, o) = Database(ts, id, db.max_record_id)
    BY <1>0, <2>1 DEF Database
  <2> QED
    BY <2>3, <2>4 DEF DBInv, Database
<1>2. CASE o.op = "drop_table"
  <2> DEFINE ts == Without(db.tables, o.t)
  <2>1. AppliedSchema(db, o) = [db EXCEPT !.tables = ts]
    BY <1>2 DEF AppliedSchema
  <2>2. /\ ts = [t \in DOMAIN ts |-> ts[t]]
        /\ \A t \in DOMAIN ts : TableInv(ts[t])
    BY <1>0 DEF Without, Restrict
  <2> HIDE DEF ts
  <2>3. AppliedSchema(db, o) = Database(ts, db.current_table_id, db.max_record_id)
    BY <1>0, <2>1 DEF Database
  <2> QED
    BY <2>2, <2>3 DEF DBInv, Database
<1>3. CASE o.op \in {"rename_table", "add_field", "drop_field", "rename_field"}
  <2> DEFINE table == db.tables[o.t]
             size  == KeeperSize(table.freedom)
  <2>1. o.t \in DOMAIN db.tables /\ TableInv(table)
    BY <1>0, <1>3 DEF AcceptsSchema, HasTable, HasField
  <2>2. /\ table = Table(table.name, table.fields, table.current_field_id, table.freedom)
        /\ KeeperInv(table.freedom) /\ FieldsInv(table.fields, size)
    BY <2>1 DEF TableInv
  <2>3. \E t2 : /\ TableInv(t2)
                /\ AppliedSchema(db, o) = Database([db.tables EXCEPT ![o.t] = t2],
                                                   db.current_table_id, db.max_record_id)
    <3>1. CASE o.op = "rename_table"
      <4> DEFINE t2 == [table EXCEPT !.name = o.name]
      <4>1. AppliedSchema(db, o) = [db EXCEPT !.tables[o.t].name = o.name]
        BY <3>1 DEF AppliedSchema
      <4>2. AppliedSchema(db, o) = Database([db.tables EXCEPT ![o.t] = t2],
                                            db.current_table_id, db.max_record_id)
        BY <1>0, <4>1 DEF Database
      <4>3. t2 = Table(o.name, table.fields, table.current_field_id, table.freedom)
        BY <2>2 DEF Table
      <4> HIDE DEF t2, table
      <4>4. TableInv(t2)
        BY <2>2, <4>3, TableIs DEF TableInv
      <4> QED
        BY <4>2, <4>4 DEF table
    <3>2. CASE o.op = "add_field"
      <4> DEFINE t2 == WithNewField(table, o.name, o.type)
                 id == table.current_field_id + 1
                 x  == NewField(o.name, o.type, size)
                 g  == Extended(table.fields, id, x)
      <4>1. AppliedSchema(db, o) = [db EXCEPT !.tables[o.t] = WithNewField(@, o.name, o.type)]
        BY <3>2 DEF AppliedSchema
      <4>2. AppliedSchema(db, o) = Database([db.tables EXCEPT ![o.t] = t2],
                                            db.current_table_id, db.max_record_id)
        <5>1. AppliedSchema(db, o) = [db EXCEPT !.tables[o.t] = t2]
          BY <4>1
        <5> HIDE DEF t2
        <5> QED
          BY <1>0, <5>1 DEF Database
      <4>3. FieldInv(x, size)
        BY NewFieldInv
      <4>4. FieldsInv(g, size)
        <5> HIDE DEF x, size, table
        <5>1. DOMAIN g = DOMAIN table.fields \union {id}
          BY DEF Extended
        <5>2. IsFiniteSet(DOMAIN g)
          BY <2>2, <5>1, FS_AddElement DEF FieldsInv
        <5> HIDE DEF id
        <5> QED
          BY <2>2, <4>3, <5>1, <5>2 DEF FieldsInv, Extended
      <4>5. t2 = Table(table.name, g, id, table.freedom)
        <5>1. t2 = [table EXCEPT !.current_field_id = id, !.fields = g]
          BY DEF WithNewField
        <5> HIDE DEF t2, g, id
        <5> QED
          BY <2>2, <5>1 DEF Table
      <4> HIDE DEF t2, g, id, table
      <4>6. TableInv(t2)
        BY <2>1, <4>4, <4>5, WithFields
      <4> QED
        BY <4>2, <4>6
    <3>3. CASE o.op = "drop_field"
      <4> DEFINE g  == Without(table.fields, o.f)
                 t2 == [table EXCEPT !.fields = g]
      <4>1. AppliedSchema(db, o) = [db EXCEPT !.tables[o.t].fields = Without(@, o.f)]
        BY <3>3 DEF AppliedSchema
      <4>2. AppliedSchema(db, o) = Database([db.tables EXCEPT ![o.t] = t2],
                                            db.current_table_id, db.max_record_id)
        <5>1. AppliedSchema(db, o) = [db EXCEPT !.tables[o.t].fields = g]
          BY <4>1
        <5> HIDE DEF g
        <5> QED
          BY <1>0, <5>1 DEF Database
      <4>3. FieldsInv(g, size)
        <5> HIDE DEF size, table
        <5>1. DOMAIN g = DOMAIN table.fields \ {o.f}
          BY DEF Without, Restrict
        <5>2. IsFiniteSet(DOMAIN g)
          BY <2>2, <5>1, FS_Subset DEF FieldsInv
        <5> QED
          BY <2>2, <5>1, <5>2 DEF FieldsInv, Without, Restrict
      <4> HIDE DEF g
      <4>4. t2 = Table(table.name, g, table.current_field_id, table.freedom)
        BY <2>2 DEF Table
      <4> HIDE DEF t2, table
      <4>5. TableInv(t2)
        BY <2>1, <4>3, <4>4, WithFields
      <4> QED
        BY <4>2, <4>5
    <3>4. CASE o.op = "rename_field"
      <4> DEFINE field == table.fields[o.f]
                 x  == [field EXCEPT !.name = o.name]
                 g  == [table.fields EXCEPT ![o.f] = x]
                 t2 == [table EXCEPT !.fields = g]
      <4>0. o.f \in DOMAIN table.fields
        BY <3>4 DEF AcceptsSchema, HasField
      <4>1. AppliedSchema(db, o) = [db EXCEPT !.tables[o.t].fields[o.f].name = o.name]
        BY <3>4 DEF AppliedSchema
      <4>2. AppliedSchema(db, o) = Database([db.tables EXCEPT ![o.t] = t2],
                                            db.current_table_id, db.max_record_id)
        BY <1>0, <4>1 DEF Database
      <4>3. FieldInv(x, size)
        <5>1. FieldInv(field, size)
          BY <2>2, <4>0 DEF FieldsInv
        <5> HIDE DEF field
        <5> QED
          BY <5>1 DEF FieldInv
      <4> HIDE DEF x
      <4>4. FieldsInv(g, size)
        BY <2>2, <4>0, <4>3, FieldReplaced
      <4> HIDE DEF g
      <4>5. t2 = Table(table.name, g, table.current_field_id, table.freedom)
        BY <2>2 DEF Table
      <4> HIDE DEF t2, table
      <4>6. TableInv(t2)
        BY <2>1, <4>4, <4>5, WithFields
      <4> QED
        BY <4>2, <4>6
    <3> QED
      BY <1>3, <3>1, <3>2, <3>3, <3>4
  <2> QED
    BY <2>1, <2>3, DatabaseIs
<1> QED
  BY <1>1, <1>2, <1>3 DEF SchemaOps

(* The kinds of calls exclude each other. *)
LEMMA OpsApart ==
  ASSUME NEW op
  PROVE  /\ op \in SchemaOps => op \notin RowOps /\ op \notin InformationOps
         /\ op \in RowOps => op \notin InformationOps
         /\ op \in {"update", "update_vector"} =>
              op \notin SchemaOps /\ op \notin RowOps /\ op \notin InformationOps
BY DEF SchemaOps, RowOps, InformationOps

(* A call that passes the checks of the database (Database.cpp, Table.h)     *)
(* keeps it sound: every keeper, and every column at the size of its keeper. *)
THEOREM AppliedInv ==
  ASSUME NEW db, DBInv(db), NEW o, IsCall(o), Accepts(db, o)
  PROVE  DBInv(Applied(db, o))
<1>1. CASE o.op \in SchemaOps
  <2>1. AcceptsSchema(db, o) /\ Applied(db, o) = AppliedSchema(db, o)
    BY <1>1, OpsApart DEF Accepts, Applied
  <2> QED
    BY <1>1, <2>1, AppliedSchemaInv
<1>2. CASE o.op \in RowOps
  <2> DEFINE table == AppliedRow(db.tables[o.t], o)
  <2>1. AcceptsRow(db, o) /\ Applied(db, o) = [db EXCEPT !.tables[o.t] = AppliedRow(@, o)]
    BY <1>2, OpsApart DEF Accepts, Applied
  <2>2. TableInv(table) /\ o.t \in DOMAIN db.tables
    BY <1>2, <2>1, AppliedRowInv DEF AcceptsRow, HasTable
  <2>3. Applied(db, o) = [db EXCEPT !.tables[o.t] = table]
    BY <2>1
  <2> HIDE DEF table
  <2>4. Applied(db, o) = Database([db.tables EXCEPT ![o.t] = table], db.current_table_id,
                                  db.max_record_id)
    BY <2>3 DEF DBInv, Database
  <2> QED
    BY <2>2, <2>4, DatabaseIs
<1>3. CASE o.op \in InformationOps
  BY <1>3, OpsApart DEF Applied
<1>4. CASE o.op \notin SchemaOps /\ o.op \notin RowOps /\ o.op \notin InformationOps
  <2>1. o.op \in {"update", "update_vector"}
    BY <1>4 DEF IsCall, SchemaOps, RowOps, InformationOps
  <2>2. /\ HasField(db, o.t, o.f)
        /\ Applied(db, o) = Updated(db, o)
    BY <1>4, <2>1 DEF Accepts, Applied, AcceptsUpdate, Updated
  <2> QED
    BY <2>1, <2>2, AppliedUpdateInv
<1> QED
  BY <1>1, <1>2, <1>3, <1>4

(* A new database is sound. *)
LEMMA NewDatabaseInv == \A max : DBInv(NewDatabase(max))
<1> SUFFICES ASSUME NEW max
             PROVE  DBInv(NewDatabase(max))
  OBVIOUS
<1>1. NewDatabase(max) = Database(EmptyMap, 0, max)
  BY DEF NewDatabase, Database
<1>2. DOMAIN EmptyMap = {} /\ EmptyMap = [t \in {} |-> EmptyMap[t]]
  BY DEF EmptyMap
<1> QED
  BY <1>1, <1>2 DEF DBInv, Database

-----------------------------------------------------------------------------
(***************************************************************************)
(* Sequences of calls, and sequences of journal entries.                   *)
(***************************************************************************)

PlayStep(db, o) == IF db = Failed \/ ~Accepts(db, o) THEN Failed ELSE Applied(db, o)

(* The databases that a list of calls goes through *)
LEMMA PlaySteps ==
  ASSUME NEW a, NEW s, Len(s) \in Nat
  PROVE  \E d : /\ d[0] = a /\ d[Len(s)] = Play(a, s)
                /\ \A i \in 0..(Len(s) - 1) : d[i + 1] = PlayStep(d[i], s[i + 1])
<1> DEFINE n == Len(s)
           Is(g, m) == g = [i \in 0..m |-> IF i = 0 THEN a ELSE PlayStep(g[i - 1], s[i])]
           S == {m \in 0..n : \E g : Is(g, m)}
<1> HIDE DEF n
<1>0. n \in Nat
  BY DEF n
<1>1. 0 \in S
  <2>1. Is([i \in 0..0 |-> a], 0)
    OBVIOUS
  <2>2. \E g : Is(g, 0)
    BY <2>1
  <2> HIDE DEF Is
  <2> QED
    BY <1>0, <2>2
<1>2. ASSUME NEW m \in 0..(n - 1), m \in S
      PROVE  m + 1 \in S
  <2>1. PICK g : Is(g, m)
    BY <1>2
  <2> DEFINE h == [i \in 0..(m + 1) |-> IF i = m + 1 THEN PlayStep(g[m], s[m + 1]) ELSE g[i]]
  <2>2. \A i \in 0..m : g[i] = IF i = 0 THEN a ELSE PlayStep(g[i - 1], s[i])
    BY <2>1
  <2>3. ASSUME NEW i \in 0..(m + 1)
        PROVE  h[i] = IF i = 0 THEN a ELSE PlayStep(h[i - 1], s[i])
    <3>1. CASE i = m + 1
      <4>1. h[i - 1] = g[m] /\ i # 0
        BY <1>0, <3>1
      <4> QED
        BY <3>1, <4>1
    <3>2. CASE i # m + 1
      <4>1. i \in 0..m /\ h[i] = g[i] /\ (i # 0 => h[i - 1] = g[i - 1])
        BY <1>0, <3>2
      <4> QED
        BY <2>2, <4>1
    <3> QED
      BY <3>1, <3>2
  <2>4. h = [i \in 0..(m + 1) |-> h[i]]
    OBVIOUS
  <2> HIDE DEF h
  <2>5. Is(h, m + 1)
    BY <2>3, <2>4
  <2>6. m + 1 \in 0..n
    BY <1>0
  <2> QED
    BY <2>5, <2>6
<1> HIDE DEF S
<1>3. n \in S
  <2>1. \A m \in 0..n : m \in S
    BY <1>0, <1>1, <1>2, InductionUpTo
  <2> QED
    BY <1>0, <2>1
<1>4. \E g : Is(g, n)
  BY <1>3 DEF S
<1> DEFINE c == CHOOSE g : Is(g, n)
<1>5. Is(c, n)
  BY <1>4
<1>6. c[n] = Play(a, s)
  BY DEF Play, n, PlayStep
<1> HIDE DEF c
<1>7. c[0] = a /\ \A i \in 0..(n - 1) : c[i + 1] = PlayStep(c[i], s[i + 1])
  <2>1. ASSUME NEW i \in 0..n
        PROVE  c[i] = IF i = 0 THEN a ELSE PlayStep(c[i - 1], s[i])
    BY <1>5
  <2>2. ASSUME NEW i \in 0..(n - 1)
        PROVE  c[i + 1] = PlayStep(c[i], s[i + 1])
    <3>1. i + 1 \in 0..n /\ i + 1 # 0 /\ i + 1 - 1 = i
      BY <1>0
    <3> QED
      BY <2>1, <3>1
  <2>3. 0 \in 0..n
    BY <1>0
  <2> QED
    BY <2>1, <2>2, <2>3
<1> QED
  BY <1>6, <1>7 DEF n

(* A sequence that follows the steps is the run. *)
LEMMA PlayIs ==
  ASSUME NEW a, NEW s, Len(s) \in Nat, NEW d, d[0] = a,
         \A i \in 0..(Len(s) - 1) : d[i + 1] = PlayStep(d[i], s[i + 1])
  PROVE  Play(a, s) = d[Len(s)]
<1> DEFINE n == Len(s)
<1>0. n \in Nat
  OBVIOUS
<1>1. PICK c : /\ c[0] = a /\ c[n] = Play(a, s)
               /\ \A i \in 0..(n - 1) : c[i + 1] = PlayStep(c[i], s[i + 1])
  BY PlaySteps
<1> DEFINE S == {i \in 0..n : c[i] = d[i]}
<1>2. 0 \in S
  BY <1>0, <1>1
<1>3. ASSUME NEW i \in 0..(n - 1), i \in S
      PROVE  i + 1 \in S
  <2>1. c[i + 1] = PlayStep(c[i], s[i + 1]) /\ d[i + 1] = PlayStep(d[i], s[i + 1])
    BY <1>1
  <2>2. c[i] = d[i] /\ i + 1 \in 0..n
    BY <1>0, <1>3
  <2> QED
    BY <2>1, <2>2
<1>4. n \in S
  <2> HIDE DEF S, n
  <2>1. \A i \in 0..n : i \in S
    BY <1>0, <1>2, <1>3, InductionUpTo
  <2> QED
    BY <1>0, <2>1
<1> QED
  BY <1>1, <1>4

(* The readers that a replay goes through *)
LEMMA raw_playSteps ==
  ASSUME NEW a, NEW s, Len(s) \in Nat
  PROVE  \E d : /\ d[0] = a /\ d[Len(s)] = raw_play(a, s)
                /\ \A i \in 0..(Len(s) - 1) : d[i + 1] = one_step(d[i], s[i + 1])
<1> DEFINE n == Len(s)
           Is(g, m) == g = [i \in 0..m |-> IF i = 0 THEN a ELSE one_step(g[i - 1], s[i])]
           S == {m \in 0..n : \E g : Is(g, m)}
<1> HIDE DEF n
<1>0. n \in Nat
  BY DEF n
<1>1. 0 \in S
  <2>1. Is([i \in 0..0 |-> a], 0)
    OBVIOUS
  <2>2. \E g : Is(g, 0)
    BY <2>1
  <2> HIDE DEF Is
  <2> QED
    BY <1>0, <2>2
<1>2. ASSUME NEW m \in 0..(n - 1), m \in S
      PROVE  m + 1 \in S
  <2>1. PICK g : Is(g, m)
    BY <1>2
  <2> DEFINE h == [i \in 0..(m + 1) |-> IF i = m + 1 THEN one_step(g[m], s[m + 1]) ELSE g[i]]
  <2>2. \A i \in 0..m : g[i] = IF i = 0 THEN a ELSE one_step(g[i - 1], s[i])
    BY <2>1
  <2>3. ASSUME NEW i \in 0..(m + 1)
        PROVE  h[i] = IF i = 0 THEN a ELSE one_step(h[i - 1], s[i])
    <3>1. CASE i = m + 1
      <4>1. h[i - 1] = g[m] /\ i # 0
        BY <1>0, <3>1
      <4> QED
        BY <3>1, <4>1
    <3>2. CASE i # m + 1
      <4>1. i \in 0..m /\ h[i] = g[i] /\ (i # 0 => h[i - 1] = g[i - 1])
        BY <1>0, <3>2
      <4> QED
        BY <2>2, <4>1
    <3> QED
      BY <3>1, <3>2
  <2>4. h = [i \in 0..(m + 1) |-> h[i]]
    OBVIOUS
  <2> HIDE DEF h
  <2>5. Is(h, m + 1)
    BY <2>3, <2>4
  <2>6. m + 1 \in 0..n
    BY <1>0
  <2> QED
    BY <2>5, <2>6
<1> HIDE DEF S
<1>3. n \in S
  <2>1. \A m \in 0..n : m \in S
    BY <1>0, <1>1, <1>2, InductionUpTo
  <2> QED
    BY <1>0, <2>1
<1>4. \E g : Is(g, n)
  BY <1>3 DEF S
<1> DEFINE c == CHOOSE g : Is(g, n)
<1>5. Is(c, n)
  BY <1>4
<1>6. c[n] = raw_play(a, s)
  BY DEF raw_play, n
<1> HIDE DEF c
<1>7. c[0] = a /\ \A i \in 0..(n - 1) : c[i + 1] = one_step(c[i], s[i + 1])
  <2>1. ASSUME NEW i \in 0..n
        PROVE  c[i] = IF i = 0 THEN a ELSE one_step(c[i - 1], s[i])
    BY <1>5
  <2>2. ASSUME NEW i \in 0..(n - 1)
        PROVE  c[i + 1] = one_step(c[i], s[i + 1])
    <3>1. i + 1 \in 0..n /\ i + 1 # 0 /\ i + 1 - 1 = i
      BY <1>0
    <3> QED
      BY <2>1, <3>1
  <2>3. 0 \in 0..n
    BY <1>0
  <2> QED
    BY <2>1, <2>2, <2>3
<1> QED
  BY <1>6, <1>7 DEF n

(* A sequence that follows the steps is the replay. *)
LEMMA raw_playIs ==
  ASSUME NEW a, NEW s, Len(s) \in Nat, NEW d, d[0] = a,
         \A i \in 0..(Len(s) - 1) : d[i + 1] = one_step(d[i], s[i + 1])
  PROVE  raw_play(a, s) = d[Len(s)]
<1> DEFINE n == Len(s)
<1>0. n \in Nat
  OBVIOUS
<1>1. PICK c : /\ c[0] = a /\ c[n] = raw_play(a, s)
               /\ \A i \in 0..(n - 1) : c[i + 1] = one_step(c[i], s[i + 1])
  BY raw_playSteps
<1> DEFINE S == {i \in 0..n : c[i] = d[i]}
<1>2. 0 \in S
  BY <1>0, <1>1
<1>3. ASSUME NEW i \in 0..(n - 1), i \in S
      PROVE  i + 1 \in S
  <2>1. c[i + 1] = one_step(c[i], s[i + 1]) /\ d[i + 1] = one_step(d[i], s[i + 1])
    BY <1>1
  <2>2. c[i] = d[i] /\ i + 1 \in 0..n
    BY <1>0, <1>3
  <2> QED
    BY <2>1, <2>2
<1>4. n \in S
  <2> HIDE DEF S, n
  <2>1. \A i \in 0..n : i \in S
    BY <1>0, <1>2, <1>3, InductionUpTo
  <2> QED
    BY <1>0, <2>1
<1> QED
  BY <1>1, <1>4

(* Reading in two parts *)
LEMMA raw_playConcat ==
  ASSUME NEW a, NEW X, NEW s \in Seq(X), NEW t \in Seq(X)
  PROVE  raw_play(a, s \o t) = raw_play(raw_play(a, s), t)
<1> DEFINE n == Len(s)
           m == Len(t)
           b == raw_play(a, s)
<1>0. n \in Nat /\ m \in Nat
  OBVIOUS
<1>1. PICK c : /\ c[0] = a /\ c[n] = b
               /\ \A i \in 0..(n - 1) : c[i + 1] = one_step(c[i], s[i + 1])
  BY <1>0, raw_playSteps
<1>2. PICK d : /\ d[0] = b /\ d[m] = raw_play(b, t)
               /\ \A i \in 0..(m - 1) : d[i + 1] = one_step(d[i], t[i + 1])
  BY <1>0, raw_playSteps
<1> DEFINE e == [i \in 0..(n + m) |-> IF i <= n THEN c[i] ELSE d[i - n]]
<1>3. /\ Len(s \o t) = n + m
      /\ \A i \in 1..(n + m) : (s \o t)[i] = IF i <= n THEN s[i] ELSE t[i - n]
  BY <1>0
<1> HIDE DEF b, n, m
<1>4. ASSUME NEW i \in 0..(n + m - 1)
      PROVE  e[i + 1] = one_step(e[i], (s \o t)[i + 1])
  <2>0. i \in 0..(n + m) /\ i + 1 \in 0..(n + m) /\ i + 1 \in 1..(n + m)
    BY <1>0
  <2>1. CASE i < n
    <3>1. i \in 0..(n - 1) /\ e[i] = c[i] /\ e[i + 1] = c[i + 1] /\ (s \o t)[i + 1] = s[i + 1]
      BY <1>0, <1>3, <2>0, <2>1
    <3> QED
      BY <1>1, <3>1
  <2>2. CASE ~(i < n)
    <3>1. i - n \in 0..(m - 1) /\ (i - n) + 1 = (i + 1) - n
      BY <1>0, <2>2
    <3>2. e[i + 1] = d[(i - n) + 1] /\ (s \o t)[i + 1] = t[(i - n) + 1]
      <4>1. ~(i + 1 <= n)
        BY <1>0, <2>2
      <4>2. e[i + 1] = d[(i + 1) - n]
        BY <2>0, <4>1
      <4>3. (s \o t)[i + 1] = t[(i + 1) - n]
        BY <1>3, <2>0, <4>1
      <4> QED
        BY <3>1, <4>2, <4>3
    <3>3. e[i] = d[i - n]
      <4>1. CASE i = n
        BY <1>0, <1>1, <1>2, <2>0, <4>1
      <4>2. CASE i # n
        BY <1>0, <2>0, <2>2, <4>2
      <4> QED
        BY <4>1, <4>2
    <3> QED
      BY <1>2, <3>1, <3>2, <3>3
  <2> QED
    BY <2>1, <2>2
<1>5. e[0] = a /\ e[n + m] = raw_play(b, t)
  <2>1. CASE m = 0
    BY <1>0, <1>1, <1>2, <2>1
  <2>2. CASE m # 0
    BY <1>0, <1>1, <1>2, <2>2
  <2> QED
    BY <2>1, <2>2
<1> HIDE DEF e
<1> DEFINE u == s \o t
<1>6. Len(u) = n + m /\ n + m \in Nat
  BY <1>0, <1>3
<1>7. ASSUME NEW i \in 0..(Len(u) - 1)
      PROVE  e[i + 1] = one_step(e[i], u[i + 1])
  <2>1. i \in 0..(n + m - 1)
    <3> HIDE DEF u
    <3> QED
      BY <1>0, <1>6
  <2> QED
    BY <1>4, <2>1
<1> HIDE DEF u
<1>8. raw_play(a, u) = e[Len(u)]
  BY <1>5, <1>6, <1>7, raw_playIs
<1> QED
  BY <1>5, <1>6, <1>8 DEF u, b

(* The tools, entry after entry *)
LEMMA ToolRunSteps ==
  ASSUME NEW a, NEW s, Len(s) \in Nat
  PROVE  \E d : /\ d[0] = a /\ d[Len(s)] = ToolRun(a, s)
                /\ \A i \in 0..(Len(s) - 1) : d[i + 1] = ToolStep(d[i], s[i + 1])
<1> DEFINE n == Len(s)
           Is(g, m) == g = [i \in 0..m |-> IF i = 0 THEN a ELSE ToolStep(g[i - 1], s[i])]
           S == {m \in 0..n : \E g : Is(g, m)}
<1> HIDE DEF n
<1>0. n \in Nat
  BY DEF n
<1>1. 0 \in S
  <2>1. Is([i \in 0..0 |-> a], 0)
    OBVIOUS
  <2>2. \E g : Is(g, 0)
    BY <2>1
  <2> HIDE DEF Is
  <2> QED
    BY <1>0, <2>2
<1>2. ASSUME NEW m \in 0..(n - 1), m \in S
      PROVE  m + 1 \in S
  <2>1. PICK g : Is(g, m)
    BY <1>2
  <2> DEFINE h == [i \in 0..(m + 1) |-> IF i = m + 1 THEN ToolStep(g[m], s[m + 1]) ELSE g[i]]
  <2>2. \A i \in 0..m : g[i] = IF i = 0 THEN a ELSE ToolStep(g[i - 1], s[i])
    BY <2>1
  <2>3. ASSUME NEW i \in 0..(m + 1)
        PROVE  h[i] = IF i = 0 THEN a ELSE ToolStep(h[i - 1], s[i])
    <3>1. CASE i = m + 1
      <4>1. h[i - 1] = g[m] /\ i # 0
        BY <1>0, <3>1
      <4> QED
        BY <3>1, <4>1
    <3>2. CASE i # m + 1
      <4>1. i \in 0..m /\ h[i] = g[i] /\ (i # 0 => h[i - 1] = g[i - 1])
        BY <1>0, <3>2
      <4> QED
        BY <2>2, <4>1
    <3> QED
      BY <3>1, <3>2
  <2>4. h = [i \in 0..(m + 1) |-> h[i]]
    OBVIOUS
  <2> HIDE DEF h
  <2>5. Is(h, m + 1)
    BY <2>3, <2>4
  <2>6. m + 1 \in 0..n
    BY <1>0
  <2> QED
    BY <2>5, <2>6
<1> HIDE DEF S
<1>3. n \in S
  <2>1. \A m \in 0..n : m \in S
    BY <1>0, <1>1, <1>2, InductionUpTo
  <2> QED
    BY <1>0, <2>1
<1>4. \E g : Is(g, n)
  BY <1>3 DEF S
<1> DEFINE c == CHOOSE g : Is(g, n)
<1>5. Is(c, n)
  BY <1>4
<1>6. c[n] = ToolRun(a, s)
  BY DEF ToolRun, n
<1> HIDE DEF c
<1>7. c[0] = a /\ \A i \in 0..(n - 1) : c[i + 1] = ToolStep(c[i], s[i + 1])
  <2>1. ASSUME NEW i \in 0..n
        PROVE  c[i] = IF i = 0 THEN a ELSE ToolStep(c[i - 1], s[i])
    BY <1>5
  <2>2. ASSUME NEW i \in 0..(n - 1)
        PROVE  c[i + 1] = ToolStep(c[i], s[i + 1])
    <3>1. i + 1 \in 0..n /\ i + 1 # 0 /\ i + 1 - 1 = i
      BY <1>0
    <3> QED
      BY <2>1, <3>1
  <2>3. 0 \in 0..n
    BY <1>0
  <2> QED
    BY <2>1, <2>2, <2>3
<1> QED
  BY <1>6, <1>7 DEF n

(* The contexts that writing goes through *)
LEMMA ContextsSteps ==
  ASSUME NEW a, NEW s, Len(s) \in Nat
  PROVE  \E d : /\ d[0] = a /\ d = Contexts(a, s)
                /\ \A i \in 0..(Len(s) - 1) : d[i + 1] = ContextAfterWrite(d[i], s[i + 1])
<1> DEFINE n == Len(s)
           Is(g, m) == g = [i \in 0..m |-> IF i = 0 THEN a ELSE ContextAfterWrite(g[i - 1], s[i])]
           S == {m \in 0..n : \E g : Is(g, m)}
<1> HIDE DEF n
<1>0. n \in Nat
  BY DEF n
<1>1. 0 \in S
  <2>1. Is([i \in 0..0 |-> a], 0)
    OBVIOUS
  <2>2. \E g : Is(g, 0)
    BY <2>1
  <2> HIDE DEF Is
  <2> QED
    BY <1>0, <2>2
<1>2. ASSUME NEW m \in 0..(n - 1), m \in S
      PROVE  m + 1 \in S
  <2>1. PICK g : Is(g, m)
    BY <1>2
  <2> DEFINE h == [i \in 0..(m + 1) |-> IF i = m + 1 THEN ContextAfterWrite(g[m], s[m + 1]) ELSE g[i]]
  <2>2. \A i \in 0..m : g[i] = IF i = 0 THEN a ELSE ContextAfterWrite(g[i - 1], s[i])
    BY <2>1
  <2>3. ASSUME NEW i \in 0..(m + 1)
        PROVE  h[i] = IF i = 0 THEN a ELSE ContextAfterWrite(h[i - 1], s[i])
    <3>1. CASE i = m + 1
      <4>1. h[i - 1] = g[m] /\ i # 0
        BY <1>0, <3>1
      <4> QED
        BY <3>1, <4>1
    <3>2. CASE i # m + 1
      <4>1. i \in 0..m /\ h[i] = g[i] /\ (i # 0 => h[i - 1] = g[i - 1])
        BY <1>0, <3>2
      <4> QED
        BY <2>2, <4>1
    <3> QED
      BY <3>1, <3>2
  <2>4. h = [i \in 0..(m + 1) |-> h[i]]
    OBVIOUS
  <2> HIDE DEF h
  <2>5. Is(h, m + 1)
    BY <2>3, <2>4
  <2>6. m + 1 \in 0..n
    BY <1>0
  <2> QED
    BY <2>5, <2>6
<1> HIDE DEF S
<1>3. n \in S
  <2>1. \A m \in 0..n : m \in S
    BY <1>0, <1>1, <1>2, InductionUpTo
  <2> QED
    BY <1>0, <2>1
<1>4. \E g : Is(g, n)
  BY <1>3 DEF S
<1> DEFINE c == CHOOSE g : Is(g, n)
<1>5. Is(c, n)
  BY <1>4
<1>6. c = Contexts(a, s)
  BY DEF Contexts, n
<1> HIDE DEF c
<1>7. c[0] = a /\ \A i \in 0..(n - 1) : c[i + 1] = ContextAfterWrite(c[i], s[i + 1])
  <2>1. ASSUME NEW i \in 0..n
        PROVE  c[i] = IF i = 0 THEN a ELSE ContextAfterWrite(c[i - 1], s[i])
    BY <1>5
  <2>2. ASSUME NEW i \in 0..(n - 1)
        PROVE  c[i + 1] = ContextAfterWrite(c[i], s[i + 1])
    <3>1. i + 1 \in 0..n /\ i + 1 # 0 /\ i + 1 - 1 = i
      BY <1>0
    <3> QED
      BY <2>1, <3>1
  <2>3. 0 \in 0..n
    BY <1>0
  <2> QED
    BY <2>1, <2>2, <2>3
<1> QED
  BY <1>6, <1>7 DEF n

(* A list of calls *)
IsCalls(os) == os \in Seq(Range(os)) /\ \A i \in 1..Len(os) : IsCall(os[i])

(* A sequence of calls is a list of calls. *)
LEMMA CallsOf ==
  ASSUME NEW X, NEW os \in Seq(X), \A i \in 1..Len(os) : IsCall(os[i])
  PROVE  IsCalls(os)
<1>1. /\ Len(os) \in Nat
      /\ os = [i \in 1..Len(os) |-> os[i]] /\ DOMAIN os = 1..Len(os)
  OBVIOUS
<1>2. \A i \in 1..Len(os) : os[i] \in Range(os)
  BY <1>1 DEF Range
<1>3. os \in [1..Len(os) -> Range(os)]
  BY <1>1, <1>2
<1>4. os \in Seq(Range(os))
  BY <1>1, <1>3
<1> QED
  BY <1>4 DEF IsCalls

(* The parts of a list of calls *)
LEMMA CallsLen ==
  ASSUME NEW os, IsCalls(os)
  PROVE  Len(os) \in Nat /\ os \in Seq(Range(os)) /\ \A i \in 1..Len(os) : IsCall(os[i])
BY DEF IsCalls

(* One call is a list of calls. *)
LEMMA OneCall ==
  ASSUME NEW o, IsCall(o)
  PROVE  IsCalls(<<o>>)
<1> DEFINE s == <<o>>
<1>1. s \in Seq({o}) /\ Len(s) = 1 /\ s[1] = o
  OBVIOUS
<1>2. \A i \in 1..Len(s) : IsCall(s[i])
  BY <1>1
<1> HIDE DEF s
<1>3. IsCalls(s)
  BY <1>1, <1>2, CallsOf
<1> QED
  BY <1>3 DEF s

(* A list of calls followed by another one *)
LEMMA CallsConcat ==
  ASSUME NEW s, NEW t, IsCalls(s), IsCalls(t)
  PROVE  IsCalls(s \o t)
<1> DEFINE X == Range(s) \union Range(t)
<1>1. s \in Seq(X) /\ t \in Seq(X) /\ Len(s) \in Nat /\ Len(t) \in Nat
  <2>1. s \in Seq(Range(s)) /\ t \in Seq(Range(t))
    BY DEF IsCalls
  <2> QED
    BY <2>1
<1> HIDE DEF X
<1>2. /\ s \o t \in Seq(X) /\ Len(s \o t) = Len(s) + Len(t)
      /\ \A i \in 1..(Len(s) + Len(t)) :
           (s \o t)[i] = IF i <= Len(s) THEN s[i] ELSE t[i - Len(s)]
  BY <1>1
<1>3. ASSUME NEW i \in 1..Len(s \o t)
      PROVE  IsCall((s \o t)[i])
  <2>1. CASE i <= Len(s)
    <3>1. i \in 1..Len(s) /\ (s \o t)[i] = s[i]
      BY <1>1, <1>2, <2>1
    <3> QED
      BY <3>1 DEF IsCalls
  <2>2. CASE ~(i <= Len(s))
    <3>1. i - Len(s) \in 1..Len(t) /\ (s \o t)[i] = t[i - Len(s)]
      BY <1>1, <1>2, <2>2
    <3> QED
      BY <3>1 DEF IsCalls
  <2> QED
    BY <2>1, <2>2
<1> QED
  BY <1>2, <1>3, CallsOf

(* The first calls of a list *)
LEMMA CallsPrefix ==
  ASSUME NEW os, IsCalls(os), NEW n \in 0..Len(os)
  PROVE  /\ IsCalls(SubSeq(os, 1, n)) /\ Len(SubSeq(os, 1, n)) = n
         /\ \A i \in 1..n : SubSeq(os, 1, n)[i] = os[i]
<1>1. os \in Seq(Range(os)) /\ Len(os) \in Nat
  BY DEF IsCalls
<1> DEFINE X == Range(os)
           s == SubSeq(os, 1, n)
<1> HIDE DEF X
<1>2. s \in Seq(X) /\ Len(s) = n /\ \A i \in 1..n : s[i] = os[i]
  BY <1>1 DEF X
<1>3. \A i \in 1..n : i \in 1..Len(os)
  BY <1>1
<1> HIDE DEF s
<1>4. \A i \in 1..Len(s) : IsCall(s[i])
  BY <1>2, <1>3 DEF IsCalls
<1>5. IsCalls(s)
  BY <1>2, <1>4, CallsOf
<1> QED
  BY <1>2, <1>5 DEF s

(* A database is not Failed. *)
LEMMA DatabaseHolds ==
  ASSUME NEW db, DBInv(db)
  PROVE  db # Failed
<1>1. "tables" \in DOMAIN db
  BY DEF DBInv, Database
<1>2. DOMAIN Failed = {"failed"}
  BY DEF Failed
<1> QED
  BY <1>1, <1>2

(* The databases that accepted calls go through *)
IsPlayed(d, db, os) ==
  /\ d[0] = db /\ d[Len(os)] = Play(db, os)
  /\ \A i \in 0..(Len(os) - 1) :
       /\ DBInv(d[i]) /\ IsCall(os[i + 1]) /\ Accepts(d[i], os[i + 1])
       /\ d[i + 1] = Applied(d[i], os[i + 1])
  /\ DBInv(d[Len(os)])

(* Calls that are all accepted go through sound databases. *)
LEMMA PlayedSteps ==
  ASSUME NEW db, DBInv(db), NEW os, IsCalls(os), Play(db, os) # Failed
  PROVE  \E d : IsPlayed(d, db, os)
<1> DEFINE n == Len(os)
<1>0. n \in Nat /\ \A i \in 1..n : IsCall(os[i])
  BY CallsLen
<1>1. PICK d : /\ d[0] = db /\ d[n] = Play(db, os)
               /\ \A i \in 0..(n - 1) : d[i + 1] = PlayStep(d[i], os[i + 1])
  BY <1>0, PlaySteps
<1> HIDE DEF n
<1> DEFINE S == {i \in 0..n : d[i] # Failed => \A j \in 0..(i - 1) : d[j] # Failed}
           R == {i \in 0..n : DBInv(d[i])}
<1>2. 0 \in S
  BY <1>0
<1>3. ASSUME NEW i \in 0..(n - 1), i \in S
      PROVE  i + 1 \in S
  <2>1. i + 1 \in 0..n /\ i + 1 - 1 = i
    BY <1>0
  <2>2. ASSUME d[i + 1] # Failed, NEW j \in 0..i
        PROVE  d[j] # Failed
    <3>1. d[i] # Failed
      BY <1>1, <2>2 DEF PlayStep
    <3>2. CASE j = i
      BY <3>1, <3>2
    <3>3. CASE j # i
      <4>1. j \in 0..(i - 1)
        BY <3>3
      <4> QED
        BY <1>3, <3>1, <4>1
    <3> QED
      BY <3>2, <3>3
  <2> QED
    BY <2>1, <2>2
<1>4. n \in S
  <2> HIDE DEF S
  <2>1. \A i \in 0..n : i \in S
    BY <1>0, <1>2, <1>3, InductionUpTo
  <2> QED
    BY <1>0, <2>1
<1>5. \A i \in 0..n : d[i] # Failed
  <2>1. \A i \in 0..(n - 1) : d[i] # Failed
    BY <1>1, <1>4
  <2>2. \A i \in 0..n : i = n \/ i \in 0..(n - 1)
    BY <1>0
  <2> QED
    BY <1>1, <2>1, <2>2
<1>6. ASSUME NEW i \in 0..(n - 1)
      PROVE  /\ IsCall(os[i + 1]) /\ Accepts(d[i], os[i + 1])
             /\ d[i + 1] = Applied(d[i], os[i + 1])
  <2>1. i + 1 \in 0..n /\ i + 1 \in 1..n
    BY <1>0
  <2>2. d[i + 1] # Failed
    BY <1>5, <2>1
  <2>3. d[i + 1] = PlayStep(d[i], os[i + 1])
    BY <1>1
  <2> QED
    BY <1>0, <2>1, <2>2, <2>3 DEF PlayStep
<1>7. 0 \in R
  BY <1>0, <1>1
<1>8. ASSUME NEW i \in 0..(n - 1), i \in R
      PROVE  i + 1 \in R
  <2>1. DBInv(d[i + 1])
    BY <1>6, <1>8, AppliedInv
  <2>2. i + 1 \in 0..n
    BY <1>0
  <2> QED
    BY <2>1, <2>2
<1>9. \A i \in 0..n : DBInv(d[i])
  <2> HIDE DEF R
  <2>1. \A i \in 0..n : i \in R
    BY <1>0, <1>7, <1>8, InductionUpTo
  <2> QED
    BY <2>1 DEF R
<1>10. IsPlayed(d, db, os)
  <2>1. \A i \in 0..(n - 1) : i \in 0..n
    BY <1>0
  <2>2. n \in 0..n
    BY <1>0
  <2> QED
    BY <1>1, <1>6, <1>9, <2>1, <2>2 DEF IsPlayed, n
<1> QED
  BY <1>10

(* Accepted calls build a sound database. *)
LEMMA PlayInv ==
  ASSUME NEW db, DBInv(db), NEW os, IsCalls(os), Play(db, os) # Failed
  PROVE  DBInv(Play(db, os))
BY PlayedSteps DEF IsPlayed

(* The multiplexer makes the calls that the database accepts. *)
LEMMA PrefixPlayed ==
  ASSUME NEW db, DBInv(db), NEW os, IsCalls(os)
  PROVE  /\ IsCalls(AcceptedPrefix(db, os))
         /\ Play(db, AcceptedPrefix(db, os)) # Failed
<1> DEFINE n == Len(os)
<1>0. n \in Nat
  BY CallsLen
<1>a. PICK last : last = Play(db, os)
  OBVIOUS
<1>1. PICK d : /\ d[0] = db /\ d[n] = Play(db, os)
               /\ \A i \in 0..(n - 1) : d[i + 1] = PlayStep(d[i], os[i + 1])
  BY <1>0, <1>a, PlaySteps
<1> DEFINE P(i) == Play(db, SubSeq(os, 1, i))
           Is(k) == \A i \in 1..n : (i <= k) = (P(i) # Failed)
<1>2. ASSUME NEW i \in 0..n
      PROVE  P(i) = d[i]
  <2> DEFINE s == SubSeq(os, 1, i)
  <2>1. Len(s) = i /\ \A j \in 1..i : s[j] = os[j]
    BY CallsPrefix
  <2>2. i \in Nat /\ \A j \in 0..(i - 1) : j \in 0..(n - 1) /\ j + 1 \in 1..i
    BY <1>0
  <2> HIDE DEF s, n
  <2>3. \A j \in 0..(Len(s) - 1) : d[j + 1] = PlayStep(d[j], s[j + 1])
    BY <1>1, <2>1, <2>2
  <2>4. Len(s) \in Nat
    BY <2>1, <2>2
  <2>5. Play(db, s) = d[Len(s)]
    BY <1>1, <2>3, <2>4, PlayIs
  <2> QED
    BY <2>1, <2>5 DEF s
<1> HIDE DEF P
<1>3. \E k \in 0..n : Is(k) /\ d[k] # Failed
  <2> HIDE DEF n
  <2> DEFINE F == {i \in 0..n : d[i] = Failed}
  <2>1. d[0] # Failed
    BY <1>1, DatabaseHolds
  <2>2. CASE F = {}
    <3>1. \A i \in 1..n : P(i) # Failed /\ i <= n
      BY <1>0, <1>2, <2>2
    <3> QED
      BY <1>0, <2>2, <3>1
  <2>3. CASE F # {}
    <3>1. F \in SUBSET Nat
      BY <1>0
    <3>2. PICK x \in F : \A y \in F : x <= y
      <4> HIDE DEF F
      <4> QED
        BY <2>3, <3>1, LeastNat
    <3>3. x \in 1..n /\ x - 1 \in 0..n /\ d[x] = Failed
      BY <1>0, <2>1, <3>2
    <3> DEFINE T == {i \in 0..(n - x) : d[x + i] = Failed}
    <3>4. 0 \in T
      BY <1>0, <3>3
    <3>5. ASSUME NEW i \in 0..(n - x - 1), i \in T
          PROVE  i + 1 \in T
      <4>1. x + i \in 0..(n - 1) /\ i + 1 \in 0..(n - x) /\ x + (i + 1) = (x + i) + 1
        BY <1>0, <3>3
      <4>2. d[(x + i) + 1] = Failed
        BY <1>1, <3>5, <4>1 DEF PlayStep
      <4> QED
        BY <4>1, <4>2
    <3>6. ASSUME NEW i \in x..n
          PROVE  d[i] = Failed
      <4>1. n - x \in Nat /\ i - x \in 0..(n - x) /\ x + (i - x) = i
        BY <1>0, <3>3
      <4> HIDE DEF T
      <4>2. \A j \in 0..(n - x) : j \in T
        BY <3>4, <3>5, <4>1, InductionUpTo
      <4>3. i - x \in T
        BY <4>1, <4>2
      <4> QED
        BY <4>1, <4>3 DEF T
    <3>7. ASSUME NEW i \in 0..(x - 1)
          PROVE  d[i] # Failed
      <4>1. i \in 0..n /\ ~(x <= i)
        BY <1>0, <3>3
      <4> QED
        BY <3>2, <4>1
    <3>8. ASSUME NEW i \in 1..n
          PROVE  (i <= x - 1) = (P(i) # Failed)
      <4>1. P(i) = d[i]
        BY <1>0, <1>2
      <4>2. CASE i <= x - 1
        <5>1. i \in 0..(x - 1)
          BY <3>3, <4>2
        <5> QED
          BY <3>7, <4>1, <4>2, <5>1
      <4>3. CASE ~(i <= x - 1)
        <5>1. i \in x..n
          BY <3>3, <4>3
        <5> QED
          BY <3>6, <4>1, <4>3, <5>1
      <4> QED
        BY <4>2, <4>3
    <3>9. d[x - 1] # Failed
      BY <3>3, <3>7
    <3> QED
      BY <3>3, <3>8, <3>9
  <2> QED
    BY <2>2, <2>3
<1> DEFINE c == CHOOSE k \in 0..n : Is(k)
<1>4. c \in 0..n /\ Is(c)
  BY <1>3
<1>5. AcceptedPrefix(db, os) = SubSeq(os, 1, c)
  BY DEF AcceptedPrefix, P
<1> HIDE DEF c
<1>6. d[c] # Failed
  <2>1. CASE c = 0
    BY <1>1, <2>1, DatabaseHolds
  <2>2. CASE c # 0
    <3>1. c \in 1..n /\ c <= c
      BY <1>0, <1>4, <2>2
    <3>2. P(c) # Failed
      BY <1>4, <3>1
    <3> QED
      BY <1>2, <1>4, <3>2
  <2> QED
    BY <2>1, <2>2
<1>7. Play(db, SubSeq(os, 1, c)) # Failed
  BY <1>2, <1>4, <1>6 DEF P
<1> QED
  BY <1>4, <1>5, <1>7, CallsPrefix
-----------------------------------------------------------------------------
(***************************************************************************)
(* The calls of a user.                                                    *)
(***************************************************************************)

UpTo(S, x) == {y \in S : y <= x}

(* In a set of small numbers there is one of each rank. *)
LEMMA Ranked ==
  ASSUME NEW m \in Nat, NEW S \in SUBSET (0..(m - 1)), NEW i \in 1..Cardinality(S)
  PROVE  \E x \in S : Cardinality(UpTo(S, x)) = i
<1>0. IsFiniteSet(S) /\ Cardinality(S) \in Nat
  <2>1. 0 \in Int /\ m - 1 \in Int
    OBVIOUS
  <2>2. IsFiniteSet(0..(m - 1))
    BY <2>1, FS_Interval
  <2> QED
    BY <2>2, FS_Subset, FS_CardinalityType
<1>1. ASSUME NEW x
      PROVE  /\ UpTo(S, x) \in SUBSET S /\ IsFiniteSet(UpTo(S, x))
             /\ Cardinality(UpTo(S, x)) \in Nat
  <2>1. UpTo(S, x) \in SUBSET S
    BY DEF UpTo
  <2> QED
    BY <1>0, <2>1, FS_Subset, FS_CardinalityType
<1> DEFINE T == {x \in 0..(m - 1) : Cardinality(UpTo(S, x)) >= i}
<1>2. m > 0
  <2>1. CASE m = 0
    <3>1. S = {}
      BY <2>1
    <3>2. Cardinality(S) = 0
      BY <3>1, FS_EmptySet
    <3> QED
      BY <3>2
  <2> QED
    BY <2>1
<1>3. m - 1 \in T
  <2>1. UpTo(S, m - 1) = S
    <3>1. \A y \in S : y <= m - 1
      OBVIOUS
    <3> QED
      BY <3>1 DEF UpTo
  <2>2. Cardinality(UpTo(S, m - 1)) >= i
    BY <1>0, <2>1
  <2> QED
    BY <1>2, <2>2
<1>4. PICK x \in T : \A y \in T : x <= y
  <2>1. T \in SUBSET Nat /\ T # {}
    BY <1>3
  <2> HIDE DEF T
  <2> QED
    BY <2>1, LeastNat
<1>5. x \in 0..(m - 1) /\ Cardinality(UpTo(S, x)) >= i
  BY <1>4
<1> DEFINE before == UpTo(S, x - 1)
<1>6. IsFiniteSet(before) /\ Cardinality(before) \in Nat /\ Cardinality(before) < i
  <2>1. CASE x = 0
    <3>1. before = {}
      <4>1. ASSUME NEW y \in S
            PROVE  ~(y <= x - 1)
        BY <2>1
      <4> QED
        BY <4>1 DEF UpTo
    <3>2. Cardinality(before) = 0 /\ IsFiniteSet(before)
      BY <3>1, FS_EmptySet
    <3> QED
      BY <3>2
  <2>2. CASE x # 0
    <3>1. x - 1 \in 0..(m - 1) /\ ~(x <= x - 1)
      BY <1>5, <2>2
    <3>2. x - 1 \notin T
      BY <1>4, <3>1
    <3>3. ~(Cardinality(before) >= i)
      BY <3>1, <3>2
    <3>4. IsFiniteSet(before) /\ Cardinality(before) \in Nat
      BY <1>1
    <3> QED
      BY <3>3, <3>4
  <2> QED
    BY <2>1, <2>2
<1>7. CASE x \in S
  <2>1. UpTo(S, x) = before \cup {x} /\ x \notin before
    <3>1. ASSUME NEW y \in S
          PROVE  y <= x <=> y <= x - 1 \/ y = x
      BY <1>5
    <3>2. x <= x /\ ~(x <= x - 1)
      BY <1>5
    <3> QED
      BY <1>7, <3>1, <3>2 DEF UpTo
  <2>2. Cardinality(UpTo(S, x)) = Cardinality(before) + 1
    <3> HIDE DEF before
    <3>1. Cardinality(before \cup {x}) = Cardinality(before) + 1
      BY <1>6, <2>1, FS_AddElement
    <3> QED
      BY <2>1, <3>1
  <2>3. Cardinality(UpTo(S, x)) = i
    <3> HIDE DEF before
    <3> QED
      BY <1>5, <1>6, <2>2
  <2> QED
    BY <1>7, <2>3
<1>8. CASE x \notin S
  <2>1. UpTo(S, x) = before
    <3>1. ASSUME NEW y \in S
          PROVE  y <= x <=> y <= x - 1
      BY <1>5, <1>8
    <3> QED
      BY <3>1 DEF UpTo
  <2> HIDE DEF before
  <2>2. Cardinality(UpTo(S, x)) < i
    BY <1>6, <2>1
  <2> QED
    BY <1>5, <1>6, <2>1, <2>2
<1> QED
  BY <1>7, <1>8

(* The elements of a set of small numbers are listed in full. *)
LEMMA AscendingIs ==
  ASSUME NEW m \in Nat, NEW S \in SUBSET (0..(m - 1))
  PROVE  /\ Ascending(S) \in Seq(S) /\ Len(Ascending(S)) = Cardinality(S)
         /\ \A i \in 1..Cardinality(S) : Ascending(S)[i] \in S
<1>0. Cardinality(S) \in Nat
  <2>1. 0 \in Int /\ m - 1 \in Int
    OBVIOUS
  <2>2. IsFiniteSet(0..(m - 1))
    BY <2>1, FS_Interval
  <2> QED
    BY <2>2, FS_Subset, FS_CardinalityType
<1>1. ASSUME NEW i \in 1..Cardinality(S)
      PROVE  (CHOOSE x \in S : Cardinality({y \in S : y <= x}) = i) \in S
  <2>1. PICK x \in S : Cardinality(UpTo(S, x)) = i
    BY Ranked
  <2>2. \E z \in S : Cardinality({y \in S : y <= z}) = i
    BY <2>1 DEF UpTo
  <2> QED
    BY <2>2
<1>2. Ascending(S) \in [1..Cardinality(S) -> S]
  BY <1>1 DEF Ascending
<1> HIDE DEF Ascending
<1> QED
  BY <1>0, <1>2

(* Calls on rows have the right arguments. *)
LEMMA RowCallIs ==
  /\ \A t : \A r \in Int : IsCall(insert_into(t, r)) /\ IsCall(delete_from(t, r))
  /\ \A t : \A r \in Int, n \in Nat : IsCall(insert_vector(t, r, n)) /\ IsCall(delete_vector(t, r, n))
<1>1. ASSUME NEW t, NEW r \in Int
      PROVE  IsCall(insert_into(t, r)) /\ IsCall(delete_from(t, r))
  BY DEF IsCall, insert_into, delete_from, SchemaOps, InformationOps
<1>2. ASSUME NEW t, NEW r \in Int, NEW n \in Nat
      PROVE  IsCall(insert_vector(t, r, n)) /\ IsCall(delete_vector(t, r, n))
  BY DEF IsCall, insert_vector, delete_vector, SchemaOps, InformationOps
<1> QED
  BY <1>1, <1>2

(* An update has the right arguments. *)
LEMMA UpdateIs ==
  ASSUME NEW t, NEW r \in Int, NEW f, NEW v
  PROVE  IsCall(update(t, r, f, v))
BY DEF IsCall, update, SchemaOps, InformationOps

(* An update of a vector has the right arguments. *)
LEMMA UpdateVectorIs ==
  ASSUME NEW t, NEW r \in Int, NEW f, NEW n \in Nat
  PROVE  IsCall(update_vector(t, r, f, [i \in 1..n |-> 1]))
<1> DEFINE vs == [i \in 1..n |-> 1]
<1>1. vs \in Seq(Range(vs))
  <2>1. \A i \in 1..n : vs[i] \in Range(vs)
    BY DEF Range
  <2>2. vs \in [1..n -> Range(vs)]
    BY <2>1
  <2> HIDE DEF vs
  <2> QED
    BY <2>2
<1> HIDE DEF vs
<1>2. IsCall(update_vector(t, r, f, vs))
  BY <1>1 DEF IsCall, update_vector, SchemaOps, InformationOps
<1> QED
  BY <1>2 DEF vs

(* Calls on the schema, and comments, have no argument that matters here. *)
LEMMA SchemaCallIs ==
  ASSUME NEW o, o.op \in SchemaOps \union InformationOps
  PROVE  IsCall(o)
BY DEF IsCall, SchemaOps, InformationOps

(* The cells of some records, one after the other *)
LEMMA UpdatesAre ==
  ASSUME NEW t, NEW n \in Nat, NEW os, DOMAIN os = 1..n, os = [i \in 1..n |-> os[i]],
         \A i \in 1..n : IsCall(os[i])
  PROVE  IsCalls(os)
<1> DEFINE X == {os[i] : i \in 1..n}
<1>1. os \in [1..n -> X]
  OBVIOUS
<1> HIDE DEF X
<1>2. os \in Seq(X) /\ Len(os) = n
  BY <1>1
<1> QED
  BY <1>2, CallsOf
(* A new field with a default value: one call for each used record *)
LEMMA AddFieldIs ==
  ASSUME NEW db, DBInv(db), NEW t \in DOMAIN db.tables, NEW name, NEW type, NEW v
  PROVE  IsCalls(AddFieldWithDefault(db, t, name, type, v))
<1> DEFINE k == db.tables[t].freedom
           S == Records(k, TRUE)
           used == Ascending(S)
           f == db.tables[t].current_field_id + 1
           us == [i \in 1..Len(used) |-> update(t, used[i], f, v)]
<1>1. KeeperSize(k) \in Nat
  BY KeeperTypes DEF DBInv, TableInv
<1>2. S \in SUBSET (0..(KeeperSize(k) - 1))
  BY DEF Records
<1> HIDE DEF S, k
<1>3. /\ used \in Seq(S) /\ Len(used) = Cardinality(S)
      /\ \A i \in 1..Cardinality(S) : used[i] \in S
  BY <1>1, <1>2, AscendingIs
<1> HIDE DEF used, f
<1>4. Len(used) \in Nat /\ \A i \in 1..Len(used) : used[i] \in Int
  <2>1. Len(used) \in Nat
    BY <1>3
  <2>2. \A x \in S : x \in Int
    BY <1>1, <1>2
  <2> QED
    BY <1>3, <2>1, <2>2
<1>5. \A i \in 1..Len(used) : IsCall(us[i])
  BY <1>4, UpdateIs
<1>6. DOMAIN us = 1..Len(used) /\ us = [i \in 1..Len(used) |-> us[i]]
  OBVIOUS
<1> HIDE DEF us
<1>7. IsCalls(us)
  BY <1>4, <1>5, <1>6, UpdatesAre
<1>8. IsCall(add_field(t, name, type))
  BY SchemaCallIs DEF add_field, SchemaOps
<1>9. IsCalls(<<add_field(t, name, type)>> \o us)
  BY <1>7, <1>8, OneCall, CallsConcat
<1> QED
  BY <1>9 DEF us, used, S, f, k, AddFieldWithDefault

(* A new record with values: one call for each of them *)
LEMMA AppendIs ==
  ASSUME NEW db, DBInv(db), NEW t \in DOMAIN db.tables, NEW v, NEW w
  PROVE  IsCalls(append_into(db, t, <<v, w>>))
<1> DEFINE r == KeeperSize(db.tables[t].freedom)
           vs == <<v, w>>
           fields == Ascending(DOMAIN db.tables[t].fields)
           n == IF Len(vs) < Len(fields) THEN Len(vs) ELSE Len(fields)
           us == [i \in 1..n |-> update(t, r, fields[i], vs[i])]
<1>1. r \in Nat
  BY KeeperTypes DEF DBInv, TableInv
<1>2. Cardinality(DOMAIN db.tables[t].fields) \in Nat
  BY FS_CardinalityType DEF DBInv, TableInv, FieldsInv
<1>3. Len(fields) = Cardinality(DOMAIN db.tables[t].fields)
  BY <1>2 DEF Ascending
<1>4. Len(vs) \in Nat
  OBVIOUS
<1> HIDE DEF fields, vs, r
<1>5. n \in Nat
  BY <1>2, <1>3, <1>4
<1> HIDE DEF n
<1>6. \A i \in 1..n : IsCall(us[i])
  BY <1>1, UpdateIs
<1>7. DOMAIN us = 1..n /\ us = [i \in 1..n |-> us[i]]
  OBVIOUS
<1> HIDE DEF us
<1>8. IsCalls(us)
  BY <1>5, <1>6, <1>7, UpdatesAre
<1>9. IsCall(insert_into(t, r))
  BY <1>1, RowCallIs
<1>10. IsCalls(<<insert_into(t, r)>> \o us)
  BY <1>8, <1>9, OneCall, CallsConcat
<1> QED
  BY <1>10 DEF us, n, fields, vs, r, append_into, InsertWithValues

(* The schema commands of a user are lists of calls. *)
LEMMA SchemaCallsAre ==
  ASSUME DBInv(meant.current), NEW os \in SchemaCalls
  PROVE  IsCalls(os)
<1>1. CASE \E n : os = <<create_table(n)>>
  BY <1>1, OneCall, SchemaCallIs DEF create_table, SchemaOps
<1>2. CASE \E t : os = <<drop_table(t)>>
  BY <1>2, OneCall, SchemaCallIs DEF drop_table, SchemaOps
<1>3. CASE \E t, n : os = <<rename_table(t, n)>>
  BY <1>3, OneCall, SchemaCallIs DEF rename_table, SchemaOps
<1>4. CASE \E t, n, type : os = <<add_field(t, n, type)>>
  BY <1>4, OneCall, SchemaCallIs DEF add_field, SchemaOps
<1>5. CASE \E t \in Tables : \E n, type : os = AddFieldWithDefault(meant.current, t, n, type, 1)
  BY <1>5, AddFieldIs DEF Tables
<1>6. CASE \E t, f : os = <<drop_field(t, f)>>
  BY <1>6, OneCall, SchemaCallIs DEF drop_field, SchemaOps
<1>7. CASE \E t, f, n : os = <<rename_field(t, f, n)>>
  BY <1>7, OneCall, SchemaCallIs DEF rename_field, SchemaOps
<1> DEFINE tables == {x \in Tables \X FieldNames :
                       meant.current.tables[x[1]].current_field_id < MaxField}
           types  == {int32} \union {reference(u) : u \in Tables}
           A == {<<create_table(n)>> : n \in {m \in TableNames : meant.current.current_table_id < MaxTable}}
           B == {<<drop_table(t)>> : t \in Tables}
           C == {<<rename_table(t, n)>> : t \in Tables, n \in TableNames}
           D == {<<add_field(x[1], x[2], type)>> : x \in tables, type \in types}
           E == {AddFieldWithDefault(meant.current, x[1], x[2], type, 1) : x \in tables, type \in types}
           F == UNION {FieldCalls(t) : t \in Tables}
<1>8. os \in A \/ os \in B \/ os \in C \/ os \in D \/ os \in E \/ os \in F
  <2>1. os \in A \union B \union C \union D \union E \union F
    BY DEF SchemaCalls
  <2> HIDE DEF A, B, C, D, E, F
  <2> QED
    BY <2>1
<1> HIDE DEF types
<1>9. CASE os \in A
  BY <1>1, <1>9
<1>10. CASE os \in B
  BY <1>2, <1>10
<1>11. CASE os \in C
  BY <1>3, <1>11
<1>12. CASE os \in D
  BY <1>4, <1>12
<1>13. CASE os \in E
  BY <1>5, <1>13
<1>14. CASE os \in F
  <2>1. PICK t : os \in FieldCalls(t)
    BY <1>14
  <2> QED
    BY <1>6, <1>7, <2>1 DEF FieldCalls
<1> HIDE DEF A, B, C, D, E, F
<1> QED
  BY <1>8, <1>9, <1>10, <1>11, <1>12, <1>13, <1>14

(* The row commands of a user are lists of calls. *)
LEMMA RowCallsAre ==
  ASSUME DBInv(meant.current), NEW os \in RowCalls
  PROVE  IsCalls(os)
<1>0. 0..MaxRecord \subseteq Int /\ {0, 2} \subseteq Nat
  BY BoundAssumption
<1>1. CASE \E t : \E r \in 0..MaxRecord : os = <<insert_into(t, r)>>
  BY <1>0, <1>1, OneCall, RowCallIs
<1>2. CASE \E t : \E r \in 0..MaxRecord : os = <<delete_from(t, r)>>
  BY <1>0, <1>2, OneCall, RowCallIs
<1>3. CASE \E t : \E r \in 0..MaxRecord, n \in {0, 2} : os = <<insert_vector(t, r, n)>>
  BY <1>0, <1>3, OneCall, RowCallIs
<1>4. CASE \E t : \E r \in 0..MaxRecord, n \in {0, 2} : os = <<delete_vector(t, r, n)>>
  BY <1>0, <1>4, OneCall, RowCallIs
<1>5. CASE \E t \in Tables : \E v : os = append_into(meant.current, t, <<v, v>>)
  BY <1>5, AppendIs DEF Tables
<1> DEFINE vectors == {x \in (0..MaxRecord) \X {0, 2} : x[1] + x[2] - 1 <= MaxRecord}
           growing == {t \in Tables : KeeperSize(meant.current.tables[t].freedom) <= MaxRecord}
           A == {<<insert_into(t, r)>> : t \in Tables, r \in 0..MaxRecord}
           B == {<<delete_from(t, r)>> : t \in Tables, r \in 0..MaxRecord}
           C == {<<insert_vector(t, x[1], x[2])>> : t \in Tables, x \in vectors}
           D == {<<delete_vector(t, x[1], x[2])>> : t \in Tables, x \in vectors}
           E == {append_into(meant.current, t, <<v, v>>) : t \in growing, v \in Values}
<1>6. os \in A \/ os \in B \/ os \in C \/ os \in D \/ os \in E
  <2> HIDE DEF A, B, C, D, E
  <2>1. RowCalls = A \union B \union C \union D \union E
    BY DEF RowCalls, A, B, C, D, E, vectors, growing
  <2> QED
    BY <2>1
<1>7. \A x \in vectors : x[1] \in 0..MaxRecord /\ x[2] \in {0, 2}
  OBVIOUS
<1> HIDE DEF vectors
<1>8. CASE os \in A
  BY <1>1, <1>8
<1>9. CASE os \in B
  BY <1>2, <1>9
<1>10. CASE os \in C
  BY <1>3, <1>7, <1>10
<1>11. CASE os \in D
  BY <1>4, <1>7, <1>11
<1>12. CASE os \in E
  BY <1>5, <1>12
<1> HIDE DEF A, B, C, D, E
<1> QED
  BY <1>6, <1>8, <1>9, <1>10, <1>11, <1>12

(* The cell commands of a user are lists of calls. *)
LEMMA CellCallsAre ==
  ASSUME DBInv(meant.current), NEW os \in CellCalls
  PROVE  IsCalls(os)
<1>0. 0..MaxRecord \subseteq Int /\ {0, 2, 3} \subseteq Nat
  BY BoundAssumption
<1>1. CASE \E t, f, v : \E r \in 0..MaxRecord : os = <<update(t, r, f, v)>>
  BY <1>0, <1>1, OneCall, UpdateIs
<1>2. CASE \E t, f : \E r \in 0..MaxRecord, n \in {0, 2, 3} :
             os = <<update_vector(t, r, f, [i \in 1..n |-> 1])>>
  BY <1>0, <1>2, OneCall, UpdateVectorIs
<1> DEFINE vectors == {x \in (0..MaxRecord) \X {0, 2, 3} : x[1] + x[2] - 1 <= MaxRecord}
           Cells(t, f) == {<<update(t, r, f, v)>> : r \in 0..MaxRecord, v \in ValuesOf(t, f)}
           Vectors(t, f) == {<<update_vector(t, x[1], f, [i \in 1..x[2] |-> 1])>> : x \in vectors}
<1>3. \A x \in vectors : x[1] \in 0..MaxRecord /\ x[2] \in {0, 2, 3}
  OBVIOUS
<1>4. PICK t, f : os \in Cells(t, f) \union Vectors(t, f)
  <2> HIDE DEF Cells, Vectors
  <2>1. CellCalls = UNION {UNION {Cells(t, f) \union Vectors(t, f) : f \in Fields(t)} : t \in Tables}
    BY DEF CellCalls, Cells, Vectors, vectors
  <2> QED
    BY <2>1
<1> HIDE DEF vectors
<1>5. CASE os \in Cells(t, f)
  BY <1>1, <1>5
<1>6. CASE os \in Vectors(t, f)
  BY <1>2, <1>3, <1>6
<1> QED
  BY <1>4, <1>5, <1>6

-----------------------------------------------------------------------------
(***************************************************************************)
(* The tables of the clients stay sound.                                   *)
(***************************************************************************)

Meant(committed, current) == [committed |-> committed, current |-> current]

SoundInv ==
  /\ meant = Meant(meant.committed, meant.current)
  /\ DBInv(meant.committed)
  /\ DBInv(meant.current)

(* Two sound databases are a sound state. *)
LEMMA SoundAfter ==
  ASSUME NEW a, NEW b, DBInv(a), DBInv(b), meant' = Meant(a, b)
  PROVE  SoundInv'
BY DEF SoundInv, Meant

(* A file that a script has built is sound. *)
LEMMA InitSound == Init => SoundInv
<1> SUFFICES ASSUME Init
             PROVE  SoundInv
  OBVIOUS
<1>1. PICK script \in Scripts : meant = Meant(Play(NewDatabase(null), script),
                                              Play(NewDatabase(null), script))
  BY DEF Init, InitAfter, Meant
<1>2. IsCalls(script) /\ Play(NewDatabase(null), script) # Failed
  BY ScriptAssumption DEF IsScript, IsCalls
<1>3. DBInv(Play(NewDatabase(null), script))
  BY <1>2, NewDatabaseInv, PlayInv
<1> QED
  BY <1>1, <1>3 DEF SoundInv, Meant

(* Writing keeps the databases sound. *)
LEMMA WritesSound ==
  ASSUME SoundInv, NEW c, NEW os, IsCalls(os), Writes(c, os)
  PROVE  SoundInv'
<1> DEFINE made == AcceptedPrefix(meant.current, os)
<1>1. meant' = [meant EXCEPT !.current = Play(@, made)]
  BY DEF Writes, Multiplex
<1>2. IsCalls(made) /\ Play(meant.current, made) # Failed
  BY PrefixPlayed DEF SoundInv
<1> HIDE DEF made
<1>3. DBInv(Play(meant.current, made))
  BY <1>2, PlayInv DEF SoundInv
<1>4. meant' = Meant(meant.committed, Play(meant.current, made))
  BY <1>1 DEF SoundInv, Meant
<1> QED
  BY <1>3, <1>4, SoundAfter DEF SoundInv

(* Every step keeps the databases sound. *)
LEMMA StepSound == SoundInv /\ [Next]_vars => SoundInv'
<1> SUFFICES ASSUME SoundInv, [Next]_vars
             PROVE  SoundInv'
  OBVIOUS
<1>1. CASE UNCHANGED meant
  BY <1>1 DEF SoundInv
<1>2. CASE \E c : \E os \in SchemaCalls : Writes(c, os)
  BY <1>2, WritesSound, SchemaCallsAre DEF SoundInv
<1>3. CASE \E c : \E os \in RowCalls : Writes(c, os)
  BY <1>3, WritesSound, RowCallsAre DEF SoundInv
<1>4. CASE \E c : \E os \in CellCalls : Writes(c, os)
  BY <1>4, WritesSound, CellCallsAre DEF SoundInv
<1>5. CASE \E c : Remark(c)
  <2>1. IsCall(comment("text"))
    BY SchemaCallIs DEF comment, InformationOps
  <2> QED
    BY <1>5, <2>1, OneCall, WritesSound DEF Remark
<1>6. CASE \E c : Commit(c)
  <2>1. meant' = [meant EXCEPT !.committed = meant.current]
    BY <1>6 DEF Commit
  <2>2. meant' = Meant(meant.current, meant.current)
    BY <2>1 DEF SoundInv, Meant
  <2> QED
    BY <2>2, SoundAfter DEF SoundInv
<1>7. CASE \E c : Abort(c)
  <2>1. meant' = [meant EXCEPT !.current = meant.committed]
    BY <1>7 DEF Abort
  <2>2. meant' = Meant(meant.committed, meant.committed)
    BY <2>1 DEF SoundInv, Meant
  <2> QED
    BY <2>2, SoundAfter DEF SoundInv
<1> QED
  BY <1>1, <1>2, <1>3, <1>4, <1>5, <1>6, <1>7
     DEF Next, vars, Pull, start_transaction, ChangeSchema, ChangeRows, ChangeCells

(* What a sound database says of its keepers *)
LEMMA SoundKeepers == SoundInv => KeepersSound
<1> SUFFICES ASSUME SoundInv, NEW t \in Tables
             PROVE  LET table == meant.current.tables[t]
                    IN /\ KeeperIsSound(table.freedom)
                       /\ \A f \in DOMAIN table.fields :
                            DOMAIN table.fields[f].column = 0..(KeeperSize(table.freedom) - 1)
  BY DEF KeepersSound
<1> DEFINE table == meant.current.tables[t]
<1>1. KeeperInv(table.freedom) /\ FieldsInv(table.fields, KeeperSize(table.freedom))
  BY DEF SoundInv, DBInv, TableInv, Tables
<1>2. KeeperIsSound(table.freedom)
  BY <1>1, KeepersAreSound
<1>3. ASSUME NEW f \in DOMAIN table.fields
      PROVE  DOMAIN table.fields[f].column = 0..(KeeperSize(table.freedom) - 1)
  BY <1>1 DEF FieldsInv, FieldInv
<1> QED
  BY <1>2, <1>3

(* The tables of a database are sound after any calls that it accepted: the  *)
(* lists of used and free records of every table are complete, end where     *)
(* they start, and read the same forward and backward, and every column has  *)
(* one cell per record (Freedom_Keeper.h, Table.h, Database.cpp).            *)
THEOREM KeepersStaySound == Spec => []KeepersSound
<1>1. Spec => []SoundInv
  BY InitSound, StepSound, PTL DEF Spec
<1> QED
  BY <1>1, SoundKeepers, PTL

-----------------------------------------------------------------------------
(***************************************************************************)
(* What the journal writes is read back.                                   *)
(***************************************************************************)

Context(table, record, field) == [table |-> table, record |-> record, field |-> field]

ContextInv(ctx) ==
  ctx = Context(ctx.table, ctx.record, ctx.field) /\ ctx.record \in Int

Reader(ctx, db) == [ctx |-> ctx, db |-> db]

(* A reader is its context and its database. *)
LEMMA ReaderIs ==
  /\ \A ctx, db : Reader(ctx, db).ctx = ctx /\ Reader(ctx, db).db = db
  /\ \A a, b, c, d : Reader(a, b) = Reader(c, d) => a = c /\ b = d
BY DEF Reader

(* A context stays a context. *)
LEMMA ContextKept ==
  ASSUME NEW ctx, ContextInv(ctx), NEW o, IsCall(o)
  PROVE  ContextInv(ContextAfterWrite(ctx, o))
<1>1. CASE o.op \in {"insert_into", "insert_vector"}
  <2>1. o.r \in Int
    BY <1>1 DEF IsCall, SchemaOps, InformationOps
  <2>2. ContextAfterWrite(ctx, o) = [ctx EXCEPT !.table = o.t, !.record = o.r]
    BY <1>1 DEF ContextAfterWrite
  <2>3. ContextAfterWrite(ctx, o) = Context(o.t, o.r, ctx.field)
    BY <2>2 DEF ContextInv, Context
  <2> QED
    BY <2>1, <2>3 DEF ContextInv, Context
<1>2. CASE o.op \in {"update", "update_vector"}
  <2>1. o.r \in Int
    BY <1>2 DEF IsCall, SchemaOps, InformationOps
  <2>2. ContextAfterWrite(ctx, o) = Context(o.t, o.r, o.f)
    BY <1>2 DEF ContextAfterWrite, Context
  <2> QED
    BY <2>1, <2>2 DEF ContextInv, Context
<1>3. CASE o.op \notin {"insert_into", "insert_vector", "update", "update_vector"}
  <2>1. ContextAfterWrite(ctx, o) = ctx
    BY <1>3 DEF ContextAfterWrite
  <2> QED
    BY <2>1
<1> QED
  BY <1>1, <1>2, <1>3

(* An entry says its call, in the context where it was written. *)
SaysCall(ctx, o, e) ==
  /\ Decoded(ctx, e) = o
  /\ ContextAfterRead(ctx, e) = ContextAfterWrite(ctx, o)
  /\ IsSkipped(e) <=> o.op = "update_vector" /\ o.vs = <<>>

(* Each of the four forms says its call. *)
LEMMA EncodedSays ==
  ASSUME NEW ctx, ContextInv(ctx), NEW o, IsCall(o)
  PROVE  SaysCall(ctx, o, Encoded(ctx, o))
<1> DEFINE e == Encoded(ctx, o)
<1>1. CASE IsAppend(ctx, o)
  <2>1. o.op = "insert_into" /\ o.t = ctx.table /\ o.r = ctx.record + 1
    BY <1>1 DEF IsAppend
  <2>2. e = [code |-> "append"]
    <3>1. ~IsUpdateLast(ctx, o) /\ ~IsUpdateNext(ctx, o)
      BY <2>1 DEF IsUpdateLast, IsUpdateNext
    <3> QED
      BY <1>1, <3>1 DEF Encoded
  <2> HIDE DEF e
  <2>3. e.code = "append"
    BY <2>2
  <2>4. o = insert_into(o.t, o.r)
    BY <2>1 DEF IsCall, SchemaOps, InformationOps
  <2>5. Decoded(ctx, e) = o
    BY <2>1, <2>3, <2>4 DEF Decoded
  <2>6. ContextAfterRead(ctx, e) = Context(o.t, o.r, ctx.field)
    BY <2>1, <2>3 DEF ContextAfterRead, ContextInv, Context
  <2>7. ContextAfterWrite(ctx, o) = Context(o.t, o.r, ctx.field)
    BY <2>1 DEF ContextAfterWrite, ContextInv, Context
  <2> QED
    BY <2>1, <2>3, <2>5, <2>6, <2>7 DEF SaysCall, IsSkipped, e
<1>2. CASE IsUpdateLast(ctx, o)
  <2>1. o.op = "update" /\ o.t = ctx.table /\ o.r = ctx.record
    BY <1>2 DEF IsUpdateLast
  <2>2. e = [code |-> "update_last", f |-> o.f, v |-> o.v]
    <3>1. ~IsAppend(ctx, o) /\ ~IsUpdateNext(ctx, o)
      BY <2>1 DEF IsAppend, IsUpdateNext, ContextInv
    <3> QED
      BY <1>2, <3>1 DEF Encoded
  <2> HIDE DEF e
  <2>3. e.code = "update_last" /\ e.f = o.f /\ e.v = o.v
    BY <2>2
  <2>4. o = update(o.t, o.r, o.f, o.v)
    BY <2>1 DEF IsCall, SchemaOps, InformationOps
  <2>5. Decoded(ctx, e) = o
    BY <2>1, <2>3, <2>4 DEF Decoded
  <2>6. ContextAfterRead(ctx, e) = Context(o.t, o.r, o.f)
    BY <2>1, <2>3 DEF ContextAfterRead, ContextInv, Context
  <2>7. ContextAfterWrite(ctx, o) = Context(o.t, o.r, o.f)
    BY <2>1 DEF ContextAfterWrite, Context
  <2> QED
    BY <2>1, <2>3, <2>5, <2>6, <2>7 DEF SaysCall, IsSkipped, e
<1>3. CASE IsUpdateNext(ctx, o)
  <2>1. o.op = "update" /\ o.t = ctx.table /\ o.r = ctx.record + 1 /\ o.f = ctx.field
    BY <1>3 DEF IsUpdateNext
  <2>2. e = [code |-> "update_next", v |-> o.v]
    <3>1. ~IsAppend(ctx, o) /\ ~IsUpdateLast(ctx, o)
      BY <2>1 DEF IsAppend, IsUpdateLast, ContextInv
    <3> QED
      BY <1>3, <3>1 DEF Encoded
  <2> HIDE DEF e
  <2>3. e.code = "update_next" /\ e.v = o.v
    BY <2>2
  <2>4. o = update(o.t, o.r, o.f, o.v)
    BY <2>1 DEF IsCall, SchemaOps, InformationOps
  <2>5. Decoded(ctx, e) = o
    BY <2>1, <2>3, <2>4 DEF Decoded
  <2>6. ContextAfterRead(ctx, e) = Context(o.t, o.r, o.f)
    BY <2>1, <2>3 DEF ContextAfterRead, ContextInv, Context
  <2>7. ContextAfterWrite(ctx, o) = Context(o.t, o.r, o.f)
    BY <2>1 DEF ContextAfterWrite, Context
  <2> QED
    BY <2>1, <2>3, <2>5, <2>6, <2>7 DEF SaysCall, IsSkipped, e
<1>4. CASE ~IsAppend(ctx, o) /\ ~IsUpdateLast(ctx, o) /\ ~IsUpdateNext(ctx, o)
  <2>1. e = [code |-> o.op, args |-> o]
    BY <1>4 DEF Encoded
  <2> HIDE DEF e
  <2>2. e.code = o.op /\ e.args = o
    BY <2>1
  <2>3. o.op \notin {"append", "update_last", "update_next"}
    BY DEF IsCall, SchemaOps, InformationOps
  <2>4. Decoded(ctx, e) = o
    BY <2>2, <2>3 DEF Decoded
  <2>5. ContextAfterRead(ctx, e) = ContextAfterWrite(ctx, o)
    BY <2>2, <2>3 DEF ContextAfterRead, ContextAfterWrite
  <2> QED
    BY <2>2, <2>4, <2>5 DEF SaysCall, IsSkipped, e
<1> QED
  BY <1>1, <1>2, <1>3, <1>4

(* Writing no cell changes nothing. *)
LEMMA NothingWritten ==
  ASSUME NEW db, DBInv(db), NEW o, IsCall(o), Accepts(db, o),
         o.op = "update_vector", o.vs = <<>>
  PROVE  Applied(db, o) = db
<1> DEFINE table == db.tables[o.t]
           field == table.fields[o.f]
<1>1. HasField(db, o.t, o.f)
  BY OpsApart DEF Accepts, AcceptsUpdate
<1>2. o.t \in DOMAIN db.tables /\ o.f \in DOMAIN table.fields
  BY <1>1 DEF HasField, HasTable
<1>3. TableInv(table) /\ FieldInv(field, KeeperSize(table.freedom))
  BY <1>2 DEF DBInv, TableInv, FieldsInv
<1>4. AppliedUpdate(field.column, o) = field.column
  <2>1. AppliedUpdate(field.column, o) =
          [r \in DOMAIN field.column |->
            IF r - o.r + 1 \in DOMAIN o.vs THEN o.vs[r - o.r + 1] ELSE field.column[r]]
    BY DEF AppliedUpdate
  <2>2. DOMAIN o.vs = {}
    OBVIOUS
  <2>3. AppliedUpdate(field.column, o) = [r \in DOMAIN field.column |-> field.column[r]]
    BY <2>1, <2>2
  <2>4. field.column = [r \in DOMAIN field.column |-> field.column[r]]
    BY <1>3 DEF FieldInv
  <2> QED
    BY <2>3, <2>4
<1>5. Applied(db, o) = [db EXCEPT !.tables[o.t].fields[o.f].column = AppliedUpdate(@, o)]
  BY OpsApart DEF Applied
<1> DEFINE column == AppliedUpdate(field.column, o)
           x      == [field EXCEPT !.column = column]
           g      == [table.fields EXCEPT ![o.f] = x]
           t2     == [table EXCEPT !.fields = g]
<1>6. Applied(db, o) = Database([db.tables EXCEPT ![o.t] = t2], db.current_table_id,
                                db.max_record_id)
  <2> HIDE DEF column
  <2>1. Applied(db, o) = [db EXCEPT !.tables[o.t].fields[o.f].column = column]
    BY <1>5 DEF column
  <2> QED
    BY <2>1 DEF DBInv, Database
<1>7. x = field
  <2> HIDE DEF column, field
  <2>1. x = [name |-> field.name, type |-> field.type, column |-> column]
    BY <1>3 DEF FieldInv
  <2> QED
    BY <1>3, <1>4, <2>1 DEF FieldInv, column
<1>8. g = table.fields
  <2> HIDE DEF x
  <2>1. FieldsInv(table.fields, KeeperSize(table.freedom))
    BY <1>3 DEF TableInv
  <2> QED
    BY <1>2, <1>7, <2>1 DEF FieldsInv
<1>9. t2 = table
  <2> HIDE DEF g
  <2>1. t2 = Table(table.name, g, table.current_field_id, table.freedom)
    BY <1>3 DEF TableInv, Table
  <2> QED
    BY <1>3, <1>8, <2>1 DEF TableInv
<1>10. [db.tables EXCEPT ![o.t] = t2] = db.tables
  <2> HIDE DEF t2
  <2> QED
    BY <1>2, <1>9 DEF DBInv
<1> QED
  BY <1>6, <1>10 DEF DBInv

(* The values that a journal reads directly into a column fit there. *)
LEMMA VectorsFit ==
  ASSUME NEW db, DBInv(db), NEW o, IsCall(o), Accepts(db, o),
         o.op = "update_vector", o.vs # <<>>
  PROVE  VectorFits(db, o)
<1> DEFINE k == db.tables[o.t].freedom
<1>1. AcceptsUpdate(db, o)
  BY OpsApart DEF Accepts
<1>2. HasField(db, o.t, o.f) /\ IsUsed(k, o.r) /\ IsUsed(k, o.r + Len(o.vs) - 1)
  BY <1>1 DEF AcceptsUpdate
<1>3. KeeperInv(k)
  BY <1>2 DEF HasField, HasTable, DBInv, TableInv
<1>4. o.r \in Int /\ Len(o.vs) \in Nat
  BY DEF IsCall, SchemaOps, InformationOps
<1> HIDE DEF k
<1>5. /\ KeeperSize(k) \in Nat
      /\ o.r \in 0..(KeeperSize(k) - 1)
      /\ o.r + Len(o.vs) - 1 \in 0..(KeeperSize(k) - 1)
  BY <1>2, <1>3, <1>4, KeeperTypes
<1>6. o.r >= 0 /\ o.r + Len(o.vs) <= KeeperSize(k)
  BY <1>4, <1>5
<1> QED
  BY <1>2, <1>6 DEF VectorFits, k

(* An operation that the database of the writer accepted, read in the same   *)
(* context, has the same effect on the database of the reader.               *)
LEMMA ReadBack ==
  ASSUME NEW ctx, ContextInv(ctx), NEW db, DBInv(db), NEW o, IsCall(o), Accepts(db, o)
  PROVE  one_step(Reader(ctx, db), Encoded(ctx, o)) =
           Reader(ContextAfterWrite(ctx, o), Applied(db, o))
<1> DEFINE e == Encoded(ctx, o)
<1>1. SaysCall(ctx, o, e)
  BY EncodedSays
<1> HIDE DEF e
<1>2. db # Failed
  BY DatabaseHolds
<1>3. CASE o.op = "update_vector" /\ o.vs = <<>>
  <2>1. IsSkipped(e) /\ Applied(db, o) = db
    BY <1>1, <1>3, NothingWritten DEF SaysCall
  <2>2. one_step(Reader(ctx, db), e) = Reader(ContextAfterRead(ctx, e), db)
    BY <1>2, <2>1 DEF one_step, Reader
  <2> QED
    BY <1>1, <2>1, <2>2 DEF SaysCall, e
<1>4. CASE ~(o.op = "update_vector" /\ o.vs = <<>>)
  <2>1. ~IsSkipped(e) /\ (o.op = "update_vector" => VectorFits(db, o))
    BY <1>1, <1>4, VectorsFit DEF SaysCall
  <2>2. one_step(Reader(ctx, db), e) = Reader(ContextAfterWrite(ctx, o), Applied(db, o))
    BY <1>1, <1>2, <2>1 DEF one_step, Reader, SaysCall
  <2> QED
    BY <2>2 DEF e
<1> QED
  BY <1>3, <1>4
(* A list of entries *)
IsList(es) == es \in Seq(Range(es))

(* A sequence of entries is a list of entries. *)
LEMMA ListOf ==
  ASSUME NEW n \in Nat, NEW es, DOMAIN es = 1..n, es = [i \in 1..n |-> es[i]]
  PROVE  IsList(es) /\ Len(es) = n
<1>1. \A i \in 1..n : es[i] \in Range(es)
  BY DEF Range
<1>2. es \in [1..n -> Range(es)]
  BY <1>1
<1> QED
  BY <1>2 DEF IsList

(* The size of a list of entries *)
LEMMA ListLen ==
  ASSUME NEW es, IsList(es)
  PROVE  Len(es) \in Nat
BY DEF IsList

(* Reading nothing changes nothing. *)
LEMMA NothingRead ==
  ASSUME NEW reader
  PROVE  raw_play(reader, <<>>) = reader /\ IsList(<<>>)
<1> DEFINE s == <<>>
           d == [i \in {0} |-> reader]
<1>1. Len(s) = 0 /\ s \in Seq(Range(s))
  OBVIOUS
<1>2. d[0] = reader /\ \A i \in 0..(Len(s) - 1) : d[i + 1] = one_step(d[i], s[i + 1])
  BY <1>1
<1> HIDE DEF s, d
<1>3. Len(s) \in Nat
  BY <1>1
<1>4. raw_play(reader, s) = d[Len(s)]
  BY <1>2, <1>3, raw_playIs
<1> QED
  BY <1>1, <1>2, <1>4 DEF IsList, s

(* Reading a list, then another one, is reading both. *)
LEMMA ReadInTwo ==
  ASSUME NEW reader, NEW s, NEW t, IsList(s), IsList(t)
  PROVE  raw_play(reader, s \o t) = raw_play(raw_play(reader, s), t) /\ IsList(s \o t)
<1> DEFINE X == Range(s) \union Range(t)
<1>1. s \in Seq(X) /\ t \in Seq(X)
  <2>1. s \in Seq(Range(s)) /\ t \in Seq(Range(t))
    BY DEF IsList
  <2> QED
    BY <2>1
<1> HIDE DEF X
<1>2. raw_play(reader, s \o t) = raw_play(raw_play(reader, s), t)
  BY <1>1, raw_playConcat
<1> DEFINE u == s \o t
<1>3. u \in Seq(X)
  BY <1>1
<1> HIDE DEF u
<1>4. Len(u) \in Nat /\ DOMAIN u = 1..Len(u) /\ u = [i \in 1..Len(u) |-> u[i]]
  BY <1>3
<1>5. IsList(u)
  BY <1>4, ListOf
<1> QED
  BY <1>2, <1>5 DEF u

(* Calls that were all accepted, encoded by a journal one after the other,   *)
(* are read back from the same context as the same calls: the reader ends    *)
(* with the database and the context of the writer (Writable_Journal.cpp,    *)
(* Readonly_Journal.cpp).                                                    *)
THEOREM ReadBackAll ==
  ASSUME NEW ctx, ContextInv(ctx), NEW db, DBInv(db), NEW os, IsCalls(os),
         Play(db, os) # Failed
  PROVE  /\ raw_play(Reader(ctx, db), EncodedAll(ctx, os)) =
              Reader(ContextAfterAll(ctx, os), Play(db, os))
         /\ IsList(EncodedAll(ctx, os))
         /\ ContextInv(ContextAfterAll(ctx, os))
<1> DEFINE n == Len(os)
           es == EncodedAll(ctx, os)
<1>0. n \in Nat
  BY CallsLen
<1>1. PICK d : IsPlayed(d, db, os)
  BY PlayedSteps
<1>a. PICK c : c = Contexts(ctx, os)
  OBVIOUS
<1>2. c[0] = ctx /\ \A i \in 0..(n - 1) : c[i + 1] = ContextAfterWrite(c[i], os[i + 1])
  BY <1>0, <1>a, ContextsSteps
<1>3. es = [i \in 1..n |-> Encoded(c[i - 1], os[i])]
  BY <1>a DEF EncodedAll
<1>4. ContextAfterAll(ctx, os) = c[n]
  BY <1>a DEF ContextAfterAll
<1> HIDE DEF es
<1>5. /\ DOMAIN es = 1..n /\ es = [i \in 1..n |-> es[i]]
      /\ \A i \in 0..(n - 1) : es[i + 1] = Encoded(c[i], os[i + 1])
  <2> HIDE DEF n
  <2>1. ASSUME NEW i \in 0..(n - 1)
        PROVE  es[i + 1] = Encoded(c[i], os[i + 1])
    <3>1. i + 1 \in 1..n /\ i + 1 - 1 = i
      BY <1>0
    <3> QED
      BY <1>3, <3>1
  <2> QED
    BY <1>3, <2>1
<1>6. IsList(es) /\ Len(es) = n
  BY <1>0, <1>5, ListOf
<1>7. \A i \in 0..(n - 1) : DBInv(d[i]) /\ IsCall(os[i + 1]) /\ Accepts(d[i], os[i + 1])
                            /\ d[i + 1] = Applied(d[i], os[i + 1])
  BY <1>1 DEF IsPlayed
<1>8. d[0] = db /\ d[n] = Play(db, os)
  BY <1>1 DEF IsPlayed
<1> HIDE DEF n
<1> DEFINE S == {i \in 0..n : ContextInv(c[i])}
<1>9. 0 \in S
  BY <1>0, <1>2
<1>10. ASSUME NEW i \in 0..(n - 1), i \in S
       PROVE  i + 1 \in S
  <2>1. ContextInv(c[i + 1])
    BY <1>2, <1>7, <1>10, ContextKept
  <2>2. i + 1 \in 0..n
    BY <1>0
  <2> QED
    BY <2>1, <2>2
<1>11. \A i \in 0..n : ContextInv(c[i])
  <2> HIDE DEF S
  <2>1. \A i \in 0..n : i \in S
    BY <1>0, <1>9, <1>10, InductionUpTo
  <2> QED
    BY <2>1 DEF S
<1> DEFINE r == [i \in 0..n |-> Reader(c[i], d[i])]
<1>12. ASSUME NEW i \in 0..(n - 1)
       PROVE  r[i + 1] = one_step(r[i], es[i + 1])
  <2>1. i \in 0..n /\ i + 1 \in 0..n
    BY <1>0
  <2>2. one_step(Reader(c[i], d[i]), Encoded(c[i], os[i + 1])) =
          Reader(ContextAfterWrite(c[i], os[i + 1]), Applied(d[i], os[i + 1]))
    BY <1>7, <1>11, <2>1, ReadBack
  <2>3. r[i] = Reader(c[i], d[i]) /\ r[i + 1] = Reader(c[i + 1], d[i + 1])
    BY <2>1
  <2> HIDE DEF r
  <2> QED
    BY <1>2, <1>5, <1>7, <2>2, <2>3
<1>13. r[0] = Reader(ctx, db) /\ r[n] = Reader(c[n], d[n])
  BY <1>0, <1>2, <1>8
<1> HIDE DEF r
<1>14. raw_play(Reader(ctx, db), es) = r[n]
  <2>1. Len(es) \in Nat /\ \A i \in 0..(Len(es) - 1) : r[i + 1] = one_step(r[i], es[i + 1])
    BY <1>0, <1>6, <1>12
  <2>2. raw_play(Reader(ctx, db), es) = r[Len(es)]
    BY <1>13, <2>1, raw_playIs
  <2> QED
    BY <1>6, <2>2
<1>15. ContextInv(c[n])
  BY <1>0, <1>11
<1> QED
  BY <1>4, <1>6, <1>8, <1>13, <1>14, <1>15 DEF es

-----------------------------------------------------------------------------
(***************************************************************************)
(* The tools read like a client.                                           *)
(***************************************************************************)

Tool(ctx, db, schema, text, sql) ==
  [ctx |-> ctx, db |-> db, schema |-> schema, text |-> text, sql |-> sql]

ToolInv(tool) == tool = Tool(tool.ctx, tool.db, tool.schema, tool.text, tool.sql)

ReaderOf(tool) == Reader(tool.ctx, tool.db)

(* one_step returns a reader. *)
LEMMA StepIsReader ==
  ASSUME NEW ctx, NEW db, NEW e
  PROVE  \E ctx2, db2 : one_step(Reader(ctx, db), e) = Reader(ctx2, db2)
<1>1. CASE db = Failed
  BY <1>1 DEF one_step, Reader
<1>2. CASE db # Failed /\ IsSkipped(e)
  BY <1>2 DEF one_step, Reader
<1>3. CASE db # Failed /\ ~IsSkipped(e)
  BY <1>3 DEF one_step, Reader
<1> QED
  BY <1>1, <1>2, <1>3

(* The dumps do not touch the reader that feeds them. *)
LEMMA DumpedIs ==
  ASSUME NEW tool, ToolInv(tool), NEW o
  PROVE  ToolInv(Dumped(tool, o))
<1> DEFINE d == Dumped(tool, o)
<1>1. DOMAIN d = DOMAIN tool /\ d = [x \in DOMAIN tool |-> d[x]]
  BY DEF Dumped, ToolInv, Tool
<1>2. DOMAIN tool = {"ctx", "db", "schema", "text", "sql"}
  BY DEF ToolInv, Tool
<1> HIDE DEF d
<1>3. ToolInv(d)
  BY <1>1, <1>2 DEF ToolInv, Tool
<1> QED
  BY <1>3 DEF d

(* A tool reads an entry as a client does. *)
LEMMA ToolStepReads ==
  ASSUME NEW tool, ToolInv(tool), NEW e
  PROVE  /\ ToolInv(ToolStep(tool, e))
         /\ ReaderOf(ToolStep(tool, e)) = one_step(ReaderOf(tool), e)
<1>1. PICK ctx, db : one_step(ReaderOf(tool), e) = Reader(ctx, db)
  BY StepIsReader DEF ReaderOf
<1> DEFINE base == IF db = Failed \/ IsSkipped(e) THEN tool ELSE Dumped(tool, Decoded(tool.ctx, e))
<1>2. ToolInv(base)
  BY DumpedIs
<1>3. ToolStep(tool, e) = [base EXCEPT !.ctx = ctx, !.db = db]
  <2>1. Reader(ctx, db).ctx = ctx /\ Reader(ctx, db).db = db
    BY ReaderIs
  <2>2. ToolStep(tool, e) = ToolRead(tool, e, Reader(ctx, db))
    BY <1>1 DEF ToolStep, ReaderOf, Reader
  <2> QED
    BY <2>1, <2>2 DEF ToolRead
<1> HIDE DEF base
<1>4. ToolStep(tool, e) = Tool(ctx, db, base.schema, base.text, base.sql)
  BY <1>2, <1>3 DEF ToolInv, Tool
<1> QED
  BY <1>1, <1>4 DEF ToolInv, Tool, ReaderOf

(* A tool reads a list of entries as a client does. *)
LEMMA ToolsRead ==
  ASSUME NEW tool, ToolInv(tool), NEW es, IsList(es)
  PROVE  /\ ToolInv(ToolRun(tool, es))
         /\ ReaderOf(ToolRun(tool, es)) = raw_play(ReaderOf(tool), es)
<1> DEFINE n == Len(es)
<1>0. n \in Nat
  BY ListLen
<1>1. PICK t : /\ t[0] = tool /\ t[n] = ToolRun(tool, es)
               /\ \A i \in 0..(n - 1) : t[i + 1] = ToolStep(t[i], es[i + 1])
  <2>1. PICK last : last = ToolRun(tool, es)
    OBVIOUS
  <2> QED
    BY <1>0, <2>1, ToolRunSteps
<1> HIDE DEF n
<1> DEFINE S == {i \in 0..n : ToolInv(t[i])}
<1>2. 0 \in S
  BY <1>0, <1>1
<1>3. ASSUME NEW i \in 0..(n - 1), i \in S
      PROVE  i + 1 \in S
  <2>1. ToolInv(t[i + 1])
    BY <1>1, <1>3, ToolStepReads
  <2>2. i + 1 \in 0..n
    BY <1>0
  <2> QED
    BY <2>1, <2>2
<1>4. \A i \in 0..n : ToolInv(t[i])
  <2> HIDE DEF S
  <2>1. \A i \in 0..n : i \in S
    BY <1>0, <1>2, <1>3, InductionUpTo
  <2> QED
    BY <2>1 DEF S
<1> DEFINE r == [i \in 0..n |-> ReaderOf(t[i])]
<1>5. ASSUME NEW i \in 0..(n - 1)
      PROVE  r[i + 1] = one_step(r[i], es[i + 1])
  <2>1. i \in 0..n /\ i + 1 \in 0..n
    BY <1>0
  <2>2. ReaderOf(t[i + 1]) = one_step(ReaderOf(t[i]), es[i + 1])
    BY <1>1, <1>4, <2>1, ToolStepReads
  <2>3. r[i] = ReaderOf(t[i]) /\ r[i + 1] = ReaderOf(t[i + 1])
    BY <2>1
  <2> QED
    BY <2>2, <2>3
<1>6. r[0] = ReaderOf(tool) /\ r[n] = ReaderOf(t[n])
  BY <1>0, <1>1
<1> HIDE DEF r
<1>7. raw_play(ReaderOf(tool), es) = r[n]
  BY <1>0, <1>5, <1>6, raw_playIs DEF n
<1> QED
  BY <1>0, <1>1, <1>4, <1>6, <1>7
-----------------------------------------------------------------------------
(***************************************************************************)
(* Every client is at most a replay away from the tools.                   *)
(***************************************************************************)

Client(ctx, db, unread, alive) ==
  [ctx |-> ctx, db |-> db, unread |-> unread, alive |-> alive]

(* A client that is not writing *)
LateInv(client, reader) ==
  /\ client = Client(client.ctx, client.db, client.unread, client.alive)
  /\ IsList(client.unread)
  /\ client.alive => raw_play(ReaderOf(client), client.unread) = reader

(* The client that is writing *)
WriterInv(client, reader, entries, current) ==
  /\ client = Client(client.ctx, client.db, client.unread, client.alive)
  /\ client.alive /\ client.unread = <<>>
  /\ ContextInv(client.ctx) /\ client.db = current
  /\ raw_play(reader, entries) = ReaderOf(client)

ToolsInv ==
  /\ ToolInv(tools)
  /\ ContextInv(tools.ctx)
  /\ tools.db = meant.committed

ClientsInv ==
  /\ clients = [c \in Clients |-> clients[c]]
  /\ \A c \in Clients :
       IF c = holder THEN WriterInv(clients[c], ReaderOf(tools), pending, meant.current)
       ELSE LateInv(clients[c], ReaderOf(tools))

PendingInv ==
  /\ IsList(pending)
  /\ holder = Nobody => pending = <<>> /\ meant.current = meant.committed

PipeInv == SoundInv /\ ToolsInv /\ ClientsInv /\ PendingInv

(* A client is its four members. *)
LEMMA ClientIs ==
  ASSUME NEW ctx, NEW db, NEW unread, NEW alive
  PROVE  LET client == Client(ctx, db, unread, alive)
         IN /\ client.ctx = ctx /\ client.db = db /\ client.unread = unread
            /\ client.alive = alive
            /\ client = Client(client.ctx, client.db, client.unread, client.alive)
BY DEF Client

(* A client that has read everything is where the tools are. *)
UpToDate(client, ctx, db) ==
  /\ client.ctx = ctx /\ client.db = db /\ client.unread = <<>> /\ client.alive = TRUE
  /\ LateInv(client, Reader(ctx, db))

(* raw_play leaves a client there, if it was not stopped by a failure. *)
LEMMA ClientAtIs ==
  ASSUME NEW ctx, NEW db, DBInv(db), NEW client, client = ClientAt(Reader(ctx, db))
  PROVE  UpToDate(client, ctx, db)
<1>1. client = Client(ctx, db, <<>>, TRUE)
  BY DatabaseHolds DEF ClientAt, Reader, Client
<1>2. /\ client.ctx = ctx /\ client.db = db /\ client.unread = <<>> /\ client.alive = TRUE
      /\ client = Client(client.ctx, client.db, client.unread, client.alive)
  BY <1>1 DEF Client
<1>3. LateInv(client, Reader(ctx, db))
  <2>1. raw_play(Reader(ctx, db), <<>>) = Reader(ctx, db) /\ IsList(<<>>)
    BY NothingRead
  <2> QED
    BY <1>2, <2>1 DEF LateInv, ReaderOf
<1> QED
  BY <1>2, <1>3 DEF UpToDate

(* The context of a new journal *)
LEMMA NewContext == ContextInv(ResetContext)
BY DEF ContextInv, ResetContext, Context

(* Clients that open a file start where the tools are. *)
LEMMA InitPipe ==
  ASSUME JournalClients = {}, Init
  PROVE  PipeInv
<1>1. SoundInv
  BY InitSound
<1>2. PICK script \in Scripts :
        InitAfter(EncodedAll(ResetContext, script),
                  raw_play(NewReader(null), EncodedAll(ResetContext, script)),
                  Play(NewDatabase(null), script))
  BY DEF Init
<1> DEFINE es  == EncodedAll(ResetContext, script)
           ctx == ContextAfterAll(ResetContext, script)
           db  == Play(NewDatabase(null), script)
<1>3. IsCalls(script) /\ db # Failed
  BY ScriptAssumption DEF IsScript, IsCalls
<1>4. DBInv(NewDatabase(null)) /\ NewReader(null) = Reader(ResetContext, NewDatabase(null))
  BY NewDatabaseInv DEF NewReader, Reader
<1>5. raw_play(NewReader(null), es) = Reader(ctx, db) /\ IsList(es) /\ ContextInv(ctx)
  BY <1>3, <1>4, NewContext, ReadBackAll
<1>6. DBInv(db)
  BY <1>3, <1>4, PlayInv
<1>7. /\ clients = [c \in Clients |-> ClientAt(IF c \in DatabaseClients THEN Reader(ctx, db)
                                               ELSE NewReader(null))]
      /\ holder = Nobody /\ pending = <<>> /\ tools = ToolRun(NewTools, es)
      /\ meant = [committed |-> db, current |-> db]
  BY <1>2, <1>5 DEF InitAfter
<1> HIDE DEF es, ctx, db
<1>8. ToolInv(NewTools) /\ ReaderOf(NewTools) = NewReader(null)
  BY DEF ToolInv, Tool, NewTools, ReaderOf, Reader, NewReader
<1>9. ToolInv(tools) /\ ReaderOf(tools) = Reader(ctx, db)
  BY <1>5, <1>7, <1>8, ToolsRead
<1>10. tools.ctx = ctx /\ tools.db = db
  BY <1>9, ReaderIs DEF ReaderOf
<1>11. ToolsInv
  BY <1>5, <1>7, <1>9, <1>10 DEF ToolsInv
<1>12. ClientsInv
  <2>1. ASSUME NEW c \in Clients
        PROVE  LateInv(clients[c], ReaderOf(tools)) /\ c # holder
    <3>1. c \in DatabaseClients
      BY DEF Clients
    <3>2. clients[c] = ClientAt(Reader(ctx, db))
      BY <1>7, <3>1
    <3> DEFINE client == clients[c]
    <3> HIDE DEF client
    <3>3. UpToDate(client, ctx, db)
      BY <1>6, <3>2, ClientAtIs DEF client
    <3> QED
      BY <1>7, <1>9, <3>3, ClientAssumption DEF UpToDate, client
  <2> QED
    BY <1>7, <2>1 DEF ClientsInv
<1>13. PendingInv
  BY <1>7, NothingRead DEF PendingInv
<1> QED
  BY <1>1, <1>11, <1>12, <1>13 DEF PipeInv

(* A client that reads what it has not read yet *)
LEMMA ReadJournal ==
  ASSUME JournalClients = {}, PipeInv, NEW c \in Clients, clients[c].alive, holder = Nobody
  PROVE  /\ LateInv(read_journal(c), ReaderOf(tools))
         /\ WriterInv(read_journal(c), ReaderOf(tools), <<>>, meant.current)
         /\ read_journal(c).alive
<1>0. c # holder
  BY ClientAssumption
<1>1. raw_play(ReaderOf(clients[c]), clients[c].unread) = ReaderOf(tools)
  BY <1>0 DEF PipeInv, ClientsInv, LateInv
<1>2. read_journal(c) = ClientAt(Reader(tools.ctx, tools.db))
  BY <1>1 DEF read_journal, ReaderOf, Reader
<1>3. DBInv(tools.db) /\ ContextInv(tools.ctx) /\ meant.current = tools.db
  BY DEF PipeInv, ToolsInv, SoundInv, PendingInv
<1> DEFINE client == read_journal(c)
<1>4. UpToDate(client, tools.ctx, tools.db)
  <2> HIDE DEF client
  <2>1. client = ClientAt(Reader(tools.ctx, tools.db))
    BY <1>2 DEF client
  <2> QED
    BY <1>3, <2>1, ClientAtIs
<1> HIDE DEF client
<1>5. raw_play(ReaderOf(tools), <<>>) = ReaderOf(client)
  BY <1>4, NothingRead DEF ReaderOf, UpToDate
<1>6. WriterInv(client, ReaderOf(tools), <<>>, meant.current)
  BY <1>3, <1>4, <1>5 DEF WriterInv, LateInv, UpToDate
<1> QED
  BY <1>4, <1>6 DEF client, ReaderOf, UpToDate

(* A pull brings a client where the tools are. *)
LEMMA PullPipe ==
  ASSUME JournalClients = {}, PipeInv, SoundInv', NEW c \in Clients, Pull(c)
  PROVE  PipeInv'
<1>1. LateInv(read_journal(c), ReaderOf(tools))
  BY ReadJournal DEF Pull
<1>2. /\ clients' = [clients EXCEPT ![c] = read_journal(c)] /\ holder = Nobody
      /\ UNCHANGED <<holder, pending, tools, meant>>
  BY DEF Pull
<1>3. ClientsInv'
  <2>1. clients' = [d \in Clients |-> clients'[d]]
    BY <1>2 DEF PipeInv, ClientsInv
  <2>2. ASSUME NEW d \in Clients
        PROVE  LateInv(clients'[d], ReaderOf(tools)) /\ d # holder
    <3>1. d # holder
      BY <1>2, ClientAssumption
    <3>2. LateInv(clients[d], ReaderOf(tools))
      BY <3>1 DEF PipeInv, ClientsInv
    <3>3. clients'[d] = IF d = c THEN read_journal(c) ELSE clients[d]
      BY <1>2 DEF PipeInv, ClientsInv
    <3> QED
      BY <1>1, <3>1, <3>2, <3>3
  <2> QED
    BY <1>2, <2>1, <2>2 DEF ClientsInv
<1>4. ToolsInv' /\ PendingInv'
  BY <1>2 DEF PipeInv, ToolsInv, PendingInv
<1> QED
  BY <1>3, <1>4 DEF PipeInv

(* A transaction starts where the tools are. *)
LEMMA StartPipe ==
  ASSUME JournalClients = {}, PipeInv, SoundInv', NEW c \in Clients, start_transaction(c)
  PROVE  PipeInv'
<1>1. /\ WriterInv(read_journal(c), ReaderOf(tools), <<>>, meant.current)
      /\ read_journal(c).alive
  BY ReadJournal DEF start_transaction
<1>2. /\ clients' = [clients EXCEPT ![c] = read_journal(c)] /\ holder = Nobody
      /\ UNCHANGED <<pending, tools, meant>>
      /\ holder' = IF clients'[c].alive THEN c ELSE Nobody
  BY DEF start_transaction
<1>3. \A d \in Clients : clients'[d] = IF d = c THEN read_journal(c) ELSE clients[d]
  BY <1>2 DEF PipeInv, ClientsInv
<1>4. holder' = c /\ c # Nobody /\ pending = <<>>
  BY <1>1, <1>2, <1>3, ClientAssumption DEF PipeInv, PendingInv
<1>5. ClientsInv'
  <2>1. clients' = [d \in Clients |-> clients'[d]]
    BY <1>2 DEF PipeInv, ClientsInv
  <2>2. ASSUME NEW d \in Clients, d # c
        PROVE  LateInv(clients'[d], ReaderOf(tools))
    <3>1. d # holder
      BY <1>2, ClientAssumption
    <3> QED
      BY <1>3, <2>2, <3>1 DEF PipeInv, ClientsInv
  <2>3. WriterInv(clients'[c], ReaderOf(tools), pending, meant.current)
    BY <1>1, <1>3, <1>4
  <2>4. tools' = tools /\ pending' = pending /\ meant' = meant
    BY <1>2
  <2> QED
    BY <1>4, <2>1, <2>2, <2>3, <2>4 DEF ClientsInv
<1>6. ToolsInv' /\ PendingInv'
  BY <1>2, <1>4 DEF PipeInv, ToolsInv, PendingInv
<1> QED
  BY <1>5, <1>6 DEF PipeInv

(* What a transaction writes brings a reader where its writer is. *)
LEMMA WritesPipe ==
  ASSUME JournalClients = {}, PipeInv, SoundInv', NEW c \in Clients, NEW os, IsCalls(os),
         Writes(c, os)
  PROVE  PipeInv'
<1> DEFINE made == AcceptedPrefix(meant.current, os)
           ctx  == clients[c].ctx
           es   == EncodedAll(ctx, made)
           ctx2 == ContextAfterAll(ctx, made)
           db2  == Play(meant.current, made)
<1>1. /\ holder = c /\ UNCHANGED <<holder, tools>>
      /\ pending' = pending \o es
      /\ clients' = [clients EXCEPT ![c].ctx = ContextAfterAll(@, made),
                                    ![c].db = IF c \in DatabaseClients THEN Play(@, made) ELSE @]
      /\ meant' = [meant EXCEPT !.current = Play(@, made)]
  BY DEF Writes, Multiplex
<1>2. IsCalls(made) /\ db2 # Failed
  BY PrefixPlayed DEF PipeInv, SoundInv
<1> HIDE DEF made
<1>3. WriterInv(clients[c], ReaderOf(tools), pending, meant.current)
  BY <1>1 DEF PipeInv, ClientsInv
<1>4. /\ clients[c] = Client(ctx, meant.current, <<>>, clients[c].alive) /\ clients[c].alive
      /\ ContextInv(ctx)
      /\ raw_play(ReaderOf(tools), pending) = Reader(ctx, meant.current)
  BY <1>3 DEF WriterInv, ReaderOf
<1>5. /\ raw_play(Reader(ctx, meant.current), es) = Reader(ctx2, db2)
      /\ IsList(es) /\ ContextInv(ctx2)
  BY <1>2, <1>4, ReadBackAll DEF PipeInv, SoundInv
<1>6. c \in DatabaseClients
  BY DEF Clients
<1>7. meant'.current = db2 /\ meant'.committed = meant.committed
  BY <1>1 DEF PipeInv, SoundInv, Meant
<1>8. /\ clients' = [d \in Clients |-> clients'[d]]
      /\ \A d \in Clients : d # c => clients'[d] = clients[d]
  BY <1>1 DEF PipeInv, ClientsInv
<1>9. clients'[c] = Client(ctx2, db2, <<>>, clients[c].alive)
  <2>1. clients'[c] = [clients[c] EXCEPT !.ctx = ctx2, !.db = Play(clients[c].db, made)]
    BY <1>1, <1>6 DEF PipeInv, ClientsInv
  <2>2. clients[c].db = meant.current
    BY <1>3 DEF WriterInv
  <2>3. clients'[c] = [clients[c] EXCEPT !.ctx = ctx2, !.db = db2]
    BY <2>1, <2>2
  <2> HIDE DEF ctx2, db2
  <2>4. DOMAIN clients[c] = {"ctx", "db", "unread", "alive"} /\ clients[c].unread = <<>>
    BY <1>4 DEF Client
  <2> QED
    BY <2>3, <2>4 DEF Client
<1> HIDE DEF es, ctx2, db2
<1>10. IsList(pending) /\ IsList(pending \o es)
       /\ raw_play(ReaderOf(tools), pending \o es) = Reader(ctx2, db2)
  <2>1. IsList(pending)
    BY DEF PipeInv, PendingInv
  <2> QED
    BY <1>4, <1>5, <2>1, ReadInTwo
<1> DEFINE client == clients'[c]
<1>11. WriterInv(client, ReaderOf(tools), pending \o es, db2)
  <2> HIDE DEF client
  <2>1. client = Client(ctx2, db2, <<>>, clients[c].alive)
    BY <1>9 DEF client
  <2>2. /\ client.ctx = ctx2 /\ client.db = db2 /\ client.unread = <<>>
        /\ client.alive = clients[c].alive
        /\ client = Client(client.ctx, client.db, client.unread, client.alive)
    BY <2>1, ClientIs
  <2> QED
    BY <1>4, <1>5, <1>10, <2>2 DEF WriterInv, ReaderOf
<1>12. ClientsInv'
  <2>1. ASSUME NEW d \in Clients, d # c
        PROVE  LateInv(clients'[d], ReaderOf(tools))
    BY <1>1, <1>8, <2>1 DEF PipeInv, ClientsInv
  <2> QED
    BY <1>1, <1>7, <1>8, <1>11, <2>1 DEF ClientsInv
<1>13. ToolsInv'
  BY <1>1, <1>7 DEF PipeInv, ToolsInv
<1>14. PendingInv'
  BY <1>1, <1>10, ClientAssumption DEF PendingInv
<1> QED
  BY <1>12, <1>13, <1>14 DEF PipeInv

(* A checkpoint brings the tools where the writer is. *)
LEMMA CommitPipe ==
  ASSUME JournalClients = {}, PipeInv, SoundInv', NEW c \in Clients, Commit(c)
  PROVE  PipeInv'
<1>1. /\ holder = c /\ holder' = Nobody /\ pending' = <<>>
      /\ tools' = ToolRun(tools, pending)
      /\ clients' = [d \in Clients |->
           IF d = c \/ ~clients[d].alive THEN clients[d]
           ELSE [clients[d] EXCEPT !.unread = @ \o pending]]
      /\ meant' = [meant EXCEPT !.committed = meant.current]
  BY DEF Commit
<1>2. meant'.committed = meant.current /\ meant'.current = meant.current
  BY <1>1 DEF PipeInv, SoundInv, Meant
<1>3. WriterInv(clients[c], ReaderOf(tools), pending, meant.current)
  BY <1>1 DEF PipeInv, ClientsInv
<1>4. IsList(pending)
  BY DEF PipeInv, PendingInv
<1>5. ToolInv(tools') /\ ReaderOf(tools') = raw_play(ReaderOf(tools), pending)
  BY <1>1, <1>4, ToolsRead DEF PipeInv, ToolsInv
<1>6. ReaderOf(tools') = ReaderOf(clients[c])
  BY <1>3, <1>5 DEF WriterInv
<1>7. tools'.ctx = clients[c].ctx /\ tools'.db = clients[c].db
  BY <1>6, ReaderIs DEF ReaderOf
<1>8. ToolsInv'
  BY <1>2, <1>3, <1>5, <1>7 DEF ToolsInv, WriterInv
<1>9. ASSUME NEW d \in Clients
      PROVE  LateInv(clients'[d], ReaderOf(tools'))
  <2>1. CASE d = c
    <3>1. clients'[d] = clients[c]
      BY <1>1, <2>1
    <3>2. raw_play(ReaderOf(clients[c]), <<>>) = ReaderOf(tools') /\ IsList(<<>>)
      BY <1>6, NothingRead
    <3> QED
      BY <1>3, <3>1, <3>2 DEF LateInv, WriterInv
  <2>2. CASE d # c
    <3>1. LateInv(clients[d], ReaderOf(tools))
      BY <1>1, <2>2 DEF PipeInv, ClientsInv
    <3>2. CASE ~clients[d].alive
      <4>1. clients'[d] = clients[d]
        BY <1>1, <3>2
      <4> QED
        BY <3>1, <3>2, <4>1 DEF LateInv
    <3>3. CASE clients[d].alive
      <4> DEFINE client == clients[d]
                 unread == client.unread \o pending
                 client2 == clients'[d]
      <4>1. client2 = [client EXCEPT !.unread = unread]
        BY <1>1, <2>2, <3>3
      <4>2. client2 = Client(client.ctx, client.db, unread, client.alive)
        <5> HIDE DEF client, unread, client2
        <5>1. client = Client(client.ctx, client.db, client.unread, client.alive)
          BY <3>1 DEF LateInv, client
        <5> QED
          BY <4>1, <5>1 DEF Client
      <4>3. /\ IsList(unread)
            /\ raw_play(ReaderOf(client), unread) = raw_play(ReaderOf(tools), pending)
        <5>1. IsList(client.unread) /\ raw_play(ReaderOf(client), client.unread) = ReaderOf(tools)
          BY <3>1, <3>3 DEF LateInv
        <5> HIDE DEF client
        <5> QED
          BY <1>4, <5>1, ReadInTwo
      <4> HIDE DEF client, unread, client2
      <4>4. /\ client2.ctx = client.ctx /\ client2.db = client.db /\ client2.unread = unread
            /\ client2 = Client(client2.ctx, client2.db, client2.unread, client2.alive)
        BY <4>2, ClientIs
      <4>5. LateInv(client2, ReaderOf(tools'))
        BY <1>5, <4>3, <4>4 DEF LateInv, ReaderOf
      <4> QED
        BY <4>5 DEF client2
    <3> QED
      BY <3>2, <3>3
  <2> QED
    BY <2>1, <2>2
<1>10. ClientsInv'
  <2>1. clients' = [d \in Clients |-> clients'[d]]
    BY <1>1
  <2>2. \A d \in Clients : d # holder'
    BY <1>1, ClientAssumption
  <2> QED
    BY <1>9, <2>1, <2>2 DEF ClientsInv
<1>11. PendingInv'
  BY <1>1, <1>2, NothingRead DEF PendingInv
<1> QED
  BY <1>8, <1>10, <1>11 DEF PipeInv

(* After an abort nobody is ahead of the tools. *)
LEMMA AbortPipe ==
  ASSUME JournalClients = {}, PipeInv, SoundInv', NEW c \in Clients, Abort(c)
  PROVE  PipeInv'
<1>1. /\ holder = c /\ holder' = Nobody /\ pending' = <<>>
      /\ clients' = [clients EXCEPT ![c].alive = FALSE]
      /\ meant' = [meant EXCEPT !.current = meant.committed]
      /\ tools' = tools
  BY DEF Abort
<1>2. meant'.committed = meant.committed /\ meant'.current = meant.committed
  BY <1>1 DEF PipeInv, SoundInv, Meant
<1>3. ToolsInv'
  BY <1>1, <1>2 DEF PipeInv, ToolsInv
<1>4. ASSUME NEW d \in Clients
      PROVE  LateInv(clients'[d], ReaderOf(tools))
  <2>1. CASE d = c
    <3> DEFINE client2 == clients'[d]
    <3>1. client2 = [clients[c] EXCEPT !.alive = FALSE]
      BY <1>1, <2>1 DEF PipeInv, ClientsInv
    <3>2. clients[c] = Client(clients[c].ctx, clients[c].db, <<>>, clients[c].alive)
      BY <1>1 DEF PipeInv, ClientsInv, WriterInv
    <3> HIDE DEF client2
    <3>a. DOMAIN clients[c] = {"ctx", "db", "unread", "alive"} /\ clients[c].unread = <<>>
      BY <3>2 DEF Client
    <3>3. client2 = Client(clients[c].ctx, clients[c].db, <<>>, FALSE)
      BY <3>1, <3>a DEF Client
    <3>4. /\ client2.unread = <<>> /\ client2.alive = FALSE
          /\ client2 = Client(client2.ctx, client2.db, client2.unread, client2.alive)
      BY <3>3 DEF Client
    <3> QED
      BY <3>4, NothingRead DEF LateInv, client2
  <2>2. CASE d # c
    BY <1>1, <2>2 DEF PipeInv, ClientsInv
  <2> QED
    BY <2>1, <2>2
<1>5. ClientsInv'
  <2>1. clients' = [d \in Clients |-> clients'[d]]
    BY <1>1 DEF PipeInv, ClientsInv
  <2>2. \A d \in Clients : d # holder'
    BY <1>1, ClientAssumption
  <2> QED
    BY <1>1, <1>4, <2>1, <2>2 DEF ClientsInv
<1>6. PendingInv'
  BY <1>1, <1>2, NothingRead DEF PendingInv
<1> QED
  BY <1>3, <1>5, <1>6 DEF PipeInv

(* Every step keeps the invariant. *)
LEMMA StepPipe ==
  ASSUME JournalClients = {}, PipeInv, [Next]_vars
  PROVE  PipeInv'
<1>0. SoundInv'
  BY StepSound DEF PipeInv
<1>1. CASE UNCHANGED vars
  BY <1>0, <1>1 DEF vars, PipeInv, ToolsInv, ClientsInv, PendingInv
<1>2. CASE Next
  <2>0. DBInv(meant.current)
    BY DEF PipeInv, SoundInv
  <2>1. PICK c \in Clients :
          \/ Pull(c) \/ start_transaction(c) \/ ChangeSchema(c) \/ ChangeRows(c)
          \/ ChangeCells(c) \/ Remark(c) \/ Commit(c) \/ Abort(c)
    BY <1>2 DEF Next
  <2>2. CASE Pull(c)
    BY <1>0, <2>2, PullPipe
  <2>3. CASE start_transaction(c)
    BY <1>0, <2>3, StartPipe
  <2>4. CASE ChangeSchema(c)
    BY <1>0, <2>0, <2>4, SchemaCallsAre, WritesPipe DEF ChangeSchema
  <2>5. CASE ChangeRows(c)
    BY <1>0, <2>0, <2>5, RowCallsAre, WritesPipe DEF ChangeRows
  <2>6. CASE ChangeCells(c)
    BY <1>0, <2>0, <2>6, CellCallsAre, WritesPipe DEF ChangeCells
  <2>7. CASE Remark(c)
    <3>1. IsCalls(<<comment("text")>>)
      BY OneCall, SchemaCallIs DEF comment, InformationOps
    <3> QED
      BY <1>0, <2>7, <3>1, WritesPipe DEF Remark
  <2>8. CASE Commit(c)
    BY <1>0, <2>8, CommitPipe
  <2>9. CASE Abort(c)
    BY <1>0, <2>9, AbortPipe
  <2> QED
    BY <2>1, <2>2, <2>3, <2>4, <2>5, <2>6, <2>7, <2>8, <2>9
<1> QED
  BY <1>1, <1>2

(* What the invariant says of the clients and of the tools *)
LEMMA PipeSays == PipeInv => ReadersSeeWhatWasWritten /\ ReplicasAgree
<1> SUFFICES ASSUME PipeInv
             PROVE  ReadersSeeWhatWasWritten /\ ReplicasAgree
  OBVIOUS
<1>1. ReadersSeeWhatWasWritten
  BY DEF PipeInv, ToolsInv, ReadersSeeWhatWasWritten
<1>2. ASSUME NEW c \in DatabaseClients, clients[c].alive, clients[c].unread = <<>>
      PROVE  /\ clients[c].db = IF holder = c THEN meant.current ELSE meant.committed
             /\ holder # c => clients[c].ctx = tools.ctx
  <2>0. c \in Clients
    BY DEF Clients
  <2>1. CASE holder = c
    <3>1. WriterInv(clients[c], ReaderOf(tools), pending, meant.current)
      BY <2>0, <2>1 DEF PipeInv, ClientsInv
    <3> QED
      BY <2>1, <3>1 DEF WriterInv
  <2>2. CASE holder # c
    <3>1. raw_play(ReaderOf(clients[c]), <<>>) = ReaderOf(tools)
      BY <1>2, <2>0, <2>2 DEF PipeInv, ClientsInv, LateInv
    <3>2. ReaderOf(clients[c]) = ReaderOf(tools)
      BY <3>1, NothingRead
    <3>3. clients[c].ctx = tools.ctx /\ clients[c].db = tools.db
      BY <3>2, ReaderIs DEF ReaderOf
    <3> QED
      BY <2>2, <3>3 DEF PipeInv, ToolsInv
  <2> QED
    BY <2>1, <2>2
<1> QED
  BY <1>1, <1>2 DEF ReplicasAgree

(* The invariant always holds, when no client skips the journal. *)
LEMMA PipeAlways ==
  ASSUME JournalClients = {}
  PROVE  Spec => []PipeInv
<1>1. Init => PipeInv
  BY InitPipe
<1>2. PipeInv /\ [Next]_vars => PipeInv'
  BY StepPipe
<1> QED
  BY <1>1, <1>2, PTL DEF Spec

(* The file can always be read, and says what was meant: whatever sequence   *)
(* of calls its writers have made, in whatever transactions, a reader that   *)
(* decodes the committed operations from the start obtains the database of   *)
(* the writers (Writable_Journal.cpp, Readonly_Journal.cpp).  A client that  *)
(* skips the journal without reading it breaks this (run data_pipeline_skip).*)
THEOREM FileIsReadable ==
  ASSUME JournalClients = {}
  PROVE  Spec => []ReadersSeeWhatWasWritten
<1>1. Spec => []PipeInv
  BY PipeAlways
<1> QED
  BY <1>1, PipeSays, PTL

(* Clients that have read everything hold the same database and the same     *)
(* context, so that any of them can write next for all the others            *)
(* (Writable_Database_Client, Client_Lock).                                  *)
THEOREM ReplicasStayEqual ==
  ASSUME JournalClients = {}
  PROVE  Spec => []ReplicasAgree
<1>1. Spec => []PipeInv
  BY PipeAlways
<1> QED
  BY <1>1, PipeSays, PTL
============================================================================
