SPECIFICATION Spec
CONSTANTS
  tableA = tableA
  tableB = tableB
  fieldA = fieldA
  fieldB = fieldB
  d1 = d1
  d2 = d2
  j1 = j1
  NoIdentifier = NoIdentifier
  NULL = NULL
  UnknownTable = UnknownTable
  UnknownField = UnknownField
  DatabaseClients = {d1}
  JournalClients = {j1}
  TableNames = {tableA}
  FieldNames = {fieldA}
  Values = {1}
  MaxTable = 1
  MaxField = 1
  MaxRecord = 3
  MaxOps = 3
  Scripts <- MCScriptDense
INVARIANT
  ReadersSeeWhatWasWritten
CHECK_DEADLOCK FALSE
