SPECIFICATION Spec
CONSTANTS
  tableA = tableA
  tableB = tableB
  fieldA = fieldA
  fieldB = fieldB
  d1 = d1
  d2 = d2
  j1 = j1
  NoIdentifier = NoIdentifier
  NULL = NULL
  UnknownTable = UnknownTable
  UnknownField = UnknownField
  DatabaseClients = {d1, d2}
  JournalClients = {}
  TableNames = {tableA, tableB}
  FieldNames = {fieldA, fieldB}
  Values = {1, 2}
  MaxTable = 2
  MaxField = 2
  MaxRecord = 2
  MaxOps = 2
  Scripts <- MCScripts
INVARIANTS
  ReadersSeeWhatWasWritten
  ReplicasAgree
  KeepersSound
  TextRoundTrip
  CopiesFaithful
  ExportsFaithful
SYMMETRY Symmetry
CHECK_DEADLOCK FALSE
