SPECIFICATION Spec
CONSTANTS
  tableA = tableA
  tableB = tableB
  tableC = tableC
  fieldA = fieldA
  fieldB = fieldB
  fix = fix
  w1 = w1
  w2 = w2
  r1 = r1
  NoIdentifier = NoIdentifier
  Versions <- MCVersions
  Schema <- MCSchema
  Indexes <- MCIndexes
  SingleRow <- MCSingleRow
  Defaults <- MCDefaults
  CustomClears <- MCCustomClears
  Writers = {w1, w2}
  Readers = {r1}
  VersionOf <- MCVersionOfSame
  Values = {1, 2, 3}
  MaxRecord = 2
  MaxOps = 4
  Logs <- MCLogOfRecords
  FixFirst = FALSE
INVARIANT
  FileReadable
CHECK_DEADLOCK FALSE
