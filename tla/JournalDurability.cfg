SPECIFICATION Spec
CONSTANTS
    Writer = {w1, w2}
    Reader = {}
    Value = {a}
    None = None
    Zero = Zero
    HeaderSize = 1
    MaxSize = 3
    Modes = {"shared", "exclusive"}
    Recoveries = {"none", "overwrite"}
    Faults = {"crash", "power"}
SYMMETRY Symmetry
CHECK_DEADLOCK FALSE
INVARIANTS
    TypeOK
    HardCheckpointSurvives
    WriterCheckpointWithinFile
PROPERTIES
    HardBodyImmutable
