SPECIFICATION FairSpec
CONSTANTS
    Writer = {w1, w2}
    Reader = {r1}
    Value = {a, b}
    None = None
    Zero = Zero
    HeaderSize = 1
    MaxSize = 3
    Modes = {"shared"}
    Recoveries = {"none"}
    Faults = {}
CHECK_DEADLOCK FALSE
INVARIANTS
    CheckpointWithinFile
PROPERTIES
    RefinesSharedLog
    CallsReturn
    PublishedIsSeen
