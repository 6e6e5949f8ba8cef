SPECIFICATION FairSpec
CONSTANTS
    Session = {s1, s2}
    None = None
    Value = {a}
    Zero = Zero
    MaxSize = 2
    MaxRequests = 3
    StartCheckpoint = 1
    StartHard = 0
    SharedModes = {TRUE, FALSE}
    LockTimeout = TRUE
    UseHard = FALSE
INVARIANTS
    TypeOK
    QueueInv
    LockDiscipline
    PullersInformed
    PushOwnsTail
    SendsJournal
PROPERTIES
    PushAllOrNothing
    ServesGrowingLog
    LockGranted
