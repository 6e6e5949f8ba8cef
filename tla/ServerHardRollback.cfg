SPECIFICATION Spec
CONSTANTS
    Session = {s1}
    None = None
    Value = {a, b}
    Zero = Zero
    MaxSize = 2
    MaxRequests = 1
    StartCheckpoint = 1
    StartHard = 0
    SharedModes = {FALSE}
    LockTimeout = FALSE
    UseHard = TRUE
PROPERTIES
    PushAllOrNothing
