SPECIFICATION Spec
CONSTANTS
    a = a
    b = b
    f = f
    g = g
    None = None
    Clients = {a, b}
    Files = {f, g}
    Setups <- AllSetups
    PowerLoss = TRUE
    MaxTransactions = 2
    MaxLinks = 2
    MaxFaults = 1
CHECK_DEADLOCK FALSE
INVARIANTS
    LinearHistory
    WriterUpToDate
    PushedOnce
    AckedStays
    AnswersMatch
