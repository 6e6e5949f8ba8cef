SPECIFICATION FairSpec
CONSTANTS
    a = a
    b = b
    f = f
    g = g
    None = None
    Clients = {a, b}
    Files = {f, g}
    Setups <- TwoSetups
    PowerLoss = TRUE
    MaxTransactions = 1
    MaxLinks = 2
    MaxFaults = 1
CHECK_DEADLOCK FALSE
PROPERTIES
    CallsReturn
