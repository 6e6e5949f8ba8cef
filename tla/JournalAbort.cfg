SPECIFICATION Spec
CONSTANTS
    Writer = {w1, w2}
    Reader = {r1}
    Value = {a, b}
    None = None
    Zero = Zero
    HeaderSize = 1
    MaxSize = 3
    Modes = {"shared"}
    Recoveries = {"none"}
    Faults = {"abort"}
SYMMETRY Symmetry
CHECK_DEADLOCK FALSE
PROPERTIES
    BodyImmutable
