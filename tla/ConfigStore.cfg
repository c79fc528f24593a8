SPECIFICATION Spec
CONSTANTS
    Ids = {a, b}
    Secrets = {s}
    Keys = {k1, k2}
    Callers = {c1, c2}
    None = None
    MaxFaults = 2
SYMMETRY Symmetry
INVARIANTS Openable AsReported NoTextLeft
CHECK_DEADLOCK FALSE
