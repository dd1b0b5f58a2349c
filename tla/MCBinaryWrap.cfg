CONSTANTS
    Callers = {c1}
    MaxBuffers = 1
    Lengths = {257}
    PktWrap = 256
    MaxRetry = 10
    Capacity = 1
    NoOverwrite = FALSE
    Late = FALSE
SPECIFICATION Spec
INVARIANTS CountedIsStored
CHECK_DEADLOCK FALSE
