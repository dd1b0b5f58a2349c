CONSTANTS
    Ratio = 2
    Prefill = 2
    NrPeriods = 3
    Room = 6
    Silences = {0, 1}
    Modes = {"copy", "zero"}
    MaxLate = 1
    MaxPosts = 2
    MaxUnits = 3
    TxOps = 3
    RxRoom = 4
    Watermark = 2
    Lens = {3, 4}
    Burst = 2
    RxPeriods = 2
    MaxSem = 1
    RxOps = 2
SPECIFICATION Spec
INVARIANTS TypeOK PlayedInOrder DrainIsComplete ReadIsCovered FlushHasReader
PROPERTY CallsEnd
CHECK_DEADLOCK FALSE
