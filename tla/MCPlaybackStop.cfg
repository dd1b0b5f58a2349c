SPECIFICATION Spec
CONSTANTS
    Ratio = 2
    Prefill = 2
    NrPeriods = 3
    Room = 6
    Silences = {0, 1}
    Modes = {"copy", "zero"}
    MaxLate = 1
    MaxPosts = 2
    MaxUnits = 3
    MaxOps = 4
INVARIANT QuietWhenStopped
CHECK_DEADLOCK FALSE
