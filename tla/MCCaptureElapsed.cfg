SPECIFICATION Spec
CONSTANTS
    Room = 4
    Watermark = 2
    Lens = {3, 4}
    Burst = 2
    NrPeriods = 2
    MaxSem = 1
    MaxOps = 2
INVARIANT ElapsedInRange
CHECK_DEADLOCK FALSE
