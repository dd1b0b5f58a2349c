SPECIFICATION Spec
CONSTANTS
    Cyclic = {port}
    Finite = {asrc}
    EventZero = {}
    LastChan = 2
    NrBd = 2
    Totals = {1, 3}
    Roughs = {FALSE, TRUE}
    MaxPeriods = 3
    MaxErrors = 1
    MaxOps = 4
INVARIANT EventMapCleared
CHECK_DEADLOCK FALSE
