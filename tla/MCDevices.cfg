CONSTANTS
    Cyclic = {port}
    Finite = {asrc}
    EventZero = {port}
    LastChan = 2
    NrBd = 2
    Totals = {1, 3, 4}
    Roughs = {FALSE, TRUE}
    MaxPeriods = 3
    MaxErrors = 1
    SdmaOps = 3
    Threads = {t1, t2}
    Kinds = {"read_reg", "write"}
    MaxLen = 2
    MaxNacks = 1
    MaxFaults = 2
    MaxXfers = 2
    Cap = 4
    FifoSize = 4
    Threshold = 2
    MaxText = 8
    MaxPuts = 3
    TxBuffs = {FALSE, TRUE}
    Prompts = {TRUE}
SPECIFICATION Spec
INVARIANTS TypeOK PeriodsCounted DescAlive OkIsWhole
PROPERTIES TransferEnds CallsEnd
CHECK_DEADLOCK FALSE
