CONSTANTS
    Lines = {a, b}
    Rates = {r48000, r96000, r32000}
    RateTable = {r48000, r96000}
    Redundancy = 2
    Prompts = {TRUE}
    MaxTurns = 4
SPECIFICATION Spec
INVARIANTS TypeOK SaiIsOpen RedundantReport
PROPERTIES SteadyIsReported
CHECK_DEADLOCK FALSE
