CONSTANTS
    MaxRestarts = 1
    MaxFrames = 0
    Writers = {}
    ShmFits = TRUE
    CalmWindow = TRUE
    QuietBoot = FALSE
    RestartInRun = FALSE
SPECIFICATION Spec
INVARIANTS TypeOK HandshakeInv NoReinitInUse
PROPERTIES SessionSpec
CHECK_DEADLOCK FALSE
