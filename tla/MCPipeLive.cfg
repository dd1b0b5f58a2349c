CONSTANTS
    MaxRestarts = 2
    MaxFrames = 1
    Writers = {1}
    ShmFits = TRUE
    CalmWindow = TRUE
    QuietBoot = TRUE
    RestartInRun = TRUE
SPECIFICATION FairSpec
INVARIANTS EventHasWakeup ResetIsNoticed RingsInStep
PROPERTIES BothReachRun FramesDelivered
CHECK_DEADLOCK FALSE
