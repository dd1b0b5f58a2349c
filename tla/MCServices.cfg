CONSTANTS
    Callers = {c1}
    MaxBuffers = 2
    Lengths = {2, 3}
    PktWrap = 4
    MaxRetry = 2
    Capacity = 2
    NoOverwrite = FALSE
    Clients = {c1, c2}
    MaxCalls = 3
    MaxEvents = 1
    Retries = 2
    Sizes = {0, 4, 8}
    EventSize = 8
    MaxFrames = 5
    MaxSwitches = 4
    CbufRoom = 3
    CbMax = 2
    Lens = {1, 2, 3}
    BufSize = 4
    Credit = 3
    Wrap = 5
    MaxCycles = 2
    Builds = {"LK", "permissive", "Linux"}
    Late = TRUE
SPECIFICATION Spec
INVARIANTS TypeOK InOrder CountedIsStored NothingLost CountedIsComplete
PROPERTIES AllDelivered OwnReply CallsReturn ChannelSpec
CHECK_DEADLOCK FALSE
