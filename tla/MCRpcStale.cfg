CONSTANTS
    Clients = {c1}
    MaxCalls = 7
    MaxEvents = 0
    Retries = 5
    Sizes = {4}
    EventSize = 8
    Late = TRUE
SPECIFICATION Spec
PROPERTIES OwnReply
CHECK_DEADLOCK FALSE
