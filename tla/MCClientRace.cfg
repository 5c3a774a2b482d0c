\* A game thread sends while the pump thread reconnects.
CONSTANTS
    MaxPeers = 1
    MaxSessions = 3
    MaxSends = 1
    MaxIn = 1
    Pieces = 2
    PacketSizes = {1}
    BaseDelay = 1
    MaxDelay = 2
    ConnectTicks = 1
    AttemptMax = 3
    Calls <- HookCalls
    Greets = TRUE
    Threads = TRUE
SPECIFICATION Spec
CHECK_DEADLOCK FALSE
INVARIANT
    RegistrationFirst
