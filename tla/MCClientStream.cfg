\* A packet sent while part of an earlier one is still buffered.
CONSTANTS
    MaxPeers = 1
    MaxSessions = 3
    MaxSends = 2
    MaxIn = 1
    Pieces = 2
    PacketSizes = {1}
    BaseDelay = 1
    MaxDelay = 2
    ConnectTicks = 1
    AttemptMax = 3
    Calls <- HookCalls
    Greets = TRUE
    Threads = FALSE
SPECIFICATION SingleSpec
CHECK_DEADLOCK FALSE
INVARIANT
    StreamIntact
