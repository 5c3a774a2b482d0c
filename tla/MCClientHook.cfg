\* The hook's calls, made between passes: safety and reconnection.
CONSTANTS
    MaxPeers = 1
    MaxSessions = 3
    MaxSends = 2
    MaxIn = 1
    Pieces = 2
    PacketSizes = {1}
    BaseDelay = 1
    MaxDelay = 2
    ConnectTicks = 1
    AttemptMax = 3
    Calls <- HookCalls
    Greets = TRUE
    Threads = FALSE
SPECIFICATION FairSpec
CHECK_DEADLOCK FALSE
INVARIANTS
    TypeOK
    AppInformed
    RemovesOnlyDead
    DelayBounded
PROPERTY
    ReconnectHappens
