\* The whole interface, two peers.
CONSTANTS
    MaxPeers = 2
    MaxSessions = 2
    MaxSends = 1
    MaxIn = 0
    Pieces = 1
    PacketSizes = {1}
    BaseDelay = 1
    MaxDelay = 1
    ConnectTicks = 0
    AttemptMax = 1
    Calls <- ApiCalls
    Greets = FALSE
    Threads = FALSE
SPECIFICATION SingleSpec
CHECK_DEADLOCK FALSE
INVARIANTS
    NoZombie
    SessionPure
