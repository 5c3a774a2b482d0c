\* The game polls and sends while the hook registers, reconnects and detaches.
CONSTANTS
    MaxPeers = 1
    MaxSessions = 2
    MaxSends = 1
    MaxIn = 1
    Pieces = 1
    PacketSizes = {1, 3}
    BaseDelay = 1
    MaxDelay = 1
    ConnectTicks = 0
    AttemptMax = 1
    Calls <- ThreadCalls
    Greets = TRUE
    Threads = TRUE
    IdSize = 2
SPECIFICATION HookSpec
CHECK_DEADLOCK FALSE
INVARIANTS
    SessionGreeted
    InboundPure
    StashHoldsPopped
PROPERTIES
    DiscardsOnlyAfterSwap
    DetachedStaysDown
