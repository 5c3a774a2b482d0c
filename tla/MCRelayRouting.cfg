\* Two clients and their successors, two names: routing, reuse and partial writes.
CONSTANTS
    c1 = c1
    c2 = c2
    c3 = c3
    m1 = m1
    m2 = m2
    Conns = {c1, c2, c3}
    Fds = {1, 2, 3}
    Marks = {m1, m2}
    ZeroMark = m1
    NoConn = NoConn
    MaxConnections = 2
    Pieces = 2
    SndCap = 1
    Program <- RoutingProgram
    MayStop = FALSE
SPECIFICATION Spec
CHECK_DEADLOCK FALSE
INVARIANTS
    TypeOK
    FramesIntact
    SenderOrder
    RoutedToOwner
PROPERTIES
    MarkNotStolen
    ServiceSpec
