\* A client that sends to itself while its link is reset.
CONSTANTS
    c1 = c1
    c2 = c2
    c3 = c3
    m1 = m1
    m2 = m2
    Conns = {c1, c2, c3}
    Fds = {1, 2, 3}
    Marks = {m1, m2}
    ZeroMark = m1
    NoConn = NoConn
    MaxConnections = 2
    Pieces = 2
    SndCap = 1
    Program <- ErrorProgram
    MayStop = FALSE
SPECIFICATION Spec
CHECK_DEADLOCK FALSE
INVARIANT
    ContinueMeansOpen
