\* Buffers one byte larger than the largest packet, as in the code.
CONSTANTS
    BufferSize = 13
    MaxPacketSize = 12
    LengthSize = 2
    WordSize = 18
    MarkSize = 3
    MaxPacket = 8
    RecvSize = 6
    MaxFrames = 2
SPECIFICATION StreamSpec
CHECK_DEADLOCK FALSE
INVARIANTS
    TypeOK
    NeverFull
    Aligned
    BodyInBuffer
    ForwardedAccepted
    ClientAligned
