--------------------------- MODULE ReceiveBuffer ---------------------------
(***************************************************************************)
(* The client's parser of the stream the relay sends it: ReceiveBuffer of  *)
(* src/packet_queue.cpp, driven by processRead of connection_manager.cpp.  *)
(* Only counts of bytes matter: m_buffer is m_buffer.size(), and the       *)
(* stream is the lengths of the frames in it.  recv() returns any number   *)
(* of the bytes that have been sent.                                       *)
(***************************************************************************)
EXTENDS Integers, Sequences

CONSTANTS
    HeaderSize,     \* HEADER_SIZE
    MaxPacket,      \* MAX_PACKET_SIZE of packet_queue.h
    Lengths,        \* values of the uint32_t length field
    RecvSize,       \* RECV_BUFFER_SIZE
    MaxFrames       \* bound: frames sent and not parsed yet

VARIABLES
    frames,         \* lengths of the frames sent and not parsed, in order
    arriving,       \* bytes of them that recv() has not returned yet
    m_buffer,       \* bytes in m_buffer
    skew,           \* history: offset of m_buffer[0] from the first frame's start
    parsing         \* whether processRead is in its parse loop

ClientInit ==
    /\ frames = <<>> /\ arriving = 0
    /\ m_buffer = 0 /\ skew = 0
    /\ parsing = FALSE

\* The other end sends a frame of len bytes (external).
FrameSent(len) ==
    /\ Len(frames) < MaxFrames
    /\ frames' = Append(frames, len)
    /\ arriving' = arriving + HeaderSize + len
    /\ UNCHANGED <<m_buffer, skew, parsing>>

\* recv() and append().
Recv ==
    /\ ~parsing
    /\ \E n \in 1..arriving :
         /\ n <= RecvSize
         /\ arriving' = arriving - n
         /\ m_buffer' = m_buffer + n
    /\ parsing' = TRUE
    /\ UNCHANGED <<frames, skew>>

\* The length at the front: a frame's if the buffer starts at one, any bytes
\* otherwise.
FrontLengths == IF skew = 0 /\ frames # <<>> THEN {Head(frames)} ELSE Lengths

BadLength(len) == len = 0 \/ len > MaxPacket

\* tryParsePacket returned false: back to recv().  A bad length has emptied
\* the buffer; the connection stays, in the middle of the stream.
TryParseFails ==
    /\ parsing
    /\ \/ /\ m_buffer < HeaderSize
          /\ UNCHANGED <<m_buffer, skew>>
       \/ /\ m_buffer >= HeaderSize
          /\ \E len \in FrontLengths :
               IF BadLength(len)
                 THEN m_buffer' = 0 /\ skew' = skew + m_buffer
                 ELSE m_buffer < HeaderSize + len /\ UNCHANGED <<m_buffer, skew>>
    /\ parsing' = FALSE
    /\ UNCHANGED <<frames, arriving>>

\* Bytes that erase() takes from the front.
Erased(len) == HeaderSize + len

\* tryParsePacket returned a packet, which is pushed to receiveQueue.
TryParseSucceeds ==
    /\ parsing
    /\ m_buffer >= HeaderSize
    /\ \E len \in FrontLengths :
         /\ ~BadLength(len) /\ m_buffer >= HeaderSize + len
         /\ m_buffer' = m_buffer - Erased(len)
         /\ frames # <<>>
         /\ skew' = skew + Erased(len) - (HeaderSize + Head(frames))
    /\ frames' = Tail(frames)
    /\ UNCHANGED <<arriving, parsing>>

\* recvBuffer.clear(), in disconnect and removeDisconnected.
KeepsBytes == m_buffer

NoBytes == 0

\* The connection is lost and another one made: unread bytes are gone, and the
\* next stream starts with a frame.
NewStream ==
    /\ ~parsing
    /\ frames' = <<>> /\ arriving' = 0
    /\ m_buffer' = NoBytes
    /\ skew' = 0 - NoBytes
    /\ UNCHANGED parsing

ClientNext == Recv \/ TryParseFails \/ TryParseSucceeds \/ NewStream

=============================================================================
