---------------------------- MODULE RecvFraming ----------------------------
(***************************************************************************)
(* How handle_client_data of server/main.cpp cuts a connection's byte      *)
(* stream into packets: recv_buf of BufferSize bytes, recv_len of them in  *)
(* use, a little-endian length of LengthSize bytes in front of each body.  *)
(* Only counts of bytes matter.  The sender's length fields are arbitrary, *)
(* and read() returns any number of bytes that fit.  Length arithmetic is  *)
(* uint32_t, modulo WordSize.                                              *)
(***************************************************************************)
EXTENDS Integers

CONSTANTS
    BufferSize,     \* BUFFER_SIZE
    MaxPacketSize,  \* MAX_PACKET_SIZE
    LengthSize,     \* LENGTH_SIZE
    WordSize        \* 2^32

ASSUME FramingAssumption ==
    /\ BufferSize \in Nat /\ MaxPacketSize \in Nat /\ LengthSize \in Nat \ {0}
    /\ WordSize \in Nat
    /\ LengthSize < BufferSize
    /\ MaxPacketSize + LengthSize < WordSize

VARIABLES
    recv_len,   \* bytes in recv_buf
    packet_len, \* length field of the packet the stream is in
    slip,       \* history: offset of recv_buf[0] from that packet's first byte
    pc          \* "wait" for epoll, "parse", "deliver", "closed" or "full"

vars == <<recv_len, packet_len, slip, pc>>

Lengths == 0..(WordSize - 1)

\* Shape of the state; recv_buf is never overrun.
TypeOK ==
    /\ recv_len \in 0..BufferSize
    /\ packet_len \in Lengths
    /\ slip \in Int
    /\ pc \in {"wait", "parse", "deliver", "closed", "full"}

Init ==
    /\ recv_len = 0
    /\ packet_len \in Lengths
    /\ slip = 0
    /\ pc = "wait"

\* uint32_t total_len = LENGTH_SIZE + packet_len.
TotalLen(len) == (LengthSize + len) % WordSize

\* The check of the length field.
IllegalWithoutFit(len) == len = 0 \/ len > MaxPacketSize

Illegal(len) ==
    \/ len = 0
    \/ len > MaxPacketSize
    \/ TotalLen(len) > BufferSize

\* Not all of the packet has arrived.
BodyMissing(len) == recv_len < len

Incomplete(len) == recv_len < TotalLen(len)

\* Connection::consume: bytes that leave recv_buf.
ConsumesBody(len) == IF len >= recv_len THEN recv_len ELSE len

Consumed(len) == IF TotalLen(len) >= recv_len THEN recv_len ELSE TotalLen(len)

\* Bytes read() may store.
WholeBuffer == BufferSize

Available == BufferSize - recv_len

\* One read() per EPOLLIN; a full buffer closes the connection.
Read ==
    /\ pc = "wait"
    /\ IF Available = 0
         THEN pc' = "full" /\ UNCHANGED recv_len
         ELSE /\ \E n \in 1..Available : recv_len' = recv_len + n
              /\ pc' = "parse"
    /\ UNCHANGED <<packet_len, slip>>

\* The length field at the front of the buffer: the sender's if the buffer
\* starts at a packet, any bytes otherwise.
FrontLength == IF slip = 0 THEN {packet_len} ELSE Lengths

ParseMore ==
    /\ pc = "parse"
    /\ recv_len < LengthSize
    /\ pc' = "wait"
    /\ UNCHANGED <<recv_len, packet_len, slip>>

ParseLength ==
    /\ pc = "parse"
    /\ recv_len >= LengthSize
    /\ \E len \in FrontLength :
         \/ Illegal(len) /\ pc' = "closed"
         \/ ~Illegal(len) /\ Incomplete(len) /\ pc' = "wait"
         \/ ~Illegal(len) /\ ~Incomplete(len) /\ pc' = "deliver"
    /\ UNCHANGED <<recv_len, packet_len, slip>>

\* process_packet has returned true: consume, and go round the loop.  The
\* sender's next packet has a length of its own.
Deliver ==
    /\ pc = "deliver"
    /\ recv_len' = recv_len - Consumed(packet_len)
    /\ slip' = slip + Consumed(packet_len) - (LengthSize + packet_len)
    /\ packet_len' \in Lengths
    /\ pc' = "parse"

\* process_packet has returned false.
Reject ==
    /\ pc = "deliver"
    /\ pc' = "closed"
    /\ UNCHANGED <<recv_len, packet_len, slip>>

Next == Read \/ ParseMore \/ ParseLength \/ Deliver \/ Reject

Spec == Init /\ [][Next]_vars

----------------------------------------------------------------------------
\* The branch "receive buffer full" is dead: a buffer that holds no complete
\* packet always has room for the rest of one.  This is what the third part
\* of the length check is for.
NeverFull == pc = "wait" => recv_len < BufferSize

\* recv_buf always starts at a packet the sender started, so that no body is
\* taken for a length field, however read() cut the stream.
Aligned == slip = 0

\* process_packet only reads bytes that were received.
BodyInBuffer == pc = "deliver" => LengthSize + packet_len <= recv_len

=============================================================================
