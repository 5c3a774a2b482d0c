-------------------------- MODULE ForwardedStream --------------------------
(***************************************************************************)
(* One sender, the relay and one receiver, byte by byte: the relay cuts    *)
(* the sender's stream into packets (RecvFraming), process_packet forwards *)
(* a packet without its target mark as a new frame, and the receiving      *)
(* client cuts that stream in its turn (ReceiveBuffer).  The two parsers   *)
(* have different limits and answer a bad length differently.              *)
(***************************************************************************)
EXTENDS RecvFraming, Sequences

CONSTANTS
    MarkSize,       \* MARK_SIZE
    MaxPacket, RecvSize, MaxFrames

ASSUME StreamAssumption ==
    /\ MarkSize \in Nat /\ MaxPacket \in Nat
    /\ RecvSize \in Nat \ {0}
    /\ MaxFrames \in Nat
    /\ BufferSize - LengthSize - MarkSize <= MaxPacket

VARIABLES frames, arriving, m_buffer, skew, parsing

Client == INSTANCE ReceiveBuffer WITH HeaderSize <- LengthSize

relay    == vars
receiver == <<frames, arriving, m_buffer, skew, parsing>>

StreamInit == Init /\ Client!ClientInit

\* payload_len: what is left of a packet without its target mark.
PayloadLen(len) == len - MarkSize

\* Only a packet with something after the mark is forwarded.
HasMark(len) == len >= MarkSize

HasPayload(len) == len >= MarkSize /\ PayloadLen(len) > 0

\* The target is registered: the packet becomes a frame of its stream.
DeliverForwarded ==
    /\ HasPayload(packet_len)
    /\ Deliver
    /\ Client!FrameSent(PayloadLen(packet_len))

\* A registration, a packet without target or payload, an unknown target.
DeliverKept == Deliver /\ UNCHANGED receiver

RelayStep ==
    \/ (Read \/ ParseMore \/ ParseLength \/ Reject) /\ UNCHANGED receiver
    \/ DeliverForwarded \/ DeliverKept

ReceiverStep == Client!ClientNext /\ UNCHANGED relay

StreamNext == RelayStep \/ ReceiverStep

StreamSpec == StreamInit /\ [][StreamNext]_<<relay, receiver>>

----------------------------------------------------------------------------
\* Everything the relay forwards is a packet for the client's parser: its
\* branch for a bad length, which empties the buffer and stays connected, is
\* dead, although the two sides use different limits (process_packet's test of
\* payload_len, tryParsePacket's of packetSize).
ForwardedAccepted == \A i \in 1..Len(frames) : ~Client!BadLength(frames[i])

\* The client's buffer always starts at a frame of its own connection, however
\* recv() cut the stream and whenever the connection was replaced: no payload
\* is taken for a length (tryParsePacket's erase, the recvBuffer.clear() calls).
ClientAligned == skew = 0

=============================================================================
