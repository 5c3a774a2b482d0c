------------------------- MODULE RecvFramingProofs -------------------------
(***************************************************************************)
(* RecvFraming is correct for every buffer size, packet limit and width of *)
(* the length field that FramingAssumption allows.  The four invariants    *)
(* are inductive together: NeverFull needs to know that the parser stopped *)
(* at the packet it is in (Aligned), and Aligned that a delivered packet   *)
(* was complete (BodyInBuffer).                                            *)
(***************************************************************************)
EXTENDS RecvFraming, TLAPS

\* A length field that passes the check does not wrap: the packet with its
\* length fits the buffer.
LEMMA LegalFits ==
    ASSUME NEW len \in Lengths, ~Illegal(len)
    PROVE  TotalLen(len) = LengthSize + len /\ LengthSize + len <= BufferSize
<1>1. len <= MaxPacketSize /\ ~(TotalLen(len) > BufferSize)
  BY FramingAssumption DEF Illegal, Lengths
<1>2. LengthSize + len \in 0..(WordSize - 1)
  BY <1>1, FramingAssumption DEF Lengths
<1>3. (LengthSize + len) % WordSize = LengthSize + len
  BY <1>2, FramingAssumption
<1> QED
  BY <1>1, <1>2, <1>3, FramingAssumption DEF TotalLen

\* What process_packet is called on was checked and is complete.
DeliverLegal == pc = "deliver" => ~Illegal(packet_len)

Inv == TypeOK /\ NeverFull /\ Aligned /\ BodyInBuffer /\ DeliverLegal

LEMMA FramingInit == Init => Inv
BY FramingAssumption
   DEF Init, Inv, TypeOK, NeverFull, Aligned, BodyInBuffer, DeliverLegal, Lengths

LEMMA FramingNext == Inv /\ [Next]_vars => Inv'
<1> SUFFICES ASSUME Inv, [Next]_vars PROVE Inv'
  OBVIOUS
<1> USE FramingAssumption
<1>1. CASE Read
  BY <1>1 DEF Inv, Read, Available, TypeOK, NeverFull, Aligned, BodyInBuffer,
              DeliverLegal
<1>2. CASE ParseMore
  BY <1>2 DEF Inv, ParseMore, TypeOK, NeverFull, Aligned, BodyInBuffer, DeliverLegal
<1>3. CASE ParseLength
  <2>1. /\ Illegal(packet_len) => pc' = "closed"
        /\ ~Illegal(packet_len) /\ Incomplete(packet_len) => pc' = "wait"
        /\ ~Illegal(packet_len) /\ ~Incomplete(packet_len) => pc' = "deliver"
    BY <1>3 DEF Inv, ParseLength, FrontLength, Aligned
  <2>2. ~Illegal(packet_len) =>
          TotalLen(packet_len) = LengthSize + packet_len
          /\ LengthSize + packet_len <= BufferSize
    BY LegalFits DEF Inv, TypeOK
  <2>3. UNCHANGED <<recv_len, packet_len, slip>>
    BY <1>3 DEF ParseLength
  <2>4. TypeOK'
    BY <2>1, <2>3 DEF Inv, TypeOK
  <2>5. NeverFull'
    BY <2>1, <2>2, <2>3 DEF Inv, TypeOK, NeverFull, Incomplete, Lengths
  <2>6. BodyInBuffer'
    BY <2>1, <2>2, <2>3 DEF Inv, TypeOK, BodyInBuffer, Incomplete, Lengths
  <2>7. DeliverLegal'
    BY <2>1, <2>3 DEF DeliverLegal, Illegal, TotalLen
  <2> QED
    BY <2>3, <2>4, <2>5, <2>6, <2>7 DEF Inv, Aligned
<1>4. CASE Deliver
  <2>1. TotalLen(packet_len) = LengthSize + packet_len
        /\ LengthSize + packet_len <= recv_len
    BY <1>4, LegalFits DEF Inv, TypeOK, Deliver, DeliverLegal, BodyInBuffer
  <2>2. Consumed(packet_len) = LengthSize + packet_len
    BY <2>1 DEF Consumed, Inv, TypeOK, Lengths
  <2> QED
    BY <1>4, <2>1, <2>2 DEF Inv, Deliver, TypeOK, NeverFull, Aligned, BodyInBuffer,
                            DeliverLegal, Lengths
<1>5. CASE Reject
  BY <1>5 DEF Inv, Reject, TypeOK, NeverFull, Aligned, BodyInBuffer, DeliverLegal
<1>6. CASE UNCHANGED vars
  BY <1>6 DEF Inv, vars, TypeOK, NeverFull, Aligned, BodyInBuffer, DeliverLegal,
              Illegal, TotalLen
<1> QED
  BY <1>1, <1>2, <1>3, <1>4, <1>5, <1>6 DEF Next

LEMMA FramingInvariant == Spec => []Inv
BY FramingInit, FramingNext, PTL DEF Spec

\* recv_len never leaves recv_buf, and the length that process_packet is given
\* is one a uint32_t holds.
THEOREM FramingTypeOK == Spec => []TypeOK
BY FramingInvariant, PTL DEF Inv

\* handle_client_data never finds recv_buf full.
THEOREM FramingNeverFull == Spec => []NeverFull
BY FramingInvariant, PTL DEF Inv

\* The parser never loses the packet boundaries of the stream.
THEOREM FramingAligned == Spec => []Aligned
BY FramingInvariant, PTL DEF Inv

\* process_packet never reads bytes beyond what was received.
THEOREM FramingBodyInBuffer == Spec => []BodyInBuffer
BY FramingInvariant, PTL DEF Inv

=============================================================================
