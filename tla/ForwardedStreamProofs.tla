----------------------- MODULE ForwardedStreamProofs -----------------------
(***************************************************************************)
(* The receiving client stays aligned, for every buffer, packet limit and  *)
(* mark size that FramingAssumption and StreamAssumption allow.  The       *)
(* relay's invariant (RecvFramingProofs) bounds what is forwarded; on the  *)
(* client's side the bytes have to be accounted for: what is buffered and  *)
(* arriving is exactly the frames that were not parsed yet, so a length is *)
(* only read while there is a frame.                                       *)
(***************************************************************************)
EXTENDS ForwardedStream, RecvFramingProofs, SequenceTheorems

ClientTypeOK ==
    /\ frames \in Seq(Nat)
    /\ arriving \in Nat /\ m_buffer \in Nat
    /\ skew \in Int /\ parsing \in BOOLEAN

\* f gives the offsets of the ends of the frames of s, n bytes in all.
Offsets(f, s, n) ==
    /\ f \in [0..Len(s) -> Int]
    /\ f[0] = 0 /\ f[Len(s)] = n
    /\ \A i \in 1..Len(s) : f[i] = f[i - 1] + LengthSize + s[i]

\* n is the length of the frames of s with their headers.
Measures(s, n) == \E f : Offsets(f, s, n)

Accounted == Measures(frames, m_buffer + arriving)

StreamInv == Inv /\ ClientTypeOK /\ Accounted /\ ForwardedAccepted /\ ClientAligned

----------------------------------------------------------------------------
\* Measures without induction: the offsets themselves are the witness, and are
\* built anew when a frame is added at the end or taken from the front.
LEMMA NothingMeasured ==
    ASSUME NEW n, Measures(<<>>, n)
    PROVE  n = 0
BY DEF Measures, Offsets

LEMMA EmptyMeasured == Measures(<<>>, 0)
<1>1. Offsets([i \in 0..0 |-> 0], <<>>, 0)
  BY DEF Offsets
<1> QED
  BY <1>1 DEF Measures

LEMMA AppendMeasured ==
    ASSUME NEW s \in Seq(Nat), NEW n \in Int, Measures(s, n), NEW len \in Nat
    PROVE  Measures(Append(s, len), n + LengthSize + len)
<1> USE FramingAssumption
<1>1. PICK f : Offsets(f, s, n)
  BY DEF Measures
<1> DEFINE t == Append(s, len)
           g == [i \in 0..Len(t) |-> IF i <= Len(s) THEN f[i] ELSE n + LengthSize + len]
<1>2. /\ t \in Seq(Nat) /\ Len(t) = Len(s) + 1 /\ Len(s) \in Nat
      /\ \A i \in 1..Len(s) : t[i] = s[i]
      /\ t[Len(s) + 1] = len
  BY AppendProperties
<1>3. g \in [0..Len(t) -> Int] /\ g[0] = 0 /\ g[Len(t)] = n + LengthSize + len
  BY <1>1, <1>2 DEF Offsets
<1>4. ASSUME NEW i \in 1..Len(t) PROVE g[i] = g[i - 1] + LengthSize + t[i]
  <2>1. CASE i <= Len(s)
    BY <1>1, <1>2, <2>1 DEF Offsets
  <2>2. CASE i = Len(s) + 1
    BY <1>1, <1>2, <2>2 DEF Offsets
  <2> HIDE DEF t, g
  <2>3. i <= Len(s) \/ i = Len(s) + 1
    BY <1>2
  <2> QED
    BY <2>1, <2>2, <2>3
<1> HIDE DEF t, g
<1>5. Offsets(g, t, n + LengthSize + len)
  BY <1>3, <1>4 DEF Offsets
<1> QED
  BY <1>5 DEF Measures, t

LEMMA TailMeasured ==
    ASSUME NEW s \in Seq(Nat), s # <<>>, NEW n \in Int, Measures(s, n)
    PROVE  Measures(Tail(s), n - (LengthSize + Head(s)))
<1>0. LengthSize \in Nat
  BY FramingAssumption
<1>1. PICK f : Offsets(f, s, n)
  BY DEF Measures
<1> DEFINE t == Tail(s)
           g == [i \in 0..Len(t) |-> f[i + 1] - f[1]]
<1>2. /\ t \in Seq(Nat) /\ Len(t) = Len(s) - 1 /\ Len(s) \in Nat \ {0}
      /\ Head(s) = s[1] /\ s[1] \in Nat
      /\ \A i \in 1..Len(t) : t[i] = s[i + 1]
  BY HeadTailProperties, EmptySeq
<1>3. f[1] = LengthSize + Head(s) /\ f[Len(s)] = n
  BY <1>0, <1>1, <1>2 DEF Offsets
<1> HIDE DEF t, g
<1>4. g \in [0..Len(t) -> Int] /\ g[0] = 0 /\ g[Len(t)] = n - (LengthSize + Head(s))
  <2>1. \A x \in 0..Len(s) : f[x] \in Int
    BY <1>1 DEF Offsets
  <2>2. /\ 0 \in 0..Len(t) /\ Len(t) \in 0..Len(t) /\ 0 + 1 = 1 /\ Len(t) + 1 = Len(s)
        /\ 1 \in 0..Len(s) /\ \A i \in 0..Len(t) : i + 1 \in 0..Len(s)
    BY <1>2
  <2>3. f[1] \in Int /\ f[Len(s)] \in Int
        /\ \A i \in 0..Len(t) : f[i + 1] - f[1] \in Int
    <3>1. f[1] \in Int /\ f[Len(s)] \in Int /\ \A i \in 0..Len(t) : f[i + 1] \in Int
      BY <2>1, <2>2, Zenon
    <3>2. \A x, y \in Int : x - y \in Int
      OBVIOUS
    <3> QED
      BY <3>1, <3>2, Zenon
  <2>4. g \in [0..Len(t) -> Int]
    BY <2>3 DEF g
  <2>5. g[0] = f[1] - f[1] /\ g[Len(t)] = f[Len(s)] - f[1]
    BY <2>2 DEF g
  <2>6. g[0] = 0
    <3>1. \A x \in Int : x - x = 0
      OBVIOUS
    <3> QED
      BY <2>3, <2>5, <3>1, Zenon
  <2>7. g[Len(t)] = n - (LengthSize + Head(s))
    BY <1>3, <2>5, Zenon
  <2> QED
    BY <2>4, <2>6, <2>7, Zenon
<1>5. ASSUME NEW i \in 1..Len(t) PROVE g[i] = g[i - 1] + LengthSize + t[i]
  <2>1. /\ i + 1 \in 1..Len(s) /\ i + 1 \in 0..Len(s) /\ i \in 0..Len(s)
        /\ 1 \in 0..Len(s) /\ i - 1 \in 0..Len(t) /\ (i - 1) + 1 = i
    BY <1>2
  <2>2. /\ \A x \in 0..Len(s) : f[x] \in Int
        /\ f[i + 1] = f[(i + 1) - 1] + LengthSize + s[i + 1]
    BY <1>1, <2>1 DEF Offsets
  <2>3. f[i] \in Int /\ f[i + 1] \in Int /\ f[1] \in Int
    BY <2>1, <2>2, Zenon
  <2>4. s[i + 1] \in Nat
    BY <2>1, ElementOfSeq
  <2>5. f[i + 1] - f[1] = (f[i] - f[1]) + LengthSize + s[i + 1]
    <3>1. (i + 1) - 1 = i
      OBVIOUS
    <3>2. f[i + 1] = f[i] + LengthSize + s[i + 1]
      BY <2>2, <3>1, Zenon
    <3>3. PICK a \in Int, b \in Int, c \in Int, len \in Nat :
            a = f[i + 1] /\ b = f[i] /\ c = f[1] /\ len = s[i + 1]
      BY <2>3, <2>4, Zenon
    <3>4. a = b + LengthSize + len
      BY <3>2, <3>3, Zenon
    <3>5. a - c = (b - c) + LengthSize + len
      BY <1>0, <3>4
    <3> QED
      BY <3>3, <3>5, Zenon
  <2>6. g[i] = f[i + 1] - f[1] /\ g[i - 1] = f[i] - f[1]
    BY <2>1 DEF g
  <2>7. t[i] = s[i + 1]
    BY <1>2
  <2> QED
    BY <2>5, <2>6, <2>7, Zenon
<1>6. Offsets(g, t, n - (LengthSize + Head(s)))
  BY <1>4, <1>5 DEF Offsets
<1> QED
  BY <1>6 DEF Measures, t

----------------------------------------------------------------------------
LEMMA StreamInitInv == StreamInit => StreamInv
<1> SUFFICES ASSUME StreamInit PROVE StreamInv
  OBVIOUS
<1>1. Inv
  BY FramingInit DEF StreamInit
<1>2. frames = <<>> /\ arriving = 0 /\ m_buffer = 0 /\ skew = 0 /\ parsing = FALSE
  BY DEF StreamInit, Client!ClientInit
<1>3. Accounted
  BY <1>2, EmptyMeasured DEF Accounted
<1>4. ForwardedAccepted
  BY <1>2 DEF ForwardedAccepted
<1>5. frames \in Seq(Nat) /\ arriving \in Nat /\ m_buffer \in Nat /\ skew \in Int
  BY <1>2
<1>6. parsing \in BOOLEAN
  BY <1>2, Zenon
<1> QED
  BY <1>1, <1>2, <1>3, <1>4, <1>5, <1>6, Zenon DEF StreamInv, ClientTypeOK, ClientAligned

\* What is forwarded was checked by the relay, so it is within the client's
\* limits, and the frame is accounted for.
LEMMA ForwardKeepsInv ==
    ASSUME StreamInv, DeliverForwarded
    PROVE  StreamInv'
<1> USE FramingAssumption, StreamAssumption
<1> DEFINE len == PayloadLen(packet_len)
<1>1. Inv'
  BY FramingNext DEF StreamInv, DeliverForwarded, Next
<1>2. packet_len \in Nat /\ LengthSize + packet_len <= BufferSize
  BY LegalFits DEF StreamInv, DeliverForwarded, Deliver, Inv, DeliverLegal, TypeOK, Lengths
<1>3. len \in Nat /\ len > 0 /\ len <= MaxPacket
  BY <1>2 DEF DeliverForwarded, HasPayload, PayloadLen
<1>4. /\ frames' = Append(frames, len)
      /\ arriving' = arriving + LengthSize + len
      /\ UNCHANGED <<m_buffer, skew, parsing>>
  BY DEF DeliverForwarded, Client!FrameSent
<1> HIDE DEF len
<1>5. ClientTypeOK'
  BY <1>3, <1>4, AppendProperties DEF StreamInv, ClientTypeOK
<1>6. Accounted'
  <2>1. Measures(frames', (m_buffer + arriving) + LengthSize + len)
    BY <1>3, <1>4, AppendMeasured DEF StreamInv, ClientTypeOK, Accounted
  <2>2. m_buffer' + arriving' = (m_buffer + arriving) + LengthSize + len
    BY <1>3, <1>4 DEF StreamInv, ClientTypeOK
  <2> QED
    BY <2>1, <2>2 DEF Accounted
<1>7. ForwardedAccepted'
  BY <1>3, <1>4, AppendProperties
     DEF StreamInv, ClientTypeOK, ForwardedAccepted, Client!BadLength
<1> QED
  BY <1>1, <1>4, <1>5, <1>6, <1>7 DEF StreamInv, ClientAligned

\* The relay's other steps do not touch the receiver.
LEMMA RelayKeepsInv ==
    ASSUME StreamInv, [Next]_vars, UNCHANGED receiver
    PROVE  StreamInv'
<1>1. Inv'
  BY FramingNext DEF StreamInv
<1> QED
  BY <1>1 DEF StreamInv, receiver, ClientTypeOK, Accounted, ForwardedAccepted,
              ClientAligned, Client!BadLength

\* A length is only read at the start of a frame, whose length it is.
LEMMA FrontIsFrame ==
    ASSUME StreamInv, m_buffer >= LengthSize, NEW len \in Client!FrontLengths
    PROVE  frames # <<>> /\ len = Head(frames) /\ len \in Nat /\ ~Client!BadLength(len)
<1> USE FramingAssumption
<1>1. frames # <<>>
  <2> SUFFICES ASSUME frames = <<>> PROVE FALSE
    OBVIOUS
  <2>1. m_buffer + arriving = 0
    BY NothingMeasured DEF StreamInv, Accounted
  <2> QED
    BY <2>1 DEF StreamInv, ClientTypeOK
<1>2. len = Head(frames)
  BY <1>1 DEF StreamInv, ClientAligned, Client!FrontLengths
<1>3. 1 \in 1..Len(frames) /\ Head(frames) = frames[1] /\ frames[1] \in Nat
  BY <1>1, HeadTailProperties, EmptySeq, LenProperties DEF StreamInv, ClientTypeOK
<1> QED
  BY <1>1, <1>2, <1>3 DEF StreamInv, ForwardedAccepted

\* What is erased is exactly the first frame.
LEMMA ParseKeepsInv ==
    ASSUME StreamInv, Client!TryParseSucceeds, UNCHANGED relay
    PROVE  StreamInv'
<1> USE FramingAssumption
<1>1. PICK len \in Client!FrontLengths :
        /\ m_buffer >= LengthSize /\ m_buffer >= LengthSize + len
        /\ m_buffer' = m_buffer - (LengthSize + len)
        /\ skew' = skew + (LengthSize + len) - (LengthSize + Head(frames))
        /\ frames' = Tail(frames) /\ arriving' = arriving /\ parsing' = parsing
  BY DEF Client!TryParseSucceeds, Client!Erased
<1>2. frames # <<>> /\ len = Head(frames) /\ len \in Nat
  BY <1>1, FrontIsFrame
<1>3. m_buffer \in Nat /\ arriving \in Nat /\ skew = 0 /\ LengthSize \in Nat /\ len \in Nat
  BY <1>2 DEF StreamInv, ClientTypeOK, ClientAligned
<1>4. /\ m_buffer >= LengthSize + len
      /\ m_buffer' = m_buffer - (LengthSize + len) /\ arriving' = arriving
      /\ skew' = skew + (LengthSize + len) - (LengthSize + len)
  BY <1>1, <1>2, Zenon
<1>5. Inv'
  BY DEF StreamInv, relay, vars, Inv, TypeOK, NeverFull, Aligned, BodyInBuffer,
         DeliverLegal, Illegal, TotalLen
<1>6. /\ Tail(frames) \in Seq(Nat) /\ Len(Tail(frames)) = Len(frames) - 1
      /\ \A i \in 1..Len(Tail(frames)) : Tail(frames)[i] = frames[i + 1]
      /\ Len(frames) \in Nat
  BY <1>2, HeadTailProperties, LenProperties DEF StreamInv, ClientTypeOK
<1>7. ClientTypeOK' /\ ClientAligned'
  <2>1. m_buffer' \in Nat /\ skew' = 0
    BY <1>3, <1>4
  <2>2. frames' \in Seq(Nat) /\ arriving' = arriving /\ parsing' = parsing
    BY <1>1, <1>6
  <2>3. skew' \in Int
    BY <2>1
  <2> QED
    BY <2>1, <2>2, <2>3, Zenon DEF StreamInv, ClientTypeOK, ClientAligned
<1>8. Accounted'
  <2>1. m_buffer + arriving \in Int /\ frames \in Seq(Nat)
    BY DEF StreamInv, ClientTypeOK
  <2>2. Measures(frames', (m_buffer + arriving) - (LengthSize + len))
    BY <1>1, <1>2, <2>1, TailMeasured DEF StreamInv, Accounted
  <2>3. m_buffer' + arriving' = (m_buffer + arriving) - (LengthSize + len)
    BY <1>3, <1>4
  <2> QED
    BY <2>2, <2>3 DEF Accounted
<1>9. ForwardedAccepted'
  BY <1>1, <1>6 DEF StreamInv, ForwardedAccepted, Client!BadLength
<1> QED
  BY <1>5, <1>7, <1>8, <1>9 DEF StreamInv

\* The branch for a bad length is dead (FrontIsFrame), and a new connection
\* starts with nothing on either side.
LEMMA ReceiverKeepsInv ==
    ASSUME StreamInv, ReceiverStep
    PROVE  StreamInv'
<1> USE FramingAssumption
<1>0. UNCHANGED relay
  BY DEF ReceiverStep
<1>1. Inv'
  BY <1>0 DEF StreamInv, relay, vars, Inv, TypeOK, NeverFull, Aligned, BodyInBuffer,
              DeliverLegal, Illegal, TotalLen
<1>2. CASE Client!Recv
  <2>1. /\ m_buffer' \in Nat /\ arriving' \in Nat
        /\ m_buffer' + arriving' = m_buffer + arriving
        /\ frames' = frames /\ skew' = skew /\ parsing' = TRUE
    BY <1>2 DEF Client!Recv, StreamInv, ClientTypeOK
  <2> QED
    BY <1>1, <2>1 DEF StreamInv, ClientTypeOK, Accounted, ForwardedAccepted,
                      ClientAligned, Client!BadLength
<1>3. CASE Client!TryParseFails
  <2>1. UNCHANGED <<m_buffer, skew, frames, arriving>> /\ parsing' = FALSE
    BY <1>3, FrontIsFrame DEF Client!TryParseFails
  <2> QED
    BY <1>1, <2>1 DEF StreamInv, ClientTypeOK, Accounted, ForwardedAccepted,
                      ClientAligned, Client!BadLength
<1>4. CASE Client!TryParseSucceeds
  BY <1>0, <1>4, ParseKeepsInv
<1>5. CASE Client!NewStream
  <2>1. frames' = <<>> /\ arriving' = 0 /\ m_buffer' = 0 /\ skew' = 0 - 0 /\ parsing' = parsing
    BY <1>5, Zenon DEF Client!NewStream, Client!NoBytes
  <2>2. 0 - 0 = 0
    OBVIOUS
  <2>3. frames' = <<>> /\ arriving' = 0 /\ m_buffer' = 0 /\ skew' = 0
    BY <2>1, <2>2, Zenon
  <2>4. Accounted'
    BY <2>3, EmptyMeasured DEF Accounted
  <2>5. ForwardedAccepted'
    BY <2>3 DEF ForwardedAccepted
  <2>6. frames' \in Seq(Nat) /\ arriving' \in Nat /\ m_buffer' \in Nat /\ skew' \in Int
    BY <2>3
  <2> QED
    BY <1>1, <2>1, <2>3, <2>4, <2>5, <2>6, Zenon
       DEF StreamInv, ClientTypeOK, ClientAligned
<1> QED
  BY <1>2, <1>3, <1>4, <1>5 DEF ReceiverStep, Client!ClientNext

LEMMA StreamNextInv == StreamInv /\ [StreamNext]_<<relay, receiver>> => StreamInv'
<1> SUFFICES ASSUME StreamInv, [StreamNext]_<<relay, receiver>> PROVE StreamInv'
  OBVIOUS
<1>1. CASE DeliverForwarded
  BY <1>1, ForwardKeepsInv
<1>2. CASE DeliverKept \/ ((Read \/ ParseMore \/ ParseLength \/ Reject) /\ UNCHANGED receiver)
  BY <1>2, RelayKeepsInv DEF DeliverKept, Next
<1>3. CASE ReceiverStep
  BY <1>3, ReceiverKeepsInv
<1>4. CASE UNCHANGED <<relay, receiver>>
  BY <1>4, RelayKeepsInv DEF relay
<1> QED
  BY <1>1, <1>2, <1>3, <1>4 DEF StreamNext, RelayStep

LEMMA StreamInvariant == StreamSpec => []StreamInv
BY StreamInitInv, StreamNextInv, PTL DEF StreamSpec

\* With a receiver behind it the relay's parser behaves as it does alone.
THEOREM StreamRelayIntact == StreamSpec => [](NeverFull /\ Aligned /\ BodyInBuffer)
BY StreamInvariant, PTL DEF StreamInv, Inv

\* Whatever senders write and however the relay reads it, every frame the relay
\* makes is within the limits of the client's tryParsePacket.
THEOREM StreamForwardedAccepted == StreamSpec => []ForwardedAccepted
BY StreamInvariant, PTL DEF StreamInv

\* The client's parser never takes payload for a length, over any number of
\* connections, frames and cuts by recv().
THEOREM StreamClientAligned == StreamSpec => []ClientAligned
BY StreamInvariant, PTL DEF StreamInv

=============================================================================
