---------------------- MODULE ConnectionManagerProofs ----------------------
(***************************************************************************)
(* The client library is right for any number of peers, TCP connections,   *)
(* packets and attempts: its types, the purity of what it receives and the *)
(* bound on the reconnection delay for every way to call it; the purity of *)
(* what it sends and the bookkeeping of removals and reconnections for     *)
(* calls from one thread; the registration of every session for a client   *)
(* of one connection, from any threads.                                    *)
(***************************************************************************)
EXTENDS ConnectionManager, SequenceTheorems, FiniteSetTheorems,
        WellFoundedInduction, TLAPS

----------------------------------------------------------------------------
\* Induction over the naturals, in a form without operator parameters.

LEMMA LeastNumber ==
    ASSUME NEW T, T \subseteq Nat, T # {}
    PROVE  \E m \in T : \A k \in T : m <= k
<1> DEFINE R == OpToRel(<, Nat)
<1>1. IsWellFoundedOn(R, Nat)
  BY NatLessThanWellFounded, Zenon
<1> HIDE DEF R
<1>2. PICK x \in T : \A y \in T : ~(<<y, x>> \in R)
  BY <1>1, WFMin
<1>3. R = {ss \in Nat \X Nat : ss[1] < ss[2]}
  BY Zenon DEF R, OpToRel
<1>4. \A y \in Nat, z \in Nat : <<y, z>> \in R <=> y < z
  BY <1>3
<1>5. \A y \in T : ~(y < x)
  BY <1>2, <1>4
<1> QED
  BY <1>5

LEMMA SetInduction ==
    ASSUME NEW T, T \subseteq Nat, 0 \in T, \A n \in T : n + 1 \in T
    PROVE  T = Nat
<1>1. SUFFICES ASSUME Nat \ T # {} PROVE FALSE
  OBVIOUS
<1>2. PICK m \in Nat \ T : \A k \in Nat \ T : m <= k
  BY <1>1, LeastNumber
<1>3. m # 0 /\ m - 1 \in Nat
  BY <1>2
<1>4. m - 1 \in T
  BY <1>2, <1>3
<1> QED
  BY <1>2, <1>3, <1>4

----------------------------------------------------------------------------
\* The delay: the doubling loop of attemptReconnects.

DoubleOnce(v) == IF 2 * v >= MaxDelay THEN MaxDelay ELSE 2 * v

\* The first n rounds of the loop.
Rounds(g, n) ==
    /\ g \in [0..n -> Nat] /\ g[0] = BaseDelay
    /\ \A i \in 1..n : g[i] = DoubleOnce(g[i - 1])

LEMMA DoubleOnceType ==
    ASSUME NEW v \in Nat
    PROVE  DoubleOnce(v) \in Nat /\ (v <= MaxDelay => DoubleOnce(v) <= MaxDelay)
<1>1. MaxDelay \in Nat
  BY ClientBoundsAssumption
<1> QED
  BY <1>1 DEF DoubleOnce

LEMMA RoundsExist ==
    ASSUME NEW n \in Nat
    PROVE  \E g : Rounds(g, n)
<1> DEFINE T == {k \in Nat : \E g : Rounds(g, k)}
<1>0. BaseDelay \in Nat
  BY ClientBoundsAssumption
<1>1. 0 \in T
  <2>1. Rounds([i \in 0..0 |-> BaseDelay], 0)
    BY <1>0 DEF Rounds
  <2> QED
    BY <2>1
<1>2. ASSUME NEW k \in T PROVE k + 1 \in T
  <2>1. k \in Nat
    OBVIOUS
  <2>2. PICK g : Rounds(g, k)
    OBVIOUS
  <2> DEFINE h == [i \in 0..(k + 1) |-> IF i = k + 1 THEN DoubleOnce(g[k]) ELSE g[i]]
  <2>3. \A i \in 0..k : g[i] \in Nat
    BY <2>2 DEF Rounds
  <2>4. DoubleOnce(g[k]) \in Nat
    BY <2>1, <2>3, DoubleOnceType
  <2>5. h \in [0..(k + 1) -> Nat]
    BY <2>1, <2>3, <2>4
  <2>6. h[0] = BaseDelay
    BY <2>1, <2>2 DEF Rounds
  <2>7. ASSUME NEW i \in 1..(k + 1) PROVE h[i] = DoubleOnce(h[i - 1])
    <3>1. h[i - 1] = g[i - 1]
      BY <2>1
    <3>2. CASE i = k + 1
      <4>1. h[i] = DoubleOnce(g[k])
        BY <2>1, <3>2
      <4>2. i - 1 = k
        BY <2>1, <3>2
      <4> QED
        BY <3>1, <4>1, <4>2
    <3>3. CASE i # k + 1
      <4>1. i \in 1..k /\ h[i] = g[i]
        BY <2>1, <3>3
      <4> QED
        BY <2>2, <3>1, <4>1 DEF Rounds
    <3> QED
      BY <3>2, <3>3
  <2> HIDE DEF h
  <2>8. Rounds(h, k + 1)
    BY <2>5, <2>6, <2>7 DEF Rounds
  <2> QED
    BY <2>1, <2>8
<1> HIDE DEF T
<1>3. T = Nat
  <2>1. T \subseteq Nat
    BY DEF T
  <2> QED
    BY <1>1, <1>2, <2>1, SetInduction
<1> QED
  BY <1>3 DEF T

LEMMA RoundsAgree ==
    ASSUME NEW m \in Nat, NEW n \in Nat, NEW g, NEW h, Rounds(g, m), Rounds(h, n)
    PROVE  \A i \in Nat : i <= m /\ i <= n => g[i] = h[i]
<1> DEFINE T == {i \in Nat : i <= m /\ i <= n => g[i] = h[i]}
<1>1. 0 \in T
  BY DEF Rounds
<1>2. ASSUME NEW k \in T PROVE k + 1 \in T
  <2>1. k \in Nat /\ (k <= m /\ k <= n => g[k] = h[k])
    OBVIOUS
  <2>2. ASSUME k + 1 <= m, k + 1 <= n PROVE g[k + 1] = h[k + 1]
    <3>1. g[k] = h[k] /\ k + 1 \in 1..m /\ k + 1 \in 1..n /\ (k + 1) - 1 = k
      BY <2>1, <2>2
    <3> QED
      BY <3>1 DEF Rounds
  <2> QED
    BY <2>1, <2>2
<1>3. T \subseteq Nat
  OBVIOUS
<1> HIDE DEF T
<1>4. T = Nat
  BY <1>1, <1>2, <1>3, SetInduction
<1> QED
  BY <1>4 DEF T

\* The recursive definition has a solution, so that it is an equation.
LEMMA DoubledEquation ==
    Doubled = [i \in Nat |-> IF i = 0 THEN BaseDelay
                             ELSE IF 2 * Doubled[i - 1] >= MaxDelay THEN MaxDelay
                             ELSE 2 * Doubled[i - 1]]
<1> DEFINE G == [n \in Nat |-> CHOOSE g : Rounds(g, n)]
           f == [n \in Nat |-> G[n][n]]
<1>1. \A n \in Nat : Rounds(G[n], n)
  BY RoundsExist
<1>2. \A n \in Nat : f[n] = G[n][n]
  OBVIOUS
<1> HIDE DEF G
<1>3. ASSUME NEW n \in Nat
      PROVE  f[n] = IF n = 0 THEN BaseDelay ELSE DoubleOnce(f[n - 1])
  <2>1. CASE n = 0
    BY <1>1, <1>2, <2>1 DEF Rounds
  <2>2. CASE n # 0
    <3>1. n - 1 \in Nat /\ n \in 1..n
      BY <2>2
    <3>2. G[n][n] = DoubleOnce(G[n][n - 1])
      BY <1>1, <3>1 DEF Rounds
    <3>3. G[n][n - 1] = G[n - 1][n - 1]
      BY <1>1, <3>1, RoundsAgree
    <3> QED
      BY <1>2, <2>2, <3>1, <3>2, <3>3
  <2> QED
    BY <2>1, <2>2
<1>4. f = [n \in Nat |-> f[n]]
  OBVIOUS
<1> HIDE DEF f
<1>5. f = [i \in Nat |-> IF i = 0 THEN BaseDelay
                         ELSE IF 2 * f[i - 1] >= MaxDelay THEN MaxDelay
                         ELSE 2 * f[i - 1]]
  BY <1>3, <1>4 DEF DoubleOnce
<1> QED
  BY <1>5 DEF Doubled

\* However many attempts failed, the delay is a number, and not above the
\* maximum if the first one is not.
LEMMA DelayType ==
    ASSUME NEW n \in Nat
    PROVE  RetryDelay(n) \in Nat /\ (BaseDelay <= MaxDelay => RetryDelay(n) <= MaxDelay)
<1> DEFINE T == {i \in Nat : Doubled[i] \in Nat
                             /\ (BaseDelay <= MaxDelay => Doubled[i] <= MaxDelay)}
<1>0. BaseDelay \in Nat /\ MaxDelay \in Nat
  BY ClientBoundsAssumption
<1>1. \A i \in Nat : Doubled[i] = IF i = 0 THEN BaseDelay ELSE DoubleOnce(Doubled[i - 1])
  BY DoubledEquation DEF DoubleOnce
<1>2. 0 \in T
  BY <1>0, <1>1
<1>3. ASSUME NEW k \in T PROVE k + 1 \in T
  <2>1. k \in Nat /\ k + 1 # 0 /\ (k + 1) - 1 = k
    OBVIOUS
  <2>2. Doubled[k + 1] = DoubleOnce(Doubled[k])
    BY <1>1, <2>1
  <2> QED
    BY <2>1, <2>2, DoubleOnceType
<1>4. T \subseteq Nat
  OBVIOUS
<1> HIDE DEF T
<1>5. T = Nat
  BY <1>2, <1>3, <1>4, SetInduction
<1> QED
  BY <1>5 DEF T, RetryDelay

----------------------------------------------------------------------------
\* Lists of peers.

SetOf(list) == {list[i] : i \in 1..Len(list)}

NoRepeats(list) == \A i, j \in 1..Len(list) : list[i] = list[j] => i = j

LEMMA SetOfType ==
    ASSUME NEW list \in Seq(Peers)
    PROVE  SetOf(list) \subseteq Peers
BY ElementOfSeq DEF SetOf

\* sort and unique keep the peers of the list, and each of them once.
LEMMA SortedUniqueSet ==
    ASSUME NEW list \in Seq(Peers)
    PROVE  /\ SortedUnique(list) \in Seq(Peers)
           /\ SetOf(SortedUnique(list)) = SetOf(list)
           /\ NoRepeats(SortedUnique(list))
<1> DEFINE S == SetOf(list)
           N == Cardinality(S)
           Below(p) == {q \in S : q <= p}
           Rank(p) == Cardinality(Below(p))
           r == [i \in 1..N |-> CHOOSE p \in S : Rank(p) = i]
<1>1. MaxPeers \in Nat
  BY ClientBoundsAssumption
<1>2. S \subseteq Peers
  BY SetOfType
<1>3. IsFiniteSet(S) /\ N \in Nat
  <2>1. IsFiniteSet(Peers)
    BY <1>1, FS_Interval DEF Peers
  <2> QED
    BY <1>2, <2>1, FS_Subset, FS_CardinalityType
<1>4. SortedUnique(list) = r
  BY DEF SortedUnique, SetOf
<1> HIDE DEF S
<1>5. \A p \in S : p \in Nat
  BY <1>1, <1>2 DEF Peers
<1>6. ASSUME NEW p \in S PROVE IsFiniteSet(Below(p)) /\ Rank(p) \in 1..N
  <2>1. Below(p) \in SUBSET S /\ p \in Below(p)
    BY <1>5
  <2>2. IsFiniteSet(Below(p)) /\ Rank(p) <= N
    BY <1>3, <2>1, FS_Subset
  <2>3. Rank(p) \in Nat /\ Rank(p) # 0
    BY <2>1, <2>2, FS_CardinalityType, FS_EmptySet
  <2> HIDE DEF N, Below
  <2> QED
    BY <1>3, <2>2, <2>3
<1>7. ASSUME NEW p \in S, NEW q \in S, p < q PROVE Rank(p) # Rank(q)
  <2>1. Below(p) \in SUBSET Below(q) /\ q \in Below(q) /\ q \notin Below(p)
    BY <1>5, <1>7
  <2>2. IsFiniteSet(Below(q))
    BY <1>6
  <2> HIDE DEF Below
  <2>3. Cardinality(Below(q)) = Cardinality(Below(p)) => Below(q) = Below(p)
    BY <2>1, <2>2, FS_Subset
  <2> QED
    BY <2>1, <2>3
<1> HIDE DEF Rank, N
<1>8. ASSUME NEW p \in S, NEW q \in S, Rank(p) = Rank(q) PROVE p = q
  <2>1. ~(p < q) /\ ~(q < p)
    BY <1>7, <1>8
  <2> QED
    BY <1>5, <2>1
<1>9. \A i \in 1..N : \E p \in S : Rank(p) = i
  <2> DEFINE f == [p \in S |-> Rank(p)]
  <2>1. f \in [S -> 1..N]
    BY <1>6
  <2>2. f \in Injection(S, 1..N)
    BY <1>8, <2>1 DEF Injection, IsInjective
  <2>3. IsFiniteSet(1..N) /\ Cardinality(1..N) = N
    BY <1>3, FS_Interval
  <2> HIDE DEF f
  <2>4. f \in Surjection(S, 1..N)
    BY <2>2, <2>3, FS_Injection DEF N
  <2> QED
    BY <2>4 DEF Surjection, f
<1>10. \A i \in 1..N : r[i] \in S /\ Rank(r[i]) = i
  BY <1>9
<1>11. Len(r) = N /\ r \in Seq(Peers)
  <2>1. r \in [1..N -> Peers]
    BY <1>2, <1>10
  <2> HIDE DEF r
  <2>2. r \in Seq(Peers)
    BY <1>3, <2>1, SeqDef
  <2>3. DOMAIN r = 1..N /\ DOMAIN r = 1..Len(r) /\ Len(r) \in Nat
    BY <2>1, <2>2, LenProperties
  <2> QED
    BY <1>3, <2>2, <2>3
<1> HIDE DEF r
<1>12. NoRepeats(r)
  BY <1>10, <1>11 DEF NoRepeats
<1>13. \A p \in S : p \in SetOf(r)
  <2> SUFFICES ASSUME NEW p \in S PROVE p \in SetOf(r)
    OBVIOUS
  <2>1. Rank(p) \in 1..N
    BY <1>6
  <2>2. r[Rank(p)] = p
    BY <1>8, <1>10, <2>1
  <2> QED
    BY <1>11, <2>1, <2>2 DEF SetOf
<1>14. \A p \in SetOf(r) : p \in S
  BY <1>10, <1>11 DEF SetOf
<1>15. SetOf(r) = S
  BY <1>13, <1>14
<1> QED
  BY <1>4, <1>11, <1>12, <1>15 DEF S

LEMMA SetOfAppend ==
    ASSUME NEW list \in Seq(Peers), NEW p \in Peers
    PROVE  Append(list, p) \in Seq(Peers) /\ SetOf(Append(list, p)) = SetOf(list) \cup {p}
<1>1. /\ Append(list, p) \in Seq(Peers)
      /\ Len(list) \in Nat /\ Len(Append(list, p)) = Len(list) + 1
      /\ \A i \in 1..Len(list) : Append(list, p)[i] = list[i]
      /\ Append(list, p)[Len(list) + 1] = p
  BY AppendProperties, LenProperties
<1> DEFINE t == Append(list, p)
<1> HIDE DEF t
<1>2. /\ \A i \in 1..Len(t) : i \in 1..Len(list) \/ i = Len(list) + 1
      /\ \A i \in 1..Len(list) : i \in 1..Len(t)
      /\ Len(list) + 1 \in 1..Len(t)
  BY <1>1 DEF t
<1>3. SetOf(t) = SetOf(list) \cup {p}
  BY <1>1, <1>2 DEF SetOf, t
<1> QED
  BY <1>1, <1>3 DEF t

LEMMA SetOfTail ==
    ASSUME NEW list \in Seq(Peers), list # <<>>
    PROVE  /\ Head(list) \in Peers /\ Tail(list) \in Seq(Peers)
           /\ SetOf(list) = {Head(list)} \cup SetOf(Tail(list))
           /\ NoRepeats(list) => NoRepeats(Tail(list)) /\ Head(list) \notin SetOf(Tail(list))
<1> DEFINE t == Tail(list)
<1>1. /\ Len(list) \in Nat /\ Len(list) > 0 /\ Len(t) = Len(list) - 1
      /\ Head(list) = list[1] /\ Head(list) \in Peers /\ t \in Seq(Peers)
  BY HeadTailProperties, EmptySeq, LenProperties
<1>2. \A i \in 1..Len(t) : t[i] = list[i + 1] /\ i + 1 \in 1..Len(list) /\ i + 1 # 1
  BY <1>1, HeadTailProperties
<1>3. \A i \in 1..Len(list) : i = 1 \/ (i - 1 \in 1..Len(t) /\ list[i] = t[i - 1])
  BY <1>1, <1>2
<1>4. 1 \in 1..Len(list)
  BY <1>1
<1> HIDE DEF t
<1>5. SetOf(list) = {Head(list)} \cup SetOf(t)
  <2>1. \A x \in SetOf(list) : x = Head(list) \/ x \in SetOf(t)
    BY <1>1, <1>3 DEF SetOf
  <2>2. \A x \in SetOf(t) : x \in SetOf(list)
    BY <1>2 DEF SetOf
  <2>3. Head(list) \in SetOf(list)
    BY <1>1, <1>4 DEF SetOf
  <2> QED
    BY <2>1, <2>2, <2>3
<1>6. NoRepeats(list) => NoRepeats(t)
  BY <1>1, <1>2 DEF NoRepeats
<1>7. NoRepeats(list) => Head(list) \notin SetOf(t)
  BY <1>1, <1>2, <1>4 DEF NoRepeats, SetOf
<1> QED
  BY <1>1, <1>5, <1>6, <1>7 DEF t

----------------------------------------------------------------------------
\* Types.

NetType ==
    /\ reachable \in BOOLEAN
    /\ remote \in [Peers -> {"up", "fin", "reset", "closed"}]
    /\ in \in [Peers -> Seq(Incoming)]
    /\ wire \in [Peers -> Seq(Piece)]
    /\ waiting \in Nat

ConnType ==
    /\ connected \in [Peers -> BOOLEAN] /\ autoReconnect \in [Peers -> BOOLEAN]
    /\ reconnectAttempt \in [Peers -> 0..AttemptMax]
    /\ due \in [Peers -> Nat \cup {Unset}]
    /\ sendBuffer \in [Peers -> Seq(Piece)]
    /\ receiveQueue \in [Peers -> Seq(Incoming)]

\* Connections the kernel holds for the listening socket have ids left.
ManagerType ==
    /\ m_initialized \in BOOLEAN /\ m_listening \in BOOLEAN
    /\ m_nextPeerID \in 1..(MaxPeers + 1)
    /\ waiting > 0 => m_nextPeerID + waiting <= MaxPeers + 1
    /\ m_connections \subseteq Peers
    /\ m_pendingRemove \in Seq(Peers)

PassType ==
    /\ removing \in Seq(Peers)
    /\ pc \in {"idle", "first", "accept", "io", "remove", "second"}
    /\ todo \subseteq Peers /\ readSet \subseteq Peers
    /\ writeSet \subseteq Peers /\ exceptSet \subseteq Peers

\* A thread in sendPacket has a peer; without Threads none is in it.
CallsType ==
    /\ g_localSteamID \in BOOLEAN
    /\ sending \in [Senders -> Call]
    /\ \A t \in Senders : \/ sending[t] = NotSending
                          \/ Threads /\ sending[t].at # "idle" /\ sending[t].peer \in Peers

AppType ==
    /\ cb \in Peers \cup {NoPeer} /\ greeting \in Peers \cup {NoPeer}
    /\ injection \in {"waiting", "hooked", "named", "done"}
    /\ told \in [Peers -> BOOLEAN]
    /\ sends \in [Peers -> Nat]
    /\ CallsType

HistType ==
    /\ session \in [Peers -> Nat] /\ ups \in [Peers -> Nat] /\ downs \in [Peers -> Nat]
    /\ unscheduled \subseteq Peers

Types == NetType /\ ConnType /\ ManagerType /\ PassType /\ AppType /\ HistType

LEMMA NetTypeKept == NetType /\ UNCHANGED network => NetType'
BY DEF NetType, network

LEMMA ConnTypeKept == ConnType /\ UNCHANGED conn => ConnType'
BY DEF ConnType, conn

LEMMA ManagerTypeKept == ManagerType /\ UNCHANGED <<manager, waiting>> => ManagerType'
BY DEF ManagerType, manager

LEMMA PassTypeKept == PassType /\ UNCHANGED pass => PassType'
BY DEF PassType, pass

LEMMA CallsTypeKept == CallsType /\ UNCHANGED calls => CallsType'
BY DEF CallsType, calls

LEMMA AppTypeKept == AppType /\ UNCHANGED app => AppType'
BY CallsTypeKept DEF AppType, app

\* What a sender's call is while it makes none.
LEMMA IdleCall == NotSending \in Call
BY EmptySeq DEF NotSending, Call, NoPeer

LEMMA HistTypeKept == HistType /\ UNCHANGED history => HistType'
BY DEF HistType, history

LEMMA TypesInit == Init => Types
<1> SUFFICES ASSUME Init PROVE Types
  OBVIOUS
<1>0. MaxPeers \in Nat /\ AttemptMax \in Nat /\ Greets \in BOOLEAN
  BY ClientBoundsAssumption
<1>1. NetType
  BY EmptySeq DEF Init, NetType
<1>2. ConnType
  BY <1>0, EmptySeq DEF Init, ConnType
<1>3. ManagerType
  <2>1. m_initialized = TRUE /\ m_listening = FALSE
    BY DEF Init
  <2>2. m_nextPeerID = 1 /\ waiting = 0 /\ m_connections = {} /\ m_pendingRemove = <<>>
    BY DEF Init
  <2>3. /\ m_nextPeerID \in 1..(MaxPeers + 1)
        /\ waiting > 0 => m_nextPeerID + waiting <= MaxPeers + 1
    BY <1>0, <2>2
  <2>4. m_initialized \in BOOLEAN /\ m_listening \in BOOLEAN
    BY <2>1, Zenon
  <2>5. m_connections \subseteq Peers /\ m_pendingRemove \in Seq(Peers)
    BY <2>2, EmptySeq, Zenon
  <2> QED
    BY <2>3, <2>4, <2>5, Zenon DEF ManagerType
<1>4. PassType
  BY EmptySeq DEF Init, PassType
<1>5. AppType
  <2>1. injection = "waiting" \/ injection = "done"
    BY DEF Init
  <2>2. told = [p \in Peers |-> FALSE] /\ sends = [p \in Peers |-> 0]
        /\ cb = NoPeer /\ greeting = NoPeer
    BY DEF Init
  <2>3. CallsType
    <3>1. g_localSteamID = FALSE /\ sending = [t \in Senders |-> NotSending]
      BY DEF Init
    <3>2. g_localSteamID \in BOOLEAN
      BY <3>1, Zenon
    <3>3. sending \in [Senders -> Call] /\ \A t \in Senders : sending[t] = NotSending
      BY <3>1, IdleCall
    <3> QED
      BY <3>2, <3>3, Zenon DEF CallsType
  <2> QED
    BY <2>1, <2>2, <2>3 DEF AppType
<1>6. HistType
  BY DEF Init, HistType
<1> QED
  BY <1>1, <1>2, <1>3, <1>4, <1>5, <1>6 DEF Types

LEMMA FrameIsPieces ==
    ASSUME HistType, NEW p \in Peers, NEW n \in Nat
    PROVE  /\ Frame(p, n) \in Seq(Piece) /\ Len(Frame(p, n)) = Pieces
           /\ \A i \in 1..Pieces : Frame(p, n)[i].sess = session[p] /\ Frame(p, n)[i].pkt = n
<1>1. Pieces \in Nat \ {0}
  BY ClientBoundsAssumption
<1>2. session[p] \in Nat
  BY DEF HistType
<1>3. Frame(p, n) \in [1..Pieces -> Piece]
  BY <1>1, <1>2 DEF Frame, Piece
<1>4. Frame(p, n) \in Seq(Piece)
  BY <1>1, <1>3, SeqDef
<1>5. DOMAIN Frame(p, n) = 1..Pieces /\ DOMAIN Frame(p, n) = 1..Len(Frame(p, n))
      /\ Len(Frame(p, n)) \in Nat
  BY <1>3, <1>4, LenProperties
<1>6. Len(Frame(p, n)) = Pieces
  BY <1>1, <1>5
<1> QED
  BY <1>4, <1>6 DEF Frame

\* Both halves of a sequence, cut anywhere.
LEMMA Halves ==
    ASSUME NEW S, NEW s \in Seq(S), NEW k \in 0..Len(s)
    PROVE  /\ SubSeq(s, 1, k) \in Seq(S) /\ Len(SubSeq(s, 1, k)) = k
           /\ \A i \in 1..k : SubSeq(s, 1, k)[i] = s[i]
           /\ SubSeq(s, k + 1, Len(s)) \in Seq(S)
           /\ Len(SubSeq(s, k + 1, Len(s))) = Len(s) - k
           /\ \A i \in 1..(Len(s) - k) : SubSeq(s, k + 1, Len(s))[i] = s[k + i]
<1>1. Len(s) \in Nat /\ \A i \in 1..Len(s) : s[i] \in S
  BY LenProperties, ElementOfSeq
<1>2. (\A i \in 1..k : s[i] \in S) /\ (\A i \in (k + 1)..Len(s) : s[i] \in S)
  BY <1>1
<1>3. /\ SubSeq(s, 1, k) \in Seq(S)
      /\ Len(SubSeq(s, 1, k)) = IF 1 <= k THEN k - 1 + 1 ELSE 0
      /\ \A i \in 1..(k - 1 + 1) : SubSeq(s, 1, k)[i] = s[1 + i - 1]
  BY <1>1, <1>2, SubSeqProperties
<1>4. /\ SubSeq(s, k + 1, Len(s)) \in Seq(S)
      /\ Len(SubSeq(s, k + 1, Len(s))) = IF k + 1 <= Len(s) THEN Len(s) - (k + 1) + 1 ELSE 0
      /\ \A i \in 1..(Len(s) - (k + 1) + 1) : SubSeq(s, k + 1, Len(s))[i] = s[k + 1 + i - 1]
  BY <1>1, <1>2, SubSeqProperties
<1> QED
  BY <1>1, <1>3, <1>4

LEMMA ElapseType ==
    ASSUME NEW d \in [Peers -> Nat \cup {Unset}], NEW t \in Nat
    PROVE  /\ Elapse(d, t) \in [Peers -> Nat \cup {Unset}]
           /\ \A p \in Peers : /\ Elapse(d, t)[p] = Unset <=> d[p] = Unset
                               /\ Elapse(d, t)[p] <= d[p]
BY DEF Elapse, Unset

----------------------------------------------------------------------------
\* What the shared operations do to the types.

LEMMA NewSessionType ==
    ASSUME Types, NEW p \in Peers, NewSession(p), UNCHANGED <<reachable, ups, downs>>,
           waiting' \in Nat
    PROVE  NetType' /\ AppType' /\ HistType' /\ connected' \in [Peers -> BOOLEAN]
<1>1. remote' \in [Peers -> {"up", "fin", "reset", "closed"}]
  BY DEF Types, NetType, NewSession
<1>2. in' \in [Peers -> Seq(Incoming)] /\ wire' \in [Peers -> Seq(Piece)]
  BY EmptySeq DEF Types, NetType, NewSession
<1>3. sends' \in [Peers -> Nat] /\ session' \in [Peers -> Nat]
  BY DEF Types, AppType, HistType, NewSession
<1>4. connected' \in [Peers -> BOOLEAN]
  BY DEF Types, ConnType, NewSession
<1>5. cb' \in Peers \cup {NoPeer} /\ unscheduled' \subseteq Peers
  BY DEF Types, HistType, NewSession
<1>6. NetType'
  BY <1>1, <1>2 DEF Types, NetType
<1>7. AppType'
  BY <1>3, <1>5, CallsTypeKept DEF Types, AppType, NewSession
<1>8. HistType'
  BY <1>3, <1>5 DEF Types, HistType
<1> QED
  BY <1>4, <1>6, <1>7, <1>8

LEMMA TakesPart == \A p, n : Takes(p, n) \subseteq 0..Pieces
<1>1. Pieces \in 0..Pieces
  BY ClientBoundsAssumption
<1> QED
  BY <1>1 DEF Takes

LEMMA TransmitType ==
    ASSUME Types, NEW p \in Peers, NEW n \in Nat, Transmit(p, n)
    PROVE  /\ wire' \in [Peers -> Seq(Piece)] /\ sendBuffer' \in [Peers -> Seq(Piece)]
           /\ connected' \in [Peers -> BOOLEAN] /\ m_pendingRemove' \in Seq(Peers)
           /\ sends' \in [Peers -> Nat]
<1>1. CASE SendFails(p)
  <2>1. /\ connected' = [connected EXCEPT ![p] = FALSE]
        /\ m_pendingRemove' = Append(m_pendingRemove, p)
        /\ UNCHANGED <<wire, sendBuffer, sends>>
    BY <1>1 DEF Transmit
  <2>2. connected' \in [Peers -> BOOLEAN]
    BY <2>1 DEF Types, ConnType
  <2>3. m_pendingRemove' \in Seq(Peers)
    BY <2>1, SetOfAppend DEF Types, ManagerType
  <2> QED
    BY <2>1, <2>2, <2>3 DEF Types, NetType, ConnType, AppType
<1>2. CASE ~SendFails(p)
  <2>1. /\ \E k \in 0..Pieces :
            /\ wire' = [wire EXCEPT ![p] = @ \o SubSeq(Frame(p, n), 1, k)]
            /\ sendBuffer' = [sendBuffer EXCEPT ![p] =
                                @ \o SubSeq(Frame(p, n), k + 1, Pieces)]
        /\ sends' = [sends EXCEPT ![p] = IF n = Greeting THEN @ ELSE n]
        /\ UNCHANGED <<connected, m_pendingRemove>>
    BY <1>2, TakesPart DEF Transmit
  <2>2. PICK k \in 0..Pieces :
            /\ wire' = [wire EXCEPT ![p] = @ \o SubSeq(Frame(p, n), 1, k)]
            /\ sendBuffer' = [sendBuffer EXCEPT ![p] =
                                @ \o SubSeq(Frame(p, n), k + 1, Pieces)]
    BY <2>1
  <2> DEFINE f == Frame(p, n)
  <2>3. f \in Seq(Piece) /\ Len(f) = Pieces
    BY FrameIsPieces DEF Types
  <2>4. SubSeq(f, 1, k) \in Seq(Piece) /\ SubSeq(f, k + 1, Pieces) \in Seq(Piece)
    BY <2>3, Halves
  <2> HIDE DEF f
  <2>5. wire[p] \in Seq(Piece) /\ sendBuffer[p] \in Seq(Piece)
    BY DEF Types, NetType, ConnType
  <2> DEFINE w == wire[p] \o SubSeq(f, 1, k)
             b == sendBuffer[p] \o SubSeq(f, k + 1, Pieces)
  <2>6. w \in Seq(Piece) /\ b \in Seq(Piece)
    BY <2>4, <2>5, ConcatProperties
  <2>7. wire' = [wire EXCEPT ![p] = w] /\ sendBuffer' = [sendBuffer EXCEPT ![p] = b]
    BY <2>2 DEF f
  <2> HIDE DEF w, b
  <2>8. wire' \in [Peers -> Seq(Piece)] /\ sendBuffer' \in [Peers -> Seq(Piece)]
    BY <2>6, <2>7 DEF Types, NetType, ConnType
  <2>9. sends' \in [Peers -> Nat]
    BY <2>1 DEF Types, AppType
  <2> QED
    BY <2>1, <2>8, <2>9 DEF Types, ConnType, ManagerType
<1> QED
  BY <1>1, <1>2

\* The call a sender makes, as one step or as the first of three.
LEMMA SendsType ==
    ASSUME Types, NEW t \in Senders, NEW p \in Peers, NEW n \in Nat, Sends(t, p, n),
           UNCHANGED g_localSteamID
    PROVE  /\ wire' \in [Peers -> Seq(Piece)] /\ sendBuffer' \in [Peers -> Seq(Piece)]
           /\ connected' \in [Peers -> BOOLEAN] /\ m_pendingRemove' \in Seq(Peers)
           /\ sends' \in [Peers -> Nat] /\ CallsType'
<1>1. CASE ~Threads
  <2>1. Transmit(p, n) /\ UNCHANGED sending
    BY <1>1 DEF Sends
  <2> QED
    BY <2>1, TransmitType, CallsTypeKept DEF calls, Types, AppType
<1>2. CASE Threads
  <2> DEFINE c == [at |-> "send", peer |-> p, pkt |-> n, rest |-> <<>>]
  <2>1. /\ sending' = [sending EXCEPT ![t] = c]
        /\ sends' = [sends EXCEPT ![p] = IF n = Greeting THEN @ ELSE n]
        /\ UNCHANGED <<connected, m_pendingRemove, wire, sendBuffer>>
    BY <1>2 DEF Sends, SendChecks
  <2>2. c \in Call /\ c.at # "idle" /\ c.peer \in Peers
    BY EmptySeq DEF Call
  <2> HIDE DEF c
  <2>3. CallsType'
    BY <1>2, <2>1, <2>2 DEF Types, AppType, CallsType
  <2>4. sends' \in [Peers -> Nat]
    BY <2>1 DEF Types, AppType
  <2> QED
    BY <2>1, <2>3, <2>4 DEF Types, NetType, ConnType, ManagerType
<1> QED
  BY <1>1, <1>2

LEMMA SendsNothingType ==
    ASSUME Types, SendsNothing, UNCHANGED g_localSteamID
    PROVE  /\ wire' \in [Peers -> Seq(Piece)] /\ sendBuffer' \in [Peers -> Seq(Piece)]
           /\ connected' \in [Peers -> BOOLEAN] /\ m_pendingRemove' \in Seq(Peers)
           /\ sends' \in [Peers -> Nat] /\ CallsType'
<1>1. UNCHANGED calls
  BY DEF SendsNothing, calls
<1> QED
  BY <1>1, CallsTypeKept DEF SendsNothing, Types, NetType, ConnType, ManagerType, AppType

LEMMA DropPeerType ==
    ASSUME Types, NEW p \in Peers, DropPeer(p)
    PROVE  /\ ConnType' /\ HistType' /\ m_connections' \subseteq Peers
           /\ told' \in [Peers -> BOOLEAN]
           /\ remote' \in [Peers -> {"up", "fin", "reset", "closed"}]
<1>0. BaseDelay \in Nat /\ AttemptMax \in Nat
  BY ClientBoundsAssumption
<1>1. connected' \in [Peers -> BOOLEAN] /\ autoReconnect' \in [Peers -> BOOLEAN]
  BY DEF Types, ConnType, DropPeer
<1>2. reconnectAttempt' \in [Peers -> 0..AttemptMax] /\ due' \in [Peers -> Nat \cup {Unset}]
  BY <1>0 DEF Types, ConnType, DropPeer, RescheduleOrErase
<1>3. sendBuffer' \in [Peers -> Seq(Piece)] /\ receiveQueue' \in [Peers -> Seq(Incoming)]
  BY EmptySeq DEF Types, ConnType, DropPeer, ClearBuffers
<1>4. ConnType'
  BY <1>1, <1>2, <1>3, Zenon DEF ConnType
<1>5. HistType'
  BY DEF Types, HistType, DropPeer
<1>6. m_connections' \subseteq Peers
  BY DEF Types, ManagerType, DropPeer, RescheduleOrErase
<1>7. told' \in [Peers -> BOOLEAN]
  BY DEF Types, AppType, DropPeer
<1>8. remote' \in [Peers -> {"up", "fin", "reset", "closed"}]
  BY DEF Types, NetType, DropPeer
<1> QED
  BY <1>4, <1>5, <1>6, <1>7, <1>8

----------------------------------------------------------------------------
\* Every step keeps the types.

LEMMA ReachabilityType ==
    ASSUME Types, Reachability
    PROVE  Types'
<1>1. UNCHANGED <<conn, manager, pass, app, history, waiting>>
  BY DEF Reachability, network, conn, manager, pass, app, history
<1>2. ConnType' /\ ManagerType' /\ PassType' /\ AppType' /\ HistType'
  BY <1>1, ConnTypeKept, ManagerTypeKept, PassTypeKept, AppTypeKept, HistTypeKept DEF Types
<1>3. NetType'
  <2>1. reachable' \in BOOLEAN
    BY DEF Reachability
  <2> QED
    BY <2>1 DEF Types, NetType, Reachability
<1> QED
  BY <1>2, <1>3, Zenon DEF Types

LEMMA RemoteEndsType ==
    ASSUME Types, NEW p \in Peers, RemoteEnds(p)
    PROVE  Types'
<1>1. UNCHANGED <<conn, manager, pass, app, history, waiting>>
  BY DEF RemoteEnds, network, conn, manager, pass, app, history
<1>2. ConnType' /\ ManagerType' /\ PassType' /\ AppType' /\ HistType'
  BY <1>1, ConnTypeKept, ManagerTypeKept, PassTypeKept, AppTypeKept, HistTypeKept DEF Types
<1>3. NetType'
  BY DEF Types, NetType, RemoteEnds
<1> QED
  BY <1>2, <1>3, Zenon DEF Types

LEMMA RemoteSendsType ==
    ASSUME Types, NEW p \in Peers, RemoteSends(p)
    PROVE  Types'
<1>1. UNCHANGED <<conn, manager, pass, app, history, waiting>>
  BY DEF RemoteSends, network, conn, manager, pass, app, history
<1>2. ConnType' /\ ManagerType' /\ PassType' /\ AppType' /\ HistType'
  BY <1>1, ConnTypeKept, ManagerTypeKept, PassTypeKept, AppTypeKept, HistTypeKept DEF Types
<1>3. NetType'
  <2>1. PICK n \in PacketSizes :
               in' = [in EXCEPT ![p] = Append(@, [sess |-> session[p], size |-> n])]
    BY DEF RemoteSends
  <2>2. [sess |-> session[p], size |-> n] \in Incoming
    BY DEF Types, HistType, Incoming
  <2>3. Append(in[p], [sess |-> session[p], size |-> n]) \in Seq(Incoming)
    BY <2>2, AppendProperties DEF Types, NetType
  <2>4. in' \in [Peers -> Seq(Incoming)]
    BY <2>1, <2>3 DEF Types, NetType
  <2> QED
    BY <2>4 DEF Types, NetType, RemoteSends
<1> QED
  BY <1>2, <1>3, Zenon DEF Types

LEMMA RemoteConnectsType ==
    ASSUME Types, RemoteConnects
    PROVE  Types'
<1>1. UNCHANGED <<conn, pass, app, history>>
  BY DEF RemoteConnects, network, conn, manager, pass, app, history
<1>2. ConnType' /\ PassType' /\ AppType' /\ HistType'
  BY <1>1, ConnTypeKept, PassTypeKept, AppTypeKept, HistTypeKept DEF Types
<1>3. NetType'
  BY DEF Types, NetType, RemoteConnects
<1>4. ManagerType'
  <2>0. MaxPeers \in Nat
    BY ClientBoundsAssumption
  <2>1. m_nextPeerID + waiting <= MaxPeers /\ waiting' = waiting + 1 /\ UNCHANGED manager
    BY DEF RemoteConnects
  <2>2. m_nextPeerID' + waiting' <= MaxPeers + 1
    BY <2>0, <2>1 DEF Types, NetType, ManagerType, manager
  <2> QED
    BY <2>1, <2>2 DEF Types, ManagerType, manager
<1> QED
  BY <1>2, <1>3, <1>4, Zenon DEF Types

LEMMA TickType ==
    ASSUME Types, Tick
    PROVE  Types'
<1>1. UNCHANGED <<network, manager, pass, app, history>>
  BY DEF Tick, network, conn, manager, pass, app, history
<1>2. NetType' /\ ManagerType' /\ PassType' /\ AppType' /\ HistType'
  BY <1>1, NetTypeKept, ManagerTypeKept, PassTypeKept, AppTypeKept, HistTypeKept DEF Types, network
<1>3. ConnType'
  <2>1. due' \in [Peers -> Nat \cup {Unset}]
    BY ElapseType DEF Types, ConnType, Tick
  <2> QED
    BY <2>1 DEF Types, ConnType, Tick
<1> QED
  BY <1>2, <1>3, Zenon DEF Types

LEMMA AddPeerType ==
    ASSUME Types, AddPeer(m_nextPeerID), m_nextPeerID \in Peers,
           waiting' \in Nat, waiting' > 0 => m_nextPeerID + 1 + waiting' <= MaxPeers + 1,
           UNCHANGED <<reachable, autoReconnect, reconnectAttempt, due, sendBuffer,
                       receiveQueue, m_initialized, m_listening, m_pendingRemove, pass,
                       ups, downs>>
    PROVE  Types'
<1>0. MaxPeers \in Nat
  BY ClientBoundsAssumption
<1>1. NewSession(m_nextPeerID) /\ m_nextPeerID' = m_nextPeerID + 1
      /\ m_connections' = m_connections \cup {m_nextPeerID}
  BY DEF AddPeer
<1>2. NetType' /\ AppType' /\ HistType' /\ connected' \in [Peers -> BOOLEAN]
  BY <1>1, NewSessionType
<1>3. ConnType'
  BY <1>2 DEF Types, ConnType
<1>4. m_nextPeerID' \in 1..(MaxPeers + 1)
      /\ (waiting' > 0 => m_nextPeerID' + waiting' <= MaxPeers + 1)
  <2>1. m_nextPeerID \in 1..MaxPeers /\ m_nextPeerID' = m_nextPeerID + 1
    BY <1>1 DEF Peers
  <2>2. m_nextPeerID' \in 1..(MaxPeers + 1)
    BY <1>0, <2>1
  <2>3. waiting' > 0 => m_nextPeerID' + waiting' <= MaxPeers + 1
    BY <2>1
  <2> QED
    BY <2>2, <2>3
<1>5. ManagerType'
  BY <1>1, <1>4 DEF Types, ManagerType
<1>6. PassType'
  BY PassTypeKept DEF Types
<1> QED
  BY <1>2, <1>3, <1>5, <1>6, Zenon DEF Types

LEMMA ConnectType ==
    ASSUME Types, Connect
    PROVE  Types'
<1>0. MaxPeers \in Nat
  BY ClientBoundsAssumption
<1>1. /\ m_nextPeerID \in Peers /\ waiting' \in Nat
      /\ waiting' > 0 => m_nextPeerID + 1 + waiting' <= MaxPeers + 1
  BY <1>0 DEF Types, NetType, ManagerType, Connect, Peers
<1> QED
  BY <1>1, AddPeerType DEF Connect

LEMMA AcceptNewConnectionType ==
    ASSUME Types, AcceptNewConnection
    PROVE  Types'
<1>0. MaxPeers \in Nat
  BY ClientBoundsAssumption
<1>1. /\ m_nextPeerID \in Peers /\ waiting' \in Nat
      /\ waiting' > 0 => m_nextPeerID + 1 + waiting' <= MaxPeers + 1
  BY <1>0 DEF Types, NetType, ManagerType, AcceptNewConnection, Peers
<1> QED
  BY <1>1, AddPeerType DEF AcceptNewConnection

LEMMA SetAutoReconnectType ==
    ASSUME Types, NEW p \in Peers, SetAutoReconnect(p)
    PROVE  Types'
<1>1. UNCHANGED <<network, manager, pass, app>>
  BY DEF SetAutoReconnect, network, conn, manager, pass, app, history
<1>2. NetType' /\ ManagerType' /\ PassType' /\ AppType'
  BY <1>1, NetTypeKept, ManagerTypeKept, PassTypeKept, AppTypeKept DEF Types, network
<1>3. ConnType'
  <2>0. AttemptMax \in Nat
    BY ClientBoundsAssumption
  <2>1. autoReconnect' \in [Peers -> BOOLEAN]
    BY DEF Types, ConnType, SetAutoReconnect
  <2> QED
    BY <2>0, <2>1 DEF Types, ConnType, SetAutoReconnect
<1>4. HistType'
  BY DEF Types, HistType, SetAutoReconnect
<1> QED
  BY <1>2, <1>3, <1>4, Zenon DEF Types

LEMMA DisconnectType ==
    ASSUME Types, NEW p \in Peers, Disconnect(p)
    PROVE  Types'
<1>1. PassType'
  BY PassTypeKept DEF Disconnect, Types
<1>2. NetType'
  BY DropPeerType DEF Types, NetType, Disconnect
<1>3. ConnType'
  BY DropPeerType DEF Disconnect
<1>4. ManagerType'
  BY DropPeerType DEF Types, ManagerType, Disconnect
<1>5. AppType'
  BY DropPeerType, CallsTypeKept DEF Types, AppType, Disconnect
<1>6. HistType'
  BY DropPeerType DEF Disconnect
<1> QED
  BY <1>1, <1>2, <1>3, <1>4, <1>5, <1>6, Zenon DEF Types

LEMMA SendPacketType ==
    ASSUME Types, NEW p \in Peers, SendPacket(p)
    PROVE  Types'
<1>1. UNCHANGED <<pass, history>>
  BY DEF SendPacket
<1>2. PassType' /\ HistType'
  BY <1>1, PassTypeKept, HistTypeKept DEF Types
<1>3. /\ wire' \in [Peers -> Seq(Piece)] /\ sendBuffer' \in [Peers -> Seq(Piece)]
      /\ connected' \in [Peers -> BOOLEAN] /\ m_pendingRemove' \in Seq(Peers)
      /\ sends' \in [Peers -> Nat] /\ CallsType'
  <2>1. sends[p] + 1 \in Nat
    BY DEF Types, AppType
  <2> QED
    BY <2>1, SendsType DEF SendPacket, Senders
<1>4. NetType'
  BY <1>3 DEF Types, NetType, SendPacket
<1>5. ConnType'
  BY <1>3 DEF Types, ConnType, SendPacket
<1>6. ManagerType'
  BY <1>3 DEF Types, ManagerType, SendPacket
<1>7. AppType'
  BY <1>3 DEF Types, AppType, SendPacket
<1> QED
  BY <1>2, <1>4, <1>5, <1>6, <1>7, Zenon DEF Types

LEMMA CallbackGreetsType ==
    ASSUME Types, CallbackGreets
    PROVE  Types'
<1>1. UNCHANGED <<pass, history>>
  BY DEF CallbackGreets
<1>2. PassType' /\ HistType'
  BY <1>1, PassTypeKept, HistTypeKept DEF Types
<1>3. /\ wire' \in [Peers -> Seq(Piece)] /\ sendBuffer' \in [Peers -> Seq(Piece)]
      /\ connected' \in [Peers -> BOOLEAN] /\ m_pendingRemove' \in Seq(Peers)
      /\ sends' \in [Peers -> Nat] /\ CallsType'
  <2>1. greeting \in Peers /\ UNCHANGED g_localSteamID
    BY DEF Types, AppType, CallbackGreets
  <2>2. Sends("callback", greeting, Greeting) \/ SendsNothing
    BY DEF CallbackGreets
  <2>3. CASE Sends("callback", greeting, Greeting)
    BY <2>1, <2>3, SendsType DEF Greeting, Senders
  <2>4. CASE SendsNothing
    BY <2>1, <2>4, SendsNothingType
  <2> QED
    BY <2>2, <2>3, <2>4
<1>4. NetType'
  BY <1>3 DEF Types, NetType, CallbackGreets
<1>5. ConnType'
  BY <1>3 DEF Types, ConnType, CallbackGreets
<1>6. ManagerType'
  BY <1>3 DEF Types, ManagerType, CallbackGreets
<1>7. AppType'
  BY <1>3 DEF Types, AppType, CallbackGreets
<1> QED
  BY <1>2, <1>4, <1>5, <1>6, <1>7, Zenon DEF Types

LEMMA InjectionRegistersType ==
    ASSUME Types, InjectionRegisters
    PROVE  Types'
<1>1. UNCHANGED <<pass, history>>
  BY DEF InjectionRegisters
<1>2. PassType' /\ HistType'
  BY <1>1, PassTypeKept, HistTypeKept DEF Types
<1>3. /\ wire' \in [Peers -> Seq(Piece)] /\ sendBuffer' \in [Peers -> Seq(Piece)]
      /\ connected' \in [Peers -> BOOLEAN] /\ m_pendingRemove' \in Seq(Peers)
      /\ sends' \in [Peers -> Nat] /\ CallsType'
  <2>0. UNCHANGED g_localSteamID
    BY DEF InjectionRegisters
  <2>1. (\E p \in m_connections : Sends("injection", p, Greeting)) \/ SendsNothing
    BY DEF InjectionRegisters
  <2>2. CASE \E p \in m_connections : Sends("injection", p, Greeting)
    BY <2>0, <2>2, SendsType DEF Types, ManagerType, Greeting, Senders
  <2>3. CASE SendsNothing
    BY <2>0, <2>3, SendsNothingType
  <2> QED
    BY <2>1, <2>2, <2>3
<1>4. NetType'
  BY <1>3 DEF Types, NetType, InjectionRegisters
<1>5. ConnType'
  BY <1>3 DEF Types, ConnType, InjectionRegisters
<1>6. ManagerType'
  BY <1>3 DEF Types, ManagerType, InjectionRegisters
<1>7. AppType'
  BY <1>3 DEF Types, AppType, InjectionRegisters
<1> QED
  BY <1>2, <1>4, <1>5, <1>6, <1>7, Zenon DEF Types

LEMMA ReadPacketType ==
    ASSUME Types, NEW p \in Peers, ReadPacket(p)
    PROVE  Types'
<1>1. UNCHANGED <<network, manager, pass, app, history>>
  BY DEF ReadPacket, network, conn, manager, pass, app, history
<1>2. NetType' /\ ManagerType' /\ PassType' /\ AppType' /\ HistType'
  BY <1>1, NetTypeKept, ManagerTypeKept, PassTypeKept, AppTypeKept, HistTypeKept DEF Types, network
<1>3. ConnType'
  <2>1. Tail(receiveQueue[p]) \in Seq(Incoming)
    BY HeadTailProperties DEF Types, ConnType, ReadPacket
  <2>2. receiveQueue' \in [Peers -> Seq(Incoming)]
    BY <2>1 DEF Types, ConnType, ReadPacket
  <2> QED
    BY <2>2 DEF Types, ConnType, ReadPacket
<1> QED
  BY <1>2, <1>3, Zenon DEF Types

LEMMA ListenType ==
    ASSUME Types, Listen
    PROVE  Types'
<1>1. UNCHANGED <<conn, pass, app, history>>
  BY DEF Listen, network, conn, manager, pass, app, history
<1>2. ConnType' /\ PassType' /\ AppType' /\ HistType'
  BY <1>1, ConnTypeKept, PassTypeKept, AppTypeKept, HistTypeKept DEF Types
<1>3. NetType'
  BY DEF Types, NetType, Listen
<1>4. ManagerType'
  <2>1. m_listening' \in BOOLEAN
    <3>1. m_listening' = TRUE
      BY DEF Listen
    <3> QED
      BY <3>1, Zenon
  <2> QED
    BY <2>1 DEF Types, ManagerType, Listen
<1> QED
  BY <1>2, <1>3, <1>4, Zenon DEF Types

LEMMA StopListenType ==
    ASSUME Types, StopListen
    PROVE  Types'
<1>1. UNCHANGED <<conn, pass, app, history>>
  BY DEF StopListen, network, conn, manager, pass, app, history
<1>2. ConnType' /\ PassType' /\ AppType' /\ HistType'
  BY <1>1, ConnTypeKept, PassTypeKept, AppTypeKept, HistTypeKept DEF Types
<1>3. NetType'
  BY DEF Types, NetType, StopListen
<1>4. ManagerType'
  <2>1. m_listening' \in BOOLEAN
    <3>1. m_listening' = FALSE
      BY DEF StopListen
    <3> QED
      BY <3>1, Zenon
  <2> QED
    BY <2>1 DEF Types, ManagerType, StopListen
<1> QED
  BY <1>2, <1>3, <1>4, Zenon DEF Types

LEMMA ForgetAllType ==
    ASSUME Types, ForgetAll
    PROVE  Types'
<1>0. AttemptMax \in Nat
  BY ClientBoundsAssumption
<1>1. UNCHANGED pass
  BY DEF ForgetAll
<1>2. PassType'
  BY <1>1, PassTypeKept DEF Types
<1>3. NetType'
  BY DEF Types, NetType, ForgetAll
<1>4. ConnType'
  BY <1>0, EmptySeq DEF ConnType, ForgetAll
<1>5. ManagerType'
  <2>1. m_initialized' = FALSE /\ m_listening' = FALSE
    BY DEF ForgetAll
  <2>2. m_initialized' \in BOOLEAN /\ m_listening' \in BOOLEAN
    BY <2>1, Zenon
  <2>3. m_nextPeerID' = m_nextPeerID /\ waiting' = 0 /\ m_connections' = {}
        /\ m_pendingRemove' \in Seq(Peers)
    BY EmptySeq DEF ForgetAll
  <2>4. waiting' > 0 => m_nextPeerID' + waiting' <= MaxPeers + 1
    BY <2>3
  <2> QED
    BY <2>2, <2>3, <2>4 DEF Types, ManagerType
<1>6. AppType'
  BY CallsTypeKept DEF Types, AppType, ForgetAll
<1>7. HistType'
  BY DEF Types, HistType, ForgetAll
<1> QED
  BY <1>2, <1>3, <1>4, <1>5, <1>6, <1>7, Zenon DEF Types

LEMMA InitializeType ==
    ASSUME Types, Initialize
    PROVE  Types'
<1>1. UNCHANGED <<network, conn, pass, app, history>>
  BY DEF Initialize, network, conn, manager, pass, app, history
<1>2. NetType' /\ ConnType' /\ PassType' /\ AppType' /\ HistType'
  BY <1>1, NetTypeKept, ConnTypeKept, PassTypeKept, AppTypeKept, HistTypeKept DEF Types
<1>3. ManagerType'
  <2>1. m_initialized' \in BOOLEAN
    <3>1. m_initialized' = TRUE
      BY DEF Initialize
    <3> QED
      BY <3>1, Zenon
  <2> QED
    BY <2>1 DEF Types, ManagerType, Initialize, network
<1> QED
  BY <1>2, <1>3, Zenon DEF Types

LEMMA CallbackStoresType ==
    ASSUME Types, CallbackStores
    PROVE  Types'
<1>1. UNCHANGED <<network, conn, manager, pass>>
  BY DEF CallbackStores, network, conn, manager, pass, app, history
<1>2. NetType' /\ ConnType' /\ ManagerType' /\ PassType'
  BY <1>1, NetTypeKept, ConnTypeKept, ManagerTypeKept, PassTypeKept DEF Types, network
<1>3. AppType'
  <2>1. cb \in Peers
    BY DEF Types, AppType, CallbackStores
  <2>2. told' \in [Peers -> BOOLEAN]
    BY <2>1 DEF Types, AppType, CallbackStores
  <2> QED
    BY <2>1, <2>2, CallsTypeKept DEF Types, AppType, CallbackStores
<1>4. HistType'
  <2>1. cb \in Peers
    BY DEF Types, AppType, CallbackStores
  <2> QED
    BY <2>1 DEF Types, HistType, CallbackStores
<1> QED
  BY <1>2, <1>3, <1>4, Zenon DEF Types

LEMMA HookVTableType ==
    ASSUME Types, HookVTable
    PROVE  Types'
<1>1. UNCHANGED <<network, conn, manager, pass, history>>
  BY DEF HookVTable, network, conn, manager, pass, app, history
<1>2. NetType' /\ ConnType' /\ ManagerType' /\ PassType' /\ HistType'
  BY <1>1, NetTypeKept, ConnTypeKept, ManagerTypeKept, PassTypeKept, HistTypeKept DEF Types, network
<1>3. AppType'
  BY CallsTypeKept DEF Types, AppType, HookVTable
<1> QED
  BY <1>2, <1>3, Zenon DEF Types

LEMMA GetLocalSteamIDType ==
    ASSUME Types, GetLocalSteamID
    PROVE  Types'
<1>1. UNCHANGED <<network, conn, manager, pass, history>>
  BY DEF GetLocalSteamID, network, conn, manager, pass, app, history
<1>2. NetType' /\ ConnType' /\ ManagerType' /\ PassType' /\ HistType'
  BY <1>1, NetTypeKept, ConnTypeKept, ManagerTypeKept, PassTypeKept, HistTypeKept DEF Types, network
<1>3. AppType'
  <2>1. CallsType'
    <3>1. PICK found \in BOOLEAN : g_localSteamID' = found
      BY DEF GetLocalSteamID
    <3>2. g_localSteamID' \in BOOLEAN
      BY <3>1, Zenon
    <3> QED
      BY <3>2 DEF Types, AppType, CallsType, GetLocalSteamID
  <2> QED
    BY <2>1 DEF Types, AppType, GetLocalSteamID
<1> QED
  BY <1>2, <1>3, Zenon DEF Types

LEMMA SendTriesType ==
    ASSUME Types, NEW t \in Senders, SendTries(t)
    PROVE  Types'
<1> DEFINE p == sending[t].peer
           n == sending[t].pkt
<1>1. UNCHANGED <<conn, manager, pass, history, waiting>>
  BY DEF SendTries
<1>2. ConnType' /\ ManagerType' /\ PassType' /\ HistType'
  BY <1>1, ConnTypeKept, ManagerTypeKept, PassTypeKept, HistTypeKept DEF Types
<1>3. sending \in [Senders -> Call] /\ sending[t].at = "send" /\ sending[t] \in Call
  BY DEF Types, AppType, CallsType, SendTries
<1>4. p \in Peers /\ n \in Nat /\ Threads
  BY <1>3 DEF Types, AppType, CallsType, Call, NotSending
<1>5. wire' \in [Peers -> Seq(Piece)] /\ CallsType'
  <2>1. CASE SendFails(p)
    <3> DEFINE c == [sending[t] EXCEPT !.at = "fail"]
    <3>1. sending' = [sending EXCEPT ![t] = c] /\ UNCHANGED <<wire, g_localSteamID>>
      BY <2>1 DEF SendTries
    <3>2. c \in Call /\ c.at # "idle" /\ c.peer \in Peers
      BY <1>3, <1>4 DEF Call
    <3> HIDE DEF c
    <3>3. CallsType'
      BY <1>3, <1>4, <3>1, <3>2 DEF Types, AppType, CallsType
    <3> QED
      BY <3>1, <3>3 DEF Types, NetType
  <2>2. CASE ~SendFails(p)
    <3>1. PICK k \in 0..Pieces :
            /\ wire' = [wire EXCEPT ![p] = @ \o SubSeq(Frame(p, n), 1, k)]
            /\ sending' = [sending EXCEPT ![t] =
                 IF k = Pieces THEN NotSending
                 ELSE [@ EXCEPT !.at = "store",
                                !.rest = SubSeq(Frame(p, n), k + 1, Pieces)]]
      BY <2>2, TakesPart DEF SendTries
    <3> DEFINE f == Frame(p, n)
    <3>2. f \in Seq(Piece) /\ Len(f) = Pieces
      BY <1>4, FrameIsPieces DEF Types
    <3>3. SubSeq(f, 1, k) \in Seq(Piece) /\ SubSeq(f, k + 1, Pieces) \in Seq(Piece)
      BY <3>2, Halves
    <3> HIDE DEF f
    <3> DEFINE w == wire[p] \o SubSeq(f, 1, k)
               rest == SubSeq(f, k + 1, Pieces)
               c == IF k = Pieces THEN NotSending
                    ELSE [sending[t] EXCEPT !.at = "store", !.rest = rest]
    <3>4. wire[p] \in Seq(Piece)
      BY <1>4 DEF Types, NetType
    <3>5. w \in Seq(Piece)
      BY <3>3, <3>4, ConcatProperties
    <3>6. wire' = [wire EXCEPT ![p] = w] /\ sending' = [sending EXCEPT ![t] = c]
      BY <3>1, <1>3 DEF f
    <3>7. rest \in Seq(Piece)
      BY <3>3
    <3> HIDE DEF w, rest
    <3>8. wire' \in [Peers -> Seq(Piece)]
      BY <1>4, <3>5, <3>6 DEF Types, NetType
    <3>9. c \in Call /\ (c = NotSending \/ (c.at # "idle" /\ c.peer \in Peers))
      BY <1>3, <1>4, <3>7, IdleCall DEF Call
    <3> HIDE DEF c
    <3>10. UNCHANGED g_localSteamID
      BY DEF SendTries
    <3>11. CallsType'
      BY <1>3, <1>4, <3>6, <3>9, <3>10 DEF Types, AppType, CallsType
    <3> QED
      BY <3>8, <3>11
  <2> QED
    BY <2>1, <2>2
<1>6. NetType'
  BY <1>5 DEF Types, NetType, SendTries
<1>7. AppType'
  BY <1>5 DEF Types, AppType, SendTries
<1> QED
  BY <1>2, <1>6, <1>7, Zenon DEF Types

LEMMA SendStoresType ==
    ASSUME Types, NEW t \in Senders, SendStores(t)
    PROVE  Types'
<1> DEFINE p == sending[t].peer
<1>1. UNCHANGED <<network, pass, history>>
  BY DEF SendStores
<1>2. NetType' /\ PassType' /\ HistType'
  BY <1>1, NetTypeKept, PassTypeKept, HistTypeKept DEF Types
<1>3. /\ sending[t] \in Call /\ sending[t].at # "idle"
      /\ sending' = [sending EXCEPT ![t] = NotSending] /\ UNCHANGED g_localSteamID
  BY DEF Types, AppType, CallsType, SendStores
<1>4. p \in Peers /\ sending[t].rest \in Seq(Piece)
  BY <1>3 DEF Types, AppType, CallsType, Call, NotSending
<1>5. CallsType'
  BY <1>3, IdleCall DEF Types, AppType, CallsType
<1>6. /\ sendBuffer' \in [Peers -> Seq(Piece)]
      /\ connected' \in [Peers -> BOOLEAN] /\ m_pendingRemove' \in Seq(Peers)
  <2>1. CASE sending[t].at = "store"
    <3>1. sendBuffer' = [sendBuffer EXCEPT ![p] = @ \o sending[t].rest]
          /\ UNCHANGED <<connected, m_pendingRemove>>
      BY <2>1 DEF SendStores
    <3> DEFINE b == sendBuffer[p] \o sending[t].rest
    <3>2. sendBuffer[p] \in Seq(Piece)
      BY <1>4 DEF Types, ConnType
    <3>3. b \in Seq(Piece)
      BY <1>4, <3>2, ConcatProperties
    <3>4. sendBuffer' = [sendBuffer EXCEPT ![p] = b]
      BY <3>1
    <3> HIDE DEF b
    <3>5. sendBuffer' \in [Peers -> Seq(Piece)]
      BY <1>4, <3>3, <3>4 DEF Types, ConnType
    <3> QED
      BY <3>1, <3>5 DEF Types, ConnType, ManagerType
  <2>2. CASE sending[t].at = "fail"
    <3>1. /\ connected' = [connected EXCEPT ![p] = FALSE]
          /\ m_pendingRemove' = Append(m_pendingRemove, p) /\ UNCHANGED sendBuffer
      BY <2>2 DEF SendStores
    <3>2. m_pendingRemove' \in Seq(Peers)
      BY <1>4, <3>1, SetOfAppend DEF Types, ManagerType
    <3>3. connected' \in [Peers -> BOOLEAN] /\ sendBuffer' \in [Peers -> Seq(Piece)]
      BY <3>1 DEF Types, ConnType
    <3> QED
      BY <3>2, <3>3
  <2> QED
    BY <2>1, <2>2 DEF SendStores
<1>7. ConnType'
  BY <1>6 DEF Types, ConnType, SendStores
<1>8. ManagerType'
  BY <1>1, <1>6 DEF Types, ManagerType, SendStores, network
<1>9. AppType'
  BY <1>5 DEF Types, AppType, SendStores
<1> QED
  BY <1>2, <1>7, <1>8, <1>9, Zenon DEF Types

LEMMA ContinuesType ==
    ASSUME Types, NEW t \in Senders, Continues(t)
    PROVE  Types'
BY SendTriesType, SendStoresType DEF Continues

LEMMA ProcessEventsType ==
    ASSUME Types, ProcessEvents
    PROVE  Types'
<1>1. UNCHANGED <<network, conn, manager, app, history>>
  BY DEF ProcessEvents, network, conn, manager, pass, app, history
<1>2. NetType' /\ ConnType' /\ ManagerType' /\ AppType' /\ HistType'
  BY <1>1, NetTypeKept, ConnTypeKept, ManagerTypeKept, AppTypeKept, HistTypeKept DEF Types, network
<1>3. PassType'
  BY DEF Types, PassType, ManagerType, ProcessEvents, DuePeers
<1> QED
  BY <1>2, <1>3, Zenon DEF Types

LEMMA FirstDoneType ==
    ASSUME Types, FirstDone
    PROVE  Types'
<1>1. UNCHANGED <<network, conn, manager, app, history>>
  BY DEF FirstDone, network, conn, manager, pass, app, history
<1>2. NetType' /\ ConnType' /\ ManagerType' /\ AppType' /\ HistType'
  BY <1>1, NetTypeKept, ConnTypeKept, ManagerTypeKept, AppTypeKept, HistTypeKept DEF Types, network
<1>3. PassType'
  BY DEF Types, PassType, FirstDone
<1> QED
  BY <1>2, <1>3, Zenon DEF Types

LEMMA PassDoneType ==
    ASSUME Types, PassDone
    PROVE  Types'
<1>1. UNCHANGED <<network, conn, manager, app, history>>
  BY DEF PassDone, network, conn, manager, pass, app, history
<1>2. NetType' /\ ConnType' /\ ManagerType' /\ AppType' /\ HistType'
  BY <1>1, NetTypeKept, ConnTypeKept, ManagerTypeKept, AppTypeKept, HistTypeKept DEF Types, network
<1>3. PassType'
  BY DEF Types, PassType, PassDone
<1> QED
  BY <1>2, <1>3, Zenon DEF Types

LEMMA SelectType ==
    ASSUME Types, Select
    PROVE  Types'
<1>1. UNCHANGED <<network, conn, manager, app, history>>
  BY DEF Select, network, conn, manager, pass, app, history
<1>2. NetType' /\ ConnType' /\ ManagerType' /\ AppType' /\ HistType'
  BY <1>1, NetTypeKept, ConnTypeKept, ManagerTypeKept, AppTypeKept, HistTypeKept DEF Types, network
<1>3. PassType'
  <2>1. Selectable \subseteq Peers
    BY DEF Types, ManagerType, Selectable
  <2>2. readSet' \subseteq Selectable /\ writeSet' \subseteq Selectable
        /\ exceptSet' \subseteq Selectable
    BY DEF Select
  <2>3. todo' = readSet' \cup writeSet' \cup exceptSet' /\ pc' = "io" /\ removing' = removing
    BY DEF Select
  <2> QED
    BY <2>1, <2>2, <2>3 DEF Types, PassType
<1> QED
  BY <1>2, <1>3, Zenon DEF Types

LEMMA StartRemovingType ==
    ASSUME Types, StartRemoving
    PROVE  Types'
<1>1. UNCHANGED <<network, conn, manager, app, history>>
  BY DEF StartRemoving, network, conn, manager, pass, app, history
<1>2. NetType' /\ ConnType' /\ ManagerType' /\ AppType' /\ HistType'
  BY <1>1, NetTypeKept, ConnTypeKept, ManagerTypeKept, AppTypeKept, HistTypeKept DEF Types, network
<1>3. PassType'
  <2>1. removing' \in Seq(Peers)
    BY SortedUniqueSet DEF Types, ManagerType, StartRemoving
  <2> QED
    BY <2>1 DEF Types, PassType, StartRemoving
<1> QED
  BY <1>2, <1>3, Zenon DEF Types

LEMMA RemovingDoneType ==
    ASSUME Types, RemovingDone
    PROVE  Types'
<1>1. UNCHANGED <<network, conn, app, history>>
  BY DEF RemovingDone, network, conn, manager, pass, app, history
<1>2. NetType' /\ ConnType' /\ AppType' /\ HistType'
  BY <1>1, NetTypeKept, ConnTypeKept, AppTypeKept, HistTypeKept DEF Types
<1>3. ManagerType'
  <2>1. m_pendingRemove' \in Seq(Peers)
    BY EmptySeq DEF RemovingDone, ClearedMarks
  <2> QED
    BY <2>1 DEF Types, ManagerType, RemovingDone, network
<1>4. PassType'
  BY DEF Types, PassType, ManagerType, RemovingDone, DuePeers
<1> QED
  BY <1>2, <1>3, <1>4, Zenon DEF Types

LEMMA ReconnectSucceedsType ==
    ASSUME Types, NEW p \in Peers, ReconnectSucceeds(p)
    PROVE  Types'
<1>1. UNCHANGED <<manager, waiting>>
  BY DEF ReconnectSucceeds, Reconnecting, network, conn, manager, pass, app, history
<1>2. ManagerType'
  BY <1>1, ManagerTypeKept DEF Types
<1>3. NetType'
  BY NewSessionType DEF Types, NetType, ReconnectSucceeds, Reconnecting
<1>4. ConnType'
  <2>0. AttemptMax \in Nat
    BY ClientBoundsAssumption
  <2>1. connected' \in [Peers -> BOOLEAN]
    BY NewSessionType DEF Types, NetType, ReconnectSucceeds, Reconnecting
  <2>2. /\ reconnectAttempt' = [reconnectAttempt EXCEPT ![p] = 0]
        /\ due' = [due EXCEPT ![p] = Unset]
        /\ UNCHANGED <<autoReconnect, sendBuffer, receiveQueue>>
    BY DEF ReconnectSucceeds, Reconnecting
  <2> HIDE DEF ReconnectSucceeds
  <2> QED
    BY <2>0, <2>1, <2>2 DEF Types, ConnType
<1>5. AppType'
  BY NewSessionType DEF Types, NetType, ReconnectSucceeds, Reconnecting
<1>6. HistType'
  BY NewSessionType DEF Types, NetType, ReconnectSucceeds, Reconnecting
<1>7. PassType'
  BY DEF Types, PassType, ReconnectSucceeds, Reconnecting
<1> QED
  BY <1>2, <1>3, <1>4, <1>5, <1>6, <1>7, Zenon DEF Types

LEMMA FailedAttempt ==
    ASSUME Types, NEW p \in Peers, ReconnectFails(p)
    PROVE  \E d \in [Peers -> Nat \cup {Unset}], t \in Nat :
             /\ d = [due EXCEPT ![p] = RetryDelay(reconnectAttempt[p])]
             /\ d[p] \in Nat /\ (BaseDelay <= MaxDelay => d[p] <= MaxDelay)
             /\ due' = Elapse(d, t)
<1> DEFINE d == [due EXCEPT ![p] = RetryDelay(reconnectAttempt[p])]
<1>0. ConnectTicks \in Nat /\ AttemptMax \in Nat
  BY ClientBoundsAssumption
<1>1. reconnectAttempt[p] \in Nat
  BY <1>0 DEF Types, ConnType
<1>2. RetryDelay(reconnectAttempt[p]) \in Nat
      /\ (BaseDelay <= MaxDelay => RetryDelay(reconnectAttempt[p]) <= MaxDelay)
  BY <1>1, DelayType
<1>3. d \in [Peers -> Nat \cup {Unset}] /\ d[p] = RetryDelay(reconnectAttempt[p])
  BY <1>2 DEF Types, ConnType
<1>4. \E t \in 0..ConnectTicks : due' = Elapse(d, t)
  BY DEF ReconnectFails
<1>5. PICK t \in 0..ConnectTicks : due' = Elapse(d, t)
  BY <1>4
<1>6. t \in Nat
  BY <1>0
<1>7. d = [due EXCEPT ![p] = RetryDelay(reconnectAttempt[p])]
  OBVIOUS
<1> HIDE DEF d
<1> QED
  BY <1>2, <1>3, <1>5, <1>6, <1>7

LEMMA ReconnectFailsType ==
    ASSUME Types, NEW p \in Peers, ReconnectFails(p)
    PROVE  Types'
<1>1. UNCHANGED <<network, manager, app, history>>
  BY DEF ReconnectFails, Reconnecting, network, conn, manager, pass, app, history
<1>2. NetType' /\ ManagerType' /\ AppType' /\ HistType'
  BY <1>1, NetTypeKept, ManagerTypeKept, AppTypeKept, HistTypeKept DEF Types, network
<1>3. ConnType'
  <2>0. AttemptMax \in Nat
    BY ClientBoundsAssumption
  <2>1. due' \in [Peers -> Nat \cup {Unset}]
    BY FailedAttempt, ElapseType
  <2>2. NextAttempt(reconnectAttempt[p]) \in 0..AttemptMax
    BY <2>0 DEF Types, ConnType, NextAttempt
  <2>3. reconnectAttempt' \in [Peers -> 0..AttemptMax]
    BY <2>2 DEF Types, ConnType, ReconnectFails
  <2> QED
    BY <2>1, <2>3 DEF Types, ConnType, ReconnectFails, Reconnecting
<1>4. PassType'
  BY DEF Types, PassType, ReconnectFails, Reconnecting
<1> QED
  BY <1>2, <1>3, <1>4, Zenon DEF Types

LEMMA MarkDownType ==
    ASSUME Types, NEW p \in Peers, NEW closes \in BOOLEAN, NEW fails \in BOOLEAN,
           MarkDown(p, closes, fails)
    PROVE  /\ connected' \in [Peers -> BOOLEAN] /\ m_pendingRemove' \in Seq(Peers)
           /\ SetOf(m_pendingRemove') =
                 SetOf(m_pendingRemove) \cup (IF closes \/ fails THEN {p} ELSE {})
<1>0. m_pendingRemove \in Seq(Peers)
  BY DEF Types, ManagerType
<1>1. connected' \in [Peers -> BOOLEAN]
  <2>1. (connected[p] /\ ~closes /\ ~fails) \in BOOLEAN
    OBVIOUS
  <2> QED
    BY <2>1, Zenon DEF Types, ConnType, MarkDown
<1> DEFINE a == m_pendingRemove \o (IF closes THEN <<p>> ELSE <<>>)
           b == a \o (IF fails THEN <<p>> ELSE <<>>)
<1>2. m_pendingRemove' = b
  BY DEF MarkDown
<1>3. a \in Seq(Peers)
      /\ SetOf(a) = SetOf(m_pendingRemove) \cup (IF closes THEN {p} ELSE {})
  <2>1. CASE closes
    <3>1. a = Append(m_pendingRemove, p)
      BY <1>0, <2>1, AppendIsConcat
    <3> QED
      BY <1>0, <2>1, <3>1, SetOfAppend
  <2>2. CASE ~closes
    <3>1. a = m_pendingRemove
      BY <1>0, <2>2, ConcatEmptySeq
    <3> QED
      BY <1>0, <2>2, <3>1
  <2> QED
    BY <2>1, <2>2
<1> HIDE DEF a
<1>4. b \in Seq(Peers) /\ SetOf(b) = SetOf(a) \cup (IF fails THEN {p} ELSE {})
  <2>1. CASE fails
    <3>1. b = Append(a, p)
      BY <1>3, <2>1, AppendIsConcat
    <3> QED
      BY <1>3, <2>1, <3>1, SetOfAppend
  <2>2. CASE ~fails
    <3>1. b = a
      BY <1>3, <2>2, ConcatEmptySeq
    <3> QED
      BY <1>3, <2>2, <3>1
  <2> QED
    BY <2>1, <2>2
<1> HIDE DEF b
<1> QED
  BY <1>1, <1>2, <1>3, <1>4

LEMMA ReadAllType ==
    ASSUME Types, NEW p \in Peers, ReadAll(p)
    PROVE  receiveQueue' \in [Peers -> Seq(Incoming)] /\ in' \in [Peers -> Seq(Incoming)]
<1>0. in[p] \in Seq(Incoming) /\ receiveQueue[p] \in Seq(Incoming) /\ Len(in[p]) \in Nat
  BY LenProperties DEF Types, NetType, ConnType
<1>1. CASE p \in readSet
  <2>1. PICK n \in 0..Len(in[p]) :
             /\ receiveQueue' = [receiveQueue EXCEPT ![p] = @ \o SubSeq(in[p], 1, n)]
             /\ in' = [in EXCEPT ![p] = SubSeq(@, n + 1, Len(@))]
    <3>1. 0 \in 0..Len(in[p]) /\ Len(in[p]) \in 0..Len(in[p])
      BY <1>0
    <3> QED
      BY <1>1, <3>1 DEF ReadAll
  <2>2. SubSeq(in[p], 1, n) \in Seq(Incoming) /\ SubSeq(in[p], n + 1, Len(in[p])) \in Seq(Incoming)
    BY <1>0, Halves
  <2> DEFINE q == receiveQueue[p] \o SubSeq(in[p], 1, n)
             r == SubSeq(in[p], n + 1, Len(in[p]))
  <2>3. q \in Seq(Incoming) /\ r \in Seq(Incoming)
    BY <1>0, <2>2, ConcatProperties
  <2>4. receiveQueue' = [receiveQueue EXCEPT ![p] = q] /\ in' = [in EXCEPT ![p] = r]
    BY <2>1
  <2> HIDE DEF q, r
  <2> QED
    BY <2>3, <2>4 DEF Types, NetType, ConnType
<1>2. CASE p \notin readSet
  BY <1>2 DEF ReadAll, Types, NetType, ConnType
<1> QED
  BY <1>1, <1>2

LEMMA WriteSomeType ==
    ASSUME Types, NEW p \in Peers, WriteSome(p)
    PROVE  wire' \in [Peers -> Seq(Piece)] /\ sendBuffer' \in [Peers -> Seq(Piece)]
<1>0. wire[p] \in Seq(Piece) /\ sendBuffer[p] \in Seq(Piece) /\ Len(sendBuffer[p]) \in Nat
  BY LenProperties DEF Types, NetType, ConnType
<1>1. CASE p \in writeSet /\ remote[p] # "reset"
  <2>1. PICK k \in 0..Len(sendBuffer[p]) :
             /\ wire' = [wire EXCEPT ![p] = @ \o SubSeq(sendBuffer[p], 1, k)]
             /\ sendBuffer' = [sendBuffer EXCEPT ![p] = SubSeq(@, k + 1, Len(@))]
    BY <1>1 DEF WriteSome
  <2>2. /\ SubSeq(sendBuffer[p], 1, k) \in Seq(Piece)
        /\ SubSeq(sendBuffer[p], k + 1, Len(sendBuffer[p])) \in Seq(Piece)
    BY <1>0, Halves
  <2> DEFINE w == wire[p] \o SubSeq(sendBuffer[p], 1, k)
             b == SubSeq(sendBuffer[p], k + 1, Len(sendBuffer[p]))
  <2>3. w \in Seq(Piece) /\ b \in Seq(Piece)
    BY <1>0, <2>2, ConcatProperties
  <2>4. wire' = [wire EXCEPT ![p] = w] /\ sendBuffer' = [sendBuffer EXCEPT ![p] = b]
    BY <2>1
  <2> HIDE DEF w, b
  <2> QED
    BY <2>3, <2>4 DEF Types, NetType, ConnType
<1>2. CASE ~(p \in writeSet /\ remote[p] # "reset")
  BY <1>2 DEF WriteSome, Types, NetType, ConnType
<1> QED
  BY <1>1, <1>2

\* ProcessPeer by what it finds: a peer that is gone, a socket in error, or
\* one to read and to write.
LEMMA ProcessPeerCases ==
    ASSUME NEW p, ProcessPeer(p)
    PROVE  \/ /\ p \notin Selectable
              /\ UNCHANGED <<connected, m_pendingRemove, receiveQueue, in, wire, sendBuffer>>
           \/ /\ p \in Selectable /\ MarkDown(p, TRUE, FALSE)
              /\ UNCHANGED <<receiveQueue, in, wire, sendBuffer>>
           \/ /\ p \in Selectable /\ MarkDown(p, ReadCloses(p), WriteFails(p))
              /\ ReadAll(p) /\ WriteSome(p)
BY DEF ProcessPeer

LEMMA ProcessPeerType ==
    ASSUME Types, NEW p \in Peers, ProcessPeer(p)
    PROVE  Types'
<1>1. UNCHANGED <<app, history>>
  BY DEF ProcessPeer
<1>2. AppType' /\ HistType'
  BY <1>1, AppTypeKept, HistTypeKept DEF Types
<1>3. /\ connected' \in [Peers -> BOOLEAN] /\ m_pendingRemove' \in Seq(Peers)
      /\ receiveQueue' \in [Peers -> Seq(Incoming)] /\ in' \in [Peers -> Seq(Incoming)]
      /\ wire' \in [Peers -> Seq(Piece)] /\ sendBuffer' \in [Peers -> Seq(Piece)]
  <2>0. ReadCloses(p) \in BOOLEAN /\ WriteFails(p) \in BOOLEAN
    BY DEF ReadCloses, WriteFails
  <2>1. CASE UNCHANGED <<connected, m_pendingRemove, receiveQueue, in, wire, sendBuffer>>
    BY <2>1 DEF Types, NetType, ConnType, ManagerType
  <2>2. CASE MarkDown(p, TRUE, FALSE) /\ UNCHANGED <<receiveQueue, in, wire, sendBuffer>>
    <3>1. connected' \in [Peers -> BOOLEAN] /\ m_pendingRemove' \in Seq(Peers)
      BY <2>2, MarkDownType
    <3> QED
      BY <2>2, <3>1 DEF Types, NetType, ConnType
  <2>3. CASE MarkDown(p, ReadCloses(p), WriteFails(p)) /\ ReadAll(p) /\ WriteSome(p)
    BY <2>0, <2>3, MarkDownType, ReadAllType, WriteSomeType
  <2> QED
    BY <2>1, <2>2, <2>3, ProcessPeerCases
<1>4. NetType'
  BY <1>3 DEF Types, NetType, ProcessPeer
<1>5. ConnType'
  BY <1>3 DEF Types, ConnType, ProcessPeer
<1>6. ManagerType'
  BY <1>3 DEF Types, ManagerType, ProcessPeer
<1>7. PassType'
  BY DEF Types, PassType, ProcessPeer
<1> QED
  BY <1>2, <1>4, <1>5, <1>6, <1>7, Zenon DEF Types

LEMMA RemoveDisconnectedType ==
    ASSUME Types, RemoveDisconnected
    PROVE  Types'
<1>1. Head(removing) \in Peers /\ Tail(removing) \in Seq(Peers)
  BY SetOfTail DEF Types, PassType, RemoveDisconnected
<1>2. /\ ConnType' /\ HistType' /\ m_connections' \subseteq Peers
      /\ told' \in [Peers -> BOOLEAN]
      /\ remote' \in [Peers -> {"up", "fin", "reset", "closed"}]
  <2>1. DropPeer(Head(removing)) \/ UNCHANGED <<remote, conn, m_connections, told, history>>
    BY DEF RemoveDisconnected
  <2>2. CASE DropPeer(Head(removing))
    BY <1>1, <2>2, DropPeerType
  <2>3. CASE UNCHANGED <<remote, conn, m_connections, told, history>>
    BY <2>3, ConnTypeKept, HistTypeKept DEF Types, NetType, ManagerType, AppType
  <2> QED
    BY <2>1, <2>2, <2>3
<1>3. NetType'
  BY <1>2 DEF Types, NetType, RemoveDisconnected
<1>4. PassType'
  BY <1>1 DEF Types, PassType, RemoveDisconnected
<1>5. ConnType' /\ HistType'
  BY <1>2
<1>6. ManagerType'
  BY <1>2 DEF Types, ManagerType, RemoveDisconnected
<1>7. AppType'
  BY <1>2, CallsTypeKept DEF Types, AppType, RemoveDisconnected
<1> QED
  BY <1>3, <1>4, <1>5, <1>6, <1>7, Zenon DEF Types

LEMMA TypesStep == Types /\ [Next]_vars => Types'
<1> SUFFICES ASSUME Types, [Next]_vars PROVE Types'
  OBVIOUS
<1>1. CASE Pump
  <2>1. CASE \E p \in Peers : ReconnectSucceeds(p) \/ ReconnectFails(p) \/ ProcessPeer(p)
    BY <2>1, ReconnectSucceedsType, ReconnectFailsType, ProcessPeerType
  <2>2. CASE ProcessEvents \/ FirstDone \/ AcceptNewConnection \/ Select \/ StartRemoving
    BY <2>2, ProcessEventsType, FirstDoneType, AcceptNewConnectionType, SelectType,
       StartRemovingType
  <2>3. CASE RemoveDisconnected \/ RemovingDone \/ PassDone \/ CallbackStores \/ CallbackGreets
    BY <2>3, RemoveDisconnectedType, RemovingDoneType, PassDoneType, CallbackStoresType,
       CallbackGreetsType
  <2>4. CASE Continues("callback")
    BY <2>4, ContinuesType DEF Senders
  <2> QED
    BY <1>1, <2>1, <2>2, <2>3, <2>4 DEF Pump, Passes
<1>2. CASE Application
  <2>1. CASE \E p \in Peers :
               SetAutoReconnect(p) \/ Disconnect(p) \/ SendPacket(p) \/ ReadPacket(p)
    BY <2>1, SetAutoReconnectType, DisconnectType, SendPacketType, ReadPacketType
  <2>2. CASE Connect \/ Listen \/ StopListen \/ Initialize
    BY <2>2, ConnectType, ListenType, StopListenType, InitializeType
  <2>3. CASE Shutdown
    BY <2>3, ForgetAllType DEF Shutdown
  <2> QED
    BY <1>2, <2>1, <2>2, <2>3 DEF Application
<1>3. CASE InjectionThread \/ GameThread
  BY <1>3, HookVTableType, GetLocalSteamIDType, InjectionRegistersType, ContinuesType
     DEF InjectionThread, Injects, GameThread, Senders
<1>4. CASE Network
  BY <1>4, ReachabilityType, RemoteConnectsType, RemoteEndsType, RemoteSendsType DEF Network
<1>5. CASE Tick
  BY <1>5, TickType
<1>6. CASE UNCHANGED vars
  <2>1. UNCHANGED <<network, conn, manager, waiting, pass, app, history>>
    BY <1>6 DEF vars, network
  <2> QED
    BY <2>1, NetTypeKept, ConnTypeKept, ManagerTypeKept, PassTypeKept, AppTypeKept,
       HistTypeKept DEF Types
<1> QED
  BY <1>1, <1>2, <1>3, <1>4, <1>5, <1>6 DEF Next

LEMMA TypesTypeOK == Types => TypeOK
<1> SUFFICES ASSUME Types PROVE TypeOK
  OBVIOUS
<1>1. {todo, readSet, writeSet, exceptSet} \subseteq SUBSET Peers
  BY DEF Types, PassType
<1>2. {cb, greeting} \subseteq Peers \cup {NoPeer}
  BY DEF Types, AppType
<1> QED
  BY <1>1, <1>2, Zenon DEF Types, NetType, ConnType, ManagerType, PassType, AppType,
     CallsType, HistType, TypeOK

LEMMA TypesInvariant == Spec => []Types
BY TypesInit, TypesStep, PTL DEF Spec

\* Every field of the client keeps its type, with any calls from any thread:
\* peer ids stay in range although accept and connect hand them out from one
\* counter (m_nextPeerID), and the attempt counter saturates.
THEOREM ClientTypeOK == Spec => []TypeOK
BY TypesInvariant, TypesTypeOK, PTL

----------------------------------------------------------------------------
\* Steps that change a schedule.

LEMMA DueStep ==
    ASSUME Types, [Next]_vars, NEW p \in Peers
    PROVE  \/ due'[p] = due[p]
           \/ due'[p] \in {Unset, BaseDelay}
           \/ due[p] # Unset /\ due'[p] \in Nat /\ due'[p] <= due[p]
           \/ /\ due'[p] \in Nat /\ (BaseDelay <= MaxDelay => due'[p] <= MaxDelay)
              /\ p \in DuePeers
<1> DEFINE G == \/ due'[p] = due[p]
                \/ due'[p] \in {Unset, BaseDelay}
                \/ due[p] # Unset /\ due'[p] \in Nat /\ due'[p] <= due[p]
                \/ /\ due'[p] \in Nat /\ (BaseDelay <= MaxDelay => due'[p] <= MaxDelay)
                   /\ p \in DuePeers
<1>0. due \in [Peers -> Nat \cup {Unset}]
  BY DEF Types, ConnType
<1>1. CASE Tick
  BY <1>0, <1>1, ElapseType DEF Tick
<1>2. CASE \E q \in Peers : ReconnectFails(q)
  <2>1. PICK q \in Peers : ReconnectFails(q)
    BY <1>2
  <2>2. PICK d \in [Peers -> Nat \cup {Unset}], t \in Nat :
             /\ d = [due EXCEPT ![q] = RetryDelay(reconnectAttempt[q])]
             /\ d[q] \in Nat /\ (BaseDelay <= MaxDelay => d[q] <= MaxDelay)
             /\ due' = Elapse(d, t)
    BY <2>1, FailedAttempt
  <2>3. due' \in [Peers -> Nat \cup {Unset}] /\ due'[p] <= d[p]
        /\ (due'[p] = Unset <=> d[p] = Unset)
    BY <2>2, ElapseType
  <2>4. CASE p = q
    <3>1. p \in DuePeers
      BY <2>1, <2>4 DEF ReconnectFails, Reconnecting
    <3>2. due'[p] \in Nat
      BY <2>2, <2>3, <2>4 DEF Unset
    <3>3. BaseDelay \in Nat /\ MaxDelay \in Nat
      BY ClientBoundsAssumption
    <3> QED
      BY <2>2, <2>3, <2>4, <3>1, <3>2, <3>3
  <2>5. CASE p # q
    <3>1. d[p] = due[p]
      BY <1>0, <2>2, <2>5
    <3> QED
      BY <1>0, <2>3, <3>1
  <2> QED
    BY <2>4, <2>5
<1>3. CASE \E q \in Peers : ReconnectSucceeds(q) \/ SetAutoReconnect(q)
  <2>1. PICK q \in Peers : due' = [due EXCEPT ![q] = Unset]
    BY <1>3 DEF ReconnectSucceeds, SetAutoReconnect
  <2> QED
    BY <1>0, <2>1
<1>4. ASSUME NEW q, DropPeer(q) PROVE G
  BY <1>0, <1>4 DEF DropPeer, RescheduleOrErase
<1>5. CASE RemoveDisconnected \/ \E q \in Peers : Disconnect(q)
  BY <1>4, <1>5 DEF RemoveDisconnected, Disconnect, conn
<1>6. CASE Shutdown
  BY <1>6 DEF Shutdown, ForgetAll
<1>7. CASE \/ ProcessEvents \/ FirstDone \/ AcceptNewConnection \/ Select \/ StartRemoving
           \/ RemovingDone \/ PassDone \/ CallbackStores \/ CallbackGreets
           \/ \E q \in Peers : ProcessPeer(q)
  BY <1>7 DEF ProcessEvents, FirstDone, AcceptNewConnection, Select, StartRemoving,
              RemovingDone, PassDone, CallbackStores, CallbackGreets, ProcessPeer, conn
<1>8. ASSUME NEW t, Continues(t) PROVE G
  BY <1>8 DEF Continues, SendTries, SendStores, conn
<1>9. CASE \/ Connect \/ Listen \/ StopListen \/ Initialize \/ InjectionThread \/ Network
           \/ \E q \in Peers : SendPacket(q) \/ ReadPacket(q)
  BY <1>9, <1>8 DEF Connect, Listen, StopListen, Initialize, InjectionThread, Injects, Network,
              SendPacket, ReadPacket, HookVTable, GetLocalSteamID, InjectionRegisters,
              Reachability, RemoteConnects, RemoteEnds, RemoteSends, conn
<1>10. CASE UNCHANGED vars
  BY <1>10 DEF vars, conn
<1> QED
  BY <1>1, <1>2, <1>3, <1>5, <1>6, <1>7, <1>9, <1>10, <1>8
     DEF Next, Pump, Passes, Application, GameThread

\* Whatever the number of failed attempts and however the calls interleave, no
\* reconnection is scheduled further ahead than the application's maximum: the
\* doubling loop of attemptReconnects cuts before it overshoots.
THEOREM ClientDelayBounded == Spec => []DelayBounded
<1>0. BaseDelay \in Nat /\ MaxDelay \in Nat
  BY ClientBoundsAssumption
<1>1. Init => DelayBounded
  BY <1>0 DEF Init, DelayBounded, Unset
<1>2. Types /\ DelayBounded /\ [Next]_vars => DelayBounded'
  <2> SUFFICES ASSUME Types, DelayBounded, [Next]_vars, BaseDelay <= MaxDelay,
                      NEW p \in Peers
               PROVE  due'[p] <= MaxDelay
    BY DEF DelayBounded
  <2>1. due[p] <= MaxDelay /\ due[p] \in Nat \cup {Unset}
    BY DEF DelayBounded, Types, ConnType
  <2> QED
    BY <1>0, <2>1, DueStep DEF Unset
<1> QED
  BY <1>1, <1>2, TypesInvariant, PTL DEF Spec

----------------------------------------------------------------------------
\* Sessions.

OfSession(s, n) == \A i \in 1..Len(s) : s[i].sess = n

\* What is buffered belongs to the socket, a peer that waits for its next
\* attempt has empty buffers, and so has one whose id is not handed out.  For
\* what is to be sent this needs that no other thread is in sendPacket.
BuffersPure ==
    \A p \in Peers :
      /\ ~Threads => OfSession(sendBuffer[p], session[p]) /\ OfSession(wire[p], session[p])
      /\ OfSession(receiveQueue[p], session[p]) /\ OfSession(in[p], session[p])

WaitingEmpty ==
    \A p \in Peers :
      due[p] # Unset =>
        /\ ~connected[p] /\ receiveQueue[p] = <<>>
        /\ ~Threads => sendBuffer[p] = <<>>

FreshEmpty ==
    \A p \in Peers :
      p >= m_nextPeerID =>
        /\ due[p] = Unset /\ p \notin m_connections /\ receiveQueue[p] = <<>>
        /\ ~Threads => sendBuffer[p] = <<>>

PureInv == BuffersPure /\ WaitingEmpty /\ FreshEmpty

LEMMA OfSessionEmpty == \A n : OfSession(<<>>, n)
BY EmptySeq DEF OfSession

LEMMA OfSessionConcat ==
    ASSUME NEW S, NEW s \in Seq(S), NEW t \in Seq(S), NEW n, OfSession(s, n), OfSession(t, n)
    PROVE  OfSession(s \o t, n)
<1>1. /\ Len(s) \in Nat /\ Len(t) \in Nat /\ Len(s \o t) = Len(s) + Len(t)
      /\ \A i \in 1..(Len(s) + Len(t)) :
           (s \o t)[i] = IF i <= Len(s) THEN s[i] ELSE t[i - Len(s)]
  BY ConcatProperties, LenProperties
<1> DEFINE c == s \o t
<1> HIDE DEF c
<1>2. \A i \in 1..Len(c) : (i \in 1..Len(s) /\ c[i] = s[i])
                           \/ (i - Len(s) \in 1..Len(t) /\ c[i] = t[i - Len(s)])
  BY <1>1 DEF c
<1>3. OfSession(c, n)
  BY <1>2 DEF OfSession
<1> QED
  BY <1>3 DEF c

LEMMA OfSessionHalves ==
    ASSUME NEW S, NEW s \in Seq(S), NEW k \in 0..Len(s), NEW n, OfSession(s, n)
    PROVE  OfSession(SubSeq(s, 1, k), n) /\ OfSession(SubSeq(s, k + 1, Len(s)), n)
<1>0. Len(s) \in Nat
  BY LenProperties
<1>1. OfSession(SubSeq(s, 1, k), n)
  BY <1>0, Halves DEF OfSession
<1>2. OfSession(SubSeq(s, k + 1, Len(s)), n)
  <2>1. \A i \in 1..(Len(s) - k) : k + i \in 1..Len(s)
    BY <1>0
  <2> QED
    BY <2>1, Halves DEF OfSession
<1> QED
  BY <1>1, <1>2

LEMMA OfSessionTail ==
    ASSUME NEW S, NEW s \in Seq(S), s # <<>>, NEW n, OfSession(s, n)
    PROVE  OfSession(Tail(s), n)
<1>1. /\ Len(s) \in Nat /\ Len(Tail(s)) = Len(s) - 1
      /\ \A i \in 1..Len(Tail(s)) : Tail(s)[i] = s[i + 1]
  BY HeadTailProperties, LenProperties, EmptySeq
<1>2. \A i \in 1..Len(Tail(s)) : i + 1 \in 1..Len(s)
  BY <1>1
<1> QED
  BY <1>1, <1>2 DEF OfSession

LEMMA OfSessionAppend ==
    ASSUME NEW S, NEW s \in Seq(S), NEW e \in S, NEW n, OfSession(s, n), e.sess = n
    PROVE  OfSession(Append(s, e), n)
<1>1. /\ Len(s) \in Nat /\ Len(Append(s, e)) = Len(s) + 1
      /\ \A i \in 1..Len(s) : Append(s, e)[i] = s[i]
      /\ Append(s, e)[Len(s) + 1] = e
  BY AppendProperties, LenProperties
<1>2. \A i \in 1..Len(Append(s, e)) : i \in 1..Len(s) \/ i = Len(s) + 1
  BY <1>1
<1> QED
  BY <1>1, <1>2 DEF OfSession

LEMMA TransmitPure ==
    ASSUME Types, PureInv, ~Threads, NEW p \in Peers, NEW n \in Nat, Transmit(p, n),
           connected[p], p \in m_connections,
           UNCHANGED <<session, due, receiveQueue, in, m_nextPeerID, m_connections>>
    PROVE  PureInv'
<1>0. m_nextPeerID \in Nat
  BY ClientBoundsAssumption DEF Types, ManagerType
<1>1. due[p] = Unset /\ ~(p >= m_nextPeerID)
  BY DEF PureInv, WaitingEmpty, FreshEmpty
<1>2. CASE SendFails(p)
  <2>1. UNCHANGED <<wire, sendBuffer>> /\ connected' = [connected EXCEPT ![p] = FALSE]
    BY <1>2 DEF Transmit
  <2>2. BuffersPure' /\ FreshEmpty'
    BY <2>1 DEF PureInv, BuffersPure, FreshEmpty
  <2>3. \A q \in Peers : ~connected[q] => ~connected'[q]
    BY <2>1 DEF Types, ConnType
  <2>4. WaitingEmpty'
    BY <2>1, <2>3 DEF PureInv, WaitingEmpty
  <2> QED
    BY <2>2, <2>4 DEF PureInv
<1>3. CASE ~SendFails(p)
  <2>1. PICK k \in 0..Pieces :
            /\ wire' = [wire EXCEPT ![p] = @ \o SubSeq(Frame(p, n), 1, k)]
            /\ sendBuffer' = [sendBuffer EXCEPT ![p] =
                                @ \o SubSeq(Frame(p, n), k + 1, Pieces)]
            /\ UNCHANGED connected
    BY <1>3, TakesPart DEF Transmit
  <2> DEFINE f == Frame(p, n)
             a == SubSeq(f, 1, k)
             b == SubSeq(f, k + 1, Pieces)
             w == wire[p] \o a
             s == sendBuffer[p] \o b
  <2>2. f \in Seq(Piece) /\ Len(f) = Pieces /\ OfSession(f, session[p])
    BY FrameIsPieces DEF Types, OfSession
  <2> HIDE DEF f
  <2>3. a \in Seq(Piece) /\ b \in Seq(Piece)
    BY <2>2, Halves
  <2>4. OfSession(a, session[p]) /\ OfSession(b, session[p])
    BY <2>2, OfSessionHalves
  <2> HIDE DEF a, b
  <2>5. OfSession(w, session[p]) /\ OfSession(s, session[p])
    BY <2>3, <2>4, OfSessionConcat DEF Types, NetType, ConnType, PureInv, BuffersPure
  <2>6. wire' = [wire EXCEPT ![p] = w] /\ sendBuffer' = [sendBuffer EXCEPT ![p] = s]
    BY <2>1 DEF f, a, b
  <2> HIDE DEF w, s
  <2>7. /\ wire'[p] = w /\ sendBuffer'[p] = s
        /\ \A q \in Peers \ {p} : wire'[q] = wire[q] /\ sendBuffer'[q] = sendBuffer[q]
    BY <2>6 DEF Types, NetType, ConnType
  <2>8. BuffersPure'
    BY <2>5, <2>7 DEF PureInv, BuffersPure
  <2>9. WaitingEmpty'
    BY <1>1, <2>1, <2>7 DEF PureInv, WaitingEmpty
  <2>10. FreshEmpty'
    BY <1>1, <2>7 DEF PureInv, FreshEmpty
  <2> QED
    BY <2>8, <2>9, <2>10 DEF PureInv
<1> QED
  BY <1>2, <1>3

LEMMA SendsPure ==
    ASSUME Types, PureInv, NEW t \in Senders, NEW p \in Peers, NEW n \in Nat, Sends(t, p, n),
           connected[p], p \in m_connections,
           UNCHANGED <<session, due, receiveQueue, in, m_nextPeerID, m_connections>>
    PROVE  PureInv'
<1>1. CASE ~Threads
  BY <1>1, TransmitPure DEF Sends
<1>2. CASE Threads
  <2>1. UNCHANGED <<connected, wire, sendBuffer>>
    BY <1>2 DEF Sends, SendChecks
  <2> QED
    BY <2>1 DEF PureInv, BuffersPure, WaitingEmpty, FreshEmpty
<1> QED
  BY <1>1, <1>2

\* Only another thread is inside sendPacket between two steps.
LEMMA ContinuesThreads ==
    ASSUME Types, NEW t \in Senders, Continues(t)
    PROVE  Threads
<1>1. sending[t].at # "idle"
  BY DEF Continues, SendTries, SendStores
<1> QED
  BY <1>1 DEF Types, AppType, CallsType, NotSending

LEMMA ContinuesPure ==
    ASSUME Types, PureInv, NEW t \in Senders, Continues(t)
    PROVE  PureInv'
<1>1. Threads
  BY ContinuesThreads
<1>2. UNCHANGED <<session, due, receiveQueue, in, m_nextPeerID, m_connections>>
  BY DEF Continues, SendTries, SendStores, network, conn, manager, history
<1>3. \A q \in Peers : ~connected[q] => ~connected'[q]
  <2>1. CASE SendTries(t)
    BY <2>1 DEF SendTries, conn
  <2>2. CASE SendStores(t)
    BY <2>2 DEF SendStores, Types, ConnType
  <2> QED
    BY <2>1, <2>2 DEF Continues
<1> QED
  BY <1>1, <1>2, <1>3 DEF PureInv, BuffersPure, WaitingEmpty, FreshEmpty

LEMMA NewSessionPure ==
    ASSUME Types, PureInv, NEW p \in Peers, NewSession(p),
           ~Threads => sendBuffer[p] = <<>>, receiveQueue[p] = <<>>,
           UNCHANGED <<sendBuffer, receiveQueue>>
    PROVE  BuffersPure'
<1>1. /\ wire'[p] = <<>> /\ in'[p] = <<>>
      /\ \A q \in Peers \ {p} : wire'[q] = wire[q] /\ in'[q] = in[q] /\ session'[q] = session[q]
  BY DEF Types, NetType, HistType, NewSession
<1> QED
  BY <1>1, OfSessionEmpty DEF PureInv, BuffersPure

LEMMA AddPeerPure ==
    ASSUME Types, PureInv, AddPeer(m_nextPeerID), m_nextPeerID \in Peers,
           UNCHANGED <<due, sendBuffer, receiveQueue>>
    PROVE  PureInv'
<1> DEFINE n == m_nextPeerID
<1>0. n \in Nat /\ \A q \in Peers : q \in Nat
  BY ClientBoundsAssumption DEF Peers
<1>1. due[n] = Unset /\ (~Threads => sendBuffer[n] = <<>>) /\ receiveQueue[n] = <<>>
  BY <1>0 DEF PureInv, FreshEmpty
<1>2. NewSession(n) /\ m_nextPeerID' = n + 1 /\ m_connections' = m_connections \cup {n}
  BY DEF AddPeer
<1>3. BuffersPure'
  BY <1>1, <1>2, NewSessionPure
<1>4. \A q \in Peers : q # n => connected'[q] = connected[q]
  BY <1>2 DEF Types, ConnType, NewSession
<1>5. WaitingEmpty'
  BY <1>1, <1>4 DEF PureInv, WaitingEmpty
<1>6. \A q \in Peers : q >= n + 1 => q >= n /\ q # n
  BY <1>0
<1>7. FreshEmpty'
  BY <1>2, <1>6 DEF PureInv, FreshEmpty
<1> QED
  BY <1>3, <1>5, <1>7 DEF PureInv

LEMMA DropPeerPure ==
    ASSUME Types, PureInv, NEW p \in Peers, p \in m_connections, DropPeer(p),
           UNCHANGED <<wire, in, m_nextPeerID>>
    PROVE  PureInv'
<1>0. m_nextPeerID \in Nat
  BY ClientBoundsAssumption DEF Types, ManagerType
<1>1. /\ sendBuffer'[p] = <<>> /\ receiveQueue'[p] = <<>> /\ session' = session
      /\ \A q \in Peers \ {p} : sendBuffer'[q] = sendBuffer[q] /\ receiveQueue'[q] = receiveQueue[q]
  BY DEF Types, ConnType, DropPeer, ClearBuffers
<1>2. ~(p >= m_nextPeerID)
  BY DEF PureInv, FreshEmpty
<1>3. \A q \in Peers \ {p} : due'[q] = due[q] /\ connected'[q] = connected[q]
  BY DEF Types, ConnType, DropPeer, RescheduleOrErase
<1>4. ~connected'[p] /\ m_connections' \subseteq m_connections
  BY DEF Types, ConnType, DropPeer, RescheduleOrErase
<1>5. BuffersPure'
  BY <1>1, OfSessionEmpty DEF PureInv, BuffersPure
<1>6. WaitingEmpty'
  BY <1>1, <1>3, <1>4 DEF PureInv, WaitingEmpty
<1>7. FreshEmpty'
  BY <1>1, <1>2, <1>3, <1>4 DEF PureInv, FreshEmpty
<1> QED
  BY <1>5, <1>6, <1>7 DEF PureInv

LEMMA ProcessPeerPure ==
    ASSUME Types, PureInv, NEW p \in Peers, ProcessPeer(p)
    PROVE  PureInv'
<1>0. m_nextPeerID \in Nat
  BY ClientBoundsAssumption DEF Types, ManagerType
<1>1. UNCHANGED <<session, due, m_nextPeerID, m_connections>>
  BY DEF ProcessPeer, history
<1>2. CASE UNCHANGED <<connected, receiveQueue, in, wire, sendBuffer>>
  BY <1>1, <1>2 DEF PureInv, BuffersPure, WaitingEmpty, FreshEmpty
<1>3. ASSUME NEW a, NEW b, MarkDown(p, a, b)
      PROVE  \A q \in Peers : ~connected[q] => ~connected'[q]
  BY <1>3 DEF Types, ConnType, MarkDown
<1>4. CASE MarkDown(p, TRUE, FALSE) /\ UNCHANGED <<receiveQueue, in, wire, sendBuffer>>
  <2>1. \A q \in Peers : ~connected[q] => ~connected'[q]
    BY <1>3, <1>4
  <2> QED
    BY <1>1, <1>4, <2>1 DEF PureInv, BuffersPure, WaitingEmpty, FreshEmpty
<1>5. CASE /\ p \in Selectable /\ MarkDown(p, ReadCloses(p), WriteFails(p))
           /\ ReadAll(p) /\ WriteSome(p)
  <2>1. \A q \in Peers : ~connected[q] => ~connected'[q]
    BY <1>3, <1>5
  <2>2. due[p] = Unset /\ ~(p >= m_nextPeerID)
    BY <1>5 DEF PureInv, WaitingEmpty, FreshEmpty, Selectable
  <2>3. \A q \in Peers \ {p} : /\ receiveQueue'[q] = receiveQueue[q] /\ in'[q] = in[q]
                               /\ wire'[q] = wire[q] /\ sendBuffer'[q] = sendBuffer[q]
    <3>1. \A q \in Peers \ {p} : receiveQueue'[q] = receiveQueue[q] /\ in'[q] = in[q]
      BY <1>5 DEF Types, NetType, ConnType, ReadAll
    <3>2. \A q \in Peers \ {p} : wire'[q] = wire[q] /\ sendBuffer'[q] = sendBuffer[q]
      BY <1>5 DEF Types, NetType, ConnType, WriteSome
    <3> QED
      BY <3>1, <3>2
  <2>4. OfSession(receiveQueue'[p], session[p]) /\ OfSession(in'[p], session[p])
    <3>0. /\ in[p] \in Seq(Incoming) /\ receiveQueue[p] \in Seq(Incoming) /\ Len(in[p]) \in Nat
          /\ OfSession(receiveQueue[p], session[p]) /\ OfSession(in[p], session[p])
      BY LenProperties DEF Types, NetType, ConnType, PureInv, BuffersPure
    <3>1. CASE p \notin readSet
      BY <1>5, <3>0, <3>1 DEF ReadAll
    <3>2. CASE p \in readSet
      <4>1. PICK n \in 0..Len(in[p]) :
                /\ receiveQueue' = [receiveQueue EXCEPT ![p] = @ \o SubSeq(in[p], 1, n)]
                /\ in' = [in EXCEPT ![p] = SubSeq(@, n + 1, Len(@))]
        <5>1. 0 \in 0..Len(in[p]) /\ Len(in[p]) \in 0..Len(in[p])
          BY <3>0
        <5> QED
          BY <1>5, <3>2, <5>1 DEF ReadAll
      <4> DEFINE a == SubSeq(in[p], 1, n)
                 b == SubSeq(in[p], n + 1, Len(in[p]))
      <4>2. a \in Seq(Incoming) /\ OfSession(a, session[p]) /\ OfSession(b, session[p])
        BY <3>0, Halves, OfSessionHalves
      <4>3. receiveQueue'[p] = receiveQueue[p] \o a /\ in'[p] = b
        BY <4>1 DEF Types, NetType, ConnType
      <4> HIDE DEF a, b
      <4>4. OfSession(receiveQueue[p] \o a, session[p])
        BY <3>0, <4>2, OfSessionConcat
      <4> QED
        BY <4>2, <4>3, <4>4
    <3> QED
      BY <3>1, <3>2
  <2>5. ASSUME ~Threads
        PROVE  OfSession(wire'[p], session[p]) /\ OfSession(sendBuffer'[p], session[p])
    <3>0. /\ wire[p] \in Seq(Piece) /\ sendBuffer[p] \in Seq(Piece)
          /\ OfSession(wire[p], session[p]) /\ OfSession(sendBuffer[p], session[p])
      BY <2>5 DEF Types, NetType, ConnType, PureInv, BuffersPure
    <3>1. CASE ~(p \in writeSet /\ remote[p] # "reset")
      BY <1>5, <3>0, <3>1 DEF WriteSome
    <3>2. CASE p \in writeSet /\ remote[p] # "reset"
      <4>1. PICK k \in 0..Len(sendBuffer[p]) :
                /\ wire' = [wire EXCEPT ![p] = @ \o SubSeq(sendBuffer[p], 1, k)]
                /\ sendBuffer' = [sendBuffer EXCEPT ![p] = SubSeq(@, k + 1, Len(@))]
        BY <1>5, <3>2 DEF WriteSome
      <4> DEFINE a == SubSeq(sendBuffer[p], 1, k)
                 b == SubSeq(sendBuffer[p], k + 1, Len(sendBuffer[p]))
      <4>2. a \in Seq(Piece) /\ OfSession(a, session[p]) /\ OfSession(b, session[p])
        BY <3>0, Halves, OfSessionHalves
      <4>3. wire'[p] = wire[p] \o a /\ sendBuffer'[p] = b
        BY <4>1 DEF Types, NetType, ConnType
      <4> HIDE DEF a, b
      <4>4. OfSession(wire[p] \o a, session[p])
        BY <3>0, <4>2, OfSessionConcat
      <4> QED
        BY <4>2, <4>3, <4>4
    <3> QED
      BY <3>1, <3>2
  <2>6. BuffersPure'
    BY <1>1, <2>3, <2>4, <2>5 DEF PureInv, BuffersPure
  <2>7. WaitingEmpty'
    BY <1>1, <2>1, <2>2, <2>3 DEF PureInv, WaitingEmpty
  <2>8. FreshEmpty'
    BY <1>1, <2>2, <2>3 DEF PureInv, FreshEmpty
  <2> QED
    BY <2>6, <2>7, <2>8 DEF PureInv
<1> QED
  BY <1>2, <1>4, <1>5, ProcessPeerCases

LEMMA PureKept ==
    ASSUME PureInv,
           UNCHANGED <<in, wire, connected, due, sendBuffer, receiveQueue, m_nextPeerID,
                       m_connections, session>>
    PROVE  PureInv'
BY DEF PureInv, BuffersPure, WaitingEmpty, FreshEmpty

LEMMA ForgetAllPure ==
    ASSUME Types, PureInv, ForgetAll
    PROVE  PureInv'
<1>1. \A p \in Peers : sendBuffer'[p] = <<>> /\ receiveQueue'[p] = <<>> /\ due'[p] = Unset
  BY DEF ForgetAll
<1>2. UNCHANGED <<wire, in, session>> /\ m_connections' = {}
  BY DEF ForgetAll
<1>3. BuffersPure'
  BY <1>1, <1>2, OfSessionEmpty DEF PureInv, BuffersPure
<1>4. WaitingEmpty'
  BY <1>1 DEF WaitingEmpty
<1>5. FreshEmpty'
  BY <1>1, <1>2 DEF FreshEmpty
<1> QED
  BY <1>3, <1>4, <1>5 DEF PureInv

LEMMA PopPure ==
    ASSUME Types, PureInv, NEW p \in Peers, receiveQueue[p] # <<>>,
           receiveQueue' = [receiveQueue EXCEPT ![p] = Tail(@)],
           UNCHANGED <<in, wire, connected, due, sendBuffer, m_nextPeerID, m_connections, session>>
    PROVE  PureInv'
<1>1. /\ receiveQueue'[p] = Tail(receiveQueue[p])
      /\ \A q \in Peers \ {p} : receiveQueue'[q] = receiveQueue[q]
  BY DEF Types, ConnType
<1>2. OfSession(Tail(receiveQueue[p]), session[p])
  BY OfSessionTail DEF Types, ConnType, PureInv, BuffersPure
<1>3. BuffersPure'
  BY <1>1, <1>2 DEF PureInv, BuffersPure
<1>4. WaitingEmpty'
  BY <1>1 DEF PureInv, WaitingEmpty
<1>5. FreshEmpty'
  BY <1>1 DEF PureInv, FreshEmpty
<1> QED
  BY <1>3, <1>4, <1>5 DEF PureInv

LEMMA PureInit == Init => PureInv
<1> SUFFICES ASSUME Init PROVE PureInv
  OBVIOUS
<1>1. \A p \in Peers : /\ sendBuffer[p] = <<>> /\ wire[p] = <<>> /\ receiveQueue[p] = <<>>
                       /\ in[p] = <<>> /\ due[p] = Unset
  BY DEF Init
<1>2. m_connections = {}
  BY DEF Init
<1> QED
  BY <1>1, <1>2, OfSessionEmpty DEF PureInv, BuffersPure, WaitingEmpty, FreshEmpty

LEMMA PureStep == Types /\ PureInv /\ [Next]_vars => PureInv'
<1> SUFFICES ASSUME Types, PureInv, [Next]_vars PROVE PureInv'
  OBVIOUS
<1>0. m_nextPeerID \in Nat /\ MaxPeers \in Nat
  BY ClientBoundsAssumption DEF Types, ManagerType
<1>1. CASE \/ ProcessEvents \/ FirstDone \/ Select \/ StartRemoving
           \/ RemovingDone \/ PassDone \/ CallbackStores
  BY <1>1, PureKept
     DEF ProcessEvents, FirstDone, Select, StartRemoving, RemovingDone, PassDone,
         CallbackStores, network, conn, manager, history
<1>2. CASE \/ Listen \/ StopListen \/ Initialize \/ HookVTable \/ GetLocalSteamID
           \/ Reachability \/ RemoteConnects \/ \E p \in Peers : RemoteEnds(p)
  BY <1>2, PureKept
     DEF Listen, StopListen, Initialize, HookVTable, GetLocalSteamID, Reachability,
         RemoteConnects, RemoteEnds, network, conn, manager, history
<1>3. CASE UNCHANGED vars
  BY <1>3, PureKept DEF vars, network, conn, manager, history
<1>4. CASE \E p \in Peers : RemoteSends(p)
  <2>1. PICK p \in Peers : RemoteSends(p)
    BY <1>4
  <2>2. PICK n \in PacketSizes :
               in' = [in EXCEPT ![p] = Append(@, [sess |-> session[p], size |-> n])]
    BY <2>1 DEF RemoteSends
  <2> DEFINE e == [sess |-> session[p], size |-> n]
  <2>3. e \in Incoming /\ e.sess = session[p]
    BY DEF Types, HistType, Incoming
  <2> HIDE DEF e
  <2>4. OfSession(Append(in[p], e), session[p])
    BY <2>3, OfSessionAppend DEF Types, NetType, PureInv, BuffersPure
  <2>5. in'[p] = Append(in[p], e) /\ \A q \in Peers \ {p} : in'[q] = in[q]
    BY <2>2 DEF Types, NetType, e
  <2>6. UNCHANGED <<wire, connected, due, sendBuffer, receiveQueue, m_nextPeerID,
                    m_connections, session>>
    BY <2>1 DEF RemoteSends, conn, manager, history
  <2>7. BuffersPure'
    BY <2>4, <2>5, <2>6 DEF PureInv, BuffersPure
  <2> QED
    BY <2>6, <2>7 DEF PureInv, WaitingEmpty, FreshEmpty
<1>5. CASE Tick \/ \E p \in Peers : ReconnectFails(p)
  <2>1. UNCHANGED <<in, wire, connected, sendBuffer, receiveQueue, m_nextPeerID,
                    m_connections, session>>
    BY <1>5 DEF Tick, ReconnectFails, Reconnecting, network, manager, history
  <2>2. \A p \in Peers : due'[p] # Unset => due[p] # Unset
    <3>1. CASE Tick
      BY <3>1, ElapseType DEF Tick, Types, ConnType
    <3>2. CASE \E p \in Peers : ReconnectFails(p)
      <4>1. PICK p \in Peers : ReconnectFails(p)
        BY <3>2
      <4>2. due[p] = 0
        BY <4>1 DEF ReconnectFails, Reconnecting, DuePeers
      <4>3. PICK d \in [Peers -> Nat \cup {Unset}], t \in Nat :
               /\ d = [due EXCEPT ![p] = RetryDelay(reconnectAttempt[p])]
               /\ due' = Elapse(d, t)
        BY <4>1, FailedAttempt
      <4>4. \A q \in Peers : due'[q] = Unset <=> d[q] = Unset
        BY <4>3, ElapseType
      <4>5. \A q \in Peers \ {p} : d[q] = due[q]
        BY <4>3 DEF Types, ConnType
      <4> QED
        BY <4>2, <4>4, <4>5 DEF Unset
    <3> QED
      BY <1>5, <3>1, <3>2
  <2> QED
    BY <2>1, <2>2 DEF PureInv, BuffersPure, WaitingEmpty, FreshEmpty
<1>6. CASE Connect \/ AcceptNewConnection
  <2>1. m_nextPeerID \in Peers
    BY <1>0, <1>6 DEF Connect, AcceptNewConnection, Types, NetType, ManagerType, Peers
  <2> QED
    BY <1>6, <2>1, AddPeerPure DEF Connect, AcceptNewConnection
<1>7. CASE \E p \in Peers : SetAutoReconnect(p)
  <2>1. PICK p \in Peers : SetAutoReconnect(p)
    BY <1>7
  <2>2. UNCHANGED <<in, wire, connected, sendBuffer, receiveQueue, m_nextPeerID,
                    m_connections, session>>
    BY <2>1 DEF SetAutoReconnect, network, manager
  <2>3. due'[p] = Unset /\ \A q \in Peers \ {p} : due'[q] = due[q]
    BY <2>1 DEF SetAutoReconnect, Types, ConnType
  <2> QED
    BY <2>2, <2>3 DEF PureInv, BuffersPure, WaitingEmpty, FreshEmpty
<1>8. CASE \E p \in Peers : Disconnect(p)
  BY <1>8, DropPeerPure DEF Disconnect
<1>9. CASE RemoveDisconnected
  <2>1. Head(removing) \in Peers
    BY <1>9, SetOfTail DEF Types, PassType, RemoveDisconnected
  <2>2. CASE Head(removing) \in m_connections
    BY <1>9, <2>1, <2>2, DropPeerPure DEF RemoveDisconnected
  <2>3. CASE Head(removing) \notin m_connections
    BY <1>9, <2>3, PureKept DEF RemoveDisconnected, conn, history
  <2> QED
    BY <2>2, <2>3
<1>10. CASE \E p \in Peers : SendPacket(p)
  <2>1. PICK p \in Peers : SendPacket(p)
    BY <1>10
  <2>2. sends[p] + 1 \in Nat
    BY DEF Types, AppType
  <2> QED
    BY <2>1, <2>2, SendsPure DEF SendPacket, Senders, history
<1>11. CASE CallbackGreets
  <2>1. greeting \in Peers
    BY <1>11 DEF CallbackGreets, Types, AppType
  <2>2. UNCHANGED <<session, due, receiveQueue, in, m_nextPeerID, m_connections>>
    BY <1>11 DEF CallbackGreets, history
  <2>3. CASE /\ greeting \in m_connections /\ connected[greeting]
             /\ Sends("callback", greeting, Greeting)
    BY <2>1, <2>2, <2>3, SendsPure DEF Greeting, Senders
  <2>4. CASE SendsNothing
    BY <2>2, <2>4, PureKept DEF SendsNothing
  <2> QED
    BY <1>11, <2>3, <2>4 DEF CallbackGreets
<1>12. CASE InjectionRegisters
  <2>1. UNCHANGED <<session, due, receiveQueue, in, m_nextPeerID, m_connections>>
    BY <1>12 DEF InjectionRegisters, history
  <2>2. CASE \E p \in m_connections : connected[p] /\ Sends("injection", p, Greeting)
    BY <2>1, <2>2, SendsPure DEF Greeting, Senders, Types, ManagerType
  <2>3. CASE SendsNothing
    BY <2>1, <2>3, PureKept DEF SendsNothing
  <2> QED
    BY <1>12, <2>2, <2>3 DEF InjectionRegisters
<1>13. CASE \E p \in Peers : ReadPacket(p)
  BY <1>13, PopPure DEF ReadPacket, network, manager, history
<1>14. CASE Shutdown
  BY <1>14, ForgetAllPure DEF Shutdown
<1>15. CASE \E p \in Peers : ReconnectSucceeds(p)
  <2>1. PICK p \in Peers : ReconnectSucceeds(p)
    BY <1>15
  <2>2. p \in m_connections /\ due[p] # Unset
    BY <2>1 DEF ReconnectSucceeds, Reconnecting, DuePeers, Unset
  <2>3. NewSession(p) /\ due' = [due EXCEPT ![p] = Unset]
        /\ UNCHANGED <<sendBuffer, receiveQueue, m_nextPeerID, m_connections>>
    BY <2>1 DEF ReconnectSucceeds, Reconnecting
  <2>4. BuffersPure'
    BY <2>2, <2>3, NewSessionPure DEF PureInv, WaitingEmpty
  <2>5. /\ due'[p] = Unset
        /\ \A q \in Peers \ {p} : due'[q] = due[q] /\ connected'[q] = connected[q]
    BY <2>3 DEF Types, ConnType, NewSession
  <2>6. WaitingEmpty'
    BY <2>3, <2>5 DEF PureInv, WaitingEmpty
  <2>7. FreshEmpty'
    BY <2>3, <2>5 DEF PureInv, FreshEmpty
  <2> QED
    BY <2>4, <2>6, <2>7 DEF PureInv
<1>16. CASE \E p \in Peers : ProcessPeer(p)
  BY <1>16, ProcessPeerPure
<1>17. CASE \E t \in Senders : Continues(t)
  BY <1>17, ContinuesPure
<1>18. CASE GameThread \/ Continues("callback") \/ Continues("injection")
  BY <1>17, <1>18 DEF GameThread, Senders
<1> QED
  BY <1>1, <1>2, <1>3, <1>4, <1>5, <1>6, <1>7, <1>8, <1>9, <1>10, <1>11, <1>12, <1>13,
     <1>14, <1>15, <1>16, <1>18
     DEF Next, Pump, Passes, Application, InjectionThread, Injects, Network

LEMMA PureSession ==
    /\ PureInv => InboundPure
    /\ PureInv /\ ~Threads => SessionPure
BY DEF PureInv, BuffersPure, OfSession, SessionPure, InboundPure

LEMMA PureInvariant == Spec => [](Types /\ PureInv)
<1>1. Init => PureInv
  BY PureInit
<1>2. Types /\ PureInv /\ [Next]_vars => PureInv'
  BY PureStep
<1> QED
  BY <1>1, <1>2, TypesInvariant, PTL DEF Spec

\* No packet of one TCP connection is read as one of the next of the same peer,
\* with the game's threads in sendPacket and readPacket at any time:
\* removeDisconnected clears receiveQueue before it schedules the attempt that
\* makes the next socket, and only processRead, on the same thread, fills it.
\* disconnect() clears it too, and must come between passes: on another thread
\* it could come inside processRead, which the model takes for one step.
THEOREM ClientInboundPure ==
    ASSUME Threads => "disconnect" \notin Calls
    PROVE  Spec => []InboundPure
BY PureInvariant, PureSession, PTL

\* Nor is a byte sent on another TCP connection than the one it was meant for,
\* if the library is called from one thread: sendBuffer is cleared with the
\* socket, and a packet is not stored for a peer that is down.  (With a second
\* thread sendPacket may store the rest of a frame after the clear.)
THEOREM ClientSessionPure ==
    ASSUME ~Threads
    PROVE  Spec => []SessionPure
BY PureInvariant, PureSession, PTL

----------------------------------------------------------------------------
\* Callbacks.

\* A callback is under way only where processEvents or connect calls it, and
\* one at a time.
CallbackInv ==
    /\ InCallback => pc \in {"idle", "first", "accept", "second"}
    /\ cb = NoPeer \/ greeting = NoPeer
    /\ sending["callback"].at = "idle" \/ (cb = NoPeer /\ greeting = NoPeer)

LEMMA CallbackInit == Init => CallbackInv
BY DEF Init, CallbackInv, InCallback, Senders, NotSending

\* A call changes the state of its own sender only.
LEMMA OtherSender ==
    ASSUME Types, NEW t \in Senders, Continues(t) \/ \E p, n : Sends(t, p, n)
    PROVE  \A u \in Senders \ {t} : sending'[u] = sending[u]
BY DEF Types, AppType, CallsType, Continues, SendTries, SendStores, Sends, SendChecks

LEMMA CallbackStep == Types /\ CallbackInv /\ [Next]_vars => CallbackInv'
<1> SUFFICES ASSUME Types, CallbackInv, [Next]_vars PROVE CallbackInv'
  OBVIOUS
<1>1. CASE UNCHANGED <<cb, greeting, pc>> /\ sending'["callback"] = sending["callback"]
  BY <1>1 DEF CallbackInv, InCallback
<1>2. CASE \/ Connect \/ AcceptNewConnection \/ \E p \in Peers : ReconnectSucceeds(p)
  <2>1. ~InCallback /\ greeting' = greeting /\ pc' = pc /\ pc \in {"idle", "first", "accept", "second"}
    BY <1>2 DEF Connect, AcceptNewConnection, ReconnectSucceeds, Reconnecting, AddPeer,
                NewSession, pass
  <2>2. UNCHANGED sending
    BY <1>2 DEF Connect, AcceptNewConnection, ReconnectSucceeds, AddPeer, NewSession, calls
  <2> QED
    BY <2>1, <2>2 DEF CallbackInv, InCallback
<1>3. CASE CallbackStores
  BY <1>3 DEF CallbackStores, CallbackInv, InCallback, pass, calls
<1>4. CASE CallbackGreets
  <2>1. greeting # NoPeer /\ UNCHANGED <<cb, pc>> /\ greeting' = NoPeer
    BY <1>4 DEF CallbackGreets, pass
  <2> QED
    BY <2>1 DEF CallbackInv, InCallback
<1>5. CASE ProcessEvents \/ FirstDone \/ Select \/ PassDone
  BY <1>5 DEF ProcessEvents, FirstDone, Select, PassDone, LoopDone, CallbackInv, InCallback,
              app, calls
<1>6. CASE StartRemoving \/ RemovingDone
  BY <1>6 DEF StartRemoving, RemovingDone, CallbackInv, InCallback, app, calls
<1>7. CASE RemoveDisconnected \/ \E p \in Peers : ReconnectFails(p) \/ ProcessPeer(p)
  BY <1>1, <1>7 DEF RemoveDisconnected, ReconnectFails, Reconnecting, ProcessPeer, app, calls
<1>8. CASE \/ Listen \/ StopListen \/ Shutdown \/ Initialize
           \/ \E p \in Peers : SetAutoReconnect(p) \/ Disconnect(p) \/ ReadPacket(p)
  BY <1>1, <1>8 DEF Listen, StopListen, Shutdown, ForgetAll, Initialize, SetAutoReconnect,
                    Disconnect, ReadPacket, app, pass, calls
<1>9. CASE HookVTable \/ GetLocalSteamID \/ Network \/ Tick
  BY <1>1, <1>9 DEF HookVTable, GetLocalSteamID, Network, Reachability, RemoteConnects,
                    RemoteEnds, RemoteSends, Tick, app, pass, calls
<1>10. CASE UNCHANGED vars
  BY <1>1, <1>10 DEF vars, app, pass, calls
<1>11. CASE InjectionRegisters \/ \E p \in Peers : SendPacket(p)
  <2>1. UNCHANGED <<cb, greeting, pc>>
    BY <1>11 DEF InjectionRegisters, SendPacket, pass
  <2>2. \/ UNCHANGED sending
        \/ \E t \in {"game", "injection"} : \E p, n : Sends(t, p, n)
    BY <1>11 DEF InjectionRegisters, SendPacket, SendsNothing
  <2>3. sending'["callback"] = sending["callback"]
    BY <2>2, OtherSender DEF Senders
  <2> QED
    BY <1>1, <2>1, <2>3
<1>12. CASE GameThread \/ Continues("injection")
  <2>1. UNCHANGED <<cb, greeting, pc>>
    BY <1>12 DEF GameThread, Continues, SendTries, SendStores, pass
  <2>2. sending'["callback"] = sending["callback"]
    BY <1>12, OtherSender DEF Senders, GameThread
  <2> QED
    BY <1>1, <2>1, <2>2
<1>13. CASE Continues("callback")
  <2>1. UNCHANGED <<cb, greeting, pc>> /\ sending["callback"].at # "idle"
    BY <1>13 DEF Continues, SendTries, SendStores, pass
  <2> QED
    BY <2>1 DEF CallbackInv, InCallback
<1> QED
  BY <1>2, <1>3, <1>4, <1>5, <1>6, <1>7, <1>8, <1>9, <1>10, <1>11, <1>12, <1>13
     DEF Next, Pump, Passes, Application, InjectionThread, Injects

----------------------------------------------------------------------------
\* Calls from one thread: what a step means for a peer.

LEMMA MarkedIs ==
    /\ pc = "remove" => Marked = SetOf(removing)
    /\ pc # "remove" => Marked = SetOf(m_pendingRemove)
    /\ (pc = "remove")' => Marked' = SetOf(removing)'
    /\ (pc # "remove")' => Marked' = SetOf(m_pendingRemove)'
BY DEF Marked, SetOf

LEMMA MarkedKept == UNCHANGED <<pc, removing, m_pendingRemove>> => Marked' = Marked
BY DEF Marked

KeepsTable(p) ==
    /\ p \in m_connections' <=> p \in m_connections
    /\ autoReconnect'[p] = autoReconnect[p]

KeepsCounts(p) == ups'[p] = ups[p] /\ downs'[p] = downs[p]

KeepsMark(p) == p \in Marked' <=> p \in Marked

Same(p) ==
    /\ connected'[p] = connected[p]
    /\ due'[p] = Unset <=> due[p] = Unset
    /\ p \in unscheduled' <=> p \in unscheduled
    /\ p = cb' <=> p = cb
    /\ KeepsTable(p) /\ KeepsCounts(p) /\ KeepsMark(p)

\* A TCP connection is made, for a new peer or for one that waited.
Opens(p) ==
    /\ p \in m_connections => ~connected[p] /\ due[p] # Unset
    /\ cb = NoPeer /\ cb' = p
    /\ connected'[p] /\ due'[p] = Unset /\ p \in m_connections'
    /\ KeepsCounts(p) /\ KeepsMark(p)

\* The connection is found dead and marked.
Marks(p) ==
    /\ p \in m_connections /\ connected[p] /\ due[p] = Unset
    /\ cb # p /\ cb' # p
    /\ ~connected'[p] /\ due'[p] = Unset /\ p \in Marked'
    /\ p \in m_connections' /\ KeepsCounts(p)

\* It is closed and reported: by removeDisconnected, or by disconnect.
Closed(p) ==
    /\ p \in m_connections /\ ~connected'[p]
    /\ p \in m_connections' => autoReconnect'[p] /\ due'[p] # Unset
    /\ cb' = cb /\ ups'[p] = ups[p] /\ downs'[p] = downs[p] + 1

Removes(p) ==
    Closed(p) /\ pc = "remove" /\ p \in Marked /\ (NoRepeats(removing) => p \notin Marked')

Disconnects(p) == Closed(p) /\ "disconnect" \in Calls

\* A mark of a peer that is not in the table is passed over.
PassesOver(p) ==
    /\ pc = "remove" /\ p \in Marked /\ p \notin m_connections /\ p \notin m_connections'
    /\ cb' = cb /\ KeepsCounts(p) /\ (NoRepeats(removing) => p \notin Marked')

Announces(p) ==
    /\ cb = p /\ cb' = NoPeer
    /\ ups'[p] = ups[p] + 1 /\ downs'[p] = downs[p]
    /\ connected'[p] = connected[p] /\ due'[p] = due[p]
    /\ p \in unscheduled' <=> p \in unscheduled
    /\ KeepsTable(p) /\ KeepsMark(p)

\* setAutoReconnect.
Reschedules(p) ==
    /\ connected'[p] = connected[p] /\ due'[p] = Unset /\ cb' = cb
    /\ ~connected[p] => p \in unscheduled'
    /\ p \in m_connections' <=> p \in m_connections
    /\ KeepsCounts(p) /\ KeepsMark(p)

Forgets(p) ==
    /\ "shutdown" \in Calls
    /\ p \notin m_connections' /\ p \notin Marked'
    /\ cb' = NoPeer

StepAt(p) ==
    \/ Same(p) \/ Opens(p) \/ Marks(p) \/ Removes(p) \/ Disconnects(p) \/ PassesOver(p)
    \/ Announces(p) \/ Reschedules(p) \/ Forgets(p)

LEMMA SameKept ==
    ASSUME UNCHANGED <<connected, autoReconnect, due, m_connections, unscheduled, cb, ups, downs>>,
           Marked' = Marked
    PROVE  \A p \in Peers : Same(p)
BY DEF Same, KeepsTable, KeepsCounts, KeepsMark

LEMMA QuietAt ==
    ASSUME UNCHANGED <<connected, autoReconnect, due, m_connections, unscheduled, cb, ups,
                       downs, pc, removing, m_pendingRemove>>
    PROVE  \A p \in Peers : Same(p)
BY SameKept, MarkedKept

LEMMA TransmitAt ==
    ASSUME Types, PureInv, ~Threads, NEW q \in Peers, NEW n, NEW t, Sends(t, q, n),
           q \in m_connections, connected[q], cb # q, pc # "remove",
           UNCHANGED <<autoReconnect, due, m_connections, unscheduled, cb, ups, downs, pc, removing>>,
           NEW p \in Peers
    PROVE  Same(p) \/ Marks(p)
<1>0. Transmit(q, n)
  BY DEF Sends
<1>1. CASE ~SendFails(q)
  <2>1. UNCHANGED <<connected, m_pendingRemove>>
    BY <1>0, <1>1 DEF Transmit
  <2> QED
    BY <2>1, QuietAt
<1>2. CASE SendFails(q)
  <2>1. connected' = [connected EXCEPT ![q] = FALSE] /\ m_pendingRemove' = Append(m_pendingRemove, q)
    BY <1>0, <1>2 DEF Transmit
  <2>2. Marked = SetOf(m_pendingRemove) /\ Marked' = SetOf(m_pendingRemove')
    BY MarkedIs
  <2>3. Marked' = Marked \cup {q}
    BY <2>1, <2>2, SetOfAppend DEF Types, ManagerType
  <2>4. CASE p = q
    <3>1. due[p] = Unset
      BY <2>4 DEF PureInv, WaitingEmpty
    <3>2. ~connected'[p]
      BY <2>1, <2>4 DEF Types, ConnType
    <3> QED
      BY <2>3, <2>4, <3>1, <3>2 DEF Marks, KeepsCounts
  <2>5. CASE p # q
    <3>1. connected'[p] = connected[p]
      BY <2>1, <2>5 DEF Types, ConnType
    <3> QED
      BY <2>3, <2>5, <3>1 DEF Same, KeepsTable, KeepsCounts, KeepsMark
  <2> QED
    BY <2>4, <2>5
<1> QED
  BY <1>1, <1>2

LEMMA OpenAt ==
    ASSUME Types, NEW q \in Peers, NewSession(q), ~InCallback,
           q \in m_connections => ~connected[q] /\ due[q] # Unset,
           due'[q] = Unset, \A r \in Peers \ {q} : due'[r] = due[r],
           m_connections' = m_connections \cup {q},
           UNCHANGED <<autoReconnect, ups, downs, pc, removing, m_pendingRemove>>,
           NEW p \in Peers
    PROVE  Same(p) \/ Opens(p)
<1>1. cb = NoPeer /\ cb' = q /\ Marked' = Marked
  BY MarkedKept DEF InCallback, NewSession
<1>2. connected'[q] /\ \A r \in Peers \ {q} : connected'[r] = connected[r]
  BY DEF Types, ConnType, NewSession
<1>3. \A r \in Peers \ {q} : r \in unscheduled' <=> r \in unscheduled
  BY DEF NewSession
<1>4. \A r \in Peers : r # NoPeer
  BY DEF Peers, NoPeer
<1>5. CASE p = q
  BY <1>1, <1>2, <1>5 DEF Opens, KeepsCounts, KeepsMark
<1>6. CASE p # q
  BY <1>1, <1>2, <1>3, <1>4, <1>6 DEF Same, KeepsTable, KeepsCounts, KeepsMark
<1> QED
  BY <1>5, <1>6

LEMMA DropAt ==
    ASSUME Types, NEW q \in Peers, q \in m_connections, DropPeer(q), cb' = cb
    PROVE  /\ Closed(q)
           /\ \A p \in Peers \ {q} : KeepsMark(p) => Same(p)
<1>0. BaseDelay # Unset
  BY ClientBoundsAssumption DEF Unset
<1>1. ~connected'[q] /\ \A r \in Peers \ {q} : connected'[r] = connected[r]
  BY DEF Types, ConnType, DropPeer
<1>2. /\ due'[q] = IF autoReconnect[q] THEN BaseDelay ELSE Unset
      /\ \A r \in Peers \ {q} : due'[r] = due[r]
  BY DEF Types, ConnType, DropPeer, RescheduleOrErase
<1>3. /\ m_connections' = IF autoReconnect[q] THEN m_connections ELSE m_connections \ {q}
      /\ autoReconnect' = autoReconnect /\ ups' = ups
  BY DEF DropPeer, RescheduleOrErase
<1>4. downs'[q] = downs[q] + 1 /\ \A r \in Peers \ {q} : downs'[r] = downs[r]
  BY DEF Types, HistType, DropPeer
<1>5. unscheduled' = unscheduled \ {q}
  BY DEF DropPeer
<1>6. Closed(q)
  BY <1>0, <1>1, <1>2, <1>3, <1>4 DEF Closed
<1>7. \A p \in Peers \ {q} : KeepsMark(p) => Same(p)
  BY <1>1, <1>2, <1>3, <1>4, <1>5 DEF Same, KeepsTable, KeepsCounts
<1> QED
  BY <1>6, <1>7

LEMMA RemoveAt ==
    ASSUME Types, RemoveDisconnected, NEW p \in Peers
    PROVE  Same(p) \/ Removes(p) \/ PassesOver(p)
<1> DEFINE h == Head(removing)
<1>1. /\ pc = "remove" /\ pc' = "remove" /\ removing # <<>> /\ removing' = Tail(removing) /\ cb' = cb
  BY DEF RemoveDisconnected
<1>2. /\ h \in Peers /\ SetOf(removing) = {h} \cup SetOf(Tail(removing))
      /\ NoRepeats(removing) => h \notin SetOf(Tail(removing))
  BY <1>1, SetOfTail DEF Types, PassType
<1>3. Marked = SetOf(removing) /\ Marked' = SetOf(Tail(removing))
  BY <1>1, MarkedIs
<1> HIDE DEF h
<1>4. h \in Marked /\ (NoRepeats(removing) => h \notin Marked') /\ (p # h => KeepsMark(p))
  BY <1>2, <1>3 DEF KeepsMark
<1>5. CASE h \in m_connections
  <2>1. DropPeer(h)
    BY <1>5 DEF RemoveDisconnected, h
  <2>2. Closed(h) /\ \A r \in Peers \ {h} : KeepsMark(r) => Same(r)
    BY <1>1, <1>2, <1>5, <2>1, DropAt
  <2> QED
    BY <1>1, <1>4, <2>2 DEF Removes
<1>6. CASE h \notin m_connections
  <2>1. UNCHANGED <<connected, autoReconnect, due, m_connections, unscheduled, ups, downs>>
    BY <1>6 DEF RemoveDisconnected, h, conn, history
  <2>2. CASE p = h
    BY <1>1, <1>4, <1>6, <2>1, <2>2 DEF PassesOver, KeepsCounts
  <2>3. CASE p # h
    BY <1>1, <1>4, <2>1, <2>3 DEF Same, KeepsTable, KeepsCounts
  <2> QED
    BY <2>2, <2>3
<1> QED
  BY <1>5, <1>6

LEMMA ProcessPeerAt ==
    ASSUME Types, PureInv, CallbackInv, NEW q \in Peers, ProcessPeer(q), NEW p \in Peers
    PROVE  Same(p) \/ Marks(p)
<1>1. /\ pc = "io" /\ pc' = "io" /\ removing' = removing
      /\ UNCHANGED <<autoReconnect, due, m_connections, unscheduled, cb, ups, downs>>
  BY DEF ProcessPeer, app, history
<1>2. cb = NoPeer /\ p # NoPeer
  BY <1>1 DEF CallbackInv, InCallback, Peers, NoPeer
<1>3. Marked = SetOf(m_pendingRemove) /\ Marked' = SetOf(m_pendingRemove')
  BY <1>1, MarkedIs
<1>4. CASE UNCHANGED <<connected, m_pendingRemove>>
  BY <1>1, <1>4, QuietAt
<1>5. ASSUME NEW c \in BOOLEAN, NEW f \in BOOLEAN, MarkDown(q, c, f), q \in Selectable
      PROVE  Same(p) \/ Marks(p)
  <2>1. Marked' = Marked \cup (IF c \/ f THEN {q} ELSE {})
    BY <1>3, <1>5, MarkDownType
  <2>2. connected'[q] <=> connected[q] /\ ~c /\ ~f
    BY <1>5 DEF MarkDown, Types, ConnType
  <2>3. q \in m_connections /\ connected[q]
    BY <1>5 DEF Selectable
  <2>4. \A r \in Peers \ {q} : connected'[r] = connected[r]
    BY <1>5 DEF MarkDown, Types, ConnType
  <2>5. CASE p # q
    BY <1>1, <2>1, <2>4, <2>5 DEF Same, KeepsTable, KeepsCounts, KeepsMark
  <2>6. CASE p = q /\ (c \/ f)
    <3>1. due[p] = Unset
      BY <2>3, <2>6 DEF PureInv, WaitingEmpty
    <3> QED
      BY <1>1, <1>2, <2>1, <2>2, <2>3, <2>6, <3>1 DEF Marks, KeepsCounts
  <2>7. CASE p = q /\ ~c /\ ~f
    <3>1. connected'[p] = connected[p]
      <4>1. connected' = [connected EXCEPT ![q] = connected[q] /\ ~c /\ ~f]
        BY <1>5 DEF MarkDown
      <4>2. (connected[q] /\ ~c /\ ~f) = connected[q]
        BY <2>7 DEF Types, ConnType
      <4> QED
        BY <2>7, <4>1, <4>2 DEF Types, ConnType
    <3>2. Marked' = Marked
      BY <2>1, <2>7
    <3> QED
      BY <1>1, <3>1, <3>2 DEF Same, KeepsTable, KeepsCounts, KeepsMark
  <2> QED
    BY <2>5, <2>6, <2>7
<1>6. ReadCloses(q) \in BOOLEAN /\ WriteFails(q) \in BOOLEAN
  BY DEF ReadCloses, WriteFails
<1> QED
  BY <1>4, <1>5, <1>6, ProcessPeerCases

LEMMA PumpAt ==
    ASSUME Types, PureInv, CallbackInv, ~Threads, Pump, NEW p \in Peers
    PROVE  StepAt(p)
<1>0. m_nextPeerID \in Nat /\ MaxPeers \in Nat
  BY ClientBoundsAssumption DEF Types, ManagerType
<1>1. CASE ProcessEvents \/ FirstDone \/ Select \/ PassDone
  <2>1. UNCHANGED <<connected, autoReconnect, due, m_connections, unscheduled, cb, ups,
                    downs, m_pendingRemove>>
    BY <1>1 DEF ProcessEvents, FirstDone, Select, PassDone, conn, manager, app, history
  <2>2. pc # "remove" /\ pc' # "remove"
    BY <1>1 DEF ProcessEvents, FirstDone, Select, PassDone
  <2>3. Marked' = Marked
    BY <2>1, <2>2, MarkedIs DEF SetOf
  <2> QED
    BY <2>1, <2>3, SameKept DEF StepAt
<1>2. CASE StartRemoving
  <2>1. UNCHANGED <<connected, autoReconnect, due, m_connections, unscheduled, cb, ups, downs>>
    BY <1>2 DEF StartRemoving, conn, manager, app, history
  <2>2. pc # "remove" /\ pc' = "remove" /\ removing' = SortedUnique(m_pendingRemove)
    BY <1>2 DEF StartRemoving
  <2>3. Marked = SetOf(m_pendingRemove) /\ Marked' = SetOf(SortedUnique(m_pendingRemove))
    BY <2>2, MarkedIs
  <2>4. Marked' = Marked
    BY <2>3, SortedUniqueSet DEF Types, ManagerType
  <2> QED
    BY <2>1, <2>4, SameKept DEF StepAt
<1>3. CASE RemovingDone
  <2>1. UNCHANGED <<connected, autoReconnect, due, m_connections, unscheduled, cb, ups, downs>>
    BY <1>3 DEF RemovingDone, conn, app, history
  <2>2. pc = "remove" /\ pc' # "remove" /\ removing = <<>> /\ m_pendingRemove' = <<>>
    BY <1>3 DEF RemovingDone, ClearedMarks
  <2>3. Marked = SetOf(<<>>) /\ Marked' = SetOf(<<>>)
    BY <2>2, MarkedIs
  <2> QED
    BY <2>1, <2>3, SameKept DEF StepAt
<1>4. CASE AcceptNewConnection
  <2>1. m_nextPeerID \in Peers
    BY <1>0, <1>4 DEF AcceptNewConnection, Types, NetType, ManagerType, Peers
  <2>2. due[m_nextPeerID] = Unset /\ m_nextPeerID \notin m_connections
    BY <1>0, <2>1 DEF PureInv, FreshEmpty
  <2>3. /\ NewSession(m_nextPeerID) /\ m_connections' = m_connections \cup {m_nextPeerID}
        /\ ~InCallback
        /\ UNCHANGED <<autoReconnect, due, ups, downs, pc, removing, m_pendingRemove>>
    BY <1>4 DEF AcceptNewConnection, AddPeer, pass
  <2> QED
    BY <2>1, <2>2, <2>3, OpenAt DEF StepAt
<1>5. CASE RemoveDisconnected
  BY <1>5, RemoveAt DEF StepAt
<1>6. CASE CallbackStores
  <2>1. cb \in Peers /\ cb' = NoPeer /\ p # NoPeer
    BY <1>6 DEF CallbackStores, Types, AppType, Peers, NoPeer
  <2>2. ups'[cb] = ups[cb] + 1 /\ \A r \in Peers \ {cb} : ups'[r] = ups[r]
    BY <1>6, <2>1 DEF CallbackStores, Types, HistType
  <2>3. UNCHANGED <<connected, autoReconnect, due, m_connections, unscheduled, downs>>
    BY <1>6 DEF CallbackStores, conn, manager
  <2>4. Marked' = Marked
    BY <1>6, MarkedKept DEF CallbackStores, pass, manager
  <2>5. CASE p = cb
    BY <2>1, <2>2, <2>3, <2>4, <2>5 DEF StepAt, Announces, KeepsTable, KeepsMark
  <2>6. CASE p # cb
    BY <2>1, <2>2, <2>3, <2>4, <2>6 DEF StepAt, Same, KeepsTable, KeepsCounts, KeepsMark
  <2> QED
    BY <2>5, <2>6
<1>7. CASE CallbackGreets
  <2>1. greeting \in Peers /\ cb = NoPeer /\ pc # "remove" /\ cb # greeting
    BY <1>7 DEF CallbackGreets, Types, AppType, CallbackInv, InCallback, NoPeer, Peers
  <2>2. UNCHANGED <<autoReconnect, due, m_connections, unscheduled, cb, ups, downs, pc, removing>>
    BY <1>7 DEF CallbackGreets, pass, history
  <2>3. CASE /\ greeting \in m_connections /\ connected[greeting]
             /\ Sends("callback", greeting, Greeting)
    BY <2>1, <2>2, <2>3, TransmitAt DEF StepAt
  <2>4. CASE SendsNothing
    BY <2>2, <2>4, QuietAt DEF SendsNothing, StepAt
  <2> QED
    BY <1>7, <2>3, <2>4 DEF CallbackGreets
<1>8. CASE \E q \in Peers : ReconnectSucceeds(q)
  <2>1. PICK q \in Peers : ReconnectSucceeds(q)
    BY <1>8
  <2>2. /\ NewSession(q) /\ ~InCallback /\ q \in DuePeers
        /\ due' = [due EXCEPT ![q] = Unset]
        /\ UNCHANGED <<autoReconnect, m_connections, ups, downs, pc, removing, m_pendingRemove>>
    BY <2>1 DEF ReconnectSucceeds, Reconnecting
  <2>3. q \in m_connections /\ ~connected[q] /\ due[q] # Unset
    BY <2>2 DEF DuePeers, Unset
  <2>4. due'[q] = Unset /\ \A r \in Peers \ {q} : due'[r] = due[r]
    BY <2>2 DEF Types, ConnType
  <2>5. m_connections' = m_connections \cup {q}
    BY <2>2, <2>3
  <2> QED
    BY <2>2, <2>3, <2>4, <2>5, OpenAt DEF StepAt
<1>9. CASE \E q \in Peers : ReconnectFails(q)
  <2>1. PICK q \in Peers : ReconnectFails(q)
    BY <1>9
  <2>2. UNCHANGED <<connected, autoReconnect, m_connections, unscheduled, cb, ups, downs,
                    pc, removing, m_pendingRemove>>
    BY <2>1 DEF ReconnectFails, Reconnecting, app
  <2>3. due'[p] = Unset <=> due[p] = Unset
    <3>1. due[q] # Unset
      BY <2>1 DEF ReconnectFails, Reconnecting, DuePeers, Unset
    <3>2. PICK d \in [Peers -> Nat \cup {Unset}], t \in Nat :
             /\ d = [due EXCEPT ![q] = RetryDelay(reconnectAttempt[q])]
             /\ d[q] \in Nat
             /\ due' = Elapse(d, t)
      BY <2>1, FailedAttempt
    <3>3. due'[p] = Unset <=> d[p] = Unset
      BY <3>2, ElapseType
    <3>4. p # q => d[p] = due[p]
      BY <3>2 DEF Types, ConnType
    <3>5. d[q] # Unset
      BY <3>2 DEF Unset
    <3> QED
      BY <3>1, <3>3, <3>4, <3>5
  <2> QED
    BY <2>2, <2>3, MarkedKept DEF StepAt, Same, KeepsTable, KeepsCounts, KeepsMark
<1>10. CASE \E q \in Peers : ProcessPeer(q)
  BY <1>10, ProcessPeerAt DEF StepAt
<1>11. ~Continues("callback")
  BY ContinuesThreads DEF Senders
<1> QED
  BY <1>1, <1>2, <1>3, <1>4, <1>5, <1>6, <1>7, <1>8, <1>9, <1>10, <1>11 DEF Pump, Passes

LEMMA ApplicationAt ==
    ASSUME Types, PureInv, CallbackInv, ~Threads, Application, NEW p \in Peers
    PROVE  StepAt(p)
<1>0. m_nextPeerID \in Nat /\ MaxPeers \in Nat
  BY ClientBoundsAssumption DEF Types, ManagerType
<1>1. CASE Listen \/ StopListen \/ Initialize
  BY <1>1, QuietAt DEF Listen, StopListen, Initialize, conn, manager, pass, app, history, StepAt
<1>2. CASE \E q \in Peers : ReadPacket(q)
  BY <1>2, QuietAt DEF ReadPacket, manager, pass, app, history, StepAt
<1>3. CASE Connect
  <2>1. m_nextPeerID \in Peers
    BY <1>0, <1>3 DEF Connect, Types, NetType, ManagerType, Peers
  <2>2. due[m_nextPeerID] = Unset /\ m_nextPeerID \notin m_connections
    BY <1>0, <2>1 DEF PureInv, FreshEmpty
  <2>3. /\ NewSession(m_nextPeerID) /\ m_connections' = m_connections \cup {m_nextPeerID}
        /\ ~InCallback
        /\ UNCHANGED <<autoReconnect, due, ups, downs, pc, removing, m_pendingRemove>>
    BY <1>3 DEF Connect, AddPeer, pass
  <2> QED
    BY <2>1, <2>2, <2>3, OpenAt DEF StepAt
<1>4. CASE Shutdown
  <2>1. /\ "shutdown" \in Calls /\ pc = "idle" /\ pc' = "idle" /\ cb' = NoPeer
        /\ m_connections' = {} /\ m_pendingRemove' = <<>>
    BY <1>4 DEF Shutdown, ForgetAll, pass, InCallback
  <2>2. Marked' = SetOf(<<>>)
    BY <2>1, MarkedIs
  <2>3. Marked' = {}
    BY <2>2, EmptySeq DEF SetOf
  <2> QED
    BY <2>1, <2>3 DEF StepAt, Forgets
<1>5. CASE \E q \in Peers : SetAutoReconnect(q)
  <2>1. PICK q \in Peers : SetAutoReconnect(q)
    BY <1>5
  <2>2. UNCHANGED <<connected, m_connections, cb, ups, downs, pc, removing, m_pendingRemove>>
    BY <2>1 DEF SetAutoReconnect, manager, pass, app
  <2>3. Marked' = Marked
    BY <2>2, MarkedKept
  <2>4. due'[q] = Unset /\ \A r \in Peers \ {q} : due'[r] = due[r] /\ autoReconnect'[r] = autoReconnect[r]
    BY <2>1 DEF SetAutoReconnect, Types, ConnType
  <2>5. /\ ~connected[q] => q \in unscheduled'
        /\ \A r \in Peers \ {q} : r \in unscheduled' <=> r \in unscheduled
    BY <2>1 DEF SetAutoReconnect
  <2>6. CASE p = q
    BY <2>2, <2>3, <2>4, <2>5, <2>6 DEF StepAt, Reschedules, KeepsCounts, KeepsMark
  <2>7. CASE p # q
    BY <2>2, <2>3, <2>4, <2>5, <2>7 DEF StepAt, Same, KeepsTable, KeepsCounts, KeepsMark
  <2> QED
    BY <2>6, <2>7
<1>6. CASE \E q \in Peers : Disconnect(q)
  <2>1. PICK q \in Peers : Disconnect(q)
    BY <1>6
  <2>2. /\ "disconnect" \in Calls /\ q \in m_connections /\ DropPeer(q)
        /\ UNCHANGED <<cb, pc, removing, m_pendingRemove>>
    BY <2>1 DEF Disconnect, pass
  <2>3. KeepsMark(p)
    BY <2>2, MarkedKept DEF KeepsMark
  <2> QED
    BY <2>2, <2>3, DropAt DEF StepAt, Disconnects
<1>7. CASE \E q \in Peers : SendPacket(q)
  <2>1. PICK q \in Peers : SendPacket(q)
    BY <1>7
  <2>2. /\ Sends("game", q, sends[q] + 1) /\ q \in m_connections /\ connected[q] /\ MayCall
        /\ UNCHANGED <<autoReconnect, due, m_connections, unscheduled, cb, ups, downs, pc, removing>>
    BY <2>1 DEF SendPacket, pass, history
  <2>3. pc # "remove" /\ cb = NoPeer /\ q # NoPeer
    BY <2>2 DEF MayCall, InCallback, Peers, NoPeer
  <2> QED
    BY <2>2, <2>3, TransmitAt DEF StepAt
<1> QED
  BY <1>1, <1>2, <1>3, <1>4, <1>5, <1>6, <1>7 DEF Application

LEMMA EveryStepAt ==
    ASSUME Types, PureInv, CallbackInv, ~Threads, [Next]_vars, NEW p \in Peers
    PROVE  StepAt(p)
<1>1. CASE UNCHANGED vars
  BY <1>1, QuietAt DEF vars, conn, manager, pass, app, history, StepAt
<1>2. CASE Network
  BY <1>2, QuietAt DEF Network, Reachability, RemoteConnects, RemoteEnds, RemoteSends,
                       conn, manager, pass, app, history, StepAt
<1>3. CASE Tick
  <2>1. UNCHANGED <<connected, autoReconnect, m_connections, unscheduled, cb, ups, downs,
                    pc, removing, m_pendingRemove>>
    BY <1>3 DEF Tick, manager, pass, app, history
  <2>2. due'[p] = Unset <=> due[p] = Unset
    BY <1>3, ElapseType DEF Tick, Types, ConnType
  <2> QED
    BY <2>1, <2>2, MarkedKept DEF StepAt, Same, KeepsTable, KeepsCounts, KeepsMark
<1>4. CASE HookVTable \/ GetLocalSteamID
  BY <1>4, QuietAt DEF HookVTable, GetLocalSteamID, conn, manager, pass, history, StepAt
<1>5. CASE InjectionRegisters
  <2>1. /\ pc # "remove" /\ cb = NoPeer
        /\ UNCHANGED <<autoReconnect, due, m_connections, unscheduled, cb, ups, downs, pc, removing>>
    BY <1>5 DEF InjectionRegisters, InCallback, pass, history
  <2>2. CASE \E q \in m_connections : connected[q] /\ Sends("injection", q, Greeting)
    <3>1. PICK q \in m_connections : connected[q] /\ Sends("injection", q, Greeting)
      BY <2>2
    <3>2. q \in Peers /\ q # cb
      BY <2>1 DEF Types, ManagerType, Peers, NoPeer
    <3> QED
      BY <2>1, <3>1, <3>2, TransmitAt DEF StepAt
  <2>3. CASE SendsNothing
    BY <2>1, <2>3, QuietAt DEF SendsNothing, StepAt
  <2> QED
    BY <1>5, <2>2, <2>3 DEF InjectionRegisters
<1>6. ~GameThread /\ ~Continues("injection")
  BY ContinuesThreads DEF GameThread, Senders
<1> QED
  BY <1>1, <1>2, <1>3, <1>4, <1>5, <1>6, PumpAt, ApplicationAt
     DEF Next, InjectionThread, Injects

LEMMA CalmInvariant == Spec => [](Types /\ PureInv /\ CallbackInv)
BY PureInvariant, CallbackInit, CallbackStep, PTL DEF Spec

\* With calls from one thread, and whichever calls they are, no peer is
\* forgotten: one that is down is on the removal list, or has an attempt
\* scheduled that attemptReconnects will not skip, or the application cleared
\* the schedule itself.  Every place that clears connected also appends to
\* m_pendingRemove, and removeDisconnected schedules what it keeps.
THEOREM ClientNoZombie ==
    ASSUME ~Threads
    PROVE  Spec => []NoZombie
<1>1. Init => NoZombie
  BY DEF Init, NoZombie
<1>2. Types /\ PureInv /\ CallbackInv /\ NoZombie /\ [Next]_vars => NoZombie'
  <2> SUFFICES ASSUME Types, PureInv, CallbackInv, NoZombie, [Next]_vars,
                      NEW p, p \in m_connections', p \notin unscheduled', ~connected'[p],
                      p \notin Marked'
               PROVE  autoReconnect'[p] /\ due'[p] # Unset
    BY DEF NoZombie
  <2>1. p \in Peers
    <3>1. Types'
      BY TypesStep
    <3> QED
      BY <3>1 DEF Types, ManagerType
  <2>2. StepAt(p)
    BY <2>1, EveryStepAt
  <2>3. CASE Same(p)
    BY <2>3 DEF NoZombie, Same, KeepsTable, KeepsMark
  <2>4. CASE Announces(p)
    BY <2>4 DEF NoZombie, Announces, KeepsTable, KeepsMark
  <2>5. CASE Removes(p) \/ Disconnects(p)
    BY <2>5 DEF Removes, Disconnects, Closed
  <2>6. CASE Opens(p) \/ Marks(p) \/ PassesOver(p) \/ Reschedules(p) \/ Forgets(p)
    BY <2>6 DEF Opens, Marks, PassesOver, Reschedules, Forgets
  <2> QED
    BY <2>2, <2>3, <2>4, <2>5, <2>6 DEF StepAt
<1> QED
  BY <1>1, <1>2, CalmInvariant, PTL DEF Spec

\* Without disconnect a mark is about the peer's present connection, until
\* removeDisconnected comes to it, once.
MarkInv ==
    /\ \A p \in Marked : p \in m_connections /\ ~connected[p] /\ due[p] = Unset /\ p # cb
    /\ pc = "remove" => NoRepeats(removing)

LEMMA MarkInit == Init => MarkInv
<1> SUFFICES ASSUME Init PROVE MarkInv
  OBVIOUS
<1>1. pc # "remove" /\ m_pendingRemove = <<>>
  BY DEF Init
<1>2. Marked = SetOf(<<>>)
  BY <1>1, MarkedIs
<1>3. Marked = {}
  BY <1>2, EmptySeq DEF SetOf
<1> QED
  BY <1>1, <1>3 DEF MarkInv

\* What removeDisconnected goes through has no repetitions.
LEMMA UniqueStep ==
    ASSUME Types, [Next]_vars, pc = "remove" => NoRepeats(removing), pc' = "remove"
    PROVE  NoRepeats(removing')
<1>1. CASE UNCHANGED <<pc, removing>>
  BY <1>1 DEF NoRepeats
<1>2. CASE StartRemoving
  BY <1>2, SortedUniqueSet DEF StartRemoving, Types, ManagerType
<1>3. CASE RemoveDisconnected
  BY <1>3, SetOfTail DEF RemoveDisconnected, Types, PassType
<1>4. CASE \/ ProcessEvents \/ FirstDone \/ Select \/ RemovingDone \/ PassDone
  BY <1>4 DEF ProcessEvents, FirstDone, Select, RemovingDone, PassDone
<1>5. CASE \/ AcceptNewConnection \/ CallbackStores \/ CallbackGreets
           \/ \E p \in Peers : ReconnectSucceeds(p) \/ ReconnectFails(p) \/ ProcessPeer(p)
  BY <1>1, <1>5 DEF AcceptNewConnection, CallbackStores, CallbackGreets, ReconnectSucceeds,
                    ReconnectFails, Reconnecting, ProcessPeer, pass
<1>6. CASE \E t \in Senders : Continues(t)
  BY <1>1, <1>6 DEF Continues, SendTries, SendStores, pass
<1>7. CASE Application
  BY <1>1, <1>7 DEF Application, Connect, Listen, StopListen, Shutdown, ForgetAll, Initialize,
                    SetAutoReconnect, Disconnect, SendPacket, ReadPacket, pass
<1>8. CASE HookVTable \/ GetLocalSteamID \/ InjectionRegisters \/ Network \/ Tick
  BY <1>1, <1>8 DEF HookVTable, GetLocalSteamID, InjectionRegisters,
                    Network, Reachability, RemoteConnects, RemoteEnds, RemoteSends, Tick, pass
<1>9. CASE UNCHANGED vars
  BY <1>1, <1>9 DEF vars, pass
<1> QED
  BY <1>2, <1>3, <1>4, <1>5, <1>7, <1>8, <1>9, <1>6
     DEF Next, Pump, Passes, InjectionThread, Injects, GameThread, Senders

LEMMA MarkStep ==
    ASSUME ~Threads, "disconnect" \notin Calls,
           Types, PureInv, CallbackInv, MarkInv, [Next]_vars
    PROVE  MarkInv'
<1>1. ASSUME NEW p \in Marked'
      PROVE  p \in m_connections' /\ ~connected'[p] /\ due'[p] = Unset /\ p # cb'
  <2>1. p \in Peers /\ p # NoPeer
    <3>1. Types'
      BY TypesStep
    <3>2. Marked' \subseteq Peers
      <4>1. Marked' = SetOf(removing') \/ Marked' = SetOf(m_pendingRemove')
        BY MarkedIs
      <4> QED
        BY <3>1, <4>1, SetOfType DEF Types, ManagerType, PassType
    <3> QED
      BY <3>2 DEF Peers, NoPeer
  <2>2. StepAt(p)
    BY <2>1, EveryStepAt
  <2>3. p \in Marked => p \in m_connections /\ ~connected[p] /\ due[p] = Unset /\ p # cb
    BY DEF MarkInv
  <2>4. CASE Same(p)
    BY <2>3, <2>4 DEF Same, KeepsTable, KeepsMark
  <2>5. CASE Opens(p)
    BY <2>3, <2>5 DEF Opens, KeepsMark
  <2>6. CASE Marks(p)
    BY <2>6 DEF Marks
  <2>7. CASE Announces(p)
    BY <2>3, <2>7 DEF Announces, KeepsMark
  <2>8. CASE Reschedules(p)
    BY <2>3, <2>8 DEF Reschedules, KeepsMark
  <2>9. CASE Disconnects(p) \/ Forgets(p)
    BY <2>9 DEF Disconnects, Forgets
  <2>10. CASE Removes(p) \/ PassesOver(p)
    BY <1>1, <2>10 DEF Removes, PassesOver, MarkInv
  <2> QED
    BY <2>2, <2>4, <2>5, <2>6, <2>7, <2>8, <2>9, <2>10 DEF StepAt
<1>2. pc' = "remove" => NoRepeats(removing')
  BY UniqueStep DEF MarkInv
<1>3. (\A p \in Marked : p \in m_connections /\ ~connected[p] /\ due[p] = Unset /\ p # cb)'
  BY <1>1
<1>4. (pc = "remove" => NoRepeats(removing))'
  BY <1>2
<1> QED
  BY <1>3, <1>4 DEF MarkInv

\* With calls from one thread and without disconnect, removeDisconnected never
\* closes a connection that is up: between the failure that marked a peer and
\* the removal nothing reconnects it, since its schedule is empty until then.
THEOREM ClientRemovesOnlyDead ==
    ASSUME ~Threads, "disconnect" \notin Calls
    PROVE  Spec => []RemovesOnlyDead
<1>1. Types /\ PureInv /\ CallbackInv /\ MarkInv /\ [Next]_vars => MarkInv'
  BY MarkStep
<1>2. Types /\ MarkInv => RemovesOnlyDead
  <2> SUFFICES ASSUME Types, MarkInv, pc = "remove", removing # <<>>
               PROVE  ~connected[Head(removing)]
    BY DEF RemovesOnlyDead
  <2>1. Head(removing) \in Marked
    BY MarkedIs, SetOfTail DEF Types, PassType
  <2> QED
    BY <2>1 DEF MarkInv
<1> QED
  BY <1>1, <1>2, MarkInit, CalmInvariant, PTL DEF Spec

\* The callback that is outstanding is about a connection that is up.
CallbackIsUp == cb # NoPeer => cb \in m_connections /\ connected[cb]

LEMMA CallbackIsUpStep ==
    ASSUME ~Threads, "disconnect" \notin Calls,
           Types, PureInv, CallbackInv, CallbackIsUp, [Next]_vars
    PROVE  CallbackIsUp'
<1> SUFFICES ASSUME cb' # NoPeer PROVE cb' \in m_connections' /\ connected'[cb']
  BY DEF CallbackIsUp
<1>1. PICK p \in Peers : p = cb'
  <2>1. Types'
    BY TypesStep
  <2> QED
    BY <2>1 DEF Types, AppType
<1>2. StepAt(p) /\ p # NoPeer
  BY <1>1, EveryStepAt
<1>3. CASE Same(p)
  BY <1>1, <1>2, <1>3 DEF Same, KeepsTable, CallbackIsUp
<1>4. CASE Opens(p) \/ Marks(p) \/ Announces(p) \/ Forgets(p)
  BY <1>1, <1>2, <1>4 DEF Opens, Marks, Announces, Forgets
<1>5. CASE Removes(p) \/ PassesOver(p)
  BY <1>1, <1>2, <1>5 DEF Removes, PassesOver, Closed, CallbackInv, InCallback
<1>6. CASE Reschedules(p)
  BY <1>1, <1>2, <1>6 DEF Reschedules, CallbackIsUp
<1> QED
  BY <1>2, <1>3, <1>4, <1>5, <1>6 DEF StepAt, Disconnects

\* With calls from one thread, and without the two calls that go past the
\* callbacks (disconnect of a peer that is marked, shutdown), what the
\* application was told agrees with the table in every state: each peer's
\* Connected callbacks exceed its Disconnected callbacks by one exactly while
\* its connection is up or its removal is outstanding.  The hook's
\* g_connectedPeer is therefore never a peer the library has given up.
THEOREM ClientAppInformed ==
    ASSUME ~Threads, "disconnect" \notin Calls, "shutdown" \notin Calls
    PROVE  Spec => []AppInformed
<1>1. Init => AppInformed /\ CallbackIsUp
  BY DEF Init, AppInformed, CallbackIsUp
<1>2. Types /\ PureInv /\ CallbackInv /\ MarkInv /\ CallbackIsUp /\ AppInformed /\ [Next]_vars
      => AppInformed'
  <2> SUFFICES ASSUME Types, PureInv, CallbackInv, MarkInv, CallbackIsUp, AppInformed,
                      [Next]_vars, NEW p \in Peers
               PROVE  ups'[p] - downs'[p] =
                        IF p \in m_connections' /\ p # cb' /\ (connected'[p] \/ p \in Marked')
                        THEN 1 ELSE 0
    BY DEF AppInformed
  <2>1. ups[p] - downs[p] =
          IF p \in m_connections /\ p # cb /\ (connected[p] \/ p \in Marked) THEN 1 ELSE 0
    BY DEF AppInformed
  <2>2. StepAt(p) /\ ups[p] \in Nat /\ downs[p] \in Nat /\ p # NoPeer
    BY EveryStepAt DEF Types, HistType, Peers, NoPeer
  <2>3. CASE Same(p)
    BY <2>1, <2>3 DEF Same, KeepsTable, KeepsCounts, KeepsMark
  <2>4. CASE Opens(p)
    BY <2>1, <2>4 DEF Opens, KeepsCounts, MarkInv
  <2>5. CASE Marks(p)
    BY <2>1, <2>5 DEF Marks, KeepsCounts
  <2>6. CASE Removes(p)
    <3>1. p \in Marked /\ p \notin Marked' /\ ~connected'[p]
          /\ ups'[p] = ups[p] /\ downs'[p] = downs[p] + 1
      BY <2>6 DEF Removes, Closed, MarkInv
    <3>2. ups[p] - downs[p] = 1
      BY <2>1, <3>1 DEF MarkInv
    <3> QED
      BY <2>2, <3>1, <3>2
  <2>7. CASE Announces(p)
    <3>1. p = cb /\ p # cb' /\ p \in m_connections' /\ connected'[p]
          /\ ups'[p] = ups[p] + 1 /\ downs'[p] = downs[p]
      BY <2>2, <2>7 DEF Announces, KeepsTable, CallbackIsUp
    <3>2. ups[p] - downs[p] = 0
      BY <2>1, <3>1
    <3> QED
      BY <2>2, <3>1, <3>2
  <2>8. CASE Reschedules(p)
    BY <2>1, <2>8 DEF Reschedules, KeepsCounts, KeepsMark
  <2>9. ~PassesOver(p) /\ ~Disconnects(p) /\ ~Forgets(p)
    BY DEF PassesOver, Disconnects, Forgets, MarkInv
  <2> QED
    BY <2>2, <2>3, <2>4, <2>5, <2>6, <2>7, <2>8, <2>9 DEF StepAt
<1>3. Types /\ PureInv /\ CallbackInv /\ MarkInv /\ [Next]_vars => MarkInv'
  BY MarkStep
<1>4. Types /\ PureInv /\ CallbackInv /\ CallbackIsUp /\ [Next]_vars => CallbackIsUp'
  BY CallbackIsUpStep
<1> QED
  BY <1>1, <1>2, <1>3, <1>4, MarkInit, CalmInvariant, PTL DEF Spec

----------------------------------------------------------------------------
\* The registration.

\* A piece of the registration of the peer's session n.
Holds(s, n) == \E i \in 1..Len(s) : s[i].pkt = Greeting /\ s[i].sess = n

LEMMA HoldsConcat ==
    ASSUME NEW S, NEW s \in Seq(S), NEW t \in Seq(S), NEW n
    PROVE  Holds(s \o t, n) <=> Holds(s, n) \/ Holds(t, n)
<1>1. /\ Len(s) \in Nat /\ Len(t) \in Nat /\ Len(s \o t) = Len(s) + Len(t)
      /\ \A i \in 1..(Len(s) + Len(t)) :
           (s \o t)[i] = IF i <= Len(s) THEN s[i] ELSE t[i - Len(s)]
  BY ConcatProperties, LenProperties
<1> DEFINE c == s \o t
<1> HIDE DEF c
<1>2. \A i \in 1..Len(c) : (i \in 1..Len(s) /\ c[i] = s[i])
                           \/ (i - Len(s) \in 1..Len(t) /\ c[i] = t[i - Len(s)])
  BY <1>1 DEF c
<1>3. \A i \in 1..Len(s) : i \in 1..Len(c) /\ c[i] = s[i]
  BY <1>1 DEF c
<1>4. \A i \in 1..Len(t) : Len(s) + i \in 1..Len(c) /\ c[Len(s) + i] = t[i]
  BY <1>1 DEF c
<1>5. Holds(c, n) => Holds(s, n) \/ Holds(t, n)
  BY <1>2 DEF Holds
<1>6. Holds(s, n) => Holds(c, n)
  BY <1>3 DEF Holds
<1>7. Holds(t, n) => Holds(c, n)
  BY <1>4 DEF Holds
<1> QED
  BY <1>5, <1>6, <1>7 DEF c

LEMMA HoldsHalves ==
    ASSUME NEW S, NEW s \in Seq(S), NEW k \in 0..Len(s), NEW n, Holds(s, n)
    PROVE  Holds(SubSeq(s, 1, k), n) \/ Holds(SubSeq(s, k + 1, Len(s)), n)
<1>0. Len(s) \in Nat
  BY LenProperties
<1>1. PICK i \in 1..Len(s) : s[i].pkt = Greeting /\ s[i].sess = n
  BY DEF Holds
<1>2. CASE i <= k
  <2>1. i \in 1..k
    BY <1>0, <1>2
  <2> QED
    BY <1>1, <2>1, Halves DEF Holds
<1>3. CASE ~(i <= k)
  <2>1. i - k \in 1..(Len(s) - k) /\ k + (i - k) = i
    BY <1>0, <1>3
  <2> DEFINE t == SubSeq(s, k + 1, Len(s))
  <2>2. Len(t) = Len(s) - k /\ \A j \in 1..(Len(s) - k) : t[j] = s[k + j]
    BY Halves
  <2> HIDE DEF t
  <2>3. i - k \in 1..Len(t) /\ t[i - k] = s[i]
    BY <2>1, <2>2
  <2>4. Holds(t, n)
    BY <1>1, <2>3 DEF Holds
  <2> QED
    BY <2>4 DEF t
<1> QED
  BY <1>2, <1>3

\* The two parts of a registration that send() cut at k.
LEMMA GreetingCut ==
    ASSUME Types, NEW p \in Peers, NEW n \in Nat, NEW k \in 0..Pieces
    PROVE  /\ SubSeq(Frame(p, n), 1, k) \in Seq(Piece)
           /\ SubSeq(Frame(p, n), k + 1, Pieces) \in Seq(Piece)
           /\ n = Greeting =>
                \/ Holds(SubSeq(Frame(p, n), 1, k), session[p])
                \/ k # Pieces /\ Holds(SubSeq(Frame(p, n), k + 1, Pieces), session[p])
<1>0. Pieces \in Nat \ {0}
  BY ClientBoundsAssumption
<1> DEFINE f == Frame(p, n)
<1>1. /\ f \in Seq(Piece) /\ Len(f) = Pieces
      /\ \A i \in 1..Pieces : f[i].sess = session[p] /\ f[i].pkt = n
  BY FrameIsPieces DEF Types
<1>2. n = Greeting => Holds(f, session[p])
  <2>1. 1 \in 1..Pieces
    BY <1>0
  <2> HIDE DEF f
  <2> QED
    BY <1>1, <2>1 DEF Holds
<1> HIDE DEF f
<1> DEFINE b == SubSeq(f, k + 1, Pieces)
<1>3. SubSeq(f, 1, k) \in Seq(Piece) /\ b \in Seq(Piece) /\ Len(b) = Pieces - k
  BY <1>0, <1>1, Halves
<1>4. n = Greeting => Holds(SubSeq(f, 1, k), session[p]) \/ Holds(b, session[p])
  BY <1>1, <1>2, HoldsHalves
<1> HIDE DEF b
<1>5. k = Pieces => ~Holds(b, session[p])
  <2>1. k = Pieces => 1..Len(b) = {}
    BY <1>0, <1>3
  <2> QED
    BY <2>1 DEF Holds
<1>6. n = Greeting => Holds(SubSeq(f, 1, k), session[p]) \/ (k # Pieces /\ Holds(b, session[p]))
  BY <1>4, <1>5
<1> QED
  BY <1>3, <1>6 DEF f, b

Greeted(p) == Holds(wire[p], session[p]) \/ Holds(sendBuffer[p], session[p])

\* What is on the wire or buffered stays there when more joins it.
LEMMA StreamGrows ==
    ASSUME Types, NEW q \in Peers, NEW a \in Seq(Piece), NEW b \in Seq(Piece),
           wire'[q] = wire[q] \o a, sendBuffer'[q] = sendBuffer[q] \o b,
           \A p \in Peers \ {q} : wire'[p] = wire[p] /\ sendBuffer'[p] = sendBuffer[p],
           UNCHANGED session
    PROVE  /\ \A p \in Peers : Greeted(p) => Greeted(p)'
           /\ Holds(a, session[q]) \/ Holds(b, session[q]) => Greeted(q)'
<1>1. wire[q] \in Seq(Piece) /\ sendBuffer[q] \in Seq(Piece)
  BY DEF Types, NetType, ConnType
<1> DEFINE n == session[q]
<1>2. /\ Holds(wire[q] \o a, n) <=> Holds(wire[q], n) \/ Holds(a, n)
      /\ Holds(sendBuffer[q] \o b, n) <=> Holds(sendBuffer[q], n) \/ Holds(b, n)
  BY <1>1, HoldsConcat
<1>3. /\ Holds(wire'[q], n) <=> Holds(wire[q], n) \/ Holds(a, n)
      /\ Holds(sendBuffer'[q], n) <=> Holds(sendBuffer[q], n) \/ Holds(b, n)
  BY <1>2
<1>4. /\ Greeted(q) => Greeted(q)'
      /\ Holds(a, n) \/ Holds(b, n) => Greeted(q)'
  BY <1>3 DEF Greeted
<1>5. \A p \in Peers \ {q} : Greeted(p) => Greeted(p)'
  BY DEF Greeted
<1> QED
  BY <1>4, <1>5

LEMMA NothingJoins == \A s \in Seq(Piece) : s \o <<>> = s
BY ConcatEmptySeq

LEMMA WriteSomeStream ==
    ASSUME Types, NEW p \in Peers, WriteSome(p), UNCHANGED session
    PROVE  /\ \A q \in Peers \ {p} : wire'[q] = wire[q] /\ sendBuffer'[q] = sendBuffer[q]
           /\ Greeted(p) => Greeted(p)'
<1>1. CASE ~(p \in writeSet /\ remote[p] # "reset")
  <2>1. UNCHANGED <<wire, sendBuffer>>
    BY <1>1 DEF WriteSome
  <2> QED
    BY <2>1 DEF Greeted
<1>2. CASE p \in writeSet /\ remote[p] # "reset"
  <2>1. PICK k \in 0..Len(sendBuffer[p]) :
            /\ wire' = [wire EXCEPT ![p] = @ \o SubSeq(sendBuffer[p], 1, k)]
            /\ sendBuffer' = [sendBuffer EXCEPT ![p] = SubSeq(@, k + 1, Len(@))]
    BY <1>2 DEF WriteSome
  <2> DEFINE a == SubSeq(sendBuffer[p], 1, k)
             b == SubSeq(sendBuffer[p], k + 1, Len(sendBuffer[p]))
             n == session[p]
  <2>2. wire[p] \in Seq(Piece) /\ sendBuffer[p] \in Seq(Piece)
    BY DEF Types, NetType, ConnType
  <2>3. a \in Seq(Piece)
    BY <2>2, Halves
  <2>4. Holds(sendBuffer[p], n) => Holds(a, n) \/ Holds(b, n)
    BY <2>2, HoldsHalves
  <2>5. /\ wire'[p] = wire[p] \o a /\ sendBuffer'[p] = b
        /\ \A q \in Peers \ {p} : wire'[q] = wire[q] /\ sendBuffer'[q] = sendBuffer[q]
    BY <2>1 DEF Types, NetType, ConnType
  <2> HIDE DEF a, b
  <2>6. Holds(wire'[p], n) <=> Holds(wire[p], n) \/ Holds(a, n)
    BY <2>2, <2>3, <2>5, HoldsConcat
  <2>7. Greeted(p) => Greeted(p)'
    BY <2>4, <2>5, <2>6 DEF Greeted
  <2> QED
    BY <2>5, <2>7
<1> QED
  BY <1>1, <1>2

\* A call that will register p's session, unless send() fails: it has not sent
\* yet, or what it could not send belongs to this session.
CallGreets(t, p) ==
    /\ sending[t].peer = p
    /\ sending[t].at = "store" => Holds(sending[t].rest, session[p])

Registrars == {"callback", "injection"}

Covered(p) == Greeted(p) \/ \E t \in Registrars : CallGreets(t, p)

\* A connection that is up is in the table, and the application knows of it
\* unless its callback is still to come; the hook's own calls register.
KnownInv ==
    /\ \A p \in Peers : connected[p] => p \in m_connections /\ (p # cb => told[p])
    /\ \A t \in Registrars : sending[t].pkt = Greeting

\* With the id found, a session that is up is registered, or one of the two
\* calls for it is under way, or its callback is still to make one.
GreetInv ==
    Greets /\ injection = "done" /\ g_localSteamID =>
      \A p \in Peers : connected[p] /\ p \notin {cb, greeting} => Covered(p)

\* What is left of a peer's stream by a step that does not send.
StreamKept(p) ==
    \/ ~connected'[p]
    \/ connected'[p] = connected[p] /\ wire'[p] = wire[p] /\ sendBuffer'[p] = sendBuffer[p]

LEMMA KnownKept ==
    ASSUME KnownInv, \A p \in Peers : connected'[p] => connected[p],
           UNCHANGED <<m_connections, cb, told, sending>>
    PROVE  KnownInv'
BY DEF KnownInv

LEMMA GreetKept ==
    ASSUME GreetInv, \A p \in Peers : StreamKept(p), injection' = injection,
           UNCHANGED <<cb, greeting, session, calls>>
    PROVE  GreetInv'
<1> SUFFICES ASSUME Greets, injection' = "done", g_localSteamID', NEW p \in Peers,
                    connected'[p], p \notin {cb', greeting'}
             PROVE  Covered(p)'
  BY DEF GreetInv
<1>1. connected[p] /\ wire'[p] = wire[p] /\ sendBuffer'[p] = sendBuffer[p]
  BY DEF StreamKept
<1>2. Covered(p)
  BY <1>1 DEF GreetInv, calls
<1> QED
  BY <1>1, <1>2 DEF Covered, CallGreets, Greeted, calls

\* sendPacket as one step.
LEMMA TransmitGreets ==
    ASSUME Types, NEW q \in Peers, NEW n \in Nat, Transmit(q, n), UNCHANGED session,
           NEW p \in Peers, connected'[p]
    PROVE  /\ connected[p]
           /\ Greeted(p) \/ (p = q /\ n = Greeting) => Greeted(p)'
<1>1. CASE SendFails(q)
  <2>1. connected' = [connected EXCEPT ![q] = FALSE] /\ UNCHANGED <<wire, sendBuffer>>
    BY <1>1 DEF Transmit
  <2>2. p # q /\ connected[p]
    BY <2>1 DEF Types, ConnType
  <2> QED
    BY <2>1, <2>2 DEF Greeted
<1>2. CASE ~SendFails(q)
  <2>1. PICK k \in 0..Pieces :
            /\ wire' = [wire EXCEPT ![q] = @ \o SubSeq(Frame(q, n), 1, k)]
            /\ sendBuffer' = [sendBuffer EXCEPT ![q] =
                                @ \o SubSeq(Frame(q, n), k + 1, Pieces)]
            /\ UNCHANGED connected
    BY <1>2, TakesPart DEF Transmit
  <2> DEFINE a == SubSeq(Frame(q, n), 1, k)
             b == SubSeq(Frame(q, n), k + 1, Pieces)
  <2>2. /\ a \in Seq(Piece) /\ b \in Seq(Piece)
        /\ n = Greeting => Holds(a, session[q]) \/ Holds(b, session[q])
    BY GreetingCut
  <2>3. /\ wire'[q] = wire[q] \o a /\ sendBuffer'[q] = sendBuffer[q] \o b
        /\ \A r \in Peers \ {q} : wire'[r] = wire[r] /\ sendBuffer'[r] = sendBuffer[r]
    BY <2>1 DEF Types, NetType, ConnType
  <2> HIDE DEF a, b
  <2>4. /\ \A r \in Peers : Greeted(r) => Greeted(r)'
        /\ Holds(a, session[q]) \/ Holds(b, session[q]) => Greeted(q)'
    BY <2>2, <2>3, StreamGrows
  <2> QED
    BY <2>1, <2>2, <2>4
<1> QED
  BY <1>1, <1>2

\* A call is made, as one step or as the first of three.
LEMMA SendsGreets ==
    ASSUME Types, KnownInv, NEW t \in Senders, NEW q \in Peers, NEW n \in Nat, Sends(t, q, n),
           t \in Registrars => n = Greeting, UNCHANGED session
    PROVE  /\ \A u \in Registrars : sending'[u].pkt = Greeting
           /\ \A p \in Peers : connected'[p] =>
                /\ connected[p]
                /\ Covered(p) \/ (p = q /\ t \in Registrars) => Covered(p)'
<1>1. CASE ~Threads
  <2>1. Transmit(q, n) /\ UNCHANGED sending
    BY <1>1 DEF Sends
  <2>2. ASSUME NEW p \in Peers, connected'[p]
        PROVE  /\ connected[p]
               /\ Greeted(p) \/ (p = q /\ n = Greeting) => Greeted(p)'
    BY <2>1, <2>2, TransmitGreets
  <2>3. \A u \in Registrars : \A p : CallGreets(u, p) => CallGreets(u, p)'
    BY <2>1 DEF CallGreets
  <2>4. \A u \in Registrars : sending'[u].pkt = Greeting
    BY <2>1 DEF KnownInv
  <2> QED
    BY <2>2, <2>3, <2>4 DEF Covered
<1>2. CASE Threads
  <2> DEFINE c == [at |-> "send", peer |-> q, pkt |-> n, rest |-> <<>>]
  <2>1. /\ sending[t].at = "idle" /\ sending' = [sending EXCEPT ![t] = c]
        /\ UNCHANGED <<connected, wire, sendBuffer>>
    BY <1>2 DEF Sends, SendChecks
  <2>2. c.peer = q /\ c.pkt = n /\ c.at # "store"
    OBVIOUS
  <2> HIDE DEF c
  <2>3. sending'[t] = c /\ \A u \in Senders \ {t} : sending'[u] = sending[u]
    BY <2>1 DEF Types, AppType, CallsType
  <2>4. Registrars \subseteq Senders
    BY DEF Registrars, Senders
  <2>5. \A u \in Registrars : sending'[u].pkt = Greeting
    BY <2>2, <2>3, <2>4 DEF KnownInv
  <2>6. \A p \in Peers : Greeted(p) => Greeted(p)'
    BY <2>1 DEF Greeted
  <2>7. \A p \in Peers : ~CallGreets(t, p)
    <3>1. sending[t].peer = NoPeer
      BY <2>1 DEF Types, AppType, CallsType, NotSending
    <3> QED
      BY <3>1 DEF CallGreets, Peers, NoPeer
  <2>8. \A u \in Registrars \ {t}, p \in Peers : CallGreets(u, p) => CallGreets(u, p)'
    BY <2>3, <2>4 DEF CallGreets
  <2>9. CallGreets(t, q)'
    BY <2>2, <2>3 DEF CallGreets
  <2>10. \A p \in Peers : Covered(p) \/ (p = q /\ t \in Registrars) => Covered(p)'
    BY <2>6, <2>7, <2>8, <2>9 DEF Covered
  <2> QED
    BY <2>1, <2>5, <2>10
<1> QED
  BY <1>1, <1>2

\* The frame is given to the socket.
LEMMA TriesGreets ==
    ASSUME Types, KnownInv, NEW t \in Senders, SendTries(t)
    PROVE  /\ \A u \in Registrars : sending'[u].pkt = Greeting
           /\ \A p \in Peers : connected'[p] => connected[p] /\ (Covered(p) => Covered(p)')
<1>a. PICK q : q = sending[t].peer
  OBVIOUS
<1> DEFINE n == sending[t].pkt
<1>0. UNCHANGED <<connected, sendBuffer, session>>
  BY DEF SendTries, conn, history
<1>1. /\ sending \in [Senders -> Call] /\ sending[t].at = "send" /\ sending[t] \in Call
      /\ Registrars \subseteq Senders
  BY DEF Types, AppType, CallsType, SendTries, Registrars, Senders
<1>2. q \in Peers /\ n \in Nat /\ (t \in Registrars => n = Greeting)
  BY <1>a, <1>1 DEF Types, AppType, CallsType, Call, NotSending, KnownInv
<1>3. CASE SendFails(q)
  <2> DEFINE c == [sending[t] EXCEPT !.at = "fail"]
  <2>1. sending' = [sending EXCEPT ![t] = c] /\ UNCHANGED wire
    BY <1>a, <1>3 DEF SendTries
  <2>2. c.peer = q /\ c.pkt = n /\ c.at # "store"
    BY <1>a, <1>1 DEF Call
  <2> HIDE DEF c
  <2>3. sending'[t] = c /\ \A u \in Senders \ {t} : sending'[u] = sending[u]
    BY <1>1, <2>1
  <2>4. \A u \in Registrars : sending'[u].pkt = Greeting
    BY <1>1, <1>2, <2>2, <2>3 DEF KnownInv
  <2>5. \A u \in Registrars, p \in Peers : CallGreets(u, p) => CallGreets(u, p)'
    BY <1>a, <1>0, <1>1, <2>2, <2>3 DEF CallGreets
  <2>6. \A p \in Peers : Greeted(p) => Greeted(p)'
    BY <1>0, <2>1 DEF Greeted
  <2> QED
    BY <1>0, <2>4, <2>5, <2>6 DEF Covered
<1>4. CASE ~SendFails(q)
  <2>1. PICK k \in 0..Pieces :
          /\ wire' = [wire EXCEPT ![q] = @ \o SubSeq(Frame(q, n), 1, k)]
          /\ sending' = [sending EXCEPT ![t] =
               IF k = Pieces THEN NotSending
               ELSE [@ EXCEPT !.at = "store",
                              !.rest = SubSeq(Frame(q, n), k + 1, Pieces)]]
    BY <1>a, <1>4, TakesPart DEF SendTries
  <2> DEFINE a == SubSeq(Frame(q, n), 1, k)
             b == SubSeq(Frame(q, n), k + 1, Pieces)
             c == IF k = Pieces THEN NotSending
                  ELSE [sending[t] EXCEPT !.at = "store", !.rest = b]
  <2>2. /\ a \in Seq(Piece) /\ b \in Seq(Piece)
        /\ n = Greeting => Holds(a, session[q]) \/ (k # Pieces /\ Holds(b, session[q]))
    BY <1>2, GreetingCut
  <2>3. /\ wire'[q] = wire[q] \o a
        /\ \A r \in Peers \ {q} : wire'[r] = wire[r]
    BY <1>2, <2>1 DEF Types, NetType
  <2>4. sending' = [sending EXCEPT ![t] = c]
    BY <1>1, <2>1
  <2> HIDE DEF a, b
  <2>5. /\ k = Pieces => c = NotSending
        /\ k # Pieces => c.peer = q /\ c.pkt = n /\ c.rest = b
    BY <1>a, <1>1 DEF Call
  <2> HIDE DEF c
  <2>6. sending'[t] = c /\ \A u \in Senders \ {t} : sending'[u] = sending[u]
    BY <1>1, <2>4
  <2>7. \A u \in Registrars : sending'[u].pkt = Greeting
    BY <1>1, <1>2, <2>5, <2>6 DEF KnownInv, NotSending, Greeting
  <2>8. /\ \A r \in Peers : Greeted(r) => Greeted(r)'
        /\ Holds(a, session[q]) => Greeted(q)'
    <3>1. <<>> \in Seq(Piece) /\ sendBuffer'[q] = sendBuffer[q] \o <<>>
      BY <1>0, <1>2, NothingJoins, EmptySeq DEF Types, ConnType
    <3>2. \A r \in Peers \ {q} : wire'[r] = wire[r] /\ sendBuffer'[r] = sendBuffer[r]
      BY <1>0, <2>3
    <3> QED
      BY <1>0, <1>2, <2>2, <2>3, <3>1, <3>2, StreamGrows
  <2>9. \A u \in Registrars \ {t}, p \in Peers : CallGreets(u, p) => CallGreets(u, p)'
    BY <1>0, <1>1, <2>6 DEF CallGreets
  <2>10. \A p \in Peers : CallGreets(t, p) => p = q
    BY <1>a DEF CallGreets
  <2>11. t \in Registrars => Greeted(q)' \/ CallGreets(t, q)'
    BY <1>0, <1>2, <2>2, <2>5, <2>6, <2>8 DEF CallGreets
  <2>12. \A p \in Peers : Covered(p) => Covered(p)'
    BY <2>8, <2>9, <2>10, <2>11 DEF Covered
  <2> QED
    BY <1>0, <2>7, <2>12
<1> QED
  BY <1>3, <1>4

\* The rest or the failure is stored.
LEMMA StoresGreets ==
    ASSUME Types, KnownInv, NEW t \in Senders, SendStores(t)
    PROVE  /\ \A u \in Registrars : sending'[u].pkt = Greeting
           /\ \A p \in Peers : connected'[p] => connected[p] /\ (Covered(p) => Covered(p)')
<1>a. PICK q : q = sending[t].peer
  OBVIOUS
<1>0. UNCHANGED <<wire, session>>
  BY DEF SendStores, network, history
<1>1. /\ sending \in [Senders -> Call] /\ sending[t].at # "idle" /\ sending[t] \in Call
      /\ Registrars \subseteq Senders
  BY DEF Types, AppType, CallsType, SendStores, Registrars, Senders
<1>2. q \in Peers /\ sending[t].rest \in Seq(Piece)
  BY <1>a, <1>1 DEF Types, AppType, CallsType, Call, NotSending
<1>3. sending'[t] = NotSending /\ \A u \in Senders \ {t} : sending'[u] = sending[u]
  BY <1>1 DEF SendStores
<1>4. \A u \in Registrars : sending'[u].pkt = Greeting
  BY <1>1, <1>3 DEF KnownInv, NotSending, Greeting
<1>5. \A u \in Registrars \ {t}, p \in Peers : CallGreets(u, p) => CallGreets(u, p)'
  BY <1>0, <1>1, <1>3 DEF CallGreets
<1>6. CASE sending[t].at = "store"
  <2>1. sendBuffer' = [sendBuffer EXCEPT ![q] = @ \o sending[t].rest] /\ UNCHANGED connected
    BY <1>a, <1>6 DEF SendStores
  <2>2. /\ sendBuffer'[q] = sendBuffer[q] \o sending[t].rest
        /\ \A r \in Peers \ {q} : wire'[r] = wire[r] /\ sendBuffer'[r] = sendBuffer[r]
    BY <1>0, <1>2, <2>1 DEF Types, ConnType
  <2>3. <<>> \in Seq(Piece) /\ wire'[q] = wire[q] \o <<>>
    BY <1>0, <1>2, NothingJoins, EmptySeq DEF Types, NetType
  <2>4. /\ \A r \in Peers : Greeted(r) => Greeted(r)'
        /\ Holds(sending[t].rest, session[q]) => Greeted(q)'
    BY <1>0, <1>2, <2>2, <2>3, StreamGrows
  <2>5. \A p \in Peers : CallGreets(t, p) => p = q /\ Holds(sending[t].rest, session[q])
    BY <1>a, <1>6 DEF CallGreets
  <2>6. \A p \in Peers : Covered(p) => Covered(p)'
    BY <1>5, <2>4, <2>5 DEF Covered
  <2> QED
    BY <1>4, <2>1, <2>6
<1>7. CASE sending[t].at = "fail"
  <2>1. connected' = [connected EXCEPT ![q] = FALSE] /\ UNCHANGED sendBuffer
    BY <1>a, <1>7 DEF SendStores
  <2>2. \A p \in Peers : connected'[p] => connected[p] /\ p # q
    BY <2>1 DEF Types, ConnType
  <2>3. \A p \in Peers : Greeted(p) => Greeted(p)'
    BY <1>0, <2>1 DEF Greeted
  <2>4. \A p \in Peers : CallGreets(t, p) => p = q
    BY <1>a DEF CallGreets
  <2>5. \A p \in Peers : p # q /\ Covered(p) => Covered(p)'
    BY <1>5, <2>3, <2>4 DEF Covered
  <2> QED
    BY <1>4, <2>2, <2>5
<1> QED
  BY <1>6, <1>7 DEF SendStores

LEMMA ContinuesGreets ==
    ASSUME Types, KnownInv, GreetInv, NEW t \in Senders, Continues(t)
    PROVE  KnownInv' /\ GreetInv'
<1>1. UNCHANGED <<m_connections, cb, greeting, told, injection, g_localSteamID>>
  BY DEF Continues, SendTries, SendStores, manager
<1>2. /\ \A u \in Registrars : sending'[u].pkt = Greeting
      /\ \A p \in Peers : connected'[p] => connected[p] /\ (Covered(p) => Covered(p)')
  BY TriesGreets, StoresGreets DEF Continues
<1> QED
  BY <1>1, <1>2 DEF KnownInv, GreetInv

LEMMA OpenGreets ==
    ASSUME Types, KnownInv, GreetInv, NEW q \in Peers, NewSession(q), ~InCallback,
           m_connections' = m_connections \cup {q}, UNCHANGED sendBuffer
    PROVE  KnownInv' /\ GreetInv'
<1>1. /\ cb = NoPeer /\ greeting = NoPeer /\ cb' = q
      /\ UNCHANGED <<greeting, injection, told, g_localSteamID, sending>>
  BY DEF InCallback, NewSession, calls
<1>2. \A r \in Peers \ {q} :
        connected'[r] = connected[r] /\ wire'[r] = wire[r] /\ session'[r] = session[r]
  BY DEF Types, NetType, ConnType, HistType, NewSession
<1>3. \A r \in Peers : r # NoPeer
  BY DEF Peers, NoPeer
<1>4. KnownInv'
  BY <1>1, <1>2, <1>3 DEF KnownInv
<1>5. GreetInv'
  <2> SUFFICES ASSUME Greets, injection' = "done", g_localSteamID', NEW p \in Peers,
                      connected'[p], p \notin {cb', greeting'}
               PROVE  Covered(p)'
    BY DEF GreetInv
  <2>1. p # q /\ Covered(p)
    BY <1>1, <1>2, <1>3 DEF GreetInv
  <2> QED
    BY <1>1, <1>2, <2>1 DEF Covered, CallGreets, Greeted
<1> QED
  BY <1>4, <1>5

LEMMA DropGreets ==
    ASSUME Types, KnownInv, GreetInv, NEW q \in Peers, DropPeer(q),
           UNCHANGED <<wire, cb, greeting, injection, calls>>
    PROVE  KnownInv' /\ GreetInv'
<1>1. ~connected'[q] /\ \A r \in Peers \ {q} :
           connected'[r] = connected[r] /\ sendBuffer'[r] = sendBuffer[r] /\ told'[r] = told[r]
  BY DEF Types, ConnType, AppType, DropPeer, ClearBuffers
<1>2. \A r \in Peers \ {q} : r \in m_connections' <=> r \in m_connections
  BY DEF DropPeer, RescheduleOrErase
<1>3. KnownInv'
  BY <1>1, <1>2 DEF KnownInv, calls
<1>4. (\A p \in Peers : StreamKept(p)) /\ UNCHANGED session
  BY <1>1 DEF StreamKept, DropPeer
<1> QED
  BY <1>3, <1>4, GreetKept

LEMMA ForgetGreets ==
    ASSUME KnownInv, ForgetAll
    PROVE  KnownInv' /\ GreetInv'
<1>1. (\A p \in Peers : ~connected'[p]) /\ UNCHANGED sending
  BY DEF ForgetAll, calls
<1> QED
  BY <1>1 DEF KnownInv, GreetInv

LEMMA GreetInit == Init => KnownInv /\ GreetInv
<1> SUFFICES ASSUME Init PROVE KnownInv /\ GreetInv
  OBVIOUS
<1>1. \A p \in Peers : ~connected[p]
  BY DEF Init
<1>2. \A t \in Registrars : sending[t].pkt = Greeting
  BY DEF Init, Registrars, Senders, NotSending, Greeting
<1> QED
  BY <1>1, <1>2 DEF KnownInv, GreetInv

LEMMA GreetStep ==
    ASSUME MaxPeers = 1, Types, PureInv, CallbackInv, KnownInv, GreetInv, [Next]_vars
    PROVE  KnownInv' /\ GreetInv'
<1>0. m_nextPeerID \in Nat /\ MaxPeers \in Nat
  BY ClientBoundsAssumption DEF Types, ManagerType
<1>1. CASE UNCHANGED <<connected, wire, sendBuffer, cb, greeting, injection, told,
                       m_connections, session, calls>>
  <2>1. UNCHANGED sending
    BY <1>1 DEF calls
  <2> QED
    BY <1>1, <2>1, KnownKept, GreetKept DEF StreamKept
<1>2. CASE \/ ProcessEvents \/ FirstDone \/ Select \/ StartRemoving \/ RemovingDone
           \/ PassDone \/ \E p \in Peers : ReconnectFails(p)
  BY <1>1, <1>2
     DEF ProcessEvents, FirstDone, Select, StartRemoving, RemovingDone, PassDone,
         ReconnectFails, Reconnecting, network, conn, manager, app, history
<1>3. CASE \/ Listen \/ StopListen \/ Initialize \/ Network \/ Tick
           \/ \E p \in Peers : SetAutoReconnect(p) \/ ReadPacket(p)
  BY <1>1, <1>3
     DEF Listen, StopListen, Initialize, SetAutoReconnect, ReadPacket, Network, Reachability,
         RemoteConnects, RemoteEnds, RemoteSends, Tick, network, conn, manager, app, history
<1>4. CASE UNCHANGED vars
  BY <1>1, <1>4 DEF vars, network, conn, manager, app, history
<1>5. CASE HookVTable \/ GetLocalSteamID
  <2>1. UNCHANGED <<connected, cb, told, m_connections, sending>> /\ injection' # "done"
    BY <1>5 DEF HookVTable, GetLocalSteamID, conn, manager, calls
  <2> QED
    BY <2>1, KnownKept DEF GreetInv
<1>6. CASE Connect \/ AcceptNewConnection
  <2>1. m_nextPeerID \in Peers
    BY <1>0, <1>6 DEF Connect, AcceptNewConnection, Types, NetType, ManagerType, Peers
  <2> QED
    BY <1>6, <2>1, OpenGreets DEF Connect, AcceptNewConnection, AddPeer
<1>7. CASE \E p \in Peers : ReconnectSucceeds(p)
  <2>1. PICK p \in Peers : ReconnectSucceeds(p)
    BY <1>7
  <2>2. m_connections' = m_connections \cup {p}
    BY <2>1 DEF ReconnectSucceeds, Reconnecting, DuePeers
  <2> QED
    BY <2>1, <2>2, OpenGreets DEF ReconnectSucceeds, Reconnecting
<1>8. CASE \E p \in Peers : Disconnect(p)
  BY <1>8, DropGreets DEF Disconnect
<1>9. CASE RemoveDisconnected
  <2>1. Head(removing) \in Peers
    BY <1>9, SetOfTail DEF RemoveDisconnected, Types, PassType
  <2>2. UNCHANGED <<wire, cb, greeting, injection, calls>>
    BY <1>9 DEF RemoveDisconnected
  <2>3. CASE DropPeer(Head(removing))
    BY <2>1, <2>2, <2>3, DropGreets
  <2>4. CASE UNCHANGED <<conn, m_connections, told, history>>
    BY <1>1, <2>2, <2>4 DEF conn, history
  <2> QED
    BY <1>9, <2>3, <2>4 DEF RemoveDisconnected
<1>10. CASE Shutdown
  BY <1>10, ForgetGreets DEF Shutdown
<1>11. CASE \E p \in Peers : ProcessPeer(p)
  <2>1. PICK q \in Peers : ProcessPeer(q)
    BY <1>11
  <2>2. UNCHANGED <<cb, greeting, injection, told, m_connections, session, g_localSteamID,
                    sending>>
    BY <2>1 DEF ProcessPeer, app, calls, history
  <2>3. /\ \A p \in Peers : connected'[p] => connected[p]
        /\ \A p \in Peers : Greeted(p) => Greeted(p)'
    <3>1. ASSUME NEW c, NEW f, MarkDown(q, c, f)
          PROVE  \A p \in Peers : connected'[p] => connected[p]
      BY <3>1 DEF MarkDown, Types, ConnType
    <3>2. CASE UNCHANGED <<connected, wire, sendBuffer>>
      BY <2>2, <3>2 DEF Greeted
    <3>3. CASE MarkDown(q, TRUE, FALSE) /\ UNCHANGED <<wire, sendBuffer>>
      BY <2>2, <3>1, <3>3 DEF Greeted
    <3>4. CASE MarkDown(q, ReadCloses(q), WriteFails(q)) /\ WriteSome(q)
      <4>1. \A r \in Peers \ {q} : wire'[r] = wire[r] /\ sendBuffer'[r] = sendBuffer[r]
        BY <2>2, <3>4, WriteSomeStream
      <4>2. Greeted(q) => Greeted(q)'
        BY <2>2, <3>4, WriteSomeStream
      <4>3. \A r \in Peers \ {q} : Greeted(r) => Greeted(r)'
        BY <2>2, <4>1 DEF Greeted
      <4>4. \A p \in Peers : connected'[p] => connected[p]
        BY <3>1, <3>4
      <4> QED
        BY <4>2, <4>3, <4>4
    <3> QED
      BY <2>1, <3>2, <3>3, <3>4, ProcessPeerCases
  <2>4. \A p \in Peers : Covered(p) => Covered(p)'
    BY <2>2, <2>3 DEF Covered, CallGreets
  <2> QED
    BY <2>2, <2>3, <2>4, KnownKept DEF GreetInv
<1>12. CASE CallbackStores
  <2>1. cb \in Peers /\ greeting = NoPeer /\ greeting' = cb /\ cb' = NoPeer
        /\ UNCHANGED <<connected, wire, sendBuffer, injection, m_connections, session,
                       g_localSteamID, sending>>
    BY <1>12 DEF CallbackStores, CallbackInv, Types, AppType, network, conn, manager, calls
  <2>2. told'[cb] /\ \A r \in Peers \ {cb} : told'[r] = told[r]
    BY <1>12, <2>1 DEF CallbackStores, Types, AppType
  <2>3. \A r \in Peers : r # NoPeer
    BY DEF Peers, NoPeer
  <2>4. KnownInv'
    BY <2>1, <2>2 DEF KnownInv
  <2>5. \A r \in Peers : r \notin {cb', greeting'} => r \notin {cb, greeting}
    BY <2>1, <2>3
  <2>6. \A p \in Peers : Covered(p) => Covered(p)'
    BY <2>1 DEF Covered, CallGreets, Greeted
  <2> QED
    BY <2>1, <2>4, <2>5, <2>6 DEF GreetInv
<1>13. CASE \E p \in Peers : SendPacket(p)
  <2>1. PICK q \in Peers : SendPacket(q)
    BY <1>13
  <2>2. sends[q] + 1 \in Nat /\ Sends("game", q, sends[q] + 1)
        /\ UNCHANGED <<cb, greeting, injection, told, m_connections, session, g_localSteamID>>
    BY <2>1 DEF SendPacket, Types, AppType, history
  <2>3. /\ \A u \in Registrars : sending'[u].pkt = Greeting
        /\ \A p \in Peers : connected'[p] => connected[p] /\ (Covered(p) => Covered(p)')
    BY <2>2, SendsGreets DEF Senders, Registrars
  <2> QED
    BY <2>2, <2>3 DEF GreetInv, KnownInv
<1>14. CASE CallbackGreets
  <2>1. greeting \in Peers /\ cb = NoPeer /\ greeting' = NoPeer
        /\ UNCHANGED <<cb, injection, told, m_connections, session, g_localSteamID>>
    BY <1>14 DEF CallbackGreets, CallbackInv, Types, AppType, history
  <2>2. CASE Sends("callback", greeting, Greeting)
    <3>1. /\ \A u \in Registrars : sending'[u].pkt = Greeting
          /\ \A p \in Peers : connected'[p] =>
               connected[p] /\ (Covered(p) \/ p = greeting => Covered(p)')
      BY <2>1, <2>2, SendsGreets DEF Senders, Registrars, Greeting
    <3> QED
      BY <2>1, <3>1 DEF GreetInv, KnownInv
  <2>3. CASE /\ ~(Greets /\ g_localSteamID /\ greeting \in m_connections /\ connected[greeting])
             /\ SendsNothing
    <3>1. UNCHANGED <<connected, wire, sendBuffer, sending>>
      BY <2>3 DEF SendsNothing
    <3>2. KnownInv'
      BY <2>1, <3>1, KnownKept
    <3>3. Greets /\ g_localSteamID => ~connected[greeting]
      BY <2>1, <2>3 DEF KnownInv
    <3>4. \A p \in Peers : Covered(p) => Covered(p)'
      BY <2>1, <3>1 DEF Covered, CallGreets, Greeted
    <3> QED
      BY <2>1, <3>1, <3>2, <3>3, <3>4 DEF GreetInv
  <2> QED
    BY <1>14, <2>2, <2>3 DEF CallbackGreets
<1>15. CASE InjectionRegisters
  <2>1. UNCHANGED <<cb, greeting, told, m_connections, session, g_localSteamID>>
    BY <1>15 DEF InjectionRegisters, history
  <2>2. CASE \E p \in m_connections : Sends("injection", p, Greeting)
    <3>1. PICK q \in m_connections : Sends("injection", q, Greeting)
      BY <2>2
    <3>2. q \in Peers /\ Greeting \in Nat /\ \A p \in Peers : p = q
      BY DEF Types, ManagerType, Peers, Greeting
    <3>3. /\ \A u \in Registrars : sending'[u].pkt = Greeting
          /\ \A p \in Peers : connected'[p] => connected[p] /\ Covered(p)'
      BY <2>1, <3>1, <3>2, SendsGreets DEF Senders, Registrars
    <3> QED
      BY <2>1, <3>3 DEF GreetInv, KnownInv
  <2>3. CASE (\A p \in m_connections : ~(told[p] /\ connected[p])) /\ SendsNothing
    <3>1. UNCHANGED <<connected, sending>>
      BY <2>3 DEF SendsNothing
    <3>2. KnownInv'
      BY <2>1, <3>1, KnownKept
    <3>3. \A p \in Peers : connected'[p] => p \in {cb', greeting'}
      BY <2>1, <2>3, <3>1 DEF KnownInv
    <3> QED
      BY <3>2, <3>3 DEF GreetInv
  <2> QED
    BY <1>15, <2>2, <2>3 DEF InjectionRegisters
<1>16. CASE \E t \in Senders : Continues(t)
  BY <1>16, ContinuesGreets
<1> QED
  BY <1>2, <1>3, <1>4, <1>5, <1>6, <1>7, <1>8, <1>9, <1>10, <1>11, <1>12, <1>13, <1>14,
     <1>15, <1>16
     DEF Next, Pump, Passes, Application, InjectionThread, Injects, GameThread, Senders

LEMMA GreetSession == Types /\ GreetInv => SessionGreeted
<1> SUFFICES ASSUME Types, GreetInv, Greets, injection = "done", g_localSteamID,
                    NEW p \in Peers, connected[p], p \notin {cb, greeting}, ~Registering(p)
             PROVE  Holds(wire[p] \o sendBuffer[p], session[p])
  BY DEF SessionGreeted, Holds
<1>1. wire[p] \in Seq(Piece) /\ sendBuffer[p] \in Seq(Piece)
  BY DEF Types, NetType, ConnType
<1>2. Covered(p)
  BY DEF GreetInv
<1>3. Greeted(p)
  BY <1>2 DEF Covered, CallGreets, Registering, Registrars
<1> QED
  BY <1>1, <1>3, HoldsConcat DEF Greeted

\* If the game gave the player's id when it was asked, the hook's one connection
\* is registered with the relay in every session, whatever threads call in
\* between and however their sendPacket calls interleave: the pump's callback
\* stores the peer before it looks for the id, InjectionThread stores the id
\* before it looks for the peer, so that at least one of them finds both.
THEOREM ClientSessionGreeted ==
    ASSUME MaxPeers = 1
    PROVE  Spec => []SessionGreeted
<1>1. Types /\ PureInv /\ CallbackInv /\ (KnownInv /\ GreetInv) /\ [Next]_vars
      => (KnownInv /\ GreetInv)'
  BY GreetStep
<1> QED
  BY <1>1, GreetInit, GreetSession, CalmInvariant, PTL DEF Spec

=============================================================================
