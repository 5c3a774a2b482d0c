------------------------- MODULE HookThreadsProofs -------------------------
(***************************************************************************)
(* The hook's threads are right for any number of packets, polls and TCP   *)
(* connections, in every interleaving of the pump, the game, the injection *)
(* and the loader's thread.   The client's invariants (Types, PureInv,     *)
(* CallbackInv, KnownInv, GreetInv) carry over: a step of HookThreads is a *)
(* step of ConnectionManager, a pop from a receiveQueue, or a step of      *)
(* DllMain.                                                                *)
(***************************************************************************)
EXTENDS HookThreads, ConnectionManagerProofs

LEMMA HookStepKinds ==
    ASSUME [HookNext]_hookVars
    PROVE  \/ [Next]_vars /\ UNCHANGED <<gameVars, loader>>
           \/ UNCHANGED <<vars, loader>> /\ (AskAvailable \/ ReadChecks \/ ReadP2PPacket)
           \/ ReadPops
           \/ Attach
           \/ Detach
<1>1. CASE UNCHANGED hookVars
  BY <1>1 DEF hookVars
<1>2. CASE AskAvailable \/ ReadChecks \/ ReadP2PPacket
  BY <1>2 DEF AskAvailable, ReadChecks, ReadP2PPacket
<1>3. CASE \/ Pump \/ InjectionThread \/ (\E p \in Peers : SendPacket(p)) \/ GameThread
           \/ Network \/ Tick
  BY <1>1, <1>2, <1>3 DEF HookNext, Game, Next, Application
<1> QED
  BY <1>1, <1>2, <1>3 DEF HookNext, Game

\* Attaching is two calls of the library, or none.
LEMMA AttachIsClient ==
    ASSUME Types, Attach
    PROVE  [Next]_vars /\ UNCHANGED <<gameVars, cut>> /\ dll' \in {"attach", "run"}
<1>1. CASE AttachConnects
  BY <1>1 DEF AttachConnects, Next, Application, loader
<1>2. CASE AttachEnds
  <2>1. UNCHANGED <<gameVars, cut>> /\ dll' = "run"
    BY <1>2 DEF AttachEnds
  <2>2. CASE UNCHANGED vars
    BY <2>1, <2>2
  <2>3. CASE \E p \in m_connections : SetAutoReconnect(p)
    <3>1. \E p \in Peers : SetAutoReconnect(p)
      BY <2>3 DEF Types, ManagerType
    <3> QED
      BY <2>1, <3>1 DEF Next, Application
  <2> QED
    BY <1>2, <2>2, <2>3 DEF AttachEnds
<1> QED
  BY <1>1, <1>2 DEF Attach

----------------------------------------------------------------------------
\* The client's invariants.

ClientInv == Types /\ PureInv /\ CallbackInv

PopsOne(p) ==
    /\ receiveQueue[p] # <<>>
    /\ receiveQueue' = [receiveQueue EXCEPT ![p] = Tail(@)]

LEMMA ReadPopsKinds ==
    ASSUME ReadPops
    PROVE  /\ UNCHANGED <<network, connected, autoReconnect, reconnectAttempt, due, sendBuffer,
                          manager, pass, app, history, loader>>
           /\ (PopsOne(asked.peer) /\ asked.peer \in m_connections) \/ UNCHANGED receiveQueue
<1>1. CASE Available(asked.peer)
  BY <1>1 DEF ReadPops, Available, PopsOne
<1>2. CASE ~Available(asked.peer)
  BY <1>2 DEF ReadPops
<1> QED
  BY <1>1, <1>2 DEF ReadPops

LEMMA ReadPopsClient ==
    ASSUME ClientInv, ReadPops
    PROVE  ClientInv'
<1>1. /\ UNCHANGED <<network, connected, autoReconnect, reconnectAttempt, due, sendBuffer,
                     manager, pass, app, history>>
      /\ (PopsOne(asked.peer) /\ asked.peer \in m_connections) \/ UNCHANGED receiveQueue
  BY ReadPopsKinds
<1>2. UNCHANGED <<in, wire, waiting, m_nextPeerID, m_connections, session, cb, greeting, pc,
                  sending>>
  BY <1>1 DEF network, manager, history, app, calls, pass
<1>3. CallbackInv'
  BY <1>2 DEF ClientInv, CallbackInv, InCallback
<1>4. CASE UNCHANGED receiveQueue
  <2>1. UNCHANGED conn
    BY <1>1, <1>4 DEF conn
  <2>2. Types'
    BY <1>1, <1>2, <2>1, NetTypeKept, ConnTypeKept, ManagerTypeKept, PassTypeKept, AppTypeKept,
       HistTypeKept DEF ClientInv, Types
  <2>3. PureInv'
    BY <1>1, <1>2, <1>4, PureKept DEF ClientInv
  <2> QED
    BY <1>3, <2>2, <2>3 DEF ClientInv
<1>5. CASE PopsOne(asked.peer) /\ asked.peer \in m_connections
  <2>1. PICK p \in Peers : p = asked.peer
    BY <1>5 DEF ClientInv, Types, ManagerType
  <2>2. receiveQueue[p] # <<>> /\ receiveQueue' = [receiveQueue EXCEPT ![p] = Tail(@)]
    BY <1>5, <2>1 DEF PopsOne
  <2>3. PureInv'
    BY <1>1, <1>2, <2>2, PopPure DEF ClientInv
  <2>4. Tail(receiveQueue[p]) \in Seq(Incoming)
    BY <2>2, HeadTailProperties DEF ClientInv, Types, ConnType
  <2>5. receiveQueue' \in [Peers -> Seq(Incoming)]
    BY <2>2, <2>4 DEF ClientInv, Types, ConnType
  <2>6. ConnType'
    BY <1>1, <2>5 DEF ClientInv, Types, ConnType
  <2>7. Types'
    BY <1>1, <1>2, <2>6, NetTypeKept, ManagerTypeKept, PassTypeKept, AppTypeKept, HistTypeKept
       DEF ClientInv, Types
  <2> QED
    BY <1>3, <2>3, <2>7 DEF ClientInv
<1> QED
  BY <1>1, <1>4, <1>5

LEMMA DetachDisablesClient ==
    ASSUME ClientInv, DetachDisables
    PROVE  ClientInv'
<1> DEFINE S == {p \in m_connections : told[p]}
<1>0. AttemptMax \in Nat
  BY ClientBoundsAssumption
<1>1. UNCHANGED <<network, connected, sendBuffer, receiveQueue, manager, pass, app, session,
                  ups, downs>>
  BY DEF DetachDisables
<1>2. /\ autoReconnect' = [p \in Peers |-> autoReconnect[p] /\ p \notin S]
      /\ reconnectAttempt' = [p \in Peers |-> IF p \in S THEN 0 ELSE reconnectAttempt[p]]
      /\ due' = [p \in Peers |-> IF p \in S THEN Unset ELSE due[p]]
      /\ unscheduled' = unscheduled \cup {p \in S : ~connected[p]}
  BY DEF DetachDisables, StopsReconnecting
<1>3. S \subseteq Peers
  BY DEF ClientInv, Types, ManagerType
<1> HIDE DEF S
<1>4. ConnType'
  <2>1. autoReconnect' \in [Peers -> BOOLEAN]
    BY <1>2
  <2>2. reconnectAttempt' \in [Peers -> 0..AttemptMax] /\ due' \in [Peers -> Nat \cup {Unset}]
    BY <1>0, <1>2 DEF ClientInv, Types, ConnType
  <2> QED
    BY <1>1, <2>1, <2>2 DEF ClientInv, Types, ConnType
<1>5. HistType'
  BY <1>1, <1>2, <1>3 DEF ClientInv, Types, HistType
<1>6. UNCHANGED <<in, wire, waiting, m_nextPeerID, m_connections, cb, greeting, pc, sending>>
  BY <1>1 DEF network, manager, app, calls, pass
<1>7. Types'
  BY <1>1, <1>4, <1>5, <1>6, NetTypeKept, ManagerTypeKept, PassTypeKept, AppTypeKept
     DEF ClientInv, Types
<1>8. \A p \in Peers : due'[p] = Unset \/ due'[p] = due[p]
  BY <1>2
<1>9. PureInv'
  BY <1>1, <1>6, <1>8 DEF ClientInv, PureInv, BuffersPure, WaitingEmpty, FreshEmpty
<1>10. CallbackInv'
  BY <1>6 DEF ClientInv, CallbackInv, InCallback
<1> QED
  BY <1>7, <1>9, <1>10 DEF ClientInv

\* Detaching disconnects the peer it found, or nobody.
LEMMA DetachDisconnectsKinds ==
    ASSUME DetachDisconnects
    PROVE  /\ UNCHANGED <<reachable, in, wire, waiting, m_initialized, m_listening,
                          m_nextPeerID, m_pendingRemove, pass, cb, greeting, injection, sends,
                          calls, gameVars, cut>>
           /\ \/ \E p \in m_connections : DropPeer(p)
              \/ UNCHANGED <<remote, conn, m_connections, told, history>>
BY DEF DetachDisconnects

LEMMA DetachDisconnectsClient ==
    ASSUME ClientInv, DetachDisconnects
    PROVE  ClientInv'
<1>1. UNCHANGED <<reachable, in, wire, waiting, m_initialized, m_listening, m_nextPeerID,
                  m_pendingRemove, pass, cb, greeting, injection, sends, calls>>
  BY DetachDisconnectsKinds
<1>2. UNCHANGED <<pc, sending>>
  BY <1>1 DEF pass, calls
<1>3. CallbackInv'
  BY <1>1, <1>2 DEF ClientInv, CallbackInv, InCallback
<1>4. CASE UNCHANGED <<remote, conn, m_connections, told, history>>
  <2>1. UNCHANGED <<network, manager, app, connected, due, sendBuffer, receiveQueue, session>>
    BY <1>1, <1>4 DEF network, manager, app, conn, history
  <2>2. Types'
    BY <1>1, <1>4, <2>1, NetTypeKept, ConnTypeKept, ManagerTypeKept, PassTypeKept,
       AppTypeKept, HistTypeKept DEF ClientInv, Types
  <2>3. PureInv'
    BY <1>1, <1>4, <2>1, PureKept DEF ClientInv
  <2> QED
    BY <1>3, <2>2, <2>3 DEF ClientInv
<1>5. CASE \E p \in m_connections : DropPeer(p)
  <2>1. PICK p \in Peers : p \in m_connections /\ DropPeer(p)
    BY <1>5 DEF ClientInv, Types, ManagerType
  <2>2. /\ ConnType' /\ HistType' /\ m_connections' \subseteq Peers
        /\ told' \in [Peers -> BOOLEAN]
        /\ remote' \in [Peers -> {"up", "fin", "reset", "closed"}]
    BY <2>1, DropPeerType DEF ClientInv
  <2>3. ManagerType'
    BY <1>1, <2>2 DEF ClientInv, Types, ManagerType
  <2>4. AppType'
    BY <1>1, <2>2, CallsTypeKept DEF ClientInv, Types, AppType
  <2>5. NetType'
    BY <1>1, <2>2 DEF ClientInv, Types, NetType
  <2>6. PassType'
    BY <1>1, PassTypeKept DEF ClientInv, Types
  <2>7. Types'
    BY <2>2, <2>3, <2>4, <2>5, <2>6, Zenon DEF Types
  <2>8. PureInv'
    BY <1>1, <2>1, DropPeerPure DEF ClientInv
  <2> QED
    BY <1>3, <2>7, <2>8 DEF ClientInv
<1> QED
  BY <1>4, <1>5, DetachDisconnectsKinds

LEMMA DetachShutsDownClient ==
    ASSUME ClientInv, DetachShutsDown
    PROVE  ClientInv'
<1>1. ForgetAll
  BY DEF DetachShutsDown
<1>2. UNCHANGED <<cb, greeting, pc, sending>>
  BY <1>1 DEF ForgetAll, pass, calls
<1>3. CallbackInv'
  BY <1>2 DEF ClientInv, CallbackInv, InCallback
<1> QED
  BY <1>1, <1>3, ForgetAllType, ForgetAllPure DEF ClientInv

LEMMA HookClientStep == ClientInv /\ [HookNext]_hookVars => ClientInv'
<1> SUFFICES ASSUME ClientInv, [HookNext]_hookVars PROVE ClientInv'
  OBVIOUS
<1>1. CASE [Next]_vars
  BY <1>1, TypesStep, PureStep, CallbackStep DEF ClientInv
<1>2. CASE ReadPops
  BY <1>2, ReadPopsClient
<1>3. CASE Detach
  BY <1>3, DetachDisablesClient, DetachDisconnectsClient, DetachShutsDownClient DEF Detach
<1>4. CASE Attach
  BY <1>1, <1>4, AttachIsClient DEF ClientInv
<1> QED
  BY <1>1, <1>2, <1>3, <1>4, HookStepKinds

LEMMA HookClientInvariant == HookSpec => []ClientInv
<1>1. HookInit => ClientInv
  BY TypesInit, PureInit, CallbackInit DEF HookInit, ClientInv
<1> QED
  BY <1>1, HookClientStep, PTL DEF HookSpec

\* No packet of one TCP connection is queued for the game in the next one,
\* also while the game's thread pops and sends and DLL_PROCESS_DETACH
\* disconnects beside the pump.
THEOREM HookInboundPure == HookSpec => []InboundPure
<1>1. ClientInv => InboundPure
  BY PureSession DEF ClientInv
<1> QED
  BY <1>1, HookClientInvariant, PTL

----------------------------------------------------------------------------
\* The registration.

\* If the id was found, the hook's one connection is registered in every session
\* also while the loader's thread attaches and detaches beside the pump, the
\* game's sends and InjectionThread.
THEOREM HookSessionGreeted ==
    ASSUME MaxPeers = 1
    PROVE  HookSpec => []SessionGreeted
<1>1. HookInit => KnownInv /\ GreetInv
  BY GreetInit DEF HookInit
<1>2. ClientInv /\ (KnownInv /\ GreetInv) /\ [HookNext]_hookVars => (KnownInv /\ GreetInv)'
  <2> SUFFICES ASSUME ClientInv, KnownInv, GreetInv, [HookNext]_hookVars
               PROVE  KnownInv' /\ GreetInv'
    OBVIOUS
  <2>1. CASE [Next]_vars
    BY <2>1, GreetStep DEF ClientInv
  <2>2. CASE UNCHANGED <<connected, wire, sendBuffer, cb, greeting, injection, told,
                         m_connections, session, calls>>
    <3>1. UNCHANGED sending
      BY <2>2 DEF calls
    <3> QED
      BY <2>2, <3>1, KnownKept, GreetKept DEF StreamKept
  <2>3. CASE ReadPops
    BY <2>2, <2>3 DEF ReadPops, network, manager, app, history
  <2>4. CASE DetachDisables
    BY <2>2, <2>4 DEF DetachDisables, network, manager, app
  <2>5. CASE DetachDisconnects
    <3>1. UNCHANGED <<wire, cb, greeting, injection, calls>>
      BY <2>5 DEF DetachDisconnects
    <3>2. CASE UNCHANGED <<remote, conn, m_connections, told, history>>
      BY <2>2, <3>1, <3>2 DEF conn, history
    <3>3. CASE \E p \in m_connections : DropPeer(p)
      BY <3>1, <3>3, DropGreets DEF ClientInv, Types, ManagerType
    <3> QED
      BY <2>5, <3>2, <3>3, DetachDisconnectsKinds
  <2>6. CASE DetachShutsDown
    BY <2>6, ForgetGreets DEF DetachShutsDown
  <2>7. CASE Attach
    BY <2>1, <2>7, AttachIsClient DEF ClientInv
  <2> QED
    BY <2>1, <2>3, <2>4, <2>5, <2>6, <2>7, HookStepKinds DEF Detach
<1>3. ClientInv /\ GreetInv => SessionGreeted
  BY GreetSession DEF ClientInv
<1> QED
  BY <1>1, <1>2, <1>3, HookClientInvariant, PTL DEF HookSpec

----------------------------------------------------------------------------
\* The stash.

\* While a poll is under way the stash is free: it was when the poll began,
\* and only the poll itself fills it.
StashInv == StashHoldsPopped /\ (game # "out" => ~g_hasTcpData)

LEMMA StashKept ==
    ASSUME StashInv, UNCHANGED gameVars
    PROVE  StashInv'
BY DEF StashInv, StashHoldsPopped, gameVars, stash

LEMMA StashStep == StashInv /\ [HookNext]_hookVars => StashInv'
<1> SUFFICES ASSUME StashInv, [HookNext]_hookVars PROVE StashInv'
  OBVIOUS
<1>1. CASE UNCHANGED gameVars
  BY <1>1, StashKept
<1>2. CASE AskAvailable
  <2>1. ~g_hasTcpData /\ UNCHANGED <<stash, popped>> /\ game' = "check"
    BY <1>2 DEF AskAvailable, StashFree
  <2>2. popped = <<>>
    BY <2>1 DEF StashInv, StashHoldsPopped
  <2> QED
    BY <2>1, <2>2 DEF StashInv, StashHoldsPopped, stash
<1>3. CASE ReadChecks
  <2>1. game = "check" /\ UNCHANGED <<stash, popped>>
    BY <1>3 DEF ReadChecks
  <2> QED
    BY <2>1 DEF StashInv, StashHoldsPopped, stash
<1>4. CASE ReadPops
  <2>1. ~g_hasTcpData /\ popped = <<>> /\ game' = "out"
    BY <1>4 DEF ReadPops, StashInv, StashHoldsPopped
  <2>2. CASE UNCHANGED <<stash, popped>>
    BY <2>1, <2>2 DEF StashInv, StashHoldsPopped, stash
  <2>3. CASE \E packet : /\ g_hasTcpData' = TRUE /\ g_tcpRecvBuffer' = packet
                         /\ popped' = Append(popped, packet)
    <3>1. PICK packet : /\ g_hasTcpData' = TRUE /\ g_tcpRecvBuffer' = packet
                        /\ popped' = Append(popped, packet)
      BY <2>3
    <3>2. popped' = <<packet>>
      BY <2>1, <3>1
    <3> QED
      BY <2>1, <3>1, <3>2 DEF StashInv, StashHoldsPopped
  <2> QED
    BY <1>4, <2>2, <2>3 DEF ReadPops
<1>5. CASE ReadP2PPacket
  <2>1. /\ game = "out" /\ game' = game /\ g_hasTcpData /\ popped' = Given(popped)
        /\ g_hasTcpData' = FALSE
    BY <1>5 DEF ReadP2PPacket
  <2>2. popped = <<g_tcpRecvBuffer>>
    BY <2>1 DEF StashInv, StashHoldsPopped
  <2>3. popped' = <<>>
    BY <2>1, <2>2 DEF Given
  <2> QED
    BY <2>1, <2>3 DEF StashInv, StashHoldsPopped
<1>6. CASE Attach \/ Detach
  BY <1>1, <1>6 DEF Attach, AttachConnects, AttachEnds, Detach, DetachDisables,
                    DetachDisconnects, DetachShutsDown
<1> QED
  BY <1>1, <1>2, <1>3, <1>4, <1>5, <1>6, HookStepKinds

\* The one-packet stash between Hook_IsP2PPacketAvailable and
\* Hook_ReadP2PPacket neither loses nor repeats a packet, however often the
\* game polls: it is filled only when it was found free, and nobody fills it
\* between that look and the pop.
THEOREM HookStashHoldsPopped == HookSpec => []StashHoldsPopped
<1>1. HookInit => StashInv
  BY DEF HookInit, StashInv, StashHoldsPopped
<1>2. StashInv => StashHoldsPopped
  BY DEF StashInv
<1> QED
  BY <1>1, <1>2, StashStep, PTL DEF HookSpec

----------------------------------------------------------------------------
\* Detaching.

\* Only a new peer, or one with automatic reconnection, gets a TCP connection.
LEMMA SessionStep ==
    ASSUME Types, [Next]_vars
    PROVE  /\ m_nextPeerID' >= m_nextPeerID
           /\ \A p \in Peers : session'[p] # session[p] => p = m_nextPeerID \/ autoReconnect[p]
<1>0. m_nextPeerID \in Nat
  BY ClientBoundsAssumption DEF Types, ManagerType
<1>1. CASE UNCHANGED <<session, m_nextPeerID>>
  BY <1>0, <1>1
<1>2. CASE Connect \/ AcceptNewConnection
  <2>1. m_nextPeerID' = m_nextPeerID + 1
    BY <1>2 DEF Connect, AcceptNewConnection, AddPeer
  <2>2. session' = [session EXCEPT ![m_nextPeerID] = @ + 1]
    BY <1>2 DEF Connect, AcceptNewConnection, AddPeer, NewSession
  <2> QED
    BY <1>0, <2>1, <2>2 DEF Types, HistType
<1>3. CASE \E q \in Peers : ReconnectSucceeds(q)
  <2>1. PICK q \in Peers : ReconnectSucceeds(q)
    BY <1>3
  <2>2. autoReconnect[q] /\ UNCHANGED m_nextPeerID /\ session' = [session EXCEPT ![q] = @ + 1]
    BY <2>1 DEF ReconnectSucceeds, Reconnecting, DuePeers, NewSession
  <2> QED
    BY <1>0, <2>2 DEF Types, HistType
<1>4. CASE \/ ProcessEvents \/ FirstDone \/ Select \/ StartRemoving \/ RemoveDisconnected
           \/ RemovingDone \/ PassDone \/ CallbackStores \/ CallbackGreets
           \/ \E p \in Peers : ReconnectFails(p) \/ ProcessPeer(p)
  BY <1>1, <1>4
     DEF ProcessEvents, FirstDone, Select, StartRemoving, RemoveDisconnected, RemovingDone,
         PassDone, CallbackStores, CallbackGreets, ReconnectFails, Reconnecting, ProcessPeer,
         DropPeer, manager, history
<1>5. CASE \/ Listen \/ StopListen \/ Shutdown \/ Initialize
           \/ \E p \in Peers :
                SetAutoReconnect(p) \/ Disconnect(p) \/ SendPacket(p) \/ ReadPacket(p)
  BY <1>1, <1>5
     DEF Listen, StopListen, Shutdown, ForgetAll, Initialize, SetAutoReconnect, Disconnect,
         DropPeer, SendPacket, ReadPacket, manager, history
<1>6. CASE InjectionThread \/ GameThread \/ Continues("callback") \/ Network \/ Tick
  BY <1>1, <1>6
     DEF InjectionThread, Injects, GameThread, Continues, SendTries, SendStores, HookVTable,
         GetLocalSteamID, InjectionRegisters, Network, Reachability, RemoteConnects,
         RemoteEnds, RemoteSends, Tick, manager, history
<1>7. CASE UNCHANGED vars
  BY <1>1, <1>7 DEF vars, manager, history
<1> QED
  BY <1>2, <1>3, <1>4, <1>5, <1>6, <1>7 DEF Next, Pump, Passes, Application

\* The application alone switches reconnection on.
LEMMA AutoStep ==
    ASSUME \/ Pump \/ InjectionThread \/ (\E p \in Peers : SendPacket(p)) \/ GameThread
           \/ Network \/ Tick
    PROVE  UNCHANGED autoReconnect
BY DEF Pump, Passes, ProcessEvents, FirstDone, AcceptNewConnection, Select, StartRemoving,
       RemoveDisconnected, RemovingDone, PassDone, CallbackStores, CallbackGreets,
       ReconnectSucceeds, ReconnectFails, Reconnecting, ProcessPeer, DropPeer,
       InjectionThread, Injects, GameThread, Continues, SendTries, SendStores, SendPacket,
       HookVTable,
       GetLocalSteamID, InjectionRegisters, Network, Reachability, RemoteConnects, RemoteEnds,
       RemoteSends, Tick, conn

\* The peers loader found keep their ids and do not reconnect.
CutInv ==
    /\ dll \in {"attach", "run"} => cut = {}
    /\ \A p \in cut : p \in Peers /\ p < m_nextPeerID /\ ~autoReconnect[p]

LEMMA CutStep == ClientInv /\ CutInv /\ [HookNext]_hookVars => CutInv'
<1> SUFFICES ASSUME ClientInv, CutInv, [HookNext]_hookVars PROVE CutInv'
  OBVIOUS
<1>0. m_nextPeerID \in Nat /\ m_nextPeerID' \in Nat /\ \A p \in Peers : p \in Nat
  <2>1. Types'
    BY HookClientStep DEF ClientInv
  <2> QED
    BY <2>1, ClientBoundsAssumption DEF ClientInv, Types, ManagerType, Peers
<1>1. ASSUME [Next]_vars, UNCHANGED loader, UNCHANGED autoReconnect
      PROVE  CutInv'
  <2>1. m_nextPeerID' >= m_nextPeerID /\ UNCHANGED <<dll, cut>>
    BY <1>1, SessionStep DEF ClientInv, loader
  <2> QED
    BY <1>0, <1>1, <2>1 DEF CutInv
<1>2. CASE UNCHANGED <<loader, m_nextPeerID, autoReconnect>>
  BY <1>2 DEF CutInv, loader
<1>3. CASE UNCHANGED hookVars
  BY <1>2, <1>3 DEF hookVars, vars, conn, manager
<1>4. CASE /\ \/ Pump \/ InjectionThread \/ (\E p \in Peers : SendPacket(p)) \/ GameThread
              \/ Network \/ Tick
           /\ UNCHANGED <<gameVars, loader>>
  <2>1. UNCHANGED autoReconnect
    BY <1>4, AutoStep
  <2>2. [Next]_vars
    BY <1>4 DEF Next, Application
  <2> QED
    BY <1>1, <1>4, <2>1, <2>2
<1>5. CASE Attach
  <2>1. dll = "attach" /\ UNCHANGED cut
    BY <1>5, AttachIsClient DEF ClientInv, Attach, AttachConnects, AttachEnds
  <2>2. cut' = {}
    BY <2>1 DEF CutInv
  <2> QED
    BY <2>2 DEF CutInv
<1>6. CASE Game
  BY <1>2, <1>6 DEF Game, AskAvailable, ReadChecks, ReadPops, ReadP2PPacket, vars, conn, manager
<1>7. CASE DetachDisables
  <2> DEFINE S == {p \in m_connections : told[p]}
  <2>1. /\ dll' = "disabled" /\ cut' = S /\ UNCHANGED m_nextPeerID
        /\ autoReconnect' = [p \in Peers |-> autoReconnect[p] /\ p \notin S]
    BY <1>7 DEF DetachDisables, StopsReconnecting, manager
  <2>2. \A p \in S : p \in Peers /\ p < m_nextPeerID
    BY <1>0 DEF ClientInv, Types, ManagerType, PureInv, FreshEmpty
  <2> HIDE DEF S
  <2> QED
    BY <2>1, <2>2 DEF CutInv
<1>8. CASE DetachDisconnects
  <2>1. dll' = "stopping" /\ UNCHANGED <<cut, m_nextPeerID, autoReconnect>>
    BY <1>8 DEF DetachDisconnects, DropPeer, conn
  <2> QED
    BY <2>1 DEF CutInv
<1>9. CASE DetachShutsDown
  <2>1. dll' = "gone" /\ UNCHANGED <<cut, m_nextPeerID>>
        /\ autoReconnect' = [p \in Peers |-> FALSE]
    BY <1>9 DEF DetachShutsDown, ForgetAll
  <2> QED
    BY <2>1 DEF CutInv
<1> QED
  BY <1>3, <1>4, <1>5, <1>6, <1>7, <1>8, <1>9 DEF HookNext, Detach

\* DLL_PROCESS_DETACH switches reconnection off before it disconnects, and so
\* the pump, which runs on until it is told to stop, makes no new connection
\* for the peer that was found.
THEOREM HookDetachedStaysDown == HookSpec => DetachedStaysDown
<1>1. HookInit => CutInv
  BY DEF HookInit, CutInv
<1>2. ClientInv /\ CutInv /\ [HookNext]_hookVars
      => [\A p \in cut : session'[p] = session[p]]_hookVars
  <2> SUFFICES ASSUME ClientInv, CutInv, [HookNext]_hookVars, NEW p \in cut
               PROVE  session'[p] = session[p]
    OBVIOUS
  <2>1. p \in Peers /\ p # m_nextPeerID /\ ~autoReconnect[p]
    <3>1. m_nextPeerID \in Nat
      BY ClientBoundsAssumption DEF ClientInv, Types, ManagerType
    <3> QED
      BY <3>1 DEF CutInv, Peers
  <2>2. CASE [Next]_vars
    BY <2>1, <2>2, SessionStep DEF ClientInv
  <2>3. CASE ReadPops
    BY <2>3 DEF ReadPops, history
  <2>4. CASE Detach
    BY <2>4 DEF Detach, DetachDisables, DetachDisconnects, DetachShutsDown, ForgetAll,
                DropPeer, history
  <2>5. CASE Attach
    BY <2>2, <2>5, AttachIsClient DEF ClientInv
  <2> QED
    BY <2>2, <2>3, <2>4, <2>5, HookStepKinds
<1> QED
  BY <1>1, <1>2, CutStep, HookClientInvariant, PTL DEF HookSpec, DetachedStaysDown

----------------------------------------------------------------------------
\* The poll's three looks.

\* What a step of the library may do to the queue of a peer: a new TCP
\* connection, or the same one, which comes up no more once it is down, and
\* whose queue grows at its end while it is up and is cleared when it is down.
QueueAt(p) ==
    \/ session'[p] = session[p] + 1
    \/ /\ session'[p] = session[p]
       /\ ~connected[p] => ~connected'[p]
       /\ \/ receiveQueue'[p] = receiveQueue[p]
          \/ receiveQueue'[p] = <<>> /\ ~connected'[p]
          \/ connected[p] /\ \E t \in Seq(Incoming) : receiveQueue'[p] = receiveQueue[p] \o t

LEMMA QueueKept ==
    ASSUME UNCHANGED <<session, connected, receiveQueue>>, NEW p
    PROVE  QueueAt(p)
BY DEF QueueAt

\* A sendPacket brings no connection up and leaves the queues alone.
LEMMA SendsQueue ==
    ASSUME Types, NEW q \in Peers, UNCHANGED <<session, receiveQueue>>,
           \/ \E t \in Senders, p \in Peers, n \in Nat : Sends(t, p, n)
           \/ SendsNothing
    PROVE  QueueAt(q)
<1>1. ~connected[q] => ~connected'[q]
  BY DEF Sends, SendsNothing, SendChecks, Transmit, Types, ConnType
<1> QED
  BY <1>1 DEF QueueAt

LEMMA ContinuesQueue ==
    ASSUME Types, NEW t \in Senders, Continues(t), NEW q \in Peers
    PROVE  QueueAt(q)
<1>1. UNCHANGED <<session, receiveQueue>>
  BY DEF Continues, SendTries, SendStores, conn, history
<1>2. connected' = connected \/ connected' = [connected EXCEPT ![sending[t].peer] = FALSE]
  BY DEF Continues, SendTries, SendStores, conn
<1>3. ~connected[q] => ~connected'[q]
  BY <1>2 DEF Types, ConnType
<1> QED
  BY <1>1, <1>3 DEF QueueAt

LEMMA NewSessionQueue ==
    ASSUME Types, NEW p \in Peers, NewSession(p), UNCHANGED receiveQueue, NEW q \in Peers
    PROVE  QueueAt(q)
<1>1. /\ session' = [session EXCEPT ![p] = @ + 1]
      /\ connected' = [connected EXCEPT ![p] = TRUE]
  BY DEF NewSession
<1>2. CASE q = p
  BY <1>1, <1>2 DEF QueueAt, Types, HistType
<1>3. CASE q # p
  <2>1. session'[q] = session[q] /\ connected'[q] = connected[q]
    BY <1>1, <1>3 DEF Types, HistType, ConnType
  <2> QED
    BY <2>1 DEF QueueAt
<1> QED
  BY <1>2, <1>3

LEMMA DropQueue ==
    ASSUME Types, NEW p \in Peers, DropPeer(p), NEW q \in Peers
    PROVE  QueueAt(q)
<1>1. /\ UNCHANGED session
      /\ connected' = [connected EXCEPT ![p] = FALSE]
      /\ receiveQueue' = [receiveQueue EXCEPT ![p] = <<>>]
  BY DEF DropPeer, ClearBuffers
<1>2. CASE q = p
  <2>1. receiveQueue'[q] = <<>> /\ ~connected'[q]
    BY <1>1, <1>2 DEF Types, ConnType
  <2> QED
    BY <1>1, <2>1 DEF QueueAt
<1>3. CASE q # p
  <2>1. receiveQueue'[q] = receiveQueue[q] /\ connected'[q] = connected[q]
    BY <1>1, <1>3 DEF Types, ConnType
  <2> QED
    BY <1>1, <2>1 DEF QueueAt
<1> QED
  BY <1>2, <1>3

LEMMA ForgetQueue ==
    ASSUME ForgetAll, NEW q \in Peers
    PROVE  QueueAt(q)
<1>1. UNCHANGED session /\ receiveQueue'[q] = <<>> /\ ~connected'[q]
  BY DEF ForgetAll
<1> QED
  BY <1>1 DEF QueueAt

LEMMA ProcessPeerQueue ==
    ASSUME Types, NEW p \in Peers, ProcessPeer(p), NEW q \in Peers
    PROVE  QueueAt(q)
<1>1. UNCHANGED session
  BY DEF ProcessPeer, history
<1>2. CASE UNCHANGED <<connected, receiveQueue>>
  BY <1>1, <1>2, QueueKept
<1>3. ASSUME NEW a, NEW b, MarkDown(p, a, b)
      PROVE  ~connected[q] => ~connected'[q]
  BY <1>3 DEF Types, ConnType, MarkDown
<1>4. CASE MarkDown(p, TRUE, FALSE) /\ UNCHANGED receiveQueue
  BY <1>1, <1>3, <1>4 DEF QueueAt
<1>5. CASE p \in Selectable /\ MarkDown(p, ReadCloses(p), WriteFails(p)) /\ ReadAll(p)
  <2>1. ~connected[q] => ~connected'[q]
    BY <1>3, <1>5
  <2>2. CASE receiveQueue'[q] = receiveQueue[q]
    BY <1>1, <2>1, <2>2 DEF QueueAt
  <2>3. CASE receiveQueue'[q] # receiveQueue[q]
    <3>1. p = q /\ connected[p]
      BY <1>5, <2>3 DEF ReadAll, Selectable, Types, ConnType
    <3>2. PICK n \in {0, Len(in[p])} :
                 receiveQueue' = [receiveQueue EXCEPT ![p] = @ \o SubSeq(in[p], 1, n)]
      BY <1>5, <2>3 DEF ReadAll
    <3>3. SubSeq(in[p], 1, n) \in Seq(Incoming)
      <4>1. in[p] \in Seq(Incoming)
        BY DEF Types, NetType
      <4>2. n \in 0..Len(in[p])
        BY <4>1, LenProperties
      <4> QED
        BY <4>1, <4>2, Halves
    <3>4. receiveQueue'[q] = receiveQueue[q] \o SubSeq(in[p], 1, n)
      BY <3>1, <3>2 DEF Types, ConnType
    <3> DEFINE t == SubSeq(in[p], 1, n)
    <3>5. t \in Seq(Incoming) /\ receiveQueue'[q] = receiveQueue[q] \o t
      BY <3>3, <3>4
    <3> HIDE DEF t
    <3> QED
      BY <1>1, <2>1, <3>1, <3>5 DEF QueueAt
  <2> QED
    BY <2>2, <2>3
<1> QED
  BY <1>2, <1>4, <1>5, ProcessPeerCases

LEMMA QueueStep ==
    ASSUME Types, [Next]_vars, "read" \notin Calls, NEW q \in Peers
    PROVE  QueueAt(q)
<1>1. CASE \/ ProcessEvents \/ FirstDone \/ Select \/ StartRemoving
           \/ RemovingDone \/ PassDone \/ CallbackStores
           \/ \E p \in Peers : ReconnectFails(p) \/ SetAutoReconnect(p)
  BY <1>1, QueueKept
     DEF ProcessEvents, FirstDone, Select, StartRemoving, RemovingDone, PassDone,
         CallbackStores, ReconnectFails, Reconnecting, SetAutoReconnect, conn, history
<1>2. CASE \/ Listen \/ StopListen \/ Initialize \/ HookVTable \/ GetLocalSteamID
           \/ Network \/ Tick \/ UNCHANGED vars
  BY <1>2, QueueKept
     DEF Listen, StopListen, Initialize, HookVTable, GetLocalSteamID, Network, Reachability,
         RemoteConnects, RemoteEnds, RemoteSends, Tick, conn, history, vars
<1>3. CASE Connect \/ AcceptNewConnection
  <2>1. m_nextPeerID \in Peers
    <3>1. m_nextPeerID \in Nat /\ MaxPeers \in Nat
      BY ClientBoundsAssumption DEF Types, ManagerType
    <3> QED
      BY <1>3, <3>1 DEF Connect, AcceptNewConnection, Types, NetType, ManagerType, Peers
  <2>2. NewSession(m_nextPeerID) /\ UNCHANGED receiveQueue
    BY <1>3 DEF Connect, AcceptNewConnection, AddPeer
  <2> QED
    BY <2>1, <2>2, NewSessionQueue
<1>4. CASE \E p \in Peers : ReconnectSucceeds(p)
  <2>1. PICK p \in Peers : ReconnectSucceeds(p)
    BY <1>4
  <2>2. NewSession(p) /\ UNCHANGED receiveQueue
    BY <2>1 DEF ReconnectSucceeds, Reconnecting
  <2> QED
    BY <2>2, NewSessionQueue
<1>5. CASE \E p \in Peers : Disconnect(p)
  BY <1>5, DropQueue DEF Disconnect
<1>6. CASE RemoveDisconnected
  <2>1. Head(removing) \in Peers
    BY <1>6, SetOfTail DEF Types, PassType, RemoveDisconnected
  <2>2. CASE Head(removing) \in m_connections
    BY <1>6, <2>1, <2>2, DropQueue DEF RemoveDisconnected
  <2>3. CASE Head(removing) \notin m_connections
    BY <1>6, <2>3, QueueKept DEF RemoveDisconnected, conn, history
  <2> QED
    BY <2>2, <2>3
<1>7. CASE \E p \in Peers : SendPacket(p)
  <2>1. PICK p \in Peers : SendPacket(p)
    BY <1>7
  <2>2. /\ Sends("game", p, sends[p] + 1) /\ "game" \in Senders /\ sends[p] + 1 \in Nat
        /\ UNCHANGED <<session, receiveQueue>>
    BY <2>1 DEF SendPacket, Senders, history, Types, AppType
  <2> QED
    BY <2>2, SendsQueue
<1>8. CASE CallbackGreets
  <2>1. greeting \in Peers /\ "callback" \in Senders /\ UNCHANGED <<session, receiveQueue>>
    BY <1>8 DEF CallbackGreets, Types, AppType, Senders, history
  <2>2. Sends("callback", greeting, Greeting) \/ SendsNothing
    BY <1>8 DEF CallbackGreets
  <2> QED
    BY <2>1, <2>2, SendsQueue DEF Greeting
<1>9. CASE InjectionRegisters
  <2>1. "injection" \in Senders /\ UNCHANGED <<session, receiveQueue>>
    BY <1>9 DEF InjectionRegisters, Senders, history
  <2>2. (\E p \in Peers : Sends("injection", p, Greeting)) \/ SendsNothing
    BY <1>9 DEF InjectionRegisters, Types, ManagerType
  <2> QED
    BY <2>1, <2>2, SendsQueue DEF Greeting
<1>10. CASE Shutdown
  BY <1>10, ForgetQueue DEF Shutdown
<1>11. CASE \E p \in Peers : ProcessPeer(p)
  BY <1>11, ProcessPeerQueue
<1>12. CASE \E p \in Peers : ReadPacket(p)
  BY <1>12 DEF ReadPacket
<1>13. CASE \E t \in Senders : Continues(t)
  BY <1>13, ContinuesQueue
<1> QED
  BY <1>1, <1>2, <1>3, <1>4, <1>5, <1>6, <1>7, <1>8, <1>9, <1>10, <1>11, <1>12, <1>13
     DEF Next, Pump, Passes, Application, InjectionThread, Injects, GameThread, Senders

\* A poll under way has a peer and the size of the packet it saw.
AskedType ==
    /\ game \in {"out", "check", "pop"}
    /\ game # "out" => asked \in [peer : Peers, sess : Nat, size : Nat]

\* The packet the last look approved is still the first of its queue, or the
\* queue was cleared and its connection is down, or there is a later one.
Approved(p) ==
    /\ asked.sess <= session[p]
    /\ asked.sess = session[p] =>
         IF receiveQueue[p] = <<>> THEN ~connected[p]
         ELSE receiveQueue[p][1].size <= asked.size

PopInv == AskedType /\ (game = "pop" => Approved(asked.peer))

LEMMA HeadIsFirst ==
    ASSUME NEW S, NEW s \in Seq(S), s # <<>>
    PROVE  Head(s) = s[1] /\ s[1] \in S
BY HeadTailProperties, EmptySeq, LenProperties, ElementOfSeq

LEMMA FirstOfConcat ==
    ASSUME NEW S, NEW s \in Seq(S), NEW t \in Seq(S), s # <<>>
    PROVE  s \o t # <<>> /\ (s \o t)[1] = s[1]
<1>1. /\ Len(s) \in Nat /\ Len(t) \in Nat /\ Len(s \o t) = Len(s) + Len(t)
      /\ \A i \in 1..(Len(s) + Len(t)) :
           (s \o t)[i] = IF i <= Len(s) THEN s[i] ELSE t[i - Len(s)]
  BY ConcatProperties, LenProperties
<1>2. Len(s) > 0
  BY <1>1, EmptySeq
<1>3. 1 \in 1..(Len(s) + Len(t)) /\ 1 <= Len(s) /\ Len(s \o t) # 0
  BY <1>1, <1>2
<1> QED
  BY <1>1, <1>3, EmptySeq

LEMMA ApprovedKept ==
    ASSUME Types, NEW p \in Peers, QueueAt(p), Approved(p), asked.sess \in Nat,
           UNCHANGED asked
    PROVE  Approved(p)'
<1>0. session[p] \in Nat /\ receiveQueue[p] \in Seq(Incoming)
  BY DEF Types, HistType, ConnType
<1>1. CASE session'[p] = session[p] + 1
  BY <1>0, <1>1 DEF Approved
<1>2. CASE session'[p] = session[p] /\ asked.sess # session[p]
  BY <1>2 DEF Approved
<1>3. CASE /\ session'[p] = session[p] /\ asked.sess = session[p]
           /\ ~connected[p] => ~connected'[p]
           /\ \/ receiveQueue'[p] = receiveQueue[p]
              \/ receiveQueue'[p] = <<>> /\ ~connected'[p]
              \/ connected[p] /\ \E t \in Seq(Incoming) : receiveQueue'[p] = receiveQueue[p] \o t
  <2>1. asked'.sess <= session'[p]
    BY <1>0, <1>3
  <2>2. CASE receiveQueue'[p] = receiveQueue[p]
    BY <1>3, <2>1, <2>2 DEF Approved
  <2>3. CASE receiveQueue'[p] = <<>> /\ ~connected'[p]
    BY <2>1, <2>3 DEF Approved
  <2>4. CASE connected[p] /\ \E t \in Seq(Incoming) : receiveQueue'[p] = receiveQueue[p] \o t
    <3>1. PICK t \in Seq(Incoming) : receiveQueue'[p] = receiveQueue[p] \o t
      BY <2>4
    <3>2. receiveQueue[p] # <<>> /\ receiveQueue[p][1].size <= asked.size
      BY <1>3, <2>4 DEF Approved
    <3>3. receiveQueue'[p] # <<>> /\ receiveQueue'[p][1] = receiveQueue[p][1]
      BY <1>0, <3>1, <3>2, FirstOfConcat
    <3> QED
      BY <2>1, <3>2, <3>3 DEF Approved
  <2> QED
    BY <1>3, <2>2, <2>3, <2>4
<1> QED
  BY <1>1, <1>2, <1>3 DEF QueueAt

LEMMA PopKept ==
    ASSUME Types, PopInv, UNCHANGED gameVars, \A q \in Peers : QueueAt(q)
    PROVE  PopInv'
<1>1. UNCHANGED <<game, asked>>
  BY DEF gameVars
<1>2. AskedType'
  BY <1>1 DEF PopInv, AskedType
<1>3. ASSUME game = "pop" PROVE Approved(asked.peer)'
  <2>1. asked.peer \in Peers /\ asked.sess \in Nat
    BY <1>3 DEF PopInv, AskedType
  <2>2. PICK p \in Peers : p = asked.peer
    BY <2>1
  <2>3. Approved(p)'
    BY <1>1, <1>3, <2>1, <2>2, ApprovedKept DEF PopInv
  <2> QED
    BY <1>1, <2>2, <2>3 DEF Approved
<1> QED
  BY <1>1, <1>2, <1>3 DEF PopInv

LEMMA PopStep ==
    ASSUME "read" \notin Calls
    PROVE  ClientInv /\ PopInv /\ [HookNext]_hookVars => PopInv'
<1> SUFFICES ASSUME ClientInv, PopInv, [HookNext]_hookVars PROVE PopInv'
  OBVIOUS
<1>0. Types
  BY DEF ClientInv
<1>1. CASE [Next]_vars /\ UNCHANGED gameVars
  BY <1>0, <1>1, QueueStep, PopKept
<1>2. CASE AskAvailable
  <2>1. PICK p \in Peers : /\ Available(p)
                           /\ asked' = [peer |-> p, sess |-> session[p],
                                        size |-> Head(receiveQueue[p]).size]
    BY <1>2 DEF AskAvailable, Peek
  <2>2. receiveQueue[p] \in Seq(Incoming) /\ receiveQueue[p] # <<>>
    BY <1>0, <2>1 DEF Available, Types, ConnType
  <2>3. Head(receiveQueue[p]) \in Incoming
    BY <2>2, HeadIsFirst
  <2>4. Head(receiveQueue[p]).size \in Nat
    BY <2>3, ClientBoundsAssumption DEF Incoming
  <2>5. session[p] \in Nat
    BY <1>0 DEF Types, HistType
  <2>6. game' = "check"
    BY <1>2 DEF AskAvailable
  <2> QED
    BY <2>1, <2>4, <2>5, <2>6 DEF PopInv, AskedType
<1>3. CASE ReadChecks
  <2>1. game = "check" /\ UNCHANGED <<session, connected, receiveQueue>>
    BY <1>3 DEF ReadChecks, vars, conn, history
  <2>2. asked \in [peer : Peers, sess : Nat, size : Nat]
    BY <2>1 DEF PopInv, AskedType
  <2>3. PICK p \in Peers : p = asked.peer
    BY <2>2
  <2>4. CASE Available(p) /\ Head(receiveQueue[p]).size <= asked.size
    <3>1. game' = "pop" /\ asked' = [asked EXCEPT !.sess = session[p]]
      BY <1>3, <2>3, <2>4 DEF ReadChecks, Fits, Peek
    <3>2. session[p] \in Nat /\ receiveQueue[p] \in Seq(Incoming) /\ receiveQueue[p] # <<>>
      BY <1>0, <2>4 DEF Available, Types, HistType, ConnType
    <3>3. /\ asked' \in [peer : Peers, sess : Nat, size : Nat]
          /\ asked'.peer = p /\ asked'.sess = session[p] /\ asked'.size = asked.size
      BY <2>2, <2>3, <3>1, <3>2
    <3>4. receiveQueue[p][1].size <= asked.size
      BY <2>4, <3>2, HeadIsFirst
    <3>5. Approved(p)'
      BY <2>1, <3>2, <3>3, <3>4 DEF Approved
    <3>6. Approved(asked.peer)'
      BY <3>3, <3>5 DEF Approved
    <3> QED
      BY <3>1, <3>3, <3>6 DEF PopInv, AskedType
  <2>5. CASE ~(Available(p) /\ Head(receiveQueue[p]).size <= asked.size)
    <3>1. game' = "out"
      BY <1>3, <2>3, <2>5 DEF ReadChecks, Fits, Peek
    <3> QED
      BY <3>1 DEF PopInv, AskedType
  <2> QED
    BY <2>4, <2>5
<1>4. CASE ReadPops
  BY <1>4 DEF ReadPops, PopInv, AskedType
<1>5. CASE ReadP2PPacket
  BY <1>5 DEF ReadP2PPacket, PopInv, AskedType
<1>6. CASE Detach
  <2>1. UNCHANGED gameVars
    BY <1>6 DEF Detach, DetachDisables, DetachDisconnects, DetachShutsDown
  <2>2. CASE DetachDisables
    BY <1>0, <2>1, <2>2, PopKept, QueueKept DEF DetachDisables
  <2>3. CASE DetachDisconnects
    <3>1. CASE UNCHANGED <<remote, conn, m_connections, told, history>>
      BY <1>0, <2>1, <3>1, PopKept, QueueKept DEF conn, history
    <3>2. CASE \E p \in m_connections : DropPeer(p)
      BY <1>0, <2>1, <3>2, PopKept, DropQueue DEF Types, ManagerType
    <3> QED
      BY <2>3, <3>1, <3>2, DetachDisconnectsKinds
  <2>4. CASE DetachShutsDown
    BY <1>0, <2>1, <2>4, PopKept, ForgetQueue DEF DetachShutsDown
  <2> QED
    BY <1>6, <2>2, <2>3, <2>4 DEF Detach
<1>7. CASE Attach
  BY <1>0, <1>1, <1>7, AttachIsClient
<1> QED
  BY <1>1, <1>2, <1>3, <1>4, <1>5, <1>6, <1>7, HookStepKinds

\* In the hook, whose library calls do not include P2P_ReadPacket outside the
\* poll, the packet that readPacket pops and finds too large came on a later
\* TCP connection than the one whose packet the two looks measured: as long as
\* that connection lives, nothing is thrown away.
THEOREM HookDiscardsOnlyAfterSwap ==
    ASSUME "read" \notin Calls
    PROVE  HookSpec => DiscardsOnlyAfterSwap
<1>1. HookInit => PopInv
  BY DEF HookInit, PopInv, AskedType
<1>2. ClientInv /\ PopInv /\ [HookNext]_hookVars =>
      [\A p \in m_connections :
         /\ game = "pop" /\ asked.peer = p
         /\ receiveQueue[p] # <<>> /\ receiveQueue'[p] = Tail(receiveQueue[p])
         /\ Head(receiveQueue[p]).size > asked.size
         => Head(receiveQueue[p]).sess > asked.sess]_hookVars
  <2> SUFFICES ASSUME ClientInv, PopInv, NEW p \in m_connections, game = "pop",
                      asked.peer = p, receiveQueue[p] # <<>>,
                      Head(receiveQueue[p]).size > asked.size
               PROVE  Head(receiveQueue[p]).sess > asked.sess
    OBVIOUS
  <2>1. p \in Peers /\ session[p] \in Nat /\ receiveQueue[p] \in Seq(Incoming)
    BY DEF ClientInv, Types, ManagerType, HistType, ConnType
  <2>2. Head(receiveQueue[p]) = receiveQueue[p][1] /\ receiveQueue[p][1] \in Incoming
    BY <2>1, HeadIsFirst
  <2>3. receiveQueue[p][1].sess = session[p]
    <3>1. OfSession(receiveQueue[p], session[p])
      BY <2>1 DEF ClientInv, PureInv, BuffersPure
    <3>2. 1 \in 1..Len(receiveQueue[p])
      BY <2>1, EmptySeq, LenProperties
    <3> QED
      BY <3>1, <3>2 DEF OfSession
  <2>4. receiveQueue[p][1].size \in Nat
    BY <2>2, ClientBoundsAssumption DEF Incoming
  <2>5. asked.size \in Nat /\ asked.sess \in Nat
    BY DEF PopInv, AskedType
  <2>6. ~(receiveQueue[p][1].size <= asked.size)
    BY <2>2, <2>4, <2>5
  <2>7. asked.sess <= session[p] /\ asked.sess # session[p]
    BY <2>6 DEF PopInv, Approved
  <2> QED
    BY <2>1, <2>2, <2>3, <2>5, <2>7
<1> QED
  BY <1>1, <1>2, PopStep, HookClientInvariant, PTL DEF HookSpec, DiscardsOnlyAfterSwap
=============================================================================
