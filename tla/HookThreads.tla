---------------------------- MODULE HookThreads ----------------------------
(***************************************************************************)
(* The threads of hook/hook.cpp around ConnectionManager: the pump and the *)
(* injection thread (steps of ConnectionManager), the game's thread, which *)
(* polls Hook_IsP2PPacketAvailable and Hook_ReadP2PPacket, and the thread  *)
(* that attaches and detaches the DLL (DllMain).                           *)
(*                                                                         *)
(* The game's poll looks into a receiveQueue three times: to learn the     *)
(* size, again inside P2P_ReadPacket, and to pop.  Each look is atomic     *)
(* under PacketQueue's mutex; between two of them the pump reads, clears   *)
(* and reconnects.  A packet that was popped waits in a stash of one until *)
(* the game reads it.  Passes of the pump also stand for those the poll    *)
(* makes itself; two passes at once are not modelled.                      *)
(***************************************************************************)
EXTENDS ConnectionManager

CONSTANT IdSize     \* sizeof(CSteamID), in front of every packet

ASSUME IdSizeAssumption == IdSize \in Nat

VARIABLES
    game,             \* where Hook_IsP2PPacketAvailable is
    asked,            \* the peer it reads from, the size of its buffer
    g_hasTcpData, g_tcpRecvBuffer,
    popped,           \* history: packets for the game that it has not read
    dll,              \* how far DllMain is
    cut               \* history: peers whose reconnection it switched off

stash     == <<g_hasTcpData, g_tcpRecvBuffer>>
gameVars  == <<game, asked, stash, popped>>
loader    == <<dll, cut>>
hookVars  == <<vars, gameVars, loader>>

NoPacket == [sess |-> 0, size |-> 0]
Nothing  == [peer |-> NoPeer, sess |-> 0, size |-> 0]

HookInit ==
    /\ Init
    /\ game = "out" /\ asked = Nothing
    /\ g_hasTcpData = FALSE /\ g_tcpRecvBuffer = NoPacket
    /\ popped = <<>>
    /\ dll = "attach" /\ cut = {}

----------------------------------------------------------------------------
\* Hook_IsP2PPacketAvailable and Hook_ReadP2PPacket.

\* PacketQueue::peek.
Peek(queue) == Head(queue)

\* isPacketAvailable for one peer.
Available(p) == p \in m_connections /\ receiveQueue[p] # <<>>

\* The stash is free.
AlwaysFree == TRUE

StashFree == ~g_hasTcpData

InHook == injection # "waiting" /\ dll # "gone"

\* P2P_IsPacketAvailable over all peers: the first one that has a packet, in
\* the order of the hash table.
AskAvailable ==
    /\ InHook /\ game = "out" /\ StashFree
    /\ \E p \in Peers :
         /\ Available(p)
         /\ asked' = [peer |-> p, sess |-> session[p],
                      size |-> Peek(receiveQueue[p]).size]
    /\ game' = "check"
    /\ UNCHANGED <<vars, stash, popped, loader>>

\* The packet that is first by now fits the buffer made for the one announced.
FitsAnyway(p) == TRUE

Fits(p) == Peek(receiveQueue[p]).size <= asked.size

\* P2P_ReadPacket: look again; no packet, or one too large for the buffer.
ReadChecks ==
    /\ game = "check"
    /\ IF Available(asked.peer) /\ Fits(asked.peer)
         THEN /\ game' = "pop"
              /\ asked' = [asked EXCEPT !.sess = session[asked.peer]]
         ELSE game' = "out" /\ asked' = Nothing
    /\ UNCHANGED <<vars, stash, popped, loader>>

\* readPacket: pop, give up on a packet that has become too large, and stash
\* one that has a sender's id in front.
ReadPops ==
    /\ game = "pop"
    /\ IF Available(asked.peer)
         THEN LET packet == Head(receiveQueue[asked.peer]) IN
              /\ receiveQueue' = [receiveQueue EXCEPT ![asked.peer] = Tail(@)]
              /\ IF packet.size <= asked.size /\ packet.size >= IdSize
                   THEN /\ g_hasTcpData' = TRUE /\ g_tcpRecvBuffer' = packet
                        /\ popped' = Append(popped, packet)
                   ELSE UNCHANGED <<stash, popped>>
         ELSE UNCHANGED <<receiveQueue, stash, popped>>
    /\ game' = "out" /\ asked' = Nothing
    /\ UNCHANGED <<network, connected, autoReconnect, reconnectAttempt, due, sendBuffer,
                   manager, pass, app, history, loader>>

\* popped without the packet that the game is given.
Given(seq) == IF seq # <<>> /\ Head(seq) = g_tcpRecvBuffer THEN Tail(seq) ELSE seq

ReadP2PPacket ==
    /\ InHook /\ game = "out" /\ g_hasTcpData
    /\ popped' = Given(popped)
    /\ g_hasTcpData' = FALSE /\ g_tcpRecvBuffer' = NoPacket
    /\ UNCHANGED <<vars, game, asked, loader>>

Game == AskAvailable \/ ReadChecks \/ ReadPops \/ ReadP2PPacket

----------------------------------------------------------------------------
\* DLL_PROCESS_ATTACH, before any other thread runs: connect once, and switch
\* automatic reconnection on if that succeeded.
AttachConnects ==
    /\ dll = "attach" /\ m_connections = {}
    /\ Connect
    /\ UNCHANGED <<gameVars, loader>>

AttachEnds ==
    /\ dll = "attach" /\ ~InCallback
    /\ dll' = "run"
    /\ IF m_connections # {}
         THEN \E p \in m_connections : SetAutoReconnect(p) /\ autoReconnect'[p]
         ELSE UNCHANGED vars
    /\ UNCHANGED <<gameVars, cut>>

Attach == AttachConnects \/ AttachEnds

----------------------------------------------------------------------------
\* DLL_PROCESS_DETACH, on the loader's thread.

LeavesReconnecting(S) ==
    /\ dll' = "disabled" /\ cut' = S
    /\ UNCHANGED <<autoReconnect, reconnectAttempt, due, unscheduled>>

StopsReconnecting(S) ==
    /\ dll' = "disabled" /\ cut' = S
    /\ autoReconnect' = [p \in Peers |-> autoReconnect[p] /\ p \notin S]
    /\ reconnectAttempt' = [p \in Peers |-> IF p \in S THEN 0 ELSE reconnectAttempt[p]]
    /\ due' = [p \in Peers |-> IF p \in S THEN Unset ELSE due[p]]
    /\ unscheduled' = unscheduled \cup {p \in S : ~connected[p]}

\* P2P_SetAutoReconnect(g_connectedPeer, false), if there is one.
DetachDisables ==
    /\ dll = "run"
    /\ StopsReconnecting({p \in m_connections : told[p]})
    /\ UNCHANGED <<network, connected, sendBuffer, receiveQueue, manager, pass, app,
                   session, ups, downs, gameVars>>

\* P2P_Disconnect(g_connectedPeer), if there was one, while the pump still runs.
DetachDisconnects ==
    /\ dll = "disabled"
    /\ dll' = "stopping"
    /\ IF cut # {} /\ \E p \in m_connections : told[p]
         THEN DropPeer(CHOOSE p \in m_connections : told[p])
         ELSE UNCHANGED <<remote, conn, m_connections, told, history>>
    /\ UNCHANGED <<reachable, in, wire, waiting, m_initialized, m_listening, m_nextPeerID,
                   m_pendingRemove, pass, cb, greeting, injection, sends, calls, gameVars,
                   cut>>

\* The pump has left its loop; UnhookVTable and P2P_Shutdown.
DetachShutsDown ==
    /\ dll = "stopping" /\ pc = "idle" /\ ~InCallback /\ game = "out" /\ NoneSending
    /\ dll' = "gone"
    /\ ForgetAll
    /\ UNCHANGED <<gameVars, cut>>

Detach == DetachDisables \/ DetachDisconnects \/ DetachShutsDown

----------------------------------------------------------------------------
\* PumpThread begins no pass before DllMain has attached, nor once
\* g_stopPumpThread is set.
PumpRuns == dll \in {"attach", "stopping"} => pc # "idle" \/ InCallback

HookNext ==
    \/ /\ \/ Pump /\ PumpRuns
          \/ InjectionThread /\ dll \notin {"attach", "gone"}
          \/ InHook /\ \E p \in Peers : SendPacket(p)
          \/ GameThread
          \/ Network \/ Tick
       /\ UNCHANGED <<gameVars, loader>>
    \/ Attach \/ Game \/ Detach

HookSpec == HookInit /\ [][HookNext]_hookVars

----------------------------------------------------------------------------
\* Properties.

\* A packet taken from a queue for the game is in the stash until the game
\* reads it, and then it is gone: however often the game polls, nothing is
\* overwritten unread and nothing is read twice.
StashHoldsPopped ==
    popped = IF g_hasTcpData THEN <<g_tcpRecvBuffer>> ELSE <<>>

\* readPacket throws away a packet that is larger than the buffer it was given
\* after it has taken it from the queue.  With the two looks before it, this
\* happens to a packet of a later TCP connection only: as long as the
\* connection lives, what was announced is what is read.
DiscardsOnlyAfterSwap ==
    [][\A p \in m_connections :
         /\ game = "pop" /\ asked.peer = p
         /\ receiveQueue[p] # <<>> /\ receiveQueue'[p] = Tail(receiveQueue[p])
         /\ Head(receiveQueue[p]).size > asked.size
         => Head(receiveQueue[p]).sess > asked.sess]_hookVars

\* A peer that detaching found connected makes no new TCP connection: the pump
\* still runs when it is disconnected, and only the order of the two calls,
\* reconnection off before disconnect, keeps it from coming back.
DetachedStaysDown ==
    [][\A p \in cut : session'[p] = session[p]]_hookVars

=============================================================================
