------------------------- MODULE ConnectionManager -------------------------
(***************************************************************************)
(* The client library's ConnectionManager (src/connection_manager.cpp):    *)
(* the table of peers, the calls an application makes, and processEvents,  *)
(* which reconnects, accepts, reads, writes and removes in phases.         *)
(*                                                                         *)
(* processEvents is one step per connection and phase, so that the network *)
(* changes under it.  Application calls come between two passes, or, with  *)
(* Threads, also between the steps of a pass: the library takes no lock,   *)
(* and the game's threads call it while the pump thread is inside.  Then   *)
(* sendPacket is three steps as well: it looks the peer up, gives the      *)
(* frame to the socket, and stores the rest or the failure.                *)
(*                                                                         *)
(* Time is relative: due[p] is nextReconnectAtMs - now in ticks, Unset     *)
(* stands for nextReconnectAtMs = 0.  A frame is Pieces pieces, and send() *)
(* takes any number of them.                                               *)
(***************************************************************************)
EXTENDS Integers, Sequences, FiniteSets

CONSTANTS
    MaxPeers,        \* bound: peer ids handed out
    MaxSessions,     \* bound: TCP connections made for one peer
    MaxSends,        \* bound: packets sent in one session
    MaxIn,           \* bound: packets on the wire or queued unread
    Pieces,          \* pieces of a frame
    PacketSizes,     \* sizes of the packets the other end sends
    BaseDelay,       \* reconnectBaseDelayMs, in ticks
    MaxDelay,        \* reconnectMaxDelayMs, in ticks
    ConnectTicks,    \* longest a connect() that fails blocks, in ticks
    AttemptMax,      \* where reconnectAttempt saturates
    Calls,           \* the calls this application makes
    Greets,          \* whether the application is the hook, which registers
    Threads          \* whether it calls from a thread of its own

\* The callers of sendPacket: the game's thread, ConnectionCallback on the
\* pump's thread, and InjectionThread.
Senders  == {"game", "callback", "injection"}
Peers    == 1..MaxPeers
NoPeer   == 0
Unset    == -1
Greeting == 0

ASSUME ClientBoundsAssumption ==
    /\ {MaxPeers, MaxSessions, MaxSends, MaxIn, BaseDelay, MaxDelay,
        ConnectTicks, AttemptMax} \subseteq Nat
    /\ Pieces \in Nat \ {0} /\ PacketSizes \subseteq Nat \ {0}
    /\ Greets \in BOOLEAN /\ Threads \in BOOLEAN
ASSUME CallsAssumption ==
    Calls \subseteq {"connect", "auto", "disconnect", "send", "read",
                     "listen", "shutdown"}

VARIABLES
    \* the network, per peer
    reachable,          \* whether a connect() succeeds now
    remote,             \* what the other end of the socket has done, or
                        \* "closed": there is no socket
    in,                 \* packets sent to us
    wire,               \* history: pieces given to the socket in this session
    waiting,            \* incoming connections for the listening socket
    \* Connection
    connected, autoReconnect, reconnectAttempt, due, sendBuffer, receiveQueue,
    \* ConnectionManager
    m_initialized, m_listening, m_nextPeerID, m_connections, m_pendingRemove,
    \* processEvents
    pc, todo, removing, readSet, writeSet, exceptSet,
    \* the application
    cb,                 \* the peer whose Connected callback is to be called
    greeting,           \* the peer whose callback is about to send the registration
    injection,          \* how far the hook's injection thread is
    g_localSteamID,     \* whether it is not 0
    sending,            \* with Threads: the sendPacket each sender is in
    told,               \* whether the application takes the peer for connected
    sends,              \* packets sent in this session
    \* history
    session,            \* TCP connections made for the peer so far
    ups, downs,         \* Connected and Disconnected callbacks so far
    unscheduled         \* peers whose schedule the application itself cleared

network == <<reachable, remote, in, wire, waiting>>
conn    == <<connected, autoReconnect, reconnectAttempt, due, sendBuffer, receiveQueue>>
manager == <<m_initialized, m_listening, m_nextPeerID, m_connections, m_pendingRemove>>
pass    == <<pc, todo, removing, readSet, writeSet, exceptSet>>
history == <<session, ups, downs, unscheduled>>
calls   == <<g_localSteamID, sending>>
app     == <<cb, greeting, injection, told, sends, calls>>
vars    == <<network, conn, manager, pass, app, history>>

Piece == [sess : Nat, pkt : Nat, part : 1..Pieces]

\* A sendPacket under way: before send(), or after it with the rest of the
\* frame or the failure still to be stored.
Call == [at : {"idle", "send", "store", "fail"}, peer : Peers \cup {NoPeer},
         pkt : Nat, rest : Seq(Piece)]

NotSending == [at |-> "idle", peer |-> NoPeer, pkt |-> 0, rest |-> <<>>]

\* An incoming packet: the TCP connection it came on, and its size.
Incoming == [sess : Nat, size : PacketSizes]

\* Shape of the state: every field has the values the code stores in it.
TypeOK ==
    /\ reachable \in BOOLEAN
    /\ remote \in [Peers -> {"up", "fin", "reset", "closed"}]
    /\ in \in [Peers -> Seq(Incoming)] /\ receiveQueue \in [Peers -> Seq(Incoming)]
    /\ wire \in [Peers -> Seq(Piece)] /\ sendBuffer \in [Peers -> Seq(Piece)]
    /\ waiting \in Nat
    /\ connected \in [Peers -> BOOLEAN] /\ autoReconnect \in [Peers -> BOOLEAN]
    /\ reconnectAttempt \in [Peers -> 0..AttemptMax]
    /\ due \in [Peers -> Nat \cup {Unset}]
    /\ m_initialized \in BOOLEAN /\ m_listening \in BOOLEAN
    /\ m_nextPeerID \in 1..(MaxPeers + 1)
    /\ m_connections \subseteq Peers
    /\ m_pendingRemove \in Seq(Peers) /\ removing \in Seq(Peers)
    /\ pc \in {"idle", "first", "accept", "io", "remove", "second"}
    /\ {todo, readSet, writeSet, exceptSet} \subseteq SUBSET Peers
    /\ {cb, greeting} \subseteq Peers \cup {NoPeer}
    /\ injection \in {"waiting", "hooked", "named", "done"}
    /\ g_localSteamID \in BOOLEAN /\ sending \in [Senders -> Call]
    /\ told \in [Peers -> BOOLEAN]
    /\ sends \in [Peers -> Nat]
    /\ session \in [Peers -> Nat] /\ ups \in [Peers -> Nat] /\ downs \in [Peers -> Nat]
    /\ unscheduled \subseteq Peers

Init ==
    /\ reachable = TRUE
    /\ remote = [p \in Peers |-> "closed"]
    /\ in = [p \in Peers |-> <<>>] /\ receiveQueue = [p \in Peers |-> <<>>]
    /\ wire = [p \in Peers |-> <<>>] /\ sendBuffer = [p \in Peers |-> <<>>]
    /\ waiting = 0
    /\ connected = [p \in Peers |-> FALSE] /\ autoReconnect = [p \in Peers |-> FALSE]
    /\ reconnectAttempt = [p \in Peers |-> 0]
    /\ due = [p \in Peers |-> Unset]
    /\ m_initialized = TRUE /\ m_listening = FALSE
    /\ m_nextPeerID = 1
    /\ m_connections = {}
    /\ m_pendingRemove = <<>> /\ removing = <<>>
    /\ pc = "idle"
    /\ todo = {} /\ readSet = {} /\ writeSet = {} /\ exceptSet = {}
    /\ cb = NoPeer /\ greeting = NoPeer
    /\ injection = IF Greets THEN "waiting" ELSE "done"
    /\ g_localSteamID = FALSE /\ sending = [t \in Senders |-> NotSending]
    /\ told = [p \in Peers |-> FALSE]
    /\ sends = [p \in Peers |-> 0]
    /\ session = [p \in Peers |-> 0]
    /\ ups = [p \in Peers |-> 0] /\ downs = [p \in Peers |-> 0]
    /\ unscheduled = {}

----------------------------------------------------------------------------
\* The network (external).

Reachability ==
    /\ reachable' = ~reachable
    /\ UNCHANGED <<remote, in, wire, waiting, conn, manager, pass, app, history>>

\* The other end closes or resets; the last session of the bound is spared.
RemoteEnds(p) ==
    /\ connected[p] /\ session[p] < MaxSessions
    /\ \/ remote[p] = "up" /\ remote' = [remote EXCEPT ![p] = "fin"]
       \/ remote[p] \in {"up", "fin"} /\ remote' = [remote EXCEPT ![p] = "reset"]
    /\ UNCHANGED <<reachable, in, wire, waiting, conn, manager, pass, app, history>>

RemoteSends(p) ==
    /\ connected[p] /\ remote[p] = "up"
    /\ Len(in[p]) + Len(receiveQueue[p]) < MaxIn
    /\ \E n \in PacketSizes :
         in' = [in EXCEPT ![p] = Append(@, [sess |-> session[p], size |-> n])]
    /\ UNCHANGED <<reachable, remote, wire, waiting, conn, manager, pass, app, history>>

RemoteConnects ==
    /\ m_listening /\ m_nextPeerID + waiting <= MaxPeers
    /\ waiting' = waiting + 1
    /\ UNCHANGED <<reachable, remote, in, wire, conn, manager, pass, app, history>>

Elapse(d, t) ==
    [p \in Peers |-> IF d[p] = Unset THEN Unset ELSE IF d[p] <= t THEN 0 ELSE d[p] - t]

Tick ==
    /\ \E p \in Peers : due[p] > 0
    /\ due' = Elapse(due, 1)
    /\ UNCHANGED <<network, connected, autoReconnect, reconnectAttempt, sendBuffer,
                   receiveQueue, manager, pass, app, history>>

----------------------------------------------------------------------------
\* What the operations share.

InCallback == cb # NoPeer \/ greeting # NoPeer \/ sending["callback"].at # "idle"

\* Without Threads no call comes while another one is under way.
MayCall ==
    /\ m_initialized
    /\ Threads \/ (pc = "idle" /\ ~InCallback /\ injection \in {"waiting", "done"})

Frame(p, n) == [i \in 1..Pieces |-> [sess |-> session[p], pkt |-> n, part |-> i]]

\* A fresh socket: nothing on it yet.
NewSession(p) ==
    /\ session' = [session EXCEPT ![p] = @ + 1]
    /\ unscheduled' = unscheduled \ {p}
    /\ remote' = [remote EXCEPT ![p] = "up"]
    /\ in' = [in EXCEPT ![p] = <<>>]
    /\ wire' = [wire EXCEPT ![p] = <<>>]
    /\ sends' = [sends EXCEPT ![p] = 0]
    /\ connected' = [connected EXCEPT ![p] = TRUE]
    /\ cb' = p
    /\ UNCHANGED <<greeting, injection, told, calls>>

\* A new entry of m_connections (connect and acceptNewConnections).
AddPeer(p) ==
    /\ m_nextPeerID' = p + 1
    /\ m_connections' = m_connections \cup {p}
    /\ NewSession(p)

\* send() on the peer's socket.  The 12 bytes of a registration fit the
\* buffer of a fresh socket; of anything else it may take any part.
SendFails(p) == remote[p] \in {"reset", "closed"}

Takes(p, n) == IF n = Greeting /\ wire[p] = <<>> THEN {Pieces} ELSE 0..Pieces

\* sendPacket on a connected peer.  The frame goes to the socket at once,
\* whatever sendBuffer holds; the part that is not taken joins sendBuffer.
\* Marks the peer when send() fails.
Transmit(p, n) ==
    \/ /\ SendFails(p)
       /\ connected' = [connected EXCEPT ![p] = FALSE]
       /\ m_pendingRemove' = Append(m_pendingRemove, p)
       /\ UNCHANGED <<wire, sendBuffer, sends>>
    \/ /\ ~SendFails(p)
       /\ \E k \in Takes(p, n) :
            /\ wire' = [wire EXCEPT ![p] = @ \o SubSeq(Frame(p, n), 1, k)]
            /\ sendBuffer' = [sendBuffer EXCEPT ![p] =
                                @ \o SubSeq(Frame(p, n), k + 1, Pieces)]
       /\ sends' = [sends EXCEPT ![p] = IF n = Greeting THEN @ ELSE n]
       /\ UNCHANGED <<connected, m_pendingRemove>>

\* The same as three steps: the peer was found connected, ...
SendChecks(t, p, n) ==
    /\ sending[t].at = "idle"
    /\ sending' = [sending EXCEPT ![t] = [at |-> "send", peer |-> p, pkt |-> n, rest |-> <<>>]]
    /\ sends' = [sends EXCEPT ![p] = IF n = Greeting THEN @ ELSE n]
    /\ UNCHANGED <<connected, m_pendingRemove, wire, sendBuffer>>

\* ... the frame goes to the socket the peer has by then, ...
SendTries(t) ==
    LET p == sending[t].peer
        n == sending[t].pkt
    IN
    /\ sending[t].at = "send"
    /\ \/ /\ SendFails(p)
          /\ sending' = [sending EXCEPT ![t] = [@ EXCEPT !.at = "fail"]]
          /\ UNCHANGED wire
       \/ /\ ~SendFails(p)
          /\ \E k \in Takes(p, n) :
               /\ wire' = [wire EXCEPT ![p] = @ \o SubSeq(Frame(p, n), 1, k)]
               /\ sending' = [sending EXCEPT ![t] =
                    IF k = Pieces THEN NotSending
                    ELSE [@ EXCEPT !.at = "store",
                                   !.rest = SubSeq(Frame(p, n), k + 1, Pieces)]]
    /\ UNCHANGED <<reachable, remote, in, waiting, conn, manager, pass, cb, greeting,
                   injection, told, sends, g_localSteamID, history>>

\* ... and the rest or the failure is stored, whatever became of the peer
\* meanwhile.
SendStores(t) ==
    LET p == sending[t].peer IN
    /\ \/ /\ sending[t].at = "store"
          /\ sendBuffer' = [sendBuffer EXCEPT ![p] = @ \o sending[t].rest]
          /\ UNCHANGED <<connected, m_pendingRemove>>
       \/ /\ sending[t].at = "fail"
          /\ connected' = [connected EXCEPT ![p] = FALSE]
          /\ m_pendingRemove' = Append(m_pendingRemove, p)
          /\ UNCHANGED sendBuffer
    /\ sending' = [sending EXCEPT ![t] = NotSending]
    /\ UNCHANGED <<network, autoReconnect, reconnectAttempt, due, receiveQueue,
                   m_initialized, m_listening, m_nextPeerID, m_connections, pass, cb,
                   greeting, injection, told, sends, g_localSteamID, history>>

Continues(t) == SendTries(t) \/ SendStores(t)

NoneSending == \A t \in Senders : sending[t].at = "idle"

\* Without Threads nothing comes between the three.
Sends(t, p, n) ==
    IF Threads THEN SendChecks(t, p, n) ELSE Transmit(p, n) /\ UNCHANGED sending

SendsNothing == UNCHANGED <<connected, m_pendingRemove, wire, sendBuffer, sends, sending>>

\* Cleared when a socket is closed, in disconnect and in removeDisconnected.
KeepBuffers(p) == UNCHANGED <<sendBuffer, receiveQueue>>

ClearBuffers(p) ==
    /\ sendBuffer' = [sendBuffer EXCEPT ![p] = <<>>]
    /\ receiveQueue' = [receiveQueue EXCEPT ![p] = <<>>]

\* With automatic reconnection a closed peer stays, scheduled; without, it
\* leaves the table.
NotScheduled(p) ==
    /\ reconnectAttempt' = [reconnectAttempt EXCEPT ![p] = 0]
    /\ due' = [due EXCEPT ![p] = Unset]
    /\ m_connections' = IF autoReconnect[p] THEN m_connections ELSE m_connections \ {p}

RescheduleOrErase(p) ==
    /\ reconnectAttempt' = [reconnectAttempt EXCEPT ![p] = 0]
    /\ due' = [due EXCEPT ![p] = IF autoReconnect[p] THEN BaseDelay ELSE Unset]
    /\ m_connections' = IF autoReconnect[p] THEN m_connections ELSE m_connections \ {p}

\* Close, clear, notify Disconnected, reschedule or erase.
DropPeer(p) ==
    /\ remote' = [remote EXCEPT ![p] = "closed"]
    /\ connected' = [connected EXCEPT ![p] = FALSE]
    /\ ClearBuffers(p)
    /\ downs' = [downs EXCEPT ![p] = @ + 1]
    /\ unscheduled' = unscheduled \ {p}
    /\ told' = [told EXCEPT ![p] = FALSE]
    /\ RescheduleOrErase(p)
    /\ UNCHANGED <<autoReconnect, session, ups>>

\* The delay before the next attempt after n attempts failed: doubled n
\* times, cut at MaxDelay.
Doubled[i \in Nat] ==
    IF i = 0 THEN BaseDelay
    ELSE IF 2 * Doubled[i - 1] >= MaxDelay THEN MaxDelay ELSE 2 * Doubled[i - 1]

NextAttemptWraps(n) == n + 1

\* reconnectAttempt stops at the largest value of its type.
NextAttempt(n) == IF n = AttemptMax THEN n ELSE n + 1

UncappedDelay(n) == BaseDelay * 2^n

RetryDelay(n) == Doubled[n]

----------------------------------------------------------------------------
\* Application calls.

Connect ==
    /\ "connect" \in Calls /\ MayCall /\ pc = "idle" /\ ~InCallback
    /\ m_nextPeerID + waiting <= MaxPeers
    /\ reachable
    /\ AddPeer(m_nextPeerID)
    /\ UNCHANGED <<reachable, waiting, autoReconnect, reconnectAttempt, due, sendBuffer,
                   receiveQueue, m_initialized, m_listening, m_pendingRemove, pass,
                   ups, downs>>

\* On a peer that is down it clears the schedule: no attempt will follow.
SetAutoReconnect(p) ==
    /\ "auto" \in Calls /\ MayCall
    /\ p \in m_connections
    /\ \E enable \in BOOLEAN : autoReconnect' = [autoReconnect EXCEPT ![p] = enable]
    /\ reconnectAttempt' = [reconnectAttempt EXCEPT ![p] = 0]
    /\ due' = [due EXCEPT ![p] = Unset]
    /\ unscheduled' = IF connected[p] THEN unscheduled ELSE unscheduled \cup {p}
    /\ UNCHANGED <<network, connected, sendBuffer, receiveQueue, manager, pass, app,
                   session, ups, downs>>

\* A mark left in m_pendingRemove by an earlier failure stays there.  The
\* bounds on sessions and callbacks end the repetition.
Disconnect(p) ==
    /\ "disconnect" \in Calls /\ MayCall
    /\ p \in m_connections /\ session[p] < MaxSessions
    /\ downs[p] <= MaxSessions
    /\ DropPeer(p)
    /\ UNCHANGED <<reachable, in, wire, waiting, m_initialized, m_listening, m_nextPeerID,
                   m_pendingRemove, pass, cb, greeting, injection, sends, calls>>

\* The peer the callback stored; another thread may have read it before the
\* peer was lost.
Knows(p) == told[p] \/ (Threads /\ ups[p] > 0)

\* The game's calls reach the library once HookVTable has run.
GameSends(p) == injection # "waiting" /\ Knows(p)

\* A call of another thread can end a session; the last of the bound is spared.
SendPacket(p) ==
    /\ "send" \in Calls /\ MayCall
    /\ GameSends(p)
    /\ p \in m_connections /\ connected[p]
    /\ sends[p] < MaxSends /\ (Threads => session[p] < MaxSessions)
    /\ Sends("game", p, sends[p] + 1)
    /\ UNCHANGED <<reachable, remote, in, waiting, autoReconnect, reconnectAttempt, due,
                   receiveQueue, m_initialized, m_listening, m_nextPeerID, m_connections,
                   pass, cb, greeting, injection, told, g_localSteamID, history>>

ReadPacket(p) ==
    /\ "read" \in Calls /\ MayCall /\ injection # "waiting"
    /\ p \in m_connections /\ receiveQueue[p] # <<>>
    /\ receiveQueue' = [receiveQueue EXCEPT ![p] = Tail(@)]
    /\ UNCHANGED <<network, connected, autoReconnect, reconnectAttempt, due, sendBuffer,
                   manager, pass, app, history>>

Listen ==
    /\ "listen" \in Calls /\ MayCall
    /\ m_listening' = TRUE
    /\ waiting' = 0
    /\ UNCHANGED <<reachable, remote, in, wire, conn, m_initialized, m_nextPeerID,
                   m_connections, m_pendingRemove, pass, app, history>>

StopListen ==
    /\ "listen" \in Calls /\ MayCall
    /\ m_listening' = FALSE
    /\ waiting' = 0
    /\ UNCHANGED <<reachable, remote, in, wire, conn, m_initialized, m_nextPeerID,
                   m_connections, m_pendingRemove, pass, app, history>>

\* shutdown() forgets every peer without a callback; initialize() may follow.
ForgetAll ==
    /\ m_initialized' = FALSE
    /\ m_listening' = FALSE /\ waiting' = 0
    /\ m_connections' = {} /\ m_pendingRemove' = <<>>
    /\ remote' = [p \in Peers |-> "closed"]
    /\ connected' = [p \in Peers |-> FALSE]
    /\ autoReconnect' = [p \in Peers |-> FALSE]
    /\ reconnectAttempt' = [p \in Peers |-> 0]
    /\ due' = [p \in Peers |-> Unset]
    /\ sendBuffer' = [p \in Peers |-> <<>>] /\ receiveQueue' = [p \in Peers |-> <<>>]
    /\ told' = [p \in Peers |-> FALSE]
    /\ unscheduled' = {}
    /\ UNCHANGED <<reachable, in, wire, m_nextPeerID, pass, cb, greeting, injection,
                   sends, calls, session, ups, downs>>

Shutdown ==
    /\ "shutdown" \in Calls /\ MayCall /\ pc = "idle" /\ ~InCallback /\ NoneSending
    /\ ForgetAll

Initialize ==
    /\ ~m_initialized
    /\ m_initialized' = TRUE
    /\ UNCHANGED <<network, conn, m_listening, m_nextPeerID, m_connections,
                   m_pendingRemove, pass, app, history>>

\* The callback after a connection was made.  The hook's first stores the
\* peer, from when on the game's thread sends to it, then registers.
CallbackStores ==
    /\ cb # NoPeer
    /\ ups' = [ups EXCEPT ![cb] = @ + 1]
    /\ told' = [told EXCEPT ![cb] = TRUE]
    /\ greeting' = cb
    /\ cb' = NoPeer
    /\ UNCHANGED <<network, conn, manager, pass, injection, sends, calls, session, downs,
                   unscheduled>>

CallbackOnlyStores ==
    /\ greeting # NoPeer
    /\ greeting' = NoPeer
    /\ UNCHANGED <<network, conn, manager, pass, cb, injection, told, sends, calls, history>>

CallbackGreets ==
    /\ greeting # NoPeer
    /\ greeting' = NoPeer
    /\ IF Greets /\ g_localSteamID /\ greeting \in m_connections /\ connected[greeting]
         THEN Sends("callback", greeting, Greeting)
         ELSE SendsNothing
    /\ UNCHANGED <<reachable, remote, in, waiting, autoReconnect, reconnectAttempt, due,
                   receiveQueue, m_initialized, m_listening, m_nextPeerID, m_connections,
                   pass, cb, injection, told, g_localSteamID, history>>

\* The hook's injection thread: install the hooks, ask the game for the
\* player's id, which may not be there yet, and register it, 0 or not, with the
\* connection that was made before.  It asks once.
HookVTable ==
    /\ injection = "waiting"
    /\ injection' = "hooked"
    /\ UNCHANGED <<network, conn, manager, pass, cb, greeting, told, sends, calls, history>>

GetLocalSteamID ==
    /\ injection = "hooked"
    /\ injection' = "named"
    /\ \E found \in BOOLEAN : g_localSteamID' = found
    /\ UNCHANGED <<network, conn, manager, pass, cb, greeting, told, sends, sending, history>>

InjectionRegisters ==
    /\ injection = "named"
    /\ Threads \/ (pc = "idle" /\ ~InCallback)
    /\ injection' = "done"
    /\ \/ \E p \in m_connections :
            Knows(p) /\ connected[p] /\ Sends("injection", p, Greeting)
       \/ /\ \A p \in m_connections : ~(told[p] /\ connected[p])
          /\ SendsNothing
    /\ UNCHANGED <<reachable, remote, in, waiting, autoReconnect, reconnectAttempt, due,
                   receiveQueue, m_initialized, m_listening, m_nextPeerID, m_connections,
                   pass, cb, greeting, told, g_localSteamID, history>>

----------------------------------------------------------------------------
\* processEvents.

\* attemptReconnects compares with one reading of the clock.
DuePeers == {p \in m_connections : autoReconnect[p] /\ ~connected[p] /\ due[p] = 0}

ProcessEvents ==
    /\ m_initialized /\ pc = "idle" /\ ~InCallback
    /\ pc' = "first"
    /\ todo' = DuePeers
    /\ UNCHANGED <<network, conn, manager, removing, readSet, writeSet, exceptSet, app, history>>

Reconnecting(p) ==
    /\ pc \in {"first", "second"} /\ ~InCallback
    /\ p \in todo \cap DuePeers
    /\ todo' = todo \ {p}
    /\ UNCHANGED <<pc, removing, readSet, writeSet, exceptSet, reachable, waiting,
                   m_initialized, m_listening, m_nextPeerID, m_connections, m_pendingRemove,
                   autoReconnect, sendBuffer, receiveQueue, ups, downs>>

ReconnectSucceeds(p) ==
    /\ Reconnecting(p)
    /\ reachable
    /\ NewSession(p)
    /\ reconnectAttempt' = [reconnectAttempt EXCEPT ![p] = 0]
    /\ due' = [due EXCEPT ![p] = Unset]

\* The attempt may have blocked for t ticks since the clock was read.
ReconnectFails(p) ==
    /\ Reconnecting(p)
    /\ ~reachable
    /\ reconnectAttempt' = [reconnectAttempt EXCEPT ![p] = NextAttempt(@)]
    /\ \E t \in 0..ConnectTicks :
         due' = Elapse([due EXCEPT ![p] = RetryDelay(reconnectAttempt[p])], t)
    /\ UNCHANGED <<remote, in, wire, connected, app, session, unscheduled>>

\* The loop is over when no peer is left that is still due; one that another
\* thread changed meanwhile is passed over.
LoopDone == ~InCallback /\ todo \cap DuePeers = {}

FirstDone ==
    /\ pc = "first" /\ LoopDone
    /\ pc' = "accept" /\ todo' = {}
    /\ UNCHANGED <<network, conn, manager, removing, readSet, writeSet, exceptSet,
                   app, history>>

AcceptNewConnection ==
    /\ pc = "accept" /\ ~InCallback
    /\ waiting > 0
    /\ waiting' = waiting - 1
    /\ AddPeer(m_nextPeerID)
    /\ UNCHANGED <<reachable, autoReconnect, reconnectAttempt, due, sendBuffer,
                   receiveQueue, m_initialized, m_listening, m_pendingRemove, pass,
                   ups, downs>>

\* select(): readable sockets have data or have ended; the kernel decides
\* about the others.  Peers that are not connected are in no set.
Selectable == {p \in m_connections : connected[p]}

Select ==
    /\ pc = "accept" /\ ~InCallback /\ waiting = 0
    /\ readSet' = {p \in Selectable : in[p] # <<>> \/ remote[p] # "up"}
    /\ writeSet' \in SUBSET {p \in Selectable : sendBuffer[p] # <<>>}
    /\ exceptSet' \in SUBSET {p \in Selectable : remote[p] = "reset"}
    /\ pc' = "io"
    /\ todo' = readSet' \cup writeSet' \cup exceptSet'
    /\ UNCHANGED <<network, conn, manager, removing, app, history>>

\* processRead ends with the connection marked down when recv() returns 0 or
\* an error; processWrite, called next all the same, when send() fails.
ReadCloses(p) == p \in readSet /\ remote[p] # "up"
WriteFails(p) == p \in writeSet /\ sendBuffer[p] # <<>> /\ remote[p] = "reset"

MarkDown(p, closes, fails) ==
    /\ connected' = [connected EXCEPT ![p] = @ /\ ~closes /\ ~fails]
    /\ m_pendingRemove' = m_pendingRemove \o (IF closes THEN <<p>> ELSE <<>>)
                                          \o (IF fails THEN <<p>> ELSE <<>>)

ReadAll(p) ==
    IF p \in readSet
      THEN \E n \in IF remote[p] = "reset" THEN {0, Len(in[p])} ELSE {Len(in[p])} :
             /\ receiveQueue' = [receiveQueue EXCEPT ![p] = @ \o SubSeq(in[p], 1, n)]
             /\ in' = [in EXCEPT ![p] = SubSeq(@, n + 1, Len(@))]
      ELSE UNCHANGED <<receiveQueue, in>>

WriteSome(p) ==
    IF p \in writeSet /\ remote[p] # "reset"
      THEN \E k \in 0..Len(sendBuffer[p]) :
             /\ wire' = [wire EXCEPT ![p] = @ \o SubSeq(sendBuffer[p], 1, k)]
             /\ sendBuffer' = [sendBuffer EXCEPT ![p] = SubSeq(@, k + 1, Len(@))]
      ELSE UNCHANGED <<wire, sendBuffer>>

ProcessPeer(p) ==
    /\ pc = "io" /\ p \in todo
    /\ todo' = todo \ {p}
    /\ IF p \notin Selectable THEN
            UNCHANGED <<connected, m_pendingRemove, receiveQueue, in, wire, sendBuffer>>
       ELSE IF p \in exceptSet THEN
            /\ MarkDown(p, TRUE, FALSE)
            /\ UNCHANGED <<receiveQueue, in, wire, sendBuffer>>
       ELSE /\ MarkDown(p, ReadCloses(p), WriteFails(p))
            /\ ReadAll(p)
            /\ WriteSome(p)
    /\ UNCHANGED <<reachable, remote, waiting, autoReconnect, reconnectAttempt, due,
                   m_initialized, m_listening, m_nextPeerID, m_connections, pc, removing,
                   readSet, writeSet, exceptSet, app, history>>

\* removeDisconnected: the list sorted and without repetitions.
AsIs(list) == list

SortedUnique(list) ==
    LET S == {list[i] : i \in 1..Len(list)}
    IN  [i \in 1..Cardinality(S) |->
            CHOOSE p \in S : Cardinality({q \in S : q <= p}) = i]

StartRemoving ==
    /\ pc = "io" /\ todo = {}
    /\ pc' = "remove"
    /\ removing' = SortedUnique(m_pendingRemove)
    /\ readSet' = {} /\ writeSet' = {} /\ exceptSet' = {}
    /\ UNCHANGED <<network, conn, manager, todo, app, history>>

RemoveDisconnected ==
    /\ pc = "remove" /\ removing # <<>>
    /\ removing' = Tail(removing)
    /\ LET p == Head(removing) IN
         IF p \in m_connections THEN DropPeer(p)
         ELSE UNCHANGED <<remote, conn, m_connections, told, history>>
    /\ UNCHANGED <<reachable, in, wire, waiting, m_initialized, m_listening, m_nextPeerID,
                   m_pendingRemove, pc, todo, readSet, writeSet, exceptSet, cb, greeting,
                   injection, sends, calls>>

\* m_pendingRemove.clear(), then the second attemptReconnects.
KeptMarks == m_pendingRemove

ClearedMarks == <<>>

RemovingDone ==
    /\ pc = "remove" /\ removing = <<>>
    /\ m_pendingRemove' = ClearedMarks
    /\ pc' = "second"
    /\ todo' = DuePeers
    /\ UNCHANGED <<network, conn, m_initialized, m_listening, m_nextPeerID, m_connections,
                   removing, readSet, writeSet, exceptSet, app, history>>

PassDone ==
    /\ pc = "second" /\ LoopDone
    /\ pc' = "idle" /\ todo' = {}
    /\ UNCHANGED <<network, conn, manager, removing, readSet, writeSet, exceptSet,
                   app, history>>

----------------------------------------------------------------------------
\* The steps of a pass and its callbacks.
Passes ==
    \/ ProcessEvents \/ FirstDone \/ AcceptNewConnection \/ Select \/ StartRemoving
    \/ RemoveDisconnected \/ RemovingDone \/ PassDone \/ CallbackStores \/ CallbackGreets
    \/ \E p \in Peers :
         ReconnectSucceeds(p) \/ ReconnectFails(p) \/ ProcessPeer(p)

Pump == Passes \/ Continues("callback")

Application ==
    \/ Connect \/ Listen \/ StopListen \/ Shutdown \/ Initialize
    \/ \E p \in Peers :
         SetAutoReconnect(p) \/ Disconnect(p) \/ SendPacket(p) \/ ReadPacket(p)

Injects == HookVTable \/ GetLocalSteamID \/ InjectionRegisters

InjectionThread == Injects \/ Continues("injection")

GameThread == Continues("game")

Network ==
    \/ Reachability \/ RemoteConnects
    \/ \E p \in Peers : RemoteEnds(p) \/ RemoteSends(p)

Next == Pump \/ Application \/ GameThread \/ InjectionThread \/ Network \/ Tick

Spec == Init /\ [][Next]_vars

\* A program of one thread: no call of another is half done.
SingleNext == Passes \/ Application \/ Injects \/ Network \/ Tick

SingleSpec == Init /\ [][SingleNext]_vars

\* Its pump keeps calling processEvents, and time passes.
FairSpec == SingleSpec /\ WF_vars(Passes) /\ WF_vars(Tick)

----------------------------------------------------------------------------
\* Properties.

\* Peers whose removal is outstanding.
Marked ==
    LET list == IF pc = "remove" THEN removing ELSE m_pendingRemove
    IN  {list[i] : i \in 1..Len(list)}

\* What the callbacks told the application agrees with the table: a peer was
\* announced and not yet reported lost exactly while it is connected or its
\* removal is outstanding.  The hook keeps g_connectedPeer from these calls
\* alone (notifyConnectionEvent and its callers, removeDisconnected's dedupe).
AppInformed ==
    \A p \in Peers :
      ups[p] - downs[p] =
        IF p \in m_connections /\ p # cb /\ (connected[p] \/ p \in Marked) THEN 1 ELSE 0

\* removeDisconnected closes dead connections only: a mark in m_pendingRemove
\* is never about an earlier TCP connection of a peer that is up again.
RemovesOnlyDead ==
    pc = "remove" /\ removing # <<>> => ~connected[Head(removing)]

\* No zombie: a peer in the table that is down is either about to be removed
\* or has a reconnection scheduled, unless the application cleared the
\* schedule with setAutoReconnect.  Anything else would stay dead for ever,
\* since attemptReconnects skips nextReconnectAtMs = 0.
NoZombie ==
    \A p \in m_connections \ unscheduled :
      ~connected[p] => p \in Marked \/ (autoReconnect[p] /\ due[p] # Unset)

\* Nothing of one TCP connection leaks into the next one of the same peer: no
\* half-sent frame and no unread packet survives (the clear() calls of
\* disconnect and removeDisconnected).
SessionPure ==
    \A p \in Peers :
      /\ \A i \in 1..Len(sendBuffer[p]) : sendBuffer[p][i].sess = session[p]
      /\ \A i \in 1..Len(wire[p]) : wire[p][i].sess = session[p]
      /\ \A i \in 1..Len(receiveQueue[p]) : receiveQueue[p][i].sess = session[p]

\* The half of it that the game's thread does not touch: what is queued for the
\* application came on the present TCP connection (processRead,
\* removeDisconnected's receiveQueue.clear()).
InboundPure ==
    \A p \in Peers :
      \A i \in 1..Len(receiveQueue[p]) : receiveQueue[p][i].sess = session[p]

\* The wait before a reconnection never exceeds the maximum the application
\* gave, if the base delay does not, however many attempts failed
\* (attemptReconnects' doubling loop).
DelayBounded ==
    BaseDelay <= MaxDelay => \A p \in Peers : due[p] <= MaxDelay

\* The first thing the relay reads of every session is the registration; it
\* closes a connection that starts with anything else (ConnectionCallback
\* inside attemptReconnects).
RegistrationFirst ==
    Greets => \A p \in Peers : wire[p] # <<>> => wire[p][1].pkt = Greeting

\* What a session's socket and sendBuffer were given is a sequence of whole
\* frames (sendPacket, processWrite).
StreamIntact ==
    \A p \in Peers :
      LET s == wire[p] \o sendBuffer[p] IN
      \A i \in 1..Len(s) :
        /\ s[i].part = ((i - 1) % Pieces) + 1
        /\ s[i].part > 1 => s[i].pkt = s[i - 1].pkt

\* A registration of p that has begun: one of the hook's two calls is under way.
Registering(p) == \E t \in {"callback", "injection"} : sending[t].peer = p

\* If the player's id was found, every session gets a registration of its own,
\* whichever of the pump's callback and the injection thread comes first: the
\* one stores the peer and then looks for the id, the other stores the id and
\* then looks for the peer (ConnectionCallback, InjectionThread; the order of
\* these plain stores and loads is taken for granted).  A session that neither
\* of them greets stays up and is deaf.
SessionGreeted ==
    Greets /\ injection = "done" /\ g_localSteamID =>
      \A p \in Peers :
        connected[p] /\ p \notin {cb, greeting} /\ ~Registering(p) =>
          LET s == wire[p] \o sendBuffer[p] IN
          \E i \in 1..Len(s) : s[i].pkt = Greeting /\ s[i].sess = session[p]

\* A peer with automatic reconnection that is down is connected again in the
\* end, if from some time on the relay can be reached and the application
\* leaves the schedule alone.
ReconnectHappens ==
    <>[]reachable =>
      \A p \in Peers :
        (p \in m_connections /\ autoReconnect[p] /\ ~connected[p])
          ~> (connected[p] \/ p \notin m_connections \/ p \in unscheduled)

=============================================================================
