# Isaac P2P relay: TLA+ specifications

The repository lets *The Binding of Isaac* play over a self-hosted TCP relay. A
DLL hooks the game's Steam networking calls, a client library keeps one TCP
connection to the relay, and the relay forwards packets between clients by
8-byte names ("marks", the players' SteamIDs). These modules model the relay
server, what it promises (an abstract specification it is shown to implement),
the client's connection manager, stream parser and threads, and clients and
relay together. TLC checks them on small instances; TLAPS proves every safety
property and the refinement for every instance, some under hypotheses that
section 5 lists.

## 1. Inventory

| Component | State | Operations | Interacts with |
|---|---|---|---|
| Relay event loop (`server/main.cpp`) | `g_connections` (fd -> Connection), `g_mark_to_fd`, `send_buf` per connection, epoll registrations, `g_running` | accept, read, parse, register, forward, flush, close, signal, clean up | kernel (epoll, accept, read, write), clients |
| Relay framing (`handle_client_data`, `Connection::consume`) | `recv_buf`, `recv_len` | read, check length, deliver, consume | event loop |
| ConnectionManager (`src/connection_manager.*`) | peer table, per peer: connected, reconnection fields, `sendBuffer`, `receiveQueue`; `m_pendingRemove` | connect, listen, disconnect, sendPacket, readPacket, setAutoReconnect, shutdown, processEvents | sockets, connection callback |
| PacketQueue, ReceiveBuffer (`src/packet_queue.*`) | a locked queue; the client's unparsed bytes | push, pop, append, tryParsePacket | ConnectionManager |
| P2P C API (`src/p2p_network.cpp`) | the one manager, the user callback | `P2P_*` calls | ConnectionManager, hook |
| Steam hook (`hook/hook.cpp`) | `g_connectedPeer`, `g_localSteamID`, one stashed packet, saved vtable | three hooked calls, ConnectionCallback, PumpThread, InjectionThread, attach, detach | C API, the game |
| winmm proxy, load.js, logger, statistics, `platform_win.h` | none that matters | forwarding, output | - |

Hard behaviours, each listed at its line under "hazards" in `PROJECT.json`:

* the relay is one thread, but its handlers change what later events of the same
  epoll batch mean: a forward to B, made while handling A, can close B, and
  `accept()` can reuse B's descriptor before B's own event is handled;
* partial writes to a client that reads slowly, while several senders append;
* lost, half-closed and reset links, also of the connection being handled;
* a client that comes back before the server noticed that it was gone;
* length fields that are near the buffer size or wrap `uint32_t`;
* two parsers of one format with different limits, one of which closes the
  connection on a bad length while the other throws bytes away and goes on;
* a client that returns competes with its own dead connections, for its name and
  for one of four places, also after the relay was restarted;
* the game polls, peeks and pops while the pump clears and refills the queue;
* on the client, `processEvents` works in phases over a table that callbacks and
  other threads change, and a peer outlives its TCP connections;
* three threads are in `sendPacket` without a lock: the game's, the pump's (in
  the callback) and the injection thread; between its test, its `send()` and
  what it stores the pump may close the socket and open the next one;
* reconnection with exponential delay must happen and must not be forgotten, and
  each new connection must be registered by one of two threads that know half of
  what it takes each: the peer, or the player's id, which may not be found (0).

What makes each component correct: the relay never mixes, loses (while the link
lives), reorders or misdelivers frames, keeps its tables exact and frees what
was lost; both parsers stay aligned and inside their buffers, and what the relay
forwards the client accepts; the manager tells its application the truth, never
leaks one session into the next and reconnects; a connection of a player whose id
is known is registered; no packet taken from a queue is lost before the game
reads it; and a client that lost its connection gets its name back. Some of this
the code does only for calls from one thread; section 3 says what and shows why.

## 2. Modules

| Module | Models | Notes |
|---|---|---|
| `RelayServer` | the relay process with its kernel objects and its clients | core |
| `RelayService` | what the relay promises its clients | abstract |
| `RelayRefinement` | the mapping from `RelayServer` to `RelayService` | |
| `MCRelayServer` | instances: what each client sends | |
| `RelayServerProofs` | TLAPS proofs about `RelayServer`: the tables | |
| `RelayStreamProofs` | the same: descriptors and streams | extends `RelayServerProofs` |
| `RelayRefinementProofs` | TLAPS proof of the refinement | extends `RelayStreamProofs` |
| `RecvFraming` | how the relay cuts a byte stream into packets | |
| `ReceiveBuffer` | how the receiving client does | |
| `ForwardedStream` | composes the two: sender, relay, receiver | TLC runs it directly |
| `ForwardedStreamProofs` | TLAPS proofs about `ForwardedStream` | |
| `RecvFramingProofs` | TLAPS proofs about `RecvFraming` | |
| `ConnectionManager` | the client library's manager, its network, and the hook's callback and injection thread | |
| `MCConnectionManager` | instances: which calls an application makes | |
| `ConnectionManagerProofs` | TLAPS proofs about `ConnectionManager` | |
| `HookThreads` | the hook's threads around `ConnectionManager`: attaching, the game's polls, sends and the stash, detaching | |
| `MCHookThreads` | its instance | |
| `HookThreadsProofs` | TLAPS proofs about `HookThreads` | extends `ConnectionManagerProofs` |
| `Rejoin` | reconnecting clients and the relay, as `RelayService` promises it | TLC runs it directly |
| `RejoinProofs` | TLAPS proofs about `Rejoin` | |

### RelayServer

Variables carry the source's names where there is one. `g_connections`,
`registered`, `mark` and `send_buf` together are the table `fd -> Connection`;
`sock` and `interest` are kernel state (what a descriptor names, and its epoll
registration); `events`, `cur`, `hbuf` and `pc` are the main loop's local state.
`hbuf` is the sequence of complete packets in the `recv_buf` being parsed.

One action is one atomic section of a handler: `EpollWait` fetches a batch;
`HandleNewConnection` / `RefuseNewConnection`, `CloseOnHangup`, `ReadData`,
`ReadEnds`, `ReadNothing` and `OnlyWritable` begin an event, taken from the
batch in any order; `Register`, `RefuseRegistration`, `DropPacket`, `Forward`,
`IllegalLength` and `DataDone` are one round of the parse loop each;
`HandleClientWrite` is the second handler of an event. Clients act between any
two of these. `CloseConnection` is all of `close_connection`, including when it
is called for a descriptor that is closed already.

Abstractions. A packet is the class of its length field (illegal, shorter than a
mark, a mark, longer), a mark and its identity. A forwarded frame is `Pieces`
pieces; the kernel queues up to `SndCap` pieces per socket. A read completes any
number of the packets sent so far; fragments of packets are the subject of
`RecvFraming`. `MAX_EVENTS` (8) exceeds `MAX_CONNECTIONS` + 1 (5), so one
`epoll_wait` returns everything that is ready. An `accept()` that fails is not
modelled (the event is level-triggered and returns). `RefuseNewConnection` may
also happen with room in the table: it stands for the failures of
`set_nonblocking` and `epoll_ctl` too.

Undefined behaviour. When a client's packet to itself fails to be written, the
parse loop goes on with a reference to an erased element. The model offers every
outcome: the process crashes, the loop ends, or it goes on with the old contents
(`ConnRegistered`, `UseAfterErase`).

### RelayService and RelayRefinement

`RelayService` knows neither descriptors nor epoll nor buffers. A name has at
most one owner; `Bind` takes a free name only; `Deliver` appends one whole frame
to the stream of the owner, later than all earlier frames of the same sender;
`Close` frees the names of what is closed and may cut the end of its stream, and
changes no other stream. Packets may be dropped and connections closed at any
time. The mapping: the owner of a name is the connection that the descriptor in
`g_mark_to_fd` names *now*, and a stream is what the client read, followed by
the kernel's queue, followed by the `send_buf` of the connection. A descriptor
reused while the table still holds the old entry, a prefix written twice, or a
frame appended to the wrong buffer is not a step of the service. `ServiceSpec`
is the whole refinement as one property; it has no liveness part (the relay's
liveness is checked on `RelayServer` itself).

### ReceiveBuffer and ForwardedStream

The client's parser, again as counts of bytes: `m_buffer` is the number of bytes
held, `frames` the lengths of the frames in the stream, `skew` the distance
between `m_buffer[0]` and the first frame. Away from a frame's start any value
may be read as a length. `tryParsePacket` clears the buffer on a length of 0 or
above 1 MB and keeps the connection; `NewStream` is the loss of a connection with
its `recvBuffer.clear()`. `ForwardedStream` feeds it what `process_packet`
forwards of the packets that `RecvFraming` delivers: a packet without its target
mark, if anything is left of it. `StreamAssumption` is the relation between the
code's limits that the client depends on: the largest packet the relay can hold,
less the mark, is within the client's limit.

### RecvFraming

Counts of bytes only: `recv_len`, the sender's length field, and a history
variable `slip`, the distance between `recv_buf[0]` and the packet boundary.
Length arithmetic is modulo `WordSize` (2^32 in the code). `FramingAssumption`
says that a legal length does not wrap, which holds for the code's constants
(65535 + 4 < 2^32).

### ConnectionManager

`processEvents` is one step per phase and peer: `ProcessEvents` (first round of
reconnections begins), `ReconnectSucceeds` / `ReconnectFails`,
`AcceptNewConnection`, `Select`, `ProcessPeer`, `StartRemoving`,
`RemoveDisconnected`, `RemovingDone` (second round), `PassDone`. Application
calls come between passes when `Threads` is FALSE, and between any two steps
when it is TRUE; the library takes no lock around them. `SingleSpec` is `Spec`
without the steps of calls that are half done, which an application of one
thread does not have.

`sendPacket` is one step (`Transmit`) for an application of one thread. With
`Threads` it is three, for each of its callers (`Senders`): `SendChecks` finds the
peer connected (`connection_manager.cpp:242`), `SendTries` gives the frame to
whatever socket the peer has by then (250), `SendStores` puts the rest into
`sendBuffer` or the mark into `m_pendingRemove` (255, 259, 264). `sending` is
where each caller is. `remote[p] = "closed"` is a peer without a socket, on which
`send()` fails. What the pump does to one peer in one phase (`ProcessPeer`,
`DropPeer`, the assignments after a successful `connect()`) stays one step: the
other threads' steps touch `sendBuffer`, `connected` and `m_pendingRemove` only,
each with one operation of a container, and coming between two assignments of
such a phase has the effect of coming before or after it, as long as no other
thread disconnects. (The hook's detaching does; it also erases the peer, so that
no later session can show it.)

The Connected callback is two steps, as the hook's is: store the peer, then
register if the id is known. `injection` follows the hook's `InjectionThread`:
hooks installed, SteamID asked for, registered. `g_localSteamID` is whether the
id is not 0: `GetLocalSteamID` may find none, is asked once, and mark 0 is then
registered by the injection thread and by nobody after it. The game can send once
the hooks are installed.

`due[p]` is `nextReconnectAtMs` relative to now; `Unset` is the value 0, which
`attemptReconnects` skips. A frame is `Pieces` pieces of which `send()` takes
any number, except that the 12 bytes of a registration are taken whole by an
empty socket. Bytes of an incomplete incoming packet (`recvBuffer`) are the
subject of `ReceiveBuffer`; an incoming packet is its session and its size.

### HookThreads

Adds to `ConnectionManager` (whose pump, injection thread and `sendPacket` it
keeps) the game's thread and the loader's, which attaches and detaches the DLL.
`AttachConnects` and `AttachEnds` are the one `P2P_Connect` and the
`P2P_SetAutoReconnect` that follows if it succeeded, before the other threads
exist. The game sends at any time once the hooks are installed.
`Hook_IsP2PPacketAvailable` looks into the queue three times, and the model has a
step for each: `AskAvailable` (size for the buffer), `ReadChecks` (inside
`P2P_ReadPacket`), `ReadPops` (`readPacket`, then the stash).
`Hook_ReadP2PPacket` empties the stash. Detaching is `DetachDisables`,
`DetachDisconnects` (the pump still runs), `DetachShutsDown` (the pump has left
its loop). `dll` is how far `DllMain` is; `popped` and `cut` are history
variables.

The connect() inside `attemptReconnects` is one step. `DetachedStaysDown` does
not depend on that: a peer is in `cut` only if the application takes it for
connected, and an attempt is under way only while it does not.

### Rejoin

Clients are reduced to what the relay sees of the threaded hook. `Reconnect` is a
`connect()` that succeeds. A link's `first` packet decides: a mark, or data of the
game. The mark comes from the callback (`CallbackGreets`, only if the id is known,
so never on the first connection) or once from the injection thread
(`InjectionRegisters`, on the link whose callback has stored the peer); a packet of
the game may overtake both (`GameSends`). `GetLocalSteamID` may find no id; such
clients all register mark `Zero` and contend for it. `NoticeLoss` closes what was
lost. `stranded` clients do not come back: those whose very first `connect()`
failed (`hook.cpp:498`) and those whose mark was lost at
`connection_manager.cpp:585` (`ForgetLoss`).

The relay is `RelayService` (through `INSTANCE`, without its data) with the table
of `MaxConnections` places and the backlog; it registers, refuses a name that is
taken, and closes a link that begins with data (`RefuseData`). The environment
breaks links, makes the relay close a healthy connection (the stale hang-up of
`relay_hangup`), restarts it, and lets the game send before the registration,
until it is `calm`. A link's name is used again once the relay and the client have
both closed it.

## 3. Runs

Passing runs:

| Run | Bounds | Shows |
|---|---|---|
| `relay_routing` | 3 connections, 2 table places, 3 descriptors, 2 marks, frames of 2 pieces, socket of 1 | frames whole (`FramesIntact`), in order per sender (`SenderOrder`), only to the client that registered the mark (`RoutedToOwner`); a mark is never taken over (`MarkNotStolen`); the server implements the service (`ServiceSpec`) |
| `relay_errors` | same, with illegal, short and self-addressed packets, and signals | `MarkTableExact`, `DescriptorsAccounted`, `WakeupArmed` on every error path |
| `relay_liveness` | 2 connections that talk to each other, signals | `HangupFreed`, `OutputDrained`, `RequestsServed` |
| `forwarded_stream` | relay buffer 13, largest packet 12, length field 2, word 18, mark 3; client limit 8, reads of up to 6 bytes, 2 frames under way | `NeverFull`, `Aligned`, `BodyInBuffer` for the relay; `ForwardedAccepted`, `ClientAligned` for the client |
| `client_hook` | 1 peer, 3 sessions, 2 packets, delays 1 and 2; calls between passes | `AppInformed`, `RemovesOnlyDead`, `DelayBounded`, `ReconnectHappens` for the hook's calls |
| `client_api` | 2 peers, 2 sessions, all calls, between passes | `NoZombie`, `SessionPure` |
| `hook_threads` | 1 peer, 2 sessions, 1 packet out, packets in of two sizes, one shorter than an id; threads | `SessionGreeted`, `InboundPure`, `StashHoldsPopped`, `DiscardsOnlyAfterSwap`, `DetachedStaysDown` |
| `rejoin` | 1 client, 2 places, 3 links at a time, reused for ever | `NoDeafClient`, `Rejoined` |

Why the bounds are enough to be interesting: three connections with two places
in the table give a full table, a contested mark and a descriptor reused within
a batch; a frame of two pieces and a socket of one makes every forward a partial
write; the framing instance keeps the code's relations (buffer one byte larger
than the largest packet, so that lengths exist which pass the second test and
fail only the third, lengths near the word size that wrap, and a client limit
that is exactly the largest payload the relay can forward); packets of two sizes
let a queue be cleared and refilled with a larger packet between two looks; two
sessions let each of the three threads that send stop inside `sendPacket`, before
or after `send()`, while the pump closes the socket and opens the next; three links
and two places let a client's own dead links hold its name and fill the table when
it returns, and the reuse of links makes the behaviours of `rejoin` infinite (more
clients at once are left to the theorem about `NoDeafClient`); three sessions give
a reconnection after a reconnection; delays 1 and 2 with a counter that saturates
at 3 reach both the cap and the saturation.

Deadlock is not checked: a relay whose clients have said all they have to say
waits in `epoll_wait`, a stopped one is gone, the bounded client models run
out of sessions, and a client that owns its name in calm weather has nothing to
do. `ForwardedStream` ends when the sender's connection is closed.

Violation runs. Each states what a comment, a message or a document of the
repository says, and finds what the code does instead (details and quotations
under "findings"):

| Run | What happens |
|---|---|
| `relay_hangup` | a stale EPOLLERR event closes the new connection that reuses the descriptor within the batch |
| `relay_erased` | a self-addressed packet on a reset link: `process_packet` says "go on" for a connection it has erased |
| `client_stream` | `sendPacket` bypasses a non-empty `sendBuffer`; frames are interleaved |
| `client_race` | the game's thread sends before the registration |

Met while modelling, without a run of their own:

* `setAutoReconnect` on a peer that is down clears its schedule, and no attempt
  follows (`connection_manager.cpp:209` and `:601`). The model's `unscheduled`
  records such peers, and `NoZombie` and `ReconnectHappens` except them. The
  callers in the repository enable reconnection right after `connect`.
* `disconnect` leaves the mark that a failed send put into `m_pendingRemove`
  (`connection_manager.cpp:212`, `:259`). With reconnection on, the next pass
  reconnects first and then closes the live connection by the stale mark, where
  `connection_manager.h:194` speaks of removing broken connections.
  `RemovesOnlyDead` fails so as soon as `Calls` holds "disconnect" (added to the
  cfg of `client_api`, say); it holds for the hook, which disconnects only after
  switching reconnection off.
* A send of the game's thread that fails while the pump is inside
  `removeDisconnected` pushes its mark onto `m_pendingRemove` behind the loop's
  end, and `clear()` drops it (`connection_manager.cpp:563`, `:585`): the peer is
  down, unmarked and unscheduled for good, although reconnection is on and the
  relay reachable. `NoZombie` fails so with `Threads` (of `Spec`, with the other
  constants of `client_hook`), and `ReconnectHappens` with it; they are claimed for
  calls between passes. In `Rejoin` such a client is `stranded`.
* A send that is stopped between `send()` and the insert into `sendBuffer`
  (`connection_manager.cpp:250`, `:255`, `:264`) stores the rest of its frame after
  the pump cleared the buffer for the lost connection (572). The next attempt
  (605-613) does not clear it again, and `processWrite` sends the end of the old
  frame in the new session: `SessionPure` is false with `Threads`. It is claimed
  for calls from one thread, and `InboundPure`, its half about what is received,
  for the threaded hook.
* If `GetLocalSteamID` finds no id (`hook.cpp:372`, `:379`, `:383`), the injection
  thread registers mark 0 once, and the callback skips the registration of every
  later connection (`hook.cpp:352`): the relay closes it on the first packet of
  the game. `SessionGreeted`, `NoDeafClient` and `Rejoined` are about clients that
  found their id.
* If the first `P2P_Connect` fails, there is no peer to reconnect, and the client
  never tries again (`hook.cpp:498`).
* `MAX_PACKET_SIZE` of the relay is 65535, but a length from 65533 on is refused:
  with its length field it exceeds `BUFFER_SIZE` (`server/main.cpp:538`).
* `readPacket` throws a packet away that is larger than the buffer and reports
  that there was none (`connection_manager.cpp:342`). `P2P_ReadPacket` looks at
  the size first, so this takes a change of connection in between
  (`DiscardsOnlyAfterSwap`).
* Nothing but `process_packet`'s test for an empty payload keeps the client's
  parser from a length of 0, which it cannot recover from (`ForwardedAccepted`).
* `getPeerCount` counts peers that wait for a reconnection, where
  `p2p_network.h:136` speaks of connected peers.
* A base delay above the maximum is used as it is for the first attempts
  (`connection_manager.cpp:229`, `:577`, `:618`); `DelayBounded` is stated for
  base delays within the maximum.
* The comment above the parse loop (`server/main.cpp:531`) says network byte
  order where `read_packet_length` is little-endian, as the README is.
* Line 174 of the repository's README says that the client does not reconnect,
  which the code does.

## 4. Fairness

* Relay: weak fairness of the server thread as a whole (the kernel schedules it)
  and of each client's reading. No fairness of sending, ending or signals. The
  server alone cannot empty `send_buf` for a client that never reads, so
  `OutputDrained` needs the second part.
* Client: weak fairness of the pump (`PumpThread` calls `P2P_RunCallbacks` every
  10 ms for as long as the process lives) and of the clock. The network may stay
  unreachable for ever; `ReconnectHappens` is conditional on `<>[]reachable`.
  It is checked for calls between passes (`client_hook`); with threads a lost
  mark makes it false however fair they are (section 3).
* Clients and relay together: weak fairness of the relay's handling of each link
  (epoll is level-triggered and one batch holds every ready descriptor; that the
  server thread comes round is `HangupFreed` and `RequestsServed` of
  `relay_liveness`), of each client's callback and injection thread, of its
  noticing a loss and of its attempts. The last two are what the pump does for a
  client that is not `stranded`; fairness of attempts does not mention the
  others, since a stranded client's are never enabled, and `NoticeLoss` competes
  with `ForgetLoss`, which may strand the client at every loss. Fairness of
  attempts is strong because the model's links can all be in use for a moment,
  which keeps no real client from calling `connect()`; without that, an attempt
  once enabled stays so until it is made, and weak and strong are the same. An
  attempt that the full table refuses is an attempt: fairness does not say that it
  succeeds. That a broken link is noticed at all stands for keep-alive on the
  relay's side and for the game's constant sending on the client's. `Rejoined` is
  conditional on `<>[]calm`, which includes that the game does not overtake the
  registration for ever: a link that begins with data is closed, and nothing in
  the code makes the next one begin otherwise.

## 5. Proofs

Every invariant, every action property and the refinement that a passing run
checks is also a theorem, for every value of the constants that meets the named
assumptions. The bounds of the runs (peers, sessions, packets, descriptors,
pieces, delays) are constants of the modules and are left open; where a theorem
needs more than the assumptions, its hypothesis is part of its statement and
listed here.

| Theorems | Of | Hypothesis, and why the code has it |
|---|---|---|
| `RelayTypeOK`, `RelayMarkTableExact`, `RelayWakeupArmed` (`RelayServerProofs`) | `RelayServer` | - |
| `RelayDescriptorsAccounted`, `RelayRoutedToOwner`, `RelayFramesIntact`, `RelaySenderOrder`, `RelayMarkNotStolen` (`RelayStreamProofs`) | `RelayServer` | - |
| `RelayImplementsService` (`RelayRefinementProofs`) | `RelayRefinement` | - |
| `FramingTypeOK`, `FramingNeverFull`, `FramingAligned`, `FramingBodyInBuffer` (`RecvFramingProofs`) | `RecvFraming` | - |
| `StreamRelayIntact`, `StreamForwardedAccepted`, `StreamClientAligned` (`ForwardedStreamProofs`) | `ForwardedStream` | - |
| `RejoinNoDeafClient` (`RejoinProofs`) | `Rejoin` | - |
| `ClientTypeOK`, `ClientDelayBounded` (`ConnectionManagerProofs`) | `ConnectionManager` | - |
| `ClientInboundPure` | | no "disconnect" with `Threads`: it could come inside `processRead`, which is one step of the model. The hook reads and sends beside the pump, and disconnects only to detach |
| `ClientSessionPure` | | `~Threads`: false with a second thread in `sendPacket` (section 3) |
| `ClientNoZombie` | | `~Threads`: a lost mark makes it false with threads (section 3) |
| `ClientRemovesOnlyDead` | | `~Threads`, no "disconnect", whose stale marks make it false (section 3) |
| `ClientAppInformed` | | `~Threads`, neither "disconnect", whose stale marks break it, nor "shutdown", which forgets peers without a callback |
| `ClientSessionGreeted` | | `MaxPeers = 1`: the hook makes one connection and registers `g_connectedPeer` only |
| `HookInboundPure`, `HookStashHoldsPopped`, `HookDetachedStaysDown` (`HookThreadsProofs`) | `HookThreads` | - |
| `HookSessionGreeted` | | `MaxPeers = 1`, as above |
| `HookDiscardsOnlyAfterSwap` | | no "read": in the hook only the poll reads |

The theorems are about `Spec`, which `SingleSpec` implies. The last column's
hypotheses are met by the runs that check the property
(`client_api`, `client_hook`, `hook_threads`). The properties proved of
`HookThreads` are those that hold with the threads the hook really has.

### The relay

`RelayServerProofs`. `MarkTableExact` is not inductive alone.
`Inv == Core /\ Rest`:

* `CoreType`: types of the tables and of the kernel state;
* `Held`: the table's keys are exactly the descriptors that name a connection.
  Without it a forward could flush a descriptor that names none, and `accept()`
  could hand out one that is still registered;
* `Room`: no socket queue exceeds its capacity, so the number of pieces a write
  takes lies between 0 and the buffer's length;
* `MarkTableExact` and `WakeupArmed` themselves;
* `Rest`: types of the network, history and control variables.

The argument is by lemmas on the shared operators: `CloseKeepsCore`,
`FlushKeepsCore`, `AcceptKeepsCore`, `RegisterKeepsCore` and `EndKeepsCore` say
that what every handler is built from preserves `Core`; `ServerKeepsCore` and
`ServerKeepsRest` then have one case per action.

`RelayStreamProofs` proves `FullInv == Inv /\ Ctrl /\ Accounts /\ StreamInv`.
`StepKinds` first sorts the steps by what they do to sockets, tables and streams
(quiet, accepts, refuses, closes, flushes, forwards), so that each conjunct has
one case per kind and not one per action.

* `Accounts` is behind `DescriptorsAccounted`: no connection is named twice, by
  two descriptors, by two places of the backlog or by one of each, and what is
  open is named once. A step that closes would otherwise leave a second name.
* A stream is what the client read, the kernel's queue and `send_buf`. Its three
  parts change together: `TakesStream` shows that a partial write moves a piece
  from one part to the next and leaves the stream as it is, and `StreamSteps`
  that a step keeps a stream, starts an empty one, or adds one whole frame.
  `FramesIntact` and `RoutedToOwner` follow, the first with the arithmetic of
  `ModInFrame` and `ModNextFrame`.
* `SenderOrder` compares a new frame with all earlier ones, and needs the order
  of what has not been forwarded yet: `InboxOrdered` (packets in the socket),
  `HbufOrdered` (packets in the parse loop) and `StreamsSettled` (what is in any
  stream is older than everything that its sender's socket and the parse loop
  still hold).

`RelayRefinementProofs`. The mapping is read through `Mapped`, which `FullInv`
implies: the owner of a name is the connection of its descriptor, and no
connection has two. `ParserOwner` is the strengthening: the packets in hand are
those of the connection being handled, or that one was closed under the loop;
without it a frame could be delivered in the name of the connection that reuses
the descriptor. Then there is a lemma for each kind of step (`AcceptMaps`,
`RegisterMaps`, `ForwardMaps`, `FlushMaps`, `RefuseMaps`, `CloseMaps`, `EndMaps`,
`ClientMaps`) which says which step of `RelayService` it is, if any.

### The two parsers, and clients with the relay

`RecvFramingProofs`: the strengthening is the type invariant and `DeliverLegal`:
while a packet is delivered its length has passed the check and all of it is in
the buffer, so `consume` removes exactly the packet.

`ForwardedStreamProofs`: the relay's `DeliverLegal` bounds what is forwarded. On
the client's side `ClientAligned` needs `Accounted`: buffered and arriving bytes
are exactly the frames that were not parsed, so a length is never read when
there is no frame. The invariant says that a function of frame offsets exists,
which `AppendMeasured` and `TailMeasured` rebuild for a frame more and a frame
less.

`RejoinProofs`: `NoDeafClient` says of a live link that its registration is on the
way or granted, and needs four facts beside the types. `OwnLinks`: a client's
current link is one it made and its name is in use, otherwise it could be reused
under it. `LinksMade`: nothing was sent on a link that is not open. `OwnIds`: a
client has no id but its own, and no mark was sent before it asked for one, so
that a mark on the way is the name it will hold. `ReadOwns`: a registration that
was read and whose link still lives owns its name. The case behind the theorem is
the race of the callback and the injection thread: whichever comes second finds
what the other stored (`SendsKeepsInv` has the steps they share).

### The client

`ConnectionManagerProofs`:

* Operators. `Doubled`, the doubling loop, is a recursive function.
  `SetInduction` is induction over the naturals with a set in the place of the
  predicate, from the well-foundedness of `<`; with it `DoubledEquation` shows
  that the function exists and `DelayType` that it stays at or below `MaxDelay`.
  `SortedUniqueSet` shows that the list sorted and without repetitions has the
  marks as its set and repeats none.
* `Types` is `TypeOK` in groups of variables that change together.
* `PureInv` is behind `SessionPure` and `InboundPure`: buffers and incoming packets
  are of the current session (`BuffersPure`), and a peer whose reconnection is
  scheduled is down with empty buffers (`WaitingEmpty`), as is a peer id not
  handed out yet (`FreshEmpty`). The clearing happens long before the next session
  begins, and `WaitingEmpty` is what carries it across. The conjuncts about
  `sendBuffer` and `wire` have the premise `~Threads`; those about what is
  received have none.
* `StepAt(p)` lists what a step may do to one peer (opens, marks, removes,
  disconnects, announces, reschedules, ...); `EveryStepAt` shows that there is
  nothing else. `NoZombie` and `AppInformed` are then one case per kind.
  `RemovesOnlyDead` needs `MarkInv`: every marked peer is down, and the list
  under removal repeats none; `AppInformed` also `CallbackIsUp`: a peer about to
  be announced is still connected.
* `SessionGreeted` needs `KnownInv` and `GreetInv`. The first says that a
  connection that is up is in the table and, unless its callback is still to
  come, stored; so the injection thread, when it looks, finds it. The second says
  that a session is `Covered`: its stream holds a registration of its own, or a
  call of one of the two `Registrars` will put one there (`CallGreets`: it has not
  sent yet, or the rest it holds has the number of this session). A call stopped
  before `send()` counts for the session it finds when it goes on, one stopped
  after it for the old session only. A swapped order of "store" and "look" on
  either side would break the first.

`HookThreadsProofs`: a step of the hook is a step of `ConnectionManager` (attaching
is two of its calls, `AttachIsClient`), a pop, or a step of detaching
(`HookStepKinds`), and the client's invariants carry over. `StashInv` adds that the
stash is free while a poll is under way; `CutInv` that the peers detaching found
have old ids and no automatic reconnection, which only attaching switches on, and
that is over; `PopInv` that the packet the second look approved
is still first in its queue, or the queue was cleared with its connection down,
or the session is a later one (`QueueAt` is what a step may do to a queue).

### Only model-checked

The liveness properties (`HangupFreed`, `OutputDrained`, `RequestsServed`,
`ReconnectHappens`, `Rejoined`): fairness and ENABLED are outside the prover. The
four violation runs are counterexamples and have nothing to prove.

## 6. Not modelled

* logger, statistics, configuration file, winmm proxy, load.js: output,
  start-up or forwarding without state of the protocol;
* failures of the server's start-up and of `epoll_wait` other than EINTR: the
  process ends;
* memory-level data races: threads interleave between the steps of a pass,
  between the three steps of a `sendPacket` and between locked operations of the
  queue, never inside a container operation. A peer that is erased, or a manager
  that is freed, while another thread holds a reference to it (a send during
  detaching) is undefined behaviour and is left out: a stopped call acts on the
  peer's remains. The pass that the game's own poll makes is one of the pump's
  passes; two at once, over hash tables and vectors without a lock, would be
  undefined behaviour anywhere, and nothing could be said of it;
* weak memory: `g_connectedPeer` and `g_localSteamID` are plain variables, and the
  model takes their loads and stores for sequentially consistent. `SessionGreeted`
  and `NoDeafClient` rest on it: each thread stores one and then loads the other;
* what follows when detaching stops waiting for a pump inside connect(): the
  manager is freed under the pump (`hook.cpp:527`, `:538`);
* `P2P_Shutdown` followed by `P2P_Init` makes a new manager, whose peer ids start
  over; the model has one manager;
* what the original Steam functions do: the hooks call them and ignore the data;
* unbounded growth of `send_buf`: the code sets no bound.

## 7. State

Done: the modules above, the refinement, the compositions, and a theorem for
every safety property of a passing run. Left, in this order:

1. `RejoinProofs`: type correctness, and the bound on the relay's table, as
   properties of their own.
2. `NoZombie` with `Threads` for an application that does not send: the
   theorem excludes more than the counterexample of section 3 asks for.
3. `AppInformed` with "shutdown", with a count that starts over.
