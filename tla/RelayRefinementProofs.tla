----------------------- MODULE RelayRefinementProofs -----------------------
(***************************************************************************)
(* The relay implements the abstract service: seen through the refinement  *)
(* mapping, every step of the server and its clients is one step of        *)
(* RelayService or none, for any number of clients, descriptors, marks,    *)
(* packets and pieces.                                                     *)
(***************************************************************************)
EXTENDS RelayStreamProofs, RelayRefinement

\* The packets being parsed are those of the connection whose event is handled,
\* or that connection was closed under the parse loop.
ParserOwner ==
    \A j \in 1..Len(hbuf) :
      \/ cur.fd \in g_connections /\ sock[cur.fd] = hbuf[j].src
      \/ cur.fd \notin g_connections /\ link[hbuf[j].src] = "closed"

MapInv == FullInv /\ ParserOwner

\* Steps that read no new packets keep parsing the old ones.
LEMMA ParserKept ==
    ASSUME Inv, ParserOwner, HbufShrinks,
           cur' = cur \/ hbuf' = <<>>,
           \A c \in Conns : link[c] = "closed" => link'[c] = "closed",
           \/ cur.fd \in g_connections' <=> cur.fd \in g_connections
           \/ \A c \in Conns : c = sock[cur.fd] => link'[c] = "closed",
           cur.fd \in g_connections' => cur.fd \in g_connections /\ sock'[cur.fd] = sock[cur.fd]
    PROVE  ParserOwner'
<1>1. SUFFICES ASSUME NEW j \in 1..Len(hbuf')
               PROVE  \/ cur'.fd \in g_connections' /\ sock'[cur'.fd] = hbuf'[j].src
                      \/ cur'.fd \notin g_connections' /\ link'[hbuf'[j].src] = "closed"
  BY DEF ParserOwner
<1>2. hbuf' # <<>>
  OBVIOUS
<1>3. PICK i \in 1..Len(hbuf) : hbuf'[j] = hbuf[i]
  BY <1>2, ShrinkStep
<1>4. hbuf[i] \in Packet
  BY ElementOfSeq DEF Inv, Rest
<1>5. hbuf[i].src \in Conns /\ cur' = cur
  BY <1>2, <1>4 DEF Packet
<1>6. \/ cur.fd \in g_connections /\ sock[cur.fd] = hbuf[i].src
      \/ cur.fd \notin g_connections /\ link[hbuf[i].src] = "closed"
  BY DEF ParserOwner
<1> QED
  BY <1>3, <1>5, <1>6

LEMMA ParserOwnerKept ==
    ASSUME FullInv, ParserOwner, [Next]_vars
    PROVE  ParserOwner'
<1> USE DEF FullInv
<1>1. CASE Quiet
  <2>1. UNCHANGED <<link, sock, g_connections>> /\ HbufShrinks
    BY <1>1 DEF Quiet, network, kernel, tables
  <2> QED
    BY <2>1, ParserKept DEF HbufShrinks
<1>2. ASSUME NEW c \in Conns, Client(c) PROVE ParserOwner'
  <2>1. UNCHANGED <<sock, g_connections, hbuf, pc, cur>>
    BY <1>2 DEF Client, ClientConnect, ClientSend, ClientRecv, ClientFin, ClientReset,
                kernel, tables, control
  <2>2. \A d \in Conns : link[d] = "closed" => link'[d] = "closed"
    BY <1>2 DEF Client, ClientConnect, ClientSend, ClientRecv, ClientFin, ClientReset,
                Inv, Core, CoreType
  <2> QED
    BY <2>1, <2>2, ParserKept DEF HbufShrinks
<1>3. CASE Refuses \/ (\E fd \in Fds : Accepts(fd)) \/ (\E fd \in g_connections : Flushes(fd))
             \/ \E how : ProcessEnds(how)
  <2>1. hbuf' = <<>>
    BY <1>3 DEF Refuses, Accepts, Flushes, ProcessEnds
  <2> QED
    BY <2>1 DEF ParserOwner
<1>4. ASSUME NEW g \in Fds, Closes(g) PROVE ParserOwner'
  <2>1. /\ HbufShrinks /\ g_connections' = g_connections \ {g}
        /\ sock' = [sock EXCEPT ![g] = NoConn]
        /\ link' = [c \in Conns |-> IF c = sock[g] THEN "closed" ELSE link[c]]
    BY <1>4 DEF Closes, CloseConnection
  <2>2. g_connections \subseteq Fds /\ sock \in [Fds -> Conns \cup {NoConn}]
    BY DEF Inv, Core, CoreType
  <2>3. \A c \in Conns : link[c] = "closed" => link'[c] = "closed"
    BY <2>1
  <2>4. cur.fd \in g_connections' =>
          cur.fd \in g_connections /\ sock'[cur.fd] = sock[cur.fd]
    BY <2>1, <2>2
  <2>5. \/ cur.fd \in g_connections' <=> cur.fd \in g_connections
        \/ \A c \in Conns : c = sock[cur.fd] => link'[c] = "closed"
    BY <2>1
  <2>6. cur' = cur \/ hbuf' = <<>>
    BY <2>1 DEF HbufShrinks
  <2> QED
    BY <2>1, <2>3, <2>4, <2>5, <2>6, ParserKept
<1>5. CASE Register \/ \E fd \in g_connections : Forwards(fd)
  <2>1. hbuf # <<>> /\ hbuf' = Tail(hbuf) /\ UNCHANGED <<link, sock, g_connections, pc, cur>>
    BY <1>5 DEF Register, Consume, kernel, Forwards, Takes
  <2> QED
    BY <2>1, ParserKept DEF HbufShrinks
<1>6. CASE ReadData
  <2>1. PICK e \in events :
          /\ e.fd \in g_connections /\ cur' = e
          /\ UNCHANGED <<sock, g_connections>>
          /\ \E k \in 1..Len(inbox[sock[e.fd]]) : hbuf' = SubSeq(inbox[sock[e.fd]], 1, k)
    BY <1>6 DEF ReadData, kernel, tables
  <2> DEFINE c == sock[e.fd]
  <2>2. PICK k \in 1..Len(inbox[c]) : hbuf' = SubSeq(inbox[c], 1, k)
    BY <2>1
  <2>3. c \in Conns /\ inbox[c] \in Seq(Packet)
    BY <2>1, StreamType DEF Inv, Core, CoreType
  <2>4. \A j \in 1..Len(hbuf') : hbuf'[j] = inbox[c][j] /\ j \in 1..Len(inbox[c])
    BY <2>2, <2>3, Prefix
  <2>5. \A j \in 1..Len(hbuf') : hbuf'[j].src = c
    BY <2>3, <2>4 DEF StreamInv, InboxOrdered
  <2> QED
    BY <2>1, <2>5 DEF ParserOwner
<1> QED
  BY <1>1, <1>2, <1>3, <1>4, <1>5, <1>6, StepKinds DEF StepKind

LEMMA MapInvariant == Spec => []MapInv
<1>1. Init => MapInv
  BY FullInit DEF MapInv, Init, ParserOwner
<1>2. MapInv /\ [Next]_vars => MapInv'
  BY FullStep, ParserOwnerKept DEF MapInv
<1> QED
  BY <1>1, <1>2, PTL DEF Spec

----------------------------------------------------------------------------
\* The refinement mapping.

\* What the mapping makes of a connection: the buffer of its descriptor if it
\* has one, and no buffer otherwise.
Mapped ==
    \A c \in Conns :
      /\ rcvd[c] \in Seq(Piece) /\ sndq[c] \in Seq(Piece) /\ Buffered(c) \in Seq(Piece)
      /\ \A fd \in g_connections : sock[fd] = c => Buffered(c) = send_buf[fd]
      /\ (\A fd \in g_connections : sock[fd] # c) => Buffered(c) = <<>>

LEMMA MappedHolds == FullInv => Mapped
<1> SUFFICES ASSUME FullInv, NEW c \in Conns
             PROVE  /\ rcvd[c] \in Seq(Piece) /\ sndq[c] \in Seq(Piece)
                    /\ Buffered(c) \in Seq(Piece)
                    /\ \A fd \in g_connections : sock[fd] = c => Buffered(c) = send_buf[fd]
                    /\ (\A fd \in g_connections : sock[fd] # c) => Buffered(c) = <<>>
  BY DEF Mapped
<1> USE DEF FullInv, Inv
<1>1. rcvd[c] \in Seq(Piece) /\ sndq[c] \in Seq(Piece)
  BY DEF Core, CoreType, Rest
<1>2. ASSUME NEW fd \in g_connections, sock[fd] = c
      PROVE  Buffered(c) = send_buf[fd] /\ Buffered(c) \in Seq(Piece)
  <2>1. (CHOOSE g \in g_connections : sock[g] = c) = fd
    BY <1>2 DEF Accounts
  <2>2. send_buf[fd] \in Seq(Piece)
    BY StreamType
  <2> QED
    BY <1>2, <2>1, <2>2 DEF Buffered
<1>3. ASSUME \A fd \in g_connections : sock[fd] # c
      PROVE  Buffered(c) = <<>> /\ Buffered(c) \in Seq(Piece)
  BY <1>3, EmptySeq DEF Buffered
<1> QED
  BY <1>1, <1>2, <1>3

LEMMA MappedNext == MapInv /\ [Next]_vars => MapInv' /\ Mapped /\ Mapped'
<1>1. MapInv => Mapped
  BY MappedHolds DEF MapInv
<1>2. MapInv /\ [Next]_vars => MapInv'
  BY FullStep, ParserOwnerKept DEF MapInv
<1> QED
  BY <1>1, <1>2, PTL

\* The stream of c is made of what the client read, the kernel and the relay.
LEMMA SameService ==
    ASSUME NEW c \in Conns, rcvd'[c] = rcvd[c], sndq'[c] = sndq[c],
           Buffered(c)' = Buffered(c)
    PROVE  ServiceStream'[c] = ServiceStream[c]
BY DEF ServiceStream

\* A connection whose descriptor and buffer a step leaves alone.
LEMMA SameBuffered ==
    ASSUME Mapped, Mapped', NEW c \in Conns,
           \A fd \in g_connections : sock[fd] = c =>
             fd \in g_connections' /\ sock'[fd] = c /\ send_buf'[fd] = send_buf[fd],
           \A fd \in g_connections' : sock'[fd] = c => fd \in g_connections /\ sock[fd] = c
    PROVE  Buffered(c)' = Buffered(c)
<1>1. CASE \E fd \in g_connections : sock[fd] = c
  BY <1>1 DEF Mapped
<1>2. CASE \A fd \in g_connections : sock[fd] # c
  BY <1>2 DEF Mapped
<1> QED
  BY <1>1, <1>2

LEMMA StateMap ==
    ASSUME NEW c \in Conns
    PROVE  ServiceState[c] = IF link[c] \in {"fin", "reset"} THEN "ended" ELSE link[c]
BY DEF ServiceState

\* A name's owner is the connection registered under it.
LEMMA OwnerMap ==
    ASSUME FullInv, NEW m \in Marks
    PROVE  /\ g_mark_to_fd[m] = NoFd <=> ServiceOwner[m] = NoConn
           /\ g_mark_to_fd[m] # NoFd =>
                /\ g_mark_to_fd[m] \in g_connections
                /\ g_mark_to_fd[m] \in registered
                /\ mark[g_mark_to_fd[m]] = m
                /\ sock[g_mark_to_fd[m]] \in Conns
                /\ ServiceOwner[m] = sock[g_mark_to_fd[m]]
                /\ link[ServiceOwner[m]] \in LinkOpen
<1> USE DEF FullInv, Inv, Core
<1>1. ASSUME g_mark_to_fd[m] # NoFd
      PROVE  /\ g_mark_to_fd[m] \in g_connections
             /\ g_mark_to_fd[m] \in registered
             /\ mark[g_mark_to_fd[m]] = m
  BY <1>1 DEF MarkTableExact
<1>2. ASSUME g_mark_to_fd[m] # NoFd
      PROVE  /\ sock[g_mark_to_fd[m]] \in Conns
             /\ link[sock[g_mark_to_fd[m]]] \in LinkOpen
  <2>1. sock[g_mark_to_fd[m]] \in Conns
    BY <1>1, <1>2, StreamType
  <2> QED
    BY <1>1, <1>2, <2>1 DEF Accounts, HeldConns
<1>3. ServiceOwner[m] = IF g_mark_to_fd[m] = NoFd THEN NoConn ELSE sock[g_mark_to_fd[m]]
  BY DEF ServiceOwner
<1> QED
  BY <1>1, <1>2, <1>3, NoConnAssumption

\* Two names have one owner only if they are one name.
LEMMA OwnerUnique ==
    ASSUME FullInv, NEW fd \in g_connections, NEW m \in Marks
    PROVE  ServiceOwner[m] = sock[fd] <=> g_mark_to_fd[m] = fd
<1>1. sock[fd] \in Conns /\ fd \in Fds
  BY StreamType DEF FullInv
<1>2. fd # NoFd
  BY <1>1, FdsAssumption DEF NoFd
<1>3. ASSUME ServiceOwner[m] = sock[fd] PROVE g_mark_to_fd[m] = fd
  <2>1. g_mark_to_fd[m] # NoFd
    BY <1>1, <1>3, OwnerMap, NoConnAssumption
  <2>2. g_mark_to_fd[m] \in g_connections /\ sock[g_mark_to_fd[m]] = sock[fd]
    BY <1>3, <2>1, OwnerMap
  <2> QED
    BY <2>2 DEF FullInv, Accounts
<1>4. ASSUME g_mark_to_fd[m] = fd PROVE ServiceOwner[m] = sock[fd]
  BY <1>2, <1>4, OwnerMap
<1> QED
  BY <1>3, <1>4

----------------------------------------------------------------------------
\* Every kind of step, seen through the mapping.

LEMMA StreamSame ==
    ASSUME \A c \in Conns : ServiceStream'[c] = ServiceStream[c]
    PROVE  ServiceStream' = ServiceStream
BY DEF ServiceStream

LEMMA BuffersSame ==
    ASSUME UNCHANGED <<rcvd, sndq, sock, send_buf, g_connections>>
    PROVE  ServiceStream' = ServiceStream
BY DEF ServiceStream, Buffered

LEMMA OwnersSame ==
    ASSUME UNCHANGED <<sock, g_mark_to_fd>>
    PROVE  ServiceOwner' = ServiceOwner
BY DEF ServiceOwner

LEMMA QuietMaps ==
    ASSUME Quiet \/ ReadData
    PROVE  UNCHANGED Service!vars
<1>1. UNCHANGED <<link, rcvd, sndq, sock, send_buf, g_connections, g_mark_to_fd>>
  BY DEF Quiet, ReadData, TakeDataEvent, network, kernel, tables
<1>2. ServiceState' = ServiceState
  BY <1>1 DEF ServiceState
<1> QED
  BY <1>1, <1>2, BuffersSame, OwnersSame DEF Service!vars

LEMMA ClientMaps ==
    ASSUME FullInv, Mapped, Mapped', NEW c \in Conns, Client(c)
    PROVE  [Service!Next]_(Service!vars)
<1>0. link \in [Conns -> {"unborn", "up", "fin", "reset", "closed"}]
  BY DEF FullInv, Inv, Core, CoreType
<1>1. ServiceOwner' = ServiceOwner
  <2>1. UNCHANGED <<sock, g_mark_to_fd>>
    BY DEF Client, ClientConnect, ClientSend, ClientRecv, ClientFin, ClientReset,
           kernel, tables
  <2> QED
    BY <2>1, OwnersSame
<1>2. CASE ~ClientRecv(c)
  <2>1. UNCHANGED <<rcvd, sndq, sock, send_buf, g_connections>>
    BY <1>2 DEF Client, ClientConnect, ClientSend, ClientFin, ClientReset, kernel, tables
  <2>2. ServiceStream' = ServiceStream
    BY <2>1, BuffersSame
  <2>3. CASE ClientConnect(c)
    <3>1. link[c] = "unborn" /\ link' = [link EXCEPT ![c] = "up"]
      BY <2>3 DEF ClientConnect
    <3>2. /\ ServiceState[c] = "unborn"
          /\ ServiceState' = [ServiceState EXCEPT ![c] = "up"]
      BY <1>0, <3>1 DEF ServiceState
    <3> QED
      BY <1>1, <2>2, <3>2 DEF Service!Next, Service!Arrive
  <2>4. CASE ClientFin(c) \/ (ClientReset(c) /\ link[c] = "up")
    <3>1. link[c] = "up" /\ \E x \in {"fin", "reset"} : link' = [link EXCEPT ![c] = x]
      BY <2>4 DEF ClientFin, ClientReset
    <3>2. /\ ServiceState[c] = "up"
          /\ ServiceState' = [ServiceState EXCEPT ![c] = "ended"]
      BY <1>0, <3>1 DEF ServiceState
    <3> QED
      BY <1>1, <2>2, <3>2 DEF Service!Next, Service!End
  <2>5. CASE ClientSend(c) \/ (ClientReset(c) /\ link[c] # "up")
    <3>1. link' = link \/ (link[c] = "fin" /\ link' = [link EXCEPT ![c] = "reset"])
      BY <2>5 DEF ClientSend, ClientReset
    <3>2. ServiceState' = ServiceState
      BY <1>0, <3>1 DEF ServiceState
    <3> QED
      BY <1>1, <2>2, <3>2 DEF Service!vars
  <2> QED
    BY <1>2, <2>3, <2>4, <2>5 DEF Client
<1>3. CASE ClientRecv(c)
  <2>1. /\ sndq[c] # <<>> /\ UNCHANGED <<link, sock, send_buf, g_connections>>
        /\ rcvd' = [rcvd EXCEPT ![c] = Append(@, Head(sndq[c]))]
        /\ sndq' = [sndq EXCEPT ![c] = Tail(@)]
    BY <1>3 DEF ClientRecv, kernel, tables
  <2>2. ServiceState' = ServiceState
    BY <2>1 DEF ServiceState
  <2>3. \A d \in Conns : Buffered(d)' = Buffered(d)
    BY <2>1 DEF Buffered
  <2>4. ASSUME NEW d \in Conns PROVE ServiceStream'[d] = ServiceStream[d]
    <3>1. CASE d # c
      <4>1. rcvd'[d] = rcvd[d] /\ sndq'[d] = sndq[d]
        BY <2>1, <3>1 DEF FullInv, Inv, Core, CoreType, Rest
      <4> QED
        BY <2>3, <4>1, SameService
    <3>2. CASE d = c
      <4> DEFINE r == rcvd[c]
                 q == sndq[c]
                 b == Buffered(c)
      <4>1. r \in Seq(Piece) /\ q \in Seq(Piece) /\ b \in Seq(Piece) /\ q # <<>>
        BY <2>1 DEF Mapped
      <4>2. rcvd'[c] = Append(r, Head(q)) /\ sndq'[c] = Tail(q)
        BY <2>1 DEF FullInv, Inv, Core, CoreType, Rest
      <4>3. /\ ServiceStream'[c] = Append(r, Head(q)) \o Tail(q) \o b
            /\ ServiceStream[c] = r \o q \o b
        BY <2>3, <4>2 DEF ServiceStream
      <4> HIDE DEF r, q, b
      <4>4. Append(r, Head(q)) \o Tail(q) \o b = r \o q \o b
        BY <4>1, RecvConcat
      <4> QED
        BY <3>2, <4>3, <4>4
    <3> QED
      BY <3>1, <3>2
  <2> QED
    BY <1>1, <2>2, <2>4, StreamSame DEF Service!vars
<1> QED
  BY <1>2, <1>3

LEMMA AcceptMaps ==
    ASSUME FullInv, Mapped, Mapped', NEW g \in Fds, Accepts(g)
    PROVE  UNCHANGED Service!vars
<1> DEFINE c == Head(backlog)
<1>1. /\ sock[g] = NoConn /\ backlog # <<>>
      /\ sock' = [sock EXCEPT ![g] = c]
      /\ send_buf' = [send_buf EXCEPT ![g] = <<>>]
      /\ g_connections' = g_connections \cup {g}
      /\ UNCHANGED <<rcvd, sndq, link, g_mark_to_fd>>
  BY DEF Accepts, AcceptInto
<1>2. c \in Conns /\ c \in SeqSet(backlog)
  BY <1>1, HeadTailProperties, TailSet DEF FullInv, Inv, Rest, Accounts
<1>3. /\ g \notin g_connections /\ g_connections \subseteq Fds
      /\ \A f \in g_connections : sock'[f] = sock[f] /\ send_buf'[f] = send_buf[f]
      /\ sock'[g] = c /\ send_buf'[g] = <<>>
  BY <1>1 DEF FullInv, Inv, Core, CoreType, Held
<1>4. \A f \in g_connections : sock[f] # c
  BY <1>2 DEF FullInv, Accounts, HeldConns
<1> HIDE DEF c
<1>5. ServiceState' = ServiceState
  BY <1>1 DEF ServiceState
<1>6. ServiceOwner' = ServiceOwner
  <2>1. \A m \in Marks : g_mark_to_fd[m] # NoFd => g_mark_to_fd[m] \in g_connections
    BY OwnerMap
  <2> QED
    BY <1>1, <1>3, <2>1 DEF ServiceOwner
<1>7. ASSUME NEW d \in Conns PROVE ServiceStream'[d] = ServiceStream[d]
  <2>1. CASE d = c
    <3>1. Buffered(d) = <<>>
      BY <1>4, <2>1 DEF Mapped
    <3>2. Buffered(d)' = <<>>
      BY <1>1, <1>3, <2>1 DEF Mapped
    <3> QED
      BY <1>1, <3>1, <3>2, SameService
  <2>2. CASE d # c
    <3>1. \A f \in g_connections : sock[f] = d =>
             f \in g_connections' /\ sock'[f] = d /\ send_buf'[f] = send_buf[f]
      BY <1>1, <1>3
    <3>2. \A f \in g_connections' : sock'[f] = d => f \in g_connections /\ sock[f] = d
      BY <1>1, <1>3, <2>2
    <3>3. Buffered(d)' = Buffered(d)
      BY <3>1, <3>2, SameBuffered
    <3> QED
      BY <1>1, <3>3, SameService
  <2> QED
    BY <2>1, <2>2
<1> QED
  BY <1>5, <1>6, <1>7, StreamSame DEF Service!vars

LEMMA RegisterMaps ==
    ASSUME FullInv, Ctrl, ParserOwner, Register
    PROVE  Service!Next
<1> DEFINE m == Head(hbuf).mark
           fd == cur.fd
           c == sock[fd]
<1>1. /\ hbuf # <<>> /\ fd \in g_connections /\ fd \notin registered
      /\ g_mark_to_fd[m] = NoFd
      /\ g_mark_to_fd' = [g_mark_to_fd EXCEPT ![m] = fd]
      /\ UNCHANGED <<link, rcvd, sndq, sock, send_buf, g_connections>>
  BY DEF Register, ConnRegistered, MarkTaken, Parsing, kernel
<1>2. Head(hbuf) \in Packet
  BY <1>1, HeadTailProperties DEF FullInv, Inv, Rest
<1>3. m \in Marks /\ c \in Conns /\ fd \in Fds /\ link[c] \in LinkOpen
  <2>1. c \in Conns /\ fd \in Fds
    BY <1>1, StreamType DEF FullInv
  <2> QED
    BY <1>1, <1>2, <2>1 DEF Packet, FullInv, Accounts, HeldConns
<1> HIDE DEF m, fd, c
<1>4. ServiceState[c] \in Service!Open
  BY <1>3, StateMap DEF LinkOpen, Service!Open
<1>5. ServiceOwner[m] = NoConn
  BY <1>1, <1>3, OwnerMap
<1>6. \A n \in Marks : ServiceOwner[n] # c
  <2>1. ASSUME NEW n \in Marks, ServiceOwner[n] = c PROVE FALSE
    <3>1. g_mark_to_fd[n] = fd
      BY <1>1, <2>1, OwnerUnique DEF c
    <3>2. fd # NoFd
      BY <1>3, FdsAssumption DEF NoFd
    <3> QED
      BY <1>1, <3>1, <3>2, OwnerMap
  <2> QED
    BY <2>1
<1>7. ServiceOwner' = [ServiceOwner EXCEPT ![m] = c]
  <2>1. fd # NoFd /\ g_mark_to_fd \in [Marks -> Fds \cup {NoFd}]
    BY <1>3, FdsAssumption DEF NoFd, FullInv, Inv, Core, CoreType
  <2> QED
    BY <1>1, <1>3, <2>1 DEF ServiceOwner, c
<1>8. ServiceState' = ServiceState /\ ServiceStream' = ServiceStream
  BY <1>1, BuffersSame DEF ServiceState
<1> QED
  BY <1>3, <1>4, <1>5, <1>6, <1>7, <1>8 DEF Service!Next, Service!Bind

\* flush_send_buffer changes the stream of one connection only.
LEMMA TakeMaps ==
    ASSUME FullInv, Mapped, Mapped', NEW fd \in g_connections, NEW buf, Takes(fd, buf)
    PROVE  /\ UNCHANGED <<ServiceState, ServiceOwner>>
           /\ ServiceStream[sock[fd]] = Stream(fd)
           /\ ServiceStream'[sock[fd]] = Stream(fd)'
           /\ \A d \in Conns : d # sock[fd] => ServiceStream'[d] = ServiceStream[d]
<1>1. /\ UNCHANGED <<link, sock, g_connections, g_mark_to_fd, rcvd>>
      /\ \E x : sndq' = [sndq EXCEPT ![sock[fd]] = x]
      /\ \E x : send_buf' = [send_buf EXCEPT ![fd] = x]
  BY DEF Takes
<1>2. sock[fd] \in Conns /\ fd \in Fds
  BY StreamType DEF FullInv
<1>3. UNCHANGED <<ServiceState, ServiceOwner>>
  BY <1>1, OwnersSame DEF ServiceState
<1>4. ServiceStream[sock[fd]] = Stream(fd)
  <2>1. Buffered(sock[fd]) = send_buf[fd]
    BY <1>2 DEF Mapped
  <2> QED
    BY <1>2, <2>1 DEF ServiceStream, Stream
<1>5. ServiceStream'[sock[fd]] = Stream(fd)'
  <2>1. ASSUME NEW c \in Conns, c = sock[fd] PROVE ServiceStream'[c] = Stream(fd)'
    <3>1. Buffered(c)' = send_buf'[fd]
      BY <1>1, <2>1 DEF Mapped
    <3> QED
      BY <1>1, <2>1, <3>1 DEF ServiceStream, Stream
  <2> QED
    BY <1>2, <2>1
<1>6. ASSUME NEW d \in Conns, d # sock[fd] PROVE ServiceStream'[d] = ServiceStream[d]
  <2>1. \A g \in g_connections : sock[g] = d => send_buf'[g] = send_buf[g]
    BY <1>1, <1>6 DEF FullInv, Inv, Core, CoreType
  <2>2. Buffered(d)' = Buffered(d)
    BY <1>1, <2>1, SameBuffered
  <2>3. sndq'[d] = sndq[d] /\ rcvd'[d] = rcvd[d]
    BY <1>1, <1>6 DEF FullInv, Inv, Core, CoreType
  <2> QED
    BY <2>2, <2>3, SameService
<1> QED
  BY <1>3, <1>4, <1>5, <1>6

LEMMA FlushMaps ==
    ASSUME FullInv, Mapped, Mapped', NEW fd \in g_connections, Flushes(fd)
    PROVE  UNCHANGED Service!vars
<1>1. Takes(fd, send_buf[fd])
  BY DEF Flushes
<1>2. send_buf[fd] \in Seq(Piece) /\ sock[fd] \in Conns
  BY StreamType DEF FullInv
<1>3. Stream(fd)' = Stream(fd)
  BY <1>1, <1>2, TakesStream DEF Stream, FullInv
<1>4. \A d \in Conns : ServiceStream'[d] = ServiceStream[d]
  BY <1>1, <1>2, <1>3, TakeMaps
<1> QED
  BY <1>1, <1>4, TakeMaps, StreamSame DEF Service!vars

\* The packet in hand is one its sender may send now.
LEMMA SpeakerRegistered ==
    ASSUME FullInv, ParserOwner, hbuf # <<>>, ConnRegistered
    PROVE  Service!MaySpeak(Head(hbuf).src)
<1> DEFINE s == Head(hbuf).src
<1>1. Head(hbuf) \in Packet /\ 1 \in 1..Len(hbuf) /\ Head(hbuf) = hbuf[1]
  BY HeadTailProperties, LenProperties, EmptySeq DEF FullInv, Inv, Rest
<1>2. s \in Conns
  BY <1>1 DEF Packet
<1>3. \/ cur.fd \in g_connections /\ sock[cur.fd] = s
      \/ cur.fd \notin g_connections /\ link[s] = "closed"
  BY <1>1 DEF ParserOwner
<1> HIDE DEF s
<1>4. CASE cur.fd \in g_connections /\ sock[cur.fd] = s
  <2>1. cur.fd \in registered /\ cur.fd \in Fds
    BY <1>4 DEF ConnRegistered, FullInv, Inv, Core, CoreType
  <2>2. mark[cur.fd] \in Marks /\ g_mark_to_fd[mark[cur.fd]] = cur.fd
    BY <2>1 DEF FullInv, Inv, Core, CoreType, MarkTableExact
  <2>3. ServiceOwner[mark[cur.fd]] = s
    BY <1>4, <2>2, OwnerUnique
  <2> QED
    BY <2>2, <2>3 DEF Service!MaySpeak, s
<1>5. CASE link[s] = "closed"
  <2>1. ServiceState[s] = "closed"
    BY <1>2, <1>5, StateMap
  <2> QED
    BY <2>1 DEF Service!MaySpeak, s
<1> QED
  BY <1>3, <1>4, <1>5

LEMMA ForwardMaps ==
    ASSUME FullInv, ParserOwner, Mapped, Mapped', NEW fd \in g_connections, Forwards(fd)
    PROVE  Service!Next
<1> DEFINE p == Head(hbuf)
           s == p.src
           n == p.seq
           c == sock[fd]
<1>1. /\ hbuf # <<>> /\ ConnRegistered /\ p.size = "data"
      /\ fd = g_mark_to_fd[p.mark]
      /\ Takes(fd, send_buf[fd] \o Frame(p))
  BY DEF Forwards
<1>2. p \in Packet /\ 1 \in 1..Len(hbuf) /\ p = hbuf[1]
  BY <1>1, HeadTailProperties, LenProperties, EmptySeq DEF FullInv, Inv, Rest
<1>3. s \in Conns /\ p.mark \in Marks /\ c \in Conns
  BY <1>2, StreamType DEF Packet, FullInv
<1>4. /\ n \in 1..Len(Program[s])
      /\ Program[s][n].size = "data" /\ Program[s][n].mark = p.mark
  <2>1. Genuine(p)
    BY <1>2 DEF FullInv, StreamInv, HbufOrdered
  <2> QED
    BY <1>1, <2>1 DEF Genuine
<1>5. Service!MaySpeak(s)
  BY <1>1, SpeakerRegistered
<1>6. ServiceOwner[p.mark] = c
  BY <1>1, <1>3, OwnerUnique
<1>7. /\ UNCHANGED <<ServiceState, ServiceOwner>>
      /\ ServiceStream[c] = Stream(fd)
      /\ ServiceStream'[c] = Stream(fd)'
      /\ \A d \in Conns : d # c => ServiceStream'[d] = ServiceStream[d]
  BY <1>1, TakeMaps
<1>8. \A i \in 1..Len(ServiceStream[c]) :
        ServiceStream[c][i].src = s => ServiceStream[c][i].seq < n
  BY <1>2, <1>7 DEF FullInv, StreamInv, StreamsSettled, Settled
<1>9. Stream(fd)' = Stream(fd) \o Frame(p)
  <2>1. Frame(p) \in Seq(Piece)
    BY <1>2, FrameType
  <2>2. /\ rcvd[c] \in Seq(Piece) /\ sndq[c] \in Seq(Piece) /\ send_buf[fd] \in Seq(Piece)
        /\ send_buf[fd] \o Frame(p) \in Seq(Piece)
    BY <2>1, StreamType, ConcatProperties DEF FullInv
  <2>3. Stream(fd)' = rcvd[c] \o sndq[c] \o (send_buf[fd] \o Frame(p))
    BY <1>1, <2>2, TakesStream DEF FullInv
  <2>4. Stream(fd) = Cat(Cat(rcvd[c], sndq[c]), send_buf[fd])
    BY DEF Stream, Cat
  <2>5. Stream(fd)' = Cat(Cat(rcvd[c], sndq[c]), Cat(send_buf[fd], Frame(p)))
    BY <2>3 DEF Cat
  <2>6. Cat(rcvd[c], sndq[c]) \in Seq(Piece)
    BY <2>2, ConcatProperties DEF Cat
  <2>7. Stream(fd)' = Cat(Stream(fd), Frame(p))
    <3> DEFINE x == Cat(rcvd[c], sndq[c])
               y == send_buf[fd]
               z == Frame(p)
    <3>1. x \in Seq(Piece) /\ y \in Seq(Piece) /\ z \in Seq(Piece)
      BY <2>1, <2>2, <2>6
    <3> HIDE DEF x, y, z
    <3>2. Cat(Cat(x, y), z) = Cat(x, Cat(y, z))
      BY <3>1, CatAssociative
    <3> QED
      BY <2>4, <2>5, <3>2 DEF x, y, z
  <2> QED
    BY <2>7 DEF Cat
<1>10. Frame(p) = Service!FrameOf(s, n)
  BY <1>4 DEF Frame, Service!FrameOf
<1>11. ServiceStream' = [ServiceStream EXCEPT ![c] = @ \o Service!FrameOf(s, n)]
  <2>1. ServiceStream'[c] = ServiceStream[c] \o Service!FrameOf(s, n)
    BY <1>7, <1>9, <1>10
  <2> HIDE DEF c, s, n
  <2>2. /\ ServiceStream = [d \in Conns |-> ServiceStream[d]]
        /\ ServiceStream' = [d \in Conns |-> ServiceStream'[d]]
    BY DEF ServiceStream
  <2> QED
    BY <1>3, <1>7, <2>1, <2>2
<1>12. c # NoConn
  BY <1>3, NoConnAssumption
<1> HIDE DEF s, n, c, p
<1>13. Service!Deliver(s, n)
  BY <1>3, <1>4, <1>5, <1>6, <1>7, <1>8, <1>11, <1>12 DEF Service!Deliver
<1> QED
  BY <1>3, <1>4, <1>13 DEF Service!Next

\* What is left of a stream when the relay's own buffer is lost.
LEMMA CutStream ==
    ASSUME NEW r \in Seq(Piece), NEW q \in Seq(Piece), NEW b \in Seq(Piece)
    PROVE  Service!IsPrefixOf(r \o q \o <<>>, r \o q \o b)
<1> DEFINE a == r \o q
           t == a \o b
<1>1. a \in Seq(Piece) /\ Len(a) \in Nat /\ Len(b) \in Nat
  BY ConcatProperties, LenProperties
<1> HIDE DEF a
<1>2. a \o <<>> = a
  BY <1>1, ConcatEmptySeq
<1>3. /\ t \in Seq(Piece) /\ Len(t) = Len(a) + Len(b)
      /\ \A i \in 1..Len(a) : t[i] = a[i]
  BY <1>1, ConcatProperties
<1> HIDE DEF t
<1>4. Len(a) \in 0..Len(t)
  BY <1>1, <1>3
<1>5. /\ SubSeq(t, 1, Len(a)) \in Seq(Piece) /\ Len(SubSeq(t, 1, Len(a))) = Len(a)
      /\ \A i \in 1..Len(a) : SubSeq(t, 1, Len(a))[i] = a[i]
  BY <1>3, <1>4, SplitSeq, Prefix
<1>6. a = SubSeq(t, 1, Len(a))
  BY <1>1, <1>5, SeqEqual
<1> QED
  BY <1>1, <1>2, <1>3, <1>4, <1>6 DEF Service!IsPrefixOf, a, t

\* Closing a set of connections, once the three parts of the mapping are known.
LEMMA ClosedMaps ==
    ASSUME NEW S \in SUBSET Conns, S # {}, \A c \in S : link[c] \in LinkOpen,
           \A c \in Conns : link'[c] = IF c \in S THEN "closed" ELSE link[c],
           ServiceOwner' = Service!NamesFreed(S),
           \A c \in Conns : IF c \in S
                              THEN Service!IsPrefixOf(ServiceStream'[c], ServiceStream[c])
                              ELSE ServiceStream'[c] = ServiceStream[c]
    PROVE  Service!Next
<1>1. \A c \in S : ServiceState[c] \in Service!Open
  BY StateMap DEF LinkOpen, Service!Open
<1>2. ServiceState' = [c \in Conns |-> IF c \in S THEN "closed" ELSE ServiceState[c]]
  BY DEF ServiceState
<1>3. Service!Close(S)
  BY <1>1, <1>2 DEF Service!Close
<1> QED
  BY <1>3 DEF Service!Next

LEMMA RefuseMaps ==
    ASSUME FullInv, Refuses
    PROVE  Service!Next
<1> DEFINE c == Head(backlog)
<1>1. /\ backlog # <<>> /\ link' = [link EXCEPT ![c] = "closed"]
      /\ UNCHANGED <<rcvd, sndq, sock, send_buf, g_connections, g_mark_to_fd>>
  BY DEF Refuses, RefuseAccepted, kernel, tables
<1>2. c \in Conns /\ c \in SeqSet(backlog)
  BY <1>1, HeadTailProperties, TailSet DEF FullInv, Inv, Rest, Accounts
<1>3. link[c] \in LinkOpen /\ c \notin HeldConns
  BY <1>2 DEF FullInv, Accounts
<1> HIDE DEF c
<1>4. ServiceStream' = ServiceStream /\ ServiceOwner' = ServiceOwner
  BY <1>1, BuffersSame, OwnersSame
<1>5. ServiceOwner = Service!NamesFreed({c})
  <2>1. \A m \in Marks : ServiceOwner[m] # c
    BY <1>2, <1>3, OwnerMap, NoConnAssumption DEF HeldConns
  <2>2. ServiceOwner = [m \in Marks |-> ServiceOwner[m]]
    BY DEF ServiceOwner
  <2> QED
    BY <2>1, <2>2 DEF Service!NamesFreed
<1>6. rcvd[c] = <<>> /\ sndq[c] = <<>> /\ Buffered(c) = <<>>
  <2>1. Buffered(c) = <<>>
    BY <1>3 DEF HeldConns, Buffered
  <2> QED
    BY <1>2, <2>1 DEF FullInv, StreamInv, Unwritten
<1>7. Service!IsPrefixOf(ServiceStream'[c], ServiceStream[c])
  <2>1. ServiceStream[c] = <<>> \o <<>> \o <<>>
    BY <1>2, <1>6 DEF ServiceStream
  <2>2. <<>> \in Seq(Piece)
    BY EmptySeq
  <2> QED
    BY <1>4, <2>1, <2>2, CutStream
<1>8. \A d \in Conns : link'[d] = IF d \in {c} THEN "closed" ELSE link[d]
  BY <1>1 DEF FullInv, Inv, Core, CoreType
<1> QED
  BY <1>2, <1>3, <1>4, <1>5, <1>7, <1>8, ClosedMaps

\* close_connection on a descriptor that is not held changes nothing a client
\* can see; on one that is, it closes its connection and no other.
LEMMA CloseMaps ==
    ASSUME FullInv, Mapped, Mapped', NEW g \in Fds, Closes(g)
    PROVE  [Service!Next]_(Service!vars)
<1>1. /\ g_mark_to_fd' = EraseMark(g)
      /\ g_connections' = g_connections \ {g}
      /\ send_buf' = [send_buf EXCEPT ![g] = <<>>]
      /\ sock' = [sock EXCEPT ![g] = NoConn]
      /\ link' = [c \in Conns |-> IF c = sock[g] THEN "closed" ELSE link[c]]
      /\ UNCHANGED <<rcvd, sndq>>
  BY DEF Closes, CloseConnection
<1>2. /\ g_connections \subseteq Fds
      /\ \A f \in g_connections : f # g => sock'[f] = sock[f] /\ send_buf'[f] = send_buf[f]
  BY <1>1 DEF FullInv, Inv, Core, CoreType
<1>3. ASSUME NEW d \in Conns, d # sock[g] PROVE ServiceStream'[d] = ServiceStream[d]
  <2>1. \A f \in g_connections : sock[f] = d =>
           f \in g_connections' /\ sock'[f] = d /\ send_buf'[f] = send_buf[f]
    BY <1>1, <1>2, <1>3
  <2>2. \A f \in g_connections' : sock'[f] = d => f \in g_connections /\ sock[f] = d
    BY <1>1, <1>2
  <2>3. Buffered(d)' = Buffered(d)
    BY <2>1, <2>2, SameBuffered
  <2> QED
    BY <1>1, <2>3, SameService
<1>4. CASE g \notin g_connections
  <2>1. sock[g] = NoConn /\ g \notin registered
    BY <1>4 DEF FullInv, Inv, Core, Held, MarkTableExact
  <2>2. link' = link
    <3>1. \A c \in Conns : link'[c] = link[c]
      BY <1>1, <2>1, NoConnAssumption
    <3> QED
      BY <1>1, <3>1 DEF FullInv, Inv, Core, CoreType
  <2>3. sock' = sock /\ g_mark_to_fd' = g_mark_to_fd
    BY <1>1, <2>1 DEF EraseMark, FullInv, Inv, Core, CoreType
  <2>4. \A d \in Conns : ServiceStream'[d] = ServiceStream[d]
    BY <1>3, <2>1, NoConnAssumption
  <2>5. ServiceState' = ServiceState
    BY <2>2 DEF ServiceState
  <2> QED
    BY <2>3, <2>4, <2>5, OwnersSame, StreamSame DEF Service!vars
<1>5. CASE g \in g_connections
  <2> DEFINE c == sock[g]
  <2>1. c \in Conns /\ link[c] \in LinkOpen
    <3>1. c \in Conns
      BY <1>5, StreamType DEF FullInv
    <3> QED
      BY <1>5, <3>1 DEF FullInv, Accounts, HeldConns
  <2>2. ServiceOwner' = Service!NamesFreed({c})
    <3>1. ASSUME NEW m \in Marks
          PROVE  ServiceOwner'[m] = IF ServiceOwner[m] \in {c} THEN NoConn ELSE ServiceOwner[m]
      <4>1. ServiceOwner'[m] = IF g_mark_to_fd'[m] = NoFd THEN NoConn ELSE sock'[g_mark_to_fd'[m]]
        BY DEF ServiceOwner
      <4>2. CASE g_mark_to_fd[m] = g
        <5>1. ServiceOwner[m] = c
          BY <1>5, <4>2, OwnerUnique
        <5>2. g \in registered /\ mark[g] = m
          <6>1. g # NoFd
            BY FdsAssumption DEF NoFd
          <6> QED
            BY <4>2, <6>1, OwnerMap
        <5>3. g_mark_to_fd'[m] = NoFd
          BY <1>1, <5>2 DEF EraseMark, FullInv, Inv, Core, CoreType
        <5> QED
          BY <4>1, <5>1, <5>3
      <4>3. CASE g_mark_to_fd[m] # g
        <5>1. ServiceOwner[m] # c
          BY <1>5, <4>3, OwnerUnique
        <5>2. g_mark_to_fd'[m] = g_mark_to_fd[m]
          <6>1. CASE g \in registered
            <7>1. mark[g] # m
              BY <4>3, <6>1 DEF FullInv, Inv, Core, MarkTableExact
            <7> QED
              BY <1>1, <6>1, <7>1 DEF EraseMark, FullInv, Inv, Core, CoreType
          <6> QED
            BY <1>1, <6>1 DEF EraseMark
        <5>3. CASE g_mark_to_fd[m] = NoFd
          BY <4>1, <5>1, <5>2, <5>3, OwnerMap
        <5>4. CASE g_mark_to_fd[m] # NoFd
          <6>1. /\ g_mark_to_fd[m] \in g_connections
                /\ ServiceOwner[m] = sock[g_mark_to_fd[m]]
            BY <5>4, OwnerMap
          <6>2. sock'[g_mark_to_fd[m]] = sock[g_mark_to_fd[m]]
            BY <1>2, <4>3, <6>1
          <6> QED
            BY <4>1, <5>1, <5>2, <5>4, <6>1, <6>2
        <5> QED
          BY <5>3, <5>4
      <4> QED
        BY <4>2, <4>3
    <3>2. ServiceOwner' = [m \in Marks |-> ServiceOwner'[m]]
      BY DEF ServiceOwner
    <3> QED
      BY <3>1, <3>2 DEF Service!NamesFreed
  <2>3. Service!IsPrefixOf(ServiceStream'[c], ServiceStream[c])
    <3>1. ASSUME NEW d \in Conns, d = sock[g]
          PROVE  Service!IsPrefixOf(ServiceStream'[d], ServiceStream[d])
      <4>1. \A f \in g_connections' : sock'[f] # d
        BY <1>1, <1>2, <1>5, <3>1 DEF FullInv, Accounts
      <4>2. Buffered(d)' = <<>>
        BY <4>1 DEF Mapped
      <4>3. /\ ServiceStream'[d] = rcvd[d] \o sndq[d] \o <<>>
            /\ ServiceStream[d] = rcvd[d] \o sndq[d] \o Buffered(d)
        BY <1>1, <4>2 DEF ServiceStream
      <4>4. rcvd[d] \in Seq(Piece) /\ sndq[d] \in Seq(Piece) /\ Buffered(d) \in Seq(Piece)
        BY DEF Mapped
      <4> QED
        BY <4>3, <4>4, CutStream
    <3> QED
      BY <2>1, <3>1
  <2>4. \A d \in Conns : link'[d] = IF d \in {c} THEN "closed" ELSE link[d]
    BY <1>1
  <2> HIDE DEF c
  <2>5. \A d \in Conns : d # c => ServiceStream'[d] = ServiceStream[d]
    BY <1>3 DEF c
  <2> QED
    BY <2>1, <2>2, <2>3, <2>4, <2>5, ClosedMaps
<1> QED
  BY <1>4, <1>5

\* When the process ends, all that is open is closed at once.
LEMMA EndMaps ==
    ASSUME FullInv, Mapped, NEW how, ProcessEnds(how)
    PROVE  [Service!Next]_(Service!vars)
<1> DEFINE S == {c \in Conns : link[c] \in LinkOpen}
<1>1. /\ link' = [c \in Conns |-> IF link[c] \in LinkOpen THEN "closed" ELSE link[c]]
      /\ g_connections' = {} /\ g_mark_to_fd' = [m \in Marks |-> NoFd]
      /\ UNCHANGED <<rcvd, sndq>>
  BY DEF ProcessEnds, LinkOpen
<1>2. \A c \in Conns : link'[c] = IF c \in S THEN "closed" ELSE link[c]
  BY <1>1
<1>3. ServiceOwner' = Service!NamesFreed(S)
  <2>1. ServiceOwner' = [m \in Marks |-> NoConn]
    BY <1>1 DEF ServiceOwner
  <2>2. \A m \in Marks : ServiceOwner[m] = NoConn \/ ServiceOwner[m] \in S
    BY OwnerMap
  <2> HIDE DEF S
  <2> QED
    BY <2>1, <2>2 DEF Service!NamesFreed
<1>4. ASSUME NEW c \in Conns
      PROVE  /\ Service!IsPrefixOf(ServiceStream'[c], ServiceStream[c])
             /\ c \notin S => ServiceStream'[c] = ServiceStream[c]
  <2>1. Buffered(c)' = <<>>
    BY <1>1 DEF Buffered
  <2>2. /\ ServiceStream'[c] = rcvd[c] \o sndq[c] \o <<>>
        /\ ServiceStream[c] = rcvd[c] \o sndq[c] \o Buffered(c)
    BY <1>1, <2>1 DEF ServiceStream
  <2>3. rcvd[c] \in Seq(Piece) /\ sndq[c] \in Seq(Piece) /\ Buffered(c) \in Seq(Piece)
    BY DEF Mapped
  <2>4. ASSUME c \notin S PROVE Buffered(c) = <<>>
    <3>1. \A f \in g_connections : sock[f] # c
      BY <2>4 DEF FullInv, Accounts, HeldConns
    <3> QED
      BY <3>1 DEF Mapped
  <2> QED
    BY <2>2, <2>3, <2>4, CutStream
<1>5. CASE S # {}
  <2> HIDE DEF S
  <2>1. S \in SUBSET Conns /\ \A c \in S : link[c] \in LinkOpen
    BY DEF S
  <2> QED
    BY <1>2, <1>3, <1>4, <1>5, <2>1, ClosedMaps
<1>6. CASE S = {}
  <2>1. ServiceStream' = ServiceStream
    BY <1>4, <1>6, StreamSame
  <2>2. ServiceState' = ServiceState
    BY <1>2, <1>6 DEF ServiceState
  <2>3. ServiceOwner' = ServiceOwner
    <3>1. ServiceOwner = [m \in Marks |-> ServiceOwner[m]]
      BY DEF ServiceOwner
    <3> QED
      BY <1>3, <1>6, <3>1 DEF Service!NamesFreed
  <2> QED
    BY <2>1, <2>2, <2>3 DEF Service!vars
<1> QED
  BY <1>5, <1>6

LEMMA StepMaps ==
    ASSUME MapInv, [Next]_vars
    PROVE  [Service!Next]_(Service!vars)
<1>1. FullInv /\ ParserOwner /\ Mapped /\ Mapped'
  BY MappedNext DEF MapInv
<1>2. Inv /\ Ctrl
  BY <1>1 DEF FullInv
<1>3. CASE Quiet \/ ReadData
  BY <1>3, QuietMaps
<1>4. CASE \E c \in Conns : Client(c)
  BY <1>1, <1>4, ClientMaps
<1>5. CASE \E fd \in Fds : Accepts(fd)
  BY <1>1, <1>5, AcceptMaps
<1>6. CASE Refuses \/ Register
  BY <1>1, <1>2, <1>6, RefuseMaps, RegisterMaps
<1>7. CASE \E fd \in Fds : Closes(fd)
  BY <1>1, <1>7, CloseMaps
<1>8. CASE \E fd \in g_connections : Flushes(fd) \/ Forwards(fd)
  BY <1>1, <1>8, FlushMaps, ForwardMaps
<1>9. CASE \E how : ProcessEnds(how)
  BY <1>1, <1>9, EndMaps
<1> QED
  BY <1>2, <1>3, <1>4, <1>5, <1>6, <1>7, <1>8, <1>9, StepKinds DEF StepKind

LEMMA InitMaps ==
    ASSUME Init
    PROVE  Service!Init
<1>1. ServiceState = [c \in Conns |-> "unborn"]
  BY DEF Init, ServiceState
<1>2. ServiceOwner = [m \in Marks |-> NoConn]
  BY DEF Init, ServiceOwner
<1>3. ServiceStream = [c \in Conns |-> <<>>]
  <2>1. \A c \in Conns : Buffered(c) = <<>> /\ rcvd[c] = <<>> /\ sndq[c] = <<>>
    BY DEF Init, Buffered
  <2>2. <<>> \o <<>> \o <<>> = <<>>
    BY EmptySeq, ConcatEmptySeq
  <2> QED
    BY <2>1, <2>2 DEF ServiceStream
<1> QED
  BY <1>1, <1>2, <1>3 DEF Service!Init

\* The relay is an implementation of the service: whatever main.cpp's handlers
\* do with descriptors, buffers and partial writes, and whenever clients come,
\* end or are reset, a name has one owner, a packet for it is appended whole to
\* its owner's stream in its sender's order, and closing cuts one stream only.
THEOREM RelayImplementsService == Spec => ServiceSpec
<1>1. Init => Service!Init
  BY InitMaps
<1>2. MapInv /\ [Next]_vars => [Service!Next]_(Service!vars)
  BY StepMaps
<1> QED
  BY <1>1, <1>2, MapInvariant, PTL DEF Spec, ServiceSpec, Service!Spec

=============================================================================
