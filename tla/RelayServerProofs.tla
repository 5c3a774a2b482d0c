------------------------- MODULE RelayServerProofs -------------------------
(***************************************************************************)
(* The relay's tables are right for any number of clients, descriptors,    *)
(* marks and packets.  The invariant is in two parts: Core, about the      *)
(* sockets and the tables, which the handlers change through               *)
(* close_connection, flush_send_buffer, registration and accept; and Rest, *)
(* the types of everything else.                                           *)
(***************************************************************************)
EXTENDS RelayServer, SequenceTheorems, TLAPS

CoreType ==
    /\ link \in [Conns -> {"unborn", "up", "fin", "reset", "closed"}]
    /\ inbox \in [Conns -> Seq(Packet)]
    /\ sndq \in [Conns -> Seq(Piece)]
    /\ sock \in [Fds -> Conns \cup {NoConn}]
    /\ interest \in [Fds -> {"none", "in", "inout"}]
    /\ g_connections \in SUBSET Fds
    /\ registered \in SUBSET Fds
    /\ mark \in [Fds -> Marks]
    /\ send_buf \in [Fds -> Seq(Piece)]
    /\ g_mark_to_fd \in [Marks -> Fds \cup {NoFd}]

\* The table holds exactly the open descriptors.
Held == g_connections = {fd \in Fds : sock[fd] # NoConn}

\* The kernel queues no more than its capacity.
Room == \A c \in Conns : Len(sndq[c]) <= SndCap

Core == CoreType /\ Held /\ Room /\ MarkTableExact /\ WakeupArmed

Rest ==
    /\ backlog \in Seq(Conns)
    /\ rcvd \in [Conns -> Seq(Piece)]
    /\ sent \in [Conns -> Nat]
    /\ events \in SUBSET Event
    /\ cur \in Event
    /\ hbuf \in Seq(Packet)
    /\ pc \in {"batch", "data", "write", "down", "crashed"}
    /\ g_running \in BOOLEAN

coreVars == <<link, inbox, sndq, kernel, tables>>

----------------------------------------------------------------------------
\* Sequences.

LEMMA SplitSeq ==
    ASSUME NEW S, NEW s \in Seq(S), NEW n \in 0..Len(s)
    PROVE  /\ SubSeq(s, 1, n) \in Seq(S) /\ Len(SubSeq(s, 1, n)) = n
           /\ SubSeq(s, n + 1, Len(s)) \in Seq(S)
<1>1. Len(s) \in Nat /\ \A i \in 1..Len(s) : s[i] \in S
  BY LenProperties, ElementOfSeq
<1>2. (\A i \in 1..n : s[i] \in S) /\ (\A i \in (n + 1)..Len(s) : s[i] \in S)
  BY <1>1
<1>3. SubSeq(s, 1, n) \in Seq(S)
      /\ Len(SubSeq(s, 1, n)) = IF 1 <= n THEN n - 1 + 1 ELSE 0
  BY <1>1, <1>2, SubSeqProperties
<1>4. SubSeq(s, n + 1, Len(s)) \in Seq(S)
  BY <1>1, <1>2, SubSeqProperties
<1> QED
  BY <1>1, <1>3, <1>4

\* flush_send_buffer's arithmetic: the kernel takes a prefix that fits.
LEMMA AcceptedFits ==
    ASSUME NEW c \in Conns, NEW buf \in Seq(Piece), CoreType, Room
    PROVE  /\ Accepted(c, buf) \in 0..Len(buf)
           /\ Len(sndq[c]) + Accepted(c, buf) <= SndCap
<1>1. Len(buf) \in Nat /\ Len(sndq[c]) \in Nat
  BY LenProperties DEF CoreType
<1>2. Len(sndq[c]) <= SndCap /\ SndCap \in Nat
  BY BoundsAssumption DEF Room
<1>3. \A a, b, cap \in Nat : b <= cap =>
        /\ (IF a <= cap - b THEN a ELSE cap - b) \in 0..a
        /\ b + (IF a <= cap - b THEN a ELSE cap - b) <= cap
  OBVIOUS
<1> QED
  BY <1>1, <1>2, <1>3, Zenon DEF Accepted

LEMMA FrameType ==
    ASSUME NEW p \in Packet
    PROVE  Frame(p) \in Seq(Piece)
<1>1. \A i \in 1..Pieces :
        [src |-> p.src, seq |-> p.seq, dst |-> p.mark, part |-> i] \in Piece
  BY DEF Packet, Piece
<1> QED
  BY <1>1, BoundsAssumption DEF Frame

----------------------------------------------------------------------------
\* The ways the tables change.

LEMMA CoreUnchanged == Core /\ UNCHANGED coreVars => Core'
BY DEF Core, CoreType, Held, Room, MarkTableExact, WakeupArmed, coreVars, kernel, tables

\* close_connection.
LEMMA CloseKeepsCore ==
    ASSUME Core, NEW fd \in Fds \cup {ListenFd}, CloseConnection(fd), UNCHANGED sndq
    PROVE  Core'
<1> USE FdsAssumption DEF Core, CloseConnection
<1>1. CoreType'
  <2>1. EraseMark(fd) \in [Marks -> Fds \cup {NoFd}]
    BY DEF CoreType, EraseMark
  <2>2. /\ link' \in [Conns -> {"unborn", "up", "fin", "reset", "closed"}]
        /\ inbox' \in [Conns -> Seq(Packet)]
    BY EmptySeq DEF CoreType
  <2>3. send_buf' \in [Fds -> Seq(Piece)]
    BY EmptySeq DEF CoreType
  <2> QED
    BY <2>1, <2>2, <2>3 DEF CoreType
<1>2. Held'
  BY DEF CoreType, Held
<1>3. Room'
  BY DEF Room
<1>4. MarkTableExact'
  BY DEF CoreType, MarkTableExact, EraseMark, NoFd
<1>5. WakeupArmed'
  BY DEF CoreType, WakeupArmed
<1> QED
  BY <1>1, <1>2, <1>3, <1>4, <1>5

\* flush_send_buffer.
LEMMA FlushKeepsCore ==
    ASSUME Core, NEW fd \in g_connections, NEW buf \in Seq(Piece),
           FlushSendBuffer(fd, buf)
    PROVE  Core'
<1> DEFINE c == sock[fd]
           n == Accepted(c, buf)
<1>1. fd \in Fds /\ c \in Conns
  BY DEF Core, CoreType, Held
<1>2. CASE CloseConnection(fd) /\ UNCHANGED sndq
  BY <1>1, <1>2, CloseKeepsCore
<1>3. CASE /\ sndq' = [sndq EXCEPT ![c] = @ \o SubSeq(buf, 1, n)]
           /\ send_buf' = [send_buf EXCEPT ![fd] = Unsent(buf, n)]
           /\ interest' = [interest EXCEPT ![fd] = Armed(Unsent(buf, n))]
           /\ UNCHANGED <<link, inbox, sock, g_connections, registered, mark, g_mark_to_fd>>
  <2>1. n \in 0..Len(buf) /\ Len(sndq[c]) + n <= SndCap
    BY <1>1, AcceptedFits DEF Core
  <2>2. /\ SubSeq(buf, 1, n) \in Seq(Piece) /\ Len(SubSeq(buf, 1, n)) = n
        /\ Unsent(buf, n) \in Seq(Piece)
    BY <2>1, SplitSeq DEF Unsent
  <2>3. /\ sndq[c] \o SubSeq(buf, 1, n) \in Seq(Piece)
        /\ Len(sndq[c] \o SubSeq(buf, 1, n)) = Len(sndq[c]) + n
    BY <1>1, <2>2, ConcatProperties DEF Core, CoreType
  <2> HIDE DEF n
  <2>4. CoreType'
    BY <1>1, <1>3, <2>2, <2>3 DEF Core, CoreType, Armed
  <2>5. Held'
    BY <1>3 DEF Core, Held
  <2>6. Room'
    BY <1>1, <1>3, <2>1, <2>3 DEF Core, CoreType, Room
  <2>7. MarkTableExact'
    BY <1>3 DEF Core, MarkTableExact
  <2>8. WakeupArmed'
    BY <1>1, <1>3 DEF Core, CoreType, WakeupArmed, Armed
  <2> QED
    BY <2>4, <2>5, <2>6, <2>7, <2>8 DEF Core
<1> QED
  BY <1>2, <1>3 DEF FlushSendBuffer

\* Steps that touch no table: clients, read(), refused connections.
LEMMA NetworkKeepsCore ==
    ASSUME Core, UNCHANGED <<sndq, kernel, tables>>,
           link' \in [Conns -> {"unborn", "up", "fin", "reset", "closed"}],
           inbox' \in [Conns -> Seq(Packet)]
    PROVE  Core'
BY DEF Core, CoreType, Held, Room, MarkTableExact, WakeupArmed, kernel, tables

\* A connection enters the table under a descriptor that was free: nothing is
\* left there of the connection that had it before.
LEMMA AcceptKeepsCore ==
    ASSUME Core, NEW fd \in Fds, NEW c \in Conns, sock[fd] = NoConn,
           AcceptInto(fd, c), UNCHANGED sndq
    PROVE  Core'
<1> USE DEF Core, AcceptInto
<1>1. fd \notin g_connections /\ fd \notin registered
  BY DEF Held, MarkTableExact
<1>2. CoreType'
  BY MarksAssumption, EmptySeq DEF CoreType
<1>3. Held'
  BY NoConnAssumption DEF CoreType, Held
<1>4. Room'
  BY DEF Room
<1>5. MarkTableExact'
  BY <1>1 DEF CoreType, MarkTableExact
<1>6. WakeupArmed'
  BY DEF CoreType, WakeupArmed
<1> QED
  BY <1>2, <1>3, <1>4, <1>5, <1>6

\* A registration binds a mark that nobody holds to a connection without one.
LEMMA RegisterKeepsCore ==
    ASSUME Core, Rest, Register
    PROVE  Core'
<1> DEFINE fd == cur.fd
           m == Head(hbuf).mark
<1>1. fd \in g_connections /\ fd \notin registered /\ fd \in Fds /\ fd # NoFd
  BY FdsAssumption DEF Register, ConnRegistered, Core, CoreType, NoFd
<1>2. m \in Marks /\ g_mark_to_fd[m] = NoFd
  <2>1. Head(hbuf) \in Packet
    BY HeadTailProperties DEF Register, Rest
  <2> QED
    BY <2>1 DEF Packet, Register, MarkTaken
<1>3. /\ mark' = [mark EXCEPT ![fd] = m]
      /\ registered' = registered \cup {fd}
      /\ g_mark_to_fd' = [g_mark_to_fd EXCEPT ![m] = fd]
      /\ UNCHANGED <<link, inbox, sndq, sock, interest, g_connections, send_buf>>
  BY DEF Register, kernel
<1> HIDE DEF fd, m
<1>4. CoreType'
  BY <1>1, <1>2, <1>3 DEF Core, CoreType
<1>5. Held' /\ Room' /\ WakeupArmed'
  BY <1>3 DEF Core, Held, Room, WakeupArmed
<1>6. MarkTableExact'
  <2>1. \A x \in Fds : x # NoFd
    BY FdsAssumption DEF NoFd
  <2>2. registered' \subseteq g_connections'
    BY <1>1, <1>3 DEF Core, MarkTableExact
  <2>3. ASSUME NEW k \in Marks, g_mark_to_fd'[k] # NoFd
        PROVE  g_mark_to_fd'[k] \in registered' /\ mark'[g_mark_to_fd'[k]] = k
    <3>1. CASE k = m
      BY <1>1, <1>2, <1>3, <3>1 DEF Core, CoreType
    <3>2. CASE k # m
      BY <1>1, <1>2, <1>3, <2>3, <3>2 DEF Core, CoreType, MarkTableExact
    <3> QED
      BY <3>1, <3>2
  <2>4. ASSUME NEW x \in registered'
        PROVE  g_mark_to_fd'[mark'[x]] = x
    <3>1. CASE x = fd
      BY <1>1, <1>2, <1>3, <3>1 DEF Core, CoreType
    <3>2. CASE x # fd
      BY <1>1, <1>2, <1>3, <2>1, <2>4, <3>2 DEF Core, CoreType, MarkTableExact
    <3> QED
      BY <3>1, <3>2
  <2> QED
    BY <2>2, <2>3, <2>4 DEF MarkTableExact
<1> QED
  BY <1>4, <1>5, <1>6 DEF Core

\* The end of the process leaves the tables empty.
LEMMA EndKeepsCore ==
    ASSUME Core, NEW how, ProcessEnds(how)
    PROVE  Core'
<1> USE DEF Core, ProcessEnds
<1>1. CoreType'
  BY EmptySeq DEF CoreType
<1>2. Held' /\ Room'
  BY DEF Held, Room
<1>3. MarkTableExact' /\ WakeupArmed'
  BY DEF MarkTableExact, WakeupArmed
<1> QED
  BY <1>1, <1>2, <1>3

----------------------------------------------------------------------------
\* The invariant.

Inv == Core /\ Rest

LEMMA RelayInit == Init => Inv
<1> SUFFICES ASSUME Init PROVE Inv
  OBVIOUS
<1> USE DEF Init
<1>1. CoreType
  BY MarksAssumption, EmptySeq DEF CoreType
<1>2. Held /\ Room /\ MarkTableExact /\ WakeupArmed
  BY BoundsAssumption DEF Held, Room, MarkTableExact, WakeupArmed
<1>3. Rest
  BY EmptySeq DEF Rest, NoEvent, Event
<1> QED
  BY <1>1, <1>2, <1>3 DEF Inv, Core

\* The clients' steps.
LEMMA ClientKeepsInv ==
    ASSUME Inv, NEW c \in Conns, Client(c)
    PROVE  Inv'
<1> USE DEF Inv
<1>1. CASE ClientConnect(c)
  <2>1. Core'
    BY <1>1, NetworkKeepsCore DEF ClientConnect, Core, CoreType
  <2>2. Rest'
    BY <1>1, AppendProperties DEF ClientConnect, Rest, control
  <2> QED
    BY <2>1, <2>2
<1>2. CASE ClientSend(c)
  <2> DEFINE n == sent[c] + 1
             p == [size |-> Program[c][n].size, mark |-> Program[c][n].mark,
                   src |-> c, seq |-> n]
  <2>1. n \in Nat /\ p \in Packet
    <3>0. /\ Program[c] \in Seq([size : Sizes, mark : Marks])
          /\ sent[c] \in Nat /\ sent[c] < Len(Program[c])
      BY <1>2, ProgramAssumption DEF ClientSend, Rest
    <3>1. n \in 1..Len(Program[c])
      <4>1. Len(Program[c]) \in Nat
        BY <3>0, LenProperties
      <4>2. \A a, b \in Nat : a < b => a + 1 \in 1..b
        OBVIOUS
      <4> QED
        BY <3>0, <4>1, <4>2
    <3>2. Program[c][n] \in [size : Sizes, mark : Marks]
      BY <3>0, <3>1, ElementOfSeq
    <3>3. n \in Nat
      BY <3>0
    <3> QED
      BY <3>2, <3>3 DEF Packet
  <2>2. inbox' = [inbox EXCEPT ![c] = Append(@, p)] /\ sent' = [sent EXCEPT ![c] = n]
    BY <1>2 DEF ClientSend
  <2> HIDE DEF n, p
  <2>3. inbox' \in [Conns -> Seq(Packet)]
    BY <2>1, <2>2, AppendProperties DEF Core, CoreType
  <2>4. Core'
    BY <1>2, <2>3, NetworkKeepsCore DEF ClientSend, Core, CoreType
  <2>5. Rest'
    BY <1>2, <2>1, <2>2 DEF ClientSend, Rest, control
  <2> QED
    BY <2>4, <2>5
<1>3. CASE ClientRecv(c)
  <2>1. /\ Head(sndq[c]) \in Piece /\ Tail(sndq[c]) \in Seq(Piece)
        /\ Len(Tail(sndq[c])) <= Len(sndq[c])
    BY <1>3, HeadTailProperties, LenProperties DEF ClientRecv, Core, CoreType
  <2>2. Core'
    <3>1. CoreType'
      BY <1>3, <2>1 DEF ClientRecv, Core, CoreType, kernel, tables
    <3>2. Room'
      <4>1. ASSUME NEW d \in Conns PROVE Len(sndq'[d]) <= SndCap
        <5>1. Len(sndq[c]) \in Nat /\ Len(Tail(sndq[c])) \in Nat /\ SndCap \in Nat
          BY <2>1, LenProperties, BoundsAssumption DEF Core, CoreType
        <5>2. sndq'[d] = IF d = c THEN Tail(sndq[c]) ELSE sndq[d]
          BY <1>3 DEF ClientRecv, Core, CoreType
        <5> QED
          BY <2>1, <5>1, <5>2 DEF Core, Room
      <4> QED
        BY <4>1 DEF Room
    <3>3. Held' /\ MarkTableExact' /\ WakeupArmed'
      BY <1>3 DEF ClientRecv, Core, Held, MarkTableExact, WakeupArmed, kernel, tables
    <3> QED
      BY <3>1, <3>2, <3>3 DEF Core
  <2>3. Rest'
    BY <1>3, <2>1, AppendProperties DEF ClientRecv, Rest, control
  <2> QED
    BY <2>2, <2>3
<1>4. CASE ClientFin(c) \/ ClientReset(c)
  <2>1. Core'
    BY <1>4, NetworkKeepsCore DEF ClientFin, ClientReset, Core, CoreType
  <2>2. Rest'
    BY <1>4 DEF ClientFin, ClientReset, Rest, control
  <2> QED
    BY <2>1, <2>2
<1> QED
  BY <1>1, <1>2, <1>3, <1>4 DEF Client

\* The type of the control state is kept by what follows a first handler.
LEMMA AfterHandlerType ==
    ASSUME NEW e \in Event, AfterFirstHandler(e)
    PROVE  cur' \in Event /\ pc' \in {"batch", "data", "write", "down", "crashed"}
BY DEF AfterFirstHandler, NoEvent, Event

\* The server's steps, one case per action.
LEMMA ServerKeepsCore ==
    ASSUME Inv, Server
    PROVE  Core'
<1> USE DEF Inv
<1>1. CASE EpollWait
  BY <1>1, CoreUnchanged DEF EpollWait, network, coreVars
<1>2. CASE HandleNewConnection
  <2>1. Head(backlog) \in Conns
    BY <1>2, HeadTailProperties DEF HandleNewConnection, TakeListenEvent, Rest
  <2>2. PICK fd \in Fds : sock[fd] = NoConn /\ AcceptInto(fd, Head(backlog))
    BY <1>2 DEF HandleNewConnection, LowestFree
  <2> QED
    BY <1>2, <2>1, <2>2, AcceptKeepsCore DEF HandleNewConnection, TakeListenEvent
<1>3. CASE RefuseNewConnection
  <2>1. /\ link' \in [Conns -> {"unborn", "up", "fin", "reset", "closed"}]
        /\ inbox' \in [Conns -> Seq(Packet)]
    BY <1>3, EmptySeq DEF RefuseNewConnection, RefuseAccepted, Core, CoreType
  <2> QED
    BY <1>3, <2>1, NetworkKeepsCore
       DEF RefuseNewConnection, RefuseAccepted, TakeListenEvent
<1>4. CASE CloseOnHangup
  BY <1>4, CloseKeepsCore DEF CloseOnHangup, Rest, Event
<1>5. CASE ReadData
  <2>0. PICK e \in events :
          /\ e.fd \in g_connections
          /\ \E k \in 1..Len(inbox[sock[e.fd]]) :
               inbox' = [inbox EXCEPT ![sock[e.fd]] = SubSeq(@, k + 1, Len(@))]
    BY <1>5, Zenon DEF ReadData
  <2>1. PICK k \in 1..Len(inbox[sock[e.fd]]) :
          /\ e.fd \in g_connections
          /\ inbox' = [inbox EXCEPT ![sock[e.fd]] = SubSeq(@, k + 1, Len(@))]
    BY <2>0
  <2>2. sock[e.fd] \in Conns /\ inbox[sock[e.fd]] \in Seq(Packet)
    BY <2>1 DEF Core, CoreType, Held
  <2>3. SubSeq(inbox[sock[e.fd]], k + 1, Len(inbox[sock[e.fd]])) \in Seq(Packet)
    <3>1. k \in 0..Len(inbox[sock[e.fd]])
      BY <2>1
    <3> QED
      BY <2>2, <3>1, SplitSeq, Zenon
  <2>4. inbox' \in [Conns -> Seq(Packet)]
    BY <2>1, <2>2, <2>3 DEF Core, CoreType
  <2> QED
    BY <1>5, <2>4, NetworkKeepsCore DEF ReadData, TakeDataEvent, Core, CoreType
<1>6. CASE ReadEnds
  BY <1>6, CloseKeepsCore DEF ReadEnds, TakeDataEvent, Rest, Event
<1>7. CASE ReadNothing
  BY <1>7, CoreUnchanged DEF ReadNothing, TakeDataEvent, coreVars
<1>8. CASE OnlyWritable
  BY <1>8, CoreUnchanged DEF OnlyWritable, network, coreVars
<1>9. CASE IllegalLength \/ RefuseRegistration
  BY <1>9, CloseKeepsCore DEF IllegalLength, RefuseRegistration, Rest, Event
<1>10. CASE Register
  BY <1>10, RegisterKeepsCore
<1>11. CASE DropPacket
  BY <1>11, CoreUnchanged DEF DropPacket, coreVars
<1>12. CASE Forward
  <2> DEFINE t == g_mark_to_fd[Head(hbuf).mark]
             buf == send_buf[t] \o Frame(Head(hbuf))
  <2>1. t \in g_connections /\ FlushSendBuffer(t, buf) /\ hbuf # <<>>
    BY <1>12 DEF Forward
  <2>2. Frame(Head(hbuf)) \in Seq(Piece)
    BY <2>1, HeadTailProperties, FrameType DEF Rest
  <2>3. buf \in Seq(Piece)
    BY <2>1, <2>2, ConcatProperties DEF Core, CoreType
  <2> QED
    BY <2>1, <2>3, FlushKeepsCore
<1>13. CASE DataDone
  BY <1>13, CoreUnchanged DEF DataDone, coreVars
<1>14. CASE UseAfterErase
  BY <1>14, EndKeepsCore, CoreUnchanged DEF UseAfterErase, network, coreVars
<1>15. CASE HandleClientWrite
  <2>1. CASE cur.fd \in g_connections
    <3>1. send_buf[cur.fd] \in Seq(Piece)
      BY <2>1 DEF Core, CoreType
    <3> QED
      BY <1>15, <2>1, <3>1, FlushKeepsCore DEF HandleClientWrite
  <2>2. CASE cur.fd \notin g_connections
    BY <1>15, <2>2, CloseKeepsCore DEF HandleClientWrite, Rest, Event
  <2> QED
    BY <2>1, <2>2
<1>16. CASE Cleanup
  BY <1>16, EndKeepsCore DEF Cleanup
<1> QED
  BY <1>1, <1>2, <1>3, <1>4, <1>5, <1>6, <1>7, <1>8, <1>9, <1>10, <1>11, <1>12,
     <1>13, <1>14, <1>15, <1>16 DEF Server

LEMMA ServerKeepsRest ==
    ASSUME Inv, Server
    PROVE  Rest'
<1> USE DEF Inv
<1>1. CASE EpollWait
  <2>1. Ready \subseteq Event
    <3>1. \A fd \in Fds : EventsOf(fd) \subseteq {"in", "out", "err"}
      BY DEF EventsOf
    <3>2. \A fd \in Fds : sock[fd] \in Conns \cup {NoConn}
      BY DEF Core, CoreType
    <3> QED
      BY <3>1, <3>2 DEF Ready, Polled, Event
  <2> QED
    BY <1>1, <2>1 DEF EpollWait, Rest, network
<1>2. CASE HandleNewConnection \/ RefuseNewConnection
  <2>1. Tail(backlog) \in Seq(Conns)
    BY <1>2, HeadTailProperties
       DEF HandleNewConnection, RefuseNewConnection, TakeListenEvent, Rest
  <2> QED
    BY <1>2, <2>1 DEF HandleNewConnection, RefuseNewConnection, TakeListenEvent, Rest
<1>3. CASE CloseOnHangup
  <2>1. PICK e \in events : events' = events \ {e} /\ AfterFirstHandler(e)
    BY <1>3 DEF CloseOnHangup
  <2>2. e \in Event
    BY DEF Rest
  <2> QED
    BY <1>3, <2>1, <2>2, AfterHandlerType DEF CloseOnHangup, Rest
<1>4. CASE ReadData
  <2>1. PICK e \in events, k \in Nat :
          /\ e.fd \in g_connections
          /\ events' = events \ {e} /\ cur' = e /\ pc' = "data"
          /\ k \in 1..Len(inbox[sock[e.fd]])
          /\ hbuf' = SubSeq(inbox[sock[e.fd]], 1, k)
    BY <1>4 DEF ReadData, TakeDataEvent
  <2>2. inbox[sock[e.fd]] \in Seq(Packet) /\ k \in 0..Len(inbox[sock[e.fd]])
    BY <2>1 DEF Core, CoreType, Held
  <2>3. hbuf' \in Seq(Packet)
    BY <2>1, <2>2, SplitSeq, Zenon
  <2> QED
    BY <1>4, <2>1, <2>3 DEF ReadData, TakeDataEvent, Rest
<1>5. CASE ReadEnds \/ ReadNothing
  <2>1. PICK e \in events : events' = events \ {e} /\ AfterFirstHandler(e)
    BY <1>5 DEF ReadEnds, ReadNothing, TakeDataEvent
  <2>2. e \in Event
    BY DEF Rest
  <2> QED
    BY <1>5, <2>1, <2>2, AfterHandlerType DEF ReadEnds, ReadNothing, TakeDataEvent, Rest
<1>6. CASE OnlyWritable
  BY <1>6 DEF OnlyWritable, Rest, network
<1>7. CASE IllegalLength \/ RefuseRegistration
  BY <1>7, AfterHandlerType, EmptySeq
     DEF IllegalLength, RefuseRegistration, Parsing, AbandonData, Rest
<1>8. CASE Register \/ DropPacket \/ Forward
  <2>1. hbuf # <<>> /\ hbuf' = Tail(hbuf)
    BY <1>8 DEF Register, DropPacket, Forward, Consume
  <2>2. hbuf' \in Seq(Packet)
    BY <2>1, HeadTailProperties DEF Rest
  <2> QED
    BY <1>8, <2>2 DEF Register, DropPacket, Forward, Parsing, Rest
<1>9. CASE DataDone
  BY <1>9, AfterHandlerType DEF DataDone, Parsing, Rest
<1>10. CASE UseAfterErase
  <2>1. CASE ProcessEnds("crashed")
    BY <2>1, EmptySeq DEF ProcessEnds, Rest, NoEvent, Event
  <2>2. CASE AbandonData /\ UNCHANGED <<network, kernel, tables, events, g_running>>
    BY <2>2, AfterHandlerType, EmptySeq DEF AbandonData, Rest, network
  <2> QED
    BY <1>10, <2>1, <2>2 DEF UseAfterErase
<1>11. CASE HandleClientWrite
  BY <1>11 DEF HandleClientWrite, Rest, NoEvent, Event
<1>12. CASE Cleanup
  BY <1>12, EmptySeq DEF Cleanup, ProcessEnds, Rest, NoEvent, Event
<1> QED
  BY <1>1, <1>2, <1>3, <1>4, <1>5, <1>6, <1>7, <1>8, <1>9, <1>10, <1>11, <1>12
     DEF Server

LEMMA RelayNext == Inv /\ [Next]_vars => Inv'
<1> SUFFICES ASSUME Inv, [Next]_vars PROVE Inv'
  OBVIOUS
<1>1. CASE Server
  BY <1>1, ServerKeepsCore, ServerKeepsRest DEF Inv
<1>2. CASE Signal
  <2>1. Core'
    BY <1>2, CoreUnchanged DEF Inv, Signal, network, coreVars
  <2>2. Rest'
    BY <1>2 DEF Inv, Signal, Rest, network, control
  <2> QED
    BY <2>1, <2>2 DEF Inv
<1>3. CASE \E c \in Conns : Client(c)
  BY <1>3, ClientKeepsInv
<1>4. CASE UNCHANGED vars
  <2>1. Core'
    BY <1>4, CoreUnchanged DEF Inv, vars, network, coreVars
  <2>2. Rest'
    BY <1>4 DEF Inv, Rest, vars, network, control
  <2> QED
    BY <2>1, <2>2 DEF Inv
<1> QED
  BY <1>1, <1>2, <1>3, <1>4 DEF Next

LEMMA RelayInvariant == Spec => []Inv
BY RelayInit, RelayNext, PTL DEF Spec

\* Every table of the relay always has its type.
THEOREM RelayTypeOK == Spec => []TypeOK
<1>1. Inv => TypeOK
  BY DEF Inv, Core, CoreType, Rest, TypeOK
<1> QED
  BY <1>1, RelayInvariant, PTL

\* g_mark_to_fd is always exactly the registered connections.
THEOREM RelayMarkTableExact == Spec => []MarkTableExact
<1>1. Inv => MarkTableExact
  BY DEF Inv, Core
<1> QED
  BY <1>1, RelayInvariant, PTL

\* EPOLLOUT is always asked for exactly while data waits to be written.
THEOREM RelayWakeupArmed == Spec => []WakeupArmed
<1>1. Inv => WakeupArmed
  BY DEF Inv, Core
<1> QED
  BY <1>1, RelayInvariant, PTL

=============================================================================
