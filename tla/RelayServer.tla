---------------------------- MODULE RelayServer ----------------------------
(***************************************************************************)
(* The TCP relay of server/main.cpp: one thread, one epoll instance, a     *)
(* table of connections keyed by file descriptor and a table from marks    *)
(* (8-byte client names) to descriptors.                                   *)
(*                                                                         *)
(* The environment is part of the model: clients connect, send packets,    *)
(* read, half-close and reset at any moment, also between two events of    *)
(* one epoll_wait batch and between two packets of one read.  The kernel   *)
(* hands out the lowest free descriptor, so a descriptor that one handler  *)
(* closes can name a new connection a few events later.                    *)
(*                                                                         *)
(* Data is abstracted.  A packet is a record with the class of its length  *)
(* field, a mark, and the identity of its sender.  A forwarded frame is    *)
(* Pieces pieces, the unit in which the kernel accepts a partial write.    *)
(* How bytes are cut into packets is the subject of RecvFraming.           *)
(***************************************************************************)
EXTENDS Integers, Sequences, FiniteSets

CONSTANTS
    Conns,            \* TCP connections that clients may ever open
    Fds,              \* descriptors the kernel can give to accept()
    Marks,            \* the 8-byte client names
    ZeroMark,         \* the name of eight zero bytes, a mark like any other
    NoConn,           \* no connection behind a descriptor
    MaxConnections,   \* MAX_CONNECTIONS
    Pieces,           \* pieces of one frame
    SndCap,           \* pieces the kernel queues for one socket
    Program,          \* the packets each connection's client sends, in order
    MayStop           \* whether SIGINT or SIGTERM may come

ListenFd == 0
NoFd     == -1

Sizes == {"illegal", "short", "mark", "data"}

ASSUME FdsAssumption == Fds \subseteq Nat \ {0} /\ IsFiniteSet(Fds)
ASSUME MarksAssumption == ZeroMark \in Marks
ASSUME NoConnAssumption == NoConn \notin Conns
ASSUME BoundsAssumption ==
    /\ MaxConnections \in Nat \ {0}
    /\ MaxConnections <= Cardinality(Fds)
    /\ Pieces \in Nat \ {0}
    /\ SndCap \in Nat \ {0}
    /\ MayStop \in BOOLEAN
ASSUME ProgramAssumption == Program \in [Conns -> Seq([size : Sizes, mark : Marks])]

\* A length field is "illegal" (0, above MAX_PACKET_SIZE or not fitting the
\* buffer), "short" (below MARK_SIZE), "mark" (exactly MARK_SIZE) or "data".
Packet == [size : Sizes, mark : Marks, src : Conns, seq : Nat]

Piece == [src : Conns, seq : Nat, dst : Marks, part : 1..Pieces]

VARIABLES
    \* the network
    link,             \* life of a TCP connection, as its two ends made it
    backlog,          \* connections waiting for accept()
    inbox,            \* packets the client sent and the server has not read
    sndq,             \* the kernel's send queue, read by the client
    rcvd,             \* history: what the client read
    sent,             \* packets of its program the client has sent
    \* kernel objects of the server process
    sock,             \* the connection a descriptor names
    interest,         \* its epoll registration
    \* the server's tables
    g_connections,    \* keys of the table fd -> Connection
    registered,       \* those whose Connection::registered is set
    mark,             \* Connection::mark
    send_buf,         \* Connection::send_buf
    g_mark_to_fd,     \* mark -> fd
    \* the server's control
    events,           \* events of the current batch not handled yet
    cur,              \* the event being handled
    hbuf,             \* complete packets in the recv_buf being parsed
    pc,               \* where the main loop is
    g_running         \* cleared by the signal handler

network == <<link, backlog, inbox, sndq, rcvd, sent>>
kernel  == <<sock, interest>>
tables  == <<g_connections, registered, mark, send_buf, g_mark_to_fd>>
control == <<events, cur, hbuf, pc>>
vars    == <<network, kernel, tables, control, g_running>>

Event == [fd : Fds \cup {ListenFd}, conn : Conns \cup {NoConn},
          ev : SUBSET {"in", "out", "err"}]

NoEvent == [fd |-> ListenFd, conn |-> NoConn, ev |-> {}]

\* Shape of the state: every table maps the keys the code uses it with.
TypeOK ==
    /\ link \in [Conns -> {"unborn", "up", "fin", "reset", "closed"}]
    /\ backlog \in Seq(Conns)
    /\ inbox \in [Conns -> Seq(Packet)]
    /\ sndq \in [Conns -> Seq(Piece)]
    /\ rcvd \in [Conns -> Seq(Piece)]
    /\ sent \in [Conns -> Nat]
    /\ sock \in [Fds -> Conns \cup {NoConn}]
    /\ interest \in [Fds -> {"none", "in", "inout"}]
    /\ g_connections \in SUBSET Fds
    /\ registered \in SUBSET Fds
    /\ mark \in [Fds -> Marks]
    /\ send_buf \in [Fds -> Seq(Piece)]
    /\ g_mark_to_fd \in [Marks -> Fds \cup {NoFd}]
    /\ events \in SUBSET Event
    /\ cur \in Event
    /\ hbuf \in Seq(Packet)
    /\ pc \in {"batch", "data", "write", "down", "crashed"}
    /\ g_running \in BOOLEAN

Init ==
    /\ link = [c \in Conns |-> "unborn"]
    /\ backlog = <<>>
    /\ inbox = [c \in Conns |-> <<>>]
    /\ sndq = [c \in Conns |-> <<>>]
    /\ rcvd = [c \in Conns |-> <<>>]
    /\ sent = [c \in Conns |-> 0]
    /\ sock = [fd \in Fds |-> NoConn]
    /\ interest = [fd \in Fds |-> "none"]
    /\ g_connections = {}
    /\ registered = {}
    /\ mark = [fd \in Fds |-> ZeroMark]
    /\ send_buf = [fd \in Fds |-> <<>>]
    /\ g_mark_to_fd = [m \in Marks |-> NoFd]
    /\ events = {}
    /\ cur = NoEvent
    /\ hbuf = <<>>
    /\ pc = "batch"
    /\ g_running = TRUE

----------------------------------------------------------------------------
\* Clients and the network (external to the server).

Alive == pc \notin {"down", "crashed"}

ClientConnect(c) ==
    /\ Alive
    /\ link[c] = "unborn"
    /\ link' = [link EXCEPT ![c] = "up"]
    /\ backlog' = Append(backlog, c)
    /\ UNCHANGED <<inbox, sndq, rcvd, sent, kernel, tables, control, g_running>>

ClientSend(c) ==
    /\ link[c] = "up"
    /\ sent[c] < Len(Program[c])
    /\ LET n == sent[c] + 1
           p == [size |-> Program[c][n].size, mark |-> Program[c][n].mark,
                 src |-> c, seq |-> n]
       IN  /\ inbox' = [inbox EXCEPT ![c] = Append(@, p)]
           /\ sent' = [sent EXCEPT ![c] = n]
    /\ UNCHANGED <<link, backlog, sndq, rcvd, kernel, tables, control, g_running>>

\* The client reads; data still in flight may also arrive after the server
\* closed its end.
ClientRecv(c) ==
    /\ link[c] # "reset"
    /\ sndq[c] # <<>>
    /\ rcvd' = [rcvd EXCEPT ![c] = Append(@, Head(sndq[c]))]
    /\ sndq' = [sndq EXCEPT ![c] = Tail(@)]
    /\ UNCHANGED <<link, backlog, inbox, sent, kernel, tables, control, g_running>>

\* The client shuts its sending side down: the server will read end of file.
ClientFin(c) ==
    /\ link[c] = "up"
    /\ link' = [link EXCEPT ![c] = "fin"]
    /\ UNCHANGED <<backlog, inbox, sndq, rcvd, sent, kernel, tables, control, g_running>>

\* The client aborts, crashes, or its keep-alive probes go unanswered.
ClientReset(c) ==
    /\ link[c] \in {"up", "fin"}
    /\ link' = [link EXCEPT ![c] = "reset"]
    /\ UNCHANGED <<backlog, inbox, sndq, rcvd, sent, kernel, tables, control, g_running>>

----------------------------------------------------------------------------
\* Helpers of the handlers.

\* What follows the first handler of an event: the EPOLLOUT test.
AfterFirstHandler(e) ==
    /\ pc' = IF "out" \in e.ev THEN "write" ELSE "batch"
    /\ cur' = IF "out" \in e.ev THEN e ELSE NoEvent

\* g_mark_to_fd without the mark of fd, if fd is registered.
KeepMark(fd) == g_mark_to_fd

EraseMark(fd) ==
    IF fd \in registered THEN [g_mark_to_fd EXCEPT ![mark[fd]] = NoFd]
                         ELSE g_mark_to_fd

\* close_connection: drop the table entries, leave epoll, close the socket.
\* Unread packets are lost with the socket.  The call is harmless for a
\* descriptor that is already closed.
CloseConnection(fd) ==
    /\ g_mark_to_fd' = EraseMark(fd)
    /\ g_connections' = g_connections \ {fd}
    /\ registered' = registered \ {fd}
    /\ send_buf' = [send_buf EXCEPT ![fd] = <<>>]
    /\ interest' = [interest EXCEPT ![fd] = "none"]
    /\ sock' = [sock EXCEPT ![fd] = NoConn]
    /\ link' = [c \in Conns |-> IF c = sock[fd] THEN "closed" ELSE link[c]]
    /\ inbox' = [c \in Conns |-> IF c = sock[fd] THEN <<>> ELSE inbox[c]]
    /\ UNCHANGED mark

\* The bytes appended to the target's send_buf: [length][payload].
FrameFromZero(p) ==
    [i \in 1..Pieces |-> [src |-> p.src, seq |-> p.seq, dst |-> p.mark, part |-> i - 1]]

Frame(p) ==
    [i \in 1..Pieces |-> [src |-> p.src, seq |-> p.seq, dst |-> p.mark, part |-> i]]

\* EPOLLOUT is asked for exactly when write() stopped with EAGAIN.
NeverArmed(rest) == "in"

Armed(rest) == IF rest = <<>> THEN "in" ELSE "inout"

\* What stays in send_buf after the kernel took n pieces of buf.
ForgetsPrefix(buf, n) == IF n = Len(buf) THEN <<>> ELSE buf

Unsent(buf, n) == SubSeq(buf, n + 1, Len(buf))

\* How much of buf the kernel takes before write() fails with EAGAIN.
Accepted(c, buf) ==
    IF Len(buf) <= SndCap - Len(sndq[c]) THEN Len(buf) ELSE SndCap - Len(sndq[c])

\* flush_send_buffer on a connection whose send_buf now is buf.  write()
\* fails on a reset link, and then the connection is closed.
FlushSendBuffer(fd, buf) ==
    LET c == sock[fd]
        n == Accepted(c, buf)
    IN  \/ /\ link[c] = "reset" /\ buf # <<>>
           /\ CloseConnection(fd)
           /\ UNCHANGED sndq
        \/ /\ link[c] # "reset" \/ buf = <<>>
           /\ sndq' = [sndq EXCEPT ![c] = @ \o SubSeq(buf, 1, n)]
           /\ send_buf' = [send_buf EXCEPT ![fd] = Unsent(buf, n)]
           /\ interest' = [interest EXCEPT ![fd] = Armed(Unsent(buf, n))]
           /\ UNCHANGED <<link, inbox, sock, g_connections, registered, mark,
                          g_mark_to_fd>>

----------------------------------------------------------------------------
\* The main loop: epoll_wait, then every event of the batch in some order.

EventsOf(fd) ==
    LET c == sock[fd] IN
    (IF inbox[c] # <<>> \/ link[c] \in {"fin", "reset"} THEN {"in"} ELSE {})
    \cup (IF interest[fd] = "inout" /\ (Len(sndq[c]) < SndCap \/ link[c] = "reset")
          THEN {"out"} ELSE {})
    \cup (IF link[c] = "reset" THEN {"err"} ELSE {})

Polled == {fd \in Fds : interest[fd] # "none"}

Ready ==
    {[fd |-> fd, conn |-> sock[fd], ev |-> EventsOf(fd)] :
        fd \in {f \in Polled : EventsOf(f) # {}}}
    \cup (IF backlog = <<>> THEN {}
          ELSE {[fd |-> ListenFd, conn |-> NoConn, ev |-> {"in"}]})

\* MAX_EVENTS exceeds MAX_CONNECTIONS + 1: one call returns all that is ready.
EpollWait ==
    /\ pc = "batch" /\ events = {} /\ g_running
    /\ Ready # {}
    /\ events' = Ready
    /\ UNCHANGED <<network, kernel, tables, cur, hbuf, pc, g_running>>

\* handle_new_connection: one accept() per event.  The kernel picks the
\* lowest free descriptor.
LowestFree(fd) ==
    /\ sock[fd] = NoConn
    /\ \A g \in Fds : sock[g] = NoConn => fd <= g

TableOverfull == Cardinality(g_connections) > MaxConnections

TableFull == Cardinality(g_connections) >= MaxConnections

AcceptInto(fd, c) ==
    /\ sock' = [sock EXCEPT ![fd] = c]
    /\ interest' = [interest EXCEPT ![fd] = "in"]
    /\ g_connections' = g_connections \cup {fd}
    /\ mark' = [mark EXCEPT ![fd] = ZeroMark]
    /\ send_buf' = [send_buf EXCEPT ![fd] = <<>>]
    /\ UNCHANGED <<link, inbox, registered, g_mark_to_fd>>

\* Too many connections, or set_nonblocking / epoll_ctl failed.
LeakAccepted(c) == UNCHANGED <<link, inbox, kernel, tables>>

RefuseAccepted(c) ==
    /\ link' = [link EXCEPT ![c] = "closed"]
    /\ inbox' = [inbox EXCEPT ![c] = <<>>]
    /\ UNCHANGED <<kernel, tables>>

TakeListenEvent ==
    /\ pc = "batch"
    /\ \E e \in events : e.fd = ListenFd /\ events' = events \ {e}
    /\ backlog # <<>>
    /\ backlog' = Tail(backlog)
    /\ UNCHANGED <<sndq, rcvd, sent, cur, hbuf, pc, g_running>>

HandleNewConnection ==
    /\ TakeListenEvent
    /\ ~TableFull
    /\ \E fd \in Fds : LowestFree(fd) /\ AcceptInto(fd, Head(backlog))

RefuseNewConnection ==
    /\ TakeListenEvent
    /\ RefuseAccepted(Head(backlog))

\* An event with EPOLLERR or EPOLLHUP closes whatever its descriptor names.
CloseOnHangup ==
    /\ pc = "batch"
    /\ \E e \in events :
         /\ e.fd # ListenFd /\ "err" \in e.ev
         /\ CloseConnection(e.fd)
         /\ events' = events \ {e}
         /\ AfterFirstHandler(e)
    /\ UNCHANGED <<backlog, sndq, rcvd, sent, hbuf, g_running>>

----------------------------------------------------------------------------
\* handle_client_data: look the connection up, read once, parse.

TakeDataEvent(e) ==
    /\ pc = "batch"
    /\ e \in events
    /\ e.fd # ListenFd /\ "err" \notin e.ev /\ "in" \in e.ev
    /\ events' = events \ {e}
    /\ UNCHANGED <<backlog, sndq, rcvd, sent, g_running>>

\* read() returned data that completes k packets; any k can be the outcome,
\* as the bytes arrive when they arrive.
ReadData ==
    \E e \in events :
      LET c == sock[e.fd] IN
      /\ TakeDataEvent(e)
      /\ e.fd \in g_connections
      /\ \E k \in 1..Len(inbox[c]) :
           /\ hbuf' = SubSeq(inbox[c], 1, k)
           /\ inbox' = [inbox EXCEPT ![c] = SubSeq(@, k + 1, Len(@))]
      /\ pc' = "data" /\ cur' = e
      /\ UNCHANGED <<link, kernel, tables>>

\* read() returns 0, or fails with something other than EAGAIN.
FailsOnly(c) == link[c] = "reset"

ReadClosed(c) ==
    \/ link[c] = "fin" /\ inbox[c] = <<>>
    \/ link[c] = "reset"

\* read() returned 0 or an error, or the descriptor is not in the table.
ReadEnds ==
    \E e \in events :
      LET c == sock[e.fd] IN
      /\ TakeDataEvent(e)
      /\ e.fd \in g_connections => ReadClosed(c)
      /\ CloseConnection(e.fd)
      /\ AfterFirstHandler(e)
      /\ UNCHANGED hbuf

\* read() returned EAGAIN: the event was about an earlier connection.
ReadNothing ==
    \E e \in events :
      LET c == sock[e.fd] IN
      /\ TakeDataEvent(e)
      /\ e.fd \in g_connections
      /\ inbox[c] = <<>> /\ ~ReadClosed(c)
      /\ AfterFirstHandler(e)
      /\ UNCHANGED <<link, inbox, kernel, tables, hbuf>>

\* An event with EPOLLOUT alone goes straight to the second test.
OnlyWritable ==
    /\ pc = "batch"
    /\ \E e \in events :
         /\ e.fd # ListenFd /\ e.ev = {"out"}
         /\ events' = events \ {e}
         /\ cur' = e
    /\ pc' = "write"
    /\ UNCHANGED <<network, kernel, tables, hbuf, g_running>>

----------------------------------------------------------------------------
\* The parse loop: one step per packet of recv_buf (process_packet).

Parsing ==
    /\ pc = "data"
    /\ UNCHANGED <<backlog, rcvd, sent, events, g_running>>

\* The Connection the loop holds a reference to.  Once the entry has been
\* erased under it the reference dangles, and reads the old, registered value.
ConnRegistered == cur.fd \in registered \/ cur.fd \notin g_connections

AbandonData ==
    /\ hbuf' = <<>>
    /\ AfterFirstHandler(cur)

\* Connection::consume: the processed packet leaves recv_buf.
Consume(buf) == Tail(buf)

\* Illegal length field: close.
IllegalLength ==
    /\ Parsing
    /\ hbuf # <<>> /\ Head(hbuf).size = "illegal"
    /\ CloseConnection(cur.fd)
    /\ AbandonData
    /\ UNCHANGED sndq

\* A mark that is in use cannot be registered again.
NeverTaken(m) == FALSE

MarkTaken(m) == g_mark_to_fd[m] # NoFd

Register ==
    /\ Parsing
    /\ hbuf # <<>> /\ ~ConnRegistered
    /\ Head(hbuf).size = "mark" /\ ~MarkTaken(Head(hbuf).mark)
    /\ mark' = [mark EXCEPT ![cur.fd] = Head(hbuf).mark]
    /\ registered' = registered \cup {cur.fd}
    /\ g_mark_to_fd' = [g_mark_to_fd EXCEPT ![Head(hbuf).mark] = cur.fd]
    /\ hbuf' = Consume(hbuf)
    /\ UNCHANGED <<link, inbox, sndq, kernel, g_connections, send_buf, pc, cur>>

\* Not a registration, or the mark is taken: process_packet returns false.  In
\* the second case conn.mark was overwritten before the test; the record is
\* erased at once and close_connection reads the mark of a registered one only.
RefuseRegistration ==
    /\ Parsing
    /\ hbuf # <<>> /\ ~ConnRegistered
    /\ \/ Head(hbuf).size \in {"short", "data"}
       \/ Head(hbuf).size = "mark" /\ MarkTaken(Head(hbuf).mark)
    /\ CloseConnection(cur.fd)
    /\ AbandonData
    /\ UNCHANGED sndq

\* Too short for a target, an unknown target, or nothing after the target.
DropPacket ==
    /\ Parsing
    /\ hbuf # <<>> /\ ConnRegistered
    /\ \/ Head(hbuf).size \in {"short", "mark"}
       \/ /\ Head(hbuf).size = "data"
          /\ g_mark_to_fd[Head(hbuf).mark] \notin g_connections
    /\ hbuf' = Consume(hbuf)
    /\ UNCHANGED <<link, inbox, sndq, kernel, tables, pc, cur>>

\* Append a frame to the target's send_buf and flush it at once.
Forward ==
    /\ Parsing
    /\ hbuf # <<>> /\ ConnRegistered
    /\ Head(hbuf).size = "data"
    /\ LET t == g_mark_to_fd[Head(hbuf).mark] IN
         /\ t \in g_connections
         /\ FlushSendBuffer(t, send_buf[t] \o Frame(Head(hbuf)))
    /\ hbuf' = Consume(hbuf)
    /\ UNCHANGED <<pc, cur>>

\* No complete packet is left in recv_buf.
DataDone ==
    /\ Parsing
    /\ hbuf = <<>>
    /\ AfterFirstHandler(cur)
    /\ UNCHANGED <<link, inbox, sndq, kernel, tables, hbuf>>

----------------------------------------------------------------------------
\* The second handler of an event, and the end of the process.

\* handle_client_write.
HandleClientWrite ==
    /\ pc = "write"
    /\ IF cur.fd \in g_connections
         THEN FlushSendBuffer(cur.fd, send_buf[cur.fd])
         ELSE CloseConnection(cur.fd) /\ UNCHANGED sndq
    /\ pc' = "batch" /\ cur' = NoEvent
    /\ UNCHANGED <<backlog, rcvd, sent, events, hbuf, g_running>>

\* The process is gone: the kernel closes every socket, and clients still in
\* the backlog are refused.
ProcessEnds(how) ==
    /\ link' = [c \in Conns |-> IF link[c] \in {"up", "fin", "reset"}
                                THEN "closed" ELSE link[c]]
    /\ backlog' = <<>>
    /\ inbox' = [c \in Conns |-> <<>>]
    /\ sock' = [fd \in Fds |-> NoConn]
    /\ interest' = [fd \in Fds |-> "none"]
    /\ g_connections' = {}
    /\ registered' = {}
    /\ send_buf' = [fd \in Fds |-> <<>>]
    /\ g_mark_to_fd' = [m \in Marks |-> NoFd]
    /\ events' = {}
    /\ hbuf' = <<>>
    /\ pc' = how /\ cur' = NoEvent
    /\ UNCHANGED <<sndq, rcvd, sent, mark, g_running>>

\* A frame that a client addressed to itself failed to be written: the entry
\* was erased inside process_packet and the parse loop goes on with a dangling
\* reference.  It may crash, or read a recv_len that ends the loop, or (see
\* ConnRegistered) find the old contents.
UseAfterErase ==
    /\ pc = "data" /\ cur.fd \notin g_connections
    /\ \/ ProcessEnds("crashed")
       \/ /\ AbandonData
          /\ UNCHANGED <<network, kernel, tables, events, g_running>>

\* signal_handler: seen by the loop only at its head.
Signal ==
    /\ MayStop /\ Alive /\ g_running
    /\ g_running' = FALSE
    /\ UNCHANGED <<network, kernel, tables, control>>

Cleanup ==
    /\ pc = "batch" /\ events = {} /\ ~g_running
    /\ ProcessEnds("down")

----------------------------------------------------------------------------
Server ==
    \/ EpollWait
    \/ HandleNewConnection \/ RefuseNewConnection
    \/ CloseOnHangup
    \/ ReadData \/ ReadEnds \/ ReadNothing \/ OnlyWritable
    \/ IllegalLength \/ Register \/ RefuseRegistration
    \/ DropPacket \/ Forward \/ DataDone
    \/ UseAfterErase
    \/ HandleClientWrite
    \/ Cleanup

Client(c) ==
    \/ ClientConnect(c) \/ ClientSend(c) \/ ClientRecv(c)
    \/ ClientFin(c) \/ ClientReset(c)

Next == Server \/ Signal \/ \E c \in Conns : Client(c)

Spec == Init /\ [][Next]_vars

\* The server's thread is scheduled, and a client that has something to read
\* reads it.  Nothing is assumed of any other client step or of signals.
Fairness ==
    /\ WF_vars(Server)
    /\ \A c \in Conns : WF_vars(ClientRecv(c))

FairSpec == Spec /\ Fairness

----------------------------------------------------------------------------
\* Properties.

\* g_mark_to_fd is exactly the set of registered connections: every mapped
\* descriptor is an open registered connection of that mark, and every
\* registered connection is found under its mark.  A stale entry would hand
\* one client's packets to whoever gets the descriptor next
\* (close_connection, process_packet).
MarkTableExact ==
    /\ registered \subseteq g_connections
    /\ \A m \in Marks : g_mark_to_fd[m] # NoFd =>
          /\ g_mark_to_fd[m] \in registered
          /\ mark[g_mark_to_fd[m]] = m
    /\ \A fd \in registered : g_mark_to_fd[mark[fd]] = fd

\* Tables and kernel agree, on every path out of every handler: the table
\* holds exactly the open descriptors, each of them is in epoll, no two name
\* one connection, at most MAX_CONNECTIONS are open, and a connection no side
\* has closed is held by a descriptor or waits in the backlog.
DescriptorsAccounted ==
    /\ g_connections = {fd \in Fds : sock[fd] # NoConn}
    /\ g_connections = Polled
    /\ Cardinality(g_connections) <= MaxConnections
    /\ \A fd, g \in g_connections : sock[fd] = sock[g] => fd = g
    /\ \A c \in Conns : link[c] \in {"up", "fin", "reset"} <=>
          \/ \E fd \in g_connections : sock[fd] = c
          \/ \E i \in 1..Len(backlog) : backlog[i] = c

\* No lost wake-up and no busy loop: a connection waits for EPOLLOUT exactly
\* while flush_send_buffer left data behind.
WakeupArmed ==
    \A fd \in g_connections : (interest[fd] = "inout") <=> (send_buf[fd] # <<>>)

\* All that was ever appended for the connection behind fd.
Stream(fd) == rcvd[sock[fd]] \o sndq[sock[fd]] \o send_buf[fd]

\* The byte stream to a client is a sequence of whole frames however often
\* write() took only a part: no piece is lost, repeated or mixed with another
\* frame's (flush_send_buffer, process_packet).
FramesIntact ==
    \A fd \in g_connections :
      LET s == Stream(fd) IN
      /\ Len(s) % Pieces = 0
      /\ \A i \in 1..Len(s) :
           /\ s[i].part = ((i - 1) % Pieces) + 1
           /\ s[i].part > 1 => s[i] = [s[i - 1] EXCEPT !.part = s[i].part]

\* Packets of one sender reach one receiver at most once and in the order
\* they were sent.
SenderOrder ==
    \A fd \in g_connections :
      LET s == Stream(fd) IN
      \A j \in 1..Len(s) : \A i \in 1..(j - 1) :
        s[i].src = s[j].src =>
          \/ s[i].seq < s[j].seq
          \/ s[i].seq = s[j].seq /\ s[i].part < s[j].part

\* A connection is only ever given frames addressed to the mark it registered
\* itself, whatever connections used its descriptor before.
RoutedToOwner ==
    \A fd \in g_connections :
      LET s == Stream(fd) IN
      \A i \in 1..Len(s) : fd \in registered /\ s[i].dst = mark[fd]

\* A mark stays bound to the connection that registered it until that
\* connection is closed: nobody can take it over (process_packet refuses).
MarkNotStolen ==
    [][\A m \in Marks :
         LET fd == g_mark_to_fd[m] IN
         fd \in g_connections /\ g_mark_to_fd'[m] # fd => link'[sock[fd]] = "closed"]_vars

\* A connection its client ended, properly or not, is closed by the server in
\* the end, so that its mark can be registered again.
HangupFreed ==
    \A c \in Conns : link[c] \in {"fin", "reset"} ~> link[c] = "closed"

\* Data that write() did not take is not forgotten: it is written later or its
\* connection is closed.
OutputDrained ==
    \A fd \in Fds : send_buf[fd] # <<>> ~> send_buf[fd] = <<>>

\* A client waiting in the backlog is accepted or refused, and the packets it
\* sent are read or dropped with the connection.
RequestsServed ==
    \A c \in Conns :
      /\ (\E i \in 1..Len(backlog) : backlog[i] = c)
           ~> ~(\E i \in 1..Len(backlog) : backlog[i] = c)
      /\ inbox[c] # <<>> ~> inbox[c] = <<>>

\* process_packet's return value: "true" (go on) is returned only while the
\* connection is there to go on with.
ContinueMeansOpen == pc = "data" => cur.fd \in g_connections

\* The descriptor reported with EPOLLERR/EPOLLHUP is a dead connection: the
\* handler never closes a healthy one.
HangupIsReal ==
    pc = "batch" =>
      \A e \in events :
        "err" \in e.ev /\ e.fd \in g_connections => link[sock[e.fd]] = "reset"

=============================================================================
