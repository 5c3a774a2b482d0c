------------------------- MODULE RelayStreamProofs -------------------------
(***************************************************************************)
(* Every connection is accounted for, and the stream to a client is made   *)
(* of whole frames, addressed to it, in each sender's order, for any       *)
(* number of clients, descriptors, marks, packets and pieces.              *)
(*                                                                         *)
(* The steps are first sorted by what they do to sockets, tables and       *)
(* streams (StepKinds); each part of the invariant is then preserved kind  *)
(* by kind.                                                                *)
(***************************************************************************)
EXTENDS RelayServerProofs, FiniteSetTheorems

\* The descriptor the loop works on is a client's, and only the parse loop
\* has packets in hand.
Ctrl ==
    /\ pc \in {"data", "write"} => cur.fd \in Fds
    /\ pc # "data" => hbuf = <<>>

LinkOpen == {"up", "fin", "reset"}

SeqSet(s) == {s[i] : i \in 1..Len(s)}

Distinct(s) == \A i, j \in 1..Len(s) : s[i] = s[j] => i = j

HeldConns == {sock[fd] : fd \in g_connections}

\* Polled means held, the table has room, no two descriptors and no two places
\* of the backlog name one connection, nor one of each, and what is open is
\* named by one of them.
Accounts ==
    /\ g_connections = Polled
    /\ Cardinality(g_connections) <= MaxConnections
    /\ \A f, g \in g_connections : sock[f] = sock[g] => f = g
    /\ Distinct(backlog)
    /\ HeldConns \cap SeqSet(backlog) = {}
    /\ \A c \in Conns : link[c] \in LinkOpen <=> c \in HeldConns \cup SeqSet(backlog)

\* Nothing was ever written to a connection that is not accepted yet.
Unwritten ==
    \A c \in Conns : link[c] = "unborn" \/ c \in SeqSet(backlog) =>
                       rcvd[c] = <<>> /\ sndq[c] = <<>>

\* A packet is the one of its sender's program that has its number.
Genuine(p) ==
    /\ p.seq \in 1..Len(Program[p.src])
    /\ p.size = Program[p.src][p.seq].size
    /\ p.mark = Program[p.src][p.seq].mark

InboxOrdered ==
    \A c \in Conns : \A j \in 1..Len(inbox[c]) :
      /\ Genuine(inbox[c][j])
      /\ inbox[c][j].src = c /\ inbox[c][j].seq <= sent[c]
      /\ \A i \in 1..(j - 1) : inbox[c][i].seq < inbox[c][j].seq

\* Of c, no packet numbered n or lower is still to be read or parsed.
Unread(c, n) == n <= sent[c] /\ \A j \in 1..Len(inbox[c]) : n < inbox[c][j].seq

Settled(c, n) ==
    Unread(c, n) /\ \A j \in 1..Len(hbuf) : hbuf[j].src = c => n < hbuf[j].seq

HbufOrdered ==
    \A j \in 1..Len(hbuf) :
      /\ Genuine(hbuf[j])
      /\ Unread(hbuf[j].src, hbuf[j].seq)
      /\ \A i \in 1..(j - 1) : hbuf[i].src = hbuf[j].src /\ hbuf[i].seq < hbuf[j].seq

StreamsSettled ==
    \A fd \in g_connections : \A k \in 1..Len(Stream(fd)) :
      Settled(Stream(fd)[k].src, Stream(fd)[k].seq)

StreamInv ==
    /\ Unwritten /\ InboxOrdered /\ HbufOrdered /\ StreamsSettled
    /\ RoutedToOwner /\ FramesIntact /\ SenderOrder

----------------------------------------------------------------------------
\* The kinds of steps.

\* The parse loop goes on, is not concerned, or is over.
HbufShrinks ==
    \/ hbuf' = <<>>
    \/ hbuf' = hbuf /\ UNCHANGED <<pc, cur>>
    \/ hbuf # <<>> /\ hbuf' = Tail(hbuf) /\ UNCHANGED <<pc, cur>>

Quiet ==
    /\ UNCHANGED <<network, kernel, tables>>
    /\ HbufShrinks

Accepts(fd) ==
    /\ sock[fd] = NoConn /\ ~TableFull
    /\ backlog # <<>> /\ backlog' = Tail(backlog)
    /\ AcceptInto(fd, Head(backlog))
    /\ hbuf' = <<>>
    /\ UNCHANGED <<sndq, rcvd, sent>>

Refuses ==
    /\ backlog # <<>> /\ backlog' = Tail(backlog)
    /\ RefuseAccepted(Head(backlog))
    /\ hbuf' = <<>>
    /\ UNCHANGED <<sndq, rcvd, sent>>

Closes(fd) ==
    /\ CloseConnection(fd)
    /\ HbufShrinks
    /\ UNCHANGED <<backlog, sndq, rcvd, sent>>

\* flush_send_buffer when write() does not fail.
Takes(fd, buf) ==
    LET c == sock[fd]
        n == Accepted(c, buf)
    IN  /\ sndq' = [sndq EXCEPT ![c] = @ \o SubSeq(buf, 1, n)]
        /\ send_buf' = [send_buf EXCEPT ![fd] = Unsent(buf, n)]
        /\ interest' = [interest EXCEPT ![fd] = Armed(Unsent(buf, n))]
        /\ UNCHANGED <<link, inbox, sock, g_connections, registered, mark,
                       g_mark_to_fd, backlog, rcvd, sent>>

Flushes(fd) == Takes(fd, send_buf[fd]) /\ hbuf' = <<>>

Forwards(fd) ==
    /\ hbuf # <<>> /\ hbuf' = Tail(hbuf)
    /\ UNCHANGED <<pc, cur>>
    /\ ConnRegistered /\ Head(hbuf).size = "data"
    /\ fd = g_mark_to_fd[Head(hbuf).mark]
    /\ Takes(fd, send_buf[fd] \o Frame(Head(hbuf)))

StepKind ==
    \/ Quiet
    \/ \E c \in Conns : Client(c)
    \/ \E fd \in Fds : Accepts(fd)
    \/ Refuses
    \/ \E fd \in Fds : Closes(fd)
    \/ \E fd \in g_connections : Flushes(fd)
    \/ \E fd \in g_connections : Forwards(fd)
    \/ Register
    \/ ReadData
    \/ \E how : ProcessEnds(how)

\* flush_send_buffer either writes or closes.
LEMMA FlushKinds ==
    ASSUME NEW fd \in g_connections, NEW buf, FlushSendBuffer(fd, buf),
           UNCHANGED <<backlog, rcvd, sent>>
    PROVE  \/ CloseConnection(fd) /\ UNCHANGED <<backlog, sndq, rcvd, sent>>
           \/ Takes(fd, buf)
BY DEF FlushSendBuffer, Takes

LEMMA StepKinds ==
    ASSUME Inv, Ctrl, [Next]_vars
    PROVE  StepKind
<1> USE DEF StepKind
<1>0. g_connections \subseteq Fds
  BY DEF Inv, Core, CoreType
<1>1. CASE EpollWait \/ ReadNothing \/ OnlyWritable \/ DropPacket \/ DataDone \/ Signal
  <2>1. UNCHANGED <<network, kernel, tables>>
    BY <1>1 DEF EpollWait, ReadNothing, TakeDataEvent, OnlyWritable, DropPacket,
                DataDone, Parsing, Signal, network
  <2>2. HbufShrinks
    BY <1>1 DEF EpollWait, ReadNothing, TakeDataEvent, OnlyWritable, DropPacket,
                DataDone, Signal, Consume, control, HbufShrinks, Ctrl
  <2> QED
    BY <2>1, <2>2 DEF Quiet
<1>2. CASE HandleNewConnection
  <2>1. PICK fd \in Fds : sock[fd] = NoConn /\ AcceptInto(fd, Head(backlog))
    BY <1>2 DEF HandleNewConnection, LowestFree
  <2>2. Accepts(fd)
    BY <1>2, <2>1 DEF HandleNewConnection, TakeListenEvent, Accepts, Ctrl
  <2> QED
    BY <2>2
<1>3. CASE RefuseNewConnection
  BY <1>3 DEF RefuseNewConnection, TakeListenEvent, Refuses, Ctrl
<1>4. CASE CloseOnHangup \/ ReadEnds
  <2>1. PICK e \in events : e.fd # ListenFd /\ CloseConnection(e.fd)
    BY <1>4 DEF CloseOnHangup, ReadEnds, TakeDataEvent
  <2>2. e.fd \in Fds
    BY <2>1 DEF Inv, Rest, Event
  <2>3. hbuf' = <<>> /\ UNCHANGED <<backlog, sndq, rcvd, sent>>
    BY <1>4 DEF CloseOnHangup, ReadEnds, TakeDataEvent, Ctrl
  <2> QED
    BY <2>1, <2>2, <2>3 DEF Closes, HbufShrinks
<1>5. CASE IllegalLength \/ RefuseRegistration
  <2>1. cur.fd \in Fds /\ CloseConnection(cur.fd) /\ hbuf' = <<>>
    BY <1>5 DEF IllegalLength, RefuseRegistration, Parsing, AbandonData, Ctrl
  <2>2. UNCHANGED <<backlog, sndq, rcvd, sent>>
    BY <1>5 DEF IllegalLength, RefuseRegistration, Parsing
  <2> QED
    BY <2>1, <2>2 DEF Closes, HbufShrinks
<1>6. CASE Forward
  <2> DEFINE t == g_mark_to_fd[Head(hbuf).mark]
  <2>1. /\ t \in g_connections
        /\ FlushSendBuffer(t, send_buf[t] \o Frame(Head(hbuf)))
        /\ hbuf # <<>> /\ hbuf' = Tail(hbuf) /\ UNCHANGED <<pc, cur>>
        /\ UNCHANGED <<backlog, rcvd, sent>>
    BY <1>6 DEF Forward, Parsing, Consume
  <2>2. CASE Takes(t, send_buf[t] \o Frame(Head(hbuf)))
    <3>1. Forwards(t)
      BY <1>6, <2>1, <2>2 DEF Forwards, Forward
    <3> QED
      BY <2>1, <3>1
  <2>3. CASE CloseConnection(t) /\ UNCHANGED <<backlog, sndq, rcvd, sent>>
    BY <1>0, <2>1, <2>3 DEF Closes, HbufShrinks
  <2> QED
    BY <2>1, <2>2, <2>3, FlushKinds
<1>7. CASE UseAfterErase
  BY <1>7 DEF UseAfterErase, AbandonData, Quiet, HbufShrinks
<1>8. CASE HandleClientWrite
  <2>1. cur.fd \in Fds /\ hbuf' = <<>> /\ UNCHANGED <<backlog, rcvd, sent>>
    BY <1>8 DEF HandleClientWrite, Ctrl
  <2>2. CASE CloseConnection(cur.fd) /\ UNCHANGED sndq
    BY <2>1, <2>2 DEF Closes, HbufShrinks
  <2>3. CASE cur.fd \in g_connections /\ Takes(cur.fd, send_buf[cur.fd])
    BY <2>1, <2>3 DEF Flushes
  <2> QED
    BY <1>8, <2>1, <2>2, <2>3, FlushKinds DEF HandleClientWrite
<1>9. CASE Cleanup
  BY <1>9 DEF Cleanup
<1>10. CASE UNCHANGED vars
  BY <1>10 DEF vars, control, Quiet, HbufShrinks
<1> QED
  BY <1>1, <1>2, <1>3, <1>4, <1>5, <1>6, <1>7, <1>8, <1>9, <1>10 DEF Next, Server

----------------------------------------------------------------------------
\* Connections and descriptors.

LEMMA TailSet ==
    ASSUME NEW S, NEW s \in Seq(S), s # <<>>, Distinct(s)
    PROVE  /\ Head(s) \in SeqSet(s) /\ Distinct(Tail(s))
           /\ SeqSet(Tail(s)) = SeqSet(s) \ {Head(s)}
<1> DEFINE t == Tail(s)
<1>1. Len(s) \in Nat /\ Len(s) > 0 /\ Len(t) = Len(s) - 1 /\ Head(s) = s[1]
  BY HeadTailProperties, EmptySeq, LenProperties
<1>2. \A i \in 1..Len(t) : t[i] = s[i + 1] /\ i + 1 \in 1..Len(s)
  BY <1>1, HeadTailProperties
<1>3. Distinct(t)
  BY <1>1, <1>2 DEF Distinct
<1>4. ASSUME NEW x \in SeqSet(t) PROVE x \in SeqSet(s) \ {s[1]}
  <2>1. PICK i \in 1..Len(t) : x = t[i]
    BY DEF SeqSet
  <2>2. x = s[i + 1] /\ i + 1 \in 1..Len(s) /\ i + 1 # 1 /\ 1 \in 1..Len(s)
    BY <1>1, <1>2, <2>1
  <2> QED
    BY <2>2 DEF SeqSet, Distinct
<1>5. ASSUME NEW x \in SeqSet(s), x # s[1] PROVE x \in SeqSet(t)
  <2>1. PICK i \in 1..Len(s) : x = s[i]
    BY DEF SeqSet
  <2>2. i - 1 \in 1..Len(t) /\ (i - 1) + 1 = i
    BY <1>1, <1>5, <2>1
  <2> QED
    BY <1>2, <2>1, <2>2 DEF SeqSet
<1>6. Head(s) \in SeqSet(s)
  BY <1>1 DEF SeqSet
<1> QED
  BY <1>1, <1>3, <1>4, <1>5, <1>6

LEMMA AppendSet ==
    ASSUME NEW S, NEW s \in Seq(S), NEW x \in S
    PROVE  /\ SeqSet(Append(s, x)) = SeqSet(s) \cup {x}
           /\ Distinct(s) /\ x \notin SeqSet(s) => Distinct(Append(s, x))
<1> DEFINE t == Append(s, x)
<1>1. /\ Len(s) \in Nat /\ Len(t) = Len(s) + 1
      /\ \A i \in 1..Len(s) : t[i] = s[i]
      /\ t[Len(s) + 1] = x
  BY AppendProperties, LenProperties
<1>2. \A i \in 1..Len(t) : i \in 1..Len(s) \/ i = Len(s) + 1
  BY <1>1
<1>3. \A i \in 1..Len(s) : i \in 1..Len(t)
  BY <1>1
<1>4. Len(s) + 1 \in 1..Len(t)
  BY <1>1
<1> HIDE DEF t
<1>5. SeqSet(t) = SeqSet(s) \cup {x}
  BY <1>1, <1>2, <1>3, <1>4 DEF SeqSet
<1>6. Distinct(s) /\ x \notin SeqSet(s) => Distinct(t)
  BY <1>1, <1>2 DEF SeqSet, Distinct
<1> QED
  BY <1>5, <1>6 DEF t

LEMMA CtrlKept ==
    ASSUME Inv, Ctrl, [Next]_vars
    PROVE  Ctrl'
<1>1. CASE EpollWait \/ HandleNewConnection \/ RefuseNewConnection
  BY <1>1 DEF EpollWait, HandleNewConnection, RefuseNewConnection, TakeListenEvent, Ctrl
<1>2. ASSUME NEW e \in Event, e.fd \in Fds, AfterFirstHandler(e), hbuf' = <<>>
      PROVE  Ctrl'
  BY <1>2 DEF AfterFirstHandler, Ctrl
<1>3. CASE CloseOnHangup \/ ReadEnds \/ ReadNothing
  <2>1. PICK e \in events : e.fd # ListenFd /\ AfterFirstHandler(e)
    BY <1>3 DEF CloseOnHangup, ReadEnds, ReadNothing, TakeDataEvent
  <2>2. e \in Event /\ e.fd \in Fds
    BY <2>1 DEF Inv, Rest, Event
  <2>3. hbuf' = <<>>
    BY <1>3 DEF CloseOnHangup, ReadEnds, ReadNothing, TakeDataEvent, Ctrl
  <2> QED
    BY <1>2, <2>1, <2>2, <2>3
<1>4. CASE ReadData
  <2>1. PICK e \in events : e.fd # ListenFd /\ cur' = e /\ pc' = "data"
    BY <1>4 DEF ReadData, TakeDataEvent
  <2>2. e.fd \in Fds
    BY <2>1 DEF Inv, Rest, Event
  <2> QED
    BY <2>1, <2>2 DEF Ctrl
<1>5. CASE OnlyWritable
  <2>1. PICK e \in events : e.fd # ListenFd /\ cur' = e
    BY <1>5 DEF OnlyWritable
  <2>2. e.fd \in Fds
    BY <2>1 DEF Inv, Rest, Event
  <2> QED
    BY <1>5, <2>1, <2>2 DEF OnlyWritable, Ctrl
<1>6. CASE IllegalLength \/ RefuseRegistration
  <2>1. cur \in Event /\ cur.fd \in Fds /\ AfterFirstHandler(cur) /\ hbuf' = <<>>
    BY <1>6 DEF IllegalLength, RefuseRegistration, Parsing, AbandonData, Ctrl, Inv, Rest
  <2> QED
    BY <1>2, <2>1
<1>7. CASE Register \/ DropPacket \/ Forward
  BY <1>7 DEF Register, DropPacket, Forward, Parsing, Ctrl
<1>8. CASE DataDone
  <2>1. cur \in Event /\ cur.fd \in Fds /\ AfterFirstHandler(cur) /\ hbuf' = <<>>
    BY <1>8 DEF DataDone, Parsing, Ctrl, Inv, Rest
  <2> QED
    BY <1>2, <2>1
<1>9. CASE UseAfterErase
  <2>1. CASE ProcessEnds("crashed")
    BY <2>1 DEF ProcessEnds, Ctrl
  <2>2. CASE AbandonData
    <3>1. cur \in Event /\ cur.fd \in Fds /\ AfterFirstHandler(cur) /\ hbuf' = <<>>
      BY <1>9, <2>2 DEF UseAfterErase, AbandonData, Ctrl, Inv, Rest
    <3> QED
      BY <1>2, <3>1
  <2> QED
    BY <1>9, <2>1, <2>2 DEF UseAfterErase
<1>10. CASE HandleClientWrite
  BY <1>10 DEF HandleClientWrite, Ctrl
<1>11. CASE Cleanup
  BY <1>11 DEF Cleanup, ProcessEnds, Ctrl
<1>12. CASE Signal \/ (\E c \in Conns : Client(c)) \/ UNCHANGED vars
  <2>1. UNCHANGED control
    BY <1>12 DEF Signal, Client, ClientConnect, ClientSend, ClientRecv, ClientFin,
                 ClientReset, vars
  <2> QED
    BY <2>1 DEF control, Ctrl
<1> QED
  BY <1>1, <1>3, <1>4, <1>5, <1>6, <1>7, <1>8, <1>9, <1>10, <1>11, <1>12
     DEF Next, Server

\* What Accounts depends on.
LEMMA AccountsUnchanged ==
    ASSUME Accounts, UNCHANGED <<backlog, sock, g_connections>>, Polled' = Polled,
           \A c \in Conns : link'[c] \in LinkOpen <=> link[c] \in LinkOpen
    PROVE  Accounts'
BY DEF Accounts, HeldConns, Distinct, SeqSet

LEMMA ConnectKeepsAccounts ==
    ASSUME Inv, Accounts, NEW c \in Conns, ClientConnect(c)
    PROVE  Accounts'
<1>1. /\ link[c] = "unborn" /\ link' = [link EXCEPT ![c] = "up"]
      /\ backlog' = Append(backlog, c)
      /\ UNCHANGED <<sock, interest, g_connections>>
  BY DEF ClientConnect, kernel, tables
<1>2. c \notin HeldConns /\ c \notin SeqSet(backlog)
  BY <1>1 DEF Accounts, LinkOpen
<1>3. SeqSet(backlog') = SeqSet(backlog) \cup {c} /\ Distinct(backlog')
  BY <1>1, <1>2, AppendSet DEF Inv, Rest, Accounts
<1>4. HeldConns' = HeldConns /\ Polled' = Polled
  BY <1>1 DEF HeldConns, Polled
<1>5. \A d \in Conns : link'[d] \in LinkOpen <=> d = c \/ link[d] \in LinkOpen
  BY <1>1 DEF Inv, Core, CoreType, LinkOpen
<1>6. SeqSet(backlog)' = SeqSet(backlog') /\ Distinct(backlog)' = Distinct(backlog')
  BY DEF SeqSet, Distinct
<1> QED
  BY <1>1, <1>2, <1>3, <1>4, <1>5, <1>6 DEF Accounts

LEMMA AcceptKeepsAccounts ==
    ASSUME Inv, Accounts, NEW fd \in Fds, Accepts(fd)
    PROVE  Accounts'
<1> DEFINE c == Head(backlog)
<1>1. /\ sock' = [sock EXCEPT ![fd] = c]
      /\ interest' = [interest EXCEPT ![fd] = "in"]
      /\ g_connections' = g_connections \cup {fd}
      /\ link' = link /\ backlog # <<>> /\ backlog' = Tail(backlog)
      /\ sock[fd] = NoConn /\ ~TableFull
  BY DEF Accepts, AcceptInto
<1>2. /\ c \in SeqSet(backlog) /\ Distinct(backlog')
      /\ SeqSet(backlog') = SeqSet(backlog) \ {c}
  BY <1>1, TailSet DEF Inv, Rest, Accounts
<1>3. c \in Conns /\ c \notin HeldConns
  BY <1>1, <1>2, HeadTailProperties DEF Inv, Rest, Accounts
<1> HIDE DEF c
<1>4. /\ fd \notin g_connections /\ g_connections \subseteq Fds
      /\ \A g \in g_connections : sock'[g] = sock[g]
      /\ sock'[fd] = c
  BY <1>1 DEF Inv, Core, CoreType, Held
<1>5. HeldConns' = HeldConns \cup {c}
  <2>1. \A x : x \in HeldConns' <=> \E g \in g_connections \cup {fd} : x = sock'[g]
    BY <1>1 DEF HeldConns
  <2>2. \A x : x \in HeldConns <=> \E g \in g_connections : x = sock[g]
    BY DEF HeldConns
  <2> QED
    BY <1>4, <2>1, <2>2
<1>6. g_connections' = Polled'
  BY <1>1 DEF Inv, Core, CoreType, Accounts, Polled
<1>7. Cardinality(g_connections') <= MaxConnections
  <2>1. IsFiniteSet(g_connections)
    BY <1>4, FdsAssumption, FS_Subset
  <2>2. Cardinality(g_connections') = Cardinality(g_connections) + 1
    BY <1>1, <1>4, <2>1, FS_AddElement
  <2>3. Cardinality(g_connections) \in Nat
    BY <2>1, FS_CardinalityType
  <2> QED
    BY <1>1, <2>2, <2>3, BoundsAssumption DEF TableFull
<1>8. \A f, g \in g_connections' : sock'[f] = sock'[g] => f = g
  BY <1>1, <1>3, <1>4 DEF Accounts, HeldConns
<1>9. SeqSet(backlog)' = SeqSet(backlog') /\ Distinct(backlog)' = Distinct(backlog')
  BY DEF SeqSet, Distinct
<1>10. HeldConns' \cap SeqSet(backlog') = {}
  BY <1>2, <1>5 DEF Accounts
<1>11. HeldConns' \cup SeqSet(backlog') = HeldConns \cup SeqSet(backlog)
  BY <1>2, <1>5
<1> QED
  BY <1>1, <1>2, <1>6, <1>7, <1>8, <1>9, <1>10, <1>11 DEF Accounts

LEMMA RefuseKeepsAccounts ==
    ASSUME Inv, Accounts, Refuses
    PROVE  Accounts'
<1> DEFINE c == Head(backlog)
<1>1. /\ link' = [link EXCEPT ![c] = "closed"]
      /\ backlog # <<>> /\ backlog' = Tail(backlog)
      /\ UNCHANGED <<sock, interest, g_connections>>
  BY DEF Refuses, RefuseAccepted, kernel, tables
<1>2. /\ c \in SeqSet(backlog) /\ Distinct(backlog')
      /\ SeqSet(backlog') = SeqSet(backlog) \ {c}
  BY <1>1, TailSet DEF Inv, Rest, Accounts
<1>3. c \in Conns /\ c \notin HeldConns
  BY <1>1, <1>2, HeadTailProperties DEF Inv, Rest, Accounts
<1> HIDE DEF c
<1>4. HeldConns' = HeldConns /\ Polled' = Polled
  BY <1>1 DEF HeldConns, Polled
<1>5. \A d \in Conns : link'[d] \in LinkOpen <=> d # c /\ link[d] \in LinkOpen
  BY <1>1 DEF Inv, Core, CoreType, LinkOpen
<1>6. SeqSet(backlog)' = SeqSet(backlog') /\ Distinct(backlog)' = Distinct(backlog')
  BY DEF SeqSet, Distinct
<1> QED
  BY <1>1, <1>2, <1>3, <1>4, <1>5, <1>6 DEF Accounts

LEMMA CloseKeepsAccounts ==
    ASSUME Inv, Accounts, NEW fd \in Fds, Closes(fd)
    PROVE  Accounts'
<1>1. /\ sock' = [sock EXCEPT ![fd] = NoConn]
      /\ interest' = [interest EXCEPT ![fd] = "none"]
      /\ g_connections' = g_connections \ {fd}
      /\ link' = [c \in Conns |-> IF c = sock[fd] THEN "closed" ELSE link[c]]
      /\ backlog' = backlog
  BY DEF Closes, CloseConnection
<1>2. g_connections \subseteq Fds /\ \A g \in g_connections \ {fd} : sock'[g] = sock[g]
  BY <1>1 DEF Inv, Core, CoreType
<1>3. HeldConns' = HeldConns \ {sock[fd]}
  <2>1. CASE fd \in g_connections
    BY <1>1, <1>2, <2>1 DEF HeldConns, Accounts
  <2>2. CASE fd \notin g_connections
    BY <1>1, <1>2, <2>2, NoConnAssumption DEF Inv, Core, CoreType, Held, HeldConns
  <2> QED
    BY <2>1, <2>2
<1>4. g_connections' = Polled'
  BY <1>1 DEF Inv, Core, CoreType, Accounts, Polled
<1>5. Cardinality(g_connections') <= MaxConnections
  <2>1. IsFiniteSet(g_connections)
    BY <1>2, FdsAssumption, FS_Subset
  <2>2. /\ Cardinality(g_connections') <= Cardinality(g_connections)
        /\ Cardinality(g_connections') \in Nat /\ Cardinality(g_connections) \in Nat
    BY <1>1, <2>1, FS_Subset, FS_CardinalityType
  <2> QED
    BY <2>2, BoundsAssumption DEF Accounts
<1>6. \A f, g \in g_connections' : sock'[f] = sock'[g] => f = g
  BY <1>1, <1>2 DEF Accounts
<1>7. SeqSet(backlog)' = SeqSet(backlog) /\ Distinct(backlog)' = Distinct(backlog)
  BY <1>1 DEF SeqSet, Distinct
<1>8. \A c \in Conns : link'[c] \in LinkOpen <=> c # sock[fd] /\ link[c] \in LinkOpen
  BY <1>1 DEF LinkOpen
<1>9. sock[fd] \notin SeqSet(backlog)
  <2>1. CASE fd \in g_connections
    BY <2>1 DEF Accounts, HeldConns
  <2>2. CASE fd \notin g_connections
    BY <2>2, NoConnAssumption, ElementOfSeq DEF Inv, Core, CoreType, Rest, Held, SeqSet
  <2> QED
    BY <2>1, <2>2
<1> QED
  BY <1>1, <1>3, <1>4, <1>5, <1>6, <1>7, <1>8, <1>9 DEF Accounts

LEMMA EndKeepsAccounts ==
    ASSUME Inv, NEW how, ProcessEnds(how)
    PROVE  Accounts'
<1> USE DEF ProcessEnds
<1>1. g_connections' = {} /\ HeldConns' = {} /\ Polled' = {}
  BY DEF HeldConns, Polled
<1>2. SeqSet(backlog)' = {} /\ Distinct(backlog)'
  BY DEF SeqSet, Distinct
<1>3. \A c \in Conns : link'[c] \notin LinkOpen
  BY DEF LinkOpen, Inv, Core, CoreType
<1>4. Cardinality(g_connections') <= MaxConnections
  BY <1>1, FS_EmptySet, BoundsAssumption
<1> QED
  BY <1>1, <1>2, <1>3, <1>4 DEF Accounts

\* flush_send_buffer changes the registration of a polled descriptor only.
LEMMA TakeKeepsAccounts ==
    ASSUME Inv, Accounts, NEW fd \in g_connections, NEW buf, Takes(fd, buf)
    PROVE  Accounts'
<1>1. /\ UNCHANGED <<backlog, sock, g_connections, link>>
      /\ \E i \in {"in", "inout"} : interest' = [interest EXCEPT ![fd] = i]
  BY DEF Takes, Armed
<1>2. Polled' = Polled
  BY <1>1 DEF Polled, Accounts, Inv, Core, CoreType
<1> QED
  BY <1>1, <1>2, AccountsUnchanged

LEMMA AccountsKept ==
    ASSUME Inv, Ctrl, Accounts, [Next]_vars
    PROVE  Accounts'
<1>1. CASE Quiet \/ Register \/ ReadData
  <2>1. UNCHANGED <<backlog, sock, interest, g_connections, link>>
    BY <1>1 DEF Quiet, Register, Parsing, ReadData, TakeDataEvent, network, kernel, tables
  <2>2. Polled' = Polled
    BY <2>1 DEF Polled
  <2> QED
    BY <2>1, <2>2, AccountsUnchanged
<1>2. ASSUME NEW c \in Conns, Client(c) PROVE Accounts'
  <2>1. CASE ClientConnect(c)
    BY <2>1, ConnectKeepsAccounts
  <2>2. CASE ClientSend(c) \/ ClientRecv(c) \/ ClientFin(c) \/ ClientReset(c)
    <3>1. UNCHANGED <<backlog, sock, interest, g_connections>>
      BY <2>2 DEF ClientSend, ClientRecv, ClientFin, ClientReset, kernel, tables
    <3>2. \A d \in Conns : link'[d] \in LinkOpen <=> link[d] \in LinkOpen
      BY <2>2 DEF ClientSend, ClientRecv, ClientFin, ClientReset, LinkOpen, Inv, Core,
                  CoreType
    <3>3. Polled' = Polled
      BY <3>1 DEF Polled
    <3> QED
      BY <3>1, <3>2, <3>3, AccountsUnchanged
  <2> QED
    BY <1>2, <2>1, <2>2 DEF Client
<1>3. CASE \E fd \in Fds : Accepts(fd)
  BY <1>3, AcceptKeepsAccounts
<1>4. CASE Refuses
  BY <1>4, RefuseKeepsAccounts
<1>5. CASE \E fd \in Fds : Closes(fd)
  BY <1>5, CloseKeepsAccounts
<1>6. CASE \E fd \in g_connections : Flushes(fd) \/ Forwards(fd)
  BY <1>6, TakeKeepsAccounts DEF Flushes, Forwards
<1>7. CASE \E how : ProcessEnds(how)
  BY <1>7, EndKeepsAccounts
<1> QED
  BY <1>1, <1>2, <1>3, <1>4, <1>5, <1>6, <1>7, StepKinds DEF StepKind

----------------------------------------------------------------------------
\* How a stream changes: it stays, begins empty, or grows by a frame.

\* Concatenation under a name of its own, for the provers.
Cat(s, t) == s \o t

LEMMA CatAssociative ==
    ASSUME NEW S, NEW s \in Seq(S), NEW t \in Seq(S), NEW u \in Seq(S)
    PROVE  Cat(s, t) \in Seq(S) /\ Cat(Cat(s, t), u) = Cat(s, Cat(t, u))
<1>1. s \o t \in Seq(S)
  BY ConcatProperties
<1>2. (s \o t) \o u = s \o (t \o u)
  BY ConcatAssociative, SMTT(30)
<1> QED
  BY <1>1, <1>2, Zenon DEF Cat

\* Reading moves a piece from the kernel's queue to the client.
LEMMA RecvConcat ==
    ASSUME NEW S, NEW r \in Seq(S), NEW q \in Seq(S), NEW b \in Seq(S), q # <<>>
    PROVE  Append(r, Head(q)) \o Tail(q) \o b = r \o q \o b
<1> DEFINE h == <<Head(q)>>
           t == Tail(q)
<1>1. h \in Seq(S) /\ t \in Seq(S) /\ Append(r, Head(q)) = r \o h
  BY HeadTailProperties, AppendIsConcat
<1>2. h \o t = q
  <2>1. Len(q) \in Nat /\ 1 \in 1..Len(q) /\ Len(q) \in 1..Len(q)
    BY LenProperties, EmptySeq
  <2>2. SubSeq(q, 1, Len(q)) = <<q[1]>> \o SubSeq(q, 2, Len(q))
    BY <2>1, SubSeqRecursiveFirst
  <2> QED
    BY <2>2, TailIsSubSeq, SubSeqFull
<1> HIDE DEF h, t
<1>3. Cat(Cat(r, h), t) = Cat(r, Cat(h, t))
  BY <1>1, CatAssociative
<1>4. (r \o h) \o t = r \o q
  BY <1>2, <1>3 DEF Cat
<1>5. Append(r, Head(q)) \o t = r \o q
  BY <1>1, <1>4
<1> QED
  BY <1>5 DEF t

\* write() moves a prefix of send_buf to the kernel's queue.
LEMMA TakeConcat ==
    ASSUME NEW S, NEW r \in Seq(S), NEW q \in Seq(S), NEW b \in Seq(S), NEW n \in 0..Len(b)
    PROVE  Cat(Cat(r, Cat(q, SubSeq(b, 1, n))), SubSeq(b, n + 1, Len(b))) = Cat(Cat(r, q), b)
<1> DEFINE x == SubSeq(b, 1, n)
           y == SubSeq(b, n + 1, Len(b))
<1>1. x \in Seq(S) /\ y \in Seq(S)
  BY SplitSeq
<1>2. x \o y = b
  <2>1. Len(b) \in Nat
    BY LenProperties
  <2>2. 1 \in 1..(Len(b) + 1) /\ n \in (1 - 1)..Len(b) /\ Len(b) \in n..Len(b)
    BY <2>1
  <2>3. x \o y = SubSeq(b, 1, Len(b))
    BY <2>2, ConcatAdjacentSubSeq
  <2> QED
    BY <2>3, SubSeqFull
<1> HIDE DEF x, y
<1>3. Cat(r, q) \in Seq(S) /\ Cat(r, Cat(q, x)) = Cat(Cat(r, q), x)
  BY <1>1, CatAssociative
<1>4. Cat(Cat(Cat(r, q), x), y) = Cat(Cat(r, q), Cat(x, y))
  BY <1>1, <1>3, CatAssociative
<1>5. Cat(x, y) = b
  BY <1>2 DEF Cat
<1>6. Cat(Cat(r, Cat(q, x)), y) = Cat(Cat(r, q), b)
  BY <1>3, <1>4, <1>5
<1> QED
  BY <1>6, Zenon DEF x, y

LEMMA StreamType ==
    ASSUME Inv, NEW fd \in g_connections
    PROVE  /\ sock[fd] \in Conns /\ fd \in Fds
           /\ rcvd[sock[fd]] \in Seq(Piece) /\ sndq[sock[fd]] \in Seq(Piece)
           /\ send_buf[fd] \in Seq(Piece)
           /\ Stream(fd) \in Seq(Piece)
<1>1. sock[fd] \in Conns /\ fd \in Fds
  BY DEF Inv, Core, CoreType, Held
<1>2. /\ rcvd[sock[fd]] \in Seq(Piece) /\ sndq[sock[fd]] \in Seq(Piece)
      /\ send_buf[fd] \in Seq(Piece)
  BY <1>1 DEF Inv, Core, CoreType, Rest
<1> QED
  BY <1>1, <1>2, ConcatProperties DEF Stream

LEMMA TakesStream ==
    ASSUME Inv, Accounts, NEW fd \in g_connections, NEW buf \in Seq(Piece), Takes(fd, buf)
    PROVE  /\ Stream(fd)' = rcvd[sock[fd]] \o sndq[sock[fd]] \o buf
           /\ \A g \in g_connections : g # fd => Stream(g)' = Stream(g)
<1> DEFINE c == sock[fd]
           n == Accepted(c, buf)
<1>1. /\ sndq' = [sndq EXCEPT ![c] = @ \o SubSeq(buf, 1, n)]
      /\ send_buf' = [send_buf EXCEPT ![fd] = SubSeq(buf, n + 1, Len(buf))]
      /\ rcvd' = rcvd /\ sock' = sock
  BY DEF Takes, Unsent
<1>2. /\ c \in Conns /\ fd \in Fds
      /\ rcvd[c] \in Seq(Piece) /\ sndq[c] \in Seq(Piece)
  BY StreamType
<1>3. n \in 0..Len(buf)
  BY <1>2, AcceptedFits DEF Inv, Core
<1> HIDE DEF n
<1>4. /\ sndq'[c] = sndq[c] \o SubSeq(buf, 1, n)
      /\ send_buf'[fd] = SubSeq(buf, n + 1, Len(buf))
  BY <1>1, <1>2 DEF Inv, Core, CoreType
<1>5. Stream(fd)' = rcvd[c] \o (sndq[c] \o SubSeq(buf, 1, n)) \o SubSeq(buf, n + 1, Len(buf))
  BY <1>1, <1>4 DEF Stream
<1>6. Stream(fd)' = rcvd[c] \o sndq[c] \o buf
  <2>1. Stream(fd)' = Cat(Cat(rcvd[c], Cat(sndq[c], SubSeq(buf, 1, n))),
                          SubSeq(buf, n + 1, Len(buf)))
    BY <1>5 DEF Cat
  <2>2. Stream(fd)' = Cat(Cat(rcvd[c], sndq[c]), buf)
    BY <1>2, <1>3, <2>1, TakeConcat
  <2> QED
    BY <2>2 DEF Cat
<1>7. ASSUME NEW g \in g_connections, g # fd PROVE Stream(g)' = Stream(g)
  <2>1. sock[g] # c
    BY <1>7 DEF Accounts
  <2>2. sock[g] \in Conns /\ g \in Fds
    BY StreamType
  <2>3. sndq'[sock[g]] = sndq[sock[g]] /\ send_buf'[g] = send_buf[g]
    BY <1>1, <1>7, <2>1, <2>2 DEF Inv, Core, CoreType
  <2> QED
    BY <1>1, <2>3 DEF Stream
<1> QED
  BY <1>6, <1>7

Keeps(fd) == fd \in g_connections /\ sock'[fd] = sock[fd] /\ Stream(fd)' = Stream(fd)

Starts(fd) == fd \notin g_connections /\ fd \notin registered' /\ Stream(fd)' = <<>>

Grows(fd) ==
    /\ fd \in g_connections /\ Forwards(fd)
    /\ Stream(fd)' = Stream(fd) \o Frame(Head(hbuf))

\* A step that leaves the buffers of fd alone.
LEMMA SameBuffers ==
    ASSUME NEW fd \in g_connections, sock'[fd] = sock[fd],
           rcvd'[sock[fd]] = rcvd[sock[fd]], sndq'[sock[fd]] = sndq[sock[fd]],
           send_buf'[fd] = send_buf[fd]
    PROVE  Keeps(fd)
BY DEF Keeps, Stream

LEMMA StreamSteps ==
    ASSUME Inv, Ctrl, Accounts, Unwritten, [Next]_vars, NEW fd \in g_connections'
    PROVE  Keeps(fd) \/ Starts(fd) \/ Grows(fd)
<1> USE DEF Inv, Core, CoreType
<1>1. CASE Quiet \/ Register \/ ReadData \/ Refuses
  <2>1. UNCHANGED <<rcvd, sndq, sock, send_buf, g_connections>>
    BY <1>1 DEF Quiet, Register, Parsing, ReadData, TakeDataEvent, Refuses,
                RefuseAccepted, network, kernel, tables
  <2> QED
    BY <2>1, SameBuffers
<1>2. ASSUME NEW c \in Conns, Client(c) PROVE Keeps(fd)
  <2>1. CASE ClientConnect(c) \/ ClientSend(c) \/ ClientFin(c) \/ ClientReset(c)
    <3>1. UNCHANGED <<rcvd, sndq, sock, send_buf, g_connections>>
      BY <2>1 DEF ClientConnect, ClientSend, ClientFin, ClientReset, kernel, tables
    <3> QED
      BY <3>1, SameBuffers
  <2>2. CASE ClientRecv(c)
    <3>1. /\ sndq[c] # <<>> /\ UNCHANGED <<sock, send_buf, g_connections>>
          /\ rcvd' = [rcvd EXCEPT ![c] = Append(@, Head(sndq[c]))]
          /\ sndq' = [sndq EXCEPT ![c] = Tail(@)]
      BY <2>2 DEF ClientRecv, kernel, tables
    <3>2. fd \in g_connections
      BY <3>1
    <3>3. CASE sock[fd] = c
      <4>1. rcvd'[c] = Append(rcvd[c], Head(sndq[c])) /\ sndq'[c] = Tail(sndq[c])
        BY <3>1 DEF Rest
      <4>2. Stream(fd)' = Append(rcvd[c], Head(sndq[c])) \o Tail(sndq[c]) \o send_buf[fd]
        BY <3>1, <3>3, <4>1 DEF Stream
      <4>3. Stream(fd)' = rcvd[c] \o sndq[c] \o send_buf[fd]
        <5> DEFINE r == rcvd[c]
                   q == sndq[c]
                   b == send_buf[fd]
        <5>1. r \in Seq(Piece) /\ q \in Seq(Piece) /\ b \in Seq(Piece) /\ q # <<>>
          BY <3>1, <3>2, <3>3, StreamType
        <5> HIDE DEF r, q, b
        <5>2. Append(r, Head(q)) \o Tail(q) \o b = r \o q \o b
          BY <5>1, RecvConcat
        <5> QED
          BY <4>2, <5>2 DEF r, q, b
      <4> QED
        BY <3>1, <3>2, <3>3, <4>3 DEF Keeps, Stream
    <3>4. CASE sock[fd] # c
      <4>1. rcvd'[sock[fd]] = rcvd[sock[fd]] /\ sndq'[sock[fd]] = sndq[sock[fd]]
        BY <3>1, <3>2, <3>4, StreamType DEF Rest
      <4> QED
        BY <3>1, <3>2, <4>1, SameBuffers
    <3> QED
      BY <3>3, <3>4
  <2> QED
    BY <1>2, <2>1, <2>2 DEF Client
<1>3. ASSUME NEW g \in Fds, Accepts(g) PROVE Keeps(fd) \/ Starts(fd)
  <2> DEFINE c == Head(backlog)
  <2>1. /\ sock[g] = NoConn /\ backlog # <<>>
        /\ sock' = [sock EXCEPT ![g] = c]
        /\ send_buf' = [send_buf EXCEPT ![g] = <<>>]
        /\ g_connections' = g_connections \cup {g}
        /\ UNCHANGED <<rcvd, sndq, registered>>
    BY <1>3 DEF Accepts, AcceptInto
  <2>2. c \in Conns /\ c \in SeqSet(backlog)
    BY <2>1, HeadTailProperties, TailSet DEF Rest, Accounts
  <2>3. g \notin g_connections /\ g \notin registered
    BY <2>1 DEF Held, MarkTableExact
  <2>4. CASE fd = g
    <3>1. rcvd[c] = <<>> /\ sndq[c] = <<>>
      BY <2>2 DEF Unwritten
    <3>2. sock'[fd] = c /\ send_buf'[fd] = <<>>
      BY <2>1, <2>4
    <3>3. Stream(fd)' = <<>> \o <<>> \o <<>>
      BY <2>1, <3>1, <3>2 DEF Stream
    <3>4. Stream(fd)' = <<>>
      BY <3>3, EmptySeq, ConcatEmptySeq
    <3> QED
      BY <2>1, <2>3, <2>4, <3>4 DEF Starts
  <2>5. CASE fd # g
    <3>1. fd \in g_connections /\ sock'[fd] = sock[fd] /\ send_buf'[fd] = send_buf[fd]
      BY <2>1, <2>5
    <3> QED
      BY <2>1, <3>1, SameBuffers
  <2> QED
    BY <2>4, <2>5
<1>4. ASSUME NEW g \in Fds, Closes(g) PROVE Keeps(fd)
  <2>1. /\ sock' = [sock EXCEPT ![g] = NoConn]
        /\ send_buf' = [send_buf EXCEPT ![g] = <<>>]
        /\ g_connections' = g_connections \ {g}
        /\ UNCHANGED <<rcvd, sndq>>
    BY <1>4 DEF Closes, CloseConnection
  <2>2. fd \in g_connections /\ sock'[fd] = sock[fd] /\ send_buf'[fd] = send_buf[fd]
    BY <2>1
  <2> QED
    BY <2>1, <2>2, SameBuffers
<1>5. ASSUME NEW g \in g_connections, Flushes(g) PROVE Keeps(fd)
  <2>1. UNCHANGED <<g_connections, sock>> /\ send_buf[g] \in Seq(Piece)
        /\ Takes(g, send_buf[g])
    BY <1>5 DEF Flushes, Takes
  <2>2. Stream(fd)' = Stream(fd)
    BY <2>1, TakesStream DEF Stream
  <2> QED
    BY <2>1, <2>2 DEF Keeps
<1>6. ASSUME NEW g \in g_connections, Forwards(g) PROVE Keeps(fd) \/ Grows(fd)
  <2> DEFINE f == Frame(Head(hbuf))
             buf == send_buf[g] \o f
  <2>1. UNCHANGED <<g_connections, sock>> /\ hbuf # <<>> /\ Takes(g, buf)
    BY <1>6 DEF Forwards, Takes
  <2>2. f \in Seq(Piece)
    BY <2>1, HeadTailProperties, FrameType DEF Rest
  <2> HIDE DEF f
  <2>3. buf \in Seq(Piece)
    BY <2>2, StreamType, ConcatProperties
  <2>4. CASE fd = g
    <3>1. Stream(fd)' = (rcvd[sock[fd]] \o sndq[sock[fd]]) \o (send_buf[fd] \o f)
      BY <2>1, <2>3, <2>4, TakesStream
    <3>2. rcvd[sock[fd]] \o sndq[sock[fd]] \in Seq(Piece) /\ send_buf[fd] \in Seq(Piece)
      BY <2>4, StreamType, ConcatProperties
    <3>3. Stream(fd)' = Stream(fd) \o f
      <4> DEFINE r == rcvd[sock[fd]] \o sndq[sock[fd]]
                 b == send_buf[fd]
      <4>1. r \in Seq(Piece) /\ b \in Seq(Piece)
        BY <3>2
      <4>2. Stream(fd)' = Cat(r, Cat(b, f)) /\ Stream(fd) = Cat(r, b)
        BY <3>1 DEF Stream, Cat
      <4> HIDE DEF r, b
      <4>3. Stream(fd)' = Cat(Stream(fd), f)
        BY <2>2, <4>1, <4>2, CatAssociative
      <4> QED
        BY <4>3 DEF Cat
    <3> QED
      BY <1>6, <2>4, <3>3 DEF Grows, f
  <2>5. CASE fd # g
    BY <2>1, <2>3, <2>5, TakesStream DEF Keeps
  <2> QED
    BY <2>4, <2>5
<1>7. CASE \E how : ProcessEnds(how)
  BY <1>7 DEF ProcessEnds
<1> QED
  BY <1>1, <1>2, <1>3, <1>4, <1>5, <1>6, <1>7, StepKinds DEF StepKind

----------------------------------------------------------------------------
\* Packets on their way to the parser.

\* What a step does to the packets that are sent and not parsed yet: some go,
\* one is sent, or the first k of a connection are read.
Drops ==
    /\ HbufShrinks /\ sent' = sent
    /\ \A c \in Conns : inbox'[c] \in {inbox[c], <<>>}

Reads(c, k) ==
    /\ hbuf' = SubSeq(inbox[c], 1, k)
    /\ inbox' = [inbox EXCEPT ![c] = SubSeq(@, k + 1, Len(@))]
    /\ sent' = sent

LEMMA QueueSteps ==
    ASSUME Inv, Ctrl, [Next]_vars
    PROVE  \/ Drops
           \/ \E c \in Conns : ClientSend(c)
           \/ \E c \in Conns : \E k \in 1..Len(inbox[c]) : Reads(c, k)
<1> USE DEF Inv, Core, CoreType
<1>1. CASE Quiet
  BY <1>1 DEF Quiet, network, Drops
<1>2. ASSUME NEW c \in Conns, ClientConnect(c) \/ ClientRecv(c) \/ ClientFin(c) \/ ClientReset(c)
      PROVE  Drops
  <2>1. UNCHANGED <<inbox, sent, hbuf, pc, cur>>
    BY <1>2 DEF ClientConnect, ClientRecv, ClientFin, ClientReset, control
  <2> QED
    BY <2>1 DEF Drops, HbufShrinks
<1>3. CASE (\E fd \in Fds : Accepts(fd)) \/ Refuses
  BY <1>3 DEF Accepts, AcceptInto, Refuses, RefuseAccepted, Drops, HbufShrinks
<1>4. CASE \E fd \in Fds : Closes(fd)
  BY <1>4 DEF Closes, CloseConnection, Drops
<1>5. CASE \E fd \in g_connections : Flushes(fd) \/ Forwards(fd)
  BY <1>5 DEF Flushes, Forwards, Takes, Drops, HbufShrinks
<1>6. CASE Register
  BY <1>6 DEF Register, Parsing, Consume, Drops, HbufShrinks
<1>7. CASE ReadData
  <2>1. PICK e \in events :
          /\ e.fd \in g_connections /\ sent' = sent
          /\ \E k \in 1..Len(inbox[sock[e.fd]]) :
               /\ hbuf' = SubSeq(inbox[sock[e.fd]], 1, k)
               /\ inbox' = [inbox EXCEPT ![sock[e.fd]] = SubSeq(@, k + 1, Len(@))]
    BY <1>7, Zenon DEF ReadData, TakeDataEvent
  <2>2. sock[e.fd] \in Conns
    BY <2>1 DEF Held
  <2> QED
    BY <2>1, <2>2, Zenon DEF Reads
<1>8. CASE \E how : ProcessEnds(how)
  BY <1>8 DEF ProcessEnds, Drops, HbufShrinks
<1> QED
  BY <1>1, <1>2, <1>3, <1>4, <1>5, <1>6, <1>7, <1>8, StepKinds DEF StepKind, Client

LEMMA Prefix ==
    ASSUME NEW S, NEW s \in Seq(S), NEW k \in 0..Len(s)
    PROVE  /\ Len(SubSeq(s, 1, k)) = k
           /\ \A i \in 1..k : SubSeq(s, 1, k)[i] = s[i]
<1>1. Len(s) \in Nat /\ \A i \in 1..k : s[i] \in S
  BY LenProperties, ElementOfSeq
<1>2. \A i \in 1..(k - 1 + 1) : SubSeq(s, 1, k)[i] = s[1 + i - 1]
  BY <1>1, SubSeqProperties
<1> QED
  BY <1>1, <1>2, SplitSeq

LEMMA Suffix ==
    ASSUME NEW S, NEW s \in Seq(S), NEW k \in 0..Len(s)
    PROVE  /\ Len(SubSeq(s, k + 1, Len(s))) = Len(s) - k
           /\ \A i \in 1..(Len(s) - k) : /\ SubSeq(s, k + 1, Len(s))[i] = s[k + i]
                                         /\ k + i \in 1..Len(s)
<1>1. Len(s) \in Nat /\ \A i \in (k + 1)..Len(s) : s[i] \in S
  BY LenProperties, ElementOfSeq
<1>2. /\ Len(SubSeq(s, k + 1, Len(s))) =
           IF k + 1 <= Len(s) THEN Len(s) - (k + 1) + 1 ELSE 0
      /\ \A i \in 1..(Len(s) - (k + 1) + 1) : SubSeq(s, k + 1, Len(s))[i] = s[k + 1 + i - 1]
  BY <1>1, SubSeqProperties
<1>3. \A i \in Nat : k + 1 + i - 1 = k + i
  OBVIOUS
<1> QED
  BY <1>1, <1>2, <1>3

\* The packet a client sends next, and the others in front of it.
LEMMA SendStep ==
    ASSUME Inv, NEW c \in Conns, ClientSend(c)
    PROVE  /\ sent[c] \in Nat /\ sent' = [sent EXCEPT ![c] = sent[c] + 1]
           /\ hbuf' = hbuf
           /\ \A d \in Conns : d # c => inbox'[d] = inbox[d]
           /\ Len(inbox'[c]) = Len(inbox[c]) + 1
           /\ \A i \in 1..Len(inbox[c]) : inbox'[c][i] = inbox[c][i]
           /\ LET p == inbox'[c][Len(inbox[c]) + 1]
              IN  Genuine(p) /\ p.src = c /\ p.seq = sent[c] + 1
<1> DEFINE n == sent[c] + 1
           p == [size |-> Program[c][n].size, mark |-> Program[c][n].mark,
                 src |-> c, seq |-> n]
<1>1. /\ sent[c] \in Nat /\ sent[c] < Len(Program[c])
      /\ sent' = [sent EXCEPT ![c] = n] /\ hbuf' = hbuf
      /\ inbox' = [inbox EXCEPT ![c] = Append(@, p)]
  BY DEF ClientSend, control, Inv, Rest
<1>2. n \in 1..Len(Program[c])
  <2>1. Program[c] \in Seq([size : Sizes, mark : Marks])
    BY ProgramAssumption
  <2>2. Len(Program[c]) \in Nat
    BY <2>1, LenProperties
  <2>3. \A a, b \in Nat : a < b => a + 1 \in 1..b
    OBVIOUS
  <2> QED
    BY <1>1, <2>2, <2>3
<1>3. p.src = c /\ p.seq = n /\ p.size = Program[c][n].size /\ p.mark = Program[c][n].mark
  OBVIOUS
<1>4. inbox[c] \in Seq(Packet) /\ inbox'[c] = Append(inbox[c], p)
      /\ \A d \in Conns : d # c => inbox'[d] = inbox[d]
  BY <1>1 DEF Inv, Core, CoreType
<1> HIDE DEF p
<1>5. /\ Len(inbox'[c]) = Len(inbox[c]) + 1
      /\ \A i \in 1..Len(inbox[c]) : inbox'[c][i] = inbox[c][i]
      /\ inbox'[c][Len(inbox[c]) + 1] = p
  BY <1>4
<1>6. Genuine(p)
  BY <1>2, <1>3 DEF Genuine
<1> QED
  BY <1>1, <1>3, <1>4, <1>5, <1>6

\* What a read does to the queues it moves packets between.
LEMMA ReadStep ==
    ASSUME Inv, NEW c \in Conns, NEW k \in 1..Len(inbox[c]), Reads(c, k)
    PROVE  /\ Len(hbuf') = k /\ k \in Nat /\ k <= Len(inbox[c]) /\ Len(inbox[c]) \in Nat
           /\ \A i \in 1..k : hbuf'[i] = inbox[c][i]
           /\ Len(inbox'[c]) = Len(inbox[c]) - k
           /\ \A i \in 1..(Len(inbox[c]) - k) : /\ inbox'[c][i] = inbox[c][k + i]
                                               /\ k + i \in 1..Len(inbox[c])
           /\ \A d \in Conns : d # c => inbox'[d] = inbox[d]
           /\ sent' = sent
<1> DEFINE q == inbox[c]
<1>1. q \in Seq(Packet) /\ Len(q) \in Nat
  BY LenProperties DEF Inv, Core, CoreType
<1>2. k \in 0..Len(q) /\ k \in Nat /\ k <= Len(q)
  BY <1>1
<1>3. /\ hbuf' = SubSeq(q, 1, k) /\ inbox'[c] = SubSeq(q, k + 1, Len(q))
      /\ \A d \in Conns : d # c => inbox'[d] = inbox[d]
      /\ sent' = sent
  BY DEF Reads, Inv, Core, CoreType
<1> HIDE DEF q
<1>4. Len(SubSeq(q, 1, k)) = k /\ \A i \in 1..k : SubSeq(q, 1, k)[i] = q[i]
  BY <1>1, <1>2, Prefix
<1>5. /\ Len(SubSeq(q, k + 1, Len(q))) = Len(q) - k
      /\ \A i \in 1..(Len(q) - k) : /\ SubSeq(q, k + 1, Len(q))[i] = q[k + i]
                                    /\ k + i \in 1..Len(q)
  BY <1>1, <1>2, Suffix
<1> QED
  BY <1>1, <1>2, <1>3, <1>4, <1>5 DEF q

\* The parser's buffer loses its first packet, all or nothing.
LEMMA ShrinkStep ==
    ASSUME Inv, HbufShrinks
    PROVE  \/ Len(hbuf') = 0
           \/ hbuf' = hbuf
           \/ /\ Len(hbuf) \in Nat /\ Len(hbuf') = Len(hbuf) - 1
              /\ \A i \in 1..(Len(hbuf) - 1) : /\ hbuf'[i] = hbuf[i + 1]
                                               /\ i + 1 \in 1..Len(hbuf)
<1>1. CASE hbuf # <<>> /\ hbuf' = Tail(hbuf)
  <2>1. hbuf \in Seq(Packet) /\ Len(hbuf) \in Nat
    BY LenProperties DEF Inv, Rest
  <2>2. Len(hbuf') = Len(hbuf) - 1 /\ \A i \in 1..Len(hbuf') : hbuf'[i] = hbuf[i + 1]
    BY <1>1, <2>1, HeadTailProperties
  <2>3. \A i \in 1..(Len(hbuf) - 1) : hbuf'[i] = hbuf[i + 1] /\ i + 1 \in 1..Len(hbuf)
    BY <2>1, <2>2
  <2> QED
    BY <2>1, <2>2, <2>3
<1>2. CASE hbuf' = <<>> \/ hbuf' = hbuf
  BY <1>2
<1> QED
  BY <1>1, <1>2 DEF HbufShrinks

LEMMA SeqTypes ==
    ASSUME Inv, NEW c \in Conns
    PROVE  /\ Len(inbox[c]) \in Nat /\ sent[c] \in Nat
           /\ \A j \in 1..Len(inbox[c]) : inbox[c][j].seq \in Nat
<1>1. inbox[c] \in Seq(Packet) /\ sent[c] \in Nat
  BY DEF Inv, Core, CoreType, Rest
<1>2. \A j \in 1..Len(inbox[c]) : inbox[c][j] \in Packet
  BY <1>1, ElementOfSeq
<1> QED
  BY <1>1, <1>2, LenProperties DEF Packet

LEMMA InboxOrderedKept ==
    ASSUME Inv, Ctrl, InboxOrdered, [Next]_vars
    PROVE  InboxOrdered'
<1>1. CASE Drops
  <2>1. SUFFICES ASSUME NEW d \in Conns, NEW j \in 1..Len(inbox'[d])
                 PROVE  /\ Genuine(inbox'[d][j])
                        /\ inbox'[d][j].src = d /\ inbox'[d][j].seq <= sent'[d]
                        /\ \A i \in 1..(j - 1) : inbox'[d][i].seq < inbox'[d][j].seq
    BY DEF InboxOrdered, Genuine
  <2>2. inbox'[d] = inbox[d]
    <3>1. CASE inbox'[d] = <<>>
      BY <3>1
    <3> QED
      BY <1>1, <3>1 DEF Drops
  <2> QED
    BY <1>1, <2>2 DEF Drops, InboxOrdered
<1>2. ASSUME NEW c \in Conns, ClientSend(c) PROVE InboxOrdered'
  <2>1. SUFFICES ASSUME NEW d \in Conns, NEW j \in 1..Len(inbox'[d])
                 PROVE  /\ Genuine(inbox'[d][j])
                        /\ inbox'[d][j].src = d /\ inbox'[d][j].seq <= sent'[d]
                        /\ \A i \in 1..(j - 1) : inbox'[d][i].seq < inbox'[d][j].seq
    BY DEF InboxOrdered, Genuine
  <2>2. sent \in [Conns -> Nat]
    BY DEF Inv, Rest
  <2>3. CASE d # c
    BY <1>2, <2>2, <2>3, SendStep DEF InboxOrdered
  <2>4. CASE d = c
    <3> DEFINE q == inbox[c]
               p == inbox'[c]
               m == Len(q)
    <3>1. /\ m \in Nat /\ sent[c] \in Nat /\ sent'[c] = sent[c] + 1
          /\ Len(p) = m + 1
          /\ \A i \in 1..m : p[i] = q[i]
          /\ Genuine(p[m + 1]) /\ p[m + 1].src = c /\ p[m + 1].seq = sent[c] + 1
      BY <1>2, <2>2, SendStep, SeqTypes
    <3>2. \A i \in 1..m : /\ Genuine(q[i]) /\ q[i].src = c /\ q[i].seq <= sent[c]
                          /\ q[i].seq \in Nat
                          /\ \A h \in 1..(i - 1) : q[h].seq < q[i].seq
      BY SeqTypes DEF InboxOrdered
    <3>3. j \in 1..(m + 1)
      BY <2>4, <3>1
    <3> HIDE DEF p, q, m
    <3>4. CASE j \in 1..m
      <4>1. \A i \in 1..(j - 1) : i \in 1..m
        BY <3>1, <3>4
      <4>2. p[j] = q[j] /\ \A i \in 1..(j - 1) : p[i] = q[i]
        BY <3>1, <3>4, <4>1
      <4>3. Genuine(p[j]) /\ p[j].src = c /\ p[j].seq <= sent[c] + 1
        BY <3>1, <3>2, <3>4, <4>2
      <4>4. \A i \in 1..(j - 1) : p[i].seq < p[j].seq
        BY <3>2, <3>4, <4>2
      <4> QED
        BY <2>4, <3>1, <4>3, <4>4 DEF p
    <3>5. CASE j = m + 1
      <4>1. \A i \in 1..(j - 1) : i \in 1..m
        BY <3>1, <3>5
      <4>2. Genuine(p[j]) /\ p[j].src = c /\ p[j].seq = sent[c] + 1
        BY <3>1, <3>5
      <4>3. ASSUME NEW i \in 1..(j - 1) PROVE p[i].seq < p[j].seq
        <5>1. p[i] = q[i] /\ q[i].seq <= sent[c] /\ q[i].seq \in Nat
          BY <3>1, <3>2, <4>1
        <5> QED
          BY <3>1, <4>2, <5>1
      <4>4. p[j].seq <= sent'[c]
        BY <3>1, <4>2
      <4> QED
        BY <2>4, <4>2, <4>3, <4>4 DEF p
    <3> QED
      BY <3>1, <3>3, <3>4, <3>5
  <2> QED
    BY <2>3, <2>4
<1>3. ASSUME NEW c \in Conns, NEW k \in 1..Len(inbox[c]), Reads(c, k) PROVE InboxOrdered'
  <2>1. SUFFICES ASSUME NEW d \in Conns, NEW j \in 1..Len(inbox'[d])
                 PROVE  /\ Genuine(inbox'[d][j])
                        /\ inbox'[d][j].src = d /\ inbox'[d][j].seq <= sent'[d]
                        /\ \A i \in 1..(j - 1) : inbox'[d][i].seq < inbox'[d][j].seq
    BY DEF InboxOrdered, Genuine
  <2>2. CASE d # c
    <3>1. inbox'[d] = inbox[d] /\ sent' = sent
      BY <1>3, <2>2, ReadStep
    <3> QED
      BY <3>1 DEF InboxOrdered
  <2>3. CASE d = c
    <3> DEFINE q == inbox[c]
               p == inbox'[c]
               m == Len(q)
    <3>1. /\ m \in Nat /\ k \in Nat /\ sent' = sent /\ j \in 1..(m - k)
          /\ \A i \in 1..(m - k) : p[i] = q[k + i] /\ k + i \in 1..m
      BY <1>3, <2>3, ReadStep
    <3>2. \A i \in 1..m : /\ Genuine(q[i]) /\ q[i].src = c /\ q[i].seq <= sent[c]
                          /\ \A h \in 1..(i - 1) : q[h].seq < q[i].seq
      BY DEF InboxOrdered
    <3> HIDE DEF p, q, m
    <3>3. \A i \in 1..(j - 1) : i \in 1..(m - k) /\ k + i \in 1..((k + j) - 1)
      BY <3>1
    <3>4. p[j] = q[k + j] /\ k + j \in 1..m /\ \A i \in 1..(j - 1) : p[i] = q[k + i]
      BY <3>1, <3>3
    <3>5. Genuine(p[j]) /\ p[j].src = c /\ p[j].seq <= sent[c]
      BY <3>2, <3>4
    <3>6. \A i \in 1..(j - 1) : p[i].seq < p[j].seq
      BY <3>2, <3>3, <3>4
    <3> QED
      BY <2>3, <3>1, <3>5, <3>6 DEF p
  <2> QED
    BY <2>2, <2>3
<1> QED
  BY <1>1, <1>2, <1>3, QueueSteps

\* A number that no packet to come can have stays one.
LEMMA UnreadKept ==
    ASSUME Inv, Ctrl, [Next]_vars, NEW c \in Conns, NEW n \in Nat, Unread(c, n)
    PROVE  Unread(c, n)'
<1>1. CASE Drops
  <2>1. ASSUME NEW j \in 1..Len(inbox'[c]) PROVE inbox'[c] = inbox[c]
    <3>1. CASE inbox'[c] = <<>>
      BY <3>1
    <3> QED
      BY <1>1, <3>1 DEF Drops
  <2> QED
    BY <1>1, <2>1 DEF Drops, Unread
<1>2. ASSUME NEW d \in Conns, ClientSend(d) PROVE Unread(c, n)'
  <2>0. sent \in [Conns -> Nat]
    BY DEF Inv, Rest
  <2>1. CASE c # d
    BY <1>2, <2>0, <2>1, SendStep DEF Unread
  <2>2. CASE c = d
    <3>1. /\ sent'[c] = sent[c] + 1 /\ sent[c] \in Nat /\ n <= sent[c]
          /\ Len(inbox[c]) \in Nat /\ Len(inbox'[c]) = Len(inbox[c]) + 1
      BY <1>2, <2>0, <2>2, SendStep, SeqTypes DEF Unread
    <3>2. \A j \in 1..Len(inbox[c]) : n < inbox'[c][j].seq
      BY <1>2, <2>2, SendStep DEF Unread
    <3>3. inbox'[c][Len(inbox[c]) + 1].seq = sent[c] + 1
      BY <1>2, <2>2, SendStep
    <3> QED
      BY <3>1, <3>2, <3>3 DEF Unread
  <2> QED
    BY <2>1, <2>2
<1>3. ASSUME NEW d \in Conns, NEW k \in 1..Len(inbox[d]), Reads(d, k) PROVE Unread(c, n)'
  <2>1. CASE c # d
    BY <1>3, <2>1, ReadStep DEF Unread
  <2>2. CASE c = d
    <3> DEFINE m == Len(inbox[c]) - k
    <3>1. /\ Len(inbox'[c]) = m /\ sent' = sent
          /\ \A i \in 1..m : inbox'[c][i] = inbox[c][k + i] /\ k + i \in 1..Len(inbox[c])
      BY <1>3, <2>2, ReadStep
    <3> HIDE DEF m
    <3> QED
      BY <3>1 DEF Unread
  <2> QED
    BY <2>1, <2>2
<1> QED
  BY <1>1, <1>2, <1>3, QueueSteps

LEMMA SettledKept ==
    ASSUME Inv, Ctrl, InboxOrdered, [Next]_vars, NEW c \in Conns, NEW n \in Nat, Settled(c, n)
    PROVE  Settled(c, n)'
<1>1. Unread(c, n)'
  BY UnreadKept DEF Settled
<1>2. ASSUME NEW j \in 1..Len(hbuf'), hbuf'[j].src = c
      PROVE  n < hbuf'[j].seq
  <2>1. CASE Drops
    BY <1>2, <2>1, ShrinkStep DEF Drops, Settled
  <2>2. ASSUME NEW d \in Conns, ClientSend(d) PROVE n < hbuf'[j].seq
    BY <1>2, <2>2, SendStep DEF Settled
  <2>3. ASSUME NEW d \in Conns, NEW k \in 1..Len(inbox[d]), Reads(d, k)
        PROVE  n < hbuf'[j].seq
    <3>1. j \in 1..Len(inbox[d]) /\ hbuf'[j] = inbox[d][j]
      BY <2>3, ReadStep
    <3> QED
      BY <1>2, <3>1 DEF InboxOrdered, Settled, Unread
  <2> QED
    BY <2>1, <2>2, <2>3, QueueSteps
<1> QED
  BY <1>1, <1>2 DEF Settled

LEMMA HbufOrderedKept ==
    ASSUME Inv, Ctrl, InboxOrdered, HbufOrdered, [Next]_vars
    PROVE  HbufOrdered'
<1>0. /\ \A j \in 1..Len(hbuf) : hbuf[j].src \in Conns /\ hbuf[j].seq \in Nat
      /\ Len(hbuf) \in Nat
  <2>1. \A j \in 1..Len(hbuf) : hbuf[j] \in Packet
    BY ElementOfSeq DEF Inv, Rest
  <2> QED
    BY <2>1, LenProperties DEF Packet, Inv, Rest
<1>1. \A j \in 1..Len(hbuf) : Unread(hbuf[j].src, hbuf[j].seq)
  BY DEF HbufOrdered
<1>2. \A j \in 1..Len(hbuf) :
        LET c == hbuf[j].src
            n == hbuf[j].seq
        IN  n <= sent'[c] /\ \A i \in 1..Len(inbox'[c]) : n < inbox'[c][i].seq
  BY <1>0, <1>1, UnreadKept DEF Unread
<1>3. SUFFICES ASSUME NEW j \in 1..Len(hbuf')
               PROVE  /\ Genuine(hbuf'[j])
                      /\ hbuf'[j].seq <= sent'[hbuf'[j].src]
                      /\ \A i \in 1..Len(inbox'[hbuf'[j].src]) :
                           hbuf'[j].seq < inbox'[hbuf'[j].src][i].seq
                      /\ \A i \in 1..(j - 1) : /\ hbuf'[i].src = hbuf'[j].src
                                               /\ hbuf'[i].seq < hbuf'[j].seq
  BY DEF HbufOrdered, Genuine, Unread
<1>4. CASE Drops \/ \E c \in Conns : ClientSend(c)
  <2>1. CASE hbuf' = hbuf
    BY <1>2, <2>1 DEF HbufOrdered
  <2>2. CASE /\ Len(hbuf') = Len(hbuf) - 1
             /\ \A i \in 1..(Len(hbuf) - 1) : /\ hbuf'[i] = hbuf[i + 1]
                                              /\ i + 1 \in 1..Len(hbuf)
    <3>1. j + 1 \in 1..Len(hbuf) /\ hbuf'[j] = hbuf[j + 1]
      BY <2>2
    <3>2. \A i \in 1..(j - 1) : hbuf'[i] = hbuf[i + 1] /\ i + 1 \in 1..(j + 1 - 1)
      BY <1>0, <2>2
    <3>3. /\ Genuine(hbuf[j + 1])
          /\ \A i \in 1..(j + 1 - 1) : /\ hbuf[i].src = hbuf[j + 1].src
                                       /\ hbuf[i].seq < hbuf[j + 1].seq
      BY <3>1 DEF HbufOrdered
    <3>4. /\ hbuf[j + 1].seq <= sent'[hbuf[j + 1].src]
          /\ \A i \in 1..Len(inbox'[hbuf[j + 1].src]) :
               hbuf[j + 1].seq < inbox'[hbuf[j + 1].src][i].seq
      BY <1>2, <3>1
    <3>5. \A i \in 1..(j - 1) : i + 1 \in 1..(j + 1 - 1) /\ hbuf'[i] = hbuf[i + 1]
      BY <3>2
    <3>6. \A i \in 1..(j - 1) : /\ hbuf'[i].src = hbuf'[j].src
                                /\ hbuf'[i].seq < hbuf'[j].seq
      BY <3>1, <3>3, <3>5
    <3> QED
      BY <3>1, <3>3, <3>4, <3>6
  <2>3. CASE Len(hbuf') = 0
    BY <2>3
  <2> QED
    BY <1>4, <2>1, <2>2, <2>3, ShrinkStep, SendStep DEF Drops
<1>5. ASSUME NEW d \in Conns, NEW k \in 1..Len(inbox[d]), Reads(d, k)
      PROVE  /\ Genuine(hbuf'[j])
             /\ hbuf'[j].seq <= sent'[hbuf'[j].src]
             /\ \A i \in 1..Len(inbox'[hbuf'[j].src]) :
                  hbuf'[j].seq < inbox'[hbuf'[j].src][i].seq
             /\ \A i \in 1..(j - 1) : /\ hbuf'[i].src = hbuf'[j].src
                                      /\ hbuf'[i].seq < hbuf'[j].seq
  <2> DEFINE q == inbox[d]
             p == inbox'[d]
             m == Len(q)
  <2>1. /\ m \in Nat /\ k \in Nat /\ k <= m /\ sent' = sent /\ j \in 1..k
        /\ \A i \in 1..k : hbuf'[i] = q[i]
        /\ Len(p) = m - k
        /\ \A i \in 1..(m - k) : p[i] = q[k + i] /\ k + i \in 1..m
    BY <1>5, ReadStep
  <2>2. \A i \in 1..m : /\ Genuine(q[i]) /\ q[i].src = d /\ q[i].seq <= sent[d]
                        /\ \A h \in 1..(i - 1) : q[h].seq < q[i].seq
    BY DEF InboxOrdered
  <2> HIDE DEF q, m
  <2>3. hbuf'[j] = q[j] /\ j \in 1..m /\ hbuf'[j].src = d
    BY <2>1, <2>2
  <2>4. ASSUME NEW i \in 1..Len(p) PROVE hbuf'[j].seq < p[i].seq
    <3>1. p[i] = q[k + i] /\ k + i \in 1..m /\ j \in 1..(k + i - 1)
      BY <2>1
    <3> QED
      BY <2>2, <2>3, <3>1
  <2>5. ASSUME NEW i \in 1..(j - 1)
        PROVE  hbuf'[i].src = hbuf'[j].src /\ hbuf'[i].seq < hbuf'[j].seq
    <3>1. i \in 1..k /\ i \in 1..m
      BY <2>1
    <3> QED
      BY <2>1, <2>2, <2>3, <3>1
  <2> QED
    BY <2>1, <2>2, <2>3, <2>4, <2>5
<1> QED
  BY <1>4, <1>5, QueueSteps

----------------------------------------------------------------------------
\* The streams.

LEMMA UnwrittenKept ==
    ASSUME Inv, Ctrl, Accounts, Unwritten, [Next]_vars
    PROVE  Unwritten'
<1> USE DEF Inv, Core, CoreType
<1>1. CASE Quiet \/ Register \/ ReadData
  <2>1. UNCHANGED <<link, backlog, rcvd, sndq>>
    BY <1>1 DEF Quiet, Register, Parsing, ReadData, TakeDataEvent, network
  <2> QED
    BY <2>1 DEF Unwritten, SeqSet
<1>2. ASSUME NEW c \in Conns, Client(c) PROVE Unwritten'
  <2>1. CASE ClientConnect(c)
    <3>1. /\ link[c] = "unborn" /\ link' = [link EXCEPT ![c] = "up"]
          /\ backlog' = Append(backlog, c) /\ UNCHANGED <<rcvd, sndq>>
      BY <2>1 DEF ClientConnect
    <3>2. SeqSet(backlog)' = SeqSet(backlog) \cup {c}
      <4>1. SeqSet(backlog') = SeqSet(backlog) \cup {c}
        BY <3>1, AppendSet DEF Rest
      <4> QED
        BY <4>1 DEF SeqSet
    <3> QED
      BY <3>1, <3>2 DEF Unwritten
  <2>2. CASE ClientRecv(c)
    <3>1. /\ sndq[c] # <<>> /\ UNCHANGED <<link, backlog>>
          /\ rcvd' = [rcvd EXCEPT ![c] = Append(@, Head(sndq[c]))]
          /\ sndq' = [sndq EXCEPT ![c] = Tail(@)]
      BY <2>2 DEF ClientRecv
    <3>2. SeqSet(backlog)' = SeqSet(backlog)
      BY <3>1 DEF SeqSet
    <3>3. \A d \in Conns : d # c => rcvd'[d] = rcvd[d] /\ sndq'[d] = sndq[d]
      BY <3>1 DEF Rest
    <3> QED
      BY <3>1, <3>2, <3>3 DEF Unwritten
  <2>3. CASE ClientSend(c) \/ ClientFin(c) \/ ClientReset(c)
    <3>1. /\ UNCHANGED <<backlog, rcvd, sndq>>
          /\ \A d \in Conns : link'[d] = "unborn" => link[d] = "unborn"
      BY <2>3 DEF ClientSend, ClientFin, ClientReset
    <3>2. SeqSet(backlog)' = SeqSet(backlog)
      BY <3>1 DEF SeqSet
    <3> QED
      BY <3>1, <3>2 DEF Unwritten
  <2> QED
    BY <1>2, <2>1, <2>2, <2>3 DEF Client
<1>3. CASE (\E fd \in Fds : Accepts(fd)) \/ Refuses
  <2>1. /\ backlog # <<>> /\ backlog' = Tail(backlog) /\ UNCHANGED <<rcvd, sndq>>
        /\ \A d \in Conns : link'[d] = "unborn" => link[d] = "unborn"
    BY <1>3 DEF Accepts, AcceptInto, Refuses, RefuseAccepted
  <2>2. SeqSet(backlog)' \subseteq SeqSet(backlog)
    <3>1. SeqSet(backlog') \subseteq SeqSet(backlog)
      BY <2>1, TailSet DEF Rest, Accounts
    <3> QED
      BY <3>1 DEF SeqSet
  <2> QED
    BY <2>1, <2>2 DEF Unwritten
<1>4. CASE \E fd \in Fds : Closes(fd)
  <2>1. /\ UNCHANGED <<backlog, rcvd, sndq>>
        /\ \A d \in Conns : link'[d] = "unborn" => link[d] = "unborn"
    BY <1>4 DEF Closes, CloseConnection
  <2>2. SeqSet(backlog)' = SeqSet(backlog)
    BY <2>1 DEF SeqSet
  <2> QED
    BY <2>1, <2>2 DEF Unwritten
<1>5. ASSUME NEW fd \in g_connections, NEW buf, Takes(fd, buf) PROVE Unwritten'
  <2>1. /\ UNCHANGED <<link, backlog, rcvd>>
        /\ \E x : sndq' = [sndq EXCEPT ![sock[fd]] = x]
    BY <1>5 DEF Takes
  <2>2. /\ sock[fd] \in Conns /\ sock[fd] \notin SeqSet(backlog)
        /\ link[sock[fd]] # "unborn"
    BY StreamType DEF Accounts, HeldConns, LinkOpen
  <2>3. SeqSet(backlog)' = SeqSet(backlog)
    BY <2>1 DEF SeqSet
  <2> QED
    BY <2>1, <2>2, <2>3 DEF Unwritten
<1>6. CASE \E how : ProcessEnds(how)
  <2>1. /\ UNCHANGED <<rcvd, sndq>> /\ backlog' = <<>>
        /\ \A d \in Conns : link'[d] = "unborn" => link[d] = "unborn"
    BY <1>6 DEF ProcessEnds
  <2>2. SeqSet(backlog)' = {}
    BY <2>1 DEF SeqSet
  <2> QED
    BY <2>1, <2>2 DEF Unwritten
<1> QED
  BY <1>1, <1>2, <1>3, <1>4, <1>5, <1>6, StepKinds DEF StepKind, Flushes, Forwards

\* A connection keeps the name it registered as long as it is held.
LEMMA MarkKept ==
    ASSUME Inv, Ctrl, [Next]_vars, NEW fd \in registered, fd \in g_connections'
    PROVE  fd \in registered' /\ mark'[fd] = mark[fd]
<1> USE DEF Inv, Core, CoreType
<1>0. fd \in g_connections /\ fd \in Fds
  BY DEF MarkTableExact
<1>1. CASE Quiet \/ ReadData \/ Refuses
  BY <1>1 DEF Quiet, ReadData, TakeDataEvent, Refuses, RefuseAccepted, tables
<1>2. CASE \E c \in Conns : Client(c)
  BY <1>2 DEF Client, ClientConnect, ClientSend, ClientRecv, ClientFin, ClientReset, tables
<1>3. ASSUME NEW g \in Fds, Accepts(g) PROVE fd \in registered' /\ mark'[fd] = mark[fd]
  <2>1. g # fd
    BY <1>0, <1>3 DEF Accepts, Held
  <2> QED
    BY <1>0, <1>3, <2>1 DEF Accepts, AcceptInto
<1>4. CASE \E g \in Fds : Closes(g)
  BY <1>4 DEF Closes, CloseConnection
<1>5. CASE \E g \in g_connections : Flushes(g) \/ Forwards(g)
  BY <1>5 DEF Flushes, Forwards, Takes
<1>6. CASE Register
  <2>1. cur.fd # fd
    BY <1>0, <1>6 DEF Register, ConnRegistered
  <2> QED
    BY <1>0, <1>6, <2>1 DEF Register
<1>7. CASE \E how : ProcessEnds(how)
  BY <1>7 DEF ProcessEnds
<1> QED
  BY <1>1, <1>2, <1>3, <1>4, <1>5, <1>6, <1>7, StepKinds DEF StepKind

\* What a stream looks like after a packet was forwarded to it.
LEMMA GrownStream ==
    ASSUME NEW s \in Seq(Piece), NEW p \in Packet
    PROVE  /\ Len(s) \in Nat /\ Len(s \o Frame(p)) = Len(s) + Pieces
           /\ \A i \in 1..Len(s) : (s \o Frame(p))[i] = s[i]
           /\ \A i \in (Len(s) + 1)..(Len(s) + Pieces) :
                (s \o Frame(p))[i] =
                  [src |-> p.src, seq |-> p.seq, dst |-> p.mark, part |-> i - Len(s)]
<1>1. Frame(p) \in Seq(Piece)
  BY FrameType
<1>2. Pieces \in Nat /\ Len(Frame(p)) = Pieces
  BY BoundsAssumption DEF Frame
<1>3. \A j \in 1..Pieces :
        Frame(p)[j] = [src |-> p.src, seq |-> p.seq, dst |-> p.mark, part |-> j]
  BY DEF Frame
<1>4. /\ Len(s) \in Nat /\ Len(s \o Frame(p)) = Len(s) + Pieces
      /\ \A i \in 1..(Len(s) + Pieces) :
           (s \o Frame(p))[i] = IF i <= Len(s) THEN s[i] ELSE Frame(p)[i - Len(s)]
  BY <1>1, <1>2, ConcatProperties, LenProperties
<1>5. \A i \in 1..Len(s) : (s \o Frame(p))[i] = s[i]
  BY <1>2, <1>4
<1>6. \A i \in (Len(s) + 1)..(Len(s) + Pieces) :
        (s \o Frame(p))[i] = Frame(p)[i - Len(s)] /\ i - Len(s) \in 1..Pieces
  BY <1>2, <1>4
<1> QED
  BY <1>3, <1>4, <1>5, <1>6

LEMMA RoutedKept ==
    ASSUME Inv, Ctrl, Accounts, Unwritten, RoutedToOwner, [Next]_vars
    PROVE  RoutedToOwner'
<1>1. SUFFICES ASSUME NEW fd \in g_connections', NEW i \in 1..Len(Stream(fd)')
               PROVE  fd \in registered' /\ (Stream(fd)')[i].dst = mark'[fd]
  BY DEF RoutedToOwner, Stream
<1>2. CASE Keeps(fd)
  <2>1. fd \in g_connections /\ i \in 1..Len(Stream(fd)) /\ (Stream(fd)')[i] = Stream(fd)[i]
    BY <1>2 DEF Keeps
  <2>2. fd \in registered /\ Stream(fd)[i].dst = mark[fd]
    BY <2>1 DEF RoutedToOwner
  <2> QED
    BY <2>1, <2>2, MarkKept
<1>3. CASE Starts(fd)
  BY <1>3 DEF Starts
<1>4. CASE Grows(fd)
  <2> DEFINE s == Stream(fd)
             p == Head(hbuf)
  <2>1. /\ fd \in g_connections /\ hbuf # <<>> /\ fd = g_mark_to_fd[p.mark]
        /\ Stream(fd)' = s \o Frame(p)
    BY <1>4 DEF Grows, Forwards
  <2>2. s \in Seq(Piece) /\ p \in Packet
    BY <2>1, StreamType, HeadTailProperties DEF Inv, Rest
  <2>3. fd \in registered /\ mark[fd] = p.mark
    <3>1. fd \in Fds /\ fd # NoFd
      BY <2>1, FdsAssumption DEF NoFd, Inv, Core, CoreType
    <3> QED
      BY <2>1, <2>2, <3>1 DEF Inv, Core, MarkTableExact, Packet
  <2>4. fd \in registered' /\ mark'[fd] = mark[fd]
    BY <2>3, MarkKept
  <2>5. CASE i \in 1..Len(s)
    <3>1. (Stream(fd)')[i] = s[i]
      BY <2>1, <2>2, <2>5, GrownStream
    <3>2. s[i].dst = mark[fd]
      BY <2>1, <2>5 DEF RoutedToOwner
    <3> QED
      BY <2>4, <3>1, <3>2
  <2>6. CASE i \notin 1..Len(s)
    <3>1. Len(s) \in Nat /\ Pieces \in Nat /\ Len(Stream(fd)') = Len(s) + Pieces
      BY <2>1, <2>2, GrownStream, BoundsAssumption
    <3> HIDE DEF s, p
    <3>2. i \in (Len(s) + 1)..(Len(s) + Pieces)
      BY <2>6, <3>1
    <3>3. (Stream(fd)')[i] = [src |-> p.src, seq |-> p.seq, dst |-> p.mark, part |-> i - Len(s)]
      BY <2>1, <2>2, <3>2, GrownStream
    <3> QED
      BY <2>3, <2>4, <3>3
  <2> QED
    BY <2>5, <2>6
<1> QED
  BY <1>2, <1>3, <1>4, StreamSteps

\* The packet that is forwarded was the last of its sender's up to its number.
LEMMA ForwardedSettled ==
    ASSUME Inv, HbufOrdered, NEW fd \in g_connections, Forwards(fd),
           NEW c, NEW n, c = Head(hbuf).src, n = Head(hbuf).seq
    PROVE  Settled(c, n)'
<1>1. hbuf # <<>> /\ hbuf' = Tail(hbuf) /\ UNCHANGED <<inbox, sent>>
  BY DEF Forwards, Takes
<1>2. /\ hbuf \in Seq(Packet) /\ Len(hbuf) \in Nat /\ 1 \in 1..Len(hbuf)
      /\ c = hbuf[1].src /\ n = hbuf[1].seq
  BY <1>1, LenProperties, EmptySeq DEF Inv, Rest
<1>3. Unread(c, n)
  BY <1>2 DEF HbufOrdered
<1>4. ASSUME NEW j \in 1..Len(hbuf') PROVE n < hbuf'[j].seq
  <2>1. Len(hbuf') = Len(hbuf) - 1 /\ hbuf'[j] = hbuf[j + 1]
    BY <1>1, <1>2, HeadTailProperties
  <2>2. j + 1 \in 1..Len(hbuf) /\ 1 \in 1..((j + 1) - 1)
    BY <1>2, <2>1
  <2> QED
    BY <1>2, <2>1, <2>2 DEF HbufOrdered
<1>5. /\ n <= sent'[c]
      /\ \A j \in 1..Len(inbox'[c]) : n < inbox'[c][j].seq
  BY <1>1, <1>3 DEF Unread
<1> QED
  BY <1>4, <1>5 DEF Settled, Unread

\* The parts of a stream that grew: what was there, and the frame.
LEMMA Growth ==
    ASSUME Inv, NEW fd, Grows(fd)
    PROVE  /\ fd \in g_connections /\ Forwards(fd)
           /\ Stream(fd) \in Seq(Piece) /\ Head(hbuf) \in Packet
           /\ Len(Stream(fd)) \in Nat /\ Len(Stream(fd)') = Len(Stream(fd)) + Pieces
           /\ \A i \in 1..Len(Stream(fd)) : (Stream(fd)')[i] = Stream(fd)[i]
           /\ \A i \in (Len(Stream(fd)) + 1)..(Len(Stream(fd)) + Pieces) :
                (Stream(fd)')[i] =
                  [src |-> Head(hbuf).src, seq |-> Head(hbuf).seq,
                   dst |-> Head(hbuf).mark, part |-> i - Len(Stream(fd))]
<1> DEFINE s == Stream(fd)
           p == Head(hbuf)
<1>1. fd \in g_connections /\ Forwards(fd) /\ Stream(fd)' = s \o Frame(p) /\ hbuf # <<>>
  BY DEF Grows, Forwards
<1>2. s \in Seq(Piece) /\ p \in Packet
  BY <1>1, StreamType, HeadTailProperties DEF Inv, Rest
<1> HIDE DEF s, p
<1>3. /\ Len(s) \in Nat /\ Len(Stream(fd)') = Len(s) + Pieces
      /\ \A i \in 1..Len(s) : (Stream(fd)')[i] = s[i]
      /\ \A i \in (Len(s) + 1)..(Len(s) + Pieces) :
           (Stream(fd)')[i] =
             [src |-> p.src, seq |-> p.seq, dst |-> p.mark, part |-> i - Len(s)]
  BY <1>1, <1>2, GrownStream
<1> QED
  BY <1>1, <1>2, <1>3 DEF s, p

LEMMA StreamsSettledKept ==
    ASSUME Inv, Ctrl, Accounts, Unwritten, InboxOrdered, HbufOrdered, StreamsSettled,
           [Next]_vars
    PROVE  StreamsSettled'
<1>1. SUFFICES ASSUME NEW fd \in g_connections', NEW k \in 1..Len(Stream(fd)'),
                      NEW c, NEW n,
                      c = (Stream(fd)')[k].src, n = (Stream(fd)')[k].seq
               PROVE  Settled(c, n)'
  BY DEF StreamsSettled, Settled, Unread, Stream
<1>2. ASSUME fd \in g_connections, k \in 1..Len(Stream(fd)),
             (Stream(fd)')[k] = Stream(fd)[k]
      PROVE  Settled(c, n)'
  <2>1. Stream(fd)[k] \in Piece
    BY <1>2, StreamType, ElementOfSeq
  <2>2. c \in Conns /\ n \in Nat
    BY <1>1, <1>2, <2>1 DEF Piece
  <2>3. Settled(c, n)
    BY <1>1, <1>2 DEF StreamsSettled
  <2> QED
    BY <2>2, <2>3, SettledKept
<1>3. CASE Keeps(fd)
  BY <1>2, <1>3 DEF Keeps
<1>4. CASE Starts(fd)
  BY <1>4 DEF Starts
<1>5. CASE Grows(fd)
  <2>1. CASE k \in 1..Len(Stream(fd))
    BY <1>2, <1>5, <2>1, Growth
  <2>2. CASE k \notin 1..Len(Stream(fd))
    <3>1. k \in (Len(Stream(fd)) + 1)..(Len(Stream(fd)) + Pieces)
      BY <1>5, <2>2, Growth, BoundsAssumption
    <3>2. c = Head(hbuf).src /\ n = Head(hbuf).seq
      <4>1. (Stream(fd)')[k] =
               [src |-> Head(hbuf).src, seq |-> Head(hbuf).seq,
                dst |-> Head(hbuf).mark, part |-> k - Len(Stream(fd))]
        BY <1>5, <3>1, Growth
      <4> QED
        BY <1>1, <4>1
    <3>3. fd \in g_connections /\ Forwards(fd)
      BY <1>5 DEF Grows
    <3> QED
      BY <3>2, <3>3, ForwardedSettled
  <2> QED
    BY <2>1, <2>2
<1> QED
  BY <1>3, <1>4, <1>5, StreamSteps

LEMMA SenderOrderKept ==
    ASSUME Inv, Ctrl, Accounts, Unwritten, HbufOrdered, StreamsSettled, SenderOrder,
           [Next]_vars
    PROVE  SenderOrder'
<1> DEFINE Before(x, y) ==
             x.src = y.src => \/ x.seq < y.seq
                              \/ x.seq = y.seq /\ x.part < y.part
<1>1. SUFFICES ASSUME NEW fd \in g_connections', NEW j \in 1..Len(Stream(fd)'),
                      NEW i \in 1..(j - 1)
               PROVE  Before((Stream(fd)')[i], (Stream(fd)')[j])
  BY DEF SenderOrder, Stream
<1>2. CASE Keeps(fd)
  BY <1>2 DEF Keeps, SenderOrder
<1>3. CASE Starts(fd)
  BY <1>3 DEF Starts
<1>4. CASE Grows(fd)
  <2> DEFINE s == Stream(fd)
             t == Stream(fd)'
             p == Head(hbuf)
             L == Len(s)
  <2>1. /\ L \in Nat /\ Len(t) = L + Pieces /\ Pieces \in Nat
        /\ fd \in g_connections /\ p \in Packet
        /\ \A k \in 1..L : t[k] = s[k]
        /\ \A k \in (L + 1)..(L + Pieces) :
             t[k] = [src |-> p.src, seq |-> p.seq, dst |-> p.mark, part |-> k - L]
    BY <1>4, Growth, BoundsAssumption
  <2>2. \A y \in 1..L : \A x \in 1..(y - 1) : Before(s[x], s[y])
    BY <2>1 DEF SenderOrder
  <2>3. \A x \in 1..L : s[x].src = p.src => s[x].seq < p.seq
    <3>1. hbuf # <<>> /\ hbuf \in Seq(Packet)
      BY <1>4 DEF Grows, Forwards, Inv, Rest
    <3>2. 1 \in 1..Len(hbuf) /\ p = hbuf[1]
      BY <3>1, LenProperties, EmptySeq
    <3> QED
      BY <2>1, <3>2 DEF StreamsSettled, Settled
  <2>4. i \in Nat /\ j \in Nat /\ 1 <= i /\ i < j /\ j <= L + Pieces
    <3>1. j \in 1..(L + Pieces)
      BY <2>1
    <3> HIDE DEF L
    <3> QED
      BY <2>1, <3>1
  <2> HIDE DEF s, t, p, L
  <2>5. CASE j <= L
    <3>1. i \in 1..L /\ j \in 1..L /\ i \in 1..(j - 1)
      BY <2>1, <2>4, <2>5
    <3>2. t[i] = s[i] /\ t[j] = s[j] /\ Before(s[i], s[j])
      BY <2>1, <2>2, <3>1
    <3> QED
      BY <3>2 DEF t
  <2>6. CASE i <= L /\ L < j
    <3>1. i \in 1..L /\ j \in (L + 1)..(L + Pieces)
      BY <2>1, <2>4, <2>6
    <3>2. t[i] = s[i] /\ t[j] = [src |-> p.src, seq |-> p.seq, dst |-> p.mark, part |-> j - L]
      BY <2>1, <3>1
    <3>3. Before(t[i], t[j])
      BY <2>3, <3>1, <3>2
    <3> QED
      BY <3>3 DEF t
  <2>7. CASE L < i
    <3>1. i \in (L + 1)..(L + Pieces) /\ j \in (L + 1)..(L + Pieces) /\ i - L < j - L
      BY <2>1, <2>4, <2>7
    <3>2. /\ t[i] = [src |-> p.src, seq |-> p.seq, dst |-> p.mark, part |-> i - L]
          /\ t[j] = [src |-> p.src, seq |-> p.seq, dst |-> p.mark, part |-> j - L]
      BY <2>1, <3>1
    <3>3. Before(t[i], t[j])
      BY <3>1, <3>2
    <3> QED
      BY <3>3 DEF t
  <2> QED
    BY <2>1, <2>4, <2>5, <2>6, <2>7
<1> QED
  BY <1>2, <1>3, <1>4, StreamSteps

\* Where a frame's pieces come to lie.
LEMMA ModInFrame ==
    ASSUME NEW P \in Nat \ {0}, NEW L \in Nat, L % P = 0, NEW r \in 0..(P - 1)
    PROVE  (L + r) % P = r
OBVIOUS

LEMMA ModUnique ==
    ASSUME NEW P \in Nat \ {0}, NEW a \in Int, NEW b \in Int,
           NEW r \in 0..(P - 1), NEW q \in 0..(P - 1), P * a + r = P * b + q
    PROVE  r = q
<1>1. ASSUME NEW x \in Int, NEW y \in Int, x < y PROVE P * y - P * x >= P
  <2>1. P * (y - x) >= P
    BY <1>1
  <2>2. P * (y - x) = P * y - P * x
    OBVIOUS
  <2> QED
    BY <2>1, <2>2
<1>2. P * a \in Int /\ P * b \in Int
  OBVIOUS
<1>3. CASE a < b
  BY <1>1, <1>2, <1>3
<1>4. CASE b < a
  BY <1>1, <1>2, <1>4
<1>5. CASE a = b
  BY <1>2, <1>5
<1> QED
  BY <1>3, <1>4, <1>5

LEMMA ModNextFrame ==
    ASSUME NEW P \in Nat \ {0}, NEW L \in Nat, L % P = 0
    PROVE  (L + P) % P = 0
<1> DEFINE a == L \div P
           b == (L + P) \div P
           q == (L + P) % P
<1>1. L = P * a /\ a \in Int
  OBVIOUS
<1>2. L + P = P * b + q /\ q \in 0..(P - 1) /\ b \in Int
  OBVIOUS
<1> HIDE DEF a, b, q
<1>3. P * (a + 1) + 0 = P * b + q
  <2>1. P * (a + 1) = P * a + P
    BY <1>1
  <2> QED
    BY <1>1, <1>2, <2>1
<1>4. a + 1 \in Int /\ 0 \in 0..(P - 1)
  BY <1>1
<1> QED
  BY <1>2, <1>3, <1>4, ModUnique DEF q

LEMMA FramesIntactKept ==
    ASSUME Inv, Ctrl, Accounts, Unwritten, FramesIntact, [Next]_vars
    PROVE  FramesIntact'
<1> DEFINE Whole(s) ==
             /\ Len(s) % Pieces = 0
             /\ \A i \in 1..Len(s) :
                  /\ s[i].part = ((i - 1) % Pieces) + 1
                  /\ s[i].part > 1 => s[i] = [s[i - 1] EXCEPT !.part = s[i].part]
<1>1. SUFFICES ASSUME NEW fd \in g_connections' PROVE Whole(Stream(fd)')
  BY DEF FramesIntact, Stream
<1>0. Pieces \in Nat \ {0}
  BY BoundsAssumption
<1>2. CASE Keeps(fd)
  BY <1>2 DEF Keeps, FramesIntact
<1>3. CASE Starts(fd)
  <2>1. Len(Stream(fd)') = 0
    BY <1>3 DEF Starts
  <2>2. 0 % Pieces = 0
    BY <1>0, ModInFrame
  <2> QED
    BY <2>1, <2>2
<1>4. CASE Grows(fd)
  <2> DEFINE s == Stream(fd)
             t == Stream(fd)'
             p == Head(hbuf)
             L == Len(s)
  <2>1. /\ L \in Nat /\ Len(t) = L + Pieces
        /\ fd \in g_connections
        /\ \A k \in 1..L : t[k] = s[k]
        /\ \A k \in (L + 1)..(L + Pieces) :
             t[k] = [src |-> p.src, seq |-> p.seq, dst |-> p.mark, part |-> k - L]
    BY <1>4, Growth
  <2>2. Whole(s)
    BY <2>1 DEF FramesIntact
  <2> HIDE DEF s, t, p
  <2>3. Len(t) % Pieces = 0
    <3>1. L % Pieces = 0
      BY <2>2
    <3> HIDE DEF L
    <3> QED
      BY <1>0, <2>1, <3>1, ModNextFrame
  <2>4. ASSUME NEW i \in 1..Len(t)
        PROVE  /\ t[i].part = ((i - 1) % Pieces) + 1
               /\ t[i].part > 1 => t[i] = [t[i - 1] EXCEPT !.part = t[i].part]
    <3>1. CASE i \in 1..L
      <4>1. t[i] = s[i] /\ t[i].part = ((i - 1) % Pieces) + 1
        BY <2>1, <2>2, <3>1
      <4>2. ASSUME t[i].part > 1 PROVE i - 1 \in 1..L
        <5>1. (i - 1) % Pieces > 0
          BY <1>0, <2>1, <3>1, <4>1, <4>2
        <5>2. 0 % Pieces = 0
          BY <1>0, ModInFrame
        <5>3. i # 1
          BY <5>1, <5>2
        <5> HIDE DEF L
        <5> QED
          BY <2>1, <3>1, <5>3
      <4>3. ASSUME t[i].part > 1 PROVE t[i] = [t[i - 1] EXCEPT !.part = t[i].part]
        <5>1. t[i - 1] = s[i - 1]
          BY <2>1, <4>2, <4>3
        <5>2. s[i] = [s[i - 1] EXCEPT !.part = s[i].part]
          BY <2>2, <3>1, <4>1, <4>3
        <5> QED
          BY <4>1, <5>1, <5>2
      <4> QED
        BY <4>1, <4>3
    <3>2. CASE i \notin 1..L
      <4>0. L % Pieces = 0
        BY <2>2
      <4> HIDE DEF L
      <4>1. i \in (L + 1)..(L + Pieces) /\ i - L - 1 \in 0..(Pieces - 1)
        BY <1>0, <2>1, <3>2
      <4>2. t[i] = [src |-> p.src, seq |-> p.seq, dst |-> p.mark, part |-> i - L]
        BY <2>1, <4>1
      <4>3. (i - 1) % Pieces = i - L - 1
        <5>1. (L + (i - L - 1)) % Pieces = i - L - 1
          BY <1>0, <2>1, <4>0, <4>1, ModInFrame
        <5>2. L + (i - L - 1) = i - 1
          BY <2>1, <4>1
        <5> QED
          BY <5>1, <5>2
      <4>4. t[i].part = ((i - 1) % Pieces) + 1
        BY <2>1, <4>1, <4>2, <4>3
      <4>5. ASSUME t[i].part > 1 PROVE t[i] = [t[i - 1] EXCEPT !.part = t[i].part]
        <5>1. i - L > 1
          BY <4>2, <4>5
        <5>2. i - 1 \in (L + 1)..(L + Pieces)
          BY <1>0, <2>1, <4>1, <5>1
        <5>3. t[i - 1] = [src |-> p.src, seq |-> p.seq, dst |-> p.mark, part |-> i - 1 - L]
          BY <2>1, <5>2
        <5> QED
          BY <4>2, <5>3
      <4> QED
        BY <4>4, <4>5
    <3> QED
      BY <3>1, <3>2
  <2>5. Whole(t)
    BY <2>3, <2>4
  <2> QED
    BY <2>5 DEF t
<1> QED
  BY <1>2, <1>3, <1>4, StreamSteps

----------------------------------------------------------------------------
\* The invariant, and what it shows.

FullInv == Inv /\ Ctrl /\ Accounts /\ StreamInv

LEMMA FullInit ==
    ASSUME Init
    PROVE  FullInv
<1>1. Inv
  BY RelayInit
<1>2. Ctrl
  BY DEF Init, Ctrl
<1>3. Accounts
  <2>1. g_connections = {} /\ Polled = {} /\ SeqSet(backlog) = {} /\ HeldConns = {}
    BY DEF Init, Polled, SeqSet, HeldConns
  <2>2. Cardinality(g_connections) <= MaxConnections
    BY <2>1, FS_EmptySet, BoundsAssumption
  <2>3. Distinct(backlog)
    BY DEF Init, Distinct
  <2>4. \A c \in Conns : link[c] \notin LinkOpen
    BY DEF Init, LinkOpen
  <2> QED
    BY <2>1, <2>2, <2>3, <2>4 DEF Accounts
<1>4. Unwritten /\ InboxOrdered /\ HbufOrdered
  BY DEF Init, Unwritten, InboxOrdered, HbufOrdered
<1>5. StreamsSettled /\ RoutedToOwner /\ FramesIntact /\ SenderOrder
  BY DEF Init, StreamsSettled, RoutedToOwner, FramesIntact, SenderOrder
<1> QED
  BY <1>1, <1>2, <1>3, <1>4, <1>5 DEF FullInv, StreamInv

LEMMA FullStep ==
    ASSUME FullInv, [Next]_vars
    PROVE  FullInv'
<1> USE DEF FullInv, StreamInv
<1>1. Inv'
  BY RelayNext
<1>2. Ctrl' /\ Accounts' /\ Unwritten'
  BY CtrlKept, AccountsKept, UnwrittenKept
<1>3. InboxOrdered' /\ HbufOrdered' /\ StreamsSettled'
  BY InboxOrderedKept, HbufOrderedKept, StreamsSettledKept
<1>4. RoutedToOwner' /\ FramesIntact' /\ SenderOrder'
  BY RoutedKept, FramesIntactKept, SenderOrderKept
<1> QED
  BY <1>1, <1>2, <1>3, <1>4

LEMMA FullInvariant == Spec => []FullInv
<1>1. Init => FullInv
  BY FullInit
<1>2. FullInv /\ [Next]_vars => FullInv'
  BY FullStep
<1> QED
  BY <1>1, <1>2, PTL DEF Spec

\* Whatever handlers run and fail in whatever order, the table holds exactly
\* the open descriptors, each polled and each of a connection of its own, never
\* more than MAX_CONNECTIONS, and no open connection is forgotten by accept or
\* close_connection.
THEOREM RelayDescriptorsAccounted == Spec => []DescriptorsAccounted
<1>1. FullInv => DescriptorsAccounted
  <2> SUFFICES ASSUME FullInv PROVE DescriptorsAccounted
    OBVIOUS
  <2>1. Held /\ Accounts
    BY DEF FullInv, Inv, Core
  <2>2. \A c : c \in HeldConns <=> \E fd \in g_connections : sock[fd] = c
    BY DEF HeldConns
  <2>3. \A c : c \in SeqSet(backlog) <=> \E i \in 1..Len(backlog) : backlog[i] = c
    BY DEF SeqSet
  <2>4. \A c \in Conns : link[c] \in LinkOpen <=>
          \/ \E fd \in g_connections : sock[fd] = c
          \/ \E i \in 1..Len(backlog) : backlog[i] = c
    BY <2>1, <2>2, <2>3 DEF Accounts
  <2> QED
    BY <2>1, <2>4 DEF DescriptorsAccounted, Held, Accounts, LinkOpen
<1> QED
  BY <1>1, FullInvariant, PTL

\* process_packet and flush_send_buffer give a connection only frames for the
\* mark it registered itself, also when its descriptor was another's before.
THEOREM RelayRoutedToOwner == Spec => []RoutedToOwner
<1>1. FullInv => RoutedToOwner
  BY DEF FullInv, StreamInv
<1> QED
  BY <1>1, FullInvariant, PTL

\* flush_send_buffer cuts frames anywhere and loses, repeats or mixes nothing:
\* the stream to a client is always a sequence of whole frames.
THEOREM RelayFramesIntact == Spec => []FramesIntact
<1>1. FullInv => FramesIntact
  BY DEF FullInv, StreamInv
<1> QED
  BY <1>1, FullInvariant, PTL

\* The packets of one sender are forwarded to one receiver at most once and in
\* the order they were sent (handle_client_data, process_packet).
THEOREM RelaySenderOrder == Spec => []SenderOrder
<1>1. FullInv => SenderOrder
  BY DEF FullInv, StreamInv
<1> QED
  BY <1>1, FullInvariant, PTL

LEMMA MarkStep ==
    ASSUME FullInv, [Next]_vars
    PROVE  \A m \in Marks :
             LET fd == g_mark_to_fd[m] IN
             fd \in g_connections /\ g_mark_to_fd'[m] # fd => link'[sock[fd]] = "closed"
<1> USE DEF FullInv, Inv, Core, CoreType
<1> SUFFICES ASSUME NEW m \in Marks, NEW fd, fd = g_mark_to_fd[m],
                    fd \in g_connections, g_mark_to_fd'[m] # fd
             PROVE  link'[sock[fd]] = "closed"
  OBVIOUS
<1>1. sock[fd] \in Conns /\ fd \in registered /\ mark[fd] = m /\ link[sock[fd]] \in LinkOpen
  <2>1. fd # NoFd
    BY FdsAssumption DEF NoFd
  <2>2. sock[fd] \in Conns
    BY StreamType
  <2> QED
    BY <2>1, <2>2 DEF MarkTableExact, Accounts, HeldConns
<1>2. CASE Quiet \/ ReadData \/ Refuses
  BY <1>2 DEF Quiet, ReadData, TakeDataEvent, Refuses, RefuseAccepted, tables
<1>3. CASE \E c \in Conns : Client(c)
  BY <1>3 DEF Client, ClientConnect, ClientSend, ClientRecv, ClientFin, ClientReset, tables
<1>4. CASE \E g \in Fds : Accepts(g)
  BY <1>4 DEF Accepts, AcceptInto
<1>5. ASSUME NEW g \in Fds, Closes(g) PROVE link'[sock[fd]] = "closed"
  <2>1. g_mark_to_fd' = EraseMark(g)
        /\ link' = [c \in Conns |-> IF c = sock[g] THEN "closed" ELSE link[c]]
    BY <1>5 DEF Closes, CloseConnection
  <2>2. g \in registered /\ mark[g] = m
    BY <2>1 DEF EraseMark
  <2>3. g = fd
    BY <1>1, <2>2 DEF MarkTableExact
  <2> QED
    BY <1>1, <2>1, <2>3
<1>6. CASE \E g \in g_connections : Flushes(g) \/ Forwards(g)
  BY <1>6 DEF Flushes, Forwards, Takes
<1>7. CASE Register
  <2>1. /\ g_mark_to_fd' = [g_mark_to_fd EXCEPT ![Head(hbuf).mark] = cur.fd]
        /\ g_mark_to_fd[Head(hbuf).mark] = NoFd
    BY <1>7 DEF Register, MarkTaken
  <2>2. fd # NoFd
    BY FdsAssumption DEF NoFd
  <2> QED
    BY <2>1, <2>2
<1>8. CASE \E how : ProcessEnds(how)
  BY <1>1, <1>8 DEF ProcessEnds, LinkOpen
<1> QED
  BY <1>2, <1>3, <1>4, <1>5, <1>6, <1>7, <1>8, StepKinds DEF StepKind

\* No step takes a mark from an open connection: process_packet registers only
\* a free mark, and close_connection frees only the mark of the one it closes.
THEOREM RelayMarkNotStolen == Spec => MarkNotStolen
BY MarkStep, FullInvariant, PTL DEF Spec, MarkNotStolen

=============================================================================
