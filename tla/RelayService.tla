---------------------------- MODULE RelayService ----------------------------
(***************************************************************************)
(* What the relay of server/main.cpp promises its clients, without         *)
(* descriptors, epoll, buffers or partial writes: a name belongs to one    *)
(* connection at a time, a packet for a name is appended whole to the      *)
(* stream of the connection that owns it, one sender's packets in the      *)
(* order they were sent, and a connection that is closed loses its name    *)
(* and at most the end of its stream.  The relay may drop packets and may  *)
(* close a connection at any time.                                         *)
(***************************************************************************)
EXTENDS Naturals, Sequences

CONSTANTS
    Conns,      \* TCP connections
    Marks,      \* client names
    NoConn,     \* a name nobody owns
    Pieces,     \* pieces of a frame
    Program     \* the packets each connection's client sends, in order

VARIABLES
    state,      \* life of a connection
    owner,      \* the connection a name belongs to
    stream      \* all that was taken for delivery to a connection

vars == <<state, owner, stream>>

Open == {"up", "ended"}

Init ==
    /\ state = [c \in Conns |-> "unborn"]
    /\ owner = [m \in Marks |-> NoConn]
    /\ stream = [c \in Conns |-> <<>>]

Arrive(c) ==
    /\ state[c] = "unborn"
    /\ state' = [state EXCEPT ![c] = "up"]
    /\ UNCHANGED <<owner, stream>>

\* The client closes, aborts or vanishes; the relay does not know yet.
End(c) ==
    /\ state[c] = "up"
    /\ state' = [state EXCEPT ![c] = "ended"]
    /\ UNCHANGED <<owner, stream>>

\* Only a free name can be registered, by a connection that has none.
Bind(c, m) ==
    /\ state[c] \in Open
    /\ owner[m] = NoConn
    /\ \A n \in Marks : owner[n] # c
    /\ owner' = [owner EXCEPT ![m] = c]
    /\ UNCHANGED <<state, stream>>

\* A sender is registered, or was until a moment ago.
MaySpeak(s) == state[s] = "closed" \/ \E m \in Marks : owner[m] = s

FrameOf(s, n) ==
    [i \in 1..Pieces |-> [src |-> s, seq |-> n, dst |-> Program[s][n].mark, part |-> i]]

\* The n-th packet of s goes to the owner of the name it is addressed to.
Deliver(s, n) ==
    LET c == owner[Program[s][n].mark] IN
    /\ Program[s][n].size = "data"
    /\ MaySpeak(s)
    /\ c # NoConn
    /\ \A i \in 1..Len(stream[c]) : stream[c][i].src = s => stream[c][i].seq < n
    /\ stream' = [stream EXCEPT ![c] = @ \o FrameOf(s, n)]
    /\ UNCHANGED <<state, owner>>

IsPrefixOf(s, t) == Len(s) <= Len(t) /\ s = SubSeq(t, 1, Len(s))

\* A closed connection's name is free.
NamesFreed(S) == [m \in Marks |-> IF owner[m] \in S THEN NoConn ELSE owner[m]]

\* The connections of S are closed, all of them at once when the process ends.
Close(S) ==
    /\ S # {} /\ \A c \in S : state[c] \in Open
    /\ state' = [c \in Conns |-> IF c \in S THEN "closed" ELSE state[c]]
    /\ owner' = NamesFreed(S)
    /\ \A c \in Conns : IF c \in S THEN IsPrefixOf(stream'[c], stream[c])
                                   ELSE stream'[c] = stream[c]

Next ==
    \/ \E c \in Conns : Arrive(c) \/ End(c)
    \/ \E c \in Conns, m \in Marks : Bind(c, m)
    \/ \E s \in Conns : \E n \in 1..Len(Program[s]) : Deliver(s, n)
    \/ \E S \in SUBSET Conns : Close(S)

Spec == Init /\ [][Next]_vars

=============================================================================
