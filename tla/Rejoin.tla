------------------------------- MODULE Rejoin -------------------------------
(***************************************************************************)
(* Clients that lose their connection and come back to one relay: the      *)
(* hook's reconnecting clients, reduced to what the relay sees of them,    *)
(* and the relay as RelayService promises it, with its table of            *)
(* MaxConnections places.                                                  *)
(*                                                                         *)
(* A client knows that its connection is lost before the relay does, and   *)
(* the relay refuses a name that is still taken.  So a client that comes   *)
(* back quickly competes with its own dead connections, for its name and   *)
(* for a place in the table, until the relay has closed them.              *)
(*                                                                         *)
(* A link is registered by its first packet.  That is sent by the callback *)
(* of the connection, if the player's id is known by then, and once by the *)
(* injection thread, on the link it finds; or a packet of the game comes   *)
(* before both, and the relay closes the link.                             *)
(***************************************************************************)
EXTENDS Naturals, FiniteSets

CONSTANTS
    Clients,          \* the hook's clients; each is its own id
    Zero,             \* the id of a client that has not found its own
    Links,            \* TCP connections that exist at one time
    NoLink,
    MaxConnections    \* MAX_CONNECTIONS

ASSUME RejoinAssumption ==
    /\ NoLink \notin Links /\ Zero \notin Clients
    /\ IsFiniteSet(Links) /\ MaxConnections \in Nat

VARIABLES
    state, owner,     \* of RelayService
    accepted,         \* connections in the relay's table
    first,            \* the first packet on a link: not sent, a mark, data of
                      \* the game, or a mark that the relay has read
    by,               \* the client that made the link, while it is open
    current,          \* the link a client takes for connected
    greeting,         \* clients whose callback has not come to registering
    injection, g_localSteamID,
    stranded,         \* clients that will not connect again
    calm              \* whether the network, the relay and the game behave

relayVars  == <<state, owner, accepted>>
clientVars == <<current, greeting, injection, g_localSteamID, stranded>>
vars       == <<relayVars, first, by, clientVars, calm>>

Ids      == Clients \cup {Zero}
NoClient == Zero

Relay == INSTANCE RelayService WITH
    Conns <- Links, Marks <- Ids, NoConn <- NoLink, Pieces <- 1,
    Program <- [l \in Links |-> <<>>], stream <- [l \in Links |-> <<>>]

\* Shape of the state.
TypeOK ==
    /\ state \in [Links -> {"unborn", "up", "ended", "closed"}]
    /\ owner \in [Ids -> Links \cup {NoLink}]
    /\ accepted \subseteq Links
    /\ first \in [Links -> {"none", "mark", "data", "read"}]
    /\ by \in [Links -> Clients \cup {NoClient}]
    /\ current \in [Clients -> Links \cup {NoLink}]
    /\ greeting \subseteq Clients /\ stranded \subseteq Clients
    /\ injection \in [Clients -> {"attach", "hooked", "named", "done"}]
    /\ g_localSteamID \in [Clients -> Ids]
    /\ calm \in BOOLEAN

\* A client whose very first connect() fails never tries again.
Init ==
    /\ Relay!Init
    /\ accepted = {} /\ first = [l \in Links |-> "none"]
    /\ by = [l \in Links |-> NoClient]
    /\ current = [c \in Clients |-> NoLink]
    /\ greeting = {} /\ stranded \in SUBSET Clients
    /\ injection = [c \in Clients |-> "attach"]
    /\ g_localSteamID = [c \in Clients |-> Zero]
    /\ calm = FALSE

----------------------------------------------------------------------------
\* A client.

\* A connect() that succeeds.
Reconnect(c, l) ==
    /\ current[c] = NoLink /\ c \notin stranded
    /\ Relay!Arrive(l)
    /\ by' = [by EXCEPT ![l] = c]
    /\ current' = [current EXCEPT ![c] = l]
    /\ greeting' = greeting \cup {c}
    /\ injection' = [injection EXCEPT ![c] = IF @ = "attach" THEN "hooked" ELSE @]
    /\ UNCHANGED <<accepted, first, g_localSteamID, stranded, calm>>

\* A packet on c's link: it counts if it is the first.
Sends(c, packet) ==
    first' = [l \in Links |->
        IF l = current[c] /\ state[l] = "up" /\ first[l] = "none" THEN packet ELSE first[l]]

CallbackOnlyStores(c) == UNCHANGED first

\* The callback registers if the id is known.
CallbackRegisters(c) ==
    IF g_localSteamID[c] # Zero THEN Sends(c, "mark") ELSE UNCHANGED first

CallbackGreets(c) ==
    /\ c \in greeting
    /\ greeting' = greeting \ {c}
    /\ CallbackRegisters(c)
    /\ UNCHANGED <<relayVars, by, current, injection, g_localSteamID, stranded, calm>>

\* The injection thread asks for the id once, and may be told that there is
\* none; it registers whatever it got, on the link whose callback has stored
\* the peer by then.
GetLocalSteamID(c) ==
    /\ injection[c] = "hooked"
    /\ injection' = [injection EXCEPT ![c] = "named"]
    /\ \E id \in {c, Zero} : g_localSteamID' = [g_localSteamID EXCEPT ![c] = id]
    /\ UNCHANGED <<relayVars, first, by, current, greeting, stranded, calm>>

InjectionRegisters(c) ==
    /\ injection[c] = "named"
    /\ injection' = [injection EXCEPT ![c] = "done"]
    /\ Sends(c, "mark") \/ (c \in greeting /\ UNCHANGED first)
    /\ UNCHANGED <<relayVars, by, current, greeting, g_localSteamID, stranded, calm>>

\* The game's thread sends, and overtakes both.  Where there is no id, nobody
\* registers, and its packets are the first at any time.
GameSends(c) ==
    /\ injection[c] # "attach"
    /\ ~calm \/ (injection[c] = "done" /\ g_localSteamID[c] = Zero)
    /\ Sends(c, "data")
    /\ UNCHANGED <<relayVars, by, clientVars, calm>>

\* recv() or send() shows that the connection is lost: it is closed, and a
\* reconnection scheduled.
Lost(c) == current[c] # NoLink /\ state[current[c]] # "up" /\ c \notin greeting

NoticeLoss(c) ==
    /\ Lost(c)
    /\ current' = [current EXCEPT ![c] = NoLink]
    /\ UNCHANGED <<relayVars, first, by, greeting, injection, g_localSteamID, stranded, calm>>

\* The game's send() shows it while the pump thread clears m_pendingRemove:
\* nothing is scheduled.
ForgetLoss(c) ==
    /\ Lost(c)
    /\ current' = [current EXCEPT ![c] = NoLink]
    /\ stranded' = stranded \cup {c}
    /\ UNCHANGED <<relayVars, first, by, greeting, injection, g_localSteamID, calm>>

----------------------------------------------------------------------------
\* The relay.

CloseLinks(S) ==
    /\ Relay!Close(S)
    /\ accepted' = accepted \ S
    /\ first' = [l \in Links |-> IF l \in S THEN "none" ELSE first[l]]
    /\ by' = [l \in Links |-> IF l \in S THEN NoClient ELSE by[l]]
    /\ UNCHANGED <<clientVars, calm>>

Waiting(l) == state[l] \in Relay!Open /\ l \notin accepted

Accept(l) ==
    /\ Waiting(l) /\ Cardinality(accepted) < MaxConnections
    /\ accepted' = accepted \cup {l}
    /\ UNCHANGED <<state, owner, first, by, clientVars, calm>>

RefuseFull(l) ==
    /\ Waiting(l) /\ Cardinality(accepted) >= MaxConnections
    /\ CloseLinks({l})

\* A registration is read, also from a link that has ended since.
Register(l) ==
    /\ l \in accepted /\ first[l] = "mark"
    /\ Relay!Bind(l, g_localSteamID[by[l]])
    /\ first' = [first EXCEPT ![l] = "read"]
    /\ UNCHANGED <<accepted, by, clientVars, calm>>

\* The name is taken.
IgnoreTaken(l) ==
    /\ first' = [first EXCEPT ![l] = "read"]
    /\ UNCHANGED <<relayVars, by, clientVars, calm>>

CloseTaken(l) == CloseLinks({l})

RefuseTaken(l) ==
    /\ l \in accepted /\ first[l] = "mark"
    /\ owner[g_localSteamID[by[l]]] # NoLink
    /\ CloseTaken(l)

\* The first packet is no registration.
RefuseData(l) ==
    /\ l \in accepted /\ first[l] = "data"
    /\ CloseLinks({l})

CloseEnded(l) ==
    /\ l \in accepted /\ state[l] = "ended"
    /\ CloseLinks({l})

----------------------------------------------------------------------------
\* Faults and the rest of the environment (external).

\* A connection breaks: cable, NAT, keep-alive.
Break(l) ==
    /\ ~calm
    /\ Relay!End(l)
    /\ UNCHANGED <<accepted, first, by, clientVars, calm>>

\* The relay closes a healthy connection on another's stale event.
StaleHangup(l) ==
    /\ ~calm /\ l \in accepted
    /\ CloseLinks({l})

\* The relay process ends and is started again: its tables are empty.
Restart ==
    /\ ~calm
    /\ CloseLinks({l \in Links : state[l] \in Relay!Open})

Weather ==
    /\ ~calm /\ calm' = TRUE
    /\ UNCHANGED <<relayVars, first, by, clientVars>>

\* The names of links are used again.
Recycle(l) ==
    /\ state[l] = "closed" /\ \A c \in Clients : current[c] # l
    /\ state' = [state EXCEPT ![l] = "unborn"]
    /\ UNCHANGED <<owner, accepted, first, by, clientVars, calm>>

----------------------------------------------------------------------------
Handle(l) ==
    \/ Accept(l) \/ RefuseFull(l)
    \/ Register(l) \/ RefuseTaken(l) \/ RefuseData(l)
    \/ CloseEnded(l)

Connects(c) == \E l \in Links : Reconnect(c, l)

Injects(c) == GetLocalSteamID(c) \/ InjectionRegisters(c)

Next ==
    \/ \E c \in Clients :
         \/ Connects(c) \/ CallbackGreets(c) \/ NoticeLoss(c)
         \/ Injects(c) \/ GameSends(c) \/ ForgetLoss(c)
    \/ \E l \in Links : Handle(l) \/ Break(l) \/ StaleHangup(l) \/ Recycle(l)
    \/ Restart \/ Weather

Spec == Init /\ [][Next]_vars

\* The relay handles every link that is ready.  The pump thread of each client
\* makes its callbacks, reads its socket and retries, until the client is
\* stranded; its injection thread gets on, once the game has set itself up.  A
\* link's name becomes free again.  (A client that is down can always connect;
\* that the model may be short of names for a moment makes it SF.)
Fairness ==
    /\ \A l \in Links : WF_vars(Handle(l)) /\ WF_vars(Recycle(l))
    /\ \A c \in Clients :
         /\ WF_vars(CallbackGreets(c)) /\ WF_vars(NoticeLoss(c)) /\ SF_vars(Connects(c))
         /\ WF_vars(Injects(c))

FairSpec == Spec /\ Fairness

----------------------------------------------------------------------------
\* No client that knows its id sits on a connection that nobody will ever send
\* to: once its injection thread is done and its callback has returned, its
\* link is lost, or on the way to be closed or registered, or owns its name.
\* The registration was sent by one of the two whatever their order, and a link
\* whose registration was refused is closed, never kept (ConnectionCallback,
\* InjectionThread, process_packet's return value).
NoDeafClient ==
    \A c \in Clients :
      LET l == current[c] IN
      /\ g_localSteamID[c] # Zero /\ injection[c] = "done"
      /\ l # NoLink /\ state[l] = "up" /\ c \notin greeting
      => first[l] \in {"mark", "data"} \/ owner[c] = l

\* Once the network and the relay behave, and no packet of the game comes before
\* a registration, every client that has an id and is not stranded gets its
\* name back for good, however many dead connections of its own hold the name
\* and the places when it returns: refusals end, because close_connection
\* frees both.
Rejoined ==
    <>[]calm =>
      \A c \in Clients :
        <>[](\/ c \in stranded \/ g_localSteamID[c] = Zero
             \/ current[c] # NoLink /\ owner[c] = current[c])

=============================================================================
