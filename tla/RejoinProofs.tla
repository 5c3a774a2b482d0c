---------------------------- MODULE RejoinProofs ----------------------------
\* Proofs about Rejoin, for any clients, links and size of the table.
EXTENDS Rejoin, TLAPS

\* A client's current link is one it made itself, and not a free name.
OwnLinks ==
    \A c \in Clients :
      current[c] # NoLink =>
        /\ state[current[c]] # "unborn"
        /\ state[current[c]] \in Relay!Open => by[current[c]] = c

\* An open link was made by somebody; nothing is known of any other.
LinksMade ==
    \A l \in Links :
      IF state[l] \in Relay!Open THEN by[l] \in Clients
      ELSE first[l] = "none" /\ by[l] = NoClient

\* A client has no id but its own, and registers nothing before it has asked.
OwnIds ==
    \A c \in Clients :
      /\ g_localSteamID[c] \in {c, Zero}
      /\ injection[c] \in {"attach", "hooked"} =>
           /\ g_localSteamID[c] = Zero
           /\ \A l \in Links : by[l] = c => first[l] \in {"none", "data"}

\* A registration that was read and not refused holds its name.
ReadOwns ==
    \A l \in Links :
      first[l] = "read" => by[l] \in Clients /\ owner[g_localSteamID[by[l]]] = l

Inv == TypeOK /\ OwnLinks /\ LinksMade /\ OwnIds /\ ReadOwns /\ NoDeafClient

LEMMA InitInv == Init => Inv
<1> SUFFICES ASSUME Init PROVE Inv
  OBVIOUS
<1>1. /\ state = [l \in Links |-> "unborn"] /\ owner = [m \in Ids |-> NoLink]
      /\ accepted = {} /\ first = [l \in Links |-> "none"]
      /\ by = [l \in Links |-> NoClient] /\ current = [c \in Clients |-> NoLink]
      /\ greeting = {} /\ stranded \in SUBSET Clients
      /\ injection = [c \in Clients |-> "attach"]
      /\ g_localSteamID = [c \in Clients |-> Zero] /\ calm = FALSE
  BY DEF Init, Relay!Init
<1>2. TypeOK
  BY <1>1 DEF TypeOK, Ids, NoClient
<1>3. OwnLinks /\ LinksMade /\ OwnIds
  BY <1>1 DEF OwnLinks, LinksMade, OwnIds, Relay!Open
<1>4. ReadOwns /\ NoDeafClient
  BY <1>1 DEF ReadOwns, NoDeafClient
<1> QED
  BY <1>2, <1>3, <1>4 DEF Inv

\* Closing links keeps the invariant, whichever they are: the links that stay
\* keep their name and their registration.
LEMMA CloseKeepsInv ==
    ASSUME Inv, NEW S \in SUBSET Links, CloseLinks(S)
    PROVE  Inv'
<1>1. /\ state' = [l \in Links |-> IF l \in S THEN "closed" ELSE state[l]]
      /\ owner' = [m \in Ids |-> IF owner[m] \in S THEN NoLink ELSE owner[m]]
      /\ accepted' = accepted \ S
      /\ first' = [l \in Links |-> IF l \in S THEN "none" ELSE first[l]]
      /\ by' = [l \in Links |-> IF l \in S THEN NoClient ELSE by[l]]
      /\ UNCHANGED <<current, greeting, injection, g_localSteamID, stranded, calm>>
  BY DEF CloseLinks, Relay!Close, Relay!NamesFreed, clientVars
<1>2. TypeOK'
  BY <1>1 DEF Inv, TypeOK
<1>3. OwnLinks'
  BY <1>1 DEF Inv, TypeOK, OwnLinks, Relay!Open
<1>4. LinksMade'
  BY <1>1 DEF Inv, TypeOK, LinksMade, Relay!Open
<1>5. OwnIds'
  BY <1>1, RejoinAssumption DEF Inv, TypeOK, OwnIds, NoClient
<1>6. ReadOwns'
  BY <1>1 DEF Inv, TypeOK, ReadOwns, Ids
<1>7. NoDeafClient'
  BY <1>1 DEF Inv, TypeOK, NoDeafClient, Ids
<1> QED
  BY <1>2, <1>3, <1>4, <1>5, <1>6, <1>7 DEF Inv

\* A new link is in no other client's hands, since its name was free.
LEMMA ReconnectKeepsInv ==
    ASSUME Inv, NEW c \in Clients, NEW l \in Links, Reconnect(c, l)
    PROVE  Inv'
<1>1. /\ current[c] = NoLink /\ state[l] = "unborn"
      /\ state' = [state EXCEPT ![l] = "up"]
      /\ by' = [by EXCEPT ![l] = c]
      /\ current' = [current EXCEPT ![c] = l]
      /\ greeting' = greeting \cup {c}
      /\ injection' = [injection EXCEPT ![c] = IF @ = "attach" THEN "hooked" ELSE @]
      /\ UNCHANGED <<owner, accepted, first, g_localSteamID, stranded, calm>>
  BY DEF Reconnect, Relay!Arrive
<1>2. first[l] = "none"
  BY <1>1 DEF Inv, LinksMade, Relay!Open
<1>3. TypeOK'
  BY <1>1 DEF Inv, TypeOK
<1>4. OwnLinks'
  BY <1>1, RejoinAssumption DEF Inv, TypeOK, OwnLinks, Relay!Open
<1>5. LinksMade'
  BY <1>1 DEF Inv, TypeOK, LinksMade, Relay!Open
<1>6. OwnIds'
  BY <1>1, <1>2 DEF Inv, TypeOK, OwnIds
<1>7. ReadOwns'
  BY <1>1, <1>2 DEF Inv, TypeOK, ReadOwns
<1>8. NoDeafClient'
  BY <1>1, RejoinAssumption DEF Inv, TypeOK, OwnLinks, NoDeafClient
<1> QED
  BY <1>3, <1>4, <1>5, <1>6, <1>7, <1>8 DEF Inv

\* A packet on the client's link: a mark only once the client has asked for its
\* id.
LEMMA SendsKeepsInv ==
    ASSUME Inv, NEW c \in Clients, NEW packet \in {"mark", "data"}, Sends(c, packet),
           packet = "mark" => injection[c] \notin {"attach", "hooked"},
           UNCHANGED <<state, owner, accepted, by, current>>
    PROVE  /\ first' \in [Links -> {"none", "mark", "data", "read"}]
           /\ LinksMade'
           /\ \A l \in Links : first'[l] = "read" => first[l] = "read"
           /\ \A l \in Links : first[l] # "none" => first'[l] = first[l]
           /\ \A d \in Clients : injection[d] \in {"attach", "hooked"} =>
                \A l \in Links : by[l] = d => first'[l] \in {"none", "data"}
           /\ current[c] # NoLink /\ state[current[c]] = "up" => first'[current[c]] # "none"
<1>1. first' = [l \in Links |->
        IF l = current[c] /\ state[l] = "up" /\ first[l] = "none" THEN packet ELSE first[l]]
  BY DEF Sends
<1>2. first' \in [Links -> {"none", "mark", "data", "read"}]
  BY <1>1 DEF Inv, TypeOK
<1>3. LinksMade'
  BY <1>1 DEF Inv, TypeOK, LinksMade, Relay!Open
<1>4. \A d \in Clients : injection[d] \in {"attach", "hooked"} =>
        \A l \in Links : by[l] = d => first'[l] \in {"none", "data"}
  <2> SUFFICES ASSUME NEW d \in Clients, injection[d] \in {"attach", "hooked"},
                      NEW l \in Links, by[l] = d
               PROVE  first'[l] \in {"none", "data"}
    OBVIOUS
  <2>1. first[l] \in {"none", "data"}
    BY DEF Inv, OwnIds
  <2>2. CASE l = current[c] /\ state[l] = "up" /\ first[l] = "none"
    <3>1. by[l] = c
      BY <2>2, RejoinAssumption DEF Inv, OwnLinks, Relay!Open
    <3> QED
      BY <1>1, <2>2, <3>1
  <2>3. CASE ~(l = current[c] /\ state[l] = "up" /\ first[l] = "none")
    BY <1>1, <2>1, <2>3
  <2> QED
    BY <2>2, <2>3
<1>5. current[c] # NoLink /\ state[current[c]] = "up" => first'[current[c]] # "none"
  BY <1>1 DEF Inv, TypeOK
<1> QED
  BY <1>1, <1>2, <1>3, <1>4, <1>5

\* What is left of the invariant when packets are sent and clients step: a
\* client whose link has a first packet is not deaf.
LEMMA QuietKeepsInv ==
    ASSUME Inv, UNCHANGED <<state, owner, accepted, by, current, g_localSteamID, calm>>,
           first' \in [Links -> {"none", "mark", "data", "read"}], LinksMade',
           \A l \in Links : first'[l] = "read" => first[l] = "read",
           \A l \in Links : first[l] # "none" => first'[l] = first[l],
           greeting' \subseteq Clients, stranded' \subseteq Clients,
           injection' \in [Clients -> {"attach", "hooked", "named", "done"}],
           \A d \in Clients : injection'[d] \in {"attach", "hooked"} =>
             /\ injection[d] \in {"attach", "hooked"}
             /\ \A l \in Links : by[l] = d => first'[l] \in {"none", "data"},
           \A d \in Clients :
             \/ (injection'[d] = "done" => injection[d] = "done")
                /\ (d \in greeting => d \in greeting')
             \/ d \in greeting'
             \/ g_localSteamID[d] = Zero
             \/ current[d] # NoLink /\ state[current[d]] = "up" => first'[current[d]] # "none"
    PROVE  Inv'
<1>1. TypeOK'
  BY DEF Inv, TypeOK
<1>2. OwnLinks'
  BY DEF Inv, OwnLinks
<1>3. OwnIds'
  BY DEF Inv, OwnIds
<1>4. ReadOwns'
  BY DEF Inv, ReadOwns
<1>5. NoDeafClient'
  <2> SUFFICES ASSUME NEW d \in Clients,
                      g_localSteamID[d] # Zero, injection'[d] = "done", current[d] # NoLink,
                      state[current[d]] = "up", d \notin greeting'
               PROVE  first'[current[d]] \in {"mark", "data"} \/ owner[d] = current[d]
    BY DEF NoDeafClient
  <2>1. current[d] \in Links
    BY DEF Inv, TypeOK
  <2>2. CASE injection[d] = "done" /\ d \notin greeting
    BY <2>1, <2>2 DEF Inv, NoDeafClient
  <2>3. CASE first'[current[d]] # "none"
    <3>1. CASE first'[current[d]] = "read"
      <4>1. by[current[d]] = d
        BY DEF Inv, OwnLinks, Relay!Open
      <4>2. owner[g_localSteamID[d]] = current[d]
        BY <2>1, <3>1, <4>1 DEF Inv, ReadOwns
      <4> QED
        BY <4>2 DEF Inv, OwnIds
    <3> QED
      BY <2>1, <2>3, <3>1
  <2> QED
    BY <2>2, <2>3
<1> QED
  BY <1>1, <1>2, <1>3, <1>4, <1>5 DEF Inv

LEMMA CallbackGreetsKeepsInv ==
    ASSUME Inv, NEW c \in Clients, CallbackGreets(c)
    PROVE  Inv'
<1>1. /\ UNCHANGED <<state, owner, accepted, by, current, injection, g_localSteamID, stranded, calm>>
      /\ greeting' = greeting \ {c} /\ CallbackRegisters(c)
  BY DEF CallbackGreets, relayVars
<1>2. injection \in [Clients -> {"attach", "hooked", "named", "done"}] /\ stranded \subseteq Clients
      /\ greeting' \subseteq Clients
  BY <1>1 DEF Inv, TypeOK
<1>3. CASE g_localSteamID[c] # Zero
  <2>1. injection[c] \notin {"attach", "hooked"}
    BY <1>3 DEF Inv, OwnIds
  <2>2. Sends(c, "mark")
    BY <1>1, <1>3 DEF CallbackRegisters
  <2> HIDE DEF Sends, CallbackRegisters
  <2> QED
    BY <1>1, <1>2, <2>1, <2>2, SendsKeepsInv, QuietKeepsInv
<1>4. CASE g_localSteamID[c] = Zero
  <2>1. UNCHANGED first
    BY <1>1, <1>4 DEF CallbackRegisters
  <2>2. /\ first \in [Links -> {"none", "mark", "data", "read"}] /\ LinksMade'
        /\ \A d \in Clients : injection[d] \in {"attach", "hooked"} =>
             \A l \in Links : by[l] = d => first[l] \in {"none", "data"}
    BY <1>1, <2>1 DEF Inv, TypeOK, OwnIds, LinksMade
  <2> QED
    BY <1>1, <1>2, <1>4, <2>1, <2>2, QuietKeepsInv
<1> QED
  BY <1>3, <1>4

LEMMA InjectionRegistersKeepsInv ==
    ASSUME Inv, NEW c \in Clients, InjectionRegisters(c)
    PROVE  Inv'
<1>1. /\ UNCHANGED <<state, owner, accepted, by, current, greeting, g_localSteamID, stranded, calm>>
      /\ injection[c] = "named" /\ injection' = [injection EXCEPT ![c] = "done"]
      /\ Sends(c, "mark") \/ (c \in greeting /\ UNCHANGED first)
  BY DEF InjectionRegisters, relayVars
<1>2. /\ injection' \in [Clients -> {"attach", "hooked", "named", "done"}]
      /\ stranded \subseteq Clients /\ greeting \subseteq Clients
      /\ \A d \in Clients : d # c => injection'[d] = injection[d]
      /\ injection'[c] = "done"
  BY <1>1 DEF Inv, TypeOK
<1>3. CASE Sends(c, "mark")
  BY <1>1, <1>2, <1>3, SendsKeepsInv, QuietKeepsInv
<1>4. CASE c \in greeting /\ UNCHANGED first
  <2>1. /\ first \in [Links -> {"none", "mark", "data", "read"}] /\ LinksMade'
        /\ \A d \in Clients : injection[d] \in {"attach", "hooked"} =>
             \A l \in Links : by[l] = d => first[l] \in {"none", "data"}
    BY <1>1, <1>4 DEF Inv, TypeOK, OwnIds, LinksMade
  <2> QED
    BY <1>1, <1>2, <1>4, <2>1, QuietKeepsInv
<1> QED
  BY <1>1, <1>3, <1>4

LEMMA GameSendsKeepsInv ==
    ASSUME Inv, NEW c \in Clients, GameSends(c)
    PROVE  Inv'
<1>1. /\ UNCHANGED <<state, owner, accepted, by, current, greeting, injection, g_localSteamID,
                     stranded, calm>>
      /\ Sends(c, "data")
  BY DEF GameSends, relayVars, clientVars
<1>2. /\ injection \in [Clients -> {"attach", "hooked", "named", "done"}]
      /\ stranded \subseteq Clients /\ greeting \subseteq Clients
  BY DEF Inv, TypeOK
<1> QED
  BY <1>1, <1>2, SendsKeepsInv, QuietKeepsInv

\* The id is asked for when nothing was registered yet.
LEMMA GetLocalSteamIDKeepsInv ==
    ASSUME Inv, NEW c \in Clients, GetLocalSteamID(c)
    PROVE  Inv'
<1>1. PICK id \in {c, Zero} :
        /\ injection[c] = "hooked"
        /\ injection' = [injection EXCEPT ![c] = "named"]
        /\ g_localSteamID' = [g_localSteamID EXCEPT ![c] = id]
        /\ UNCHANGED <<state, owner, accepted, first, by, current, greeting, stranded, calm>>
  BY DEF GetLocalSteamID, relayVars
<1>2. TypeOK'
  BY <1>1 DEF Inv, TypeOK, Ids
<1>3. OwnLinks' /\ LinksMade'
  BY <1>1 DEF Inv, OwnLinks, LinksMade
<1>4. OwnIds'
  BY <1>1 DEF Inv, TypeOK, OwnIds
<1>5. ReadOwns'
  BY <1>1 DEF Inv, TypeOK, OwnIds, ReadOwns
<1>6. NoDeafClient'
  BY <1>1 DEF Inv, TypeOK, NoDeafClient
<1> QED
  BY <1>2, <1>3, <1>4, <1>5, <1>6 DEF Inv

\* A client that lets go of its link is not deaf.
LEMMA LossKeepsInv ==
    ASSUME Inv, NEW c \in Clients, NoticeLoss(c) \/ ForgetLoss(c)
    PROVE  Inv'
<1>1. /\ current' = [current EXCEPT ![c] = NoLink]
      /\ stranded' \in {stranded, stranded \cup {c}}
      /\ UNCHANGED <<state, owner, accepted, first, by, greeting, injection, g_localSteamID, calm>>
  BY DEF NoticeLoss, ForgetLoss, relayVars
<1> QED
  BY <1>1, RejoinAssumption DEF Inv, TypeOK, OwnLinks, LinksMade, OwnIds, ReadOwns, NoDeafClient

\* The name goes to the client that made the link, and was nobody's.
LEMMA RegisterKeepsInv ==
    ASSUME Inv, NEW l \in Links, Register(l)
    PROVE  Inv'
<1> DEFINE m == g_localSteamID[by[l]]
<1>1. /\ first[l] = "mark" /\ state[l] \in Relay!Open /\ owner[m] = NoLink
      /\ owner' = [owner EXCEPT ![m] = l]
      /\ first' = [first EXCEPT ![l] = "read"]
      /\ UNCHANGED <<state, accepted, by, current, greeting, injection, g_localSteamID,
                     stranded, calm>>
  BY DEF Register, Relay!Bind, clientVars
<1>2. by[l] \in Clients /\ m \in {by[l], Zero} /\ m \in Ids
  BY <1>1 DEF Inv, LinksMade, OwnIds, Ids
<1> HIDE DEF m
<1>3. TypeOK'
  BY <1>1, <1>2 DEF Inv, TypeOK
<1>4. OwnLinks'
  BY <1>1 DEF Inv, OwnLinks
<1>5. LinksMade'
  BY <1>1 DEF Inv, TypeOK, LinksMade
<1>6. OwnIds'
  BY <1>1 DEF Inv, TypeOK, OwnIds, m
<1>7. ReadOwns'
  <2> SUFFICES ASSUME NEW k \in Links, first'[k] = "read"
               PROVE  by[k] \in Clients /\ owner'[g_localSteamID[by[k]]] = k
    BY <1>1 DEF ReadOwns
  <2>1. CASE k = l
    BY <1>1, <1>2, <2>1 DEF Inv, TypeOK, m
  <2>2. CASE k # l
    <3>1. by[k] \in Clients /\ owner[g_localSteamID[by[k]]] = k
      BY <1>1, <2>2 DEF Inv, TypeOK, ReadOwns
    <3>2. g_localSteamID[by[k]] \in Ids /\ g_localSteamID[by[k]] # m
      BY <1>1, <3>1, RejoinAssumption DEF Inv, TypeOK
    <3> QED
      BY <1>1, <3>1, <3>2 DEF Inv, TypeOK
  <2> QED
    BY <2>1, <2>2
<1>8. NoDeafClient'
  <2> SUFFICES ASSUME NEW d \in Clients,
                      g_localSteamID[d] # Zero, injection[d] = "done", current[d] # NoLink,
                      state[current[d]] = "up", d \notin greeting
               PROVE  first'[current[d]] \in {"mark", "data"} \/ owner'[d] = current[d]
    BY <1>1 DEF NoDeafClient
  <2>1. current[d] \in Links /\ d \in Ids /\ by[current[d]] = d /\ g_localSteamID[d] = d
    BY DEF Inv, TypeOK, OwnLinks, OwnIds, Ids, Relay!Open
  <2>2. first[current[d]] \in {"mark", "data"} \/ owner[d] = current[d]
    BY DEF Inv, NoDeafClient
  <2>3. CASE current[d] = l
    BY <1>1, <2>1, <2>3 DEF Inv, TypeOK, m
  <2>4. CASE current[d] # l
    BY <1>1, <1>2, <2>1, <2>2, <2>4 DEF Inv, TypeOK
  <2> QED
    BY <2>3, <2>4
<1> QED
  BY <1>3, <1>4, <1>5, <1>6, <1>7, <1>8 DEF Inv

LEMMA HandleKeepsInv ==
    ASSUME Inv, NEW l \in Links, Handle(l)
    PROVE  Inv'
<1>1. CASE Accept(l)
  BY <1>1 DEF Accept, clientVars, Inv, TypeOK, OwnLinks, LinksMade, OwnIds, ReadOwns, NoDeafClient
<1>2. CASE RefuseFull(l) \/ RefuseTaken(l) \/ RefuseData(l) \/ CloseEnded(l)
  BY <1>2, CloseKeepsInv DEF RefuseFull, RefuseTaken, CloseTaken, RefuseData, CloseEnded
<1>3. CASE Register(l)
  BY <1>3, RegisterKeepsInv
<1> QED
  BY <1>1, <1>2, <1>3 DEF Handle

LEMMA NextKeepsInv == Inv /\ [Next]_vars => Inv'
<1> SUFFICES ASSUME Inv, [Next]_vars PROVE Inv'
  OBVIOUS
<1>1. ASSUME NEW c \in Clients, Connects(c) PROVE Inv'
  BY <1>1, ReconnectKeepsInv DEF Connects
<1>2. ASSUME NEW c \in Clients, NoticeLoss(c) \/ ForgetLoss(c) PROVE Inv'
  BY <1>2, LossKeepsInv
<1>3. ASSUME NEW c \in Clients, CallbackGreets(c) PROVE Inv'
  BY <1>3, CallbackGreetsKeepsInv
<1>4. ASSUME NEW c \in Clients, Injects(c) PROVE Inv'
  BY <1>4, GetLocalSteamIDKeepsInv, InjectionRegistersKeepsInv DEF Injects
<1>5. ASSUME NEW c \in Clients, GameSends(c) PROVE Inv'
  BY <1>5, GameSendsKeepsInv
<1>6. ASSUME NEW l \in Links, Handle(l) PROVE Inv'
  BY <1>6, HandleKeepsInv
<1>7. ASSUME NEW l \in Links, Break(l) PROVE Inv'
  BY <1>7 DEF Break, Relay!End, Relay!Open, clientVars, Inv, TypeOK, OwnLinks, LinksMade, OwnIds,
       ReadOwns, NoDeafClient
<1>8. ASSUME NEW l \in Links, StaleHangup(l) PROVE Inv'
  BY <1>8, CloseKeepsInv DEF StaleHangup
<1>9. ASSUME NEW l \in Links, Recycle(l) PROVE Inv'
  BY <1>9 DEF Recycle, Relay!Open, clientVars, Inv, TypeOK, OwnLinks, LinksMade, OwnIds,
       ReadOwns, NoDeafClient
<1>10. CASE Restart
  BY <1>10, CloseKeepsInv DEF Restart
<1>11. CASE Weather
  BY <1>11 DEF Weather, relayVars, clientVars, Inv, TypeOK, OwnLinks, LinksMade, OwnIds,
       ReadOwns, NoDeafClient
<1>12. CASE UNCHANGED vars
  BY <1>12 DEF vars, relayVars, clientVars, Inv, TypeOK, OwnLinks, LinksMade, OwnIds,
       ReadOwns, NoDeafClient
<1> QED
  BY <1>1, <1>2, <1>3, <1>4, <1>5, <1>6, <1>7, <1>8, <1>9, <1>10, <1>11, <1>12 DEF Next

\* However links break, the relay refuses, misfires or restarts, whenever the
\* player's id is found and whichever thread sends first: no client that knows
\* its id sits on a link that is up, neither registered nor about to be
\* registered or closed (ConnectionCallback, InjectionThread, process_packet's
\* refusals, close_connection).
THEOREM RejoinNoDeafClient == Spec => []NoDeafClient
<1>1. Inv => NoDeafClient
  BY DEF Inv
<1> QED
  BY <1>1, InitInv, NextKeepsInv, PTL DEF Spec

=============================================================================
