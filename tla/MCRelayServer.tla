--------------------------- MODULE MCRelayServer ---------------------------
\* Instances of RelayServer for TLC.
EXTENDS RelayRefinement, TLC

CONSTANTS c1, c2, c3, m1, m2

Reg(m)  == [size |-> "mark", mark |-> m]
Data(m) == [size |-> "data", mark |-> m]

\* c1 sends to the holder of m2; c3 wants c1's name, and sends there too.
RoutingProgram ==
    c1 :> <<Reg(m1), Data(m2), Data(m2)>> @@ c2 :> <<Reg(m2)>>
    @@ c3 :> <<Reg(m1), Data(m2)>>

Short   == [size |-> "short", mark |-> m1]
Illegal == [size |-> "illegal", mark |-> m1]

\* Every outcome of process_packet: c1 also sends to itself, c2 sends packets
\* that are dropped, c3 never registers.
ErrorProgram ==
    c1 :> <<Reg(m1), Data(m1), Reg(m2), Illegal>> @@ c2 :> <<Reg(m2), Short>>
    @@ c3 :> <<Short>>

\* Two clients that talk to each other.
TalkProgram ==
    c1 :> <<Reg(m1), Data(m2)>> @@ c2 :> <<Reg(m2), Data(m1)>>

=============================================================================
