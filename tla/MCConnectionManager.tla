------------------------ MODULE MCConnectionManager ------------------------
\* Instances of ConnectionManager for TLC: who calls what.
EXTENDS ConnectionManager

\* The hook: connects once, enables reconnection at once, sends and reads.
HookCalls == {"connect", "auto", "send", "read"}

\* An application that uses the whole interface.
ApiCalls == HookCalls \cup {"disconnect", "listen", "shutdown"}

=============================================================================
