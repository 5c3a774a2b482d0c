-------------------------- MODULE RelayRefinement --------------------------
\* RelayServer implements RelayService: the refinement mapping.
EXTENDS RelayServer

\* A client that closed or vanished has ended, whatever the server knows.
ServiceState ==
    [c \in Conns |-> IF link[c] \in {"fin", "reset"} THEN "ended"
                     ELSE link[c]]

ServiceOwner ==
    [m \in Marks |-> IF g_mark_to_fd[m] = NoFd THEN NoConn ELSE sock[g_mark_to_fd[m]]]

\* Read by the client, in the kernel's queue, or still in the relay's send_buf.
Buffered(c) ==
    IF \E fd \in g_connections : sock[fd] = c
      THEN send_buf[CHOOSE fd \in g_connections : sock[fd] = c]
      ELSE <<>>

ServiceStream == [c \in Conns |-> rcvd[c] \o sndq[c] \o Buffered(c)]

Service == INSTANCE RelayService WITH
    state <- ServiceState, owner <- ServiceOwner, stream <- ServiceStream

\* Seen through the mapping, every step of the server and its clients is one
\* the service allows, or none: a registration takes a free name only, a
\* forward appends one whole frame to the stream of the name's owner at that
\* moment, whichever descriptor it has by now, and closing cuts a stream but
\* changes no other (process_packet, flush_send_buffer, close_connection).
ServiceSpec == Service!Spec

=============================================================================
