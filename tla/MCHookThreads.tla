--------------------------- MODULE MCHookThreads ---------------------------
\* Instance of HookThreads for TLC.
EXTENDS HookThreads

\* The game's reads are HookThreads' own steps.
ThreadCalls == {"connect", "auto", "send"}

=============================================================================
