-------------------------- MODULE MCChannelClients ------------------------
\* The foreground and three tasks on one channel: with the server on one side
\* two tasks compete on the other.
EXTENDS ChannelClients

CONSTANTS fg, a, b, d, sent, received, none

MCTasks == {fg, a, b, d}
MCSemaphores == {sent, received}
MCNodes == MCTasks \cup MCSemaphores
MCChans == {chan}
MCSentOf == [ch \in MCChans |-> sent]
MCReceivedOf == [ch \in MCChans |-> received]
MCMessages == {a, b, d} \X {0, 1}
============================================================================
