---------------------------- MODULE MCRendezvous --------------------------
\* The foreground, a server and two clients; two rendezvous "put" and "get".
EXTENDS Rendezvous

CONSTANTS fg, a, b, none

MCTasks == {fg, acceptor, a, b}
MCRdvs == {"put", "get"}
MCArgOf == [put |-> "put.arg", get |-> "get.arg"]
MCResOf == [put |-> "put.res", get |-> "get.res"]
MCChans == {"put.arg", "put.res", "get.arg", "get.res"}
MCSentOf == [c \in MCChans |->
  CASE c = "put.arg" -> "put.arg.sent" [] c = "put.res" -> "put.res.sent"
    [] c = "get.arg" -> "get.arg.sent" [] c = "get.res" -> "get.res.sent"]
MCReceivedOf == [c \in MCChans |->
  CASE c = "put.arg" -> "put.arg.received" [] c = "put.res" -> "put.res.received"
    [] c = "get.arg" -> "get.arg.received" [] c = "get.res" -> "get.res.received"]
MCSemaphores == {MCSentOf[c] : c \in MCChans} \cup {MCReceivedOf[c] : c \in MCChans}
MCNodes == MCTasks \cup MCSemaphores
MCArguments == MCTasks \X {0, 1}
MCMessages == MCArguments \cup {<<"re", m>> : m \in MCArguments}

\* Each rendezvous has one client.
MCOneClient == [put |-> {a}, get |-> {b}]

MCServiceSets == {{"put"}, {"put", "get"}}
============================================================================
