--------------------------- MODULE ChannelClients -------------------------
(***************************************************************************)
(* Tasks that use one channel, in each of its modes, as the manual allows  *)
(* it: one sender and one receiver, one sender and several receivers, or   *)
(* several senders and one receiver.  The foreground only detaches, as it  *)
(* does while it waits for input or inside delay.                          *)
(***************************************************************************)
EXTENDS Channels

CONSTANT chan          \* the channel
CONSTANT server        \* the "one" of ONE-TO-MANY and of MANY-TO-ONE
CONSTANT partner       \* the other end of ONE-TO-ONE

VARIABLES nextMessage, \* what every task sends next; bounds the data
          rested       \* the tasks that have detached since their last call

ASSUME ClientsAssumption == /\ chan \in Chans
                            /\ server \in Background /\ partner \in Background
                            /\ server # partner

clientVars == <<kernelVars, chanVars, nextMessage, rested>>

Others == Background \ {server}
SendersIn(m) == CASE m = "ONE-TO-ONE" -> {server}
                  [] m = "ONE-TO-MANY" -> {server}
                  [] m = "MANY-TO-ONE" -> Others
ReceiversIn(m) == CASE m = "ONE-TO-ONE" -> {partner}
                    [] m = "ONE-TO-MANY" -> Others
                    [] m = "MANY-TO-ONE" -> {server}

\* A message names its sender and alternates, so that each differs from the
\* one before it and from those of other senders.
MessageOf(t) == <<t, nextMessage[t]>>
\* The data of a channel are cells, so every message a task makes is one.
ASSUME MessagesAssumption == Background \X {0, 1} \subseteq Messages

ClientsInit == /\ KernelInit([s \in Semaphores |-> 0])
               /\ mode \in [Chans -> Modes]
               /\ ChannelInit
               /\ nextMessage = [t \in Tasks |-> 0]
               /\ rested = {}

Send == /\ tp \in SendersIn(mode[chan])
        /\ SendStart(chan, MessageOf(tp))
        /\ nextMessage' = [nextMessage EXCEPT ![tp] = 1 - @]
        /\ rested' = rested \ {tp}

Receive == /\ tp \in ReceiversIn(mode[chan])
           /\ ReceiveStart(chan)
           /\ rested' = rested \ {tp}
           /\ UNCHANGED nextMessage

\* Between two calls a task may detach; one that has nothing to call always does.
Rest == /\ AtIdle /\ Detach
        /\ \/ tp \notin rested
           \/ tp = foreground /\ AllStarted
           \/ tp \notin SendersIn(mode[chan]) \cup ReceiversIn(mode[chan]) \cup {foreground}
        /\ rested' = rested \cup {tp}
        /\ UNCHANGED <<chanVars, nextMessage>>

Start == /\ Begin \/ \E t \in Background : NewTask(t)
         /\ rested' = rested \ {tp}
         /\ UNCHANGED nextMessage

ClientsNext == \/ Start \/ Send \/ Receive \/ Rest
               \/ (Continue \/ Machine) /\ UNCHANGED <<nextMessage, rested>>

\* Only one task has the virtual machine, and it goes on executing.
ClientsSpec == ClientsInit /\ [][ClientsNext]_clientVars /\ WF_clientVars(ClientsNext)
----------------------------------------------------------------------------
(***************************************************************************)
(* send returns, in the modes with one sender, only after its message was  *)
(* received: "Sender will wait until receiver has performed receive".      *)
(***************************************************************************)
SendIsSynchronous ==
  ~ ManyToOne(chan) =>
    \A t \in SendersIn(mode[chan]) :
      tp = t /\ AtIdle => ~ (unread[chan] /\ data[chan][1] = t)

(***************************************************************************)
(* With several senders at most one is let through to the data cell for    *)
(* each receive, and none while a message is still unread.                 *)
(***************************************************************************)
OneSenderAtATime ==
  ManyToOne(chan) =>
    LET passed == {t \in Tasks : at[t].op = "send.write" /\ home[t] = "run"}
    IN  /\ Cardinality(passed) <= 1
        /\ passed # {} => ~ unread[chan] /\ at[server] # Idle

(***************************************************************************)
(* A message put into the channel is taken out, and a task in the middle   *)
(* of send or receive gets through: nobody waits for ever, whichever of    *)
(* the tasks comes first.                                                  *)
(***************************************************************************)
EveryMessageTaken == unread[chan] ~> ~ unread[chan]
NobodyStuck == \A t \in Tasks : at[t] # Idle ~> at[t] = Idle
============================================================================
