---------------------------- MODULE ChannelProofs --------------------------
(***************************************************************************)
(* The channels keep every message until it is read, once, and let senders *)
(* and receivers meet, for any number of tasks and in each mode; and a     *)
(* rendezvous, which is two channels, passes the argument of a call to the *)
(* server and its own result back, whatever else the server goes round.    *)
(***************************************************************************)
EXTENDS ChannelClients, Rendezvous, MultitaskingProofs

\* The semaphores of the channel.
Sent == SentOf[chan]
Received == ReceivedOf[chan]

\* Where in send or receive a task can be.
Places == {Idle} \cup [op : {"send.write"}, chan : {chan}, message : Messages]
                 \cup [op : {"send.wait", "receive.wait", "receive.read"}, chan : {chan}]

ChanTypeOK == /\ mode \in [Chans -> Modes]
              /\ data \in [Chans -> Messages \cup {NoMessage}]
              /\ taken \in [Chans -> Messages \cup {NoMessage}]
              /\ unread \in [Chans -> BOOLEAN]
              /\ at \in [Tasks -> Places]
              /\ nextMessage \in [Tasks -> {0, 1}]
              /\ unread[chan] => data[chan] \in Messages

\* The tasks that have been let through to the data cell.
Through(op) == {t \in Tasks : at[t].op = op /\ home[t] = "run"}
AtMostOne(S) == \A t, u \in S : t = u

\* ONE-TO-ONE and ONE-TO-MANY.  Who is where: the sender waits for Received, a
\* receiver for Sent.
OneSenderPlaces ==
  \A t \in Tasks :
    /\ at[t].op \in {"idle", "send.wait", "receive.read"}
    /\ at[t].op = "send.wait" => t = server /\ home[t] = "run"
    /\ at[t].op = "receive.read" => t # server /\ home[t] \in {"run", Sent}
    /\ home[t] = Sent => at[t].op = "receive.read"
    /\ home[t] = Received => t = server /\ at[t].op = "idle"

\* A message that is unread is counted by Sent or has one receiver let
\* through to it, and its sender has not returned from send.
OneSenderInv ==
  LET readers == Through("receive.read")
  IN  /\ OneSenderPlaces
      /\ AtMostOne(readers)
      /\ count[Sent] = IF unread[chan] /\ readers = {} THEN 1 ELSE 0
      /\ readers # {} => unread[chan]
      /\ count[Received] = IF at[server].op = "send.wait" /\ ~ unread[chan] THEN 1 ELSE 0
      /\ unread[chan] => at[server].op = "send.wait" \/ home[server] = Received
      /\ home[server] = Received => unread[chan]

\* MANY-TO-ONE.  Who is where: a sender waits for Received, the receiver for Sent.
ManySendersPlaces ==
  \A t \in Tasks :
    /\ at[t].op \in {"idle", "send.write", "receive.wait", "receive.read"}
    /\ at[t].op = "send.write" => t # server /\ home[t] \in {"run", Received}
    /\ at[t].op = "receive.wait" => t = server /\ home[t] = "run"
    /\ at[t].op = "receive.read" => t = server /\ home[t] \in {"run", Sent}
    /\ home[t] = Received => at[t].op = "send.write"
    /\ home[t] = Sent => at[t].op = "receive.read"

\* A receiver that has come is counted by Received, or has let one sender
\* through, or has its message, until it has read it.
ManySendersInv ==
  LET senders == Through("send.write")
      reading == at[server].op = "receive.read" /\ home[server] = "run"
  IN  /\ ManySendersPlaces
      /\ AtMostOne(senders)
      /\ count[Received] = IF at[server].op # "idle" /\ ~ unread[chan] /\ senders = {}
                           THEN 1 ELSE 0
      /\ senders # {} => at[server].op # "idle" /\ ~ unread[chan]
      /\ count[Sent] = IF at[server].op = "receive.wait" /\ unread[chan] THEN 1 ELSE 0
      /\ unread[chan] => at[server].op = "receive.wait" \/ reading
      /\ reading => unread[chan]

ChanInv == IF ManyToOne(chan) THEN ManySendersInv ELSE OneSenderInv

ClientsInv == KernelInv /\ ChanTypeOK /\ ChanInv

(* The semaphores and the tasks of the channel are what they are. *)
LEMMA Basics ==
  /\ chan \in Chans /\ Sent \in Semaphores /\ Received \in Semaphores /\ Sent # Received
  /\ "run" # Sent /\ "run" # Received /\ "loose" # Sent /\ "loose" # Received
  /\ server \in Tasks /\ server # foreground /\ foreground \in Tasks
  /\ Tasks \subseteq Nodes /\ Sent \notin Tasks /\ Received \notin Tasks
  BY KernelAssumption, ChannelAssumption, ClientsAssumption
     DEF Sent, Received, Headers, Background

(* Who may send and who may receive in each mode. *)
LEMMA Roles ==
  ASSUME ChanTypeOK
  PROVE  /\ SendersIn(mode[chan]) \subseteq Background
         /\ ReceiversIn(mode[chan]) \subseteq Background
         /\ ManyToOne(chan) => /\ \A t \in SendersIn(mode[chan]) : t # server
                               /\ ReceiversIn(mode[chan]) = {server}
         /\ ~ ManyToOne(chan) => /\ SendersIn(mode[chan]) = {server}
                                 /\ \A t \in ReceiversIn(mode[chan]) : t # server
<1>1. mode[chan] \in Modes
  BY Basics DEF ChanTypeOK
<1>2. CASE mode[chan] = "ONE-TO-ONE"
  BY <1>2, ClientsAssumption DEF ManyToOne, SendersIn, ReceiversIn, Others
<1>3. CASE mode[chan] = "ONE-TO-MANY"
  BY <1>3, ClientsAssumption DEF ManyToOne, SendersIn, ReceiversIn, Others
<1>4. CASE mode[chan] = "MANY-TO-ONE"
  BY <1>4, ClientsAssumption DEF ManyToOne, SendersIn, ReceiversIn, Others
<1> QED  BY <1>1, <1>2, <1>3, <1>4 DEF Modes

(* A task is idle, or says which channel it uses and how. *)
LEMMA PlaceCases ==
  ASSUME NEW p \in Places
  PROVE  /\ p.op = "idle" <=> p = Idle
         /\ p.op # "idle" => p.chan = chan
         /\ p.op = "send.write" => p.message \in Messages
  BY DEF Places, Idle

(* Going to a place changes nothing about the other tasks. *)
LEMMA GoToPlace ==
  ASSUME ChanTypeOK, tp \in Tasks, NEW p \in Places, GoTo(p)
  PROVE  /\ at' \in [Tasks -> Places]
         /\ \A t \in Tasks : at'[t].op = IF t = tp THEN p.op ELSE at[t].op
  BY DEF ChanTypeOK, GoTo
----------------------------------------------------------------------------
(* Making and scheduling tasks, detaching and running the machine concern  *)
(* no task inside send or receive.                                         *)
LEMMA ElsewhereKeeps ==
  ASSUME ChanTypeOK, ChanInv, UNCHANGED <<chanVars, count>>,
         \A t \in Tasks : home'[t] = home[t] \/ (home[t] = "loose" /\ home'[t] = "run")
  PROVE  ChanInv'
<1>1. UNCHANGED <<mode, at, unread, count>>
  BY DEF chanVars
<1>2. \A t \in Tasks : home'[t] = Sent <=> home[t] = Sent
  BY Basics
<1>3. \A t \in Tasks : home'[t] = Received <=> home[t] = Received
  BY Basics
<1>4. \A t \in Tasks : home[t] = "run" => home'[t] = "run"
  BY Basics
<1>5. CASE ManyToOne(chan)
  <2>1. ManySendersInv
    BY <1>5 DEF ChanInv
  <2>2. \A t \in Tasks : at[t].op # "idle" => home'[t] = home[t]
    BY <2>1, Basics DEF ManySendersInv, ManySendersPlaces
  <2>3. Through("send.write")' = Through("send.write")
    BY <1>1, <2>2 DEF Through
  <2>4. at[server].op = "receive.read" => home'[server] = home[server]
    BY <2>2, Basics
  <2>5. ManySendersPlaces'
    BY <1>1, <1>2, <1>3, <2>1, <2>2 DEF ManySendersInv, ManySendersPlaces
  <2>6. ManySendersInv'
    BY <1>1, <2>1, <2>3, <2>4, <2>5 DEF ManySendersInv, AtMostOne
  <2> QED  BY <1>1, <1>5, <2>6 DEF ChanInv, ManyToOne
<1>6. CASE ~ ManyToOne(chan)
  <2>1. OneSenderInv
    BY <1>6 DEF ChanInv
  <2>2. \A t \in Tasks : at[t].op # "idle" => home'[t] = home[t]
    BY <2>1, Basics DEF OneSenderInv, OneSenderPlaces
  <2>3. Through("receive.read")' = Through("receive.read")
    BY <1>1, <2>2 DEF Through
  <2>4. home'[server] = Received <=> home[server] = Received
    BY <1>3, Basics
  <2>5. OneSenderPlaces'
    BY <1>1, <1>2, <1>3, <2>1, <2>2 DEF OneSenderInv, OneSenderPlaces
  <2>6. OneSenderInv'
    BY <1>1, <2>1, <2>3, <2>4, <2>5 DEF OneSenderInv, AtMostOne
  <2> QED  BY <1>1, <1>6, <2>6 DEF ChanInv, ManyToOne
<1> QED  BY <1>5, <1>6
----------------------------------------------------------------------------
(***************************************************************************)
(* send and receive with one sender.                                       *)
(***************************************************************************)
\* The running task goes to op, and no other task to anywhere.
Goes(op) == \A t \in Tasks : at'[t].op = IF t = tp THEN op ELSE at[t].op

(* The sender assigns an empty data cell, and lets one receiver through,   *)
(* now if one waits.                                                       *)
LEMMA OneSenderSends ==
  ASSUME KernelInv, OneSenderInv, tp = server, at[tp].op = "idle", Goes("send.wait"),
         unread'[chan] = TRUE, Signal(Sent)
  PROVE  OneSenderInv' /\ ~ unread[chan]
<1>0. /\ tp \in Tasks /\ home[tp] = "run" /\ home \in [Nodes -> Homes]
      /\ count \in [Semaphores -> Nat]
  BY DEF KernelInv, KernelTypeOK, RunnersLinked
<1>1. ~ unread[chan] /\ count[Received] = 0 /\ count[Sent] = 0 /\ Through("receive.read") = {}
  BY <1>0, Basics DEF OneSenderInv
<1>2. \A t \in Tasks : ~ (at[t].op = "receive.read" /\ home[t] = "run")
  BY <1>1 DEF Through
<1>3. CASE /\ \A t \in Tasks : home[t] # Sent
           /\ count' = [count EXCEPT ![Sent] = @ + 1] /\ UNCHANGED <<home, tp>>
  <2>1. count'[Sent] = 1 /\ count'[Received] = 0
    BY <1>0, <1>1, <1>3, Basics
  <2>2. OneSenderPlaces'
    BY <1>0, <1>3, Basics DEF OneSenderInv, OneSenderPlaces, Goes
  <2>3. Through("receive.read")' = {}
    BY <1>2, <1>3 DEF Through, Goes
  <2> QED  BY <1>0, <1>1, <2>1, <2>2, <2>3, Basics DEF OneSenderInv, AtMostOne, Goes
<1>4. ASSUME NEW u \in Tasks, home[u] = Sent, u # tp,
             count' = count, home' = [home EXCEPT ![u] = "run"]
      PROVE  OneSenderInv'
  <2>1. at[u].op = "receive.read" /\ u # server
    BY <1>4 DEF OneSenderInv, OneSenderPlaces
  <2>2. \A t \in Tasks : home'[t] = IF t = u THEN "run" ELSE home[t]
    BY <1>0, <1>4, Basics
  <2>3. OneSenderPlaces'
    BY <1>0, <1>4, <2>1, <2>2, Basics DEF OneSenderInv, OneSenderPlaces, Goes
  <2>4. Through("receive.read")' = {u}
    BY <1>2, <1>4, <2>1, <2>2 DEF Through, Goes
  <2> QED  BY <1>0, <1>1, <1>4, <2>3, <2>4, Basics DEF OneSenderInv, AtMostOne, Goes
<1> QED  BY <1>1, <1>3, <1>4, SignalEffect, Basics

(* The sender returns, or waits, until its message has been received. *)
LEMMA OneSenderWaits ==
  ASSUME KernelInv, OneSenderInv, at[tp].op = "send.wait", Goes("idle"),
         UNCHANGED unread, Wait(Received)
  PROVE  OneSenderInv'
<1>0. /\ tp \in Tasks /\ home[tp] = "run" /\ home \in [Nodes -> Homes]
      /\ count \in [Semaphores -> Nat] /\ tp = server
  BY DEF KernelInv, KernelTypeOK, RunnersLinked, OneSenderInv, OneSenderPlaces
<1>1. CASE count[Received] = 0 /\ count' = count /\ home' = [home EXCEPT ![tp] = Received]
  <2>1. \A t \in Tasks : home'[t] = IF t = tp THEN Received ELSE home[t]
    BY <1>0, <1>1, Basics
  <2>2. OneSenderPlaces'
    BY <1>0, <2>1, Basics DEF OneSenderInv, OneSenderPlaces, Goes
  <2>3. Through("receive.read")' = Through("receive.read")
    BY <1>0, <2>1, Basics DEF Through, Goes
  <2>4. unread[chan]
    BY <1>0, <1>1 DEF OneSenderInv
  <2> QED  BY <1>0, <1>1, <2>1, <2>2, <2>3, <2>4, Basics DEF OneSenderInv, AtMostOne, Goes
<1>2. CASE /\ count[Received] > 0 /\ count' = [count EXCEPT ![Received] = @ - 1]
           /\ UNCHANGED <<home, tp>>
  <2>1. ~ unread[chan] /\ count[Received] = 1 /\ count'[Received] = 0 /\ count'[Sent] = count[Sent]
    BY <1>0, <1>2, Basics DEF OneSenderInv
  <2>2. OneSenderPlaces'
    BY <1>0, <1>2, Basics DEF OneSenderInv, OneSenderPlaces, Goes
  <2>3. Through("receive.read")' = Through("receive.read")
    BY <1>0, <1>2, Basics DEF Through, Goes
  <2> QED  BY <1>0, <1>2, <2>1, <2>2, <2>3, Basics DEF OneSenderInv, AtMostOne, Goes
<1> QED  BY <1>0, <1>1, <1>2, WaitEffect, Basics

(* A receiver is let through to a message that Sent has counted, or waits. *)
LEMMA OneSenderReceives ==
  ASSUME KernelInv, OneSenderInv, tp # server, tp # foreground, at[tp].op = "idle",
         Goes("receive.read"), UNCHANGED unread, Wait(Sent)
  PROVE  OneSenderInv'
<1>0. /\ tp \in Tasks /\ home[tp] = "run" /\ home \in [Nodes -> Homes]
      /\ count \in [Semaphores -> Nat]
  BY DEF KernelInv, KernelTypeOK, RunnersLinked
<1>1. CASE count[Sent] = 0 /\ count' = count /\ home' = [home EXCEPT ![tp] = Sent]
  <2>1. \A t \in Tasks : home'[t] = IF t = tp THEN Sent ELSE home[t]
    BY <1>0, <1>1, Basics
  <2>2. OneSenderPlaces'
    BY <1>0, <2>1, Basics DEF OneSenderInv, OneSenderPlaces, Goes
  <2>3. Through("receive.read")' = Through("receive.read")
    BY <1>0, <2>1, Basics DEF Through, Goes
  <2> QED  BY <1>0, <1>1, <2>1, <2>2, <2>3, Basics DEF OneSenderInv, AtMostOne, Goes
<1>2. CASE /\ count[Sent] > 0 /\ count' = [count EXCEPT ![Sent] = @ - 1]
           /\ UNCHANGED <<home, tp>>
  <2>1. /\ unread[chan] /\ Through("receive.read") = {} /\ count'[Sent] = 0
        /\ count'[Received] = count[Received]
    BY <1>0, <1>2, Basics DEF OneSenderInv
  <2>2. OneSenderPlaces'
    BY <1>0, <1>2, Basics DEF OneSenderInv, OneSenderPlaces, Goes
  <2>3. Through("receive.read")' = {tp}
    BY <1>0, <1>2, <2>1, Basics DEF Through, Goes
  <2> QED  BY <1>0, <1>2, <2>1, <2>2, <2>3, Basics DEF OneSenderInv, AtMostOne, Goes
<1> QED  BY <1>0, <1>1, <1>2, WaitEffect, Basics

(* A receiver reads a message nobody has read, and lets the sender go on. *)
LEMMA OneSenderReads ==
  ASSUME KernelInv, OneSenderInv, at[tp].op = "receive.read", Goes("idle"),
         unread'[chan] = FALSE, Signal(Received)
  PROVE  OneSenderInv' /\ unread[chan]
<1>0. /\ tp \in Tasks /\ home[tp] = "run" /\ home \in [Nodes -> Homes]
      /\ count \in [Semaphores -> Nat]
  BY DEF KernelInv, KernelTypeOK, RunnersLinked
<1>1. tp \in Through("receive.read") /\ tp # server
  BY <1>0 DEF Through, OneSenderInv, OneSenderPlaces
<1>2. unread[chan] /\ count[Sent] = 0 /\ count[Received] = 0
  BY <1>1 DEF OneSenderInv
<1>3. \A t \in Tasks : at[t].op = "receive.read" /\ home[t] = "run" => t = tp
  BY <1>1 DEF OneSenderInv, AtMostOne, Through
<1>4. CASE /\ \A t \in Tasks : home[t] # Received
           /\ count' = [count EXCEPT ![Received] = @ + 1] /\ UNCHANGED <<home, tp>>
  <2>1. count'[Sent] = 0 /\ count'[Received] = 1 /\ at[server].op = "send.wait"
    BY <1>0, <1>2, <1>4, Basics DEF OneSenderInv
  <2>2. OneSenderPlaces'
    BY <1>0, <1>4, Basics DEF OneSenderInv, OneSenderPlaces, Goes
  <2>3. Through("receive.read")' = {}
    BY <1>3, <1>4 DEF Through, Goes
  <2> QED  BY <1>1, <1>4, <2>1, <2>2, <2>3, Basics DEF OneSenderInv, AtMostOne, Goes
<1>5. ASSUME NEW u \in Tasks, home[u] = Received, u # tp,
             count' = count, home' = [home EXCEPT ![u] = "run"]
      PROVE  OneSenderInv'
  <2>1. at[u].op = "idle" /\ u = server
    BY <1>5 DEF OneSenderInv, OneSenderPlaces
  <2>2. \A t \in Tasks : home'[t] = IF t = u THEN "run" ELSE home[t]
    BY <1>0, <1>5, Basics
  <2>3. OneSenderPlaces'
    BY <1>0, <1>5, <2>1, <2>2, Basics DEF OneSenderInv, OneSenderPlaces, Goes
  <2>4. Through("receive.read")' = {}
    BY <1>3, <2>1, <2>2 DEF Through, Goes
  <2> QED  BY <1>1, <1>2, <1>5, <2>1, <2>2, <2>3, <2>4, Basics
           DEF OneSenderInv, AtMostOne, Goes
<1> QED  BY <1>2, <1>4, <1>5, SignalEffect, Basics
----------------------------------------------------------------------------
(***************************************************************************)
(* send and receive with several senders.                                  *)
(***************************************************************************)
(* A sender is let through by a receiver that has come, or waits for one. *)
LEMMA ManySendersStart ==
  ASSUME KernelInv, ManySendersInv, tp # server, tp # foreground, at[tp].op = "idle",
         Goes("send.write"), UNCHANGED unread, Wait(Received)
  PROVE  ManySendersInv'
<1>0. /\ tp \in Tasks /\ home[tp] = "run" /\ home \in [Nodes -> Homes]
      /\ count \in [Semaphores -> Nat]
  BY DEF KernelInv, KernelTypeOK, RunnersLinked
<1>1. CASE count[Received] = 0 /\ count' = count /\ home' = [home EXCEPT ![tp] = Received]
  <2>1. \A t \in Tasks : home'[t] = IF t = tp THEN Received ELSE home[t]
    BY <1>0, <1>1, Basics
  <2>2. ManySendersPlaces'
    BY <1>0, <2>1, Basics DEF ManySendersInv, ManySendersPlaces, Goes
  <2>3. Through("send.write")' = Through("send.write")
    BY <1>0, <2>1, Basics DEF Through, Goes
  <2> QED  BY <1>0, <1>1, <2>1, <2>2, <2>3, Basics DEF ManySendersInv, AtMostOne, Goes
<1>2. CASE /\ count[Received] > 0 /\ count' = [count EXCEPT ![Received] = @ - 1]
           /\ UNCHANGED <<home, tp>>
  <2>1. /\ at[server].op # "idle" /\ ~ unread[chan] /\ Through("send.write") = {}
        /\ count'[Received] = 0 /\ count'[Sent] = count[Sent]
    BY <1>0, <1>2, Basics DEF ManySendersInv
  <2>2. ManySendersPlaces'
    BY <1>0, <1>2, Basics DEF ManySendersInv, ManySendersPlaces, Goes
  <2>3. Through("send.write")' = {tp}
    BY <1>0, <1>2, <2>1, Basics DEF Through, Goes
  <2> QED  BY <1>0, <1>2, <2>1, <2>2, <2>3, Basics DEF ManySendersInv, AtMostOne, Goes
<1> QED  BY <1>0, <1>1, <1>2, WaitEffect, Basics

(* The sender let through assigns an empty data cell, and tells the        *)
(* receiver, that waits for it or has yet to.                              *)
LEMMA ManySendersWrite ==
  ASSUME KernelInv, ManySendersInv, at[tp].op = "send.write", Goes("idle"),
         unread'[chan] = TRUE, Signal(Sent)
  PROVE  ManySendersInv' /\ ~ unread[chan]
<1>0. /\ tp \in Tasks /\ home[tp] = "run" /\ home \in [Nodes -> Homes]
      /\ count \in [Semaphores -> Nat]
  BY DEF KernelInv, KernelTypeOK, RunnersLinked
<1>1. tp \in Through("send.write") /\ tp # server
  BY <1>0 DEF Through, ManySendersInv, ManySendersPlaces
<1>2. ~ unread[chan] /\ at[server].op # "idle" /\ count[Received] = 0 /\ count[Sent] = 0
  BY <1>1 DEF ManySendersInv
<1>3. \A t \in Tasks : at[t].op = "send.write" /\ home[t] = "run" => t = tp
  BY <1>1 DEF ManySendersInv, AtMostOne, Through
<1>4. at[server].op \in {"receive.wait", "receive.read"}
  BY <1>2, Basics DEF ManySendersInv, ManySendersPlaces
<1>5. CASE /\ \A t \in Tasks : home[t] # Sent
           /\ count' = [count EXCEPT ![Sent] = @ + 1] /\ UNCHANGED <<home, tp>>
  <2>1. /\ count'[Sent] = 1 /\ count'[Received] = 0
        /\ at[server].op = "receive.wait"
    BY <1>0, <1>2, <1>4, <1>5, Basics DEF ManySendersInv, ManySendersPlaces
  <2>2. ManySendersPlaces'
    BY <1>0, <1>5, Basics DEF ManySendersInv, ManySendersPlaces, Goes
  <2>3. Through("send.write")' = {}
    BY <1>3, <1>5 DEF Through, Goes
  <2> QED  BY <1>1, <1>5, <2>1, <2>2, <2>3, Basics DEF ManySendersInv, AtMostOne, Goes
<1>6. ASSUME NEW u \in Tasks, home[u] = Sent, u # tp,
             count' = count, home' = [home EXCEPT ![u] = "run"]
      PROVE  ManySendersInv'
  <2>1. at[u].op = "receive.read" /\ u = server
    BY <1>6 DEF ManySendersInv, ManySendersPlaces
  <2>2. \A t \in Tasks : home'[t] = IF t = u THEN "run" ELSE home[t]
    BY <1>0, <1>6, Basics
  <2>3. ManySendersPlaces'
    BY <1>0, <1>6, <2>1, <2>2, Basics DEF ManySendersInv, ManySendersPlaces, Goes
  <2>4. Through("send.write")' = {}
    BY <1>3, <2>1, <2>2 DEF Through, Goes
  <2> QED  BY <1>1, <1>2, <1>6, <2>1, <2>2, <2>3, <2>4, Basics
           DEF ManySendersInv, AtMostOne, Goes
<1> QED  BY <1>2, <1>5, <1>6, SignalEffect, Basics

(* The receiver lets one sender through, now if one waits. *)
LEMMA ManySendersAsked ==
  ASSUME KernelInv, ManySendersInv, tp = server, at[tp].op = "idle", Goes("receive.wait"),
         UNCHANGED unread, Signal(Received)
  PROVE  ManySendersInv'
<1>0. /\ tp \in Tasks /\ home[tp] = "run" /\ home \in [Nodes -> Homes]
      /\ count \in [Semaphores -> Nat]
  BY DEF KernelInv, KernelTypeOK, RunnersLinked
<1>1. /\ ~ unread[chan] /\ count[Received] = 0 /\ count[Sent] = 0
      /\ Through("send.write") = {}
  BY <1>0 DEF ManySendersInv
<1>2. \A t \in Tasks : ~ (at[t].op = "send.write" /\ home[t] = "run")
  BY <1>1 DEF Through
<1>3. CASE /\ \A t \in Tasks : home[t] # Received
           /\ count' = [count EXCEPT ![Received] = @ + 1] /\ UNCHANGED <<home, tp>>
  <2>1. count'[Received] = 1 /\ count'[Sent] = 0
    BY <1>0, <1>1, <1>3, Basics
  <2>2. ManySendersPlaces'
    BY <1>0, <1>3, Basics DEF ManySendersInv, ManySendersPlaces, Goes
  <2>3. Through("send.write")' = {}
    BY <1>2, <1>3 DEF Through, Goes
  <2> QED  BY <1>0, <1>1, <1>3, <2>1, <2>2, <2>3, Basics DEF ManySendersInv, AtMostOne, Goes
<1>4. ASSUME NEW u \in Tasks, home[u] = Received, u # tp,
             count' = count, home' = [home EXCEPT ![u] = "run"]
      PROVE  ManySendersInv'
  <2>1. at[u].op = "send.write" /\ u # server
    BY <1>4 DEF ManySendersInv, ManySendersPlaces
  <2>2. \A t \in Tasks : home'[t] = IF t = u THEN "run" ELSE home[t]
    BY <1>0, <1>4, Basics
  <2>3. ManySendersPlaces'
    BY <1>0, <1>4, <2>1, <2>2, Basics DEF ManySendersInv, ManySendersPlaces, Goes
  <2>4. Through("send.write")' = {u}
    BY <1>2, <1>4, <2>1, <2>2 DEF Through, Goes
  <2> QED  BY <1>0, <1>1, <1>4, <2>3, <2>4, Basics DEF ManySendersInv, AtMostOne, Goes
<1> QED  BY <1>3, <1>4, SignalEffect, Basics

(* The receiver has its message, or waits for it. *)
LEMMA ManySendersWait ==
  ASSUME KernelInv, ManySendersInv, at[tp].op = "receive.wait", Goes("receive.read"),
         UNCHANGED unread, Wait(Sent)
  PROVE  ManySendersInv'
<1>0. /\ tp \in Tasks /\ home[tp] = "run" /\ home \in [Nodes -> Homes]
      /\ count \in [Semaphores -> Nat] /\ tp = server
  BY DEF KernelInv, KernelTypeOK, RunnersLinked, ManySendersInv, ManySendersPlaces
<1>1. CASE count[Sent] = 0 /\ count' = count /\ home' = [home EXCEPT ![tp] = Sent]
  <2>1. \A t \in Tasks : home'[t] = IF t = tp THEN Sent ELSE home[t]
    BY <1>0, <1>1, Basics
  <2>2. ManySendersPlaces'
    BY <1>0, <2>1, Basics DEF ManySendersInv, ManySendersPlaces, Goes
  <2>3. Through("send.write")' = Through("send.write")
    BY <1>0, <2>1, Basics DEF Through, Goes
  <2>4. ~ unread[chan]
    BY <1>0, <1>1 DEF ManySendersInv
  <2> QED  BY <1>0, <1>1, <2>1, <2>2, <2>3, <2>4, Basics DEF ManySendersInv, AtMostOne, Goes
<1>2. CASE /\ count[Sent] > 0 /\ count' = [count EXCEPT ![Sent] = @ - 1]
           /\ UNCHANGED <<home, tp>>
  <2>1. unread[chan] /\ count'[Sent] = 0 /\ count'[Received] = count[Received]
    BY <1>0, <1>2, Basics DEF ManySendersInv
  <2>2. ManySendersPlaces'
    BY <1>0, <1>2, Basics DEF ManySendersInv, ManySendersPlaces, Goes
  <2>3. Through("send.write")' = Through("send.write")
    BY <1>0, <1>2, Basics DEF Through, Goes
  <2> QED  BY <1>0, <1>2, <2>1, <2>2, <2>3, Basics DEF ManySendersInv, AtMostOne, Goes
<1> QED  BY <1>0, <1>1, <1>2, WaitEffect, Basics

(* The receiver reads a message nobody has read. *)
LEMMA ManySendersRead ==
  ASSUME KernelInv, ManySendersInv, at[tp].op = "receive.read", Goes("idle"),
         unread'[chan] = FALSE, UNCHANGED <<home, count>>
  PROVE  ManySendersInv' /\ unread[chan]
<1>0. tp \in Tasks /\ home[tp] = "run" /\ tp = server
  BY DEF KernelInv, KernelTypeOK, RunnersLinked, ManySendersInv, ManySendersPlaces
<1>1. unread[chan] /\ count[Received] = 0 /\ count[Sent] = 0
  BY <1>0, Basics DEF ManySendersInv
<1>2. Through("send.write") = {}
  BY <1>1 DEF ManySendersInv
<1>3. ManySendersPlaces'
  BY <1>0, Basics DEF ManySendersInv, ManySendersPlaces, Goes
<1>4. Through("send.write")' = {}
  BY <1>0, <1>2 DEF Through, Goes
<1> QED  BY <1>0, <1>1, <1>3, <1>4 DEF ManySendersInv, AtMostOne, Goes
----------------------------------------------------------------------------
(***************************************************************************)
(* Every step keeps the invariant, and is a step of the one-place buffer.  *)
(***************************************************************************)
(* The invariant holds when only the foreground exists. *)
LEMMA ClientsInitInv == ClientsInit => ClientsInv
<1> SUFFICES ASSUME ClientsInit PROVE ClientsInv
  OBVIOUS
<1>1. [s \in Semaphores |-> 0] \in [Semaphores -> Nat]
  OBVIOUS
<1>2. KernelInv
  BY <1>1, KernelInitInv DEF ClientsInit
<1>3. ChanTypeOK
  BY Basics DEF ClientsInit, ChannelInit, ChanTypeOK, Places
<1>4. /\ \A t \in Tasks : at[t].op = "idle" /\ home[t] \in {"run", "loose"}
      /\ ~ unread[chan] /\ count[Sent] = 0 /\ count[Received] = 0
  BY KernelAssumption, Basics DEF ClientsInit, ChannelInit, KernelInit, Idle
<1>5. Through("send.write") = {} /\ Through("receive.read") = {}
  BY <1>4 DEF Through
<1>6. ManySendersInv /\ OneSenderInv
  BY <1>4, <1>5, Basics
     DEF ManySendersInv, ManySendersPlaces, OneSenderInv, OneSenderPlaces, AtMostOne
<1> QED  BY <1>2, <1>3, <1>6 DEF ClientsInv, ChanInv

\* What the data cell and its history are in the buffer.
slot == [c \in Chans |-> IF unread[c] THEN data[c] ELSE NoMessage]

(* Writing an empty data cell is Put. *)
LEMMA WriteIsPut ==
  ASSUME ChanTypeOK, NEW m \in Messages, ~ unread[chan], Write(chan, m), UNCHANGED taken
  PROVE  /\ unread' = [unread EXCEPT ![chan] = TRUE] /\ unread'[chan] = TRUE
         /\ data' = [data EXCEPT ![chan] = m] /\ data'[chan] = m
         /\ Buffer!Put(chan, m)
<1>1. /\ unread' = [unread EXCEPT ![chan] = TRUE] /\ unread'[chan] = TRUE
      /\ data' = [data EXCEPT ![chan] = m] /\ data'[chan] = m
  BY Basics DEF Write, ChanTypeOK
<1>2. slot' = [slot EXCEPT ![chan] = m]
  BY <1>1, Basics DEF slot, ChanTypeOK
<1>3. slot[chan] = NoMessage
  BY Basics DEF slot
<1> QED  BY <1>1, <1>2, <1>3 DEF Buffer!Put, slot

(* Reading a message nobody has read is Take. *)
LEMMA ReadIsTake ==
  ASSUME ChanTypeOK, unread[chan], Read(chan), UNCHANGED data
  PROVE  /\ unread' = [unread EXCEPT ![chan] = FALSE] /\ unread'[chan] = FALSE
         /\ taken' \in [Chans -> Messages \cup {NoMessage}]
         /\ Buffer!Take(chan)
<1>1. /\ unread' = [unread EXCEPT ![chan] = FALSE] /\ unread'[chan] = FALSE
      /\ taken' = [taken EXCEPT ![chan] = data[chan]]
  BY Basics DEF Read, ChanTypeOK
<1>2. data[chan] \in Messages /\ NoMessage \notin Messages
  BY ChannelAssumption DEF ChanTypeOK
<1>3. slot' = [slot EXCEPT ![chan] = NoMessage]
  BY <1>1, Basics DEF slot, ChanTypeOK
<1>4. slot[chan] = data[chan]
  BY Basics DEF slot
<1>5. taken' \in [Chans -> Messages \cup {NoMessage}]
  BY <1>1, <1>2, Basics DEF ChanTypeOK
<1> QED  BY <1>1, <1>2, <1>3, <1>4, <1>5 DEF Buffer!Take, slot

\* A step that neither writes nor reads the data cell.
DataStays == UNCHANGED <<mode, data, unread, taken>>

(* The type invariant after a step that goes to a place. *)
LEMMA TypeKeeps ==
  ASSUME ClientsInv, NEW p \in Places, GoTo(p), UNCHANGED mode,
         nextMessage' \in [Tasks -> {0, 1}],
         \/ DataStays
         \/ \E m \in Messages : /\ UNCHANGED taken
                                /\ unread' = [unread EXCEPT ![chan] = TRUE]
                                /\ data' = [data EXCEPT ![chan] = m]
         \/ /\ UNCHANGED data /\ taken' \in [Chans -> Messages \cup {NoMessage}]
            /\ unread' = [unread EXCEPT ![chan] = FALSE]
  PROVE  ChanTypeOK' /\ Goes(p.op)
<1>1. tp \in Tasks /\ ChanTypeOK
  BY DEF ClientsInv, KernelInv, KernelTypeOK
<1>2. at' \in [Tasks -> Places] /\ Goes(p.op)
  BY <1>1, GoToPlace DEF Goes
<1>3. /\ data' \in [Chans -> Messages \cup {NoMessage}]
      /\ taken' \in [Chans -> Messages \cup {NoMessage}]
      /\ unread' \in [Chans -> BOOLEAN]
      /\ unread'[chan] => data'[chan] \in Messages
  <2>1. /\ data \in [Chans -> Messages \cup {NoMessage}] /\ taken \in [Chans -> Messages \cup {NoMessage}]
        /\ unread \in [Chans -> BOOLEAN] /\ chan \in Chans
        /\ unread[chan] => data[chan] \in Messages
    BY <1>1, Basics DEF ChanTypeOK
  <2>2. CASE DataStays
    BY <2>1, <2>2 DEF DataStays
  <2>3. ASSUME NEW m \in Messages, UNCHANGED taken, unread' = [unread EXCEPT ![chan] = TRUE],
               data' = [data EXCEPT ![chan] = m]
        PROVE  /\ data' \in [Chans -> Messages \cup {NoMessage}]
               /\ taken' \in [Chans -> Messages \cup {NoMessage}]
               /\ unread' \in [Chans -> BOOLEAN]
               /\ unread'[chan] => data'[chan] \in Messages
    BY <2>1, <2>3
  <2>4. ASSUME UNCHANGED data, taken' \in [Chans -> Messages \cup {NoMessage}],
               unread' = [unread EXCEPT ![chan] = FALSE]
        PROVE  /\ data' \in [Chans -> Messages \cup {NoMessage}]
               /\ taken' \in [Chans -> Messages \cup {NoMessage}]
               /\ unread' \in [Chans -> BOOLEAN]
               /\ unread'[chan] => data'[chan] \in Messages
    BY <2>1, <2>4
  <2> QED  BY <2>2, <2>3, <2>4
<1> QED  BY <1>1, <1>2, <1>3 DEF ChanTypeOK

(* send: it writes only an empty data cell. *)
LEMMA SendStep ==
  ASSUME ClientsInv, Send PROVE ClientsInv' /\ (DataStays \/ \E m \in Messages : Buffer!Put(chan, m))
<1>0. /\ KernelInv /\ ChanTypeOK /\ ChanInv /\ tp \in Tasks /\ home[tp] = "run"
      /\ tp \in SendersIn(mode[chan]) /\ tp \in Background /\ tp # foreground
      /\ at[tp].op = "idle" /\ SendStart(chan, MessageOf(tp))
  BY Roles DEF ClientsInv, KernelInv, KernelTypeOK, RunnersLinked, Send, SendStart, AtIdle, Idle, Background
<1>1. nextMessage' \in [Tasks -> {0, 1}]
  BY <1>0 DEF Send, ChanTypeOK
<1>2. PICK m \in Messages : m = MessageOf(tp)
  BY <1>0, MessagesAssumption DEF MessageOf, ChanTypeOK
<1>3. CASE ManyToOne(chan)
  <2> DEFINE p == [op |-> "send.write", chan |-> chan, message |-> m]
  <2>1. GoTo(p) /\ Wait(Received) /\ DataStays
    BY <1>0, <1>2, <1>3 DEF SendStart, Received, DataStays
  <2>2. p \in Places /\ p.op = "send.write"
    BY <1>2 DEF Places
  <2> HIDE DEF p
  <2>3. ChanTypeOK' /\ Goes("send.write")
    BY <1>1, <2>1, <2>2, TypeKeeps DEF DataStays
  <2>4. tp # server
    BY <1>0, <1>3, Roles
  <2>5. KernelInv'
    BY <1>0, <2>1, WaitKeeps, Basics
  <2>6. ManySendersInv'
    BY <1>0, <1>3, <2>1, <2>3, <2>4, ManySendersStart DEF ChanInv, DataStays
  <2>7. ManyToOne(chan)'
    BY <1>3, <2>1 DEF ManyToOne, DataStays
  <2> QED  BY <2>1, <2>3, <2>5, <2>6, <2>7 DEF ClientsInv, ChanInv
<1>4. CASE ~ ManyToOne(chan)
  <2> DEFINE p == [op |-> "send.wait", chan |-> chan]
  <2>1. GoTo(p) /\ Write(chan, m) /\ Signal(Sent) /\ UNCHANGED <<mode, taken>>
    BY <1>0, <1>2, <1>4 DEF SendStart, Sent
  <2>2. p \in Places /\ p.op = "send.wait"
    BY DEF Places
  <2> HIDE DEF p
  <2>3. Goes("send.wait")
    BY <1>0, <2>1, <2>2, GoToPlace DEF Goes
  <2>4. unread'[chan] = TRUE
    BY <1>0, <2>1, Basics DEF Write, ChanTypeOK
  <2>5. tp = server
    BY <1>0, <1>4, Roles
  <2>6. OneSenderInv' /\ ~ unread[chan]
    BY <1>0, <1>4, <2>1, <2>3, <2>4, <2>5, OneSenderSends DEF ChanInv
  <2>7. /\ unread' = [unread EXCEPT ![chan] = TRUE]
        /\ data' = [data EXCEPT ![chan] = m] /\ Buffer!Put(chan, m)
    <3>1. Write(chan, m) /\ UNCHANGED taken /\ ~ unread[chan]
      BY <2>1, <2>6
    <3> QED  BY <1>0, <1>2, <3>1, WriteIsPut
  <2>8. ChanTypeOK'
    BY <1>1, <1>2, <2>1, <2>2, <2>7, TypeKeeps
  <2>9. KernelInv'
    BY <1>0, <2>1, SignalKeeps, Basics
  <2>10. ~ ManyToOne(chan)'
    BY <1>4, <2>1 DEF ManyToOne
  <2>11. ClientsInv'
    BY <2>6, <2>8, <2>9, <2>10 DEF ClientsInv, ChanInv
  <2> QED  BY <1>2, <2>7, <2>11
<1> QED  BY <1>3, <1>4

(* receive, up to its first switch. *)
LEMMA ReceiveStep == ASSUME ClientsInv, Receive PROVE ClientsInv' /\ DataStays
<1>0. /\ KernelInv /\ ChanTypeOK /\ ChanInv /\ tp \in Tasks /\ home[tp] = "run"
      /\ tp \in ReceiversIn(mode[chan]) /\ tp \in Background /\ tp # foreground
      /\ at[tp].op = "idle" /\ ReceiveStart(chan) /\ UNCHANGED nextMessage /\ DataStays
  BY Roles DEF ClientsInv, KernelInv, KernelTypeOK, RunnersLinked, Receive, ReceiveStart, AtIdle, Idle,
               Background, DataStays
<1>1. nextMessage' \in [Tasks -> {0, 1}]
  BY <1>0 DEF ChanTypeOK
<1>2. CASE ManyToOne(chan)
  <2> DEFINE p == [op |-> "receive.wait", chan |-> chan]
  <2>1. GoTo(p) /\ Signal(Received)
    BY <1>0, <1>2 DEF ReceiveStart, Received
  <2>2. p \in Places /\ p.op = "receive.wait"
    BY DEF Places
  <2> HIDE DEF p
  <2>3. ChanTypeOK' /\ Goes("receive.wait")
    BY <1>0, <1>1, <2>1, <2>2, TypeKeeps DEF DataStays
  <2>4. tp = server
    BY <1>0, <1>2, Roles
  <2>5. KernelInv'
    BY <1>0, <2>1, SignalKeeps, Basics
  <2>6. ManySendersInv'
    BY <1>0, <1>2, <2>1, <2>3, <2>4, ManySendersAsked DEF ChanInv, DataStays
  <2>7. ManyToOne(chan)'
    BY <1>0, <1>2 DEF ManyToOne, DataStays
  <2> QED  BY <1>0, <2>3, <2>5, <2>6, <2>7 DEF ClientsInv, ChanInv
<1>3. CASE ~ ManyToOne(chan)
  <2> DEFINE p == [op |-> "receive.read", chan |-> chan]
  <2>1. GoTo(p) /\ Wait(Sent)
    BY <1>0, <1>3 DEF ReceiveStart, Sent
  <2>2. p \in Places /\ p.op = "receive.read"
    BY DEF Places
  <2> HIDE DEF p
  <2>3. ChanTypeOK' /\ Goes("receive.read")
    BY <1>0, <1>1, <2>1, <2>2, TypeKeeps DEF DataStays
  <2>4. tp # server
    BY <1>0, <1>3, Roles
  <2>5. KernelInv'
    BY <1>0, <2>1, WaitKeeps, Basics
  <2>6. OneSenderInv'
    BY <1>0, <1>3, <2>1, <2>3, <2>4, OneSenderReceives DEF ChanInv, DataStays
  <2>7. ~ ManyToOne(chan)'
    BY <1>0, <1>3 DEF ManyToOne, DataStays
  <2> QED  BY <1>0, <2>3, <2>5, <2>6, <2>7 DEF ClientsInv, ChanInv
<1> QED  BY <1>2, <1>3

(* A task that goes on inside send or receive. *)
LEMMA ContinueStep ==
  ASSUME ClientsInv, Continue, UNCHANGED nextMessage
  PROVE  ClientsInv' /\ (DataStays \/ Buffer!Take(chan) \/ \E m \in Messages : Buffer!Put(chan, m))
<1>0. /\ KernelInv /\ ChanTypeOK /\ ChanInv /\ tp \in Tasks /\ home[tp] = "run"
      /\ at[tp] \in Places /\ nextMessage' \in [Tasks -> {0, 1}] /\ UNCHANGED mode
      /\ (ManyToOne(chan) => ManySendersInv) /\ (~ ManyToOne(chan) => OneSenderInv)
  BY DEF ClientsInv, KernelInv, KernelTypeOK, RunnersLinked, ChanTypeOK, ChanInv, Continue, SendWrite,
         SendWait, ReceiveWait, ReceiveRead
<1>1. ManyToOne(chan)' = ManyToOne(chan)
  BY <1>0 DEF ManyToOne
<1>2. Idle \in Places /\ Idle.op = "idle"
  BY DEF Places, Idle
<1>3. at[tp].op # "idle" => at[tp].chan = chan
  BY <1>0, PlaceCases
<1>4. CASE SendWrite
  <2>1. PICK m \in Messages : m = at[tp].message
    BY <1>0, <1>4, PlaceCases DEF SendWrite, In
  <2>2. at[tp].op = "send.write" /\ GoTo(Idle) /\ Signal(Sent)
    BY <1>3, <1>4 DEF SendWrite, In, Return, Sent
  <2>3. Write(chan, m) /\ UNCHANGED taken
    BY <1>3, <1>4, <2>1 DEF SendWrite, In
  <2>4. ManyToOne(chan) /\ ManySendersInv
    BY <1>0, <2>2 DEF OneSenderInv, OneSenderPlaces
  <2>5. Goes("idle")
    BY <1>0, <1>2, <2>2, GoToPlace DEF Goes
  <2>6. unread'[chan] = TRUE
    BY <1>0, <2>3, Basics DEF Write, ChanTypeOK
  <2>7. ManySendersInv' /\ ~ unread[chan]
    BY <1>0, <2>2, <2>4, <2>5, <2>6, ManySendersWrite
  <2>8. /\ unread' = [unread EXCEPT ![chan] = TRUE]
        /\ data' = [data EXCEPT ![chan] = m] /\ Buffer!Put(chan, m)
    BY <1>0, <2>3, <2>7, WriteIsPut
  <2>9. ChanTypeOK'
    BY <1>0, <1>2, <2>2, <2>3, <2>8, TypeKeeps
  <2>10. KernelInv'
    BY <1>0, <2>2, SignalKeeps, Basics
  <2>11. ClientsInv'
    BY <1>1, <2>4, <2>7, <2>9, <2>10 DEF ClientsInv, ChanInv
  <2> QED  BY <2>8, <2>11
<1>5. CASE SendWait
  <2>1. at[tp].op = "send.wait" /\ GoTo(Idle) /\ Wait(Received) /\ DataStays
    BY <1>3, <1>5 DEF SendWait, In, Return, Received, DataStays
  <2>2. ~ ManyToOne(chan) /\ OneSenderInv /\ tp = server
    BY <1>0, <2>1 DEF ManySendersInv, ManySendersPlaces, OneSenderInv, OneSenderPlaces
  <2>3. ChanTypeOK' /\ Goes("idle")
    BY <1>0, <1>2, <2>1, TypeKeeps
  <2>4. OneSenderInv'
    BY <1>0, <2>1, <2>2, <2>3, OneSenderWaits DEF DataStays
  <2>5. KernelInv'
    BY <1>0, <2>1, <2>2, WaitKeeps, Basics
  <2> QED  BY <1>1, <2>1, <2>2, <2>3, <2>4, <2>5 DEF ClientsInv, ChanInv
<1>6. CASE ReceiveWait
  <2> DEFINE p == [op |-> "receive.read", chan |-> chan]
  <2>1. at[tp].op = "receive.wait" /\ GoTo(p) /\ Wait(Sent) /\ DataStays
    BY <1>3, <1>6 DEF ReceiveWait, In, Sent, DataStays
  <2>2. p \in Places /\ p.op = "receive.read"
    BY DEF Places
  <2> HIDE DEF p
  <2>3. ManyToOne(chan) /\ ManySendersInv /\ tp = server
    BY <1>0, <2>1 DEF ManySendersInv, ManySendersPlaces, OneSenderInv, OneSenderPlaces
  <2>4. ChanTypeOK' /\ Goes("receive.read")
    BY <1>0, <2>1, <2>2, TypeKeeps
  <2>5. ManySendersInv'
    BY <1>0, <2>1, <2>3, <2>4, ManySendersWait DEF DataStays
  <2>6. KernelInv'
    BY <1>0, <2>1, <2>3, WaitKeeps, Basics
  <2> QED  BY <1>1, <2>1, <2>3, <2>4, <2>5, <2>6 DEF ClientsInv, ChanInv
<1>7. CASE ReceiveRead
  <2>1. /\ at[tp].op = "receive.read" /\ GoTo(Idle) /\ Read(chan) /\ UNCHANGED data
    BY <1>3, <1>7 DEF ReceiveRead, In, Return
  <2>2. \/ ManyToOne(chan) /\ UNCHANGED kernelVars
        \/ ~ ManyToOne(chan) /\ Signal(Received)
    BY <1>3, <1>7 DEF ReceiveRead, In, Received
  <2>3. Goes("idle")
    BY <1>0, <1>2, <2>1, GoToPlace DEF Goes
  <2>4. unread'[chan] = FALSE
    BY <1>0, <2>1, Basics DEF Read, ChanTypeOK
  <2>5. unread[chan] /\ KernelInv' /\ ChanInv'
    <3>1. CASE ManyToOne(chan) /\ UNCHANGED kernelVars
      <4>1. UNCHANGED <<home, count>>
        BY <3>1 DEF kernelVars
      <4>2. ManySendersInv' /\ unread[chan]
        BY <1>0, <2>1, <2>3, <2>4, <3>1, <4>1, ManySendersRead
      <4>3. KernelInv'
        BY <1>0, <3>1 DEF kernelVars, KernelInv, KernelTypeOK, WellLinked, HeadersAtHome,
                          StatusFitsHome, RunnersLinked, NoLostSignal
      <4> QED  BY <1>1, <3>1, <4>2, <4>3 DEF ChanInv
    <3>2. CASE ~ ManyToOne(chan) /\ Signal(Received)
      <4>1. OneSenderInv' /\ unread[chan]
        BY <1>0, <2>1, <2>3, <2>4, <3>2, OneSenderReads
      <4>2. KernelInv'
        BY <1>0, <3>2, SignalKeeps, Basics
      <4> QED  BY <1>1, <3>2, <4>1, <4>2 DEF ChanInv
    <3> QED  BY <2>2, <3>1, <3>2
  <2>6. /\ unread' = [unread EXCEPT ![chan] = FALSE]
        /\ taken' \in [Chans -> Messages \cup {NoMessage}] /\ Buffer!Take(chan)
    BY <1>0, <2>1, <2>5, ReadIsTake
  <2>7. ChanTypeOK'
    BY <1>0, <1>2, <2>1, <2>6, TypeKeeps
  <2> QED  BY <2>5, <2>6, <2>7 DEF ClientsInv
<1> QED  BY <1>4, <1>5, <1>6, <1>7 DEF Continue

(* The other steps leave the channel alone. *)
LEMMA OtherStep ==
  ASSUME ClientsInv, Rest \/ Start \/ (Machine /\ UNCHANGED <<nextMessage, rested>>) \/ UNCHANGED clientVars
  PROVE  ClientsInv' /\ DataStays
<1>0. KernelInv /\ ChanTypeOK /\ ChanInv /\ UNCHANGED <<chanVars, nextMessage>>
  BY DEF ClientsInv, Rest, Start, Begin, NewTask, Machine, clientVars, chanVars
<1>1. ChanTypeOK' /\ DataStays
  BY <1>0 DEF ChanTypeOK, chanVars, DataStays
<1>2. KernelInv' /\ UNCHANGED count
                 /\ \A t \in Tasks : home'[t] = home[t] \/ (home[t] = "loose" /\ home'[t] = "run")
  <2>1. CASE Rest
    BY <1>0, <2>1, DetachKeeps DEF Rest, Detach
  <2>2. CASE Begin \/ UNCHANGED clientVars
    <3>1. UNCHANGED <<links, status, tp, running, count, home>> /\ tasking' \in BOOLEAN
      BY <1>0, <2>2 DEF Begin, clientVars, kernelVars, KernelInv, KernelTypeOK
    <3> QED  BY <1>0, <3>1 DEF KernelInv, KernelTypeOK, WellLinked, HeadersAtHome,
                               StatusFitsHome, RunnersLinked, NoLostSignal
  <2>3. ASSUME NEW t \in Background, MakeTask(t)
        PROVE  KernelInv' /\ UNCHANGED <<count, home>>
    BY <1>0, <2>3, MakeTaskKeeps, MakeTaskLinks DEF MakeTask, Background
  <2>4. ASSUME NEW t \in Background, status[t] = "READY", Schedule(t)
        PROVE  KernelInv' /\ UNCHANGED count /\ home' = [home EXCEPT ![t] = "run"]
                          /\ home[t] = "loose"
    BY <1>0, <2>4, ScheduleKeeps DEF Schedule, Background, KernelInv, StatusFitsHome
  <2>5. CASE Machine
    BY <1>0, <2>5, EnterInnerKeeps DEF Machine, EnterInner
  <2>6. home \in [Nodes -> Homes] /\ Tasks \subseteq Nodes
    BY <1>0, Basics DEF KernelInv, KernelTypeOK
  <2>7. ASSUME NEW t \in Background, MakeTask(t) \/ (status[t] = "READY" /\ Schedule(t))
        PROVE  KernelInv' /\ UNCHANGED count
                 /\ \A u \in Tasks : home'[u] = home[u] \/ (home[u] = "loose" /\ home'[u] = "run")
    BY <2>3, <2>4, <2>6, <2>7 DEF Background
  <2> QED  BY <2>1, <2>2, <2>5, <2>7 DEF Start, NewTask
<1>3. ChanInv'
  BY <1>0, <1>2, ElsewhereKeeps
<1> QED  BY <1>0, <1>1, <1>2, <1>3 DEF ClientsInv

LEMMA NextStep ==
  ASSUME ClientsInv, [ClientsNext]_clientVars
  PROVE  ClientsInv' /\ (DataStays \/ Buffer!Take(chan) \/ \E m \in Messages : Buffer!Put(chan, m))
BY SendStep, ReceiveStep, ContinueStep, OtherStep DEF ClientsNext

(* The invariant of the channel in every state. *)
LEMMA Invariant == ClientsSpec => []ClientsInv
<1>1. ClientsInv /\ [ClientsNext]_clientVars => ClientsInv'
  BY NextStep
<1> QED  BY <1>1, ClientsInitInv, PTL DEF ClientsSpec
----------------------------------------------------------------------------
(* A task of receive.read that runs finds a message there that no one has  *)
(* read (receive, lib/multi-tasking.f83), however many tasks use the       *)
(* channel and in each mode.                                               *)
THEOREM ReadersFindFreshMessages == ClientsSpec => []ReadsAreFresh
<1>1. ClientsInv => ReadsAreFresh
  <2> SUFFICES ASSUME ClientsInv, In("receive.read") PROVE unread[chan] /\ at[tp].chan = chan
    BY DEF ReadsAreFresh
  <2>1. at[tp] \in Places /\ tp \in Tasks /\ home[tp] = "run" /\ at[tp].op = "receive.read"
    BY DEF ClientsInv, ChanTypeOK, KernelInv, KernelTypeOK, RunnersLinked, In
  <2>2. at[tp].chan = chan
    BY <2>1, PlaceCases
  <2>3. CASE ManyToOne(chan)
    BY <2>1, <2>2, <2>3 DEF ClientsInv, ChanInv, ManySendersInv, ManySendersPlaces
  <2>4. CASE ~ ManyToOne(chan)
    BY <2>1, <2>2, <2>4 DEF ClientsInv, ChanInv, OneSenderInv, Through
  <2> QED  BY <2>3, <2>4
<1> QED  BY <1>1, Invariant, PTL

(* The sender of a mode with one sender does not return from send while    *)
(* its message is unread, whoever else uses the channel.                   *)
THEOREM SenderMeetsReceiver == ClientsSpec => []SendIsSynchronous
<1>1. ClientsInv => SendIsSynchronous
  <2> SUFFICES ASSUME ClientsInv, ~ ManyToOne(chan), NEW t \in SendersIn(mode[chan]), tp = t, AtIdle
               PROVE  ~ unread[chan]
    BY DEF SendIsSynchronous
  <2>1. t = server
    BY Roles DEF ClientsInv
  <2>2. at[server].op = "idle" /\ home[server] = "run"
    BY <2>1 DEF AtIdle, Idle, ClientsInv, KernelInv, RunnersLinked
  <2> QED  BY <2>2, Basics DEF ClientsInv, ChanInv, OneSenderInv
<1> QED  BY <1>1, Invariant, PTL

(* Of any number of senders one at a time is let through to the data cell, *)
(* by a receiver that is there, and only while no message is unread.       *)
THEOREM OneSenderIsLetThrough == ClientsSpec => []OneSenderAtATime
<1>1. ClientsInv => OneSenderAtATime
  <2> SUFFICES ASSUME ClientsInv, ManyToOne(chan)
               PROVE  LET passed == {t \in Tasks : at[t].op = "send.write" /\ home[t] = "run"}
                      IN  /\ Cardinality(passed) <= 1
                          /\ passed # {} => ~ unread[chan] /\ at[server] # Idle
    BY DEF OneSenderAtATime
  <2> DEFINE passed == {t \in Tasks : at[t].op = "send.write" /\ home[t] = "run"}
  <2>1. /\ AtMostOne(passed)
        /\ passed # {} => at[server].op # "idle" /\ ~ unread[chan]
    BY DEF ClientsInv, ChanInv, ManySendersInv, Through
  <2> HIDE DEF passed
  <2>2. Cardinality(passed) <= 1
    <3>1. CASE passed = {}
      BY <3>1, FS_EmptySet
    <3>2. CASE passed # {}
      <4>1. PICK t : t \in passed
        BY <3>2
      <4>2. \A u \in passed : u = t
        BY <2>1, <4>1 DEF AtMostOne
      <4>3. passed = {t}
        BY <4>1, <4>2
      <4>4. Cardinality({t}) = 1
        BY FS_Singleton
      <4> QED  BY <4>3, <4>4
    <3> QED  BY <3>1, <3>2
  <2>3. at[server].op # "idle" => at[server] # Idle
    BY DEF Idle
  <2> QED  BY <2>1, <2>2, <2>3 DEF passed
<1> QED  BY <1>1, Invariant, PTL

(* send and receive (lib/multi-tasking.f83) implement a one-place buffer,  *)
(* ChannelSpec: each of their steps is a Put, a Take or neither.           *)
THEOREM ChannelIsBuffer == ClientsSpec => ImplementsBuffer
<1>1. ClientsInit => Buffer!Init
  BY DEF ClientsInit, ChannelInit, Buffer!Init
<1>2. ClientsInv /\ [ClientsNext]_clientVars => [Buffer!Next]_(Buffer!vars)
  <2> SUFFICES ASSUME ClientsInv, [ClientsNext]_clientVars PROVE Buffer!Next \/ UNCHANGED Buffer!vars
    OBVIOUS
  <2>1. DataStays => UNCHANGED Buffer!vars
    BY DEF DataStays, Buffer!vars
  <2>2. Buffer!Take(chan) => Buffer!Next
    BY Basics DEF Buffer!Next
  <2>3. (\E m \in Messages : Buffer!Put(chan, m)) => Buffer!Next
    BY Basics DEF Buffer!Next
  <2> QED  BY <2>1, <2>2, <2>3, NextStep
<1> QED  BY <1>1, <1>2, Invariant, PTL DEF ClientsSpec, ImplementsBuffer, Buffer!Spec
----------------------------------------------------------------------------
(***************************************************************************)
(* The rendezvous.  What a task is in the middle of says where in send or  *)
(* receive it is and where it can be waiting; a channel with its sender    *)
(* and its receiver is an exchange; and a call with its accept a meeting.  *)
(***************************************************************************)
CallPlaces == {Idle} \cup [op : {"send.wait", "receive.read"}, chan : Chans]
Stages == {NoStage} \cup [op : {"argument", "result", "accept", "end"}, rdv : Rdvs]
Arguments == {NoMessage} \cup (Tasks \X {0, 1})
Contents == Arguments \cup {Reply(m) : m \in Arguments}

CallTypeOK == /\ mode = [c \in Chans |-> "ONE-TO-ONE"]
              /\ data \in [Chans -> Contents] /\ unread \in [Chans -> BOOLEAN]
              /\ at \in [Tasks -> CallPlaces] /\ stage \in [Tasks -> Stages]
              /\ got \in [Tasks -> Contents] /\ accepted \in [Tasks -> Contents]
              /\ argument \in [Tasks -> Arguments]
              /\ services \in SUBSET Rdvs

\* Where in send or receive a task is, and which of the two it has to be in at
\* each stage of a call or of an accept.
Sending(t, c) == at[t] = [op |-> "send.wait", chan |-> c]
Receiving(t, c) == at[t] = [op |-> "receive.read", chan |-> c]
InSend(t, c) == \/ at[t] = Idle /\ home[t] \in {"run", ReceivedOf[c]}
                \/ Sending(t, c) /\ home[t] = "run"
InReceive(t, c) == \/ at[t] = Idle /\ home[t] = "run"
                   \/ Receiving(t, c) /\ home[t] \in {"run", SentOf[c]}
ChanOf(s) == IF s.op \in {"argument", "accept"} THEN ArgOf[s.rdv] ELSE ResOf[s.rdv]
InStage(t) ==
  LET s == stage[t]
  IN  /\ s.op = "none" => at[t] = Idle /\ home[t] \in {"run", "loose"}
      /\ s.op \in {"argument", "result"} => t \in ClientsOf[s.rdv] /\ argument[t] \in {t} \X {0, 1}
      /\ s.op \in {"accept", "end"} => t = acceptor
      /\ s.op \in {"argument", "end"} => InSend(t, ChanOf(s))
      /\ s.op \in {"result", "accept"} => InReceive(t, ChanOf(s))

\* A channel with its sender and its receiver: a message that is unread is
\* counted or has let the receiver through, and the sender is still in send.
Reading(v, c) == Receiving(v, c) /\ home[v] = "run"
Exchange(c, s, v) ==
  /\ count[SentOf[c]] = IF unread[c] /\ ~ Reading(v, c) THEN 1 ELSE 0
  /\ Reading(v, c) => unread[c]
  /\ count[ReceivedOf[c]] = IF Sending(s, c) /\ ~ unread[c] THEN 1 ELSE 0
  /\ unread[c] => Sending(s, c) \/ home[s] = ReceivedOf[c]
  /\ home[s] = ReceivedOf[c] => unread[c]

\* A call and its accept: a client whose argument has been read awaits the
\* result, which the server is computing from that argument or has sent.
InCall(t, r, op) == stage[t] = [op |-> op, rdv |-> r]
Serving(r) == InCall(acceptor, r, "accept") /\ at[acceptor] = Idle
Awaits(t, r) == \/ InCall(t, r, "argument") /\ ~ unread[ArgOf[r]]
                \/ InCall(t, r, "result") /\ at[t] # Idle
Served(t, r) == \/ Serving(r) /\ got[acceptor] = argument[t] /\ ~ unread[ResOf[r]]
                \/ ~ Serving(r) /\ unread[ResOf[r]] /\ data[ResOf[r]] = Reply(argument[t])
Meeting(t, r) ==
  /\ unread[ArgOf[r]] => InCall(t, r, "argument") /\ data[ArgOf[r]] = argument[t]
  /\ Awaits(t, r) => accepted[t] = argument[t] /\ Served(t, r)
  /\ ~ Awaits(t, r) => ~ Serving(r) /\ ~ unread[ResOf[r]]
  /\ InCall(t, r, "result") /\ at[t] = Idle
       => got[t] = Reply(argument[t]) /\ accepted[t] = argument[t]

\* A rendezvous that no client calls.
NobodyCalls(r) == /\ count[SentOf[ArgOf[r]]] = 0
                  /\ ~ InCall(acceptor, r, "end")
                  /\ InCall(acceptor, r, "accept") => home[acceptor] = SentOf[ArgOf[r]]

AcceptAsked == \A r \in Rdvs : InCall(acceptor, r, "accept")
                                 => services = {r} \/ home[acceptor] = "run"

Exchanges == \A r \in Rdvs : \A t \in ClientsOf[r] :
               Exchange(ArgOf[r], t, acceptor) /\ Exchange(ResOf[r], acceptor, t)
Meetings == \A r \in Rdvs : \A t \in ClientsOf[r] : Meeting(t, r)
Deserted == \A r \in Rdvs : ClientsOf[r] = {} => NobodyCalls(r)
InStages == \A t \in Tasks : InStage(t)

CallInv == InStages /\ Exchanges /\ Meetings /\ Deserted /\ AcceptAsked
RdvInv == KernelInv /\ CallTypeOK /\ CallInv

\* Each rendezvous has at most one client.
OneClientEach == \A r \in Rdvs : \A t, u \in ClientsOf[r] : t = u

(* The channels, the tasks and the semaphores are what they are. *)
LEMMA RdvBasics ==
  /\ acceptor \in Tasks /\ acceptor # foreground
  /\ \A r \in Rdvs : /\ ArgOf[r] \in Chans /\ ResOf[r] \in Chans
                     /\ ClientsOf[r] \subseteq Tasks
                     /\ \A t \in ClientsOf[r] : t # foreground /\ t # acceptor
                     /\ \A s \in Rdvs : ArgOf[r] # ResOf[s]
                     /\ \A s \in Rdvs : r # s => ArgOf[r] # ArgOf[s] /\ ResOf[r] # ResOf[s]
  /\ Tasks \subseteq Nodes
  BY KernelAssumption, RendezvousAssumption DEF Background

(* No two channels share a semaphore, and no task is one.                  *)
LEMMA ChannelSemaphores ==
  ASSUME NEW c \in Chans
  PROVE  /\ SentOf[c] \in Semaphores /\ ReceivedOf[c] \in Semaphores
         /\ SentOf[c] \notin Tasks /\ ReceivedOf[c] \notin Tasks
         /\ SentOf[c] \notin {"run", "loose"} /\ ReceivedOf[c] \notin {"run", "loose"}
         /\ \A d \in Chans : SentOf[c] # ReceivedOf[d]
         /\ \A d \in Chans : c # d => SentOf[c] # SentOf[d] /\ ReceivedOf[c] # ReceivedOf[d]
  BY KernelAssumption, ChannelAssumption DEF Headers

(* What a task's stage says of where it waits. *)
LEMMA WhoWaits ==
  ASSUME CallTypeOK, InStages, NEW c \in Chans, NEW t \in Tasks
  PROVE  /\ home[t] = SentOf[c] => /\ stage[t].op \in {"result", "accept"}
                                   /\ ChanOf(stage[t]) = c /\ Receiving(t, c)
         /\ home[t] = ReceivedOf[c] => /\ stage[t].op \in {"argument", "end"}
                                       /\ ChanOf(stage[t]) = c /\ at[t] = Idle
         /\ Sending(t, c) => /\ stage[t].op \in {"argument", "end"}
                             /\ ChanOf(stage[t]) = c /\ home[t] = "run"
         /\ Receiving(t, c) => /\ stage[t].op \in {"result", "accept"}
                               /\ ChanOf(stage[t]) = c /\ home[t] \in {"run", SentOf[c]}
         /\ home[t] = "loose" => stage[t].op = "none" /\ at[t] = Idle
<1>1. \/ stage[t] = NoStage
      \/ stage[t].op \in {"argument", "result", "accept", "end"} /\ stage[t].rdv \in Rdvs
  BY DEF CallTypeOK, Stages
<1>2. InStage(t)
  BY DEF InStages
<1>3. /\ Idle # [op |-> "send.wait", chan |-> c] /\ Idle # [op |-> "receive.read", chan |-> c]
      /\ NoStage.op = "none"
  BY DEF Idle, NoStage
<1>4. CASE stage[t].op = "none"
  BY <1>2, <1>3, <1>4, ChannelSemaphores DEF InStage, Sending, Receiving
<1>5. ASSUME stage[t].op # "none" PROVE ChanOf(stage[t]) \in Chans
  BY <1>1, <1>3, <1>5, RdvBasics DEF ChanOf
<1>6. CASE stage[t].op \in {"argument", "end"}
  <2> DEFINE d == ChanOf(stage[t])
  <2>1. d \in Chans /\ InSend(t, d)
    BY <1>2, <1>5, <1>6 DEF InStage
  <2>2. at[t] = Idle \/ at[t] = [op |-> "send.wait", chan |-> d]
    BY <2>1 DEF InSend, Sending
  <2>3. home[t] \in {"run", ReceivedOf[d]} /\ (Sending(t, d) => home[t] = "run" )
    BY <2>1, <2>2, <1>3 DEF InSend, Sending, Idle
  <2>4. ~ Receiving(t, c) /\ (Sending(t, c) => c = d) /\ home[t] # SentOf[c]
        /\ (home[t] = ReceivedOf[c] => c = d)
    <3> HIDE DEF d
    <3> QED  BY <2>1, <2>2, <2>3, ChannelSemaphores DEF Sending, Receiving, Idle
  <2>5. home[t] = ReceivedOf[c] => at[t] = Idle
    <3> HIDE DEF d
    <3> QED  BY <2>1, <2>2, <2>3, ChannelSemaphores DEF Sending
  <2>6. home[t] # "loose"
    <3> HIDE DEF d
    <3> QED  BY <2>1, <2>3, ChannelSemaphores
  <2> QED  BY <1>6, <2>3, <2>4, <2>5, <2>6
<1>7. CASE stage[t].op \in {"result", "accept"}
  <2> DEFINE d == ChanOf(stage[t])
  <2>1. d \in Chans /\ InReceive(t, d)
    BY <1>2, <1>5, <1>7 DEF InStage
  <2>2. at[t] = Idle \/ at[t] = [op |-> "receive.read", chan |-> d]
    BY <2>1 DEF InReceive, Receiving
  <2>3. home[t] \in {"run", SentOf[d]} /\ (at[t] = Idle => home[t] = "run")
    BY <2>1, <2>2, <1>3 DEF InReceive, Receiving, Idle
  <2>4. ~ Sending(t, c) /\ (Receiving(t, c) => c = d) /\ home[t] # ReceivedOf[c]
        /\ (home[t] = SentOf[c] => c = d /\ Receiving(t, c))
    <3> HIDE DEF d
    <3> QED  BY <2>1, <2>2, <2>3, ChannelSemaphores DEF Sending, Receiving, Idle
  <2>5. home[t] # "loose"
    <3> HIDE DEF d
    <3> QED  BY <2>1, <2>3, ChannelSemaphores
  <2> QED  BY <1>7, <2>3, <2>4, <2>5
<1> QED  BY <1>1, <1>3, <1>4, <1>6, <1>7
----------------------------------------------------------------------------
\* What a step of send or receive on a channel leaves as it was.
KernelOn(c) ==
  /\ \A x \in Semaphores \ {SentOf[c], ReceivedOf[c]} : count'[x] = count[x]
  /\ \A t \in Tasks \ {tp} : \/ home'[t] = home[t]
                             \/ home[t] \in {SentOf[c], ReceivedOf[c]} /\ home'[t] = "run"
  /\ home'[tp] \in {"run", SentOf[c], ReceivedOf[c]}
PlacesOn(c) ==
  /\ \A t \in Tasks \ {tp} : at'[t] = at[t]
  /\ \A p \in {at[tp], at'[tp]} : p = Idle \/ p.chan = c
  /\ \A d \in Chans \ {c} : unread'[d] = unread[d] /\ data'[d] = data[d]

(* signal and wait on a semaphore of a channel concern that channel only.  *)
LEMMA SignalOn ==
  ASSUME KernelInv, NEW c \in Chans, NEW s \in {SentOf[c], ReceivedOf[c]}, Signal(s)
  PROVE  KernelInv' /\ KernelOn(c) /\ home'[tp] = "run"
<1>1. s \in Semaphores
  BY ChannelSemaphores
<1>2. KernelInv'
  BY <1>1, SignalKeeps
<1>3. /\ count \in [Semaphores -> Nat] /\ home \in [Nodes -> Homes] /\ tp \in Tasks
      /\ home[tp] = "run" /\ Tasks \subseteq Nodes
  BY RdvBasics DEF KernelInv, KernelTypeOK, RunnersLinked
<1>4. CASE count' = [count EXCEPT ![s] = @ + 1] /\ UNCHANGED <<home, tp>>
  <2>1. \A x \in Semaphores \ {SentOf[c], ReceivedOf[c]} : count'[x] = count[x]
    BY <1>3, <1>4
  <2> QED  BY <1>2, <1>3, <1>4, <2>1 DEF KernelOn
<1>5. ASSUME NEW u \in Tasks, home[u] = s, u # tp,
             count' = count, home' = [home EXCEPT ![u] = "run"]
      PROVE  KernelOn(c) /\ home'[tp] = "run"
  BY <1>3, <1>5 DEF KernelOn
<1> QED  BY <1>1, <1>2, <1>4, <1>5, SignalEffect

LEMMA WaitOn ==
  ASSUME KernelInv, tp # foreground, NEW c \in Chans,
         NEW s \in {SentOf[c], ReceivedOf[c]}, Wait(s)
  PROVE  KernelInv' /\ KernelOn(c)
<1>1. s \in Semaphores
  BY ChannelSemaphores
<1>2. KernelInv'
  BY <1>1, WaitKeeps
<1>3. /\ count \in [Semaphores -> Nat] /\ home \in [Nodes -> Homes] /\ tp \in Tasks
      /\ home[tp] = "run" /\ Tasks \subseteq Nodes
  BY RdvBasics DEF KernelInv, KernelTypeOK, RunnersLinked
<1>4. CASE count' = count /\ home' = [home EXCEPT ![tp] = s]
  BY <1>2, <1>3, <1>4 DEF KernelOn
<1>5. CASE count' = [count EXCEPT ![s] = @ - 1] /\ UNCHANGED <<home, tp>>
  <2>1. \A x \in Semaphores \ {SentOf[c], ReceivedOf[c]} : count'[x] = count[x]
    BY <1>3, <1>5
  <2> QED  BY <1>2, <1>3, <1>5, <2>1 DEF KernelOn
<1> QED  BY <1>1, <1>2, <1>4, <1>5, WaitEffect

(* An exchange over another channel is not disturbed. *)
LEMMA OtherExchange ==
  ASSUME KernelInv, CallTypeOK, InStages, NEW c \in Chans, KernelOn(c), PlacesOn(c),
         NEW d \in Chans, d # c, NEW s \in Tasks, NEW v \in Tasks, Exchange(d, s, v)
  PROVE  Exchange(d, s, v)'
<1>0. tp \in Tasks /\ home[tp] = "run"
  BY DEF KernelInv, KernelTypeOK, RunnersLinked
<1>1. count'[SentOf[d]] = count[SentOf[d]] /\ count'[ReceivedOf[d]] = count[ReceivedOf[d]]
  BY ChannelSemaphores DEF KernelOn
<1>2. unread'[d] = unread[d]
  BY DEF PlacesOn
<1>3. ASSUME NEW t \in Tasks
      PROVE  Sending(t, d)' = Sending(t, d) /\ Receiving(t, d)' = Receiving(t, d)
  <2>1. CASE t = tp
    <3>1. \A p \in {at[tp], at'[tp]} : p # [op |-> "send.wait", chan |-> d]
                                       /\ p # [op |-> "receive.read", chan |-> d]
      BY DEF PlacesOn, Idle
    <3> QED  BY <2>1, <3>1 DEF Sending, Receiving
  <2>2. CASE t # tp
    BY <2>2 DEF PlacesOn, Sending, Receiving
  <2> QED  BY <2>1, <2>2
<1>4. home'[s] = ReceivedOf[d] <=> home[s] = ReceivedOf[d]
  <2>1. /\ ReceivedOf[d] \notin {"run", SentOf[c], ReceivedOf[c]}
    BY ChannelSemaphores
  <2> QED  BY <1>0, <2>1 DEF KernelOn
<1>5. Reading(v, d)' <=> Reading(v, d)
  <2>1. SUFFICES ASSUME Receiving(v, d) PROVE home'[v] = "run" <=> home[v] = "run"
    BY <1>3 DEF Reading
  <2>2. home[v] \in {"run", SentOf[d]}
    BY <2>1, WhoWaits
  <2>3. v # tp
    BY <2>1 DEF PlacesOn, Receiving, Idle
  <2>4. /\ SentOf[d] \notin {"run", SentOf[c], ReceivedOf[c]}
        /\ "run" \notin {SentOf[c], ReceivedOf[c]}
    BY ChannelSemaphores
  <2> QED  BY <2>2, <2>3, <2>4 DEF KernelOn
<1> QED  BY <1>1, <1>2, <1>3, <1>4, <1>5 DEF Exchange

(* A task that does not run is at most let through. *)
LEMMA OtherInStage ==
  ASSUME KernelInv, CallTypeOK, InStages, NEW c \in Chans, KernelOn(c), PlacesOn(c),
         NEW t \in Tasks, t # tp, stage'[t] = stage[t], argument'[t] = argument[t]
  PROVE  InStage(t)'
<1>1. InStage(t) /\ at'[t] = at[t]
  BY DEF InStages, PlacesOn
<1>2. home'[t] = home[t] \/ (home[t] \in {SentOf[c], ReceivedOf[c]} /\ home'[t] = "run")
  BY DEF KernelOn
<1>3. CASE home'[t] = home[t]
  BY <1>1, <1>3 DEF InStage, InSend, InReceive, Sending, Receiving, ChanOf
<1>4. CASE home[t] \in {SentOf[c], ReceivedOf[c]} /\ home'[t] = "run"
  <2>1. home[t] \notin {"run", "loose"}
    BY <1>4, ChannelSemaphores
  <2> QED  BY <1>1, <1>4, <2>1 DEF InStage, InSend, InReceive, Sending, Receiving, ChanOf
<1> QED  BY <1>2, <1>3, <1>4
----------------------------------------------------------------------------
\* The sender of a channel waits for Received after send.wait, its receiver
\* for Sent in receive.read, and nobody else does.
Only(c, s, v) == \A u \in Tasks : /\ home[u] = SentOf[c] => u = v /\ Receiving(v, c)
                                  /\ home[u] = ReceivedOf[c] => u = s /\ at[s] = Idle

(* The channel in use tells the rendezvous, and which half of it.          *)
LEMMA StageOfChan ==
  ASSUME CallTypeOK, NEW u \in Tasks, stage[u].op # "none", NEW r \in Rdvs
  PROVE  /\ ChanOf(stage[u]) = ArgOf[r] => \/ InCall(u, r, "argument")
                                           \/ InCall(u, r, "accept")
         /\ ChanOf(stage[u]) = ResOf[r] => \/ InCall(u, r, "result")
                                           \/ InCall(u, r, "end")
<1>1. stage[u] \in [op : {"argument", "result", "accept", "end"}, rdv : Rdvs]
  BY DEF CallTypeOK, Stages, NoStage
<1>2. PICK q \in Rdvs, op \in {"argument", "result", "accept", "end"} :
        stage[u] = [op |-> op, rdv |-> q]
  BY <1>1
<1>3. ChanOf(stage[u]) = IF op \in {"argument", "accept"} THEN ArgOf[q] ELSE ResOf[q]
  BY <1>2 DEF ChanOf
<1>4. \A p \in Rdvs : /\ ArgOf[p] # ResOf[r] /\ ArgOf[r] # ResOf[p]
                      /\ (ArgOf[p] = ArgOf[r] \/ ResOf[p] = ResOf[r] => p = r)
  BY RdvBasics
<1> QED  BY <1>2, <1>3, <1>4 DEF InCall

(* Each channel of a rendezvous has one sender and one receiver.           *)
LEMMA Parties ==
  ASSUME OneClientEach, CallTypeOK, InStages, NEW r \in Rdvs, NEW t \in ClientsOf[r]
  PROVE  Only(ArgOf[r], t, acceptor) /\ Only(ResOf[r], acceptor, t)
<1> SUFFICES ASSUME NEW u \in Tasks
    PROVE  /\ home[u] = SentOf[ArgOf[r]] => u = acceptor /\ Receiving(acceptor, ArgOf[r])
           /\ home[u] = ReceivedOf[ArgOf[r]] => u = t /\ at[t] = Idle
           /\ home[u] = SentOf[ResOf[r]] => u = t /\ Receiving(t, ResOf[r])
           /\ home[u] = ReceivedOf[ResOf[r]] => u = acceptor /\ at[acceptor] = Idle
  BY DEF Only
<1>0. ArgOf[r] \in Chans /\ ResOf[r] \in Chans
  BY RdvBasics
<1>1. InStage(u)
  BY DEF InStages
<1>2. stage[u].op \in {"accept", "end"} => u = acceptor
  BY <1>1 DEF InStage
<1>3. ASSUME stage[u].op \in {"argument", "result"}, stage[u].rdv = r PROVE u = t
  BY <1>1, <1>3 DEF InStage, OneClientEach
<1>4. ASSUME home[u] = SentOf[ArgOf[r]] PROVE u = acceptor /\ Receiving(acceptor, ArgOf[r])
  <2>1. /\ stage[u].op \in {"result", "accept"} /\ ChanOf(stage[u]) = ArgOf[r]
        /\ Receiving(u, ArgOf[r])
    BY <1>0, <1>4, WhoWaits
  <2>2. InCall(u, r, "argument") \/ InCall(u, r, "accept")
    BY <2>1, StageOfChan
  <2> QED  BY <1>2, <2>1, <2>2 DEF InCall
<1>5. ASSUME home[u] = ReceivedOf[ArgOf[r]] PROVE u = t /\ at[t] = Idle
  <2>1. stage[u].op \in {"argument", "end"} /\ ChanOf(stage[u]) = ArgOf[r] /\ at[u] = Idle
    BY <1>0, <1>5, WhoWaits
  <2>2. InCall(u, r, "argument") \/ InCall(u, r, "accept")
    BY <2>1, StageOfChan
  <2> QED  BY <1>3, <2>1, <2>2 DEF InCall
<1>6. ASSUME home[u] = SentOf[ResOf[r]] PROVE u = t /\ Receiving(t, ResOf[r])
  <2>1. /\ stage[u].op \in {"result", "accept"} /\ ChanOf(stage[u]) = ResOf[r]
        /\ Receiving(u, ResOf[r])
    BY <1>0, <1>6, WhoWaits
  <2>2. InCall(u, r, "result") \/ InCall(u, r, "end")
    BY <2>1, StageOfChan
  <2> QED  BY <1>3, <2>1, <2>2 DEF InCall
<1>7. ASSUME home[u] = ReceivedOf[ResOf[r]] PROVE u = acceptor /\ at[acceptor] = Idle
  <2>1. stage[u].op \in {"argument", "end"} /\ ChanOf(stage[u]) = ResOf[r] /\ at[u] = Idle
    BY <1>0, <1>7, WhoWaits
  <2>2. InCall(u, r, "result") \/ InCall(u, r, "end")
    BY <2>1, StageOfChan
  <2> QED  BY <1>2, <2>1, <2>2 DEF InCall
<1> QED  BY <1>4, <1>5, <1>6, <1>7

(* The sender assigns an empty data cell and lets the receiver through. *)
LEMMA ExchangeSend ==
  ASSUME KernelInv, NEW c \in Chans, NEW s \in Tasks, NEW v \in Tasks, s # v,
         Only(c, s, v), Exchange(c, s, v), tp = s, at[s] = Idle, Sending(s, c)',
         at'[v] = at[v], unread'[c] = TRUE, Signal(SentOf[c])
  PROVE  Exchange(c, s, v)' /\ ~ unread[c]
<1>0. /\ count \in [Semaphores -> Nat] /\ home \in [Nodes -> Homes]
      /\ home[s] = "run" /\ Tasks \subseteq Nodes
      /\ SentOf[c] \in Semaphores /\ ReceivedOf[c] \in Semaphores
      /\ SentOf[c] # ReceivedOf[c] /\ SentOf[c] # "run" /\ ReceivedOf[c] # "run"
  BY RdvBasics, ChannelSemaphores DEF KernelInv, KernelTypeOK, RunnersLinked
<1>1. ~ Sending(s, c) /\ Receiving(v, c)' = Receiving(v, c)
  BY DEF Sending, Receiving, Idle
<1>2. ~ unread[c] /\ ~ Reading(v, c) /\ count[SentOf[c]] = 0 /\ count[ReceivedOf[c]] = 0
  BY <1>0, <1>1 DEF Exchange
<1>3. CASE /\ \A t \in Tasks : home[t] # SentOf[c]
           /\ count' = [count EXCEPT ![SentOf[c]] = @ + 1] /\ UNCHANGED <<home, tp>>
  <2>1. count'[SentOf[c]] = 1 /\ count'[ReceivedOf[c]] = 0
    BY <1>0, <1>2, <1>3
  <2>2. ~ Reading(v, c)'
    BY <1>1, <1>2, <1>3 DEF Reading
  <2> QED  BY <1>0, <1>2, <1>3, <2>1, <2>2 DEF Exchange
<1>4. ASSUME NEW u \in Tasks, home[u] = SentOf[c], u # tp,
             count' = count, home' = [home EXCEPT ![u] = "run"]
      PROVE  Exchange(c, s, v)'
  <2>1. u = v /\ Receiving(v, c)
    BY <1>4 DEF Only
  <2>2. Reading(v, c)' /\ home'[s] = "run"
    BY <1>0, <1>1, <1>4, <2>1 DEF Reading
  <2> QED  BY <1>0, <1>2, <1>4, <2>2 DEF Exchange
<1> QED  BY <1>0, <1>2, <1>3, <1>4, SignalEffect

(* The sender returns from send, or waits until its message is received. *)
LEMMA ExchangeWait ==
  ASSUME KernelInv, NEW c \in Chans, NEW s \in Tasks, NEW v \in Tasks, s # v,
         Exchange(c, s, v), tp = s, tp # foreground, Sending(s, c), at'[s] = Idle,
         at'[v] = at[v], unread'[c] = unread[c], Wait(ReceivedOf[c])
  PROVE  Exchange(c, s, v)' /\ home'[s] \in {"run", ReceivedOf[c]}
<1>0. /\ count \in [Semaphores -> Nat] /\ home \in [Nodes -> Homes]
      /\ home[s] = "run" /\ Tasks \subseteq Nodes
      /\ SentOf[c] \in Semaphores /\ ReceivedOf[c] \in Semaphores
      /\ SentOf[c] # ReceivedOf[c] /\ SentOf[c] # "run" /\ ReceivedOf[c] # "run"
  BY RdvBasics, ChannelSemaphores DEF KernelInv, KernelTypeOK, RunnersLinked
<1>1. ~ Sending(s, c)' /\ Receiving(v, c)' = Receiving(v, c)
  BY DEF Sending, Receiving, Idle
<1>2. CASE count[ReceivedOf[c]] = 0 /\ count' = count /\ home' = [home EXCEPT ![tp] = ReceivedOf[c]]
  <2>1. home'[s] = ReceivedOf[c] /\ home'[v] = home[v]
    BY <1>0, <1>2
  <2>2. Reading(v, c)' = Reading(v, c)
    BY <1>1, <2>1 DEF Reading
  <2>3. unread[c]
    BY <1>2 DEF Exchange
  <2> QED  BY <1>0, <1>1, <1>2, <2>1, <2>2, <2>3 DEF Exchange
<1>3. CASE /\ count[ReceivedOf[c]] > 0 /\ count' = [count EXCEPT ![ReceivedOf[c]] = @ - 1]
           /\ UNCHANGED <<home, tp>>
  <2>1. count[ReceivedOf[c]] = 1 /\ ~ unread[c]
    BY <1>0, <1>3 DEF Exchange
  <2>2. count'[ReceivedOf[c]] = 0 /\ count'[SentOf[c]] = count[SentOf[c]]
    BY <1>0, <1>3, <2>1
  <2>3. Reading(v, c)' = Reading(v, c)
    BY <1>1, <1>3 DEF Reading
  <2> QED  BY <1>0, <1>1, <1>3, <2>1, <2>2, <2>3 DEF Exchange
<1> QED  BY <1>0, <1>2, <1>3, WaitEffect

(* The receiver is let through to a message that was counted, or waits. *)
LEMMA ExchangeReceive ==
  ASSUME KernelInv, NEW c \in Chans, NEW s \in Tasks, NEW v \in Tasks, s # v,
         Exchange(c, s, v), tp = v, tp # foreground, at[v] = Idle, Receiving(v, c)',
         at'[s] = at[s], unread'[c] = unread[c], Wait(SentOf[c])
  PROVE  Exchange(c, s, v)'
<1>0. /\ count \in [Semaphores -> Nat] /\ home \in [Nodes -> Homes]
      /\ home[v] = "run" /\ Tasks \subseteq Nodes
      /\ SentOf[c] \in Semaphores /\ ReceivedOf[c] \in Semaphores
      /\ SentOf[c] # ReceivedOf[c] /\ SentOf[c] # "run" /\ ReceivedOf[c] # "run"
  BY RdvBasics, ChannelSemaphores DEF KernelInv, KernelTypeOK, RunnersLinked
<1>1. ~ Reading(v, c) /\ Sending(s, c)' = Sending(s, c)
  BY DEF Reading, Sending, Receiving, Idle
<1>2. CASE count[SentOf[c]] = 0 /\ count' = count /\ home' = [home EXCEPT ![tp] = SentOf[c]]
  <2>1. home'[v] = SentOf[c] /\ home'[s] = home[s]
    BY <1>0, <1>2
  <2>2. ~ Reading(v, c)'
    BY <1>0, <2>1 DEF Reading
  <2> QED  BY <1>0, <1>1, <1>2, <2>1, <2>2 DEF Exchange
<1>3. CASE /\ count[SentOf[c]] > 0 /\ count' = [count EXCEPT ![SentOf[c]] = @ - 1]
           /\ UNCHANGED <<home, tp>>
  <2>1. count[SentOf[c]] = 1 /\ unread[c]
    BY <1>0, <1>1, <1>3 DEF Exchange
  <2>2. count'[SentOf[c]] = 0 /\ count'[ReceivedOf[c]] = count[ReceivedOf[c]]
    BY <1>0, <1>3, <2>1
  <2>3. Reading(v, c)'
    BY <1>0, <1>3 DEF Reading
  <2> QED  BY <1>0, <1>1, <1>3, <2>1, <2>2, <2>3 DEF Exchange
<1> QED  BY <1>0, <1>2, <1>3, WaitEffect

(* The receiver reads an unread message and lets the sender go on. *)
LEMMA ExchangeRead ==
  ASSUME KernelInv, NEW c \in Chans, NEW s \in Tasks, NEW v \in Tasks, s # v,
         Only(c, s, v), Exchange(c, s, v), tp = v, Receiving(v, c), at'[v] = Idle,
         at'[s] = at[s], unread'[c] = FALSE, Signal(ReceivedOf[c])
  PROVE  Exchange(c, s, v)' /\ unread[c]
<1>0. /\ count \in [Semaphores -> Nat] /\ home \in [Nodes -> Homes]
      /\ home[v] = "run" /\ Tasks \subseteq Nodes
      /\ SentOf[c] \in Semaphores /\ ReceivedOf[c] \in Semaphores
      /\ SentOf[c] # ReceivedOf[c] /\ SentOf[c] # "run" /\ ReceivedOf[c] # "run"
  BY RdvBasics, ChannelSemaphores DEF KernelInv, KernelTypeOK, RunnersLinked
<1>1. ~ Reading(v, c)' /\ Reading(v, c) /\ Sending(s, c)' = Sending(s, c)
  BY <1>0 DEF Reading, Sending, Receiving, Idle
<1>2. unread[c] /\ count[SentOf[c]] = 0 /\ count[ReceivedOf[c]] = 0
  BY <1>0, <1>1 DEF Exchange
<1>3. CASE /\ \A t \in Tasks : home[t] # ReceivedOf[c]
           /\ count' = [count EXCEPT ![ReceivedOf[c]] = @ + 1] /\ UNCHANGED <<home, tp>>
  <2>1. count'[ReceivedOf[c]] = 1 /\ count'[SentOf[c]] = 0
    BY <1>0, <1>2, <1>3
  <2>2. Sending(s, c)'
    BY <1>1, <1>2, <1>3 DEF Exchange
  <2> QED  BY <1>0, <1>1, <1>3, <2>1, <2>2 DEF Exchange
<1>4. ASSUME NEW u \in Tasks, home[u] = ReceivedOf[c], u # tp,
             count' = count, home' = [home EXCEPT ![u] = "run"]
      PROVE  Exchange(c, s, v)'
  <2>1. u = s /\ at[s] = Idle
    BY <1>4 DEF Only
  <2>2. home'[s] = "run" /\ ~ Sending(s, c)'
    BY <1>0, <1>4, <2>1 DEF Sending, Idle
  <2> QED  BY <1>0, <1>1, <1>2, <1>4, <2>2 DEF Exchange
<1> QED  BY <1>0, <1>2, <1>3, <1>4, SignalEffect
----------------------------------------------------------------------------
(* What a step on one channel leaves of the invariant, of whichever task. *)
LEMMA StagesKeep ==
  ASSUME KernelInv, CallTypeOK, InStages, NEW c \in Chans, KernelOn(c), PlacesOn(c),
         NEW p \in Tasks, tp = p,
         \A t \in Tasks \ {tp} : stage'[t] = stage[t] /\ argument'[t] = argument[t],
         InStage(p)'
  PROVE  InStages'
<1> SUFFICES ASSUME NEW t \in Tasks PROVE InStage(t)'
  BY DEF InStages
<1>1. CASE t = p
  BY <1>1
<1>2. CASE t # p
  BY <1>2, OtherInStage
<1> QED  BY <1>1, <1>2

(* ... of the exchanges over the other channels.                           *)
LEMMA ExchangesKeep ==
  ASSUME KernelInv, CallTypeOK, InStages, Exchanges, NEW c \in Chans, KernelOn(c), PlacesOn(c),
         \A r \in Rdvs : \A t \in ClientsOf[r] :
           /\ ArgOf[r] = c => Exchange(ArgOf[r], t, acceptor)'
           /\ ResOf[r] = c => Exchange(ResOf[r], acceptor, t)'
  PROVE  Exchanges'
<1> SUFFICES ASSUME NEW r \in Rdvs, NEW t \in ClientsOf[r]
             PROVE  Exchange(ArgOf[r], t, acceptor)' /\ Exchange(ResOf[r], acceptor, t)'
  BY DEF Exchanges
<1>1. t \in Tasks /\ acceptor \in Tasks /\ ArgOf[r] \in Chans /\ ResOf[r] \in Chans
  BY RdvBasics
<1>2. Exchange(ArgOf[r], t, acceptor) /\ Exchange(ResOf[r], acceptor, t)
  BY DEF Exchanges
<1>3. ASSUME ArgOf[r] # c PROVE Exchange(ArgOf[r], t, acceptor)'
  BY <1>1, <1>2, <1>3, OtherExchange
<1>4. ASSUME ResOf[r] # c PROVE Exchange(ResOf[r], acceptor, t)'
  BY <1>1, <1>2, <1>4, OtherExchange
<1> QED  BY <1>3, <1>4

(* ... and of a rendezvous without clients.                                *)
LEMMA DesertedKeeps ==
  ASSUME NEW c \in Chans, KernelOn(c), NEW r \in Rdvs, ArgOf[r] # c, NobodyCalls(r),
         \/ tp # acceptor /\ stage'[acceptor] = stage[acceptor]
         \/ ~ InCall(acceptor, r, "end")' /\ ~ InCall(acceptor, r, "accept")'
  PROVE  NobodyCalls(r)'
<1>1. /\ ArgOf[r] \in Chans /\ acceptor \in Tasks
  BY RdvBasics
<1>2. /\ SentOf[ArgOf[r]] \in Semaphores
      /\ SentOf[ArgOf[r]] \notin {"run", SentOf[c], ReceivedOf[c]}
  BY <1>1, ChannelSemaphores
<1>3. count'[SentOf[ArgOf[r]]] = count[SentOf[ArgOf[r]]]
  BY <1>2 DEF KernelOn
<1>4. ASSUME tp # acceptor, home[acceptor] = SentOf[ArgOf[r]]
      PROVE  home'[acceptor] = SentOf[ArgOf[r]]
  BY <1>1, <1>2, <1>4 DEF KernelOn
<1> QED  BY <1>3, <1>4 DEF NobodyCalls, InCall

(* Two rendezvous have no channel in common. *)
LEMMA OtherChannels ==
  ASSUME NEW q \in Rdvs, NEW r \in Rdvs, r # q, NEW c \in {ArgOf[q], ResOf[q]}, PlacesOn(c)
  PROVE  /\ ArgOf[r] # c /\ ResOf[r] # c
         /\ UNCHANGED <<unread[ArgOf[r]], data[ArgOf[r]], unread[ResOf[r]], data[ResOf[r]]>>
<1>1. ArgOf[r] # c /\ ResOf[r] # c /\ ArgOf[r] \in Chans /\ ResOf[r] \in Chans
  BY RdvBasics
<1> QED  BY <1>1 DEF PlacesOn

(* A step of the client of a rendezvous on one of its two channels.        *)
LEMMA ClientStep ==
  ASSUME OneClientEach, KernelInv, CallTypeOK, CallInv,
         NEW q \in Rdvs, NEW p \in ClientsOf[q], tp = p, NEW c \in {ArgOf[q], ResOf[q]},
         KernelOn(c), PlacesOn(c), services' = services,
         \A t \in Tasks \ {tp} : UNCHANGED <<stage[t], argument[t], got[t], accepted[t]>>,
         \A r \in Rdvs \ {q} : /\ ~ Awaits(p, r) /\ ~ InCall(p, r, "argument")
                               /\ \A op \in {"argument", "result"} : ~ InCall(p, r, op)',
         InStage(p)',
         c = ArgOf[q] => Exchange(c, p, acceptor)',
         c = ResOf[q] => Exchange(c, acceptor, p)',
         Meeting(p, q)'
  PROVE  CallInv'
<1>0. /\ c \in Chans /\ p \in Tasks /\ p # acceptor /\ acceptor \in Tasks
  BY RdvBasics
<1>1. /\ UNCHANGED <<stage[acceptor], at[acceptor], got[acceptor]>>
  BY <1>0 DEF PlacesOn
<1>2. \A r \in Rdvs : Serving(r)' = Serving(r)
  BY <1>1 DEF Serving, InCall
<1>3. InStages'
  BY <1>0, StagesKeep DEF CallInv
<1>4. Exchanges'
  <2>1. ASSUME NEW r \in Rdvs, NEW t \in ClientsOf[r], ArgOf[r] = c \/ ResOf[r] = c
        PROVE  r = q /\ t = p
    BY <2>1, RdvBasics DEF OneClientEach
  <2> QED  BY <1>0, <2>1, ExchangesKeep DEF CallInv
<1>5. Meetings'
  <2> SUFFICES ASSUME NEW r \in Rdvs, NEW t \in ClientsOf[r] PROVE Meeting(t, r)'
    BY DEF Meetings
  <2>1. CASE r = q
    <3>1. t = p
      BY <2>1 DEF OneClientEach
    <3> QED  BY <2>1, <3>1
  <2>2. CASE r # q
    <3>1. UNCHANGED <<unread[ArgOf[r]], data[ArgOf[r]], unread[ResOf[r]], data[ResOf[r]]>>
      BY <2>2, OtherChannels
    <3>2. Meeting(t, r)
      BY DEF CallInv, Meetings
    <3>3. CASE t = p
      <4>1. /\ ~ Awaits(t, r) /\ ~ InCall(t, r, "argument")
            /\ ~ InCall(t, r, "argument")' /\ ~ InCall(t, r, "result")'
        BY <2>2, <3>3
      <4>2. ~ Awaits(t, r)'
        BY <4>1 DEF Awaits
      <4>3. ~ unread[ArgOf[r]] /\ ~ Serving(r) /\ ~ unread[ResOf[r]]
        BY <3>2, <4>1 DEF Meeting
      <4>4. ~ unread'[ArgOf[r]] /\ ~ Serving(r)' /\ ~ unread'[ResOf[r]]
        BY <1>2, <3>1, <4>3
      <4> QED  BY <4>1, <4>2, <4>4 DEF Meeting
    <3>4. CASE t # p
      <4>1. UNCHANGED <<stage[t], argument[t], got[t], accepted[t], at[t]>>
        BY <1>0, <3>4, RdvBasics DEF PlacesOn
      <4>2. /\ Awaits(t, r)' = Awaits(t, r)
            /\ \A op \in {"argument", "result"} : InCall(t, r, op)' = InCall(t, r, op)
        BY <3>1, <4>1 DEF Awaits, InCall
      <4>3. Served(t, r)' = Served(t, r)
        BY <1>1, <1>2, <3>1, <4>1 DEF Served, Reply
      <4> QED  BY <1>2, <3>1, <3>2, <4>1, <4>2, <4>3 DEF Meeting, Reply
    <3> QED  BY <3>3, <3>4
  <2> QED  BY <2>1, <2>2
<1>6. Deserted'
  <2> SUFFICES ASSUME NEW r \in Rdvs, ClientsOf[r] = {} PROVE NobodyCalls(r)'
    BY DEF Deserted
  <2>1. r # q
    OBVIOUS
  <2>2. ArgOf[r] # c /\ NobodyCalls(r)
    BY <2>1, OtherChannels DEF CallInv, Deserted
  <2> QED  BY <1>0, <1>1, <2>2, DesertedKeeps
<1>7. AcceptAsked'
  <2>1. home'[acceptor] = home[acceptor] \/ home'[acceptor] = "run"
    BY <1>0 DEF KernelOn
  <2> QED  BY <1>1, <2>1 DEF CallInv, AcceptAsked, InCall
<1> QED  BY <1>3, <1>4, <1>5, <1>6, <1>7 DEF CallInv

(* A step of the server on one of the two channels of a rendezvous.        *)
LEMMA ServerStep ==
  ASSUME OneClientEach, KernelInv, CallTypeOK, CallInv, tp = acceptor,
         NEW q \in Rdvs, NEW c \in {ArgOf[q], ResOf[q]},
         KernelOn(c), PlacesOn(c), services' = services, argument' = argument,
         \A t \in Tasks \ {tp} : UNCHANGED <<stage[t], got[t]>>,
         \A t \in Tasks : accepted'[t] = accepted[t] \/ InCall(t, q, "argument"),
         \A r \in Rdvs \ {q} : /\ ~ Serving(r)
                               /\ \A op \in {"accept", "end"} : ~ InCall(acceptor, r, op)',
         InStage(acceptor)',
         \A t \in ClientsOf[q] : /\ c = ArgOf[q] => Exchange(c, t, acceptor)'
                                 /\ c = ResOf[q] => Exchange(c, acceptor, t)'
                                 /\ Meeting(t, q)',
         ClientsOf[q] = {} => NobodyCalls(q)',
         InCall(acceptor, q, "accept")' => services = {q} \/ home'[acceptor] = "run"
  PROVE  CallInv'
<1>0. c \in Chans /\ acceptor \in Tasks
  BY RdvBasics
<1>1. \A t \in Tasks \ {tp} : UNCHANGED <<stage[t], argument[t]>>
  OBVIOUS
<1>2. InStages'
  BY <1>0, <1>1, StagesKeep DEF CallInv
<1>3. Exchanges'
  <2>1. ASSUME NEW r \in Rdvs, ArgOf[r] = c \/ ResOf[r] = c PROVE r = q
    BY <2>1, RdvBasics
  <2> QED  BY <1>0, <2>1, ExchangesKeep DEF CallInv
<1>4. Meetings'
  <2> SUFFICES ASSUME NEW r \in Rdvs, NEW t \in ClientsOf[r] PROVE Meeting(t, r)'
    BY DEF Meetings
  <2>1. CASE r # q
    <3>1. UNCHANGED <<unread[ArgOf[r]], data[ArgOf[r]], unread[ResOf[r]], data[ResOf[r]]>>
      BY <2>1, OtherChannels
    <3>2. Meeting(t, r) /\ t \in Tasks /\ t # tp
      BY RdvBasics DEF CallInv, Meetings
    <3>3. UNCHANGED <<stage[t], argument[t], got[t], at[t]>>
      BY <3>2 DEF PlacesOn
    <3>4. ~ Serving(r) /\ ~ Serving(r)'
      BY <2>1 DEF Serving
    <3>5. /\ Awaits(t, r)' = Awaits(t, r)
          /\ \A op \in {"argument", "result"} : InCall(t, r, op)' = InCall(t, r, op)
      BY <3>1, <3>3 DEF Awaits, InCall
    <3>6. Served(t, r)' = Served(t, r)
      BY <3>1, <3>3, <3>4 DEF Served, Reply
    <3>7. ASSUME accepted'[t] # accepted[t]
          PROVE  ~ InCall(t, r, "argument") /\ ~ InCall(t, r, "result")
      BY <2>1, <3>2, <3>7 DEF InCall
    <3>8. CASE accepted'[t] = accepted[t]
      BY <3>1, <3>2, <3>3, <3>4, <3>5, <3>6, <3>8 DEF Meeting, Reply
    <3>9. CASE ~ InCall(t, r, "argument") /\ ~ InCall(t, r, "result")
      <4>1. ~ Awaits(t, r)
        BY <3>9 DEF Awaits
      <4> QED  BY <3>1, <3>2, <3>4, <3>5, <3>9, <4>1 DEF Meeting
    <3> QED  BY <3>7, <3>8, <3>9
  <2> QED  BY <2>1
<1>5. Deserted'
  <2> SUFFICES ASSUME NEW r \in Rdvs, ClientsOf[r] = {} PROVE NobodyCalls(r)'
    BY DEF Deserted
  <2>1. CASE r # q
    <3>1. ArgOf[r] # c /\ NobodyCalls(r)
      BY <2>1, OtherChannels DEF CallInv, Deserted
    <3>2. ~ InCall(acceptor, r, "end")' /\ ~ InCall(acceptor, r, "accept")'
      BY <2>1
    <3> QED  BY <1>0, <3>1, <3>2, DesertedKeeps
  <2> QED  BY <2>1
<1>6. AcceptAsked'
  <2>1. \A r \in Rdvs \ {q} : ~ InCall(acceptor, r, "accept")'
    OBVIOUS
  <2> QED  BY <2>1 DEF AcceptAsked
<1> QED  BY <1>2, <1>3, <1>4, <1>5, <1>6 DEF CallInv
----------------------------------------------------------------------------
(* The actions of a client.                                                *)
LEMMA OneToOne == ASSUME CallTypeOK, NEW c \in Chans PROVE ~ ManyToOne(c)
  BY DEF CallTypeOK, ManyToOne

(* A task that runs has no unread message of its own when it is idle.      *)
LEMMA IdleHasSent ==
  ASSUME KernelInv, NEW c \in Chans, NEW v \in Tasks, Exchange(c, tp, v), at[tp] = Idle
  PROVE  ~ unread[c]
<1>1. home[tp] = "run" /\ "run" # ReceivedOf[c]
  BY ChannelSemaphores DEF KernelInv, RunnersLinked
<1> QED  BY <1>1 DEF Exchange, Sending, Idle

(* The argument is assigned to a channel that was empty.                   *)
LEMMA CallKeeps ==
  ASSUME OneClientEach, RdvInv, NEW r \in Rdvs, Call(r) PROVE RdvInv'
<1> DEFINE c == ArgOf[r]
           m == NextArgument(tp)
<1>0. PICK p \in ClientsOf[r] : tp = p
  BY DEF Call
<1>1. /\ p \in Tasks /\ p # acceptor /\ p # foreground /\ acceptor \in Tasks
      /\ c \in Chans /\ ResOf[r] \in Chans /\ c # ResOf[r]
  BY RdvBasics
<1>2. /\ at[p] = Idle /\ stage[p].op \in {"none", "result", "end"}
      /\ at' = [at EXCEPT ![p] = [op |-> "send.wait", chan |-> c]]
      /\ data' = [data EXCEPT ![c] = m] /\ unread' = [unread EXCEPT ![c] = TRUE]
      /\ Signal(SentOf[c]) /\ mode' = mode
      /\ argument' = [argument EXCEPT ![p] = m]
      /\ stage' = [stage EXCEPT ![p] = [op |-> "argument", rdv |-> r]]
      /\ UNCHANGED <<got, accepted, services>>
  BY <1>0, <1>1, OneToOne DEF RdvInv, Call, Between, AtIdle, SendStart, GoTo, Write, Enter
<1>3. m \in {p} \X {0, 1}
  BY <1>0 DEF NextArgument
<1>4. KernelInv /\ CallTypeOK /\ CallInv /\ InStages /\ Exchanges /\ Meetings
  BY DEF RdvInv, CallInv
<1> HIDE DEF c, m
<1>5. CallTypeOK'
  <2>1. m \in Arguments /\ m \in Contents /\ [op |-> "send.wait", chan |-> c] \in CallPlaces
        /\ [op |-> "argument", rdv |-> r] \in Stages
    BY <1>1, <1>3 DEF Arguments, Contents, CallPlaces, Stages
  <2> QED  BY <1>2, <1>4, <2>1 DEF CallTypeOK
<1>6. KernelInv' /\ KernelOn(c) /\ home'[p] = "run"
  BY <1>0, <1>1, <1>2, <1>4, SignalOn
<1>7. /\ at'[p] = [op |-> "send.wait", chan |-> c] /\ stage'[p] = [op |-> "argument", rdv |-> r]
      /\ argument'[p] = m /\ data'[c] = m /\ unread'[c] = TRUE
      /\ \A t \in Tasks \ {p} : UNCHANGED <<at[t], stage[t], argument[t], got[t], accepted[t]>>
      /\ \A d \in Chans \ {c} : UNCHANGED <<data[d], unread[d]>>
  BY <1>1, <1>2, <1>4 DEF CallTypeOK
<1>8. PlacesOn(c)
  BY <1>0, <1>1, <1>2, <1>7 DEF PlacesOn
<1>9. InStage(p)'
  BY <1>3, <1>6, <1>7 DEF InStage, InSend, Sending, ChanOf, c
<1>10. Exchange(c, p, acceptor)'
  <2>1. Exchange(c, p, acceptor) /\ Only(c, p, acceptor)
    BY <1>4, Parties DEF Exchanges, c
  <2>2. Sending(p, c)' /\ at'[acceptor] = at[acceptor]
    BY <1>1, <1>7 DEF Sending
  <2> QED  BY <1>0, <1>1, <1>2, <1>4, <1>7, <2>1, <2>2, ExchangeSend
<1>11. \A s \in Rdvs \ {r} : /\ ~ Awaits(p, s) /\ ~ InCall(p, s, "argument")
                             /\ \A op \in {"argument", "result"} : ~ InCall(p, s, op)'
  BY <1>2, <1>7 DEF Awaits, InCall
<1>12. Meeting(p, r)'
  <2>1. ~ Awaits(p, r) /\ Meeting(p, r)
    BY <1>2, <1>4 DEF Awaits, InCall, Meetings
  <2>2. ~ Serving(r) /\ ~ unread[ResOf[r]]
    BY <2>1 DEF Meeting
  <2>3. ~ Serving(r)' /\ ~ unread'[ResOf[r]]
    BY <1>1, <1>7, <2>2 DEF Serving, InCall
  <2>4. InCall(p, r, "argument")' /\ ~ InCall(p, r, "result")'
    BY <1>7 DEF InCall
  <2>5. ~ Awaits(p, r)'
    BY <1>7, <2>4 DEF Awaits, c
  <2> QED  BY <1>7, <2>3, <2>4, <2>5 DEF Meeting, c
<1>13. CallInv'
  <2>1. c \in {ArgOf[r], ResOf[r]} /\ c = ArgOf[r]
    BY DEF c
  <2>2. \A t \in Tasks \ {tp} : UNCHANGED <<stage[t], argument[t], got[t], accepted[t]>>
    BY <1>0, <1>7
  <2>3. c = ResOf[r] => Exchange(c, acceptor, p)'
    BY <1>1
  <2> QED  BY <1>0, <1>2, <1>4, <1>6, <1>8, <1>9, <1>10, <1>11, <1>12,
             <2>1, <2>2, <2>3, ClientStep
<1> QED  BY <1>5, <1>6, <1>13 DEF RdvInv

(* A client that goes on to the result has had its argument accepted.      *)
LEMMA CallReceiveKeeps ==
  ASSUME OneClientEach, RdvInv, CallReceive PROVE RdvInv'
<1>1. KernelInv /\ CallTypeOK /\ CallInv /\ InStages /\ Exchanges /\ Meetings
  BY DEF RdvInv, CallInv
<1>2. PICK p \in Tasks : tp = p
  BY <1>1 DEF KernelInv, KernelTypeOK
<1>3. stage[p].op = "argument"
  BY <1>2 DEF CallReceive, At
<1>4. PICK r \in Rdvs : stage[p] = [op |-> "argument", rdv |-> r]
  BY <1>1, <1>3 DEF CallTypeOK, Stages, NoStage
<1>5. p \in ClientsOf[r] /\ argument[p] \in {p} \X {0, 1}
  BY <1>1, <1>4 DEF InStages, InStage
<1> DEFINE c == ResOf[r]
<1>6. /\ p # acceptor /\ p # foreground /\ acceptor \in Tasks
      /\ c \in Chans /\ ArgOf[r] \in Chans /\ c # ArgOf[r]
  BY <1>5, RdvBasics
<1>7. /\ at[p] = Idle
      /\ at' = [at EXCEPT ![p] = [op |-> "receive.read", chan |-> c]]
      /\ Wait(SentOf[c])
      /\ stage' = [stage EXCEPT ![p] = [op |-> "result", rdv |-> r]]
      /\ UNCHANGED <<mode, data, unread, argument, got, accepted, services>>
  BY <1>1, <1>2, <1>4, <1>6, OneToOne DEF CallReceive, At, AtIdle, ReceiveStart, GoTo, Enter
<1> HIDE DEF c
<1>8. CallTypeOK'
  <2>1. /\ [op |-> "receive.read", chan |-> c] \in CallPlaces
        /\ [op |-> "result", rdv |-> r] \in Stages
    BY <1>6 DEF CallPlaces, Stages
  <2> QED  BY <1>1, <1>7, <2>1 DEF CallTypeOK
<1>9. KernelInv' /\ KernelOn(c)
  BY <1>1, <1>2, <1>6, <1>7, WaitOn
<1>10. /\ at'[p] = [op |-> "receive.read", chan |-> c] /\ stage'[p] = [op |-> "result", rdv |-> r]
      /\ \A t \in Tasks \ {p} : UNCHANGED <<at[t], stage[t]>>
  BY <1>1, <1>6, <1>7 DEF CallTypeOK
<1>11. PlacesOn(c)
  BY <1>2, <1>6, <1>7, <1>10 DEF PlacesOn
<1>12. home'[p] \in {"run", SentOf[c]}
  <2>1. /\ home[p] = "run" /\ home \in [Nodes -> Homes] /\ p \in Nodes /\ SentOf[c] \in Semaphores
    BY <1>1, <1>2, <1>6, RdvBasics, ChannelSemaphores DEF KernelInv, KernelTypeOK, RunnersLinked
  <2>2. home' = [home EXCEPT ![p] = SentOf[c]] \/ home' = home
    BY <1>1, <1>2, <1>6, <1>7, <2>1, WaitEffect
  <2> QED  BY <2>1, <2>2
<1>13. InStage(p)'
  BY <1>5, <1>7, <1>10, <1>12 DEF InStage, InReceive, Receiving, ChanOf, c
<1>14. Exchange(c, acceptor, p)'
  <2>1. Exchange(c, acceptor, p)
    BY <1>1, <1>5 DEF Exchanges, c
  <2>2. Receiving(p, c)' /\ at'[acceptor] = at[acceptor]
    BY <1>6, <1>10 DEF Receiving
  <2> QED  BY <1>1, <1>2, <1>6, <1>7, <1>10, <2>1, <2>2, ExchangeReceive
<1>15. \A s \in Rdvs \ {r} : /\ ~ Awaits(p, s) /\ ~ InCall(p, s, "argument")
                             /\ \A op \in {"argument", "result"} : ~ InCall(p, s, op)'
  BY <1>4, <1>7, <1>10 DEF Awaits, InCall
<1>16. Meeting(p, r)'
  <2>1. ~ unread[ArgOf[r]]
    <3>1. Exchange(ArgOf[r], p, acceptor)
      BY <1>1, <1>5 DEF Exchanges
    <3> QED  BY <1>1, <1>2, <1>6, <1>7, <3>1, IdleHasSent
  <2>2. Awaits(p, r) /\ Meeting(p, r)
    BY <1>1, <1>4, <1>5, <2>1 DEF Awaits, InCall, Meetings
  <2>3. accepted[p] = argument[p] /\ Served(p, r)
    BY <2>2 DEF Meeting
  <2>4. accepted'[p] = argument'[p] /\ Served(p, r)'
    BY <1>6, <1>7, <1>10, <2>3 DEF Served, Serving, InCall, Reply
  <2>5. Awaits(p, r)' /\ ~ unread'[ArgOf[r]] /\ at'[p] # Idle
    BY <1>7, <1>10, <2>1 DEF Awaits, InCall, Idle
  <2> QED  BY <2>4, <2>5 DEF Meeting
<1>17. CallInv'
  <2>1. c \in {ArgOf[r], ResOf[r]} /\ c = ResOf[r]
    BY DEF c
  <2>2. \A t \in Tasks \ {tp} : UNCHANGED <<stage[t], argument[t], got[t], accepted[t]>>
    BY <1>2, <1>7, <1>10
  <2>3. c = ArgOf[r] => Exchange(c, p, acceptor)'
    BY <1>6
  <2> QED  BY <1>1, <1>2, <1>5, <1>7, <1>9, <1>11, <1>13, <1>14, <1>15, <1>16,
             <2>1, <2>2, <2>3, ClientStep
<1> QED  BY <1>8, <1>9, <1>17 DEF RdvInv
----------------------------------------------------------------------------
(* The actions of the server.                                              *)
(* The server comes for an argument, which is there if it has asked.       *)
LEMMA AcceptKeeps ==
  ASSUME OneClientEach, RdvInv, NEW r \in Rdvs, Accept(r) PROVE RdvInv'
<1>1. KernelInv /\ CallTypeOK /\ CallInv /\ InStages /\ Exchanges /\ Meetings /\ Deserted
  BY DEF RdvInv, CallInv
<1> DEFINE c == ArgOf[r]
<1>2. /\ acceptor \in Tasks /\ acceptor # foreground
      /\ c \in Chans /\ ResOf[r] \in Chans /\ c # ResOf[r]
  BY RdvBasics
<1>3. /\ tp = acceptor /\ at[acceptor] = Idle /\ stage[acceptor].op \in {"none", "result", "end"}
      /\ services = {r} \/ ~ WouldWait(SentOf[c])
      /\ at' = [at EXCEPT ![acceptor] = [op |-> "receive.read", chan |-> c]]
      /\ Wait(SentOf[c])
      /\ stage' = [stage EXCEPT ![acceptor] = [op |-> "accept", rdv |-> r]]
      /\ UNCHANGED <<mode, data, unread, argument, got, accepted, services>>
  BY <1>1, <1>2, OneToOne DEF Accept, Awaiting, Avail, Between, AtIdle, ReceiveStart, GoTo, Enter
<1> HIDE DEF c
<1>4. CallTypeOK'
  <2>1. /\ [op |-> "receive.read", chan |-> c] \in CallPlaces
        /\ [op |-> "accept", rdv |-> r] \in Stages
    BY <1>2 DEF CallPlaces, Stages
  <2> QED  BY <1>1, <1>3, <2>1 DEF CallTypeOK
<1>5. KernelInv' /\ KernelOn(c)
  BY <1>1, <1>2, <1>3, WaitOn
<1>6. /\ at'[acceptor] = [op |-> "receive.read", chan |-> c]
      /\ stage'[acceptor] = [op |-> "accept", rdv |-> r]
      /\ \A t \in Tasks \ {acceptor} : UNCHANGED <<at[t], stage[t]>>
  BY <1>1, <1>2, <1>3 DEF CallTypeOK
<1>7. PlacesOn(c)
  BY <1>3, <1>6 DEF PlacesOn
<1>8. /\ home \in [Nodes -> Homes] /\ home[acceptor] = "run" /\ acceptor \in Nodes
      /\ SentOf[c] \in Semaphores /\ count \in [Semaphores -> Nat]
  BY <1>1, <1>2, <1>3, RdvBasics, ChannelSemaphores DEF KernelInv, KernelTypeOK, RunnersLinked
<1>9. \/ count[SentOf[c]] = 0 /\ count' = count /\ home'[acceptor] = SentOf[c]
      \/ count[SentOf[c]] > 0 /\ home'[acceptor] = "run"
  <2>1. \/ count[SentOf[c]] = 0 /\ count' = count /\ home' = [home EXCEPT ![tp] = SentOf[c]]
        \/ count[SentOf[c]] > 0 /\ UNCHANGED home
    BY <1>1, <1>2, <1>3, <1>8, WaitEffect
  <2> QED  BY <1>3, <1>8, <2>1
<1>10. InStage(acceptor)'
  BY <1>6, <1>9 DEF InStage, InReceive, Receiving, ChanOf, c
<1>11. \A s \in Rdvs \ {r} : /\ ~ Serving(s)
                             /\ \A op \in {"accept", "end"} : ~ InCall(acceptor, s, op)'
  BY <1>3, <1>6 DEF Serving, InCall
<1>12. ASSUME NEW t \in ClientsOf[r] PROVE Exchange(c, t, acceptor)' /\ Meeting(t, r)'
  <2>1. Exchange(c, t, acceptor) /\ Meeting(t, r)
    BY <1>1 DEF Exchanges, Meetings, c
  <2>2. t \in Tasks /\ t # acceptor
    BY RdvBasics
  <2>3. Exchange(c, t, acceptor)'
    <3>1. Receiving(acceptor, c)' /\ at'[t] = at[t] /\ unread'[c] = unread[c]
      BY <1>3, <1>6, <2>2 DEF Receiving
    <3> QED  BY <1>1, <1>2, <1>3, <2>1, <2>2, <3>1, ExchangeReceive
  <2>4. ~ Serving(r) /\ ~ Serving(r)'
    BY <1>3, <1>6 DEF Serving, InCall, Idle
  <2>5. UNCHANGED <<stage[t], at[t], argument, got, accepted, data, unread>>
    BY <1>3, <1>6, <2>2
  <2> QED  BY <2>1, <2>3, <2>4, <2>5 DEF Meeting, Awaits, Served, InCall, Reply
<1>13. ASSUME ClientsOf[r] = {} PROVE NobodyCalls(r)'
  <2>1. count[SentOf[c]] = 0
    BY <1>1, <1>13 DEF Deserted, NobodyCalls, c
  <2> QED  BY <1>6, <1>9, <2>1 DEF NobodyCalls, InCall, c
<1>14. services = {r} \/ home'[acceptor] = "run"
  BY <1>3, <1>9 DEF WouldWait
<1>15. CallInv'
  <2>1. c \in {ArgOf[r], ResOf[r]} /\ c # ResOf[r]
    BY <1>2 DEF c
  <2>2. \A t \in Tasks \ {tp} : UNCHANGED <<stage[t], got[t]>>
    BY <1>3, <1>6
  <2>3. \A t \in Tasks : accepted'[t] = accepted[t]
    BY <1>3
  <2> QED  BY <1>1, <1>3, <1>5, <1>7, <1>10, <1>11, <1>12, <1>13, <1>14,
             <2>1, <2>2, <2>3, ServerStep
<1> QED  BY <1>4, <1>5, <1>15 DEF RdvInv

(* The result is for the client that is waiting, and was not sent before.  *)
LEMMA AcceptEndKeeps ==
  ASSUME OneClientEach, RdvInv, AcceptEnd PROVE RdvInv'
<1>1. KernelInv /\ CallTypeOK /\ CallInv /\ InStages /\ Exchanges /\ Meetings /\ Deserted
  BY DEF RdvInv, CallInv
<1>2. PICK p \in Tasks : tp = p
  BY <1>1 DEF KernelInv, KernelTypeOK
<1>3. stage[p].op = "accept" /\ p = acceptor
  BY <1>1, <1>2 DEF AcceptEnd, At, InStages, InStage
<1>4. PICK r \in Rdvs : stage[acceptor] = [op |-> "accept", rdv |-> r]
  BY <1>1, <1>3 DEF CallTypeOK, Stages, NoStage
<1> DEFINE c == ResOf[r]
           m == Reply(got[acceptor])
<1>5. /\ acceptor \in Tasks /\ acceptor # foreground
      /\ c \in Chans /\ ArgOf[r] \in Chans /\ c # ArgOf[r]
  BY RdvBasics
<1>6. /\ tp = acceptor /\ at[acceptor] = Idle
      /\ at' = [at EXCEPT ![acceptor] = [op |-> "send.wait", chan |-> c]]
      /\ data' = [data EXCEPT ![c] = m] /\ unread' = [unread EXCEPT ![c] = TRUE]
      /\ Signal(SentOf[c]) /\ mode' = mode
      /\ stage' = [stage EXCEPT ![acceptor] = [op |-> "end", rdv |-> r]]
      /\ UNCHANGED <<argument, got, accepted, services>>
  BY <1>1, <1>2, <1>3, <1>4, <1>5, OneToOne
     DEF AcceptEnd, At, AtIdle, SendStart, GoTo, Write, Enter
<1>7. Serving(r)
  BY <1>4, <1>6 DEF Serving, InCall
<1> HIDE DEF c, m
<1>8. ASSUME NEW t \in ClientsOf[r]
      PROVE  /\ Awaits(t, r) /\ accepted[t] = argument[t] /\ m = Reply(argument[t])
             /\ t \in Tasks /\ t # acceptor
  <2>1. Meeting(t, r)
    BY <1>1 DEF Meetings
  <2>2. Awaits(t, r) /\ accepted[t] = argument[t] /\ got[acceptor] = argument[t]
    BY <1>7, <2>1 DEF Meeting, Served
  <2> QED  BY <2>2, RdvBasics DEF m
<1>9. ClientsOf[r] # {}
  <2>1. home[acceptor] = "run" /\ SentOf[ArgOf[r]] # "run"
    BY <1>1, <1>5, <1>6, ChannelSemaphores DEF KernelInv, RunnersLinked
  <2> QED  BY <1>1, <1>4, <2>1 DEF Deserted, NobodyCalls, InCall
<1>10. CallTypeOK'
  <2>1. PICK t \in ClientsOf[r] : m = Reply(argument[t]) /\ t \in Tasks
    BY <1>8, <1>9
  <2>2. m \in Contents
    BY <1>1, <2>1 DEF CallTypeOK, Contents
  <2>3. /\ [op |-> "send.wait", chan |-> c] \in CallPlaces
        /\ [op |-> "end", rdv |-> r] \in Stages
    BY <1>5 DEF CallPlaces, Stages
  <2> QED  BY <1>1, <1>6, <2>2, <2>3 DEF CallTypeOK
<1>11. KernelInv' /\ KernelOn(c) /\ home'[acceptor] = "run"
  BY <1>1, <1>5, <1>6, SignalOn
<1>12. /\ at'[acceptor] = [op |-> "send.wait", chan |-> c]
       /\ stage'[acceptor] = [op |-> "end", rdv |-> r]
       /\ data'[c] = m /\ unread'[c] = TRUE
       /\ \A t \in Tasks \ {acceptor} : UNCHANGED <<at[t], stage[t]>>
       /\ \A d \in Chans \ {c} : UNCHANGED <<data[d], unread[d]>>
  BY <1>1, <1>5, <1>6 DEF CallTypeOK
<1>13. PlacesOn(c)
  BY <1>6, <1>12 DEF PlacesOn
<1>14. InStage(acceptor)'
  BY <1>11, <1>12 DEF InStage, InSend, Sending, ChanOf, c
<1>15. \A s \in Rdvs \ {r} : /\ ~ Serving(s)
                             /\ \A op \in {"accept", "end"} : ~ InCall(acceptor, s, op)'
  BY <1>4, <1>12 DEF Serving, InCall
<1>16. ASSUME NEW t \in ClientsOf[r] PROVE Exchange(c, acceptor, t)' /\ Meeting(t, r)'
  <2>1. Exchange(c, acceptor, t) /\ Meeting(t, r) /\ Only(c, acceptor, t)
    BY <1>1, Parties DEF Exchanges, Meetings, c
  <2>2. t \in Tasks /\ t # acceptor /\ Awaits(t, r) /\ accepted[t] = argument[t]
        /\ m = Reply(argument[t])
    BY <1>8
  <2>3. Exchange(c, acceptor, t)'
    <3>1. Sending(acceptor, c)' /\ at'[t] = at[t]
      BY <1>12, <2>2 DEF Sending
    <3> QED  BY <1>1, <1>5, <1>6, <1>12, <2>1, <2>2, <3>1, ExchangeSend
  <2>4. ~ Serving(r)'
    BY <1>12 DEF Serving, InCall
  <2>5. UNCHANGED <<stage[t], at[t], argument, got, accepted, data[ArgOf[r]], unread[ArgOf[r]]>>
    BY <1>5, <1>6, <1>12, <2>2
  <2>6. Awaits(t, r)' /\ Served(t, r)'
    BY <1>6, <1>12, <2>2, <2>4, <2>5 DEF Awaits, InCall, Served, c
  <2> QED  BY <2>1, <2>2, <2>3, <2>5, <2>6 DEF Meeting, Awaits, InCall, Reply
<1>17. CallInv'
  <2>1. c \in {ArgOf[r], ResOf[r]} /\ c # ArgOf[r]
    BY <1>5 DEF c
  <2>2. \A t \in Tasks \ {tp} : UNCHANGED <<stage[t], got[t]>>
    BY <1>6, <1>12
  <2>3. \A t \in Tasks : accepted'[t] = accepted[t]
    BY <1>6
  <2>4. ~ InCall(acceptor, r, "accept")'
    BY <1>12 DEF InCall
  <2> QED  BY <1>1, <1>6, <1>9, <1>11, <1>13, <1>14, <1>15, <1>16,
             <2>1, <2>2, <2>3, <2>4, ServerStep
<1> QED  BY <1>10, <1>11, <1>17 DEF RdvInv
----------------------------------------------------------------------------
(* The rest of send: a client's argument or the server's result was sent.  *)
LEMMA GoOnSend ==
  ASSUME OneClientEach, RdvInv, GoOn, SendWait PROVE RdvInv'
<1>1. KernelInv /\ CallTypeOK /\ CallInv /\ InStages /\ Exchanges /\ Meetings /\ Deserted
  BY DEF RdvInv, CallInv
<1>2. PICK p \in Tasks : tp = p
  BY <1>1 DEF KernelInv, KernelTypeOK
<1>3. at[p].op = "send.wait"
  BY <1>2 DEF SendWait, In
<1>4. PICK c \in Chans : at[p] = [op |-> "send.wait", chan |-> c]
  BY <1>1, <1>3 DEF CallTypeOK, CallPlaces, Idle
<1>5. /\ at' = [at EXCEPT ![p] = Idle] /\ Wait(ReceivedOf[c])
      /\ UNCHANGED <<mode, data, unread, stage, argument, got, accepted, services>>
  BY <1>2, <1>3, <1>4 DEF GoOn, SendWait, In, Return, GoTo
<1>6. /\ stage[p].op \in {"argument", "end"} /\ ChanOf(stage[p]) = c /\ Sending(p, c)
  BY <1>1, <1>4, WhoWaits DEF Sending
<1>7. PICK r \in Rdvs :
        \/ stage[p] = [op |-> "argument", rdv |-> r] /\ c = ArgOf[r] /\ p \in ClientsOf[r]
        \/ stage[p] = [op |-> "end", rdv |-> r] /\ c = ResOf[r] /\ p = acceptor
  <2>1. PICK r \in Rdvs, op \in {"argument", "end"} : stage[p] = [op |-> op, rdv |-> r]
    BY <1>1, <1>6 DEF CallTypeOK, Stages, NoStage
  <2>2. InStage(p)
    BY <1>1 DEF InStages
  <2>3. c = IF op = "argument" THEN ArgOf[r] ELSE ResOf[r]
    BY <1>6, <2>1 DEF ChanOf
  <2> QED  BY <2>1, <2>2, <2>3 DEF InStage
<1>8. /\ acceptor \in Tasks /\ acceptor # foreground /\ p # foreground
      /\ ArgOf[r] # ResOf[r]
  BY <1>7, RdvBasics
<1>9. CallTypeOK'
  BY <1>1, <1>5 DEF CallTypeOK, CallPlaces
<1>10. KernelInv' /\ KernelOn(c)
  BY <1>1, <1>2, <1>5, <1>8, WaitOn
<1>11. at'[p] = Idle /\ \A t \in Tasks \ {p} : at'[t] = at[t]
  BY <1>1, <1>5 DEF CallTypeOK
<1>12. PlacesOn(c)
  BY <1>2, <1>4, <1>5, <1>11 DEF PlacesOn
<1>13. home'[p] \in {"run", ReceivedOf[c]}
  <2>1. /\ home[p] = "run" /\ home \in [Nodes -> Homes] /\ p \in Nodes
        /\ ReceivedOf[c] \in Semaphores
    BY <1>1, <1>2, RdvBasics, ChannelSemaphores DEF KernelInv, KernelTypeOK, RunnersLinked
  <2>2. home' = [home EXCEPT ![p] = ReceivedOf[c]] \/ home' = home
    BY <1>1, <1>2, <1>5, <1>8, <2>1, WaitEffect
  <2> QED  BY <2>1, <2>2
<1>14. InStage(p)'
  <2>1. InStage(p)
    BY <1>1 DEF InStages
  <2> QED  BY <1>5, <1>6, <1>11, <1>13, <2>1 DEF InStage, InSend, ChanOf
<1>15. CASE stage[p] = [op |-> "argument", rdv |-> r] /\ c = ArgOf[r] /\ p \in ClientsOf[r]
  <2>1. p # acceptor /\ c \in {ArgOf[r], ResOf[r]}
    BY <1>15, RdvBasics
  <2>2. Exchange(c, p, acceptor)'
    <3>1. Exchange(c, p, acceptor) /\ at'[acceptor] = at[acceptor] /\ unread'[c] = unread[c]
      BY <1>1, <1>5, <1>8, <1>11, <1>15, <2>1 DEF Exchanges
    <3> QED  BY <1>1, <1>2, <1>5, <1>6, <1>8, <1>11, <2>1, <3>1, ExchangeWait
  <2>3. \A s \in Rdvs \ {r} : /\ ~ Awaits(p, s) /\ ~ InCall(p, s, "argument")
                              /\ \A op \in {"argument", "result"} : ~ InCall(p, s, op)'
    BY <1>5, <1>15 DEF Awaits, InCall
  <2>4. Meeting(p, r)'
    <3>1. Meeting(p, r) /\ ~ InCall(p, r, "result")
      BY <1>1, <1>15 DEF Meetings, InCall
    <3>2. Serving(r)' = Serving(r)
      BY <1>5, <1>8, <1>11, <2>1 DEF Serving, InCall
    <3> QED  BY <1>5, <3>1, <3>2 DEF Meeting, Awaits, InCall, Served, Reply
  <2>5. \A t \in Tasks \ {tp} : UNCHANGED <<stage[t], argument[t], got[t], accepted[t]>>
    BY <1>5
  <2>6. CallInv'
    BY <1>1, <1>2, <1>5, <1>8, <1>10, <1>12, <1>14, <1>15, <2>1, <2>2, <2>3, <2>4, <2>5, ClientStep
  <2> QED  BY <1>9, <1>10, <2>6 DEF RdvInv
<1>16. CASE stage[p] = [op |-> "end", rdv |-> r] /\ c = ResOf[r] /\ p = acceptor
  <2>1. tp = acceptor /\ c \in {ArgOf[r], ResOf[r]} /\ c # ArgOf[r]
    BY <1>2, <1>8, <1>16
  <2>2. \A s \in Rdvs \ {r} : /\ ~ Serving(s)
                              /\ \A op \in {"accept", "end"} : ~ InCall(acceptor, s, op)'
    BY <1>5, <1>16 DEF Serving, InCall
  <2>3. ASSUME NEW t \in ClientsOf[r] PROVE Exchange(c, acceptor, t)' /\ Meeting(t, r)'
    <3>1. t \in Tasks /\ t # acceptor
      BY RdvBasics
    <3>2. /\ Exchange(c, acceptor, t) /\ Meeting(t, r) /\ at'[t] = at[t] /\ unread'[c] = unread[c]
          /\ Sending(acceptor, c) /\ at'[acceptor] = Idle
      BY <1>1, <1>5, <1>6, <1>11, <1>16, <3>1 DEF Exchanges, Meetings
    <3>3. Exchange(c, acceptor, t)'
      BY <1>1, <1>5, <1>8, <2>1, <3>1, <3>2, ExchangeWait
    <3>4. ~ Serving(r) /\ ~ Serving(r)'
      BY <1>5, <1>16 DEF Serving, InCall
    <3> QED  BY <1>5, <3>2, <3>3, <3>4 DEF Meeting, Awaits, InCall, Served, Reply
  <2>4. ClientsOf[r] # {}
    BY <1>1, <1>16 DEF Deserted, NobodyCalls, InCall
  <2>5. ~ InCall(acceptor, r, "accept")'
    BY <1>5, <1>16 DEF InCall
  <2>6. /\ \A t \in Tasks \ {tp} : UNCHANGED <<stage[t], got[t]>>
        /\ \A t \in Tasks : accepted'[t] = accepted[t]
    BY <1>5
  <2>7. CallInv'
    BY <1>1, <1>5, <1>10, <1>12, <1>14, <1>16, <2>1, <2>2, <2>3, <2>4, <2>5, <2>6, ServerStep
  <2> QED  BY <1>9, <1>10, <2>7 DEF RdvInv
<1> QED  BY <1>7, <1>15, <1>16

(* The rest of receive: the server has its argument, or a client its       *)
(* result.                                                                 *)
LEMMA GoOnReceive ==
  ASSUME OneClientEach, RdvInv, GoOn, ReceiveRead PROVE RdvInv'
<1>1. KernelInv /\ CallTypeOK /\ CallInv /\ InStages /\ Exchanges /\ Meetings /\ Deserted
  BY DEF RdvInv, CallInv
<1>2. PICK p \in Tasks : tp = p
  BY <1>1 DEF KernelInv, KernelTypeOK
<1>3. at[p].op = "receive.read" /\ In("receive.read")
  BY <1>2 DEF ReceiveRead, In
<1>4. PICK c \in Chans : at[p] = [op |-> "receive.read", chan |-> c]
  BY <1>1, <1>3 DEF CallTypeOK, CallPlaces, Idle
<1>5. /\ at' = [at EXCEPT ![p] = Idle] /\ Signal(ReceivedOf[c])
      /\ unread' = [unread EXCEPT ![c] = FALSE]
      /\ got' = [got EXCEPT ![p] = data[c]]
      /\ accepted' = IF p = acceptor THEN [accepted EXCEPT ![data[c][1]] = data[c]] ELSE accepted
      /\ UNCHANGED <<mode, data, stage, argument, services>>
  <2>1. ~ ManyToOne(c)
    BY <1>1, OneToOne
  <2>2. at[tp].chan = c
    BY <1>2, <1>4
  <2> QED  BY <1>2, <1>3, <2>1, <2>2 DEF GoOn, ReceiveRead, Return, GoTo, Read
<1>6. /\ stage[p].op \in {"result", "accept"} /\ ChanOf(stage[p]) = c /\ Receiving(p, c)
  BY <1>1, <1>4, WhoWaits DEF Receiving
<1>7. PICK r \in Rdvs :
        \/ stage[p] = [op |-> "result", rdv |-> r] /\ c = ResOf[r] /\ p \in ClientsOf[r]
        \/ stage[p] = [op |-> "accept", rdv |-> r] /\ c = ArgOf[r] /\ p = acceptor
  <2>1. PICK r \in Rdvs, op \in {"result", "accept"} : stage[p] = [op |-> op, rdv |-> r]
    BY <1>1, <1>6 DEF CallTypeOK, Stages, NoStage
  <2>2. InStage(p)
    BY <1>1 DEF InStages
  <2>3. c = IF op = "accept" THEN ArgOf[r] ELSE ResOf[r]
    BY <1>6, <2>1 DEF ChanOf
  <2> QED  BY <2>1, <2>2, <2>3 DEF InStage
<1>8. /\ acceptor \in Tasks /\ acceptor # foreground /\ p # foreground
      /\ ArgOf[r] # ResOf[r] /\ ArgOf[r] \in Chans /\ ResOf[r] \in Chans
  BY <1>7, RdvBasics
<1>9. CallTypeOK'
  <2>1. data[c] \in Contents
    BY <1>1 DEF CallTypeOK
  <2> QED  BY <1>1, <1>5, <2>1 DEF CallTypeOK, CallPlaces
<1>10. KernelInv' /\ KernelOn(c) /\ home'[p] = "run"
  BY <1>1, <1>2, <1>5, SignalOn
<1>11. /\ at'[p] = Idle /\ got'[p] = data[c] /\ unread'[c] = FALSE
       /\ \A t \in Tasks \ {p} : at'[t] = at[t] /\ got'[t] = got[t]
       /\ \A d \in Chans \ {c} : unread'[d] = unread[d]
  BY <1>1, <1>5 DEF CallTypeOK
<1>12. PlacesOn(c)
  BY <1>2, <1>4, <1>5, <1>11 DEF PlacesOn
<1>13. InStage(p)'
  <2>1. InStage(p)
    BY <1>1 DEF InStages
  <2> QED  BY <1>5, <1>6, <1>11, <1>10, <2>1 DEF InStage, InReceive, ChanOf
<1>14. CASE stage[p] = [op |-> "result", rdv |-> r] /\ c = ResOf[r] /\ p \in ClientsOf[r]
  <2>1. p # acceptor /\ c \in {ArgOf[r], ResOf[r]} /\ c # ArgOf[r]
    BY <1>8, <1>14, RdvBasics
  <2>2. Exchange(c, acceptor, p)' /\ unread[c]
    <3>1. Exchange(c, acceptor, p) /\ at'[acceptor] = at[acceptor] /\ Only(c, acceptor, p)
      BY <1>1, <1>8, <1>11, <1>14, <2>1, Parties DEF Exchanges
    <3> QED  BY <1>1, <1>2, <1>5, <1>6, <1>8, <1>11, <2>1, <3>1, ExchangeRead
  <2>3. \A s \in Rdvs \ {r} : /\ ~ Awaits(p, s) /\ ~ InCall(p, s, "argument")
                              /\ \A op \in {"argument", "result"} : ~ InCall(p, s, op)'
    BY <1>5, <1>14 DEF Awaits, InCall
  <2>4. Meeting(p, r)'
    <3>1. Meeting(p, r) /\ Awaits(p, r) /\ ~ InCall(p, r, "argument")
      BY <1>1, <1>4, <1>14 DEF Meetings, Awaits, InCall, Idle
    <3>2. /\ accepted[p] = argument[p] /\ ~ Serving(r)
          /\ data[c] = Reply(argument[p]) /\ ~ unread[ArgOf[r]]
      BY <1>14, <2>2, <3>1 DEF Meeting, Served
    <3>3. ~ Serving(r)' /\ ~ unread'[ResOf[r]] /\ ~ unread'[ArgOf[r]]
      BY <1>5, <1>8, <1>11, <1>14, <2>1, <3>2 DEF Serving, InCall
    <3>4. ~ Awaits(p, r)'
      BY <1>5, <1>11, <1>14 DEF Awaits, InCall
    <3>5. got'[p] = Reply(argument'[p]) /\ accepted'[p] = argument'[p]
      BY <1>5, <1>11, <2>1, <3>2
    <3> QED  BY <3>3, <3>4, <3>5 DEF Meeting, Reply
  <2>5. \A t \in Tasks \ {tp} : UNCHANGED <<stage[t], argument[t], got[t], accepted[t]>>
    BY <1>2, <1>5, <1>11, <2>1
  <2>6. CallInv'
    BY <1>1, <1>2, <1>5, <1>8, <1>10, <1>12, <1>13, <1>14, <2>1, <2>2, <2>3, <2>4, <2>5, ClientStep
  <2> QED  BY <1>9, <1>10, <2>6 DEF RdvInv
<1>15. CASE stage[p] = [op |-> "accept", rdv |-> r] /\ c = ArgOf[r] /\ p = acceptor
  <2>1. tp = acceptor /\ c \in {ArgOf[r], ResOf[r]} /\ c # ResOf[r]
    BY <1>2, <1>8, <1>15
  <2>2. \A s \in Rdvs \ {r} : /\ ~ Serving(s)
                              /\ \A op \in {"accept", "end"} : ~ InCall(acceptor, s, op)'
    BY <1>5, <1>15 DEF Serving, InCall
  <2>3. ASSUME NEW t \in ClientsOf[r]
        PROVE  /\ Exchange(c, t, acceptor)' /\ Meeting(t, r)'
               /\ InCall(t, r, "argument") /\ data[c][1] = t
    <3>1. t \in Tasks /\ t # acceptor
      BY RdvBasics
    <3>2. /\ Exchange(c, t, acceptor) /\ Meeting(t, r) /\ at'[t] = at[t]
          /\ Receiving(acceptor, c) /\ at'[acceptor] = Idle /\ Only(c, t, acceptor)
      BY <1>1, <1>6, <1>11, <1>15, <3>1, Parties DEF Exchanges, Meetings
    <3>3. Exchange(c, t, acceptor)' /\ unread[c]
      BY <1>1, <1>5, <1>8, <1>11, <2>1, <3>1, <3>2, ExchangeRead
    <3>4. InCall(t, r, "argument") /\ data[c] = argument[t]
      BY <1>15, <3>2, <3>3 DEF Meeting
    <3>5. argument[t] \in {t} \X {0, 1}
      BY <1>1, <3>1, <3>4 DEF InStages, InStage, InCall
    <3>6. data[c][1] = t
      BY <3>4, <3>5
    <3>7. ~ Awaits(t, r)
      BY <1>15, <3>3, <3>4 DEF Awaits, InCall
    <3>8. ~ unread[ResOf[r]]
      BY <3>2, <3>7 DEF Meeting
    <3>9. ~ unread'[ResOf[r]] /\ ~ unread'[ArgOf[r]]
      BY <1>8, <1>11, <1>15, <2>1, <3>8
    <3>10. Serving(r)' /\ Awaits(t, r)' /\ ~ InCall(t, r, "result")'
      BY <1>5, <1>11, <1>15, <3>4, <3>9 DEF Serving, Awaits, InCall
    <3>11. accepted'[t] = argument'[t]
      <4>1. accepted' = [accepted EXCEPT ![t] = data[c]] /\ argument' = argument
        BY <1>5, <1>15, <3>6
      <4> QED  BY <1>1, <3>1, <3>4, <4>1 DEF CallTypeOK
    <3>12. got'[acceptor] = argument'[t]
      BY <1>5, <1>11, <1>15, <3>4
    <3> QED  BY <3>3, <3>4, <3>6, <3>9, <3>10, <3>11, <3>12 DEF Meeting, Served
  <2>4. ClientsOf[r] # {}
    <3>1. home[acceptor] = "run" /\ SentOf[ArgOf[r]] # "run"
      BY <1>1, <1>8, <2>1, ChannelSemaphores DEF KernelInv, RunnersLinked
    <3> QED  BY <1>1, <1>15, <3>1 DEF Deserted, NobodyCalls, InCall
  <2>5. \A t \in Tasks : accepted'[t] = accepted[t] \/ InCall(t, r, "argument")
    <3>1. PICK u \in ClientsOf[r] : InCall(u, r, "argument") /\ data[c][1] = u
      BY <2>3, <2>4
    <3>2. accepted' = [accepted EXCEPT ![u] = data[c]]
      BY <1>5, <1>15, <3>1
    <3> QED  BY <1>1, <3>1, <3>2 DEF CallTypeOK
  <2>6. \A t \in Tasks \ {tp} : UNCHANGED <<stage[t], got[t]>>
    BY <1>2, <1>5, <1>11
  <2>7. home'[acceptor] = "run" /\ InStage(acceptor)'
    BY <1>10, <1>13, <1>15
  <2>8. CallInv'
    BY <1>1, <1>5, <1>10, <1>12, <2>1, <2>2, <2>3, <2>4, <2>5, <2>6, <2>7, ServerStep
  <2> QED  BY <1>9, <1>10, <2>8 DEF RdvInv
<1> QED  BY <1>7, <1>14, <1>15
----------------------------------------------------------------------------
(* Steps outside send and receive: at most a new task is scheduled.        *)
LEMMA OutsideKeeps ==
  ASSUME CallTypeOK, CallInv,
         UNCHANGED <<count, mode, data, at, unread, stage, got, argument, accepted, services>>,
         \A t \in Tasks : home'[t] = home[t] \/ (home[t] = "loose" /\ home'[t] = "run")
  PROVE  CallTypeOK' /\ CallInv'
<1>1. CallTypeOK'
  BY DEF CallTypeOK
<1>2. ASSUME NEW t \in Tasks, NEW c \in Chans
      PROVE  /\ Receiving(t, c) => (home'[t] = "run" <=> home[t] = "run")
             /\ home'[t] = ReceivedOf[c] <=> home[t] = ReceivedOf[c]
             /\ home'[t] = SentOf[c] <=> home[t] = SentOf[c]
  <2>1. Receiving(t, c) => home[t] # "loose"
    BY WhoWaits, ChannelSemaphores DEF CallInv
  <2> QED  BY <2>1, ChannelSemaphores
<1>3. InStages'
  <2> SUFFICES ASSUME NEW t \in Tasks PROVE InStage(t)'
    BY DEF InStages
  <2>1. InStage(t)
    BY DEF CallInv, InStages
  <2>2. CASE home'[t] = home[t]
    BY <2>1, <2>2 DEF InStage, InSend, InReceive, Sending, Receiving, ChanOf
  <2>3. CASE home[t] = "loose" /\ home'[t] = "run"
    <3>1. stage[t].op = "none" => at[t] = Idle
      BY <2>1 DEF InStage
    <3>2. stage[t].op \notin {"argument", "result", "accept", "end"}
      <4>1. stage[t].op \in {"argument", "result", "accept", "end"} => ChanOf(stage[t]) \in Chans
        BY RdvBasics DEF ChanOf, CallTypeOK, Stages, NoStage
      <4> DEFINE c == ChanOf(stage[t])
      <4>2. stage[t].op \in {"argument", "end"} => home[t] \in {"run", ReceivedOf[c]}
        BY <2>1 DEF InStage, InSend
      <4>3. stage[t].op \in {"result", "accept"} => home[t] \in {"run", SentOf[c]}
        BY <2>1 DEF InStage, InReceive
      <4> HIDE DEF c
      <4>4. c \in Chans => "loose" \notin {"run", SentOf[c], ReceivedOf[c]}
        BY ChannelSemaphores
      <4> QED  BY <2>3, <4>1, <4>2, <4>3, <4>4 DEF c
    <3> QED  BY <2>3, <3>1, <3>2 DEF InStage
  <2> QED  BY <2>2, <2>3
<1>4. Exchanges'
  <2> SUFFICES ASSUME NEW r \in Rdvs, NEW t \in ClientsOf[r]
               PROVE  Exchange(ArgOf[r], t, acceptor)' /\ Exchange(ResOf[r], acceptor, t)'
    BY DEF Exchanges
  <2>1. t \in Tasks /\ acceptor \in Tasks /\ ArgOf[r] \in Chans /\ ResOf[r] \in Chans
    BY RdvBasics
  <2>2. Exchange(ArgOf[r], t, acceptor) /\ Exchange(ResOf[r], acceptor, t)
    BY DEF CallInv, Exchanges
  <2>3. ASSUME NEW c \in Chans, NEW s \in Tasks, NEW v \in Tasks, Exchange(c, s, v)
        PROVE  Exchange(c, s, v)'
    <3>1. Reading(v, c)' <=> Reading(v, c)
      BY <1>2 DEF Reading, Receiving
    <3>2. Sending(s, c)' <=> Sending(s, c)
      BY DEF Sending
    <3>3. home'[s] = ReceivedOf[c] <=> home[s] = ReceivedOf[c]
      BY <1>2
    <3> QED  BY <2>3, <3>1, <3>2, <3>3 DEF Exchange
  <2> QED  BY <2>1, <2>2, <2>3
<1>5. Meetings'
  <2> SUFFICES ASSUME NEW r \in Rdvs, NEW t \in ClientsOf[r] PROVE Meeting(t, r)'
    BY DEF Meetings
  <2>1. Meeting(t, r)
    BY DEF CallInv, Meetings
  <2> QED  BY <2>1 DEF Meeting, Awaits, Served, Serving, InCall, Reply
<1>6. acceptor \in Tasks /\ \A r \in Rdvs : ArgOf[r] \in Chans
  BY RdvBasics
<1>7. Deserted'
  BY <1>2, <1>6 DEF CallInv, Deserted, NobodyCalls, InCall
<1>8. AcceptAsked'
  BY <1>6 DEF CallInv, AcceptAsked, InCall
<1> QED  BY <1>1, <1>3, <1>4, <1>5, <1>7, <1>8 DEF CallInv

(* Making and scheduling tasks, detaching and running the machine.         *)
LEMMA RdvOther ==
  ASSUME RdvInv, RdvStart \/ RdvRest \/ (Machine /\ UNCHANGED callVars) \/ UNCHANGED rdvVars
  PROVE  RdvInv'
<1>1. KernelInv /\ CallTypeOK /\ CallInv
  BY DEF RdvInv
<1>2. UNCHANGED <<count, mode, data, at, unread, stage, got, argument, accepted, services>>
  BY DEF RdvStart, RdvRest, Machine, Begin, NewTask, MakeTask, Schedule, Detach, EnterInner,
         callVars, rdvVars, chanVars, kernelVars
<1>3. KernelInv' /\ \A t \in Tasks : home'[t] = home[t] \/ (home[t] = "loose" /\ home'[t] = "run")
  <2>1. CASE Begin
    BY <1>1, <2>1 DEF Begin, KernelInv, KernelTypeOK, HeadersAtHome, StatusFitsHome,
                      RunnersLinked, NoLostSignal
  <2>2. ASSUME NEW t \in Tasks, MakeTask(t) PROVE KernelInv' /\ home' = home
    BY <1>1, <2>2, MakeTaskKeeps, MakeTaskLinks
  <2>3. ASSUME NEW t \in Tasks, status[t] = "READY", Schedule(t)
        PROVE  /\ KernelInv'
               /\ \A u \in Tasks : home'[u] = home[u] \/ (home[u] = "loose" /\ home'[u] = "run")
    <3>1. KernelInv' /\ home' = [home EXCEPT ![t] = "run"]
      BY <1>1, <2>3, ScheduleKeeps
    <3>2. home[t] = "loose" /\ home \in [Nodes -> Homes] /\ Tasks \subseteq Nodes
      BY <1>1, <2>3, RdvBasics DEF KernelInv, StatusFitsHome, KernelTypeOK
    <3> QED  BY <3>1, <3>2
  <2>4. CASE Detach
    BY <1>1, <2>4, DetachKeeps DEF Detach
  <2>5. CASE EnterInner
    BY <1>1, <2>5, EnterInnerKeeps DEF EnterInner
  <2>6. CASE UNCHANGED kernelVars
    BY <1>1, <2>6 DEF kernelVars, KernelInv, KernelTypeOK, HeadersAtHome, StatusFitsHome,
                      RunnersLinked, NoLostSignal
  <2> QED  BY <2>1, <2>2, <2>3, <2>4, <2>5, <2>6
           DEF RdvStart, RdvRest, Machine, NewTask, Background, rdvVars
<1> QED  BY <1>1, <1>2, <1>3, OutsideKeeps DEF RdvInv

(* Every step keeps the invariant, and it holds at the start.              *)
LEMMA RdvNextStep ==
  ASSUME OneClientEach, RdvInv, [RdvNext]_rdvVars PROVE RdvInv'
<1>1. services \subseteq Rdvs
  BY DEF RdvInv, CallTypeOK
<1>2. ASSUME GoOn PROVE RdvInv'
  <2>1. tp \in Tasks /\ at[tp] \in CallPlaces
    BY DEF RdvInv, KernelInv, KernelTypeOK, CallTypeOK
  <2>2. at[tp].op \notin {"send.write", "receive.wait"}
    BY <2>1 DEF CallPlaces, Idle
  <2>3. SendWait \/ ReceiveRead
    BY <1>2, <2>2 DEF GoOn, Continue, SendWrite, ReceiveWait, In
  <2> QED  BY <1>2, <2>3, GoOnSend, GoOnReceive
<1> QED  BY <1>1, <1>2, CallKeeps, CallReceiveKeeps, AcceptKeeps, AcceptEndKeeps, RdvOther
         DEF RdvNext

LEMMA RdvInitInv == RdvInit => RdvInv
<1> SUFFICES ASSUME RdvInit PROVE RdvInv
  OBVIOUS
<1>1. KernelInv
  <2>1. [s \in Semaphores |-> 0] \in [Semaphores -> Nat]
    OBVIOUS
  <2> QED  BY <2>1, KernelInitInv DEF RdvInit
<1>2. /\ \A s \in Semaphores : count[s] = 0
      /\ \A t \in Tasks : home[t] \in {"run", "loose"}
      /\ \A t \in Tasks : at[t] = Idle /\ stage[t] = NoStage
      /\ \A c \in Chans : ~ unread[c]
  BY KernelAssumption DEF RdvInit, KernelInit, ChannelInit, Headers
<1>3. CallTypeOK
  BY RendezvousAssumption
     DEF RdvInit, ChannelInit, CallTypeOK, CallPlaces, Stages, Contents, Arguments
<1>4. InStages
  BY <1>2 DEF InStages, InStage, NoStage
<1>5. ASSUME NEW c \in Chans, NEW s \in Tasks, NEW v \in Tasks PROVE Exchange(c, s, v)
  <2>1. home[s] # ReceivedOf[c] /\ count[SentOf[c]] = 0 /\ count[ReceivedOf[c]] = 0
    BY <1>2, ChannelSemaphores
  <2>2. ~ Sending(s, c) /\ ~ Receiving(v, c) /\ ~ unread[c]
    BY <1>2 DEF Sending, Receiving, Idle
  <2> QED  BY <2>1, <2>2 DEF Exchange, Reading
<1>6. Exchanges
  BY <1>5, RdvBasics DEF Exchanges
<1>7. \A t \in Tasks, r \in Rdvs, op \in {"argument", "result", "accept", "end"} :
        ~ InCall(t, r, op)
  BY <1>2 DEF InCall, NoStage
<1>8. Meetings
  BY <1>2, <1>7, RdvBasics DEF Meetings, Meeting, Awaits, Serving
<1>9. Deserted
  <2>1. \A r \in Rdvs : SentOf[ArgOf[r]] \in Semaphores
    BY RdvBasics, ChannelSemaphores
  <2> QED  BY <1>2, <1>7, <2>1, RdvBasics DEF Deserted, NobodyCalls
<1>10. AcceptAsked
  BY <1>7, RdvBasics DEF AcceptAsked
<1> QED  BY <1>1, <1>3, <1>4, <1>6, <1>8, <1>9, <1>10 DEF RdvInv, CallInv

(* The invariant of calls and accepts, with at most one client for each    *)
(* rendezvous: a second one would assign the argument before the first one *)
(* was accepted, as the channel is a ONE-TO-ONE one.                       *)
THEOREM RdvInvariant == ASSUME OneClientEach PROVE RdvSpec => []RdvInv
<1>1. RdvInit => RdvInv
  BY RdvInitInv
<1>2. RdvInv /\ [RdvNext]_rdvVars => RdvInv'
  BY RdvNextStep
<1> QED  BY <1>1, <1>2, PTL DEF RdvSpec

(* A client that goes on to the result (+res receive, in the name of a     *)
(* rendezvous) has had its own argument accepted.                          *)
THEOREM ArgumentPassed ==
  ASSUME OneClientEach PROVE RdvSpec => []ArgumentIsPassed
<1>1. ASSUME RdvInv, NEW t \in Tasks, stage[t].op = "result" PROVE accepted[t] = argument[t]
  <2>1. PICK r \in Rdvs : stage[t] = [op |-> "result", rdv |-> r]
    BY <1>1 DEF RdvInv, CallTypeOK, Stages, NoStage
  <2>2. t \in ClientsOf[r]
    BY <1>1, <2>1 DEF RdvInv, CallInv, InStages, InStage
  <2>3. Meeting(t, r)
    BY <1>1, <2>2 DEF RdvInv, CallInv, Meetings
  <2> QED  BY <2>1, <2>3 DEF Meeting, Awaits, InCall
<1>2. RdvInv => ArgumentIsPassed
  BY <1>1 DEF ArgumentIsPassed
<1> QED  BY <1>2, RdvInvariant, PTL

(* A call returns what accept.end sent for its own argument, for any       *)
(* number of clients and services and in whatever order they come.         *)
THEOREM ResultReturned ==
  ASSUME OneClientEach PROVE RdvSpec => []ResultIsOwn
<1>1. ASSUME RdvInv, NEW t \in Tasks, stage[t].op = "result", at[t] = Idle
      PROVE  got[t] = Reply(argument[t])
  <2>1. PICK r \in Rdvs : stage[t] = [op |-> "result", rdv |-> r]
    BY <1>1 DEF RdvInv, CallTypeOK, Stages, NoStage
  <2>2. t \in ClientsOf[r]
    BY <1>1, <2>1 DEF RdvInv, CallInv, InStages, InStage
  <2>3. Meeting(t, r)
    BY <1>1, <2>2 DEF RdvInv, CallInv, Meetings
  <2> QED  BY <1>1, <2>1, <2>3 DEF Meeting, InCall
<1>2. RdvInv => ResultIsOwn
  BY <1>1 DEF ResultIsOwn
<1> QED  BY <1>2, RdvInvariant, PTL

(* accept does not wait where ?awaiting has answered that a client is      *)
(* there.                                                                  *)
THEOREM AskedAcceptGoesOn ==
  ASSUME OneClientEach PROVE RdvSpec => []AskedAcceptDoesNotWait
<1>1. ASSUME RdvInv, Cardinality(services) > 1, stage[acceptor].op = "accept"
      PROVE  home[acceptor] = "run"
  <2>1. PICK r \in Rdvs : stage[acceptor] = [op |-> "accept", rdv |-> r]
    BY <1>1, RdvBasics DEF RdvInv, CallTypeOK, Stages, NoStage
  <2>2. services = {r} \/ home[acceptor] = "run"
    BY <1>1, <2>1 DEF RdvInv, CallInv, AcceptAsked, InCall
  <2>3. Cardinality({r}) = 1
    BY FS_Singleton
  <2> QED  BY <1>1, <2>2, <2>3
<1>2. RdvInv => AskedAcceptDoesNotWait
  BY <1>1 DEF AskedAcceptDoesNotWait
<1> QED  BY <1>2, RdvInvariant, PTL
============================================================================
