------------------------------ MODULE Channels ----------------------------
(***************************************************************************)
(* The channels of lib/multi-tasking.f83: a data cell and two semaphores,  *)
(* over which tasks send and receive in one of three modes.  The actions   *)
(* are the stretches of send and receive between two calls of a semaphore; *)
(* a task in the middle of one goes on from there when it is next resumed. *)
(***************************************************************************)
EXTENDS TaskKernel

CONSTANTS Chans,
          SentOf, ReceivedOf,   \* the two semaphores of every channel
          Messages, NoMessage

ASSUME ChannelAssumption ==
  /\ SentOf \in [Chans -> Semaphores] /\ ReceivedOf \in [Chans -> Semaphores]
  /\ \A c, d \in Chans : /\ SentOf[c] # ReceivedOf[d]
                         /\ c # d => /\ SentOf[c] # SentOf[d]
                                     /\ ReceivedOf[c] # ReceivedOf[d]
  /\ NoMessage \notin Messages

VARIABLES mode,        \* set when the channel is created
          data,        \* the data cell of every channel
          at,          \* where in send or receive every task is
          unread,      \* history: the data cell was written and not read since
          taken        \* history: the last message received on every channel

chanVars == <<mode, data, at, unread, taken>>

Modes == {"ONE-TO-ONE", "ONE-TO-MANY", "MANY-TO-ONE"}
Idle == [op |-> "idle"]

ChannelInit == /\ data = [c \in Chans |-> NoMessage]
               /\ at = [t \in Tasks |-> Idle]
               /\ unread = [c \in Chans |-> FALSE]
               /\ taken = [c \in Chans |-> NoMessage]

ManyToOne(c) == mode[c] = "MANY-TO-ONE"
AtIdle == running /\ at[tp] = Idle
In(op) == running /\ at[tp].op = op
GoTo(place) == at' = [at EXCEPT ![tp] = place]
Return == GoTo(Idle)

Write(c, m) == data' = [data EXCEPT ![c] = m] /\ unread' = [unread EXCEPT ![c] = TRUE]
Read(c) == /\ unread' = [unread EXCEPT ![c] = FALSE]
           /\ taken' = [taken EXCEPT ![c] = data[c]]

\* Mutant of ?avail: "not" is forgotten.
AvailInverted(c) == WouldWait(IF ManyToOne(c) THEN ReceivedOf[c] ELSE SentOf[c])

\* ?avail ( chan -- bool)
Avail(c) == IF ManyToOne(c) THEN ~ WouldWait(ReceivedOf[c]) ELSE ~ WouldWait(SentOf[c])
----------------------------------------------------------------------------
\* Mutants of send: no task is waited for, after or before the assignment.
SendAndGoOn(c, m) == /\ AtIdle
                     /\ Write(c, m) /\ Signal(SentOf[c])
                     /\ UNCHANGED <<mode, at, taken>>
SendUninvited(c, m) == /\ AtIdle
                       /\ GoTo([op |-> "send.write", chan |-> c, message |-> m])
                       /\ UNCHANGED <<kernelVars, mode, data, unread, taken>>

\* send ( data chan -- ): many-to-one waits for a receiver before it assigns
\* the data cell; the other modes assign at once.
SendStart(c, m) ==
  /\ AtIdle
  /\ \/ /\ ManyToOne(c)
        /\ GoTo([op |-> "send.write", chan |-> c, message |-> m])
        /\ Wait(ReceivedOf[c])
        /\ UNCHANGED <<mode, data, unread, taken>>
     \/ /\ ~ ManyToOne(c)
        /\ GoTo([op |-> "send.wait", chan |-> c])
        /\ Write(c, m)
        /\ Signal(SentOf[c])
        /\ UNCHANGED <<mode, taken>>

SendWrite == /\ In("send.write")
             /\ LET c == at[tp].chan
                IN  Return /\ Write(c, at[tp].message) /\ Signal(SentOf[c])
             /\ UNCHANGED <<mode, taken>>

SendWait == /\ In("send.wait")
            /\ Return /\ Wait(ReceivedOf[at[tp].chan])
            /\ UNCHANGED <<mode, data, unread, taken>>

\* Mutant of receive: no sender is waited for.
ReceiveAtOnce(c) == /\ AtIdle
                    /\ GoTo([op |-> "receive.read", chan |-> c])
                    /\ UNCHANGED <<kernelVars, mode, data, unread, taken>>

\* receive ( chan -- data): many-to-one first signals that it is there.
ReceiveStart(c) ==
  /\ AtIdle
  /\ \/ /\ ManyToOne(c)
        /\ GoTo([op |-> "receive.wait", chan |-> c])
        /\ Signal(ReceivedOf[c])
     \/ /\ ~ ManyToOne(c)
        /\ GoTo([op |-> "receive.read", chan |-> c])
        /\ Wait(SentOf[c])
  /\ UNCHANGED <<mode, data, unread, taken>>

ReceiveWait == /\ In("receive.wait")
               /\ GoTo([op |-> "receive.read", chan |-> at[tp].chan])
               /\ Wait(SentOf[at[tp].chan])
               /\ UNCHANGED <<mode, data, unread, taken>>

\* Mutant of receive: the sender is not told.
ReceiveReadSilent == /\ In("receive.read")
                     /\ Return /\ Read(at[tp].chan)
                     /\ UNCHANGED <<kernelVars, mode, data>>

ReceiveRead ==
  /\ In("receive.read")
  /\ Return
  /\ LET c == at[tp].chan
     IN  /\ Read(c)
         /\ \/ ManyToOne(c) /\ UNCHANGED kernelVars
            \/ ~ ManyToOne(c) /\ Signal(ReceivedOf[c])
  /\ UNCHANGED <<mode, data>>

\* A task that has been resumed goes on inside send or receive.
Continue == SendWrite \/ SendWait \/ ReceiveWait \/ ReceiveRead

\* doinner is entered again after each switch.
Machine == EnterInner /\ UNCHANGED chanVars

\* The foreground enters the machine, and makes and schedules the tasks.
Begin == /\ tp = foreground /\ ~ tasking /\ tasking' = TRUE
         /\ UNCHANGED <<links, status, tp, running, count, home, chanVars>>
NewTask(t) == /\ AtIdle /\ tp = foreground
              /\ MakeTask(t) \/ (status[t] = "READY" /\ Schedule(t))
              /\ UNCHANGED chanVars
AllStarted == \A t \in Background : status[t] \notin {"TERMINATED", "READY"}
----------------------------------------------------------------------------
(***************************************************************************)
(* A task that comes to read the data cell finds a message there that no   *)
(* one has read: the semaphores never let a receiver through too early,    *)
(* nor two receivers for one message.                                      *)
(***************************************************************************)
ReadsAreFresh == In("receive.read") => unread[at[tp].chan]

(***************************************************************************)
(* The data cell with its history is a one-place buffer: no message is     *)
(* overwritten before it is read, "data sent on the channel is maintained  *)
(* from corruption".                                                       *)
(***************************************************************************)
Buffer == INSTANCE ChannelSpec
            WITH slot <- [c \in Chans |-> IF unread[c] THEN data[c] ELSE NoMessage]

(* Every step of send and receive is a Put, a Take or neither. *)
ImplementsBuffer == Buffer!Spec
============================================================================
