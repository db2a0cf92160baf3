----------------------------- MODULE Rendezvous ---------------------------
(***************************************************************************)
(* The rendezvous of lib/multi-tasking.f83: a pair of ONE-TO-ONE channels. *)
(* A client calls a rendezvous by sending its argument on one channel and  *)
(* receiving the result from the other; a server accepts calls and ends    *)
(* them with the result.  The server is the one of tst/rendezvous.tst: it  *)
(* accepts one service at once, or several after asking ?awaiting.         *)
(***************************************************************************)
EXTENDS Channels

CONSTANTS Rdvs,              \* the rendezvous
          ArgOf, ResOf,      \* the two channels of each
          acceptor,          \* the server
          ClientsOf,         \* the tasks that call each rendezvous
          ServiceSets        \* the sets of rendezvous the server may offer

ASSUME RendezvousAssumption ==
  /\ ArgOf \in [Rdvs -> Chans] /\ ResOf \in [Rdvs -> Chans]
  /\ \A r, s \in Rdvs : /\ ArgOf[r] # ResOf[s]
                        /\ r # s => ArgOf[r] # ArgOf[s] /\ ResOf[r] # ResOf[s]
  /\ acceptor \in Background /\ ClientsOf \in [Rdvs -> SUBSET (Background \ {acceptor})]
  /\ ServiceSets \subseteq SUBSET Rdvs

VARIABLES stage,             \* how far the call or the accept of a task is
          got,               \* what receive left on each task's stack
          argument,          \* history: the argument of each client's call
          accepted,          \* history: the last argument accepted from each client
          services,          \* the rendezvous this server offers
          polled,            \* those it has asked ?awaiting since it detached
          detached           \* the clients that detached since their last call

callVars == <<stage, got, argument, accepted, services, polled, detached>>
rdvVars == <<kernelVars, chanVars, callVars>>

NoStage == [op |-> "none"]

\* An argument names its client and alternates; the result names its argument.
Reply(m) == <<"re", m>>
NextArgument(t) == <<t, IF argument[t] = <<t, 0>> THEN 1 ELSE 0>>

RdvInit == /\ KernelInit([s \in Semaphores |-> 0])
           /\ mode = [c \in Chans |-> "ONE-TO-ONE"]
           /\ ChannelInit
           /\ stage = [t \in Tasks |-> NoStage]
           /\ got = [t \in Tasks |-> NoMessage]
           /\ argument = [t \in Tasks |-> NoMessage]
           /\ accepted = [t \in Tasks |-> NoMessage]
           /\ services \in ServiceSets
           /\ polled = {} /\ detached = {}

\* The running task is in none of the words, and between two calls or accepts.
Between == AtIdle /\ stage[tp].op \in {"none", "result", "end"}
Enter(op, r) == stage' = [stage EXCEPT ![tp] = [op |-> op, rdv |-> r]]
At(op) == AtIdle /\ stage[tp].op = op

----------------------------------------------------------------------------
\* The name of a rendezvous, executed by a client: +arg send, ...
Call(r) == /\ Between /\ tp \in ClientsOf[r]
           /\ LET m == NextArgument(tp)
              IN  /\ argument' = [argument EXCEPT ![tp] = m]
                  /\ SendStart(ArgOf[r], m)
           /\ Enter("argument", r)
           /\ detached' = detached \ {tp}
           /\ UNCHANGED <<got, accepted, services, polled>>

\* Mutant of the call: the result is fetched without receiving it.
CallFetch == /\ At("argument")
             /\ LET r == stage[tp].rdv IN Enter("result", r) /\ ReceiveAtOnce(ResOf[r])
             /\ UNCHANGED <<got, argument, accepted, services, polled, detached>>

\* ... and then +res receive.
CallReceive == /\ At("argument")
               /\ LET r == stage[tp].rdv IN Enter("result", r) /\ ReceiveStart(ResOf[r])
               /\ UNCHANGED <<got, argument, accepted, services, polled, detached>>

\* ?awaiting
Awaiting(r) == Avail(ArgOf[r])

\* accept: receive from the rendezvous, whose argument channel comes first.
Accept(r) == /\ Between /\ tp = acceptor /\ r \in services
             /\ services = {r} \/ (Awaiting(r) /\ r \notin polled)
             /\ ReceiveStart(ArgOf[r])
             /\ Enter("accept", r)
             /\ polled' = polled \cup {r}
             /\ UNCHANGED <<got, argument, accepted, services, detached>>

\* accept.end: send the result to the client.
AcceptEnd == /\ At("accept")
             /\ LET r == stage[tp].rdv
                IN  Enter("end", r) /\ SendStart(ResOf[r], Reply(got[tp]))
             /\ UNCHANGED <<got, argument, accepted, services, polled, detached>>

\* The rest of a send or receive the task is in.
GoOn == /\ Continue
        /\ LET c == at[tp].chan
           IN  IF In("receive.read")
               THEN /\ got' = [got EXCEPT ![tp] = data[c]]
                    /\ accepted' = IF tp = acceptor
                                   THEN [accepted EXCEPT ![data[c][1]] = data[c]]
                                   ELSE accepted
               ELSE UNCHANGED <<got, accepted>>
        /\ UNCHANGED <<stage, argument, services, polled, detached>>

\* A client may detach between two calls; the server does when none of the
\* services it has still to ask for is awaited, the foreground when all runs.
IsClient(t) == \E r \in services : t \in ClientsOf[r]
MayRest(t) == CASE t = foreground -> AllStarted
                [] t = acceptor   -> \A r \in services \ polled : ~ Awaiting(r)
                [] OTHER        -> ~ IsClient(t) \/ t \notin detached

RdvRest == /\ Between /\ MayRest(tp) /\ Detach
           /\ detached' = detached \cup {tp}
           /\ polled' = IF tp = acceptor THEN {} ELSE polled
           /\ UNCHANGED <<chanVars, stage, got, argument, accepted, services>>

RdvStart == (Begin \/ \E t \in Background : NewTask(t)) /\ UNCHANGED callVars

RdvNext == \/ RdvStart \/ RdvRest \/ GoOn \/ CallReceive \/ AcceptEnd
           \/ \E r \in services : Call(r) \/ Accept(r)
           \/ Machine /\ UNCHANGED callVars

\* Only one task has the virtual machine, and it goes on executing.
RdvSpec == RdvInit /\ [][RdvNext]_rdvVars /\ WF_rdvVars(RdvNext)
----------------------------------------------------------------------------
(***************************************************************************)
(* multi-tasking.3:188-190: "When a client task calls the rendezvous the   *)
(* argument from client is passed to the server task that performed the    *)
(* accept": a client that goes on to the result has had its own argument   *)
(* accepted.                                                               *)
(***************************************************************************)
ArgumentIsPassed ==
  \A t \in Tasks : stage[t].op = "result" => accepted[t] = argument[t]

(***************************************************************************)
(* A call returns the result computed for its own argument, whichever of   *)
(* client and server came first and whatever else the server accepted in   *)
(* between.                                                                *)
(***************************************************************************)
ResultIsOwn ==
  \A t \in Tasks : stage[t].op = "result" /\ at[t] = Idle => got[t] = Reply(argument[t])

(***************************************************************************)
(* ?awaiting keeps its word: a server that asked it before accept is never *)
(* made to wait there, so that it can go round all its services.           *)
(***************************************************************************)
AskedAcceptDoesNotWait ==
  Cardinality(services) > 1 /\ stage[acceptor].op = "accept" => home[acceptor] = "run"

(***************************************************************************)
(* Every call returns, on each of the rendezvous the server goes round.    *)
(***************************************************************************)
EveryCallReturns ==
  \A t \in Tasks : stage[t].op = "argument"
                     ~> (stage[t].op = "result" /\ at[t] = Idle /\ home[t] = "run")
============================================================================
