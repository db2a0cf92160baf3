---------------------------- MODULE ChannelSpec ---------------------------
(***************************************************************************)
(* What a channel promises (man/man3/multi-tasking.3, "send", "receive"    *)
(* and "ONE-TO-MANY"): a message that was sent stays in the channel until  *)
(* one receiver has taken it, and no message is taken twice.               *)
(***************************************************************************)
CONSTANTS Chans, Messages, NoMessage

VARIABLES slot,         \* the message in each channel
          taken         \* the last message taken from each channel

vars == <<slot, taken>>

Init == /\ slot = [c \in Chans |-> NoMessage]
        /\ taken = [c \in Chans |-> NoMessage]

Put(c, m) == /\ slot[c] = NoMessage
             /\ slot' = [slot EXCEPT ![c] = m]
             /\ UNCHANGED taken

Take(c) == /\ slot[c] # NoMessage
           /\ taken' = [taken EXCEPT ![c] = slot[c]]
           /\ slot' = [slot EXCEPT ![c] = NoMessage]

Next == \E c \in Chans : Take(c) \/ \E m \in Messages : Put(c, m)

Spec == Init /\ [][Next]_vars
============================================================================
