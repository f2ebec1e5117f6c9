------------------------------- MODULE Channel ------------------------------
(***************************************************************************)
(* What the MessageWriter promises to the goroutines that send through it, *)
(* without its channels and its goroutine: one queue to the server.  What  *)
(* it accepts arrives in that order, whoever sent it, until the connection *)
(* breaks; from then on nothing arrives, and only then a message may be    *)
(* given up.  up[c] of module Wire is such a queue.                        *)
(***************************************************************************)
EXTENDS Sequences

CONSTANTS Senders, Message

VARIABLES
    calls,      \* the message that each sender is handing over: <<m>> or << >>
    queue,      \* what has been accepted and has not arrived
    open,       \* the connection works
    delivered   \* what has arrived, in that order

vars == <<calls, queue, open, delivered>>

Init ==
    /\ calls = [s \in Senders |-> << >>]
    /\ queue = << >>
    /\ open = TRUE
    /\ delivered = << >>

Call(s) ==
    /\ calls[s] = << >>
    /\ \E m \in Message : calls' = [calls EXCEPT ![s] = <<m>>]
    /\ UNCHANGED <<queue, open, delivered>>

(* The call of s returns: its message is in the queue, or the connection   *)
(* is broken.                                                              *)
Return(s) ==
    /\ calls[s] # << >>
    /\ calls' = [calls EXCEPT ![s] = << >>]
    /\ queue' = IF open THEN queue \o calls[s] ELSE << >>
    /\ UNCHANGED <<open, delivered>>

Arrive ==
    /\ open
    /\ queue # << >>
    /\ delivered' = Append(delivered, Head(queue))
    /\ queue' = Tail(queue)
    /\ UNCHANGED <<calls, open>>

Break ==
    /\ open
    /\ open' = FALSE
    /\ queue' = << >>
    /\ UNCHANGED <<calls, delivered>>

Next == (\E s \in Senders : Call(s) \/ Return(s)) \/ Arrive \/ Break

Spec == Init /\ [][Next]_vars
=============================================================================
