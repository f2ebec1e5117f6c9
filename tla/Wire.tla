-------------------------------- MODULE Wire --------------------------------
(***************************************************************************)
(* The sessions between the agent and the server.  Session c is one        *)
(* registration request followed by one WebSocket.  A WebSocket keeps      *)
(* order; when it breaks, what was sent after the break is lost, and of    *)
(* what was sent before it each side reads a prefix before it notices.     *)
(* up[c] stands for the agent's MessageWriter outbox and the network,      *)
(* down[c] for the Hub's outbox and the network.                           *)
(***************************************************************************)
EXTENDS KompaktTypes

VARIABLES
    open,   \* open[c]: both ends of session c can still exchange messages
    up,     \* up[c]: messages from the agent the server has not read
    down    \* down[c]: playbooks from the server the agent has not read

wireVars == <<open, up, down>>

WireTypeOK ==
    /\ open \in [Conns -> BOOLEAN]
    /\ up \in [Conns -> Seq(UpMessage)]
    /\ down \in [Conns -> Seq(PlaybookMessage)]

WireInit ==
    /\ open = [c \in Conns |-> FALSE]
    /\ up = [c \in Conns |-> << >>]
    /\ down = [c \in Conns |-> << >>]

(* MessageWriter.Send: silently dropped once the connection is gone.       *)
SendUp(c, m) ==
    up' = IF open[c] THEN [up EXCEPT ![c] = Append(@, m)] ELSE up

(* The network loses session c; neither side has noticed yet.              *)
NetDrop(c) ==
    /\ open[c]
    /\ open' = [open EXCEPT ![c] = FALSE]
    /\ UNCHANGED <<up, down>>
=============================================================================
