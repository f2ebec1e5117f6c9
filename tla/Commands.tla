------------------------------ MODULE Commands ------------------------------
(***************************************************************************)
(* Ad-hoc commands on one agent: the POST that submits a command           *)
(* (internal/server/handlers/command.go), the CommandStore in the server's *)
(* memory that a browser polls, and the runCommand goroutines of the       *)
(* agent, over connections that may break.  The connections behave as in   *)
(* module Wire; their handshake is one step here.                          *)
(***************************************************************************)
EXTENDS Naturals, Sequences

CONSTANTS
    Cmds,       \* the commands submitted
    MaxLines,   \* bound: lines of output of a command
    MaxConns,   \* bound: connections
    OutboxCap   \* capacity of an AgentConn outbox

ASSUME CommandsAssumption == MaxLines \in Nat /\ MaxConns \in Nat /\ OutboxCap \in Nat

VARIABLES
    post,       \* the HandleCommand goroutine of each command
    sess,       \* CommandStore.cmds
    hub,        \* the connection in the Hub, or NoConn
    served,     \* the connections whose read loop runs in the server
    open,       \* the connections that work
    down,       \* commands on their way to the agent, per connection
    up,         \* output on its way to the server, per connection
    cur,        \* the agent's connection, or NoConn
    nconn,      \* connections so far
    run         \* the runCommand goroutine of each command

vars == <<post, sess, hub, served, open, down, up, cur, nconn, run>>
wire == <<open, down, up>>

Conns  == 1..MaxConns
NoConn == 0

(* Line k of the output of command m, or its completion.                   *)
UpMessage == [cmd : Cmds, line : 1..MaxLines] \cup [cmd : Cmds, done : {TRUE}]

(* CommandSession: `out` are the numbers of the lines received so far.     *)
Session   == [state : {"absent", "open", "done"}, out : Seq(1..MaxLines)]
NoSession == [state |-> "absent", out |-> << >>]

TypeOK ==
    /\ post \in [Cmds -> {"off", "create", "send", "accepted", "refused", "lost"}]
    /\ sess \in [Cmds -> Session]
    /\ hub \in Conns \cup {NoConn}
    /\ served \in SUBSET Conns
    /\ open \in SUBSET Conns
    /\ down \in [Conns -> Seq(Cmds)]
    /\ \A c \in Conns : Len(down[c]) <= OutboxCap
    /\ up \in [Conns -> Seq(UpMessage)]
    /\ cur \in Conns \cup {NoConn}
    /\ nconn \in 0..MaxConns
    /\ run \in [Cmds -> [pc : {"off", "running", "ended", "killed"},
                         conn : Conns \cup {NoConn}, lines : 0..MaxLines]]

Init ==
    /\ post = [m \in Cmds |-> "off"]
    /\ sess = [m \in Cmds |-> NoSession]
    /\ hub = NoConn
    /\ served = {}
    /\ open = {}
    /\ down = [c \in Conns |-> << >>]
    /\ up = [c \in Conns |-> << >>]
    /\ cur = NoConn
    /\ nconn = 0
    /\ run = [m \in Cmds |-> [pc |-> "off", conn |-> NoConn, lines |-> 0]]

-----------------------------------------------------------------------------
(* HandleCommand, POST.                                                    *)

(* Hub.IsConnected.                                                        *)
PostCheck(m) ==
    /\ post[m] = "off"
    /\ post' = [post EXCEPT ![m] = IF hub = NoConn THEN "refused" ELSE "create"]
    /\ UNCHANGED <<sess, hub, served, wire, cur, nconn, run>>

(* Mutant of PostCreate: the session is not made before the command goes.  *)
PostCreate_Later(m) ==
    /\ post[m] = "create"
    /\ post' = [post EXCEPT ![m] = "send"]
    /\ UNCHANGED <<sess, hub, served, wire, cur, nconn, run>>

(* Commands.Create: the session exists before the command is sent.         *)
PostCreate(m) ==
    /\ post[m] = "create"
    /\ sess' = [sess EXCEPT ![m] = [state |-> "open", out |-> << >>]]
    /\ post' = [post EXCEPT ![m] = "send"]
    /\ UNCHANGED <<hub, served, wire, cur, nconn, run>>

(* Mutant of PostSend: the outbox has no limit.                            *)
PostSend_NoLimit(m) ==
    /\ post[m] = "send"
    /\ hub # NoConn
    /\ down' = [down EXCEPT ![hub] = Append(@, m)]
    /\ post' = [post EXCEPT ![m] = "accepted"]
    /\ UNCHANGED <<sess, hub, served, open, up, cur, nconn, run>>

(* Hub.Send: refused without an entry or with a full outbox.  An entry     *)
(* whose connection is broken accepts the command, which is then lost.     *)
PostSend(m) ==
    /\ post[m] = "send"
    /\ IF hub # NoConn /\ Len(down[hub]) < OutboxCap
       THEN /\ down' = IF hub \in open THEN [down EXCEPT ![hub] = Append(@, m)] ELSE down
            /\ post' = [post EXCEPT ![m] = "accepted"]
       ELSE /\ post' = [post EXCEPT ![m] = "refused"]
            /\ UNCHANGED down
    /\ UNCHANGED <<sess, hub, served, open, up, cur, nconn, run>>

-----------------------------------------------------------------------------
(* The agent.                                                              *)

(* A goroutine is started for the command.                                 *)
ReceiveCommand ==
    /\ cur # NoConn
    /\ down[cur] # << >>
    /\ run' = [run EXCEPT ![Head(down[cur])] = [pc |-> "running", conn |-> cur, lines |-> 0]]
    /\ down' = [down EXCEPT ![cur] = Tail(@)]
    /\ UNCHANGED <<post, sess, hub, served, open, up, cur, nconn>>

(* writer.Send, on the connection that the command came from.              *)
SendUp(m, msg) ==
    up' = IF run[m].conn \in open THEN [up EXCEPT ![run[m].conn] = Append(@, msg)] ELSE up

(* A line is read from the pipe; the lines are drained before Wait.        *)
CommandOutput(m) ==
    /\ run[m].pc = "running"
    /\ run[m].lines < MaxLines
    /\ SendUp(m, [cmd |-> m, line |-> run[m].lines + 1])
    /\ run' = [run EXCEPT ![m].lines = @ + 1]
    /\ UNCHANGED <<post, sess, hub, served, open, down, cur, nconn>>

(* Mutant of CommandEnd: done is sent as soon as the process exits, while  *)
(* a line is still in the pipe.                                            *)
CommandEnd_Undrained(m) ==
    /\ run[m].pc = "running"
    /\ run[m].lines < MaxLines
    /\ SendUp(m, [cmd |-> m, done |-> TRUE])
    /\ run' = [run EXCEPT ![m].pc = "ended", ![m].lines = @ + 1]
    /\ UNCHANGED <<post, sess, hub, served, open, down, cur, nconn>>

(* The command is over, with any exit code, or could not be started.       *)
CommandEnd(m) ==
    /\ run[m].pc = "running"
    /\ SendUp(m, [cmd |-> m, done |-> TRUE])
    /\ run' = [run EXCEPT ![m].pc = "ended"]
    /\ UNCHANGED <<post, sess, hub, served, open, down, cur, nconn>>

(* The agent connects; the Hub closes an older connection.                 *)
Connect ==
    /\ cur = NoConn
    /\ nconn < MaxConns
    /\ nconn' = nconn + 1
    /\ cur' = nconn + 1
    /\ hub' = nconn + 1
    /\ served' = served \cup {nconn + 1}
    /\ open' = (open \ {hub}) \cup {nconn + 1}
    /\ UNCHANGED <<post, sess, down, up, run>>

(* ws.Read fails on the agent.                                             *)
AgentReadError ==
    /\ cur \notin open \cup {NoConn}
    /\ cur' = NoConn
    /\ down' = [down EXCEPT ![cur] = << >>]
    /\ UNCHANGED <<post, sess, hub, served, open, up, nconn, run>>

-----------------------------------------------------------------------------
(* The read loop of the server: AppendOutput and SetDone.                  *)

Received(s, msg) ==
    IF "line" \in DOMAIN msg THEN [s EXCEPT !.out = Append(@, msg.line)]
                             ELSE [s EXCEPT !.state = "done"]

ReadCommandMessage(c) ==
    LET msg == Head(up[c]) IN
    /\ c \in served
    /\ up[c] # << >>
    /\ up' = [up EXCEPT ![c] = Tail(@)]
    /\ sess' = IF sess[msg.cmd].state = "absent" THEN sess
               ELSE [sess EXCEPT ![msg.cmd] = Received(@, msg)]
    /\ UNCHANGED <<post, hub, served, open, down, cur, nconn, run>>

(* ws.Read fails on the server; Hub.unregister deletes whatever entry.     *)
ServerReadError(c) ==
    /\ c \in served \ open
    /\ served' = served \ {c}
    /\ hub' = NoConn
    /\ up' = [up EXCEPT ![c] = << >>]
    /\ UNCHANGED <<post, sess, open, down, cur, nconn, run>>

-----------------------------------------------------------------------------
(* Faults: the network, the agent process, the server process.             *)

NetDrop(c) ==
    /\ c \in open
    /\ open' = open \ {c}
    /\ UNCHANGED <<post, sess, hub, served, down, up, cur, nconn, run>>

AgentCrash ==
    /\ nconn > 0
    /\ open' = open \ {cur}
    /\ down' = [c \in Conns |-> IF c = cur THEN << >> ELSE down[c]]
    /\ cur' = NoConn
    /\ run' = [m \in Cmds |-> IF run[m].pc = "running"
                              THEN [run[m] EXCEPT !.pc = "killed"] ELSE run[m]]
    /\ UNCHANGED <<post, sess, hub, served, up, nconn>>

(* Sessions are kept in memory only; a request in progress is not answered.*)
ServerRestart ==
    /\ served # {}
    /\ sess' = [m \in Cmds |-> NoSession]
    /\ post' = [m \in Cmds |-> IF post[m] \in {"create", "send"} THEN "lost" ELSE post[m]]
    /\ hub' = NoConn
    /\ served' = {}
    /\ open' = {}
    /\ up' = [c \in Conns |-> << >>]
    /\ UNCHANGED <<down, cur, nconn, run>>

-----------------------------------------------------------------------------
Post(m)    == PostCheck(m) \/ PostCreate(m) \/ PostSend(m)
Execute(m) == CommandOutput(m) \/ CommandEnd(m)
Loop       == ReceiveCommand \/ AgentReadError \/ Connect
Fault      == AgentCrash \/ ServerRestart \/ \E c \in Conns : NetDrop(c)

Next ==
    \/ \E m \in Cmds : Post(m) \/ Execute(m)
    \/ Loop
    \/ \E c \in Conns : ReadCommandMessage(c) \/ ServerReadError(c)
    \/ Fault

(* Goroutines are scheduled and a command ends; nothing has to fail.       *)
Spec ==
    /\ Init /\ [][Next]_vars
    /\ \A m \in Cmds : WF_vars(Post(m)) /\ WF_vars(Execute(m))
    /\ WF_vars(Loop)
    /\ \A c \in Conns : WF_vars(ReadCommandMessage(c))

-----------------------------------------------------------------------------
(* Correctness.                                                            *)

(* A poll never shows output with a gap, out of order or of another run,   *)
(* and a session shown as done has all the output of a command that is     *)
(* over, although commands share connections that break, and sessions      *)
(* vanish with the server while their output is on its way (command.go:90).*)
OutputExact ==
    \A m \in Cmds :
        /\ Len(sess[m].out) <= run[m].lines
        /\ \A k \in 1..Len(sess[m].out) : sess[m].out[k] = k
        /\ sess[m].state = "done" =>
                run[m].pc = "ended" /\ Len(sess[m].out) = run[m].lines

(* A command that was accepted is shown as done in the end, unless a       *)
(* connection broke: a POST that races with output, with other commands or *)
(* with a full outbox loses nothing (command.go:63-79).                    *)
Broken == \E c \in 1..nconn : c \notin open

AcceptedCompletes ==
    \A m \in Cmds : post[m] = "accepted" ~> (sess[m].state = "done" \/ Broken)
=============================================================================
