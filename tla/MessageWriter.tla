---------------------------- MODULE MessageWriter ----------------------------
(***************************************************************************)
(* The agent's MessageWriter (internal/agent/agent.go:485): one goroutine  *)
(* that owns the writes of a WebSocket, the runPlaybook and runCommand     *)
(* goroutines that Send through it, and the read loop of connect, which    *)
(* stops it when the connection is lost.                                   *)
(***************************************************************************)
EXTENDS Naturals, Sequences

CONSTANTS
    Senders,    \* the goroutines that report
    MaxMsgs,    \* bound: messages of each sender
    Cap         \* capacity of the outbox channel

ASSUME WriterAssumption == MaxMsgs \in Nat /\ Cap \in Nat \ {0}

VARIABLES
    outbox,     \* the outbox channel
    stop,       \* the stop channel is closed
    writer,     \* the writer goroutine; the done channel is closed at "done"
    msg,        \* the message the writer has taken
    conn,       \* the connection works
    reader,     \* the read loop: reading, in Stop, or returned
    sender,     \* the goroutines that send
    sent,       \* the number of the last message each of them sent
    delivered   \* history: what reached the server

vars == <<outbox, stop, writer, msg, conn, reader, sender, sent, delivered>>

Message == [from : Senders, n : 1..MaxMsgs]

TypeOK ==
    /\ outbox \in Seq(Message) /\ Len(outbox) <= Cap
    /\ stop \in BOOLEAN
    /\ writer \in {"select", "write", "done"}
    /\ writer = "write" => msg \in Message
    /\ conn \in BOOLEAN
    /\ reader \in {"read", "stop", "returned"}
    /\ sender \in [Senders -> {"idle", "check", "send"}]
    /\ sent \in [Senders -> 0..MaxMsgs]
    /\ delivered \in Seq(Message)

Init ==
    /\ outbox = << >>
    /\ stop = FALSE
    /\ writer = "select"
    /\ msg = << >>
    /\ conn = TRUE
    /\ reader = "read"
    /\ sender = [s \in Senders |-> "idle"]
    /\ sent = [s \in Senders |-> 0]
    /\ delivered = << >>

-----------------------------------------------------------------------------
(* Send.                                                                   *)

SendCall(s) ==
    /\ sender[s] = "idle"
    /\ sent[s] < MaxMsgs
    /\ sent' = [sent EXCEPT ![s] = @ + 1]
    /\ sender' = [sender EXCEPT ![s] = "check"]
    /\ UNCHANGED <<outbox, stop, writer, msg, conn, reader, delivered>>

(* The fast path: a message for a closed writer is dropped.                *)
SendCheck(s) ==
    /\ sender[s] = "check"
    /\ sender' = [sender EXCEPT ![s] = IF writer = "done" THEN "idle" ELSE "send"]
    /\ UNCHANGED <<outbox, stop, writer, msg, conn, reader, sent, delivered>>

(* Mutants of SendEnqueue: a full outbox is not waited for; a full outbox  *)
(* does not stop the sender.                                               *)
SendEnqueue_NoWait(s) ==
    /\ sender[s] = "send"
    /\ outbox' = IF Len(outbox) < Cap
                 THEN Append(outbox, [from |-> s, n |-> sent[s]]) ELSE outbox
    /\ sender' = [sender EXCEPT ![s] = "idle"]
    /\ UNCHANGED <<stop, writer, msg, conn, reader, sent, delivered>>

SendEnqueue_NoLimit(s) ==
    /\ sender[s] = "send"
    /\ outbox' = Append(outbox, [from |-> s, n |-> sent[s]])
    /\ sender' = [sender EXCEPT ![s] = "idle"]
    /\ UNCHANGED <<stop, writer, msg, conn, reader, sent, delivered>>

(* The second select: the outbox has room, or the writer has closed.  When *)
(* both are so, either is taken.                                           *)
SendEnqueue(s) ==
    /\ sender[s] = "send"
    /\ Len(outbox) < Cap
    /\ outbox' = Append(outbox, [from |-> s, n |-> sent[s]])
    /\ sender' = [sender EXCEPT ![s] = "idle"]
    /\ UNCHANGED <<stop, writer, msg, conn, reader, sent, delivered>>

(* Mutant of SendDropped: a waiting sender does not look at done.          *)
SendDropped_Waits(s) == sender[s] = "send" /\ writer = "done" /\ UNCHANGED vars

SendDropped(s) ==
    /\ sender[s] = "send"
    /\ writer = "done"
    /\ sender' = [sender EXCEPT ![s] = "idle"]
    /\ UNCHANGED <<outbox, stop, writer, msg, conn, reader, sent, delivered>>

-----------------------------------------------------------------------------
(* The writer goroutine.                                                   *)

(* The select: a message is taken or the writer is stopped, whichever it   *)
(* picks when both are ready.                                              *)
WriterTake ==
    /\ writer = "select"
    /\ outbox # << >>
    /\ msg' = Head(outbox)
    /\ outbox' = Tail(outbox)
    /\ writer' = "write"
    /\ UNCHANGED <<stop, conn, reader, sender, sent, delivered>>

WriterStop ==
    /\ writer = "select"
    /\ stop
    /\ writer' = "done"
    /\ UNCHANGED <<outbox, stop, msg, conn, reader, sender, sent, delivered>>

(* ws.Write succeeds; on a broken connection the message goes nowhere.     *)
WriteOK ==
    /\ writer = "write"
    /\ delivered' = IF conn THEN Append(delivered, msg) ELSE delivered
    /\ writer' = "select"
    /\ UNCHANGED <<outbox, stop, msg, conn, reader, sender, sent>>

(* ws.Write fails, at the latest after ten seconds: the goroutine returns. *)
WriteFail ==
    /\ writer = "write"
    /\ ~conn
    /\ writer' = "done"
    /\ UNCHANGED <<outbox, stop, msg, conn, reader, sender, sent, delivered>>

-----------------------------------------------------------------------------
(* connect.                                                                *)

ConnLost ==
    /\ conn
    /\ conn' = FALSE
    /\ UNCHANGED <<outbox, stop, writer, msg, reader, sender, sent, delivered>>

(* Mutant of ReadError: Stop waits for a writer that nobody told to stop.  *)
ReadError_NoClose ==
    /\ reader = "read"
    /\ ~conn
    /\ reader' = "stop"
    /\ UNCHANGED <<outbox, stop, writer, msg, conn, sender, sent, delivered>>

(* ws.Read fails; the deferred Stop closes the stop channel ...            *)
ReadError ==
    /\ reader = "read"
    /\ ~conn
    /\ stop' = TRUE
    /\ reader' = "stop"
    /\ UNCHANGED <<outbox, writer, msg, conn, sender, sent, delivered>>

(* ... and waits for done.                                                 *)
StopReturn ==
    /\ reader = "stop"
    /\ writer = "done"
    /\ reader' = "returned"
    /\ UNCHANGED <<outbox, stop, writer, msg, conn, sender, sent, delivered>>

-----------------------------------------------------------------------------
Send(s) == SendCheck(s) \/ SendEnqueue(s) \/ SendDropped(s)

Writer == WriterTake \/ WriterStop \/ WriteOK \/ WriteFail

Next ==
    \/ \E s \in Senders : SendCall(s) \/ Send(s)
    \/ Writer
    \/ ConnLost
    \/ ReadError
    \/ StopReturn

(* Goroutines are scheduled and ws.Write returns; nobody has to send, and  *)
(* the connection need not break.  Channel waiters are served in order, so *)
(* a sender competes with the bounded messages of the others only.         *)
Spec ==
    /\ Init /\ [][Next]_vars
    /\ \A s \in Senders : WF_vars(Send(s))
    /\ WF_vars(Writer) /\ WF_vars(ReadError) /\ WF_vars(StopReturn)

-----------------------------------------------------------------------------
(* Correctness.                                                            *)

(* The messages of each sender in q are its first ones, in order: their    *)
(* numbers grow, and each comes after its predecessor.                     *)
Gapless(q) ==
    /\ \A j, k \in 1..Len(q) : j < k /\ q[j].from = q[k].from => q[j].n < q[k].n
    /\ \A k \in 1..Len(q) : q[k].n > 1 =>
         \E j \in 1..(k - 1) : q[j].from = q[k].from /\ q[j].n = q[k].n - 1

(* What the server receives from a goroutine is a prefix of what it sent,  *)
(* in order and without a gap, although senders share a bounded outbox and *)
(* the writer may stop at any time.  Module Wire relies on this, and with  *)
(* it the resume index of a deployment: a lost step_complete before a      *)
(* delivered one would go unnoticed (agent.go:524).                        *)
NoGap == Gapless(delivered)

(* A goroutine that reports on a connection that is lost, or through an    *)
(* outbox that is full, is not blocked for ever (agent.go:533).            *)
SendReturns == \A s \in Senders : sender[s] = "send" ~> sender[s] = "idle"

(* The connect loop gets out of Stop and can reconnect, whatever the       *)
(* writer is doing when the connection is lost (agent.go:541).             *)
StopReturns == ~conn ~> reader = "returned"

(* The message that the writer has taken and not yet written.              *)
Taken == IF writer = "write" THEN <<msg>> ELSE << >>

(* The call of Send that a goroutine is in.                                *)
Sending(s) == IF sender[s] = "idle" THEN << >> ELSE <<[from |-> s, n |-> sent[s]]>>

Chan == INSTANCE Channel WITH
    calls <- [s \in Senders |-> Sending(s)],
    queue <- IF conn THEN Taken \o outbox ELSE << >>,
    open  <- conn

(* Outbox, writer goroutine and WebSocket are one queue to the server: it  *)
(* gets the messages in the order in which Send returned, across all       *)
(* senders, each at most once, and Send gives up a message only after the  *)
(* connection is lost, never because the outbox is full or the writer is   *)
(* just stopping (agent.go:533).  What MessageWriter adds to Channel (the  *)
(* bound, the two selects, Stop) cannot be seen.                           *)
IsChannel == Chan!Spec
=============================================================================
