------------------------ MODULE MessageWriter_proofs ------------------------
(***************************************************************************)
(* Proofs about MessageWriter, for any set of senders, any number of       *)
(* messages and any capacity of the outbox.                                *)
(***************************************************************************)
EXTENDS MessageWriter, SequenceTheorems, TLAPS

(* All messages that were enqueued and are not lost, oldest first.         *)
Pipe == delivered \o (Taken \o outbox)

(* The last message of sender s that has been enqueued.                    *)
Last(s) == IF sender[s] = "idle" THEN sent[s] ELSE sent[s] - 1

(* q has all messages of the senders up to the last one enqueued.          *)
UpToDate(q) ==
    \A s \in Senders :
        /\ \A k \in 1..Len(q) : q[k].from = s => q[k].n <= Last(s)
        /\ Last(s) > 0 => \E k \in 1..Len(q) : q[k].from = s /\ q[k].n = Last(s)

(* As long as the connection works and the writer goes on, nothing that    *)
(* was enqueued is missing.                                                *)
FlowInv == conn /\ writer # "done" => Gapless(Pipe) /\ UpToDate(Pipe)

SenderInv == \A s \in Senders : sender[s] # "idle" => sent[s] > 0

IndInv == TypeOK /\ SenderInv /\ FlowInv /\ NoGap

-----------------------------------------------------------------------------
(* Sequences of messages.                                                  *)

(* The first messages of a sequence without gaps have none either.         *)
LEMMA GaplessPrefix ==
    ASSUME NEW q \in Seq(Message), NEW r \in Seq(Message), Gapless(q \o r)
    PROVE  Gapless(q)
<1>1. /\ Len(q) \in Nat /\ Len(r) \in Nat
      /\ Len(q \o r) = Len(q) + Len(r)
      /\ \A k \in 1..Len(q) : (q \o r)[k] = q[k]
  BY ConcatProperties, LenProperties
<1>2. \A j, k \in 1..Len(q) : j < k /\ q[j].from = q[k].from => q[j].n < q[k].n
  <2> TAKE j, k \in 1..Len(q)
  <2>1. j \in 1..Len(q \o r) /\ k \in 1..Len(q \o r)
    BY <1>1
  <2> QED
    BY <1>1, <2>1 DEF Gapless
<1>3. ASSUME NEW k \in 1..Len(q), q[k].n > 1
      PROVE  \E j \in 1..(k - 1) : q[j].from = q[k].from /\ q[j].n = q[k].n - 1
  <2>1. k \in 1..Len(q \o r) /\ (q \o r)[k] = q[k]
    BY <1>1
  <2>2. PICK j \in 1..(k - 1) : /\ (q \o r)[j].from = (q \o r)[k].from
                                /\ (q \o r)[j].n = (q \o r)[k].n - 1
    BY <1>3, <2>1 DEF Gapless
  <2>3. (q \o r)[j] = q[j]
    BY <1>1
  <2> QED
    BY <2>1, <2>2, <2>3
<1> QED
  BY <1>2, <1>3 DEF Gapless

(* The next message of a sender leaves no gap.                             *)
LEMMA GaplessAppend ==
    ASSUME NEW q \in Seq(Message), NEW m \in Message, Gapless(q),
           \A k \in 1..Len(q) : q[k].from = m.from => q[k].n < m.n,
           m.n > 1 => \E k \in 1..Len(q) : q[k].from = m.from /\ q[k].n = m.n - 1
    PROVE  Gapless(Append(q, m))
<1> DEFINE a == Append(q, m)
<1>1. /\ Len(q) \in Nat /\ Len(a) = Len(q) + 1
      /\ \A k \in 1..Len(q) : a[k] = q[k]
      /\ a[Len(q) + 1] = m
  BY AppendProperties, LenProperties
<1>2. \A j, k \in 1..Len(a) : j < k /\ a[j].from = a[k].from => a[j].n < a[k].n
  <2> HIDE DEF a
  <2> SUFFICES ASSUME NEW j \in 1..Len(a), NEW k \in 1..Len(a),
                      j < k, a[j].from = a[k].from
               PROVE  a[j].n < a[k].n
    OBVIOUS
  <2>1. j \in 1..Len(q) /\ a[j] = q[j]
    BY <1>1
  <2>2. CASE k \in 1..Len(q)
    BY <1>1, <2>1, <2>2 DEF Gapless
  <2>3. CASE k = Len(q) + 1
    BY <1>1, <2>1, <2>3
  <2> QED
    BY <1>1, <2>2, <2>3
<1>3. ASSUME NEW k \in 1..Len(a), a[k].n > 1
      PROVE  \E j \in 1..(k - 1) : a[j].from = a[k].from /\ a[j].n = a[k].n - 1
  <2> HIDE DEF a
  <2>1. CASE k \in 1..Len(q)
    <3>1. a[k] = q[k]
      BY <1>1, <2>1
    <3>2. PICK j \in 1..(k - 1) : q[j].from = q[k].from /\ q[j].n = q[k].n - 1
      BY <1>3, <2>1, <3>1 DEF Gapless
    <3>3. a[j] = q[j]
      BY <1>1, <2>1
    <3> QED
      BY <3>1, <3>2, <3>3
  <2>2. CASE k = Len(q) + 1
    <3>1. PICK j \in 1..Len(q) : q[j].from = m.from /\ q[j].n = m.n - 1
      BY <1>1, <1>3, <2>2
    <3> QED
      BY <1>1, <2>2, <3>1
  <2> QED
    BY <1>1, <2>1, <2>2
<1> QED
  BY <1>2, <1>3 DEF Gapless

(* How the parts of the pipe fit together.                                 *)
LEMMA PipeFacts ==
    ASSUME TypeOK
    PROVE  /\ Taken \in Seq(Message)
           /\ Taken \o outbox \in Seq(Message)
           /\ Pipe \in Seq(Message)
<1>1. Taken \in Seq(Message)
  BY DEF Taken, TypeOK
<1>2. outbox \in Seq(Message) /\ delivered \in Seq(Message)
  BY DEF TypeOK
<1>3. Taken \o outbox \in Seq(Message)
  BY <1>1, <1>2, ConcatProperties
<1> QED
  BY <1>1, <1>2, <1>3, ConcatProperties DEF Pipe

(* What a new message adds to the pipe.                                    *)
LEMMA PipeAppend ==
    ASSUME TypeOK, NEW m \in Message, outbox' = Append(outbox, m),
           UNCHANGED <<delivered, writer, msg>>
    PROVE  Pipe' = Append(Pipe, m)
<1>1. outbox \in Seq(Message) /\ delivered \in Seq(Message) /\ <<m>> \in Seq(Message)
  BY DEF TypeOK
<1>2. Taken' = Taken
  BY DEF Taken
<1>3. Pipe' = delivered \o (Taken \o (outbox \o <<m>>))
  BY <1>1, <1>2, AppendIsConcat DEF Pipe
<1>4. Taken \o (outbox \o <<m>>) = (Taken \o outbox) \o <<m>>
  <2>1. Taken \in Seq(Message)
    BY PipeFacts
  <2>2. PICK t, q : t = Taken /\ q = outbox
    OBVIOUS
  <2> QED
    BY <1>1, <2>1, <2>2, ConcatAssociative
<1>5. delivered \o ((Taken \o outbox) \o <<m>>) = Pipe \o <<m>>
  BY <1>1, PipeFacts, ConcatAssociative DEF Pipe
<1> QED
  BY <1>3, <1>4, <1>5, PipeFacts, AppendIsConcat

(* A message that is taken from the outbox stays in the pipe.              *)
LEMMA PipeTake ==
    ASSUME TypeOK, WriterTake
    PROVE  Pipe' = Pipe
<1>1. /\ writer = "select" /\ writer' = "write" /\ outbox # << >>
      /\ msg' = Head(outbox) /\ outbox' = Tail(outbox) /\ delivered' = delivered
  BY DEF WriterTake
<1>2. outbox \in Seq(Message)
  BY DEF TypeOK
<1>3. Taken = << >> /\ Taken' = <<Head(outbox)>>
  BY <1>1 DEF Taken
<1>4. <<Head(outbox)>> \o Tail(outbox) = outbox /\ << >> \o outbox = outbox
  BY <1>1, <1>2
<1> QED
  BY <1>1, <1>3, <1>4 DEF Pipe

(* So does one that is written to a working connection.                    *)
LEMMA PipeWrite ==
    ASSUME TypeOK, WriteOK, conn
    PROVE  /\ Pipe' = Pipe
           /\ delivered' = delivered \o <<msg>>
           /\ Pipe = delivered' \o outbox
<1>1. /\ writer = "write" /\ writer' = "select" /\ outbox' = outbox
      /\ delivered' = Append(delivered, msg) /\ msg \in Message
  BY DEF WriteOK, TypeOK
<1>2. outbox \in Seq(Message) /\ delivered \in Seq(Message) /\ <<msg>> \in Seq(Message)
  BY <1>1 DEF TypeOK
<1>3. Taken = <<msg>> /\ Taken' = << >>
  BY <1>1 DEF Taken
<1>4. delivered' = delivered \o <<msg>>
  BY <1>1, <1>2, AppendIsConcat
<1>5. delivered \o (<<msg>> \o outbox) = (delivered \o <<msg>>) \o outbox
  BY <1>2, ConcatAssociative
<1>6. << >> \o outbox = outbox
  BY <1>2
<1> QED
  BY <1>1, <1>3, <1>4, <1>5, <1>6 DEF Pipe

-----------------------------------------------------------------------------
(* The invariant.                                                          *)

LEMMA InitInv == Init => IndInv
<1> SUFFICES ASSUME Init PROVE IndInv
  OBVIOUS
<1>1. TypeOK /\ SenderInv
  <2>1. /\ << >> \in Seq(Message) /\ Len(<< >>) <= Cap
    BY WriterAssumption
  <2>2. [s \in Senders |-> 0] \in [Senders -> 0..MaxMsgs]
    BY WriterAssumption
  <2> QED
    BY <2>1, <2>2 DEF Init, TypeOK, SenderInv
<1>2. Pipe = << >>
  BY DEF Init, Pipe, Taken
<1>3. Gapless(<< >>) /\ UpToDate(<< >>)
  BY DEF Init, Gapless, UpToDate, Last
<1> QED
  BY <1>1, <1>2, <1>3 DEF Init, IndInv, FlowInv, NoGap

(* Every step keeps the types.                                             *)
LEMMA NextTyped ==
    ASSUME TypeOK, SenderInv, [Next]_vars
    PROVE  TypeOK' /\ SenderInv'
<1>1. ASSUME NEW s \in Senders, SendCall(s) PROVE TypeOK' /\ SenderInv'
  BY <1>1, WriterAssumption DEF SendCall, TypeOK, SenderInv
<1>2. ASSUME NEW s \in Senders, SendCheck(s) PROVE TypeOK' /\ SenderInv'
  BY <1>2 DEF SendCheck, TypeOK, SenderInv
<1>3. ASSUME NEW s \in Senders, SendEnqueue(s) PROVE TypeOK' /\ SenderInv'
  <2> DEFINE m == [from |-> s, n |-> sent[s]]
  <2>1. m \in Message
    <3>1. sent[s] \in 0..MaxMsgs /\ sent[s] > 0
      BY <1>3 DEF SendEnqueue, TypeOK, SenderInv
    <3> QED
      BY <3>1, WriterAssumption DEF Message
  <2>2. outbox \in Seq(Message) /\ Len(outbox) < Cap /\ outbox' = Append(outbox, m)
    BY <1>3 DEF SendEnqueue, TypeOK
  <2> HIDE DEF m
  <2>3. outbox' \in Seq(Message) /\ Len(outbox') <= Cap
    BY <2>1, <2>2, WriterAssumption, AppendProperties, LenProperties
  <2> QED
    BY <1>3, <2>3 DEF SendEnqueue, TypeOK, SenderInv
<1>4. ASSUME NEW s \in Senders, SendDropped(s) PROVE TypeOK' /\ SenderInv'
  BY <1>4 DEF SendDropped, TypeOK, SenderInv
<1>5. CASE WriterTake
  <2>1. outbox \in Seq(Message) /\ outbox # << >> /\ outbox' = Tail(outbox)
    BY <1>5 DEF WriterTake, TypeOK
  <2>2. /\ outbox' \in Seq(Message) /\ Len(outbox') <= Cap
        /\ Head(outbox) \in Message
    BY <1>5, <2>1, WriterAssumption, HeadTailProperties, LenProperties DEF TypeOK
  <2> QED
    BY <1>5, <2>2 DEF WriterTake, TypeOK, SenderInv
<1>6. CASE WriterStop
  BY <1>6 DEF WriterStop, TypeOK, SenderInv
<1>7. CASE WriteOK
  <2>1. delivered' \in Seq(Message)
    BY <1>7, AppendProperties DEF WriteOK, TypeOK
  <2> QED
    BY <1>7, <2>1 DEF WriteOK, TypeOK, SenderInv
<1>8. CASE WriteFail
  BY <1>8 DEF WriteFail, TypeOK, SenderInv
<1>9. CASE ConnLost \/ ReadError \/ StopReturn
  BY <1>9 DEF ConnLost, ReadError, StopReturn, TypeOK, SenderInv
<1>10. CASE UNCHANGED vars
  BY <1>10 DEF vars, TypeOK, SenderInv
<1> QED
  BY <1>1, <1>2, <1>3, <1>4, <1>5, <1>6, <1>7, <1>8, <1>9, <1>10 DEF Next, Send, Writer

(* The pipe stays up to date when neither it nor what the senders have     *)
(* enqueued changes.                                                       *)
LEMMA PipeKept ==
    ASSUME FlowInv, Pipe' = Pipe,
           \A s \in Senders : Last(s)' = Last(s),
           conn' /\ writer' # "done" => conn /\ writer # "done"
    PROVE  FlowInv'
<1> SUFFICES ASSUME conn', writer' # "done" PROVE Gapless(Pipe)' /\ UpToDate(Pipe)'
  BY DEF FlowInv
<1>1. PICK p : p = Pipe /\ p = Pipe' /\ Gapless(p) /\ UpToDate(p)
  BY DEF FlowInv
<1>2. Gapless(p)' /\ UpToDate(p)'
  BY <1>1 DEF Gapless, UpToDate
<1> QED
  BY <1>1, <1>2

(* Every step keeps the messages in order and complete.                    *)
LEMMA NextKeepsFlow ==
    ASSUME IndInv, [Next]_vars, TypeOK'
    PROVE  FlowInv' /\ NoGap'
<1> USE DEF IndInv
<1>1. ASSUME UNCHANGED delivered PROVE NoGap'
  BY <1>1 DEF NoGap, Gapless
<1>2. ASSUME UNCHANGED <<outbox, delivered, writer, msg>> PROVE Pipe' = Pipe
  BY <1>2 DEF Pipe, Taken
<1>3. ASSUME NEW s \in Senders, SendCall(s) PROVE FlowInv' /\ NoGap'
  <2>1. \A t \in Senders : Last(t)' = Last(t)
    BY <1>3 DEF SendCall, Last, TypeOK
  <2> QED
    BY <1>1, <1>2, <1>3, <2>1, PipeKept DEF SendCall
<1>4. ASSUME NEW s \in Senders, SendCheck(s) PROVE FlowInv' /\ NoGap'
  <2>1. CASE writer = "done"
    BY <1>1, <1>4, <2>1 DEF SendCheck, FlowInv
  <2>2. CASE writer # "done"
    <3>1. \A t \in Senders : Last(t)' = Last(t)
      BY <1>4, <2>2 DEF SendCheck, Last, TypeOK
    <3> QED
      BY <1>1, <1>2, <1>4, <3>1, PipeKept DEF SendCheck
  <2> QED
    BY <2>1, <2>2
<1>5. ASSUME NEW s \in Senders, SendEnqueue(s) PROVE FlowInv' /\ NoGap'
  <2> SUFFICES ASSUME conn, writer # "done" PROVE Gapless(Pipe)' /\ UpToDate(Pipe)'
    BY <1>1, <1>5 DEF SendEnqueue, FlowInv
  <2>1. PICK m \in Message : m = [from |-> s, n |-> sent[s]]
    BY <1>5, WriterAssumption DEF SendEnqueue, TypeOK, SenderInv, Message
  <2>2. PICK q \in Seq(Message) : q = Pipe /\ Gapless(q) /\ UpToDate(q)
    BY PipeFacts DEF FlowInv
  <2>3. Pipe' = Append(q, m)
    BY <1>5, <2>1, <2>2, PipeAppend DEF SendEnqueue
  <2>4. /\ Last(s) = sent[s] - 1 /\ Last(s)' = sent[s]
        /\ \A t \in Senders \ {s} : Last(t)' = Last(t)
        /\ sent[s] \in 1..MaxMsgs
        /\ m.from = s /\ m.n = sent[s]
    BY <1>5, <2>1, WriterAssumption DEF SendEnqueue, Last, TypeOK, SenderInv
  <2>5. \A k \in 1..Len(q) : q[k] \in Message
    BY <2>2, ElementOfSeq
  <2>6. Gapless(Append(q, m))
    <3>1. \A k \in 1..Len(q) : q[k].from = m.from => q[k].n < m.n
      BY <2>2, <2>4, <2>5, WriterAssumption DEF UpToDate, Message
    <3>2. m.n > 1 => \E k \in 1..Len(q) : q[k].from = m.from /\ q[k].n = m.n - 1
      BY <2>2, <2>4, WriterAssumption DEF UpToDate
    <3> QED
      BY <2>2, <3>1, <3>2, GaplessAppend
  <2>7. PICK a : a = Append(q, m)
    OBVIOUS
  <2>8. /\ Len(q) \in Nat /\ Len(a) = Len(q) + 1
        /\ \A k \in 1..Len(q) : a[k] = q[k]
        /\ a[Len(q) + 1] = m
    BY <2>7, AppendProperties, LenProperties
  <2>9. UpToDate(a)'
    <3> SUFFICES ASSUME NEW t \in Senders
                 PROVE  /\ \A k \in 1..Len(a) : a[k].from = t => a[k].n <= Last(t)'
                        /\ Last(t)' > 0 =>
                             \E k \in 1..Len(a) : a[k].from = t /\ a[k].n = Last(t)'
      BY DEF UpToDate
    <3>1. CASE t = s
      <4>1. \A k \in 1..Len(a) : a[k].from = t => a[k].n <= Last(t)'
        <5> SUFFICES ASSUME NEW k \in 1..Len(a), a[k].from = t PROVE a[k].n <= Last(t)'
          OBVIOUS
        <5>1. CASE k = Len(q) + 1
          BY <2>4, <2>8, <3>1, <5>1, WriterAssumption
        <5>2. CASE k \in 1..Len(q)
          <6>1. a[k] = q[k] /\ q[k].from = s /\ q[k].n \in Int
            BY <2>5, <2>8, <3>1, <5>2, WriterAssumption DEF Message
          <6>2. q[k].n <= Last(s)
            BY <2>2, <5>2, <6>1 DEF UpToDate
          <6>3. Last(s) \in Int /\ Last(s)' \in Int /\ Last(s) <= Last(s)'
            BY <2>4, WriterAssumption
          <6>4. q[k].n <= Last(s)'
            BY <6>1, <6>2, <6>3
          <6> QED
            BY <3>1, <6>1, <6>4
        <5> QED
          BY <2>8, <5>1, <5>2
      <4> QED
        BY <2>4, <2>8, <3>1, <4>1
    <3>2. CASE t # s
      <4>1. Last(t)' = Last(t)
        BY <2>4, <3>2
      <4>2. \A k \in 1..Len(a) : a[k].from = t => k \in 1..Len(q) /\ a[k] = q[k]
        BY <2>4, <2>8, <3>2
      <4>3. \A k \in 1..Len(a) : a[k].from = t => a[k].n <= Last(t)'
        BY <2>2, <4>1, <4>2 DEF UpToDate
      <4>4. ASSUME Last(t)' > 0
            PROVE  \E k \in 1..Len(a) : a[k].from = t /\ a[k].n = Last(t)'
        <5>1. PICK k \in 1..Len(q) : q[k].from = t /\ q[k].n = Last(t)
          BY <2>2, <4>1, <4>4 DEF UpToDate
        <5>2. k \in 1..Len(a) /\ a[k] = q[k]
          BY <2>8
        <5> QED
          BY <4>1, <5>1, <5>2
      <4> QED
        BY <4>3, <4>4
    <3> QED
      BY <3>1, <3>2
  <2>10. Gapless(a)'
    BY <2>6, <2>7 DEF Gapless
  <2> QED
    BY <2>3, <2>7, <2>9, <2>10
<1>6. ASSUME NEW s \in Senders, SendDropped(s) PROVE FlowInv' /\ NoGap'
  BY <1>1, <1>6 DEF SendDropped, FlowInv
<1>7. CASE WriterTake
  <2>1. \A t \in Senders : Last(t)' = Last(t)
    BY <1>7 DEF WriterTake, Last
  <2> QED
    BY <1>1, <1>7, <2>1, PipeTake, PipeKept DEF WriterTake
<1>8. CASE WriterStop \/ WriteFail
  BY <1>1, <1>8 DEF WriterStop, WriteFail, FlowInv
<1>9. CASE WriteOK
  <2>1. CASE ~conn
    BY <1>1, <1>9, <2>1 DEF WriteOK, FlowInv
  <2>2. CASE conn
    <3>1. /\ Pipe' = Pipe
          /\ Pipe = delivered' \o outbox
      BY <1>9, <2>2, PipeWrite
    <3>2. \A t \in Senders : Last(t)' = Last(t)
      BY <1>9 DEF WriteOK, Last
    <3>3. FlowInv'
      BY <1>9, <3>1, <3>2, PipeKept DEF WriteOK
    <3>4. PICK d \in Seq(Message) : d = delivered'
      BY DEF TypeOK
    <3>5. Gapless(d)
      BY <1>9, <2>2, <3>1, <3>4, GaplessPrefix DEF WriteOK, FlowInv, TypeOK
    <3> QED
      BY <3>3, <3>4, <3>5 DEF NoGap, Gapless
  <2> QED
    BY <2>1, <2>2
<1>10. CASE ConnLost
  BY <1>1, <1>10 DEF ConnLost, FlowInv
<1>11. CASE ReadError \/ StopReturn \/ UNCHANGED vars
  <2>1. \A t \in Senders : Last(t)' = Last(t)
    BY <1>11 DEF ReadError, StopReturn, vars, Last
  <2> QED
    BY <1>1, <1>2, <1>11, <2>1, PipeKept DEF ReadError, StopReturn, vars
<1> QED
  BY <1>3, <1>4, <1>5, <1>6, <1>7, <1>8, <1>9, <1>10, <1>11 DEF Next, Send, Writer

-----------------------------------------------------------------------------
(* The theorems.                                                           *)

(* What is written, taken and queued is complete and in order for as long  *)
(* as the connection lasts, whichever way Send and the writer interleave.  *)
THEOREM IndInvariant == Spec => []IndInv
<1>1. IndInv /\ [Next]_vars => IndInv'
  BY NextTyped, NextKeepsFlow DEF IndInv
<1> QED
  BY <1>1, InitInv, PTL DEF Spec

(* The channels, goroutines and counters keep their types; in particular   *)
(* the outbox never holds more than its capacity.                          *)
THEOREM TypeCorrect == Spec => []TypeOK
<1>1. IndInv => TypeOK
  BY DEF IndInv
<1> QED
  BY <1>1, IndInvariant, PTL

(* What the server receives from a goroutine is a prefix of what it sent.  *)
THEOREM DeliveredWithoutGap == Spec => []NoGap
<1>1. IndInv => NoGap
  BY DEF IndInv
<1> QED
  BY <1>1, IndInvariant, PTL

-----------------------------------------------------------------------------
(* The refinement of Channel.                                              *)

(* The writer is stopped, and gives up, only after the connection is lost. *)
StopInv == /\ stop => ~conn
           /\ writer = "done" => ~conn

(* Calls and queue of the channel, as MessageWriter implements them.       *)
Calls == [s \in Senders |-> Sending(s)]

Queue == IF conn THEN Taken \o outbox ELSE << >>

LEMMA NextKeepsStop ==
    ASSUME StopInv, [Next]_vars
    PROVE  StopInv'
<1>1. ASSUME NEW s \in Senders, SendCall(s) \/ Send(s) PROVE StopInv'
  BY <1>1 DEF StopInv, SendCall, Send, SendCheck, SendEnqueue, SendDropped
<1>2. CASE WriterTake \/ WriterStop
  BY <1>2 DEF StopInv, WriterTake, WriterStop
<1>3. CASE WriteOK \/ WriteFail
  BY <1>3 DEF StopInv, WriteOK, WriteFail
<1>4. CASE ConnLost \/ ReadError \/ StopReturn \/ UNCHANGED vars
  BY <1>4 DEF StopInv, ConnLost, ReadError, StopReturn, vars
<1> QED
  BY <1>1, <1>2, <1>3, <1>4 DEF Next, Writer

(* A sender that goes on within its call, and one that is not concerned.   *)
LEMMA CallsKept ==
    ASSUME \A s \in Senders : Sending(s)' = Sending(s)
    PROVE  Calls' = Calls
BY DEF Calls

(* One sender changes its call, and no other.                              *)
LEMMA CallsChange ==
    ASSUME TypeOK, NEW s \in Senders, NEW f, NEW n,
           sender' = [sender EXCEPT ![s] = f], sent' = [sent EXCEPT ![s] = n]
    PROVE  Calls' = [Calls EXCEPT ![s] = IF f = "idle" THEN << >>
                                         ELSE <<[from |-> s, n |-> n]>>]
<1>1. \A t \in Senders \ {s} : Sending(t)' = Sending(t)
  BY DEF TypeOK, Sending
<1>2. Sending(s)' = IF f = "idle" THEN << >> ELSE <<[from |-> s, n |-> n]>>
  BY DEF TypeOK, Sending
<1> QED
  BY <1>1, <1>2 DEF Calls

(* Every step of the writer and its users is a step of the channel, or is  *)
(* hidden by it.                                                           *)
LEMMA StepRefines ==
    ASSUME IndInv, IndInv', StopInv, [Next]_vars
    PROVE  [Chan!Next]_Chan!vars
<1> USE DEF IndInv
<1>1. ASSUME Calls' = Calls, Queue' = Queue, UNCHANGED <<conn, delivered>>
      PROVE  UNCHANGED Chan!vars
  BY <1>1 DEF Chan!vars, Calls, Queue
<1>2. ASSUME UNCHANGED <<outbox, writer, msg, conn>> PROVE Queue' = Queue
  BY <1>2 DEF Queue, Taken
<1>3. ASSUME UNCHANGED <<sender, sent>> PROVE Calls' = Calls
  BY <1>3, CallsKept DEF Sending
<1>4. ASSUME NEW s \in Senders, SendCall(s) PROVE Chan!Call(s)
  <2>1. Calls[s] = << >>
    BY <1>4 DEF SendCall, Calls, Sending
  <2>2. PICK n : n = sent[s] + 1
    OBVIOUS
  <2>3. Calls' = [Calls EXCEPT ![s] = <<[from |-> s, n |-> n]>>]
    BY <1>4, <2>2, CallsChange DEF SendCall
  <2>4. [from |-> s, n |-> n] \in Message
    BY <1>4, <2>2, WriterAssumption DEF SendCall, TypeOK, Message
  <2>5. Queue' = Queue
    BY <1>2, <1>4 DEF SendCall
  <2>6. UNCHANGED <<conn, delivered>>
    BY <1>4 DEF SendCall
  <2> QED
    BY <2>1, <2>3, <2>4, <2>5, <2>6 DEF Chan!Call, Calls, Queue
<1>5. ASSUME NEW s \in Senders, sender[s] # "idle",
             sender' = [sender EXCEPT ![s] = "idle"], UNCHANGED <<sent, conn, delivered>>,
             Queue' = IF conn THEN Queue \o Sending(s) ELSE << >>
      PROVE  Chan!Return(s)
  <2>1. Calls[s] = Sending(s) /\ Sending(s) # << >>
    BY <1>5 DEF Calls, Sending
  <2>2. sent' = [sent EXCEPT ![s] = sent[s]]
    BY <1>5 DEF TypeOK
  <2>3. Calls' = [Calls EXCEPT ![s] = << >>]
    BY <1>5, <2>2, CallsChange
  <2> QED
    BY <1>5, <2>1, <2>3 DEF Chan!Return, Calls, Queue
<1>6. ASSUME NEW s \in Senders, SendCheck(s)
      PROVE  Chan!Return(s) \/ UNCHANGED Chan!vars
  <2>1. CASE writer = "done"
    BY <1>2, <1>5, <1>6, <2>1 DEF SendCheck, StopInv, Queue
  <2>2. CASE writer # "done"
    <3>1. \A t \in Senders : Sending(t)' = Sending(t)
      BY <1>6, <2>2 DEF SendCheck, Sending, TypeOK
    <3> QED
      BY <1>1, <1>2, <1>6, <3>1, CallsKept DEF SendCheck
  <2> QED
    BY <2>1, <2>2
<1>7. ASSUME NEW s \in Senders, SendEnqueue(s) PROVE Chan!Return(s)
  <2>1. PICK m \in Message : m = [from |-> s, n |-> sent[s]]
    BY <1>7, WriterAssumption DEF SendEnqueue, TypeOK, SenderInv, Message
  <2>2. Sending(s) = <<m>>
    BY <1>7, <2>1 DEF SendEnqueue, Sending
  <2>3. Taken' = Taken /\ outbox' = outbox \o <<m>>
    BY <1>7, <2>1, AppendIsConcat DEF SendEnqueue, Taken, TypeOK
  <2>4. (Taken \o outbox) \o <<m>> = Taken \o (outbox \o <<m>>)
    <3>1. PICK t, q : t = Taken /\ q = outbox
      OBVIOUS
    <3>2. t \in Seq(Message) /\ q \in Seq(Message) /\ <<m>> \in Seq(Message)
      BY <3>1, PipeFacts DEF TypeOK
    <3>3. (t \o q) \o <<m>> = t \o (q \o <<m>>)
      BY <3>2, ConcatAssociative
    <3> QED
      BY <3>1, <3>3
  <2>5. Queue' = IF conn THEN Queue \o Sending(s) ELSE << >>
    BY <1>7, <2>2, <2>3, <2>4 DEF SendEnqueue, Queue
  <2> QED
    BY <1>5, <1>7, <2>5 DEF SendEnqueue
<1>8. ASSUME NEW s \in Senders, SendDropped(s) PROVE Chan!Return(s)
  BY <1>2, <1>5, <1>8 DEF SendDropped, StopInv, Queue
<1>9. CASE WriterTake
  <2>1. Taken' \o outbox' = Taken \o outbox
    BY <1>9 DEF WriterTake, Taken, TypeOK
  <2> QED
    BY <1>1, <1>3, <1>9, <2>1 DEF WriterTake, Queue
<1>10. CASE WriterStop \/ WriteFail
  BY <1>1, <1>3, <1>10 DEF WriterStop, WriteFail, StopInv, Queue
<1>11. CASE WriteOK
  <2>1. CASE ~conn
    BY <1>1, <1>3, <1>11, <2>1 DEF WriteOK, Queue
  <2>2. CASE conn
    <3>1. Queue = <<msg>> \o outbox /\ Queue' = outbox
      BY <1>11, <2>2 DEF WriteOK, Queue, Taken, TypeOK
    <3>2. msg \in Message /\ outbox \in Seq(Message)
      BY <1>11 DEF WriteOK, TypeOK
    <3>3. Queue # << >> /\ Head(Queue) = msg /\ Tail(Queue) = outbox
      BY <3>1, <3>2
    <3>4. delivered' = Append(delivered, Head(Queue))
      BY <1>11, <2>2, <3>3 DEF WriteOK
    <3>5. Calls' = Calls /\ conn' = conn
      BY <1>3, <1>11 DEF WriteOK
    <3>6. Chan!Arrive
      BY <2>2, <3>1, <3>3, <3>4, <3>5 DEF Chan!Arrive, Queue, Calls
    <3> QED
      BY <3>6 DEF Chan!Next
  <2> QED
    BY <2>1, <2>2
<1>12. CASE ConnLost
  <2>1. Chan!Break
    BY <1>3, <1>12 DEF ConnLost, Chan!Break, Queue, Calls
  <2> QED
    BY <2>1 DEF Chan!Next
<1>13. CASE ReadError \/ StopReturn \/ UNCHANGED vars
  BY <1>1, <1>2, <1>3, <1>13 DEF ReadError, StopReturn, vars
<1> QED
  BY <1>4, <1>6, <1>7, <1>8, <1>9, <1>10, <1>11, <1>12, <1>13
     DEF Next, Send, Writer, Chan!Next

(* MessageWriter implements Channel: for any number of senders and any     *)
(* capacity of the outbox, what Send and the writer goroutine do with two  *)
(* selects and three channels is one queue to the server, which loses      *)
(* nothing before the connection is lost.                                  *)
THEOREM ImplementsChannel == Spec => IsChannel
<1>1. Init => Chan!Init
  <2> SUFFICES ASSUME Init PROVE Chan!Init
    OBVIOUS
  <2>1. \A s \in Senders : Sending(s) = << >>
    BY DEF Init, Sending
  <2>2. Taken \o outbox = << >>
    BY DEF Init, Taken
  <2> QED
    BY <2>1, <2>2 DEF Init, Chan!Init
<1>2. Init => StopInv
  BY DEF Init, StopInv
<1>3. StopInv /\ [Next]_vars => StopInv'
  BY NextKeepsStop
<1>4. IndInv /\ IndInv' /\ StopInv /\ [Next]_vars => [Chan!Next]_Chan!vars
  BY StepRefines
<1> QED
  BY <1>1, <1>2, <1>3, <1>4, IndInvariant, PTL DEF Spec, IsChannel, Chan!Spec
=============================================================================
