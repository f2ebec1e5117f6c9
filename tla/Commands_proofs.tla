--------------------------- MODULE Commands_proofs ---------------------------
(***************************************************************************)
(* Proofs about Commands, for any number of commands, lines and            *)
(* connections and any capacity of the outbox.                             *)
(***************************************************************************)
EXTENDS Commands, SequenceTheorems, TLAPS

(* A message is a line, with its number, or the completion, which comes    *)
(* after the last of l lines.                                              *)
IsLine(msg) == "line" \in DOMAIN msg
Num(msg, l) == IF IsLine(msg) THEN msg.line ELSE l + 1

(* The messages of m in the queue q follow on from line n and on each      *)
(* other, and none is beyond line l.                                       *)
InFlight(m, q, n, l) ==
    \A k \in 1..Len(q) : q[k].cmd = m =>
        /\ n < Num(q[k], l)
        /\ IsLine(q[k]) => q[k].line <= l
        /\ \/ Num(q[k], l) = n + 1
           \/ \E j \in 1..(k - 1) : q[j].cmd = m /\ Num(q[j], l) = Num(q[k], l) - 1
        /\ \A j \in 1..(k - 1) : q[j].cmd = m => Num(q[j], l) < Num(q[k], l)

(* Every line up to l has been received or is on its way.                  *)
Reached(m, q, n, l) == l = n \/ \E k \in 1..Len(q) : q[k].cmd = m /\ Num(q[k], l) = l

(* A command is run on one connection, after it has been accepted.         *)
RunInv(m) ==
    /\ run[m].conn <= nconn
    /\ run[m].pc = "off" => run[m].lines = 0
    /\ post[m] \in {"off", "create", "send"} => run[m].pc = "off"

(* Its messages are on that connection; none is left after the completion. *)
UpInv(m) ==
    \A c \in Conns : \A k \in 1..Len(up[c]) : up[c][k].cmd = m =>
        /\ c = run[m].conn
        /\ run[m].pc # "off"
        /\ IsLine(up[c][k]) \/ run[m].pc = "ended"
        /\ sess[m].state # "done"

SessInv(m) ==
    /\ sess[m].state = "absent" => sess[m].out = << >>
    /\ Len(sess[m].out) <= run[m].lines
    /\ \A k \in 1..Len(sess[m].out) : sess[m].out[k] = k
    /\ sess[m].state = "done" => run[m].pc = "ended" /\ Len(sess[m].out) = run[m].lines

(* Output for a session that exists follows on from what it has; while the *)
(* connection works nothing is missing.                                    *)
FlowInv(m) ==
    sess[m].state # "absent" =>
        /\ \A c \in Conns : InFlight(m, up[c], Len(sess[m].out), run[m].lines)
        /\ run[m].pc # "off" /\ run[m].conn \in open =>
                Reached(m, up[run[m].conn], Len(sess[m].out), run[m].lines)

(* A command on its way to the agent is there once, and has not been run.  *)
DownInv ==
    \A c \in Conns : \A k \in 1..Len(down[c]) :
        /\ run[down[c][k]].pc = "off"
        /\ post[down[c][k]] = "accepted"
        /\ \A d \in Conns : \A j \in 1..Len(down[d]) :
                down[d][j] = down[c][k] => d = c /\ j = k

CmdInv(m) == RunInv(m) /\ UpInv(m) /\ SessInv(m) /\ FlowInv(m)

IndInv ==
    /\ TypeOK
    /\ cur <= nconn
    /\ DownInv
    /\ \A m \in Cmds : CmdInv(m)

-----------------------------------------------------------------------------
(* Messages and queues.                                                    *)

LEMMA MessageFacts ==
    ASSUME NEW msg \in UpMessage
    PROVE  msg.cmd \in Cmds /\ (IsLine(msg) => msg.line \in 1..MaxLines)
BY DEF UpMessage, IsLine

LEMMA LineFacts ==
    ASSUME NEW m \in Cmds, NEW l \in 1..MaxLines
    PROVE  LET msg == [cmd |-> m, line |-> l] IN
           msg \in UpMessage /\ IsLine(msg) /\ msg.cmd = m /\ msg.line = l
BY DEF UpMessage, IsLine

LEMMA DoneFacts ==
    ASSUME NEW m \in Cmds
    PROVE  LET msg == [cmd |-> m, done |-> TRUE] IN
           msg \in UpMessage /\ ~IsLine(msg) /\ msg.cmd = m
BY DEF UpMessage, IsLine

LEMMA NumType ==
    ASSUME NEW msg \in UpMessage, NEW l \in Nat
    PROVE  Num(msg, l) \in Nat
BY MessageFacts, CommandsAssumption DEF Num

LEMMA AppendFacts ==
    ASSUME NEW S, NEW q \in Seq(S), NEW x \in S
    PROVE  /\ Append(q, x) \in Seq(S)
           /\ Len(Append(q, x)) = Len(q) + 1
           /\ \A k \in 1..Len(q) : Append(q, x)[k] = q[k]
           /\ Append(q, x)[Len(q) + 1] = x
BY AppendProperties, LenProperties

LEMMA TailFacts ==
    ASSUME NEW S, NEW q \in Seq(S), q # << >>
    PROVE  /\ Tail(q) \in Seq(S)
           /\ Len(Tail(q)) = Len(q) - 1
           /\ Len(q) \in Nat \ {0}
           /\ \A k \in 1..Len(Tail(q)) : Tail(q)[k] = q[k + 1]
           /\ Head(q) = q[1]
           /\ Head(q) \in S
BY HeadTailProperties, LenProperties

(* A message of another command is of no concern.                          *)
LEMMA AppendOther ==
    ASSUME NEW q \in Seq(UpMessage), NEW msg \in UpMessage, NEW m, msg.cmd # m,
           NEW n \in Nat, NEW l \in Nat
    PROVE  /\ InFlight(m, q, n, l) => InFlight(m, Append(q, msg), n, l)
           /\ Reached(m, q, n, l) => Reached(m, Append(q, msg), n, l)
<1> DEFINE p == Append(q, msg)
<1>1. Len(p) = Len(q) + 1 /\ Len(q) \in Nat /\ p[Len(q) + 1] = msg
      /\ \A k \in 1..Len(q) : p[k] = q[k]
  BY AppendFacts, LenProperties
<1> HIDE DEF p
<1>2. InFlight(m, q, n, l) => InFlight(m, p, n, l)
  <2> SUFFICES ASSUME InFlight(m, q, n, l), NEW k \in 1..Len(p), p[k].cmd = m
               PROVE  /\ n < Num(p[k], l)
                      /\ IsLine(p[k]) => p[k].line <= l
                      /\ \/ Num(p[k], l) = n + 1
                         \/ \E j \in 1..(k - 1) : p[j].cmd = m /\ Num(p[j], l) = Num(p[k], l) - 1
                      /\ \A j \in 1..(k - 1) : p[j].cmd = m => Num(p[j], l) < Num(p[k], l)
    BY DEF InFlight
  <2>1. k \in 1..Len(q) /\ p[k] = q[k] /\ \A j \in 1..(k - 1) : p[j] = q[j]
    BY <1>1
  <2> QED
    BY <2>1 DEF InFlight
<1>3. Reached(m, q, n, l) => Reached(m, p, n, l)
  BY <1>1 DEF Reached
<1> QED
  BY <1>2, <1>3 DEF p

LEMMA TailOther ==
    ASSUME NEW q \in Seq(UpMessage), q # << >>, NEW m, Head(q).cmd # m,
           NEW n \in Nat, NEW l \in Nat
    PROVE  /\ InFlight(m, q, n, l) => InFlight(m, Tail(q), n, l)
           /\ Reached(m, q, n, l) => Reached(m, Tail(q), n, l)
<1> DEFINE p == Tail(q)
<1>1. Len(p) = Len(q) - 1 /\ Len(q) \in Nat \ {0} /\ q[1].cmd # m
      /\ \A k \in 1..Len(p) : p[k] = q[k + 1]
  BY TailFacts
<1> HIDE DEF p
<1>2. InFlight(m, q, n, l) => InFlight(m, p, n, l)
  <2> SUFFICES ASSUME InFlight(m, q, n, l), NEW k \in 1..Len(p), p[k].cmd = m
               PROVE  /\ n < Num(p[k], l)
                      /\ IsLine(p[k]) => p[k].line <= l
                      /\ \/ Num(p[k], l) = n + 1
                         \/ \E j \in 1..(k - 1) : p[j].cmd = m /\ Num(p[j], l) = Num(p[k], l) - 1
                      /\ \A j \in 1..(k - 1) : p[j].cmd = m => Num(p[j], l) < Num(p[k], l)
    BY DEF InFlight
  <2>1. k + 1 \in 1..Len(q) /\ p[k] = q[k + 1]
        /\ \A j \in 1..(k - 1) : p[j] = q[j + 1] /\ j + 1 \in 1..((k + 1) - 1)
    <3>1. k \in Nat \ {0} /\ k <= Len(p) /\ Len(p) = Len(q) - 1 /\ Len(q) \in Nat
      BY <1>1
    <3>2. k + 1 \in 1..Len(q) /\ 1 \in 1..((k + 1) - 1)
      BY <3>1
    <3>3. \A j \in 1..(k - 1) : j \in 1..Len(p) /\ j + 1 \in 1..((k + 1) - 1)
      BY <3>1
    <3> QED
      BY <1>1, <3>2, <3>3
  <2>2. /\ n < Num(p[k], l)
        /\ IsLine(p[k]) => p[k].line <= l
        /\ \A j \in 1..(k - 1) : p[j].cmd = m => Num(p[j], l) < Num(p[k], l)
    BY <2>1 DEF InFlight
  <2>3. CASE Num(p[k], l) = n + 1
    BY <2>2, <2>3
  <2>4. CASE Num(p[k], l) # n + 1
    <3>1. PICK j \in 1..((k + 1) - 1) : q[j].cmd = m /\ Num(q[j], l) = Num(q[k + 1], l) - 1
      BY <2>1, <2>4 DEF InFlight
    <3>2. j # 1 /\ j - 1 \in 1..(k - 1) /\ p[j - 1] = q[j]
      BY <1>1, <2>1, <3>1
    <3>3. p[j - 1].cmd = m /\ Num(p[j - 1], l) = Num(p[k], l) - 1
      BY <2>1, <3>1, <3>2
    <3> QED
      BY <2>2, <3>2, <3>3
  <2> QED
    BY <2>3, <2>4
<1>3. Reached(m, q, n, l) => Reached(m, p, n, l)
  <2> SUFFICES ASSUME NEW k \in 1..Len(q), q[k].cmd = m, Num(q[k], l) = l
               PROVE  Reached(m, p, n, l)
    BY DEF Reached
  <2>1. k - 1 \in 1..Len(p) /\ p[k - 1] = q[k]
    BY <1>1
  <2> QED
    BY <2>1 DEF Reached
<1> QED
  BY <1>2, <1>3 DEF p

(* The next line is sent.                                                  *)
LEMMA AppendLine ==
    ASSUME NEW q \in Seq(UpMessage), NEW msg \in UpMessage, NEW m,
           NEW n \in Nat, NEW l \in Nat,
           msg.cmd = m, IsLine(msg), msg.line = l + 1,
           \A k \in 1..Len(q) : q[k].cmd = m => IsLine(q[k]),
           InFlight(m, q, n, l), Reached(m, q, n, l), n <= l
    PROVE  InFlight(m, Append(q, msg), n, l + 1) /\ Reached(m, Append(q, msg), n, l + 1)
<1> DEFINE p == Append(q, msg)
<1>1. Len(p) = Len(q) + 1 /\ Len(q) \in Nat /\ p[Len(q) + 1] = msg
      /\ \A k \in 1..Len(q) : p[k] = q[k]
  BY AppendFacts, LenProperties
<1>2. \A k \in 1..Len(q) : q[k].cmd = m =>
        Num(q[k], l + 1) = q[k].line /\ Num(q[k], l) = q[k].line /\ q[k].line \in Nat
  BY MessageFacts, CommandsAssumption, ElementOfSeq DEF Num
<1>3. Num(msg, l + 1) = l + 1
  BY DEF Num
<1> HIDE DEF p
<1>4. Reached(m, p, n, l + 1)
  BY <1>1, <1>3 DEF Reached
<1>5. InFlight(m, p, n, l + 1)
  <2> SUFFICES ASSUME NEW k \in 1..Len(p), p[k].cmd = m
               PROVE  /\ n < Num(p[k], l + 1)
                      /\ IsLine(p[k]) => p[k].line <= l + 1
                      /\ \/ Num(p[k], l + 1) = n + 1
                         \/ \E j \in 1..(k - 1) :
                                p[j].cmd = m /\ Num(p[j], l + 1) = Num(p[k], l + 1) - 1
                      /\ \A j \in 1..(k - 1) : p[j].cmd = m => Num(p[j], l + 1) < Num(p[k], l + 1)
    BY DEF InFlight
  <2>1. CASE k \in 1..Len(q)
    <3>1. p[k] = q[k] /\ \A j \in 1..(k - 1) : p[j] = q[j] /\ j \in 1..Len(q)
      BY <1>1, <2>1
    <3>2. /\ n < Num(q[k], l)
          /\ q[k].line <= l
          /\ \/ Num(q[k], l) = n + 1
             \/ \E j \in 1..(k - 1) : q[j].cmd = m /\ Num(q[j], l) = Num(q[k], l) - 1
          /\ \A j \in 1..(k - 1) : q[j].cmd = m => Num(q[j], l) < Num(q[k], l)
      BY <2>1, <3>1 DEF InFlight
    <3>3. \A j \in 1..Len(q) : q[j].cmd = m => Num(q[j], l + 1) = Num(q[j], l)
      BY <1>2
    <3>4. p[k].cmd = m /\ Num(p[k], l + 1) = Num(q[k], l) /\ q[k].line \in Nat
      BY <1>2, <2>1, <3>1, <3>3
    <3>5. /\ n < Num(p[k], l + 1)
          /\ IsLine(p[k]) => p[k].line <= l + 1
      BY <3>1, <3>2, <3>4
    <3>6. \/ Num(p[k], l + 1) = n + 1
          \/ \E j \in 1..(k - 1) :
                p[j].cmd = m /\ Num(p[j], l + 1) = Num(p[k], l + 1) - 1
      BY <3>1, <3>2, <3>3, <3>4
    <3>7. \A j \in 1..(k - 1) : p[j].cmd = m => Num(p[j], l + 1) < Num(p[k], l + 1)
      BY <3>1, <3>2, <3>3, <3>4
    <3> QED
      BY <3>5, <3>6, <3>7
  <2>2. CASE k = Len(q) + 1
    <3>1. p[k] = msg /\ Num(p[k], l + 1) = l + 1 /\ \A j \in 1..(k - 1) : p[j] = q[j] /\ j \in 1..Len(q)
      BY <1>1, <1>3, <2>2
    <3>2. \A j \in 1..Len(q) : q[j].cmd = m => q[j].line <= l
      BY DEF InFlight
    <3>3. \A j \in 1..(k - 1) : p[j].cmd = m => Num(p[j], l + 1) < Num(p[k], l + 1)
      BY <1>2, <3>1, <3>2
    <3>4. \/ Num(p[k], l + 1) = n + 1
          \/ \E j \in 1..(k - 1) : p[j].cmd = m /\ Num(p[j], l + 1) = Num(p[k], l + 1) - 1
      <4>1. CASE l = n
        BY <3>1, <4>1
      <4>2. CASE l # n
        <5>1. PICK j \in 1..Len(q) : q[j].cmd = m /\ Num(q[j], l) = l
          BY <4>2 DEF Reached
        <5>2. j \in 1..(k - 1) /\ p[j].cmd = m /\ Num(p[j], l + 1) = l
          BY <1>1, <1>2, <2>2, <5>1
        <5> QED
          BY <3>1, <5>2
      <4> QED
        BY <4>1, <4>2
    <3> QED
      BY <3>1, <3>3, <3>4
  <2> QED
    BY <1>1, <2>1, <2>2
<1> QED
  BY <1>4, <1>5 DEF p

(* The completion is sent.                                                 *)
LEMMA AppendDone ==
    ASSUME NEW q \in Seq(UpMessage), NEW msg \in UpMessage, NEW m,
           NEW n \in Nat, NEW l \in Nat,
           msg.cmd = m, ~IsLine(msg),
           \A k \in 1..Len(q) : q[k].cmd = m => IsLine(q[k]),
           InFlight(m, q, n, l), Reached(m, q, n, l), n <= l
    PROVE  InFlight(m, Append(q, msg), n, l) /\ Reached(m, Append(q, msg), n, l)
<1> DEFINE p == Append(q, msg)
<1>1. Len(p) = Len(q) + 1 /\ Len(q) \in Nat /\ p[Len(q) + 1] = msg
      /\ \A k \in 1..Len(q) : p[k] = q[k]
  BY AppendFacts, LenProperties
<1>2. \A k \in 1..Len(q) : q[k].cmd = m => Num(q[k], l) = q[k].line /\ q[k].line \in Nat
  BY MessageFacts, CommandsAssumption, ElementOfSeq DEF Num
<1>3. Num(msg, l) = l + 1
  BY DEF Num
<1> HIDE DEF p
<1>4. Reached(m, p, n, l)
  BY <1>1 DEF Reached
<1>5. InFlight(m, p, n, l)
  <2> SUFFICES ASSUME NEW k \in 1..Len(p), p[k].cmd = m
               PROVE  /\ n < Num(p[k], l)
                      /\ IsLine(p[k]) => p[k].line <= l
                      /\ \/ Num(p[k], l) = n + 1
                         \/ \E j \in 1..(k - 1) : p[j].cmd = m /\ Num(p[j], l) = Num(p[k], l) - 1
                      /\ \A j \in 1..(k - 1) : p[j].cmd = m => Num(p[j], l) < Num(p[k], l)
    BY DEF InFlight
  <2>1. CASE k \in 1..Len(q)
    <3>1. p[k] = q[k] /\ \A j \in 1..(k - 1) : p[j] = q[j]
      BY <1>1, <2>1
    <3> QED
      BY <2>1, <3>1 DEF InFlight
  <2>2. CASE k = Len(q) + 1
    <3>1. p[k] = msg /\ Num(p[k], l) = l + 1 /\ \A j \in 1..(k - 1) : p[j] = q[j] /\ j \in 1..Len(q)
      BY <1>1, <1>3, <2>2
    <3>2. \A j \in 1..Len(q) : q[j].cmd = m => q[j].line <= l
      BY DEF InFlight
    <3>3. \A j \in 1..(k - 1) : p[j].cmd = m => Num(p[j], l) < Num(p[k], l)
      BY <1>2, <3>1, <3>2
    <3>4. \/ Num(p[k], l) = n + 1
          \/ \E j \in 1..(k - 1) : p[j].cmd = m /\ Num(p[j], l) = Num(p[k], l) - 1
      <4>1. CASE l = n
        BY <3>1, <4>1
      <4>2. CASE l # n
        <5>1. PICK j \in 1..Len(q) : q[j].cmd = m /\ Num(q[j], l) = l
          BY <4>2 DEF Reached
        <5>2. j \in 1..(k - 1) /\ p[j].cmd = m /\ Num(p[j], l) = l
          BY <1>1, <2>2, <5>1
        <5> QED
          BY <3>1, <5>2
      <4> QED
        BY <4>1, <4>2
    <3> QED
      BY <3>1, <3>3, <3>4
  <2> QED
    BY <1>1, <2>1, <2>2
<1> QED
  BY <1>4, <1>5 DEF p

(* The line at the head of the queue is the next one.                      *)
LEMMA TailLine ==
    ASSUME NEW q \in Seq(UpMessage), q # << >>, NEW m,
           NEW n \in Nat, NEW l \in Nat,
           Head(q).cmd = m, IsLine(Head(q)), InFlight(m, q, n, l)
    PROVE  /\ Head(q).line = n + 1 /\ n + 1 <= l
           /\ InFlight(m, Tail(q), n + 1, l)
           /\ Reached(m, q, n, l) => Reached(m, Tail(q), n + 1, l)
<1> DEFINE p == Tail(q)
<1>1. Len(p) = Len(q) - 1 /\ Len(q) \in Nat \ {0} /\ Head(q) = q[1]
      /\ \A k \in 1..Len(p) : p[k] = q[k + 1]
  BY TailFacts
<1>2. \A k \in 1..Len(q) : Num(q[k], l) \in Nat
  BY NumType, ElementOfSeq
<1> HIDE DEF p
<1>3. q[1].line = n + 1 /\ Num(q[1], l) = n + 1 /\ n + 1 <= l
  BY <1>1 DEF InFlight, Num
<1>4. InFlight(m, p, n + 1, l)
  <2> SUFFICES ASSUME NEW k \in 1..Len(p), p[k].cmd = m
               PROVE  /\ n + 1 < Num(p[k], l)
                      /\ IsLine(p[k]) => p[k].line <= l
                      /\ \/ Num(p[k], l) = n + 1 + 1
                         \/ \E j \in 1..(k - 1) : p[j].cmd = m /\ Num(p[j], l) = Num(p[k], l) - 1
                      /\ \A j \in 1..(k - 1) : p[j].cmd = m => Num(p[j], l) < Num(p[k], l)
    BY DEF InFlight
  <2>1. k + 1 \in 1..Len(q) /\ p[k] = q[k + 1] /\ 1 \in 1..((k + 1) - 1)
        /\ \A j \in 1..(k - 1) : p[j] = q[j + 1] /\ j + 1 \in 1..((k + 1) - 1)
    <3>1. k \in Nat \ {0} /\ k <= Len(p) /\ Len(p) = Len(q) - 1 /\ Len(q) \in Nat
      BY <1>1
    <3>2. k + 1 \in 1..Len(q) /\ 1 \in 1..((k + 1) - 1)
      BY <3>1
    <3>3. \A j \in 1..(k - 1) : j \in 1..Len(p) /\ j + 1 \in 1..((k + 1) - 1)
      BY <3>1
    <3> QED
      BY <1>1, <3>2, <3>3
  <2>2. /\ n + 1 < Num(p[k], l)
        /\ IsLine(p[k]) => p[k].line <= l
        /\ \A j \in 1..(k - 1) : p[j].cmd = m => Num(p[j], l) < Num(p[k], l)
    <3>1. q[k + 1].cmd = m /\ q[1].cmd = m
      BY <1>1, <2>1
    <3>2. /\ IsLine(q[k + 1]) => q[k + 1].line <= l
          /\ \A j \in 1..((k + 1) - 1) : q[j].cmd = m => Num(q[j], l) < Num(q[k + 1], l)
      BY <2>1, <3>1 DEF InFlight
    <3>3. n + 1 < Num(p[k], l)
      BY <1>3, <2>1, <3>1, <3>2
    <3>4. \A j \in 1..(k - 1) : p[j].cmd = m => Num(p[j], l) < Num(p[k], l)
      BY <2>1, <3>2
    <3> QED
      BY <2>1, <3>2, <3>3, <3>4
  <2>3. PICK j \in 1..((k + 1) - 1) : q[j].cmd = m /\ Num(q[j], l) = Num(q[k + 1], l) - 1
    <3>1. Num(q[k + 1], l) # n + 1
      BY <2>1, <2>2
    <3> QED
      BY <2>1, <3>1 DEF InFlight
  <2>4. CASE j = 1
    <3>1. Num(p[k], l) = n + 1 + 1
      <4>1. Num(q[k + 1], l) \in Nat /\ n + 1 = Num(q[k + 1], l) - 1
        BY <1>2, <1>3, <2>1, <2>3, <2>4
      <4>2. Num(q[k + 1], l) = n + 1 + 1
        BY <4>1
      <4> QED
        BY <2>1, <4>2
    <3> QED
      BY <2>2, <3>1
  <2>5. CASE j # 1
    <3>1. j - 1 \in 1..(k - 1) /\ p[j - 1] = q[j]
      BY <1>1, <2>1, <2>5
    <3>2. p[j - 1].cmd = m /\ Num(p[j - 1], l) = Num(p[k], l) - 1
      BY <2>1, <2>3, <3>1
    <3> QED
      BY <2>2, <3>1, <3>2
  <2> QED
    BY <2>4, <2>5
<1>5. ASSUME Reached(m, q, n, l) PROVE Reached(m, p, n + 1, l)
  <2>1. PICK k \in 1..Len(q) : q[k].cmd = m /\ Num(q[k], l) = l
    BY <1>3, <1>5 DEF Reached
  <2>2. CASE k = 1
    BY <1>3, <2>1, <2>2 DEF Reached
  <2>3. CASE k # 1
    <3>1. k - 1 \in 1..Len(p) /\ p[k - 1] = q[k]
      BY <1>1, <2>3
    <3> QED
      BY <2>1, <3>1 DEF Reached
  <2> QED
    BY <2>2, <2>3
<1> QED
  BY <1>1, <1>3, <1>4, <1>5 DEF p

(* A completion at the head of the queue is the last message, and every    *)
(* line has been received.                                                 *)
LEMMA TailDone ==
    ASSUME NEW q \in Seq(UpMessage), q # << >>, NEW m,
           NEW n \in Nat, NEW l \in Nat,
           Head(q).cmd = m, ~IsLine(Head(q)), InFlight(m, q, n, l)
    PROVE  l = n /\ \A k \in 1..Len(Tail(q)) : Tail(q)[k].cmd # m
<1>1. Len(Tail(q)) = Len(q) - 1 /\ Len(q) \in Nat \ {0} /\ Head(q) = q[1]
      /\ \A k \in 1..Len(Tail(q)) : Tail(q)[k] = q[k + 1]
  BY TailFacts
<1>2. Num(q[1], l) = l + 1
  BY <1>1 DEF Num
<1>3. l = n
  <2>1. Num(q[1], l) = n + 1
    BY <1>1 DEF InFlight
  <2> QED
    BY <1>2, <2>1
<1>4. ASSUME NEW k \in 1..Len(Tail(q)), Tail(q)[k].cmd = m
      PROVE  FALSE
  <2>1. k + 1 \in 1..Len(q) /\ q[k + 1].cmd = m /\ 1 \in 1..((k + 1) - 1)
    BY <1>1, <1>4
  <2>2. l + 1 < Num(q[k + 1], l)
    BY <1>1, <1>2, <2>1 DEF InFlight
  <2>3. IsLine(q[k + 1]) => q[k + 1].line <= l
    BY <2>1 DEF InFlight
  <2>4. q[k + 1] \in UpMessage
    BY <2>1, ElementOfSeq
  <2> QED
    BY <2>2, <2>3, <2>4, MessageFacts, CommandsAssumption DEF Num
<1> QED
  BY <1>3, <1>4

-----------------------------------------------------------------------------
(* What TypeOK says, and what a step that does not concern a command keeps.*)

Runner == [pc : {"off", "running", "ended", "killed"},
           conn : Conns \cup {NoConn}, lines : 0..MaxLines]

LEMMA TypeFacts ==
    ASSUME TypeOK, NEW m \in Cmds
    PROVE  /\ sess[m] \in Session /\ sess[m].out \in Seq(1..MaxLines)
           /\ Len(sess[m].out) \in Nat
           /\ run[m] \in Runner /\ run[m].lines \in Nat /\ run[m].conn \in Nat
           /\ \A c \in Conns : up[c] \in Seq(UpMessage) /\ Len(up[c]) \in Nat
<1>1. sess[m] \in Session /\ run[m] \in Runner
  BY DEF TypeOK, Runner
<1>2. sess[m].out \in Seq(1..MaxLines) /\ run[m].lines \in Nat /\ run[m].conn \in Nat
  BY <1>1, CommandsAssumption DEF Session, Runner, Conns, NoConn
<1>3. \A c \in Conns : up[c] \in Seq(UpMessage)
  BY DEF TypeOK
<1> QED
  BY <1>1, <1>2, <1>3, LenProperties

LEMMA CmdKept ==
    ASSUME TypeOK, NEW m \in Cmds, CmdInv(m), nconn' \in Nat, nconn \in Nat, nconn <= nconn',
           sess'[m] = sess[m],
           run'[m].conn = run[m].conn, run'[m].lines = run[m].lines,
           run'[m].pc # run[m].pc => run[m].pc = "running" /\ run'[m].pc = "killed",
           post'[m] \in {"off", "create", "send"} => post[m] \in {"off", "create", "send"},
           \A c \in Conns : up'[c] \in {up[c], << >>},
           run[m].conn \in open' => run[m].conn \in open /\ up'[run[m].conn] = up[run[m].conn]
    PROVE  CmdInv(m)'
<1>1. RunInv(m)'
  BY TypeFacts DEF CmdInv, RunInv
<1>2. UpInv(m)'
  <2> SUFFICES ASSUME NEW c \in Conns, NEW k \in 1..Len(up'[c]), up'[c][k].cmd = m
               PROVE  /\ c = run'[m].conn
                      /\ run'[m].pc # "off"
                      /\ IsLine(up'[c][k]) \/ run'[m].pc = "ended"
                      /\ sess'[m].state # "done"
    BY DEF UpInv
  <2>1. up'[c] = up[c]
    <3>1. up'[c] # << >>
      OBVIOUS
    <3> QED
      BY <3>1
  <2> QED
    BY <2>1 DEF CmdInv, UpInv
<1>3. SessInv(m)'
  BY DEF CmdInv, SessInv
<1>4. FlowInv(m)'
  <2> SUFFICES ASSUME sess[m].state # "absent"
               PROVE  /\ \A c \in Conns : InFlight(m, up'[c], Len(sess[m].out), run[m].lines)
                      /\ run'[m].pc # "off" /\ run[m].conn \in open' =>
                            Reached(m, up'[run[m].conn], Len(sess[m].out), run[m].lines)
    BY DEF FlowInv
  <2>1. ASSUME NEW c \in Conns
        PROVE  InFlight(m, up'[c], Len(sess[m].out), run[m].lines)
    <3>1. CASE up'[c] = up[c]
      BY <3>1 DEF CmdInv, FlowInv
    <3>2. CASE up'[c] = << >>
      BY <3>2 DEF InFlight
    <3> QED
      BY <2>1, <3>1, <3>2
  <2>2. ASSUME run'[m].pc # "off", run[m].conn \in open'
        PROVE  Reached(m, up'[run[m].conn], Len(sess[m].out), run[m].lines)
    BY <2>2 DEF CmdInv, FlowInv
  <2> QED
    BY <2>1, <2>2
<1> QED
  BY <1>1, <1>2, <1>3, <1>4 DEF CmdInv

(* A message of another command is sent or received.                       *)
LEMMA OthersMove ==
    ASSUME TypeOK, NEW m \in Cmds, CmdInv(m),
           sess'[m] = sess[m], run'[m] = run[m], UNCHANGED <<post, nconn, open>>,
           NEW c \in Conns, \A d \in Conns \ {c} : up'[d] = up[d],
           \/ \E msg \in UpMessage : msg.cmd # m /\ up'[c] = Append(up[c], msg)
           \/ up[c] # << >> /\ Head(up[c]).cmd # m /\ up'[c] = Tail(up[c])
    PROVE  CmdInv(m)'
<1> DEFINE n == Len(sess[m].out)
           l == run[m].lines
<1>1. n \in Nat /\ l \in Nat /\ up[c] \in Seq(UpMessage)
  BY TypeFacts
<1>2. /\ InFlight(m, up[c], n, l) => InFlight(m, up'[c], n, l)
      /\ Reached(m, up[c], n, l) => Reached(m, up'[c], n, l)
  BY <1>1, AppendOther, TailOther
<1>3. \A k \in 1..Len(up'[c]) : up'[c][k].cmd = m =>
            \E j \in 1..Len(up[c]) : up'[c][k] = up[c][j]
  <2>1. CASE \E msg \in UpMessage : msg.cmd # m /\ up'[c] = Append(up[c], msg)
    <3>1. PICK msg \in UpMessage : msg.cmd # m /\ up'[c] = Append(up[c], msg)
      BY <2>1
    <3> QED
      BY <1>1, <3>1, AppendFacts, LenProperties
  <2>2. CASE up[c] # << >> /\ up'[c] = Tail(up[c])
    <3>1. \A k \in 1..Len(up'[c]) : k + 1 \in 1..Len(up[c]) /\ up'[c][k] = up[c][k + 1]
      BY <1>1, <2>2, TailFacts
    <3> QED
      BY <3>1
  <2> QED
    BY <2>1, <2>2
<1>4. RunInv(m)' /\ SessInv(m)'
  BY DEF CmdInv, RunInv, SessInv
<1>5. UpInv(m)'
  <2> SUFFICES ASSUME NEW d \in Conns, NEW k \in 1..Len(up'[d]), up'[d][k].cmd = m
               PROVE  /\ d = run[m].conn
                      /\ run[m].pc # "off"
                      /\ IsLine(up'[d][k]) \/ run[m].pc = "ended"
                      /\ sess[m].state # "done"
    BY DEF UpInv
  <2>1. PICK j \in 1..Len(up[d]) : up'[d][k] = up[d][j]
    BY <1>3
  <2> QED
    BY <2>1 DEF CmdInv, UpInv
<1>6. FlowInv(m)'
  <2> SUFFICES ASSUME sess[m].state # "absent"
               PROVE  /\ \A d \in Conns : InFlight(m, up'[d], n, l)
                      /\ run[m].pc # "off" /\ run[m].conn \in open =>
                            Reached(m, up'[run[m].conn], n, l)
    BY DEF FlowInv
  <2>1. \A d \in Conns : InFlight(m, up[d], n, l)
    BY DEF CmdInv, FlowInv
  <2>2. ASSUME run[m].pc # "off", run[m].conn \in open
        PROVE  Reached(m, up'[run[m].conn], n, l)
    <3>1. Reached(m, up[run[m].conn], n, l) /\ run[m].conn \in Conns
      BY <2>2 DEF CmdInv, FlowInv, TypeOK
    <3> QED
      BY <1>2, <3>1
  <2> QED
    BY <1>2, <2>1, <2>2
<1> QED
  BY <1>4, <1>5, <1>6 DEF CmdInv

LEMMA DownKept ==
    ASSUME DownInv, TypeOK,
           \A c \in Conns : down'[c] \in {down[c], << >>},
           \A m \in Cmds : run[m].pc = "off" /\ post[m] = "accepted" =>
                           run'[m].pc = "off" /\ post'[m] = "accepted"
    PROVE  DownInv'
<1> SUFFICES ASSUME NEW c \in Conns, NEW k \in 1..Len(down'[c])
             PROVE  /\ run'[down'[c][k]].pc = "off"
                    /\ post'[down'[c][k]] = "accepted"
                    /\ \A d \in Conns : \A j \in 1..Len(down'[d]) :
                            down'[d][j] = down'[c][k] => d = c /\ j = k
  BY DEF DownInv
<1>1. down'[c] = down[c] /\ k \in 1..Len(down[c])
  <2>1. down'[c] # << >>
    OBVIOUS
  <2> QED
    BY <2>1
<1>2. down[c][k] \in Cmds
  BY <1>1, ElementOfSeq DEF TypeOK
<1>3. \A d \in Conns : \A j \in 1..Len(down'[d]) : down'[d] = down[d]
  <2> TAKE d \in Conns
  <2> TAKE j \in 1..Len(down'[d])
  <2>1. down'[d] # << >>
    OBVIOUS
  <2> QED
    BY <2>1
<1>4. /\ run[down[c][k]].pc = "off"
      /\ post[down[c][k]] = "accepted"
      /\ \A d \in Conns : \A j \in 1..Len(down[d]) : down[d][j] = down[c][k] => d = c /\ j = k
  BY <1>1 DEF DownInv
<1> QED
  BY <1>1, <1>2, <1>3, <1>4

-----------------------------------------------------------------------------
(* HandleCommand.                                                          *)

LEMMA Numbers ==
    ASSUME TypeOK
    PROVE  nconn \in Nat /\ nconn <= MaxConns /\ cur \in Nat
           /\ \A c \in Conns : c \in Nat /\ c # NoConn
BY CommandsAssumption DEF TypeOK, Conns, NoConn

LEMMA PostCheckPreserves ==
    ASSUME IndInv, NEW m \in Cmds, PostCheck(m)
    PROVE  IndInv'
<1>1. /\ post[m] = "off" /\ post' = [post EXCEPT ![m] = IF hub = NoConn THEN "refused" ELSE "create"]
      /\ UNCHANGED <<sess, hub, served, open, down, up, cur, nconn, run>>
  BY DEF PostCheck, wire
<1>2. TypeOK'
  BY <1>1 DEF IndInv, TypeOK
<1>3. DownInv'
  <2>1. \A d \in Cmds : run[d].pc = "off" /\ post[d] = "accepted" => post'[d] = "accepted"
    BY <1>1 DEF IndInv, TypeOK
  <2> QED
    BY <1>1, <2>1, DownKept DEF IndInv
<1>4. ASSUME NEW d \in Cmds PROVE CmdInv(d)'
  <2>1. post'[d] \in {"off", "create", "send"} => post[d] \in {"off", "create", "send"}
    BY <1>1 DEF IndInv, TypeOK
  <2> QED
    BY <1>1, <2>1, CmdKept, Numbers DEF IndInv
<1> QED
  BY <1>1, <1>2, <1>3, <1>4 DEF IndInv

(* The session is made while the command is nowhere to be seen.            *)
LEMMA PostCreatePreserves ==
    ASSUME IndInv, NEW m \in Cmds, PostCreate(m)
    PROVE  IndInv'
<1>1. /\ post[m] = "create" /\ post' = [post EXCEPT ![m] = "send"]
      /\ sess' = [sess EXCEPT ![m] = [state |-> "open", out |-> << >>]]
      /\ UNCHANGED <<hub, served, open, down, up, cur, nconn, run>>
  BY DEF PostCreate, wire
<1>2. [state |-> "open", out |-> << >>] \in Session
  BY DEF Session
<1>3. TypeOK'
  BY <1>1, <1>2 DEF IndInv, TypeOK
<1>4. DownInv'
  <2>1. \A d \in Cmds : run[d].pc = "off" /\ post[d] = "accepted" => post'[d] = "accepted"
    BY <1>1 DEF IndInv, TypeOK
  <2> QED
    BY <1>1, <2>1, DownKept DEF IndInv
<1>5. ASSUME NEW d \in Cmds PROVE CmdInv(d)'
  <2>1. CASE d # m
    <3>1. post'[d] = post[d] /\ sess'[d] = sess[d]
      BY <1>1, <2>1 DEF IndInv, TypeOK
    <3> QED
      BY <1>1, <3>1, CmdKept, Numbers DEF IndInv
  <2>2. CASE d = m
    <3>1. post'[m] = "send" /\ sess'[m] = [state |-> "open", out |-> << >>]
      BY <1>1 DEF IndInv, TypeOK
    <3>2. run[m].pc = "off" /\ run[m].lines = 0 /\ RunInv(m) /\ UpInv(m)
      BY <1>1 DEF IndInv, CmdInv, RunInv
    <3>3. RunInv(m)'
      BY <1>1, <3>2 DEF RunInv
    <3>4. UpInv(m)'
      BY <1>1, <3>2 DEF UpInv
    <3>5. SessInv(m)'
      BY <1>1, <3>1, <3>2 DEF SessInv
    <3>6. FlowInv(m)'
      BY <1>1, <3>2 DEF FlowInv, InFlight, UpInv
    <3> QED
      BY <2>2, <3>3, <3>4, <3>5, <3>6 DEF CmdInv
  <2> QED
    BY <2>1, <2>2
<1> QED
  BY <1>1, <1>3, <1>4, <1>5 DEF IndInv

LEMMA PostSendPreserves ==
    ASSUME IndInv, NEW m \in Cmds, PostSend(m)
    PROVE  IndInv'
<1>1. /\ post[m] = "send" /\ run[m].pc = "off"
      /\ UNCHANGED <<sess, hub, served, open, up, cur, nconn, run>>
  BY DEF PostSend, IndInv, CmdInv, RunInv
<1>2. /\ \A d \in Cmds \ {m} : post'[d] = post[d]
      /\ post'[m] \in {"accepted", "refused"}
      /\ post' \in [Cmds -> {"off", "create", "send", "accepted", "refused", "lost"}]
  BY DEF PostSend, IndInv, TypeOK
<1>3. ASSUME NEW d \in Cmds PROVE CmdInv(d)'
  <2>1. post'[d] \in {"off", "create", "send"} => post[d] \in {"off", "create", "send"}
    BY <1>2
  <2> QED
    BY <1>1, <2>1, CmdKept, Numbers DEF IndInv
<1>4. CASE down' = down
  <2>1. TypeOK'
    BY <1>1, <1>2, <1>4 DEF IndInv, TypeOK
  <2>2. DownInv'
    BY <1>1, <1>2, <1>4, DownKept DEF IndInv
  <2> QED
    BY <1>1, <1>3, <2>1, <2>2 DEF IndInv
<1>5. CASE down' # down
  <2>1. /\ hub \in Conns /\ Len(down[hub]) < OutboxCap
        /\ down' = [down EXCEPT ![hub] = Append(@, m)]
        /\ post'[m] = "accepted"
    BY <1>5 DEF PostSend, IndInv, TypeOK
  <2>2. /\ down[hub] \in Seq(Cmds)
        /\ down'[hub] = Append(down[hub], m)
        /\ \A c \in Conns \ {hub} : down'[c] = down[c]
    BY <2>1 DEF IndInv, TypeOK
  <2>3. /\ down'[hub] \in Seq(Cmds) /\ Len(down[hub]) \in Nat
        /\ Len(down'[hub]) = Len(down[hub]) + 1
        /\ \A k \in 1..Len(down[hub]) : down'[hub][k] = down[hub][k]
        /\ down'[hub][Len(down[hub]) + 1] = m
    BY <2>2, AppendFacts, LenProperties
  <2>4. TypeOK'
    <3>1. down' \in [Conns -> Seq(Cmds)]
      BY <2>1, <2>2, <2>3 DEF IndInv, TypeOK
    <3>2. \A c \in Conns : Len(down'[c]) <= OutboxCap
      BY <2>1, <2>2, <2>3, CommandsAssumption DEF IndInv, TypeOK
    <3> QED
      BY <1>1, <1>2, <3>1, <3>2 DEF IndInv, TypeOK
  <2>5. \A c \in Conns : \A k \in 1..Len(down[c]) : down[c][k] # m
    BY <1>1 DEF IndInv, DownInv
  <2>6. \A c \in Conns : \A k \in 1..Len(down'[c]) :
            \/ k \in 1..Len(down[c]) /\ down'[c][k] = down[c][k] /\ down[c][k] \in Cmds \ {m}
            \/ c = hub /\ k = Len(down[hub]) + 1 /\ down'[c][k] = m
    <3> TAKE c \in Conns
    <3> TAKE k \in 1..Len(down'[c])
    <3>1. \A j \in 1..Len(down[c]) : down[c][j] \in Cmds
      BY ElementOfSeq DEF IndInv, TypeOK
    <3>2. CASE c # hub
      BY <2>2, <2>5, <3>1, <3>2
    <3>3. CASE c = hub
      BY <2>3, <2>5, <3>1, <3>3
    <3> QED
      BY <3>2, <3>3
  <2>7. DownInv'
    <3> SUFFICES ASSUME NEW c \in Conns, NEW k \in 1..Len(down'[c])
                 PROVE  /\ run[down'[c][k]].pc = "off"
                        /\ post'[down'[c][k]] = "accepted"
                        /\ \A d \in Conns : \A j \in 1..Len(down'[d]) :
                                down'[d][j] = down'[c][k] => d = c /\ j = k
      BY <1>1 DEF DownInv
    <3>1. CASE k \in 1..Len(down[c]) /\ down'[c][k] = down[c][k] /\ down[c][k] \in Cmds \ {m}
      <4>1. /\ run[down[c][k]].pc = "off" /\ post[down[c][k]] = "accepted"
            /\ \A d \in Conns : \A j \in 1..Len(down[d]) :
                    down[d][j] = down[c][k] => d = c /\ j = k
        BY <3>1 DEF IndInv, DownInv
      <4> QED
        BY <1>2, <2>6, <3>1, <4>1
    <3>2. CASE c = hub /\ k = Len(down[hub]) + 1 /\ down'[c][k] = m
      <4>1. run[down'[c][k]].pc = "off" /\ post'[down'[c][k]] = "accepted"
        BY <1>1, <2>1, <3>2
      <4>2. ASSUME NEW d \in Conns, NEW j \in 1..Len(down'[d]), down'[d][j] = down'[c][k]
            PROVE  d = c /\ j = k
        BY <2>6, <3>2, <4>2
      <4> QED
        BY <4>1, <4>2
    <3> QED
      BY <2>6, <3>1, <3>2
  <2> QED
    BY <1>1, <1>3, <2>4, <2>7 DEF IndInv
<1> QED
  BY <1>4, <1>5

-----------------------------------------------------------------------------
(* The agent.                                                              *)

(* A command taken from the connection has not been run, and is not sent   *)
(* a second time.                                                          *)
LEMMA ReceiveCommandPreserves ==
    ASSUME IndInv, ReceiveCommand
    PROVE  IndInv'
<1>0. PICK b \in Conns : b = cur
  BY DEF ReceiveCommand, IndInv, TypeOK
<1>1. /\ b = cur /\ down[b] # << >>
      /\ run' = [run EXCEPT ![Head(down[b])] = [pc |-> "running", conn |-> b, lines |-> 0]]
      /\ down' = [down EXCEPT ![b] = Tail(@)]
      /\ UNCHANGED <<post, sess, hub, served, open, up, cur, nconn>>
  BY <1>0 DEF ReceiveCommand
<1>2. /\ down[b] \in Seq(Cmds)
      /\ down'[b] = Tail(down[b])
      /\ \A c \in Conns \ {b} : down'[c] = down[c]
  BY <1>1 DEF IndInv, TypeOK
<1>3. PICK m \in Cmds : m = Head(down[b])
  BY <1>1, <1>2, TailFacts
<1>4. /\ down'[b] \in Seq(Cmds) /\ Len(down[b]) \in Nat \ {0}
      /\ Len(down'[b]) = Len(down[b]) - 1
      /\ \A k \in 1..Len(down'[b]) : down'[b][k] = down[b][k + 1]
      /\ m = down[b][1]
  <2>1. PICK p : p = down'[b] /\ p = Tail(down[b])
    BY <1>2
  <2>2. /\ p \in Seq(Cmds) /\ Len(down[b]) \in Nat \ {0}
        /\ Len(p) = Len(down[b]) - 1
        /\ \A k \in 1..Len(p) : p[k] = down[b][k + 1]
        /\ m = down[b][1]
    BY <1>1, <1>2, <1>3, <2>1, TailFacts
  <2> QED
    BY <2>1, <2>2
<1> DEFINE r == [pc |-> "running", conn |-> b, lines |-> 0]
<1>a. r \in Runner /\ r.pc = "running" /\ r.conn = b /\ r.lines = 0
  BY CommandsAssumption DEF Runner
<1> HIDE DEF r
<1>5. run' \in [Cmds -> Runner] /\ run'[m] = r /\ \A d \in Cmds \ {m} : run'[d] = run[d]
  BY <1>1, <1>3, <1>a DEF IndInv, TypeOK, Runner, r
<1>6. TypeOK'
  <2>1. down' \in [Conns -> Seq(Cmds)]
    BY <1>1, <1>2, <1>4 DEF IndInv, TypeOK
  <2>2. \A c \in Conns : Len(down'[c]) <= OutboxCap
    BY <1>1, <1>2, <1>4, CommandsAssumption DEF IndInv, TypeOK
  <2> QED
    BY <1>1, <1>5, <2>1, <2>2 DEF IndInv, TypeOK, Runner
<1>7. \A c \in Conns : \A k \in 1..Len(down'[c]) :
        \E j \in 1..Len(down[c]) :
            /\ down'[c][k] = down[c][j] /\ down[c][j] \in Cmds \ {m}
            /\ j = IF c = b THEN k + 1 ELSE k
  <2> SUFFICES ASSUME NEW c \in Conns, NEW k \in 1..Len(down'[c])
               PROVE  \E j \in 1..Len(down[c]) :
                        /\ down'[c][k] = down[c][j] /\ down[c][j] \in Cmds \ {m}
                        /\ j = IF c = b THEN k + 1 ELSE k
    OBVIOUS
  <2>1. \A j \in 1..Len(down[c]) : down[c][j] \in Cmds
    BY ElementOfSeq DEF IndInv, TypeOK
  <2>2. \A j \in 1..Len(down[c]) : down[c][j] = m => c = b /\ j = 1
    <3>1. 1 \in 1..Len(down[b])
      BY <1>4
    <3> QED
      BY <1>1, <1>4, <3>1 DEF IndInv, DownInv
  <2>3. CASE c = b
    <3>1. k + 1 \in 1..Len(down[b]) /\ k + 1 # 1 /\ down'[c][k] = down[c][k + 1]
      BY <1>4, <2>3
    <3> QED
      BY <2>1, <2>2, <2>3, <3>1
  <2>4. CASE c # b
    BY <1>2, <2>1, <2>2, <2>4
  <2> QED
    BY <2>3, <2>4
<1>8. DownInv'
  <2> SUFFICES ASSUME NEW c \in Conns, NEW k \in 1..Len(down'[c])
               PROVE  /\ run'[down'[c][k]].pc = "off"
                      /\ post'[down'[c][k]] = "accepted"
                      /\ \A d \in Conns : \A j \in 1..Len(down'[d]) :
                              down'[d][j] = down'[c][k] => d = c /\ j = k
    BY DEF DownInv
  <2>1. PICK i \in 1..Len(down[c]) :
            /\ down'[c][k] = down[c][i] /\ down[c][i] \in Cmds \ {m}
            /\ i = IF c = b THEN k + 1 ELSE k
    BY <1>7
  <2>2. /\ run[down[c][i]].pc = "off" /\ post[down[c][i]] = "accepted"
        /\ \A d \in Conns : \A j \in 1..Len(down[d]) :
                down[d][j] = down[c][i] => d = c /\ j = i
    BY <2>1 DEF IndInv, DownInv
  <2>3. ASSUME NEW d \in Conns, NEW j \in 1..Len(down'[d]), down'[d][j] = down'[c][k]
        PROVE  d = c /\ j = k
    <3>1. PICK h \in 1..Len(down[d]) :
            /\ down'[d][j] = down[d][h]
            /\ h = IF d = b THEN j + 1 ELSE j
      BY <1>7
    <3>2. d = c /\ h = i
      BY <2>1, <2>2, <2>3, <3>1
    <3> QED
      BY <2>1, <3>1, <3>2
  <2>4. post' = post
    BY <1>1
  <2> QED
    BY <1>5, <2>1, <2>2, <2>3, <2>4
<1>9. ASSUME NEW d \in Cmds PROVE CmdInv(d)'
  <2>1. CASE d # m
    BY <1>1, <1>5, <2>1, CmdKept, Numbers DEF IndInv
  <2>2. CASE d = m
    <3>1. run[m].pc = "off" /\ post[m] = "accepted"
      BY <1>1, <1>4 DEF IndInv, DownInv
    <3>2. RunInv(m) /\ UpInv(m) /\ SessInv(m)
      BY <1>4 DEF IndInv, CmdInv
    <3>3. \A c \in Conns : \A k \in 1..Len(up[c]) : up[c][k].cmd # m
      BY <3>1, <3>2 DEF UpInv
    <3>4. RunInv(m)'
      BY <1>1, <1>a, <1>5, <3>1 DEF RunInv, IndInv
    <3>5. UpInv(m)'
      BY <1>1, <3>3 DEF UpInv
    <3>6. Len(sess[m].out) = 0 /\ sess[m].state # "done"
      <4>1. Len(sess[m].out) <= 0 /\ Len(sess[m].out) \in Nat /\ sess[m].state # "done"
        BY <1>4, <3>1, <3>2, TypeFacts DEF SessInv, RunInv, IndInv
      <4> QED
        BY <4>1
    <3>7. SessInv(m)'
      BY <1>1, <1>a, <1>5, <3>2, <3>6 DEF SessInv
    <3>8. FlowInv(m)'
      BY <1>1, <1>a, <1>5, <3>3, <3>6 DEF FlowInv, InFlight, Reached
    <3> QED
      BY <2>2, <3>4, <3>5, <3>7, <3>8 DEF CmdInv
  <2> QED
    BY <2>1, <2>2
<1> QED
  BY <1>1, <1>6, <1>8, <1>9 DEF IndInv

(* What a running command sends goes onto its connection, if that works.   *)
LEMMA SendUpFacts ==
    ASSUME TypeOK, NEW m \in Cmds, NEW msg \in UpMessage, SendUp(m, msg)
    PROVE  /\ up' \in [Conns -> Seq(UpMessage)]
           /\ \/ run[m].conn \notin open /\ up' = up
              \/ /\ run[m].conn \in open /\ run[m].conn \in Conns
                 /\ up'[run[m].conn] = Append(up[run[m].conn], msg)
                 /\ \A d \in Conns \ {run[m].conn} : up'[d] = up[d]
BY DEF SendUp, TypeOK

LEMMA ExecutePreserves ==
    ASSUME IndInv, NEW m \in Cmds, NEW msg \in UpMessage, msg.cmd = m, SendUp(m, msg),
           run[m].pc = "running",
           run'[m] \in Runner, \A d \in Cmds \ {m} : run'[d] = run[d],
           run' \in [Cmds -> Runner], run'[m].conn = run[m].conn,
           UNCHANGED <<post, sess, hub, served, open, down, cur, nconn>>,
           \/ /\ IsLine(msg) /\ msg.line = run[m].lines + 1
              /\ run'[m].lines = run[m].lines + 1 /\ run'[m].pc = "running"
           \/ ~IsLine(msg) /\ run'[m].lines = run[m].lines /\ run'[m].pc = "ended"
    PROVE  IndInv'
<1> DEFINE c == run[m].conn
           n == Len(sess[m].out)
           l == run[m].lines
<1>1. TypeOK'
  BY SendUpFacts DEF IndInv, TypeOK, Runner
<1>2. DownInv'
  BY DownKept DEF IndInv
<1>3. ASSUME NEW d \in Cmds, d # m PROVE CmdInv(d)'
  <2>1. CASE up' = up
    BY <1>3, <2>1, CmdKept, Numbers DEF IndInv
  <2>2. CASE up' # up
    <3>1. c \in Conns /\ up'[c] = Append(up[c], msg) /\ \A e \in Conns \ {c} : up'[e] = up[e]
      BY <2>2, SendUpFacts DEF IndInv
    <3> HIDE DEF c
    <3> QED
      BY <1>3, <3>1, OthersMove DEF IndInv
  <2> QED
    BY <2>1, <2>2
<1>4. CmdInv(m)'
  <2>1. RunInv(m) /\ UpInv(m) /\ SessInv(m) /\ FlowInv(m)
    BY DEF IndInv, CmdInv
  <2>2. n \in Nat /\ l \in Nat /\ (c \in Conns => up[c] \in Seq(UpMessage))
    BY TypeFacts DEF IndInv
  <2>3. RunInv(m)'
    BY <2>1 DEF RunInv
  <2>4. n <= l /\ sess[m].state # "done"
    BY <2>1 DEF SessInv
  <2>5. SessInv(m)'
    <3>1. n <= run'[m].lines
      BY <2>2, <2>4
    <3> QED
      BY <2>1, <2>4, <3>1 DEF SessInv
  <2>6. \A d \in Conns : \A k \in 1..Len(up[d]) : up[d][k].cmd = m => d = c /\ IsLine(up[d][k])
    BY <2>1 DEF UpInv
  <2>7. UpInv(m)'
    <3> SUFFICES ASSUME NEW d \in Conns, NEW k \in 1..Len(up'[d]), up'[d][k].cmd = m
                 PROVE  d = c /\ (IsLine(up'[d][k]) \/ run'[m].pc = "ended")
      BY <2>4 DEF UpInv
    <3>1. CASE up'[d] = up[d]
      BY <2>6, <3>1
    <3>2. CASE up'[d] # up[d]
      <4>1. d = c /\ up'[d] = Append(up[d], msg) /\ up[d] \in Seq(UpMessage)
        BY <3>2, <2>2, SendUpFacts DEF IndInv
      <4>2. (k \in 1..Len(up[d]) /\ up'[d][k] = up[d][k]) \/ up'[d][k] = msg
        BY <4>1, AppendFacts, LenProperties
      <4> QED
        BY <2>6, <4>1, <4>2
    <3> QED
      BY <3>1, <3>2
  <2>8. FlowInv(m)'
    <3> SUFFICES ASSUME sess[m].state # "absent"
                 PROVE  /\ \A d \in Conns : InFlight(m, up'[d], n, run'[m].lines)
                        /\ c \in open => Reached(m, up'[c], n, run'[m].lines)
      BY DEF FlowInv
    <3>1. /\ \A d \in Conns : InFlight(m, up[d], n, l)
          /\ c \in open => Reached(m, up[c], n, l)
      BY <2>1 DEF FlowInv
    <3>2. ASSUME NEW d \in Conns, up'[d] = up[d]
          PROVE  InFlight(m, up'[d], n, run'[m].lines)
      <4>1. InFlight(m, up[d], n, l)
        BY <3>1
      <4>2. ASSUME NEW k \in 1..Len(up[d]), up[d][k].cmd = m
            PROVE  /\ Num(up[d][k], l) = up[d][k].line
                   /\ Num(up[d][k], run'[m].lines) = up[d][k].line
                   /\ up[d][k].line \in Nat
        BY <2>6, <4>2, MessageFacts, CommandsAssumption, ElementOfSeq, TypeFacts
           DEF Num, IndInv
      <4>3. ASSUME NEW k \in 1..Len(up[d]), up[d][k].cmd = m
            PROVE  \A j \in 1..(k - 1) : j \in 1..Len(up[d])
        <5>1. Len(up[d]) \in Nat
          BY TypeFacts DEF IndInv
        <5> QED
          BY <5>1
      <4>4. InFlight(m, up[d], n, run'[m].lines)
        <5> SUFFICES ASSUME NEW k \in 1..Len(up[d]), up[d][k].cmd = m
                     PROVE  /\ n < Num(up[d][k], run'[m].lines)
                            /\ IsLine(up[d][k]) => up[d][k].line <= run'[m].lines
                            /\ \/ Num(up[d][k], run'[m].lines) = n + 1
                               \/ \E j \in 1..(k - 1) : up[d][j].cmd = m /\
                                    Num(up[d][j], run'[m].lines) = Num(up[d][k], run'[m].lines) - 1
                            /\ \A j \in 1..(k - 1) : up[d][j].cmd = m =>
                                    Num(up[d][j], run'[m].lines) < Num(up[d][k], run'[m].lines)
          BY DEF InFlight
        <5>1. /\ n < Num(up[d][k], l)
              /\ IsLine(up[d][k]) => up[d][k].line <= l
              /\ \/ Num(up[d][k], l) = n + 1
                 \/ \E j \in 1..(k - 1) : up[d][j].cmd = m /\ Num(up[d][j], l) = Num(up[d][k], l) - 1
              /\ \A j \in 1..(k - 1) : up[d][j].cmd = m => Num(up[d][j], l) < Num(up[d][k], l)
          BY <4>1 DEF InFlight
        <5>2. l <= run'[m].lines /\ run'[m].lines \in Nat
          BY <2>2
        <5> HIDE DEF n, l
        <5> QED
          BY <2>2, <4>2, <4>3, <5>1, <5>2
      <4> QED
        BY <3>2, <4>4
    <3>3. CASE c \notin open
      <4>1. up' = up
        BY <3>3, SendUpFacts DEF IndInv
      <4> QED
        BY <3>2, <3>3, <4>1
    <3>4. CASE c \in open
      <4>1. /\ c \in Conns /\ up[c] \in Seq(UpMessage)
            /\ up'[c] = Append(up[c], msg)
            /\ \A d \in Conns \ {c} : up'[d] = up[d]
        BY <3>4, <2>2, SendUpFacts DEF IndInv
      <4>2. \A k \in 1..Len(up[c]) : up[c][k].cmd = m => IsLine(up[c][k])
        BY <2>6, <4>1
      <4>3. InFlight(m, up[c], n, l) /\ Reached(m, up[c], n, l)
        BY <3>1, <3>4, <4>1
      <4>4. InFlight(m, up'[c], n, run'[m].lines) /\ Reached(m, up'[c], n, run'[m].lines)
        <5> HIDE DEF n, l, c
        <5>1. CASE IsLine(msg) /\ msg.line = l + 1 /\ run'[m].lines = l + 1
          BY <2>2, <2>4, <4>1, <4>2, <4>3, <5>1, AppendLine
        <5>2. CASE ~IsLine(msg) /\ run'[m].lines = l
          BY <2>2, <2>4, <4>1, <4>2, <4>3, <5>2, AppendDone
        <5> QED
          BY <5>1, <5>2 DEF l
      <4> QED
        BY <3>2, <4>1, <4>4
    <3> QED
      BY <3>3, <3>4
  <2> QED
    BY <2>3, <2>5, <2>7, <2>8 DEF CmdInv
<1> QED
  BY <1>1, <1>2, <1>3, <1>4 DEF IndInv

LEMMA CommandOutputPreserves ==
    ASSUME IndInv, NEW m \in Cmds, CommandOutput(m)
    PROVE  IndInv'
<1> DEFINE x == [run[m] EXCEPT !.lines = @ + 1]
<1>1. run[m] \in Runner /\ run[m].lines + 1 \in 1..MaxLines
  BY TypeFacts, CommandsAssumption DEF CommandOutput, IndInv
<1>2. /\ x \in Runner /\ x.lines = run[m].lines + 1
      /\ x.pc = run[m].pc /\ x.conn = run[m].conn
  BY <1>1, CommandsAssumption DEF Runner
<1>3. run' = [run EXCEPT ![m] = x]
  BY DEF CommandOutput
<1> HIDE DEF x
<1>4. run'[m] = x /\ run' \in [Cmds -> Runner] /\ \A d \in Cmds \ {m} : run'[d] = run[d]
  BY <1>2, <1>3 DEF IndInv, TypeOK, Runner
<1> DEFINE msg == [cmd |-> m, line |-> run[m].lines + 1]
<1>5. msg \in UpMessage /\ IsLine(msg) /\ msg.cmd = m /\ msg.line = run[m].lines + 1
  BY <1>1, LineFacts
<1>6. SendUp(m, msg) /\ run[m].pc = "running"
      /\ UNCHANGED <<post, sess, hub, served, open, down, cur, nconn>>
  BY DEF CommandOutput
<1> HIDE DEF msg
<1> QED
  BY <1>2, <1>4, <1>5, <1>6, ExecutePreserves

LEMMA CommandEndPreserves ==
    ASSUME IndInv, NEW m \in Cmds, CommandEnd(m)
    PROVE  IndInv'
<1> DEFINE x == [run[m] EXCEPT !.pc = "ended"]
<1>1. run[m] \in Runner
  BY TypeFacts DEF IndInv
<1>2. /\ x \in Runner /\ x.lines = run[m].lines
      /\ x.pc = "ended" /\ x.conn = run[m].conn
  BY <1>1 DEF Runner
<1>3. run' = [run EXCEPT ![m] = x]
  BY DEF CommandEnd
<1> HIDE DEF x
<1>4. run'[m] = x /\ run' \in [Cmds -> Runner] /\ \A d \in Cmds \ {m} : run'[d] = run[d]
  BY <1>2, <1>3 DEF IndInv, TypeOK, Runner
<1> DEFINE msg == [cmd |-> m, done |-> TRUE]
<1>5. msg \in UpMessage /\ ~IsLine(msg) /\ msg.cmd = m
  BY DoneFacts
<1>6. SendUp(m, msg) /\ run[m].pc = "running"
      /\ UNCHANGED <<post, sess, hub, served, open, down, cur, nconn>>
  BY DEF CommandEnd
<1> HIDE DEF msg
<1> QED
  BY <1>2, <1>4, <1>5, <1>6, ExecutePreserves

(* Connections only ever get new numbers.                                  *)
LEMMA ConnectPreserves ==
    ASSUME IndInv, Connect
    PROVE  IndInv'
<1>1. /\ nconn < MaxConns /\ nconn' = nconn + 1 /\ cur' = nconn + 1 /\ hub' = nconn + 1
      /\ served' = served \cup {nconn + 1}
      /\ open' = (open \ {hub}) \cup {nconn + 1}
      /\ UNCHANGED <<post, sess, down, up, run>>
  BY DEF Connect
<1>2. nconn \in Nat /\ nconn + 1 \in Conns /\ nconn + 1 \in 0..MaxConns
  BY <1>1, Numbers, CommandsAssumption DEF IndInv, Conns
<1>3. TypeOK'
  BY <1>1, <1>2 DEF IndInv, TypeOK
<1>4. DownInv'
  BY <1>1, DownKept DEF IndInv
<1>5. ASSUME NEW d \in Cmds PROVE CmdInv(d)'
  <2>1. run[d].conn <= nconn /\ run[d].conn \in Nat
    BY TypeFacts DEF IndInv, CmdInv, RunInv
  <2>2. run[d].conn \in open' => run[d].conn \in open
    BY <1>1, <1>2, <2>1
  <2>3. nconn' \in Nat /\ nconn <= nconn'
    BY <1>1, <1>2
  <2> QED
    BY <1>1, <1>2, <2>2, <2>3, CmdKept DEF IndInv
<1> QED
  BY <1>1, <1>2, <1>3, <1>4, <1>5 DEF IndInv

LEMMA AgentReadErrorPreserves ==
    ASSUME IndInv, AgentReadError
    PROVE  IndInv'
<1>1. /\ cur' = NoConn
      /\ down' = [down EXCEPT ![cur] = << >>]
      /\ UNCHANGED <<post, sess, hub, served, open, up, nconn, run>>
  BY DEF AgentReadError
<1>2. \A c \in Conns : down'[c] \in {down[c], << >>}
  BY <1>1 DEF IndInv, TypeOK
<1>3. TypeOK'
  <2>1. down' \in [Conns -> Seq(Cmds)]
    <3>1. << >> \in Seq(Cmds)
      OBVIOUS
    <3> QED
      BY <1>1, <3>1 DEF IndInv, TypeOK
  <2>2. \A c \in Conns : Len(down'[c]) <= OutboxCap
    BY <1>2, CommandsAssumption DEF IndInv, TypeOK
  <2> QED
    BY <1>1, <2>1, <2>2 DEF IndInv, TypeOK
<1>4. DownInv'
  BY <1>1, <1>2, DownKept DEF IndInv
<1>5. \A d \in Cmds : CmdInv(d)'
  BY <1>1, CmdKept, Numbers DEF IndInv
<1>6. cur' <= nconn'
  BY <1>1, Numbers DEF IndInv, NoConn
<1> QED
  BY <1>3, <1>4, <1>5, <1>6 DEF IndInv

-----------------------------------------------------------------------------
(* The server's read loop.                                                 *)

LEMMA ReceivedFacts ==
    ASSUME NEW s \in Session, NEW msg \in UpMessage
    PROVE  /\ Received(s, msg) \in Session
           /\ IsLine(msg) => /\ Received(s, msg).state = s.state
                             /\ Received(s, msg).out = Append(s.out, msg.line)
           /\ ~IsLine(msg) => /\ Received(s, msg).state = "done"
                              /\ Received(s, msg).out = s.out
<1>1. CASE IsLine(msg)
  <2>1. msg.line \in 1..MaxLines
    BY <1>1, MessageFacts
  <2> QED
    BY <1>1, <2>1, AppendFacts DEF Received, Session, IsLine
<1>2. CASE ~IsLine(msg)
  BY <1>2 DEF Received, Session, IsLine
<1> QED
  BY <1>1, <1>2

LEMMA ReadPreserves ==
    ASSUME IndInv, NEW c \in Conns, ReadCommandMessage(c)
    PROVE  IndInv'
<1>1. /\ up[c] # << >> /\ up[c] \in Seq(UpMessage)
      /\ up' = [up EXCEPT ![c] = Tail(@)]
      /\ UNCHANGED <<post, hub, served, open, down, cur, nconn, run>>
  BY DEF ReadCommandMessage, IndInv, TypeOK
<1>2. /\ up'[c] = Tail(up[c])
      /\ \A e \in Conns \ {c} : up'[e] = up[e]
  BY <1>1 DEF IndInv, TypeOK
<1>3. PICK msg \in UpMessage : msg = Head(up[c])
  BY <1>1, TailFacts
<1>4. PICK m \in Cmds : m = msg.cmd
  BY <1>3, MessageFacts
<1>5. sess' = IF sess[m].state = "absent" THEN sess ELSE [sess EXCEPT ![m] = Received(@, msg)]
  BY <1>3, <1>4 DEF ReadCommandMessage
<1>6. sess[m] \in Session /\ Received(sess[m], msg) \in Session
  BY ReceivedFacts, TypeFacts DEF IndInv
<1>7. TypeOK'
  <2>1. up' \in [Conns -> Seq(UpMessage)]
    BY <1>1, <1>2, TailFacts DEF IndInv, TypeOK
  <2>2. sess' \in [Cmds -> Session]
    BY <1>5, <1>6 DEF IndInv, TypeOK
  <2> QED
    BY <1>1, <2>1, <2>2 DEF IndInv, TypeOK
<1>8. DownInv'
  BY <1>1, DownKept DEF IndInv
<1>9. ASSUME NEW d \in Cmds, d # m PROVE CmdInv(d)'
  <2>1. sess'[d] = sess[d]
    BY <1>5, <1>9 DEF IndInv, TypeOK
  <2> QED
    BY <1>1, <1>2, <1>3, <1>4, <1>9, <2>1, OthersMove DEF IndInv
<1>10. CmdInv(m)'
  <2>1. RunInv(m) /\ UpInv(m) /\ SessInv(m) /\ FlowInv(m)
    BY DEF IndInv, CmdInv
  <2>2. RunInv(m)'
    BY <1>1, <2>1 DEF RunInv
  <2>3. /\ Len(up[c]) \in Nat \ {0} /\ up[c][1] = msg
        /\ Len(up'[c]) = Len(up[c]) - 1
        /\ \A k \in 1..Len(up'[c]) : up'[c][k] = up[c][k + 1]
    <3>1. PICK p : p = up'[c] /\ p = Tail(up[c])
      BY <1>2
    <3>2. /\ Len(up[c]) \in Nat \ {0} /\ up[c][1] = msg
          /\ Len(p) = Len(up[c]) - 1
          /\ \A k \in 1..Len(p) : p[k] = up[c][k + 1]
      BY <1>1, <1>3, <3>1, TailFacts
    <3> QED
      BY <3>1, <3>2
  <2>4. \A d \in Conns : \A k \in 1..Len(up'[d]) :
            \E j \in 1..Len(up[d]) : up'[d][k] = up[d][j]
    <3> TAKE d \in Conns
    <3> TAKE k \in 1..Len(up'[d])
    <3>1. CASE d = c
      <4>1. k + 1 \in 1..Len(up[c]) /\ up'[c][k] = up[c][k + 1]
        BY <2>3, <3>1
      <4> QED
        BY <3>1, <4>1
    <3>2. CASE d # c
      BY <1>2, <3>2
    <3> QED
      BY <3>1, <3>2
  <2>5. /\ run[m].conn = c /\ run[m].pc # "off" /\ sess[m].state # "done"
        /\ IsLine(msg) \/ run[m].pc = "ended"
        /\ \A d \in Conns : \A k \in 1..Len(up'[d]) : up'[d][k].cmd = m =>
                d = c /\ (IsLine(up'[d][k]) \/ run[m].pc = "ended")
    <3>1. 1 \in 1..Len(up[c]) /\ up[c][1].cmd = m
      BY <1>4, <2>3
    <3>2. /\ run[m].conn = c /\ run[m].pc # "off" /\ sess[m].state # "done"
          /\ IsLine(msg) \/ run[m].pc = "ended"
      BY <2>1, <2>3, <3>1 DEF UpInv
    <3>3. ASSUME NEW d \in Conns, NEW k \in 1..Len(up'[d]), up'[d][k].cmd = m
          PROVE  d = c /\ (IsLine(up'[d][k]) \/ run[m].pc = "ended")
      <4>1. PICK j \in 1..Len(up[d]) : up'[d][k] = up[d][j]
        BY <2>4, <3>3
      <4>2. up[d][j].cmd = m
        BY <3>3, <4>1
      <4>3. d = run[m].conn /\ (IsLine(up[d][j]) \/ run[m].pc = "ended")
        BY <2>1, <4>2 DEF UpInv
      <4> QED
        BY <3>2, <4>1, <4>3
    <3> QED
      BY <3>2, <3>3
  <2>6. CASE sess[m].state = "absent"
    <3>1. sess' = sess
      BY <1>5, <2>6
    <3>2. UpInv(m)'
      BY <1>1, <2>5, <3>1 DEF UpInv
    <3>3. SessInv(m)' /\ FlowInv(m)'
      BY <1>1, <2>1, <2>6, <3>1 DEF SessInv, FlowInv
    <3> QED
      BY <2>2, <3>2, <3>3 DEF CmdInv
  <2>7. CASE sess[m].state # "absent"
    <3> DEFINE n == Len(sess[m].out)
               l == run[m].lines
    <3>1. n \in Nat /\ l \in Nat /\ sess[m].out \in Seq(1..MaxLines)
      BY TypeFacts DEF IndInv
    <3>2. sess'[m] = Received(sess[m], msg)
      BY <1>5, <2>7 DEF IndInv, TypeOK
    <3>3. InFlight(m, up[c], n, l) /\ (c \in open => Reached(m, up[c], n, l))
      BY <2>1, <2>5, <2>7 DEF FlowInv
    <3>4. n <= l /\ \A k \in 1..n : sess[m].out[k] = k
      BY <2>1 DEF SessInv
    <3>5. \A d \in Conns \ {c} : \A k \in 1..Len(up'[d]) : up'[d][k].cmd # m
      BY <2>5
    <3>6. CASE IsLine(msg)
      <4>1. /\ msg.line = n + 1 /\ n + 1 <= l
            /\ InFlight(m, up'[c], n + 1, l)
            /\ c \in open => Reached(m, up'[c], n + 1, l)
        <5> HIDE DEF n, l
        <5>1. PICK q : q = up[c]
          OBVIOUS
        <5>2. /\ q \in Seq(UpMessage) /\ q # << >> /\ msg = Head(q) /\ Head(q).cmd = m
              /\ IsLine(Head(q)) /\ InFlight(m, q, n, l)
          BY <1>1, <1>3, <1>4, <3>3, <3>6, <5>1
        <5>3. /\ Head(q).line = n + 1 /\ n + 1 <= l
              /\ InFlight(m, Tail(q), n + 1, l)
              /\ Reached(m, q, n, l) => Reached(m, Tail(q), n + 1, l)
          BY <3>1, <5>2, TailLine
        <5>4. up'[c] = Tail(q)
          BY <1>2, <5>1
        <5> QED
          BY <3>3, <5>1, <5>2, <5>3, <5>4
      <4>2. sess'[m].state = sess[m].state /\ sess'[m].out = Append(sess[m].out, msg.line)
        BY <1>6, <3>2, <3>6, ReceivedFacts
      <4>3. msg.line \in 1..MaxLines
        BY <3>6, MessageFacts
      <4>4. /\ Len(sess'[m].out) = n + 1
            /\ \A k \in 1..n : sess'[m].out[k] = sess[m].out[k]
            /\ sess'[m].out[n + 1] = msg.line
        <5>1. PICK p : p = sess'[m].out /\ p = Append(sess[m].out, msg.line)
          BY <4>2
        <5>2. Len(p) = n + 1 /\ (\A k \in 1..n : p[k] = sess[m].out[k]) /\ p[n + 1] = msg.line
          BY <3>1, <4>3, <5>1, AppendFacts
        <5> QED
          BY <5>1, <5>2
      <4> HIDE DEF n
      <4>5. SessInv(m)'
        <5>1. \A k \in 1..(n + 1) : sess'[m].out[k] = k
          BY <3>1, <3>4, <4>1, <4>4
        <5> QED
          BY <1>1, <2>5, <2>7, <4>1, <4>2, <4>4, <5>1 DEF SessInv
      <4>6. UpInv(m)'
        BY <1>1, <2>5, <4>2 DEF UpInv
      <4>7. FlowInv(m)'
        <5>1. \A d \in Conns : InFlight(m, up'[d], n + 1, l)
          BY <3>5, <4>1 DEF InFlight
        <5> QED
          BY <1>1, <2>5, <4>1, <4>4, <5>1 DEF FlowInv
      <4> QED
        BY <2>2, <4>5, <4>6, <4>7 DEF CmdInv
    <3>7. CASE ~IsLine(msg)
      <4>1. l = n /\ \A k \in 1..Len(up'[c]) : up'[c][k].cmd # m
        <5> HIDE DEF n, l
        <5>1. l = n /\ \A k \in 1..Len(Tail(up[c])) : Tail(up[c])[k].cmd # m
          BY <1>1, <1>3, <1>4, <3>1, <3>3, <3>7, TailDone
        <5> QED
          BY <1>2, <5>1
      <4>2. sess'[m].state = "done" /\ sess'[m].out = sess[m].out
        BY <1>6, <3>2, <3>7, ReceivedFacts
      <4>3. \A d \in Conns : \A k \in 1..Len(up'[d]) : up'[d][k].cmd # m
        BY <3>5, <4>1
      <4>4. SessInv(m)'
        BY <1>1, <2>1, <2>5, <3>7, <4>1, <4>2 DEF SessInv
      <4>5. UpInv(m)'
        BY <4>3 DEF UpInv
      <4>6. FlowInv(m)'
        BY <1>1, <4>1, <4>2, <4>3 DEF FlowInv, InFlight, Reached
      <4> QED
        BY <2>2, <4>4, <4>5, <4>6 DEF CmdInv
    <3> QED
      BY <3>6, <3>7
  <2> QED
    BY <2>6, <2>7
<1> QED
  BY <1>1, <1>7, <1>8, <1>9, <1>10 DEF IndInv

LEMMA ServerReadErrorPreserves ==
    ASSUME IndInv, NEW c \in Conns, ServerReadError(c)
    PROVE  IndInv'
<1>1. /\ c \notin open /\ served' = served \ {c} /\ hub' = NoConn
      /\ up' = [up EXCEPT ![c] = << >>]
      /\ UNCHANGED <<post, sess, open, down, cur, nconn, run>>
  BY DEF ServerReadError
<1>2. TypeOK'
  BY <1>1 DEF IndInv, TypeOK
<1>3. DownInv'
  BY <1>1, DownKept DEF IndInv
<1>4. ASSUME NEW d \in Cmds PROVE CmdInv(d)'
  <2>1. \A e \in Conns : up'[e] \in {up[e], << >>}
    BY <1>1 DEF IndInv, TypeOK
  <2>2. run[d].conn \in open' => run[d].conn \in open /\ up'[run[d].conn] = up[run[d].conn]
    BY <1>1 DEF IndInv, TypeOK
  <2> QED
    BY <1>1, <2>1, <2>2, CmdKept, Numbers DEF IndInv
<1> QED
  BY <1>1, <1>2, <1>3, <1>4 DEF IndInv

-----------------------------------------------------------------------------
(* Faults.                                                                 *)

LEMMA NetDropPreserves ==
    ASSUME IndInv, NEW c \in Conns, NetDrop(c)
    PROVE  IndInv'
<1>1. /\ open' = open \ {c}
      /\ UNCHANGED <<post, sess, hub, served, down, up, cur, nconn, run>>
  BY DEF NetDrop
<1>2. TypeOK' /\ DownInv'
  BY <1>1, DownKept DEF IndInv, TypeOK
<1>3. \A d \in Cmds : CmdInv(d)'
  BY <1>1, CmdKept, Numbers DEF IndInv
<1> QED
  BY <1>1, <1>2, <1>3 DEF IndInv

LEMMA AgentCrashPreserves ==
    ASSUME IndInv, AgentCrash
    PROVE  IndInv'
<1>1. /\ open' = open \ {cur}
      /\ down' = [c \in Conns |-> IF c = cur THEN << >> ELSE down[c]]
      /\ cur' = NoConn
      /\ run' = [m \in Cmds |-> IF run[m].pc = "running"
                                THEN [run[m] EXCEPT !.pc = "killed"] ELSE run[m]]
      /\ UNCHANGED <<post, sess, hub, served, up, nconn>>
  BY DEF AgentCrash
<1>2. ASSUME NEW m \in Cmds
      PROVE  /\ run'[m] \in Runner
             /\ run'[m].conn = run[m].conn /\ run'[m].lines = run[m].lines
             /\ run'[m].pc # run[m].pc => run[m].pc = "running" /\ run'[m].pc = "killed"
  <2>1. run[m] \in Runner
    BY TypeFacts DEF IndInv
  <2>2. CASE run[m].pc = "running"
    <3>1. run'[m] = [run[m] EXCEPT !.pc = "killed"]
      BY <1>1, <2>2
    <3> QED
      BY <2>1, <2>2, <3>1 DEF Runner
  <2>3. CASE run[m].pc # "running"
    BY <1>1, <2>1, <2>3
  <2> QED
    BY <2>2, <2>3
<1>3. \A c \in Conns : down'[c] \in {down[c], << >>}
  BY <1>1
<1>4. TypeOK'
  <2>1. down' \in [Conns -> Seq(Cmds)]
    BY <1>1 DEF IndInv, TypeOK
  <2>2. \A c \in Conns : Len(down'[c]) <= OutboxCap
    BY <1>3, CommandsAssumption DEF IndInv, TypeOK
  <2>3. run' \in [Cmds -> Runner]
    BY <1>1, <1>2
  <2> QED
    BY <1>1, <2>1, <2>2, <2>3 DEF IndInv, TypeOK, Runner
<1>5. DownInv'
  BY <1>1, <1>2, <1>3, DownKept DEF IndInv
<1>6. ASSUME NEW d \in Cmds PROVE CmdInv(d)'
  BY <1>1, <1>2, CmdKept, Numbers DEF IndInv
<1>7. cur' <= nconn'
  BY <1>1, Numbers DEF IndInv, NoConn
<1> QED
  BY <1>4, <1>5, <1>6, <1>7 DEF IndInv

(* The sessions are gone, and every connection with them.                  *)
LEMMA ServerRestartPreserves ==
    ASSUME IndInv, ServerRestart
    PROVE  IndInv'
<1>1. /\ sess' = [m \in Cmds |-> NoSession]
      /\ post' = [m \in Cmds |-> IF post[m] \in {"create", "send"} THEN "lost" ELSE post[m]]
      /\ hub' = NoConn /\ served' = {} /\ open' = {}
      /\ up' = [c \in Conns |-> << >>]
      /\ UNCHANGED <<down, cur, nconn, run>>
  BY DEF ServerRestart
<1>2. NoSession \in Session
  BY DEF NoSession, Session
<1>3. TypeOK'
  BY <1>1, <1>2 DEF IndInv, TypeOK
<1>4. DownInv'
  BY <1>1, DownKept DEF IndInv
<1>5. ASSUME NEW d \in Cmds PROVE CmdInv(d)'
  <2>1. sess'[d] = NoSession /\ run'[d] = run[d] /\ \A c \in Conns : up'[c] = << >>
    BY <1>1
  <2>2. RunInv(d)'
    BY <1>1 DEF IndInv, CmdInv, RunInv
  <2>3. UpInv(d)'
    BY <2>1 DEF UpInv
  <2>4. SessInv(d)'
    BY <2>1, TypeFacts DEF SessInv, NoSession, IndInv
  <2>5. FlowInv(d)'
    BY <2>1 DEF FlowInv, NoSession
  <2> QED
    BY <2>2, <2>3, <2>4, <2>5 DEF CmdInv
<1> QED
  BY <1>1, <1>3, <1>4, <1>5 DEF IndInv

-----------------------------------------------------------------------------
(* The theorems.                                                           *)

LEMMA InitInv == Init => IndInv
<1> SUFFICES ASSUME Init PROVE IndInv
  OBVIOUS
<1>1. NoSession \in Session /\ [pc |-> "off", conn |-> NoConn, lines |-> 0] \in Runner
  BY CommandsAssumption DEF NoSession, Session, Runner
<1>2. TypeOK
  BY <1>1, CommandsAssumption DEF Init, TypeOK, Runner
<1>3. DownInv /\ cur <= nconn
  BY DEF Init, DownInv, NoConn
<1>4. ASSUME NEW m \in Cmds PROVE CmdInv(m)
  <2>1. /\ run[m] = [pc |-> "off", conn |-> NoConn, lines |-> 0] /\ sess[m] = NoSession
        /\ nconn = 0 /\ \A c \in Conns : up[c] = << >>
    BY DEF Init
  <2> QED
    BY <2>1 DEF CmdInv, RunInv, UpInv, SessInv, FlowInv, NoSession, NoConn
<1> QED
  BY <1>2, <1>3, <1>4 DEF IndInv

LEMMA NextPreserves == IndInv /\ [Next]_vars => IndInv'
<1> SUFFICES ASSUME IndInv, [Next]_vars PROVE IndInv'
  OBVIOUS
<1>1. CASE UNCHANGED vars
  <2>1. UNCHANGED <<post, sess, hub, served, open, down, up, cur, nconn, run>>
    BY <1>1 DEF vars
  <2>2. TypeOK' /\ DownInv'
    BY <2>1, DownKept DEF IndInv, TypeOK
  <2>3. \A d \in Cmds : CmdInv(d)'
    BY <2>1, CmdKept, Numbers DEF IndInv
  <2> QED
    BY <2>1, <2>2, <2>3 DEF IndInv
<1>2. CASE \E m \in Cmds : Post(m) \/ Execute(m)
  BY <1>2, PostCheckPreserves, PostCreatePreserves, PostSendPreserves,
     CommandOutputPreserves, CommandEndPreserves DEF Post, Execute
<1>3. CASE Loop
  BY <1>3, ReceiveCommandPreserves, AgentReadErrorPreserves, ConnectPreserves DEF Loop
<1>4. CASE \E c \in Conns : ReadCommandMessage(c) \/ ServerReadError(c)
  BY <1>4, ReadPreserves, ServerReadErrorPreserves
<1>5. CASE Fault
  BY <1>5, AgentCrashPreserves, ServerRestartPreserves, NetDropPreserves DEF Fault
<1> QED
  BY <1>1, <1>2, <1>3, <1>4, <1>5 DEF Next

(* The output of a command that is on its way (runCommand) follows on from *)
(* what its session has (handleWSMessage), in every reachable state.       *)
THEOREM IndInvariant == Spec => []IndInv
BY InitInv, NextPreserves, PTL DEF Spec

(* Every variable keeps its type; an outbox never exceeds its capacity,    *)
(* as Hub.Send refuses the command first (handler.go).                     *)
THEOREM TypeCorrect == Spec => []TypeOK
<1>1. IndInv => TypeOK
  BY DEF IndInv
<1> QED
  BY <1>1, IndInvariant, PTL

(* A poll (command.go:90) shows a prefix of the command's output, and all  *)
(* of it once the session is done, however connections break and restart.  *)
THEOREM PollsAreExact == Spec => []OutputExact
<1>1. IndInv => OutputExact
  BY DEF IndInv, CmdInv, SessInv, OutputExact
<1> QED
  BY <1>1, IndInvariant, PTL
=============================================================================
