-------------------------- MODULE Playbooks_proofs --------------------------
(***************************************************************************)
(* Proofs about Playbooks, for any playbooks, secrets and bounds.          *)
(***************************************************************************)
EXTENDS Playbooks, SequenceTheorems, FiniteSetTheorems, WellFoundedInduction, TLAPS

-----------------------------------------------------------------------------
(* Numbers.                                                                *)

(* Every set of natural numbers has a least element: the induction that    *)
(* the proofs below use.                                                   *)
LEMMA LeastNat ==
    ASSUME NEW T \in SUBSET Nat, T # {}
    PROVE  \E n \in T : \A m \in T : n <= m
<1> DEFINE R == OpToRel(<, Nat)
<1>1. IsWellFoundedOn(R, Nat)
  BY NatLessThanWellFounded, Zenon
<1>2. \A m, n \in Nat : m < n => <<m, n>> \in R
  BY DEF OpToRel
<1> HIDE DEF R
<1>3. PICK n \in T : \A m \in T : ~ (<<m, n>> \in R)
  BY <1>1, WFMin
<1>4. \A m \in T : ~ (m < n)
  BY <1>2, <1>3
<1>5. n \in Nat /\ \A m \in T : m \in Nat
  OBVIOUS
<1>6. \A m \in T : n <= m
  BY <1>4, <1>5
<1> QED
  BY <1>6

LEMMA MinFacts ==
    ASSUME NEW T \in SUBSET Nat, T # {}
    PROVE  Min(T) \in T /\ \A m \in T : Min(T) <= m
BY LeastNat DEF Min

(* A finite set of natural numbers has a greatest element.                 *)
LEMMA MaxFacts ==
    ASSUME NEW T \in SUBSET Nat, IsFiniteSet(T), T # {}
    PROVE  Max(T) \in T /\ \A m \in T : m <= Max(T)
<1> DEFINE Bounded(S) == \E x \in S : \A m \in S : m <= x
           Bad == {n \in Nat : \E S \in SUBSET T : S # {} /\ Cardinality(S) = n /\ ~Bounded(S)}
<1>1. Bad = {}
  <2> SUFFICES ASSUME Bad # {} PROVE FALSE
    OBVIOUS
  <2>1. PICK n \in Bad : \A m \in Bad : n <= m
    BY LeastNat
  <2>2. PICK S \in SUBSET T : S # {} /\ Cardinality(S) = n /\ ~Bounded(S)
    BY <2>1
  <2>3. PICK x : x \in S
    BY <2>2
  <2>4. IsFiniteSet(S)
    BY <2>2, FS_Subset
  <2>5. Cardinality(S \ {x}) = n - 1 /\ n \in Nat /\ Cardinality(S \ {x}) \in Nat
    BY <2>2, <2>3, <2>4, FS_RemoveElement, FS_CardinalityType
  <2>6. x \in Nat /\ \A m \in S : m \in Nat
    BY <2>2, <2>3
  <2>7. CASE S \ {x} = {}
    <3>1. \A m \in S : m <= x
      BY <2>6, <2>7
    <3> QED
      BY <2>2, <2>3, <3>1
  <2>8. CASE S \ {x} # {}
    <3>1. n - 1 \notin Bad
      BY <2>1, <2>5
    <3>2. Bounded(S \ {x})
      BY <2>2, <2>5, <2>8, <3>1
    <3>3. PICK y \in S \ {x} : \A m \in S \ {x} : m <= y
      BY <3>2
    <3>4. CASE x <= y
      <4>1. \A m \in S : m <= y
        BY <3>3, <3>4
      <4> QED
        BY <2>2, <3>3, <4>1
    <3>5. CASE ~(x <= y)
      <4>1. \A m \in S : m <= x
        BY <2>6, <3>3, <3>5
      <4> QED
        BY <2>2, <2>3, <4>1
    <3> QED
      BY <3>4, <3>5
  <2> QED
    BY <2>7, <2>8
<1>2. Cardinality(T) \in Nat /\ T \in SUBSET T
  BY FS_CardinalityType
<1>3. Bounded(T)
  BY <1>1, <1>2
<1> QED
  BY <1>3 DEF Max

-----------------------------------------------------------------------------
(* FlattenPlaybook.                                                        *)

StepsOf(pb) == UNION {{pb[j][k] : k \in DOMAIN pb[j]} : j \in DOMAIN pb}

OrderedStepOf(pb) == [step : StepsOf(pb), global : Int]

(* The entries of job j when n steps come before it.                       *)
Entries(pb, j, n) ==
    [k \in DOMAIN pb[j] |-> [step |-> pb[j][k], global |-> n + k - 1]]

(* f is what the loop over the jobs computes, for the first n of them.     *)
Loop(pb, n, f) ==
    f = [j \in 0..n |->
            IF j = 0 THEN << >> ELSE f[j - 1] \o Entries(pb, j, Len(f[j - 1]))]

Numbered(s) == \A k \in 1..Len(s) : s[k].global = k - 1

LEMMA LoopExists ==
    ASSUME NEW pb, NEW n \in Nat
    PROVE  \E f : Loop(pb, n, f)
<1> DEFINE Bad == {m \in Nat : ~ \E f : Loop(pb, m, f)}
<1> SUFFICES ASSUME Bad # {} PROVE FALSE
  OBVIOUS
<1>1. PICK m \in Bad : \A l \in Bad : m <= l
  BY LeastNat
<1>2. CASE m = 0
  <2>1. Loop(pb, 0, [j \in 0..0 |-> << >>])
    BY DEF Loop
  <2> QED
    BY <1>1, <1>2, <2>1
<1>3. CASE m # 0
  <2>1. m - 1 \in Nat /\ m - 1 \notin Bad
    BY <1>1, <1>3
  <2>2. PICK f : Loop(pb, m - 1, f)
    BY <2>1
  <2> DEFINE x == f[m - 1] \o Entries(pb, m, Len(f[m - 1]))
             g == [j \in 0..m |-> IF j = m THEN x ELSE f[j]]
  <2>3. \A j \in 0..m : g[j] = IF j = m THEN x ELSE f[j]
    OBVIOUS
  <2>4. \A j \in 0..(m - 1) :
            f[j] = IF j = 0 THEN << >> ELSE f[j - 1] \o Entries(pb, j, Len(f[j - 1]))
    BY <2>2 DEF Loop
  <2>5. \A j \in 0..m : j = 0 \/ j - 1 \in 0..(m - 1)
    BY <1>1
  <2>6. x = f[m - 1] \o Entries(pb, m, Len(f[m - 1]))
    OBVIOUS
  <2> HIDE DEF x
  <2>7. \A j \in 0..m :
            g[j] = IF j = 0 THEN << >> ELSE g[j - 1] \o Entries(pb, j, Len(g[j - 1]))
    <3> TAKE j \in 0..m
    <3>1. CASE j = m
      <4>1. g[m] = x /\ g[m - 1] = f[m - 1]
        BY <1>1, <1>3, <2>1, <2>3
      <4> QED
        BY <1>3, <2>6, <3>1, <4>1
    <3>2. CASE j # m
      <4>1. g[j] = f[j] /\ j \in 0..(m - 1)
        BY <1>1, <2>3, <3>2
      <4>2. j # 0 => g[j - 1] = f[j - 1]
        BY <1>1, <2>3, <2>5, <3>2
      <4> QED
        BY <2>4, <4>1, <4>2
    <3> QED
      BY <3>1, <3>2
  <2>8. Loop(pb, m, g)
    <3>1. g = [j \in 0..m |-> g[j]]
      OBVIOUS
    <3> HIDE DEF g
    <3> QED
      BY <2>7, <3>1 DEF Loop
  <2> QED
    BY <1>1, <2>8
<1> QED
  BY <1>2, <1>3

LEMMA FlattenIsLoop ==
    ASSUME NEW pb, Len(pb) \in Nat
    PROVE  \E f : Loop(pb, Len(pb), f) /\ FlattenPlaybook(pb) = f[Len(pb)]
<1> DEFINE f == CHOOSE g : Loop(pb, Len(pb), g)
<1>1. Loop(pb, Len(pb), f)
  BY LoopExists
<1>2. FlattenPlaybook(pb) = f[Len(pb)]
  BY DEF FlattenPlaybook, Loop, Entries
<1> QED
  BY <1>1, <1>2

LEMMA EntriesFacts ==
    ASSUME NEW pb \in Contents, NEW j \in 1..Len(pb), NEW n \in Nat
    PROVE  /\ Entries(pb, j, n) \in Seq(OrderedStepOf(pb))
           /\ \A k \in 1..Len(Entries(pb, j, n)) : Entries(pb, j, n)[k].global = n + k - 1
<1>1. DOMAIN pb = 1..Len(pb) /\ IsList(pb[j])
  BY PlaybooksAssumption DEF IsList
<1>2. Len(pb[j]) \in Nat /\ DOMAIN pb[j] = 1..Len(pb[j])
  BY <1>1 DEF IsList
<1>3. \A k \in 1..Len(pb[j]) : pb[j][k] \in StepsOf(pb)
  BY <1>1, <1>2 DEF StepsOf
<1> DEFINE l == Len(pb[j])
           e == Entries(pb, j, n)
<1>4. e = [k \in 1..l |-> [step |-> pb[j][k], global |-> n + k - 1]]
  BY <1>2 DEF Entries
<1>5. \A k \in 1..l : [step |-> pb[j][k], global |-> n + k - 1] \in OrderedStepOf(pb)
  BY <1>2, <1>3 DEF OrderedStepOf
<1> HIDE DEF l, e
<1>6. e \in [1..l -> OrderedStepOf(pb)] /\ l \in Nat
  BY <1>2, <1>4, <1>5 DEF l
<1>7. e \in Seq(OrderedStepOf(pb)) /\ Len(e) = l
  BY <1>6, IsASeq, LenProperties
<1>8. \A k \in 1..Len(e) : e[k].global = n + k - 1
  BY <1>4, <1>7
<1> QED
  BY <1>7, <1>8 DEF e

LEMMA NumberedConcat ==
    ASSUME NEW S, NEW s \in Seq(S), NEW e \in Seq(S), Numbered(s),
           \A k \in 1..Len(e) : e[k].global = Len(s) + k - 1
    PROVE  s \o e \in Seq(S) /\ Numbered(s \o e)
<1>1. /\ s \o e \in Seq(S) /\ Len(s) \in Nat /\ Len(e) \in Nat
      /\ Len(s \o e) = Len(s) + Len(e)
      /\ \A i \in 1..(Len(s) + Len(e)) :
            (s \o e)[i] = IF i <= Len(s) THEN s[i] ELSE e[i - Len(s)]
  BY ConcatProperties, LenProperties
<1>2. ASSUME NEW i \in 1..Len(s \o e)
      PROVE  (s \o e)[i].global = i - 1
  <2>1. CASE i <= Len(s)
    BY <1>1, <2>1 DEF Numbered
  <2>2. CASE ~(i <= Len(s))
    <3>1. i - Len(s) \in 1..Len(e)
      BY <1>1, <2>2
    <3>2. e[i - Len(s)].global = Len(s) + (i - Len(s)) - 1
      BY <3>1
    <3> QED
      BY <1>1, <2>2, <3>1, <3>2
  <2> QED
    BY <2>1, <2>2
<1> QED
  BY <1>1, <1>2 DEF Numbered

(* The steps of a playbook are numbered from 0, over all of its jobs.      *)
LEMMA FlatFacts ==
    ASSUME NEW pb \in Contents
    PROVE  /\ Flat[pb] \in Seq(OrderedStepOf(pb))
           /\ Len(Flat[pb]) \in Nat
           /\ DOMAIN Flat[pb] = 1..Len(Flat[pb])
           /\ \A k \in 1..Len(Flat[pb]) : Flat[pb][k].global = k - 1
<1>1. Len(pb) \in Nat
  BY PlaybooksAssumption DEF IsList
<1>2. PICK f : Loop(pb, Len(pb), f) /\ FlattenPlaybook(pb) = f[Len(pb)]
  BY <1>1, FlattenIsLoop
<1>3. \A j \in 0..Len(pb) :
        f[j] = IF j = 0 THEN << >> ELSE f[j - 1] \o Entries(pb, j, Len(f[j - 1]))
  BY <1>2 DEF Loop
<1> DEFINE Good(s) == s \in Seq(OrderedStepOf(pb)) /\ Numbered(s)
           Bad == {j \in 0..Len(pb) : ~Good(f[j])}
<1>4. Bad = {}
  <2> SUFFICES ASSUME Bad # {} PROVE FALSE
    OBVIOUS
  <2>1. PICK j \in Bad : \A i \in Bad : j <= i
    <3>1. Bad \in SUBSET Nat
      BY <1>1
    <3> HIDE DEF Bad
    <3> QED
      BY <3>1, LeastNat
  <2>2. j \in 0..Len(pb) /\ ~Good(f[j])
    OBVIOUS
  <2>3. CASE j = 0
    <3>1. f[j] = << >>
      BY <1>3, <2>2, <2>3
    <3>2. Good(<< >>)
      BY DEF Numbered
    <3> QED
      BY <2>2, <3>1, <3>2
  <2>4. CASE j # 0
    <3>1. j - 1 \in 0..Len(pb) /\ j \in 1..Len(pb) /\ j - 1 \notin Bad
      BY <1>1, <2>1, <2>2, <2>4
    <3>2. Good(f[j - 1])
      BY <3>1
    <3> DEFINE s == f[j - 1]
               e == Entries(pb, j, Len(s))
    <3>3. Len(s) \in Nat
      BY <3>2, LenProperties
    <3>4. e \in Seq(OrderedStepOf(pb)) /\ \A k \in 1..Len(e) : e[k].global = Len(s) + k - 1
      BY <3>1, <3>3, EntriesFacts
    <3>5. f[j] = s \o e
      BY <1>3, <2>2, <2>4
    <3> HIDE DEF s, e
    <3>6. Good(s \o e)
      BY <3>2, <3>4, NumberedConcat DEF s
    <3> QED
      BY <2>2, <3>5, <3>6
  <2> QED
    BY <2>3, <2>4
<1>5. Good(Flat[pb])
  <2>1. Flat[pb] = f[Len(pb)] /\ Len(pb) \in 0..Len(pb)
    BY <1>1, <1>2 DEF Flat
  <2> QED
    BY <1>4, <2>1
<1> QED
  BY <1>5, LenProperties DEF Numbered

(* The resume indices of the playbooks there are.                          *)
LEMMA IndexFacts ==
    ASSUME NEW pb \in Contents, NEW i \in 0..Len(Flat[pb])
    PROVE  i \in Indices /\ i \in Nat
<1> DEFINE T == {Len(Flat[q]) : q \in Contents}
<1>1. T \in SUBSET Nat /\ Len(Flat[pb]) \in T
  BY FlatFacts
<1>2. IsFiniteSet(T)
  <2>1. [q \in Contents |-> Len(Flat[q])] \in Surjection(Contents, T)
    BY DEF Surjection
  <2> HIDE DEF T
  <2> QED
    BY <2>1, PlaybooksAssumption, FS_Surjection
<1>3. Max(T) \in Nat /\ Len(Flat[pb]) <= Max(T)
  BY <1>1, <1>2, MaxFacts
<1>4. Indices = 0..Max(T)
  BY DEF Indices
<1> HIDE DEF T
<1> QED
  BY <1>1, <1>3, <1>4

-----------------------------------------------------------------------------
(* The inductive invariant.  For a deployment, S are the contents that     *)
(* were pushed and E the steps that were executed.                         *)

(* The first i steps were executed, if only one content was pushed.        *)
Prefixed(S, E, i) ==
    \A pb \in Valid : S = {pb} =>
        \A k \in 1..Len(Flat[pb]) : k <= i => Flat[pb][k].step \in E

(* Index i tells the truth; nothing is executed before anything is pushed. *)
Claim(S, E, i) == i \in Indices /\ (i > 0 => S # {}) /\ Prefixed(S, E, i)

(* All steps were executed.                                                *)
Whole(S, E) ==
    S # {} /\ \A pb \in Valid : S = {pb} =>
                \A k \in 1..Len(Flat[pb]) : Flat[pb][k].step \in E

DeploymentOK(x, S, E) ==
    /\ x \in DeploymentState
    /\ Claim(S, E, x.resume)
    /\ x.status = "completed" => Whole(S, E)

(* The copy of a row that a push goroutine holds; n is Len(deps).          *)
PushRecord == [pc : {"off", "assign", "read", "playbook", "save", "send"}, force : BOOLEAN,
               dep : Nat, resume : Nat, content : Valid \cup {NoPlaybook}]

PushOK(x, n, S, E) ==
    /\ x \in PushRecord
    /\ x.dep = NoDep => x.resume = 0
    /\ x.dep # NoDep => x.dep \in 1..n /\ Claim(S[x.dep], E[x.dep], x.resume)
    /\ x.pc \in {"save", "send"} => x.content \in Valid
    /\ x.pc = "send" => x.dep # NoDep

ReportRecord ==
    [type : {"step_start", "step_complete", "reboot", "deploy_done", "deploy_failed"},
     dep : Nat, index : Nat]

ReportOK(m, n, S, E) ==
    /\ m \in ReportRecord
    /\ m.dep \in 1..n
    /\ m.type \in {"step_start", "reboot"} => Claim(S[m.dep], E[m.dep], m.index)
    /\ m.type = "step_complete" => Claim(S[m.dep], E[m.dep], m.index + 1)
    /\ m.type = "deploy_done" => Whole(S[m.dep], E[m.dep])

MessageOK(m, n, S, E) ==
    /\ m.dep \in 1..n
    /\ m.content \in Valid
    /\ m.content \in S[m.dep]
    /\ Claim(S[m.dep], E[m.dep], m.resume)

(* A run has executed, or skipped with good reason, what lies behind it.   *)
RunFields == {"pc", "conn", "dep", "content", "resume", "secrets", "at", "env"}
Passed(x) == IF x.pc \in {"next", "rebooting"} THEN x.at ELSE x.at - 1

RunOK(x, n, S, E) ==
    /\ x = [f \in RunFields |-> x[f]]
    /\ x.pc \in {"next", "resolve", "shell", "reboot", "rebooting"}
    /\ MessageOK(x, n, S, E)
    /\ x.at \in 0..Len(Flat[x.content])
    /\ x.pc # "next" => x.at > 0
    /\ Prefixed(S[x.dep], E[x.dep], Passed(x))

ServerInv ==
    /\ playbook \in Valid \cup {NoPlaybook}
    /\ edit \in Valid \cup {NoPlaybook}
    /\ DOMAIN secrets \subseteq SecretNames
    /\ \A n \in DOMAIN secrets : secrets[n] \in SecretValues[n]
    /\ assigned \in BOOLEAN
    /\ conn \in 0..MaxConns
    /\ online \in BOOLEAN
    /\ online => conn \in ConnIds

HistoryInv ==
    /\ deps \in Seq(DeploymentState)
    /\ Len(deps) <= MaxDeps
    /\ sent \in [DepIds -> SUBSET Valid]
    /\ \A d \in DepIds : IsFiniteSet(sent[d])
    /\ executed = [d \in DepIds |-> executed[d]]
    /\ \A d \in 1..Len(deps) : DeploymentOK(deps[d], sent[d], executed[d])

PushInv ==
    /\ push = [t \in Pushers |-> push[t]]
    /\ \A t \in Pushers : PushOK(push[t], Len(deps), sent, executed)

WireInv ==
    /\ wire \in [ConnIds -> Seq(ReportRecord)]
    /\ \A c \in ConnIds : \A k \in 1..Len(wire[c]) :
            ReportOK(wire[c][k], Len(deps), sent, executed)

InboxInv ==
    /\ IsList(inbox)
    /\ \A k \in 1..Len(inbox) : MessageOK(inbox[k], Len(deps), sent, executed)

RunsInv ==
    /\ runs = [r \in RunIds |-> runs[r]]
    /\ \A r \in RunIds : runs[r] # NoRun => RunOK(runs[r], Len(deps), sent, executed)

IndInv == ServerInv /\ HistoryInv /\ PushInv /\ WireInv /\ InboxInv /\ RunsInv

-----------------------------------------------------------------------------
(* What was true of a deployment stays true.                               *)

LEMMA ClaimKept ==
    ASSUME NEW S, NEW E, NEW S2, NEW E2, NEW i, S \subseteq S2, E \subseteq E2
    PROVE  /\ S # {} /\ Prefixed(S, E, i) => Prefixed(S2, E2, i)
           /\ Claim(S, E, i) => Claim(S2, E2, i)
           /\ Whole(S, E) => Whole(S2, E2)
<1>1. \A pb : S # {} /\ S2 = {pb} => S = {pb}
  OBVIOUS
<1>2. S # {} /\ Prefixed(S, E, i) => Prefixed(S2, E2, i)
  BY <1>1 DEF Prefixed
<1>3. Claim(S, E, i) => Claim(S2, E2, i)
  <2> SUFFICES ASSUME Claim(S, E, i) PROVE Claim(S2, E2, i)
    OBVIOUS
  <2>1. CASE i > 0
    BY <1>2, <2>1 DEF Claim
  <2>2. CASE ~(i > 0)
    <3>1. i \in Int /\ \A pb \in Valid : \A k \in 1..Len(Flat[pb]) : ~(k <= i)
      BY <2>2 DEF Claim, Indices
    <3> QED
      BY <2>2, <3>1 DEF Claim, Prefixed
  <2> QED
    BY <2>1, <2>2
<1>4. Whole(S, E) => Whole(S2, E2)
  BY <1>1 DEF Whole
<1> QED
  BY <1>2, <1>3, <1>4

(* From S, E and n deployments to S2, E2 and n2.                           *)
Grown(n, S, E, n2, S2, E2) ==
    /\ n \in Nat /\ n2 \in Nat /\ n <= n2
    /\ \A d \in 1..n : S[d] \subseteq S2[d] /\ E[d] \subseteq E2[d]

LEMMA StaysOK ==
    ASSUME NEW n, NEW S, NEW E, NEW n2, NEW S2, NEW E2, Grown(n, S, E, n2, S2, E2), NEW x
    PROVE  /\ PushOK(x, n, S, E) => PushOK(x, n2, S2, E2)
           /\ ReportOK(x, n, S, E) => ReportOK(x, n2, S2, E2)
           /\ MessageOK(x, n, S, E) => MessageOK(x, n2, S2, E2)
           /\ RunOK(x, n, S, E) => RunOK(x, n2, S2, E2)
<1>1. ASSUME NEW d \in 1..n
      PROVE  /\ d \in 1..n2 /\ S[d] \subseteq S2[d]
             /\ \A i : Claim(S[d], E[d], i) => Claim(S2[d], E2[d], i)
             /\ \A i : S[d] # {} /\ Prefixed(S[d], E[d], i) => Prefixed(S2[d], E2[d], i)
             /\ Whole(S[d], E[d]) => Whole(S2[d], E2[d])
  <2>1. S[d] \subseteq S2[d] /\ E[d] \subseteq E2[d] /\ d \in 1..n2
    BY DEF Grown
  <2> QED
    BY <2>1, ClaimKept
<1>2. PushOK(x, n, S, E) => PushOK(x, n2, S2, E2)
  BY <1>1 DEF PushOK
<1>3. ReportOK(x, n, S, E) => ReportOK(x, n2, S2, E2)
  BY <1>1 DEF ReportOK
<1>4. MessageOK(x, n, S, E) => MessageOK(x, n2, S2, E2)
  BY <1>1 DEF MessageOK
<1>5. RunOK(x, n, S, E) => RunOK(x, n2, S2, E2)
  <2> SUFFICES ASSUME RunOK(x, n, S, E) PROVE RunOK(x, n2, S2, E2)
    OBVIOUS
  <2>1. x.dep \in 1..n /\ S[x.dep] # {} /\ Prefixed(S[x.dep], E[x.dep], Passed(x))
    BY DEF RunOK, MessageOK
  <2>2. Prefixed(S2[x.dep], E2[x.dep], Passed(x))
    BY <1>1, <2>1
  <2> QED
    BY <1>4, <2>2 DEF RunOK
<1> QED
  BY <1>2, <1>3, <1>4, <1>5

LEMMA Numbers ==
    /\ MaxDeps \in Nat /\ MaxConns \in Nat /\ MaxRuns \in Nat
    /\ Root \in Pushers /\ \A c \in ConnIds : c \in Pushers
    /\ NoDep \notin DepIds
BY PlaybooksAssumption DEF Pushers, Root, NoDep, DepIds, ConnIds

(* Deployments are never taken back, nor what is known of them.            *)
Grows == Grown(Len(deps), sent, executed, Len(deps)', sent', executed')

(* What a step leaves alone stays in order.                                *)
LEMMA Carried ==
    ASSUME IndInv, Grows
    PROVE  /\ push' = push => PushInv'
           /\ wire' = wire => WireInv'
           /\ inbox' = inbox => InboxInv'
           /\ runs' = runs => RunsInv'
<1> DEFINE n2 == Len(deps)'
<1>0. Grown(Len(deps), sent, executed, n2, sent', executed')
  BY DEF Grows
<1> HIDE DEF n2
<1>1. ASSUME push' = push PROVE PushInv'
  <2>1. \A t \in Pushers : PushOK(push[t], n2, sent', executed')
    BY <1>0, StaysOK DEF IndInv, PushInv
  <2> QED
    BY <1>1, <2>1 DEF IndInv, PushInv, n2
<1>2. ASSUME wire' = wire PROVE WireInv'
  <2>1. \A c \in ConnIds : \A k \in 1..Len(wire[c]) : ReportOK(wire[c][k], n2, sent', executed')
    BY <1>0, StaysOK DEF IndInv, WireInv
  <2> QED
    BY <1>2, <2>1 DEF IndInv, WireInv, n2
<1>3. ASSUME inbox' = inbox PROVE InboxInv'
  <2>1. \A k \in 1..Len(inbox) : MessageOK(inbox[k], n2, sent', executed')
    BY <1>0, StaysOK DEF IndInv, InboxInv
  <2> QED
    BY <1>3, <2>1 DEF IndInv, InboxInv, n2
<1>4. ASSUME runs' = runs PROVE RunsInv'
  <2>1. \A r \in RunIds : runs[r] # NoRun => RunOK(runs[r], n2, sent', executed')
    BY <1>0, StaysOK DEF IndInv, RunsInv
  <2> QED
    BY <1>4, <2>1 DEF IndInv, RunsInv, n2
<1> QED
  BY <1>1, <1>2, <1>3, <1>4

LEMMA GrowsWhenSame ==
    ASSUME IndInv, UNCHANGED <<deps, sent, executed>>
    PROVE  Grows /\ HistoryInv'
<1>1. Len(deps) \in Nat
  BY LenProperties DEF IndInv, HistoryInv
<1>2. Grows
  BY <1>1 DEF Grows, Grown
<1> QED
  BY <1>2 DEF IndInv, HistoryInv

(* Lists.                                                                  *)
LEMMA ListFacts ==
    ASSUME NEW s, IsList(s)
    PROVE  \E S : s \in Seq(S)
<1> DEFINE S == {s[k] : k \in 1..Len(s)}
<1>1. s \in [1..Len(s) -> S] /\ Len(s) \in Nat
  BY DEF IsList
<1> HIDE DEF S
<1>2. s \in Seq(S)
  BY <1>1, SeqDef
<1> QED
  BY <1>2

LEMMA SeqIsList ==
    ASSUME NEW S, NEW s \in Seq(S)
    PROVE  IsList(s)
BY LenProperties DEF IsList

LEMMA ListAppend ==
    ASSUME NEW s, IsList(s), NEW x
    PROVE  /\ IsList(Append(s, x))
           /\ Len(Append(s, x)) = Len(s) + 1
           /\ \A k \in 1..Len(s) : Append(s, x)[k] = s[k]
           /\ Append(s, x)[Len(s) + 1] = x
           /\ Len(s) \in Nat
<1>1. PICK S : s \in Seq(S)
  BY ListFacts
<1>2. s \in Seq(S \cup {x})
  BY <1>1, SeqMonotonic
<1>3. Append(s, x) \in Seq(S \cup {x})
  BY <1>2, AppendProperties
<1>4. IsList(Append(s, x))
  BY <1>3, SeqIsList
<1> QED
  BY <1>2, <1>4, AppendProperties, LenProperties

LEMMA ListTail ==
    ASSUME NEW s, IsList(s), s # << >>
    PROVE  /\ IsList(Tail(s))
           /\ Len(Tail(s)) = Len(s) - 1
           /\ \A k \in 1..Len(Tail(s)) : k + 1 \in 1..Len(s) /\ Tail(s)[k] = s[k + 1]
           /\ Len(s) \in Nat \ {0}
           /\ Head(s) = s[1]
<1>1. PICK S : s \in Seq(S)
  BY ListFacts
<1>2. IsList(Tail(s))
  BY <1>1, HeadTailProperties, SeqIsList
<1>3. Len(s) \in Nat \ {0} /\ Head(s) = s[1]
  BY <1>1, EmptySeq
<1> QED
  BY <1>1, <1>2, <1>3, HeadTailProperties

-----------------------------------------------------------------------------
(* The requests of root.                                                   *)

LEMMA ServerOnly ==
    ASSUME IndInv, ServerInv', UNCHANGED <<deps, sent, executed, push, wire, inbox, runs>>
    PROVE  IndInv'
<1>1. Grows /\ HistoryInv'
  BY GrowsWhenSame
<1>2. PushInv' /\ WireInv' /\ InboxInv' /\ RunsInv'
  BY <1>1, Carried
<1> QED
  BY <1>1, <1>2 DEF IndInv

LEMMA PlaybookRequests ==
    ASSUME IndInv, PutPlaybook \/ SavePlaybook \/ DeletePlaybook
    PROVE  IndInv'
<1>1. UNCHANGED <<deps, sent, executed, push, wire, inbox, runs>>
  BY DEF PutPlaybook, SavePlaybook, DeletePlaybook, agentVars
<1>2. ServerInv'
  BY DEF IndInv, ServerInv, PutPlaybook, SavePlaybook, DeletePlaybook
<1> QED
  BY <1>1, <1>2, ServerOnly

LEMMA SetSecretInv ==
    ASSUME IndInv, NEW n \in SecretNames, SetSecret(n)
    PROVE  IndInv'
<1>1. UNCHANGED <<deps, sent, executed, push, wire, inbox, runs>>
  BY DEF SetSecret, agentVars
<1>2. PICK v \in SecretValues[n] : secrets' = Merged([m \in {n} |-> v], secrets)
  BY DEF SetSecret
<1>3. DOMAIN secrets' \subseteq SecretNames /\ \A m \in DOMAIN secrets' : secrets'[m] \in SecretValues[m]
  BY <1>2 DEF IndInv, ServerInv, Merged
<1>4. ServerInv'
  BY <1>3 DEF IndInv, ServerInv, SetSecret
<1> QED
  BY <1>1, <1>4, ServerOnly

LEMMA DeleteSecretInv ==
    ASSUME IndInv, NEW n \in SecretNames, DeleteSecret(n)
    PROVE  IndInv'
<1>1. UNCHANGED <<deps, sent, executed, push, wire, inbox, runs>>
  BY DEF DeleteSecret, agentVars
<1>2. secrets' = [m \in DOMAIN secrets \ {n} |-> secrets[m]]
  BY DEF DeleteSecret
<1>3. DOMAIN secrets' \subseteq SecretNames /\ \A m \in DOMAIN secrets' : secrets'[m] \in SecretValues[m]
  BY <1>2 DEF IndInv, ServerInv
<1>4. ServerInv'
  BY <1>3 DEF IndInv, ServerInv, DeleteSecret
<1> QED
  BY <1>1, <1>4, ServerOnly

LEMMA PutAgentInv ==
    ASSUME IndInv, PutAgent
    PROVE  IndInv'
<1>1. UNCHANGED <<deps, sent, executed, push, wire, inbox, runs>>
  BY DEF PutAgent, agentVars
<1>2. ServerInv'
  BY DEF IndInv, ServerInv, PutAgent
<1> QED
  BY <1>1, <1>2, ServerOnly

-----------------------------------------------------------------------------
(* The pushes.                                                             *)

LEMMA PusherOK ==
    ASSUME NEW pc \in {"off", "assign", "read"}, NEW force \in BOOLEAN, NEW n, NEW S, NEW E
    PROVE  PushOK(Pusher(pc, force), n, S, E)
BY DEF PushOK, Pusher, PushRecord, NoDep

(* One goroutine goes on with x.                                           *)
LEMMA OnePush ==
    ASSUME IndInv, Grows, HistoryInv', NEW t \in Pushers, NEW x,
           PushOK(x, Len(deps)', sent', executed'), push' = [push EXCEPT ![t] = x]
    PROVE  PushInv'
<1> DEFINE n2 == Len(deps)'
<1>0. Grown(Len(deps), sent, executed, n2, sent', executed') /\ PushOK(x, n2, sent', executed')
  BY DEF Grows
<1> HIDE DEF n2
<1>1. push = [u \in Pushers |-> push[u]]
  BY DEF IndInv, PushInv
<1>2. push' = [u \in Pushers |-> IF u = t THEN x ELSE push[u]]
  BY <1>1
<1>3. \A u \in Pushers : PushOK(push[u], n2, sent', executed')
  BY <1>0, StaysOK DEF IndInv, PushInv
<1>4. \A u \in Pushers : PushOK(push'[u], n2, sent', executed')
  BY <1>0, <1>2, <1>3
<1>5. push' = [u \in Pushers |-> push'[u]]
  BY <1>2
<1> QED
  BY <1>4, <1>5 DEF PushInv, n2

LEMMA ReturnOK ==
    ASSUME IndInv, Grows, HistoryInv', NEW t \in Pushers, Return(t)
    PROVE  PushInv'
BY PusherOK, OnePush DEF Return, Gone

LEMMA AssignInv ==
    ASSUME IndInv, Assign \/ AssignSaveAgent
    PROVE  IndInv'
<1>1. UNCHANGED <<deps, sent, executed, wire, inbox, runs>>
  BY DEF Assign, AssignSaveAgent, agentVars
<1>2. Grows /\ HistoryInv'
  BY <1>1, GrowsWhenSame
<1>3. ServerInv'
  <2>1. UNCHANGED <<playbook, edit, secrets, conn, online>> /\ assigned' \in {assigned, TRUE}
    BY DEF Assign, AssignSaveAgent
  <2> QED
    BY <2>1 DEF IndInv, ServerInv
<1>4. \E x : PushOK(x, Len(deps)', sent', executed') /\ push' = [push EXCEPT ![Root] = x]
  BY PusherOK DEF Assign, AssignSaveAgent, Gone
<1>5. PushInv'
  BY <1>2, <1>4, OnePush, Numbers
<1> QED
  BY <1>1, <1>2, <1>3, <1>5, Carried DEF IndInv

LEMMA ConnectInv ==
    ASSUME IndInv, Connect
    PROVE  IndInv'
<1>1. UNCHANGED <<deps, sent, executed, wire, inbox, runs>>
  BY DEF Connect, agentVars
<1>2. Grows /\ HistoryInv'
  BY <1>1, GrowsWhenSame
<1>3. conn + 1 \in ConnIds /\ conn' = conn + 1 /\ online' = TRUE
  BY Numbers DEF IndInv, ServerInv, Connect, ConnIds
<1>4. ServerInv'
  BY <1>3, Numbers DEF IndInv, ServerInv, Connect, ConnIds
<1>5. PushOK(Pusher("read", FALSE), Len(deps)', sent', executed')
  BY PusherOK
<1>6. PushInv'
  BY <1>2, <1>3, <1>5, OnePush, Numbers DEF Connect
<1> QED
  BY <1>1, <1>2, <1>4, <1>6, Carried DEF IndInv

LEMMA PushFrame ==
    ASSUME IndInv, NEW t \in Pushers, PushStep(t)
    PROVE  /\ ServerInv'
           /\ UNCHANGED <<wire, runs, executed>>
           /\ push[t] \in PushRecord
           /\ push = [u \in Pushers |-> push[u]]
<1>1. UNCHANGED <<playbook, edit, secrets, assigned, conn, online, wire, runs, executed>>
  BY DEF PushStep, PushRead, PushGetPlaybook, PushSaveDeployment, PushSend, PushError,
         pushUnchanged, agentVars
<1>2. ServerInv'
  BY <1>1 DEF IndInv, ServerInv
<1>3. push[t] \in PushRecord /\ push = [u \in Pushers |-> push[u]]
  BY DEF IndInv, PushInv, PushOK
<1> QED
  BY <1>1, <1>2, <1>3

LEMMA PushReadInv ==
    ASSUME IndInv, NEW t \in Pushers, PushRead(t)
    PROVE  IndInv'
<1>1. UNCHANGED <<deps, sent, executed, wire, inbox, runs>>
  BY DEF PushRead, agentVars, pushUnchanged
<1>2. Grows /\ HistoryInv'
  BY <1>1, GrowsWhenSame
<1>3. ServerInv' /\ push[t] \in PushRecord /\ push = [u \in Pushers |-> push[u]]
  BY PushFrame DEF PushStep
<1>4. PushOK(push[t], Len(deps), sent, executed)
  BY DEF IndInv, PushInv
<1> DEFINE x == [push[t] EXCEPT !.pc = "playbook", !.dep = Latest, !.resume = deps[Latest].resume]
           y == [push[t] EXCEPT !.pc = "playbook"]
<1>5. CASE push' = [push EXCEPT ![t].pc = "playbook", ![t].dep = Latest,
                                ![t].resume = deps[Latest].resume] /\ Latest # NoDep
  <2>1. push' = [push EXCEPT ![t] = x]
    BY <1>3, <1>5
  <2>2. Latest \in 1..Len(deps) /\ Latest \in Nat
    BY <1>5, LenProperties DEF IndInv, HistoryInv, Latest, NoDep
  <2>3. Claim(sent[Latest], executed[Latest], deps[Latest].resume) /\ deps[Latest].resume \in Nat
    <3>1. DeploymentOK(deps[Latest], sent[Latest], executed[Latest])
      BY <2>2 DEF IndInv, HistoryInv
    <3> QED
      BY <3>1 DEF DeploymentOK, DeploymentState, Indices
  <2>4. x \in PushRecord /\ x.pc = "playbook" /\ x.dep = Latest /\ x.resume = deps[Latest].resume
    BY <1>3, <2>2, <2>3 DEF PushRecord
  <2> HIDE DEF x
  <2>5. PushOK(x, Len(deps), sent, executed)
    BY <1>5, <2>2, <2>3, <2>4 DEF PushOK
  <2> QED
    BY <1>1, <1>2, <2>1, <2>5, OnePush, <1>3, Carried DEF IndInv
<1>6. CASE push' = [push EXCEPT ![t].pc = "playbook"]
  <2>1. push' = [push EXCEPT ![t] = y]
    BY <1>3, <1>6
  <2>2. /\ y \in PushRecord /\ y.pc = "playbook" /\ y.dep = push[t].dep
        /\ y.resume = push[t].resume
    BY <1>3 DEF PushRecord
  <2> HIDE DEF y
  <2>3. PushOK(y, Len(deps), sent, executed)
    BY <1>4, <2>2 DEF PushOK
  <2> QED
    BY <1>1, <1>2, <2>1, <2>3, OnePush, <1>3, Carried DEF IndInv
<1>7. CASE Return(t)
  BY <1>1, <1>2, <1>7, ReturnOK, <1>3, Carried DEF IndInv
<1> QED
  BY <1>5, <1>6, <1>7 DEF PushRead

LEMMA PushGetPlaybookInv ==
    ASSUME IndInv, NEW t \in Pushers, PushGetPlaybook(t)
    PROVE  IndInv'
<1>1. UNCHANGED <<deps, sent, executed, wire, inbox, runs>>
  BY DEF PushGetPlaybook, agentVars, pushUnchanged
<1>2. Grows /\ HistoryInv'
  BY <1>1, GrowsWhenSame
<1>3. ServerInv' /\ push[t] \in PushRecord /\ push = [u \in Pushers |-> push[u]]
  BY PushFrame DEF PushStep
<1>4. PushOK(push[t], Len(deps), sent, executed)
  BY DEF IndInv, PushInv
<1> DEFINE x == [push[t] EXCEPT !.pc = "save", !.content = playbook]
<1>5. CASE push' = [push EXCEPT ![t].pc = "save", ![t].content = playbook] /\ playbook # NoPlaybook
  <2>1. push' = [push EXCEPT ![t] = x]
    BY <1>3, <1>5
  <2>2. playbook \in Valid
    BY <1>5 DEF IndInv, ServerInv
  <2>3. /\ x \in PushRecord /\ x.pc = "save" /\ x.dep = push[t].dep
        /\ x.resume = push[t].resume /\ x.content = playbook
    BY <1>3, <2>2 DEF PushRecord
  <2> HIDE DEF x
  <2>4. PushOK(x, Len(deps), sent, executed)
    BY <1>4, <2>2, <2>3 DEF PushOK
  <2> QED
    BY <1>1, <1>2, <2>1, <2>4, OnePush, <1>3, Carried DEF IndInv
<1>6. CASE Return(t)
  BY <1>1, <1>2, <1>6, ReturnOK, <1>3, Carried DEF IndInv
<1> QED
  BY <1>5, <1>6 DEF PushGetPlaybook

(* A row that is saved over the one there was.                             *)
LEMMA SavedOver ==
    ASSUME IndInv, UNCHANGED <<sent, executed>>, NEW d \in 1..Len(deps), NEW x,
           DeploymentOK(x, sent[d], executed[d]), deps' = [deps EXCEPT ![d] = x]
    PROVE  Grows /\ HistoryInv' /\ Len(deps') = Len(deps)
<1>1. deps \in Seq(DeploymentState) /\ x \in DeploymentState
  BY DEF IndInv, HistoryInv, DeploymentOK
<1>2. /\ deps' \in Seq(DeploymentState) /\ Len(deps') = Len(deps) /\ Len(deps) \in Nat
      /\ \A e \in 1..Len(deps) : deps'[e] = IF e = d THEN x ELSE deps[e]
  BY <1>1, ExceptSeq, LenProperties
<1>3. Grows
  BY <1>2 DEF Grows, Grown
<1>4. \A e \in 1..Len(deps) : DeploymentOK(deps'[e], sent[e], executed[e])
  BY <1>2 DEF IndInv, HistoryInv
<1> QED
  BY <1>2, <1>3, <1>4 DEF IndInv, HistoryInv

(* A new row.                                                              *)
LEMMA SavedNew ==
    ASSUME IndInv, UNCHANGED <<sent, executed>>, Valid # {}, Len(deps) < MaxDeps,
           deps' = Append(deps, [status |-> "running", resume |-> 0])
    PROVE  /\ Grows /\ HistoryInv' /\ Len(deps') = Len(deps) + 1
           /\ Claim(sent[Len(deps) + 1], executed[Len(deps) + 1], 0)
<1> DEFINE x == [status |-> "running", resume |-> 0]
           n == Len(deps) + 1
<1>1. deps \in Seq(DeploymentState) /\ Len(deps) \in Nat
  BY LenProperties DEF IndInv, HistoryInv
<1>2. 0 \in Indices
  <2>1. PICK pb : pb \in Contents
    BY DEF Valid
  <2> QED
    BY <2>1, IndexFacts, FlatFacts
<1>3. Claim(sent[n], executed[n], 0)
  <2>1. \A pb \in Valid : \A k \in 1..Len(Flat[pb]) : ~(k <= 0)
    OBVIOUS
  <2> QED
    BY <1>2, <2>1 DEF Claim, Prefixed
<1>4. x \in DeploymentState /\ DeploymentOK(x, sent[n], executed[n])
  BY <1>2, <1>3 DEF DeploymentOK, DeploymentState
<1> HIDE DEF x
<1>5. /\ deps' \in Seq(DeploymentState) /\ Len(deps') = n
      /\ \A e \in 1..Len(deps) : deps'[e] = deps[e]
      /\ deps'[n] = x
  BY <1>1, <1>4, AppendProperties DEF x
<1>6. Grows
  BY <1>1, <1>5 DEF Grows, Grown
<1>7. \A e \in 1..n : DeploymentOK(deps'[e], sent[e], executed[e])
  <2>1. \A e \in 1..n : e = n \/ e \in 1..Len(deps)
    BY <1>1
  <2> HIDE DEF n
  <2> QED
    BY <1>4, <1>5, <2>1 DEF IndInv, HistoryInv
<1>8. n <= MaxDeps
  BY <1>1, Numbers
<1>9. HistoryInv'
  BY <1>5, <1>7, <1>8 DEF IndInv, HistoryInv
<1> QED
  BY <1>3, <1>5, <1>6, <1>9

LEMMA PushSaveDeploymentInv ==
    ASSUME IndInv, NEW t \in Pushers, PushSaveDeployment(t)
    PROVE  IndInv'
<1>1. UNCHANGED <<sent, executed, wire, inbox, runs>>
  BY DEF PushSaveDeployment, agentVars, pushUnchanged
<1>2. ServerInv' /\ push[t] \in PushRecord /\ push = [u \in Pushers |-> push[u]]
  BY PushFrame DEF PushStep
<1>3. PushOK(push[t], Len(deps), sent, executed) /\ push[t].content \in Valid
  BY DEF IndInv, PushInv, PushSaveDeployment, PushOK
<1> DEFINE d == push[t].dep
           row == [status |-> "running", resume |-> push[t].resume]
           x == [push[t] EXCEPT !.pc = "send"]
           y == [push[t] EXCEPT !.pc = "send", !.dep = Len(deps) + 1]
<1>4. CASE /\ d # NoDep
           /\ deps' = [deps EXCEPT ![d] = row]
           /\ push' = [push EXCEPT ![t].pc = "send"]
  <2>1. d \in 1..Len(deps) /\ Claim(sent[d], executed[d], push[t].resume)
    BY <1>3, <1>4 DEF PushOK
  <2>2. DeploymentOK(row, sent[d], executed[d])
    BY <2>1 DEF DeploymentOK, DeploymentState, Claim
  <2>3. push' = [push EXCEPT ![t] = x]
    BY <1>2, <1>4
  <2>4. /\ x \in PushRecord /\ x.pc = "send" /\ x.dep = push[t].dep
        /\ x.resume = push[t].resume /\ x.content = push[t].content
    BY <1>2 DEF PushRecord
  <2> HIDE DEF row, x
  <2>5. Grows /\ HistoryInv' /\ Len(deps') = Len(deps)
    BY <1>1, <1>4, <2>1, <2>2, SavedOver
  <2>6. PushOK(x, Len(deps), sent, executed)
    BY <1>3, <1>4, <2>4 DEF PushOK
  <2>7. PushOK(x, Len(deps)', sent', executed')
    BY <1>1, <2>5, <2>6
  <2>8. PushInv'
    BY <2>3, <2>5, <2>7, OnePush
  <2> QED
    BY <1>1, <1>2, <2>5, <2>8, Carried DEF IndInv
<1>5. CASE /\ d = NoDep
           /\ Len(deps) < MaxDeps
           /\ deps' = Append(deps, [status |-> "running", resume |-> 0])
           /\ push' = [push EXCEPT ![t].pc = "send", ![t].dep = Len(deps) + 1]
  <2>1. /\ Grows /\ HistoryInv' /\ Len(deps') = Len(deps) + 1
        /\ Claim(sent[Len(deps) + 1], executed[Len(deps) + 1], 0)
    BY <1>1, <1>3, <1>5, SavedNew
  <2>2. push' = [push EXCEPT ![t] = y]
    BY <1>2, <1>5
  <2>3. Len(deps) \in Nat
    BY LenProperties DEF IndInv, HistoryInv
  <2>4. /\ y \in PushRecord /\ y.pc = "send" /\ y.dep = Len(deps) + 1
        /\ y.resume = 0 /\ y.content = push[t].content
    BY <1>2, <1>3, <1>5, <2>3 DEF PushRecord, PushOK
  <2> HIDE DEF y
  <2>5. PushOK(y, Len(deps) + 1, sent, executed)
    BY <1>3, <2>1, <2>3, <2>4 DEF PushOK, NoDep
  <2>6. PushOK(y, Len(deps)', sent', executed')
    BY <1>1, <2>1, <2>5
  <2>7. PushInv'
    BY <2>1, <2>2, <2>6, OnePush
  <2> QED
    BY <1>1, <1>2, <2>1, <2>7, Carried DEF IndInv
<1> QED
  BY <1>4, <1>5 DEF PushSaveDeployment

LEMMA PushErrorInv ==
    ASSUME IndInv, NEW t \in Pushers, PushError(t)
    PROVE  IndInv'
<1>1. UNCHANGED <<deps, sent, executed, wire, inbox, runs>> /\ Return(t)
  BY DEF PushError, agentVars, pushUnchanged
<1>2. Grows /\ HistoryInv'
  BY <1>1, GrowsWhenSame
<1>3. ServerInv'
  BY PushFrame DEF PushStep
<1> QED
  BY <1>1, <1>2, <1>3, ReturnOK, Carried DEF IndInv

(* More is pushed or executed for the deployments there are.               *)
LEMMA MoreKnown ==
    ASSUME IndInv, deps' = deps, sent' \in [DepIds -> SUBSET Valid],
           \A d \in DepIds : IsFiniteSet(sent'[d]),
           executed' = [d \in DepIds |-> executed'[d]],
           \A d \in DepIds : sent[d] \subseteq sent'[d] /\ executed[d] \subseteq executed'[d]
    PROVE  Grows /\ HistoryInv'
<1>1. Len(deps) \in Nat /\ \A d \in 1..Len(deps) : d \in DepIds
  BY LenProperties, Numbers DEF IndInv, HistoryInv, DepIds
<1>2. Grows
  BY <1>1 DEF Grows, Grown
<1>3. \A d \in 1..Len(deps) : DeploymentOK(deps[d], sent'[d], executed'[d])
  <2> TAKE d \in 1..Len(deps)
  <2>1. DeploymentOK(deps[d], sent[d], executed[d])
    BY DEF IndInv, HistoryInv
  <2>2. sent[d] \subseteq sent'[d] /\ executed[d] \subseteq executed'[d]
    BY <1>1
  <2>3. /\ \A i : Claim(sent[d], executed[d], i) => Claim(sent'[d], executed'[d], i)
        /\ Whole(sent[d], executed[d]) => Whole(sent'[d], executed'[d])
    BY <2>2, ClaimKept
  <2> QED
    BY <2>1, <2>3 DEF DeploymentOK
<1> QED
  BY <1>2, <1>3 DEF IndInv, HistoryInv

LEMMA PushSendInv ==
    ASSUME IndInv, NEW t \in Pushers, PushSend(t)
    PROVE  IndInv'
<1>1. UNCHANGED <<deps, executed, wire, runs>> /\ Return(t)
  BY DEF PushSend, pushUnchanged
<1>2. ServerInv'
  BY PushFrame DEF PushStep
<1>3. PICK d, c, i : d = push[t].dep /\ c = push[t].content /\ i = push[t].resume
  OBVIOUS
<1>4. d \in 1..Len(deps) /\ c \in Valid /\ Claim(sent[d], executed[d], i) /\ d \in DepIds
  <2>1. PushOK(push[t], Len(deps), sent, executed) /\ push[t].pc = "send"
    BY DEF IndInv, PushInv, PushSend
  <2>2. d \in 1..Len(deps) /\ c \in Valid /\ Claim(sent[d], executed[d], i)
    BY <1>3, <2>1 DEF PushOK
  <2>3. Len(deps) \in Nat /\ Len(deps) <= MaxDeps
    BY LenProperties DEF IndInv, HistoryInv
  <2> QED
    BY <2>2, <2>3, Numbers DEF DepIds
<1>5. CASE ~online
  <2>1. UNCHANGED <<sent, inbox>>
    BY <1>5 DEF PushSend
  <2>2. Grows /\ HistoryInv'
    BY <1>1, <2>1, GrowsWhenSame
  <2> QED
    BY <1>1, <1>2, <2>1, <2>2, ReturnOK, Carried DEF IndInv
<1>6. CASE online
  <2>1. sent' = [sent EXCEPT ![d] = sent[d] \cup {c}]
    BY <1>3, <1>6 DEF PushSend
  <2>2. sent \in [DepIds -> SUBSET Valid] /\ \A e \in DepIds : IsFiniteSet(sent[e])
    BY DEF IndInv, HistoryInv
  <2>3. /\ sent' \in [DepIds -> SUBSET Valid]
        /\ \A e \in DepIds : sent[e] \subseteq sent'[e]
        /\ c \in sent'[d]
    BY <1>4, <2>1, <2>2
  <2>4. \A e \in DepIds : IsFiniteSet(sent'[e])
    <3>1. IsFiniteSet(sent[d] \cup {c})
      BY <1>4, <2>2, FS_AddElement
    <3> QED
      BY <1>4, <2>1, <2>2, <3>1
  <2>5. Grows /\ HistoryInv'
    <3>1. executed' = [e \in DepIds |-> executed'[e]] /\ \A e \in DepIds : executed[e] \subseteq executed'[e]
      BY <1>1 DEF IndInv, HistoryInv
    <3> QED
      BY <1>1, <2>3, <2>4, <3>1, MoreKnown
  <2>6. PICK v : inbox' = Append(inbox, [dep |-> d, content |-> c, resume |-> i, secrets |-> v])
    BY <1>3, <1>6 DEF PushSend
  <2> DEFINE m == [dep |-> d, content |-> c, resume |-> i, secrets |-> v]
  <2>7. MessageOK(m, Len(deps), sent', executed')
    <3>1. Claim(sent'[d], executed[d], i)
      BY <1>4, <2>3, ClaimKept
    <3> QED
      BY <1>1, <1>4, <2>3, <3>1 DEF MessageOK
  <2> HIDE DEF m
  <2>8. InboxInv'
    <3>1. IsList(inbox) /\ \A k \in 1..Len(inbox) : MessageOK(inbox[k], Len(deps), sent, executed)
      BY DEF IndInv, InboxInv
    <3>2. Grown(Len(deps), sent, executed, Len(deps), sent', executed')
      BY <1>1, <2>5 DEF Grows
    <3>3. \A k \in 1..Len(inbox) : MessageOK(inbox[k], Len(deps), sent', executed')
      BY <3>1, <3>2, StaysOK
    <3>4. inbox' = Append(inbox, m)
      BY <2>6 DEF m
    <3>5. IsList(inbox') /\ Len(inbox') = Len(inbox) + 1 /\ inbox'[Len(inbox) + 1] = m
          /\ Len(inbox) \in Nat /\ \A k \in 1..Len(inbox) : inbox'[k] = inbox[k]
      BY <3>1, <3>4, ListAppend
    <3>6. \A k \in 1..Len(inbox') : k \in 1..Len(inbox) \/ k = Len(inbox) + 1
      BY <3>5
    <3>7. \A k \in 1..Len(inbox') : MessageOK(inbox'[k], Len(deps), sent', executed')
      BY <2>7, <3>3, <3>5, <3>6
    <3> QED
      BY <1>1, <3>5, <3>7 DEF InboxInv
  <2> QED
    BY <1>1, <1>2, <2>5, <2>8, ReturnOK, Carried DEF IndInv
<1> QED
  BY <1>5, <1>6

-----------------------------------------------------------------------------
(* The agent.                                                              *)

(* One goroutine goes on with x, or ends.                                  *)
LEMMA OneRun ==
    ASSUME IndInv, Grows, HistoryInv', NEW r \in RunIds, NEW x,
           x = NoRun \/ RunOK(x, Len(deps)', sent', executed'),
           runs' = [runs EXCEPT ![r] = x]
    PROVE  RunsInv'
<1> DEFINE n2 == Len(deps)'
<1>0. /\ Grown(Len(deps), sent, executed, n2, sent', executed')
      /\ x = NoRun \/ RunOK(x, n2, sent', executed')
  BY DEF Grows
<1> HIDE DEF n2
<1>1. runs = [q \in RunIds |-> runs[q]]
  BY DEF IndInv, RunsInv
<1>2. runs' = [q \in RunIds |-> IF q = r THEN x ELSE runs[q]]
  BY <1>1
<1>3. \A q \in RunIds : runs[q] # NoRun => RunOK(runs[q], n2, sent', executed')
  BY <1>0, StaysOK DEF IndInv, RunsInv
<1>4. \A q \in RunIds : runs'[q] # NoRun => RunOK(runs'[q], n2, sent', executed')
  BY <1>0, <1>2, <1>3
<1>5. runs' = [q \in RunIds |-> runs'[q]]
  BY <1>2
<1> QED
  BY <1>4, <1>5 DEF RunsInv, n2

LEMMA RunFrame ==
    ASSUME IndInv, UNCHANGED runUnchanged
    PROVE  ServerInv' /\ UNCHANGED <<deps, sent, push, conn, online>>
<1>1. UNCHANGED <<playbook, edit, secrets, assigned, deps, push, conn, online, sent>>
  BY DEF runUnchanged, serverVars
<1>2. ServerInv'
  BY <1>1 DEF IndInv, ServerInv
<1> QED
  BY <1>1, <1>2

LEMMA ReceivePlaybookInv ==
    ASSUME IndInv, ReceivePlaybook
    PROVE  IndInv'
<1>1. UNCHANGED <<deps, sent, executed, push, wire>> /\ inbox # << >> /\ inbox' = Tail(inbox)
  BY DEF ReceivePlaybook, runUnchanged, serverVars
<1>2. Grows /\ HistoryInv'
  BY <1>1, GrowsWhenSame
<1>3. ServerInv'
  BY DEF ReceivePlaybook, runUnchanged, serverVars, IndInv, ServerInv
<1>4. IsList(inbox) /\ \A k \in 1..Len(inbox) : MessageOK(inbox[k], Len(deps), sent, executed)
  BY DEF IndInv, InboxInv
<1>5. /\ IsList(Tail(inbox))
      /\ \A k \in 1..Len(Tail(inbox)) : k + 1 \in 1..Len(inbox) /\ Tail(inbox)[k] = inbox[k + 1]
      /\ Len(inbox) \in Nat \ {0} /\ Head(inbox) = inbox[1]
  BY <1>1, <1>4, ListTail
<1>6. InboxInv'
  <2>1. \A k \in 1..Len(Tail(inbox)) : MessageOK(Tail(inbox)[k], Len(deps), sent, executed)
    BY <1>4, <1>5
  <2> QED
    BY <1>1, <1>5, <2>1 DEF InboxInv
<1>7. PICK m : m = Head(inbox) /\ MessageOK(m, Len(deps), sent, executed)
  BY <1>4, <1>5
<1>8. PICK r \in RunIds : runs' = [runs EXCEPT ![r] =
                      [pc |-> "next", conn |-> conn, dep |-> m.dep,
                       content |-> m.content, resume |-> m.resume,
                       secrets |-> m.secrets, at |-> 0, env |-> << >>]]
  BY <1>7 DEF ReceivePlaybook
<1> DEFINE x == [pc |-> "next", conn |-> conn, dep |-> m.dep,
                 content |-> m.content, resume |-> m.resume,
                 secrets |-> m.secrets, at |-> 0, env |-> << >>]
<1>9. /\ x = [f \in RunFields |-> x[f]] /\ x.pc = "next" /\ x.dep = m.dep
      /\ x.content = m.content /\ x.resume = m.resume /\ x.at = 0
  BY DEF RunFields
<1> HIDE DEF x
<1>10. RunOK(x, Len(deps), sent, executed)
  <2>1. MessageOK(x, Len(deps), sent, executed)
    BY <1>7, <1>9 DEF MessageOK
  <2>2. Len(Flat[x.content]) \in Nat
    BY <2>1, FlatFacts DEF MessageOK, Valid
  <2>3. Prefixed(sent[x.dep], executed[x.dep], 0)
    BY DEF Prefixed
  <2> QED
    BY <1>9, <2>1, <2>2, <2>3 DEF RunOK, Passed
<1>11. RunsInv'
  BY <1>1, <1>2, <1>8, <1>10, OneRun DEF x
<1> QED
  BY <1>1, <1>2, <1>3, <1>6, <1>11, Carried DEF IndInv

(* What a run knows of the content c it was given.                         *)
LEMMA Onwards ==
    ASSUME NEW S, NEW E, NEW c \in Valid, c \in S, NEW i \in Int,
           NEW a \in Int, NEW k \in Int, Prefixed(S, E, a), Prefixed(S, E, i),
           \A j \in 1..Len(Flat[c]) : a < j /\ j <= k => j <= i
    PROVE  Prefixed(S, E, k)
<1> SUFFICES ASSUME NEW pb \in Valid, S = {pb},
                    NEW j \in 1..Len(Flat[pb]), j <= k
             PROVE  Flat[pb][j].step \in E
  BY DEF Prefixed
<1>1. pb = c
  OBVIOUS
<1>2. j <= a \/ j <= i
  BY <1>1
<1> QED
  BY <1>2 DEF Prefixed

LEMMA AllDone ==
    ASSUME NEW S, NEW E, NEW c \in Valid, c \in S, Prefixed(S, E, Len(Flat[c]))
    PROVE  Whole(S, E)
<1>1. ASSUME NEW pb \in Valid, S = {pb}, NEW k \in 1..Len(Flat[pb])
      PROVE  Flat[pb][k].step \in E
  <2>1. pb = c
    BY <1>1
  <2>2. k <= Len(Flat[pb])
    BY <2>1, FlatFacts DEF Valid
  <2> QED
    BY <1>1, <2>1, <2>2 DEF Prefixed
<1> QED
  BY <1>1 DEF Whole

LEMMA Executes ==
    ASSUME NEW S, NEW E, NEW c \in Valid, c \in S,
           NEW a \in 1..Len(Flat[c]), Prefixed(S, E, a - 1)
    PROVE  Prefixed(S, E \cup {Flat[c][a].step}, a)
<1> SUFFICES ASSUME NEW pb \in Valid, S = {pb},
                    NEW j \in 1..Len(Flat[pb]), j <= a
             PROVE  Flat[pb][j].step \in E \cup {Flat[c][a].step}
  BY DEF Prefixed
<1>1. pb = c
  OBVIOUS
<1>2. j = a \/ j <= a - 1
  BY <1>1
<1> QED
  BY <1>1, <1>2 DEF Prefixed

(* The facts about run r that its steps use.                               *)
LEMMA RunFacts ==
    ASSUME IndInv, NEW r \in RunIds, NEW x, x = runs[r], x # NoRun
    PROVE  /\ RunOK(x, Len(deps), sent, executed)
           /\ x.dep \in 1..Len(deps) /\ x.dep \in DepIds /\ x.dep \in Nat
           /\ x.content \in Valid /\ x.content \in Contents
           /\ x.content \in sent[x.dep]
           /\ x.at \in Nat /\ x.at <= Len(Flat[x.content]) /\ Len(Flat[x.content]) \in Nat
           /\ x.resume \in Nat
           /\ Prefixed(sent[x.dep], executed[x.dep], x.resume)
           /\ Prefixed(sent[x.dep], executed[x.dep], Passed(x))
           /\ \A k \in 1..Len(Flat[x.content]) : Flat[x.content][k].global = k - 1
<1>1. RunOK(x, Len(deps), sent, executed)
  BY DEF IndInv, RunsInv
<1>2. MessageOK(x, Len(deps), sent, executed)
  BY <1>1 DEF RunOK
<1>3. x.dep \in 1..Len(deps) /\ x.content \in Valid /\ x.content \in sent[x.dep]
  BY <1>2 DEF MessageOK
<1>4. Len(deps) \in Nat /\ Len(deps) <= MaxDeps
  BY LenProperties DEF IndInv, HistoryInv
<1>5. x.dep \in DepIds /\ x.dep \in Nat
  BY <1>3, <1>4, Numbers DEF DepIds
<1>6. /\ x.content \in Contents /\ Len(Flat[x.content]) \in Nat
      /\ \A k \in 1..Len(Flat[x.content]) : Flat[x.content][k].global = k - 1
  BY <1>3, FlatFacts DEF Valid
<1>7. x.resume \in Nat /\ Prefixed(sent[x.dep], executed[x.dep], x.resume)
  BY <1>2 DEF MessageOK, Claim, Indices
<1>8. x.at \in Nat /\ x.at <= Len(Flat[x.content])
  BY <1>1, <1>6 DEF RunOK
<1>9. Prefixed(sent[x.dep], executed[x.dep], Passed(x))
  BY <1>1 DEF RunOK
<1> QED
  BY <1>1, <1>3, <1>5, <1>6, <1>7, <1>8, <1>9

(* A report that tells the truth is sent, or lost.                         *)
LEMMA Reported ==
    ASSUME IndInv, Grows, NEW r \in RunIds, NEW type, NEW index, NEW m,
           m = [type |-> type, dep |-> runs[r].dep, index |-> index],
           ReportOK(m, Len(deps)', sent', executed'), Report(r, type, index)
    PROVE  WireInv'
<1>1. CASE wire' = wire
  BY <1>1, Carried
<1>2. CASE online /\ wire' = [wire EXCEPT ![conn] = Append(wire[conn], m)]
  <2> DEFINE n2 == Len(deps)'
  <2>0. /\ Grown(Len(deps), sent, executed, n2, sent', executed')
        /\ ReportOK(m, n2, sent', executed')
    BY DEF Grows
  <2> HIDE DEF n2
  <2>1. wire \in [ConnIds -> Seq(ReportRecord)] /\ conn \in ConnIds
    BY <1>2 DEF IndInv, WireInv, ServerInv
  <2>2. m \in ReportRecord
    BY <2>0 DEF ReportOK
  <2>3. PICK q : q = wire[conn] /\ q \in Seq(ReportRecord)
    BY <2>1
  <2>4. /\ Append(q, m) \in Seq(ReportRecord) /\ Len(q) \in Nat
        /\ Len(Append(q, m)) = Len(q) + 1
        /\ \A k \in 1..Len(q) : Append(q, m)[k] = q[k]
        /\ Append(q, m)[Len(q) + 1] = m
    BY <2>2, <2>3, AppendProperties, LenProperties
  <2>5. wire' = [c \in ConnIds |-> IF c = conn THEN Append(q, m) ELSE wire[c]]
    BY <1>2, <2>1, <2>3
  <2>6. \A c \in ConnIds : \A k \in 1..Len(wire[c]) : ReportOK(wire[c][k], n2, sent', executed')
    BY <2>0, StaysOK DEF IndInv, WireInv
  <2>7. \A k \in 1..Len(Append(q, m)) : ReportOK(Append(q, m)[k], n2, sent', executed')
    <3>1. \A k \in 1..Len(Append(q, m)) : k \in 1..Len(q) \/ k = Len(q) + 1
      BY <2>4
    <3>2. \A k \in 1..Len(q) : ReportOK(q[k], n2, sent', executed')
      BY <2>1, <2>3, <2>6
    <3> QED
      BY <2>0, <2>4, <3>1, <3>2
  <2>8. wire' \in [ConnIds -> Seq(ReportRecord)]
    BY <2>1, <2>4, <2>5
  <2>9. \A c \in ConnIds : \A k \in 1..Len(wire'[c]) : ReportOK(wire'[c][k], n2, sent', executed')
    BY <2>5, <2>6, <2>7
  <2> QED
    BY <2>8, <2>9 DEF WireInv, n2
<1> QED
  BY <1>1, <1>2 DEF Report

(* The same goroutine elsewhere in the playbook.                           *)
LEMMA RunMoved ==
    ASSUME NEW x, NEW n, NEW S, NEW E, RunOK(x, n, S, E), NEW y,
           NEW pc \in {"next", "resolve", "shell", "reboot", "rebooting"},
           NEW at \in 0..Len(Flat[x.content]), NEW env,
           y = [x EXCEPT !.pc = pc, !.at = at, !.env = env],
           pc # "next" => at > 0,
           Prefixed(S[x.dep], E[x.dep], IF pc \in {"next", "rebooting"} THEN at ELSE at - 1)
    PROVE  RunOK(y, n, S, E)
<1>1. /\ y = [f \in RunFields |-> y[f]]
      /\ y.pc = pc /\ y.at = at /\ y.dep = x.dep
      /\ y.content = x.content /\ y.resume = x.resume
  <2>1. x = [f \in RunFields |-> x[f]]
    BY DEF RunOK
  <2> QED
    BY <2>1 DEF RunFields
<1>2. MessageOK(y, n, S, E)
  BY <1>1 DEF RunOK, MessageOK
<1>3. Prefixed(S[y.dep], E[y.dep], Passed(y))
  BY <1>1 DEF Passed
<1> QED
  BY <1>1, <1>2, <1>3 DEF RunOK

(* The steps of run x up to position k, when all from its next one up to   *)
(* k are skipped.                                                          *)
LEMMA SkipsUpTo ==
    ASSUME IndInv, NEW r \in RunIds, NEW x, x = runs[r], x.pc = "next",
           NEW k \in Nat, k <= Len(Flat[x.content]),
           \A j \in Remaining(x, x.at + 1) : k < j
    PROVE  Prefixed(sent[x.dep], executed[x.dep], k)
<1>1. x # NoRun
  BY DEF NoRun
<1>2. /\ x.content \in Valid /\ x.content \in sent[x.dep]
      /\ x.at \in Nat /\ x.at <= Len(Flat[x.content]) /\ Len(Flat[x.content]) \in Nat
      /\ x.resume \in Nat
      /\ Prefixed(sent[x.dep], executed[x.dep], x.resume)
      /\ Prefixed(sent[x.dep], executed[x.dep], Passed(x))
      /\ \A j \in 1..Len(Flat[x.content]) : Flat[x.content][j].global = j - 1
  BY <1>1, RunFacts
<1>3. Prefixed(sent[x.dep], executed[x.dep], x.at)
  BY <1>2 DEF Passed
<1>4. ASSUME NEW j \in 1..Len(Flat[x.content]), x.at < j, j <= k
      PROVE  j <= x.resume
  <2>1. j \in (x.at + 1)..Len(Flat[x.content]) /\ j \notin Remaining(x, x.at + 1)
    BY <1>2, <1>4
  <2>2. ~(j - 1 >= x.resume)
    BY <1>2, <2>1 DEF Remaining
  <2> QED
    BY <1>2, <2>2
<1>5. x.at \in Int /\ x.resume \in Int /\ k \in Int
  BY <1>2
<1>6. PICK S, E, c : S = sent[x.dep] /\ E = executed[x.dep] /\ c = x.content
  OBVIOUS
<1>7. \A j \in 1..Len(Flat[c]) : x.at < j /\ j <= k => j <= x.resume
  BY <1>4, <1>6
<1>8. Prefixed(S, E, k)
  BY <1>2, <1>3, <1>5, <1>6, <1>7, Onwards
<1> QED
  BY <1>6, <1>8

LEMMA StepStartInv ==
    ASSUME IndInv, NEW r \in RunIds, StepStart(r)
    PROVE  IndInv'
<1>1. ServerInv' /\ UNCHANGED <<deps, sent, executed, push, inbox>>
  BY RunFrame DEF StepStart
<1>2. Grows /\ HistoryInv'
  BY <1>1, GrowsWhenSame
<1>3. PICK x, rest, k, step :
        /\ x = runs[r] /\ rest = Remaining(x, x.at + 1) /\ k = Min(rest)
        /\ step = Flat[x.content][k]
  OBVIOUS
<1>4. /\ x.pc = "next" /\ rest # {}
      /\ Report(r, "step_start", step.global)
      /\ runs' = [runs EXCEPT ![r].pc = IF step.step.reboot THEN "reboot" ELSE "resolve",
                              ![r].at = k, ![r].env = step.step.env]
  BY <1>3 DEF StepStart
<1>5. x # NoRun
  BY <1>4 DEF NoRun
<1>6. /\ RunOK(x, Len(deps), sent, executed)
      /\ x.dep \in 1..Len(deps) /\ x.dep \in Nat /\ x.content \in Contents
      /\ x.content \in sent[x.dep] /\ x.at \in Nat /\ Len(Flat[x.content]) \in Nat
      /\ \A j \in 1..Len(Flat[x.content]) : Flat[x.content][j].global = j - 1
  BY <1>3, <1>5, RunFacts
<1>7. rest \in SUBSET ((x.at + 1)..Len(Flat[x.content])) /\ rest \in SUBSET Nat
  <2>1. rest \in SUBSET ((x.at + 1)..Len(Flat[x.content]))
    BY <1>3 DEF Remaining
  <2>2. (x.at + 1)..Len(Flat[x.content]) \subseteq Nat
    BY <1>6
  <2> QED
    BY <2>1, <2>2
<1>8. k \in rest /\ \A j \in rest : k <= j
  BY <1>3, <1>4, <1>7, MinFacts
<1>9. k \in 1..Len(Flat[x.content]) /\ k - 1 \in Nat /\ k - 1 <= Len(Flat[x.content])
  <2>1. k \in (x.at + 1)..Len(Flat[x.content])
    BY <1>7, <1>8
  <2>2. x.at \in Nat /\ Len(Flat[x.content]) \in Nat
    BY <1>6
  <2> QED
    BY <2>1, <2>2
<1>10. \A j \in rest : k - 1 < j
  BY <1>7, <1>8
<1>11. Prefixed(sent[x.dep], executed[x.dep], k - 1)
  BY <1>3, <1>4, <1>9, <1>10, SkipsUpTo
<1>12. Claim(sent[x.dep], executed[x.dep], k - 1)
  <2>1. k - 1 \in Indices
    BY <1>6, <1>9, IndexFacts
  <2> QED
    BY <1>6, <1>11, <2>1 DEF Claim
<1>13. step.global = k - 1
  BY <1>3, <1>6, <1>9
<1>14. WireInv'
  <2> DEFINE m == [type |-> "step_start", dep |-> x.dep, index |-> k - 1]
  <2>1. m \in ReportRecord /\ m.type = "step_start" /\ m.dep = x.dep /\ m.index = k - 1
    BY <1>6, <1>9 DEF ReportRecord
  <2>2. m = [type |-> "step_start", dep |-> runs[r].dep, index |-> k - 1]
    BY <1>3
  <2> HIDE DEF m
  <2>3. ReportOK(m, Len(deps), sent, executed)
    BY <1>6, <1>12, <2>1 DEF ReportOK
  <2>4. ReportOK(m, Len(deps)', sent', executed')
    BY <1>1, <2>3
  <2> QED
    BY <1>2, <1>4, <1>13, <2>2, <2>4, Reported
<1>15. RunsInv'
  <2> DEFINE pc == IF step.step.reboot THEN "reboot" ELSE "resolve"
             env == step.step.env
             y == [x EXCEPT !.pc = pc, !.at = k, !.env = env]
  <2>1. pc \in {"reboot", "resolve"}
    OBVIOUS
  <2>2. runs = [q \in RunIds |-> runs[q]]
    BY DEF IndInv, RunsInv
  <2>3. runs' = [runs EXCEPT ![r] = y]
    BY <1>3, <1>4, <2>2
  <2> HIDE DEF pc, env
  <2>4. RunOK(y, Len(deps), sent, executed)
    <3>1. k \in 0..Len(Flat[x.content]) /\ k > 0
      BY <1>9
    <3>2. Prefixed(sent[x.dep], executed[x.dep],
                   IF pc \in {"next", "rebooting"} THEN k ELSE k - 1)
      BY <1>11, <2>1
    <3>3. pc \in {"next", "resolve", "shell", "reboot", "rebooting"}
      BY <2>1
    <3> QED
      BY <1>6, <3>1, <3>2, <3>3, RunMoved
  <2> HIDE DEF y
  <2>5. RunOK(y, Len(deps)', sent', executed')
    BY <1>1, <2>4
  <2> QED
    BY <1>2, <2>3, <2>5, OneRun
<1> QED
  BY <1>1, <1>2, <1>14, <1>15, Carried DEF IndInv

LEMMA ResolveSecretsInv ==
    ASSUME IndInv, NEW r \in RunIds, ResolveSecrets(r)
    PROVE  IndInv'
<1>1. ServerInv' /\ UNCHANGED <<deps, sent, executed, push, inbox, wire>>
  BY RunFrame DEF ResolveSecrets
<1>2. Grows /\ HistoryInv'
  BY <1>1, GrowsWhenSame
<1>3. PICK x : x = runs[r] /\ x.pc = "resolve"
  BY DEF ResolveSecrets
<1>4. x # NoRun
  BY <1>3 DEF NoRun
<1>5. RunOK(x, Len(deps), sent, executed)
  BY <1>3, <1>4, RunFacts
<1>6. x = [f \in RunFields |-> x[f]] /\ runs = [q \in RunIds |-> runs[q]]
  BY <1>5 DEF RunOK, IndInv, RunsInv
<1>7. \E pc \in {"resolve", "shell"} : \E env :
         runs' = [runs EXCEPT ![r] = [x EXCEPT !.pc = pc, !.at = x.at, !.env = env]]
  <2>1. CASE runs' = [runs EXCEPT ![r].env = ResolveFirst(@, runs[r].secrets)]
    <3>1. PICK e : e = ResolveFirst(x.env, x.secrets)
      OBVIOUS
    <3>2. runs' = [runs EXCEPT ![r] = [x EXCEPT !.env = e]]
      BY <1>3, <2>1, <3>1
    <3>3. [x EXCEPT !.env = e] = [x EXCEPT !.pc = "resolve", !.at = x.at, !.env = e]
      BY <1>3, <1>6 DEF RunFields
    <3> QED
      BY <3>2, <3>3
  <2>2. CASE runs' = [runs EXCEPT ![r].pc = "shell"]
    <3>1. runs' = [runs EXCEPT ![r] = [x EXCEPT !.pc = "shell"]]
      BY <1>3, <2>2
    <3>2. [x EXCEPT !.pc = "shell"] = [x EXCEPT !.pc = "shell", !.at = x.at, !.env = x.env]
      BY <1>3, <1>6 DEF RunFields
    <3> QED
      BY <3>1, <3>2
  <2> QED
    BY <2>1, <2>2 DEF ResolveSecrets
<1>8. PICK pc \in {"resolve", "shell"} : \E env :
         runs' = [runs EXCEPT ![r] = [x EXCEPT !.pc = pc, !.at = x.at, !.env = env]]
  BY <1>7
<1>9. PICK env : runs' = [runs EXCEPT ![r] = [x EXCEPT !.pc = pc, !.at = x.at, !.env = env]]
  BY <1>8
<1> DEFINE y == [x EXCEPT !.pc = pc, !.at = x.at, !.env = env]
<1>10. RunOK(y, Len(deps), sent, executed)
  <2>1. /\ x.at \in 0..Len(Flat[x.content]) /\ x.at > 0
        /\ Prefixed(sent[x.dep], executed[x.dep], x.at - 1)
    BY <1>3, <1>5 DEF RunOK, Passed
  <2> QED
    BY <1>5, <2>1, RunMoved
<1> HIDE DEF y
<1>11. RunOK(y, Len(deps)', sent', executed')
  BY <1>1, <1>10
<1>12. RunsInv'
  BY <1>2, <1>9, <1>11, OneRun DEF y
<1> QED
  BY <1>1, <1>2, <1>12, Carried DEF IndInv

(* RunStep has finished the step that run x is at.                         *)
LEMMA StepExecuted ==
    ASSUME IndInv, NEW r \in RunIds, NEW x, x = runs[r], x.pc \in {"shell", "reboot"},
           Executed(r), UNCHANGED <<deps, sent>>
    PROVE  /\ Grows /\ HistoryInv'
           /\ RunOK(x, Len(deps), sent', executed')
           /\ x.dep \in Nat /\ x.dep \in 1..Len(deps) /\ x.at \in 1..Len(Flat[x.content])
           /\ OrderedStep(r).global = x.at - 1
           /\ Prefixed(sent'[x.dep], executed'[x.dep], x.at)
           /\ Claim(sent'[x.dep], executed'[x.dep], x.at)
<1>1. x # NoRun
  BY DEF NoRun
<1>2. /\ RunOK(x, Len(deps), sent, executed)
      /\ x.dep \in 1..Len(deps) /\ x.dep \in Nat /\ x.dep \in DepIds
      /\ x.content \in Contents /\ x.content \in Valid
      /\ x.content \in sent[x.dep] /\ x.at \in Nat /\ Len(Flat[x.content]) \in Nat
      /\ x.at <= Len(Flat[x.content])
      /\ Prefixed(sent[x.dep], executed[x.dep], Passed(x))
      /\ \A j \in 1..Len(Flat[x.content]) : Flat[x.content][j].global = j - 1
  BY <1>1, RunFacts
<1>3. x.at > 0 /\ x.at \in 1..Len(Flat[x.content])
  <2>1. RunOK(x, Len(deps), sent, executed)
    BY <1>2
  <2>2. x.at > 0
    BY <2>1 DEF RunOK
  <2> QED
    BY <1>2, <2>2
<1>4. Prefixed(sent[x.dep], executed[x.dep], x.at - 1)
  BY <1>2 DEF Passed
<1>5. PICK d, s : d = x.dep /\ s = Flat[x.content][x.at].step
  OBVIOUS
<1>6. executed' = [executed EXCEPT ![d] = executed[d] \cup {s}]
  BY <1>5 DEF Executed, OrderedStep
<1>7. executed = [e \in DepIds |-> executed[e]]
  BY DEF IndInv, HistoryInv
<1>8. executed' = [e \in DepIds |-> IF e = d THEN executed[d] \cup {s} ELSE executed[e]]
  BY <1>6, <1>7
<1>9. /\ executed' = [e \in DepIds |-> executed'[e]]
      /\ \A e \in DepIds : sent[e] \subseteq sent'[e] /\ executed[e] \subseteq executed'[e]
      /\ executed'[d] = executed[d] \cup {s}
  BY <1>2, <1>5, <1>8
<1>10. Grows /\ HistoryInv'
  <2>1. sent' \in [DepIds -> SUBSET Valid] /\ \A e \in DepIds : IsFiniteSet(sent'[e])
    BY DEF IndInv, HistoryInv
  <2> QED
    BY <1>9, <2>1, MoreKnown
<1>11. Prefixed(sent[d], executed'[d], x.at)
  <2>1. PICK S, E, c : S = sent[d] /\ E = executed[d] /\ c = x.content
    OBVIOUS
  <2>2. Prefixed(S, E \cup {Flat[c][x.at].step}, x.at)
    BY <1>2, <1>3, <1>4, <1>5, <2>1, Executes
  <2> QED
    BY <1>5, <1>9, <2>1, <2>2
<1>12. Claim(sent[d], executed'[d], x.at)
  <2>1. x.at \in Indices
    BY <1>2, <1>3, IndexFacts
  <2> QED
    BY <1>2, <1>5, <1>11, <2>1 DEF Claim
<1>13. RunOK(x, Len(deps), sent', executed')
  <2>1. Grown(Len(deps), sent, executed, Len(deps), sent', executed')
    BY <1>10 DEF Grows
  <2> QED
    BY <1>2, <2>1, StaysOK
<1>14. OrderedStep(r).global = x.at - 1
  BY <1>2, <1>3 DEF OrderedStep
<1> QED
  BY <1>2, <1>3, <1>5, <1>10, <1>11, <1>12, <1>13, <1>14

LEMMA StepCompleteInv ==
    ASSUME IndInv, NEW r \in RunIds, StepComplete(r)
    PROVE  IndInv'
<1>1. ServerInv' /\ UNCHANGED <<deps, sent, push, inbox>>
  BY RunFrame DEF StepComplete
<1>2. PICK x : x = runs[r] /\ x.pc = "shell"
  BY DEF StepComplete
<1>3. /\ Grows /\ HistoryInv'
      /\ RunOK(x, Len(deps), sent', executed')
      /\ x.dep \in Nat /\ x.dep \in 1..Len(deps) /\ x.at \in 1..Len(Flat[x.content])
      /\ OrderedStep(r).global = x.at - 1
      /\ Prefixed(sent'[x.dep], executed'[x.dep], x.at)
      /\ Claim(sent'[x.dep], executed'[x.dep], x.at)
  BY <1>1, <1>2, StepExecuted DEF StepComplete
<1>4. x.at - 1 \in Nat /\ (x.at - 1) + 1 = x.at /\ x.at \in 0..Len(Flat[x.content])
  BY <1>3
<1>5. WireInv'
  <2> DEFINE m == [type |-> "step_complete", dep |-> x.dep, index |-> x.at - 1]
  <2>1. m \in ReportRecord /\ m.type = "step_complete" /\ m.dep = x.dep /\ m.index = x.at - 1
    BY <1>3, <1>4 DEF ReportRecord
  <2>2. m = [type |-> "step_complete", dep |-> runs[r].dep, index |-> x.at - 1]
    BY <1>2
  <2> HIDE DEF m
  <2>3. ReportOK(m, Len(deps), sent', executed')
    BY <1>3, <1>4, <2>1 DEF ReportOK
  <2>4. ReportOK(m, Len(deps)', sent', executed')
    BY <1>1, <2>3
  <2>5. Report(r, "step_complete", x.at - 1)
    BY <1>3 DEF StepComplete
  <2> QED
    BY <1>3, <2>2, <2>4, <2>5, Reported
<1>6. RunsInv'
  <2> DEFINE y == [x EXCEPT !.pc = "next", !.at = x.at, !.env = << >>]
  <2>1. runs = [q \in RunIds |-> runs[q]] /\ x = [f \in RunFields |-> x[f]]
    BY <1>3 DEF IndInv, RunsInv, RunOK
  <2>2. runs' = [runs EXCEPT ![r] = [x EXCEPT !.pc = "next", !.env = << >>]]
    BY <1>2, <2>1 DEF StepComplete
  <2>3. [x EXCEPT !.pc = "next", !.env = << >>] = y
    BY <2>1 DEF RunFields
  <2>4. RunOK(y, Len(deps), sent', executed')
    BY <1>3, <1>4, RunMoved
  <2> HIDE DEF y
  <2>5. RunOK(y, Len(deps)', sent', executed')
    BY <1>1, <2>4
  <2> QED
    BY <1>3, <2>2, <2>3, <2>5, OneRun
<1> QED
  BY <1>1, <1>3, <1>5, <1>6, Carried DEF IndInv

LEMMA StepRebootInv ==
    ASSUME IndInv, NEW r \in RunIds, StepReboot(r)
    PROVE  IndInv'
<1>1. ServerInv' /\ UNCHANGED <<deps, sent, push, inbox>>
  BY RunFrame DEF StepReboot
<1>2. PICK x : x = runs[r] /\ x.pc = "reboot"
  BY DEF StepReboot
<1>3. /\ Grows /\ HistoryInv'
      /\ RunOK(x, Len(deps), sent', executed')
      /\ x.dep \in Nat /\ x.dep \in 1..Len(deps) /\ x.at \in 1..Len(Flat[x.content])
      /\ OrderedStep(r).global = x.at - 1
      /\ Prefixed(sent'[x.dep], executed'[x.dep], x.at)
      /\ Claim(sent'[x.dep], executed'[x.dep], x.at)
  BY <1>1, <1>2, StepExecuted DEF StepReboot
<1>4. (x.at - 1) + 1 = x.at /\ x.at \in 0..Len(Flat[x.content]) /\ x.at > 0 /\ x.at \in Nat
  BY <1>3
<1>5. WireInv'
  <2> DEFINE m == [type |-> "reboot", dep |-> x.dep, index |-> x.at]
  <2>1. m \in ReportRecord /\ m.type = "reboot" /\ m.dep = x.dep /\ m.index = x.at
    BY <1>3, <1>4 DEF ReportRecord
  <2>2. m = [type |-> "reboot", dep |-> runs[r].dep, index |-> x.at]
    BY <1>2
  <2> HIDE DEF m
  <2>3. ReportOK(m, Len(deps), sent', executed')
    BY <1>3, <2>1 DEF ReportOK
  <2>4. ReportOK(m, Len(deps)', sent', executed')
    BY <1>1, <2>3
  <2>5. Report(r, "reboot", x.at)
    BY <1>3, <1>4 DEF StepReboot
  <2> QED
    BY <1>3, <2>2, <2>4, <2>5, Reported
<1>6. RunsInv'
  <2>1. runs = [q \in RunIds |-> runs[q]] /\ x = [f \in RunFields |-> x[f]]
    BY <1>3 DEF IndInv, RunsInv, RunOK
  <2>2. PICK e : e = x.env
    OBVIOUS
  <2> DEFINE y == [x EXCEPT !.pc = "rebooting", !.at = x.at, !.env = e]
  <2>3. runs' = [runs EXCEPT ![r] = [x EXCEPT !.pc = "rebooting"]]
    BY <1>2, <2>1 DEF StepReboot
  <2>4. [x EXCEPT !.pc = "rebooting"] = y
    BY <2>1, <2>2 DEF RunFields
  <2>5. RunOK(y, Len(deps), sent', executed')
    BY <1>3, <1>4, RunMoved
  <2> HIDE DEF y
  <2>6. RunOK(y, Len(deps)', sent', executed')
    BY <1>1, <2>5
  <2> QED
    BY <1>3, <2>3, <2>4, <2>6, OneRun
<1> QED
  BY <1>1, <1>3, <1>5, <1>6, Carried DEF IndInv

LEMMA StepFailedInv ==
    ASSUME IndInv, NEW r \in RunIds, StepFailed(r)
    PROVE  IndInv'
<1>1. ServerInv' /\ UNCHANGED <<deps, sent, executed, push, inbox>>
  BY RunFrame DEF StepFailed
<1>2. Grows /\ HistoryInv'
  BY <1>1, GrowsWhenSame
<1>3. PICK x : x = runs[r] /\ x.pc = "shell"
  BY DEF StepFailed
<1>4. x # NoRun
  BY <1>3 DEF NoRun
<1>5. /\ RunOK(x, Len(deps), sent, executed) /\ x.dep \in 1..Len(deps) /\ x.dep \in Nat
      /\ \A j \in 1..Len(Flat[x.content]) : Flat[x.content][j].global = j - 1
  BY <1>3, <1>4, RunFacts
<1>6. OrderedStep(r).global \in Nat
  <2>1. x.at \in 1..Len(Flat[x.content]) /\ x.at - 1 \in Nat
    BY <1>3, <1>5 DEF RunOK
  <2> QED
    BY <1>3, <1>5, <2>1 DEF OrderedStep
<1>7. WireInv'
  <2>1. PICK i : i = OrderedStep(r).global
    OBVIOUS
  <2> DEFINE m == [type |-> "deploy_failed", dep |-> x.dep, index |-> i]
  <2>2. m \in ReportRecord /\ m.type = "deploy_failed" /\ m.dep = x.dep
    BY <1>5, <1>6, <2>1 DEF ReportRecord
  <2>3. m = [type |-> "deploy_failed", dep |-> runs[r].dep, index |-> i]
    BY <1>3
  <2> HIDE DEF m
  <2>4. ReportOK(m, Len(deps), sent, executed)
    BY <1>5, <2>2 DEF ReportOK
  <2>5. ReportOK(m, Len(deps)', sent', executed')
    BY <1>1, <2>4
  <2>6. Report(r, "deploy_failed", i)
    BY <2>1 DEF StepFailed
  <2> QED
    BY <1>2, <2>3, <2>5, <2>6, Reported
<1>8. RunsInv'
  BY <1>2, OneRun DEF StepFailed
<1> QED
  BY <1>1, <1>2, <1>7, <1>8, Carried DEF IndInv

LEMMA RebootErrorInv ==
    ASSUME IndInv, NEW r \in RunIds, RebootError(r)
    PROVE  IndInv'
<1>1. ServerInv' /\ UNCHANGED <<deps, sent, executed, push, inbox, wire>>
  BY RunFrame DEF RebootError
<1>2. Grows /\ HistoryInv'
  BY <1>1, GrowsWhenSame
<1>3. RunsInv'
  BY <1>2, OneRun DEF RebootError
<1> QED
  BY <1>1, <1>2, <1>3, Carried DEF IndInv

LEMMA RunDoneInv ==
    ASSUME IndInv, NEW r \in RunIds, RunDone(r)
    PROVE  IndInv'
<1>1. ServerInv' /\ UNCHANGED <<deps, sent, executed, push, inbox>>
  BY RunFrame DEF RunDone
<1>2. Grows /\ HistoryInv'
  BY <1>1, GrowsWhenSame
<1>3. PICK x : x = runs[r] /\ x.pc = "next" /\ Remaining(x, x.at + 1) = {}
  BY DEF RunDone
<1>4. x # NoRun
  BY <1>3 DEF NoRun
<1>5. /\ x.dep \in 1..Len(deps) /\ x.dep \in Nat
      /\ x.content \in Valid /\ x.content \in sent[x.dep] /\ Len(Flat[x.content]) \in Nat
  BY <1>3, <1>4, RunFacts
<1>6. Prefixed(sent[x.dep], executed[x.dep], Len(Flat[x.content]))
  <2>1. PICK k \in Nat : k = Len(Flat[x.content]) /\ k <= Len(Flat[x.content])
    BY <1>5
  <2>2. \A j \in Remaining(x, x.at + 1) : k < j
    BY <1>3
  <2>3. Prefixed(sent[x.dep], executed[x.dep], k)
    BY <1>3, <2>1, <2>2, SkipsUpTo
  <2> QED
    BY <2>1, <2>3
<1>7. Whole(sent[x.dep], executed[x.dep])
  BY <1>5, <1>6, AllDone
<1>8. WireInv'
  <2> DEFINE m == [type |-> "deploy_done", dep |-> x.dep, index |-> 0]
  <2>1. m \in ReportRecord /\ m.type = "deploy_done" /\ m.dep = x.dep
    BY <1>5 DEF ReportRecord
  <2>2. m = [type |-> "deploy_done", dep |-> runs[r].dep, index |-> 0]
    BY <1>3
  <2> HIDE DEF m
  <2>3. ReportOK(m, Len(deps), sent, executed)
    BY <1>5, <1>7, <2>1 DEF ReportOK
  <2>4. ReportOK(m, Len(deps)', sent', executed')
    BY <1>1, <2>3
  <2>5. Report(r, "deploy_done", 0)
    BY DEF RunDone
  <2> QED
    BY <1>2, <2>2, <2>4, <2>5, Reported
<1>9. RunsInv'
  BY <1>2, OneRun DEF RunDone
<1> QED
  BY <1>1, <1>2, <1>8, <1>9, Carried DEF IndInv

-----------------------------------------------------------------------------
(* The connection.                                                         *)

(* Of what was on the way to the server the beginning may have arrived.    *)
LEMMA ArrivedInv ==
    ASSUME IndInv, Arrived, conn \in ConnIds, UNCHANGED <<deps, sent, executed>>
    PROVE  WireInv'
<1>1. wire \in [ConnIds -> Seq(ReportRecord)]
  BY DEF IndInv, WireInv
<1>2. PICK q : q = wire[conn] /\ q \in Seq(ReportRecord)
  BY <1>1
<1>3. PICK n \in 0..Len(q) : wire' = [wire EXCEPT ![conn] = SubSeq(q, 1, n)]
  BY <1>2 DEF Arrived
<1>4. PICK p : p = SubSeq(q, 1, n)
  OBVIOUS
<1>5. Len(q) \in Nat /\ n \in Nat /\ n <= Len(q)
  BY <1>2, LenProperties
<1>6. p \in Seq(ReportRecord) /\ \A k \in 1..Len(p) : k \in 1..Len(q) /\ p[k] = q[k]
  <2>1. \A i \in 1..n : q[i] \in ReportRecord
    BY <1>2, <1>5, ElementOfSeq
  <2>2. p = [i \in 1..n |-> q[i]]
    BY <1>4, <1>5 DEF SubSeq
  <2>3. p \in [1..n -> ReportRecord]
    BY <2>1, <2>2
  <2>4. p \in Seq(ReportRecord) /\ Len(p) = n
    BY <1>5, <2>3, IsASeq, LenProperties
  <2> QED
    BY <1>5, <2>2, <2>4
<1>7. wire' = [c \in ConnIds |-> IF c = conn THEN p ELSE wire[c]]
  BY <1>1, <1>3, <1>4
<1>8. \A c \in ConnIds : \A k \in 1..Len(wire[c]) : ReportOK(wire[c][k], Len(deps), sent, executed)
  BY DEF IndInv, WireInv
<1>9. \A k \in 1..Len(p) : ReportOK(p[k], Len(deps), sent, executed)
  BY <1>2, <1>6, <1>8
<1>10. wire' \in [ConnIds -> Seq(ReportRecord)]
  BY <1>1, <1>6, <1>7
<1>11. \A c \in ConnIds : \A k \in 1..Len(wire'[c]) : ReportOK(wire'[c][k], Len(deps), sent, executed)
  BY <1>7, <1>8, <1>9
<1> QED
  BY <1>10, <1>11 DEF WireInv

LEMMA EmptyInbox ==
    ASSUME inbox' = << >>
    PROVE  InboxInv'
BY DEF InboxInv, IsList

LEMMA DisconnectInv ==
    ASSUME IndInv, Disconnect
    PROVE  IndInv'
<1>1. /\ UNCHANGED <<playbook, edit, secrets, assigned, conn, deps, sent, executed, push, runs>>
      /\ inbox' = << >> /\ online' = FALSE /\ online /\ Arrived
  BY DEF Disconnect, Hangup, serverVars
<1>2. Grows /\ HistoryInv'
  BY <1>1, GrowsWhenSame
<1>3. ServerInv' /\ conn \in ConnIds
  BY <1>1 DEF IndInv, ServerInv
<1>4. WireInv'
  BY <1>1, <1>3, ArrivedInv
<1> QED
  BY <1>1, <1>2, <1>3, <1>4, EmptyInbox, Carried DEF IndInv

LEMMA ProcessGoneInv ==
    ASSUME IndInv, ProcessGone
    PROVE  IndInv'
<1>1. /\ UNCHANGED <<playbook, edit, secrets, assigned, conn, deps, sent, executed, push>>
      /\ inbox' = << >> /\ online' = FALSE /\ runs' = [r \in RunIds |-> NoRun]
  BY DEF ProcessGone, Hangup, serverVars
<1>2. Grows /\ HistoryInv'
  BY <1>1, GrowsWhenSame
<1>3. ServerInv' /\ (online => conn \in ConnIds)
  BY <1>1 DEF IndInv, ServerInv
<1>4. WireInv'
  <2>1. CASE online
    BY <1>1, <1>3, <2>1, ArrivedInv DEF ProcessGone
  <2>2. CASE ~online
    BY <1>2, <2>2, Carried DEF ProcessGone
  <2> QED
    BY <2>1, <2>2
<1>5. RunsInv'
  <2>1. \A r \in RunIds : runs'[r] = NoRun
    BY <1>1
  <2>2. runs' = [r \in RunIds |-> runs'[r]]
    BY <1>1
  <2> QED
    BY <2>1, <2>2 DEF RunsInv
<1> QED
  BY <1>1, <1>2, <1>3, <1>4, <1>5, EmptyInbox, Carried DEF IndInv

LEMMA ServerRestartInv ==
    ASSUME IndInv, ServerRestart
    PROVE  IndInv'
<1>1. /\ UNCHANGED <<playbook, assigned, conn, deps, sent, executed, runs>>
      /\ inbox' = << >> /\ online' = FALSE /\ edit' = NoPlaybook
      /\ wire' = [c \in ConnIds |-> << >>]
      /\ push' = [t \in Pushers |-> Gone]
      /\ secrets' = Merged(SeedSecrets, secrets)
  BY DEF ServerRestart, Hangup
<1>2. Grows /\ HistoryInv'
  BY <1>1, GrowsWhenSame
<1>3. DOMAIN secrets' \subseteq SecretNames /\ \A m \in DOMAIN secrets' : secrets'[m] \in SecretValues[m]
  BY <1>1, PlaybooksAssumption DEF IndInv, ServerInv, Merged
<1>4. ServerInv'
  BY <1>1, <1>3 DEF IndInv, ServerInv
<1>5. WireInv'
  <2>1. wire' \in [ConnIds -> Seq(ReportRecord)] /\ \A c \in ConnIds : Len(wire'[c]) = 0
    BY <1>1
  <2> QED
    BY <2>1 DEF WireInv
<1>6. PushInv'
  <2>1. \A t \in Pushers : push'[t] = Gone /\ PushOK(Gone, Len(deps), sent, executed)
    BY <1>1, PusherOK DEF Gone
  <2>2. push' = [t \in Pushers |-> push'[t]]
    BY <1>1
  <2> QED
    BY <1>1, <2>1, <2>2 DEF PushInv
<1> QED
  BY <1>1, <1>2, <1>4, <1>5, <1>6, EmptyInbox, Carried DEF IndInv

LEMMA HandleReportInv ==
    ASSUME IndInv, NEW c \in ConnIds, HandleReport(c)
    PROVE  IndInv'
<1>1. UNCHANGED <<playbook, edit, secrets, assigned, push, inbox, runs, executed, conn, online, sent>>
  BY DEF HandleReport, agentVars
<1>2. wire \in [ConnIds -> Seq(ReportRecord)]
  BY DEF IndInv, WireInv
<1>3. PICK q : q = wire[c] /\ q \in Seq(ReportRecord) /\ q # << >>
  BY <1>2 DEF HandleReport
<1>4. PICK m : m = Head(q)
  OBVIOUS
<1>5. /\ deps' = [deps EXCEPT ![m.dep] = Updated(deps[m.dep], m)]
      /\ wire' = [wire EXCEPT ![c] = Tail(q)]
  BY <1>3, <1>4 DEF HandleReport
<1>6. /\ Tail(q) \in Seq(ReportRecord) /\ Len(q) \in Nat \ {0} /\ m = q[1]
      /\ \A k \in 1..Len(Tail(q)) : k + 1 \in 1..Len(q) /\ Tail(q)[k] = q[k + 1]
  BY <1>3, <1>4, HeadTailProperties, SeqIsList, ListTail
<1>7. \A e \in ConnIds : \A k \in 1..Len(wire[e]) : ReportOK(wire[e][k], Len(deps), sent, executed)
  BY DEF IndInv, WireInv
<1>8. ReportOK(m, Len(deps), sent, executed) /\ m.dep \in 1..Len(deps)
  BY <1>3, <1>6, <1>7 DEF ReportOK
<1>9. PICK d, x, y : d = m.dep /\ x = deps[d] /\ y = Updated(x, m)
  OBVIOUS
<1>10. DeploymentOK(x, sent[d], executed[d]) /\ d \in 1..Len(deps)
  BY <1>8, <1>9 DEF IndInv, HistoryInv
<1>11. DeploymentOK(y, sent[d], executed[d])
  <2>1. x \in DeploymentState
    BY <1>10 DEF DeploymentOK
  <2>2. m \in ReportRecord
    BY <1>8 DEF ReportOK
  <2>3. CASE m.type = "step_start"
    <3>1. y = [x EXCEPT !.status = "running", !.resume = m.index]
      BY <1>9, <2>3 DEF Updated
    <3>2. Claim(sent[d], executed[d], m.index) /\ m.index \in Indices
      BY <1>8, <1>9, <2>3 DEF ReportOK, Claim
    <3>3. y \in DeploymentState /\ y.status = "running" /\ y.resume = m.index
      BY <2>1, <3>1, <3>2 DEF DeploymentState
    <3> QED
      BY <3>2, <3>3 DEF DeploymentOK
  <2>4. CASE m.type = "step_complete"
    <3>1. y = [x EXCEPT !.resume = m.index + 1]
      BY <1>9, <2>4 DEF Updated
    <3>2. Claim(sent[d], executed[d], m.index + 1) /\ m.index + 1 \in Indices
      BY <1>8, <1>9, <2>4 DEF ReportOK, Claim
    <3>3. y \in DeploymentState /\ y.status = x.status /\ y.resume = m.index + 1
      BY <2>1, <3>1, <3>2 DEF DeploymentState
    <3> QED
      BY <1>10, <3>2, <3>3 DEF DeploymentOK
  <2>5. CASE m.type = "reboot"
    <3>1. y = [x EXCEPT !.status = "rebooting", !.resume = m.index]
      BY <1>9, <2>5 DEF Updated
    <3>2. Claim(sent[d], executed[d], m.index) /\ m.index \in Indices
      BY <1>8, <1>9, <2>5 DEF ReportOK, Claim
    <3>3. y \in DeploymentState /\ y.status = "rebooting" /\ y.resume = m.index
      BY <2>1, <3>1, <3>2 DEF DeploymentState
    <3> QED
      BY <3>2, <3>3 DEF DeploymentOK
  <2>6. CASE m.type = "deploy_done"
    <3>1. y = [x EXCEPT !.status = "completed"]
      BY <1>9, <2>6 DEF Updated
    <3>2. Whole(sent[d], executed[d])
      BY <1>8, <1>9, <2>6 DEF ReportOK
    <3>3. y \in DeploymentState /\ y.resume = x.resume
      BY <2>1, <3>1 DEF DeploymentState
    <3> QED
      BY <1>10, <3>2, <3>3 DEF DeploymentOK
  <2>7. CASE m.type = "deploy_failed"
    <3>1. y = [x EXCEPT !.status = "failed"]
      BY <1>9, <2>7 DEF Updated
    <3>2. y \in DeploymentState /\ y.resume = x.resume /\ y.status = "failed"
      BY <2>1, <3>1 DEF DeploymentState
    <3> QED
      BY <1>10, <3>2 DEF DeploymentOK
  <2> QED
    BY <2>2, <2>3, <2>4, <2>5, <2>6, <2>7 DEF ReportRecord
<1>12. Grows /\ HistoryInv' /\ Len(deps') = Len(deps)
  <2>1. deps' = [deps EXCEPT ![d] = y]
    BY <1>5, <1>9
  <2> QED
    BY <1>1, <1>10, <1>11, <2>1, SavedOver
<1>13. ServerInv'
  BY <1>1 DEF IndInv, ServerInv
<1>14. WireInv'
  <2>1. wire' = [e \in ConnIds |-> IF e = c THEN Tail(q) ELSE wire[e]]
    BY <1>2, <1>5
  <2>2. \A k \in 1..Len(Tail(q)) : ReportOK(Tail(q)[k], Len(deps), sent, executed)
    BY <1>3, <1>6, <1>7
  <2>3. wire' \in [ConnIds -> Seq(ReportRecord)]
    BY <1>2, <1>6, <2>1
  <2>4. \A e \in ConnIds : \A k \in 1..Len(wire'[e]) : ReportOK(wire'[e][k], Len(deps), sent, executed)
    BY <1>7, <2>1, <2>2
  <2> QED
    BY <1>1, <1>12, <2>3, <2>4 DEF WireInv
<1> QED
  BY <1>1, <1>12, <1>13, <1>14, Carried DEF IndInv

-----------------------------------------------------------------------------
(* The theorems.                                                           *)

LEMMA InitInv ==
    ASSUME Init
    PROVE  IndInv
<1>1. ServerInv
  <2>1. conn = 0 /\ conn \in 0..MaxConns
    BY Numbers DEF Init
  <2> QED
    BY <2>1, PlaybooksAssumption DEF Init, ServerInv
<1>2. HistoryInv
  <2>1. deps \in Seq(DeploymentState) /\ Len(deps) = 0 /\ Len(deps) <= MaxDeps
    BY Numbers DEF Init
  <2>2. sent = [d \in DepIds |-> {}] /\ executed = [d \in DepIds |-> {}]
    BY DEF Init
  <2>3. sent \in [DepIds -> SUBSET Valid] /\ \A d \in DepIds : IsFiniteSet(sent[d])
    BY <2>2, FS_EmptySet
  <2>4. executed = [d \in DepIds |-> executed[d]]
    BY <2>2
  <2> QED
    BY <2>1, <2>3, <2>4 DEF HistoryInv
<1>3. PushInv
  <2>1. push = [t \in Pushers |-> Gone]
    BY DEF Init
  <2>2. \A t \in Pushers : push[t] = Gone /\ PushOK(Gone, Len(deps), sent, executed)
    BY <2>1, PusherOK DEF Gone
  <2>3. push = [t \in Pushers |-> push[t]]
    BY <2>1
  <2> QED
    BY <2>2, <2>3 DEF PushInv
<1>4. WireInv
  <2>1. wire = [c \in ConnIds |-> << >>]
    BY DEF Init
  <2>2. wire \in [ConnIds -> Seq(ReportRecord)] /\ \A c \in ConnIds : Len(wire[c]) = 0
    BY <2>1
  <2> QED
    BY <2>2 DEF WireInv
<1>5. InboxInv
  BY DEF Init, InboxInv, IsList
<1>6. RunsInv
  <2>1. runs = [r \in RunIds |-> NoRun]
    BY DEF Init
  <2>2. runs = [r \in RunIds |-> runs[r]] /\ \A r \in RunIds : runs[r] = NoRun
    BY <2>1
  <2> QED
    BY <2>2 DEF RunsInv
<1> QED
  BY <1>1, <1>2, <1>3, <1>4, <1>5, <1>6 DEF IndInv

LEMMA StutterInv ==
    ASSUME IndInv, UNCHANGED vars
    PROVE  IndInv'
<1>1. UNCHANGED <<deps, sent, executed, push, wire, inbox, runs>>
  BY DEF vars, serverVars, agentVars
<1>2. ServerInv'
  BY DEF vars, serverVars, IndInv, ServerInv
<1> QED
  BY <1>1, <1>2, ServerOnly

LEMMA RunStepInv ==
    ASSUME IndInv, NEW r \in RunIds, RunStep(r)
    PROVE  IndInv'
<1>1. CASE StepStart(r)
  BY <1>1, StepStartInv
<1>2. CASE ResolveSecrets(r)
  BY <1>2, ResolveSecretsInv
<1>3. CASE StepComplete(r)
  BY <1>3, StepCompleteInv
<1>4. CASE StepFailed(r)
  BY <1>4, StepFailedInv
<1>5. CASE StepReboot(r)
  BY <1>5, StepRebootInv
<1>6. CASE RebootOS(r)
  BY <1>6, ProcessGoneInv DEF RebootOS
<1>7. CASE RebootError(r)
  BY <1>7, RebootErrorInv
<1>8. CASE RunDone(r)
  BY <1>8, RunDoneInv
<1> QED
  BY <1>1, <1>2, <1>3, <1>4, <1>5, <1>6, <1>7, <1>8 DEF RunStep

LEMMA PushStepInv ==
    ASSUME IndInv, NEW t \in Pushers, PushStep(t)
    PROVE  IndInv'
<1>1. CASE PushRead(t)
  BY <1>1, PushReadInv
<1>2. CASE PushGetPlaybook(t)
  BY <1>2, PushGetPlaybookInv
<1>3. CASE PushSaveDeployment(t)
  BY <1>3, PushSaveDeploymentInv
<1>4. CASE PushSend(t)
  BY <1>4, PushSendInv
<1>5. CASE PushError(t)
  BY <1>5, PushErrorInv
<1> QED
  BY <1>1, <1>2, <1>3, <1>4, <1>5 DEF PushStep

LEMMA NextPreserves ==
    ASSUME IndInv, [Next]_vars
    PROVE  IndInv'
<1>1. CASE PutPlaybook \/ SavePlaybook \/ DeletePlaybook
  BY <1>1, PlaybookRequests
<1>2. ASSUME NEW n \in SecretNames, SetSecret(n) PROVE IndInv'
  BY <1>2, SetSecretInv
<1>3. ASSUME NEW n \in SecretNames, DeleteSecret(n) PROVE IndInv'
  BY <1>3, DeleteSecretInv
<1>4. CASE PutAgent
  BY <1>4, PutAgentInv
<1>5. CASE Assign \/ AssignSaveAgent
  BY <1>5, AssignInv
<1>6. ASSUME NEW t \in Pushers, PushStep(t) PROVE IndInv'
  BY <1>6, PushStepInv
<1>7. CASE ReceivePlaybook
  BY <1>7, ReceivePlaybookInv
<1>8. ASSUME NEW r \in RunIds, RunStep(r) PROVE IndInv'
  BY <1>8, RunStepInv
<1>9. CASE Connect
  BY <1>9, ConnectInv
<1>10. CASE Disconnect
  BY <1>10, DisconnectInv
<1>11. CASE AgentCrash
  BY <1>11, ProcessGoneInv DEF AgentCrash
<1>12. CASE ServerRestart
  BY <1>12, ServerRestartInv
<1>13. ASSUME NEW c \in ConnIds, HandleReport(c) PROVE IndInv'
  BY <1>13, HandleReportInv
<1>14. CASE UNCHANGED vars
  BY <1>14, StutterInv
<1> QED
  BY <1>1, <1>2, <1>3, <1>4, <1>5, <1>6, <1>7, <1>8, <1>9, <1>10, <1>11, <1>12, <1>13, <1>14
     DEF Next

(* FlattenPlaybook gives the steps of any playbook, whatever its jobs, the *)
(* indices 0, 1, 2, ... in execution order: the index that the server      *)
(* stores as resume index is the number of steps that come before.         *)
THEOREM StepsAreNumbered ==
    ASSUME NEW pb \in Contents
    PROVE  \A k \in 1..Len(FlattenPlaybook(pb)) : FlattenPlaybook(pb)[k].global = k - 1
<1>1. Flat[pb] = FlattenPlaybook(pb)
  BY DEF Flat
<1> QED
  BY <1>1, FlatFacts

(* Every resume index that a deployment row, a pushing goroutine, a        *)
(* message, a report or a run holds is backed by executed steps, in every  *)
(* state that PUTs, pushes, crashes, reboots and lost reports can reach.   *)
THEOREM IndInvariant == Spec => []IndInv
<1>1. Init => IndInv
  BY InitInv
<1>2. IndInv /\ [Next]_vars => IndInv'
  BY NextPreserves
<1> QED
  BY <1>1, <1>2, PTL DEF Spec

(* The tables, the goroutines of the server and the runs of the agent hold *)
(* what their types say; a run is at a step of the playbook it was given   *)
(* and for a deployment that exists.                                       *)
THEOREM TypeCorrect == Spec => []TypeOK
<1>1. IndInv => TypeOK
  <2> SUFFICES ASSUME IndInv PROVE TypeOK
    OBVIOUS
  <2>1. DOMAIN deps = 1..Len(deps) /\ \A d \in DOMAIN deps : deps[d] \in DeploymentState
    BY LenProperties, ElementOfSeq DEF IndInv, HistoryInv
  <2>2. \A t \in Pushers : push[t].content \in Valid \cup {NoPlaybook}
    BY DEF IndInv, PushInv, PushOK, PushRecord
  <2>3. ASSUME NEW r \in RunIds, runs[r] # NoRun
        PROVE  /\ runs[r].content \in Valid /\ runs[r].dep \in DOMAIN deps
               /\ runs[r].at \in 0..Len(Flat[runs[r].content])
               /\ runs[r].resume \in Indices
    BY <2>1, <2>3 DEF IndInv, RunsInv, RunOK, MessageOK, Claim
  <2>4. \A d \in DepIds : sent[d] \subseteq Valid
    BY DEF IndInv, HistoryInv
  <2>5. edit \in Contents \cup {NoPlaybook}
    BY DEF IndInv, ServerInv, Valid
  <2>6. Len(deps) <= MaxDeps
    BY DEF IndInv, HistoryInv
  <2> QED
    BY <2>1, <2>2, <2>3, <2>4, <2>5, <2>6 DEF IndInv, ServerInv, TypeOK
<1> QED
  BY <1>1, IndInvariant, PTL

(* What a run skips, or has behind it, was executed in the deployment, and *)
(* a deployment that the server shows as completed executed every step of  *)
(* every job, as long as all of its pushes found the same playbook: the    *)
(* resume index (agent.go:264) never claims more than was done, for any    *)
(* playbooks and any number of reconnects, reboots, crashes and restarts.  *)
THEOREM NothingIsSkipped == Spec => []NothingSkipped
<1>1. IndInv => NothingSkipped
  <2> SUFFICES ASSUME IndInv PROVE NothingSkipped
    OBVIOUS
  <2>1. ASSUME NEW r \in RunIds, runs[r] # NoRun, Cardinality(sent[runs[r].dep]) = 1
        PROVE  Before(runs[r]) \subseteq executed[runs[r].dep]
    <3>1. PICK x : x = runs[r]
      OBVIOUS
    <3>2. PICK S, E, c : S = sent[x.dep] /\ E = executed[x.dep] /\ c = x.content
      OBVIOUS
    <3>3. /\ c \in Valid /\ c \in S /\ x.dep \in DepIds /\ x.at \in Nat
          /\ x.at <= Len(Flat[c]) /\ Len(Flat[c]) \in Nat /\ Prefixed(S, E, Passed(x))
      BY <2>1, <3>1, <3>2, RunFacts
    <3>4. IsFiniteSet(S)
      BY <3>2, <3>3 DEF IndInv, HistoryInv
    <3>5. S = {c}
      BY <2>1, <3>1, <3>2, <3>3, <3>4, FS_Singleton
    <3>6. Passed(x) \in Int /\ x.at - 1 <= Passed(x)
      BY <3>3 DEF Passed
    <3>7. \A k \in 1..(x.at - 1) : k \in 1..Len(Flat[c]) /\ k <= Passed(x)
      BY <3>3, <3>6
    <3>8. \A k \in 1..(x.at - 1) : Flat[c][k].step \in E
      BY <3>3, <3>5, <3>7 DEF Prefixed
    <3> QED
      BY <3>1, <3>2, <3>8 DEF Before
  <2>2. ASSUME NEW d \in DOMAIN deps, NEW pb \in Valid,
               deps[d].status = "completed", sent[d] = {pb}
        PROVE  {Flat[pb][k].step : k \in DOMAIN Flat[pb]} \subseteq executed[d]
    <3>1. d \in 1..Len(deps)
      BY LenProperties DEF IndInv, HistoryInv
    <3>2. Whole(sent[d], executed[d])
      BY <2>2, <3>1 DEF IndInv, HistoryInv, DeploymentOK
    <3>3. DOMAIN Flat[pb] = 1..Len(Flat[pb])
      BY FlatFacts DEF Valid
    <3> QED
      BY <2>2, <3>2, <3>3 DEF Whole
  <2> QED
    BY <2>1, <2>2 DEF NothingSkipped
<1> QED
  BY <1>1, IndInvariant, PTL
=============================================================================
