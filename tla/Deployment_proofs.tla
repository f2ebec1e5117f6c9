-------------------------- MODULE Deployment_proofs --------------------------
(***************************************************************************)
(* Proofs about Deployment, for every set of playbooks, every bound and    *)
(* every choice of environment events.                                     *)
(***************************************************************************)
EXTENDS Deployment, TLAPS

-----------------------------------------------------------------------------
(* Goroutines of the server.                                               *)

(* Blank rows and blank goroutines have their types.                       *)
LEMMA BlankTyped ==
    /\ AbsentDeployment \in DeploymentState
    /\ \A pc \in PCs : Blank(pc) \in Thread
BY DEF Blank, Thread, BlankRow, AgentRow, AgentStatuses, AbsentDeployment,
       DeploymentState, DeploymentStatuses, NoDep, NoStatus

(* The rest of the goroutines stay as they are.                            *)
OthersKept(t) == \A u \in Threads \ {t} : th'[u] = th[u]

(* A goroutine that moves on keeps its type and its local copies.          *)
LEMMA GotoFacts ==
    ASSUME th \in [Threads -> Thread], NEW t \in Threads, NEW pc \in PCs,
           Goto(t, pc)
    PROVE  /\ th' \in [Threads -> Thread]
           /\ OthersKept(t)
           /\ th'[t].pc = pc
           /\ th'[t].ag = th[t].ag
           /\ th'[t].dep = th[t].dep
           /\ th'[t].rec = th[t].rec
           /\ th'[t].ast = th[t].ast
<1>1. th' = [th EXCEPT ![t] = [th[t] EXCEPT !.pc = pc]]
  BY DEF Goto
<1>2. /\ [th[t] EXCEPT !.pc = pc] \in Thread
      /\ [th[t] EXCEPT !.pc = pc].pc = pc
      /\ [th[t] EXCEPT !.pc = pc].ag = th[t].ag
      /\ [th[t] EXCEPT !.pc = pc].dep = th[t].dep
      /\ [th[t] EXCEPT !.pc = pc].rec = th[t].rec
      /\ [th[t] EXCEPT !.pc = pc].ast = th[t].ast
  BY DEF Thread
<1>3. th'[t] = [th[t] EXCEPT !.pc = pc]
  BY <1>1
<1> QED
  BY <1>1, <1>2, <1>3 DEF OthersKept

(* So does one that also takes a copy of the agents row.                   *)
LEMMA CopyFacts ==
    ASSUME th \in [Threads -> Thread], NEW t \in Threads, NEW pc \in PCs,
           NEW row \in AgentRow,
           th' = [th EXCEPT ![t].pc = pc, ![t].ag = row]
    PROVE  /\ th' \in [Threads -> Thread]
           /\ OthersKept(t)
           /\ th'[t].pc = pc
           /\ th'[t].ag = row
           /\ th'[t].dep = th[t].dep
           /\ th'[t].rec = th[t].rec
           /\ th'[t].ast = th[t].ast
<1> DEFINE x == [th[t] EXCEPT !.pc = pc, !.ag = row]
<1>1. th' = [th EXCEPT ![t] = x]
  OBVIOUS
<1>2. /\ x \in Thread
      /\ x.pc = pc
      /\ x.ag = row
      /\ x.dep = th[t].dep
      /\ x.rec = th[t].rec
      /\ x.ast = th[t].ast
  BY DEF Thread
<1>3. th'[t] = x
  BY <1>1
<1> HIDE DEF x
<1> QED
  BY <1>1, <1>2, <1>3 DEF OthersKept

(* One that has finished starts afresh.                                    *)
LEMMA ReturnFacts ==
    ASSUME th \in [Threads -> Thread], NEW t \in Threads, NEW pc \in PCs,
           Return(t, pc)
    PROVE  /\ th' \in [Threads -> Thread]
           /\ OthersKept(t)
           /\ th'[t] = Blank(pc)
BY BlankTyped DEF Return, OthersKept

-----------------------------------------------------------------------------
(* Nothing that was true of the executed steps becomes false.              *)

(* What every step does to the state the claims are about.                 *)
Grows ==
    /\ \A d \in DepIds : executed[d] \subseteq executed'[d]
    /\ failed \subseteq failed'
    /\ nextDep <= nextDep'
    /\ \A d \in DepIds : d < nextDep => deps'[d].pb = deps[d].pb

(* Whatever a row, a message, a goroutine or a run claims stays true when  *)
(* executed and failed only grow and the IDs in use keep their playbook.   *)
LEMMA ClaimsStay ==
    ASSUME IndInv, Grows, nextDep' \in Nat
    PROVE  /\ \A d \in DepIds, rec \in DeploymentState : RowSound(d, rec) => RowSound(d, rec)'
           /\ \A d \in DepIds, p \in Playbooks \cup {NoPlaybook} :
                Created(d, p) => Created(d, p)'
           /\ \A x \in Thread : ThreadSound(x) => ThreadSound(x)'
           /\ \A x \in Run : RunSound(x) => RunSound(x)'
           /\ \A m \in UpMessage : UpSound(m) => UpSound(m)'
           /\ \A m \in PlaybookMessage : DownSound(m) => DownSound(m)'
<1>0. nextDep \in Nat /\ \A d \in DepIds : d \in Nat
  BY BoundAssumption DEF IndInv, TypeOK, ServerTypeOK, DepIds
<1>1. \A d \in DepIds, rec \in DeploymentState : RowSound(d, rec) => RowSound(d, rec)'
  BY DEF Grows, RowSound, Steps, Before
<1>2. \A d \in DepIds, p \in Playbooks \cup {NoPlaybook} : Created(d, p) => Created(d, p)'
  BY <1>0 DEF Grows, Created
<1>3. \A x \in Thread : ThreadSound(x) => ThreadSound(x)'
  BY <1>1, <1>2 DEF ThreadSound, Thread, DeploymentState
<1>4. \A x \in Run : RunSound(x) => RunSound(x)'
  BY <1>2 DEF RunSound, Run, Grows, Created
<1>5. \A m \in UpMessage : UpSound(m) => UpSound(m)'
  BY <1>0 DEF UpSound, UpMessage, Grows
<1>6. \A m \in PlaybookMessage : DownSound(m) => DownSound(m)'
  BY <1>2 DEF DownSound, PlaybookMessage, Grows
<1> QED
  BY <1>1, <1>2, <1>3, <1>4, <1>5, <1>6

(* What a step leaves alone stays sound, and so does what it changes in    *)
(* one place when the new value there is sound.                            *)
LEMMA Frame ==
    ASSUME IndInv, Grows, nextDep' \in Nat
    PROVE  /\ th' = th => ThreadInv'
           /\ \A t \in Threads : OthersKept(t) /\ ThreadSound(th[t])' => ThreadInv'
           /\ runs' = runs => RunInv'
           /\ \A r \in RunIds :
                (\A q \in RunIds \ {r} : runs'[q] = runs[q]) /\ RunSound(runs[r])' => RunInv'
           /\ up' = up => UpInv'
           /\ down' = down => DownInv'
           /\ deps' = deps /\ nextDep' = nextDep => StoreInv'
<1> USE DEF IndInv, TypeOK, ServerTypeOK, AgentTypeOK, WireTypeOK
<1>1. ASSUME NEW t \in Threads, th'[t] = th[t] PROVE ThreadSound(th[t])'
  <2>1. th[t] \in Thread /\ ThreadSound(th[t])
    BY DEF ThreadInv
  <2>2. PICK x \in Thread : x = th[t] /\ ThreadSound(x)
    BY <2>1
  <2>3. ThreadSound(x)'
    BY <2>2, ClaimsStay
  <2> QED
    BY <1>1, <2>2, <2>3 DEF ThreadSound, RowSound, Created
<1>2. ASSUME NEW r \in RunIds, runs'[r] = runs[r] PROVE RunSound(runs[r])'
  <2>1. runs[r] \in Run /\ RunSound(runs[r])
    BY DEF RunInv
  <2>2. PICK x \in Run : x = runs[r] /\ RunSound(x)
    BY <2>1
  <2>3. RunSound(x)'
    BY <2>2, ClaimsStay
  <2> QED
    BY <1>2, <2>2, <2>3 DEF RunSound, Created
<1>3. up' = up => UpInv'
  <2> SUFFICES ASSUME up' = up, NEW c \in Conns, NEW k \in 1..Len(up[c])
               PROVE  UpSound(up[c][k])'
    BY DEF UpInv
  <2>1. up[c][k] \in UpMessage /\ UpSound(up[c][k])
    BY DEF UpInv
  <2>2. PICK m \in UpMessage : m = up[c][k] /\ UpSound(m)
    BY <2>1
  <2>3. UpSound(m)'
    BY <2>2, ClaimsStay
  <2> QED
    BY <2>2, <2>3 DEF UpSound
<1>4. down' = down => DownInv'
  <2> SUFFICES ASSUME down' = down, NEW c \in Conns, NEW k \in 1..Len(down[c])
               PROVE  DownSound(down[c][k])'
    BY DEF DownInv
  <2>1. down[c][k] \in PlaybookMessage /\ DownSound(down[c][k])
    BY DEF DownInv
  <2>2. PICK m \in PlaybookMessage : m = down[c][k] /\ DownSound(m)
    BY <2>1
  <2>3. DownSound(m)'
    BY <2>2, ClaimsStay
  <2> QED
    BY <2>2, <2>3 DEF DownSound, Created
<1>5. deps' = deps /\ nextDep' = nextDep => StoreInv'
  <2> SUFFICES ASSUME deps' = deps, nextDep' = nextDep, NEW d \in DepIds
               PROVE  /\ RowSound(d, deps[d])'
                      /\ (deps[d].status # "absent" => d < nextDep)'
                      /\ (d < nextDep => deps[d].pb \in Playbooks)'
    BY DEF StoreInv
  <2>1. deps[d] \in DeploymentState /\ RowSound(d, deps[d])
    BY DEF StoreInv
  <2>2. PICK rec \in DeploymentState : rec = deps[d] /\ RowSound(d, rec)
    BY <2>1
  <2>3. RowSound(d, rec)'
    BY <2>2, ClaimsStay
  <2>4. RowSound(d, deps[d])'
    BY <2>2, <2>3 DEF RowSound
  <2> QED
    BY <2>4 DEF StoreInv
<1>6. th' = th => ThreadInv'
  BY <1>1 DEF ThreadInv
<1>7. \A t \in Threads : OthersKept(t) /\ ThreadSound(th[t])' => ThreadInv'
  BY <1>1 DEF ThreadInv, OthersKept
<1>8. runs' = runs => RunInv'
  BY <1>2 DEF RunInv
<1>9. \A r \in RunIds :
        (\A q \in RunIds \ {r} : runs'[q] = runs[q]) /\ RunSound(runs[r])' => RunInv'
  BY <1>2 DEF RunInv
<1> QED
  BY <1>3, <1>4, <1>5, <1>6, <1>7, <1>8, <1>9
-----------------------------------------------------------------------------
(* The channels.                                                           *)

(* Sending a true message keeps the channel from the agent sound.          *)
LEMMA SendUpFacts ==
    ASSUME IndInv, Grows, nextDep' \in Nat,
           NEW c \in Conns, NEW m \in UpMessage, UpSound(m)', SendUp(c, m)
    PROVE  up' \in [Conns -> Seq(UpMessage)] /\ UpInv'
<1> USE DEF IndInv, TypeOK, WireTypeOK
<1>1. CASE ~open[c]
  <2>1. up' = up
    BY <1>1 DEF SendUp
  <2> QED
    BY <2>1, Frame
<1>2. CASE open[c]
  <2>1. up' = [up EXCEPT ![c] = Append(up[c], m)]
    BY <1>2 DEF SendUp
  <2>2. up' \in [Conns -> Seq(UpMessage)]
    BY <2>1
  <2>3. ASSUME NEW b \in Conns, NEW k \in 1..Len(up'[b]) PROVE UpSound(up[b][k])'
    <3>1. CASE b = c /\ k = Len(up[c]) + 1
      <4>1. up'[b][k] = m
        BY <2>1, <3>1
      <4> QED
        BY <4>1 DEF UpSound
    <3>2. CASE ~(b = c /\ k = Len(up[c]) + 1)
      <4>1. k \in 1..Len(up[b]) /\ up'[b][k] = up[b][k]
        BY <2>1, <2>3, <3>2
      <4>2. up[b][k] \in UpMessage /\ UpSound(up[b][k])
        BY <4>1 DEF UpInv
      <4>3. PICK x \in UpMessage : x = up[b][k] /\ UpSound(x)
        BY <4>2
      <4>4. UpSound(x)'
        BY <4>3, ClaimsStay
      <4> QED
        BY <4>1, <4>3, <4>4 DEF UpSound
    <3> QED
      BY <3>1, <3>2
  <2> QED
    BY <2>2, <2>3 DEF UpInv
<1> QED
  BY <1>1, <1>2

(* Reading or discarding messages keeps it sound.                          *)
LEMMA ReadUpFacts ==
    ASSUME IndInv, Grows, nextDep' \in Nat, NEW c \in Conns,
           \/ up[c] # << >> /\ up' = [up EXCEPT ![c] = Tail(up[c])]
           \/ up' = [up EXCEPT ![c] = << >>]
    PROVE  up' \in [Conns -> Seq(UpMessage)] /\ UpInv'
<1> USE DEF IndInv, TypeOK, WireTypeOK
<1>1. up' \in [Conns -> Seq(UpMessage)]
  <2>1. << >> \in Seq(UpMessage)
    OBVIOUS
  <2>2. up[c] # << >> => Tail(up[c]) \in Seq(UpMessage)
    OBVIOUS
  <2> QED
    BY <2>1, <2>2
<1>2. ASSUME NEW b \in Conns, NEW k \in 1..Len(up'[b]) PROVE UpSound(up[b][k])'
  <2>1. \E j \in 1..Len(up[b]) : up'[b][k] = up[b][j]
    <3>1. CASE b = c /\ up[c] # << >> /\ up' = [up EXCEPT ![c] = Tail(up[c])]
      <4>1. up'[b][k] = up[b][k + 1] /\ k + 1 \in 1..Len(up[b])
        BY <3>1, <1>2
      <4> QED
        BY <4>1
    <3>2. CASE b = c /\ up' = [up EXCEPT ![c] = << >>]
      BY <3>2, <1>2
    <3>3. CASE b # c
      BY <3>3, <1>2
    <3> QED
      BY <3>1, <3>2, <3>3
  <2>2. PICK j \in 1..Len(up[b]) : up'[b][k] = up[b][j]
    BY <2>1
  <2>3. up[b][j] \in UpMessage /\ UpSound(up[b][j])
    BY <2>2 DEF UpInv
  <2>4. PICK x \in UpMessage : x = up[b][j] /\ UpSound(x)
    BY <2>3
  <2>5. UpSound(x)'
    BY <2>4, ClaimsStay
  <2> QED
    BY <2>2, <2>4, <2>5 DEF UpSound
<1> QED
  BY <1>1, <1>2 DEF UpInv

(* The same for the channel to the agent.                                  *)
LEMMA SendDownFacts ==
    ASSUME IndInv, Grows, nextDep' \in Nat,
           NEW c \in Conns, NEW m \in PlaybookMessage, DownSound(m)',
           down' = [down EXCEPT ![c] = Append(down[c], m)]
    PROVE  down' \in [Conns -> Seq(PlaybookMessage)] /\ DownInv'
<1> USE DEF IndInv, TypeOK, WireTypeOK
<1>1. down' \in [Conns -> Seq(PlaybookMessage)]
  OBVIOUS
<1>2. ASSUME NEW b \in Conns, NEW k \in 1..Len(down'[b]) PROVE DownSound(down[b][k])'
  <2>1. CASE b = c /\ k = Len(down[c]) + 1
    <3>1. down'[b][k] = m
      BY <2>1
    <3> QED
      BY <3>1 DEF DownSound, Created
  <2>2. CASE ~(b = c /\ k = Len(down[c]) + 1)
    <3>1. k \in 1..Len(down[b]) /\ down'[b][k] = down[b][k]
      BY <1>2, <2>2
    <3>2. down[b][k] \in PlaybookMessage /\ DownSound(down[b][k])
      BY <3>1 DEF DownInv
    <3>3. PICK x \in PlaybookMessage : x = down[b][k] /\ DownSound(x)
      BY <3>2
    <3>4. DownSound(x)'
      BY <3>3, ClaimsStay
    <3> QED
      BY <3>1, <3>3, <3>4 DEF DownSound, Created
  <2> QED
    BY <2>1, <2>2
<1> QED
  BY <1>1, <1>2 DEF DownInv

(* The agent's read loop, or the end of its connection, keeps it sound.    *)
LEMMA ReadDownFacts ==
    ASSUME IndInv, Grows, nextDep' \in Nat, NEW c \in Conns,
           \/ down[c] # << >> /\ down' = [down EXCEPT ![c] = Tail(down[c])]
           \/ down' = [down EXCEPT ![c] = << >>]
    PROVE  down' \in [Conns -> Seq(PlaybookMessage)] /\ DownInv'
<1> USE DEF IndInv, TypeOK, WireTypeOK
<1>1. down' \in [Conns -> Seq(PlaybookMessage)]
  <2>1. << >> \in Seq(PlaybookMessage)
    OBVIOUS
  <2>2. down[c] # << >> => Tail(down[c]) \in Seq(PlaybookMessage)
    OBVIOUS
  <2> QED
    BY <2>1, <2>2
<1>2. ASSUME NEW b \in Conns, NEW k \in 1..Len(down'[b]) PROVE DownSound(down[b][k])'
  <2>1. \E j \in 1..Len(down[b]) : down'[b][k] = down[b][j]
    <3>1. CASE b = c /\ down[c] # << >> /\ down' = [down EXCEPT ![c] = Tail(down[c])]
      <4>1. down'[b][k] = down[b][k + 1] /\ k + 1 \in 1..Len(down[b])
        BY <3>1, <1>2
      <4> QED
        BY <4>1
    <3>2. CASE b = c /\ down' = [down EXCEPT ![c] = << >>]
      BY <3>2, <1>2
    <3>3. CASE b # c
      BY <3>3, <1>2
    <3> QED
      BY <3>1, <3>2, <3>3
  <2>2. PICK j \in 1..Len(down[b]) : down'[b][k] = down[b][j]
    BY <2>1
  <2>3. down[b][j] \in PlaybookMessage /\ DownSound(down[b][j])
    BY <2>2 DEF DownInv
  <2>4. PICK x \in PlaybookMessage : x = down[b][j] /\ DownSound(x)
    BY <2>3
  <2>5. DownSound(x)'
    BY <2>4, ClaimsStay
  <2> QED
    BY <2>2, <2>4, <2>5 DEF DownSound, Created
<1> QED
  BY <1>1, <1>2 DEF DownInv
-----------------------------------------------------------------------------
(* Steps of the server that save no deployment.                            *)

(* It is enough that the goroutine that moved is sound where it arrives.   *)
LEMMA QuietServer ==
    ASSUME IndInv, NEW t \in Threads,
           th' \in [Threads -> Thread], OthersKept(t), ThreadSound(th[t])',
           agent' \in AgentRow,
           hub' \in Conns \cup {NoConn},
           assigns' \in 0..MaxAssigns,
           open' \in [Conns -> BOOLEAN],
           phase' \in Phases, SessInv',
           up' = up \/ (up' \in [Conns -> Seq(UpMessage)] /\ UpInv'),
           UNCHANGED <<deps, nextDep, down, sess, nconn, runs, histVars>>
    PROVE  IndInv'
<1>1. Grows /\ nextDep' \in Nat
  BY DEF Grows, histVars, IndInv, TypeOK, ServerTypeOK
<1>2. TypeOK'
  BY DEF IndInv, TypeOK, ServerTypeOK, AgentTypeOK, WireTypeOK, histVars
<1>3. ThreadInv' /\ RunInv' /\ UpInv' /\ DownInv' /\ StoreInv'
  BY <1>1, Frame
<1> QED
  BY <1>2, <1>3 DEF IndInv

(* A goroutine that arrives with nothing in hand, outside a push, is sound. *)
LEMMA BlankSound ==
    ASSUME NEW t \in Threads,
           NEW pc \in PCs \ {"push_dep", "push_save", "push_status", "push_send",
                             "update", "agent_get", "agent_save"},
           th'[t] = Blank(pc)
    PROVE  ThreadSound(th[t])'
BY DEF ThreadSound, Blank, NoDep

(* The status of a copy of the agents row may be changed before saving it. *)
LEMMA StatusTyped ==
    \A row \in AgentRow, s \in AgentStatuses : [row EXCEPT !.status = s] \in AgentRow
BY DEF AgentRow

(* A message changes status and index of a row within their types.         *)
LEMMA UpdatedTyped ==
    ASSUME NEW rec \in DeploymentState, NEW m \in UpMessage
    PROVE  Updated(rec, m) \in DeploymentState /\ Updated(rec, m).pb = rec.pb
<1>0. m.type \in UpTypes /\ m.step \in Nat /\ m.step + 1 \in Nat
  BY DEF UpMessage
<1>1. CASE m.type = "step_start"
  <2>1. Updated(rec, m) = [rec EXCEPT !.status = "running", !.resume = m.step]
    BY <1>1 DEF Updated
  <2> QED
    BY <1>0, <2>1 DEF DeploymentState, DeploymentStatuses
<1>2. CASE m.type = "step_complete"
  <2>1. Updated(rec, m) = [rec EXCEPT !.resume = m.step + 1]
    BY <1>2 DEF Updated
  <2> QED
    BY <1>0, <2>1 DEF DeploymentState, DeploymentStatuses
<1>3. CASE m.type = "reboot"
  <2>1. Updated(rec, m) = [rec EXCEPT !.status = "rebooting", !.resume = m.step]
    BY <1>3 DEF Updated
  <2> QED
    BY <1>0, <2>1 DEF DeploymentState, DeploymentStatuses
<1>4. CASE m.type = "deploy_done"
  <2>1. Updated(rec, m) = [rec EXCEPT !.status = "completed"]
    BY <1>4 DEF Updated
  <2> QED
    BY <1>0, <2>1 DEF DeploymentState, DeploymentStatuses
<1>5. CASE m.type = "deploy_failed"
  <2>1. Updated(rec, m) = [rec EXCEPT !.status = "failed"]
    BY <1>5 DEF Updated
  <2> QED
    BY <1>0, <2>1 DEF DeploymentState, DeploymentStatuses
<1> QED
  BY <1>0, <1>1, <1>2, <1>3, <1>4, <1>5 DEF UpTypes

(* The goroutine of a session, all but the save in updateDeploy: reading a *)
(* message turns a true message and a true row into a true copy.           *)
LEMMA SessionStepPreserves ==
    ASSUME IndInv, NEW c \in Conns, SessionStep(c), ~UpdateDeploy(c)
    PROVE  IndInv'
<1> USE DEF IndInv, TypeOK, ServerTypeOK, WireTypeOK
<1>0. /\ c \in Threads
      /\ th[c] \in Thread
      /\ ThreadSound(th[c])
      /\ UNCHANGED agentVars
  BY BoundAssumption DEF Conns, Threads, ThreadInv, SessionStep
<1>a. /\ phase' \in Phases
      /\ SessInv'
      /\ UNCHANGED <<sess, nconn, runs, histVars>>
  BY <1>0 DEF agentVars, AgentTypeOK, SessInv, histVars
<1>1. CASE RegisterList(c)
  <2>1. th' = [th EXCEPT ![c].pc = "reg_save", ![c].ag = agent]
    BY <1>1 DEF RegisterList
  <2>2. th' \in [Threads -> Thread] /\ OthersKept(c)
    BY <1>0, <2>1, CopyFacts DEF PCs
  <2>3. /\ th'[c].pc = "reg_save"
        /\ th'[c].dep = th[c].dep
        /\ th'[c].rec = th[c].rec
        /\ th'[c].ast = th[c].ast
    BY <1>0, <2>1, CopyFacts DEF PCs
  <2>4. ThreadSound(th[c])'
    BY <1>0, <1>1, <2>3 DEF ThreadSound, RowSound, Created, RegisterList, agentVars
  <2> QED
    BY <1>0, <1>1, <1>a, <2>2, <2>4, QuietServer DEF RegisterList, wireVars
<1>2. CASE WsNeverDialed(c)
  <2>1. PICK pc \in {"closed"} : Return(c, pc)
    BY <1>2 DEF WsNeverDialed
  <2>2. th' \in [Threads -> Thread] /\ OthersKept(c) /\ th'[c] = Blank(pc)
    BY <1>0, <2>1, ReturnFacts DEF PCs
  <2>3. ThreadSound(th[c])'
    BY <1>0, <2>1, <2>2, BlankSound DEF PCs
  <2> QED
    BY <1>0, <1>2, <1>a, <2>2, <2>3, QuietServer DEF WsNeverDialed, wireVars
<1>3. CASE HubRegister(c)
  <2>1. Goto(c, "ws_save")
    BY <1>3 DEF HubRegister
  <2>2. th' \in [Threads -> Thread] /\ OthersKept(c)
    BY <1>0, <2>1, GotoFacts DEF PCs
  <2>3. /\ th'[c].pc = "ws_save"
        /\ th'[c].dep = th[c].dep
        /\ th'[c].rec = th[c].rec
    BY <1>0, <2>1, GotoFacts DEF PCs
  <2>4. ThreadSound(th[c])'
    BY <1>0, <1>3, <2>3 DEF ThreadSound, RowSound, Created, HubRegister, agentVars
  <2>5. hub' \in Conns \cup {NoConn} /\ open' \in [Conns -> BOOLEAN]
    BY <1>3 DEF HubRegister, NoConn
  <2> QED
    BY <1>0, <1>3, <1>a, <2>2, <2>4, <2>5, QuietServer DEF HubRegister
<1>4. CASE WsSaveAgent(c)
  <2>1. PICK pc \in {"push_agent"} : Return(c, pc)
    BY <1>4 DEF WsSaveAgent
  <2>2. th' \in [Threads -> Thread] /\ OthersKept(c) /\ th'[c] = Blank(pc)
    BY <1>0, <2>1, ReturnFacts DEF PCs
  <2>3. ThreadSound(th[c])'
    BY <1>0, <2>1, <2>2, BlankSound DEF PCs
  <2>4. agent' \in AgentRow
    BY <1>0, <1>4, StatusTyped DEF WsSaveAgent, SaveAgent, Thread, AgentStatuses
  <2> QED
    BY <1>0, <1>4, <1>a, <2>2, <2>3, <2>4, QuietServer DEF WsSaveAgent, wireVars
<1>5. CASE WsRead(c)
  <2> DEFINE m == Head(up[c])
  <2>1. m \in UpMessage /\ UpSound(m) /\ m.dep \in DepIds
    <3>1. up[c] \in Seq(UpMessage) /\ up[c] # << >>
      BY <1>5 DEF WsRead
    <3>2. m = up[c][1] /\ 1 \in 1..Len(up[c])
      BY <3>1
    <3>3. UpSound(up[c][1])
      BY <3>2 DEF UpInv
    <3>4. m \in UpMessage
      BY <3>1
    <3>5. m.dep \in DepIds
      BY <3>4 DEF UpMessage
    <3> QED
      BY <3>2, <3>3, <3>4, <3>5
  <2>2. up' \in [Conns -> Seq(UpMessage)] /\ UpInv'
    <3>1. Grows /\ nextDep' \in Nat
      BY <1>5, <1>a DEF Grows, WsRead, histVars
    <3> QED
      BY <1>5, <3>1, ReadUpFacts DEF WsRead
  <2>3. /\ StatusAfter(m) \in AgentStatuses \cup {NoStatus}
        /\ AfterUpdate(StatusAfter(m)) \in {"read", "agent_get"}
        /\ AfterUpdate(StatusAfter(m)) = "agent_get" => StatusAfter(m) # NoStatus
    BY DEF StatusAfter, AgentStatuses, AfterUpdate
  <2>4. CASE deps[m.dep].status = "absent"
    <3> DEFINE x == [th[c] EXCEPT !.pc = AfterUpdate(StatusAfter(m)), !.ast = StatusAfter(m)]
    <3>1. th' = [th EXCEPT ![c] = x]
      BY <1>5, <2>4 DEF WsRead
    <3>2. /\ x \in Thread
          /\ x.pc = AfterUpdate(StatusAfter(m))
          /\ x.ast = StatusAfter(m)
          /\ x.dep = th[c].dep
          /\ x.rec = th[c].rec
      BY <1>0, <2>3 DEF Thread, PCs
    <3>3. th' \in [Threads -> Thread] /\ OthersKept(c) /\ th'[c] = x
      BY <1>0, <3>1, <3>2 DEF OthersKept
    <3> HIDE DEF x
    <3>4. ThreadSound(th[c])'
      BY <1>0, <1>5, <2>3, <3>2, <3>3 DEF ThreadSound, RowSound, Created, WsRead, agentVars
    <3> QED
      BY <1>0, <1>5, <1>a, <2>2, <3>3, <3>4, QuietServer DEF WsRead
  <2>5. CASE deps[m.dep].status # "absent"
    <3> DEFINE y == Updated(deps[m.dep], m)
               x == [th[c] EXCEPT !.pc = "update", !.ast = StatusAfter(m),
                                  !.dep = m.dep, !.rec = y]
    <3>1. /\ y \in DeploymentState
          /\ Created(m.dep, y.pb)
          /\ RowSound(m.dep, y)
      <4>1. deps[m.dep] \in DeploymentState /\ RowSound(m.dep, deps[m.dep])
        BY <2>1 DEF StoreInv
      <4>2. m.type \in UpTypes /\ m.step \in Nat
        BY <2>1 DEF UpMessage
      <4>3. y \in DeploymentState /\ y.pb = deps[m.dep].pb
        BY <2>1, <4>1, UpdatedTyped
      <4>4. Created(m.dep, y.pb)
        BY <2>1, <4>3 DEF Created, UpSound
      <4>5. RowSound(m.dep, y)
        <5>1. CASE m.type = "step_start"
          BY <2>1, <4>1, <5>1 DEF Updated, RowSound, UpSound, DeploymentState
        <5>2. CASE m.type = "step_complete"
          BY <2>1, <4>1, <5>2 DEF Updated, RowSound, UpSound, DeploymentState
        <5>3. CASE m.type = "reboot"
          BY <2>1, <4>1, <5>3 DEF Updated, RowSound, UpSound, DeploymentState
        <5>4. CASE m.type = "deploy_done"
          BY <2>1, <4>1, <5>4 DEF Updated, RowSound, UpSound, DeploymentState
        <5>5. CASE m.type = "deploy_failed"
          BY <2>1, <4>1, <5>5 DEF Updated, RowSound, UpSound, DeploymentState
        <5> QED
          BY <4>2, <5>1, <5>2, <5>3, <5>4, <5>5 DEF UpTypes
      <4> QED
        BY <4>3, <4>4, <4>5
    <3>2. th' = [th EXCEPT ![c] = x]
      BY <1>5, <2>5 DEF WsRead
    <3> HIDE DEF y
    <3>3. /\ x \in Thread
          /\ x.pc = "update"
          /\ x.dep = m.dep
          /\ x.rec = y
      BY <1>0, <2>1, <2>3, <3>1 DEF Thread, PCs
    <3>4. th' \in [Threads -> Thread] /\ OthersKept(c) /\ th'[c] = x
      BY <1>0, <3>2, <3>3 DEF OthersKept
    <3> HIDE DEF x, m
    <3>5. x.dep # NoDep
      BY <2>1, <3>3, BoundAssumption DEF DepIds, NoDep
    <3>6. ThreadSound(th[c])'
      BY <1>0, <1>5, <3>1, <3>3, <3>4, <3>5 DEF ThreadSound, RowSound, Created, WsRead, agentVars
    <3> QED
      BY <1>0, <1>5, <1>a, <2>2, <3>4, <3>6, QuietServer DEF WsRead
  <2> QED
    BY <2>4, <2>5
<1>6. CASE StatusGetAgent(c)
  <2>1. th' = [th EXCEPT ![c].pc = "agent_save", ![c].ag = agent]
    BY <1>6 DEF StatusGetAgent
  <2>2. th' \in [Threads -> Thread] /\ OthersKept(c)
    BY <1>0, <2>1, CopyFacts DEF PCs
  <2>3. /\ th'[c].pc = "agent_save"
        /\ th'[c].dep = th[c].dep
        /\ th'[c].rec = th[c].rec
        /\ th'[c].ast = th[c].ast
    BY <1>0, <2>1, CopyFacts DEF PCs
  <2>4. ThreadSound(th[c])'
    BY <1>0, <1>6, <2>3 DEF ThreadSound, RowSound, Created, StatusGetAgent, agentVars
  <2> QED
    BY <1>0, <1>6, <1>a, <2>2, <2>4, QuietServer DEF StatusGetAgent, wireVars
<1>7. CASE StatusSaveAgent(c)
  <2>1. Return(c, "read")
    BY <1>7 DEF StatusSaveAgent
  <2>2. th' \in [Threads -> Thread] /\ OthersKept(c) /\ th'[c] = Blank("read")
    BY <1>0, <2>1, ReturnFacts DEF PCs
  <2>3. ThreadSound(th[c])'
    BY <1>0, <2>2, BlankSound DEF PCs
  <2>4. agent' \in AgentRow
    <3>1. th[c].ast \in AgentStatuses /\ th[c].ag \in AgentRow
      BY <1>0, <1>7 DEF StatusSaveAgent, ThreadSound, Thread
    <3> QED
      BY <1>7, <3>1, StatusTyped DEF StatusSaveAgent, SaveAgent
  <2> QED
    BY <1>0, <1>7, <1>a, <2>2, <2>3, <2>4, QuietServer DEF StatusSaveAgent, wireVars
<1>8. CASE WsReadError(c)
  <2>1. Goto(c, "clean_get")
    BY <1>8 DEF WsReadError
  <2>2. th' \in [Threads -> Thread] /\ OthersKept(c)
    BY <1>0, <2>1, GotoFacts DEF PCs
  <2>3. /\ th'[c].pc = "clean_get"
        /\ th'[c].dep = th[c].dep
        /\ th'[c].rec = th[c].rec
    BY <1>0, <2>1, GotoFacts DEF PCs
  <2>4. ThreadSound(th[c])'
    BY <1>0, <1>8, <2>3 DEF ThreadSound, RowSound, Created, WsReadError, agentVars
  <2>5. up' \in [Conns -> Seq(UpMessage)] /\ UpInv'
    <3>1. Grows /\ nextDep' \in Nat
      BY <1>8, <1>a DEF Grows, WsReadError, histVars
    <3> QED
      BY <1>8, <3>1, ReadUpFacts DEF WsReadError
  <2> QED
    BY <1>0, <1>8, <1>a, <2>2, <2>4, <2>5, QuietServer DEF WsReadError
<1>9. CASE CleanGetAgent(c)
  <2>1. th' = [th EXCEPT ![c].pc = "clean_save", ![c].ag = agent]
    BY <1>9 DEF CleanGetAgent
  <2>2. th' \in [Threads -> Thread] /\ OthersKept(c)
    BY <1>0, <2>1, CopyFacts DEF PCs
  <2>3. /\ th'[c].pc = "clean_save"
        /\ th'[c].dep = th[c].dep
        /\ th'[c].rec = th[c].rec
        /\ th'[c].ast = th[c].ast
    BY <1>0, <2>1, CopyFacts DEF PCs
  <2>4. ThreadSound(th[c])'
    BY <1>0, <1>9, <2>3 DEF ThreadSound, RowSound, Created, CleanGetAgent, agentVars
  <2> QED
    BY <1>0, <1>9, <1>a, <2>2, <2>4, QuietServer DEF CleanGetAgent, wireVars
<1>10. CASE CleanSaveAgent(c)
  <2>1. Return(c, "closed")
    BY <1>10 DEF CleanSaveAgent
  <2>2. th' \in [Threads -> Thread] /\ OthersKept(c) /\ th'[c] = Blank("closed")
    BY <1>0, <2>1, ReturnFacts DEF PCs
  <2>3. ThreadSound(th[c])'
    BY <1>0, <2>2, BlankSound DEF PCs
  <2>4. agent' \in AgentRow
    <3>1. th[c].ag \in AgentRow
      BY <1>0 DEF Thread
    <3> QED
      BY <1>10, <3>1 DEF CleanSaveAgent, SaveAgent, AgentRow, AgentStatuses
  <2> QED
    BY <1>0, <1>10, <1>a, <2>2, <2>3, <2>4, QuietServer DEF CleanSaveAgent, wireVars
<1> QED
  BY <1>1, <1>2, <1>3, <1>4, <1>5, <1>6, <1>7, <1>8, <1>9, <1>10 DEF SessionStep
-----------------------------------------------------------------------------
(* Steps of the server that save a deployment.                             *)

(* Saving a row that tells the truth about a created deployment.           *)
LEMMA SaveFacts ==
    ASSUME IndInv, NEW d \in DepIds, NEW rec \in DeploymentState,
           Created(d, rec.pb), RowSound(d, rec),
           SaveDeployment(d, rec), UNCHANGED <<nextDep, histVars>>
    PROVE  /\ deps' \in [DepIds -> DeploymentState]
           /\ Grows
           /\ nextDep' \in Nat
           /\ StoreInv'
<1> USE DEF IndInv, TypeOK, ServerTypeOK
<1>1. deps' \in [DepIds -> DeploymentState] /\ nextDep' \in Nat
  BY DEF SaveDeployment
<1>2. Grows
  BY DEF Grows, SaveDeployment, Created, histVars
<1>3. ASSUME NEW e \in DepIds
      PROVE  /\ RowSound(e, deps[e])'
             /\ (deps[e].status # "absent" => e < nextDep)'
             /\ (e < nextDep => deps[e].pb \in Playbooks)'
  <2>1. CASE e = d
    <3>1. deps'[e] = rec
      BY <2>1 DEF SaveDeployment
    <3> QED
      BY <2>1, <3>1 DEF StoreInv, Created, RowSound, histVars
  <2>2. CASE e # d
    <3>1. deps'[e] = deps[e]
      BY <2>2 DEF SaveDeployment
    <3> QED
      BY <3>1 DEF StoreInv, RowSound, histVars
  <2> QED
    BY <2>1, <2>2
<1> QED
  BY <1>1, <1>2, <1>3 DEF StoreInv

(* A goroutine that saves a row and moves on.                              *)
LEMMA SavingServer ==
    ASSUME IndInv, NEW t \in Threads,
           th' \in [Threads -> Thread], OthersKept(t), ThreadSound(th[t])',
           deps' \in [DepIds -> DeploymentState], StoreInv', Grows,
           nextDep' \in 1..(MaxDeps + 1),
           UNCHANGED <<agent, hub, assigns, wireVars, agentVars>>
    PROVE  IndInv'
<1>1. nextDep' \in Nat
  BY BoundAssumption
<1>2. TypeOK'
  BY DEF IndInv, TypeOK, ServerTypeOK, AgentTypeOK, WireTypeOK, wireVars, agentVars
<1>3. ThreadInv' /\ RunInv' /\ UpInv' /\ DownInv'
  BY <1>1, Frame DEF wireVars, agentVars
<1>4. SessInv'
  BY DEF IndInv, SessInv, agentVars
<1> QED
  BY <1>2, <1>3, <1>4 DEF IndInv

(* updateDeploy saves its copy, however old, over the row (ws.go:255).     *)
LEMMA UpdateDeployPreserves ==
    ASSUME IndInv, NEW c \in Conns, UpdateDeploy(c), UNCHANGED agentVars
    PROVE  IndInv'
<1> USE DEF IndInv, TypeOK, ServerTypeOK
<1>0. c \in Threads /\ th[c] \in Thread /\ ThreadSound(th[c])
  BY BoundAssumption DEF Conns, Threads, ThreadInv
<1>1. /\ th[c].dep \in DepIds
      /\ th[c].rec \in DeploymentState
      /\ th[c].ast \in AgentStatuses \cup {NoStatus}
      /\ Created(th[c].dep, th[c].rec.pb)
      /\ RowSound(th[c].dep, th[c].rec)
  BY <1>0 DEF UpdateDeploy, ThreadSound, Thread
<1>2. /\ deps' \in [DepIds -> DeploymentState]
      /\ Grows
      /\ StoreInv'
  BY <1>1, SaveFacts DEF UpdateDeploy, agentVars, histVars
<1> DEFINE x == [Blank(AfterUpdate(th[c].ast)) EXCEPT !.ast = th[c].ast]
<1>3. th' = [th EXCEPT ![c] = x]
  BY DEF UpdateDeploy
<1>4. /\ x \in Thread
      /\ x.pc = AfterUpdate(th[c].ast)
      /\ x.ast = th[c].ast
      /\ x.dep = NoDep
  <2>1. AfterUpdate(th[c].ast) \in PCs
    BY DEF AfterUpdate, PCs
  <2>2. Blank(AfterUpdate(th[c].ast)) \in Thread
    BY <2>1, BlankTyped
  <2>3. Blank(AfterUpdate(th[c].ast)).pc = AfterUpdate(th[c].ast)
        /\ Blank(AfterUpdate(th[c].ast)).dep = NoDep
    BY DEF Blank
  <2> QED
    BY <1>1, <2>2, <2>3 DEF Thread
<1>5. th' \in [Threads -> Thread] /\ OthersKept(c) /\ th'[c] = x
  BY <1>0, <1>3, <1>4 DEF OthersKept
<1> HIDE DEF x
<1>6. ThreadSound(th[c])'
  BY <1>4, <1>5 DEF ThreadSound, AfterUpdate
<1> QED
  BY <1>0, <1>2, <1>5, <1>6, SavingServer DEF UpdateDeploy

(* Manager.PushPlaybookIfAssigned.                                         *)
LEMMA PushStepPreserves ==
    ASSUME IndInv, NEW t \in Threads, PushStep(t)
    PROVE  IndInv'
<1> USE DEF IndInv, TypeOK, ServerTypeOK, WireTypeOK
<1>0. /\ th[t] \in Thread
      /\ ThreadSound(th[t])
      /\ UNCHANGED agentVars
      /\ AfterPush(t) \in {"off", "read"}
  BY DEF ThreadInv, PushStep, AfterPush
<1>a. /\ phase' \in Phases
      /\ SessInv'
      /\ UNCHANGED <<sess, nconn, runs, histVars>>
  BY <1>0 DEF agentVars, AgentTypeOK, SessInv, histVars
<1>b. ASSUME Return(t, AfterPush(t))
      PROVE  th' \in [Threads -> Thread] /\ OthersKept(t) /\ ThreadSound(th[t])'
  <2>1. th' \in [Threads -> Thread] /\ OthersKept(t) /\ th'[t] = Blank(AfterPush(t))
    BY <1>0, <1>b, ReturnFacts DEF PCs
  <2> QED
    BY <1>0, <2>1, BlankSound DEF PCs
<1>1. CASE PushGetAgent(t)
  <2>1. CASE agent.pb = NoPlaybook
    BY <1>0, <1>1, <1>a, <1>b, <2>1, QuietServer DEF PushGetAgent, wireVars
  <2>2. CASE agent.pb # NoPlaybook
    <3>1. th' = [th EXCEPT ![t].pc = "push_dep", ![t].ag = agent]
      BY <1>1, <2>2 DEF PushGetAgent
    <3>2. th' \in [Threads -> Thread] /\ OthersKept(t)
      BY <3>1, CopyFacts DEF PCs
    <3>3. /\ th'[t].pc = "push_dep"
          /\ th'[t].ag = agent
          /\ th'[t].dep = th[t].dep
          /\ th'[t].rec = th[t].rec
      BY <3>1, CopyFacts DEF PCs
    <3>4. agent.pb \in Playbooks
      BY <2>2 DEF AgentRow
    <3>5. ThreadSound(th[t])'
      BY <1>0, <1>1, <3>3, <3>4 DEF ThreadSound, RowSound, Created, PushGetAgent, agentVars
    <3> QED
      BY <1>0, <1>1, <1>a, <3>2, <3>5, QuietServer DEF PushGetAgent, wireVars
  <2> QED
    BY <2>1, <2>2
<1>2. CASE PushGetDeployment(t)
  <2>0. th[t].ag.pb \in Playbooks
    BY <1>0, <1>2 DEF PushGetDeployment, ThreadSound
  <2>1. CASE \E d \in DepIds :
               /\ Active(d)
               /\ th' = [th EXCEPT ![t].pc = "push_save", ![t].dep = d,
                                   ![t].rec = [deps[d] EXCEPT !.status = "running"]]
    <3>1. PICK d \in DepIds :
               /\ Active(d)
               /\ th' = [th EXCEPT ![t].pc = "push_save", ![t].dep = d,
                                   ![t].rec = [deps[d] EXCEPT !.status = "running"]]
      BY <2>1
    <3> DEFINE y == [deps[d] EXCEPT !.status = "running"]
               x == [th[t] EXCEPT !.pc = "push_save", !.dep = d, !.rec = y]
    <3>2. /\ y \in DeploymentState
          /\ y.pb = deps[d].pb
          /\ y.resume = deps[d].resume
          /\ y.status = "running"
      BY DEF DeploymentState, DeploymentStatuses
    <3>3. Created(d, y.pb)
      BY <3>1, <3>2 DEF Active, Stored, StoreInv, Created
    <3>4. RowSound(d, y)
      BY <3>2 DEF StoreInv, RowSound
    <3>5. th' = [th EXCEPT ![t] = x]
      BY <3>1
    <3> HIDE DEF y
    <3>6. x \in Thread /\ x.pc = "push_save" /\ x.dep = d /\ x.rec = y /\ x.ag = th[t].ag
      BY <1>0, <3>2 DEF Thread, PCs
    <3>7. th' \in [Threads -> Thread] /\ OthersKept(t) /\ th'[t] = x
      BY <3>5, <3>6 DEF OthersKept
    <3> HIDE DEF x
    <3>8. d # NoDep
      BY BoundAssumption DEF DepIds, NoDep
    <3>9. ThreadSound(th[t])'
      BY <1>0, <1>2, <2>0, <3>3, <3>4, <3>6, <3>7, <3>8
         DEF ThreadSound, RowSound, Created, PushGetDeployment, agentVars
    <3> QED
      BY <1>0, <1>2, <1>a, <3>7, <3>9, QuietServer DEF PushGetDeployment, wireVars
  <2>2. CASE th' = [th EXCEPT ![t].pc = "push_save", ![t].dep = NoDep,
                              ![t].rec = [pb |-> th[t].ag.pb,
                                          status |-> "running", resume |-> 0]]
    <3> DEFINE y == [pb |-> th[t].ag.pb, status |-> "running", resume |-> 0]
               x == [th[t] EXCEPT !.pc = "push_save", !.dep = NoDep, !.rec = y]
    <3>1. y \in DeploymentState
      BY <2>0 DEF DeploymentState, DeploymentStatuses
    <3>2. th' = [th EXCEPT ![t] = x]
      BY <2>2
    <3>3. x \in Thread /\ x.pc = "push_save" /\ x.dep = NoDep /\ x.rec = y /\ x.ag = th[t].ag
      BY <1>0, <3>1 DEF Thread, PCs
    <3>4. th' \in [Threads -> Thread] /\ OthersKept(t) /\ th'[t] = x
      BY <3>2, <3>3 DEF OthersKept
    <3> HIDE DEF x
    <3>5. ThreadSound(th[t])'
      BY <2>0, <3>3, <3>4 DEF ThreadSound
    <3> QED
      BY <1>0, <1>2, <1>a, <3>4, <3>5, QuietServer DEF PushGetDeployment, wireVars
  <2>3. CASE Return(t, AfterPush(t))
    BY <1>0, <1>2, <1>a, <1>b, <2>3, QuietServer DEF PushGetDeployment, wireVars
  <2> QED
    BY <1>2, <2>1, <2>2, <2>3 DEF PushGetDeployment
<1>3. CASE PushSaveDeployment(t)
  <2>0. th[t].ag.pb \in Playbooks /\ th[t].rec \in DeploymentState
    BY <1>0, <1>3 DEF PushSaveDeployment, ThreadSound, Thread
  <2>1. CASE th[t].dep # NoDep
    <3>1. /\ th[t].dep \in DepIds
          /\ Created(th[t].dep, th[t].rec.pb)
          /\ RowSound(th[t].dep, th[t].rec)
      BY <1>0, <2>1 DEF ThreadSound, Thread
    <3>2. /\ deps' \in [DepIds -> DeploymentState]
          /\ Grows
          /\ StoreInv'
      BY <1>3, <1>a, <2>0, <2>1, <3>1, SaveFacts DEF PushSaveDeployment, histVars
    <3>3. Goto(t, "push_status") /\ nextDep' = nextDep
      BY <1>3, <2>1 DEF PushSaveDeployment
    <3>4. th' \in [Threads -> Thread] /\ OthersKept(t)
      BY <3>3, GotoFacts DEF PCs
    <3>5. th'[t].pc = "push_status" /\ th'[t].dep = th[t].dep /\ th'[t].rec = th[t].rec
      BY <3>3, GotoFacts DEF PCs
    <3>6. Created(th[t].dep, th[t].rec.pb)' /\ RowSound(th[t].dep, th[t].rec)'
      BY <1>3, <1>a, <2>1, <3>1, <3>3, <3>5
         DEF Created, RowSound, PushSaveDeployment, SaveDeployment, histVars
    <3>7. ThreadSound(th[t])'
      BY <2>1, <3>5, <3>6 DEF ThreadSound
    <3> QED
      BY <1>0, <1>3, <3>2, <3>3, <3>4, <3>7, SavingServer DEF PushSaveDeployment, wireVars
  <2>2. CASE th[t].dep = NoDep
    <3>a. /\ nextDep <= MaxDeps
          /\ nextDep' = nextDep + 1
          /\ deps' = [deps EXCEPT ![nextDep] = th[t].rec]
          /\ th' = [th EXCEPT ![t].pc = "push_status", ![t].dep = nextDep]
      BY <1>3, <2>2, Zenon DEF PushSaveDeployment, SaveDeployment
    <3>b. nextDep \in DepIds /\ nextDep' \in 1..(MaxDeps + 1)
      BY <3>a, BoundAssumption DEF DepIds
    <3>1. /\ nextDep \in DepIds
          /\ nextDep' = nextDep + 1
          /\ nextDep' \in 1..(MaxDeps + 1)
          /\ deps' = [deps EXCEPT ![nextDep] = th[t].rec]
          /\ th' = [th EXCEPT ![t].pc = "push_status", ![t].dep = nextDep]
      BY <3>a, <3>b, Zenon
    <3>2. th[t].rec = [pb |-> th[t].ag.pb, status |-> "running", resume |-> 0]
      BY <1>0, <1>3, <2>2 DEF PushSaveDeployment, ThreadSound
    <3>3. /\ deps' \in [DepIds -> DeploymentState]
          /\ Grows
      BY <1>a, <2>0, <3>1 DEF Grows, histVars
    <3>4. ASSUME NEW e \in DepIds
          PROVE  /\ RowSound(e, deps[e])'
                 /\ (deps[e].status # "absent" => e < nextDep)'
                 /\ (e < nextDep => deps[e].pb \in Playbooks)'
      <4>1. CASE e = nextDep
        <5>1. deps'[e] = th[t].rec
          BY <3>1, <4>1
        <5>2. RowSound(e, deps[e])'
          BY <3>2, <5>1 DEF RowSound, Before
        <5> QED
          BY <2>0, <3>1, <3>2, <4>1, <5>1, <5>2
      <4>2. CASE e # nextDep
        <5>1. deps'[e] = deps[e] /\ e \in Nat /\ nextDep \in Nat
          BY <3>1, <4>2, BoundAssumption DEF DepIds
        <5>2. RowSound(e, deps[e])'
          BY <1>a, <5>1 DEF StoreInv, RowSound, histVars
        <5> QED
          BY <3>1, <4>2, <5>1, <5>2 DEF StoreInv
      <4> QED
        BY <4>1, <4>2
    <3>5. StoreInv'
      BY <3>4 DEF StoreInv
    <3> DEFINE x == [th[t] EXCEPT !.pc = "push_status", !.dep = nextDep]
    <3>6. th' = [th EXCEPT ![t] = x]
      BY <3>1
    <3>7. x \in Thread /\ x.pc = "push_status" /\ x.dep = nextDep /\ x.rec = th[t].rec
      BY <1>0, <3>1 DEF Thread, PCs
    <3>8. th' \in [Threads -> Thread] /\ OthersKept(t) /\ th'[t] = x
      BY <3>6, <3>7 DEF OthersKept
    <3> HIDE DEF x
    <3>9. ThreadSound(th[t])'
      <4>1. nextDep # NoDep /\ nextDep < nextDep'
        BY <3>1 DEF NoDep
      <4>2. Created(th[t].dep, th[t].rec.pb)'
        BY <3>1, <3>7, <3>8, <4>1 DEF Created
      <4>3. RowSound(th[t].dep, th[t].rec)'
        BY <3>2, <3>7, <3>8 DEF RowSound, Before
      <4> QED
        BY <3>7, <3>8, <4>1, <4>2, <4>3 DEF ThreadSound
    <3> QED
      BY <1>0, <1>3, <3>1, <3>3, <3>5, <3>8, <3>9, SavingServer DEF PushSaveDeployment, wireVars
  <2> QED
    BY <2>1, <2>2
<1>4. CASE PushSaveAgent(t)
  <2>1. Goto(t, "push_send")
    BY <1>4 DEF PushSaveAgent
  <2>2. th' \in [Threads -> Thread] /\ OthersKept(t)
    BY <2>1, GotoFacts DEF PCs
  <2>3. th'[t].pc = "push_send" /\ th'[t].dep = th[t].dep /\ th'[t].rec = th[t].rec
    BY <2>1, GotoFacts DEF PCs
  <2>4. ThreadSound(th[t])'
    BY <1>0, <1>4, <2>3 DEF ThreadSound, RowSound, Created, PushSaveAgent, agentVars
  <2>5. agent' \in AgentRow
    BY <1>0, <1>4, StatusTyped DEF PushSaveAgent, SaveAgent, Thread, AgentStatuses
  <2> QED
    BY <1>0, <1>4, <1>a, <2>2, <2>4, <2>5, QuietServer DEF PushSaveAgent, wireVars
<1>5. CASE PushSend(t)
  <2>1. Grows /\ nextDep' \in Nat
    BY <1>5, <1>a DEF Grows, PushSend, histVars
  <2>2. th' \in [Threads -> Thread] /\ OthersKept(t) /\ ThreadSound(th[t])'
    BY <1>5, <1>b DEF PushSend
  <2>3. down' \in [Conns -> Seq(PlaybookMessage)] /\ DownInv'
    <3>1. CASE down' = down
      BY <2>1, <3>1, Frame
    <3>2. CASE down' # down
      <4> DEFINE m == [dep |-> th[t].dep, pb |-> th[t].rec.pb, resume |-> th[t].rec.resume]
      <4>1. hub \in Conns /\ down' = [down EXCEPT ![hub] = Append(down[hub], m)]
        BY <1>5, <3>2 DEF PushSend
      <4>2. /\ th[t].dep \in DepIds
            /\ th[t].rec \in DeploymentState
            /\ Created(th[t].dep, th[t].rec.pb)
            /\ RowSound(th[t].dep, th[t].rec)
        BY <1>0, <1>5 DEF PushSend, ThreadSound, Thread
      <4>3. th[t].rec.pb \in Playbooks /\ th[t].rec.resume \in Nat
        BY <4>2 DEF Created, StoreInv, DeploymentState
      <4>4. m \in PlaybookMessage
        BY <4>2, <4>3 DEF PlaybookMessage
      <4>5. DownSound(m)
        BY <4>2 DEF DownSound, Created, RowSound
      <4>6. PICK n \in PlaybookMessage : n = m /\ DownSound(n)
        BY <4>4, <4>5
      <4>7. DownSound(n)'
        BY <2>1, <4>6, ClaimsStay
      <4>8. down' = [down EXCEPT ![hub] = Append(down[hub], n)]
        BY <4>1, <4>6
      <4> QED
        BY <2>1, <4>1, <4>6, <4>7, <4>8, SendDownFacts
    <3> QED
      BY <3>1, <3>2
  <2>4. StoreInv' /\ ThreadInv' /\ UpInv' /\ RunInv'
    BY <1>5, <1>a, <2>1, <2>2, Frame DEF PushSend
  <2>5. TypeOK'
    BY <1>5, <1>a, <2>2, <2>3 DEF PushSend, AgentTypeOK, histVars
  <2> QED
    BY <1>a, <2>3, <2>4, <2>5
<1> QED
  BY <1>1, <1>2, <1>3, <1>4, <1>5 DEF PushStep
-----------------------------------------------------------------------------
(* Root's requests, registration and the WebSocket handshake.              *)

(* Root's requests have a goroutine.                                       *)
LEMMA RootIsThread == Root \in Threads
BY BoundAssumption DEF Root, Threads

(* Manager.AssignPlaybookToAgent changes only the agents row.              *)
LEMMA AssignPreserves ==
    ASSUME IndInv, AssignStep \/ Assign
    PROVE  IndInv'
<1> USE DEF IndInv, TypeOK, ServerTypeOK, WireTypeOK
<1>0. /\ Root \in Threads
      /\ th[Root] \in Thread
      /\ ThreadSound(th[Root])
      /\ UNCHANGED agentVars
  BY RootIsThread DEF ThreadInv, AssignStep, Assign
<1>a. /\ phase' \in Phases
      /\ SessInv'
      /\ UNCHANGED <<sess, nconn, runs, histVars>>
  BY <1>0 DEF agentVars, AgentTypeOK, SessInv, histVars
<1>1. CASE Assign
  <2>1. PICK p \in Playbooks : AssignGetAgent(p)
    BY <1>1 DEF Assign
  <2>2. [agent EXCEPT !.pb = p] \in AgentRow
    BY <2>1 DEF AgentRow
  <2>3. th' = [th EXCEPT ![Root].pc = "assign_save", ![Root].ag = [agent EXCEPT !.pb = p]]
    BY <2>1 DEF AssignGetAgent
  <2>4. th' \in [Threads -> Thread] /\ OthersKept(Root)
    BY <1>0, <2>2, <2>3, CopyFacts DEF PCs
  <2>5. /\ th'[Root].pc = "assign_save"
        /\ th'[Root].dep = th[Root].dep
        /\ th'[Root].rec = th[Root].rec
    BY <1>0, <2>2, <2>3, CopyFacts DEF PCs
  <2>6. ThreadSound(th[Root])'
    BY <1>0, <2>1, <2>5 DEF ThreadSound, RowSound, Created, AssignGetAgent, agentVars
  <2>7. assigns' \in 0..MaxAssigns
    BY <2>1, ServerAssumption DEF AssignGetAgent
  <2> QED
    BY <1>0, <1>a, <2>1, <2>4, <2>6, <2>7, QuietServer DEF AssignGetAgent, wireVars
<1>2. CASE AssignSaveAgent
  <2>1. Return(Root, "assign_push")
    BY <1>2 DEF AssignSaveAgent
  <2>2. th' \in [Threads -> Thread] /\ OthersKept(Root) /\ th'[Root] = Blank("assign_push")
    BY <1>0, <2>1, ReturnFacts DEF PCs
  <2>3. ThreadSound(th[Root])'
    BY <1>0, <2>2, BlankSound DEF PCs
  <2>4. agent' \in AgentRow
    BY <1>0, <1>2 DEF AssignSaveAgent, SaveAgent, Thread
  <2> QED
    BY <1>0, <1>2, <1>a, <2>2, <2>3, <2>4, QuietServer DEF AssignSaveAgent, wireVars
<1>3. CASE AssignIsConnected
  <2>1. CASE hub = NoConn
    <3>1. Return(Root, "off")
      BY <1>3, <2>1 DEF AssignIsConnected
    <3>2. th' \in [Threads -> Thread] /\ OthersKept(Root) /\ th'[Root] = Blank("off")
      BY <1>0, <3>1, ReturnFacts DEF PCs
    <3>3. ThreadSound(th[Root])'
      BY <1>0, <3>2, BlankSound DEF PCs
    <3> QED
      BY <1>0, <1>3, <1>a, <3>2, <3>3, QuietServer DEF AssignIsConnected, wireVars
  <2>2. CASE hub # NoConn
    <3> DEFINE x == [th[Root] EXCEPT !.pc = "push_agent", !.force = TRUE]
    <3>1. th' = [th EXCEPT ![Root] = x]
      BY <1>3, <2>2 DEF AssignIsConnected
    <3>2. x \in Thread /\ x.pc = "push_agent" /\ x.dep = th[Root].dep /\ x.rec = th[Root].rec
      BY <1>0 DEF Thread, PCs
    <3>3. th' \in [Threads -> Thread] /\ OthersKept(Root) /\ th'[Root] = x
      BY <1>0, <3>1, <3>2 DEF OthersKept
    <3> HIDE DEF x
    <3>4. ThreadSound(th[Root])'
      BY <1>0, <1>3, <3>2, <3>3
         DEF ThreadSound, RowSound, Created, AssignIsConnected, agentVars
    <3> QED
      BY <1>0, <1>3, <1>a, <3>3, <3>4, QuietServer DEF AssignIsConnected, wireVars
  <2> QED
    BY <2>1, <2>2
<1> QED
  BY <1>1, <1>2, <1>3 DEF AssignStep

(* A registration request starts a goroutine with nothing in hand.         *)
LEMMA RegisterPreserves ==
    ASSUME IndInv, Register
    PROVE  IndInv'
<1> USE DEF IndInv, TypeOK, ServerTypeOK, WireTypeOK, AgentTypeOK
<1>1. PICK k \in Conns : k = nconn + 1
  BY BoundAssumption DEF Register, BeginRegister, Conns
<1>2. /\ k \in Threads
      /\ nconn' \in 0..MaxConns
      /\ sess' \in Conns
      /\ phase' \in Phases
  BY <1>1, BoundAssumption DEF Register, BeginRegister, Conns, Threads, Phases
<1>3. th' \in [Threads -> Thread] /\ OthersKept(k) /\ ThreadSound(th[k])'
  <2>1. Return(k, "reg_list")
    BY <1>1 DEF Register, Return
  <2>2. th' \in [Threads -> Thread] /\ OthersKept(k) /\ th'[k] = Blank("reg_list")
    BY <1>2, <2>1, ReturnFacts DEF PCs
  <2> QED
    BY <1>2, <2>2, BlankSound DEF PCs
<1>4. Grows /\ nextDep' \in Nat
  BY DEF Grows, Register, BeginRegister, histVars
<1>5. TypeOK' /\ SessInv'
  BY <1>2, <1>3 DEF Register, BeginRegister, histVars, SessInv
<1>6. StoreInv' /\ ThreadInv' /\ UpInv' /\ DownInv' /\ RunInv'
  BY <1>2, <1>3, <1>4, Frame DEF Register, BeginRegister
<1> QED
  BY <1>5, <1>6

(* The registration's reply and the WebSocket handshake.                   *)
LEMMA HandshakePreserves ==
    ASSUME IndInv, NEW c \in Conns, RegisterReply(c) \/ Dial(c)
    PROVE  IndInv'
<1> USE DEF IndInv, TypeOK, ServerTypeOK, WireTypeOK, AgentTypeOK
<1>0. c \in Threads /\ th[c] \in Thread /\ ThreadSound(th[c])
  BY BoundAssumption DEF Conns, Threads, ThreadInv
<1>1. CASE RegisterReply(c)
  <2>1. /\ phase' \in Phases
        /\ SessInv'
        /\ UNCHANGED <<sess, nconn, runs, histVars>>
    BY <1>1 DEF RegisterReply, Registered, Phases, SessInv
  <2>2. PICK pc \in {"dial", "closed"} : Return(c, pc)
    BY <1>1 DEF RegisterReply, RegisterSave
  <2>3. th' \in [Threads -> Thread] /\ OthersKept(c) /\ th'[c] = Blank(pc)
    BY <1>0, <2>2, ReturnFacts DEF PCs
  <2>4. ThreadSound(th[c])'
    BY <1>0, <2>2, <2>3, BlankSound DEF PCs
  <2>5. agent' \in AgentRow
    BY <1>0, <1>1, StatusTyped DEF RegisterReply, RegisterSave, SaveAgent, Thread, AgentStatuses
  <2> QED
    BY <1>0, <1>1, <2>1, <2>3, <2>4, <2>5, QuietServer
       DEF RegisterReply, RegisterSave, wireVars
<1>2. CASE Dial(c)
  <2>1. /\ phase' \in Phases
        /\ SessInv'
        /\ UNCHANGED <<sess, nconn, runs, histVars>>
    BY <1>2 DEF Dial, Dialed, Phases, SessInv
  <2>2. th' = [th EXCEPT ![c].pc = "ws_register", ![c].ag = agent]
    BY <1>2 DEF Dial, WsAccept
  <2>3. th' \in [Threads -> Thread] /\ OthersKept(c)
    BY <1>0, <2>2, CopyFacts DEF PCs
  <2>4. /\ th'[c].pc = "ws_register"
        /\ th'[c].dep = th[c].dep
        /\ th'[c].rec = th[c].rec
    BY <1>0, <2>2, CopyFacts DEF PCs
  <2>5. ThreadSound(th[c])'
    BY <1>0, <1>2, <2>1, <2>4
       DEF ThreadSound, RowSound, Created, Dial, WsAccept, histVars
  <2> QED
    BY <1>0, <1>2, <2>1, <2>3, <2>5, QuietServer DEF Dial, WsAccept, wireVars
<1> QED
  BY <1>1, <1>2

-----------------------------------------------------------------------------
(* Steps of the agent.                                                     *)

(* The server keeps its state, and what changed at the agent is sound.     *)
LEMMA AgentMoves ==
    ASSUME IndInv, UNCHANGED serverVars, Grows,
           AgentTypeOK', RunInv', SessInv',
           open' \in [Conns -> BOOLEAN],
           up' = up \/ (up' \in [Conns -> Seq(UpMessage)] /\ UpInv'),
           down' = down \/ (down' \in [Conns -> Seq(PlaybookMessage)] /\ DownInv')
    PROVE  IndInv'
<1>1. nextDep' \in Nat /\ th' = th /\ deps' = deps /\ nextDep' = nextDep
  BY DEF serverVars, IndInv, TypeOK, ServerTypeOK
<1>2. TypeOK'
  BY DEF IndInv, TypeOK, ServerTypeOK, WireTypeOK, serverVars
<1>3. StoreInv' /\ ThreadInv' /\ UpInv' /\ DownInv'
  BY <1>1, Frame
<1> QED
  BY <1>2, <1>3 DEF IndInv

(* The process ends: its goroutines are gone and its session is broken.    *)
LEMMA ProcessGonePreserves ==
    ASSUME IndInv, ProcessGone, UNCHANGED serverVars,
           executed' = executed, failed' = failed
    PROVE  IndInv'
<1> USE DEF IndInv, TypeOK, WireTypeOK
<1>1. Grows /\ nextDep' \in Nat
  BY DEF Grows, serverVars, ServerTypeOK
<1>2. AgentTypeOK'
  BY DEF AgentTypeOK, ProcessGone, Phases, NoRun, Run, NoDep, NoConn
<1>3. RunInv' /\ SessInv'
  BY DEF ProcessGone, RunInv, RunSound, SessInv, NoRun
<1>4. open' \in [Conns -> BOOLEAN] /\ up' = up
  BY DEF ProcessGone, AgentTypeOK
<1>5. down' = down \/ (down' \in [Conns -> Seq(PlaybookMessage)] /\ DownInv')
  <2>1. CASE sess = NoConn
    BY <2>1 DEF ProcessGone
  <2>2. CASE sess # NoConn
    <3>1. sess \in Conns /\ down' = [down EXCEPT ![sess] = << >>]
      BY <2>2 DEF ProcessGone, AgentTypeOK
    <3> QED
      BY <1>1, <3>1, ReadDownFacts
  <2> QED
    BY <2>1, <2>2
<1> QED
  BY <1>1, <1>2, <1>3, <1>4, <1>5, AgentMoves

(* The connect loop of Run; a received playbook becomes a sound run.       *)
LEMMA LoopStepPreserves ==
    ASSUME IndInv, LoopStep
    PROVE  IndInv'
<1> USE DEF IndInv, TypeOK, WireTypeOK, AgentTypeOK
<1>0. UNCHANGED serverVars
  BY DEF LoopStep
<1>1. CASE ConnectError
  <2>1. Grows /\ nextDep' \in Nat
    BY <1>0, <1>1 DEF Grows, serverVars, ServerTypeOK, ConnectError, histVars
  <2>2. sess \in Conns
    BY <1>1 DEF ConnectError, SessInv
  <2>3. down' \in [Conns -> Seq(PlaybookMessage)] /\ DownInv'
    BY <1>1, <2>1, <2>2, ReadDownFacts DEF ConnectError
  <2>4. AgentTypeOK' /\ SessInv' /\ runs' = runs /\ open' = open /\ up' = up
    BY <1>1 DEF ConnectError, Phases, SessInv, histVars, NoConn
  <2>5. RunInv'
    BY <2>1, <2>4, Frame
  <2> QED
    BY <1>0, <2>1, <2>3, <2>4, <2>5, AgentMoves
<1>2. CASE RegisterError
  BY <1>0, <1>2, ProcessGonePreserves DEF RegisterError, histVars
<1>3. CASE ReceivePlaybook
  <2>1. Grows /\ nextDep' \in Nat
    BY <1>0, <1>3 DEF Grows, serverVars, ServerTypeOK, ReceivePlaybook, histVars
  <2>2. /\ sess \in Conns
        /\ down[sess] \in Seq(PlaybookMessage)
        /\ down[sess] # << >>
        /\ down' = [down EXCEPT ![sess] = Tail(down[sess])]
    BY <1>3 DEF ReceivePlaybook, SessInv
  <2>3. down' \in [Conns -> Seq(PlaybookMessage)] /\ DownInv'
    BY <2>1, <2>2, ReadDownFacts
  <2> DEFINE m == Head(down[sess])
             x == [pc |-> "next", dep |-> m.dep, pb |-> m.pb, conn |-> sess, i |-> m.resume]
  <2>4. m \in PlaybookMessage /\ DownSound(m)
    <3>1. m \in PlaybookMessage /\ m = down[sess][1] /\ 1 \in 1..Len(down[sess])
      BY <2>2
    <3>2. DownSound(down[sess][1])
      BY <2>2, <3>1 DEF DownInv
    <3> QED
      BY <3>1, <3>2
  <2>5. PICK r \in RunIds : runs' = [runs EXCEPT ![r] = x]
    BY <1>3 DEF ReceivePlaybook, FirstStep, FreeRuns
  <2>6. x \in Run
    BY <2>2, <2>4 DEF Run, PlaybookMessage
  <2>7. /\ runs' \in [RunIds -> Run]
        /\ \A q \in RunIds \ {r} : runs'[q] = runs[q]
        /\ runs'[r] = x
    BY <2>5, <2>6
  <2>8. RunSound(runs[r])'
    BY <1>0, <1>3, <2>2, <2>4, <2>7
       DEF RunSound, DownSound, Created, ReceivePlaybook, FirstStep, serverVars, histVars
  <2>9. RunInv'
    BY <2>1, <2>7, <2>8, Frame
  <2>10. AgentTypeOK' /\ SessInv' /\ open' = open /\ up' = up
    BY <1>3, <2>7 DEF ReceivePlaybook, SessInv, histVars
  <2> QED
    BY <1>0, <2>1, <2>3, <2>9, <2>10, AgentMoves
<1> QED
  BY <1>1, <1>2, <1>3 DEF LoopStep

(* A run reports m on its connection and continues as x.                   *)
LEMMA RunMoves ==
    ASSUME IndInv, NEW r \in RunIds, UNCHANGED serverVars, Grows,
           NEW c \in Conns, NEW m \in UpMessage, SendUp(c, m), UpSound(m)',
           NEW x \in Run, runs' = [runs EXCEPT ![r] = x], RunSound(x)',
           executed' \in [DepIds -> SUBSET Nat], failed' \in SUBSET DepIds,
           UNCHANGED <<sess, phase, nconn, open, down>>
    PROVE  IndInv'
<1>1. nextDep' \in Nat
  BY DEF serverVars, IndInv, TypeOK, ServerTypeOK
<1>2. up' \in [Conns -> Seq(UpMessage)] /\ UpInv'
  BY <1>1, SendUpFacts
<1>3. /\ runs' \in [RunIds -> Run]
      /\ runs'[r] = x
      /\ \A q \in RunIds \ {r} : runs'[q] = runs[q]
  BY DEF IndInv, TypeOK, AgentTypeOK
<1>4. RunSound(runs[r])'
  BY <1>3 DEF RunSound, Created
<1>5. RunInv'
  BY <1>1, <1>3, <1>4, Frame
<1>6. AgentTypeOK' /\ SessInv' /\ open' \in [Conns -> BOOLEAN]
  BY <1>3 DEF IndInv, TypeOK, AgentTypeOK, WireTypeOK, SessInv
<1> QED
  BY <1>2, <1>5, <1>6, AgentMoves

(* What is true of a run that is not over.                                 *)
LEMMA RunFacts ==
    ASSUME IndInv, NEW r \in RunIds, runs[r].pc # "off"
    PROVE  /\ runs[r] \in Run
           /\ runs[r].dep \in DepIds
           /\ runs[r].dep < nextDep
           /\ runs[r].pb \in Playbooks
           /\ deps[runs[r].dep].pb = runs[r].pb
           /\ runs[r].i \in Nat
           /\ runs[r].conn \in Conns
           /\ Before(runs[r].i) \subseteq executed[runs[r].dep]
<1>1. runs[r] \in Run /\ RunSound(runs[r])
  BY DEF IndInv, TypeOK, AgentTypeOK, RunInv
<1>2. /\ runs[r].dep \in DepIds
      /\ runs[r].dep < nextDep
      /\ deps[runs[r].dep].pb = runs[r].pb
      /\ runs[r].i \in Nat
      /\ runs[r].conn \in Conns
      /\ Before(runs[r].i) \subseteq executed[runs[r].dep]
  BY <1>1 DEF RunSound, Created, Run
<1> QED
  BY <1>1, <1>2 DEF IndInv, StoreInv

(* A goroutine that has ended claims nothing.                              *)
LEMMA NoRunSound == NoRun \in Run /\ RunSound(NoRun)'
BY DEF NoRun, Run, RunSound, NoDep, NoConn

(* The steps of runPlaybook.                                               *)
LEMMA RunStepPreserves ==
    ASSUME IndInv, NEW r \in RunIds,
           RunStep(r) \/ (StepFailed(r) /\ UNCHANGED serverVars)
    PROVE  IndInv'
<1>0. UNCHANGED serverVars /\ runs[r].pc # "off"
  BY DEF RunStep, StepStart, StepComplete, StepReboot, RunDone, StepFailed
<1>a. PICK d \in DepIds, p \in Playbooks, i \in Nat, c \in Conns :
        /\ d = runs[r].dep
        /\ p = runs[r].pb
        /\ i = runs[r].i
        /\ c = runs[r].conn
        /\ d < nextDep
        /\ deps[d].pb = p
        /\ Before(i) \subseteq executed[d]
  BY <1>0, RunFacts
<1>b. /\ runs[r] \in Run
      /\ executed \in [DepIds -> SUBSET Nat]
      /\ failed \in SUBSET DepIds
      /\ deps' = deps
      /\ nextDep' = nextDep
      /\ nextDep \in Nat
      /\ \A type \in UpTypes, step \in Nat : [type |-> type, dep |-> d, step |-> step] \in UpMessage
  BY <1>0, RunFacts DEF IndInv, TypeOK, AgentTypeOK, ServerTypeOK, serverVars, UpMessage
<1>c. Before(i + 1) = Before(i) \cup {i}
  BY DEF Before
<1>d. PICK j \in Nat : j = i + 1
  OBVIOUS
<1>1. CASE StepStart(r)
  <2>1. executed' = executed /\ failed' = failed
    BY <1>1 DEF StepStart, histVars
  <2>2. Grows
    BY <1>b, <2>1 DEF Grows
  <2>3. PICK m \in UpMessage : m = [type |-> "step_start", dep |-> d, step |-> i]
    BY <1>b DEF UpTypes
  <2>4. SendUp(c, m)
    BY <1>1, <1>a, <2>3 DEF StepStart, Report
  <2>5. UpSound(m)'
    BY <1>a, <1>b, <2>1, <2>3 DEF UpSound
  <2>6. [runs[r] EXCEPT !.pc = "exec"] \in Run
    BY <1>b DEF Run
  <2>7. PICK x \in Run : x = [runs[r] EXCEPT !.pc = "exec"]
    BY <2>6
  <2>8. x.dep = d /\ x.pb = p /\ x.i = i /\ x.conn = c
    BY <1>a, <1>b, <2>7 DEF Run
  <2>9. RunSound(x)'
    BY <1>a, <1>b, <2>1, <2>8 DEF RunSound, Created
  <2>10. runs' = [runs EXCEPT ![r] = x]
    BY <1>1, <2>7 DEF StepStart
  <2> QED
    BY <1>0, <1>1, <1>b, <2>1, <2>2, <2>4, <2>5, <2>9, <2>10, RunMoves DEF StepStart
<1>2. CASE StepComplete(r)
  <2>1. /\ executed' = [executed EXCEPT ![d] = executed[d] \cup {i}]
        /\ failed' = failed
       
    BY <1>2, <1>a DEF StepComplete, Executed
  <2>2. Grows /\ executed' \in [DepIds -> SUBSET Nat] /\ Before(i + 1) \subseteq executed'[d]
    BY <1>a, <1>b, <1>c, <2>1 DEF Grows
  <2>3. PICK m \in UpMessage : m = [type |-> "step_complete", dep |-> d, step |-> i]
    BY <1>b DEF UpTypes
  <2>4. SendUp(c, m)
    BY <1>2, <1>a, <2>3 DEF StepComplete, Report
  <2>5. UpSound(m)'
    BY <1>a, <1>b, <2>2, <2>3 DEF UpSound
  <2>6. [runs[r] EXCEPT !.pc = "next", !.i = j] \in Run
    BY <1>b DEF Run
  <2>7. PICK x \in Run : x = [runs[r] EXCEPT !.pc = "next", !.i = j]
    BY <2>6
  <2>8. x.dep = d /\ x.pb = p /\ x.i = j /\ x.conn = c
    BY <1>a, <1>b, <2>7 DEF Run
  <2>9. RunSound(x)'
    BY <1>a, <1>b, <1>d, <2>2, <2>8 DEF RunSound, Created
  <2>10. runs' = [runs EXCEPT ![r] = x]
    BY <1>2, <1>a, <1>d, <2>7 DEF StepComplete
  <2> QED
    BY <1>0, <1>2, <1>b, <2>1, <2>2, <2>4, <2>5, <2>9, <2>10, RunMoves DEF StepComplete
<1>3. CASE StepReboot(r)
  <2>1. /\ executed' = [executed EXCEPT ![d] = executed[d] \cup {i}]
        /\ failed' = failed
       
    BY <1>3, <1>a DEF StepReboot, Executed
  <2>2. Grows /\ executed' \in [DepIds -> SUBSET Nat] /\ Before(i + 1) \subseteq executed'[d]
    BY <1>a, <1>b, <1>c, <2>1 DEF Grows
  <2>3. PICK m \in UpMessage : m = [type |-> "reboot", dep |-> d, step |-> j]
    BY <1>b DEF UpTypes
  <2>4. SendUp(c, m)
    BY <1>3, <1>a, <1>d, <2>3 DEF StepReboot, Report
  <2>5. UpSound(m)'
    BY <1>a, <1>b, <1>d, <2>2, <2>3 DEF UpSound
  <2>6. [runs[r] EXCEPT !.pc = "rebooting"] \in Run
    BY <1>b DEF Run
  <2>7. PICK x \in Run : x = [runs[r] EXCEPT !.pc = "rebooting"]
    BY <2>6
  <2>8. x.dep = d /\ x.pb = p /\ x.i = i /\ x.conn = c
    BY <1>a, <1>b, <2>7 DEF Run
  <2>9. RunSound(x)'
    BY <1>a, <1>b, <1>c, <2>2, <2>8 DEF RunSound, Created
  <2>10. runs' = [runs EXCEPT ![r] = x]
    BY <1>3, <2>7 DEF StepReboot
  <2> QED
    BY <1>0, <1>3, <1>b, <2>1, <2>2, <2>4, <2>5, <2>9, <2>10, RunMoves DEF StepReboot
<1>4. CASE RunDone(r)
  <2>1. executed' = executed /\ failed' = failed
    BY <1>4 DEF RunDone, histVars
  <2>2. Grows
    BY <1>b, <2>1 DEF Grows
  <2>3. PICK m \in UpMessage : m = [type |-> "deploy_done", dep |-> d, step |-> 0]
    BY <1>b DEF UpTypes
  <2>4. SendUp(c, m)
    BY <1>4, <1>a, <2>3 DEF RunDone, Report
  <2>5. Steps(p) \subseteq Before(i)
    BY <1>4, <1>a, PlaybookAssumption DEF RunDone, Steps, Before
  <2>6. UpSound(m)'
    BY <1>a, <1>b, <2>1, <2>3, <2>5 DEF UpSound
  <2> QED
    BY <1>0, <1>4, <1>b, <2>1, <2>2, <2>4, <2>6, NoRunSound, RunMoves DEF RunDone
<1>5. CASE StepFailed(r)
  <2>1. executed' = executed /\ failed' = failed \cup {d}
    BY <1>5, <1>a DEF StepFailed
  <2>2. Grows /\ failed' \in SUBSET DepIds
    BY <1>b, <2>1 DEF Grows
  <2>3. PICK m \in UpMessage : m = [type |-> "deploy_failed", dep |-> d, step |-> i]
    BY <1>b DEF UpTypes
  <2>4. SendUp(c, m)
    BY <1>5, <1>a, <2>3 DEF StepFailed, Report
  <2>5. UpSound(m)'
    BY <1>a, <1>b, <2>1, <2>3 DEF UpSound
  <2> QED
    BY <1>0, <1>5, <1>b, <2>1, <2>2, <2>4, <2>5, NoRunSound, RunMoves DEF StepFailed
<1> QED
  BY <1>1, <1>2, <1>3, <1>4, <1>5 DEF RunStep

(* rebootOS ends the agent process and with it every run.                  *)
LEMMA RebootPreserves ==
    ASSUME IndInv, NEW r \in RunIds, RebootStep(r)
    PROVE  IndInv'
<1>1. runs[r].pc # "off" /\ UNCHANGED serverVars
  BY DEF RebootStep, RebootOS
<1> QED
  BY <1>1, ProcessGonePreserves DEF RebootStep, RebootOS, histVars

-----------------------------------------------------------------------------
(* The environment.                                                        *)

(* DELETE of a deployment leaves a row that claims nothing.                *)
LEMMA DeletePreserves ==
    ASSUME IndInv, NEW d \in DepIds, DeleteDeployment(d), UNCHANGED agentVars
    PROVE  IndInv'
<1> USE DEF IndInv, TypeOK, ServerTypeOK
<1> DEFINE y == [deps[d] EXCEPT !.status = "absent", !.resume = 0]
<1>1. deps' = [deps EXCEPT ![d] = y]
  BY DEF DeleteDeployment
<1>2. y \in DeploymentState /\ y.pb = deps[d].pb /\ y.status = "absent" /\ y.resume = 0
  BY DEF DeploymentState, DeploymentStatuses
<1>3. Created(d, y.pb)
  BY <1>2 DEF DeleteDeployment, StoreInv, Created
<1>4. RowSound(d, y)
  BY <1>2 DEF RowSound, Before
<1> HIDE DEF y
<1>5. deps' \in [DepIds -> DeploymentState] /\ Grows /\ StoreInv'
  BY <1>1, <1>2, <1>3, <1>4, SaveFacts
     DEF SaveDeployment, DeleteDeployment, agentVars, histVars
<1>6. nextDep' \in Nat /\ th' = th
  BY DEF DeleteDeployment
<1>7. ThreadInv' /\ UpInv' /\ DownInv' /\ RunInv'
  BY <1>5, <1>6, Frame DEF DeleteDeployment, wireVars, agentVars
<1>8. TypeOK' /\ SessInv'
  BY <1>5 DEF DeleteDeployment, AgentTypeOK, WireTypeOK, SessInv, wireVars, agentVars
<1> QED
  BY <1>5, <1>7, <1>8

(* A restarted server has its rows and no goroutine, Hub entry or session. *)
LEMMA RestartPreserves ==
    ASSUME IndInv, ServerRestart, UNCHANGED agentVars
    PROVE  IndInv'
<1> USE DEF IndInv, TypeOK, ServerTypeOK, WireTypeOK
<1>1. Grows /\ nextDep' \in Nat
  BY DEF Grows, ServerRestart, agentVars
<1>2. ASSUME NEW t \in Threads
      PROVE  th'[t] \in Thread /\ ThreadSound(th[t])'
  <2>1. PICK pc \in {"off", "closed"} : th'[t] = Blank(pc)
    BY <1>2 DEF ServerRestart
  <2> QED
    BY <2>1, BlankTyped, BlankSound DEF PCs
<1>3. th' \in [Threads -> Thread] /\ ThreadInv'
  BY <1>2 DEF ServerRestart, ThreadInv
<1>4. up' \in [Conns -> Seq(UpMessage)] /\ UpInv'
  BY DEF ServerRestart, UpInv
<1>5. StoreInv' /\ DownInv' /\ RunInv'
  BY <1>1, Frame DEF ServerRestart, agentVars
<1>6. TypeOK' /\ SessInv'
  BY <1>3, <1>4 DEF ServerRestart, AgentTypeOK, SessInv, agentVars, NoConn
<1> QED
  BY <1>3, <1>4, <1>5, <1>6

(* No fault and no request of root makes a claim false.                    *)
LEMMA EnvStepPreserves ==
    ASSUME IndInv, EnvStep
    PROVE  IndInv'
<1>1. CASE UNCHANGED <<serverVars, agentVars>> /\ \E c \in Conns : NetDrop(c)
  <2> USE DEF IndInv, TypeOK, WireTypeOK
  <2>1. open' \in [Conns -> BOOLEAN] /\ up' = up /\ down' = down
    BY <1>1 DEF NetDrop
  <2>2. Grows /\ nextDep' \in Nat
    BY <1>1 DEF Grows, serverVars, agentVars, ServerTypeOK
  <2>3. AgentTypeOK' /\ SessInv' /\ RunInv'
    BY <1>1, <2>2, Frame DEF AgentTypeOK, SessInv, agentVars
  <2> QED
    BY <1>1, <2>1, <2>2, <2>3, AgentMoves
<1>2. CASE AgentCrash /\ UNCHANGED serverVars
  BY <1>2, ProcessGonePreserves DEF AgentCrash, histVars, IndInv, TypeOK, AgentTypeOK
<1>3. CASE ServerRestart /\ UNCHANGED agentVars
  BY <1>3, RestartPreserves
<1>4. CASE UNCHANGED serverVars /\ \E r \in RunIds : StepFailed(r)
  BY <1>4, RunStepPreserves
<1>5. CASE UNCHANGED serverVars /\ \E r \in RunIds : RebootError(r)
  <2> USE DEF IndInv, TypeOK, WireTypeOK, AgentTypeOK
  <2>1. PICK r \in RunIds : RebootError(r)
    BY <1>5
  <2>2. Grows /\ nextDep' \in Nat
    BY <1>5, <2>1 DEF Grows, serverVars, ServerTypeOK, RebootError, histVars
  <2>3. /\ runs' \in [RunIds -> Run]
        /\ runs'[r] = NoRun
        /\ \A q \in RunIds \ {r} : runs'[q] = runs[q]
    BY <2>1, NoRunSound DEF RebootError
  <2>4. RunSound(runs[r])'
    BY <2>3 DEF RunSound, NoRun
  <2>5. RunInv'
    BY <2>2, <2>3, <2>4, Frame
  <2>6. AgentTypeOK' /\ SessInv' /\ open' = open /\ up' = up /\ down' = down
    BY <2>1, <2>3 DEF RebootError, SessInv, histVars
  <2> QED
    BY <1>5, <2>2, <2>5, <2>6, AgentMoves
<1>6. CASE UNCHANGED agentVars /\ \E d \in DepIds : DeleteDeployment(d)
  BY <1>6, DeletePreserves
<1> QED
  BY <1>1, <1>2, <1>3, <1>4, <1>5, <1>6 DEF EnvStep

-----------------------------------------------------------------------------
(* The invariant.                                                          *)

(* Before the first connection nothing has been claimed.                   *)
LEMMA InitInv == Init => IndInv
<1> SUFFICES ASSUME Init PROVE IndInv
  OBVIOUS
<1> USE DEF Init, ServerInit, AgentInit, WireInit
<1>1. ServerTypeOK
  BY BlankTyped, BoundAssumption, ServerAssumption
     DEF ServerTypeOK, AgentRow, AgentStatuses, NoConn, PCs
<1>2. AgentTypeOK /\ WireTypeOK
  BY BoundAssumption, NoRunSound DEF AgentTypeOK, WireTypeOK, Phases, NoConn
<1>3. StoreInv
  BY BoundAssumption DEF StoreInv, RowSound, Before, AbsentDeployment, DepIds
<1>4. ThreadInv
  BY DEF ThreadInv, ThreadSound, Blank, NoDep
<1>5. UpInv /\ DownInv /\ RunInv /\ SessInv
  BY DEF UpInv, DownInv, RunInv, RunSound, SessInv, NoRun
<1> QED
  BY <1>1, <1>2, <1>3, <1>4, <1>5 DEF IndInv, TypeOK

(* A step that changes nothing changes no claim.                           *)
LEMMA StutterPreserves == IndInv /\ UNCHANGED vars => IndInv'
<1> SUFFICES ASSUME IndInv, UNCHANGED vars PROVE IndInv'
  OBVIOUS
<1>1. UNCHANGED serverVars /\ UNCHANGED agentVars /\ UNCHANGED wireVars
  BY DEF vars
<1>2. Grows
  BY <1>1 DEF Grows, serverVars, agentVars, IndInv, TypeOK, ServerTypeOK
<1>3. nextDep' \in Nat
  BY <1>1 DEF IndInv, TypeOK, ServerTypeOK, serverVars
<1>4. AgentTypeOK' /\ SessInv' /\ RunInv'
  BY <1>1, <1>2, <1>3, Frame DEF IndInv, TypeOK, AgentTypeOK, SessInv, agentVars
<1> QED
  BY <1>1, <1>2, <1>4, AgentMoves DEF IndInv, TypeOK, WireTypeOK, wireVars

(* One step of the protocol.                                               *)
LEMMA NextPreserves == IndInv /\ [Next]_vars => IndInv'
<1> SUFFICES ASSUME IndInv, Next PROVE IndInv'
  BY StutterPreserves
<1>1. CASE \E c \in Conns : SessionStep(c)
  <2>1. PICK c \in Conns : SessionStep(c)
    BY <1>1
  <2>2. CASE UpdateDeploy(c)
    BY <2>1, <2>2, UpdateDeployPreserves DEF SessionStep
  <2>3. CASE ~UpdateDeploy(c)
    BY <2>1, <2>3, SessionStepPreserves
  <2> QED
    BY <2>2, <2>3
<1>2. CASE \E c \in Conns : RegisterReply(c) \/ Dial(c)
  BY <1>2, HandshakePreserves
<1>3. CASE \E t \in Threads : PushStep(t)
  BY <1>3, PushStepPreserves
<1>4. CASE AssignStep \/ Assign
  BY <1>4, AssignPreserves
<1>5. CASE Register
  BY <1>5, RegisterPreserves
<1>6. CASE LoopStep
  BY <1>6, LoopStepPreserves
<1>7. CASE \E r \in RunIds : RunStep(r)
  BY <1>7, RunStepPreserves
<1>8. CASE \E r \in RunIds : RebootStep(r)
  BY <1>8, RebootPreserves
<1>9. CASE EnvStep
  BY <1>9, EnvStepPreserves
<1> QED
  BY <1>1, <1>2, <1>3, <1>4, <1>5, <1>6, <1>7, <1>8, <1>9 DEF Next

(* Every row, every copy of a row in a server goroutine, every message and *)
(* every run tells the truth about the steps executed, at every moment and *)
(* under every fault: none of the unprotected read-modify-write sequences  *)
(* of updateDeploy and PushPlaybookIfAssigned can break that.              *)
THEOREM IndInvariant == Spec => []IndInv
<1>1. Init => IndInv
  BY InitInv
<1>2. IndInv /\ [Next]_vars => IndInv'
  BY NextPreserves
<1> QED
  BY <1>1, <1>2, PTL DEF Spec

(* Rows, Hub, goroutines, runs and messages keep their types.              *)
THEOREM TypeCorrect == Spec => []TypeOK
<1>1. IndInv => TypeOK
  BY DEF IndInv
<1> QED
  BY <1>1, IndInvariant, PTL

(* No resume skips a step: the stored index is never past a step that the  *)
(* agent has not executed (agent.go:265, ws.go:110-175, manager.go:83).    *)
THEOREM ResumeIsSound == Spec => []ResumeSound
<1>1. IndInv => ResumeSound
  BY DEF IndInv, StoreInv, RowSound, ResumeSound
<1> QED
  BY <1>1, IndInvariant, PTL

(* A deployment shown as completed has been executed to the end            *)
(* (ws.go:177).                                                            *)
THEOREM CompletedIsSound == Spec => []CompletedSound
<1>1. IndInv => CompletedSound
  BY DEF IndInv, StoreInv, RowSound, CompletedSound
<1> QED
  BY <1>1, IndInvariant, PTL

(* A deployment shown as failed has had a failing step (ws.go:200).        *)
THEOREM FailedIsSound == Spec => []FailedSound
<1>1. IndInv => FailedSound
  BY DEF IndInv, StoreInv, RowSound, FailedSound
<1> QED
  BY <1>1, IndInvariant, PTL

(* A step first executed has all its predecessors executed: only           *)
(* StepComplete and StepReboot execute one, and the run they belong to has *)
(* passed, or been told to skip, only steps that were executed.            *)
THEOREM ExecutedInOrder == Spec => InOrder
<1> DEFINE Ordered ==
        \A d \in DepIds : \A i \in executed'[d] \ executed[d] : Before(i) \subseteq executed[d]
<1>1. ASSUME IndInv, [Next]_vars PROVE [Ordered]_vars
  <2>1. CASE executed' = executed
    BY <2>1
  <2>2. CASE \E r \in RunIds : StepComplete(r) \/ StepReboot(r)
    <3>1. PICK r \in RunIds : runs[r].pc # "off" /\ Executed(r)
      BY <2>2 DEF StepComplete, StepReboot
    <3>2. /\ runs[r].dep \in DepIds
          /\ Before(runs[r].i) \subseteq executed[runs[r].dep]
          /\ executed \in [DepIds -> SUBSET Nat]
      BY <1>1, <3>1, RunFacts DEF IndInv, TypeOK, AgentTypeOK
    <3> QED
      BY <3>1, <3>2 DEF Executed
  <2>3. executed' = executed \/ \E r \in RunIds : StepComplete(r) \/ StepReboot(r)
    <3>1. CASE UNCHANGED agentVars
      BY <3>1 DEF agentVars
    <3>2. CASE UNCHANGED vars
      BY <3>2 DEF vars, agentVars
    <3>3. CASE Register \/ LoopStep \/ \E c \in Conns : RegisterReply(c) \/ Dial(c)
      BY <3>3 DEF Register, BeginRegister, LoopStep, ConnectError, RegisterError,
                  ReceivePlaybook, RegisterReply, Registered, Dial, Dialed, histVars
    <3>4. CASE \E r \in RunIds : RunStep(r) \/ RebootStep(r)
      BY <3>4 DEF RunStep, StepStart, RunDone, RebootStep, RebootOS, histVars
    <3>5. CASE EnvStep
      BY <3>5 DEF EnvStep, AgentCrash, StepFailed, RebootError, agentVars, histVars
    <3> QED
      BY <1>1, <3>1, <3>2, <3>3, <3>4, <3>5
         DEF Next, SessionStep, PushStep, AssignStep, Assign
  <2> QED
    BY <2>1, <2>2, <2>3
<1> QED
  BY <1>1, IndInvariant, PTL DEF Spec, InOrder

==============================================================================
