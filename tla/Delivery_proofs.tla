--------------------------- MODULE Delivery_proofs ---------------------------
(***************************************************************************)
(* Deployment implements Delivery, for every set of playbooks, every bound *)
(* and every choice of environment events.                                 *)
(***************************************************************************)
EXTENDS Deployment_proofs

(* What the refinement needs besides IndInv: a deployment that is not yet  *)
(* created has an empty row, and a run only executes steps that exist.     *)
FreshInv == \A d \in DepIds : d >= nextDep => deps[d] = AbsentDeployment

ExecInv == \A r \in RunIds : runs[r].pc = "exec" => runs[r].i < NSteps[runs[r].pb]

-----------------------------------------------------------------------------
(* What a step can do to the deployments rows and to what was executed.    *)

(* The steps that save or delete a row.                                    *)
SavesRow ==
    \/ \E t \in Threads : PushSaveDeployment(t) /\ UNCHANGED agentVars
    \/ \E c \in Conns : UpdateDeploy(c) /\ UNCHANGED agentVars
    \/ \E d \in DepIds : DeleteDeployment(d) /\ UNCHANGED agentVars

(* The steps that execute a step, or fail one.                             *)
Executes == \E r \in RunIds : (StepComplete(r) \/ StepReboot(r)) /\ UNCHANGED serverVars

Fails == \E r \in RunIds : StepFailed(r) /\ UNCHANGED serverVars

(* All other steps are hidden: they touch neither rows nor history.        *)
LEMMA HiddenSteps ==
    ASSUME [Next]_vars
    PROVE  \/ SavesRow \/ Executes \/ Fails
           \/ UNCHANGED <<deps, nextDep, executed, failed>>
<1>1. CASE UNCHANGED vars
  BY <1>1 DEF vars, serverVars, agentVars
<1>2. CASE \E c \in Conns : SessionStep(c)
  BY <1>2 DEF SessionStep, RegisterList, WsNeverDialed, HubRegister, WsSaveAgent, WsRead,
              StatusGetAgent, StatusSaveAgent, WsReadError, CleanGetAgent,
              CleanSaveAgent, SavesRow, agentVars
<1>3. CASE \E c \in Conns : RegisterReply(c) \/ Dial(c)
  BY <1>3 DEF RegisterReply, RegisterSave, Registered, Dial, WsAccept, Dialed, histVars
<1>4. CASE \E t \in Threads : PushStep(t)
  BY <1>4 DEF PushStep, PushGetAgent, PushGetDeployment, PushSaveAgent, PushSend,
              SavesRow, agentVars
<1>5. CASE AssignStep \/ Assign
  BY <1>5 DEF AssignStep, AssignSaveAgent, AssignIsConnected, Assign, AssignGetAgent, agentVars
<1>6. CASE Register
  BY <1>6 DEF Register, BeginRegister, histVars
<1>7. CASE LoopStep
  BY <1>7 DEF LoopStep, ConnectError, RegisterError, ReceivePlaybook, serverVars, histVars
<1>8. CASE \E r \in RunIds : RunStep(r)
  BY <1>8 DEF RunStep, StepStart, RunDone, Executes, serverVars, histVars
<1>9. CASE \E r \in RunIds : RebootStep(r)
  BY <1>9 DEF RebootStep, RebootOS, serverVars, histVars
<1>10. CASE EnvStep
  BY <1>10 DEF EnvStep, NetDrop, AgentCrash, ServerRestart, RebootError, Fails, SavesRow,
               serverVars, agentVars, histVars
<1> QED
  BY <1>1, <1>2, <1>3, <1>4, <1>5, <1>6, <1>7, <1>8, <1>9, <1>10 DEF Next

(* A step that saves or deletes a row touches one row: that of a created   *)
(* deployment, whose playbook it keeps, or the next one to be created.     *)
LEMMA RowSaved ==
    ASSUME IndInv, SavesRow
    PROVE  /\ UNCHANGED <<executed, failed, runs>>
           /\ \E d \in DepIds :
                /\ deps' = [deps EXCEPT ![d] = deps'[d]]
                /\ \/ /\ d < nextDep
                      /\ nextDep' = nextDep
                      /\ deps'[d].pb = deps[d].pb
                   \/ /\ d = nextDep
                      /\ nextDep' = nextDep + 1
                      /\ \E p \in Playbooks :
                            deps'[d] = [pb |-> p, status |-> "running", resume |-> 0]
<1>1. UNCHANGED <<executed, failed, runs>>
  BY DEF SavesRow, agentVars
<1>2. deps \in [DepIds -> DeploymentState] /\ nextDep \in Nat
  BY BoundAssumption DEF IndInv, TypeOK, ServerTypeOK
<1> DEFINE Kept(d) == /\ deps' = [deps EXCEPT ![d] = deps'[d]]
                      /\ d < nextDep
                      /\ nextDep' = nextDep
                      /\ deps'[d].pb = deps[d].pb
           Made(d) == /\ deps' = [deps EXCEPT ![d] = deps'[d]]
                      /\ d = nextDep
                      /\ nextDep' = nextDep + 1
                      /\ \E p \in Playbooks :
                            deps'[d] = [pb |-> p, status |-> "running", resume |-> 0]
<1>3. ASSUME NEW t \in Threads, th[t].dep # NoDep,
             SaveDeployment(th[t].dep, th[t].rec), nextDep' = nextDep
      PROVE  \E d \in DepIds : Kept(d)
  <2>1. Created(th[t].dep, th[t].rec.pb)
    BY <1>3 DEF IndInv, ThreadInv, ThreadSound
  <2>2. /\ deps' = [deps EXCEPT ![th[t].dep] = th[t].rec]
        /\ deps'[th[t].dep] = th[t].rec
    BY <1>2, <1>3, <2>1 DEF SaveDeployment, Created
  <2> QED
    BY <1>3, <2>1, <2>2 DEF Created
<1>4. ASSUME NEW t \in Threads, PushSaveDeployment(t)
      PROVE  \E d \in DepIds : Kept(d) \/ Made(d)
  <2>1. CASE th[t].dep # NoDep
    BY <1>3, <1>4, <2>1 DEF PushSaveDeployment
  <2>2. CASE th[t].dep = NoDep
    <3>1. /\ th[t].ag.pb \in Playbooks
          /\ th[t].rec = [pb |-> th[t].ag.pb, status |-> "running", resume |-> 0]
      BY <1>4, <2>2 DEF PushSaveDeployment, IndInv, ThreadInv, ThreadSound
    <3>2. /\ nextDep \in DepIds
          /\ nextDep' = nextDep + 1
          /\ deps' = [deps EXCEPT ![nextDep] = th[t].rec]
      BY <1>4, <2>2, BoundAssumption
         DEF PushSaveDeployment, SaveDeployment, DepIds, IndInv, TypeOK, ServerTypeOK
    <3>3. deps'[nextDep] = th[t].rec
      BY <1>2, <3>2
    <3> QED
      BY <3>1, <3>2, <3>3
  <2> QED
    BY <2>1, <2>2
<1>5. ASSUME NEW c \in Conns, UpdateDeploy(c)
      PROVE  \E d \in DepIds : Kept(d)
  <2>1. c \in Threads
    BY BoundAssumption DEF Conns, Threads
  <2>2. th[c].dep # NoDep
    BY <1>5, <2>1 DEF UpdateDeploy, IndInv, ThreadInv, ThreadSound
  <2> QED
    BY <1>3, <1>5, <2>1, <2>2 DEF UpdateDeploy
<1>6. ASSUME NEW d \in DepIds, DeleteDeployment(d)
      PROVE  Kept(d)
  <2>1. d < nextDep
    BY <1>6 DEF DeleteDeployment, IndInv, StoreInv
  <2>2. deps' = [deps EXCEPT ![d] = [deps[d] EXCEPT !.status = "absent", !.resume = 0]]
    BY <1>6 DEF DeleteDeployment
  <2>3. deps'[d] = [deps[d] EXCEPT !.status = "absent", !.resume = 0]
    BY <1>2, <2>2
  <2>4. deps'[d].pb = deps[d].pb
    BY <1>2, <2>3 DEF DeploymentState
  <2>5. nextDep' = nextDep
    BY <1>6 DEF DeleteDeployment
  <2> QED
    BY <2>1, <2>2, <2>3, <2>4, <2>5
<1> QED
  BY <1>1, <1>4, <1>5, <1>6 DEF SavesRow

-----------------------------------------------------------------------------
(* The rest of the invariant.                                              *)

LEMMA FreshPreserved ==
    ASSUME IndInv, FreshInv, [Next]_vars
    PROVE  FreshInv'
<1>1. deps \in [DepIds -> DeploymentState] /\ nextDep \in Nat
  BY BoundAssumption DEF IndInv, TypeOK, ServerTypeOK
<1>2. CASE SavesRow
  <2>1. PICK d \in DepIds :
            /\ deps' = [deps EXCEPT ![d] = deps'[d]]
            /\ \/ d < nextDep /\ nextDep' = nextDep
               \/ d = nextDep /\ nextDep' = nextDep + 1
    BY <1>2, RowSaved
  <2>2. \A e \in DepIds \ {d} : deps'[e] = deps[e]
    BY <1>1, <2>1
  <2>3. ASSUME NEW e \in DepIds, e >= nextDep' PROVE e # d /\ e >= nextDep
    BY <1>1, <2>1, <2>3 DEF DepIds
  <2> QED
    BY <2>2, <2>3 DEF FreshInv
<1>3. CASE Executes \/ Fails \/ UNCHANGED <<deps, nextDep, executed, failed>>
  BY <1>3 DEF Executes, Fails, serverVars, FreshInv
<1> QED
  BY <1>2, <1>3, HiddenSteps

LEMMA ExecPreserved ==
    ASSUME IndInv, ExecInv, [Next]_vars
    PROVE  ExecInv'
<1>1. runs \in [RunIds -> Run]
  BY DEF IndInv, TypeOK, AgentTypeOK
<1>2. ASSUME runs' = runs PROVE ExecInv'
  BY <1>2 DEF ExecInv
<1>3. ASSUME NEW r \in RunIds, NEW x, runs' = [runs EXCEPT ![r] = x],
             x.pc = "exec" => x.i < NSteps[x.pb]
      PROVE  ExecInv'
  <2>1. runs'[r] = x /\ \A q \in RunIds \ {r} : runs'[q] = runs[q]
    BY <1>1, <1>3
  <2> QED
    BY <1>3, <2>1 DEF ExecInv
<1>4. ASSUME ProcessGone PROVE ExecInv'
  BY <1>4 DEF ProcessGone, ExecInv, NoRun
<1>5. CASE LoopStep
  <2>1. CASE ReceivePlaybook
    <3>1. PICK r \in FreeRuns :
            runs' = [runs EXCEPT ![r] =
                [pc |-> "next", dep |-> Head(down[sess]).dep, pb |-> Head(down[sess]).pb,
                 conn |-> sess, i |-> FirstStep(Head(down[sess]))]]
      BY <2>1 DEF ReceivePlaybook
    <3>2. r \in RunIds
      BY <3>1 DEF FreeRuns
    <3> QED
      BY <1>3, <3>1, <3>2
  <2> QED
    BY <1>2, <1>4, <1>5, <2>1 DEF LoopStep, ConnectError, RegisterError
<1>6. CASE \E r \in RunIds : RunStep(r)
  <2>1. PICK r \in RunIds : RunStep(r)
    BY <1>6
  <2>2. runs[r] \in Run
    BY <1>1
  <2>3. CASE StepStart(r)
    <3>1. runs' = [runs EXCEPT ![r] = [runs[r] EXCEPT !.pc = "exec"]]
      BY <2>3 DEF StepStart
    <3> QED
      BY <1>3, <2>2, <2>3, <3>1 DEF StepStart, Run
  <2>4. CASE StepComplete(r)
    <3>1. runs' = [runs EXCEPT ![r] = [runs[r] EXCEPT !.pc = "next", !.i = runs[r].i + 1]]
      BY <2>4 DEF StepComplete
    <3> QED
      BY <1>3, <2>2, <3>1 DEF Run
  <2>5. CASE StepReboot(r)
    <3>1. runs' = [runs EXCEPT ![r] = [runs[r] EXCEPT !.pc = "rebooting"]]
      BY <2>5 DEF StepReboot
    <3> QED
      BY <1>3, <2>2, <3>1 DEF Run
  <2>6. CASE RunDone(r)
    BY <1>3, <2>6 DEF RunDone, NoRun
  <2> QED
    BY <2>1, <2>3, <2>4, <2>5, <2>6 DEF RunStep
<1>7. CASE \E r \in RunIds : RebootStep(r)
  BY <1>4, <1>7 DEF RebootStep, RebootOS
<1>8. CASE EnvStep
  <2>1. CASE \E r \in RunIds : StepFailed(r) \/ RebootError(r)
    <3>1. PICK r \in RunIds : runs' = [runs EXCEPT ![r] = NoRun]
      BY <2>1 DEF StepFailed, RebootError
    <3> QED
      BY <1>3, <3>1 DEF NoRun
  <2>2. CASE AgentCrash
    BY <1>4, <2>2 DEF AgentCrash
  <2> QED
    BY <1>2, <1>8, <2>1, <2>2 DEF EnvStep, agentVars
<1>9. CASE Register \/ \E c \in Conns : RegisterReply(c) \/ Dial(c)
  BY <1>2, <1>9 DEF Register, BeginRegister, RegisterReply, Registered, Dial, Dialed
<1>10. CASE UNCHANGED agentVars
  BY <1>2, <1>10 DEF agentVars
<1>11. CASE UNCHANGED vars
  BY <1>2, <1>11 DEF vars, agentVars
<1> QED
  BY <1>5, <1>6, <1>7, <1>8, <1>9, <1>10, <1>11
     DEF Next, SessionStep, PushStep, AssignStep, Assign

(* What Delivery's abstraction of Deployment needs holds throughout.       *)
LEMMA RefinementInvariant == Spec => [](IndInv /\ FreshInv /\ ExecInv)
<1>1. Init => FreshInv /\ ExecInv
  BY DEF Init, ServerInit, AgentInit, FreshInv, ExecInv, NoRun
<1>2. IndInv /\ FreshInv /\ ExecInv /\ [Next]_vars => FreshInv' /\ ExecInv'
  BY FreshPreserved, ExecPreserved
<1> QED
  BY <1>1, <1>2, IndInvariant, PTL DEF Spec

-----------------------------------------------------------------------------
(* Every step is a step of Delivery, or hidden.                            *)
LEMMA StepRefines ==
    ASSUME IndInv, FreshInv, ExecInv, IndInv', [Next]_vars
    PROVE  [Promise!Next]_Promise!vars
<1> USE DEF Promise!Next
<1>1. /\ deps \in [DepIds -> DeploymentState]
      /\ executed \in [DepIds -> SUBSET Nat]
      /\ nextDep \in Nat
  BY BoundAssumption DEF IndInv, TypeOK, ServerTypeOK, AgentTypeOK
<1>2. ASSUME NEW d \in DepIds, d < nextDep PROVE deps[d].pb # NoPlaybook
  BY <1>2, PlaybookAssumption DEF IndInv, StoreInv
<1>3. CASE SavesRow
  <2>1. PICK d \in DepIds :
            /\ deps' = [deps EXCEPT ![d] = deps'[d]]
            /\ \/ d < nextDep /\ deps'[d].pb = deps[d].pb
               \/ /\ d = nextDep
                  /\ \E p \in Playbooks :
                        deps'[d] = [pb |-> p, status |-> "running", resume |-> 0]
    BY <1>3, RowSaved
  <2>2. UNCHANGED <<executed, failed>>
    BY <1>3, RowSaved
  <2>3. CASE d < nextDep /\ deps'[d].pb = deps[d].pb
    <3>1. RowSound(d, deps[d])'
      BY DEF IndInv, StoreInv
    <3>2. Promise!True(d, deps'[d])
      BY <2>2, <3>1 DEF RowSound, Before, Steps, Promise!True
    <3>3. Promise!Show(d)
      BY <1>2, <2>1, <2>2, <2>3, <3>2 DEF Promise!Show
    <3> QED
      BY <3>3
  <2>4. CASE d = nextDep /\ \E p \in Playbooks :
                deps'[d] = [pb |-> p, status |-> "running", resume |-> 0]
    <3>1. PICK p \in Playbooks : deps'[d] = [pb |-> p, status |-> "running", resume |-> 0]
      BY <2>4
    <3>2. deps[d] = Promise!Nothing
      BY <1>1, <2>4 DEF FreshInv, AbsentDeployment, Promise!Nothing
    <3>3. Promise!Create(d, p)
      BY <2>1, <2>2, <3>1, <3>2 DEF Promise!Create
    <3> QED
      BY <3>3
  <2> QED
    BY <2>1, <2>3, <2>4
<1>4. CASE Executes
  <2>1. PICK r \in RunIds : /\ runs[r].pc = "exec"
                            /\ Executed(r)
                            /\ UNCHANGED <<deps, failed>>
    BY <1>4 DEF Executes, StepComplete, StepReboot, serverVars
  <2> DEFINE d == runs[r].dep
             i == runs[r].i
  <2>2. /\ d \in DepIds
        /\ d < nextDep
        /\ deps[d].pb = runs[r].pb
        /\ i \in Nat
        /\ runs[r].pb \in Playbooks
        /\ Before(i) \subseteq executed[d]
    BY <2>1, RunFacts
  <2>3. i \in 0..(NSteps[deps[d].pb] - 1)
    BY <2>1, <2>2, PlaybookAssumption DEF ExecInv
  <2>4. executed' = [executed EXCEPT ![d] = @ \cup {i}]
    BY <2>1 DEF Executed
  <2>5. CASE i \in executed[d]
    <3>1. executed' = executed
      BY <1>1, <2>2, <2>4, <2>5
    <3> QED
      BY <2>1, <3>1 DEF Promise!vars
  <2>6. CASE i \notin executed[d]
    <3>1. Promise!Execute(d)
      BY <1>2, <2>1, <2>2, <2>3, <2>4, <2>6 DEF Promise!Execute, Before
    <3> QED
      BY <2>2, <3>1
  <2> QED
    BY <2>5, <2>6
<1>5. CASE Fails
  <2>1. PICK r \in RunIds : /\ runs[r].pc = "exec"
                            /\ failed' = failed \cup {runs[r].dep}
                            /\ UNCHANGED <<deps, executed>>
    BY <1>5 DEF Fails, StepFailed, serverVars
  <2>2. runs[r].dep \in DepIds /\ runs[r].dep < nextDep
    BY <2>1, RunFacts
  <2>3. Promise!Break(runs[r].dep)
    BY <1>2, <2>1, <2>2 DEF Promise!Break
  <2> QED
    BY <2>2, <2>3
<1>6. CASE UNCHANGED <<deps, nextDep, executed, failed>>
  BY <1>6 DEF Promise!vars
<1> QED
  BY <1>3, <1>4, <1>5, <1>6, HiddenSteps

(* Deployment implements Delivery: under every interleaving and every      *)
(* fault, steps are executed in order and only if they exist, a deployment *)
(* stays one of its playbook, and what the rows say of it is true.         *)
THEOREM DeploymentImplementsDelivery == Spec => KeepsPromise
<1>1. Init => Promise!Init
  BY DEF Init, ServerInit, AgentInit, AbsentDeployment, Promise!Init, Promise!Nothing
<1>2. IndInv /\ FreshInv /\ ExecInv /\ IndInv' /\ [Next]_vars => [Promise!Next]_Promise!vars
  BY StepRefines
<1> QED
  BY <1>1, <1>2, RefinementInvariant, PTL DEF Spec, KeepsPromise, Promise!Spec
==============================================================================
