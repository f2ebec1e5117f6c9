----------------------------- MODULE Deployment -----------------------------
(***************************************************************************)
(* The deployment protocol: the server and the agent joined by their       *)
(* sessions, with the faults that the design promises to survive.          *)
(***************************************************************************)
EXTENDS Server, Agent

CONSTANT Env    \* the environment events that may happen in this instance

EnvEvents == {"netdrop", "crash", "restart", "step_error", "reboot_error", "delete"}

ASSUME EnvAssumption == Env \subseteq EnvEvents

vars == <<serverVars, agentVars, wireVars>>

TypeOK == ServerTypeOK /\ AgentTypeOK /\ WireTypeOK

Init == ServerInit /\ AgentInit /\ WireInit

-----------------------------------------------------------------------------
(* Steps of a server goroutine that involve no step of the agent.          *)
SessionStep(c) ==
    /\ \/ RegisterList(c)
       \/ WsNeverDialed(c)
       \/ HubRegister(c)
       \/ WsSaveAgent(c)
       \/ WsRead(c)
       \/ UpdateDeploy(c)
       \/ StatusGetAgent(c)
       \/ StatusSaveAgent(c)
       \/ WsReadError(c)
       \/ CleanGetAgent(c)
       \/ CleanSaveAgent(c)
    /\ UNCHANGED agentVars

PushStep(t) ==
    /\ \/ PushGetAgent(t)
       \/ PushGetDeployment(t)
       \/ PushSaveDeployment(t)
       \/ PushSaveAgent(t)
       \/ PushSend(t)
    /\ UNCHANGED agentVars

AssignStep ==
    /\ AssignSaveAgent \/ AssignIsConnected
    /\ UNCHANGED agentVars

(* Steps of both: a registration request, its reply, the WebSocket.        *)
Register ==
    /\ BeginRegister
    /\ th' = [th EXCEPT ![nconn + 1] = Blank("reg_list")]
    /\ UNCHANGED <<agent, deps, nextDep, hub, assigns>>

RegisterReply(c) == RegisterSave(c) /\ Registered(c)

Dial(c) == WsAccept(c) /\ Dialed(c)

(* Steps of the agent alone.                                               *)
LoopStep ==
    /\ ConnectError \/ RegisterError \/ ReceivePlaybook
    /\ UNCHANGED serverVars

RunStep(r) ==
    /\ \/ StepStart(r)
       \/ StepComplete(r)
       \/ StepReboot(r)
       \/ RunDone(r)
    /\ UNCHANGED serverVars

RebootStep(r) == RebootOS(r) /\ UNCHANGED serverVars

(* What the environment may do, and root's requests.                       *)
EnvStep ==
    \/ /\ "netdrop" \in Env
       /\ \E c \in Conns : NetDrop(c)
       /\ UNCHANGED <<serverVars, agentVars>>
    \/ /\ "crash" \in Env
       /\ AgentCrash
       /\ UNCHANGED serverVars
    \/ /\ "restart" \in Env
       /\ ServerRestart
       /\ UNCHANGED agentVars
    \/ /\ "step_error" \in Env
       /\ \E r \in RunIds : StepFailed(r)
       /\ UNCHANGED serverVars
    \/ /\ "reboot_error" \in Env
       /\ \E r \in RunIds : RebootError(r)
       /\ UNCHANGED serverVars
    \/ /\ "delete" \in Env
       /\ \E d \in DepIds : DeleteDeployment(d)
       /\ UNCHANGED agentVars

Assign ==
    /\ \E p \in Playbooks : AssignGetAgent(p)
    /\ UNCHANGED agentVars

Next ==
    \/ \E c \in Conns : SessionStep(c) \/ RegisterReply(c) \/ Dial(c)
    \/ \E t \in Threads : PushStep(t)
    \/ AssignStep
    \/ Register
    \/ LoopStep
    \/ \E r \in RunIds : RunStep(r) \/ RebootStep(r)
    \/ EnvStep
    \/ Assign

Spec == Init /\ [][Next]_vars

(* Every goroutine, on the server and on the agent, is scheduled; the      *)
(* connect loop keeps turning; a step ends and a requested reboot happens. *)
(* Nothing obliges root or a fault to act.  That Register is fair after    *)
(* the process has ended too is more than the code does, but what is said  *)
(* under this fairness is said of an agent that is online in the end.      *)
Fairness ==
    /\ \A c \in Conns : WF_vars(SessionStep(c)) /\ WF_vars(RegisterReply(c)) /\ WF_vars(Dial(c))
    /\ \A t \in Threads : WF_vars(PushStep(t))
    /\ WF_vars(AssignStep)
    /\ WF_vars(Register)
    /\ WF_vars(LoopStep)
    /\ \A r \in RunIds : WF_vars(RunStep(r)) /\ WF_vars(RebootStep(r))

FairSpec == Spec /\ Fairness

-----------------------------------------------------------------------------
(* Correctness.                                                            *)

(* The resume index of a stored deployment never points past a step that   *)
(* has not been executed: whatever goroutine saved the row last, from a    *)
(* copy however old, PushPlaybookIfAssigned sends an index from which no   *)
(* step is skipped ("already completed before last reboot", agent.go:265). *)
ResumeSound ==
    \A d \in DepIds : Before(deps[d].resume) \subseteq executed[d]

(* A deployment shown as completed has had every step of its playbook      *)
(* executed, in spite of lost messages, resumed and doubled runs, crashes  *)
(* and rows written back from stale copies (ws.go:177, manager.go:73).     *)
CompletedSound ==
    \A d \in DepIds :
        deps[d].status = "completed" => Steps(deps[d].pb) \subseteq executed[d]

(* A deployment shown as failed has had a step that returned an error      *)
(* without continue-on-error: a killed agent, a lost connection, a server  *)
(* restart or a stale row alone never turns a deployment into a failed     *)
(* one, which would not be resumed (ws.go:200, agent.go:345).              *)
FailedSound ==
    \A d \in DepIds : deps[d].status = "failed" => d \in failed

(* Steps are first executed in the order of the flat playbook, over every  *)
(* run of a deployment together: a step is never executed before all its   *)
(* predecessors have been (FlattenPlaybook and the skip at agent.go:265).  *)
InOrder ==
    [][\A d \in DepIds : \A i \in executed'[d] \ executed[d] :
            Before(i) \subseteq executed[d]]_vars

(* Deployment implements Delivery: with sessions, goroutines, messages and *)
(* faults hidden, every step executes the next step of a playbook, fails   *)
(* one, creates a deployment, or shows something that is true of it; and   *)
(* most steps are hidden (manager.go:53, ws.go:246, agent.go:256).         *)
Promise == INSTANCE Delivery WITH
    Deployments <- DepIds, done <- executed, broken <- failed, shown <- deps

KeepsPromise == Promise!Spec

(* The agent has an open WebSocket.                                        *)
Online == phase = "online" /\ open[sess]

(* The latest deployment of an agent that has a playbook is over.          *)
Settled ==
    \/ agent.pb = NoPlaybook
    \/ \E d \in DepIds : Active(d) /\ deps[d].status \in {"completed", "failed"}

(* An agent that in the end stays connected ends up with a deployment that *)
(* is over and stays over: no push, resume or stale save leaves it         *)
(* unfinished, and no message that it depends on is lost ("complete        *)
(* reliably, even across hardware reboots and network outages",            *)
(* README.md:14).  That the deployment is one of the playbook that was     *)
(* assigned last is not said.  It holds when there is one session (the two *)
(* pushes of a connect and of an assignment may race), and not when an old *)
(* session is cleaned up late.                                             *)
EventuallySettled == <>[]Online => <>[]Settled

-----------------------------------------------------------------------------
(* The inductive invariant behind ResumeSound, CompletedSound, FailedSound *)
(* and InOrder.  An old copy of a row can be written back at any time, and *)
(* an old message can still be read: so not only the stored rows but every *)
(* copy and every message must tell the truth about what was executed.     *)

(* What row rec says of deployment d is true.                              *)
RowSound(d, rec) ==
    /\ Before(rec.resume) \subseteq executed[d]
    /\ rec.status = "completed" => Steps(rec.pb) \subseteq executed[d]
    /\ rec.status = "failed" => d \in failed

(* Deployment d was created for playbook p.                                *)
Created(d, p) == d \in DepIds /\ d < nextDep /\ deps[d].pb = p

StoreInv ==
    \A d \in DepIds :
        /\ RowSound(d, deps[d])
        /\ deps[d].status # "absent" => d < nextDep
        /\ d < nextDep => deps[d].pb \in Playbooks

ThreadSound(x) ==
    /\ x.dep # NoDep => Created(x.dep, x.rec.pb) /\ RowSound(x.dep, x.rec)
    /\ x.pc \in {"push_status", "push_send", "update"} => x.dep # NoDep
    /\ x.pc \in {"push_dep", "push_save"} => x.ag.pb \in Playbooks
    /\ (x.pc = "push_save" /\ x.dep = NoDep) =>
            x.rec = [pb |-> x.ag.pb, status |-> "running", resume |-> 0]
    /\ x.pc \in {"agent_get", "agent_save"} => x.ast # NoStatus

ThreadInv == \A t \in Threads : ThreadSound(th[t])

UpSound(m) ==
    /\ m.dep < nextDep
    /\ m.type \in {"step_start", "reboot"} => Before(m.step) \subseteq executed[m.dep]
    /\ m.type = "step_complete" => Before(m.step + 1) \subseteq executed[m.dep]
    /\ m.type = "deploy_done" => Steps(deps[m.dep].pb) \subseteq executed[m.dep]
    /\ m.type = "deploy_failed" => m.dep \in failed

UpInv == \A c \in Conns : \A k \in 1..Len(up[c]) : UpSound(up[c][k])

DownSound(m) == Created(m.dep, m.pb) /\ Before(m.resume) \subseteq executed[m.dep]

DownInv == \A c \in Conns : \A k \in 1..Len(down[c]) : DownSound(down[c][k])

RunSound(x) ==
    x.pc # "off" =>
        /\ Created(x.dep, x.pb)
        /\ x.conn \in Conns
        /\ Before(x.i) \subseteq executed[x.dep]

RunInv == \A r \in RunIds : RunSound(runs[r])

SessInv == phase # "down" => sess \in Conns

(* Every claim held anywhere in the system - a stored row, the copy of a   *)
(* row in a goroutine, a message on its way, the index of a run - is true  *)
(* of the steps the agent has executed: this is what makes it harmless     *)
(* that updateDeploy and PushPlaybookIfAssigned save rows they read        *)
(* earlier without a transaction (ws.go:255, manager.go:83).               *)
IndInv ==
    /\ TypeOK
    /\ StoreInv
    /\ ThreadInv
    /\ UpInv
    /\ DownInv
    /\ RunInv
    /\ SessInv

-----------------------------------------------------------------------------
(* What the documentation says and the code does not keep.                 *)

(* "steps within each job are run sequentially" (docs/playbook-model.md):  *)
(* no two steps of a deployment are being executed at the same time.       *)
StepsSequential ==
    \A r, s \in RunIds :
        (r # s /\ runs[r].pc = "exec" /\ runs[s].pc = "exec")
            => runs[r].dep # runs[s].dep

(* "assign playbook to a client" (docs/api-endpoints.md:63): the playbook  *)
(* assigned to an agent changes only by an assignment.                     *)
AssignmentKept ==
    [][agent'.pb # agent.pb => th[Root].pc = "assign_save"]_vars
=============================================================================
