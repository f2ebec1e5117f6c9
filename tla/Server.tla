------------------------------- MODULE Server -------------------------------
(***************************************************************************)
(* The deployment side of the Kompakt server: the agents and deployments   *)
(* rows of the store, the Hub, the goroutine that serves each session      *)
(* (HandleAgentRegister, then HandleAgentWS with its read loop and its     *)
(* deferred cleanup) and one root request that assigns a playbook.         *)
(*                                                                         *)
(* The store has a single database connection, so one SQL statement is one *)
(* atomic step; the code holds no lock and no transaction between the      *)
(* statement that reads a row and the one that writes it back.  Each       *)
(* action below is one statement (or one Hub operation) of one goroutine.  *)
(***************************************************************************)
EXTENDS Wire

CONSTANTS
    MaxAssigns,     \* bound: assignment requests made by root
    OutboxCap       \* capacity of an AgentConn outbox

ASSUME ServerAssumption == MaxAssigns \in Nat /\ OutboxCap \in Nat

VARIABLES
    agent,      \* the agents row
    deps,       \* the deployments rows
    nextDep,    \* the deployment ID that NewID returns next
    hub,        \* Hub.conns: the session registered for the agent, or NoConn
    th,         \* the server goroutines
    assigns     \* assignment requests so far

serverVars == <<agent, deps, nextDep, hub, th, assigns>>

(* Goroutine 0 serves root's requests, goroutine c serves session c.       *)
Root    == 0
Threads == 0..MaxConns

(* A goroutine: where it is, and its local copies of what it has read.     *)
(*   ag        its copy of the agents row                                  *)
(*   dep, rec  the deployment it is about to save, and the saved value     *)
(*   ast       the agent status to set after a deployment update, if any   *)
(*   force     the force argument of PushPlaybookIfAssigned                *)
PCs == {"off", "closed", "reg_list", "reg_save", "dial", "ws_register",
        "ws_save", "push_agent", "push_dep", "push_save", "push_status",
        "push_send", "read", "update", "agent_get", "agent_save",
        "clean_get", "clean_save", "assign_save", "assign_push"}

NoStatus == "none"

Thread == [pc : PCs, ag : AgentRow, dep : DepIds \cup {NoDep},
           rec : DeploymentState, ast : AgentStatuses \cup {NoStatus},
           force : BOOLEAN]

BlankRow == [pb |-> NoPlaybook, status |-> "registered"]

Blank(pc) == [pc |-> pc, ag |-> BlankRow, dep |-> NoDep,
              rec |-> AbsentDeployment, ast |-> NoStatus, force |-> FALSE]

ServerTypeOK ==
    /\ agent \in AgentRow
    /\ deps \in [DepIds -> DeploymentState]
    /\ nextDep \in 1..(MaxDeps + 1)
    /\ hub \in Conns \cup {NoConn}
    /\ th \in [Threads -> Thread]
    /\ assigns \in 0..MaxAssigns

(* The agent is known to the server; nothing is deployed yet.  Root may    *)
(* have assigned a playbook already.                                       *)
ServerInit ==
    /\ agent \in [pb : Playbooks \cup {NoPlaybook}, status : {"registered"}]
    /\ deps = [d \in DepIds |-> AbsentDeployment]
    /\ nextDep = 1
    /\ hub = NoConn
    /\ th = [t \in Threads |-> Blank("off")]
    /\ assigns = 0

-----------------------------------------------------------------------------
(* Statements of the store.                                                *)

(* GetActiveDeploymentForAgent returns deployment d: the latest one.       *)
(* Deployment IDs are numbered in the order of started_at.                 *)
Stored == {d \in DepIds : deps[d].status # "absent"}

Active(d) == d \in Stored /\ \A e \in Stored : e <= d

SaveAgent(row) == agent' = row

SaveDeployment(d, rec) == deps' = [deps EXCEPT ![d] = rec]

(* Goroutine t continues at pc, keeping its local copies.                  *)
Goto(t, pc) == th' = [th EXCEPT ![t].pc = pc]

(* Goroutine t has finished what it was doing and continues at pc.         *)
Return(t, pc) == th' = [th EXCEPT ![t] = Blank(pc)]

(* Where a goroutine continues after PushPlaybookIfAssigned.               *)
AfterPush(t) == IF t = Root THEN "off" ELSE "read"

-----------------------------------------------------------------------------
(* HandleAgentRegister, for the machine that already has a row.            *)

RegisterList(c) ==
    /\ th[c].pc = "reg_list"
    /\ th' = [th EXCEPT ![c].pc = "reg_save", ![c].ag = agent]
    /\ UNCHANGED <<agent, deps, nextDep, hub, assigns>>
    /\ UNCHANGED wireVars

(* The row is written back, the tokens are exchanged, the reply is sent.   *)
RegisterSave(c) ==
    /\ th[c].pc = "reg_save"
    /\ SaveAgent([th[c].ag EXCEPT !.status = "registered"])
    /\ Return(c, IF open[c] THEN "dial" ELSE "closed")
    /\ UNCHANGED <<deps, nextDep, hub, assigns>>
    /\ UNCHANGED wireVars

-----------------------------------------------------------------------------
(* HandleAgentWS.                                                          *)

(* The upgrade request arrives: GetAgent, then the handshake completes.    *)
WsAccept(c) ==
    /\ th[c].pc = "dial"
    /\ open[c]
    /\ th' = [th EXCEPT ![c].pc = "ws_register", ![c].ag = agent]
    /\ UNCHANGED <<agent, deps, nextDep, hub, assigns>>
    /\ UNCHANGED wireVars

(* The session broke before the upgrade request: there is no goroutine.    *)
WsNeverDialed(c) ==
    /\ th[c].pc = "dial"
    /\ ~open[c]
    /\ Return(c, "closed")
    /\ UNCHANGED <<agent, deps, nextDep, hub, assigns>>
    /\ UNCHANGED wireVars

(* Hub.register: an older connection is closed and its entry replaced.     *)
HubRegister(c) ==
    /\ th[c].pc = "ws_register"
    /\ hub' = c
    /\ open' = IF hub = NoConn THEN open ELSE [open EXCEPT ![hub] = FALSE]
    /\ Goto(c, "ws_save")
    /\ UNCHANGED <<agent, deps, nextDep, assigns, up, down>>

WsSaveAgent(c) ==
    /\ th[c].pc = "ws_save"
    /\ SaveAgent([th[c].ag EXCEPT !.status = "connected"])
    /\ Return(c, "push_agent")
    /\ UNCHANGED <<deps, nextDep, hub, assigns>>
    /\ UNCHANGED wireVars

-----------------------------------------------------------------------------
(* Manager.PushPlaybookIfAssigned, in goroutine t.                         *)

PushGetAgent(t) ==
    /\ th[t].pc = "push_agent"
    /\ IF agent.pb = NoPlaybook
       THEN Return(t, AfterPush(t))
       ELSE th' = [th EXCEPT ![t].pc = "push_dep", ![t].ag = agent]
    /\ UNCHANGED <<agent, deps, nextDep, hub, assigns>>
    /\ UNCHANGED wireVars

(* GetActiveDeploymentForAgent, and the choice between resuming it,        *)
(* starting a new deployment and skipping.                                 *)
PushGetDeployment(t) ==
    /\ th[t].pc = "push_dep"
    /\ \/ \E d \in DepIds :
            /\ Active(d)
            /\ deps[d].pb = th[t].ag.pb
            /\ deps[d].status \in ResumableStatuses
            /\ th' = [th EXCEPT ![t].pc = "push_save",
                                ![t].dep = d,
                                ![t].rec = [deps[d] EXCEPT !.status = "running"]]
       \/ /\ \A d \in DepIds : Active(d) =>
                \/ deps[d].pb # th[t].ag.pb
                \/ deps[d].status \notin ResumableStatuses /\ th[t].force
          /\ th' = [th EXCEPT ![t].pc = "push_save",
                              ![t].dep = NoDep,
                              ![t].rec = [pb |-> th[t].ag.pb,
                                          status |-> "running", resume |-> 0]]
       \/ /\ \E d \in DepIds :
                /\ Active(d)
                /\ deps[d].pb = th[t].ag.pb
                /\ deps[d].status \notin ResumableStatuses
                /\ ~th[t].force
          /\ Return(t, AfterPush(t))
    /\ UNCHANGED <<agent, deps, nextDep, hub, assigns>>
    /\ UNCHANGED wireVars

(* SaveDeployment of the resumed row (as it was read) or of the new one.   *)
PushSaveDeployment(t) ==
    /\ th[t].pc = "push_save"
    /\ \/ /\ th[t].dep # NoDep
          /\ SaveDeployment(th[t].dep, th[t].rec)
          /\ Goto(t, "push_status")
          /\ UNCHANGED nextDep
       \/ /\ th[t].dep = NoDep
          /\ nextDep <= MaxDeps
          /\ SaveDeployment(nextDep, th[t].rec)
          /\ nextDep' = nextDep + 1
          /\ th' = [th EXCEPT ![t].pc = "push_status", ![t].dep = nextDep]
    /\ UNCHANGED <<agent, hub, assigns>>
    /\ UNCHANGED wireVars

PushSaveAgent(t) ==
    /\ th[t].pc = "push_status"
    /\ SaveAgent([th[t].ag EXCEPT !.status = "deploying"])
    /\ Goto(t, "push_send")
    /\ UNCHANGED <<deps, nextDep, hub, assigns>>
    /\ UNCHANGED wireVars

(* Hub.Send: dropped without notice when there is no entry or the outbox   *)
(* is full; lost later when the connection of the entry is already broken. *)
PushSend(t) ==
    /\ th[t].pc = "push_send"
    /\ down' = IF hub # NoConn /\ open[hub] /\ Len(down[hub]) < OutboxCap
               THEN [down EXCEPT ![hub] =
                       Append(@, [dep |-> th[t].dep, pb |-> th[t].rec.pb,
                                  resume |-> th[t].rec.resume])]
               ELSE down
    /\ Return(t, AfterPush(t))
    /\ UNCHANGED <<agent, deps, nextDep, hub, assigns, open, up>>

-----------------------------------------------------------------------------
(* The read loop and handleWSMessage.                                      *)

(* Mutants of Updated: the index of the step before the one that starts is *)
(* stored, a step counts once it starts, a reboot is taken for a failure.  *)
Updated_StepBefore(rec, m) ==
    CASE m.type = "step_start"    -> [rec EXCEPT !.status = "running", !.resume = m.step - 1]
      [] m.type = "step_complete" -> [rec EXCEPT !.resume = m.step]
      [] m.type = "reboot"        -> [rec EXCEPT !.status = "rebooting", !.resume = m.step]
      [] m.type = "deploy_done"   -> [rec EXCEPT !.status = "completed"]
      [] m.type = "deploy_failed" -> [rec EXCEPT !.status = "failed"]

Updated_StartCounts(rec, m) ==
    IF m.type \in {"step_start", "step_complete"}
    THEN [rec EXCEPT !.resume = m.step + 1]
    ELSE [rec EXCEPT !.status = CASE m.type = "reboot"      -> "rebooting"
                                  [] m.type = "deploy_done" -> "completed"
                                  [] OTHER                  -> "failed"]

Updated_RebootFails(rec, m) ==
    CASE m.type = "step_start"    -> [rec EXCEPT !.status = "running", !.resume = m.step]
      [] m.type = "step_complete" -> [rec EXCEPT !.resume = m.step + 1]
      [] m.type = "deploy_done"   -> [rec EXCEPT !.status = "completed"]
      [] OTHER                    -> [rec EXCEPT !.status = "failed"]

(* The change that updateDeploy applies to the row for message m.          *)
Updated(rec, m) ==
    CASE m.type = "step_start"    -> [rec EXCEPT !.status = "running", !.resume = m.step]
      [] m.type = "step_complete" -> [rec EXCEPT !.resume = m.step + 1]
      [] m.type = "reboot"        -> [rec EXCEPT !.status = "rebooting", !.resume = m.step]
      [] m.type = "deploy_done"   -> [rec EXCEPT !.status = "completed"]
      [] m.type = "deploy_failed" -> [rec EXCEPT !.status = "failed"]

(* The status that the agents row takes after message m.                   *)
StatusAfter(m) ==
    CASE m.type = "deploy_done"   -> "completed"
      [] m.type = "deploy_failed" -> "failed"
      [] OTHER                    -> NoStatus

(* Where the handler continues once the deployment is dealt with.          *)
AfterUpdate(ast) == IF ast = NoStatus THEN "read" ELSE "agent_get"

(* One message is read; updateDeploy gets the row it is about.             *)
WsRead(c) ==
    LET m == Head(up[c]) IN
    /\ th[c].pc = "read"
    /\ up[c] # << >>
    /\ up' = [up EXCEPT ![c] = Tail(@)]
    /\ \/ /\ deps[m.dep].status = "absent"
          /\ th' = [th EXCEPT ![c].pc = AfterUpdate(StatusAfter(m)),
                              ![c].ast = StatusAfter(m)]
       \/ /\ deps[m.dep].status # "absent"
          /\ th' = [th EXCEPT ![c].pc = "update",
                              ![c].ast = StatusAfter(m),
                              ![c].dep = m.dep,
                              ![c].rec = Updated(deps[m.dep], m)]
    /\ UNCHANGED <<agent, deps, nextDep, hub, assigns, open, down>>

(* Mutant of UpdateDeploy: the message is taken to be about the latest     *)
(* deployment.                                                             *)
UpdateDeploy_Latest(c) ==
    /\ th[c].pc = "update"
    /\ SaveDeployment(nextDep - 1, th[c].rec)
    /\ th' = [th EXCEPT ![c] = [Blank(AfterUpdate(th[c].ast)) EXCEPT !.ast = th[c].ast]]
    /\ UNCHANGED <<agent, nextDep, hub, assigns>>
    /\ UNCHANGED wireVars

UpdateDeploy(c) ==
    /\ th[c].pc = "update"
    /\ SaveDeployment(th[c].dep, th[c].rec)
    /\ th' = [th EXCEPT ![c] = [Blank(AfterUpdate(th[c].ast)) EXCEPT !.ast = th[c].ast]]
    /\ UNCHANGED <<agent, nextDep, hub, assigns>>
    /\ UNCHANGED wireVars

(* deploy_done and deploy_failed also change the status of the agent.      *)
StatusGetAgent(c) ==
    /\ th[c].pc = "agent_get"
    /\ th' = [th EXCEPT ![c].pc = "agent_save", ![c].ag = agent]
    /\ UNCHANGED <<agent, deps, nextDep, hub, assigns>>
    /\ UNCHANGED wireVars

StatusSaveAgent(c) ==
    /\ th[c].pc = "agent_save"
    /\ SaveAgent([th[c].ag EXCEPT !.status = th[c].ast])
    /\ Return(c, "read")
    /\ UNCHANGED <<deps, nextDep, hub, assigns>>
    /\ UNCHANGED wireVars

(* ws.Read fails on a broken session.  The deferred function starts with   *)
(* Hub.unregister, which deletes the agent's entry whoever put it there.   *)
WsReadError(c) ==
    /\ th[c].pc = "read"
    /\ ~open[c]
    /\ hub' = NoConn
    /\ up' = [up EXCEPT ![c] = << >>]
    /\ Goto(c, "clean_get")
    /\ UNCHANGED <<agent, deps, nextDep, assigns, open, down>>

CleanGetAgent(c) ==
    /\ th[c].pc = "clean_get"
    /\ th' = [th EXCEPT ![c].pc = "clean_save", ![c].ag = agent]
    /\ UNCHANGED <<agent, deps, nextDep, hub, assigns>>
    /\ UNCHANGED wireVars

CleanSaveAgent(c) ==
    /\ th[c].pc = "clean_save"
    /\ SaveAgent([th[c].ag EXCEPT !.status = IF @ = "connected" THEN "offline" ELSE @])
    /\ Return(c, "closed")
    /\ UNCHANGED <<deps, nextDep, hub, assigns>>
    /\ UNCHANGED wireVars

-----------------------------------------------------------------------------
(* Root's requests.                                                        *)

(* Manager.AssignPlaybookToAgent: GetAgent, then the playbook is set.      *)
AssignGetAgent(p) ==
    /\ th[Root].pc = "off"
    /\ assigns < MaxAssigns
    /\ assigns' = assigns + 1
    /\ th' = [th EXCEPT ![Root].pc = "assign_save",
                        ![Root].ag = [agent EXCEPT !.pb = p]]
    /\ UNCHANGED <<agent, deps, nextDep, hub>>
    /\ UNCHANGED wireVars

AssignSaveAgent ==
    /\ th[Root].pc = "assign_save"
    /\ SaveAgent(th[Root].ag)
    /\ Return(Root, "assign_push")
    /\ UNCHANGED <<deps, nextDep, hub, assigns>>
    /\ UNCHANGED wireVars

(* Mutant of AssignIsConnected: the playbook waits for the next connect.   *)
AssignIsConnected_NoPush ==
    /\ th[Root].pc = "assign_push"
    /\ Return(Root, "off")
    /\ UNCHANGED <<agent, deps, nextDep, hub, assigns>>
    /\ UNCHANGED wireVars

(* The playbook is pushed at once if Hub.IsConnected.                      *)
AssignIsConnected ==
    /\ th[Root].pc = "assign_push"
    /\ IF hub = NoConn
       THEN Return(Root, "off")
       ELSE th' = [th EXCEPT ![Root].pc = "push_agent", ![Root].force = TRUE]
    /\ UNCHANGED <<agent, deps, nextDep, hub, assigns>>
    /\ UNCHANGED wireVars

(* DELETE /api/v1/deployments/{id}.  Nothing reads the playbook of a row   *)
(* that is absent; the model keeps it so that the invariants can name it.  *)
DeleteDeployment(d) ==
    /\ deps[d].status # "absent"
    /\ deps' = [deps EXCEPT ![d].status = "absent", ![d].resume = 0]
    /\ UNCHANGED <<agent, nextDep, hub, th, assigns>>
    /\ UNCHANGED wireVars

(* The server process dies and is started again: rows survive, the Hub and *)
(* every goroutine are gone and every session is broken.                   *)
ServerRestart ==
    /\ th' = [t \in Threads |->
                IF t = Root \/ th[t].pc = "off" THEN Blank("off") ELSE Blank("closed")]
    /\ hub' = NoConn
    /\ open' = [c \in Conns |-> FALSE]
    /\ up' = [c \in Conns |-> << >>]
    /\ UNCHANGED <<agent, deps, nextDep, assigns, down>>
=============================================================================
