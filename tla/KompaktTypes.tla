---------------------------- MODULE KompaktTypes ----------------------------
(***************************************************************************)
(* The data that the Kompakt server and agent share (internal/common/      *)
(* types.go): playbooks as the agent executes them, the deployment and     *)
(* agent rows the server stores, and the WebSocket messages that concern a *)
(* deployment.                                                             *)
(*                                                                         *)
(* One agent is modelled.  Every row, every Hub entry and every message is *)
(* keyed by the agent's ID, so two agents never touch the same state.      *)
(***************************************************************************)
EXTENDS Integers, Sequences, FiniteSets

CONSTANTS
    Playbooks,      \* the playbook IDs in the store
    NoPlaybook,     \* the empty PlaybookID of an agent with no assignment
    NSteps,         \* number of steps of a playbook, after FlattenPlaybook
    RebootSteps,    \* per playbook, the indices of its `uses: reboot` steps
    TolerantSteps,  \* per playbook, the indices with continue-on-error
    MaxConns,       \* bound: registration + WebSocket sessions of the agent
    MaxDeps,        \* bound: deployments created
    MaxRuns         \* bound: runPlaybook goroutines alive at one time

ASSUME PlaybookAssumption ==
    /\ NoPlaybook \notin Playbooks
    /\ NSteps \in [Playbooks -> Nat]
    /\ RebootSteps \in [Playbooks -> SUBSET Nat]
    /\ TolerantSteps \in [Playbooks -> SUBSET Nat]

ASSUME BoundAssumption ==
    /\ MaxConns \in Nat
    /\ MaxDeps \in Nat
    /\ MaxRuns \in Nat

Conns  == 1..MaxConns
DepIds == 1..MaxDeps
RunIds == 1..MaxRuns

NoConn == 0         \* no session, or no entry in the Hub
NoDep  == 0         \* no deployment ID yet

-----------------------------------------------------------------------------
(* The flat, zero-based step indices of a playbook.                        *)
Steps(p) == 0..(NSteps[p] - 1)

(* The indices before i: what must have run before step i may run.         *)
Before(i) == 0..(i - 1)

(* DeploymentStatus; "absent" is the status of a row that is not there.    *)
DeploymentStatuses == {"absent", "running", "rebooting", "completed", "failed"}

(* A deployment in one of these statuses is resumed rather than replaced.  *)
(* ("pending" is declared in types.go and never stored.)                   *)
ResumableStatuses == {"running", "rebooting"}

AgentStatuses ==
    {"registered", "connected", "deploying", "completed", "failed", "offline"}

(* The columns of a deployments row that the logic reads.                  *)
DeploymentState ==
    [pb : Playbooks \cup {NoPlaybook}, status : DeploymentStatuses, resume : Nat]

AbsentDeployment == [pb |-> NoPlaybook, status |-> "absent", resume |-> 0]

(* The columns of the agents row that the logic reads.                     *)
AgentRow == [pb : Playbooks \cup {NoPlaybook}, status : AgentStatuses]

-----------------------------------------------------------------------------
(* Agent to server.  `step` is StepIndex, for a reboot ResumeStepIndex.    *)
UpTypes == {"step_start", "step_complete", "reboot", "deploy_done", "deploy_failed"}

UpMessage == [type : UpTypes, dep : DepIds, step : Nat]

(* Server to agent: a playbook to run, from step `resume` on.              *)
PlaybookMessage == [dep : DepIds, pb : Playbooks, resume : Nat]
=============================================================================
