------------------------------ MODULE Delivery ------------------------------
(***************************************************************************)
(* What a deployment promises to whoever looks at it, without sessions,    *)
(* goroutines, messages or faults: the steps of its playbook are executed  *)
(* in order, each only after all those before it, and what the server      *)
(* shows of the deployment is true of what has been executed.  Showing may *)
(* lag behind and may even step back; it never runs ahead.                 *)
(***************************************************************************)
EXTENDS Integers

CONSTANTS Deployments, Playbooks, NoPlaybook, NSteps

VARIABLES
    done,       \* the steps that have been executed, per deployment
    broken,     \* the deployments in which a step has failed
    shown       \* the row of a deployment: playbook, status, resume index

vars == <<done, broken, shown>>

Nothing == [pb |-> NoPlaybook, status |-> "absent", resume |-> 0]

Init ==
    /\ done = [d \in Deployments |-> {}]
    /\ broken = {}
    /\ shown = [d \in Deployments |-> Nothing]

(* What row rec says of deployment d is true.                              *)
True(d, rec) ==
    /\ 0..(rec.resume - 1) \subseteq done[d]
    /\ rec.status = "completed" => 0..(NSteps[rec.pb] - 1) \subseteq done[d]
    /\ rec.status = "failed" => d \in broken

(* A deployment of playbook p is created.                                  *)
Create(d, p) ==
    /\ shown[d] = Nothing
    /\ shown' = [shown EXCEPT ![d] = [pb |-> p, status |-> "running", resume |-> 0]]
    /\ UNCHANGED <<done, broken>>

(* The first step that is still to do is executed.                         *)
Execute(d) ==
    /\ shown[d].pb # NoPlaybook
    /\ \E i \in 0..(NSteps[shown[d].pb] - 1) :
        /\ i \notin done[d]
        /\ 0..(i - 1) \subseteq done[d]
        /\ done' = [done EXCEPT ![d] = @ \cup {i}]
    /\ UNCHANGED <<broken, shown>>

(* A step fails.                                                           *)
Break(d) ==
    /\ shown[d].pb # NoPlaybook
    /\ broken' = broken \cup {d}
    /\ UNCHANGED <<done, shown>>

(* Something else is shown of the deployment, and that is true as well; or *)
(* nothing, once it is deleted.  It stays a deployment of its playbook.    *)
Show(d) ==
    /\ shown[d].pb # NoPlaybook
    /\ shown' = [shown EXCEPT ![d] = shown'[d]]
    /\ shown'[d].pb = shown[d].pb
    /\ True(d, shown'[d])
    /\ UNCHANGED <<done, broken>>

Next ==
    \E d \in Deployments :
        \/ \E p \in Playbooks : Create(d, p)
        \/ Execute(d)
        \/ Break(d)
        \/ Show(d)

Spec == Init /\ [][Next]_vars
=============================================================================
