---------------------------- MODULE MCDeployment ----------------------------
(* Playbooks of the instances of Deployment that TLC checks.               *)
EXTENDS Deployment

CONSTANTS p1, p2

(* A reboot step, then a step.                                             *)
RebootNSteps   == [p \in Playbooks |-> 2]
RebootReboots  == [p \in Playbooks |-> {0}]
RebootTolerant == [p \in Playbooks |-> {}]

(* Two playbooks without a reboot: two steps that may fail, or one that    *)
(* may fail and be tolerated.                                              *)
PlainNSteps   == [p \in Playbooks |-> IF p = p1 THEN 2 ELSE 1]
PlainReboots  == [p \in Playbooks |-> {}]
PlainTolerant == [p \in Playbooks |-> IF p = p1 THEN {} ELSE {0}]
=============================================================================
