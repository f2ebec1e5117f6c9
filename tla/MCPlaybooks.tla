---------------------------- MODULE MCPlaybooks -----------------------------
(* Playbooks and secrets of the instances of Playbooks that TLC checks.    *)
EXTENDS Playbooks

CONSTANTS A, B, word

Ref(n) == <<Prefix, n, Suffix>>

Shell(name, env) == [name |-> name, reboot |-> FALSE, env |-> env]
Reboot           == [name |-> "reboot", reboot |-> TRUE, env |-> << >>]

(* A reboot, a step after it in the same job, and in the next job a step   *)
(* whose environment has a reference and a prefix that nothing closes.     *)
Verify  == Shell("verify", Ref(A) \o <<Prefix>>)
TwoJobs == << <<Reboot, Shell("settle", << >>)>>, <<Verify>> >>

(* The playbook after an edit that has a step in front of the reboot.      *)
Edited == << <<Shell("install", << >>), Reboot>>, <<Verify>> >>

TwoPlaybooks == {TwoJobs, Edited, NoJobs}

(* The value of A refers to B; root may make that of B refer to A.         *)
Values == (A :> {Ref(B)}) @@ (B :> {<<word>>, Ref(A)})
Seed   == A :> Ref(B)
=============================================================================
