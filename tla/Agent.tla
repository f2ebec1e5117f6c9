-------------------------------- MODULE Agent -------------------------------
(***************************************************************************)
(* The Kompakt agent (internal/agent/agent.go): the connect loop of Run    *)
(* and the runPlaybook goroutines.  A runPlaybook goroutine lives on the   *)
(* context of Run, not on that of its connection: it goes on when the      *)
(* connection is lost, and what it sends on the old writer is dropped.     *)
(***************************************************************************)
EXTENDS Wire

VARIABLES
    sess,       \* the session the agent is working on, NoConn between two
    phase,      \* how far the connect loop is with that session
    nconn,      \* sessions begun so far
    runs,       \* the runPlaybook goroutines
    executed,   \* history: the steps that RunStep has finished, per deployment
    failed      \* history: the deployments a run of which hit a fatal error

agentVars == <<sess, phase, nconn, runs, executed, failed>>

Phases == {"down", "register", "dial", "online"}

(* A runPlaybook goroutine: its arguments (deployment, playbook, writer)   *)
(* and its place in the loop over the flat steps.                          *)
Run == [pc : {"off", "next", "exec", "rebooting"},
        dep : DepIds \cup {NoDep}, pb : Playbooks \cup {NoPlaybook},
        conn : Conns \cup {NoConn}, i : Nat]

NoRun == [pc |-> "off", dep |-> NoDep, pb |-> NoPlaybook, conn |-> NoConn, i |-> 0]

AgentTypeOK ==
    /\ sess \in Conns \cup {NoConn}
    /\ phase \in Phases
    /\ nconn \in 0..MaxConns
    /\ runs \in [RunIds -> Run]
    /\ executed \in [DepIds -> SUBSET Nat]
    /\ failed \in SUBSET DepIds

AgentInit ==
    /\ sess = NoConn
    /\ phase = "down"
    /\ nconn = 0
    /\ runs = [r \in RunIds |-> NoRun]
    /\ executed = [d \in DepIds |-> {}]
    /\ failed = {}

histVars == <<executed, failed>>

-----------------------------------------------------------------------------
(* The connect loop.                                                       *)

(* A turn of the loop begins with a registration request.                  *)
BeginRegister ==
    /\ phase = "down"
    /\ nconn < MaxConns
    /\ nconn' = nconn + 1
    /\ sess' = nconn + 1
    /\ phase' = "register"
    /\ open' = [open EXCEPT ![nconn + 1] = TRUE]
    /\ UNCHANGED <<runs, up, down>>
    /\ UNCHANGED histVars

(* The reply arrives, if the session still carries it; its token is saved. *)
Registered(c) ==
    /\ phase' = IF sess = c /\ phase = "register" /\ open[c] THEN "dial" ELSE phase
    /\ UNCHANGED <<sess, nconn, runs>>
    /\ UNCHANGED histVars

(* The WebSocket handshake completes.                                      *)
Dialed(c) ==
    /\ sess = c
    /\ phase = "dial"
    /\ phase' = "online"
    /\ UNCHANGED <<sess, nconn, runs>>
    /\ UNCHANGED histVars

(* Dial or ws.Read fails: the loop waits and starts over.  The goroutines  *)
(* started on this connection keep running.                                *)
ConnectError ==
    /\ phase \in {"dial", "online"}
    /\ ~open[sess]
    /\ phase' = "down"
    /\ sess' = NoConn
    /\ down' = [down EXCEPT ![sess] = << >>]
    /\ UNCHANGED <<nconn, runs, open, up>>
    /\ UNCHANGED histVars

(* What is left when the agent process ends; nothing under src/ starts it  *)
(* again, so that BeginRegister is then somebody else's doing.             *)
ProcessGone ==
    /\ phase' = "down"
    /\ sess' = NoConn
    /\ runs' = [r \in RunIds |-> NoRun]
    /\ open' = IF sess = NoConn THEN open ELSE [open EXCEPT ![sess] = FALSE]
    /\ down' = IF sess = NoConn THEN down ELSE [down EXCEPT ![sess] = << >>]
    /\ UNCHANGED <<nconn, up>>

(* A failed registration is not retried: Run returns and the process ends. *)
RegisterError ==
    /\ phase = "register"
    /\ ~open[sess]
    /\ ProcessGone
    /\ UNCHANGED histVars

(* The process is killed, or the machine loses power.                      *)
AgentCrash ==
    /\ nconn > 0
    /\ ProcessGone
    /\ UNCHANGED histVars

-----------------------------------------------------------------------------
(* runPlaybook.                                                            *)

FreeRuns == {r \in RunIds : runs[r].pc = "off"}

(* Mutant of FirstStep: the step at the resume index is skipped too.       *)
FirstStep_SkipsOne(m) == m.resume + 1

(* The first step of the flat playbook that runPlaybook does not skip.     *)
FirstStep(m) == m.resume

(* The read loop takes a playbook message and starts a goroutine for it.   *)
ReceivePlaybook ==
    LET m == Head(down[sess]) IN
    /\ phase = "online"
    /\ down[sess] # << >>
    /\ \E r \in FreeRuns :
        /\ \A q \in FreeRuns : r <= q
        /\ runs' = [runs EXCEPT ![r] = [pc |-> "next", dep |-> m.dep, pb |-> m.pb,
                                        conn |-> sess, i |-> FirstStep(m)]]
    /\ down' = [down EXCEPT ![sess] = Tail(@)]
    /\ UNCHANGED <<sess, phase, nconn, open, up>>
    /\ UNCHANGED histVars

Report(r, type, step) ==
    SendUp(runs[r].conn, [type |-> type, dep |-> runs[r].dep, step |-> step])

(* Run r has reached a step: step_start is sent and RunStep is called.     *)
StepStart(r) ==
    /\ runs[r].pc = "next"
    /\ runs[r].i < NSteps[runs[r].pb]
    /\ Report(r, "step_start", runs[r].i)
    /\ runs' = [runs EXCEPT ![r].pc = "exec"]
    /\ UNCHANGED <<sess, phase, nconn, open, down>>
    /\ UNCHANGED histVars

(* RunStep is finished with step i of r's deployment.                      *)
Executed(r) ==
    executed' = [executed EXCEPT ![runs[r].dep] = @ \cup {runs[r].i}]

(* RunStep succeeds, or fails and continue-on-error is set: step_complete. *)
StepComplete(r) ==
    /\ runs[r].pc = "exec"
    /\ runs[r].i \notin RebootSteps[runs[r].pb]
    /\ Executed(r)
    /\ Report(r, "step_complete", runs[r].i)
    /\ runs' = [runs EXCEPT ![r].pc = "next", ![r].i = @ + 1]
    /\ UNCHANGED <<sess, phase, nconn, open, down, failed>>

(* RunStep returns an error and continue-on-error is not set: the step     *)
(* failed, ran into its timeout, or was cancelled because the agent is     *)
(* being stopped; runPlaybook cannot tell which and sends deploy_failed.   *)
StepFailed(r) ==
    /\ runs[r].pc = "exec"
    /\ runs[r].i \notin RebootSteps[runs[r].pb] \cup TolerantSteps[runs[r].pb]
    /\ failed' = failed \cup {runs[r].dep}
    /\ Report(r, "deploy_failed", runs[r].i)
    /\ runs' = [runs EXCEPT ![r] = NoRun]
    /\ UNCHANGED <<sess, phase, nconn, open, down, executed>>

(* RunStep asks for a reboot: the index after it is sent, then rebootOS is *)
(* called after half a second.                                             *)
StepReboot(r) ==
    /\ runs[r].pc = "exec"
    /\ runs[r].i \in RebootSteps[runs[r].pb]
    /\ Executed(r)
    /\ Report(r, "reboot", runs[r].i + 1)
    /\ runs' = [runs EXCEPT ![r].pc = "rebooting"]
    /\ UNCHANGED <<sess, phase, nconn, open, down, failed>>

(* The operating system goes down and comes back.                          *)
RebootOS(r) ==
    /\ runs[r].pc = "rebooting"
    /\ ProcessGone
    /\ UNCHANGED histVars

(* rebootOS returns an error, which is logged and nothing else.            *)
RebootError(r) ==
    /\ runs[r].pc = "rebooting"
    /\ runs' = [runs EXCEPT ![r] = NoRun]
    /\ UNCHANGED <<sess, phase, nconn, open, up, down>>
    /\ UNCHANGED histVars

(* Mutant of RunDone: the last step does not count.                        *)
RunDone_OneEarly(r) ==
    /\ runs[r].pc = "next"
    /\ runs[r].i + 1 >= NSteps[runs[r].pb]
    /\ Report(r, "deploy_done", 0)
    /\ runs' = [runs EXCEPT ![r] = NoRun]
    /\ UNCHANGED <<sess, phase, nconn, open, down>>
    /\ UNCHANGED histVars

(* All steps are done.                                                     *)
RunDone(r) ==
    /\ runs[r].pc = "next"
    /\ runs[r].i >= NSteps[runs[r].pb]
    /\ Report(r, "deploy_done", 0)
    /\ runs' = [runs EXCEPT ![r] = NoRun]
    /\ UNCHANGED <<sess, phase, nconn, open, down>>
    /\ UNCHANGED histVars
=============================================================================
