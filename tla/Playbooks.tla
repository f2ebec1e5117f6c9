----------------------------- MODULE Playbooks ------------------------------
(***************************************************************************)
(* What is in a playbook while it is deployed: root edits, deletes and     *)
(* assigns one playbook and changes secrets, the server pushes what it     *)
(* finds in its tables, and the agent flattens the jobs into steps, skips  *)
(* those before the resume index, and resolves the secret references of a  *)
(* step before its shell is started.                                       *)
(*                                                                         *)
(* Deployment models the same protocol with playbooks that never change,   *)
(* one statement of handleWSMessage at a time; here the connection is up   *)
(* or down, and a report is handled in one step.                           *)
(***************************************************************************)
EXTENDS Integers, FiniteSets, SequencesExt

CONSTANTS
    Contents,        \* the playbooks that root sends: sequences of jobs, each
                     \* a sequence of steps [name, reboot, env]
    NoPlaybook,      \* there is no such playbook
    SecretNames,
    SecretValues,    \* [SecretNames -> sets of texts]
    SeedSecrets,     \* what secrets.yml gives some of the names
    Tokens,          \* what texts are made of
    Prefix, Suffix,  \* the tokens "${{ secrets." and " }}" of a text
    MaxAssigns,      \* bound: requests that assign the playbook
    MaxIncidents,    \* bound: incidents, and requests that change a playbook or a secret
    MaxDeps,         \* bound: deployments
    MaxConns,        \* bound: connections of the agent
    MaxRuns,         \* bound: runs in progress at one time
    MaxDepth         \* bound: references that are followed from one to the next

Text == Seq(Tokens)

IsList(s) == Len(s) \in Nat /\ s = [k \in 1..Len(s) |-> s[k]]

ASSUME PlaybooksAssumption ==
    /\ {MaxAssigns, MaxIncidents, MaxDeps, MaxConns, MaxRuns, MaxDepth} \subseteq Nat
    /\ IsFiniteSet(Contents)
    /\ \A pb \in Contents : IsList(pb) /\ \A j \in DOMAIN pb : IsList(pb[j])
    /\ \A pb \in Contents : \A j \in DOMAIN pb : \A k \in DOMAIN pb[j] : pb[j][k].env \in Text
    /\ NoPlaybook \notin Contents
    /\ DOMAIN SeedSecrets \subseteq SecretNames
    /\ \A n \in DOMAIN SeedSecrets : SeedSecrets[n] \in SecretValues[n]
    /\ \A n \in SecretNames : SecretValues[n] \subseteq Text
    /\ Prefix # Suffix

VARIABLES
    playbook,   \* the content in the playbooks table, or NoPlaybook
    edit,       \* the content that a PUT request is about to save, or NoPlaybook
    secrets,    \* the secrets table: name -> text
    assigned,   \* the agents row names the playbook
    deps,       \* the deployments, in the order of started_at
    push,       \* the goroutines that push: root's request, one per connection
    conn,       \* connections so far
    online,     \* the last of them is up
    inbox,      \* playbook messages on their way to the agent
    wire,       \* reports on their way to the server, per connection
    runs,       \* the runPlaybook goroutines of the agent
    assigns,    \* assignments so far
    incidents,  \* changes and faults so far
    sent,       \* history: the contents pushed for a deployment
    executed    \* history: the steps that RunStep has finished for a deployment

serverVars == <<playbook, edit, secrets, assigned, deps, push>>
agentVars  == <<inbox, runs, executed>>
vars == <<serverVars, agentVars, assigns, incidents, conn, online, wire, sent>>

-----------------------------------------------------------------------------
(* Playbooks.                                                              *)

(* Mutant of FlattenPlaybook: steps are numbered within their job.         *)
FlattenPlaybook_PerJob(pb) ==
    LET out[j \in 0..Len(pb)] ==
            IF j = 0 THEN << >>
            ELSE out[j - 1] \o
                 [k \in DOMAIN pb[j] |-> [step |-> pb[j][k], global |-> k - 1]]
    IN  out[Len(pb)]

(* All steps in execution order with global indices: out[j] when j jobs    *)
(* have been gone through.                                                 *)
FlattenPlaybook(pb) ==
    LET out[j \in 0..Len(pb)] ==
            IF j = 0 THEN << >>
            ELSE out[j - 1] \o
                 [k \in DOMAIN pb[j] |->
                    [step |-> pb[j][k], global |-> Len(out[j - 1]) + k - 1]]
    IN  out[Len(pb)]

Flat == [pb \in Contents |-> FlattenPlaybook(pb)]

(* A playbook without jobs is answered with 400.                           *)
NoJobs == << >>
Valid  == Contents \ {NoJobs}

-----------------------------------------------------------------------------
(* Secret references.  A text is a sequence of tokens, and the delimiters  *)
(* are tokens: one that comes about across the seam of a value and the     *)
(* text around it is not in this model.                                    *)

NoSecrets == << >>

(* Where the first reference of a text begins and ends; 0 if it has none.  *)
Least(S) == IF S = {} THEN 0 ELSE Min(S)

RefStart(text) == Least({i \in DOMAIN text : text[i] = Prefix})
RefEnd(text)   == Least({i \in DOMAIN text : i > RefStart(text) /\ text[i] = Suffix})

HasRef(text) == RefStart(text) # 0 /\ RefEnd(text) # 0

BeforeRef(text) == SubSeq(text, 1, RefStart(text) - 1)
RefName(text)   == SubSeq(text, RefStart(text) + 1, RefEnd(text) - 1)
AfterRef(text)  == SubSeq(text, RefEnd(text) + 1, Len(text))

(* Mutant of Lookup: an unknown reference is left as it is.                *)
Lookup_Kept(values, name) ==
    IF \E n \in DOMAIN values : name = <<n>>
    THEN values[name[1]]
    ELSE <<Prefix>> \o name \o <<Suffix>>

(* secrets[name]: the empty text when there is no such secret.             *)
Lookup(values, name) ==
    IF \E n \in DOMAIN values : name = <<n>> THEN values[name[1]] ELSE << >>

(* Mutant of ResolveFirst: what follows the reference begins too early.    *)
ResolveFirst_KeepsSuffix(text, values) ==
    BeforeRef(text) \o Lookup(values, RefName(text)) \o SubSeq(text, RefEnd(text), Len(text))

(* One turn of the loop: the first reference is replaced.                  *)
ResolveFirst(text, values) ==
    BeforeRef(text) \o Lookup(values, RefName(text)) \o AfterRef(text)

-----------------------------------------------------------------------------
DepIds  == 1..MaxDeps
ConnIds == 1..MaxConns
RunIds  == 1..MaxRuns
Root    == 0
Pushers == ConnIds \cup {Root}
NoDep   == 0

Resumable == {"running", "rebooting"}

Indices == 0..Max({Len(Flat[pb]) : pb \in Contents})

DeploymentState == [status : {"running", "rebooting", "completed", "failed"}, resume : Indices]

(* A goroutine in PushPlaybookIfAssigned, with what it has read so far.    *)
Pusher(pc, force) ==
    [pc |-> pc, force |-> force, dep |-> NoDep, resume |-> 0, content |-> NoPlaybook]

Gone == Pusher("off", FALSE)

NoRun == [pc |-> "off"]

TypeOK ==
    /\ playbook \in Valid \cup {NoPlaybook}
    /\ edit \in Contents \cup {NoPlaybook}
    /\ DOMAIN secrets \subseteq SecretNames
    /\ \A n \in DOMAIN secrets : secrets[n] \in SecretValues[n]
    /\ assigned \in BOOLEAN
    /\ Len(deps) <= MaxDeps /\ \A d \in DOMAIN deps : deps[d] \in DeploymentState
    /\ conn \in 0..MaxConns
    /\ online \in BOOLEAN
    /\ \A t \in Pushers : push[t].content \in Valid \cup {NoPlaybook}
    /\ \A r \in RunIds : runs[r] # NoRun =>
         /\ runs[r].content \in Valid
         /\ runs[r].dep \in DOMAIN deps
         /\ runs[r].at \in 0..Len(Flat[runs[r].content])
         /\ runs[r].resume \in Indices
    /\ \A d \in DepIds : sent[d] \subseteq Valid

(* The server has seeded its secrets; a playbook is stored, and it may be  *)
(* assigned already.                                                       *)
Init ==
    /\ playbook \in Valid
    /\ edit = NoPlaybook
    /\ secrets = SeedSecrets
    /\ assigned \in BOOLEAN
    /\ deps = << >>
    /\ push = [t \in Pushers |-> Gone]
    /\ conn = 0
    /\ online = FALSE
    /\ inbox = << >>
    /\ wire = [c \in ConnIds |-> << >>]
    /\ runs = [r \in RunIds |-> NoRun]
    /\ assigns = 0
    /\ incidents = 0
    /\ sent = [d \in DepIds |-> {}]
    /\ executed = [d \in DepIds |-> {}]

(* A map after the entries of f were put into it.                          *)
Merged(f, map) ==
    [n \in DOMAIN f \cup DOMAIN map |-> IF n \in DOMAIN f THEN f[n] ELSE map[n]]

Assignment == assigns < MaxAssigns /\ assigns' = assigns + 1
Incident   == incidents < MaxIncidents /\ incidents' = incidents + 1

-----------------------------------------------------------------------------
(* Requests of root.  One that would change nothing is left out.           *)

(* Mutant of PutPlaybook: the jobs are not looked at.                      *)
PutPlaybook_Unchecked ==
    /\ Incident
    /\ edit = NoPlaybook
    /\ playbook # NoPlaybook
    /\ edit' \in Contents
    /\ UNCHANGED <<playbook, secrets, assigned, deps, push>>
    /\ UNCHANGED <<agentVars, assigns, conn, online, wire, sent>>

(* PUT: GetPlaybook finds the row and the body is valid; it is saved in a  *)
(* later step, whatever has become of the row.                             *)
PutPlaybook ==
    /\ Incident
    /\ edit = NoPlaybook
    /\ playbook # NoPlaybook
    /\ edit' \in Valid
    /\ UNCHANGED <<playbook, secrets, assigned, deps, push>>
    /\ UNCHANGED <<agentVars, assigns, conn, online, wire, sent>>

SavePlaybook ==
    /\ edit # NoPlaybook
    /\ playbook' = edit
    /\ edit' = NoPlaybook
    /\ UNCHANGED <<secrets, assigned, deps, push>>
    /\ UNCHANGED <<agentVars, assigns, incidents, conn, online, wire, sent>>

DeletePlaybook ==
    /\ Incident
    /\ playbook # NoPlaybook
    /\ playbook' = NoPlaybook
    /\ UNCHANGED <<edit, secrets, assigned, deps, push>>
    /\ UNCHANGED <<agentVars, assigns, conn, online, wire, sent>>

SetSecret(n) ==
    /\ Incident
    /\ \E v \in SecretValues[n] : secrets' = Merged([m \in {n} |-> v], secrets)
    /\ secrets' # secrets
    /\ UNCHANGED <<playbook, edit, assigned, deps, push>>
    /\ UNCHANGED <<agentVars, assigns, conn, online, wire, sent>>

DeleteSecret(n) ==
    /\ Incident
    /\ n \in DOMAIN secrets
    /\ secrets' = [m \in DOMAIN secrets \ {n} |-> secrets[m]]
    /\ UNCHANGED <<playbook, edit, assigned, deps, push>>
    /\ UNCHANGED <<agentVars, assigns, conn, online, wire, sent>>

(* PUT of the agent: the playbook is not looked up and nothing is pushed.  *)
PutAgent ==
    /\ Assignment
    /\ ~assigned
    /\ assigned' = TRUE
    /\ UNCHANGED <<playbook, edit, secrets, deps, push>>
    /\ UNCHANGED <<agentVars, incidents, conn, online, wire, sent>>

(* POST .../assign: 404 unless GetPlaybook finds the row.                  *)
Assign ==
    /\ Assignment
    /\ push[Root] = Gone
    /\ playbook # NoPlaybook
    /\ push' = [push EXCEPT ![Root] = Pusher("assign", TRUE)]
    /\ UNCHANGED <<playbook, edit, secrets, assigned, deps>>
    /\ UNCHANGED <<agentVars, incidents, conn, online, wire, sent>>

(* SaveAgent, and a push if the hub has a connection of the agent: it may  *)
(* be one whose end the server has not noticed.                            *)
AssignSaveAgent ==
    /\ push[Root].pc = "assign"
    /\ assigned' = TRUE
    /\ \/ conn > 0 /\ push' = [push EXCEPT ![Root] = Pusher("read", TRUE)]
       \/ ~online /\ push' = [push EXCEPT ![Root] = Gone]
    /\ UNCHANGED <<playbook, edit, secrets, deps>>
    /\ UNCHANGED <<agentVars, assigns, incidents, conn, online, wire, sent>>

-----------------------------------------------------------------------------
(* PushPlaybookIfAssigned, in goroutine t.                                 *)

pushUnchanged == <<playbook, edit, secrets, assigned, assigns, conn, online, wire>>

Return(t) == push' = [push EXCEPT ![t] = Gone]

Latest == Len(deps)

(* GetAgent and GetActiveDeploymentForAgent: the latest deployment is      *)
(* resumed, skipped because it is over, or followed by a new one.          *)
PushRead(t) ==
    /\ push[t].pc = "read"
    /\ \/ /\ assigned /\ Latest # NoDep
          /\ deps[Latest].status \in Resumable
          /\ push' = [push EXCEPT ![t].pc = "playbook", ![t].dep = Latest,
                                  ![t].resume = deps[Latest].resume]
       \/ /\ assigned
          /\ \/ Latest = NoDep
             \/ Latest # NoDep /\ deps[Latest].status \notin Resumable /\ push[t].force
          /\ push' = [push EXCEPT ![t].pc = "playbook"]
       \/ /\ \/ ~assigned
             \/ Latest # NoDep /\ deps[Latest].status \notin Resumable /\ ~push[t].force
          /\ Return(t)
    /\ UNCHANGED <<pushUnchanged, incidents, deps, agentVars, sent>>

(* GetPlaybook: nothing is pushed when the playbook is gone.               *)
PushGetPlaybook(t) ==
    /\ push[t].pc = "playbook"
    /\ \/ /\ playbook # NoPlaybook
          /\ push' = [push EXCEPT ![t].pc = "save", ![t].content = playbook]
       \/ /\ playbook = NoPlaybook
          /\ Return(t)
    /\ UNCHANGED <<pushUnchanged, incidents, deps, agentVars, sent>>

(* SaveDeployment of the row as it was read, or of a new one.              *)
PushSaveDeployment(t) ==
    /\ push[t].pc = "save"
    /\ \/ /\ push[t].dep # NoDep
          /\ deps' = [deps EXCEPT ![push[t].dep] =
                        [status |-> "running", resume |-> push[t].resume]]
          /\ push' = [push EXCEPT ![t].pc = "send"]
       \/ /\ push[t].dep = NoDep
          /\ Len(deps) < MaxDeps
          /\ deps' = Append(deps, [status |-> "running", resume |-> 0])
          /\ push' = [push EXCEPT ![t].pc = "send", ![t].dep = Len(deps) + 1]
    /\ UNCHANGED <<pushUnchanged, incidents, agentVars, sent>>

(* A statement fails before the message is sent; the error is logged.      *)
PushError(t) ==
    /\ Incident
    /\ push[t].pc \in {"save", "send"}
    /\ Return(t)
    /\ UNCHANGED <<pushUnchanged, deps, agentVars, sent>>

(* AllSecrets, which gives no secrets at all when its query fails, and     *)
(* Hub.Send, which drops the message when the agent is not connected.      *)
PushSend(t) ==
    /\ push[t].pc = "send"
    /\ \E values \in {secrets, NoSecrets} :
         /\ IF values = secrets THEN UNCHANGED incidents ELSE Incident
         /\ inbox' = IF ~online THEN inbox ELSE
                     Append(inbox, [dep |-> push[t].dep, content |-> push[t].content,
                                    resume |-> push[t].resume, secrets |-> values])
    /\ sent' = IF online
               THEN [sent EXCEPT ![push[t].dep] = @ \cup {push[t].content}]
               ELSE sent
    /\ Return(t)
    /\ UNCHANGED <<pushUnchanged, deps, runs, executed>>

-----------------------------------------------------------------------------
(* The agent.                                                              *)

runUnchanged == <<serverVars, assigns, conn, online, sent>>

(* The steps at or after position k of run r that are not skipped.         *)
Remaining(run, k) ==
    {j \in k..Len(Flat[run.content]) : Flat[run.content][j].global >= run.resume}

OrderedStep(r) == Flat[runs[r].content][runs[r].at]

(* writer.Send: lost once the connection of the run is gone.               *)
Report(r, type, index) ==
    wire' = IF online /\ runs[r].conn = conn
            THEN [wire EXCEPT ![conn] =
                    Append(@, [type |-> type, dep |-> runs[r].dep, index |-> index])]
            ELSE wire

(* A playbook message starts a goroutine.                                  *)
ReceivePlaybook ==
    /\ inbox # << >>
    /\ \E r \in RunIds :
         /\ runs[r] = NoRun
         /\ \A q \in 1..(r - 1) : runs[q] # NoRun
         /\ runs' = [runs EXCEPT ![r] =
                      [pc |-> "next", conn |-> conn, dep |-> Head(inbox).dep,
                       content |-> Head(inbox).content, resume |-> Head(inbox).resume,
                       secrets |-> Head(inbox).secrets, at |-> 0, env |-> << >>]]
    /\ inbox' = Tail(inbox)
    /\ UNCHANGED <<runUnchanged, incidents, executed, wire>>

(* The next step that is not skipped: step_start, and RunStep is called.   *)
StepStart(r) ==
    /\ runs[r].pc = "next"
    /\ LET rest == Remaining(runs[r], runs[r].at + 1)
           step == Flat[runs[r].content][Min(rest)] IN
       /\ rest # {}
       /\ Report(r, "step_start", step.global)
       /\ runs' = [runs EXCEPT ![r].pc = IF step.step.reboot THEN "reboot" ELSE "resolve",
                               ![r].at = Min(rest),
                               ![r].env = step.step.env]
    /\ UNCHANGED <<runUnchanged, incidents, inbox, executed>>

(* ResolveSecrets, one turn of its loop at a time.                         *)
ResolveSecrets(r) ==
    /\ runs[r].pc = "resolve"
    /\ \/ /\ HasRef(runs[r].env)
          /\ runs' = [runs EXCEPT ![r].env = ResolveFirst(@, runs[r].secrets)]
       \/ /\ ~HasRef(runs[r].env)
          /\ runs' = [runs EXCEPT ![r].pc = "shell"]
    /\ UNCHANGED <<runUnchanged, incidents, inbox, executed, wire>>

Executed(r) ==
    executed' = [executed EXCEPT ![runs[r].dep] = @ \cup {OrderedStep(r).step}]

(* runShell returns; continue-on-error makes an error no different.        *)
StepComplete(r) ==
    /\ runs[r].pc = "shell"
    /\ Executed(r)
    /\ Report(r, "step_complete", OrderedStep(r).global)
    /\ runs' = [runs EXCEPT ![r].pc = "next", ![r].env = << >>]
    /\ UNCHANGED <<runUnchanged, incidents, inbox>>

StepFailed(r) ==
    /\ Incident
    /\ runs[r].pc = "shell"
    /\ Report(r, "deploy_failed", OrderedStep(r).global)
    /\ runs' = [runs EXCEPT ![r] = NoRun]
    /\ UNCHANGED <<runUnchanged, inbox, executed>>

(* RunStep asks for a reboot: the next index is sent, rebootOS is called.  *)
StepReboot(r) ==
    /\ runs[r].pc = "reboot"
    /\ Executed(r)
    /\ Report(r, "reboot", OrderedStep(r).global + 1)
    /\ runs' = [runs EXCEPT ![r].pc = "rebooting"]
    /\ UNCHANGED <<runUnchanged, incidents, inbox>>

RebootError(r) ==
    /\ Incident
    /\ runs[r].pc = "rebooting"
    /\ runs' = [runs EXCEPT ![r] = NoRun]
    /\ UNCHANGED <<runUnchanged, inbox, executed, wire>>

RunDone(r) ==
    /\ runs[r].pc = "next"
    /\ Remaining(runs[r], runs[r].at + 1) = {}
    /\ Report(r, "deploy_done", 0)
    /\ runs' = [runs EXCEPT ![r] = NoRun]
    /\ UNCHANGED <<runUnchanged, incidents, inbox, executed>>

-----------------------------------------------------------------------------
(* The connection.                                                         *)

(* The agent registers and dials; HandleAgentWS pushes without force.      *)
Connect ==
    /\ ~online
    /\ conn < MaxConns
    /\ conn' = conn + 1
    /\ online' = TRUE
    /\ push' = [push EXCEPT ![conn + 1] = Pusher("read", FALSE)]
    /\ UNCHANGED <<playbook, edit, secrets, assigned, deps>>
    /\ UNCHANGED <<agentVars, assigns, incidents, wire, sent>>

(* What was on the way to the agent is lost; of what was on the way to the *)
(* server, some may have arrived.                                          *)
Hangup ==
    /\ online' = FALSE
    /\ inbox' = << >>
    /\ UNCHANGED <<assigns, conn, sent, executed>>

Arrived == \E n \in 0..Len(wire[conn]) : wire' = [wire EXCEPT ![conn] = SubSeq(@, 1, n)]

Disconnect ==
    /\ Incident
    /\ online
    /\ Hangup
    /\ Arrived
    /\ UNCHANGED <<serverVars, runs>>

(* The agent process ends, with all of its runs.                           *)
ProcessGone ==
    /\ Hangup
    /\ runs' = [r \in RunIds |-> NoRun]
    /\ IF online THEN Arrived ELSE UNCHANGED wire
    /\ UNCHANGED serverVars

AgentCrash == Incident /\ conn > 0 /\ ProcessGone

RebootOS(r) == runs[r].pc = "rebooting" /\ ProcessGone /\ UNCHANGED incidents

(* The server process is replaced: requests and connections break off, and *)
(* secrets.yml is merged into the secrets table again.                     *)
ServerRestart ==
    /\ Incident
    /\ Hangup
    /\ wire' = [c \in ConnIds |-> << >>]
    /\ edit' = NoPlaybook
    /\ push' = [t \in Pushers |-> Gone]
    /\ secrets' = Merged(SeedSecrets, secrets)
    /\ UNCHANGED <<playbook, assigned, deps, runs>>

-----------------------------------------------------------------------------
(* The server reads a report.                                              *)

Updated(rec, m) ==
    CASE m.type = "step_start"    -> [rec EXCEPT !.status = "running", !.resume = m.index]
      [] m.type = "step_complete" -> [rec EXCEPT !.resume = m.index + 1]
      [] m.type = "reboot"        -> [rec EXCEPT !.status = "rebooting", !.resume = m.index]
      [] m.type = "deploy_done"   -> [rec EXCEPT !.status = "completed"]
      [] m.type = "deploy_failed" -> [rec EXCEPT !.status = "failed"]

HandleReport(c) ==
    /\ wire[c] # << >>
    /\ push[c] = Gone
    /\ LET m == Head(wire[c]) IN deps' = [deps EXCEPT ![m.dep] = Updated(@, m)]
    /\ wire' = [wire EXCEPT ![c] = Tail(@)]
    /\ UNCHANGED <<playbook, edit, secrets, assigned, push>>
    /\ UNCHANGED <<agentVars, assigns, incidents, conn, online, sent>>

-----------------------------------------------------------------------------
PushStep(t) ==
    PushRead(t) \/ PushGetPlaybook(t) \/ PushSaveDeployment(t) \/ PushSend(t) \/ PushError(t)

RunStep(r) ==
    \/ StepStart(r) \/ ResolveSecrets(r) \/ StepComplete(r) \/ StepFailed(r)
    \/ StepReboot(r) \/ RebootOS(r) \/ RebootError(r) \/ RunDone(r)

Next ==
    \/ PutPlaybook \/ SavePlaybook \/ DeletePlaybook
    \/ \E n \in SecretNames : SetSecret(n) \/ DeleteSecret(n)
    \/ PutAgent \/ Assign \/ AssignSaveAgent
    \/ \E t \in Pushers : PushStep(t)
    \/ ReceivePlaybook
    \/ \E r \in RunIds : RunStep(r)
    \/ Connect \/ Disconnect \/ AgentCrash \/ ServerRestart
    \/ \E c \in ConnIds : HandleReport(c)

(* A goroutine of the agent goes on; a shell that was started ends.        *)
Fairness == \A r \in RunIds : WF_vars(RunStep(r))

Spec == Init /\ [][Next]_vars /\ Fairness

-----------------------------------------------------------------------------
(* The steps of run r that lie before the one it is at, all of them once   *)
(* it has got through.                                                     *)
Before(run) == {Flat[run.content][k].step : k \in 1..(run.at - 1)}

(* A step that a run skips, or has behind it, was executed in the same     *)
(* deployment, in this run or an earlier one; and a deployment shown as    *)
(* completed has executed every step of every job.  The resume index is    *)
(* FlattenPlaybook's, and it survives crashes, reboots, lost reports and a *)
(* reconnect; that is so as long as every push of the deployment found the *)
(* same playbook in the table.  A run resumes at the step after the reboot *)
(* (agent.go:310), also in the middle of a job; it would not be so if it   *)
(* resumed "from the next job", as docs/playbook-model.md:78 has it.       *)
NothingSkipped ==
    /\ \A r \in RunIds :
         runs[r] # NoRun /\ Cardinality(sent[runs[r].dep]) = 1
            => Before(runs[r]) \subseteq executed[runs[r].dep]
    /\ \A d \in DOMAIN deps : \A pb \in Valid :
         deps[d].status = "completed" /\ sent[d] = {pb}
            => {Flat[pb][k].step : k \in DOMAIN Flat[pb]} \subseteq executed[d]

(* runPlaybook skips a step because it was "already completed before last  *)
(* reboot" (agent.go:265): what a run skips was executed in the deployment.*)
SkippedWasCompleted ==
    \A r \in RunIds : runs[r] # NoRun => Before(runs[r]) \subseteq executed[runs[r].dep]

(* What a text stands for: the value of each reference, expanded on its    *)
(* own, in the place of the reference.  This takes one text, or none if    *)
(* references have to be followed further than n.                          *)
Expansions(text, values, n) ==
    LET ex[k \in 0..n] ==
            [t \in Text |->
                IF ~HasRef(t) THEN {t}
                ELSE IF k = 0 THEN {}
                ELSE {BeforeRef(t) \o v \o w : v \in ex[k - 1][Lookup(values, RefName(t))],
                                               w \in ex[k - 1][AfterRef(t)]}]
    IN  ex[n][text]

(* No secret begins a reference without ending it.                         *)
Closed(text) ==
    \A i \in DOMAIN text : text[i] = Prefix => \E j \in DOMAIN text : i < j /\ text[j] = Suffix

AllClosed(values) == \A n \in DOMAIN values : Closed(values[n])

(* A shell is started with the environment that the references of its step *)
(* stand for, in the secrets that came with the push, although             *)
(* ResolveSecrets never looks at a reference by itself: it starts over on  *)
(* the whole text after every replacement (types.go:102).                  *)
EnvRight ==
    \A r \in RunIds :
        runs[r].pc = "shell" /\ AllClosed(runs[r].secrets)
            => Expansions(OrderedStep(r).step.env, runs[r].secrets, MaxDepth) \subseteq {runs[r].env}

(* No secret refers to itself, not even by way of others.                  *)
RefersTo(text, n) == \E i \in 1..(Len(text) - 2) : SubSeq(text, i, i + 2) = <<Prefix, n, Suffix>>

Acyclic(values) ==
    \A S \in SUBSET (DOMAIN values) \ {{}} :
        \E m \in S : \A n \in S : ~RefersTo(values[m], n)

(* Every run of the agent ends: with a report that the deployment is over, *)
(* in a reboot, or with the process, unless its secrets refer to each      *)
(* other in a circle.  ResolveSecrets starts over after every replacement; *)
(* in a circle it never gets to the shell, and no timeout ends it.         *)
RunsEnd ==
    \A r \in RunIds :
        runs[r] # NoRun /\ Acyclic(runs[r].secrets) ~> runs[r] = NoRun
=============================================================================
