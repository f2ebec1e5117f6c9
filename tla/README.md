# A TLA+ verification of Kompakt

Kompakt deploys playbooks to machines.  A server keeps playbooks, agents and
deployments in SQLite; an agent on every machine registers, holds a WebSocket to
the server, executes the steps of a playbook one after the other and survives
reboots of its machine by resuming at a step index that the server has stored.
This directory models that protocol and the parts around it in TLA+, checks them
with TLC on small instances, and proves the safety of every part, and that the protocol
and the message writer implement abstract specifications, with TLAPS for all instances.

All paths below are relative to `internal/` of the repository.

## Inventory

| Part | State | Operations | Talks to |
|---|---|---|---|
| Deployment manager, `server/service/manager.go` | none of its own | `AssignPlaybookToAgent`, `PushPlaybookIfAssigned` | store, Hub |
| WebSocket handler, `server/handlers/ws.go` | one goroutine per session | upgrade, read loop, `handleWSMessage`, deferred cleanup | store, Hub, manager |
| Hub, `server/handlers/handler.go` | agent ID -> connection, an outbox per connection | `register`, `unregister`, `IsConnected`, `Send`, write pump | agents |
| Command store, `server/handlers/handler.go`, `command.go` | sessions in memory | POST, poll, `AppendOutput`, `SetDone` | Hub |
| Registration and tokens, `server/handlers/auth.go`, `token.go` | rows | register, refresh, revoke | store |
| Store, `server/store/store.go` | SQLite, one connection | whole-row upserts, reads, deletes | |
| Agent loop, `agent/agent.go` | token, session | `Run`, `register`, `connect` | server |
| Playbook runner, `agent/agent.go`, `agent/executor` | one goroutine per playbook message | steps, reports, reboot | message writer |
| Message writer, `agent/agent.go` | outbox, stop and done channels | `Send`, writer goroutine, `Stop` | WebSocket |
| Command runner, `agent/agent.go` | one goroutine per command | output, completion | message writer |
| Artifacts, `server/handlers/artifacts.go` | files and rows | upload, patch, delete, download | store, file system |
| Administration, `server/handlers/admin.go` | rows | playbooks, agents, deployments | store, manager |
| Secrets, `server/handlers/secrets.go` | rows, seeded from secrets.yml | set, delete, all of them with each push | store |
| Playbook data, `common/types.go` | none | `FlattenPlaybook`, `ResolveSecrets` | runner, executor |
| UI, TLS, identity, terminal, configuration | | | |

What is hard here:

* No transaction and no lock holds a read of a row and the write of the changed
  row together.  Session goroutines, registrations and root's requests all write
  whole rows back from copies that may be old.
* A session ends in its own time.  The goroutine of an old session may clean up
  after its successor has registered.
* The agent's playbook goroutines outlive the connection they report on.
* Everything that is sent may be lost with its connection; the server resumes,
  so steps may be executed again.
* A reboot ends the agent half a second after it has announced it.
* Requests that the agent gives up on run on in the server.
* Playbooks and secrets change while they are deployed; a push reads them one
  statement after the other.
* An artifact is a file and a row, and a request may end between the two; the name of
  the file is the client's, and may lead to the directory of another artifact.

What makes the parts correct, and where it is stated:

* what the server stores about a deployment is true of what the agent executed,
  so that no step is skipped at a resume and no status lies (`ResumeSound`,
  `CompletedSound`, `FailedSound`, `InOrder` in `Deployment`);
* a connected agent's deployment comes to an end (`EventuallySettled`);
* an agent that stays up gets connected, without a storm of requests, and revoked
  tokens stay revoked (`Registration`);
* the writer delivers a prefix of what each goroutine sent, is one queue to all of
  them (`Channel`), and never blocks anyone for ever (`MessageWriter`);
* a poll of a command shows its exact output (`Commands`);
* a download is permitted, and holds what was uploaded to the path of the artifact,
  whole unless the path is shared; an accepted upload is kept (`Artifacts`);
* no step of any job is skipped, a shell gets the environment its references stand
  for, and every run ends (`Playbooks`).

## Modules

```
KompaktTypes   data shared by server and agent
  Wire         sessions that keep order and may break
    Server     rows, Hub, session goroutines, root's requests
    Agent      connect loop and playbook goroutines
      Deployment         Server and Agent joined; properties; inductive invariant
        MCDeployment       playbooks of the instances that TLC checks
        Deployment_proofs  theorems
          Delivery_proofs  Deployment implements Delivery
Delivery       what a deployment promises, without sessions, goroutines and faults
MessageWriter  the agent's writer, behind the guarantee that Wire gives
Channel        what the writer promises, without its channels and its goroutine
Registration   registration and tokens, statement by statement
Commands       ad-hoc commands
Artifacts      files and rows of artifacts        MCArtifacts  its symmetry
Playbooks      contents, secrets, pushes, runs    MCPlaybooks  its playbooks and secrets
MessageWriter_proofs, Registration_proofs, Commands_proofs, Artifacts_proofs,
Playbooks_proofs   the theorems about each of these
Secrets_proofs     what ResolveSecrets computes; extends Playbooks_proofs
```

**Server.**  `agent` is the agents row and `deps` the deployments rows, cut down
to the columns that the logic reads.  `hub` is the agent's entry in `Hub.conns`.
`th[c]` is the goroutine of session `c` - `HandleAgentRegister` and then
`HandleAgentWS` - and `th[0]` the goroutine of root's requests; its fields are the
local copies the Go code holds between two statements.  An action is one SQL
statement or one Hub operation: `PushPlaybookIfAssigned` is `PushGetAgent`,
`PushGetDeployment`, `PushSaveDeployment`, `PushSaveAgent`, `PushSend`, and any
other goroutine may act between them.  A statement is atomic because the store
opens one database connection.  `Updated` is the change that `handleWSMessage`
makes to a row for each message.

**Agent.**  `phase` and `sess` are the loop of `Run`, `runs` the `runPlaybook`
goroutines.  `StepStart`, `StepComplete`, `StepFailed`, `StepReboot`, `RebootOS`,
`RebootError` and `RunDone` are the stations of `runPlaybook`.  `executed` and
`failed` are history variables: no action reads them.

**Wire.**  `up[c]` and `down[c]` are the two directions of a session, each with
the outbox in front of it.  After `open[c]` is false nothing more is accepted, and
each side may read any prefix of what is left before it notices.

**Registration.**  The agents and agent_tokens rows of one machine, the handlers of
registration requests (also those given up), one refresh, and deletions with their
cascade.  `phase` is the loop of `Run`.  What ends the agent's process is apart from what
the loop gets over: an error reply (`Reply`) and a request that fails (`RegisterFails`)
make `Run` return, a lost connection (`ConnectionLost`) and a rejected token (`Dial`)
lead back to `Register`.  Nothing in the repository starts an agent that has ended;
`AgentStart` is somebody who does, and is never obliged to.

**MessageWriter** and **Commands** follow the goroutines of their Go code one to one;
`Commands` has connections as in `Wire`, with a handshake in one step.

**Channel** is the abstract specification of the message writer: a queue into which each
sender hands one message at a time.  A call returns when its message is behind all that
were accepted before it, or when the connection is broken; messages arrive in the
order of the queue, and with the connection the queue is gone.  `MessageWriter` maps the
message that the writer goroutine has taken, followed by the outbox, to the queue, and the
messages that blocked senders hold to the calls (`Chan`).  That is what `Wire` takes for
granted of `up[c]`.

**Delivery** is the abstract specification of a deployment.  Its state is what an
observer is interested in: the steps done, the deployments broken by a failing step,
and the row shown.  A step of it creates a deployment, executes the first
step of a playbook that is still to do, breaks a deployment, or shows a row that is true;
to execute a step a second time is a stutter.
`Deployment` maps its history variables and its table to that state and leaves out
everything else (`Promise` in `Deployment`).

**Artifacts.**  The disk is modelled as an operating system has it: `files` leads from a
path, a directory of `dirs` and a base name, to a file; `data` is the content of a file,
whose chunk is at each position; and a handler holds a file open whatever becomes of its
path.  `place[i]` is where upload `i` was written: `HandleArtifacts` joins the file name of
the request to the new directory as it is (artifacts.go:138), so that it is any
path in a directory of an artifact, and creating the file empties the one that is there.
`rows[i]` is the row.  Each of the concurrent `handlers` is one request; an action is one
file operation or one statement of `HandleArtifacts`, a chunk of a body at a time, and a
client that goes away, a failing statement or a restart may come after any of them.  The
history variables record what clients were told and what rows ever permitted.

**Playbooks.**  The content of one playbook from the table to the shell.  A playbook is
a sequence of jobs, each a sequence of steps; the value of an environment variable is a
sequence of tokens, two of which are the delimiters of a secret reference.
`PutPlaybook` and `SavePlaybook` are the two statements of a PUT; `PushRead`,
`PushGetPlaybook`, `PushSaveDeployment` and `PushSend` a push in the goroutine of root
or of a connection, with the statements that may fail (`PushError`, and `AllSecrets`
which then gives nothing); `ResolveSecrets` is one turn of the loop in the Go function.
`Expansions` is the reference definition for it: each reference of a text is replaced by
what its value stands for when it is looked at by itself, so many times deep.
A connection is up or down here, and a report is handled in one step: what happens
inside of that is `Deployment`'s matter.

One agent is modelled throughout: rows, Hub entries, sessions and messages are keyed
by agent ID.

## Runs

| Run | Shows |
|---|---|
| `deployment_faults` | safety with every fault, and the refinement of `Delivery`: two sessions, a reboot step and a step, two deployments, two runs at a time, an outbox of one |
| `deployment_settles` | one session in which the push of the connect races with that of an assignment, two playbooks, failing and tolerated steps: `IndInv`, and the deployment ends |
| `registration` | one fault, one deletion, one refresh, six requests: one more than `RequestsBounded` allows, so that the bound could be exceeded |
| `message_writer` | two senders of three messages, an outbox of two, a connection that may break; the refinement of `Channel` |
| `commands` | two commands of up to two lines, two connections, an outbox of one, every fault |
| `artifacts` | three requests in two handlers, two artifacts of one name, two file names in two directories, bodies of two chunks, one agent, root and a caller without credentials; handlers and file names are symmetric |
| `playbooks` | two versions of a playbook of two jobs with a reboot, in one of them in the middle of a job; two secrets that may refer to each other, two connections, two deployments, one assignment, and one change or fault at any place: safety, and every run ends |

These pass.  The others show that the code does not do what is written about it:

| Run | Property | What happens |
|---|---|---|
| `resume_lost` | `EventuallySettled` | after a reboot the old session's cleanup deletes the new session's Hub entry; the resumed playbook is dropped and nothing sends it again |
| `run_twice` | `StepsSequential` | after a reconnect two goroutines execute steps of one deployment at a time |
| `assignment_lost` | `AssignmentKept` | a registration reads the agents row, an assignment saves it, and the registration saves its old copy over it (auth.go:246, 280); the shortest trace is `Register`, `RegisterList`, `AssignGetAgent`, `AssignSaveAgent`, `RegisterSave`.  A session (ws.go:24, 43) and a push (manager.go:52, 116) save old copies in the same way |
| `token_not_alone` | `OnlyNewTokenValid` | a first registration, which revokes nothing, is given up by the agent after its row is saved; a second one finds the row, revokes and issues, and the first handler issues too: two valid tokens |
| `edited_resume` | `SkippedWasCompleted` | a playbook that gets a new first step during the reboot is resumed at the old index; the new step is skipped and never executed |

Two more places where the code does not do what is written about it have no run of their
own:

* *Reconnecting.*  agent.go:81-82 says that `Run` "connects and reconnects via WebSocket
  until ctx is cancelled", and docs/architecture-deep-dive.md:36 describes "a robust loop"
  that "handles automatic reconnection with exponential backoff if the server is
  unreachable".  The loop registers before each connection, and a registration that
  fails, as it does while the server is unreachable, makes `Run` return (agent.go:98-100)
  and ends the process, with the steps that are being executed.  There is no backoff either: the
  loop waits for a fixed interval.  `EventuallyOnline` is therefore stated for an agent
  that stays up; without that condition it is false after a single `RegisterFails`.
* *Resuming.*  docs/playbook-model.md:78 says that the client "resumes from the next job after
  reboot".  It resumes at the next step (agent.go:310), also in the middle of a job.  The
  documents do not agree with each other here (docs/documentation.md:38 speaks of the last
  confirmed step), and `NothingSkipped`, which has every step of every job executed, would be
  violated by a resume at the next job: in the instance a step follows the reboot in its
  job.

Every property of a passing run comes with a mutant, an operator next to the
definition it mutates, under which TLC finds the property violated.

**Bounds.**  Two sessions are what it takes for an old session and a new one to
interleave, two deployments for a stale message or copy to meet a newer deployment,
two runs for a doubled run.  `MaxDeps` and `MaxRuns` also stop the actions that would
exceed them: behaviours that need more are cut short, which safety does not mind; in
`deployment_settles` one connect and one assignment cannot create more than two
deployments, so liveness is not affected.  In `registration` the fault count bounds the
requests, and the run shows that the bound on requests is never what stops the agent.
In `artifacts` two uploads are what it takes for a name to be ambiguous and for a path to
be shared, two handlers for a request to come between the steps of another, and three
requests for a download or a patch to meet both uploads; two file names are what it takes
for a file to lie in another artifact's directory without being that artifact's file.  In `playbooks` one incident besides
the reboot is enough for each property to meet each fault and each change: a reboot or a
crash and a second connection make a resume, and one edit, deletion or change of a secret
falls anywhere in it.  `MaxDepth` is 3: the environment of a step has one
reference, to a secret that refers to the other one, and without a circle there is nothing
to follow further.  Two runs at one time are `Deployment`'s matter; a second message
waits here.

**What `playbooks` says about edits and circles.**  `NothingSkipped` is stated for
deployments whose pushes all found the same content, and `edited_resume` shows that
without this it is false.  `RunsEnd` is stated for secrets without a circle; the instance
has one (root may make B refer to A, which refers to B), and a run that has been given
those never gets past `ResolveSecrets`, whatever the step's `timeout-minutes`.

**Deadlock** is not checked: an agent whose deployment is over and whose bounds are used
up may stop.

**Fairness.**  Weak fairness of every goroutine: Go schedules them, SQL statements and
writes return (writes have a timeout of ten seconds), and a step ends.  The connect
loop keeps turning as long as the process lives.  Where the code ends the process, and after a
reboot of the machine, it takes something outside the repository to start the agent
again, and the repository has no service definition.  In `Registration` that start is an action
of its own without fairness.  In `Deployment` the fair `Register` includes it, which
`EventuallySettled` does not depend on: it is about behaviours in which the agent
is online from some time on.  Faults, root's requests and refreshes are
never obliged to happen.  In `Playbooks` only the
goroutines of the agent are fair, and a shell that was started ends.  In `MessageWriter` the number of messages is bounded, so weak
fairness of a blocked sender is enough; in Go the waiters of a channel are served in
order.

## Proofs

Every safety invariant, every action property and every refinement of the passing runs
is a theorem.  The theorems hold for all sets and numbers that satisfy the assumptions
in the modules, not only for those of the runs.

### Deployment

`Deployment_proofs` proves, for every set of playbooks, every bound and every choice of
faults:

| Theorem | Statement |
|---|---|
| `IndInvariant` | `Spec => []IndInv` |
| `TypeCorrect` | `Spec => []TypeOK` |
| `ResumeIsSound` | `Spec => []ResumeSound` |
| `CompletedIsSound` | `Spec => []CompletedSound` |
| `FailedIsSound` | `Spec => []FailedSound` |
| `ExecutedInOrder` | `Spec => InOrder` |
| `DeploymentImplementsDelivery` (in `Delivery_proofs`) | `Spec => KeepsPromise` |

The assumptions of `Deployment` are: playbooks have a length and sets of reboot and
tolerated steps, the bounds are natural numbers, `NoPlaybook` is no playbook.

The three safety properties are not inductive.  A row that is true now can be replaced
by an old copy from some goroutine, a message that has been on its way for long, or the
report of a run that nobody knows of any more.  `IndInv` therefore says of every place
where a claim about a deployment can be - stored rows (`StoreInv`), copies in goroutines
(`ThreadInv`), messages in both directions (`UpInv`, `DownInv`), the index of a run
(`RunInv`) - that the claim is true of `executed` and `failed`.  It works because those
only grow (lemma `ClaimsStay`): a claim once true stays true, however late it is written.
Besides, a deployment keeps the playbook that it was created for (`Created`), or a
completed status could be moved to another playbook.

The proof has one lemma per group of actions.  `Frame` carries the parts an action does
not touch over to the next state; `SendUpFacts`, `ReadUpFacts`, `SendDownFacts`,
`ReadDownFacts`, `GotoFacts`, `ReturnFacts`, `SaveFacts` and `RunMoves` say what the
operators do.  `InOrder` follows from `RunInv`: a run at index i has everything before i
executed.

The refinement needs, besides `IndInv`, that the row of an ID not given out
yet is absent (`FreshInv`), and that a run which is executing a step is at a step of its
playbook, not past the end (`ExecInv`); `RefinementInvariant` states both.  `HiddenSteps` shows that all actions
but those that save a row, execute a step or fail one leave the mapped state alone;
`RowSaved` that a saved row is true, which is `IndInv` once more; `StepRefines` puts
them together.

### The other parts

Each proofs module but `Secrets_proofs` has the theorems `IndInvariant`
(`Spec => []IndInv`) and `TypeCorrect` (`Spec => []TypeOK`); besides there are these:

| Module | Theorem | Statement |
|---|---|---|
| `Artifacts_proofs` | `DownloadsAreExact` | `Spec => []DownloadExact` |
| | `AccessIsRespected` | `Spec => []AccessRespected` |
| | `UploadsAreKept` | `Spec => []UploadKept` |
| | `DeletedIsGone` | `Spec => GoneForGood` |
| `MessageWriter_proofs` | `DeliveredWithoutGap` | `Spec => []NoGap` |
| | `ImplementsChannel` | `Spec => IsChannel` |
| `Registration_proofs` | `RequestsAreBounded` | `Spec => []RequestsBounded` |
| | `RevokedStaysRevoked` | `Spec => StaysRevoked` |
| `Commands_proofs` | `PollsAreExact` | `Spec => []OutputExact` |
| `Playbooks_proofs` | `StepsAreNumbered` | the steps of a playbook have the indices 0, 1, 2, ... over all jobs |
| | `NothingIsSkipped` | `Spec => []NothingSkipped` |
| `Secrets_proofs` | `SecretsInvariant` | `Spec => []SecretsInv` |
| | `EnvIsRight` | `Spec => []EnvRight` |
| | `EnvIsExpansion` | `Spec => []EnvExpands`: the environment of a shell is the expansion of its step at some depth |

`IndInv` is a definition of the proofs module, and TLC has checked it on the
instance of the run before it was proved.

**Artifacts.**  File names may lead anywhere, so nothing can be said of a file by the ID of
its artifact alone.  `DiskInv` says what holds of the disk whoever writes where: a path
leads to a file that was made there (`place[files[p]] = p`), a file holds nothing but
chunks of uploads to its path (`From`), and the file of an upload that is `Alone` at its path
is there, unless a DELETE has found the artifact whose directory it is in (`Kept`).
`HandlerInv` says of each station of a request what it may rely on: an upload that is alone
has written the chunks up to where it is, an artifact that was looked up is whole if it
is alone (`Done`), a download has got chunks from its own path only.  `RowInv` says the same of
every row, and that the access it gives is recorded.  An upload stops being alone at
any time, when another one is written to its path, and never becomes alone again;
`DiskGrows` says that a step takes chunks only from uploads which it makes share their path,
and with it claims stay true from state to state (`ClaimsStay`).
`OwnUpload` is needed for rows: no two handlers upload under one ID.  `GoneForGood` is an
action property; it needs that only a PATCH puts back a row that it did not make, and
that a handler finds only IDs that have a row.

**MessageWriter.**  `NoGap` alone is not inductive: what is delivered next depends on what
the writer has taken and on the outbox.  `FlowInv` is about the pipe - delivered, taken and
queued messages in one sequence: while the connection works and the writer goes on, the
pipe has no gap and ends with the last message that each sender enqueued (`UpToDate`).  A
message that moves inside the pipe leaves it as it is (`PipeTake`, `PipeWrite`), a new one follows
on.  When the connection breaks, what was delivered is a prefix of a sequence without gaps.

The refinement of `Channel` is about the order over all senders, which `NoGap` says nothing
of.  Most steps of the writer are stutters of the queue: taking a message from the outbox
moves it inside the queue (`StepRefines`).  What has to be excluded is that a message is
given up, by a sender or by the writer, while the connection still works; `StopInv` says
that the stop channel is closed, and the writer past its loop, only when it does not.

**Registration.**  `RequestsBounded` is an accounting argument.  A fault can cost two
requests: the one that failed, and another one because the handler left behind revokes
the token that the agent gets in the meantime.  `BudgetInv` counts the requests made, the
one that is due (`Due`), the one that will be when the agent finds its token invalid
(`Soon`), and one for every handler that can still revoke a token of the agent's
(`Late`), and bounds the sum by what faults, deletions and the refresh pay for.  A step
either leaves the sum, moves a unit from one item to another, or is paid for.  The rest,
`BasicInv`, says that a token not issued yet is not in the table, from which
`StaysRevoked` follows.

**Commands.**  For every command, its messages that are on the way (`UpInv`) are on the
connection it was run on, numbered on from the lines that the session has (`FlowInv`), the
completion counting as the line after the last.  While the connection works
none is missing (`Reached`); when it breaks the rest is lost and the session stays as it is.
`DownInv` is needed so that a command is never run twice: it is queued for the agent at
most once, and only before it has been run.

**Playbooks.**  As in `Deployment` every claim about a deployment - the resume index of a
row, of the copy in a pushing goroutine, of a message, a report or a run - is backed by
`executed` (`Claim`, `Whole`), on the condition that one content was pushed.  The history
`sent` grows too, so a claim made under that condition may lose its condition but not its
truth (`ClaimKept`).  A claim of more than 0 is made only after a push: otherwise the first
push of another content could falsify one that was made about nothing.  `SkipsUpTo` is
the step of the argument that a test would hardly reach: between two
steps that a run executes, it skips only positions below the resume index, because
positions and indices agree (`FlatFacts`).  That is a fact about a recursively defined
function.  The library's induction rules take operators as parameters and cannot be used,
so `FlatFacts` and `MaxFacts` argue by least counterexample: `LeastNat` says that a set of
natural numbers has a least element, from the well-foundedness of `<`.  That the recursive
definition has a solution at all is `LoopExists`.  `PlaybooksAssumption` asks that the
contents are finitely many and are lists of lists.

**Secrets.**  `ResolveSecrets` replaces the first reference and starts over on the whole
text, so that a value is scanned together with what stands before and behind it;
`Expansions` looks at every value by itself.  The two agree if no secret begins a reference
without ending it (`AllClosed`): with a value that ends in an open delimiter, the delimiter
is closed by whatever follows, and the Go loop reads a name that is in no text.  The proof is
in three layers.  `Unfold` gives the recursion of `Expansions` without its functions, and
`OneExpansion` says that a text has at most one expansion, at whatever depth.  `RefInFront`,
`RefBehind` and `NoRefBehind` find the first reference of two texts joined together.
`SplitClosed`, by least counterexample on the depth, concludes that a closed text can be
expanded apart from what follows it; the text before a reference and the value of a reference
are both closed, so a turn of the loop leaves what the text stands for as it is
(`ResolveFirstKeeps`).  `SecretsInv` carries this through the steps of a run, from the
environment of the step to the shell.  `EnvRight` is about one depth, and would be empty for a
text that has to be followed further; `EnvExpands` says that there is a depth at which the
step's expansion exists.  `PlaybooksAssumption` asks that environments and secrets are
sequences of tokens.

Only model-checked: liveness (`EventuallySettled`, `EventuallyOnline`, `SendReturns`,
`StopReturns`, `AcceptedCompletes`, `RunsEnd`), which the prover cannot do.

## Not modelled

* File names that lead out of the artifacts' directories altogether, or to a directory
  inside of one: `UploadCreate` goes to a file in the directory of some artifact.
* Delimiters of secret references that come about across the seam of a value and the text
  around it: tokens of a text are never put together from parts (`ResolveSecrets` searches
  the joined text, types.go:92-102).
* In the runs, an assignment during the half second before a reboot: `deployment_faults` has
  the reboot and no assignment, `deployment_settles` the assignment and no reboot.  The
  module has both, and the theorems about `Deployment` hold for it.
* `Server.RegisterSave` is one step for the statements after the row is read (save, revoke,
  issue, reply); `Registration` has them one by one.
* Statements that fail, in `Server` and `Registration`: SQLite errors make the handlers
  return early or are ignored.  `Artifacts` and `Playbooks` have them.
* The text of logs, names, outputs and errors; times, but for the order of `started_at`.
* `step_failed`: the server handles it, no agent sends it.
* `RequireAgentAuth`'s write of the agents row on other requests than a refresh; token
  expiry; the registration secret; the UI's login.
* What a step does: `RunStep` is its outcome, and for a shell its environment.  A step cancelled because the agent is
  being stopped counts as failed, as the code reports it.
* Hub operations that take long: `register` closes the old connection under the lock.
* That a deleted playbook stays deleted: a PUT that has read it before saves it again
  (`SavePlaybook`), and no document says otherwise.
* The encoding of `started_at`, by which the latest deployment is found: deployments are
  numbered in that order.
* TLS, identity, terminal, templates, configuration: input and output without state that
  the protocol reads.

## State

The deployment protocol, registration, message writer, commands, artifacts, playbooks and
secrets are modelled, each with its inductive invariant and its safety properties proved;
the deployment protocol and the message writer implement abstract specifications.
An abstract specification of a command's output, as a sequence that loses at most its end,
would be the next one worth stating; `OutputExact` says most of it.
