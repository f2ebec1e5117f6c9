------------------------------ MODULE Artifacts -----------------------------
(***************************************************************************)
(* The artifact store (internal/server/handlers/artifacts.go): an artifact *)
(* is a file and a row in the database, written, read and deleted in       *)
(* separate steps by handlers that run concurrently, and the agent's       *)
(* download-artifact and upload-artifact steps.                            *)
(*                                                                         *)
(* Every artifact has a directory of its own, named by its ID, but the     *)
(* file name that is joined to the directory is the client's and is not    *)
(* checked: the file of an upload may lie in the directory of another      *)
(* artifact, and be another artifact's file.  A file is therefore apart    *)
(* from its path, as on the disk: a path leads to a file, a handler holds  *)
(* a file open, and the content of a file is whose chunk is where in it.   *)
(***************************************************************************)
EXTENDS Integers

CONSTANTS
    Agents,         \* agents with a valid token
    Root, Nobody,   \* a request of root, a request without credentials
    Names,          \* artifact names
    FileNames,      \* names of files in a directory
    Unset,          \* a query parameter that a request leaves out
    Chunks,         \* chunks of a request body
    Handlers,       \* requests that can be in progress at one time
    MaxUploads,     \* bound: artifact IDs drawn
    MaxRequests     \* bound: requests

ASSUME ArtifactsAssumption ==
    /\ Root \notin Agents /\ Nobody \notin Agents /\ Root # Nobody
    /\ Chunks \in Nat
    /\ MaxUploads \in Nat
    /\ MaxRequests \in Nat

VARIABLES
    rows,       \* the artifacts table
    dirs,       \* the directories of artifacts
    files,      \* the file at a path, or NoFile
    data,       \* the content of a file
    place,      \* the path that the file name of an upload leads to
    handlers,   \* the handlers in progress
    nextId,     \* the ID that NewID returns next
    requests,   \* requests so far
    created,    \* history: uploads that the client saw answered with 201
    doomed,     \* history: artifacts that a DELETE request has found
    deleted,    \* history: artifacts whose DELETE was answered with 200
    permitted,  \* history: who a stored row has ever given access to what
    received    \* history: the last download that a client got to the end

vars == <<rows, dirs, files, data, place, handlers, nextId, requests,
          created, doomed, deleted, permitted, received>>

diskVars == <<dirs, files, data, place>>
histVars == <<created, doomed, deleted, permitted, received>>

Ids     == 1..MaxUploads
Callers == Agents \cup {Root, Nobody}

(* Who passes `isRootRequest || agentIDFromToken`.                         *)
Authenticated == Agents \cup {Root}

Policies == {"public", "authenticated", "restricted"}

(* The columns of a row that the handlers look at.                         *)
Artifact == [name : Names, policy : Policies, allowed : SUBSET Agents]

NoRow  == [policy |-> "none"]
NoFile == 0
NoId   == 0
Hole   == 0

(* The file_name column is the place of the upload: no statement changes   *)
(* it, so it is kept outside of the row.                                   *)
Paths  == [dir : Ids, base : FileNames]
NoPath == [dir |-> NoId, base |-> Unset]

(* A file has the ID of the upload that made it.  Its content is whose     *)
(* chunk is at each position; a Hole is a position never written, behind   *)
(* the end or before it.                                                   *)
Contents == [1..Chunks -> Ids \cup {Hole}]
Empty    == [k \in 1..Chunks |-> Hole]

(* The body of upload i, all of it and nothing else.                       *)
Whole(content, i) == \A k \in 1..Chunks : content[k] = i

(* n is where a content ends.                                              *)
EndsAt(content, n) ==
    /\ n > 0 => content[n] # Hole
    /\ \A k \in 1..Chunks : k > n => content[k] = Hole

(* A handler: where it is, its copy of the row, the file it has open, how  *)
(* many chunks it has copied; for a download also who asked, the size that *)
(* was announced and what the client has got.                              *)
Handler == [pc : {"idle", "copy", "save", "open", "send", "patch", "remove", "delete"},
            who : Callers, id : Ids \cup {NoId}, row : Artifact \cup {NoRow},
            file : Ids \cup {NoFile}, n : 0..Chunks, size : 0..Chunks, body : Contents]

Idle == [pc |-> "idle", who |-> Nobody, id |-> NoId, row |-> NoRow,
         file |-> NoFile, n |-> 0, size |-> 0, body |-> Empty]

TypeOK ==
    /\ rows \in [Ids -> Artifact \cup {NoRow}]
    /\ dirs \in SUBSET Ids
    /\ files \in [Paths -> Ids \cup {NoFile}]
    /\ data \in [Ids -> Contents]
    /\ place \in [Ids -> Paths \cup {NoPath}]
    /\ handlers \in [Handlers -> Handler]
    /\ nextId \in 1..(MaxUploads + 1)
    /\ requests \in 0..MaxRequests
    /\ created \in SUBSET Ids
    /\ doomed \in SUBSET Ids
    /\ deleted \in SUBSET Ids
    /\ permitted \in SUBSET (Ids \X Callers)
    /\ received \in SUBSET [who : Callers, id : Ids, body : Contents]

Init ==
    /\ rows = [i \in Ids |-> NoRow]
    /\ dirs = {}
    /\ files = [p \in Paths |-> NoFile]
    /\ data = [i \in Ids |-> Empty]
    /\ place = [i \in Ids |-> NoPath]
    /\ handlers = [h \in Handlers |-> Idle]
    /\ nextId = 1
    /\ requests = 0
    /\ created = {}
    /\ doomed = {}
    /\ deleted = {}
    /\ permitted = {}
    /\ received = {}

Goto(h, pc) == handlers' = [handlers EXCEPT ![h].pc = pc]

(* The handler has answered, whatever the answer.                          *)
Return(h) == handlers' = [handlers EXCEPT ![h] = Idle]

(* A request begins, in an idle handler.                                   *)
Accept(h, handler) ==
    /\ handlers[h] = Idle
    /\ requests < MaxRequests
    /\ requests' = requests + 1
    /\ handlers' = [handlers EXCEPT ![h] = handler]

-----------------------------------------------------------------------------
(* The access policy.                                                      *)

(* What the download handler decides from a row: an unauthenticated caller *)
(* gets public artifacts only, an agent gets a restricted one if listed.   *)
Allows(row, who) ==
    \/ row.policy = "public"
    \/ who = Root
    \/ who \in Agents /\ (row.policy = "restricted" => who \in row.allowed)

(* SaveArtifact: the whole row is inserted, or replaced if it is there.    *)
SaveArtifact(i, row) ==
    /\ rows' = [rows EXCEPT ![i] = row]
    /\ permitted' = permitted \cup {<<i, w>> : w \in {c \in Callers : Allows(row, c)}}

-----------------------------------------------------------------------------
(* POST: the body goes into a file, then the row is saved.                 *)

(* NewID, MkdirAll and Create, which empties a file that is there already. *)
(* Joined to the directory, the file name may lead to the directory of any *)
(* other artifact.  The default policy is "authenticated".  (If one of     *)
(* them fails the ID is lost and nothing else has happened.)               *)
UploadCreate(h, who, name, path, policy, allowed) ==
    LET file == IF files[path] = NoFile THEN nextId ELSE files[path] IN
    /\ who \in Authenticated
    /\ nextId <= MaxUploads
    /\ nextId' = nextId + 1
    /\ dirs' = dirs \cup {nextId}
    /\ path.dir \in dirs'
    /\ files' = [files EXCEPT ![path] = file]
    /\ data' = [data EXCEPT ![file] = Empty]
    /\ place' = [place EXCEPT ![nextId] = path]
    /\ Accept(h, [Idle EXCEPT !.pc = "copy", !.id = nextId, !.file = file,
            !.row = [name |-> name, allowed |-> allowed,
                     policy |-> IF policy = Unset THEN "authenticated" ELSE policy]])
    /\ UNCHANGED rows
    /\ UNCHANGED histVars

(* Mutant of UploadChunk: the end of the body is not seen.                 *)
UploadChunk_NoEnd(h) ==
    LET x == handlers[h] IN
    /\ x.pc = "copy"
    /\ data' = [data EXCEPT ![x.file] = [k \in 1..Chunks |->
                                            IF k = x.n + 1 THEN x.id ELSE @[k]]]
    /\ handlers' = [handlers EXCEPT ![h].n = @ + 1]
    /\ UNCHANGED <<rows, dirs, files, place, nextId, requests>>
    /\ UNCHANGED histVars

(* One chunk of io.Copy, into the open file and behind the chunks that     *)
(* this handler has written, whatever else has become of the file.         *)
UploadChunk(h) ==
    LET x == handlers[h] IN
    /\ x.pc = "copy"
    /\ x.n < Chunks
    /\ data' = [data EXCEPT ![x.file][x.n + 1] = x.id]
    /\ handlers' = [handlers EXCEPT ![h].n = @ + 1]
    /\ UNCHANGED <<rows, dirs, files, place, nextId, requests>>
    /\ UNCHANGED histVars

(* Mutant of UploadCopied: the copy ends before the last chunk.            *)
UploadCopied_Early(h) ==
    /\ handlers[h].pc = "copy"
    /\ handlers[h].n + 1 >= Chunks
    /\ Goto(h, "save")
    /\ UNCHANGED <<rows, diskVars, nextId, requests>>
    /\ UNCHANGED histVars

(* The body is at its end and the file is closed.                          *)
UploadCopied(h) ==
    /\ handlers[h].pc = "copy"
    /\ handlers[h].n = Chunks
    /\ Goto(h, "save")
    /\ UNCHANGED <<rows, diskVars, nextId, requests>>
    /\ UNCHANGED histVars

(* Mutant of UploadError: an error of io.Copy is not looked at.            *)
UploadError_Ignored(h) ==
    /\ handlers[h].pc = "copy"
    /\ Goto(h, "save")
    /\ UNCHANGED <<rows, diskVars, nextId, requests>>
    /\ UNCHANGED histVars

(* The client goes away in the middle of the body, the disk is full, or    *)
(* SaveArtifact fails: 500, and what is written stays on the disk.         *)
UploadError(h) ==
    /\ handlers[h].pc \in {"copy", "save"}
    /\ Return(h)
    /\ UNCHANGED <<rows, diskVars, nextId, requests>>
    /\ UNCHANGED histVars

(* The row is saved.  The client may be gone before it hears of it, and an *)
(* agent whose upload step is then run again uploads a second artifact.    *)
UploadSave(h) ==
    LET i == handlers[h].id IN
    /\ handlers[h].pc = "save"
    /\ SaveArtifact(i, handlers[h].row)
    /\ created' \in {created, created \cup {i}}
    /\ Return(h)
    /\ UNCHANGED <<diskVars, nextId, requests, doomed, deleted, received>>

-----------------------------------------------------------------------------
(* GET: the row by ID or else by name, the access policy, the file.        *)

(* The policy is enforced on the row that was found: go on, or 401 or 403. *)
Enforce(h, who, i) ==
    Accept(h, IF Allows(rows[i], who)
              THEN [Idle EXCEPT !.pc = "open", !.who = who, !.id = i, !.row = rows[i]]
              ELSE Idle)

(* GetArtifact.  (An ID that is not there is no name either: 404.)         *)
DownloadById(h, who, i) ==
    /\ rows[i] # NoRow
    /\ Enforce(h, who, i)
    /\ UNCHANGED <<rows, diskVars, nextId>>
    /\ UNCHANGED histVars

(* GetArtifactByName, as a name is no ID: any row of that name, since the  *)
(* query has no order.                                                     *)
DownloadByName(h, who, name) ==
    /\ \E i \in Ids :
        /\ rows[i] # NoRow
        /\ rows[i].name = name
        /\ Enforce(h, who, i)
    /\ UNCHANGED <<rows, diskVars, nextId>>
    /\ UNCHANGED histVars

(* Mutant of DownloadOpen: the name is looked up again for the file.       *)
DownloadOpen_ByName(h) ==
    /\ handlers[h].pc = "open"
    /\ \E i \in Ids, n \in 0..Chunks :
        LET file == files[place[i]] IN
        /\ rows[i] # NoRow /\ rows[i].name = handlers[h].row.name
        /\ file # NoFile
        /\ EndsAt(data[file], n)
        /\ handlers' = [handlers EXCEPT ![h].pc = "send", ![h].id = i,
                                        ![h].file = file, ![h].size = n]
    /\ UNCHANGED <<rows, diskVars, nextId, requests>>
    /\ UNCHANGED histVars

(* os.Open and ServeContent, which announces the size the file has now; an *)
(* open file can be read to its end though it is deleted.                  *)
DownloadOpen(h) ==
    LET file == files[place[handlers[h].id]] IN
    /\ handlers[h].pc = "open"
    /\ \/ file = NoFile /\ Return(h)
       \/ /\ file # NoFile
          /\ \E n \in 0..Chunks :
                /\ EndsAt(data[file], n)
                /\ handlers' = [handlers EXCEPT ![h].pc = "send", ![h].file = file,
                                                ![h].size = n]
    /\ UNCHANGED <<rows, diskVars, nextId, requests>>
    /\ UNCHANGED histVars

(* One chunk of the file goes to the client.                               *)
DownloadChunk(h) ==
    LET x == handlers[h] IN
    /\ x.pc = "send"
    /\ x.n < x.size
    /\ \E k \in (x.n + 1)..Chunks : data[x.file][k] # Hole
    /\ handlers' = [handlers EXCEPT ![h].n = @ + 1,
                                    ![h].body[x.n + 1] = data[x.file][x.n + 1]]
    /\ UNCHANGED <<rows, diskVars, nextId, requests>>
    /\ UNCHANGED histVars

(* The client has read as much as was announced: the agent's step is done. *)
DownloadSend(h) ==
    LET x == handlers[h] IN
    /\ x.pc = "send"
    /\ x.n = x.size
    /\ received' = {[who |-> x.who, id |-> x.id, body |-> x.body]}
    /\ Return(h)
    /\ UNCHANGED <<rows, diskVars, nextId, requests, created, doomed, deleted, permitted>>

(* The connection breaks, the agent's client gives up after 10 minutes, or *)
(* the file has been cut short since: the agent's io.Copy returns an error *)
(* and its step fails.                                                     *)
DownloadError(h) ==
    /\ handlers[h].pc = "send"
    /\ Return(h)
    /\ UNCHANGED <<rows, diskVars, nextId, requests>>
    /\ UNCHANGED histVars

-----------------------------------------------------------------------------
(* PATCH: the row is read, changed and saved as a whole.                   *)

(* A parameter that is left out leaves its column as it is.                *)
Patched(row, policy, allowed) ==
    [row EXCEPT !.policy  = IF policy = Unset THEN @ ELSE policy,
                !.allowed = IF allowed = Unset THEN @ ELSE allowed]

(* Mutant of PatchGet: an artifact that is not there any more is created.  *)
PatchGet_Upsert(h, who, i, policy, allowed) ==
    /\ who \in Authenticated
    /\ i < nextId
    /\ \E name \in Names :
        LET row == IF rows[i] = NoRow
                   THEN [name |-> name, policy |-> "authenticated", allowed |-> {}]
                   ELSE rows[i]
        IN  Accept(h, [Idle EXCEPT !.pc = "patch", !.id = i,
                                   !.row = Patched(row, policy, allowed)])
    /\ UNCHANGED <<rows, diskVars, nextId>>
    /\ UNCHANGED histVars

PatchGet(h, who, i, policy, allowed) ==
    /\ who \in Authenticated
    /\ rows[i] # NoRow
    /\ Accept(h, [Idle EXCEPT !.pc = "patch", !.id = i,
                              !.row = Patched(rows[i], policy, allowed)])
    /\ UNCHANGED <<rows, diskVars, nextId>>
    /\ UNCHANGED histVars

PatchSave(h) ==
    /\ handlers[h].pc = "patch"
    /\ SaveArtifact(handlers[h].id, handlers[h].row)
    /\ Return(h)
    /\ UNCHANGED <<diskVars, nextId, requests, created, doomed, deleted, received>>

-----------------------------------------------------------------------------
(* DELETE: the row is looked up, the directory removed, the row deleted.   *)

DeleteGet(h, who, i) ==
    /\ who \in Authenticated
    /\ rows[i] # NoRow
    /\ Accept(h, [Idle EXCEPT !.pc = "remove", !.id = i])
    /\ doomed' = doomed \cup {i}
    /\ UNCHANGED <<rows, diskVars, nextId, created, deleted, permitted, received>>

(* RemoveAll of the artifact's directory, with whatever files are in it;   *)
(* an error (a file is open on Windows) is not looked at.                  *)
DeleteFiles(h) ==
    LET i == handlers[h].id IN
    /\ handlers[h].pc = "remove"
    /\ \/ /\ dirs' = dirs \ {i}
          /\ files' = [p \in Paths |-> IF p.dir = i THEN NoFile ELSE files[p]]
       \/ UNCHANGED <<dirs, files>>
    /\ Goto(h, "delete")
    /\ UNCHANGED <<rows, data, place, nextId, requests>>
    /\ UNCHANGED histVars

DeleteRow(h) ==
    LET i == handlers[h].id IN
    /\ handlers[h].pc = "delete"
    /\ rows' = [rows EXCEPT ![i] = NoRow]
    /\ deleted' = deleted \cup {i}
    /\ Return(h)
    /\ UNCHANGED <<diskVars, nextId, requests, created, doomed, permitted, received>>

(* SaveArtifact of a PATCH or DeleteArtifact fails: 500.                   *)
StatementError(h) ==
    /\ handlers[h].pc \in {"patch", "delete"}
    /\ Return(h)
    /\ UNCHANGED <<rows, diskVars, nextId, requests>>
    /\ UNCHANGED histVars

-----------------------------------------------------------------------------
(* The server process ends and is started again: files and rows survive,   *)
(* every request is gone.                                                  *)
ServerRestart ==
    /\ \E h \in Handlers : handlers[h] # Idle
    /\ handlers' = [h \in Handlers |-> Idle]
    /\ UNCHANGED <<rows, diskVars, nextId, requests>>
    /\ UNCHANGED histVars

Upload(h) ==
    \/ \E who \in Callers, n \in Names, f \in Paths, p \in Policies \cup {Unset},
          a \in SUBSET Agents : UploadCreate(h, who, n, f, p, a)
    \/ UploadChunk(h)
    \/ UploadCopied(h)
    \/ UploadError(h)
    \/ UploadSave(h)

Download(h) ==
    \/ \E who \in Callers :
        \/ \E i \in Ids : DownloadById(h, who, i)
        \/ \E n \in Names : DownloadByName(h, who, n)
    \/ DownloadOpen(h)
    \/ DownloadChunk(h)
    \/ DownloadSend(h)
    \/ DownloadError(h)

Patch(h) ==
    \/ \E who \in Callers, i \in Ids, p \in Policies \cup {Unset},
          a \in (SUBSET Agents) \cup {Unset} : PatchGet(h, who, i, p, a)
    \/ PatchSave(h)

Delete(h) ==
    \/ \E who \in Callers, i \in Ids : DeleteGet(h, who, i)
    \/ DeleteFiles(h)
    \/ DeleteRow(h)

Next ==
    \/ \E h \in Handlers : Upload(h) \/ Download(h) \/ Patch(h) \/ Delete(h)
                            \/ StatementError(h)
    \/ ServerRestart

Spec == Init /\ [][Next]_vars

-----------------------------------------------------------------------------
(* Correctness.                                                            *)

(* No other upload has been written to the path of upload i.               *)
Alone(i) == \A j \in Ids : place[j] = place[i] => j = i

(* A download that succeeds gave the client nothing but what was uploaded  *)
(* to the path of the artifact; and all of the body, if no other upload    *)
(* has been written there.  This though uploads break off, artifacts are   *)
(* patched and deleted and the server restarts while it goes on: the row   *)
(* is only saved once the file is closed, and an upload that broke off has *)
(* no row (artifacts.go:144-173; runDownloadArtifact, executor.go:231).    *)
DownloadExact ==
    \A d \in received :
        /\ \A k \in 1..Chunks : d.body[k] # Hole => place[d.body[k]] = place[d.id]
        /\ Alone(d.id) => Whole(d.body, d.id)

(* Nobody gets an artifact that no row of it has ever given him access to: *)
(* the decision and the file belong to one row, also where a name stands   *)
(* for several artifacts or the row changes meanwhile (artifacts.go:67-93).*)
AccessRespected == \A d \in received : <<d.id, d.who>> \in permitted

(* An upload answered with 201 stays: unless a DELETE of the artifact has  *)
(* found it, its row is there; and the file of a row is there and is the   *)
(* whole body, unless another upload was written to its path or a DELETE   *)
(* has found the artifact whose directory it lies in.  Patches, failed     *)
(* statements, restarts and uploads that stay in their own directory do    *)
(* not change that (artifacts.go:131-147, 237: files go before the row).   *)
UploadKept ==
    \A i \in Ids \ doomed :
        /\ i \in created => rows[i] # NoRow
        /\ (rows[i] # NoRow /\ Alone(i) /\ place[i].dir \notin doomed) =>
                files[place[i]] = i /\ Whole(data[i], i)

(* The artifact is deleted and nobody holds a copy of its row to save.     *)
Gone(i) ==
    /\ i \in deleted
    /\ rows[i] = NoRow
    /\ \A h \in Handlers : ~(handlers[h].pc = "patch" /\ handlers[h].id = i)

(* A deleted artifact comes back only through a PATCH that read its row    *)
(* before it was deleted (artifacts.go:188 and 214); once none is under    *)
(* way it is gone for good.                                                *)
GoneForGood == [][\A i \in Ids : Gone(i) => Gone(i)']_vars
=============================================================================
