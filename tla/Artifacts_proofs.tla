-------------------------- MODULE Artifacts_proofs --------------------------
(***************************************************************************)
(* Proofs about Artifacts, for any number of requests, handlers, artifacts *)
(* and chunks, and for any file names.                                     *)
(***************************************************************************)
EXTENDS Artifacts, TLAPS

(* The IDs drawn so far.                                                   *)
Drawn == {i \in Ids : i < nextId}

(* Every chunk of a content comes from an upload to the path of upload i.  *)
From(content, i) ==
    \A k \in 1..Chunks : content[k] # Hole =>
        content[k] \in Drawn /\ place[content[k]] = place[i]

(* The file of upload i is the whole body, unless the path is shared.      *)
Done(i) == Alone(i) => Whole(data[i], i)

(* The file of upload i is where it was put, unless a DELETE has found the *)
(* artifact whose directory that is.                                       *)
Kept(i) ==
    \/ files[place[i]] = i
    \/ files[place[i]] = NoFile /\ place[i].dir \in doomed

(* Access that a row gives is recorded in `permitted`.                     *)
Recorded(i, row) == \A w \in Callers : Allows(row, w) => <<i, w>> \in permitted

(* What is true of handler x in each of its states.                        *)
HandlerSound(x) ==
    /\ x.pc # "idle" => x.id \in Drawn
    /\ x.pc \in {"copy", "save"} =>
        x.row \in Artifact /\ rows[x.id] = NoRow /\ x.id \notin deleted
    /\ x.pc \in {"copy", "send"} => x.file \in Drawn /\ place[x.file] = place[x.id]
    /\ x.pc = "copy" /\ Alone(x.id) =>
        \A k \in 1..Chunks : k <= x.n => data[x.id][k] = x.id
    /\ x.pc \in {"save", "open", "send", "patch"} => Done(x.id)
    /\ x.pc = "patch" => x.row \in Artifact
    /\ x.pc \in {"remove", "delete"} => x.id \in doomed
    /\ x.pc \in {"open", "send"} => <<x.id, x.who>> \in permitted
    /\ x.pc = "open" => x.n = 0 /\ x.body = Empty
    /\ x.pc = "send" =>
        /\ From(x.body, x.id)
        /\ Alone(x.id) => /\ x.size = Chunks
                          /\ \A k \in 1..Chunks : k <= x.n => x.body[k] = x.id

(* The ID of an upload in progress is known to its handler alone.          *)
OwnUpload ==
    \A g, h \in Handlers :
        handlers[h].pc \in {"copy", "save"} /\ handlers[g].pc # "idle" /\ g # h
            => handlers[g].id # handlers[h].id

HandlerInv == \A h \in Handlers : HandlerSound(handlers[h])

(* A path leads to a file that was made there, a file holds what was       *)
(* uploaded to its path, and the file of an upload that has its path for   *)
(* itself stays.                                                           *)
DiskInv ==
    /\ \A i \in Ids : IF i \in Drawn THEN place[i] \in Paths ELSE place[i] = NoPath
    /\ \A p \in Paths : files[p] # NoFile => files[p] \in Drawn /\ place[files[p]] = p
    /\ \A f \in Ids : From(data[f], f)
    /\ \A i \in Drawn : Alone(i) => Kept(i)

RowInv ==
    \A i \in Ids : rows[i] # NoRow => i \in Drawn /\ Done(i) /\ Recorded(i, rows[i])

(* What the client of a download was given.                                *)
ReceiptSound(d) ==
    /\ d.id \in Drawn
    /\ From(d.body, d.id)
    /\ Alone(d.id) => Whole(d.body, d.id)
    /\ <<d.id, d.who>> \in permitted

HistoryInv ==
    /\ \A i \in created : rows[i] # NoRow \/ i \in doomed
    /\ \A i \in deleted : i \in Drawn
    /\ \A d \in received : ReceiptSound(d)

IndInv == TypeOK /\ HandlerInv /\ OwnUpload /\ DiskInv /\ RowInv /\ HistoryInv

-----------------------------------------------------------------------------
(* What a step of one handler does to the others, the disk and the store.  *)

(* The rest of the handlers stay as they are.                              *)
OthersKept(h) == \A g \in Handlers \ {h} : handlers'[g] = handlers[g]

(* Uploads keep their places, and one that has its path for itself keeps   *)
(* the chunks that are written.                                            *)
DiskGrows ==
    \A i \in Drawn :
        /\ place'[i] = place[i]
        /\ Alone(i)' => Alone(i) /\ \A k \in 1..Chunks : data[i][k] = i => data'[i][k] = i

(* At most the row of artifact i is touched.                               *)
Touches(i) ==
    /\ Drawn \subseteq Drawn'
    /\ permitted \subseteq permitted'
    /\ doomed \subseteq doomed'
    /\ DiskGrows
    /\ \A j \in Ids \ {i} : rows'[j] = rows[j] /\ (j \in deleted' => j \in deleted)

(* Handler h touches artifacts of its own: that of its request or a new    *)
(* one.                                                                    *)
MayTouch(h, i) ==
    \/ i \notin Drawn
    \/ handlers[h].pc # "idle" /\ i = handlers[h].id

(* Handler h is done, keeps its artifact, takes one that has a row, or a   *)
(* new one.                                                                *)
TakesId(h) ==
    \/ handlers'[h].pc = "idle"
    \/ /\ handlers[h].pc # "idle"
       /\ handlers'[h].id = handlers[h].id
       /\ handlers'[h].pc \in {"copy", "save"} => handlers[h].pc \in {"copy", "save"}
    \/ /\ handlers'[h].pc \notin {"copy", "save"}
       /\ handlers'[h].id \in Ids
       /\ rows[handlers'[h].id] # NoRow
    \/ handlers'[h].id \notin Drawn

(* What was true of the chunks of an upload stays true.                    *)
LEMMA ClaimsStay ==
    ASSUME TypeOK, Drawn \subseteq Drawn', DiskGrows, NEW i \in Drawn
    PROVE  /\ \A content : From(content, i) => From(content, i)'
           /\ Done(i) => Done(i)'
<1>1. ASSUME NEW content, From(content, i) PROVE From(content, i)'
  BY <1>1 DEF From, DiskGrows
<1>2. ASSUME Done(i), Alone(i)' PROVE Whole(data[i], i)'
  BY <1>2 DEF Done, DiskGrows, Whole
<1> QED
  BY <1>1, <1>2 DEF Done

(* Other handlers stay sound: an upload in progress is not touched by any  *)
(* handler but its own, and what the others rely on only grows.            *)
LEMMA OthersStaySound ==
    ASSUME IndInv, TypeOK', NEW h \in Handlers, OthersKept(h),
           NEW i, Touches(i), MayTouch(h, i)
    PROVE  \A g \in Handlers \ {h} : HandlerSound(handlers[g])'
<1> SUFFICES ASSUME NEW g \in Handlers \ {h} PROVE HandlerSound(handlers[g])'
  OBVIOUS
<1>1. PICK x \in Handler : x = handlers[g] /\ x = handlers'[g] /\ HandlerSound(x)
  BY DEF OthersKept, IndInv, TypeOK, HandlerInv
<1>2. CASE x.pc = "idle"
  BY <1>1, <1>2 DEF HandlerSound
<1>3. CASE x.pc # "idle"
  <2>1. x.id \in Drawn /\ x.id \in Ids /\ x.id \in Drawn'
    BY <1>1, <1>3 DEF HandlerSound, Touches, Drawn
  <2>2. x.pc \in {"copy", "save"} => x.id # i
    BY <1>1, <2>1 DEF MayTouch, IndInv, OwnUpload
  <2>3. x.pc \in {"copy", "save"} =>
          rows'[x.id] = rows[x.id] /\ (x.id \in deleted' => x.id \in deleted)
    BY <2>1, <2>2 DEF Touches
  <2>4. /\ \A content : From(content, x.id) => From(content, x.id)'
        /\ Done(x.id) => Done(x.id)'
    BY <2>1, ClaimsStay DEF Touches, IndInv
  <2>5. /\ Alone(x.id)' => Alone(x.id)
        /\ Alone(x.id)' => \A k \in 1..Chunks : data[x.id][k] = x.id => data'[x.id][k] = x.id
        /\ place'[x.id] = place[x.id]
    BY <2>1 DEF Touches, DiskGrows
  <2>6. x.file \in Drawn => x.file \in Drawn' /\ place'[x.file] = place[x.file]
    BY DEF Touches, DiskGrows
  <2>7. doomed \subseteq doomed' /\ permitted \subseteq permitted'
    BY DEF Touches
  <2>8. HandlerSound(x)'
    BY <1>1, <1>3, <2>1, <2>3, <2>4, <2>5, <2>6, <2>7 DEF HandlerSound
  <2> QED
    BY <1>1, <2>8
<1> QED
  BY <1>2, <1>3

(* It is enough to look at the handler that takes the step, at the disk,   *)
(* at the row that is touched, and at the history.                         *)
LEMMA StepPreserves ==
    ASSUME IndInv, TypeOK', NEW h \in Handlers, OthersKept(h),
           NEW i, Touches(i), MayTouch(h, i), TakesId(h),
           HandlerSound(handlers[h])', DiskInv',
           i \in Ids /\ rows'[i] # NoRow =>
                i \in Drawn' /\ Done(i)' /\ Recorded(i, rows[i])',
           HistoryInv'
    PROVE  IndInv'
<1>1. HandlerInv'
  BY OthersStaySound DEF HandlerInv
<1>3. OwnUpload'
  <2> SUFFICES ASSUME NEW f \in Handlers, NEW g \in Handlers,
                      handlers'[g].pc \in {"copy", "save"}, handlers'[f].pc # "idle", f # g
               PROVE  handlers'[f].id # handlers'[g].id
    BY DEF OwnUpload
  <2>1. CASE f # h /\ g # h
    BY <2>1 DEF OthersKept, IndInv, OwnUpload
  <2>2. \A e \in Handlers : handlers[e].pc # "idle" => handlers[e].id \in Drawn
    BY DEF IndInv, HandlerInv, HandlerSound
  <2>3. \A e \in Handlers : handlers[e].pc \in {"copy", "save"} => rows[handlers[e].id] = NoRow
    BY DEF IndInv, HandlerInv, HandlerSound
  <2>4. CASE f = h
    <3>1. handlers'[g] = handlers[g]
      BY <2>4 DEF OthersKept
    <3>2. handlers[g].id \in Drawn /\ rows[handlers[g].id] = NoRow
      BY <3>1, <2>2, <2>3
    <3>3. CASE handlers[h].pc # "idle" /\ handlers'[h].id = handlers[h].id
      BY <2>4, <3>1, <3>3 DEF IndInv, OwnUpload
    <3>4. CASE rows[handlers'[h].id] # NoRow
      BY <2>4, <3>1, <3>2, <3>4
    <3>5. CASE handlers'[h].id \notin Drawn
      BY <2>4, <3>1, <3>2, <3>5
    <3> QED
      BY <2>4, <3>3, <3>4, <3>5 DEF TakesId
  <2>5. CASE g = h
    <3>1. handlers'[f] = handlers[f]
      BY <2>5 DEF OthersKept
    <3>2. CASE /\ handlers[h].pc # "idle"
               /\ handlers'[h].id = handlers[h].id
               /\ handlers'[h].pc \in {"copy", "save"} => handlers[h].pc \in {"copy", "save"}
      BY <2>5, <3>1, <3>2 DEF IndInv, OwnUpload
    <3>3. CASE handlers'[h].id \notin Drawn
      BY <2>2, <2>5, <3>1, <3>3
    <3> QED
      BY <2>5, <3>2, <3>3 DEF TakesId
  <2> QED
    BY <2>1, <2>4, <2>5
<1>4. RowInv'
  <2> SUFFICES ASSUME NEW j \in Ids, rows'[j] # NoRow
               PROVE  j \in Drawn' /\ Done(j)' /\ Recorded(j, rows[j])'
    BY DEF RowInv
  <2>1. CASE j = i
    BY <2>1
  <2>2. CASE j # i
    <3>1. rows'[j] = rows[j] /\ j \in Drawn /\ Done(j) /\ Recorded(j, rows[j])
      BY <2>2 DEF Touches, IndInv, RowInv
    <3>2. Recorded(j, rows[j])'
      BY <3>1 DEF Touches, Recorded, Allows
    <3>3. Done(j)' /\ j \in Drawn'
      BY <3>1, ClaimsStay DEF Touches, IndInv
    <3> QED
      BY <3>2, <3>3
  <2> QED
    BY <2>1, <2>2
<1> QED
  BY <1>1, <1>3, <1>4 DEF IndInv

(* A step that leaves the disk alone; at most a DELETE finds an artifact.  *)
LEMMA DiskUnchanged ==
    ASSUME DiskInv, UNCHANGED <<diskVars, nextId>>, doomed \subseteq doomed'
    PROVE  DiskGrows /\ DiskInv' /\ Drawn' = Drawn
<1>1. UNCHANGED <<dirs, files, data, place, nextId>>
  BY DEF diskVars
<1>2. Drawn' = Drawn
  BY <1>1 DEF Drawn
<1>3. \A i : Alone(i)' = Alone(i)
  BY <1>1 DEF Alone
<1>4. \A i, content : From(content, i)' = From(content, i)
  BY <1>1, <1>2 DEF From
<1>5. \A i : Kept(i) => Kept(i)'
  BY <1>1 DEF Kept
<1>6. DiskGrows
  BY <1>1, <1>3 DEF DiskGrows
<1>7. \A f \in Ids : From(data[f], f)'
  BY <1>1, <1>4 DEF DiskInv
<1>8. DiskInv'
  BY <1>1, <1>2, <1>3, <1>5, <1>7 DEF DiskInv
<1> QED
  BY <1>2, <1>6, <1>8

(* What clients were told stays true.                                      *)
LEMMA HistoryStays ==
    ASSUME IndInv, Drawn \subseteq Drawn', DiskGrows, permitted \subseteq permitted',
           doomed \subseteq doomed',
           \A i \in created' : rows'[i] # NoRow \/ i \in doomed',
           \A i \in deleted' : i \in Drawn',
           \A d \in received' : d \in received \/ ReceiptSound(d)'
    PROVE  HistoryInv'
<1>1. ASSUME NEW d \in received PROVE ReceiptSound(d)'
  <2>1. ReceiptSound(d)
    BY DEF IndInv, HistoryInv
  <2>2. From(d.body, d.id)'
    BY <2>1, ClaimsStay DEF ReceiptSound, IndInv
  <2>3. Alone(d.id)' => Whole(d.body, d.id)
    BY <2>1 DEF ReceiptSound, DiskGrows
  <2> QED
    BY <2>1, <2>2, <2>3 DEF ReceiptSound, Whole
<1> QED
  BY <1>1 DEF HistoryInv

(* A step that touches nothing but the handler and the history of          *)
(* downloads and deletions under way.                                      *)
LEMMA QuietStepPreserves ==
    ASSUME IndInv, NEW h \in Handlers,
           handlers' \in [Handlers -> Handler], OthersKept(h), TakesId(h),
           HandlerSound(handlers[h])',
           UNCHANGED <<rows, diskVars, nextId>>, requests' \in 0..MaxRequests,
           UNCHANGED <<created, deleted, permitted>>,
           doomed' \in SUBSET Ids, doomed \subseteq doomed',
           received' \in SUBSET [who : Callers, id : Ids, body : Contents],
           \A d \in received' : d \in received \/ ReceiptSound(d)'
    PROVE  IndInv'
<1>1. TypeOK'
  BY DEF IndInv, TypeOK, diskVars
<1>2. DiskGrows /\ DiskInv' /\ Drawn' = Drawn
  BY DiskUnchanged DEF IndInv
<1>3. NoId \notin Ids /\ NoId \notin Drawn
  BY DEF NoId, Ids, Drawn
<1>4. Touches(NoId) /\ MayTouch(h, NoId)
  BY <1>2, <1>3 DEF Touches, MayTouch
<1>5. HistoryInv'
  <2>1. \A i \in created' : rows'[i] # NoRow \/ i \in doomed'
    BY DEF IndInv, HistoryInv
  <2>2. \A i \in deleted' : i \in Drawn'
    BY <1>2 DEF IndInv, HistoryInv
  <2> QED
    BY <1>2, <2>1, <2>2, HistoryStays
<1> QED
  BY <1>1, <1>2, <1>3, <1>4, <1>5, StepPreserves

-----------------------------------------------------------------------------
(* What the operators on handlers do.                                      *)

LEMMA IdleFacts ==
    /\ Idle \in Handler
    /\ Idle.pc = "idle" /\ Idle.n = 0 /\ Idle.body = Empty
    /\ Empty \in Contents
<1>1. Empty \in Contents
  BY DEF Empty, Contents
<1>2. 0 \in 0..Chunks
  BY ArtifactsAssumption
<1> QED
  BY <1>1, <1>2 DEF Idle, Handler, Callers

LEMMA ReturnFacts ==
    ASSUME IndInv, NEW h \in Handlers, Return(h)
    PROVE  /\ handlers' \in [Handlers -> Handler]
           /\ OthersKept(h)
           /\ TakesId(h)
           /\ HandlerSound(handlers[h])'
<1>1. handlers'[h] = Idle /\ handlers' \in [Handlers -> Handler] /\ OthersKept(h)
  BY IdleFacts DEF Return, IndInv, TypeOK, OthersKept
<1> QED
  BY <1>1, IdleFacts DEF TakesId, HandlerSound

LEMMA GotoFacts ==
    ASSUME IndInv, NEW h \in Handlers,
           NEW pc \in {"save", "delete"}, Goto(h, pc),
           handlers[h].pc \in {"copy", "remove"},
           pc = "save" => handlers[h].pc = "copy"
    PROVE  /\ handlers' \in [Handlers -> Handler]
           /\ OthersKept(h)
           /\ TakesId(h)
           /\ handlers'[h].pc = pc
           /\ handlers'[h].id = handlers[h].id
           /\ handlers'[h].row = handlers[h].row
<1> DEFINE x == [handlers[h] EXCEPT !.pc = pc]
<1>1. handlers[h] \in Handler /\ handlers' = [handlers EXCEPT ![h] = x]
  BY DEF Goto, IndInv, TypeOK
<1>2. x \in Handler /\ x.pc = pc /\ x.id = handlers[h].id /\ x.row = handlers[h].row
  BY <1>1 DEF Handler
<1>3. handlers'[h] = x /\ handlers' \in [Handlers -> Handler] /\ OthersKept(h)
  BY <1>1, <1>2 DEF IndInv, TypeOK, OthersKept
<1> HIDE DEF x
<1> QED
  BY <1>2, <1>3 DEF TakesId

LEMMA AcceptFacts ==
    ASSUME IndInv, NEW h \in Handlers, NEW x \in Handler, Accept(h, x)
    PROVE  /\ handlers[h].pc = "idle"
           /\ handlers' \in [Handlers -> Handler]
           /\ OthersKept(h)
           /\ handlers'[h] = x
           /\ requests' \in 0..MaxRequests
BY IdleFacts, ArtifactsAssumption DEF Accept, IndInv, TypeOK, OthersKept

(* A row that is replaced, and access that is recorded with it.            *)
LEMMA SaveArtifactFacts ==
    ASSUME IndInv, NEW i \in Ids, NEW row \in Artifact, SaveArtifact(i, row)
    PROVE  /\ rows' \in [Ids -> Artifact \cup {NoRow}]
           /\ rows'[i] = row /\ row # NoRow
           /\ \A j \in Ids \ {i} : rows'[j] = rows[j]
           /\ permitted' \in SUBSET (Ids \X Callers)
           /\ permitted \subseteq permitted'
           /\ Recorded(i, rows[i])'
<1>1. row # NoRow
  BY DEF Artifact, NoRow, Policies
<1>2. /\ rows' = [rows EXCEPT ![i] = row]
      /\ permitted' = permitted \cup {<<i, w>> : w \in {c \in Callers : Allows(row, c)}}
  BY DEF SaveArtifact
<1>3. rows' \in [Ids -> Artifact \cup {NoRow}] /\ rows'[i] = row
  BY <1>2 DEF IndInv, TypeOK
<1>4. permitted' \in SUBSET (Ids \X Callers)
  BY <1>2 DEF IndInv, TypeOK
<1>5. \A w \in Callers : Allows(row, w) => <<i, w>> \in permitted'
  BY <1>2
<1>6. Recorded(i, rows[i])'
  BY <1>3, <1>5 DEF Recorded, Allows
<1> QED
  BY <1>1, <1>2, <1>3, <1>4, <1>6 DEF IndInv, TypeOK

(* A handler that is busy works on an artifact whose ID has been drawn.    *)
LEMMA BusyFacts ==
    ASSUME IndInv, NEW h \in Handlers, handlers[h].pc # "idle"
    PROVE  /\ handlers[h] \in Handler
           /\ handlers[h].id \in Ids
           /\ handlers[h].id \in Drawn
           /\ HandlerSound(handlers[h])
BY DEF IndInv, TypeOK, HandlerInv, HandlerSound, Drawn

-----------------------------------------------------------------------------
(* POST.                                                                   *)

(* The new upload is emptied at its path: whatever was there is no longer  *)
(* alone, and everything else stays.                                       *)
LEMMA CreateFacts ==
    ASSUME IndInv, NEW path \in Paths, NEW file, nextId <= MaxUploads,
           file = (IF files[path] = NoFile THEN nextId ELSE files[path]),
           nextId' = nextId + 1,
           files' = [files EXCEPT ![path] = file],
           data' = [data EXCEPT ![file] = Empty],
           place' = [place EXCEPT ![nextId] = path],
           doomed' = doomed
    PROVE  /\ nextId \in Ids \ Drawn /\ nextId' \in 1..(MaxUploads + 1)
           /\ Drawn' = Drawn \cup {nextId}
           /\ file \in Drawn' /\ place'[file] = path /\ place'[nextId] = path
           /\ files' \in [Paths -> Ids \cup {NoFile}]
           /\ data' \in [Ids -> Contents]
           /\ place' \in [Ids -> Paths \cup {NoPath}]
           /\ DiskGrows
           /\ DiskInv'
<1>1. nextId \in Ids /\ nextId \notin Drawn /\ nextId' \in 1..(MaxUploads + 1)
  BY ArtifactsAssumption DEF IndInv, TypeOK, Ids, Drawn
<1>2. Drawn' = Drawn \cup {nextId}
  BY ArtifactsAssumption DEF IndInv, TypeOK, Ids, Drawn
<1>3. files[path] # NoFile => files[path] \in Drawn /\ place[files[path]] = path
  BY DEF IndInv, DiskInv
<1>4. file \in Drawn' /\ file \in Ids
  BY <1>1, <1>2, <1>3 DEF Drawn
<1>5. /\ place' \in [Ids -> Paths \cup {NoPath}]
      /\ place'[nextId] = path
      /\ \A j \in Ids \ {nextId} : place'[j] = place[j]
  BY <1>1 DEF IndInv, TypeOK
<1>6. /\ files' \in [Paths -> Ids \cup {NoFile}]
      /\ files'[path] = file
      /\ \A p \in Paths \ {path} : files'[p] = files[p]
  BY <1>4 DEF IndInv, TypeOK
<1>7. /\ data' \in [Ids -> Contents]
      /\ data'[file] = Empty
      /\ \A j \in Ids \ {file} : data'[j] = data[j]
  BY <1>4, IdleFacts DEF IndInv, TypeOK
<1>8. place'[file] = path
  BY <1>1, <1>3, <1>4, <1>5
<1>9. \A i \in Drawn : i \in Ids /\ i # nextId /\ place'[i] = place[i] /\ place[i] \in Paths
  BY <1>1, <1>5 DEF IndInv, DiskInv, Drawn
<1>10. ASSUME NEW i \in Drawn, Alone(i)' PROVE Alone(i) /\ place[i] # path /\ i # file
  <2>1. place[i] # path
    BY <1>1, <1>5, <1>9, <1>10 DEF Alone
  <2>2. i # file
    BY <1>8, <1>9, <2>1
  <2>3. ASSUME NEW j \in Ids, place[j] = place[i] PROVE j = i
    <3>1. place[nextId] = NoPath /\ NoPath \notin Paths
      BY <1>1 DEF IndInv, DiskInv, NoPath, Paths, NoId, Ids
    <3>2. j # nextId
      BY <1>9, <2>3, <3>1
    <3>3. place'[j] = place'[i]
      BY <1>5, <1>9, <2>3, <3>2
    <3> QED
      BY <1>10, <3>3 DEF Alone
  <2> QED
    BY <2>1, <2>2, <2>3 DEF Alone
<1>11. DiskGrows
  BY <1>7, <1>9, <1>10 DEF DiskGrows
<1>12. \A i \in Ids : IF i \in Drawn' THEN place'[i] \in Paths ELSE place'[i] = NoPath
  BY <1>2, <1>5, <1>9 DEF IndInv, DiskInv
<1>13. \A p \in Paths : files'[p] # NoFile => files'[p] \in Drawn' /\ place'[files'[p]] = p
  <2>1. ASSUME NEW p \in Paths, p # path, files'[p] # NoFile
        PROVE  files'[p] \in Drawn' /\ place'[files'[p]] = p
    <3>1. files'[p] = files[p] /\ files[p] \in Drawn /\ place[files[p]] = p
      BY <1>6, <2>1 DEF IndInv, DiskInv
    <3> QED
      BY <1>2, <1>9, <3>1
  <2> QED
    BY <1>4, <1>6, <1>8, <2>1
<1>14. ASSUME NEW f \in Ids PROVE From(data[f], f)'
  <2>1. CASE f = file
    BY <1>7, <2>1 DEF From, Empty
  <2>2. CASE f # file
    <3>1. data'[f] = data[f]
      BY <1>7, <2>2
    <3>2. ASSUME NEW k \in 1..Chunks, data[f][k] # Hole
          PROVE  data[f][k] \in Drawn' /\ place'[data[f][k]] = place'[f]
      <4>1. data[f][k] \in Drawn /\ place[data[f][k]] = place[f]
        BY <3>2 DEF IndInv, DiskInv, From
      <4>2. f # nextId
        <5>1. place[nextId] = NoPath /\ NoPath \notin Paths
          BY <1>1 DEF IndInv, DiskInv, NoPath, Paths, NoId, Ids
        <5> QED
          BY <1>9, <4>1, <5>1
      <4> QED
        BY <1>2, <1>5, <1>9, <4>1, <4>2
    <3> QED
      BY <3>1, <3>2 DEF From
  <2> QED
    BY <2>1, <2>2
<1>15. ASSUME NEW i \in Drawn', Alone(i)' PROVE Kept(i)'
  <2>1. CASE i = nextId
    <3>1. file = nextId
      BY <1>1, <1>3, <1>5, <1>8, <1>9, <1>15, <2>1 DEF Alone
    <3> QED
      BY <1>5, <1>6, <2>1, <3>1 DEF Kept
  <2>2. CASE i \in Drawn
    <3>1. Kept(i)
      BY <1>10, <1>15, <2>2 DEF IndInv, DiskInv
    <3>2. files'[place'[i]] = files[place[i]] /\ place'[i] = place[i]
      BY <1>6, <1>9, <1>10, <1>15, <2>2
    <3> QED
      BY <3>1, <3>2 DEF Kept
  <2> QED
    BY <1>2, <1>15, <2>1, <2>2
<1>16. DiskInv'
  BY <1>12, <1>13, <1>14, <1>15 DEF DiskInv
<1> QED
  BY <1>1, <1>2, <1>4, <1>5, <1>6, <1>7, <1>8, <1>11, <1>16

LEMMA UploadCreatePreserves ==
    ASSUME IndInv, NEW h \in Handlers, NEW who \in Callers, NEW name \in Names,
           NEW path \in Paths,
           NEW policy \in Policies \cup {Unset}, NEW allowed \in SUBSET Agents,
           UploadCreate(h, who, name, path, policy, allowed)
    PROVE  IndInv'
<1> DEFINE file == IF files[path] = NoFile THEN nextId ELSE files[path]
           row == [name |-> name, allowed |-> allowed,
                   policy |-> IF policy = Unset THEN "authenticated" ELSE policy]
           x == [Idle EXCEPT !.pc = "copy", !.id = nextId, !.file = file, !.row = row]
<1>1. /\ nextId <= MaxUploads
      /\ nextId' = nextId + 1
      /\ dirs' = dirs \cup {nextId}
      /\ files' = [files EXCEPT ![path] = file]
      /\ data' = [data EXCEPT ![file] = Empty]
      /\ place' = [place EXCEPT ![nextId] = path]
      /\ Accept(h, x)
      /\ UNCHANGED rows
      /\ UNCHANGED histVars
  BY DEF UploadCreate
<1>2. row \in Artifact
  BY DEF Artifact, Policies
<1> HIDE DEF row
<1>3. PICK f : f = file
  OBVIOUS
<1>4. /\ nextId \in Ids \ Drawn /\ nextId' \in 1..(MaxUploads + 1)
      /\ Drawn' = Drawn \cup {nextId}
      /\ f \in Drawn' /\ place'[f] = path /\ place'[nextId] = path
      /\ files' \in [Paths -> Ids \cup {NoFile}]
      /\ data' \in [Ids -> Contents]
      /\ place' \in [Ids -> Paths \cup {NoPath}]
      /\ DiskGrows
      /\ DiskInv'
  BY <1>1, <1>3, CreateFacts DEF histVars
<1>5. f \in Ids
  BY <1>4 DEF Drawn
<1>6. /\ x \in Handler /\ x.pc = "copy" /\ x.id = nextId /\ x.file = f
      /\ x.row \in Artifact /\ x.n = 0
  <2> HIDE DEF file
  <2> QED
    BY <1>2, <1>3, <1>4, <1>5, IdleFacts DEF Handler
<1> HIDE DEF x
<1>7. /\ handlers' \in [Handlers -> Handler]
      /\ OthersKept(h)
      /\ handlers'[h] = x
      /\ requests' \in 0..MaxRequests
  BY <1>1, <1>6, AcceptFacts
<1>8. TypeOK'
  <2>1. dirs' \in SUBSET Ids
    BY <1>1, <1>4 DEF IndInv, TypeOK
  <2> QED
    BY <1>1, <1>4, <1>7, <2>1 DEF IndInv, TypeOK, histVars
<1>9. rows[nextId] = NoRow /\ nextId \notin deleted
  BY <1>4 DEF IndInv, RowInv, HistoryInv
<1>10. PICK i \in Ids : i = nextId
  BY <1>4
<1>11. Touches(i) /\ MayTouch(h, i) /\ TakesId(h)
  BY <1>1, <1>4, <1>6, <1>7, <1>10 DEF Touches, MayTouch, TakesId, histVars
<1>12. HandlerSound(handlers[h])'
  <2>1. \A k \in 1..Chunks : ~(k <= 0)
    BY ArtifactsAssumption
  <2> QED
    BY <1>1, <1>4, <1>6, <1>7, <1>9, <2>1 DEF HandlerSound, histVars
<1>13. HistoryInv'
  <2>1. \A j \in deleted' : j \in Drawn'
    BY <1>1, <1>4 DEF IndInv, HistoryInv, histVars
  <2>2. \A j \in created' : rows'[j] # NoRow \/ j \in doomed'
    BY <1>1 DEF IndInv, HistoryInv, histVars
  <2> QED
    BY <1>1, <1>4, <2>1, <2>2, HistoryStays DEF histVars
<1>14. rows'[i] = NoRow
  BY <1>1, <1>9, <1>10
<1> QED
  BY <1>4, <1>7, <1>8, <1>11, <1>12, <1>13, <1>14, StepPreserves

(* A chunk of upload i is written to file f, behind n others.              *)
WriteChunk(i, f, n) ==
    LET c == [data[f] EXCEPT ![n + 1] = i] IN data' = [data EXCEPT ![f] = c]

(* One more chunk in the file of an upload: it is the upload's own, and    *)
(* the file lies at the upload's path.                                     *)
LEMMA ChunkFacts ==
    ASSUME IndInv, NEW i \in Drawn, NEW f \in Drawn, NEW n \in 0..Chunks, n < Chunks,
           place[f] = place[i], WriteChunk(i, f, n),
           UNCHANGED <<files, place, nextId, doomed>>
    PROVE  /\ data' \in [Ids -> Contents]
           /\ Drawn' = Drawn
           /\ DiskGrows
           /\ DiskInv'
           /\ Alone(i) => /\ data'[i][n + 1] = i
                          /\ \A k \in 1..Chunks : k # n + 1 => data'[i][k] = data[i][k]
<1>1. n + 1 \in 1..Chunks /\ i \in Ids /\ f \in Ids
  BY ArtifactsAssumption DEF Drawn
<1>2. Drawn' = Drawn
  BY DEF Drawn
<1>3. PICK c : c = [data[f] EXCEPT ![n + 1] = i] /\ data' = [data EXCEPT ![f] = c]
  BY DEF WriteChunk
<1>4. data[f] \in Contents
  BY <1>1 DEF IndInv, TypeOK
<1>5. c \in Contents /\ c[n + 1] = i /\ \A k \in 1..Chunks : k # n + 1 => c[k] = data[f][k]
  BY <1>1, <1>3, <1>4 DEF Contents
<1>6. data \in [Ids -> Contents] /\ data' = [data EXCEPT ![f] = c]
  BY <1>3 DEF IndInv, TypeOK
<1>7. data' \in [Ids -> Contents] /\ data'[f] = c /\ \A g \in Ids : g # f => data'[g] = data[g]
  BY <1>1, <1>5, <1>6
<1>8. \A j : Alone(j)' = Alone(j)
  BY DEF Alone
<1>9. Alone(i) => f = i
  BY <1>1 DEF Alone
<1>10. ASSUME NEW j \in Drawn, Alone(j), NEW k \in 1..Chunks, data[j][k] = j
       PROVE  data'[j][k] = j
  <2>1. j \in Ids
    BY DEF Drawn
  <2>2. j = f => j = i
    BY <1>1, <1>10 DEF Alone
  <2> QED
    BY <1>5, <1>7, <1>10, <2>1, <2>2
<1>11. DiskGrows
  BY <1>8, <1>10 DEF DiskGrows
<1>12. ASSUME NEW g \in Ids PROVE From(data[g], g)'
  <2>1. From(data[g], g)
    BY DEF IndInv, DiskInv
  <2>2. CASE g # f
    BY <1>2, <1>7, <2>1, <2>2 DEF From
  <2>3. CASE g = f
    <3>1. ASSUME NEW k \in 1..Chunks, c[k] # Hole PROVE c[k] \in Drawn /\ place[c[k]] = place[f]
      <4>1. CASE k = n + 1
        BY <1>5, <4>1
      <4>2. CASE k # n + 1
        BY <1>5, <2>1, <2>3, <3>1, <4>2 DEF From
      <4> QED
        BY <4>1, <4>2
    <3> QED
      BY <1>2, <1>7, <2>3, <3>1 DEF From
  <2> QED
    BY <2>2, <2>3
<1>13. \A j \in Drawn : Alone(j)' => Kept(j)'
  BY <1>8 DEF IndInv, DiskInv, Kept
<1>14. DiskInv'
  BY <1>2, <1>12, <1>13 DEF IndInv, DiskInv
<1> QED
  BY <1>2, <1>5, <1>7, <1>9, <1>11, <1>14

LEMMA UploadChunkPreserves ==
    ASSUME IndInv, NEW h \in Handlers, UploadChunk(h)
    PROVE  IndInv'
<1>1. /\ handlers[h].pc = "copy"
      /\ handlers[h].n < Chunks
      /\ data' = [data EXCEPT ![handlers[h].file][handlers[h].n + 1] = handlers[h].id]
      /\ handlers' = [handlers EXCEPT ![h].n = @ + 1]
      /\ UNCHANGED <<rows, dirs, files, place, nextId, requests>>
      /\ UNCHANGED histVars
  BY DEF UploadChunk
<1>2. HandlerSound(handlers[h]) /\ handlers[h] \in Handler
  BY <1>1, BusyFacts
<1>3. PICK i \in Drawn : i = handlers[h].id
  BY <1>1, <1>2 DEF HandlerSound
<1>4. PICK f \in Drawn : f = handlers[h].file /\ place[f] = place[i]
  BY <1>1, <1>2, <1>3 DEF HandlerSound
<1>5. PICK n \in 0..Chunks : n = handlers[h].n /\ n < Chunks
  BY <1>1, <1>2 DEF Handler
<1>6. /\ data' \in [Ids -> Contents]
      /\ Drawn' = Drawn
      /\ DiskGrows
      /\ DiskInv'
      /\ Alone(i) => /\ data'[i][n + 1] = i
                     /\ \A k \in 1..Chunks : k # n + 1 => data'[i][k] = data[i][k]
  <2>1. WriteChunk(i, f, n)
    BY <1>1, <1>3, <1>4, <1>5 DEF WriteChunk
  <2>2. UNCHANGED <<files, place, nextId, doomed>>
    BY <1>1 DEF histVars
  <2>3. place[f] = place[i] /\ n < Chunks
    BY <1>4, <1>5
  <2> QED
    BY <2>1, <2>2, <2>3, ChunkFacts
<1> DEFINE x == [handlers[h] EXCEPT !.n = n + 1]
<1>7. /\ x \in Handler /\ x.pc = "copy" /\ x.id = i /\ x.file = f /\ x.n = n + 1
      /\ x.row = handlers[h].row
  <2>1. n + 1 \in 0..Chunks
    BY <1>5, ArtifactsAssumption
  <2> QED
    BY <1>1, <1>2, <1>3, <1>4, <2>1 DEF Handler
<1>8. handlers' = [handlers EXCEPT ![h] = x]
  BY <1>1, <1>5
<1> HIDE DEF x
<1>9. handlers' \in [Handlers -> Handler] /\ handlers'[h] = x /\ OthersKept(h)
  BY <1>7, <1>8 DEF IndInv, TypeOK, OthersKept
<1>10. TypeOK'
  BY <1>1, <1>6, <1>9 DEF IndInv, TypeOK, histVars
<1>11. Touches(i) /\ MayTouch(h, i) /\ TakesId(h)
  BY <1>1, <1>3, <1>6, <1>7, <1>9 DEF Touches, MayTouch, TakesId, histVars
<1>12. HandlerSound(handlers[h])'
  <2>1. Alone(i)' => \A k \in 1..Chunks : k <= n + 1 => data'[i][k] = i
    <3>1. Alone(i)' => Alone(i)
      BY <1>6 DEF DiskGrows
    <3>2. Alone(i) => \A k \in 1..Chunks : k <= n => data[i][k] = i
      BY <1>1, <1>2, <1>3, <1>5 DEF HandlerSound
    <3>3. \A k \in 1..Chunks : k <= n + 1 => k <= n \/ k = n + 1
      BY <1>5
    <3>4. \A k \in 1..Chunks : k <= n => k # n + 1
      BY <1>5
    <3> QED
      BY <1>6, <3>1, <3>2, <3>3, <3>4
  <2>2. rows'[i] = NoRow /\ x.row \in Artifact /\ i \notin deleted' /\ place'[f] = place'[i]
    BY <1>1, <1>2, <1>3, <1>4, <1>7 DEF HandlerSound, histVars
  <2> QED
    BY <1>6, <1>7, <1>9, <2>1, <2>2 DEF HandlerSound
<1>13. HistoryInv'
  <2>1. \A j \in deleted' : j \in Drawn'
    BY <1>1, <1>6 DEF IndInv, HistoryInv, histVars
  <2>2. \A j \in created' : rows'[j] # NoRow \/ j \in doomed'
    BY <1>1 DEF IndInv, HistoryInv, histVars
  <2> QED
    BY <1>1, <1>6, <2>1, <2>2, HistoryStays DEF histVars
<1>14. rows'[i] = NoRow
  BY <1>1, <1>2, <1>3 DEF HandlerSound
<1> QED
  BY <1>6, <1>9, <1>10, <1>11, <1>12, <1>13, <1>14, StepPreserves

LEMMA UploadCopiedPreserves ==
    ASSUME IndInv, NEW h \in Handlers, UploadCopied(h)
    PROVE  IndInv'
<1>1. /\ handlers[h].pc = "copy"
      /\ handlers[h].n = Chunks
      /\ Goto(h, "save")
      /\ UNCHANGED <<rows, diskVars, nextId, requests>>
      /\ UNCHANGED histVars
  BY DEF UploadCopied
<1>2. /\ handlers' \in [Handlers -> Handler]
      /\ OthersKept(h)
      /\ TakesId(h)
      /\ handlers'[h].pc = "save"
      /\ handlers'[h].id = handlers[h].id
      /\ handlers'[h].row = handlers[h].row
  BY <1>1, GotoFacts
<1>3. PICK i \in Drawn : /\ i = handlers[h].id
                         /\ handlers[h].row \in Artifact
                         /\ rows[i] = NoRow /\ i \notin deleted
                         /\ Alone(i) => \A k \in 1..Chunks : k <= Chunks => data[i][k] = i
  BY <1>1, BusyFacts DEF HandlerSound
<1>4. Done(i)
  <2>1. \A k \in 1..Chunks : k <= Chunks
    BY ArtifactsAssumption
  <2> QED
    BY <1>3, <2>1 DEF Done, Whole
<1>5. Done(i)' /\ i \in Drawn'
  BY <1>1, <1>4 DEF Done, Whole, Alone, diskVars, Drawn
<1>6. HandlerSound(handlers[h])'
  BY <1>1, <1>2, <1>3, <1>5 DEF HandlerSound, histVars
<1> QED
  BY <1>1, <1>2, <1>6, QuietStepPreserves DEF histVars, IndInv, TypeOK

(* A handler gives up and leaves the rest as it is.                        *)
LEMMA GiveUpPreserves ==
    ASSUME IndInv, NEW h \in Handlers, Return(h),
           UNCHANGED <<rows, diskVars, nextId, requests>>, UNCHANGED histVars
    PROVE  IndInv'
BY ReturnFacts, QuietStepPreserves DEF histVars, IndInv, TypeOK

(* A handler saves the row of an artifact with a whole file, and returns.  *)
LEMMA SavePreserves ==
    ASSUME IndInv, NEW h \in Handlers, handlers[h].pc # "idle",
           NEW i \in Ids, i = handlers[h].id, Done(i), handlers[h].row \in Artifact,
           SaveArtifact(i, handlers[h].row), Return(h),
           created' \in {created, created \cup {i}},
           UNCHANGED <<diskVars, nextId, requests, doomed, deleted, received>>
    PROVE  IndInv'
<1>1. i \in Drawn
  BY BusyFacts
<1>2. DiskGrows /\ DiskInv' /\ Drawn' = Drawn
  BY DiskUnchanged DEF IndInv
<1>3. /\ rows' \in [Ids -> Artifact \cup {NoRow}]
      /\ rows'[i] # NoRow
      /\ \A j \in Ids \ {i} : rows'[j] = rows[j]
      /\ permitted' \in SUBSET (Ids \X Callers)
      /\ permitted \subseteq permitted'
      /\ Recorded(i, rows[i])'
  BY SaveArtifactFacts
<1>4. handlers' \in [Handlers -> Handler] /\ OthersKept(h) /\ TakesId(h)
      /\ HandlerSound(handlers[h])'
  BY ReturnFacts
<1>5. TypeOK'
  BY <1>3, <1>4 DEF IndInv, TypeOK, diskVars
<1>6. Touches(i) /\ MayTouch(h, i)
  BY <1>2, <1>3 DEF Touches, MayTouch
<1>7. Done(i)' /\ i \in Drawn'
  BY <1>1, <1>2, ClaimsStay DEF IndInv
<1>8. HistoryInv'
  <2>1. \A j \in deleted' : j \in Drawn'
    BY <1>2 DEF IndInv, HistoryInv
  <2>2. \A j \in created' : rows'[j] # NoRow \/ j \in doomed'
    BY <1>3 DEF IndInv, HistoryInv, TypeOK
  <2> QED
    BY <1>2, <1>3, <2>1, <2>2, HistoryStays
<1> QED
  BY <1>2, <1>3, <1>4, <1>5, <1>6, <1>7, <1>8, StepPreserves

LEMMA UploadSavePreserves ==
    ASSUME IndInv, NEW h \in Handlers, UploadSave(h)
    PROVE  IndInv'
<1>1. /\ handlers[h].pc = "save"
      /\ created' \in {created, created \cup {handlers[h].id}}
      /\ SaveArtifact(handlers[h].id, handlers[h].row)
      /\ Return(h)
      /\ UNCHANGED <<diskVars, nextId, requests, doomed, deleted, received>>
  BY DEF UploadSave
<1>2. handlers[h].id \in Ids /\ handlers[h].row \in Artifact /\ Done(handlers[h].id)
  BY <1>1, BusyFacts DEF HandlerSound
<1> QED
  BY <1>1, <1>2, SavePreserves

-----------------------------------------------------------------------------
(* GET.                                                                    *)

(* The policy lets a download go on only with access that is recorded.     *)
LEMMA EnforcePreserves ==
    ASSUME IndInv, NEW h \in Handlers, NEW who \in Callers, NEW i \in Ids,
           rows[i] # NoRow, Enforce(h, who, i),
           UNCHANGED <<rows, diskVars, nextId>>, UNCHANGED histVars
    PROVE  IndInv'
<1>1. rows[i] \in Artifact \cup {NoRow} /\ i \in Drawn /\ Done(i) /\ Recorded(i, rows[i])
  BY DEF IndInv, RowInv, TypeOK
<1>2. CASE Allows(rows[i], who)
  <2> DEFINE x == [Idle EXCEPT !.pc = "open", !.who = who, !.id = i, !.row = rows[i]]
  <2>1. /\ x \in Handler /\ x.pc = "open" /\ x.id = i /\ x.who = who
        /\ x.n = 0 /\ x.body = Empty
    BY <1>1, IdleFacts DEF Handler
  <2>2. Accept(h, x)
    BY <1>2 DEF Enforce
  <2> HIDE DEF x
  <2>3. /\ handlers' \in [Handlers -> Handler]
        /\ OthersKept(h)
        /\ handlers'[h] = x
        /\ requests' \in 0..MaxRequests
    BY <2>1, <2>2, AcceptFacts
  <2>4. <<i, who>> \in permitted
    BY <1>1, <1>2 DEF Recorded
  <2>5. Done(i)' /\ i \in Drawn'
    BY <1>1 DEF Done, Whole, Alone, diskVars, Drawn
  <2>6. HandlerSound(handlers[h])'
    BY <2>1, <2>3, <2>4, <2>5 DEF HandlerSound, histVars
  <2>7. TakesId(h)
    BY <2>1, <2>3 DEF TakesId
  <2> QED
    BY <2>3, <2>6, <2>7, QuietStepPreserves DEF histVars, IndInv, TypeOK
<1>3. CASE ~Allows(rows[i], who)
  <2>1. Accept(h, Idle)
    BY <1>3 DEF Enforce
  <2>2. /\ handlers' \in [Handlers -> Handler]
        /\ OthersKept(h)
        /\ handlers'[h] = Idle
        /\ requests' \in 0..MaxRequests
    BY <2>1, IdleFacts, AcceptFacts
  <2>3. HandlerSound(handlers[h])' /\ TakesId(h)
    BY <2>2, IdleFacts DEF HandlerSound, TakesId
  <2> QED
    BY <2>2, <2>3, QuietStepPreserves DEF histVars, IndInv, TypeOK
<1> QED
  BY <1>2, <1>3

(* A whole body ends at its last chunk.                                    *)
LEMMA WholeEnds ==
    ASSUME NEW content, NEW i \in Ids, Whole(content, i),
           NEW n \in 0..Chunks, EndsAt(content, n)
    PROVE  n = Chunks
<1>1. ASSUME n < Chunks PROVE FALSE
  <2>1. Chunks \in 1..Chunks /\ Chunks > n
    BY <1>1, ArtifactsAssumption
  <2>2. content[Chunks] = i /\ content[Chunks] = Hole
    BY <2>1 DEF Whole, EndsAt
  <2> QED
    BY <2>2 DEF Hole, Ids
<1> QED
  BY <1>1, ArtifactsAssumption

LEMMA DownloadOpenPreserves ==
    ASSUME IndInv, NEW h \in Handlers, DownloadOpen(h)
    PROVE  IndInv'
<1>1. /\ handlers[h].pc = "open"
      /\ UNCHANGED <<rows, diskVars, nextId, requests>>
      /\ UNCHANGED histVars
  BY DEF DownloadOpen
<1>2. CASE files[place[handlers[h].id]] = NoFile
  BY <1>1, <1>2, GiveUpPreserves DEF DownloadOpen
<1>3. CASE files[place[handlers[h].id]] # NoFile
  <2>1. /\ handlers[h] \in Handler
        /\ handlers[h].n = 0 /\ handlers[h].body = Empty
        /\ <<handlers[h].id, handlers[h].who>> \in permitted
    BY <1>1, BusyFacts DEF HandlerSound
  <2>2. PICK i \in Drawn : i = handlers[h].id /\ Done(i)
    BY <1>1, BusyFacts DEF HandlerSound
  <2>3. PICK f \in Drawn : f = files[place[i]] /\ place[f] = place[i]
    BY <1>3, <2>2 DEF IndInv, DiskInv, Drawn
  <2>4. PICK n \in 0..Chunks :
            /\ EndsAt(data[f], n)
            /\ handlers' = [handlers EXCEPT ![h].pc = "send", ![h].file = f, ![h].size = n]
    BY <1>3, <2>2, <2>3 DEF DownloadOpen
  <2> DEFINE x == [handlers[h] EXCEPT !.pc = "send", !.file = f, !.size = n]
  <2>5. /\ x \in Handler /\ x.pc = "send" /\ x.size = n /\ x.file = f
        /\ x.id = i /\ x.who = handlers[h].who /\ x.n = 0 /\ x.body = Empty
    <3>1. f \in Ids
      BY DEF Drawn
    <3> QED
      BY <2>1, <2>2, <3>1 DEF Handler
  <2>6. handlers' = [handlers EXCEPT ![h] = x]
    BY <2>4
  <2> HIDE DEF x
  <2>7. handlers' \in [Handlers -> Handler] /\ handlers'[h] = x /\ OthersKept(h)
    BY <2>5, <2>6 DEF IndInv, TypeOK, OthersKept
  <2>8. Alone(i) => n = Chunks
    <3>1. i \in Ids /\ f \in Ids
      BY DEF Drawn
    <3>2. Alone(i) => f = i /\ Whole(data[i], i)
      BY <2>2, <2>3, <3>1 DEF Alone, Done
    <3> QED
      BY <2>4, <3>1, <3>2, WholeEnds
  <2>9. Drawn' = Drawn /\ place' = place /\ Done(i)' /\ Alone(i)' = Alone(i)
    BY <1>1, <2>2 DEF Done, Whole, Alone, diskVars, Drawn
  <2>10. From(Empty, i)' /\ \A k \in 1..Chunks : ~(k <= 0)
    BY ArtifactsAssumption DEF From, Empty
  <2>11. PICK y : y = x
    OBVIOUS
  <2>12. /\ y.pc = "send" /\ y.id = i /\ y.file = f /\ y.n = 0 /\ y.size = n
         /\ y.body = Empty /\ <<y.id, y.who>> \in permitted' /\ handlers'[h] = y
    BY <1>1, <2>1, <2>2, <2>5, <2>7, <2>11 DEF histVars
  <2>13. /\ y.id \in Drawn' /\ y.file \in Drawn' /\ place'[y.file] = place'[y.id]
         /\ Done(y.id)' /\ From(y.body, y.id)'
         /\ Alone(y.id)' => /\ y.size = Chunks
                            /\ \A k \in 1..Chunks : k <= y.n => y.body[k] = y.id
    BY <2>3, <2>8, <2>9, <2>10, <2>12
  <2>14. HandlerSound(y)'
    BY <2>12, <2>13 DEF HandlerSound
  <2>15. HandlerSound(handlers[h])'
    BY <2>12, <2>14 DEF HandlerSound
  <2>16. TakesId(h)
    BY <1>1, <2>2, <2>12 DEF TakesId
  <2> QED
    BY <1>1, <2>7, <2>15, <2>16, QuietStepPreserves DEF histVars, IndInv, TypeOK
<1> QED
  BY <1>2, <1>3

LEMMA DownloadChunkPreserves ==
    ASSUME IndInv, NEW h \in Handlers, DownloadChunk(h)
    PROVE  IndInv'
<1>1. /\ handlers[h].pc = "send"
      /\ handlers[h].n < handlers[h].size
      /\ handlers' = [handlers EXCEPT ![h].n = @ + 1,
                        ![h].body[handlers[h].n + 1] = data[handlers[h].file][handlers[h].n + 1]]
      /\ UNCHANGED <<rows, diskVars, nextId, requests>>
      /\ UNCHANGED histVars
  BY DEF DownloadChunk
<1>2. handlers[h] \in Handler /\ HandlerSound(handlers[h])
  BY <1>1, BusyFacts
<1>3. PICK i \in Drawn : i = handlers[h].id
  BY <1>1, <1>2 DEF HandlerSound
<1>4. PICK f \in Drawn : f = handlers[h].file /\ place[f] = place[i]
  BY <1>1, <1>2, <1>3 DEF HandlerSound
<1>5. PICK n \in 0..Chunks : n = handlers[h].n
  BY <1>2 DEF Handler
<1>6. PICK body \in Contents : body = handlers[h].body
  BY <1>2 DEF Handler
<1>7. n + 1 \in 1..Chunks /\ n + 1 \in 0..Chunks
  <2>1. handlers[h].size \in 0..Chunks /\ n < handlers[h].size
    BY <1>1, <1>2, <1>5 DEF Handler
  <2> QED
    BY <2>1, ArtifactsAssumption
<1>8. f \in Ids /\ i \in Ids /\ data[f] \in Contents /\ data[f][n + 1] \in Ids \cup {Hole}
  <2>1. f \in Ids /\ i \in Ids
    BY DEF Drawn
  <2>2. data[f] \in Contents
    BY <2>1 DEF IndInv, TypeOK
  <2> QED
    BY <1>7, <2>1, <2>2 DEF Contents
<1>9. PICK b : b = [body EXCEPT ![n + 1] = data[f][n + 1]]
  OBVIOUS
<1>10. /\ b \in Contents /\ b[n + 1] = data[f][n + 1]
       /\ \A k \in 1..Chunks : k # n + 1 => b[k] = body[k]
  BY <1>7, <1>8, <1>9 DEF Contents
<1> DEFINE x == [handlers[h] EXCEPT !.n = n + 1, !.body = b]
<1>11. handlers' = [handlers EXCEPT ![h] = x]
  BY <1>1, <1>2, <1>4, <1>5, <1>6, <1>9 DEF Handler
<1>12. /\ x \in Handler /\ x.pc = "send" /\ x.id = i /\ x.file = f /\ x.n = n + 1
       /\ x.body = b /\ x.who = handlers[h].who /\ x.size = handlers[h].size
  BY <1>1, <1>2, <1>3, <1>4, <1>7, <1>10 DEF Handler
<1> HIDE DEF x
<1>13. handlers' \in [Handlers -> Handler] /\ handlers'[h] = x /\ OthersKept(h)
  BY <1>11, <1>12 DEF IndInv, TypeOK, OthersKept
<1>14. /\ Done(i) /\ <<i, x.who>> \in permitted /\ From(body, i)
       /\ Alone(i) => /\ x.size = Chunks
                      /\ \A k \in 1..Chunks : k <= n => body[k] = i
  BY <1>1, <1>2, <1>3, <1>5, <1>6, <1>12 DEF HandlerSound
<1>15. From(b, i)
  <2>1. From(data[f], f)
    BY <1>8 DEF IndInv, DiskInv
  <2>2. ASSUME NEW k \in 1..Chunks, b[k] # Hole PROVE b[k] \in Drawn /\ place[b[k]] = place[i]
    <3>1. CASE k = n + 1
      BY <1>4, <1>10, <2>1, <2>2, <3>1 DEF From
    <3>2. CASE k # n + 1
      BY <1>10, <1>14, <2>2, <3>2 DEF From
    <3> QED
      BY <3>1, <3>2
  <2> QED
    BY <2>2 DEF From
<1>16. Alone(i) => \A k \in 1..Chunks : k <= n + 1 => b[k] = i
  <2>1. Alone(i) => f = i /\ Whole(data[i], i)
    BY <1>4, <1>8, <1>14 DEF Alone, Done
  <2>2. \A k \in 1..Chunks : k <= n + 1 => k <= n \/ k = n + 1
    BY <1>5
  <2>3. Alone(i) => b[n + 1] = i
    BY <1>7, <1>10, <2>1 DEF Whole
  <2> QED
    BY <1>10, <1>14, <2>2, <2>3
<1>17. /\ Drawn' = Drawn /\ place' = place /\ permitted' = permitted
       /\ Done(i)' /\ Alone(i)' = Alone(i) /\ From(b, i)'
  BY <1>1, <1>14, <1>15 DEF Done, Whole, Alone, From, diskVars, Drawn, histVars
<1>18. place'[f] = place'[i]
  BY <1>4, <1>17
<1>19. PICK y : y = x
  OBVIOUS
<1>20. /\ y.pc = "send" /\ y.id = i /\ y.file = f /\ y.n = n + 1 /\ y.body = b
       /\ <<y.id, y.who>> \in permitted' /\ handlers'[h] = y
       /\ Alone(i) => y.size = Chunks
  BY <1>12, <1>13, <1>14, <1>17, <1>19
<1>21. /\ y.id \in Drawn' /\ y.file \in Drawn' /\ place'[y.file] = place'[y.id]
       /\ Done(y.id)' /\ From(y.body, y.id)'
       /\ Alone(y.id)' => /\ y.size = Chunks
                          /\ \A k \in 1..Chunks : k <= y.n => y.body[k] = y.id
  BY <1>16, <1>17, <1>18, <1>20
<1>22. HandlerSound(y)'
  BY <1>20, <1>21 DEF HandlerSound
<1>23. HandlerSound(handlers[h])'
  BY <1>20, <1>22 DEF HandlerSound
<1>24. TakesId(h)
  BY <1>1, <1>3, <1>20 DEF TakesId
<1> QED
  BY <1>1, <1>13, <1>23, <1>24, QuietStepPreserves DEF histVars, IndInv, TypeOK

LEMMA DownloadSendPreserves ==
    ASSUME IndInv, NEW h \in Handlers, DownloadSend(h)
    PROVE  IndInv'
<1>1. /\ handlers[h].pc = "send"
      /\ handlers[h].n = handlers[h].size
      /\ received' = {[who |-> handlers[h].who, id |-> handlers[h].id,
                       body |-> handlers[h].body]}
      /\ Return(h)
      /\ UNCHANGED <<rows, diskVars, nextId, requests, created, doomed, deleted, permitted>>
  BY DEF DownloadSend
<1>2. PICK x \in Handler : /\ x = handlers[h] /\ x.id \in Ids /\ x.id \in Drawn
                           /\ HandlerSound(x)
  BY <1>1, BusyFacts
<1>3. /\ received' = {[who |-> x.who, id |-> x.id, body |-> x.body]}
      /\ received' \in SUBSET [who : Callers, id : Ids, body : Contents]
  BY <1>1, <1>2 DEF Handler
<1>4. Alone(x.id) => Whole(x.body, x.id)
  <2>1. \A k \in 1..Chunks : k <= Chunks
    BY ArtifactsAssumption
  <2> QED
    BY <1>1, <1>2, <2>1 DEF HandlerSound, Whole
<1>5. x.id \in Drawn /\ From(x.body, x.id) /\ <<x.id, x.who>> \in permitted
  BY <1>1, <1>2 DEF HandlerSound
<1>6. /\ Drawn' = Drawn /\ Alone(x.id)' = Alone(x.id)
      /\ From(x.body, x.id)' /\ permitted' = permitted
  BY <1>1, <1>5 DEF From, Drawn, Alone, diskVars
<1>7. \A d \in received' : ReceiptSound(d)'
  BY <1>3, <1>4, <1>5, <1>6 DEF ReceiptSound, Whole
<1> QED
  BY <1>1, <1>3, <1>7, ReturnFacts, QuietStepPreserves DEF IndInv, TypeOK

-----------------------------------------------------------------------------
(* PATCH.                                                                  *)

LEMMA PatchGetPreserves ==
    ASSUME IndInv, NEW h \in Handlers, NEW who \in Callers, NEW i \in Ids,
           NEW policy \in Policies \cup {Unset}, NEW allowed \in (SUBSET Agents) \cup {Unset},
           PatchGet(h, who, i, policy, allowed)
    PROVE  IndInv'
<1> DEFINE row == Patched(rows[i], policy, allowed)
           x == [Idle EXCEPT !.pc = "patch", !.id = i, !.row = row]
<1>1. rows[i] \in Artifact /\ i \in Drawn /\ Done(i) /\ rows[i] # NoRow
  BY DEF PatchGet, IndInv, RowInv, TypeOK
<1>2. row \in Artifact
  BY <1>1 DEF Patched, Artifact
<1>3. x \in Handler /\ x.pc = "patch" /\ x.id = i /\ x.row \in Artifact
  <2> HIDE DEF row
  <2> QED
    BY <1>2, IdleFacts DEF Handler
<1>4. Accept(h, x)
  BY DEF PatchGet
<1> HIDE DEF x, row
<1>5. /\ handlers' \in [Handlers -> Handler]
      /\ OthersKept(h)
      /\ handlers'[h] = x
      /\ requests' \in 0..MaxRequests
  BY <1>3, <1>4, AcceptFacts
<1>6. UNCHANGED <<rows, diskVars, nextId>> /\ UNCHANGED histVars
  BY DEF PatchGet
<1>7. Done(i)' /\ i \in Drawn'
  BY <1>1, <1>6 DEF Done, Whole, Alone, diskVars, Drawn
<1>8. HandlerSound(handlers[h])' /\ TakesId(h)
  BY <1>1, <1>3, <1>5, <1>7 DEF HandlerSound, TakesId
<1> QED
  BY <1>5, <1>6, <1>8, QuietStepPreserves DEF histVars, IndInv, TypeOK

LEMMA PatchSavePreserves ==
    ASSUME IndInv, NEW h \in Handlers, PatchSave(h)
    PROVE  IndInv'
<1>1. /\ handlers[h].pc = "patch"
      /\ SaveArtifact(handlers[h].id, handlers[h].row)
      /\ Return(h)
      /\ UNCHANGED <<diskVars, nextId, requests, created, doomed, deleted, received>>
  BY DEF PatchSave
<1>2. handlers[h].id \in Ids /\ handlers[h].row \in Artifact /\ Done(handlers[h].id)
  BY <1>1, BusyFacts DEF HandlerSound
<1> QED
  BY <1>1, <1>2, SavePreserves

-----------------------------------------------------------------------------
(* DELETE.                                                                 *)

LEMMA DeleteGetPreserves ==
    ASSUME IndInv, NEW h \in Handlers, NEW who \in Callers, NEW i \in Ids,
           DeleteGet(h, who, i)
    PROVE  IndInv'
<1> DEFINE x == [Idle EXCEPT !.pc = "remove", !.id = i]
<1>1. i \in Drawn /\ rows[i] # NoRow
  BY DEF DeleteGet, IndInv, RowInv
<1>2. x \in Handler /\ x.pc = "remove" /\ x.id = i
  BY IdleFacts DEF Handler
<1>3. Accept(h, x)
  BY DEF DeleteGet
<1> HIDE DEF x
<1>4. /\ handlers' \in [Handlers -> Handler]
      /\ OthersKept(h)
      /\ handlers'[h] = x
      /\ requests' \in 0..MaxRequests
  BY <1>2, <1>3, AcceptFacts
<1>5. /\ doomed' = doomed \cup {i}
      /\ UNCHANGED <<rows, diskVars, nextId, created, deleted, permitted, received>>
  BY DEF DeleteGet
<1>6. i \in Drawn'
  BY <1>1, <1>5 DEF Drawn
<1>7. HandlerSound(handlers[h])' /\ TakesId(h)
  BY <1>1, <1>2, <1>4, <1>5, <1>6 DEF HandlerSound, TakesId
<1> QED
  BY <1>4, <1>5, <1>7, QuietStepPreserves DEF IndInv, TypeOK

LEMMA DeleteFilesPreserves ==
    ASSUME IndInv, NEW h \in Handlers, DeleteFiles(h)
    PROVE  IndInv'
<1>1. /\ handlers[h].pc = "remove"
      /\ Goto(h, "delete")
      /\ UNCHANGED <<rows, data, place, nextId, requests>>
      /\ UNCHANGED histVars
  BY DEF DeleteFiles
<1>2. PICK i \in Ids : i = handlers[h].id /\ i \in Drawn /\ i \in doomed
  BY <1>1, BusyFacts DEF HandlerSound
<1>3. /\ handlers' \in [Handlers -> Handler]
      /\ OthersKept(h)
      /\ TakesId(h)
      /\ handlers'[h].pc = "delete"
      /\ handlers'[h].id = i
  BY <1>1, <1>2, GotoFacts
<1>4. /\ dirs' \in SUBSET Ids
      /\ files' \in [Paths -> Ids \cup {NoFile}]
      /\ \A p \in Paths : files'[p] = files[p] \/ (files'[p] = NoFile /\ p.dir = i)
  <2>1. CASE UNCHANGED <<dirs, files>>
    BY <2>1 DEF IndInv, TypeOK
  <2>2. CASE /\ dirs' = dirs \ {i}
             /\ files' = [p \in Paths |-> IF p.dir = i THEN NoFile ELSE files[p]]
    BY <2>2 DEF IndInv, TypeOK
  <2> QED
    BY <1>2, <2>1, <2>2 DEF DeleteFiles
<1>5. TypeOK'
  BY <1>1, <1>3, <1>4 DEF IndInv, TypeOK, histVars
<1>6. Drawn' = Drawn /\ \A j : Alone(j)' = Alone(j)
  BY <1>1 DEF Drawn, Alone
<1>7. DiskGrows
  BY <1>1, <1>6 DEF DiskGrows
<1>8. DiskInv'
  <2>1. \A f \in Ids : From(data[f], f)'
    BY <1>1, <1>6 DEF IndInv, DiskInv, From
  <2>2. \A p \in Paths : files'[p] # NoFile => files'[p] \in Drawn' /\ place'[files'[p]] = p
    BY <1>1, <1>4, <1>6 DEF IndInv, DiskInv
  <2>3. ASSUME NEW j \in Drawn', Alone(j)' PROVE Kept(j)'
    <3>1. Kept(j) /\ place[j] \in Paths
      BY <1>6, <2>3 DEF IndInv, DiskInv, Drawn
    <3> QED
      BY <1>1, <1>2, <1>4, <3>1 DEF Kept, histVars
  <2> QED
    BY <1>1, <1>6, <2>1, <2>2, <2>3 DEF IndInv, DiskInv
<1>9. Touches(i) /\ MayTouch(h, i)
  BY <1>1, <1>2, <1>6, <1>7 DEF Touches, MayTouch, histVars
<1>10. HandlerSound(handlers[h])'
  BY <1>1, <1>2, <1>3, <1>6 DEF HandlerSound, histVars
<1>11. rows'[i] # NoRow => i \in Drawn' /\ Done(i)' /\ Recorded(i, rows[i])'
  BY <1>1, <1>6 DEF IndInv, RowInv, Done, Whole, Recorded, Allows, histVars
<1>12. HistoryInv'
  <2>1. \A j \in deleted' : j \in Drawn'
    BY <1>1, <1>6 DEF IndInv, HistoryInv, histVars
  <2>2. \A j \in created' : rows'[j] # NoRow \/ j \in doomed'
    BY <1>1 DEF IndInv, HistoryInv, histVars
  <2> QED
    BY <1>1, <1>6, <1>7, <2>1, <2>2, HistoryStays DEF histVars
<1> QED
  BY <1>3, <1>5, <1>8, <1>9, <1>10, <1>11, <1>12, StepPreserves

LEMMA DeleteRowPreserves ==
    ASSUME IndInv, NEW h \in Handlers, DeleteRow(h)
    PROVE  IndInv'
<1>1. /\ handlers[h].pc = "delete"
      /\ rows' = [rows EXCEPT ![handlers[h].id] = NoRow]
      /\ deleted' = deleted \cup {handlers[h].id}
      /\ Return(h)
      /\ UNCHANGED <<diskVars, nextId, requests, created, doomed, permitted, received>>
  BY DEF DeleteRow
<1>2. PICK i \in Ids : i = handlers[h].id /\ i \in Drawn /\ i \in doomed
  BY <1>1, BusyFacts DEF HandlerSound
<1>3. /\ rows' \in [Ids -> Artifact \cup {NoRow}]
      /\ rows'[i] = NoRow
      /\ \A j \in Ids \ {i} : rows'[j] = rows[j]
  BY <1>1, <1>2 DEF IndInv, TypeOK
<1>4. handlers' \in [Handlers -> Handler] /\ OthersKept(h) /\ TakesId(h)
      /\ HandlerSound(handlers[h])'
  BY <1>1, ReturnFacts
<1>5. TypeOK'
  BY <1>1, <1>2, <1>3, <1>4 DEF IndInv, TypeOK, diskVars
<1>6. DiskGrows /\ DiskInv' /\ Drawn' = Drawn
  BY <1>1, DiskUnchanged DEF IndInv
<1>7. Touches(i) /\ MayTouch(h, i)
  BY <1>1, <1>2, <1>3, <1>6 DEF Touches, MayTouch
<1>8. HistoryInv'
  <2>1. \A j \in deleted' : j \in Drawn'
    BY <1>1, <1>2, <1>6 DEF IndInv, HistoryInv
  <2>2. \A j \in created' : rows'[j] # NoRow \/ j \in doomed'
    BY <1>1, <1>2, <1>3 DEF IndInv, HistoryInv, TypeOK
  <2> QED
    BY <1>1, <1>6, <2>1, <2>2, HistoryStays
<1> QED
  BY <1>3, <1>4, <1>5, <1>6, <1>7, <1>8, StepPreserves

LEMMA RestartPreserves ==
    ASSUME IndInv, ServerRestart
    PROVE  IndInv'
<1>1. /\ handlers' = [h \in Handlers |-> Idle]
      /\ UNCHANGED <<rows, diskVars, nextId, requests>>
      /\ UNCHANGED histVars
  BY DEF ServerRestart
<1>2. TypeOK'
  BY <1>1, IdleFacts DEF IndInv, TypeOK, histVars, diskVars
<1>3. HandlerInv' /\ OwnUpload'
  BY <1>1, IdleFacts DEF HandlerInv, HandlerSound, OwnUpload
<1>4. DiskGrows /\ DiskInv' /\ Drawn' = Drawn
  BY <1>1, DiskUnchanged DEF IndInv, histVars
<1>5. RowInv'
  BY <1>1, <1>4, ClaimsStay DEF IndInv, RowInv, Recorded, Allows, histVars
<1>6. HistoryInv'
  BY <1>1, <1>4, HistoryStays DEF IndInv, HistoryInv, histVars
<1> QED
  BY <1>2, <1>3, <1>4, <1>5, <1>6 DEF IndInv

-----------------------------------------------------------------------------
(* The theorems.                                                           *)

LEMMA InitInv == Init => IndInv
<1> SUFFICES ASSUME Init PROVE IndInv
  OBVIOUS
<1>1. TypeOK
  BY ArtifactsAssumption, IdleFacts DEF Init, TypeOK
<1>2. HandlerInv /\ OwnUpload
  BY IdleFacts DEF Init, HandlerInv, HandlerSound, OwnUpload
<1>3. Drawn = {}
  BY ArtifactsAssumption DEF Init, Drawn, Ids
<1>4. DiskInv
  BY <1>3 DEF Init, DiskInv, From, Empty
<1>5. RowInv /\ HistoryInv
  BY DEF Init, RowInv, HistoryInv
<1> QED
  BY <1>1, <1>2, <1>4, <1>5 DEF IndInv

LEMMA StutterPreserves == IndInv /\ UNCHANGED vars => IndInv'
<1> SUFFICES ASSUME IndInv, UNCHANGED vars PROVE IndInv'
  OBVIOUS
<1>1. /\ UNCHANGED <<rows, diskVars, handlers, nextId, requests>>
      /\ UNCHANGED histVars
  BY DEF vars, diskVars, histVars
<1>2. TypeOK'
  BY <1>1 DEF IndInv, TypeOK, diskVars, histVars
<1>3. DiskGrows /\ DiskInv' /\ Drawn' = Drawn
  BY <1>1, DiskUnchanged DEF IndInv, histVars
<1>4. HandlerInv' /\ OwnUpload'
  BY <1>1, <1>3 DEF IndInv, HandlerInv, HandlerSound, OwnUpload, Done, Whole, Alone, From,
                    diskVars, histVars
<1>5. RowInv'
  BY <1>1, <1>3, ClaimsStay DEF IndInv, RowInv, Recorded, Allows, histVars
<1>6. HistoryInv'
  BY <1>1, <1>3, HistoryStays DEF IndInv, HistoryInv, histVars
<1> QED
  BY <1>2, <1>3, <1>4, <1>5, <1>6 DEF IndInv

(* Every step of every handler, and a restart, preserve the invariant.     *)
LEMMA NextPreserves == IndInv /\ [Next]_vars => IndInv'
<1> SUFFICES ASSUME IndInv, [Next]_vars PROVE IndInv'
  OBVIOUS
<1>1. ASSUME NEW h \in Handlers, Upload(h) PROVE IndInv'
  <2>1. CASE UploadError(h)
    BY <2>1, GiveUpPreserves DEF UploadError
  <2> QED
    BY <1>1, <2>1, UploadCreatePreserves, UploadChunkPreserves, UploadCopiedPreserves,
       UploadSavePreserves DEF Upload
<1>2. ASSUME NEW h \in Handlers, Download(h) PROVE IndInv'
  <2>1. ASSUME NEW who \in Callers, NEW i \in Ids, DownloadById(h, who, i) PROVE IndInv'
    BY <2>1, EnforcePreserves DEF DownloadById
  <2>2. ASSUME NEW who \in Callers, NEW n \in Names, DownloadByName(h, who, n) PROVE IndInv'
    BY <2>2, EnforcePreserves DEF DownloadByName
  <2>3. CASE DownloadError(h)
    BY <2>3, GiveUpPreserves DEF DownloadError
  <2> QED
    BY <1>2, <2>1, <2>2, <2>3, DownloadOpenPreserves, DownloadChunkPreserves,
       DownloadSendPreserves DEF Download
<1>3. ASSUME NEW h \in Handlers, Patch(h) PROVE IndInv'
  BY <1>3, PatchGetPreserves, PatchSavePreserves DEF Patch
<1>4. ASSUME NEW h \in Handlers, Delete(h) PROVE IndInv'
  BY <1>4, DeleteGetPreserves, DeleteFilesPreserves, DeleteRowPreserves DEF Delete
<1>5. ASSUME NEW h \in Handlers, StatementError(h) PROVE IndInv'
  BY <1>5, GiveUpPreserves DEF StatementError
<1> QED
  BY <1>1, <1>2, <1>3, <1>4, <1>5, RestartPreserves, StutterPreserves DEF Next

(* In every reachable state of any number of concurrent HandleArtifacts    *)
(* requests, wherever the file names of uploads lead (artifacts.go:138): a *)
(* file holds only what was uploaded to its path; an upload that has its   *)
(* path for itself has a whole file once it is past its copy and for as    *)
(* long as it has a row, and keeps it until a DELETE finds the artifact    *)
(* whose directory it is in; and a download past the policy has access     *)
(* that a row once gave.                                                   *)
THEOREM IndInvariant == Spec => []IndInv
<1> QED
  BY InitInv, NextPreserves, PTL DEF Spec

(* Tables, files, handlers and histories keep their types.                 *)
THEOREM TypeCorrect == Spec => []TypeOK
<1>1. IndInv => TypeOK
  BY DEF IndInv
<1> QED
  BY <1>1, IndInvariant, PTL

(* A download that succeeds gave the client only what was uploaded to the  *)
(* path of the artifact, and the whole body if no other upload went there, *)
(* for any number of concurrent requests (artifacts.go:93-106).            *)
THEOREM DownloadsAreExact == Spec => []DownloadExact
<1>1. IndInv => DownloadExact
  BY DEF IndInv, HistoryInv, ReceiptSound, From, DownloadExact
<1> QED
  BY <1>1, IndInvariant, PTL

(* Nobody gets an artifact that no row of it has ever given him access to. *)
THEOREM AccessIsRespected == Spec => []AccessRespected
<1>1. IndInv => AccessRespected
  BY DEF IndInv, HistoryInv, ReceiptSound, AccessRespected
<1> QED
  BY <1>1, IndInvariant, PTL

(* An upload that was answered stays until a DELETE finds it; and a row    *)
(* has its whole file unless another upload went to the path of the file   *)
(* or a DELETE has found the artifact whose directory the file is in.      *)
THEOREM UploadsAreKept == Spec => []UploadKept
<1>1. IndInv => UploadKept
  BY DEF IndInv, HistoryInv, RowInv, DiskInv, Done, Kept, UploadKept
<1> QED
  BY <1>1, IndInvariant, PTL

-----------------------------------------------------------------------------
(* Deleted artifacts.                                                      *)

(* Nothing brings artifact i back when its row stays away and the handler  *)
(* that takes the step is not left with a copy of the row.                 *)
LEMMA StaysGone ==
    ASSUME NEW i \in Ids, Gone(i), NEW h \in Handlers, OthersKept(h),
           handlers'[h].pc = "patch" => handlers'[h].id # i,
           deleted \subseteq deleted', rows'[i] = NoRow
    PROVE  Gone(i)'
BY DEF Gone, OthersKept

(* No step brings back an artifact that is gone.                           *)
LEMMA NextKeepsGone ==
    ASSUME IndInv, [Next]_vars, NEW i \in Ids, Gone(i)
    PROVE  Gone(i)'
<1>0. i \in deleted /\ rows[i] = NoRow
  BY DEF Gone
<1>1. ASSUME NEW h \in Handlers, Return(h), UNCHANGED <<rows, deleted>> PROVE Gone(i)'
  <2>1. handlers'[h] = Idle /\ OthersKept(h)
    BY <1>1 DEF Return, IndInv, TypeOK, OthersKept
  <2> QED
    BY <1>0, <1>1, <2>1, IdleFacts, StaysGone
<1>2. ASSUME NEW h \in Handlers, NEW x \in Handler, Accept(h, x),
             x.pc = "patch" => rows[x.id] # NoRow, UNCHANGED <<rows, deleted>>
      PROVE  Gone(i)'
  <2>1. handlers'[h] = x /\ OthersKept(h)
    BY <1>2, AcceptFacts
  <2> QED
    BY <1>0, <1>2, <2>1, StaysGone
<1>3. ASSUME NEW h \in Handlers, handlers[h].pc \in {"save", "patch"}, Return(h),
             SaveArtifact(handlers[h].id, handlers[h].row), UNCHANGED deleted
      PROVE  Gone(i)'
  <2>1. handlers[h].id # i
    BY <1>0, <1>3, BusyFacts DEF HandlerSound, Gone
  <2>2. rows'[i] = NoRow
    BY <1>0, <1>3, <2>1 DEF SaveArtifact, IndInv, TypeOK
  <2>3. handlers'[h] = Idle /\ OthersKept(h)
    BY <1>3 DEF Return, IndInv, TypeOK, OthersKept
  <2> QED
    BY <1>3, <2>2, <2>3, IdleFacts, StaysGone
<1>4. ASSUME NEW h \in Handlers, Upload(h) PROVE Gone(i)'
  <2>1. ASSUME NEW who \in Callers, NEW n \in Names, NEW p \in Policies \cup {Unset},
               NEW a \in SUBSET Agents, NEW path \in Paths,
               UploadCreate(h, who, n, path, p, a)
        PROVE  Gone(i)'
    <3> DEFINE file == IF files[path] = NoFile THEN nextId ELSE files[path]
               row == [name |-> n, allowed |-> a,
                       policy |-> IF p = Unset THEN "authenticated" ELSE p]
               x == [Idle EXCEPT !.pc = "copy", !.id = nextId, !.file = file, !.row = row]
    <3>1. nextId \in Ids /\ file \in Ids
      BY <2>1, ArtifactsAssumption DEF UploadCreate, IndInv, TypeOK, Ids
    <3>2. row \in Artifact
      BY DEF Artifact, Policies
    <3>3. x \in Handler /\ x.pc = "copy"
      <4> HIDE DEF row, file
      <4> QED
        BY <3>1, <3>2, IdleFacts DEF Handler
    <3>4. Accept(h, x) /\ UNCHANGED <<rows, deleted>>
      BY <2>1 DEF UploadCreate, histVars
    <3> HIDE DEF x
    <3> QED
      BY <1>2, <3>3, <3>4
  <2>2. CASE UploadChunk(h)
    <3>1. handlers' = [handlers EXCEPT ![h].n = @ + 1] /\ handlers[h].pc = "copy"
      BY <2>2 DEF UploadChunk
    <3>2. handlers'[h].pc = "copy" /\ OthersKept(h)
      BY <3>1 DEF IndInv, TypeOK, Handler, OthersKept
    <3> QED
      BY <1>0, <2>2, <3>2, StaysGone DEF UploadChunk, histVars
  <2>3. CASE UploadCopied(h)
    BY <2>3, <1>0, GotoFacts, StaysGone DEF UploadCopied, histVars
  <2>4. CASE UploadError(h)
    BY <2>4, <1>1 DEF UploadError, histVars
  <2>5. CASE UploadSave(h)
    BY <2>5, <1>3 DEF UploadSave
  <2> QED
    BY <1>4, <2>1, <2>2, <2>3, <2>4, <2>5 DEF Upload
<1>5. ASSUME NEW h \in Handlers, Download(h) PROVE Gone(i)'
  <2>1. ASSUME NEW who \in Callers, NEW j \in Ids, Enforce(h, who, j),
               UNCHANGED <<rows, deleted>>
        PROVE  Gone(i)'
    <3>1. rows[j] \in Artifact \cup {NoRow}
      BY DEF IndInv, TypeOK
    <3> DEFINE x == [Idle EXCEPT !.pc = "open", !.who = who, !.id = j, !.row = rows[j]]
    <3>2. x \in Handler /\ x.pc = "open"
      BY <3>1, IdleFacts DEF Handler
    <3>3. Accept(h, x) \/ Accept(h, Idle)
      BY <2>1 DEF Enforce
    <3> HIDE DEF x
    <3> QED
      BY <1>2, <2>1, <3>2, <3>3, IdleFacts
  <2>2. ASSUME NEW who \in Callers, NEW j \in Ids, DownloadById(h, who, j) PROVE Gone(i)'
    BY <2>1, <2>2 DEF DownloadById, histVars
  <2>3. ASSUME NEW who \in Callers, NEW n \in Names, DownloadByName(h, who, n)
        PROVE  Gone(i)'
    BY <2>1, <2>3 DEF DownloadByName, histVars
  <2>4. CASE DownloadOpen(h)
    <3>1. CASE Return(h)
      BY <1>1, <2>4, <3>1 DEF DownloadOpen, histVars
    <3>2. ASSUME NEW f, NEW n, handlers' = [handlers EXCEPT ![h].pc = "send", ![h].file = f,
                                                            ![h].size = n]
          PROVE  Gone(i)'
      <4>1. handlers'[h].pc = "send" /\ OthersKept(h)
        BY <3>2 DEF IndInv, TypeOK, Handler, OthersKept
      <4> QED
        BY <1>0, <2>4, <4>1, StaysGone DEF DownloadOpen, histVars
    <3> QED
      BY <2>4, <3>1, <3>2 DEF DownloadOpen
  <2>7. CASE DownloadChunk(h)
    <3>1. PICK f, n, c : /\ handlers[h].pc = "send"
                         /\ handlers' = [handlers EXCEPT ![h].n = @ + 1, ![h].body[n] = data[f][c]]
      BY <2>7 DEF DownloadChunk
    <3>2. handlers'[h].pc = "send" /\ OthersKept(h)
      BY <3>1 DEF IndInv, TypeOK, Handler, OthersKept
    <3> QED
      BY <1>0, <2>7, <3>2, StaysGone DEF DownloadChunk, histVars
  <2>5. CASE DownloadSend(h)
    BY <2>5, <1>1 DEF DownloadSend
  <2>6. CASE DownloadError(h)
    BY <2>6, <1>1 DEF DownloadError, histVars
  <2> QED
    BY <1>5, <2>2, <2>3, <2>4, <2>5, <2>6, <2>7 DEF Download
<1>6. ASSUME NEW h \in Handlers, Patch(h) PROVE Gone(i)'
  <2>1. ASSUME NEW who \in Callers, NEW j \in Ids, NEW p \in Policies \cup {Unset},
               NEW a \in (SUBSET Agents) \cup {Unset}, PatchGet(h, who, j, p, a)
        PROVE  Gone(i)'
    <3> DEFINE row == Patched(rows[j], p, a)
               x == [Idle EXCEPT !.pc = "patch", !.id = j, !.row = row]
    <3>1. rows[j] \in Artifact /\ rows[j] # NoRow
      BY <2>1 DEF PatchGet, IndInv, TypeOK
    <3>2. row \in Artifact
      BY <3>1 DEF Patched, Artifact
    <3>3. x \in Handler /\ x.id = j
      <4> HIDE DEF row
      <4> QED
        BY <3>2, IdleFacts DEF Handler
    <3>4. Accept(h, x) /\ UNCHANGED <<rows, deleted>>
      BY <2>1 DEF PatchGet, histVars
    <3> HIDE DEF x
    <3> QED
      BY <1>2, <3>1, <3>3, <3>4
  <2>2. CASE PatchSave(h)
    BY <2>2, <1>3 DEF PatchSave
  <2> QED
    BY <1>6, <2>1, <2>2 DEF Patch
<1>7. ASSUME NEW h \in Handlers, Delete(h) PROVE Gone(i)'
  <2>1. ASSUME NEW who \in Callers, NEW j \in Ids, DeleteGet(h, who, j) PROVE Gone(i)'
    <3> DEFINE x == [Idle EXCEPT !.pc = "remove", !.id = j]
    <3>1. x \in Handler /\ x.pc = "remove"
      BY IdleFacts DEF Handler
    <3>2. Accept(h, x) /\ UNCHANGED <<rows, deleted>>
      BY <2>1 DEF DeleteGet
    <3> HIDE DEF x
    <3> QED
      BY <1>2, <3>1, <3>2
  <2>2. CASE DeleteFiles(h)
    BY <2>2, <1>0, GotoFacts, StaysGone DEF DeleteFiles, histVars
  <2>3. CASE DeleteRow(h)
    <3>1. rows' = [rows EXCEPT ![handlers[h].id] = NoRow] /\ deleted \subseteq deleted'
      BY <2>3 DEF DeleteRow
    <3>2. rows'[i] = NoRow
      BY <1>0, <3>1 DEF IndInv, TypeOK
    <3>3. handlers'[h] = Idle /\ OthersKept(h)
      BY <2>3 DEF DeleteRow, Return, IndInv, TypeOK, OthersKept
    <3> QED
      BY <3>1, <3>2, <3>3, IdleFacts, StaysGone
  <2> QED
    BY <1>7, <2>1, <2>2, <2>3 DEF Delete
<1>8. ASSUME NEW h \in Handlers, StatementError(h) PROVE Gone(i)'
  BY <1>8, <1>1 DEF StatementError, histVars
<1>9. CASE ServerRestart
  BY <1>9, IdleFacts DEF ServerRestart, histVars, Gone
<1>10. CASE UNCHANGED vars
  BY <1>10 DEF vars, Gone
<1> QED
  BY <1>4, <1>5, <1>6, <1>7, <1>8, <1>9, <1>10 DEF Next

(* A deleted artifact comes back only through a PATCH that read its row    *)
(* before: once none is under way it is gone for good.                     *)
THEOREM DeletedIsGone == Spec => GoneForGood
<1>1. IndInv /\ [Next]_vars => [\A i \in Ids : Gone(i) => Gone(i)']_vars
  BY NextKeepsGone
<1> QED
  BY <1>1, IndInvariant, PTL DEF Spec, GoneForGood
=============================================================================
