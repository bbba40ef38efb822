----------------------- MODULE RequestRefinementProofs -----------------------
(***************************************************************************)
(* The handlers between their awaits do what the single steps of           *)
(* DatabaseStorage do, as long as no file operation outlives its request.  *)
(***************************************************************************)
EXTENDS RequestPipelineProofs

-----------------------------------------------------------------------------
(***************************************************************************)
(* The blobs that the mapping shows.                                       *)
(***************************************************************************)
\* What the handler of r has made and taken away is not shown yet.
HiddenBy(r) ==
    (IF HasOpened(r) /\ r.made THEN {r.ulid} ELSE {}) \cup (IF HasSealed(r) THEN {r.to} ELSE {})

KeptBy(r) == IF HasRemoved(r) \/ (HasSealed(r) /\ ~r.made) THEN {r.ulid} ELSE {}

LEMMA ShownIdle ==
    /\ InProgress = {} => ShownBlobs = DOMAIN disk
    /\ InProgress' = {} => ShownBlobs' = DOMAIN disk'
  BY DEF ShownBlobs

LEMMA ShownBusy ==
    ASSUME NEW r
    PROVE  /\ InProgress = {r} => ShownBlobs = (DOMAIN disk \ HiddenBy(r)) \cup KeptBy(r)
           /\ InProgress' = {r} => ShownBlobs' = (DOMAIN disk' \ HiddenBy(r)) \cup KeptBy(r)
  <1>1. ASSUME InProgress = {r} PROVE ShownBlobs = (DOMAIN disk \ HiddenBy(r)) \cup KeptBy(r)
    <2>1. UNION { (IF HasOpened(s) /\ s.made THEN {s.ulid} ELSE {})
                     \cup (IF HasSealed(s) THEN {s.to} ELSE {}) : s \in InProgress } = HiddenBy(r)
      BY <1>1 DEF HiddenBy
    <2>2. { s.ulid : s \in { x \in InProgress : HasRemoved(x) \/ (HasSealed(x) /\ ~x.made) } } = KeptBy(r)
      BY <1>1 DEF KeptBy
    <2> QED BY <2>1, <2>2 DEF ShownBlobs
  <1>2. ASSUME InProgress' = {r} PROVE ShownBlobs' = (DOMAIN disk' \ HiddenBy(r)) \cup KeptBy(r)
    <2>1. UNION { (IF HasOpened(s) /\ s.made THEN {s.ulid} ELSE {})
                     \cup (IF HasSealed(s) THEN {s.to} ELSE {}) : s \in InProgress' } = HiddenBy(r)
      BY <1>2 DEF HiddenBy
    <2>2. { s.ulid : s \in { x \in InProgress' : HasRemoved(x) \/ (HasSealed(x) /\ ~x.made) } } = KeptBy(r)
      BY <1>2 DEF KeptBy
    <2> QED BY <2>1, <2>2 DEF ShownBlobs
  <1> QED BY <1>1, <1>2

\* A handler that is not at the end of a create, a rename or a remove hides
\* nothing.
LEMMA NothingHidden ==
    ASSUME NEW r, ~HasOpened(r), ~HasSealed(r), ~HasRemoved(r)
    PROVE  HiddenBy(r) = {} /\ KeptBy(r) = {}
  BY DEF HiddenBy, KeptBy

-----------------------------------------------------------------------------
(***************************************************************************)
(* The steps of DatabaseStorage, for files at the root.                    *)
(***************************************************************************)
\* Nothing to see.
Stutters == UNCHANGED <<catalog, ShownBlobs, minted, tokens, last>>

OneStep == Requests!Next \/ UNCHANGED Requests!vars

LEMMA StutterIsOneStep == Stutters => OneStep
  BY DEF Stutters, OneStep, Requests!vars, catalog

\* The objects are at the root.
LEMMA RootRequest ==
    ASSUME NEW name \in Name
    PROVE  /\ Requests!UploadRequest(Root, name) => OneStep
           /\ Requests!ReadRequest(Root, name) => OneStep
           /\ Requests!DeleteRequest(Root, name) => OneStep
  BY DEF OneStep, Requests!Next, Root

\* An upload that has only written its blob.
LEMMA WriteIsOneStep ==
    ASSUME NEW name \in Name, NEW token \in Requests!Continuation, NEW ulid \in Ulid,
           Requests!BlobFor(ulid, token),
           ShownBlobs' = ShownBlobs \cup {ulid}, minted' = minted \cup {ulid}, catalog' = catalog,
           \/ /\ "upload_part" \in Calls /\ tokens' = tokens \cup {ulid}
              /\ last' = Requests!Reply("upload_part", "ok")
           \/ /\ "upload" \in Calls /\ tokens' = tokens
              /\ ~Requests!UploadFits(Root, name)
              /\ last' = Requests!Reply("upload", "error")
           \/ /\ Uploads \cap Calls # {} /\ tokens' = tokens
              /\ last' = Requests!Reply("upload", "dropped")
    PROVE  OneStep
  <1>1. Requests!WriteBlob(ulid) /\ UNCHANGED Requests!tables
    BY DEF Requests!WriteBlob, Requests!tables, catalog
  <1>2. CASE /\ "upload_part" \in Calls /\ tokens' = tokens \cup {ulid}
             /\ last' = Requests!Reply("upload_part", "ok")
    <2>1. Requests!UploadPart(Root, name, token)
      BY <1>1, <1>2 DEF Requests!UploadPart
    <2> QED BY <1>2, <2>1, RootRequest DEF Requests!UploadRequest
  <1>3. CASE /\ "upload" \in Calls /\ tokens' = tokens
             /\ ~Requests!UploadFits(Root, name)
             /\ last' = Requests!Reply("upload", "error")
    <2>1. Requests!UploadOp(FALSE) = "upload"
      BY DEF Requests!UploadOp
    <2>2. Requests!UploadRefused(Root, name, FALSE, token)
      BY <1>1, <1>3, <2>1 DEF Requests!UploadRefused, Requests!tables
    <2> QED BY <1>3, <2>1, <2>2, RootRequest DEF Requests!UploadRequest
  <1>4. CASE /\ Uploads \cap Calls # {} /\ tokens' = tokens
             /\ last' = Requests!Reply("upload", "dropped")
    <2>1. Requests!UploadAbandoned(Root, name, token)
      BY <1>1, <1>4 DEF Requests!UploadAbandoned, Requests!tables
    <2>2. {"upload_part", "upload", "upload_next"} \cap Calls # {}
      BY <1>4 DEF Uploads
    <2> QED BY <2>1, <2>2, RootRequest DEF Requests!UploadRequest
  <1> QED BY <1>2, <1>3, <1>4

\* An upload that has renamed its blob, and commits or is dropped.
LEMMA SealIsOneStep ==
    ASSUME NEW name \in Name, NEW token \in Requests!Continuation, token # {},
           NEW ulid \in token, NEW sealed \in Ulid \ minted, sealed # ulid, ulid \in Ulid,
           Requests!UploadFits(Root, name),
           ShownBlobs' = (ShownBlobs \ {ulid}) \cup {sealed}, minted' = minted \cup {ulid, sealed},
           tokens' = tokens,
           \/ /\ "upload" \in Calls /\ Requests!HasRoom
              /\ Requests!CommitFile(Root, name, ulid, sealed)
              /\ last' = Requests!Reply("upload", "ok")
           \/ /\ Uploads \cap Calls # {} /\ catalog' = catalog
              /\ last' = Requests!Reply("upload", "dropped")
    PROVE  OneStep
  <1>1. Requests!SealBlob(ulid, sealed) /\ Requests!BlobFor(ulid, token)
    BY DEF Requests!SealBlob, Requests!BlobFor
  <1>2. CASE /\ "upload" \in Calls /\ Requests!HasRoom
             /\ Requests!CommitFile(Root, name, ulid, sealed)
             /\ last' = Requests!Reply("upload", "ok")
    <2>1. Requests!UploadOp(FALSE) = "upload"
      BY DEF Requests!UploadOp
    <2>2. Requests!Upload(Root, name, FALSE, token)
      BY <1>1, <1>2, <2>1 DEF Requests!Upload
    <2> QED BY <1>2, <2>1, <2>2, RootRequest DEF Requests!UploadRequest
  <1>3. CASE /\ Uploads \cap Calls # {} /\ catalog' = catalog
             /\ last' = Requests!Reply("upload", "dropped")
    <2>1. Requests!UploadAbandoned(Root, name, token)
      BY <1>1, <1>3 DEF Requests!UploadAbandoned, Requests!tables, catalog
    <2>2. {"upload_part", "upload", "upload_next"} \cap Calls # {}
      BY <1>3 DEF Uploads
    <2> QED BY <2>1, <2>2, RootRequest DEF Requests!UploadRequest
  <1> QED BY <1>2, <1>3

\* An upload in one message.
LEMMA SingleIsOneStep ==
    ASSUME NEW name \in Name, NEW ulid \in Ulid \ minted, "upload" \in Calls,
           Requests!UploadFits(Root, name), Requests!HasRoom,
           ShownBlobs' = ShownBlobs \cup {ulid}, minted' = minted \cup {ulid}, tokens' = tokens,
           Requests!CommitFile(Root, name, ulid, ulid),
           last' = Requests!Reply("upload", "ok")
    PROVE  OneStep
  <1>1. Requests!WriteBlob(ulid) /\ Requests!BlobFor(ulid, {}) /\ {} \in Requests!Continuation
    BY DEF Requests!WriteBlob, Requests!BlobFor, Requests!Continuation
  <1>2. Requests!UploadOp(FALSE) = "upload"
    BY DEF Requests!UploadOp
  <1>3. Requests!Upload(Root, name, FALSE, {})
    BY <1>1, <1>2 DEF Requests!Upload
  <1> QED BY <1>1, <1>2, <1>3, RootRequest DEF Requests!UploadRequest

-----------------------------------------------------------------------------
(***************************************************************************)
(* What append, download and delete find.                                  *)
(***************************************************************************)
\* A file has one version, and its blob is on disk or it is not.
LEMMA OnlyVersion ==
    ASSUME CatalogOK, NEW name \in Name, Requests!IsPresent(Root, name)
    PROVE  LET record == fs[Requests!TargetKey(Root, name)]
               blob   == ver[<<record.id, record.latest_version>>]
           IN  /\ record.type = VERSION_BLOB /\ record.latest_version = 1
               /\ Requests!VersionsOf(record) = {1} /\ Requests!BlobOf(record, 1) = blob
               /\ Requests!Reached(record) = (IF blob \in ShownBlobs THEN {1} ELSE {})
               /\ Requests!IsOpenable(record, 1) <=> blob \in ShownBlobs
               /\ Requests!Deletable(Root, name, {})
  <1> DEFINE record == fs[Requests!TargetKey(Root, name)]
             blob == ver[<<record.id, record.latest_version>>]
  <1>1. record.type = VERSION_BLOB /\ record.latest_version = 1 /\ <<record.id, 1>> \in DOMAIN ver
    BY PresentFile
  <1>2. Requests!BlobOf(record, 1) = blob
    BY <1>1 DEF Requests!BlobOf
  <1>3. Requests!VersionsOf(record) = {1}
    <2>1. \A v : <<record.id, v>> \in DOMAIN ver => v = 1
      BY DEF CatalogOK
    <2> HIDE DEF record
    <2> QED BY <1>1, <2>1 DEF Requests!VersionsOf
  <1>4. Requests!Reached(record) = (IF blob \in ShownBlobs THEN {1} ELSE {})
    <2> HIDE DEF record, blob
    <2> QED BY <1>2, <1>3 DEF Requests!Reached
  <1>5. Requests!IsOpenable(record, 1) <=> blob \in ShownBlobs
    BY <1>1 DEF Requests!IsOpenable, Requests!IsReadable, VERSION_BLOB, Requests!VERSION_BLOB
  <1>6. Requests!Deletable(Root, name, {})
    BY DEF Requests!Deletable, Requests!WantsLatest
  <1> QED BY <1>1, <1>2, <1>3, <1>4, <1>5, <1>6

\* A file that is not there is refused.
LEMMA AbsentIsOneStep ==
    ASSUME NEW name \in Name, NEW op \in Calls \ Uploads, ~Requests!IsPresent(Root, name),
           UNCHANGED <<catalog, ShownBlobs, minted, tokens>>, last' = Requests!Reply(op, "error")
    PROVE  OneStep
  <1>1. UNCHANGED <<Requests!tables, Requests!files>> /\ {} \in {{}}
    BY DEF Requests!tables, Requests!files, catalog
  <1>2. op \in {"append", "download", "delete"}
    BY PipelineAssumption DEF Uploads
  <1>3. CASE op = "append"
    <2>1. Requests!AppendData(Root, name, {})
      BY <1>1, <1>3 DEF Requests!AppendData
    <2> QED BY <1>3, <2>1, RootRequest DEF Requests!ReadRequest
  <1>4. CASE op = "download"
    <2>1. Requests!Download(Root, name, {})
      BY <1>1, <1>4 DEF Requests!Download
    <2> QED BY <1>4, <2>1, RootRequest DEF Requests!ReadRequest
  <1>5. CASE op = "delete"
    <2>1. Requests!DeleteRefused(Root, name, {})
      BY <1>1, <1>5 DEF Requests!DeleteRefused, Requests!Refuse, Requests!Deletable
    <2> QED BY <1>5, <2>1, RootRequest DEF Requests!DeleteRequest
  <1> QED BY <1>2, <1>3, <1>4, <1>5

\* append and download answer when they know whether the blob is there.
LEMMA LookIsOneStep ==
    ASSUME CatalogOK, NEW name \in Name, Requests!IsPresent(Root, name),
           NEW op \in Calls \cap {"append", "download"},
           UNCHANGED <<catalog, ShownBlobs, minted, tokens>>,
           last' = Requests!Reply(op,
                      IF ver[<<fs[Requests!TargetKey(Root, name)].id,
                               fs[Requests!TargetKey(Root, name)].latest_version>>] \in ShownBlobs
                      THEN "ok" ELSE "error")
    PROVE  OneStep
  <1> DEFINE record == fs[Requests!TargetKey(Root, name)]
             blob == ver[<<record.id, record.latest_version>>]
  <1>1. UNCHANGED <<Requests!tables, Requests!files>> /\ {} \in {{}}
    BY DEF Requests!tables, Requests!files, catalog
  <1>2. record.latest_version = 1 /\ (Requests!IsOpenable(record, 1) <=> blob \in ShownBlobs)
    BY OnlyVersion
  <1>3. last' = Requests!Reply(op, IF Requests!IsOpenable(record, 1) THEN "ok" ELSE "error")
    BY <1>2
  <1>4. CASE op = "append"
    <2>1. /\ Requests!IsPresent(Root, name)
          /\ Requests!WantsLatest({}, record)
          /\ Requests!IsOpenable(record, record.latest_version) <=> Requests!IsOpenable(record, 1)
      BY <1>2 DEF Requests!WantsLatest
    <2>2. Requests!AppendData(Root, name, {})
      BY <1>1, <1>3, <1>4, <2>1 DEF Requests!AppendData
    <2> QED BY <1>4, <2>2, RootRequest DEF Requests!ReadRequest
  <1>5. CASE op = "download"
    <2>1. Requests!IsPresent(Root, name) /\ \A v \in {record.latest_version} : v = 1
      BY <1>2
    <2>2. Requests!Download(Root, name, {})
      BY <1>1, <1>2, <1>3, <1>5, <2>1 DEF Requests!Download
    <2> QED BY <1>5, <2>2, RootRequest DEF Requests!ReadRequest
  <1> QED BY <1>4, <1>5

\* delete has removed the blob, unless it was missing.
LEMMA DeleteIsOneStep ==
    ASSUME CatalogOK, NEW name \in Name, Requests!IsPresent(Root, name), "delete" \in Calls,
           UNCHANGED <<catalog, minted, tokens>>,
           NEW blob, blob = ver[<<fs[Requests!TargetKey(Root, name)].id,
                                  fs[Requests!TargetKey(Root, name)].latest_version>>],
           ShownBlobs' = ShownBlobs \ {blob},
           \/ last' = Requests!Reply("delete", IF blob \in ShownBlobs THEN "ok" ELSE "error")
           \/ last' = Requests!Reply("delete", "dropped")
    PROVE  OneStep
  <1> DEFINE record == fs[Requests!TargetKey(Root, name)]
  <1>1. /\ record.type = VERSION_BLOB /\ record.latest_version = 1
        /\ Requests!VersionsOf(record) = {1} /\ Requests!BlobOf(record, 1) = blob
        /\ Requests!Reached(record) = (IF blob \in ShownBlobs THEN {1} ELSE {})
        /\ Requests!Deletable(Root, name, {})
    BY OnlyVersion
  <1> HIDE DEF record
  <1>2. Requests!RemoveBlobs(record, Requests!Reached(record))
    <2>1. ShownBlobs' = ShownBlobs \ { Requests!BlobOf(record, v) : v \in Requests!Reached(record) }
      BY <1>1
    <2> QED BY <2>1 DEF Requests!RemoveBlobs, Requests!tables, catalog
  <1>3. CASE last' = Requests!Reply("delete", IF blob \in ShownBlobs THEN "ok" ELSE "error")
    <2>1. (Requests!Reached(record) = Requests!VersionsOf(record)) <=> blob \in ShownBlobs
      BY <1>1
    <2>2. Requests!DeleteFile(Root, name, {})
      BY <1>1, <1>2, <1>3, <2>1 DEF Requests!DeleteFile, record, VERSION_BLOB, Requests!VERSION_BLOB
    <2> QED BY <2>2, RootRequest DEF Requests!DeleteRequest
  <1>4. CASE last' = Requests!Reply("delete", "dropped")
    <2>1. { v \in Requests!Reached(record) : v >= 1 } = Requests!Reached(record)
      BY <1>1
    <2>2. 1 \in 0 .. record.latest_version + 1
      BY <1>1
    <2>3. \E least \in 0 .. record.latest_version + 1 :
             Requests!RemoveBlobs(record, { v \in Requests!Reached(record) : v >= least })
      BY <1>2, <2>1, <2>2
    <2>4. Requests!DeleteAbandoned(Root, name, {})
      BY <1>1, <1>4, <2>3 DEF Requests!DeleteAbandoned, record, VERSION_BLOB, Requests!VERSION_BLOB
    <2> QED BY <2>4, RootRequest DEF Requests!DeleteRequest
  <1> QED BY <1>3, <1>4

-----------------------------------------------------------------------------
(***************************************************************************)
(* What a step of the holder of the mutex hides and shows.                 *)
(***************************************************************************)
LEMMA HolderShown ==
    ASSUME IInv, NEW c, Advances(c)
    PROVE  /\ ShownBlobs = IF request[c].pc \in {"await", "ready"}
                           THEN (DOMAIN disk \ HiddenBy(request[c])) \cup KeptBy(request[c])
                           ELSE DOMAIN disk
           /\ ShownBlobs' = IF request'[c].pc \in {"await", "ready"}
                            THEN (DOMAIN disk' \ HiddenBy(request'[c])) \cup KeptBy(request'[c])
                            ELSE DOMAIN disk'
  <1>1. /\ InProgress' = IF request'[c].pc \in {"await", "ready"} THEN {request'[c]} ELSE {}
        /\ InProgress = IF request[c].pc \in {"await", "ready"} THEN {request[c]} ELSE {}
    BY NextInProgress DEF IInv
  <1>2. ShownBlobs = IF request[c].pc \in {"await", "ready"}
                     THEN (DOMAIN disk \ HiddenBy(request[c])) \cup KeptBy(request[c])
                     ELSE DOMAIN disk
    BY <1>1, ShownIdle, ShownBusy
  <1>3. ShownBlobs' = IF request'[c].pc \in {"await", "ready"}
                      THEN (DOMAIN disk' \ HiddenBy(request'[c])) \cup KeptBy(request'[c])
                      ELSE DOMAIN disk'
    BY <1>1, ShownIdle, ShownBusy
  <1> QED BY <1>2, <1>3

\* The requests at an await are the same, and so is what they hide.
LEMMA SameShown ==
    ASSUME InProgress' = InProgress, DOMAIN disk' = DOMAIN disk
    PROVE  ShownBlobs' = ShownBlobs
  BY DEF ShownBlobs

LEMMA SameInProgress ==
    ASSUME \A d \in DOMAIN request' :
              \/ d \in DOMAIN request /\ request'[d] = request[d]
              \/ d \notin DOMAIN request /\ request'[d].pc = "queued",
           \A d \in DOMAIN request \ DOMAIN request' : request[d].pc \in {"queued", "leave"}
    PROVE  InProgress' = InProgress
  <1>1. { d \in DOMAIN request' : request'[d].pc \in {"await", "ready"} }
           = { d \in DOMAIN request : request[d].pc \in {"await", "ready"} }
    OBVIOUS
  <1>2. \A d \in { x \in DOMAIN request : request[x].pc \in {"await", "ready"} } : request'[d] = request[d]
    BY <1>1
  <1> QED BY <1>1, <1>2 DEF InProgress

\* What an upload knows at its awaits, and leaves in the pool.
LEMMA UploadFacts ==
    ASSUME IInv, NEW c \in DOMAIN request, IsWorking(request[c]), request[c].op \in Uploads
    PROVE  LET r == request[c]
           IN  /\ r.name \in Name /\ r.op \in Calls /\ Uploads \cap Calls # {}
               /\ r.token \in Requests!Continuation /\ r.ulid \in Ulid
               /\ Requests!BlobFor(r.ulid, r.token)
               /\ r.at \in {"create", "rename"}
               /\ r.token = {} => r.ulid \in Ulid \ minted
               /\ r.at = "rename" =>
                     /\ r.op = "upload" /\ r.token # {} /\ r.ulid \in r.token
                     /\ r.ulid \in minted /\ r.to \in Ulid \ minted /\ r.to # r.ulid
                     /\ Requests!UploadFits(Root, r.name)
  <1> DEFINE r == request[c]
  <1>1. r \in Request
    BY DEF IInv, PipelineTypeOK
  <1>2. r.name \in Name /\ r.op \in Calls /\ Uploads \cap Calls # {}
    BY <1>1 DEF Request
  <1>3. /\ r.token \in Requests!Continuation
        /\ r.at \in {"create", "rename"}
        /\ r.ulid \in Ulid /\ r.token \in {{}, {r.ulid}}
        /\ r.at = "rename" => /\ r.op = "upload" /\ r.token # {} /\ r.to # r.ulid
                              /\ Requests!UploadFits(Root, r.name)
    BY DEF IInv, HandlersOK
  <1>4. Drawn(r) \subseteq Ulid \ minted
    BY DEF IInv, NamesOK
  <1>5. r.token = {} => r.ulid \in Ulid \ minted
    BY <1>4 DEF Drawn
  <1>6. r.at = "rename" => r.to \in Ulid \ minted
    BY <1>4 DEF Drawn
  <1>7. r.token # {} => r.ulid \in r.token /\ r.ulid \in minted
    BY <1>3 DEF Requests!Continuation, IInv, CatalogOK
  <1>8. Requests!BlobFor(r.ulid, r.token)
    BY <1>5, <1>7 DEF Requests!BlobFor
  <1> QED BY <1>2, <1>3, <1>5, <1>6, <1>7, <1>8

-----------------------------------------------------------------------------
(***************************************************************************)
(* The handlers.                                                           *)
(***************************************************************************)
LEMMA StartUploadRefines ==
    ASSUME IInv, NEW c, StartUpload(c)
    PROVE  OneStep
  <1>1. Turn(c, "queued") /\ request[c].op \in Uploads
        /\ UNCHANGED <<catalog, disk, tokens, shown>>
    BY DEF StartUpload
  <1>2. PICK ulid \in Ulid : Await(c, [request[c] EXCEPT !.ulid = ulid],
                                   Operation("create", request[c], ulid, NoUlid), {})
    BY DEF StartUpload
  <1>3. /\ c \in DOMAIN request /\ queue # <<>> /\ Head(queue) = c
        /\ request[c].pc = "queued" /\ request[c] \in Request
    BY <1>1, TurnTaken
  <1> DEFINE r == [request[c] EXCEPT !.ulid = ulid]
             op == Operation("create", request[c], ulid, NoUlid)
  <1>4. /\ r \in Request /\ r.id = request[c].id /\ r.op = request[c].op
        /\ r.name = request[c].name /\ r.token = request[c].token
    BY <1>3 DEF Request
  <1>5. op.kind = "create"
    BY DEF Operation
  <1> HIDE DEF r, op
  <1>6. Await(c, r, op, {})
    BY <1>2 DEF r, op
  <1>7. Advances(c) /\ request'[c].pc = "await" /\ request'[c].at = "create"
    BY <1>3, <1>4, <1>5, <1>6, AwaitAdvances DEF IInv
  <1>8. HiddenBy(request'[c]) = {} /\ KeptBy(request'[c]) = {}
    BY <1>7, NothingHidden DEF HasOpened, HasSealed, HasRemoved
  <1>9. ShownBlobs' = ShownBlobs
    BY <1>1, <1>3, <1>7, <1>8, HolderShown
  <1> QED BY <1>1, <1>9, StutterIsOneStep DEF Stutters, shown

LEMMA StartOtherRefines ==
    ASSUME IInv, NEW c, StartOther(c)
    PROVE  OneStep
  <1> DEFINE q == request[c]
             record == fs[Requests!TargetKey(Root, q.name)]
             blob == ver[<<record.id, record.latest_version>>]
             kind == IF q.op = "delete" THEN "remove" ELSE "open"
             r == [q EXCEPT !.ulid = blob]
             op == Operation(kind, q, blob, NoUlid)
  <1>1. Turn(c, "queued") /\ q.op \notin Uploads /\ UNCHANGED <<catalog, disk, tokens>>
    BY DEF StartOther
  <1>2. /\ c \in DOMAIN request /\ queue # <<>> /\ Head(queue) = c
        /\ q.pc = "queued" /\ q \in Request /\ q.name \in Name
    BY <1>1, TurnTaken
  <1>3. CASE ~Requests!IsPresent(Root, q.name)
    <2>1. Leave(c) /\ last' = Requests!Reply(q.op, "error") /\ minted' = minted
      BY <1>3 DEF StartOther, Answer
    <2>2. Advances(c) /\ request'[c].pc = "leave"
      BY <1>2, <2>1, LeaveMoves DEF Moves, IInv
    <2>3. ShownBlobs' = ShownBlobs
      BY <1>1, <1>2, <2>2, HolderShown
    <2>4. q.op \in Calls \ Uploads
      BY <1>1, <1>2 DEF Request
    <2> QED BY <1>1, <1>2, <1>3, <2>1, <2>3, <2>4, AbsentIsOneStep
  <1>4. CASE Requests!IsPresent(Root, q.name)
    <2>1. Await(c, r, op, {}) /\ UNCHANGED shown
      BY <1>4 DEF StartOther
    <2>2. blob \in Ulid
      BY <1>2, <1>4, PresentFile DEF IInv
    <2> HIDE DEF blob
    <2>3. r \in Request /\ r.id = q.id /\ r.op = q.op /\ r.name = q.name /\ r.token = q.token
      BY <1>2, <2>2 DEF Request
    <2>4. op.kind = kind /\ op.kind \in {"open", "remove"}
      BY DEF Operation
    <2> HIDE DEF r, op
    <2>5. Advances(c) /\ request'[c].pc = "await" /\ request'[c].at = kind
      BY <1>2, <2>1, <2>3, <2>4, AwaitAdvances DEF IInv
    <2>6. HiddenBy(request'[c]) = {} /\ KeptBy(request'[c]) = {}
      BY <2>5, NothingHidden DEF HasOpened, HasSealed, HasRemoved
    <2>7. ShownBlobs' = ShownBlobs
      BY <1>1, <1>2, <2>5, <2>6, HolderShown
    <2> QED BY <1>1, <2>1, <2>7, StutterIsOneStep DEF Stutters, shown
  <1> QED BY <1>3, <1>4

\* The blob of an upload that is not renamed is on disk, and is shown when the
\* request is answered or dropped.
LEMMA OpenedShown ==
    ASSUME IInv, ~outlived, NEW c, c \in DOMAIN request, request[c].pc \in {"await", "ready"},
           HasOpened(request[c]), ~HasSealed(request[c]),
           ShownBlobs = (DOMAIN disk \ HiddenBy(request[c])) \cup KeptBy(request[c])
    PROVE  /\ request[c].ulid \in DOMAIN disk
           /\ DOMAIN disk = ShownBlobs \cup {request[c].ulid}
  <1> DEFINE r == request[c]
  <1>1. r \in InProgress
    BY DEF InProgress
  <1>2. r.at \in {"create", "rename"}
    BY <1>1, HandlerFacts DEF HasOpened
  <1>3. r.pc = "ready" /\ r.at = "rename" => HasSealed(r)
    BY <1>1 DEF IInv, OrderOK, HasSealed
  <1>4. r.ulid \in DOMAIN disk
    BY <1>1, <1>2, <1>3 DEF IInv, OrderOK
  <1>5. HiddenBy(r) \subseteq {r.ulid} /\ KeptBy(r) = {}
    BY <1>2 DEF HiddenBy, KeptBy, HasRemoved
  <1> QED BY <1>4, <1>5

\* A blob that was renamed is shown under its first name until the request is
\* committed or dropped.
LEMMA SealedShown ==
    ASSUME IInv, ~outlived, NEW c, c \in DOMAIN request, HasSealed(request[c]),
           ShownBlobs = (DOMAIN disk \ HiddenBy(request[c])) \cup KeptBy(request[c])
    PROVE  /\ request[c].op \in Uploads /\ IsWorking(request[c]) /\ request[c].at = "rename"
           /\ DOMAIN disk = (ShownBlobs \ {request[c].ulid}) \cup {request[c].to}
  <1> DEFINE r == request[c]
  <1>1. r \in InProgress /\ r.pc = "ready" /\ r.at = "rename" /\ r.ok
    BY DEF InProgress, HasSealed
  <1>2. r.op \in Uploads /\ HasOpened(r) /\ IsWorking(r)
    BY <1>1, HandlerFacts DEF HasOpened, IsWorking
  <1>3. r.ulid \notin DOMAIN disk
    BY <1>1, <1>2 DEF IInv, OrderOK
  <1>4. r.to \in DOMAIN disk /\ r.to # r.ulid
    BY <1>1, HandlerFacts DEF IInv, DiskOK
  <1>5. /\ HiddenBy(r) \subseteq {r.ulid, r.to} /\ r.to \in HiddenBy(r)
        /\ KeptBy(r) \subseteq {r.ulid}
    BY <1>1 DEF HiddenBy, KeptBy
  <1> QED BY <1>1, <1>2, <1>3, <1>4, <1>5

\* The blob that delete has removed is shown until it answers or is dropped.
LEMMA RemovedShown ==
    ASSUME IInv, NEW c, c \in DOMAIN request, request[c].pc = "ready", request[c].at = "remove",
           ShownBlobs = (DOMAIN disk \ HiddenBy(request[c])) \cup KeptBy(request[c])
    PROVE  /\ request[c].op = "delete" /\ request[c].name \in Name /\ "delete" \in Calls
           /\ Requests!IsPresent(Root, request[c].name)
           /\ request[c].ulid = ver[<<fs[Requests!TargetKey(Root, request[c].name)].id,
                                      fs[Requests!TargetKey(Root, request[c].name)].latest_version>>]
           /\ DOMAIN disk = ShownBlobs \ {request[c].ulid}
           /\ request[c].ok <=> request[c].ulid \in ShownBlobs
  <1> DEFINE r == request[c]
             record == fs[Requests!TargetKey(Root, r.name)]
  <1>1. r \in InProgress /\ IsWorking(r)
    BY DEF InProgress, IsWorking
  <1>2. r.op \notin Uploads
    BY <1>1, HandlerFacts
  <1>3. r.at \in (IF r.op = "delete" THEN {"remove"} ELSE {"open", "read"})
    BY <1>1, <1>2 DEF IInv, HandlersOK
  <1>4. r.op = "delete" /\ r \in Request
    BY <1>3 DEF IInv, PipelineTypeOK
  <1>5. Requests!IsPresent(Root, r.name)
    BY <1>1, <1>2 DEF IInv, HandlersOK
  <1>6. r.ulid = ver[<<record.id, record.latest_version>>]
    BY <1>1, <1>2 DEF IInv, HandlersOK
  <1>7. r.ulid \notin DOMAIN disk
    BY <1>1 DEF IInv, DiskOK
  <1>8. HiddenBy(r) = {} /\ KeptBy(r) = IF r.ok THEN {r.ulid} ELSE {}
    BY <1>2 DEF HiddenBy, KeptBy, HasOpened, HasSealed, HasRemoved
  <1>9. r.ok \in BOOLEAN
    BY <1>4 DEF Request
  <1> QED BY <1>4, <1>5, <1>6, <1>7, <1>8, <1>9 DEF Request

\* There is an id for every request.
LEMMA RoomLeft ==
    ASSUME IInv, NEW c \in DOMAIN request, request[c].pc # "leave"
    PROVE  Requests!HasRoom
  <1>1. seq < request[c].id /\ Cardinality(DOMAIN fs) = seq /\ sent \in 0 .. MaxRequests
        /\ seq \in 0 .. sent
    BY DEF IInv, CatalogOK
  <1>2. request[c].id \in 1 .. MaxRequests
    BY DEF IInv, PipelineTypeOK, Request, RequestId
  <1>3. seq < MaxRequests
    BY <1>1, <1>2, PipelineAssumption
  <1>4. Requests!Cardinality(DOMAIN fs) = Cardinality(DOMAIN fs)
    BY DEF Requests!Cardinality, Cardinality
  <1> QED BY <1>1, <1>3, <1>4 DEF Requests!HasRoom

LEMMA ResumeUploadRefines ==
    ASSUME IInv, ~outlived, NEW c, ResumeUpload(c)
    PROVE  OneStep
  <1> DEFINE q == request[c]
  <1>1. Turn(c, "ready") /\ q.at = "create" /\ disk' = disk
    BY DEF ResumeUpload
  <1>2. /\ c \in DOMAIN request /\ queue # <<>> /\ Head(queue) = c
        /\ q.pc = "ready" /\ q \in Request /\ q.name \in Name /\ q.id \in RequestId
    BY <1>1, TurnTaken
  <1>3. q \in InProgress /\ IsWorking(q)
    BY <1>2 DEF InProgress, IsWorking
  <1>4. q.op \in Uploads /\ HasOpened(q) /\ ~HasSealed(q)
    BY <1>1, <1>2, <1>3, HandlerFacts DEF HasOpened, HasSealed
  <1>5. /\ q.op \in Calls /\ q.token \in Requests!Continuation /\ q.ulid \in Ulid
        /\ Requests!BlobFor(q.ulid, q.token)
        /\ q.token = {} => q.ulid \in Ulid \ minted
    BY <1>2, <1>3, <1>4, UploadFacts
  <1>6. ASSUME Leave(c)
        PROVE  ShownBlobs' = ShownBlobs \cup {q.ulid}
    <2>1. Advances(c) /\ request'[c].pc = "leave"
      BY <1>2, <1>6, LeaveMoves DEF Moves, IInv
    <2>2. /\ ShownBlobs = (DOMAIN disk \ HiddenBy(q)) \cup KeptBy(q)
          /\ ShownBlobs' = DOMAIN disk'
      BY <1>2, <2>1, HolderShown
    <2>3. DOMAIN disk = ShownBlobs \cup {q.ulid}
      BY <1>2, <1>4, <2>2, OpenedShown
    <2> QED BY <1>1, <2>2, <2>3
  <1>7. CASE FinishPart(c)
    <2>1. /\ q.op = "upload_part" /\ Leave(c) /\ tokens' = tokens \cup {q.ulid}
          /\ minted' = minted \cup {q.ulid} /\ catalog' = catalog
          /\ last' = Requests!Reply("upload_part", "ok")
      BY <1>7 DEF FinishPart, Answer
    <2> QED BY <1>2, <1>5, <1>6, <2>1, WriteIsOneStep
  <1>8. CASE FinishRefused(c)
    <2>1. /\ q.op = "upload" /\ Leave(c) /\ tokens' = tokens /\ ~Requests!UploadFits(Root, q.name)
          /\ minted' = minted \cup {q.ulid} /\ catalog' = catalog
          /\ last' = Requests!Reply("upload", "error")
      BY <1>8 DEF FinishRefused, Answer
    <2> QED BY <1>2, <1>5, <1>6, <2>1, WriteIsOneStep
  <1>9. CASE FinishSingle(c)
    <2>1. /\ q.op = "upload" /\ q.token = {} /\ Leave(c) /\ tokens' = tokens
          /\ Requests!UploadFits(Root, q.name)
          /\ Requests!CommitFile(Root, q.name, q.ulid, q.ulid)
          /\ minted' = minted \cup {q.ulid}
          /\ last' = Requests!Reply("upload", "ok")
      BY <1>9 DEF FinishSingle, Answer
    <2>2. Requests!HasRoom
      BY <1>2, RoomLeft
    <2> QED BY <1>2, <1>5, <1>6, <2>1, <2>2, SingleIsOneStep
  <1>10. CASE SealFragments(c)
    <2>1. UNCHANGED <<catalog, tokens, shown>>
      BY <1>10 DEF SealFragments
    <2>2. PICK to \in Ulid : Await(c, [q EXCEPT !.to = to], Operation("rename", q, q.ulid, to), {Write(q)})
      BY <1>10 DEF SealFragments
    <2> DEFINE r == [q EXCEPT !.to = to]
               op == Operation("rename", q, q.ulid, to)
    <2>3. /\ r \in Request /\ r.id = q.id /\ r.op = q.op /\ r.name = q.name /\ r.token = q.token
          /\ r.ulid = q.ulid /\ r.made = q.made
      BY <1>2 DEF Request
    <2>4. op.kind = "rename"
      BY DEF Operation
    <2> HIDE DEF r, op
    <2>5. Await(c, r, op, {Write(q)})
      BY <2>2 DEF r, op
    <2>6. Advances(c) /\ request'[c].pc = "await" /\ request'[c].at = "rename"
          /\ request'[c].ulid = q.ulid /\ request'[c].made = q.made
      BY <1>2, <2>3, <2>4, <2>5, AwaitAdvances DEF IInv
    <2>7. HasOpened(request'[c]) /\ ~HasSealed(request'[c])
      BY <1>4, <2>6 DEF HasOpened, HasSealed, Advances
    <2>8. HiddenBy(request'[c]) = HiddenBy(q) /\ KeptBy(request'[c]) = KeptBy(q)
      BY <1>1, <1>4, <2>6, <2>7 DEF HiddenBy, KeptBy, HasRemoved
    <2>9. ShownBlobs' = ShownBlobs
      BY <1>1, <1>2, <2>6, <2>8, HolderShown
    <2> QED BY <2>1, <2>9, StutterIsOneStep DEF Stutters, shown
  <1> QED BY <1>7, <1>8, <1>9, <1>10 DEF ResumeUpload

LEMMA ResumeSealedRefines ==
    ASSUME IInv, ~outlived, NEW c, ResumeSealed(c)
    PROVE  OneStep
  <1> DEFINE q == request[c]
  <1>1. Turn(c, "ready") /\ q.at = "rename" /\ UNCHANGED <<disk, tokens>> /\ Leave(c)
    BY DEF ResumeSealed, Answer
  <1>2. /\ c \in DOMAIN request /\ queue # <<>> /\ Head(queue) = c /\ q.pc = "ready"
    BY <1>1, TurnTaken
  <1>3. q \in InProgress /\ IsWorking(q)
    BY <1>2 DEF InProgress, IsWorking
  <1>4. q.op \in Uploads /\ HasOpened(q)
    BY <1>1, <1>2, <1>3, HandlerFacts DEF HasOpened
  <1>5. q.ok /\ HasSealed(q)
    BY <1>1, <1>2, <1>3, <1>4 DEF IInv, OrderOK, HasSealed
  <1>6. /\ q.name \in Name /\ q.op = "upload" /\ q.op \in Calls
        /\ q.token \in Requests!Continuation /\ q.token # {} /\ q.ulid \in q.token
        /\ q.ulid \in Ulid /\ q.to \in Ulid \ minted /\ q.to # q.ulid
        /\ Requests!UploadFits(Root, q.name)
    BY <1>1, <1>2, <1>3, <1>4, UploadFacts
  <1>7. Advances(c) /\ request'[c].pc = "leave"
    BY <1>1, <1>2, LeaveMoves DEF Moves, IInv
  <1>8. /\ ShownBlobs = (DOMAIN disk \ HiddenBy(q)) \cup KeptBy(q)
        /\ ShownBlobs' = DOMAIN disk'
    BY <1>2, <1>7, HolderShown
  <1>9. DOMAIN disk = (ShownBlobs \ {q.ulid}) \cup {q.to}
    BY <1>2, <1>5, <1>8, SealedShown
  <1>10. ShownBlobs' = (ShownBlobs \ {q.ulid}) \cup {q.to}
    BY <1>1, <1>8, <1>9
  <1>11. /\ Requests!CommitFile(Root, q.name, q.ulid, q.to)
         /\ minted' = minted \cup {q.ulid, q.to}
         /\ last' = Requests!Reply("upload", "ok")
    BY <1>5, <1>6 DEF ResumeSealed, Answer
  <1>12. Requests!HasRoom
    BY <1>2, RoomLeft
  <1> QED BY <1>1, <1>6, <1>10, <1>11, <1>12, SealIsOneStep

LEMMA ResumeDeleteRefines ==
    ASSUME IInv, NEW c, ResumeDelete(c)
    PROVE  OneStep
  <1> DEFINE q == request[c]
             blob == ver[<<fs[Requests!TargetKey(Root, q.name)].id,
                           fs[Requests!TargetKey(Root, q.name)].latest_version>>]
  <1>1. Turn(c, "ready") /\ q.at = "remove" /\ UNCHANGED <<catalog, disk, tokens, minted>> /\ Leave(c)
        /\ last' = Requests!Reply(q.op, IF q.ok THEN "ok" ELSE "error")
    BY DEF ResumeDelete, Answer
  <1>2. /\ c \in DOMAIN request /\ queue # <<>> /\ Head(queue) = c /\ q.pc = "ready"
    BY <1>1, TurnTaken
  <1>3. Advances(c) /\ request'[c].pc = "leave"
    BY <1>1, <1>2, LeaveMoves DEF Moves, IInv
  <1>4. /\ ShownBlobs = (DOMAIN disk \ HiddenBy(q)) \cup KeptBy(q)
        /\ ShownBlobs' = DOMAIN disk'
    BY <1>2, <1>3, HolderShown
  <1>5. /\ q.op = "delete" /\ q.name \in Name /\ "delete" \in Calls
        /\ Requests!IsPresent(Root, q.name) /\ q.ulid = blob
        /\ DOMAIN disk = ShownBlobs \ {q.ulid}
        /\ q.ok <=> q.ulid \in ShownBlobs
    BY <1>1, <1>2, <1>4, RemovedShown
  <1> HIDE DEF blob
  <1>6. ShownBlobs' = ShownBlobs \ {blob}
    BY <1>1, <1>4, <1>5
  <1>7. last' = Requests!Reply("delete", IF blob \in ShownBlobs THEN "ok" ELSE "error")
    BY <1>1, <1>5
  <1>8. CatalogOK
    BY DEF IInv
  <1> USE DEF blob
  <1> QED BY <1>1, <1>5, <1>6, <1>7, <1>8, DeleteIsOneStep

\* append and download have shown their answer when they opened the blob.
LEMMA LookRefines ==
    ASSUME IInv, NEW c, ResumeOpened(c) \/ ResumeRead(c)
    PROVE  OneStep
  <1> DEFINE q == request[c]
  <1>1. Turn(c, "ready") /\ q.at \in {"open", "read"} /\ UNCHANGED <<catalog, disk, tokens, shown>>
    BY DEF ResumeOpened, ResumeRead
  <1>2. /\ c \in DOMAIN request /\ queue # <<>> /\ Head(queue) = c
        /\ q.pc = "ready" /\ q \in Request /\ q \in InProgress
    BY <1>1, TurnTaken DEF InProgress
  <1>3. q.op \notin Uploads
    BY <1>1, <1>2, HandlerFacts
  <1>4. Advances(c) /\ (request'[c].pc = "leave" \/ (request'[c].pc = "await" /\ request'[c].at = "read"))
    <2>1. CASE Leave(c)
      BY <1>2, <2>1, LeaveMoves DEF Moves, IInv
    <2>2. CASE \E others : Await(c, q, Operation("read", q, NoUlid, NoUlid), others)
      <3>1. PICK others : Await(c, q, Operation("read", q, NoUlid, NoUlid), others)
        BY <2>2
      <3> DEFINE op == Operation("read", q, NoUlid, NoUlid)
      <3>2. op.kind = "read"
        BY DEF Operation
      <3> HIDE DEF op
      <3>3. Await(c, q, op, others)
        BY <3>1 DEF op
      <3> QED BY <1>2, <3>2, <3>3, AwaitAdvances DEF IInv
    <2>3. Leave(c) \/ \E others : Await(c, q, Operation("read", q, NoUlid, NoUlid), others)
      BY DEF ResumeOpened, ResumeRead
    <2> QED BY <2>1, <2>2, <2>3
  <1>5. HiddenBy(q) = {} /\ KeptBy(q) = {}
    BY <1>1, <1>3, NothingHidden DEF HasOpened, HasSealed, HasRemoved
  <1>6. request'[c].pc # "leave" => HiddenBy(request'[c]) = {} /\ KeptBy(request'[c]) = {}
    BY <1>4, NothingHidden DEF HasOpened, HasSealed, HasRemoved
  <1>7. ShownBlobs' = ShownBlobs
    BY <1>1, <1>2, <1>4, <1>5, <1>6, HolderShown
  <1> QED BY <1>1, <1>7, StutterIsOneStep DEF Stutters, shown

-----------------------------------------------------------------------------
(***************************************************************************)
(* Requests that come and go.                                              *)
(***************************************************************************)
LEMMA IdleRefines ==
    ASSUME IInv, NEW c,
           \/ Send(c) \/ DropWaiting(c) \/ Release(c)
           \/ Quiet
    PROVE  OneStep
  <1>1. UNCHANGED <<catalog, disk, tokens, shown>>
    BY DEF Send, DropWaiting, Release, Quiet, vars
  <1>2. InProgress' = InProgress
    <2>1. CASE Send(c)
      <3>1. /\ c \notin DOMAIN request /\ DOMAIN request' = DOMAIN request \cup {c}
            /\ request'[c].pc = "queued" /\ \A d \in DOMAIN request : request'[d] = request[d]
        BY <2>1 DEF Send, Insert
      <3> QED BY <3>1, SameInProgress
    <2>2. CASE DropWaiting(c) \/ Release(c)
      <3>1. request' = Remove(request, c) /\ c \in DOMAIN request /\ request[c].pc \in {"queued", "leave"}
        BY <2>2, TurnTaken DEF DropWaiting, Release, Turn
      <3>2. /\ DOMAIN request' = DOMAIN request \ {c}
            /\ \A d \in DOMAIN request' : request'[d] = request[d]
        BY <3>1 DEF Remove
      <3> QED BY <3>1, <3>2, SameInProgress
    <2>3. CASE Quiet
      <3>1. request' = request
        BY <2>3 DEF Quiet, vars
      <3> QED BY <3>1 DEF InProgress
    <2> QED BY <2>1, <2>2, <2>3
  <1>3. ShownBlobs' = ShownBlobs
    BY <1>1, <1>2, SameShown
  <1> QED BY <1>1, <1>3, StutterIsOneStep DEF Stutters, shown

-----------------------------------------------------------------------------
(***************************************************************************)
(* Handlers that are dropped at an await, or stopped by a crash.           *)
(***************************************************************************)
LEMMA ProgressIsOneStep ==
    ASSUME IInv, ~outlived, ShowProgress, UNCHANGED <<catalog, disk, tokens>>, InProgress' = {}
    PROVE  OneStep
  <1>1. ShownBlobs' = DOMAIN disk
    BY ShownIdle
  <1>2. CASE InProgress = {}
    <2>1. { r \in InProgress : HasOpened(r) } = {}
          /\ { r \in InProgress : r.pc = "ready" /\ r.at = "remove" } = {}
      BY <1>2
    <2>2. minted' = minted \cup { r.ulid : r \in {} } \cup { r.to : r \in { s \in {} : HasSealed(s) } }
          /\ last' = last
      BY <2>1 DEF ShowProgress
    <2>3. minted' = minted
      BY <2>2
    <2>4. ShownBlobs' = ShownBlobs
      BY <1>1, <1>2, ShownIdle
    <2> QED BY <2>2, <2>3, <2>4, StutterIsOneStep DEF Stutters
  <1>3. ASSUME NEW c \in DOMAIN request, request[c].pc \in {"await", "ready"}
        PROVE  OneStep
    <2> DEFINE r == request[c]
    <2>1. queue # <<>> /\ Head(queue) = c
      BY <1>3, OnlyHolder DEF IInv, PipelineTypeOK
    <2>2. InProgress = {r} /\ IsWorking(r)
      BY <1>3, <2>1, SoleInProgress DEF IsWorking, IInv
    <2>3. ShownBlobs = (DOMAIN disk \ HiddenBy(r)) \cup KeptBy(r)
      BY <2>2, ShownBusy
    <2>4. minted' = minted \cup (IF HasOpened(r) THEN {r.ulid} ELSE {})
                           \cup (IF HasSealed(r) THEN {r.to} ELSE {})
      BY <1>3, ShownProgress
    <2>5. /\ { s \in InProgress : HasOpened(s) } = (IF HasOpened(r) THEN {r} ELSE {})
          /\ { s \in InProgress : s.pc = "ready" /\ s.at = "remove" }
                = (IF r.pc = "ready" /\ r.at = "remove" THEN {r} ELSE {})
      BY <2>2
    <2>6. last' = IF HasOpened(r) THEN Requests!Reply("upload", "dropped")
                  ELSE IF r.pc = "ready" /\ r.at = "remove" THEN Requests!Reply("delete", "dropped")
                  ELSE last
      BY <2>5 DEF ShowProgress
    <2>7. HasSealed(r) => HasOpened(r)
      BY <1>3, <2>2, HandlerFacts DEF HasSealed, HasOpened
    <2>8. CASE HasSealed(r)
      <3>1. /\ r.op \in Uploads /\ r.at = "rename"
            /\ ShownBlobs' = (ShownBlobs \ {r.ulid}) \cup {r.to}
        BY <1>1, <1>3, <2>3, <2>8, SealedShown
      <3>2. /\ r.name \in Name /\ Uploads \cap Calls # {}
            /\ r.token \in Requests!Continuation /\ r.token # {} /\ r.ulid \in r.token
            /\ r.ulid \in Ulid /\ r.to \in Ulid \ minted /\ r.to # r.ulid
            /\ Requests!UploadFits(Root, r.name)
        BY <1>3, <2>2, <3>1, UploadFacts
      <3>3. minted' = minted \cup {r.ulid, r.to} /\ last' = Requests!Reply("upload", "dropped")
        BY <2>4, <2>6, <2>7, <2>8
      <3> QED BY <3>1, <3>2, <3>3, SealIsOneStep
    <2>9. CASE HasOpened(r) /\ ~HasSealed(r)
      <3>1. ShownBlobs' = ShownBlobs \cup {r.ulid}
        BY <1>1, <1>3, <2>3, <2>9, OpenedShown
      <3>2. r.op \in Uploads
        BY <2>9 DEF HasOpened
      <3>3. /\ r.name \in Name /\ Uploads \cap Calls # {}
            /\ r.token \in Requests!Continuation /\ r.ulid \in Ulid
            /\ Requests!BlobFor(r.ulid, r.token)
        BY <1>3, <2>2, <3>2, UploadFacts
      <3>4. minted' = minted \cup {r.ulid} /\ last' = Requests!Reply("upload", "dropped")
        BY <2>4, <2>6, <2>9
      <3> QED BY <3>1, <3>3, <3>4, WriteIsOneStep
    <2>10. CASE ~HasOpened(r) /\ r.pc = "ready" /\ r.at = "remove"
      <3> DEFINE blob == ver[<<fs[Requests!TargetKey(Root, r.name)].id,
                               fs[Requests!TargetKey(Root, r.name)].latest_version>>]
      <3>1. /\ r.name \in Name /\ "delete" \in Calls
            /\ Requests!IsPresent(Root, r.name) /\ r.ulid = blob
            /\ DOMAIN disk = ShownBlobs \ {r.ulid}
        BY <1>3, <2>3, <2>10, RemovedShown
      <3>2. minted' = minted /\ last' = Requests!Reply("delete", "dropped")
        BY <2>4, <2>6, <2>7, <2>10
      <3>3. CatalogOK /\ ShownBlobs' = ShownBlobs \ {blob}
        BY <1>1, <3>1 DEF IInv
      <3> QED BY <3>1, <3>2, <3>3, DeleteIsOneStep
    <2>11. CASE ~HasOpened(r) /\ ~(r.pc = "ready" /\ r.at = "remove")
      <3>1. HiddenBy(r) = {} /\ KeptBy(r) = {}
        BY <2>7, <2>11, NothingHidden DEF HasRemoved
      <3>2. minted' = minted /\ last' = last
        BY <2>4, <2>6, <2>7, <2>11
      <3>3. ShownBlobs' = ShownBlobs
        BY <1>1, <2>3, <3>1
      <3> QED BY <3>2, <3>3, StutterIsOneStep DEF Stutters
    <2> QED BY <2>8, <2>9, <2>10, <2>11
  <1>4. InProgress # {} => \E c \in DOMAIN request : request[c].pc \in {"await", "ready"}
    BY DEF InProgress
  <1> QED BY <1>2, <1>3, <1>4

LEMMA DropRefines ==
    ASSUME IInv, ~outlived, NEW c, DropHandler(c) \/ Crash
    PROVE  OneStep
  <1>1. ShowProgress /\ UNCHANGED <<catalog, disk, tokens>>
    BY DEF DropHandler, Crash
  <1>2. InProgress' = {}
    <2>1. CASE DropHandler(c)
      <3>1. c \in DOMAIN request /\ queue # <<>> /\ Head(queue) = c /\ Leave(c)
        BY <2>1, OnlyHolder DEF DropHandler, IInv, PipelineTypeOK
      <3>2. Advances(c) /\ request'[c].pc = "leave"
        BY <3>1, LeaveMoves DEF Moves, IInv
      <3> QED BY <3>2, NextInProgress DEF IInv
    <2>2. CASE Crash
      <3>1. DOMAIN request' = {}
        BY <2>2 DEF Crash, EmptyTable
      <3> QED BY <3>1 DEF InProgress
    <2> QED BY <2>1, <2>2
  <1> QED BY <1>1, <1>2, ProgressIsOneStep

-----------------------------------------------------------------------------
(***************************************************************************)
(* The blocking pool.                                                      *)
(***************************************************************************)
\* An operation whose handler was dropped has not outlived the request yet: the
\* task has not let go of the mutex.
LEMMA DroppedOwner ==
    ASSUME IInv, ~outlived, NEW op \in pool, op.kind # "write"
    PROVE  \E d \in DOMAIN request :
              /\ request[d].id = op.by /\ IsWorking(request[d]) /\ request[d].at = op.kind
              /\ op.kind # "read" => request[d].ulid = op.ulid
              /\ op.kind = "rename" => request[d].to = op.to
  <1>1. PICK d \in DOMAIN request : request[d].id = op.by
    BY DEF IInv, OrderOK
  <1>2. IsWorking(request[d])
    BY <1>1 DEF IsWorking
  <1>3. /\ request[d].at = op.kind
        /\ op.kind # "read" => request[d].ulid = op.ulid
        /\ op.kind = "rename" => request[d].to = op.to
    BY <1>1 DEF IInv, PoolOK
  <1> QED BY <1>1, <1>2, <1>3

LEMMA UploadKinds ==
    ASSUME IInv, NEW d \in DOMAIN request, IsWorking(request[d])
    PROVE  /\ request[d].at \in {"create", "rename"} => request[d].op \in Uploads
           /\ request[d].at = "remove" => request[d].op = "delete"
           /\ request[d].at = "open" => request[d].op \in Calls \cap {"append", "download"}
           /\ request[d].op \notin Uploads =>
                 /\ request[d].name \in Name /\ request[d].op \in Calls
                 /\ Requests!IsPresent(Root, request[d].name)
                 /\ request[d].ulid = ver[<<fs[Requests!TargetKey(Root, request[d].name)].id,
                                            fs[Requests!TargetKey(Root, request[d].name)].latest_version>>]
           /\ request[d].at = "remove" => request[d].op \notin Uploads
           /\ request[d].at = "open" => request[d].op \notin Uploads
  <1> DEFINE r == request[d]
             record == fs[Requests!TargetKey(Root, r.name)]
  <1>1. r.name \in Name /\ r.op \in Calls
    BY DEF IInv, PipelineTypeOK, Request
  <1>2. r.op \in Uploads => r.at \in {"create", "rename"}
    BY DEF IInv, HandlersOK
  <1>3. r.op \notin Uploads => r.at \in (IF r.op = "delete" THEN {"remove"} ELSE {"open", "read"})
    BY DEF IInv, HandlersOK
  <1>4. r.op \notin Uploads => Requests!IsPresent(Root, r.name)
    BY DEF IInv, HandlersOK
  <1>5. r.op \notin Uploads => r.ulid = ver[<<record.id, record.latest_version>>]
    BY DEF IInv, HandlersOK
  <1>6. r.op \notin Uploads /\ r.op # "delete" => r.op \in {"append", "download"}
    BY <1>1, PipelineAssumption DEF Uploads
  <1> HIDE DEF r, record
  <1>7. /\ r.at \in {"create", "rename"} => r.op \in Uploads
        /\ r.at = "remove" => r.op = "delete" /\ r.op \notin Uploads
        /\ r.at = "open" => r.op \in Calls \cap {"append", "download"} /\ r.op \notin Uploads
    BY <1>1, <1>2, <1>3, <1>6
  <1> USE DEF r, record
  <1> QED BY <1>1, <1>4, <1>5, <1>7

\* Nobody sees what read, and the data of upload and append, do.
LEMMA LandWriteRefines ==
    ASSUME IInv, NEW op, Landing(op), LandWrite(op)
    PROVE  OneStep
  <1>1. UNCHANGED <<catalog, disk, tokens, shown, request>>
    BY DEF Landing, LandWrite
  <1>2. InProgress' = InProgress
    BY <1>1 DEF InProgress
  <1>3. ShownBlobs' = ShownBlobs
    BY <1>1, <1>2, SameShown
  <1> QED BY <1>1, <1>3, StutterIsOneStep DEF Stutters, shown

LEMMA LandReadRefines ==
    ASSUME IInv, NEW op, Landing(op), LandRead(op)
    PROVE  OneStep
  <1>1. Ended(op, TRUE) /\ op.kind = "read" /\ UNCHANGED <<catalog, disk, tokens, shown>>
    BY DEF Landing, LandRead
  <1>2. Ends(op) /\ \A c \in DOMAIN request : WaitsFor(request[c], op) => Moves(c, "ready")
    BY <1>1, EndedEnds
  <1>3. ShownBlobs' = ShownBlobs
    <2>1. CASE IsDropped(op)
      BY <1>1, <1>2, <2>1, EndsInProgress, SameShown
    <2>2. ASSUME NEW c \in DOMAIN request, WaitsFor(request[c], op)
          PROVE  ShownBlobs' = ShownBlobs
      <3>1. /\ Advances(c) /\ request[c].pc = "await" /\ request'[c].pc = "ready"
            /\ request[c].at = "read" /\ request'[c].at = "read" /\ IsWorking(request[c])
        BY <1>1, <1>2, <2>2 DEF WaitsFor, Moves, IsWorking
      <3>2. request[c].op \notin Uploads /\ request'[c].op \notin Uploads
        BY <3>1, UploadFacts DEF Advances
      <3>3. /\ HiddenBy(request[c]) = {} /\ KeptBy(request[c]) = {}
            /\ HiddenBy(request'[c]) = {} /\ KeptBy(request'[c]) = {}
        BY <3>1, <3>2, NothingHidden DEF HasOpened, HasSealed, HasRemoved
      <3> QED BY <1>1, <3>1, <3>3, HolderShown
    <2> QED BY <2>1, <2>2 DEF IsDropped
  <1> QED BY <1>1, <1>3, StutterIsOneStep DEF Stutters, shown

LEMMA LandOpenRefines ==
    ASSUME IInv, NEW op, Landing(op), LandOpen(op)
    PROVE  OneStep
  <1> DEFINE found == op.ulid \in DOMAIN disk
             file == IF found THEN disk[op.ulid] ELSE 0
  <1>1. Opened(op, found, file, FALSE) /\ op.kind = "open" /\ UNCHANGED <<catalog, disk, tokens, minted>>
    BY DEF Landing, LandOpen
  <1>2. last' = IF IsDropped(op) THEN last
                ELSE Requests!Reply(request[Head(queue)].op, IF found THEN "ok" ELSE "error")
    BY DEF LandOpen
  <1>3. file \in 0 .. MaxRequests
    BY PipelineAssumption DEF IInv, PipelineTypeOK, RequestId
  <1>4. Ends(op) /\ GoesOnWith(op, file)
    <2> HIDE DEF file
    <2>1. found \in BOOLEAN /\ FALSE \in BOOLEAN
      OBVIOUS
    <2> HIDE DEF found
    <2> QED BY <1>1, <1>3, <2>1, OpenedEnds
  <1> HIDE DEF file
  <1>5. CASE IsDropped(op)
    <2>1. ShownBlobs' = ShownBlobs
      BY <1>1, <1>4, <1>5, EndsInProgress, SameShown
    <2> QED BY <1>1, <1>2, <1>5, <2>1, StutterIsOneStep DEF Stutters
  <1>6. ASSUME NEW c \in DOMAIN request, WaitsFor(request[c], op)
        PROVE  OneStep
    <2> DEFINE r == request[c]
    <2>1. /\ Advances(c) /\ r.pc = "await" /\ request'[c].pc = "ready" /\ Head(queue) = c
          /\ r.at = "open" /\ request'[c].at = "open" /\ IsWorking(r) /\ request'[c].op = r.op
      BY <1>1, <1>4, <1>6 DEF WaitsFor, GoesOnWith, Advances, IsWorking
    <2>2. r.op \in Calls \cap {"append", "download"} /\ r.op \notin Uploads
          /\ r.name \in Name /\ Requests!IsPresent(Root, r.name)
          /\ r.ulid = ver[<<fs[Requests!TargetKey(Root, r.name)].id,
                            fs[Requests!TargetKey(Root, r.name)].latest_version>>]
      BY <2>1, UploadKinds
    <2>3. /\ HiddenBy(r) = {} /\ KeptBy(r) = {}
          /\ HiddenBy(request'[c]) = {} /\ KeptBy(request'[c]) = {}
      BY <2>1, <2>2, NothingHidden DEF HasOpened, HasSealed, HasRemoved
    <2>4. ShownBlobs = DOMAIN disk /\ ShownBlobs' = ShownBlobs
      BY <1>1, <2>1, <2>3, HolderShown
    <2>5. r.ulid = op.ulid /\ op \in pool
      BY <1>1, <1>6, WaitingFor DEF Landing
    <2>6. ~IsDropped(op)
      BY <1>6 DEF IsDropped
    <2>7. last' = Requests!Reply(r.op, IF r.ulid \in ShownBlobs THEN "ok" ELSE "error")
      BY <1>2, <2>1, <2>4, <2>5, <2>6
    <2>8. CatalogOK
      BY DEF IInv
    <2> QED BY <1>1, <2>2, <2>4, <2>7, <2>8, LookIsOneStep
  <1> QED BY <1>5, <1>6 DEF IsDropped

\* A blob that open has made is not shown until the handler goes on, and shows
\* late if it was dropped.
LEMMA LandCreateRefines ==
    ASSUME IInv, ~outlived, NEW op, Landing(op), LandCreate(op)
    PROVE  OneStep
  <1> DEFINE made == op.ulid \notin DOMAIN disk
             file == IF made THEN op.by ELSE disk[op.ulid]
  <1>1. /\ op \in pool /\ op.kind = "create" /\ DOMAIN disk' = DOMAIN disk \cup {op.ulid}
        /\ Opened(op, TRUE, file, made) /\ ShowLate(op, "upload", {op.ulid})
        /\ UNCHANGED <<catalog, tokens>>
    BY DEF Landing, LandCreate, Insert
  <1>2. file \in 0 .. MaxRequests /\ made \in BOOLEAN
    BY <1>1, PipelineAssumption DEF IInv, PipelineTypeOK, RequestId, FileOperation
  <1>3. Ends(op) /\ GoesOnWith(op, file)
    <2>1. TRUE \in BOOLEAN
      OBVIOUS
    <2> HIDE DEF file, made
    <2> QED BY <1>1, <1>2, <2>1, OpenedEnds
  <1>4. CASE IsDropped(op)
    <2>1. InProgress = {} /\ InProgress' = {}
      BY <1>1, <1>3, <1>4, EndsInProgress
    <2>2. ShownBlobs' = ShownBlobs \cup {op.ulid}
      BY <1>1, <2>1, ShownIdle
    <2>3. minted' = minted \cup {op.ulid} /\ last' = Requests!Reply("upload", "dropped")
      BY <1>1, <1>4 DEF ShowLate
    <2>4. PICK d \in DOMAIN request : /\ IsWorking(request[d]) /\ request[d].at = "create"
                                      /\ request[d].ulid = op.ulid
      BY <1>1, DroppedOwner
    <2>5. request[d].op \in Uploads
      BY <2>4, UploadKinds
    <2>6. /\ request[d].name \in Name /\ Uploads \cap Calls # {}
          /\ request[d].token \in Requests!Continuation /\ op.ulid \in Ulid
          /\ Requests!BlobFor(op.ulid, request[d].token)
      BY <2>4, <2>5, UploadFacts
    <2> QED BY <1>1, <2>2, <2>3, <2>6, WriteIsOneStep
  <1>5. ASSUME NEW c \in DOMAIN request, WaitsFor(request[c], op)
        PROVE  OneStep
    <2> DEFINE r == request[c]
    <2>1. /\ Advances(c) /\ r.pc = "await" /\ request'[c].pc = "ready"
          /\ r.at = "create" /\ request'[c].at = "create" /\ request'[c].op = r.op
          /\ request'[c].ulid = r.ulid /\ IsWorking(r)
      BY <1>1, <1>3, <1>5 DEF WaitsFor, GoesOnWith, Advances, IsWorking
    <2>2. request'[c].made = made
      <3> HIDE DEF made, file
      <3>1. r \in Request
        BY DEF IInv, PipelineTypeOK
      <3>2. request'[c] = [r EXCEPT !.pc = "ready", !.ok = TRUE, !.file = file, !.made = made]
        BY <1>1, <1>5 DEF Opened
      <3> QED BY <3>1, <3>2 DEF Request
    <2>3. r.op \in Uploads /\ r.ulid = op.ulid
      BY <1>1, <1>5, <2>1, UploadKinds, WaitingFor
    <2>4. HiddenBy(r) = {} /\ KeptBy(r) = {}
      BY <2>1, NothingHidden DEF HasOpened, HasSealed, HasRemoved
    <2>5. /\ HiddenBy(request'[c]) = (IF op.ulid \in DOMAIN disk THEN {} ELSE {op.ulid})
          /\ KeptBy(request'[c]) = {}
      BY <2>1, <2>2, <2>3 DEF HiddenBy, KeptBy, HasOpened, HasSealed, HasRemoved
    <2>6. ShownBlobs = DOMAIN disk
      BY <2>1, <2>4, HolderShown
    <2>7. ShownBlobs' = (DOMAIN disk' \ HiddenBy(request'[c])) \cup KeptBy(request'[c])
      BY <2>1, HolderShown
    <2>8. ShownBlobs' = ShownBlobs
      BY <1>1, <2>5, <2>6, <2>7
    <2>9. UNCHANGED shown
      BY <1>1, <1>5 DEF ShowLate, IsDropped
    <2> QED BY <1>1, <2>8, <2>9, StutterIsOneStep DEF Stutters, shown
  <1> QED BY <1>4, <1>5 DEF IsDropped

\* The new name is not shown until the handler has committed, and the old one
\* is.
LEMMA LandRenameRefines ==
    ASSUME IInv, ~outlived, NEW op, Landing(op), LandRename(op)
    PROVE  OneStep
  <1> DEFINE found == op.ulid \in DOMAIN disk
  <1>1. /\ op \in pool /\ op.kind = "rename" /\ UNCHANGED <<catalog, tokens>>
        /\ DOMAIN disk' = IF found THEN (DOMAIN disk \ {op.ulid}) \cup {op.to} ELSE DOMAIN disk
        /\ Ended(op, found)
        /\ IF found THEN ShowLate(op, "upload", {op.to}) ELSE UNCHANGED shown
    BY DEF Landing, LandRename, Insert, Remove
  <1>2. found \in BOOLEAN
    OBVIOUS
  <1>3. /\ Ends(op)
        /\ \A c \in DOMAIN request : WaitsFor(request[c], op) =>
              Moves(c, "ready") /\ request'[c].ok = found
    <2> HIDE DEF found
    <2> QED BY <1>1, <1>2, EndedEnds
  <1>4. CASE IsDropped(op)
    <2>1. InProgress = {} /\ InProgress' = {}
      BY <1>1, <1>3, <1>4, EndsInProgress
    <2>2. ShownBlobs = DOMAIN disk /\ ShownBlobs' = DOMAIN disk'
      BY <2>1, ShownIdle
    <2>3. CASE ~found
      BY <1>1, <2>2, <2>3, StutterIsOneStep DEF Stutters, shown
    <2>4. CASE found
      <3>1. /\ ShownBlobs' = (ShownBlobs \ {op.ulid}) \cup {op.to}
            /\ minted' = minted \cup {op.to} /\ last' = Requests!Reply("upload", "dropped")
        BY <1>1, <1>4, <2>2, <2>4 DEF ShowLate
      <3>2. PICK d \in DOMAIN request :
               /\ IsWorking(request[d]) /\ request[d].at = "rename"
               /\ request[d].ulid = op.ulid /\ request[d].to = op.to
        BY <1>1, DroppedOwner
      <3>3. request[d].op \in Uploads
        BY <3>2, UploadKinds
      <3>4. /\ request[d].name \in Name /\ Uploads \cap Calls # {}
            /\ request[d].token \in Requests!Continuation /\ request[d].token # {}
            /\ op.ulid \in request[d].token /\ op.ulid \in Ulid /\ op.ulid \in minted
            /\ op.to \in Ulid \ minted /\ op.to # op.ulid
            /\ Requests!UploadFits(Root, request[d].name)
        BY <3>2, <3>3, UploadFacts
      <3>5. minted' = minted \cup {op.ulid, op.to}
        BY <3>1, <3>4
      <3> QED BY <1>1, <3>1, <3>4, <3>5, SealIsOneStep
    <2> QED BY <2>3, <2>4
  <1>5. ASSUME NEW c \in DOMAIN request, WaitsFor(request[c], op)
        PROVE  OneStep
    <2> DEFINE r == request[c]
    <2>1. /\ Advances(c) /\ r.pc = "await" /\ request'[c].pc = "ready"
          /\ r.at = "rename" /\ request'[c].at = "rename" /\ request'[c].op = r.op
          /\ request'[c].ulid = r.ulid /\ request'[c].to = r.to /\ request'[c].made = r.made
          /\ request'[c].ok = found /\ IsWorking(r) /\ r \in InProgress
      BY <1>1, <1>3, <1>5 DEF WaitsFor, Moves, Advances, IsWorking, InProgress
    <2>2. r.op \in Uploads /\ r.ulid = op.ulid /\ r.to = op.to
      BY <1>1, <1>5, <2>1, UploadKinds, WaitingFor
    <2>3. r.to \in Ulid \ minted /\ r.to # r.ulid
      BY <2>1, <2>2, UploadFacts
    <2>4. HasOpened(r) /\ ~HasSealed(r)
      BY <2>1, <2>2 DEF HasOpened, HasSealed
    <2>5. found
      BY <2>1, <2>2, <2>4 DEF IInv, OrderOK
    <2>6. r.to \notin DOMAIN disk
      <3>1. InProgress = {r}
        BY <1>3, <1>5, EndsInProgress
      <3>2. r.to \in DOMAIN disk \ minted => r.to = r.ulid
        BY <2>4, <3>1 DEF IInv, DiskOK
      <3> QED BY <2>3, <3>2
    <2>7. HiddenBy(r) = (IF r.made THEN {r.ulid} ELSE {}) /\ KeptBy(r) = {}
      BY <2>1, <2>4 DEF HiddenBy, KeptBy, HasRemoved
    <2>8. /\ HiddenBy(request'[c]) = (IF r.made THEN {r.ulid} ELSE {}) \cup {r.to}
          /\ KeptBy(request'[c]) = (IF r.made THEN {} ELSE {r.ulid})
      BY <2>1, <2>2, <2>5 DEF HiddenBy, KeptBy, HasOpened, HasSealed, HasRemoved
    <2>9. /\ ShownBlobs = (DOMAIN disk \ HiddenBy(r)) \cup KeptBy(r)
          /\ ShownBlobs' = (DOMAIN disk' \ HiddenBy(request'[c])) \cup KeptBy(request'[c])
      BY <2>1, HolderShown
    <2>10. ShownBlobs' = ShownBlobs
      BY <1>1, <2>2, <2>3, <2>5, <2>6, <2>7, <2>8, <2>9
    <2>11. UNCHANGED shown
      BY <1>1, <1>5, <2>5 DEF ShowLate, IsDropped
    <2> QED BY <1>1, <2>10, <2>11, StutterIsOneStep DEF Stutters, shown
  <1> QED BY <1>4, <1>5 DEF IsDropped

\* The blob that delete removes is shown until the handler has answered.
LEMMA LandRemoveRefines ==
    ASSUME IInv, ~outlived, NEW op, Landing(op), LandRemove(op)
    PROVE  OneStep
  <1> DEFINE found == op.ulid \in DOMAIN disk
  <1>1. /\ op \in pool /\ op.kind = "remove" /\ UNCHANGED <<catalog, tokens>>
        /\ DOMAIN disk' = DOMAIN disk \ {op.ulid}
        /\ Ended(op, found)
        /\ IF found THEN ShowLate(op, "delete", {}) ELSE UNCHANGED shown
    BY DEF Landing, LandRemove, Remove
  <1>2. found \in BOOLEAN
    OBVIOUS
  <1>3. /\ Ends(op)
        /\ \A c \in DOMAIN request : WaitsFor(request[c], op) =>
              Moves(c, "ready") /\ request'[c].ok = found
    <2> HIDE DEF found
    <2> QED BY <1>1, <1>2, EndedEnds
  <1>4. CASE IsDropped(op)
    <2>1. InProgress = {} /\ InProgress' = {}
      BY <1>1, <1>3, <1>4, EndsInProgress
    <2>2. ShownBlobs = DOMAIN disk /\ ShownBlobs' = DOMAIN disk \ {op.ulid}
      BY <1>1, <2>1, ShownIdle
    <2>3. CASE ~found
      <3>1. ShownBlobs' = ShownBlobs
        BY <2>2, <2>3
      <3> QED BY <1>1, <2>3, <3>1, StutterIsOneStep DEF Stutters, shown
    <2>4. CASE found
      <3>1. minted' = minted /\ last' = Requests!Reply("delete", "dropped")
        BY <1>1, <1>4, <2>4 DEF ShowLate
      <3>2. PICK d \in DOMAIN request : /\ IsWorking(request[d]) /\ request[d].at = "remove"
                                        /\ request[d].ulid = op.ulid
        BY <1>1, DroppedOwner
      <3> DEFINE blob == ver[<<fs[Requests!TargetKey(Root, request[d].name)].id,
                               fs[Requests!TargetKey(Root, request[d].name)].latest_version>>]
      <3>3. /\ request[d].op = "delete" /\ request[d].name \in Name /\ "delete" \in Calls
            /\ Requests!IsPresent(Root, request[d].name) /\ op.ulid = blob
        BY <3>2, UploadKinds
      <3>4. CatalogOK /\ ShownBlobs' = ShownBlobs \ {blob}
        BY <2>2, <3>3 DEF IInv
      <3> QED BY <1>1, <3>1, <3>3, <3>4, DeleteIsOneStep
    <2> QED BY <2>3, <2>4
  <1>5. ASSUME NEW c \in DOMAIN request, WaitsFor(request[c], op)
        PROVE  OneStep
    <2> DEFINE r == request[c]
    <2>1. /\ Advances(c) /\ r.pc = "await" /\ request'[c].pc = "ready"
          /\ r.at = "remove" /\ request'[c].at = "remove" /\ request'[c].op = r.op
          /\ request'[c].ulid = r.ulid /\ request'[c].ok = found /\ IsWorking(r)
      BY <1>1, <1>3, <1>5 DEF WaitsFor, Moves, Advances, IsWorking
    <2>2. r.op \notin Uploads /\ r.ulid = op.ulid
      BY <1>1, <1>5, <2>1, UploadKinds, WaitingFor
    <2>3. HiddenBy(r) = {} /\ KeptBy(r) = {}
      BY <2>1, NothingHidden DEF HasOpened, HasSealed, HasRemoved
    <2>4. /\ HiddenBy(request'[c]) = {}
          /\ KeptBy(request'[c]) = (IF found THEN {op.ulid} ELSE {})
      BY <2>1, <2>2 DEF HiddenBy, KeptBy, HasOpened, HasSealed, HasRemoved
    <2>5. /\ ShownBlobs = (DOMAIN disk \ HiddenBy(r)) \cup KeptBy(r)
          /\ ShownBlobs' = (DOMAIN disk' \ HiddenBy(request'[c])) \cup KeptBy(request'[c])
      BY <2>1, HolderShown
    <2>6. ShownBlobs' = ShownBlobs
      BY <1>1, <2>3, <2>4, <2>5
    <2>7. UNCHANGED shown
      BY <1>1, <1>5 DEF ShowLate, IsDropped
    <2> QED BY <1>1, <2>6, <2>7, StutterIsOneStep DEF Stutters, shown
  <1> QED BY <1>4, <1>5 DEF IsDropped

-----------------------------------------------------------------------------
LEMMA InitRefines == Init => Requests!Init
  <1> SUFFICES ASSUME Init PROVE Requests!Init
    OBVIOUS
  <1>1. InProgress = {}
    BY DEF Init, InProgress, EmptyTable
  <1>2. DOMAIN disk = {}
    BY DEF Init, EmptyTable
  <1>3. ShownBlobs = {}
    BY <1>1, <1>2, ShownIdle
  <1> QED BY <1>3 DEF Init, Requests!Init, EmptyTable, Requests!EmptyTable

LEMMA StepRefines == IInv /\ [Next]_vars => [outlived' \/ Requests!Next]_(Requests!vars)
  <1> SUFFICES ASSUME IInv, [Next]_vars, ~outlived' PROVE OneStep
    BY DEF OneStep
  <1>1. CASE UNCHANGED vars
    <2>1. UNCHANGED <<catalog, disk, request, tokens, shown>>
      BY <1>1 DEF vars
    <2>2. InProgress' = InProgress
      BY <2>1 DEF InProgress
    <2>3. ShownBlobs' = ShownBlobs
      BY <2>1, <2>2, SameShown
    <2> QED BY <2>1, <2>3, StutterIsOneStep DEF Stutters, shown
  <1>2. CASE Next
    <2>1. ASSUME NEW c \in Client, Send(c) \/ DropWaiting(c) \/ Release(c)
          PROVE  OneStep
      BY <2>1, IdleRefines
    <2>2. ASSUME NEW c \in Client, StartUpload(c) \/ StartOther(c)
          PROVE  OneStep
      BY <2>2, StartUploadRefines, StartOtherRefines
    <2>3. ASSUME NEW c \in Client, Resume(c)
          PROVE  OneStep
      <3>1. outlived' = outlived
        BY <2>3 DEF Resume, ResumeUpload, ResumeSealed, ResumeDelete, ResumeOpened, ResumeRead, counts
      <3> QED BY <2>3, <3>1, ResumeUploadRefines, ResumeSealedRefines, ResumeDeleteRefines, LookRefines
              DEF Resume
    <2>4. ASSUME NEW c \in Client, DropHandler(c)
          PROVE  OneStep
      <3>1. outlived' = outlived
        BY <2>4 DEF DropHandler, counts
      <3> QED BY <2>4, <3>1, DropRefines
    <2>5. ASSUME NEW id \in 1 .. sent, Land(id)
          PROVE  OneStep
      <3>1. outlived' = outlived
        BY <2>5 DEF Land, counts
      <3>2. PICK op \in pool :
               /\ pool' = pool \ {op}
               /\ \/ LandCreate(op) \/ LandOpen(op) \/ LandWrite(op)
                  \/ LandRead(op) \/ LandRename(op) \/ LandRemove(op)
        BY <2>5 DEF Land
      <3>3. Landing(op)
        BY <2>5, <3>2 DEF Land, Landing
      <3> QED BY <3>1, <3>2, <3>3, LandCreateRefines, LandOpenRefines, LandWriteRefines,
                 LandReadRefines, LandRenameRefines, LandRemoveRefines
    <2>6. CASE Crash
      <3>1. outlived' = outlived
        BY <2>6 DEF Crash
      <3> QED BY <2>6, <3>1, DropRefines
    <2>7. CASE Quiet
      BY <2>7, IdleRefines
    <2> QED BY <1>2, <2>1, <2>2, <2>3, <2>4, <2>5, <2>6, <2>7 DEF Next, Handle
  <1> QED BY <1>1, <1>2

(***************************************************************************)
(* The handlers of database.rs, with all the ways in which they are        *)
(* dropped at their awaits or stopped by a crash, do what the single steps *)
(* of DatabaseStorage do, until an operation of the blocking pool outlives *)
(* the lock of its request.                                                *)
(***************************************************************************)
THEOREM HandlersAreOneStep == Spec => RequestsAreOneStep
  <1>1. Spec => []IInv
    BY Invariance
  <1> QED BY <1>1, InitRefines, StepRefines, PTL DEF Spec, RequestsAreOneStep

=============================================================================
