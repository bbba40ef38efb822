--------------------------- MODULE RequestPipeline ---------------------------
(***************************************************************************)
(* The requests of yeetbox-server between the awaits of their handlers.    *)
(*                                                                         *)
(* Every request is a task that waits for the mutex around the storage     *)
(* (service.rs), which serves its waiters in order, and holds it until the *)
(* handler of storage/database.rs is done or dropped.  At an await the     *)
(* handler leaves a file operation to tokio's blocking pool.  An operation *)
(* in the pool ends by itself: dropping the handler does not cancel it.    *)
(* write is the exception among the operations, since tokio's File hands   *)
(* the data over and returns: the handler goes on, drops the file and may  *)
(* be finished long before the data is in the blob.                        *)
(*                                                                         *)
(* All objects of this module are files at the root.  Blobs have contents, *)
(* written down as the ids of the requests that sent the data.             *)
(***************************************************************************)
EXTENDS FsTables, FiniteSets

CONSTANTS
    Client,         \* each has one request at a time
    NoClient,
    Calls,          \* the operations that clients call in an instance
    MaxRequests,    \* bound on the requests
    MaxCrashes      \* bound on the crashes

ASSUME ClientAssumption == NoClient \notin Client

ASSUME PipelineAssumption ==
    /\ Calls \subseteq {"upload_part", "upload", "append", "download", "delete"}
    /\ MaxRequests \in Nat
    /\ MaxCrashes \in Nat
    /\ MaxRequests + 1 \in FileSystemId

VARIABLES
    fs, seq, ver,   \* the tables as last committed
    disk,           \* the directory of blobs: the inode by the ULID in the name
    data,           \* the contents of the inodes
    request,        \* the requests in progress, by client
    queue,          \* the clients at the mutex, the holder first
    txn,            \* the client whose handler has a write transaction open
    pool,           \* the file operations in the blocking pool
    tokens,         \* the continuation tokens that clients were given
    minted,         \* the ULIDs that have shown up on disk
    last,           \* the last request that took effect, and how it ended
    acked,          \* the uploads that clients were told are done
    sent,           \* the number of requests so far
    crashes,        \* the number of crashes so far
    outlived        \* auxiliary: did an operation outlive its request?

catalog == <<fs, seq, ver>>
shown   == <<minted, last>>
counts  == <<sent, crashes, outlived>>
vars    == <<catalog, disk, data, request, queue, txn, pool, tokens, shown, acked, counts>>

-----------------------------------------------------------------------------
(***************************************************************************)
(* The state that requests as single steps would show: what the holder of  *)
(* the mutex has done to the directory of blobs only counts when its       *)
(* handler commits, answers or is dropped.                                 *)
(***************************************************************************)
Uploads == {"upload_part", "upload"}

\* The handler of r has got a blob to write to, and has renamed it.
HasOpened(r)  == r.op \in Uploads /\ (r.pc = "ready" \/ r.at = "rename")
HasSealed(r)  == r.pc = "ready" /\ r.at = "rename" /\ r.ok
HasRemoved(r) == r.pc = "ready" /\ r.at = "remove" /\ r.ok

\* The requests whose handlers are at an await.
InProgress == { request[c] : c \in { d \in DOMAIN request : request[d].pc \in {"await", "ready"} } }

ShownBlobs ==
    ( DOMAIN disk \ UNION { (IF HasOpened(r) /\ r.made THEN {r.ulid} ELSE {})
                            \cup (IF HasSealed(r) THEN {r.to} ELSE {}) : r \in InProgress } )
    \cup { r.ulid : r \in { s \in InProgress : HasRemoved(s) \/ (HasSealed(s) /\ ~s.made) } }

Requests == INSTANCE DatabaseStorage
              WITH blobs      <- ShownBlobs,
                   reply      <- last,
                   Dir        <- {<<>>},
                   Requested  <- {{}},
                   Rpc        <- Calls,
                   MaxSeq     <- MaxRequests,
                   MaxEntries <- MaxRequests

-----------------------------------------------------------------------------
Root == <<>>

Init ==
    /\ fs = EmptyTable /\ seq = 0 /\ ver = EmptyTable
    /\ disk = EmptyTable /\ data = EmptyTable
    /\ request = EmptyTable /\ queue = <<>> /\ txn = NoClient /\ pool = {}
    /\ tokens = {} /\ minted = {} /\ last = Requests!Reply("none", "ok")
    /\ acked = {} /\ sent = 0 /\ crashes = 0 /\ outlived = FALSE

\* A client sends a request; its task queues up for the mutex.
Send(c) ==
    /\ c \notin DOMAIN request
    /\ sent < MaxRequests
    /\ sent' = sent + 1
    /\ queue' = Append(queue, c)
    /\ \E op \in Calls, name \in Name, token \in Requests!Continuation :
          /\ op \notin Uploads => token = {}
          /\ request' = Insert(request, c,
                [ id |-> sent + 1, op |-> op, name |-> name, token |-> token, pc |-> "queued",
                  at |-> "none", ulid |-> NoUlid, to |-> NoUlid, file |-> 0,
                  made |-> FALSE, ok |-> FALSE ])
    /\ UNCHANGED <<catalog, disk, data, txn, pool, tokens, shown, acked, crashes, outlived>>

-----------------------------------------------------------------------------
(***************************************************************************)
(* The blocking pool.                                                      *)
(***************************************************************************)
Operation(kind, r, ulid, to) ==
    [kind |-> kind, by |-> r.id, ulid |-> ulid, to |-> to, file |-> r.file]

\* The data of upload and append, left to the pool without waiting for it.
Write(r) == Operation("write", r, NoUlid, NoUlid)

\* The handler of c can go on.  (A slip to be told from it: without the mutex.)
TurnUnlocked(c, pc) == c \in DOMAIN request /\ request[c].pc = pc

Turn(c, pc) == queue # <<>> /\ Head(queue) = c /\ request[c].pc = pc

\* The handler of c, now as given by r, waits for one operation and leaves the
\* others to the pool.
Await(c, r, op, others) ==
    /\ request' = [request EXCEPT ![c] = [r EXCEPT !.pc = "await", !.at = op.kind]]
    /\ pool' = pool \cup {op} \cup others

\* The transaction is dropped with the handler, before the mutex is unlocked.
\* (A slip: it stays open.)
LeaveOpen(c) ==
    /\ request' = [request EXCEPT ![c].pc = "leave"]
    /\ txn' = txn

Leave(c) ==
    /\ request' = [request EXCEPT ![c].pc = "leave"]
    /\ txn' = IF txn = c THEN NoClient ELSE txn

\* The mutex guard is dropped, and the next in the queue has its turn.
Release(c) ==
    /\ Turn(c, "leave")
    /\ request' = Remove(request, c)
    /\ queue' = Tail(queue)
    /\ outlived' = (outlived \/ \E op \in pool : op.by = request[c].id /\ op.kind # "write")
    /\ UNCHANGED <<catalog, disk, data, txn, pool, tokens, shown, acked, sent, crashes>>

\* The request whose handler waits for op, if it has not been dropped.
WaitsFor(r, op) == r.pc = "await" /\ r.at = op.kind /\ r.id = op.by

IsDropped(op) == \A c \in DOMAIN request : ~WaitsFor(request[c], op)

\* op is over: its handler, if it is still there, can go on with the result.
Ended(op, ok) ==
    request' = [ c \in DOMAIN request |->
                   IF WaitsFor(request[c], op)
                   THEN [request[c] EXCEPT !.pc = "ready", !.ok = ok] ELSE request[c] ]

\* An open is over, with a handle of the inode file.
Opened(op, ok, file, made) ==
    request' = [ c \in DOMAIN request |->
                   IF WaitsFor(request[c], op)
                   THEN [request[c] EXCEPT !.pc = "ready", !.ok = ok, !.file = file, !.made = made]
                   ELSE request[c] ]

\* What an operation does after its handler was dropped shows by itself.
ShowLate(op, opName, ulids) ==
    IF IsDropped(op)
    THEN minted' = minted \cup ulids /\ last' = Requests!Reply(opName, "dropped")
    ELSE UNCHANGED shown

\* open with create(true), by upload.
LandCreate(op) ==
    LET made == op.ulid \notin DOMAIN disk
        file == IF made THEN op.by ELSE disk[op.ulid]
    IN  /\ op.kind = "create"
        /\ disk' = Insert(disk, op.ulid, file)
        /\ data' = IF made THEN Insert(data, file, <<>>) ELSE data
        /\ Opened(op, TRUE, file, made)
        /\ ShowLate(op, "upload", {op.ulid})

\* open without create, by append and download, whose replies depend on it.
LandOpen(op) ==
    LET found == op.ulid \in DOMAIN disk
    IN  /\ op.kind = "open"
        /\ Opened(op, found, IF found THEN disk[op.ulid] ELSE 0, FALSE)
        /\ last' = IF IsDropped(op) THEN last
                   ELSE Requests!Reply(request[Head(queue)].op, IF found THEN "ok" ELSE "error")
        /\ UNCHANGED <<disk, data, minted>>

\* The data goes to the end of the inode, whatever its name is by now.
LandWrite(op) ==
    /\ op.kind = "write"
    /\ data' = [data EXCEPT ![op.file] = Append(@, op.by)]
    /\ UNCHANGED <<disk, request, shown>>

\* read and metadata: nothing to see.
LandRead(op) ==
    /\ op.kind = "read"
    /\ Ended(op, TRUE)
    /\ UNCHANGED <<disk, data, shown>>

LandRename(op) ==
    LET found == op.ulid \in DOMAIN disk
    IN  /\ op.kind = "rename"
        /\ disk' = IF found THEN Insert(Remove(disk, op.ulid), op.to, disk[op.ulid]) ELSE disk
        /\ Ended(op, found)
        /\ IF found THEN ShowLate(op, "upload", {op.to}) ELSE UNCHANGED shown
        /\ UNCHANGED data

LandRemove(op) ==
    LET found == op.ulid \in DOMAIN disk
    IN  /\ op.kind = "remove"
        /\ disk' = Remove(disk, op.ulid)
        /\ Ended(op, found)
        /\ IF found THEN ShowLate(op, "delete", {}) ELSE UNCHANGED shown
        /\ UNCHANGED data

\* One operation of request id ends.
Land(id) ==
    /\ \E op \in pool :
          /\ op.by = id
          /\ pool' = pool \ {op}
          /\ \/ LandCreate(op) \/ LandOpen(op) \/ LandWrite(op)
             \/ LandRead(op) \/ LandRename(op) \/ LandRemove(op)
    /\ UNCHANGED <<catalog, queue, txn, tokens, acked, counts>>

-----------------------------------------------------------------------------
(***************************************************************************)
(* The handlers, from one await to the next.                               *)
(***************************************************************************)
\* The handler is over and the client is told.
Answer(c, outcome) ==
    /\ Leave(c)
    /\ last' = Requests!Reply(request[c].op, outcome)

\* A ULID that nobody has.
Fresh(ulid) ==
    /\ ulid \notin minted
    /\ \A r \in InProgress : ulid \notin {r.ulid, r.to}
    /\ \A op \in pool : ulid \notin {op.ulid, op.to}

StartUpload(c) ==
    LET r == request[c]
    IN  /\ Turn(c, "queued")
        /\ r.op \in Uploads
        /\ \E ulid \in Ulid :
              /\ IF r.token = {} THEN Fresh(ulid) ELSE ulid \in r.token
              /\ Await(c, [r EXCEPT !.ulid = ulid], Operation("create", r, ulid, NoUlid), {})
        /\ UNCHANGED <<catalog, disk, data, queue, txn, tokens, shown, acked, counts>>

\* append, download and delete look the file up first; append and delete have
\* a transaction open from here on.
StartOther(c) ==
    LET r      == request[c]
        record == fs[Requests!TargetKey(Root, r.name)]
        blob   == ver[<<record.id, record.latest_version>>]
        kind   == IF r.op = "delete" THEN "remove" ELSE "open"
    IN  /\ Turn(c, "queued")
        /\ r.op \notin Uploads
        /\ \/ /\ ~Requests!IsPresent(Root, r.name)
              /\ Answer(c, "error")
              /\ UNCHANGED <<minted, pool>>
           \/ /\ Requests!IsPresent(Root, r.name)
              /\ Await(c, [r EXCEPT !.ulid = blob], Operation(kind, r, blob, NoUlid), {})
              /\ txn' = IF r.op = "download" THEN txn ELSE c
              /\ UNCHANGED shown
        /\ UNCHANGED <<catalog, disk, data, queue, tokens, acked, counts>>

Acknowledged(c) == acked' = acked \cup {[id |-> request[c].id, ulid |-> request[c].ulid]}

\* upload with incomplete set ends with the token.
FinishPart(c) ==
    LET r == request[c]
    IN  /\ r.op = "upload_part"
        /\ tokens' = tokens \cup {r.ulid}
        /\ pool' = pool \cup {Write(r)}
        /\ minted' = minted \cup {r.ulid}
        /\ Acknowledged(c)
        /\ Answer(c, "ok")
        /\ UNCHANGED catalog

\* There is a file of that name already.
FinishRefused(c) ==
    LET r == request[c]
    IN  /\ r.op = "upload"
        /\ ~Requests!UploadFits(Root, r.name)
        /\ pool' = pool \cup {Write(r)}
        /\ minted' = minted \cup {r.ulid}
        /\ Answer(c, "error")
        /\ UNCHANGED <<catalog, tokens, acked>>

\* A file in one message is committed at once.  (A slip: its data is not left
\* to the pool.)
FinishUnwritten(c) ==
    LET r == request[c]
    IN  /\ r.op = "upload" /\ r.token = {}
        /\ Requests!UploadFits(Root, r.name)
        /\ Requests!CommitFile(Root, r.name, r.ulid, r.ulid)
        /\ minted' = minted \cup {r.ulid}
        /\ Acknowledged(c)
        /\ Answer(c, "ok")
        /\ UNCHANGED <<pool, tokens>>

FinishSingle(c) ==
    LET r == request[c]
    IN  /\ r.op = "upload" /\ r.token = {}
        /\ Requests!UploadFits(Root, r.name)
        /\ Requests!CommitFile(Root, r.name, r.ulid, r.ulid)
        /\ pool' = pool \cup {Write(r)}
        /\ minted' = minted \cup {r.ulid}
        /\ Acknowledged(c)
        /\ Answer(c, "ok")
        /\ UNCHANGED tokens

\* The blob of a fragmented file is renamed first.  (Slips: it is not, or the
\* commit does not wait for it.)
SealInPlace(c) ==
    LET r == request[c]
    IN  /\ r.op = "upload" /\ r.token # {}
        /\ Requests!UploadFits(Root, r.name)
        /\ Requests!CommitFile(Root, r.name, r.ulid, r.ulid)
        /\ pool' = pool \cup {Write(r)}
        /\ Leave(c)
        /\ UNCHANGED <<tokens, shown, acked>>

SealUnawaited(c) ==
    LET r == request[c]
    IN  /\ r.op = "upload" /\ r.token # {}
        /\ Requests!UploadFits(Root, r.name)
        /\ \E to \in Ulid :
              /\ Fresh(to)
              /\ Requests!CommitFile(Root, r.name, r.ulid, to)
              /\ pool' = pool \cup {Write(r), Operation("rename", r, r.ulid, to)}
        /\ Leave(c)
        /\ UNCHANGED <<tokens, shown, acked>>

SealFragments(c) ==
    LET r == request[c]
    IN  /\ r.op = "upload" /\ r.token # {}
        /\ Requests!UploadFits(Root, r.name)
        /\ \E to \in Ulid :
              /\ Fresh(to)
              /\ Await(c, [r EXCEPT !.to = to], Operation("rename", r, r.ulid, to), {Write(r)})
        /\ txn' = c
        /\ UNCHANGED <<catalog, tokens, shown, acked>>

ResumeUpload(c) ==
    /\ Turn(c, "ready") /\ request[c].at = "create"
    /\ FinishPart(c) \/ FinishRefused(c) \/ FinishSingle(c) \/ SealFragments(c)
    /\ UNCHANGED <<disk, data, queue, counts>>

\* The rename has failed if an earlier one took the blob away.
ResumeSealed(c) ==
    LET r == request[c]
    IN  /\ Turn(c, "ready") /\ r.at = "rename"
        /\ \/ /\ r.ok
              /\ Requests!CommitFile(Root, r.name, r.ulid, r.to)
              /\ minted' = minted \cup {r.ulid, r.to}
              /\ Acknowledged(c)
              /\ Answer(c, "ok")
           \/ /\ ~r.ok
              /\ Leave(c)
              /\ UNCHANGED <<catalog, shown, acked>>
        /\ UNCHANGED <<disk, data, queue, pool, tokens, counts>>

\* The transaction of delete is not committed.
ResumeDelete(c) ==
    /\ Turn(c, "ready") /\ request[c].at = "remove"
    /\ Answer(c, IF request[c].ok THEN "ok" ELSE "error")
    /\ UNCHANGED <<catalog, disk, data, queue, pool, tokens, minted, acked, counts>>

\* The length of a fragmented file is not known: append asks for it.
ResumeOpened(c) ==
    LET r       == request[c]
        record  == fs[Requests!TargetKey(Root, r.name)]
        written == IF r.op = "append" THEN {Write(r)} ELSE {}
        done    == ~r.ok \/ (r.op = "append" /\ record.blob_ulid = r.ulid)
    IN  /\ Turn(c, "ready") /\ r.at = "open"
        /\ IF done
           THEN Leave(c) /\ pool' = pool \cup (IF r.ok THEN written ELSE {})
           ELSE /\ Await(c, r, Operation("read", r, NoUlid, NoUlid), written)
                /\ UNCHANGED txn
        /\ UNCHANGED <<catalog, disk, data, queue, tokens, shown, acked, counts>>

ResumeRead(c) ==
    /\ Turn(c, "ready") /\ request[c].at = "read"
    /\ Leave(c)
    /\ UNCHANGED <<catalog, disk, data, queue, pool, tokens, shown, acked, counts>>

Resume(c) == ResumeUpload(c) \/ ResumeSealed(c) \/ ResumeDelete(c) \/ ResumeOpened(c) \/ ResumeRead(c)

-----------------------------------------------------------------------------
(***************************************************************************)
(* Clients that go away, and crashes.                                      *)
(***************************************************************************)
\* What the handlers at an await have done so far comes to light.
ShowProgress ==
    LET opened  == { r \in InProgress : HasOpened(r) }
        removed == { r \in InProgress : r.pc = "ready" /\ r.at = "remove" }
    IN  /\ minted' = minted \cup { r.ulid : r \in opened }
                            \cup { r.to : r \in { s \in opened : HasSealed(s) } }
        /\ last' = IF opened # {} THEN Requests!Reply("upload", "dropped")
                   ELSE IF removed # {} THEN Requests!Reply("delete", "dropped") ELSE last

\* A queue without the one at place i.
Without(q, i) == SubSeq(q, 1, i - 1) \o SubSeq(q, i + 1, Len(q))

\* The client is gone while its request waits for the mutex.
DropWaiting(c) ==
    /\ c \in DOMAIN request /\ request[c].pc = "queued"
    /\ request' = Remove(request, c)
    /\ \E i \in DOMAIN queue : queue[i] = c /\ queue' = Without(queue, i)
    /\ UNCHANGED <<catalog, disk, data, txn, pool, tokens, shown, acked, counts>>

\* The client is gone while its handler is at an await: the operation it waits
\* for stays in the pool.  (A slip: the mutex is never unlocked.)
DropLocked(c) ==
    /\ c \in DOMAIN request /\ request[c].pc \in {"await", "ready"}
    /\ request' = [request EXCEPT ![c].pc = "gone"]
    /\ txn' = NoClient
    /\ ShowProgress
    /\ UNCHANGED <<catalog, disk, data, queue, pool, tokens, acked, counts>>

DropHandler(c) ==
    /\ c \in DOMAIN request /\ request[c].pc \in {"await", "ready"}
    /\ Leave(c)
    /\ ShowProgress
    /\ UNCHANGED <<catalog, disk, data, queue, pool, tokens, acked, counts>>

\* The server stops and starts again.  Data that was not written is lost.
Crash ==
    /\ crashes < MaxCrashes
    /\ crashes' = crashes + 1
    /\ request' = EmptyTable /\ queue' = <<>> /\ txn' = NoClient /\ pool' = {}
    /\ ShowProgress
    /\ UNCHANGED <<catalog, disk, data, tokens, acked, sent, outlived>>

\* Every request there will be has been served.
Quiet ==
    /\ sent = MaxRequests /\ queue = <<>> /\ pool = {}
    /\ UNCHANGED vars

Handle(c) == StartUpload(c) \/ StartOther(c) \/ Resume(c) \/ Release(c)

Next ==
    \/ \E c \in Client : Send(c) \/ Handle(c) \/ DropWaiting(c) \/ DropHandler(c)
    \/ \E id \in 1 .. sent : Land(id)
    \/ Crash
    \/ Quiet

Spec == Init /\ [][Next]_vars

\* tokio polls every task that can go on, and the blocking pool has a thread
\* for every operation.
Fairness ==
    /\ \A c \in Client : WF_vars(Handle(c))
    /\ \A id \in 1 .. MaxRequests : WF_vars(Land(id))

FairSpec == Spec /\ Fairness

-----------------------------------------------------------------------------
(***************************************************************************)
(* Types.                                                                  *)
(***************************************************************************)
RequestId == 1 .. MaxRequests

Request ==
    [ id : RequestId, op : Calls, name : Name, token : SUBSET Ulid,
      pc : {"queued", "await", "ready", "leave"},
      at : {"none", "create", "open", "read", "rename", "remove"},
      ulid : Ulid \cup {NoUlid}, to : Ulid \cup {NoUlid}, file : 0 .. MaxRequests,
      made : BOOLEAN, ok : BOOLEAN ]

FileOperation ==
    [ kind : {"create", "open", "read", "write", "rename", "remove"}, by : RequestId,
      ulid : Ulid \cup {NoUlid}, to : Ulid \cup {NoUlid}, file : 0 .. MaxRequests ]

\* The clients in the queue are those with a request, in the order in which they
\* have sent it; only the first is past the mutex.
QueueOK ==
    /\ queue \in Seq(DOMAIN request)
    /\ \A c \in DOMAIN request : \E i \in DOMAIN queue : queue[i] = c
    /\ \A i, j \in DOMAIN queue : i < j =>
          /\ request[queue[i]].id < request[queue[j]].id
          /\ request[queue[j]].pc = "queued"

\* The types of the volatile state and of the blob files.
PipelineTypeOK ==
    /\ DOMAIN request \subseteq Client
    /\ \A c \in DOMAIN request : request[c] \in Request
    /\ QueueOK
    /\ txn \in Client \cup {NoClient}
    /\ pool \subseteq FileOperation
    /\ DOMAIN disk \subseteq Ulid
    /\ \A ulid \in DOMAIN disk : disk[ulid] \in DOMAIN data
    /\ DOMAIN data \subseteq RequestId
    /\ \A file \in DOMAIN data : data[file] \in Seq(RequestId)
    /\ acked \subseteq [id : RequestId, ulid : Ulid]

-----------------------------------------------------------------------------
(***************************************************************************)
(* Safety.                                                                 *)
(***************************************************************************)
\* A write transaction is only open in a handler that holds the mutex and is
\* at an await, however its request ends: begin_write, which would block the
\* thread, never meets another transaction.
WriterHoldsLock ==
    txn # NoClient =>
        queue # <<>> /\ Head(queue) = txn /\ request[txn].pc \in {"await", "ready"}

\* No upload gets hold of the blob of a committed version, with the token of
\* a finished upload or with one whose rename came late: what is written to
\* it afterwards was sent before, or by append.
UploadsSpareVersions ==
    \A c \in DOMAIN request, v \in DOMAIN ver :
        /\ request[c].pc = "ready" /\ request[c].at = "create"
        /\ ver[v] \in DOMAIN disk
        => request[c].file # disk[ver[v]]

\* A version is committed when its blob is on disk under its final name, and
\* nothing but a delete takes it from there, not even the renames that dropped
\* requests have left behind.
VersionBlobOnDisk ==
    [][ /\ \A v \in DOMAIN ver' \ DOMAIN ver : ver'[v] \in DOMAIN disk'
        /\ \A v \in DOMAIN ver :
              ver[v] \in DOMAIN disk \ DOMAIN disk' =>
                 \E op \in pool \ pool' : op.kind = "remove" /\ op.ulid = ver[v] ]_vars

\* As long as the file operations of dropped requests end before the mutex is
\* free, the handlers, with all the ways in which they are dropped at their
\* awaits or stopped by a crash, do what the single steps of DatabaseStorage do.
RequestsAreOneStep == Requests!Init /\ [][outlived' \/ Requests!Next]_(Requests!vars)

-----------------------------------------------------------------------------
(***************************************************************************)
(* The inductive invariant behind the safety properties and the            *)
(* refinement.                                                             *)
(***************************************************************************)
\* The handler of r is at an await, or was dropped there and has left the
\* operation it waited for in the pool.
IsWorking(r) ==
    \/ r.pc \in {"await", "ready"}
    \/ \E op \in pool : op.by = r.id /\ op.kind # "write"

\* The names that the handler of r has drawn from Ulid::new().
Drawn(r) ==
    (IF r.op \in Uploads /\ r.token = {} THEN {r.ulid} ELSE {})
        \cup (IF r.at = "rename" THEN {r.to} ELSE {})

\* The names that op may bring into being.
Coming(op) ==
    (IF op.kind = "create" THEN {op.ulid} \ tokens ELSE {})
        \cup (IF op.kind = "rename" THEN {op.to} ELSE {})

\* The tables only grow, by a file with one version for a request.
CatalogOK ==
    /\ sent \in 0 .. MaxRequests /\ seq \in 0 .. sent
    /\ DOMAIN fs \subseteq {ROOT_FSID} \X Name
    /\ IsFiniteSet(DOMAIN fs) /\ Cardinality(DOMAIN fs) = seq
    /\ \A key \in DOMAIN fs :
          /\ fs[key].type = VERSION_BLOB /\ fs[key].latest_version = 1
          /\ <<fs[key].id, 1>> \in DOMAIN ver
    /\ DOMAIN ver \subseteq (1 .. seq) \X {1}
    /\ \A v \in DOMAIN ver : ver[v] \in minted \ tokens
    /\ tokens \subseteq minted /\ minted \subseteq Ulid
    /\ \A c \in DOMAIN request :
          /\ request[c].id <= sent
          /\ request[c].pc # "leave" => seq < request[c].id

\* A request has at most one operation that its handler waits for, or waited
\* for when it was dropped.
PoolOK ==
    /\ \A op \in pool : op.by <= sent
    /\ \A op, other \in pool :
          op.by = other.by /\ "write" \notin {op.kind, other.kind} => op = other
    /\ \A c \in DOMAIN request, op \in pool :
          op.by = request[c].id =>
             /\ request[c].pc # "queued"
             /\ op.kind # "write" =>
                   /\ request[c].pc # "ready"
                   /\ op.kind = request[c].at
                   /\ op.kind # "read" => op.ulid = request[c].ulid
                   /\ op.kind = "rename" => op.to = request[c].to

\* Nobody else knows a name that was drawn and has not shown up.
NamesOK ==
    /\ \A op \in pool :
          /\ op.kind = "create" => op.ulid \in Ulid
          /\ op.kind = "rename" => op.ulid \in tokens /\ op.to \in Ulid
          /\ op.kind = "write" => op.ulid = NoUlid /\ op.to = NoUlid
          /\ Coming(op) \cap minted = {}
          /\ \A other \in pool \ {op} : Coming(op) \cap {other.ulid, other.to} = {}
    /\ \A c \in DOMAIN request :
          IsWorking(request[c]) =>
             /\ Drawn(request[c]) \subseteq Ulid \ minted
             /\ \A op \in pool :
                   op.by # request[c].id => Drawn(request[c]) \cap {op.ulid, op.to} = {}

\* What a handler knows at its awaits.
HandlersOK ==
    \A c \in DOMAIN request :
        LET r      == request[c]
            record == fs[Requests!TargetKey(Root, r.name)]
        IN  /\ r.token \in Requests!Continuation
            /\ r.op \notin Uploads => r.token = {}
            /\ IsWorking(r) /\ r.op \in Uploads =>
                  /\ r.at \in {"create", "rename"}
                  /\ r.ulid \in Ulid /\ r.token \in {{}, {r.ulid}}
                  /\ r.at = "rename" => /\ r.op = "upload" /\ r.token # {} /\ r.to # r.ulid
                                        /\ Requests!UploadFits(Root, r.name)
            /\ IsWorking(r) /\ r.op \notin Uploads =>
                  /\ r.at \in (IF r.op = "delete" THEN {"remove"} ELSE {"open", "read"})
                  /\ Requests!IsPresent(Root, r.name)
                  /\ r.ulid = ver[<<record.id, record.latest_version>>]

\* Inodes have one name each, and the names are known but for those that the
\* holder of the mutex has made.
DiskOK ==
    /\ \A ulid, other \in DOMAIN disk : disk[ulid] = disk[other] => ulid = other
    /\ \A file \in DOMAIN data : file <= sent
    /\ \A op \in pool : op.kind = "create" => op.by \notin DOMAIN data
    /\ \A c \in DOMAIN request : request[c].pc = "queued" => request[c].id \notin DOMAIN data
    /\ \A ulid \in DOMAIN disk \ minted : \E r \in InProgress :
          (HasOpened(r) /\ ulid = r.ulid) \/ (HasSealed(r) /\ ulid = r.to)
    /\ \A r \in InProgress : r.pc = "ready" =>
          /\ r.at = "create" /\ r.token = {} => r.ulid \in DOMAIN disk
          /\ HasSealed(r) => r.to \in DOMAIN disk
          /\ r.at = "remove" => r.ulid \notin DOMAIN disk

\* No operation has outlived its request: nothing has happened to the blob
\* of the holder of the mutex but what its handler did.
OrderOK ==
    ~outlived =>
        /\ \A op \in pool : op.kind # "write" => \E c \in DOMAIN request : request[c].id = op.by
        /\ \A r \in InProgress :
              /\ HasOpened(r) /\ (r.pc = "ready" => r.at = "create") => r.ulid \in DOMAIN disk
              /\ HasOpened(r) /\ r.pc = "ready" /\ r.at = "rename" =>
                    r.ok /\ r.ulid \notin DOMAIN disk

\* All that the safety properties and the refinement rest on.
IInv ==
    /\ PipelineTypeOK /\ WriterHoldsLock /\ UploadsSpareVersions
    /\ CatalogOK /\ PoolOK /\ NamesOK /\ HandlersOK /\ DiskOK /\ OrderOK

-----------------------------------------------------------------------------
(***************************************************************************)
(* Liveness.                                                               *)
(***************************************************************************)
IsPending(id) == \E c \in DOMAIN request : request[c].id = id

\* Every request ends, whichever requests before it in the queue are dropped.
RequestsEnd == \A id \in RequestId : IsPending(id) ~> ~IsPending(id)

IsIn(id, file) == \E i \in DOMAIN data[file] : data[file][i] = id

\* Data that the client was told is uploaded gets into a blob, unless the
\* server stops.
AcknowledgedDataLands ==
    \A id \in RequestId :
        (crashes = 0 /\ \E ack \in acked : ack.id = id)
            ~> (crashes > 0 \/ \E file \in DOMAIN data : IsIn(id, file))

-----------------------------------------------------------------------------
(***************************************************************************)
(* What the protocol promises and the server does not do.                  *)
(***************************************************************************)
\* The ids of the requests in the order in which their data is in file.
Precedes(x, y, file) ==
    \E i, j \in DOMAIN data[file] : i < j /\ data[file][i] = x /\ data[file][j] = y

\* remotefs.proto, UploadResult.continuation: "An opaque identifier that can
\* be used to resume an upload".  When a client sends parts one by one, the
\* next one after the reply to the last, the blob has them in that order.
ResumedUploadIsWhole ==
    pool = {} =>
        \A x, y \in acked, file \in DOMAIN data :
            x.ulid = y.ulid /\ x.id < y.id /\ IsIn(y.id, file) => Precedes(x.id, y.id, file)

=============================================================================
