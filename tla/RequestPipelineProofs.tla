----------------------- MODULE RequestPipelineProofs ------------------------
(***************************************************************************)
(* Proofs about RequestPipeline, for any number of clients, requests and   *)
(* crashes.                                                                *)
(***************************************************************************)
EXTENDS RequestPipeline, SequenceTheorems, FiniteSetTheorems, TLAPS

-----------------------------------------------------------------------------
(***************************************************************************)
(* The queue.                                                              *)
(***************************************************************************)
\* Whoever is past the mutex is the first in the queue, and nobody else is.
LEMMA OnlyHolder ==
    ASSUME QueueOK, NEW c \in DOMAIN request, request[c].pc # "queued"
    PROVE  /\ queue # <<>> /\ Head(queue) = c
           /\ \A d \in DOMAIN request : d # c => request[d].pc = "queued"
  <1>1. PICK i \in DOMAIN queue : queue[i] = c
    BY DEF QueueOK
  <1>2. queue \in Seq(DOMAIN request) /\ DOMAIN queue = 1 .. Len(queue) /\ Len(queue) \in Nat
    BY DEF QueueOK
  <1>3. i = 1
    BY <1>1, <1>2 DEF QueueOK
  <1>4. queue # <<>> /\ Head(queue) = c
    BY <1>1, <1>2, <1>3
  <1>5. ASSUME NEW d \in DOMAIN request, d # c PROVE request[d].pc = "queued"
    <2>1. PICK j \in DOMAIN queue : queue[j] = d
      BY DEF QueueOK
    <2>2. 1 < j
      BY <1>1, <1>2, <1>3, <1>5, <2>1
    <2> QED BY <1>1, <1>3, <2>1, <2>2 DEF QueueOK
  <1> QED BY <1>4, <1>5

\* The first in the queue has a request.
LEMMA HolderHasRequest ==
    ASSUME QueueOK, queue # <<>>
    PROVE  Head(queue) \in DOMAIN request
  BY HeadTailProperties DEF QueueOK

\* No two requests have the same id.
LEMMA IdsDiffer ==
    ASSUME PipelineTypeOK,
           NEW c \in DOMAIN request, NEW d \in DOMAIN request, request[c].id = request[d].id
    PROVE  c = d
  <1>1. PICK i \in DOMAIN queue, j \in DOMAIN queue : queue[i] = c /\ queue[j] = d
    BY DEF PipelineTypeOK, QueueOK
  <1>2. DOMAIN queue = 1 .. Len(queue)
    BY DEF PipelineTypeOK, QueueOK
  <1>3. request[c].id \in Int
    BY DEF PipelineTypeOK, Request, RequestId
  <1>4. ~(i < j) /\ ~(j < i)
    BY <1>1, <1>3 DEF PipelineTypeOK, QueueOK
  <1> QED BY <1>1, <1>2, <1>4

\* The requests keep their places as long as the queue stays as it is and only
\* the one of its first client changes.
LEMMA SameQueue ==
    ASSUME PipelineTypeOK, NEW c, queue # <<>>, c = Head(queue), queue' = queue,
           DOMAIN request' = DOMAIN request,
           \A d \in DOMAIN request : request'[d].id = request[d].id,
           \A d \in DOMAIN request : d # c => request'[d].pc = request[d].pc
    PROVE  QueueOK'
  <1> USE DEF PipelineTypeOK
  <1>1. DOMAIN queue = 1 .. Len(queue) /\ queue[1] = c /\ queue \in Seq(DOMAIN request)
    BY DEF QueueOK
  <1>2. \A i \in DOMAIN queue : queue[i] \in DOMAIN request
    BY <1>1
  <1>3. ASSUME NEW i \in DOMAIN queue, NEW j \in DOMAIN queue, i < j
        PROVE  /\ request'[queue[i]].id < request'[queue[j]].id
               /\ request'[queue[j]].pc = "queued"
    <2>1. request[queue[i]].id < request[queue[j]].id /\ request[queue[j]].pc = "queued"
      BY <1>3 DEF QueueOK
    <2>2. queue[j] # c
      <3>1. 1 < j /\ 1 \in DOMAIN queue
        BY <1>1, <1>3
      <3>2. request[queue[1]].id < request[queue[j]].id
        BY <1>3, <3>1 DEF QueueOK
      <3>3. request[c].id \in Nat
        BY <1>1, <1>2, <3>1, PipelineAssumption DEF Request, RequestId
      <3> QED BY <1>1, <3>2, <3>3
    <2> QED BY <1>2, <2>1, <2>2
  <1> QED BY <1>1, <1>3 DEF QueueOK

-----------------------------------------------------------------------------
(***************************************************************************)
(* The root.  Every object of this module is one of its entries.           *)
(***************************************************************************)
\* The walk of an empty path ends where it begins.
LEMMA RootWalk ==
    ASSUME NEW table, NEW form
    PROVE  Requests!DescendPath(table, Root, form) = ROOT_FSID
  <1> DEFINE IsFolder(key) == key \in DOMAIN table /\ table[key].type = Requests!FOLDER
             Walk(at) == [ i \in 0 .. Len(Root) |->
                             IF i = 0 THEN Requests!ROOT_FSID
                             ELSE LET key == <<at[i - 1], form[Root[i]]>>
                                  IN  IF IsFolder(key) THEN Requests!ReadBigEndian(table[key].id)
                                      ELSE Requests!NoFolder ]
             walk == CHOOSE at : at = Walk(at)
             stay == [ i \in {0} |-> ROOT_FSID ]
  <1>1. 0 .. Len(Root) = {0}
    BY DEF Root
  <1>2. stay = Walk(stay)
    BY <1>1 DEF ROOT_FSID, Requests!ROOT_FSID
  <1>3. walk = Walk(walk)
    <2> HIDE DEF Walk
    <2> QED BY <1>2
  <1>4. walk[0] = ROOT_FSID
    BY <1>1, <1>3 DEF ROOT_FSID, Requests!ROOT_FSID
  <1>5. Requests!DescendPath(table, Root, form) = walk[Len(Root)]
    BY Zenon DEF Requests!DescendPath
  <1> QED BY <1>4, <1>5 DEF Root

\* So the keys of objects are made of the root and the normal form of a name.
LEMMA RootKeys ==
    ASSUME NEW name \in Name
    PROVE  /\ Requests!TargetKey(Root, name) = <<ROOT_FSID, Nfkd[name]>>
           /\ Requests!UploadKey(Root, name) = <<ROOT_FSID, Nfkd[Trimmed[name]]>>
           /\ Requests!IsPresent(Root, name) <=> Requests!TargetKey(Root, name) \in DOMAIN fs
           /\ Requests!UploadFits(Root, name) <=> Requests!UploadKey(Root, name) \notin DOMAIN fs
           /\ Nfkd[name] \in Name /\ Nfkd[Trimmed[name]] \in Name
  <1>1. ROOT_FSID \in Requests!FileSystemId
    BY RadixAssumption DEF ROOT_FSID, Requests!FileSystemId
  <1> QED BY <1>1, RootWalk, NameAssumption
          DEF Requests!TargetKey, Requests!UploadKey, Requests!IsPresent, Requests!UploadFits,
              Requests!MakeKey

-----------------------------------------------------------------------------
(***************************************************************************)
(* What the steps do to the requests.                                      *)
(***************************************************************************)
\* The handler of c goes on, and its request keeps what the client has sent.
Advances(c) ==
    /\ c \in DOMAIN request /\ queue # <<>> /\ Head(queue) = c
    /\ DOMAIN request' = DOMAIN request
    /\ \A d \in DOMAIN request : d # c => request'[d] = request[d]
    /\ request'[c] \in Request
    /\ request'[c].id = request[c].id /\ request'[c].op = request[c].op
    /\ request'[c].name = request[c].name /\ request'[c].token = request[c].token

\* It goes on and keeps what it knows, but for the step pc.
Moves(c, pc) ==
    /\ Advances(c)
    /\ request'[c].pc = pc
    /\ request'[c].at = request[c].at
    /\ request'[c].ulid = request[c].ulid /\ request'[c].to = request[c].to
    /\ request'[c].file = request[c].file /\ request'[c].made = request[c].made

\* Ids are numbers.
LEMMA RequestIds == RequestId \subseteq Nat /\ 0 .. MaxRequests \subseteq Nat
  BY PipelineAssumption DEF RequestId

LEMMA LeaveMoves ==
    ASSUME PipelineTypeOK, NEW c, queue # <<>>, Head(queue) = c, Leave(c)
    PROVE  /\ Moves(c, "leave")
           /\ request'[c].ok = request[c].ok
  <1>1. c \in DOMAIN request
    BY HolderHasRequest DEF PipelineTypeOK
  <1>2. request[c] \in Request
    BY <1>1 DEF PipelineTypeOK
  <1>3. request' = [request EXCEPT ![c] = [request[c] EXCEPT !.pc = "leave"]]
    BY DEF Leave
  <1>4. request'[c] = [request[c] EXCEPT !.pc = "leave"]
    BY <1>1, <1>3
  <1> QED BY <1>1, <1>2, <1>3, <1>4 DEF Moves, Advances, Request

LEMMA AwaitAdvances ==
    ASSUME PipelineTypeOK, NEW c, queue # <<>>, Head(queue) = c,
           NEW r \in Request, NEW op, NEW others, Await(c, r, op, others),
           op.kind \in {"create", "open", "read", "rename", "remove"},
           r.id = request[c].id, r.op = request[c].op,
           r.name = request[c].name, r.token = request[c].token
    PROVE  /\ Advances(c)
           /\ request'[c].pc = "await" /\ request'[c].at = op.kind
           /\ request'[c].ulid = r.ulid /\ request'[c].to = r.to
           /\ request'[c].file = r.file /\ request'[c].made = r.made
  <1>1. c \in DOMAIN request
    BY HolderHasRequest DEF PipelineTypeOK
  <1>2. request'[c] = [r EXCEPT !.pc = "await", !.at = op.kind]
    BY <1>1 DEF Await
  <1>3. DOMAIN request' = DOMAIN request /\ \A d \in DOMAIN request : d # c => request'[d] = request[d]
    BY <1>1 DEF Await
  <1> QED BY <1>1, <1>2, <1>3 DEF Advances, Request

\* The queue stays in order when a handler goes on.
LEMMA AdvancesQueue ==
    ASSUME PipelineTypeOK, NEW c, Advances(c), queue' = queue
    PROVE  QueueOK' /\ DOMAIN request' \subseteq Client
           /\ \A d \in DOMAIN request' : request'[d] \in Request
  <1>1. QueueOK'
    BY SameQueue DEF Advances
  <1> QED BY <1>1 DEF Advances, PipelineTypeOK

\* An operation that ends is nobody's any more, or its handler can go on.
LEMMA EndedMoves ==
    ASSUME PipelineTypeOK, NEW op, NEW ok \in BOOLEAN, Ended(op, ok)
    PROVE  /\ DOMAIN request' = DOMAIN request
           /\ IsDropped(op) => \A d \in DOMAIN request : request'[d] = request[d]
           /\ ~IsDropped(op) => \E c \in DOMAIN request :
                 /\ WaitsFor(request[c], op) /\ Moves(c, "ready") /\ request'[c].ok = ok
  <1>1. DOMAIN request' = DOMAIN request
    BY DEF Ended
  <1>2. CASE IsDropped(op)
    BY <1>2 DEF Ended, IsDropped
  <1>3. ASSUME NEW c \in DOMAIN request, WaitsFor(request[c], op)
        PROVE  Moves(c, "ready") /\ request'[c].ok = ok
    <2>1. queue # <<>> /\ Head(queue) = c /\ \A d \in DOMAIN request : d # c => request[d].pc = "queued"
      BY <1>3, OnlyHolder DEF WaitsFor, PipelineTypeOK
    <2>2. request'[c] = [request[c] EXCEPT !.pc = "ready", !.ok = ok]
      BY <1>3 DEF Ended
    <2>3. \A d \in DOMAIN request : d # c => request'[d] = request[d]
      BY <2>1 DEF Ended, WaitsFor
    <2> QED BY <1>1, <2>1, <2>2, <2>3 DEF PipelineTypeOK, Moves, Advances, Request
  <1> QED BY <1>1, <1>2, <1>3 DEF IsDropped

\* A file that is looked up has a record and a version with a blob.
LEMMA PresentFile ==
    ASSUME CatalogOK, NEW name \in Name, Requests!IsPresent(Root, name)
    PROVE  LET record == fs[Requests!TargetKey(Root, name)]
           IN  /\ Requests!TargetKey(Root, name) \in DOMAIN fs
               /\ record.type = VERSION_BLOB /\ record.latest_version = 1
               /\ <<record.id, 1>> \in DOMAIN ver
               /\ ver[<<record.id, 1>>] \in Ulid
  BY RootKeys DEF CatalogOK

LEMMA OperationType ==
    ASSUME NEW r \in Request, NEW ulid \in Ulid \cup {NoUlid}, NEW to \in Ulid \cup {NoUlid},
           NEW kind \in {"create", "open", "read", "write", "rename", "remove"}
    PROVE  /\ Operation(kind, r, ulid, to) \in FileOperation
           /\ Write(r) \in FileOperation
  BY DEF Operation, Write, Request, FileOperation

-----------------------------------------------------------------------------
(***************************************************************************)
(* Types.                                                                  *)
(***************************************************************************)
\* The client that waits leaves the queue, and the others close up.
LEMMA LeftQueue ==
    ASSUME PipelineTypeOK, NEW i \in DOMAIN queue,
           request' = Remove(request, queue[i]),
           queue' = Without(queue, i)
    PROVE  /\ QueueOK'
           /\ DOMAIN request' = DOMAIN request \ {queue[i]}
           /\ \A d \in DOMAIN request' : request'[d] = request[d]
           /\ i # 1 => queue' # <<>> /\ Head(queue') = Head(queue)
  <1> DEFINE n == Len(queue)
             first == SubSeq(queue, 1, i - 1)
             rest == SubSeq(queue, i + 1, n)
             place(j) == IF j < i THEN j ELSE j + 1
  <1>1. queue \in Seq(DOMAIN request) /\ n \in Nat /\ DOMAIN queue = 1 .. n /\ i \in 1 .. n
    BY DEF PipelineTypeOK, QueueOK
  <1>2. \A j \in 1 .. n : queue[j] \in DOMAIN request
    BY <1>1
  <1>3. \A j, k \in 1 .. n : j # k => queue[j] # queue[k]
    <2>1. \A j \in 1 .. n : request[queue[j]].id \in Nat
      BY <1>2, RequestIds DEF PipelineTypeOK, Request
    <2>2. ASSUME NEW j \in 1 .. n, NEW k \in 1 .. n, j < k PROVE queue[j] # queue[k]
      <3>1. request[queue[j]].id < request[queue[k]].id
        BY <1>1, <2>2 DEF PipelineTypeOK, QueueOK
      <3> QED BY <2>1, <3>1
    <2> QED BY <2>2, <1>1
  <1>4. DOMAIN request' = DOMAIN request \ {queue[i]} /\ \A d \in DOMAIN request' : request'[d] = request[d]
    BY DEF Remove
  <1>5. /\ first \in Seq(DOMAIN request') /\ Len(first) = i - 1
        /\ \A j \in 1 .. i - 1 : first[j] = queue[j]
    <2>1. \A j \in 1 .. i - 1 : queue[j] \in DOMAIN request'
      BY <1>1, <1>2, <1>3, <1>4
    <2> QED BY <1>1, <2>1, SubSeqProperties
  <1>6. /\ rest \in Seq(DOMAIN request') /\ Len(rest) = n - i
        /\ \A j \in 1 .. n - i : rest[j] = queue[j + i]
    <2>1. \A j \in i + 1 .. n : queue[j] \in DOMAIN request'
      BY <1>1, <1>2, <1>3, <1>4
    <2>2. /\ rest \in Seq(DOMAIN request')
          /\ Len(rest) = IF i + 1 <= n THEN n - (i + 1) + 1 ELSE 0
          /\ \A j \in 1 .. n - (i + 1) + 1 : rest[j] = queue[i + 1 + j - 1]
      <3> HIDE DEF rest, n
      <3>1. rest = SubSeq(queue, i + 1, n)
        BY DEF rest
      <3>2. i + 1 \in Int /\ n \in Int
        BY <1>1
      <3> QED BY <2>1, <3>1, <3>2, SubSeqProperties
    <2> QED BY <1>1, <2>2
  <1>7. /\ queue' \in Seq(DOMAIN request') /\ Len(queue') = n - 1
        /\ \A j \in 1 .. n - 1 : queue'[j] = queue[place(j)]
    <2> HIDE DEF first, rest, n
    <2>1. queue' = first \o rest
      BY DEF Without, first, rest, n
    <2>2. /\ first \o rest \in Seq(DOMAIN request')
          /\ Len(first \o rest) = Len(first) + Len(rest)
          /\ \A j \in 1 .. Len(first) + Len(rest) :
                (first \o rest)[j] = IF j <= Len(first) THEN first[j] ELSE rest[j - Len(first)]
      BY <1>5, <1>6, ConcatProperties
    <2>3. i \in Int /\ n \in Int /\ Len(first) + Len(rest) = n - 1
      BY <1>1, <1>5, <1>6
    <2>4. ASSUME NEW j \in 1 .. n - 1 PROVE queue'[j] = queue[place(j)]
      <3>1. queue'[j] = IF j <= i - 1 THEN first[j] ELSE rest[j - (i - 1)]
        BY <1>5, <2>1, <2>2, <2>3
      <3>2. CASE j <= i - 1
        <4>1. place(j) = j /\ first[j] = queue[j]
          BY <1>5, <2>3, <3>2
        <4> HIDE DEF place
        <4> QED BY <3>1, <3>2, <4>1
      <3>3. CASE ~(j <= i - 1)
        <4> DEFINE k == j - (i - 1)
        <4>1. k \in 1 .. n - i /\ k + i = j + 1
          BY <2>3, <3>3
        <4>2. place(j) = k + i
          BY <2>3, <3>3, <4>1
        <4> HIDE DEF place
        <4> QED BY <1>6, <3>1, <3>3, <4>1, <4>2
      <3> QED BY <3>2, <3>3
    <2> QED BY <2>1, <2>2, <2>3, <2>4
  <1>8. DOMAIN queue' = 1 .. n - 1
    BY <1>7, <1>1
  <1>9. ASSUME NEW d \in DOMAIN request' PROVE \E j \in DOMAIN queue' : queue'[j] = d
    <2>1. PICK k \in 1 .. n : queue[k] = d
      BY <1>1, <1>4 DEF PipelineTypeOK, QueueOK
    <2>2. k # i
      BY <1>4, <2>1
    <2>3. PICK j \in 1 .. n - 1 : place(j) = k
      <3> HIDE DEF n
      <3>1. CASE k < i
        BY <1>1, <3>1
      <3>2. CASE k > i
        <4>1. k - 1 \in 1 .. n - 1 /\ place(k - 1) = k
          BY <1>1, <3>2
        <4> HIDE DEF place
        <4> QED BY <4>1
      <3> QED BY <1>1, <2>2, <3>1, <3>2
    <2> QED BY <1>7, <1>8, <2>1, <2>3
  <1>10. ASSUME NEW j \in DOMAIN queue', NEW k \in DOMAIN queue', j < k
         PROVE  request'[queue'[j]].id < request'[queue'[k]].id /\ request'[queue'[k]].pc = "queued"
    <2>1. place(j) \in 1 .. n /\ place(k) \in 1 .. n /\ place(j) < place(k)
      <3> HIDE DEF n
      <3>1. j \in 1 .. n - 1 /\ k \in 1 .. n - 1 /\ n \in Nat /\ i \in 1 .. n
        BY <1>1, <1>8
      <3>2. place(j) \in 1 .. n /\ place(k) \in 1 .. n
        BY <3>1
      <3>3. place(j) < place(k)
        BY <1>10, <3>1
      <3> QED BY <3>2, <3>3
    <2>2. queue'[j] = queue[place(j)] /\ queue'[k] = queue[place(k)]
      BY <1>7, <1>8
    <2>3. queue'[j] \in DOMAIN request' /\ queue'[k] \in DOMAIN request'
      BY <1>7, <1>8, ElementOfSeq
    <2>4. request[queue[place(j)]].id < request[queue[place(k)]].id /\ request[queue[place(k)]].pc = "queued"
      <3> HIDE DEF place
      <3> QED BY <1>1, <2>1 DEF PipelineTypeOK, QueueOK
    <2> QED BY <1>4, <2>2, <2>3, <2>4
  <1>11. i # 1 => queue' # <<>> /\ Head(queue') = Head(queue)
    <2> HIDE DEF n
    <2>1. i # 1 => 1 \in 1 .. n - 1 /\ 1 < i
      BY <1>1
    <2>2. i # 1 => queue'[1] = queue[1]
      BY <1>7, <2>1
    <2>3. i # 1 => Len(queue') > 0 /\ Len(queue) > 0
      BY <1>1, <1>7, <2>1 DEF n
    <2> QED BY <1>1, <1>7, <2>2, <2>3
  <1> QED BY <1>4, <1>7, <1>9, <1>10, <1>11 DEF QueueOK

-----------------------------------------------------------------------------
(***************************************************************************)
(* Who is at work.                                                         *)
(***************************************************************************)
\* Behind the first in the queue nothing has begun.
LEMMA OthersIdle ==
    ASSUME PipelineTypeOK, PoolOK, NEW c \in DOMAIN request, queue # <<>>, Head(queue) = c,
           NEW d \in DOMAIN request, d # c
    PROVE  /\ request[d].pc = "queued" /\ request[d].id # request[c].id
           /\ request[c].id < request[d].id
           /\ \A op \in pool : op.by # request[d].id
           /\ ~IsWorking(request[d])
  <1>1. PICK i \in DOMAIN queue : queue[i] = d
    BY DEF PipelineTypeOK, QueueOK
  <1>2. queue[1] = c /\ 1 \in DOMAIN queue /\ 1 < i
    BY <1>1 DEF PipelineTypeOK, QueueOK
  <1>3. request[d].pc = "queued" /\ request[c].id < request[d].id
    BY <1>1, <1>2 DEF PipelineTypeOK, QueueOK
  <1>4. request[d].id # request[c].id
    BY IdsDiffer
  <1>5. \A op \in pool : op.by # request[d].id
    BY <1>3 DEF PoolOK
  <1> QED BY <1>3, <1>4, <1>5 DEF IsWorking

\* The first in the queue is the only one at an await, if any is.
LEMMA SoleInProgress ==
    ASSUME PipelineTypeOK, PoolOK, NEW c \in DOMAIN request, queue # <<>>, Head(queue) = c
    PROVE  InProgress = IF request[c].pc \in {"await", "ready"} THEN {request[c]} ELSE {}
  <1>1. \A d \in DOMAIN request : d # c => request[d].pc = "queued"
    BY OthersIdle
  <1> QED BY <1>1 DEF InProgress

LEMMA NextInProgress ==
    ASSUME PipelineTypeOK, PoolOK, NEW c, Advances(c)
    PROVE  /\ InProgress' = IF request'[c].pc \in {"await", "ready"} THEN {request'[c]} ELSE {}
           /\ InProgress = IF request[c].pc \in {"await", "ready"} THEN {request[c]} ELSE {}
  <1>1. \A d \in DOMAIN request' : d # c => request'[d].pc = "queued"
    BY OthersIdle DEF Advances
  <1>2. c \in DOMAIN request /\ c \in DOMAIN request'
    BY DEF Advances
  <1>3. InProgress' = IF request'[c].pc \in {"await", "ready"} THEN {request'[c]} ELSE {}
    BY <1>1, <1>2 DEF InProgress
  <1> QED BY <1>3, SoleInProgress DEF Advances

\* Before its first await and after the end of one, all that a request has in
\* the pool is data to write.
LEMMA OnlyWrites ==
    ASSUME PoolOK, NEW c \in DOMAIN request, request[c].pc \in {"queued", "ready"},
           NEW op \in pool, op.by = request[c].id
    PROVE  op.kind = "write" /\ request[c].pc # "queued"
  BY DEF PoolOK

-----------------------------------------------------------------------------
(***************************************************************************)
(* Handlers that end.                                                      *)
(***************************************************************************)
\* Nobody has named a blob that the handler of c is about to show.
LEMMA UnknownNames ==
    ASSUME IInv, NEW c \in DOMAIN request, request[c].pc = "ready", request[c].op \in Uploads,
           NEW ulid \in {request[c].ulid} \cup (IF request[c].at = "rename" THEN {request[c].to} ELSE {}),
           ulid \notin minted, NEW op \in pool
    PROVE  ulid \notin Coming(op)
  <1> USE DEF IInv
  <1>1. IsWorking(request[c])
    BY DEF IsWorking
  <1>2. ulid \in Drawn(request[c])
    <2>1. request[c].token = {request[c].ulid} => request[c].ulid \in minted
      BY DEF HandlersOK, CatalogOK, Requests!Continuation
    <2> QED BY <1>1, <2>1 DEF HandlersOK, Drawn
  <1>3. CASE op.by = request[c].id
    BY <1>3, OnlyWrites DEF Coming
  <1>4. CASE op.by # request[c].id
    <2>1. ulid \notin {op.ulid, op.to}
      BY <1>1, <1>2, <1>4 DEF NamesOK
    <2> QED BY <2>1 DEF Coming
  <1> QED BY <1>3, <1>4

\* A handler that ends keeps the invariant if it commits in order, shows its
\* blobs and leaves nothing but data to the pool.
LEMMA LeaveStep ==
    ASSUME IInv, NEW c, Moves(c, "leave"), request[c].pc # "leave",
           queue' = queue, txn' = (IF txn = c THEN NoClient ELSE txn),
           disk' = disk, data' = data, counts' = counts,
           NEW written \in SUBSET {Write(request[c])}, pool' = pool \cup written,
           written # {} => request[c].pc = "ready",
           CatalogOK', catalog' = catalog \/ request[c].pc = "ready",
           tokens \subseteq tokens', minted \subseteq minted',
           \A ulid \in minted' \ minted :
              /\ request[c].pc = "ready" /\ request[c].op \in Uploads
              /\ \/ ulid = request[c].ulid
                 \/ request[c].at = "rename" /\ ulid = request[c].to,
           request[c] \in InProgress =>
              /\ HasOpened(request[c]) => request[c].ulid \in minted'
              /\ HasSealed(request[c]) => request[c].to \in minted',
           acked' \subseteq [id : RequestId, ulid : Ulid]
    PROVE  IInv'
  <1> USE DEF IInv
  <1> DEFINE r == request[c]
  <1>1. /\ c \in DOMAIN request /\ c \in DOMAIN request' /\ DOMAIN request' = DOMAIN request
        /\ queue # <<>> /\ Head(queue) = c
        /\ request'[c].pc = "leave" /\ request'[c].id = r.id
        /\ \A d \in DOMAIN request : d # c => request'[d] = request[d]
    BY DEF Moves, Advances
  <1>2. r \in Request
    BY <1>1 DEF PipelineTypeOK
  <1>3. \A d \in DOMAIN request : d # c =>
           /\ request'[d] = request[d] /\ request[d].pc = "queued"
           /\ request[d].id # r.id /\ \A op \in pool : op.by # request[d].id
    BY <1>1, OthersIdle
  <1>4. InProgress' = {}
    BY <1>1, NextInProgress DEF Moves
  <1>5. \A op \in written : op = Write(r) /\ op.by = r.id /\ op.kind = "write"
                            /\ op.ulid = NoUlid /\ op.to = NoUlid /\ op \in FileOperation
    <2>1. Write(r) \in FileOperation
      BY <1>2, OperationType
    <2>2. \A op \in written : op = Write(r)
      OBVIOUS
    <2>3. Write(r).by = r.id /\ Write(r).kind = "write" /\ Write(r).ulid = NoUlid /\ Write(r).to = NoUlid
      BY DEF Write, Operation
    <2> HIDE DEF r
    <2> QED BY <2>1, <2>2, <2>3
  <1>6. PipelineTypeOK'
    <2>1. QueueOK' /\ DOMAIN request' \subseteq Client /\ \A d \in DOMAIN request' : request'[d] \in Request
      BY AdvancesQueue DEF Moves
    <2>2. pool' \subseteq FileOperation
      BY <1>5 DEF PipelineTypeOK
    <2>3. txn' \in Client \cup {NoClient}
      BY DEF PipelineTypeOK
    <2> QED BY <2>1, <2>2, <2>3 DEF PipelineTypeOK
  <1>7. WriterHoldsLock' /\ UploadsSpareVersions'
    <2>1. txn' = NoClient
      BY <1>1 DEF WriterHoldsLock
    <2> QED BY <1>1, <1>3, <2>1 DEF WriterHoldsLock, UploadsSpareVersions
  <1>8. PoolOK'
    <2>1. \A op \in pool' : op \in pool \/ op \in written
      OBVIOUS
    <2>2. sent' = sent /\ r.id <= sent
      BY <1>1 DEF CatalogOK, counts
    <2>3. ASSUME NEW d \in DOMAIN request', NEW op \in pool', op.by = request'[d].id
          PROVE  /\ request'[d].pc # "queued"
                 /\ op.kind # "write" =>
                       /\ request'[d].pc # "ready"
                       /\ op.kind = request'[d].at
                       /\ op.kind # "read" => op.ulid = request'[d].ulid
                       /\ op.kind = "rename" => op.to = request'[d].to
      <3>1. d = c
        BY <1>1, <1>3, <1>5, <2>3
      <3>2. CASE op \in pool
        BY <1>1, <2>3, <3>1, <3>2 DEF PoolOK, Moves
      <3>3. CASE op \in written
        BY <1>1, <1>5, <3>1, <3>3
      <3> QED BY <3>2, <3>3
    <2>4. ASSUME NEW op \in pool', NEW other \in pool',
                 op.by = other.by, "write" \notin {op.kind, other.kind}
          PROVE  op = other
      BY <1>5, <2>1, <2>4 DEF PoolOK
    <2>5. ASSUME NEW op \in pool' PROVE op.by <= sent'
      BY <1>5, <2>1, <2>2 DEF PoolOK
    <2> QED BY <2>3, <2>4, <2>5 DEF PoolOK
  <1>9. \A op \in pool : Coming(op)' \cap minted' = {}
    <2>1. ASSUME NEW op \in pool PROVE Coming(op)' \subseteq Coming(op)
      BY DEF Coming
    <2>2. ASSUME NEW op \in pool, NEW ulid \in minted' \ minted PROVE ulid \notin Coming(op)
      BY <1>1, <2>2, UnknownNames
    <2> QED BY <2>1, <2>2 DEF NamesOK
  <1>10. IsWorking(request[c])' => IsWorking(r) /\ r.pc \notin {"queued", "ready"}
    BY <1>1, <1>5, OnlyWrites DEF IsWorking
  <1>11. \A d \in DOMAIN request' : d # c => ~IsWorking(request[d])'
    BY <1>1, <1>3, <1>5 DEF IsWorking
  <1>12. Drawn(request[c])' = Drawn(r)
    BY DEF Drawn, Moves, Advances
  <1>13. NamesOK'
    <2>1. \A op \in written : Coming(op)' = {} /\ {op.ulid, op.to} = {NoUlid}
      BY <1>5 DEF Coming
    <2>2. \A op \in pool' : Coming(op)' \subseteq Ulid /\ (op \in pool \/ op \in written)
      <3>1. \A op \in pool : Coming(op)' \subseteq Ulid
        BY DEF Coming, NamesOK
      <3> QED BY <2>1, <3>1
    <2>3. ASSUME NEW op \in pool'
          PROVE  /\ op.kind = "create" => op.ulid \in Ulid
                 /\ op.kind = "rename" => op.ulid \in tokens' /\ op.to \in Ulid
                 /\ op.kind = "write" => op.ulid = NoUlid /\ op.to = NoUlid
      BY <1>5, <2>2 DEF NamesOK
    <2>4. ASSUME NEW op \in pool' PROVE Coming(op)' \cap minted' = {}
      BY <1>9, <2>1, <2>2
    <2>5. ASSUME NEW op \in pool', NEW other \in pool' \ {op}
          PROVE  Coming(op)' \cap {other.ulid, other.to} = {}
      <3>1. CASE op \in pool /\ other \in pool
        <4>1. Coming(op)' \subseteq Coming(op)
          BY DEF Coming
        <4> QED BY <2>5, <3>1, <4>1 DEF NamesOK
      <3>2. CASE op \in written \/ other \in written
        BY <2>1, <2>2, <3>2, UlidAssumption
      <3> QED BY <2>2, <3>1, <3>2
    <2>6. ASSUME NEW d \in DOMAIN request', IsWorking(request[d])'
          PROVE  /\ Drawn(request[d])' \subseteq Ulid \ minted'
                 /\ \A op \in pool' : op.by # request'[d].id => Drawn(request[d])' \cap {op.ulid, op.to} = {}
      <3>1. d = c /\ IsWorking(r) /\ r.pc \notin {"queued", "ready"}
        BY <1>10, <1>11, <2>6
      <3>2. minted' = minted
        BY <3>1
      <3>3. Drawn(request[d])' = Drawn(r)
        BY <1>12, <3>1 DEF Drawn
      <3>4. written = {}
        BY <3>1
      <3> QED BY <1>1, <3>1, <3>2, <3>3, <3>4 DEF NamesOK
    <2> QED BY <2>3, <2>4, <2>5, <2>6 DEF NamesOK
  <1>14. HandlersOK'
    <2>1. Requests!Continuation \subseteq Requests!Continuation'
      BY DEF Requests!Continuation
    <2>2. ASSUME NEW d \in DOMAIN request'
          PROVE  request'[d].token \in Requests!Continuation' /\ (request'[d].op \notin Uploads => request'[d].token = {})
      <3>1. request[d].token \in Requests!Continuation /\ (request[d].op \notin Uploads => request[d].token = {})
        BY <1>1 DEF HandlersOK
      <3>2. request'[d].token = request[d].token /\ request'[d].op = request[d].op
        BY <1>1 DEF Moves, Advances
      <3> QED BY <2>1, <3>1, <3>2
    <2>3. ASSUME NEW d \in DOMAIN request', IsWorking(request[d])'
          PROVE  /\ d = c /\ IsWorking(r) /\ catalog' = catalog
                 /\ request'[c].at = r.at /\ request'[c].ulid = r.ulid /\ request'[c].to = r.to
                 /\ request'[c].token = r.token /\ request'[c].op = r.op /\ request'[c].name = r.name
      BY <1>1, <1>10, <1>11, <2>3 DEF Moves, Advances
    <2>4. fs' = fs /\ ver' = ver =>
             /\ \A name \in Name : Requests!UploadFits(Root, name)' <=> Requests!UploadFits(Root, name)
             /\ \A name \in Name : Requests!IsPresent(Root, name)' <=> Requests!IsPresent(Root, name)
             /\ \A name \in Name : Requests!TargetKey(Root, name)' = Requests!TargetKey(Root, name)
      BY DEF Requests!UploadFits, Requests!IsPresent, Requests!TargetKey, Requests!UploadKey
    <2>5. r.name \in Name
      BY <1>2 DEF Request
    <2> HIDE DEF r
    <2>6. ASSUME NEW d \in DOMAIN request', IsWorking(request[d])', request'[d].op \in Uploads
          PROVE  /\ request'[d].at \in {"create", "rename"}
                 /\ request'[d].ulid \in Ulid /\ request'[d].token \in {{}, {request'[d].ulid}}
                 /\ request'[d].at = "rename" => /\ request'[d].op = "upload" /\ request'[d].token # {}
                                                 /\ request'[d].to # request'[d].ulid
                                                 /\ Requests!UploadFits(Root, request[d].name)'
      <3>1. /\ r.at \in {"create", "rename"}
            /\ r.ulid \in Ulid /\ r.token \in {{}, {r.ulid}}
            /\ r.at = "rename" => /\ r.op = "upload" /\ r.token # {} /\ r.to # r.ulid
                                  /\ Requests!UploadFits(Root, r.name)
        BY <1>1, <2>3, <2>6 DEF HandlersOK, r
      <3>2. Requests!UploadFits(Root, request[c].name)' <=> Requests!UploadFits(Root, r.name)
        <4>1. request'[c].name \in Name /\ request'[c].name = r.name
          BY <2>3, <2>5, <2>6
        <4>2. Requests!UploadFits(Root, request[c].name)' <=> Requests!UploadFits(Root, r.name)'
          BY <4>1 DEF r, Requests!UploadFits, Requests!UploadKey
        <4> QED BY <2>3, <2>4, <2>5, <2>6, <4>2 DEF catalog
      <3> QED BY <2>3, <2>6, <3>1, <3>2
    <2>7. ASSUME NEW d \in DOMAIN request', IsWorking(request[d])', request'[d].op \notin Uploads
          PROVE  LET record == fs'[Requests!TargetKey(Root, request[d].name)']
                 IN  /\ request'[d].at \in (IF request'[d].op = "delete" THEN {"remove"} ELSE {"open", "read"})
                     /\ Requests!IsPresent(Root, request[d].name)'
                     /\ request'[d].ulid = ver'[<<record.id, record.latest_version>>]
      BY <1>1, <2>3, <2>4, <2>5, <2>7 DEF HandlersOK, catalog, r
    <2> QED BY <2>2, <2>6, <2>7 DEF HandlersOK
  <1>15. DiskOK'
    <2>1. \A op \in pool' : op.kind = "create" => op \in pool
      BY <1>5
    <2>2. \A d \in DOMAIN request' : request'[d].pc = "queued" => request'[d].id \notin DOMAIN data'
      BY <1>1, <1>3 DEF DiskOK
    <2>3. DOMAIN disk' \ minted' = {}
      <3>1. InProgress = IF r.pc \in {"await", "ready"} THEN {r} ELSE {}
        BY <1>1, SoleInProgress
      <3>2. ASSUME NEW ulid \in DOMAIN disk \ minted PROVE ulid \in minted'
        <4>1. PICK s \in InProgress : (HasOpened(s) /\ ulid = s.ulid) \/ (HasSealed(s) /\ ulid = s.to)
          BY <3>2 DEF DiskOK
        <4>2. s = request[c]
          BY <3>1
        <4> QED BY <4>1, <4>2
      <3> QED BY <3>2
    <2>4. sent' = sent
      BY DEF counts
    <2> QED BY <1>4, <2>1, <2>2, <2>3, <2>4 DEF DiskOK
  <1>16. OrderOK'
    <2>1. outlived' = outlived
      BY DEF counts
    <2>2. \A op \in pool' : op.kind # "write" => op \in pool
      BY <1>5
    <2>3. \A d \in DOMAIN request : request'[d].id = request[d].id
      BY <1>1
    <2> QED BY <1>1, <1>4, <2>1, <2>2, <2>3 DEF OrderOK
  <1> QED BY <1>6, <1>7, <1>8, <1>13, <1>14, <1>15, <1>16 DEF IInv

-----------------------------------------------------------------------------
(***************************************************************************)
(* Handlers that come to an await.                                         *)
(***************************************************************************)
\* A handler may wait for an operation on names that it has drawn, that it was
\* given or that it has looked up.
NamesKnown(c, op) ==
    /\ op.kind = "create" => op.ulid \in Ulid /\ op.by \notin DOMAIN data
    /\ op.kind = "rename" => op.ulid \in tokens /\ op.to \in Ulid
    /\ Coming(op) \cap minted = {}
    /\ \A other \in pool : /\ Coming(op) \cap {other.ulid, other.to} = {}
                           /\ Coming(other) \cap {op.ulid, op.to} = {}
    /\ Drawn(request[c])' \subseteq Ulid \ minted
    /\ \A other \in pool : other.by # op.by => Drawn(request[c])' \cap {other.ulid, other.to} = {}

\* What the handler of r knows when it waits for op.
FitsOperation(r, op) ==
    /\ op.by = r.id
    /\ op.kind # "read" => op.ulid = r.ulid
    /\ op.kind = "rename" => op.to = r.to
    /\ r.op \in Uploads =>
          /\ op.kind \in {"create", "rename"}
          /\ r.ulid \in Ulid /\ r.token \in {{}, {r.ulid}}
          /\ op.kind = "rename" => /\ r.op = "upload" /\ r.token # {} /\ r.to # r.ulid
                                   /\ Requests!UploadFits(Root, r.name)
                                   /\ ~outlived => r.ulid \in DOMAIN disk
    /\ r.op \notin Uploads =>
          LET record == fs[Requests!TargetKey(Root, r.name)]
          IN  /\ op.kind \in (IF r.op = "delete" THEN {"remove"} ELSE {"open", "read"})
              /\ Requests!IsPresent(Root, r.name)
              /\ r.ulid = ver[<<record.id, record.latest_version>>]

LEMMA AwaitStep ==
    ASSUME IInv, NEW c \in DOMAIN request, queue # <<>>, Head(queue) = c,
           request[c].pc \in {"queued", "ready"},
           NEW r \in Request, NEW op \in FileOperation, op.kind # "write",
           NEW others \in SUBSET {Write(request[c])}, Await(c, r, op, others),
           r.id = request[c].id, r.op = request[c].op,
           r.name = request[c].name, r.token = request[c].token,
           others # {} => request[c].pc = "ready",
           txn' \in {txn, c},
           UNCHANGED <<catalog, disk, data, queue, tokens, minted, acked, counts>>,
           NamesKnown(c, op), FitsOperation(r, op),
           \A ulid \in DOMAIN disk \ minted : HasOpened(request[c])' /\ ulid = r.ulid
    PROVE  IInv'
  <1> USE DEF IInv, NamesKnown, FitsOperation
  <1>1. /\ Advances(c)
        /\ request'[c].pc = "await" /\ request'[c].at = op.kind
        /\ request'[c].ulid = r.ulid /\ request'[c].to = r.to
        /\ request'[c].file = r.file /\ request'[c].made = r.made
    <2>1. op.kind \in {"create", "open", "read", "rename", "remove"}
      BY DEF FileOperation
    <2> QED BY <2>1, AwaitAdvances
  <1>2. /\ c \in DOMAIN request' /\ DOMAIN request' = DOMAIN request
        /\ request'[c].id = r.id /\ request'[c].op = r.op
        /\ request'[c].name = r.name /\ request'[c].token = r.token
        /\ \A d \in DOMAIN request : d # c =>
              /\ request'[d] = request[d] /\ request[d].pc = "queued"
              /\ request[d].id # r.id /\ \A other \in pool : other.by # request[d].id
    BY <1>1, OthersIdle DEF Advances
  <1>3. InProgress' = {request'[c]}
    BY <1>1, NextInProgress
  <1>4. \A other \in others :
           /\ other.by = r.id /\ other.kind = "write"
           /\ other.ulid = NoUlid /\ other.to = NoUlid /\ other \in FileOperation
    <2>1. Write(request[c]) \in FileOperation
      BY OperationType DEF PipelineTypeOK
    <2>2. /\ Write(request[c]).by = r.id /\ Write(request[c]).kind = "write"
          /\ Write(request[c]).ulid = NoUlid /\ Write(request[c]).to = NoUlid
      BY DEF Write, Operation
    <2> QED BY <2>1, <2>2
  <1>5. pool' = pool \cup {op} \cup others
    BY DEF Await
  <1>6. \A other \in pool : other.by = r.id => other.kind = "write"
    BY OnlyWrites
  <1>7. PipelineTypeOK'
    <2>1. QueueOK' /\ DOMAIN request' \subseteq Client /\ \A d \in DOMAIN request' : request'[d] \in Request
      BY <1>1, AdvancesQueue
    <2>2. pool' \subseteq FileOperation
      BY <1>4, <1>5 DEF PipelineTypeOK
    <2>3. txn' \in Client \cup {NoClient}
      BY DEF PipelineTypeOK
    <2> QED BY <2>1, <2>2, <2>3 DEF PipelineTypeOK
  <1>8. WriterHoldsLock' /\ UploadsSpareVersions'
    BY <1>1, <1>2 DEF WriterHoldsLock, UploadsSpareVersions
  <1>9. CatalogOK'
    <2>1. \A d \in DOMAIN request' :
             /\ request'[d].id = request[d].id
             /\ request'[d].pc # "leave" => request[d].pc # "leave"
      BY <1>2
    <2> QED BY <1>2, <2>1 DEF CatalogOK, catalog, counts
  <1>10. PoolOK'
    <2>1. \A other \in pool' : other \in pool \/ other = op \/ other \in others
      BY <1>5
    <2>2. ASSUME NEW d \in DOMAIN request', NEW other \in pool', other.by = request'[d].id
          PROVE  /\ request'[d].pc # "queued"
                 /\ other.kind # "write" =>
                       /\ request'[d].pc # "ready"
                       /\ other.kind = request'[d].at
                       /\ other.kind # "read" => other.ulid = request'[d].ulid
                       /\ other.kind = "rename" => other.to = request'[d].to
      <3>1. d = c
        BY <1>2, <1>4, <2>1, <2>2
      <3> QED BY <1>1, <1>2, <1>4, <1>6, <2>1, <2>2, <3>1
    <2>3. ASSUME NEW x \in pool', NEW y \in pool', x.by = y.by, "write" \notin {x.kind, y.kind}
          PROVE  x = y
      BY <1>4, <1>6, <2>1, <2>3 DEF PoolOK
    <2>4. ASSUME NEW x \in pool' PROVE x.by <= sent'
      <3>1. r.id <= sent /\ sent' = sent
        BY DEF CatalogOK, counts
      <3> QED BY <1>4, <2>1, <3>1 DEF PoolOK
    <2> QED BY <2>2, <2>3, <2>4 DEF PoolOK
  <1>11. \A d \in DOMAIN request' : d # c => ~IsWorking(request[d])'
    BY <1>2, <1>4, <1>5 DEF IsWorking
  <1>12. \A other : Coming(other)' = Coming(other)
    BY DEF Coming
  <1>13. NamesOK'
    <2>1. \A other \in others : Coming(other)' = {} /\ {other.ulid, other.to} = {NoUlid}
      BY <1>4 DEF Coming
    <2>2. \A x \in pool' : x \in pool \/ x = op \/ x \in others
      BY <1>5
    <2>3. \A x \in pool' : Coming(x)' \subseteq Ulid
      <3>1. \A x \in pool \cup {op} : Coming(x) \subseteq Ulid
        BY DEF Coming, NamesOK
      <3> QED BY <1>12, <2>1, <2>2, <3>1
    <2>4. ASSUME NEW x \in pool'
          PROVE  /\ x.kind = "create" => x.ulid \in Ulid
                 /\ x.kind = "rename" => x.ulid \in tokens' /\ x.to \in Ulid
                 /\ x.kind = "write" => x.ulid = NoUlid /\ x.to = NoUlid
      BY <1>4, <2>2 DEF NamesOK
    <2>5. ASSUME NEW x \in pool' PROVE Coming(x)' \cap minted' = {}
      BY <1>12, <2>1, <2>2 DEF NamesOK
    <2>6. ASSUME NEW x \in pool', NEW y \in pool' \ {x} PROVE Coming(x)' \cap {y.ulid, y.to} = {}
      <3>1. CASE x \in pool /\ y \in pool
        BY <1>12, <2>6, <3>1 DEF NamesOK
      <3>2. CASE x \in others \/ y \in others
        BY <2>1, <2>3, <3>2, UlidAssumption
      <3>3. CASE x = op \/ y = op
        BY <1>12, <2>2, <2>6, <3>2, <3>3
      <3> QED BY <2>2, <3>1, <3>2, <3>3
    <2>7. ASSUME NEW d \in DOMAIN request', IsWorking(request[d])'
          PROVE  /\ Drawn(request[d])' \subseteq Ulid \ minted'
                 /\ \A x \in pool' : x.by # request'[d].id => Drawn(request[d])' \cap {x.ulid, x.to} = {}
      <3>1. d = c
        BY <1>11, <2>7
      <3>2. \A x \in pool' : x.by # request'[c].id => x \in pool
        BY <1>2, <1>4, <2>2
      <3> QED BY <1>2, <3>1, <3>2
    <2> QED BY <2>4, <2>5, <2>6, <2>7 DEF NamesOK
  <1>14. HandlersOK'
    <2>1. /\ \A name \in Name : Requests!UploadFits(Root, name)' <=> Requests!UploadFits(Root, name)
          /\ \A name \in Name : Requests!IsPresent(Root, name)' <=> Requests!IsPresent(Root, name)
          /\ \A name \in Name : Requests!TargetKey(Root, name)' = Requests!TargetKey(Root, name)
      BY DEF Requests!UploadFits, Requests!IsPresent, Requests!TargetKey, Requests!UploadKey, catalog
    <2>2. ASSUME NEW d \in DOMAIN request'
          PROVE  request'[d].token \in Requests!Continuation' /\ (request'[d].op \notin Uploads => request'[d].token = {})
      <3>1. request'[d].token = request[d].token /\ request'[d].op = request[d].op /\ d \in DOMAIN request
        BY <1>2
      <3>2. request[d].token \in Requests!Continuation /\ (request[d].op \notin Uploads => request[d].token = {})
        BY <3>1 DEF HandlersOK
      <3> QED BY <3>1, <3>2 DEF Requests!Continuation
    <2>3. r.name \in Name
      BY DEF Request
    <2>4. /\ Requests!UploadFits(Root, request[c].name)' <=> Requests!UploadFits(Root, r.name)
          /\ Requests!IsPresent(Root, request[c].name)' <=> Requests!IsPresent(Root, r.name)
          /\ Requests!TargetKey(Root, request[c].name)' = Requests!TargetKey(Root, r.name)
      <3>1. /\ Requests!UploadFits(Root, request[c].name)' <=> Requests!UploadFits(Root, r.name)'
            /\ Requests!IsPresent(Root, request[c].name)' <=> Requests!IsPresent(Root, r.name)'
            /\ Requests!TargetKey(Root, request[c].name)' = Requests!TargetKey(Root, r.name)'
        BY <1>2 DEF Requests!UploadFits, Requests!IsPresent, Requests!TargetKey, Requests!UploadKey
      <3> QED BY <2>1, <2>3, <3>1
    <2>5. ASSUME NEW d \in DOMAIN request', IsWorking(request[d])', request'[d].op \in Uploads
          PROVE  /\ request'[d].at \in {"create", "rename"}
                 /\ request'[d].ulid \in Ulid /\ request'[d].token \in {{}, {request'[d].ulid}}
                 /\ request'[d].at = "rename" => /\ request'[d].op = "upload" /\ request'[d].token # {}
                                                 /\ request'[d].to # request'[d].ulid
                                                 /\ Requests!UploadFits(Root, request[d].name)'
      BY <1>1, <1>2, <1>11, <2>4, <2>5
    <2>6. ASSUME NEW d \in DOMAIN request', IsWorking(request[d])', request'[d].op \notin Uploads
          PROVE  LET record == fs'[Requests!TargetKey(Root, request[d].name)']
                 IN  /\ request'[d].at \in (IF request'[d].op = "delete" THEN {"remove"} ELSE {"open", "read"})
                     /\ Requests!IsPresent(Root, request[d].name)'
                     /\ request'[d].ulid = ver'[<<record.id, record.latest_version>>]
      BY <1>1, <1>2, <1>11, <2>4, <2>6 DEF catalog
    <2> QED BY <2>2, <2>5, <2>6 DEF HandlersOK
  <1>15. DiskOK'
    <2>1. \A x \in pool' : x.kind = "create" => x.by \notin DOMAIN data
      BY <1>4, <1>5 DEF DiskOK
    <2>2. \A d \in DOMAIN request' : request'[d].pc = "queued" => request'[d].id \notin DOMAIN data'
      BY <1>1, <1>2 DEF DiskOK
    <2>3. \A ulid \in DOMAIN disk' \ minted' : HasOpened(request'[c]) /\ ulid = request'[c].ulid
      BY <1>1 DEF HasOpened
    <2>4. sent' = sent
      BY DEF counts
    <2> QED BY <1>1, <1>3, <2>1, <2>2, <2>3, <2>4 DEF DiskOK
  <1>16. OrderOK'
    <2>1. outlived' = outlived
      BY DEF counts
    <2>2. \A x \in pool' : x.kind # "write" => x \in pool \/ x.by = request'[c].id
      BY <1>2, <1>4, <1>5
    <2>3. \A d \in DOMAIN request : request'[d].id = request[d].id
      BY <1>2
    <2>4. ~outlived => \A x \in pool' : x.kind # "write" => \E d \in DOMAIN request' : request'[d].id = x.by
      BY <1>2, <2>2, <2>3 DEF OrderOK
    <2>5. HasOpened(request'[c]) => op.kind = "rename"
      BY <1>1 DEF HasOpened
    <2> QED BY <1>1, <1>3, <2>1, <2>4, <2>5 DEF OrderOK
  <1> QED BY <1>7, <1>8, <1>9, <1>10, <1>13, <1>14, <1>15, <1>16 DEF IInv

-----------------------------------------------------------------------------
(***************************************************************************)
(* The tables.                                                             *)
(***************************************************************************)
\* The tables stay in order when nothing is committed and no version's blob is
\* given away as a token.
LEMMA SameCatalog ==
    ASSUME IInv, NEW c, Advances(c), request[c].pc # "leave", catalog' = catalog, counts' = counts,
           minted \subseteq minted', minted' \subseteq Ulid, tokens' \subseteq minted',
           \A v \in DOMAIN ver : ver[v] \notin tokens'
    PROVE  CatalogOK'
  <1>1. \A d \in DOMAIN request' :
           request'[d].id = request[d].id /\ (request'[d].pc # "leave" => request[d].pc # "leave")
    BY DEF Advances
  <1>2. DOMAIN request' = DOMAIN request /\ fs' = fs /\ seq' = seq /\ ver' = ver /\ sent' = sent
    BY DEF Advances, catalog, counts
  <1> QED BY <1>1, <1>2 DEF CatalogOK, IInv

\* A commit adds one file, one version and one id.
LEMMA CommitCatalog ==
    ASSUME IInv, NEW c, Moves(c, "leave"), request[c].pc = "ready",
           NEW ulid \in Ulid, NEW saved \in Ulid,
           Requests!UploadFits(Root, request[c].name),
           Requests!CommitFile(Root, request[c].name, ulid, saved),
           tokens' = tokens, minted \subseteq minted', minted' \subseteq Ulid,
           saved \in minted' \ tokens, counts' = counts
    PROVE  CatalogOK'
  <1> USE DEF IInv
  <1> DEFINE name == request[c].name
             key == Requests!UploadKey(Root, name)
             new == Requests!FileRecord(name, ulid)
  <1>1. c \in DOMAIN request /\ DOMAIN request' = DOMAIN request /\ request[c] \in Request
    BY DEF Moves, Advances, PipelineTypeOK
  <1>2. name \in Name
    BY <1>1 DEF Request
  <1>3. key \notin DOMAIN fs /\ key \in {ROOT_FSID} \X Name
    BY <1>2, RootKeys
  <1>4. new.id = seq + 1 /\ new.type = VERSION_BLOB /\ new.latest_version = 1
    BY DEF Requests!FileRecord, Requests!NextId, VERSION_BLOB, Requests!VERSION_BLOB
  <1>5. /\ DOMAIN fs' = DOMAIN fs \cup {key}
        /\ fs'[key] = new /\ \A k \in DOMAIN fs : fs'[k] = fs[k]
    <2>1. fs' = Requests!Insert(fs, key, new)
      BY DEF Requests!CommitFile
    <2> HIDE DEF key, new
    <2> QED BY <1>3, <2>1 DEF Requests!Insert
  <1>6. seq' = seq + 1 /\ seq \in Nat /\ sent \in Nat /\ sent' = sent
    BY DEF Requests!CommitFile, Requests!NextId, CatalogOK, counts
  <1>7. /\ DOMAIN ver' = DOMAIN ver \cup {<<seq + 1, 1>>}
        /\ ver'[<<seq + 1, 1>>] = saved
        /\ <<seq + 1, 1>> \notin DOMAIN ver
        /\ \A v \in DOMAIN ver : ver'[v] = ver[v]
    <2>1. ver' = Requests!Insert(ver, <<seq + 1, 1>>, saved)
      BY DEF Requests!CommitFile, Requests!FirstVersion, Requests!NextId
    <2>2. <<seq + 1, 1>> \notin DOMAIN ver
      BY <1>6 DEF CatalogOK
    <2> QED BY <2>1, <2>2 DEF Requests!Insert
  <1>8. IsFiniteSet(DOMAIN fs') /\ Cardinality(DOMAIN fs') = seq'
    BY <1>3, <1>5, <1>6, FS_AddElement DEF CatalogOK
  <1>9. seq < request[c].id /\ request[c].id <= sent /\ request[c].id \in Nat
    BY <1>1, RequestIds DEF CatalogOK, Request
  <1>10. ASSUME NEW d \in DOMAIN request'
         PROVE  request'[d].id <= sent' /\ (request'[d].pc # "leave" => seq' < request'[d].id)
    <2>1. CASE d = c
      BY <1>1, <1>6, <1>9, <2>1 DEF Moves, Advances
    <2>2. CASE d # c
      <3>1. request[c].id < request[d].id /\ request'[d] = request[d]
        BY <1>1, <2>2, OthersIdle DEF Moves, Advances
      <3>2. request[d].id \in Nat /\ request[d].id <= sent
        BY <1>1, RequestIds DEF PipelineTypeOK, CatalogOK, Request
      <3> QED BY <1>6, <1>9, <3>1, <3>2
    <2> QED BY <2>1, <2>2
  <1>11. seq' \in 0 .. sent' /\ sent' \in 0 .. MaxRequests
    BY <1>6, <1>9 DEF CatalogOK
  <1> HIDE DEF key, new
  <1>12. \A k \in DOMAIN fs' :
            /\ fs'[k].type = VERSION_BLOB /\ fs'[k].latest_version = 1
            /\ <<fs'[k].id, 1>> \in DOMAIN ver'
    BY <1>4, <1>5, <1>7 DEF CatalogOK
  <1>13. DOMAIN fs' \subseteq {ROOT_FSID} \X Name
    BY <1>3, <1>5 DEF CatalogOK
  <1>14. DOMAIN ver' \subseteq (1 .. seq') \X {1}
    BY <1>6, <1>7 DEF CatalogOK
  <1>15. \A v \in DOMAIN ver' : ver'[v] \in minted' \ tokens'
    BY <1>7 DEF CatalogOK
  <1> QED BY <1>8, <1>10, <1>11, <1>12, <1>13, <1>14, <1>15 DEF CatalogOK

-----------------------------------------------------------------------------
(***************************************************************************)
(* The steps of a handler.                                                 *)
(***************************************************************************)
\* The handler whose turn it is belongs to the first in the queue.
LEMMA TurnTaken ==
    ASSUME IInv, NEW c, NEW pc, Turn(c, pc)
    PROVE  /\ c \in DOMAIN request /\ queue # <<>> /\ Head(queue) = c
           /\ request[c].pc = pc /\ request[c] \in Request /\ request[c].name \in Name
           /\ request[c].id \in RequestId
  <1>1. c \in DOMAIN request
    BY HolderHasRequest DEF Turn, IInv, PipelineTypeOK
  <1> QED BY <1>1 DEF Turn, IInv, PipelineTypeOK, Request

\* Nothing goes unseen before the first await.
LEMMA AllShown ==
    ASSUME IInv, NEW c \in DOMAIN request, queue # <<>>, Head(queue) = c, request[c].pc = "queued"
    PROVE  DOMAIN disk \subseteq minted
  <1>1. InProgress = {}
    BY SoleInProgress DEF IInv
  <1> QED BY <1>1 DEF IInv, DiskOK

LEMMA StartUploadStep ==
    ASSUME IInv, NEW c, StartUpload(c)
    PROVE  IInv'
  <1> USE DEF IInv
  <1> DEFINE r == request[c]
  <1>1. /\ c \in DOMAIN request /\ queue # <<>> /\ Head(queue) = c
        /\ r.pc = "queued" /\ r \in Request /\ r.op \in Uploads
    BY TurnTaken DEF StartUpload
  <1>2. PICK ulid \in Ulid :
           /\ IF r.token = {} THEN Fresh(ulid) ELSE ulid \in r.token
           /\ Await(c, [r EXCEPT !.ulid = ulid], Operation("create", r, ulid, NoUlid), {})
    BY DEF StartUpload
  <1> DEFINE next == [r EXCEPT !.ulid = ulid]
             op == Operation("create", r, ulid, NoUlid)
  <1>3. /\ next \in Request /\ next.id = r.id /\ next.op = r.op /\ next.name = r.name
        /\ next.token = r.token /\ next.ulid = ulid
    BY <1>1 DEF Request
  <1>4. /\ op \in FileOperation /\ op.kind = "create" /\ op.by = r.id
        /\ op.ulid = ulid /\ op.to = NoUlid
    <2>1. op \in FileOperation
      BY <1>1, OperationType
    <2> QED BY <2>1 DEF Operation
  <1>5. request'[c].at = "create" /\ request'[c].op = r.op /\ request'[c].token = r.token /\ request'[c].ulid = ulid
    <2>1. Await(c, next, op, {})
      BY <1>2
    <2> HIDE DEF next, op
    <2>2. Advances(c) /\ request'[c].at = op.kind /\ request'[c].ulid = next.ulid
      BY <1>1, <1>3, <1>4, <2>1, AwaitAdvances
    <2> QED BY <1>3, <1>4, <2>2 DEF Advances
  <1>6. r.token \in Requests!Continuation
    BY <1>1 DEF HandlersOK
  <1>7. r.token \in {{}, {ulid}} /\ (r.token # {} => ulid \in tokens /\ ulid \in minted)
    BY <1>2, <1>6 DEF Requests!Continuation, CatalogOK
  <1>8. r.token = {} => ulid \notin minted /\ \A other \in pool : ulid \notin {other.ulid, other.to}
    BY <1>2 DEF Fresh
  <1>9. Coming(op) = IF r.token = {} THEN {ulid} ELSE {}
    BY <1>4, <1>7, <1>8 DEF Coming, CatalogOK
  <1>10. Drawn(request[c])' = IF r.token = {} THEN {ulid} ELSE {}
    BY <1>1, <1>5 DEF Drawn
  <1>11. \A other \in pool : Coming(other) \cap {ulid, NoUlid} = {}
    <2>1. \A other \in pool : Coming(other) \subseteq {other.ulid, other.to} /\ Coming(other) \cap minted = {}
                              /\ Coming(other) \subseteq Ulid
      BY DEF Coming, NamesOK
    <2> QED BY <1>7, <1>8, <2>1, UlidAssumption
  <1>12. DOMAIN disk \subseteq minted
    BY <1>1, AllShown
  <1>13. r.id \notin DOMAIN data
    BY <1>1 DEF DiskOK
  <1>14. UNCHANGED <<catalog, disk, data, queue, tokens, minted, acked, counts>> /\ txn' \in {txn, c}
    BY DEF StartUpload, shown
  <1>15. Await(c, next, op, {})
    BY <1>2
  <1>16. Coming(op) \cap minted = {} /\ Drawn(request[c])' \subseteq Ulid \ minted
    BY <1>8, <1>9, <1>10
  <1>17. \A other \in pool : /\ Coming(op) \cap {other.ulid, other.to} = {}
                             /\ Coming(other) \cap {op.ulid, op.to} = {}
                             /\ Drawn(request[c])' \cap {other.ulid, other.to} = {}
    BY <1>4, <1>8, <1>9, <1>10, <1>11
  <1>18. ulid \in Ulid /\ op.kind # "write"
    BY <1>2, <1>4
  <1> HIDE DEF next, op, IInv
  <1>19. NamesKnown(c, op)
    BY <1>4, <1>13, <1>16, <1>17, <1>18 DEF NamesKnown
  <1>20. FitsOperation(next, op)
    BY <1>1, <1>3, <1>4, <1>7, <1>18 DEF FitsOperation
  <1> QED BY <1>1, <1>3, <1>4, <1>12, <1>14, <1>15, <1>18, <1>19, <1>20, AwaitStep

LEMMA StartOtherStep ==
    ASSUME IInv, NEW c, StartOther(c)
    PROVE  IInv'
  <1> USE DEF IInv
  <1> DEFINE r == request[c]
             record == fs[Requests!TargetKey(Root, r.name)]
             blob == ver[<<record.id, record.latest_version>>]
             kind == IF r.op = "delete" THEN "remove" ELSE "open"
  <1>1. /\ c \in DOMAIN request /\ queue # <<>> /\ Head(queue) = c
        /\ r.pc = "queued" /\ r \in Request /\ r.op \notin Uploads /\ r.name \in Name
    BY TurnTaken DEF StartOther
  <1>2. UNCHANGED <<catalog, disk, data, queue, tokens, minted, acked, counts>>
    BY DEF StartOther, shown
  <1>3. CASE ~Requests!IsPresent(Root, r.name)
    <2>1. Leave(c) /\ pool' = pool \cup {}
      BY <1>3 DEF StartOther, Answer
    <2>2. Moves(c, "leave") /\ txn' = (IF txn = c THEN NoClient ELSE txn)
      BY <1>1, <2>1, LeaveMoves DEF Leave
    <2>3. CatalogOK'
      BY <1>1, <1>2, <2>2, SameCatalog DEF Moves, CatalogOK
    <2>4. r \notin InProgress
      BY <1>1, SoleInProgress
    <2>5. acked' \subseteq [id : RequestId, ulid : Ulid]
      BY <1>2 DEF PipelineTypeOK
    <2>6. {} \in SUBSET {Write(request[c])}
      OBVIOUS
    <2> HIDE DEF IInv
    <2> QED BY <1>1, <1>2, <2>1, <2>2, <2>3, <2>4, <2>5, <2>6, LeaveStep
  <1>4. CASE Requests!IsPresent(Root, r.name)
    <2> DEFINE next == [r EXCEPT !.ulid = blob]
               op == Operation(kind, r, blob, NoUlid)
    <2>1. Await(c, next, op, {}) /\ txn' \in {txn, c}
      BY <1>4 DEF StartOther
    <2>2. blob \in Ulid /\ blob \in minted \ tokens
      <3>1. record.latest_version = 1 /\ <<record.id, 1>> \in DOMAIN ver /\ ver[<<record.id, 1>>] \in Ulid
        BY <1>1, <1>4, PresentFile
      <3> QED BY <3>1 DEF CatalogOK
    <2>3. /\ next \in Request /\ next.id = r.id /\ next.op = r.op /\ next.name = r.name
          /\ next.token = r.token /\ next.ulid = blob
      <3> HIDE DEF blob
      <3> QED BY <1>1, <2>2 DEF Request
    <2>4. /\ op \in FileOperation /\ op.kind = kind /\ op.by = r.id
          /\ op.ulid = blob /\ op.to = NoUlid
      <3> HIDE DEF blob
      <3>1. op \in FileOperation
        BY <1>1, <2>2, OperationType
      <3> QED BY <3>1 DEF Operation
    <2>5. Coming(op) = {}
      BY <2>4 DEF Coming
    <2>6. Drawn(request[c])' = {}
      <3>1. request'[c].at = op.kind /\ request'[c].op = r.op
        <4> HIDE DEF next, op, kind
        <4>1. op.kind \in {"create", "open", "read", "rename", "remove"}
          BY <2>4 DEF kind
        <4>2. Advances(c) /\ request'[c].at = op.kind
          BY <1>1, <2>1, <2>3, <4>1, AwaitAdvances
        <4> QED BY <4>2 DEF Advances
      <3> QED BY <1>1, <2>4, <3>1 DEF Drawn
    <2>7. \A other \in pool : Coming(other) \cap {blob, NoUlid} = {}
      <3>1. \A other \in pool : Coming(other) \subseteq Ulid /\ Coming(other) \cap minted = {}
        BY DEF Coming, NamesOK
      <3> QED BY <2>2, <3>1, UlidAssumption
    <2>8. DOMAIN disk \subseteq minted
      BY <1>1, AllShown
    <2>9. \A other \in pool : /\ Coming(op) \cap {other.ulid, other.to} = {}
                              /\ Coming(other) \cap {op.ulid, op.to} = {}
                              /\ Drawn(request[c])' \cap {other.ulid, other.to} = {}
      BY <2>4, <2>5, <2>6, <2>7
    <2>10. Coming(op) \cap minted = {} /\ Drawn(request[c])' \subseteq Ulid \ minted
      BY <2>5, <2>6
    <2>11. next.ulid = ver[<<fs[Requests!TargetKey(Root, next.name)].id,
                             fs[Requests!TargetKey(Root, next.name)].latest_version>>]
      BY <2>3
    <2>12. Requests!IsPresent(Root, next.name)
      BY <1>4, <2>3
    <2>13. kind \in (IF next.op = "delete" THEN {"remove"} ELSE {"open", "read"})
      BY <2>3
    <2>14. NamesKnown(c, op)
      BY <2>4, <2>9, <2>10 DEF NamesKnown
    <2>15. FitsOperation(next, op)
      <3> HIDE DEF next, op, blob, kind
      <3> QED BY <1>1, <2>3, <2>4, <2>11, <2>12, <2>13 DEF FitsOperation
    <2>16. op.kind # "write"
      BY <2>4
    <2> HIDE DEF next, op, IInv
    <2> QED BY <1>1, <1>2, <2>1, <2>3, <2>4, <2>8, <2>14, <2>15, <2>16, AwaitStep
  <1> QED BY <1>3, <1>4

\* The handlers that finish an upload commit nothing or a file whose blob has a
\* name that was drawn for it.
LEMMA ShownStep ==
    ASSUME IInv, NEW c, Turn(c, "ready"), Leave(c), request[c].op \in Uploads,
           UNCHANGED <<disk, data, queue, counts>>,
           NEW written \in SUBSET {Write(request[c])}, pool' = pool \cup written,
           tokens' \in {tokens, tokens \cup {request[c].ulid}},
           minted' = minted \cup {request[c].ulid}
                            \cup (IF request[c].at = "rename" THEN {request[c].to} ELSE {}),
           acked' \subseteq acked \cup {[id |-> request[c].id, ulid |-> request[c].ulid]},
           \/ catalog' = catalog
           \/ /\ tokens' = tokens
              /\ Requests!UploadFits(Root, request[c].name)
              /\ \E saved \in Drawn(request[c]) :
                    Requests!CommitFile(Root, request[c].name, request[c].ulid, saved)
    PROVE  IInv'
  <1> USE DEF IInv
  <1> DEFINE r == request[c]
             names == {r.ulid} \cup (IF r.at = "rename" THEN {r.to} ELSE {})
  <1>1. /\ c \in DOMAIN request /\ queue # <<>> /\ Head(queue) = c /\ r.pc = "ready"
        /\ r \in Request /\ r.id \in RequestId
    BY TurnTaken
  <1>2. Moves(c, "leave") /\ txn' = (IF txn = c THEN NoClient ELSE txn)
    BY <1>1, LeaveMoves DEF Leave
  <1>3. IsWorking(r) /\ r.at \in {"create", "rename"} /\ r.ulid \in Ulid
    BY <1>1 DEF IsWorking, HandlersOK
  <1>4. r.ulid \in Drawn(r) \/ r.ulid \in tokens
    <2>1. r.token \in {{}, {r.ulid}} /\ r.token \in Requests!Continuation
      BY <1>1, <1>3 DEF HandlersOK
    <2>2. r.token = {} => r.ulid \in Drawn(r)
      BY DEF Drawn
    <2> QED BY <2>1, <2>2 DEF Requests!Continuation
  <1>5. names \subseteq Ulid /\ Drawn(r) \subseteq names /\ Drawn(r) \subseteq Ulid \ minted
    <2>1. Drawn(r) \subseteq Ulid \ minted
      BY <1>1, <1>3 DEF NamesOK
    <2>2. r.at = "rename" => r.to \in Drawn(r)
      BY DEF Drawn
    <2>3. Drawn(r) \subseteq names
      BY DEF Drawn
    <2> QED BY <1>3, <2>1, <2>2, <2>3
  <1>6. minted' = minted \cup names /\ minted' \subseteq Ulid /\ tokens' \subseteq minted'
    BY <1>5 DEF CatalogOK
  <1>7. CatalogOK'
    <2>1. CASE catalog' = catalog
      <3>1. \A v \in DOMAIN ver : ver[v] # r.ulid /\ ver[v] \notin tokens
        BY <1>4, <1>5 DEF CatalogOK
      <3> QED BY <1>1, <1>2, <1>6, <2>1, <3>1, SameCatalog DEF Moves
    <2>2. CASE /\ tokens' = tokens
               /\ Requests!UploadFits(Root, r.name)
               /\ \E saved \in Drawn(r) : Requests!CommitFile(Root, r.name, r.ulid, saved)
      <3>1. PICK saved \in Drawn(r) : Requests!CommitFile(Root, r.name, r.ulid, saved)
        BY <2>2
      <3>2. saved \in Ulid /\ saved \in minted' \ tokens
        BY <1>5, <1>6 DEF CatalogOK
      <3> HIDE DEF names
      <3> QED BY <1>1, <1>2, <1>3, <1>6, <2>2, <3>1, <3>2, CommitCatalog
    <2> QED BY <2>1, <2>2
  <1>8. acked' \subseteq [id : RequestId, ulid : Ulid]
    BY <1>1, <1>3 DEF PipelineTypeOK
  <1>9. \A ulid \in minted' \ minted : ulid = r.ulid \/ (r.at = "rename" /\ ulid = r.to)
    BY <1>6
  <1>10. /\ HasOpened(r) => r.ulid \in minted'
         /\ HasSealed(r) => r.to \in minted'
    BY <1>6 DEF HasSealed
  <1>11. tokens \subseteq tokens' /\ minted \subseteq minted'
    BY <1>6
  <1> HIDE DEF names, IInv
  <1> QED BY <1>1, <1>2, <1>7, <1>8, <1>9, <1>10, <1>11, LeaveStep

LEMMA ResumeUploadStep ==
    ASSUME IInv, NEW c, ResumeUpload(c)
    PROVE  IInv'
  <1> DEFINE r == request[c]
  <1>1. Turn(c, "ready") /\ r.at = "create" /\ UNCHANGED <<disk, data, queue, counts>>
    BY DEF ResumeUpload
  <1>2. /\ c \in DOMAIN request /\ queue # <<>> /\ Head(queue) = c /\ r.pc = "ready"
        /\ r \in Request
    BY <1>1, TurnTaken
  <1>3. r.token = {} /\ r.op \in Uploads => r.ulid \in Drawn(r)
    BY DEF Drawn
  <1>4. CASE FinishPart(c)
    <2>1. /\ Leave(c) /\ r.op \in Uploads /\ pool' = pool \cup {Write(r)}
          /\ tokens' = tokens \cup {r.ulid} /\ minted' = minted \cup {r.ulid}
          /\ acked' = acked \cup {[id |-> r.id, ulid |-> r.ulid]} /\ catalog' = catalog
      BY <1>4 DEF FinishPart, Answer, Acknowledged, Uploads
    <2> QED BY <1>1, <2>1, ShownStep
  <1>5. CASE FinishRefused(c)
    <2>1. /\ Leave(c) /\ r.op \in Uploads /\ pool' = pool \cup {Write(r)}
          /\ tokens' = tokens /\ minted' = minted \cup {r.ulid}
          /\ acked' = acked /\ catalog' = catalog
      BY <1>5 DEF FinishRefused, Answer, Uploads
    <2> QED BY <1>1, <2>1, ShownStep
  <1>6. CASE FinishSingle(c)
    <2>1. /\ Leave(c) /\ r.op \in Uploads /\ r.token = {} /\ pool' = pool \cup {Write(r)}
          /\ tokens' = tokens /\ minted' = minted \cup {r.ulid}
          /\ acked' = acked \cup {[id |-> r.id, ulid |-> r.ulid]}
          /\ Requests!UploadFits(Root, r.name)
          /\ Requests!CommitFile(Root, r.name, r.ulid, r.ulid)
      BY <1>6 DEF FinishSingle, Answer, Acknowledged, Uploads
    <2> QED BY <1>1, <1>3, <2>1, ShownStep
  <1>7. CASE SealFragments(c)
    <2> USE DEF IInv
    <2>1. r.op = "upload" /\ r.token # {} /\ Requests!UploadFits(Root, r.name)
      BY <1>7 DEF SealFragments
    <2>2. PICK to \in Ulid :
             /\ Fresh(to)
             /\ Await(c, [r EXCEPT !.to = to], Operation("rename", r, r.ulid, to), {Write(r)})
      BY <1>7 DEF SealFragments
    <2> DEFINE next == [r EXCEPT !.to = to]
               op == Operation("rename", r, r.ulid, to)
    <2>3. IsWorking(r) /\ r.op \in Uploads
      BY <1>2, <2>1 DEF IsWorking, Uploads
    <2>4. r.ulid \in Ulid /\ r.token = {r.ulid} /\ r.ulid \in tokens /\ r.ulid \in minted
      BY <1>2, <2>1, <2>3 DEF HandlersOK, Requests!Continuation, CatalogOK
    <2>5. InProgress = {r}
      BY <1>2, SoleInProgress
    <2>6. to \in Ulid \ minted /\ to # r.ulid /\ \A other \in pool : to \notin {other.ulid, other.to}
      BY <2>2, <2>5 DEF Fresh
    <2>7. /\ next \in Request /\ next.id = r.id /\ next.op = r.op /\ next.name = r.name
          /\ next.token = r.token /\ next.ulid = r.ulid /\ next.to = to
      BY <1>2, <2>6 DEF Request
    <2>8. /\ op \in FileOperation /\ op.kind = "rename" /\ op.by = r.id
          /\ op.ulid = r.ulid /\ op.to = to
      <3>1. op \in FileOperation
        BY <1>2, <2>4, <2>6, OperationType
      <3> QED BY <3>1 DEF Operation
    <2>9. Await(c, next, op, {Write(r)})
      BY <2>2
    <2>10. /\ request'[c].at = "rename" /\ request'[c].op = r.op /\ request'[c].token = r.token
           /\ request'[c].to = to
      <3> HIDE DEF next, op
      <3>1. Advances(c) /\ request'[c].at = op.kind /\ request'[c].to = next.to
        BY <1>2, <2>7, <2>8, <2>9, AwaitAdvances
      <3> QED BY <2>7, <2>8, <3>1 DEF Advances
    <2>11. Coming(op) = {to} /\ Drawn(request[c])' = {to} /\ HasOpened(request[c])'
      BY <2>1, <2>3, <2>8, <2>10 DEF Coming, Drawn, HasOpened
    <2>12. \A other \in pool : Coming(other) \cap {r.ulid, to} = {}
      <3>1. \A other \in pool : Coming(other) \subseteq {other.ulid, other.to} /\ Coming(other) \cap minted = {}
        BY DEF Coming, NamesOK
      <3> QED BY <2>4, <2>6, <3>1
    <2>13. \A ulid \in DOMAIN disk \ minted : ulid = r.ulid
      <3>1. ~HasSealed(r)
        BY <1>1 DEF HasSealed
      <3> QED BY <2>5, <3>1 DEF DiskOK
    <2>14. ~outlived => r.ulid \in DOMAIN disk
      BY <1>1, <1>2, <2>3, <2>5 DEF OrderOK, HasOpened
    <2>15. UNCHANGED <<catalog, disk, data, queue, tokens, minted, acked, counts>> /\ txn' \in {txn, c}
      BY <1>1, <1>7 DEF SealFragments, shown
    <2> HIDE DEF next, op, IInv
    <2>16. NamesKnown(c, op)
      BY <2>4, <2>6, <2>8, <2>11, <2>12 DEF NamesKnown
    <2>17. FitsOperation(next, op)
      BY <2>1, <2>3, <2>4, <2>6, <2>7, <2>8, <2>14 DEF FitsOperation
    <2>18. op.kind # "write" /\ \A ulid \in DOMAIN disk \ minted : HasOpened(request[c])' /\ ulid = next.ulid
      BY <2>7, <2>8, <2>11, <2>13
    <2> QED BY <1>2, <2>7, <2>8, <2>9, <2>15, <2>16, <2>17, <2>18, AwaitStep
  <1> QED BY <1>4, <1>5, <1>6, <1>7 DEF ResumeUpload

\* A handler may end and leave the tables, the names and the disk as they are.
LEMMA QuietStep ==
    ASSUME IInv, NEW c, Turn(c, "ready"), Leave(c),
           UNCHANGED <<catalog, disk, data, queue, tokens, minted, acked, counts>>,
           NEW written \in SUBSET {Write(request[c])}, pool' = pool \cup written,
           HasOpened(request[c]) => request[c].ulid \in minted,
           ~HasSealed(request[c])
    PROVE  IInv'
  <1>1. /\ c \in DOMAIN request /\ queue # <<>> /\ Head(queue) = c /\ request[c].pc = "ready"
        /\ request[c] \in Request
    BY TurnTaken
  <1>2. Moves(c, "leave") /\ txn' = (IF txn = c THEN NoClient ELSE txn)
    BY <1>1, LeaveMoves DEF Leave, IInv
  <1>3. CatalogOK'
    BY <1>1, <1>2, SameCatalog DEF Moves, CatalogOK, IInv
  <1>4. acked' \subseteq [id : RequestId, ulid : Ulid]
    BY DEF PipelineTypeOK, IInv
  <1> QED BY <1>1, <1>2, <1>3, <1>4, LeaveStep

LEMMA ResumeSealedStep ==
    ASSUME IInv, NEW c, ResumeSealed(c)
    PROVE  IInv'
  <1> DEFINE r == request[c]
  <1>1. Turn(c, "ready") /\ r.at = "rename" /\ UNCHANGED <<disk, data, queue, pool, tokens, counts>>
    BY DEF ResumeSealed
  <1>2. /\ c \in DOMAIN request /\ queue # <<>> /\ Head(queue) = c /\ r.pc = "ready"
        /\ r \in Request
    BY <1>1, TurnTaken
  <1>3. IsWorking(r)
    BY <1>2 DEF IsWorking
  <1>4. r.op \in Uploads /\ r.token = {r.ulid} /\ Requests!UploadFits(Root, r.name) /\ r.ulid \in minted
    <2>1. r.op \in Uploads
      BY <1>1, <1>2, <1>3 DEF IInv, HandlersOK
    <2>2. r.token = {r.ulid} /\ Requests!UploadFits(Root, r.name) /\ r.token \in Requests!Continuation
      BY <1>1, <1>2, <1>3, <2>1 DEF IInv, HandlersOK
    <2> QED BY <2>1, <2>2 DEF IInv, CatalogOK, Requests!Continuation
  <1>5. pool' = pool \cup {} /\ {} \in SUBSET {Write(request[c])}
    BY <1>1
  <1>6. CASE /\ r.ok
             /\ Requests!CommitFile(Root, r.name, r.ulid, r.to)
             /\ minted' = minted \cup {r.ulid, r.to}
             /\ Acknowledged(c)
             /\ Answer(c, "ok")
    <2>1. Leave(c) /\ acked' \subseteq acked \cup {[id |-> r.id, ulid |-> r.ulid]}
      BY <1>6 DEF Answer, Acknowledged
    <2>2. minted' = minted \cup {r.ulid} \cup (IF r.at = "rename" THEN {r.to} ELSE {})
      BY <1>1, <1>6
    <2>3. r.to \in Drawn(r)
      BY <1>1 DEF Drawn
    <2> QED BY <1>1, <1>4, <1>5, <1>6, <2>1, <2>2, <2>3, ShownStep
  <1>7. CASE ~r.ok /\ Leave(c) /\ UNCHANGED <<catalog, shown, acked>>
    <2>1. ~HasSealed(r)
      BY <1>7 DEF HasSealed
    <2> QED BY <1>1, <1>4, <1>5, <1>7, <2>1, QuietStep DEF shown
  <1> QED BY <1>6, <1>7 DEF ResumeSealed

LEMMA ResumeDeleteStep ==
    ASSUME IInv, NEW c, ResumeDelete(c)
    PROVE  IInv'
  <1>1. Turn(c, "ready") /\ request[c].at = "remove" /\ Leave(c)
    BY DEF ResumeDelete, Answer
  <1>2. UNCHANGED <<catalog, disk, data, queue, tokens, minted, acked, counts>> /\ pool' = pool \cup {}
    BY DEF ResumeDelete
  <1>3. c \in DOMAIN request /\ IsWorking(request[c])
    BY <1>1, TurnTaken DEF IsWorking
  <1>4. ~HasOpened(request[c]) /\ ~HasSealed(request[c])
    BY <1>1, <1>3 DEF HasOpened, HasSealed, HandlersOK, IInv
  <1>5. {} \in SUBSET {Write(request[c])}
    OBVIOUS
  <1> QED BY <1>1, <1>2, <1>4, <1>5, QuietStep

LEMMA ResumeReadStep ==
    ASSUME IInv, NEW c, ResumeRead(c)
    PROVE  IInv'
  <1>1. Turn(c, "ready") /\ request[c].at = "read" /\ Leave(c)
    BY DEF ResumeRead
  <1>2. UNCHANGED <<catalog, disk, data, queue, tokens, minted, acked, counts>> /\ pool' = pool \cup {}
    BY DEF ResumeRead, shown
  <1>3. c \in DOMAIN request /\ IsWorking(request[c])
    BY <1>1, TurnTaken DEF IsWorking
  <1>4. ~HasOpened(request[c]) /\ ~HasSealed(request[c])
    BY <1>1, <1>3 DEF HasOpened, HasSealed, HandlersOK, IInv
  <1>5. {} \in SUBSET {Write(request[c])}
    OBVIOUS
  <1> QED BY <1>1, <1>2, <1>4, <1>5, QuietStep

LEMMA ResumeOpenedStep ==
    ASSUME IInv, NEW c, ResumeOpened(c)
    PROVE  IInv'
  <1> DEFINE r == request[c]
             record == fs[Requests!TargetKey(Root, r.name)]
             written == IF r.op = "append" THEN {Write(r)} ELSE {}
             op == Operation("read", r, NoUlid, NoUlid)
  <1>1. Turn(c, "ready") /\ r.at = "open"
    BY DEF ResumeOpened
  <1>2. UNCHANGED <<catalog, disk, data, queue, tokens, minted, acked, counts>>
    BY DEF ResumeOpened, shown
  <1>3. /\ c \in DOMAIN request /\ queue # <<>> /\ Head(queue) = c /\ r.pc = "ready"
        /\ r \in Request
    BY <1>1, TurnTaken
  <1>4. IsWorking(r) /\ r.op \notin Uploads
    BY <1>1, <1>3 DEF IsWorking, HandlersOK, IInv
  <1>5. ~HasOpened(r) /\ ~HasSealed(r)
    BY <1>1, <1>4 DEF HasOpened, HasSealed
  <1>6. written \in SUBSET {Write(r)} /\ {} \in SUBSET {Write(r)}
    OBVIOUS
  <1>7. \/ Leave(c) /\ (pool' = pool \cup written \/ pool' = pool \cup {})
        \/ Await(c, r, op, written) /\ UNCHANGED txn
    BY DEF ResumeOpened
  <1>8. CASE Leave(c) /\ (pool' = pool \cup written \/ pool' = pool \cup {})
    <2> HIDE DEF written
    <2> QED BY <1>1, <1>2, <1>5, <1>6, <1>8, QuietStep
  <1>9. CASE Await(c, r, op, written) /\ UNCHANGED txn
    <2>1. op \in FileOperation /\ op.kind = "read" /\ op.by = r.id /\ op.ulid = NoUlid /\ op.to = NoUlid
      <3>1. op \in FileOperation
        BY <1>3, OperationType
      <3> QED BY <3>1 DEF Operation
    <2>2. r.op # "delete" /\ Requests!IsPresent(Root, r.name) /\ r.ulid = ver[<<record.id, record.latest_version>>]
      BY <1>1, <1>3, <1>4 DEF HandlersOK, IInv
    <2>3. FitsOperation(r, op)
      <3> HIDE DEF op
      <3> QED BY <1>4, <2>1, <2>2 DEF FitsOperation
    <2>4. Coming(op) = {}
      BY <2>1 DEF Coming
    <2>5. Drawn(request[c])' = {}
      <3>1. Advances(c) /\ request'[c].at = op.kind
        <4> HIDE DEF op, written
        <4> QED BY <1>3, <1>9, <2>1, AwaitAdvances DEF IInv
      <3> QED BY <1>4, <2>1, <3>1 DEF Drawn, Advances
    <2>6. \A other \in pool : Coming(other) \cap {NoUlid} = {}
      BY UlidAssumption DEF Coming, NamesOK, IInv
    <2>7. NamesKnown(c, op)
      <3> HIDE DEF op
      <3> QED BY <2>1, <2>4, <2>5, <2>6 DEF NamesKnown
    <2>8. DOMAIN disk \subseteq minted
      <3>1. InProgress = {r}
        BY <1>3, SoleInProgress DEF IInv
      <3> QED BY <1>5, <3>1 DEF DiskOK, IInv
    <2>9. op.kind # "write" /\ txn' \in {txn, c}
      BY <1>9, <2>1
    <2> HIDE DEF op, written
    <2> QED BY <1>2, <1>3, <1>6, <1>9, <2>1, <2>3, <2>7, <2>8, <2>9, AwaitStep
  <1> QED BY <1>7, <1>8, <1>9

\* What a handler at an await has done comes to light when it is dropped.
LEMMA ShownProgress ==
    ASSUME IInv, NEW c \in DOMAIN request, request[c].pc \in {"await", "ready"}, ShowProgress
    PROVE  /\ minted' = minted \cup (IF HasOpened(request[c]) THEN {request[c].ulid} ELSE {})
                               \cup (IF HasSealed(request[c]) THEN {request[c].to} ELSE {})
           /\ minted' \subseteq Ulid
           /\ \A ulid \in minted' \ minted :
                 /\ request[c].pc = "ready" /\ request[c].op \in Uploads
                 /\ \/ ulid = request[c].ulid
                    \/ request[c].at = "rename" /\ ulid = request[c].to
  <1> USE DEF IInv
  <1> DEFINE r == request[c]
  <1>1. InProgress = {r}
    BY OnlyHolder, SoleInProgress DEF PipelineTypeOK
  <1>2. IsWorking(r)
    BY DEF IsWorking
  <1>3. HasSealed(r) => HasOpened(r) /\ r.to \in Drawn(r) /\ r.op \in Uploads
    BY <1>2 DEF HandlersOK, HasSealed, HasOpened, Drawn
  <1>4. HasOpened(r) => r.op \in Uploads /\ r.ulid \in Ulid
    BY <1>2 DEF HandlersOK, HasOpened
  <1>5. HasOpened(r) /\ r.pc = "await" => r.ulid \in minted
    <2>1. HasOpened(r) /\ r.pc = "await" => r.at = "rename"
      BY DEF HasOpened
    <2>2. HasOpened(r) /\ r.pc = "await" => r.token = {r.ulid} /\ r.token \in Requests!Continuation
      BY <1>2, <1>4, <2>1 DEF HandlersOK
    <2> QED BY <2>2 DEF Requests!Continuation, CatalogOK
  <1>6. Drawn(r) \subseteq Ulid
    BY <1>2 DEF NamesOK
  <1>7. minted' = minted \cup (IF HasOpened(r) THEN {r.ulid} ELSE {})
                         \cup (IF HasSealed(r) THEN {r.to} ELSE {})
    <2>1. { s \in InProgress : HasOpened(s) } = IF HasOpened(r) THEN {r} ELSE {}
      BY <1>1
    <2>2. { s \in { x \in InProgress : HasOpened(x) } : HasSealed(s) } = IF HasSealed(r) THEN {r} ELSE {}
      BY <1>3, <2>1
    <2> QED BY <2>1, <2>2 DEF ShowProgress
  <1>8. minted' \subseteq Ulid
    BY <1>3, <1>4, <1>6, <1>7 DEF CatalogOK
  <1>9. HasSealed(r) => r.pc = "ready" /\ r.at = "rename"
    BY DEF HasSealed
  <1> QED BY <1>3, <1>4, <1>5, <1>7, <1>8, <1>9 DEF CatalogOK

LEMMA DropHandlerStep ==
    ASSUME IInv, NEW c, DropHandler(c)
    PROVE  IInv'
  <1>1. /\ c \in DOMAIN request /\ request[c].pc \in {"await", "ready"} /\ Leave(c) /\ ShowProgress
        /\ UNCHANGED <<catalog, disk, data, queue, pool, tokens, acked, counts>>
    BY DEF DropHandler
  <1>2. queue # <<>> /\ Head(queue) = c
    BY <1>1, OnlyHolder DEF IInv, PipelineTypeOK
  <1>3. Moves(c, "leave") /\ txn' = (IF txn = c THEN NoClient ELSE txn)
    BY <1>1, <1>2, LeaveMoves DEF Leave, IInv
  <1>4. /\ minted \subseteq minted' /\ minted' \subseteq Ulid
        /\ \A ulid \in minted' \ minted :
              /\ request[c].pc = "ready" /\ request[c].op \in Uploads
              /\ \/ ulid = request[c].ulid
                 \/ request[c].at = "rename" /\ ulid = request[c].to
        /\ HasOpened(request[c]) => request[c].ulid \in minted'
        /\ HasSealed(request[c]) => request[c].to \in minted'
    BY <1>1, ShownProgress
  <1>5. CatalogOK'
    <2>1. \A v \in DOMAIN ver : ver[v] \notin tokens'
      BY <1>1 DEF CatalogOK, IInv
    <2>2. tokens' \subseteq minted'
      BY <1>1, <1>4 DEF CatalogOK, IInv
    <2>3. Advances(c) /\ request[c].pc # "leave"
      BY <1>1, <1>3 DEF Moves
    <2> QED BY <1>1, <1>4, <2>1, <2>2, <2>3, SameCatalog
  <1>6. acked' \subseteq [id : RequestId, ulid : Ulid]
    BY <1>1 DEF PipelineTypeOK, IInv
  <1>7. pool' = pool \cup {} /\ {} \in SUBSET {Write(request[c])}
    BY <1>1
  <1> QED BY <1>1, <1>3, <1>4, <1>5, <1>6, <1>7, LeaveStep

-----------------------------------------------------------------------------
(***************************************************************************)
(* Requests that come and go.                                              *)
(***************************************************************************)
\* A request that nobody has sent before.
IsNew(r) ==
    /\ r \in Request /\ r.pc = "queued" /\ sent' = sent + 1 /\ r.id = sent'
    /\ r.token \in Requests!Continuation /\ (r.op \notin Uploads => r.token = {})

\* A request may come, or go when it is not at an await, and what the handler
\* of another one does stays as it is.
LEMMA KeptStep ==
    ASSUME IInv, QueueOK', WriterHoldsLock', DOMAIN request' \subseteq Client,
           \A d \in DOMAIN request' :
              \/ d \in DOMAIN request /\ request'[d] = request[d]
              \/ d \notin DOMAIN request /\ IsNew(request'[d]),
           \A d \in DOMAIN request \ DOMAIN request' : request[d].pc \in {"queued", "leave"},
           UNCHANGED <<catalog, disk, data, txn, pool, tokens, minted, acked>>,
           sent' \in {sent, sent + 1}, sent' <= MaxRequests,
           ~outlived' => /\ ~outlived
                         /\ \A op \in pool : op.kind # "write" =>
                               \A d \in DOMAIN request \ DOMAIN request' : op.by # request[d].id
    PROVE  IInv'
  <1> USE DEF IInv
  <1>1. sent \in Nat /\ sent' \in Nat /\ sent <= sent'
    BY PipelineAssumption DEF CatalogOK
  <1>2. \A op \in pool : op.by \in Nat /\ op.by <= sent
    BY RequestIds DEF PoolOK, PipelineTypeOK, FileOperation
  <1>3. \A d \in DOMAIN request' : IsNew(request'[d]) => \A op \in pool : op.by # request'[d].id
    BY <1>1, <1>2 DEF IsNew
  <1>4. PipelineTypeOK'
    BY DEF PipelineTypeOK, IsNew
  <1>5. \A d \in DOMAIN request' :
           request'[d].pc # "queued" => d \in DOMAIN request /\ request'[d] = request[d]
    BY DEF IsNew
  <1>6. UploadsSpareVersions'
    BY <1>5 DEF UploadsSpareVersions, catalog
  <1>7. CatalogOK'
    <2>1. ASSUME NEW d \in DOMAIN request'
          PROVE  request'[d].id <= sent' /\ (request'[d].pc # "leave" => seq < request'[d].id)
      <3>1. CASE IsNew(request'[d])
        BY <1>1, <3>1 DEF IsNew, CatalogOK
      <3>2. CASE d \in DOMAIN request /\ request'[d] = request[d]
        <4>1. request[d].id \in Nat
          BY <3>2, RequestIds DEF PipelineTypeOK, Request
        <4> QED BY <1>1, <3>2, <4>1 DEF CatalogOK
      <3> QED BY <3>1, <3>2
    <2>2. seq \in 0 .. sent' /\ sent' \in 0 .. MaxRequests
      BY <1>1, PipelineAssumption DEF CatalogOK
    <2> QED BY <2>1, <2>2 DEF CatalogOK, catalog
  <1>8. PoolOK'
    <2>1. ASSUME NEW d \in DOMAIN request', NEW op \in pool', op.by = request'[d].id
          PROVE  d \in DOMAIN request /\ request'[d] = request[d]
      BY <1>3, <2>1
    <2>2. \A op \in pool' : op.by <= sent'
      BY <1>1, <1>2
    <2> QED BY <2>1, <2>2 DEF PoolOK
  <1>9. \A d \in DOMAIN request' :
           IsWorking(request[d])' => d \in DOMAIN request /\ request'[d] = request[d] /\ IsWorking(request[d])
    BY <1>3, <1>5 DEF IsWorking
  <1>10. NamesOK'
    <2>1. \A op \in pool : Coming(op)' = Coming(op)
      BY DEF Coming
    <2>2. \A d \in DOMAIN request' : d \in DOMAIN request /\ request'[d] = request[d] =>
             Drawn(request[d])' = Drawn(request[d])
      BY DEF Drawn
    <2> QED BY <1>9, <2>1, <2>2 DEF NamesOK
  <1>11. HandlersOK'
    <2>1. /\ \A name \in Name : Requests!UploadFits(Root, name)' <=> Requests!UploadFits(Root, name)
          /\ \A name \in Name : Requests!IsPresent(Root, name)' <=> Requests!IsPresent(Root, name)
          /\ \A name \in Name : Requests!TargetKey(Root, name)' = Requests!TargetKey(Root, name)
      BY DEF Requests!UploadFits, Requests!IsPresent, Requests!TargetKey, Requests!UploadKey, catalog
    <2>2. ASSUME NEW d \in DOMAIN request'
          PROVE  request'[d].token \in Requests!Continuation' /\ (request'[d].op \notin Uploads => request'[d].token = {})
      <3>1. Requests!Continuation' = Requests!Continuation
        BY DEF Requests!Continuation
      <3>2. d \in DOMAIN request =>
               request[d].token \in Requests!Continuation /\ (request[d].op \notin Uploads => request[d].token = {})
        BY DEF HandlersOK
      <3> QED BY <3>1, <3>2 DEF IsNew
    <2>3. ASSUME NEW d \in DOMAIN request', IsWorking(request[d])'
          PROVE  /\ d \in DOMAIN request /\ request'[d] = request[d] /\ IsWorking(request[d])
                 /\ Requests!UploadFits(Root, request[d].name)' <=> Requests!UploadFits(Root, request[d].name)
                 /\ Requests!IsPresent(Root, request[d].name)' <=> Requests!IsPresent(Root, request[d].name)
                 /\ Requests!TargetKey(Root, request[d].name)' = Requests!TargetKey(Root, request[d].name)
      <3>1. d \in DOMAIN request /\ request'[d] = request[d] /\ IsWorking(request[d])
        BY <1>9, <2>3
      <3>2. request'[d].name = request[d].name /\ request[d].name \in Name
        BY <3>1 DEF PipelineTypeOK, Request
      <3> QED BY <2>1, <3>1, <3>2
    <2>4. ASSUME NEW d \in DOMAIN request', IsWorking(request[d])', request'[d].op \in Uploads
          PROVE  /\ request'[d].at \in {"create", "rename"}
                 /\ request'[d].ulid \in Ulid /\ request'[d].token \in {{}, {request'[d].ulid}}
                 /\ request'[d].at = "rename" => /\ request'[d].op = "upload" /\ request'[d].token # {}
                                                 /\ request'[d].to # request'[d].ulid
                                                 /\ Requests!UploadFits(Root, request[d].name)'
      BY <2>3, <2>4 DEF HandlersOK
    <2>5. ASSUME NEW d \in DOMAIN request', IsWorking(request[d])', request'[d].op \notin Uploads
          PROVE  LET record == fs'[Requests!TargetKey(Root, request[d].name)']
                 IN  /\ request'[d].at \in (IF request'[d].op = "delete" THEN {"remove"} ELSE {"open", "read"})
                     /\ Requests!IsPresent(Root, request[d].name)'
                     /\ request'[d].ulid = ver'[<<record.id, record.latest_version>>]
      BY <2>3, <2>5 DEF HandlersOK, catalog
    <2> QED BY <2>2, <2>4, <2>5 DEF HandlersOK
  <1>12. InProgress' = InProgress
    <2>1. ASSUME NEW d \in DOMAIN request, request[d].pc \in {"await", "ready"}
          PROVE  d \in DOMAIN request' /\ request'[d] = request[d]
      BY <2>1 DEF IsNew, PipelineTypeOK, CatalogOK
    <2> QED BY <1>5, <2>1 DEF InProgress
  <1>13. DiskOK'
    <2>1. ASSUME NEW d \in DOMAIN request', request'[d].pc = "queued"
          PROVE  request'[d].id \notin DOMAIN data
      BY <1>1, <2>1 DEF DiskOK, IsNew
    <2>2. \A file \in DOMAIN data : file <= sent'
      BY <1>1, RequestIds DEF DiskOK, PipelineTypeOK
    <2> QED BY <1>12, <2>1, <2>2 DEF DiskOK
  <1>14. OrderOK'
    <2>1. ASSUME ~outlived', NEW op \in pool, op.kind # "write"
          PROVE  \E d \in DOMAIN request' : request'[d].id = op.by
      <3>1. PICK d \in DOMAIN request : request[d].id = op.by
        BY <2>1 DEF OrderOK
      <3>2. d \in DOMAIN request'
        BY <2>1, <3>1
      <3>3. request'[d] = request[d]
        BY <3>1, <3>2
      <3> QED BY <3>1, <3>2, <3>3
    <2> QED BY <1>12, <2>1 DEF OrderOK
  <1> QED BY <1>4, <1>6, <1>7, <1>8, <1>10, <1>11, <1>13, <1>14 DEF IInv

LEMMA SendStep ==
    ASSUME IInv, NEW c \in Client, Send(c)
    PROVE  IInv'
  <1> USE DEF IInv
  <1>1. /\ c \notin DOMAIN request /\ sent < MaxRequests /\ sent' = sent + 1
        /\ queue' = Append(queue, c)
        /\ UNCHANGED <<catalog, disk, data, txn, pool, tokens, minted, acked, outlived>>
    BY DEF Send, shown
  <1>2. PICK op \in Calls, name \in Name, token \in Requests!Continuation :
           /\ op \notin Uploads => token = {}
           /\ request' = Insert(request, c,
                 [ id |-> sent + 1, op |-> op, name |-> name, token |-> token, pc |-> "queued",
                   at |-> "none", ulid |-> NoUlid, to |-> NoUlid, file |-> 0,
                   made |-> FALSE, ok |-> FALSE ])
    BY DEF Send
  <1>3. /\ DOMAIN request' = DOMAIN request \cup {c}
        /\ \A d \in DOMAIN request : request'[d] = request[d]
        /\ request'[c] = [ id |-> sent + 1, op |-> op, name |-> name, token |-> token, pc |-> "queued",
                           at |-> "none", ulid |-> NoUlid, to |-> NoUlid, file |-> 0,
                           made |-> FALSE, ok |-> FALSE ]
    BY <1>1, <1>2 DEF Insert
  <1>4. sent \in Nat /\ sent + 1 \in RequestId /\ sent' <= MaxRequests
    BY <1>1, PipelineAssumption DEF CatalogOK, RequestId
  <1>5. token \in SUBSET Ulid
    BY DEF Requests!Continuation, CatalogOK
  <1>6. IsNew(request'[c])
    <2>1. 0 \in 0 .. MaxRequests
      BY PipelineAssumption
    <2>2. request'[c] \in Request
      BY <1>3, <1>4, <1>5, <2>1 DEF Request
    <2>3. /\ request'[c].pc = "queued" /\ request'[c].id = sent + 1
          /\ request'[c].token = token /\ request'[c].op = op
      BY <1>3
    <2>4. op \notin Uploads => token = {}
      BY <1>2
    <2> QED BY <1>1, <2>2, <2>3, <2>4 DEF IsNew
  <1>7. queue \in Seq(DOMAIN request) /\ DOMAIN queue = 1 .. Len(queue) /\ Len(queue) \in Nat
    BY DEF PipelineTypeOK, QueueOK
  <1>8. /\ queue' \in Seq(DOMAIN request') /\ Len(queue') = Len(queue) + 1
        /\ DOMAIN queue' = 1 .. Len(queue) + 1
        /\ \A i \in 1 .. Len(queue) : queue'[i] = queue[i] /\ queue[i] \in DOMAIN request
        /\ queue'[Len(queue) + 1] = c
    <2>1. queue \in Seq(DOMAIN request') /\ c \in DOMAIN request'
      BY <1>3, <1>7
    <2>2. \A i \in 1 .. Len(queue) : queue[i] \in DOMAIN request
      BY <1>7
    <2> QED BY <1>1, <1>7, <2>1, <2>2, AppendProperties
  <1>9. QueueOK'
    <2>1. ASSUME NEW d \in DOMAIN request' PROVE \E i \in DOMAIN queue' : queue'[i] = d
      <3>1. CASE d = c
        BY <1>7, <1>8, <3>1
      <3>2. CASE d # c
        <4>1. PICK i \in DOMAIN queue : queue[i] = d
          BY <1>3, <3>2 DEF PipelineTypeOK, QueueOK
        <4> QED BY <1>7, <1>8, <4>1
      <3> QED BY <3>1, <3>2
    <2>2. ASSUME NEW i \in DOMAIN queue', NEW j \in DOMAIN queue', i < j
          PROVE  /\ request'[queue'[i]].id < request'[queue'[j]].id
                 /\ request'[queue'[j]].pc = "queued"
      <3>1. i \in 1 .. Len(queue) /\ queue'[i] = queue[i] /\ queue[i] \in DOMAIN request
        BY <1>7, <1>8, <2>2
      <3>2. CASE j \in 1 .. Len(queue)
        BY <1>3, <1>7, <1>8, <2>2, <3>1, <3>2 DEF PipelineTypeOK, QueueOK
      <3>3. CASE j = Len(queue) + 1
        <4>1. queue'[j] = c /\ request'[c].id = sent + 1 /\ request'[c].pc = "queued"
          BY <1>3, <1>8, <3>3
        <4>2. request[queue[i]].id <= sent /\ request[queue[i]].id \in Nat
          BY <3>1, RequestIds DEF CatalogOK, PipelineTypeOK, Request
        <4> QED BY <1>3, <1>4, <3>1, <4>1, <4>2
      <3> QED BY <1>7, <1>8, <2>2, <3>2, <3>3
    <2> QED BY <1>8, <2>1, <2>2 DEF QueueOK
  <1>10. WriterHoldsLock'
    <2>1. ASSUME txn # NoClient PROVE queue' # <<>> /\ Head(queue') = txn /\ request'[txn].pc \in {"await", "ready"}
      <3>1. queue # <<>> /\ Head(queue) = txn /\ request[txn].pc \in {"await", "ready"}
        BY <2>1 DEF WriterHoldsLock
      <3>2. 1 \in 1 .. Len(queue) /\ queue[1] = txn /\ txn \in DOMAIN request
        BY <1>7, <1>8, <3>1
      <3> QED BY <1>3, <1>7, <1>8, <3>1, <3>2
    <2> QED BY <1>1, <2>1 DEF WriterHoldsLock
  <1>11. DOMAIN request' \subseteq Client
    BY <1>3 DEF PipelineTypeOK
  <1> HIDE DEF IInv
  <1> QED BY <1>1, <1>3, <1>4, <1>6, <1>9, <1>10, <1>11, KeptStep

LEMMA DropWaitingStep ==
    ASSUME IInv, NEW c, DropWaiting(c)
    PROVE  IInv'
  <1>1. /\ c \in DOMAIN request /\ request[c].pc = "queued" /\ request' = Remove(request, c)
        /\ UNCHANGED <<catalog, disk, data, txn, pool, tokens, minted, acked, sent, outlived>>
    BY DEF DropWaiting, shown, counts
  <1>2. PICK i \in DOMAIN queue : queue[i] = c /\ queue' = Without(queue, i)
    BY DEF DropWaiting
  <1>3. /\ QueueOK' /\ DOMAIN request' = DOMAIN request \ {c}
        /\ \A d \in DOMAIN request' : request'[d] = request[d]
        /\ i # 1 => queue' # <<>> /\ Head(queue') = Head(queue)
    BY <1>1, <1>2, LeftQueue DEF IInv
  <1>4. WriterHoldsLock'
    <2>1. ASSUME txn # NoClient PROVE queue' # <<>> /\ Head(queue') = txn /\ request'[txn].pc \in {"await", "ready"}
      <3>1. queue # <<>> /\ Head(queue) = txn /\ request[txn].pc \in {"await", "ready"}
        BY <2>1 DEF WriterHoldsLock, IInv
      <3>2. txn # c /\ txn \in DOMAIN request
        BY <1>1, <3>1, HolderHasRequest DEF IInv, PipelineTypeOK
      <3>3. i # 1
        BY <1>2, <3>1, <3>2 DEF IInv, PipelineTypeOK, QueueOK
      <3> QED BY <1>3, <3>1, <3>2, <3>3
    <2> QED BY <1>1, <2>1 DEF WriterHoldsLock
  <1>5. \A op \in pool : op.by # request[c].id
    BY <1>1 DEF IInv, PoolOK
  <1>6. sent' <= MaxRequests /\ DOMAIN request' \subseteq Client
    BY <1>1, <1>3, PipelineAssumption DEF IInv, CatalogOK, PipelineTypeOK
  <1> QED BY <1>1, <1>3, <1>4, <1>5, <1>6, KeptStep

LEMMA ReleaseStep ==
    ASSUME IInv, NEW c, Release(c)
    PROVE  IInv'
  <1>1. /\ request' = Remove(request, c) /\ queue' = Tail(queue)
        /\ outlived' = (outlived \/ \E op \in pool : op.by = request[c].id /\ op.kind # "write")
        /\ UNCHANGED <<catalog, disk, data, txn, pool, tokens, minted, acked, sent>>
    BY DEF Release, shown
  <1>2. c \in DOMAIN request /\ queue # <<>> /\ Head(queue) = c /\ request[c].pc = "leave"
    BY TurnTaken DEF Release
  <1>3. DOMAIN request' = DOMAIN request \ {c} /\ \A d \in DOMAIN request' : request'[d] = request[d]
    BY <1>1 DEF Remove
  <1>4. queue \in Seq(DOMAIN request) /\ DOMAIN queue = 1 .. Len(queue) /\ Len(queue) \in Nat /\ Len(queue) # 0
    BY <1>2 DEF IInv, PipelineTypeOK, QueueOK
  <1>5. /\ Len(queue') = Len(queue) - 1
        /\ \A i \in 1 .. Len(queue) - 1 : queue'[i] = queue[i + 1]
        /\ queue' \in Seq(DOMAIN request)
    BY <1>1, <1>2, <1>4, HeadTailProperties
  <1>6. \A d \in DOMAIN request' : d # c /\ request[d].pc = "queued" /\ request[d].id # request[c].id
    BY <1>2, <1>3, OthersIdle DEF IInv
  <1>7. DOMAIN queue' = 1 .. Len(queue) - 1
    BY <1>4, <1>5
  <1>8. \A i \in 1 .. Len(queue) - 1 : queue'[i] \in DOMAIN request'
    <2>1. ASSUME NEW i \in 1 .. Len(queue) - 1 PROVE queue[i + 1] \in DOMAIN request /\ queue[i + 1] # c
      <3>1. i + 1 \in DOMAIN queue /\ 1 \in DOMAIN queue /\ 1 < i + 1 /\ queue[1] = c
        BY <1>2, <1>4
      <3>2. request[queue[i + 1]].pc = "queued" /\ queue[i + 1] \in DOMAIN request
        BY <1>4, <3>1 DEF IInv, PipelineTypeOK, QueueOK
      <3> QED BY <1>2, <3>2
    <2> QED BY <1>3, <1>5, <2>1
  <1>9. QueueOK'
    <2>1. queue' \in Seq(DOMAIN request')
      BY <1>5, <1>7, <1>8
    <2>2. ASSUME NEW d \in DOMAIN request' PROVE \E i \in DOMAIN queue' : queue'[i] = d
      <3>1. PICK i \in DOMAIN queue : queue[i] = d
        BY <1>3 DEF IInv, PipelineTypeOK, QueueOK
      <3>2. i # 1
        BY <1>2, <1>4, <1>6, <3>1
      <3>3. i - 1 \in 1 .. Len(queue) - 1 /\ queue'[i - 1] = queue[i]
        BY <1>4, <1>5, <3>1, <3>2
      <3> QED BY <1>7, <3>1, <3>3
    <2>3. ASSUME NEW i \in DOMAIN queue', NEW j \in DOMAIN queue', i < j
          PROVE  /\ request'[queue'[i]].id < request'[queue'[j]].id
                 /\ request'[queue'[j]].pc = "queued"
      <3>1. /\ i + 1 \in DOMAIN queue /\ j + 1 \in DOMAIN queue /\ i + 1 < j + 1
            /\ queue'[i] = queue[i + 1] /\ queue'[j] = queue[j + 1]
        BY <1>4, <1>5, <1>7, <2>3
      <3>2. request[queue[i + 1]].id < request[queue[j + 1]].id /\ request[queue[j + 1]].pc = "queued"
        BY <3>1 DEF IInv, PipelineTypeOK, QueueOK
      <3> QED BY <1>3, <1>7, <1>8, <3>1, <3>2
    <2> QED BY <2>1, <2>2, <2>3 DEF QueueOK
  <1>10. WriterHoldsLock'
    <2>1. txn = NoClient
      BY <1>2 DEF WriterHoldsLock, IInv
    <2> QED BY <1>1, <2>1 DEF WriterHoldsLock
  <1>11. sent' <= MaxRequests /\ DOMAIN request' \subseteq Client
    BY <1>1, <1>3, PipelineAssumption DEF IInv, CatalogOK, PipelineTypeOK
  <1>12. ~outlived' => ~outlived /\ \A op \in pool : op.kind # "write" => op.by # request[c].id
    BY <1>1
  <1> QED BY <1>1, <1>2, <1>3, <1>9, <1>10, <1>11, <1>12, KeptStep

LEMMA CrashStep ==
    ASSUME IInv, Crash
    PROVE  IInv'
  <1> USE DEF IInv
  <1>1. /\ request' = EmptyTable /\ queue' = <<>> /\ txn' = NoClient /\ pool' = {} /\ ShowProgress
        /\ UNCHANGED <<catalog, disk, data, tokens, acked, sent, outlived>>
    BY DEF Crash
  <1>2. DOMAIN request' = {} /\ DOMAIN queue' = {} /\ InProgress' = {}
    BY <1>1 DEF EmptyTable, InProgress
  <1>3. minted \subseteq minted' /\ minted' \subseteq Ulid /\ DOMAIN disk \subseteq minted'
    <2>1. CASE InProgress = {}
      BY <1>1, <2>1 DEF ShowProgress, DiskOK, CatalogOK
    <2>2. CASE InProgress # {}
      <3>1. PICK c \in DOMAIN request : request[c].pc \in {"await", "ready"}
        BY <2>2 DEF InProgress
      <3>2. InProgress = {request[c]}
        BY <3>1, OnlyHolder, SoleInProgress DEF PipelineTypeOK
      <3>3. /\ minted' = minted \cup (IF HasOpened(request[c]) THEN {request[c].ulid} ELSE {})
                               \cup (IF HasSealed(request[c]) THEN {request[c].to} ELSE {})
            /\ minted' \subseteq Ulid
        BY <1>1, <3>1, ShownProgress
      <3> QED BY <3>2, <3>3 DEF DiskOK
    <2> QED BY <2>1, <2>2
  <1>4. PipelineTypeOK'
    BY <1>1, <1>2 DEF PipelineTypeOK, QueueOK
  <1>5. WriterHoldsLock' /\ UploadsSpareVersions'
    BY <1>1, <1>2 DEF WriterHoldsLock, UploadsSpareVersions
  <1>6. CatalogOK'
    BY <1>1, <1>2, <1>3 DEF CatalogOK, catalog
  <1>7. PoolOK' /\ NamesOK' /\ HandlersOK' /\ OrderOK'
    BY <1>1, <1>2 DEF PoolOK, NamesOK, HandlersOK, OrderOK
  <1>8. DiskOK'
    BY <1>1, <1>2, <1>3 DEF DiskOK
  <1> QED BY <1>4, <1>5, <1>6, <1>7, <1>8 DEF IInv

-----------------------------------------------------------------------------
(***************************************************************************)
(* Operations that end.                                                    *)
(***************************************************************************)
\* op leaves the pool, and the handler that waits for it, if there is one, can
\* go on.
Ends(op) ==
    /\ op \in pool /\ pool' = pool \ {op}
    /\ UNCHANGED <<catalog, queue, txn, tokens, acked, counts>>
    /\ DOMAIN request' = DOMAIN request
    /\ IsDropped(op) => \A d \in DOMAIN request : request'[d] = request[d]
    /\ ~IsDropped(op) => \E c \in DOMAIN request :
          /\ WaitsFor(request[c], op) /\ Advances(c)
          /\ request'[c].pc = "ready" /\ request'[c].at = op.kind
          /\ request'[c].ulid = request[c].ulid /\ request'[c].to = request[c].to

\* What it shows are names that it has brought into being by itself.
ShowsOwn(op) ==
    /\ minted \subseteq minted' /\ minted' \ minted \subseteq Coming(op)
    /\ minted' # minted => IsDropped(op)

\* The names that an operation brings into being are its own.
LEMMA ComingNames ==
    ASSUME IInv, NEW op \in pool
    PROVE  /\ Coming(op) \subseteq {op.ulid, op.to} \cap (Ulid \ minted)
           /\ Coming(op) # {} => op.kind \in {"create", "rename"}
           /\ op.kind = "create" => op.ulid \in Ulid /\ op.ulid \in tokens \cup Coming(op)
           /\ op.kind = "rename" => op.to \in Coming(op) /\ op.ulid \in tokens /\ op.ulid \in minted
  BY DEF IInv, NamesOK, CatalogOK, Coming

\* The operation of a dropped request is none of a handler at an await.
LEMMA DroppedBy ==
    ASSUME IInv, NEW op \in pool, IsDropped(op), op.kind # "write",
           NEW c \in DOMAIN request, request[c].pc # "leave"
    PROVE  op.by # request[c].id
  <1>1. ASSUME op.by = request[c].id PROVE FALSE
    <2>1. request[c].pc \notin {"queued", "ready"} /\ op.kind = request[c].at
      BY <1>1 DEF IInv, PoolOK
    <2>2. request[c].pc = "await"
      BY <2>1 DEF IInv, PipelineTypeOK, Request
    <2> QED BY <1>1, <2>1, <2>2 DEF IsDropped, WaitsFor
  <1> QED BY <1>1

\* The requests at an await before and after.
LEMMA EndsInProgress ==
    ASSUME IInv, NEW op, Ends(op)
    PROVE  /\ IsDropped(op) =>
                 /\ InProgress' = InProgress
                 /\ op.kind # "write" => \A r \in InProgress : op.by # r.id
                 /\ op.kind # "write" /\ ~outlived => InProgress = {}
           /\ \A c \in DOMAIN request : WaitsFor(request[c], op) =>
                 InProgress = {request[c]} /\ InProgress' = {request'[c]}
  <1>1. CASE IsDropped(op)
    <2>1. InProgress' = InProgress
      BY <1>1 DEF Ends, InProgress
    <2>2. ASSUME op.kind # "write", NEW r \in InProgress PROVE op.by # r.id
      <3>1. PICK c \in DOMAIN request : request[c].pc \in {"await", "ready"} /\ r = request[c]
        BY DEF InProgress
      <3> QED BY <1>1, <2>2, <3>1, DroppedBy DEF Ends
    <2>3. ASSUME op.kind # "write", ~outlived PROVE InProgress = {}
      <3>1. PICK c \in DOMAIN request : request[c].id = op.by
        BY <2>3 DEF IInv, OrderOK, Ends
      <3>2. request[c].pc = "leave"
        BY <1>1, <2>3, <3>1, DroppedBy DEF Ends
      <3>3. queue # <<>> /\ Head(queue) = c
        BY <3>2, OnlyHolder DEF IInv, PipelineTypeOK
      <3> QED BY <3>2, <3>3, SoleInProgress DEF IInv
    <2> QED BY <1>1, <2>1, <2>2, <2>3 DEF IsDropped
  <1>2. ASSUME NEW c \in DOMAIN request, WaitsFor(request[c], op)
        PROVE  InProgress = {request[c]} /\ InProgress' = {request'[c]}
    <2>1. PICK d \in DOMAIN request : WaitsFor(request[d], op) /\ Advances(d) /\ request'[d].pc = "ready"
      BY <1>2 DEF Ends, IsDropped
    <2>2. c = d
      BY <1>2, <2>1, IdsDiffer DEF WaitsFor, IInv
    <2> QED BY <1>2, <2>1, <2>2, NextInProgress DEF WaitsFor, IInv
  <1> QED BY <1>1, <1>2

\* The end of an operation keeps what does not depend on the blobs.
LEMMA LandStep ==
    ASSUME IInv, NEW op, Ends(op), ShowsOwn(op)
    PROVE  /\ QueueOK' /\ DOMAIN request' \subseteq Client
           /\ \A d \in DOMAIN request' : request'[d] \in Request
           /\ WriterHoldsLock' /\ CatalogOK' /\ PoolOK' /\ NamesOK' /\ HandlersOK'
           /\ ~outlived' => \A x \in pool' : x.kind # "write" => \E d \in DOMAIN request' : request'[d].id = x.by
  <1> USE DEF IInv
  <1>1. /\ op \in pool /\ pool' = pool \ {op}
        /\ UNCHANGED <<catalog, queue, txn, tokens, acked, counts>>
        /\ DOMAIN request' = DOMAIN request
    BY DEF Ends
  <1>2. \A d \in DOMAIN request :
           /\ request'[d].id = request[d].id /\ request'[d].op = request[d].op
           /\ request'[d].name = request[d].name /\ request'[d].token = request[d].token
           /\ request'[d].at = request[d].at
           /\ request'[d].ulid = request[d].ulid /\ request'[d].to = request[d].to
           /\ \/ request'[d].pc = request[d].pc
              \/ request[d].pc = "await" /\ request'[d].pc = "ready" /\ WaitsFor(request[d], op)
    BY DEF Ends, Advances, WaitsFor
  <1>3. \A d \in DOMAIN request' : request'[d] \in Request
    BY DEF Ends, Advances, PipelineTypeOK
  <1>4. QueueOK' /\ DOMAIN request' \subseteq Client
    <2>1. CASE IsDropped(op)
      BY <1>1, <1>2, <2>1 DEF PipelineTypeOK, QueueOK, Ends
    <2>2. CASE ~IsDropped(op)
      BY <1>1, <2>2, AdvancesQueue DEF Ends
    <2> QED BY <2>1, <2>2
  <1>5. WriterHoldsLock'
    <2>1. ASSUME txn # NoClient PROVE request'[txn].pc \in {"await", "ready"} /\ queue # <<>> /\ Head(queue) = txn
      <3>1. queue # <<>> /\ Head(queue) = txn /\ request[txn].pc \in {"await", "ready"}
        BY <2>1 DEF WriterHoldsLock
      <3>2. txn \in DOMAIN request
        BY <3>1, HolderHasRequest DEF PipelineTypeOK
      <3> QED BY <1>2, <3>1, <3>2
    <2> QED BY <1>1, <2>1 DEF WriterHoldsLock
  <1>6. minted' \subseteq Ulid
    BY <1>1, ComingNames DEF ShowsOwn, CatalogOK
  <1>7. CatalogOK'
    BY <1>1, <1>2, <1>6 DEF CatalogOK, ShowsOwn, catalog, counts
  <1>8. PoolOK'
    <2>1. ASSUME NEW d \in DOMAIN request', NEW x \in pool', x.by = request'[d].id
          PROVE  /\ request'[d].pc # "queued"
                 /\ x.kind # "write" =>
                       /\ request'[d].pc # "ready"
                       /\ x.kind = request'[d].at
                       /\ x.kind # "read" => x.ulid = request'[d].ulid
                       /\ x.kind = "rename" => x.to = request'[d].to
      <3>1. x \in pool /\ x # op /\ d \in DOMAIN request /\ x.by = request[d].id
        BY <1>1, <1>2, <2>1
      <3>2. ASSUME WaitsFor(request[d], op), x.kind # "write" PROVE FALSE
        <4>1. op.by = x.by /\ op.kind # "write"
          BY <3>1, <3>2 DEF WaitsFor, PipelineTypeOK, Request
        <4> QED BY <1>1, <3>1, <3>2, <4>1 DEF PoolOK
      <3>3. /\ request[d].pc # "queued"
            /\ x.kind # "write" =>
                  /\ request[d].pc # "ready"
                  /\ x.kind = request[d].at
                  /\ x.kind # "read" => x.ulid = request[d].ulid
                  /\ x.kind = "rename" => x.to = request[d].to
        BY <3>1 DEF PoolOK
      <3> QED BY <1>2, <3>1, <3>2, <3>3
    <2>2. \A x \in pool' : x \in pool
      BY <1>1
    <2>3. sent' = sent
      BY <1>1 DEF counts
    <2> QED BY <2>1, <2>2, <2>3 DEF PoolOK
  <1>9. \A d \in DOMAIN request : IsWorking(request[d])' => IsWorking(request[d])
    BY <1>1, <1>2 DEF IsWorking
  <1>10. \A d \in DOMAIN request : Drawn(request[d])' = Drawn(request[d])
    BY <1>2 DEF Drawn
  <1>11. \A x : Coming(x)' = Coming(x)
    BY <1>1 DEF Coming
  <1>12. NamesOK'
    <2>1. ASSUME NEW x \in pool' PROVE Coming(x)' \cap minted' = {}
      <3>1. x \in pool /\ x # op
        BY <1>1
      <3>2. Coming(x) \cap Coming(op) = {}
        BY <1>1, <3>1, ComingNames DEF NamesOK
      <3> QED BY <1>11, <3>1, <3>2 DEF NamesOK, ShowsOwn
    <2>2. ASSUME NEW d \in DOMAIN request', IsWorking(request[d])'
          PROVE  Drawn(request[d])' \cap minted' = {}
      <3>1. Drawn(request[d])' = Drawn(request[d]) /\ Drawn(request[d]) \cap minted = {}
        BY <1>1, <1>9, <1>10, <2>2 DEF NamesOK
      <3>2. ASSUME NEW ulid \in minted' \ minted PROVE ulid \notin Drawn(request[d])
        <4>1. /\ ulid \in Coming(op) /\ op.kind \in {"create", "rename"} /\ IsDropped(op)
              /\ ulid \in {op.ulid, op.to}
          BY <1>1, <3>2, ComingNames DEF ShowsOwn
        <4>2. op.by # request[d].id
          <5>1. ASSUME request[d].pc = "leave", op.by = request[d].id PROVE FALSE
            <6>1. PICK x \in pool' : x.by = request'[d].id /\ x.kind # "write"
              BY <1>1, <1>2, <2>2, <5>1 DEF IsWorking
            <6>2. x \in pool /\ x # op /\ x.by = op.by
              BY <1>1, <1>2, <5>1, <6>1
            <6> QED BY <1>1, <4>1, <6>1, <6>2 DEF PoolOK
          <5> QED BY <1>1, <4>1, <5>1, DroppedBy
        <4> QED BY <1>1, <1>9, <2>2, <4>1, <4>2 DEF NamesOK
      <3> QED BY <3>1, <3>2
    <2>3. ASSUME NEW d \in DOMAIN request', IsWorking(request[d])'
          PROVE  /\ Drawn(request[d])' \subseteq Ulid \ minted'
                 /\ \A x \in pool' : x.by # request'[d].id => Drawn(request[d])' \cap {x.ulid, x.to} = {}
      <3>1. d \in DOMAIN request /\ IsWorking(request[d]) /\ Drawn(request[d])' = Drawn(request[d])
        BY <1>1, <1>9, <1>10, <2>3
      <3> QED BY <1>1, <1>2, <2>2, <2>3, <3>1 DEF NamesOK
    <2>4. \A x \in pool' : x \in pool
      BY <1>1
    <2>5. ASSUME NEW x \in pool'
          PROVE  /\ x.kind = "create" => x.ulid \in Ulid
                 /\ x.kind = "rename" => x.ulid \in tokens' /\ x.to \in Ulid
                 /\ x.kind = "write" => x.ulid = NoUlid /\ x.to = NoUlid
                 /\ \A y \in pool' \ {x} : Coming(x)' \cap {y.ulid, y.to} = {}
      BY <1>1, <1>11, <2>4 DEF NamesOK
    <2> QED BY <2>1, <2>3, <2>5 DEF NamesOK
  <1>13. HandlersOK'
    <2>1. /\ \A name \in Name : Requests!UploadFits(Root, name)' <=> Requests!UploadFits(Root, name)
          /\ \A name \in Name : Requests!IsPresent(Root, name)' <=> Requests!IsPresent(Root, name)
          /\ \A name \in Name : Requests!TargetKey(Root, name)' = Requests!TargetKey(Root, name)
      BY <1>1 DEF Requests!UploadFits, Requests!IsPresent, Requests!TargetKey, Requests!UploadKey, catalog
    <2>2. ASSUME NEW d \in DOMAIN request'
          PROVE  request'[d].token \in Requests!Continuation' /\ (request'[d].op \notin Uploads => request'[d].token = {})
      <3>1. request[d].token \in Requests!Continuation /\ (request[d].op \notin Uploads => request[d].token = {})
        BY <1>1 DEF HandlersOK
      <3> QED BY <1>1, <1>2, <3>1 DEF Requests!Continuation
    <2>3. ASSUME NEW d \in DOMAIN request
          PROVE  /\ Requests!UploadFits(Root, request[d].name)' <=> Requests!UploadFits(Root, request[d].name)
                 /\ Requests!IsPresent(Root, request[d].name)' <=> Requests!IsPresent(Root, request[d].name)
                 /\ Requests!TargetKey(Root, request[d].name)' = Requests!TargetKey(Root, request[d].name)
      <3>1. request'[d].name = request[d].name /\ request[d].name \in Name
        BY <1>2 DEF PipelineTypeOK, Request
      <3> QED BY <2>1, <3>1
    <2>4. ASSUME NEW d \in DOMAIN request', IsWorking(request[d])', request'[d].op \in Uploads
          PROVE  /\ request'[d].at \in {"create", "rename"}
                 /\ request'[d].ulid \in Ulid /\ request'[d].token \in {{}, {request'[d].ulid}}
                 /\ request'[d].at = "rename" => /\ request'[d].op = "upload" /\ request'[d].token # {}
                                                 /\ request'[d].to # request'[d].ulid
                                                 /\ Requests!UploadFits(Root, request[d].name)'
      <3>1. d \in DOMAIN request /\ IsWorking(request[d]) /\ request[d].op \in Uploads
        BY <1>1, <1>2, <1>9, <2>4
      <3>2. /\ request[d].at \in {"create", "rename"}
            /\ request[d].ulid \in Ulid /\ request[d].token \in {{}, {request[d].ulid}}
            /\ request[d].at = "rename" => /\ request[d].op = "upload" /\ request[d].token # {}
                                           /\ request[d].to # request[d].ulid
                                           /\ Requests!UploadFits(Root, request[d].name)
        BY <3>1 DEF HandlersOK
      <3> QED BY <1>2, <2>3, <3>1, <3>2
    <2>5. ASSUME NEW d \in DOMAIN request', IsWorking(request[d])', request'[d].op \notin Uploads
          PROVE  LET record == fs'[Requests!TargetKey(Root, request[d].name)']
                 IN  /\ request'[d].at \in (IF request'[d].op = "delete" THEN {"remove"} ELSE {"open", "read"})
                     /\ Requests!IsPresent(Root, request[d].name)'
                     /\ request'[d].ulid = ver'[<<record.id, record.latest_version>>]
      BY <1>1, <1>2, <1>9, <2>3, <2>5 DEF HandlersOK, catalog
    <2> QED BY <2>2, <2>4, <2>5 DEF HandlersOK
  <1>14. ~outlived' => \A x \in pool' : x.kind # "write" => \E d \in DOMAIN request' : request'[d].id = x.by
    BY <1>1, <1>2 DEF OrderOK, counts
  <1> QED BY <1>3, <1>4, <1>5, <1>7, <1>8, <1>12, <1>13, <1>14

\* One operation leaves the pool, and what only handlers change stays.
Landing(op) ==
    /\ op \in pool /\ pool' = pool \ {op}
    /\ UNCHANGED <<catalog, queue, txn, tokens, acked, counts>>

\* No version's blob is one that an upload opens or renames.
LEMMA VersionNames ==
    ASSUME IInv, NEW v \in DOMAIN ver
    PROVE  /\ ver[v] \in minted \ tokens
           /\ \A op \in pool : /\ op.kind = "create" => ver[v] # op.ulid
                               /\ op.kind = "rename" => ver[v] \notin {op.ulid, op.to}
  BY ComingNames DEF IInv, CatalogOK

\* Where handlers at an await stand.
LEMMA HandlerFacts ==
    ASSUME IInv, NEW r \in InProgress
    PROVE  /\ r.at \in {"create", "rename"} <=> r.op \in Uploads
           /\ r.at = "rename" => r.to \in Drawn(r) /\ r.to # r.ulid /\ r.ulid \in tokens
           /\ r.at = "create" /\ r.token = {} => r.ulid \in Drawn(r)
           /\ r.at = "remove" => \E v \in DOMAIN ver : r.ulid = ver[v]
           /\ Drawn(r) \subseteq Ulid \ minted
           /\ \A op \in pool : op.by # r.id => Drawn(r) \cap {op.ulid, op.to} = {}
  <1> USE DEF IInv
  <1>1. PICK c \in DOMAIN request : request[c].pc \in {"await", "ready"} /\ r = request[c]
    BY DEF InProgress
  <1>2. IsWorking(r)
    BY <1>1 DEF IsWorking
  <1>3. r.op \in Uploads => /\ r.at \in {"create", "rename"}
                            /\ r.token \in {{}, {r.ulid}}
                            /\ r.at = "rename" => r.op = "upload" /\ r.token # {} /\ r.to # r.ulid
    BY <1>1, <1>2 DEF HandlersOK
  <1>4. r.op \notin Uploads => /\ r.at \in {"remove", "open", "read"}
                               /\ Requests!IsPresent(Root, r.name)
                               /\ r.ulid = ver[<<fs[Requests!TargetKey(Root, r.name)].id,
                                                 fs[Requests!TargetKey(Root, r.name)].latest_version>>]
    BY <1>1, <1>2 DEF HandlersOK
  <1>5. r.name \in Name /\ r.token \in Requests!Continuation
    BY <1>1 DEF PipelineTypeOK, Request, HandlersOK
  <1>6. r.op \notin Uploads => \E v \in DOMAIN ver : r.ulid = ver[v]
    <2>1. r.op \notin Uploads => fs[Requests!TargetKey(Root, r.name)].latest_version = 1
                                 /\ <<fs[Requests!TargetKey(Root, r.name)].id, 1>> \in DOMAIN ver
      BY <1>4, <1>5, PresentFile
    <2> QED BY <1>4, <2>1
  <1>7. Drawn(r) \subseteq Ulid \ minted /\ \A op \in pool : op.by # r.id => Drawn(r) \cap {op.ulid, op.to} = {}
    BY <1>1, <1>2 DEF NamesOK
  <1>8. r.at = "rename" => r.to \in Drawn(r) /\ r.ulid \in tokens
    BY <1>3, <1>4, <1>5 DEF Drawn, Requests!Continuation
  <1>9. r.at = "create" /\ r.token = {} => r.ulid \in Drawn(r)
    BY <1>3, <1>4 DEF Drawn
  <1> QED BY <1>3, <1>4, <1>6, <1>7, <1>8, <1>9

\* Who waits for op is at an await with the names of op.
LEMMA WaitingFor ==
    ASSUME IInv, NEW op \in pool, NEW c \in DOMAIN request, WaitsFor(request[c], op)
    PROVE  /\ request[c].at = op.kind /\ request[c].id = op.by /\ request[c].pc = "await"
           /\ request[c] \in InProgress /\ op.kind # "write"
           /\ op.kind # "read" => request[c].ulid = op.ulid
           /\ op.kind = "rename" => request[c].to = op.to
  <1>1. request[c].at = op.kind /\ request[c].id = op.by /\ request[c].pc = "await"
    BY DEF WaitsFor
  <1>2. op.kind # "write"
    BY <1>1 DEF IInv, PipelineTypeOK, Request
  <1> QED BY <1>1, <1>2 DEF InProgress, IInv, PoolOK

LEMMA LandWriteStep ==
    ASSUME IInv, NEW op, Landing(op), LandWrite(op)
    PROVE  IInv'
  <1> USE DEF IInv
  <1>1. /\ op \in pool /\ pool' = pool \ {op} /\ op.kind = "write"
        /\ data' = [data EXCEPT ![op.file] = Append(@, op.by)]
        /\ UNCHANGED <<disk, request, minted, catalog, queue, txn, tokens, acked, counts>>
    BY DEF Landing, LandWrite, shown
  <1>2. IsDropped(op)
    BY <1>1, WaitingFor DEF IsDropped
  <1>3. Ends(op) /\ ShowsOwn(op)
    BY <1>1, <1>2 DEF Ends, ShowsOwn
  <1>4. InProgress' = InProgress
    BY <1>2, <1>3, EndsInProgress
  <1>5. DOMAIN data' = DOMAIN data /\ \A file \in DOMAIN data' : data'[file] \in Seq(RequestId)
    <2>1. op.by \in RequestId
      BY <1>1 DEF PipelineTypeOK, FileOperation
    <2>2. ASSUME NEW file \in DOMAIN data PROVE data'[file] \in Seq(RequestId)
      <3>1. data[file] \in Seq(RequestId)
        BY DEF PipelineTypeOK
      <3>2. Append(data[file], op.by) \in Seq(RequestId)
        BY <2>1, <3>1, AppendProperties
      <3> QED BY <1>1, <3>1, <3>2
    <2> QED BY <1>1, <2>2
  <1>6. PipelineTypeOK'
    BY <1>1, <1>3, <1>5, LandStep DEF PipelineTypeOK
  <1>7. UploadsSpareVersions'
    BY <1>1 DEF UploadsSpareVersions, catalog
  <1>8. DiskOK'
    BY <1>1, <1>4, <1>5 DEF DiskOK, counts
  <1>9. OrderOK'
    <2>1. outlived' = outlived
      BY <1>1 DEF counts
    <2>2. ~outlived' => \A x \in pool' : x.kind # "write" => \E d \in DOMAIN request' : request'[d].id = x.by
      BY <1>3, LandStep
    <2> QED BY <1>1, <1>4, <2>1, <2>2 DEF OrderOK
  <1>10. WriterHoldsLock' /\ CatalogOK' /\ PoolOK' /\ NamesOK' /\ HandlersOK'
    BY <1>3, LandStep
  <1> QED BY <1>6, <1>7, <1>8, <1>9, <1>10

\* open and read leave the blobs as they are.
LEMMA LookStep ==
    ASSUME IInv, NEW op, Ends(op), op.kind \in {"open", "read"}, UNCHANGED <<disk, data, minted>>
    PROVE  IInv'
  <1> USE DEF IInv
  <1>1. ShowsOwn(op)
    BY DEF ShowsOwn
  <1>2. op \in pool /\ UNCHANGED <<catalog, acked, counts, txn>> /\ pool' \subseteq pool
    BY DEF Ends
  <1>3. PipelineTypeOK'
    <2>1. pool' \subseteq FileOperation /\ acked' \subseteq [id : RequestId, ulid : Ulid]
          /\ txn' \in Client \cup {NoClient}
      BY <1>2 DEF PipelineTypeOK
    <2>2. QueueOK' /\ DOMAIN request' \subseteq Client /\ \A d \in DOMAIN request' : request'[d] \in Request
      BY <1>1, LandStep
    <2> QED BY <2>1, <2>2 DEF PipelineTypeOK
  <1>4. ver' = ver /\ outlived' = outlived /\ sent' = sent
    BY <1>2 DEF catalog, counts
  <1>5. \A x \in pool' : x.kind = "create" => x.by \notin DOMAIN data'
    BY <1>2 DEF DiskOK
  <1>6. CASE IsDropped(op)
    <2>1. \A d \in DOMAIN request' : request'[d] = request[d] /\ d \in DOMAIN request
      BY <1>6 DEF Ends
    <2>2. InProgress' = InProgress
      BY <1>6, EndsInProgress
    <2>3. UploadsSpareVersions'
      BY <1>4, <2>1 DEF UploadsSpareVersions
    <2>4. DiskOK'
      BY <1>4, <1>5, <2>1, <2>2 DEF DiskOK
    <2>5. OrderOK'
      BY <1>1, <1>4, <2>2, LandStep DEF OrderOK
    <2> QED BY <1>1, <1>3, <2>3, <2>4, <2>5, LandStep
  <1>7. CASE ~IsDropped(op)
    <2>1. PICK c \in DOMAIN request :
             /\ WaitsFor(request[c], op) /\ Advances(c)
             /\ request'[c].pc = "ready" /\ request'[c].at = op.kind
      BY <1>7 DEF Ends
    <2>2. InProgress = {request[c]} /\ InProgress' = {request'[c]}
      BY <2>1, EndsInProgress
    <2>3. /\ request[c].at = op.kind /\ request[c].pc = "await" /\ request[c].op \notin Uploads
          /\ request'[c].op \notin Uploads
      BY <1>2, <2>1, WaitingFor, HandlerFacts DEF Advances
    <2>4. \A d \in DOMAIN request' : d # c => request'[d] = request[d] /\ request[d].pc = "queued"
      BY <2>1, OthersIdle DEF Advances
    <2>5. UploadsSpareVersions'
      BY <2>1, <2>4 DEF UploadsSpareVersions
    <2>6. DiskOK'
      <3>1. DOMAIN disk \ minted = {}
        BY <2>2, <2>3 DEF DiskOK, HasOpened, HasSealed
      <3>2. \A d \in DOMAIN request' : request'[d].pc = "queued" => request'[d].id \notin DOMAIN data'
        BY <2>1, <2>4 DEF DiskOK, Advances
      <3>3. \A r \in InProgress' : r.at = op.kind
        BY <2>1, <2>2
      <3> QED BY <1>4, <1>5, <3>1, <3>2, <3>3 DEF DiskOK, HasSealed
    <2>7. OrderOK'
      <3>1. \A r \in InProgress' : ~HasOpened(r)
        BY <2>2, <2>3 DEF HasOpened
      <3> QED BY <1>1, <3>1, LandStep DEF OrderOK
    <2> QED BY <1>1, <1>3, <2>5, <2>6, <2>7, LandStep
  <1> QED BY <1>6, <1>7

LEMMA EndedEnds ==
    ASSUME IInv, NEW op, Landing(op), NEW ok \in BOOLEAN, Ended(op, ok)
    PROVE  /\ Ends(op)
           /\ \A c \in DOMAIN request : WaitsFor(request[c], op) =>
                 Moves(c, "ready") /\ request'[c].ok = ok
  <1>1. /\ DOMAIN request' = DOMAIN request
        /\ IsDropped(op) => \A d \in DOMAIN request : request'[d] = request[d]
        /\ ~IsDropped(op) => \E c \in DOMAIN request :
              /\ WaitsFor(request[c], op) /\ Moves(c, "ready") /\ request'[c].ok = ok
    BY EndedMoves DEF IInv
  <1>2. ASSUME NEW c \in DOMAIN request, WaitsFor(request[c], op)
        PROVE  /\ Moves(c, "ready") /\ request'[c].ok = ok /\ Advances(c)
               /\ request'[c].pc = "ready" /\ request'[c].at = op.kind
               /\ request'[c].ulid = request[c].ulid /\ request'[c].to = request[c].to
    <2>1. PICK d \in DOMAIN request : WaitsFor(request[d], op) /\ Moves(d, "ready") /\ request'[d].ok = ok
      BY <1>1, <1>2 DEF IsDropped
    <2>2. c = d
      BY <1>2, <2>1, IdsDiffer DEF WaitsFor, IInv
    <2> QED BY <1>2, <2>1, <2>2 DEF Moves, WaitsFor
  <1> QED BY <1>1, <1>2 DEF Ends, Landing, IsDropped

\* Whoever waits for op goes on with a handle of file.
GoesOnWith(op, file) ==
    \A c \in DOMAIN request : WaitsFor(request[c], op) =>
        /\ Advances(c) /\ request'[c].pc = "ready" /\ request'[c].at = op.kind
        /\ request'[c].ulid = request[c].ulid /\ request'[c].to = request[c].to
        /\ request'[c].file = file

LEMMA OpenedEnds ==
    ASSUME IInv, NEW op, Landing(op), NEW ok \in BOOLEAN, NEW file \in 0 .. MaxRequests,
           NEW made \in BOOLEAN, Opened(op, ok, file, made)
    PROVE  Ends(op) /\ GoesOnWith(op, file)
  <1>1. DOMAIN request' = DOMAIN request
    BY DEF Opened
  <1>2. IsDropped(op) => \A d \in DOMAIN request : request'[d] = request[d]
    BY DEF Opened, IsDropped
  <1>3. ASSUME NEW c \in DOMAIN request, WaitsFor(request[c], op)
        PROVE  /\ Advances(c)
               /\ request'[c].pc = "ready" /\ request'[c].at = op.kind
               /\ request'[c].ulid = request[c].ulid /\ request'[c].to = request[c].to
               /\ request'[c].file = file
    <2>1. queue # <<>> /\ Head(queue) = c /\ \A d \in DOMAIN request : d # c => request[d].pc = "queued"
      BY <1>3, OnlyHolder DEF WaitsFor, PipelineTypeOK, IInv
    <2>2. request'[c] = [request[c] EXCEPT !.pc = "ready", !.ok = ok, !.file = file, !.made = made]
      BY <1>3 DEF Opened
    <2>3. \A d \in DOMAIN request : d # c => request'[d] = request[d]
      BY <2>1 DEF Opened, WaitsFor
    <2>4. request[c] \in Request /\ request[c].at = op.kind
      BY <1>3 DEF WaitsFor, PipelineTypeOK, IInv
    <2>5. request'[c] \in Request
      BY <2>2, <2>4 DEF Request
    <2> QED BY <1>1, <2>1, <2>2, <2>3, <2>4, <2>5 DEF Advances, Request
  <1>4. GoesOnWith(op, file)
    BY <1>3 DEF GoesOnWith
  <1> QED BY <1>1, <1>2, <1>3, <1>4 DEF Ends, Landing, IsDropped

LEMMA LandReadStep ==
    ASSUME IInv, NEW op, Landing(op), LandRead(op)
    PROVE  IInv'
  <1>1. Ended(op, TRUE) /\ op.kind = "read" /\ UNCHANGED <<disk, data, minted>>
    BY DEF LandRead, shown
  <1> QED BY <1>1, EndedEnds, LookStep

LEMMA LandOpenStep ==
    ASSUME IInv, NEW op, Landing(op), LandOpen(op)
    PROVE  IInv'
  <1> DEFINE found == op.ulid \in DOMAIN disk
             file == IF found THEN disk[op.ulid] ELSE 0
  <1>1. Opened(op, found, file, FALSE) /\ op.kind = "open" /\ UNCHANGED <<disk, data, minted>>
    BY DEF LandOpen
  <1>2. file \in 0 .. MaxRequests
    BY PipelineAssumption DEF IInv, PipelineTypeOK, RequestId
  <1> HIDE DEF file
  <1>3. found \in BOOLEAN
    OBVIOUS
  <1> QED BY <1>1, <1>2, <1>3, OpenedEnds, LookStep

\* The other parts of the invariant follow from those about the blobs.
LEMMA BlobStep ==
    ASSUME IInv, NEW op, Ends(op), ShowsOwn(op),
           DOMAIN disk' \subseteq Ulid,
           \A ulid \in DOMAIN disk' : disk'[ulid] \in DOMAIN data',
           DOMAIN data' \subseteq RequestId,
           \A file \in DOMAIN data' : data'[file] \in Seq(RequestId),
           UploadsSpareVersions', DiskOK',
           ~outlived => \A r \in InProgress' :
              /\ HasOpened(r) /\ (r.pc = "ready" => r.at = "create") => r.ulid \in DOMAIN disk'
              /\ HasOpened(r) /\ r.pc = "ready" /\ r.at = "rename" =>
                    r.ok /\ r.ulid \notin DOMAIN disk'
    PROVE  IInv'
  <1>1. op \in pool /\ UNCHANGED <<catalog, acked, counts, txn>> /\ pool' \subseteq pool
    BY DEF Ends
  <1>2. PipelineTypeOK'
    <2>1. pool' \subseteq FileOperation /\ acked' \subseteq [id : RequestId, ulid : Ulid]
          /\ txn' \in Client \cup {NoClient}
      BY <1>1 DEF PipelineTypeOK, IInv
    <2>2. QueueOK' /\ DOMAIN request' \subseteq Client /\ \A d \in DOMAIN request' : request'[d] \in Request
      BY LandStep
    <2> QED BY <2>1, <2>2 DEF PipelineTypeOK
  <1>3. OrderOK'
    <2>1. outlived' = outlived
      BY <1>1 DEF counts
    <2>2. ~outlived' => \A x \in pool' : x.kind # "write" => \E d \in DOMAIN request' : request'[d].id = x.by
      BY LandStep
    <2> QED BY <2>1, <2>2 DEF OrderOK
  <1> QED BY <1>2, <1>3, LandStep DEF IInv

LEMMA LandCreateStep ==
    ASSUME IInv, NEW op, Landing(op), LandCreate(op)
    PROVE  IInv'
  <1> USE DEF IInv
  <1> DEFINE made == op.ulid \notin DOMAIN disk
             file == IF made THEN op.by ELSE disk[op.ulid]
  <1>1. /\ op \in pool /\ pool' = pool \ {op} /\ op.kind = "create"
        /\ disk' = Insert(disk, op.ulid, file)
        /\ data' = (IF made THEN Insert(data, file, <<>>) ELSE data)
        /\ Opened(op, TRUE, file, made) /\ ShowLate(op, "upload", {op.ulid})
        /\ UNCHANGED <<catalog, counts>>
    BY DEF Landing, LandCreate
  <1>2. op.by \in RequestId /\ op.by \notin DOMAIN data /\ op.ulid \in Ulid
    BY <1>1 DEF PipelineTypeOK, FileOperation, DiskOK, NamesOK
  <1>3. file \in RequestId /\ file \in 0 .. MaxRequests
    <2>1. file \in RequestId
      BY <1>2 DEF PipelineTypeOK
    <2> QED BY <2>1, RequestIds, PipelineAssumption DEF RequestId
  <1>4. Ends(op) /\ \A c \in DOMAIN request : WaitsFor(request[c], op) =>
           /\ Advances(c) /\ request'[c].pc = "ready" /\ request'[c].at = op.kind
           /\ request'[c].ulid = request[c].ulid /\ request'[c].to = request[c].to
           /\ request'[c].file = file
    <2>1. Landing(op) /\ Opened(op, TRUE, file, made) /\ TRUE \in BOOLEAN /\ made \in BOOLEAN
      BY <1>1
    <2> HIDE DEF file, made, IInv
    <2>2. Ends(op) /\ GoesOnWith(op, file)
      BY <1>3, <2>1, OpenedEnds
    <2> QED BY <2>2 DEF GoesOnWith
  <1>5. minted' = (IF IsDropped(op) THEN minted \cup {op.ulid} ELSE minted) /\ ShowsOwn(op)
    <2>1. op.ulid \in minted \cup Coming(op)
      BY <1>1, ComingNames DEF CatalogOK
    <2>2. minted' = (IF IsDropped(op) THEN minted \cup {op.ulid} ELSE minted)
      BY <1>1 DEF ShowLate, shown
    <2> QED BY <2>1, <2>2 DEF ShowsOwn
  <1>6. /\ DOMAIN disk' = DOMAIN disk \cup {op.ulid} /\ disk'[op.ulid] = file
        /\ \A ulid \in DOMAIN disk : disk'[ulid] = disk[ulid]
    <2>1. op.ulid \in DOMAIN disk => disk[op.ulid] = file
      OBVIOUS
    <2> HIDE DEF file
    <2> QED BY <1>1, <2>1 DEF Insert
  <1>7. /\ DOMAIN data' = DOMAIN data \cup {file}
        /\ \A f \in DOMAIN data' : data'[f] \in Seq(RequestId)
        /\ ~made => DOMAIN data' = DOMAIN data
        /\ made => file = op.by
    <2>1. <<>> \in Seq(RequestId)
      OBVIOUS
    <2>2. CASE made
      <3> HIDE DEF file
      <3>1. data' = Insert(data, file, <<>>)
        BY <1>1, <2>2
      <3>2. file = op.by
        BY <2>2 DEF file
      <3> QED BY <2>1, <2>2, <3>1, <3>2 DEF Insert, PipelineTypeOK
    <2>3. CASE ~made
      BY <1>1, <2>3 DEF PipelineTypeOK
    <2> QED BY <2>2, <2>3
  <1>8. \A v \in DOMAIN ver : ver[v] # op.ulid
    BY <1>1, VersionNames
  <1>9. \A v \in DOMAIN ver : ver[v] \in DOMAIN disk => disk[ver[v]] # file
    <2>1. CASE made
      BY <1>2, <2>1 DEF PipelineTypeOK
    <2>2. CASE ~made
      BY <1>8, <2>2 DEF DiskOK
    <2> QED BY <2>1, <2>2
  <1>10. \A c \in DOMAIN request : WaitsFor(request[c], op) \/ request'[c] = request[c]
    <2>1. CASE IsDropped(op)
      BY <1>4, <2>1 DEF Ends
    <2>2. CASE ~IsDropped(op)
      <3>1. PICK c \in DOMAIN request : WaitsFor(request[c], op)
        BY <2>2 DEF IsDropped
      <3> QED BY <1>4, <3>1 DEF Advances
    <2> QED BY <2>1, <2>2
  <1>11. UploadsSpareVersions'
    <2> SUFFICES ASSUME NEW c \in DOMAIN request', NEW v \in DOMAIN ver',
                        request'[c].pc = "ready", request'[c].at = "create", ver'[v] \in DOMAIN disk'
                 PROVE  request'[c].file # disk'[ver'[v]]
      BY DEF UploadsSpareVersions
    <2>1. ver' = ver /\ ver[v] \in DOMAIN disk /\ disk'[ver[v]] = disk[ver[v]] /\ c \in DOMAIN request
      BY <1>1, <1>4, <1>6, <1>8 DEF catalog, Ends
    <2>2. CASE WaitsFor(request[c], op)
      BY <1>4, <1>9, <2>1, <2>2
    <2>3. CASE request'[c] = request[c]
      BY <2>1, <2>3 DEF UploadsSpareVersions
    <2> QED BY <1>10, <2>1, <2>2, <2>3
  <1>12. /\ \A u, w \in DOMAIN disk' : disk'[u] = disk'[w] => u = w
         /\ \A u \in DOMAIN disk' : disk'[u] \in DOMAIN data'
    <2>1. \A u \in DOMAIN disk \ {op.ulid} : disk[u] # file
      BY <1>2 DEF DiskOK, PipelineTypeOK
    <2> HIDE DEF file
    <2>2. \A u, w \in DOMAIN disk' : disk'[u] = disk'[w] => u = w
      <3>1. \A u, w \in DOMAIN disk : disk[u] = disk[w] => u = w
        BY DEF DiskOK
      <3>2. \A u \in DOMAIN disk' : u = op.ulid \/ u \in DOMAIN disk \ {op.ulid}
        BY <1>6
      <3> QED BY <1>6, <2>1, <3>1, <3>2
    <2>3. \A u \in DOMAIN disk' : disk'[u] \in DOMAIN data'
      BY <1>6, <1>7 DEF PipelineTypeOK
    <2> QED BY <2>2, <2>3
  <1> DEFINE Known(u) == \E r \in InProgress' : (HasOpened(r) /\ u = r.ulid) \/ (HasSealed(r) /\ u = r.to)
  <1>13. /\ \A u \in DOMAIN disk' \ minted' : Known(u)
         /\ \A r \in InProgress' : r.pc = "ready" =>
               /\ r.at = "create" /\ r.token = {} => r.ulid \in DOMAIN disk'
               /\ HasSealed(r) => r.to \in DOMAIN disk'
               /\ r.at = "remove" => r.ulid \notin DOMAIN disk'
         /\ ~outlived => \A r \in InProgress' :
               /\ HasOpened(r) /\ (r.pc = "ready" => r.at = "create") => r.ulid \in DOMAIN disk'
               /\ HasOpened(r) /\ r.pc = "ready" /\ r.at = "rename" =>
                     r.ok /\ r.ulid \notin DOMAIN disk'
    <2> HIDE DEF file, made
    <2>1. CASE IsDropped(op)
      <3>1. InProgress' = InProgress /\ (~outlived => InProgress = {})
        BY <1>1, <1>4, <2>1, EndsInProgress
      <3>2. \A u \in DOMAIN disk' \ minted' : u \in DOMAIN disk \ minted
        BY <1>5, <1>6, <2>1
      <3>3. \A u \in DOMAIN disk' \ minted' : Known(u)
        BY <3>1, <3>2 DEF DiskOK
      <3>4. \A r \in InProgress : r.at = "remove" => r.ulid # op.ulid
        BY <1>8, HandlerFacts
      <3> QED BY <1>6, <3>1, <3>3, <3>4 DEF DiskOK
    <2>2. CASE ~IsDropped(op)
      <3>1. PICK c \in DOMAIN request : WaitsFor(request[c], op)
        BY <2>2 DEF IsDropped
      <3>2. InProgress = {request[c]} /\ InProgress' = {request'[c]}
        BY <1>4, <3>1, EndsInProgress
      <3>3. request[c].at = "create" /\ request[c].pc = "await" /\ request[c].ulid = op.ulid /\ request[c].op \in Uploads
        BY <1>1, <3>1, <3>2, WaitingFor, HandlerFacts
      <3>4. request'[c].at = "create" /\ request'[c].pc = "ready" /\ request'[c].ulid = op.ulid /\ request'[c].op \in Uploads
        BY <1>1, <1>4, <3>1, <3>3 DEF Advances
      <3>5. ~HasOpened(request[c]) /\ ~HasSealed(request[c]) /\ HasOpened(request'[c]) /\ ~HasSealed(request'[c])
        BY <3>3, <3>4 DEF HasOpened, HasSealed
      <3>6. DOMAIN disk \subseteq minted
        BY <3>2, <3>5 DEF DiskOK
      <3>7. \A u \in DOMAIN disk' \ minted' : u = op.ulid
        BY <1>5, <1>6, <2>2, <3>6
      <3>8. \A u \in DOMAIN disk' \ minted' : Known(u)
        BY <3>2, <3>4, <3>5, <3>7
      <3> HIDE DEF Known
      <3> QED BY <1>6, <3>2, <3>4, <3>5, <3>8
    <2> QED BY <2>1, <2>2
  <1>14. DiskOK'
    <2>1. sent' = sent /\ op.by <= sent
      BY <1>1 DEF counts, PoolOK
    <2>2. \A f \in DOMAIN data' : f <= sent'
      BY <1>7, <2>1 DEF DiskOK, PipelineTypeOK
    <2>3. ASSUME NEW x \in pool', x.kind = "create" PROVE x.by \notin DOMAIN data'
      <3>1. x \in pool /\ x # op
        BY <1>1
      <3>2. x.by # op.by
        BY <1>1, <2>3, <3>1 DEF PoolOK
      <3> QED BY <1>7, <2>3, <3>1, <3>2 DEF DiskOK
    <2>4. ASSUME NEW d \in DOMAIN request', request'[d].pc = "queued" PROVE request'[d].id \notin DOMAIN data'
      <3>1. d \in DOMAIN request /\ request'[d] = request[d]
        BY <1>4, <1>10, <2>4 DEF Ends
      <3>2. op.by # request[d].id
        BY <1>1, <2>4, <3>1 DEF PoolOK
      <3> QED BY <1>7, <2>4, <3>1, <3>2 DEF DiskOK
    <2> QED BY <1>12, <1>13, <2>2, <2>3, <2>4 DEF DiskOK
  <1>15. DOMAIN disk' \subseteq Ulid /\ DOMAIN data' \subseteq RequestId
    BY <1>2, <1>3, <1>6, <1>7 DEF PipelineTypeOK
  <1> HIDE DEF file, made, IInv, Known
  <1> QED BY <1>4, <1>5, <1>7, <1>11, <1>12, <1>13, <1>14, <1>15, BlobStep

\* rename and remove leave the contents, and take away a name that no upload
\* at an await needs.
LEMMA TakenName ==
    ASSUME IInv, NEW op \in pool, op.kind \in {"rename", "remove"}, IsDropped(op),
           NEW r \in InProgress, op.by # r.id, r.pc = "ready"
    PROVE  /\ r.at = "create" /\ r.token = {} => r.ulid # op.ulid
           /\ HasSealed(r) => r.to # op.ulid
           /\ r.at = "remove" => r.ulid \notin Coming(op)
  <1>1. \A v \in DOMAIN ver : ver[v] \in minted
    BY DEF IInv, CatalogOK
  <1>2. Coming(op) \cap minted = {}
    BY DEF IInv, NamesOK
  <1> QED BY <1>1, <1>2, HandlerFacts DEF HasSealed

LEMMA LandRenameStep ==
    ASSUME IInv, NEW op, Landing(op), LandRename(op)
    PROVE  IInv'
  <1> USE DEF IInv
  <1> DEFINE found == op.ulid \in DOMAIN disk
  <1>1. /\ op \in pool /\ pool' = pool \ {op} /\ op.kind = "rename"
        /\ disk' = (IF found THEN Insert(Remove(disk, op.ulid), op.to, disk[op.ulid]) ELSE disk)
        /\ Ended(op, found) /\ data' = data
        /\ IF found THEN ShowLate(op, "upload", {op.to}) ELSE UNCHANGED shown
        /\ UNCHANGED <<catalog, counts>>
    BY DEF Landing, LandRename
  <1>2. op.ulid \in minted /\ op.ulid \in tokens /\ op.to \in Ulid \ minted /\ op.to \in Coming(op) /\ op.to # op.ulid
    BY <1>1, ComingNames
  <1>3. /\ Ends(op)
        /\ \A c \in DOMAIN request : WaitsFor(request[c], op) =>
              Moves(c, "ready") /\ request'[c].ok = found
    <2>1. found \in BOOLEAN
      OBVIOUS
    <2> HIDE DEF IInv
    <2> QED BY <1>1, <2>1, EndedEnds
  <1>4. minted' = (IF found /\ IsDropped(op) THEN minted \cup {op.to} ELSE minted) /\ ShowsOwn(op)
    <2>1. minted' = (IF found /\ IsDropped(op) THEN minted \cup {op.to} ELSE minted)
      BY <1>1 DEF ShowLate, shown
    <2> QED BY <1>2, <2>1 DEF ShowsOwn
  <1>5. /\ found => /\ DOMAIN disk' = (DOMAIN disk \ {op.ulid}) \cup {op.to}
                    /\ disk'[op.to] = disk[op.ulid]
                    /\ \A u \in DOMAIN disk \ {op.ulid, op.to} : disk'[u] = disk[u]
        /\ ~found => disk' = disk
    BY <1>1 DEF Insert, Remove
  <1>6. \A v \in DOMAIN ver : ver[v] \notin {op.ulid, op.to}
    BY <1>1, VersionNames
  <1>7. \A c \in DOMAIN request : WaitsFor(request[c], op) \/ request'[c] = request[c]
    <2>1. CASE IsDropped(op)
      BY <1>3, <2>1 DEF Ends
    <2>2. CASE ~IsDropped(op)
      <3>1. PICK c \in DOMAIN request : WaitsFor(request[c], op)
        BY <2>2 DEF IsDropped
      <3> QED BY <1>3, <3>1 DEF Moves, Advances
    <2> QED BY <2>1, <2>2
  <1>8. UploadsSpareVersions'
    <2> SUFFICES ASSUME NEW c \in DOMAIN request', NEW v \in DOMAIN ver',
                        request'[c].pc = "ready", request'[c].at = "create", ver'[v] \in DOMAIN disk'
                 PROVE  request'[c].file # disk'[ver'[v]]
      BY DEF UploadsSpareVersions
    <2>1. ver' = ver /\ ver[v] \in DOMAIN disk /\ disk'[ver[v]] = disk[ver[v]] /\ c \in DOMAIN request
      BY <1>1, <1>3, <1>5, <1>6 DEF catalog, Ends
    <2>2. ~WaitsFor(request[c], op)
      BY <1>1, <1>3, <2>1 DEF WaitsFor, Moves
    <2> QED BY <1>7, <2>1, <2>2 DEF UploadsSpareVersions
  <1>9. /\ \A u, w \in DOMAIN disk' : disk'[u] = disk'[w] => u = w
        /\ \A u \in DOMAIN disk' : disk'[u] \in DOMAIN data'
        /\ DOMAIN disk' \subseteq Ulid
    <2>1. /\ \A u, w \in DOMAIN disk : disk[u] = disk[w] => u = w
          /\ \A u \in DOMAIN disk : disk[u] \in DOMAIN data /\ u \in Ulid
      BY DEF DiskOK, PipelineTypeOK
    <2> QED BY <1>1, <1>2, <1>5, <2>1
  <1> DEFINE Known(u) == \E r \in InProgress' : (HasOpened(r) /\ u = r.ulid) \/ (HasSealed(r) /\ u = r.to)
  <1>10. /\ \A u \in DOMAIN disk' \ minted' : Known(u)
         /\ \A r \in InProgress' : r.pc = "ready" =>
               /\ r.at = "create" /\ r.token = {} => r.ulid \in DOMAIN disk'
               /\ HasSealed(r) => r.to \in DOMAIN disk'
               /\ r.at = "remove" => r.ulid \notin DOMAIN disk'
         /\ ~outlived => \A r \in InProgress' :
               /\ HasOpened(r) /\ (r.pc = "ready" => r.at = "create") => r.ulid \in DOMAIN disk'
               /\ HasOpened(r) /\ r.pc = "ready" /\ r.at = "rename" =>
                     r.ok /\ r.ulid \notin DOMAIN disk'
    <2>1. CASE IsDropped(op)
      <3>1. /\ InProgress' = InProgress /\ (~outlived => InProgress = {})
            /\ \A r \in InProgress : op.by # r.id
        BY <1>1, <1>3, <2>1, EndsInProgress
      <3>2. \A u \in DOMAIN disk' \ minted' : u \in DOMAIN disk \ minted
        BY <1>2, <1>4, <1>5, <2>1
      <3>3. \A u \in DOMAIN disk' \ minted' : Known(u)
        BY <3>1, <3>2 DEF DiskOK
      <3>4. ASSUME NEW r \in InProgress, r.pc = "ready"
            PROVE  /\ r.at = "create" /\ r.token = {} => r.ulid \in DOMAIN disk'
                   /\ HasSealed(r) => r.to \in DOMAIN disk'
                   /\ r.at = "remove" => r.ulid \notin DOMAIN disk'
        <4>1. /\ r.at = "create" /\ r.token = {} => r.ulid # op.ulid
              /\ HasSealed(r) => r.to # op.ulid
              /\ r.at = "remove" => r.ulid \notin Coming(op)
          BY <1>1, <2>1, <3>1, <3>4, TakenName
        <4>2. /\ r.at = "create" /\ r.token = {} => r.ulid \in DOMAIN disk
              /\ HasSealed(r) => r.to \in DOMAIN disk
              /\ r.at = "remove" => r.ulid \notin DOMAIN disk
          BY <3>4 DEF DiskOK
        <4> QED BY <1>2, <1>5, <4>1, <4>2
      <3> HIDE DEF Known
      <3> QED BY <3>1, <3>3, <3>4
    <2>2. CASE ~IsDropped(op)
      <3>1. PICK c \in DOMAIN request : WaitsFor(request[c], op)
        BY <2>2 DEF IsDropped
      <3>2. InProgress = {request[c]} /\ InProgress' = {request'[c]}
        BY <1>3, <3>1, EndsInProgress
      <3>3. /\ request[c].at = "rename" /\ request[c].pc = "await" /\ request[c].ulid = op.ulid
            /\ request[c].to = op.to /\ request[c].op \in Uploads
        BY <1>1, <3>1, <3>2, WaitingFor, HandlerFacts
      <3>4. /\ request'[c].at = "rename" /\ request'[c].pc = "ready" /\ request'[c].ulid = op.ulid
            /\ request'[c].to = op.to /\ request'[c].op \in Uploads /\ request'[c].ok = found
        BY <1>1, <1>3, <3>1, <3>3 DEF Advances, Moves
      <3>5. /\ HasOpened(request[c]) /\ ~HasSealed(request[c])
            /\ HasOpened(request'[c]) /\ (HasSealed(request'[c]) <=> found)
        BY <3>3, <3>4 DEF HasOpened, HasSealed
      <3>6. DOMAIN disk \subseteq minted
        BY <1>2, <3>2, <3>3, <3>5 DEF DiskOK
      <3>7. \A u \in DOMAIN disk' \ minted' : found /\ u = op.to
        BY <1>4, <1>5, <2>2, <3>6
      <3>8. \A u \in DOMAIN disk' \ minted' : Known(u)
        BY <3>2, <3>4, <3>5, <3>7
      <3>9. ~outlived => found
        BY <3>2, <3>3, <3>5 DEF OrderOK
      <3>10. found => op.ulid \notin DOMAIN disk' /\ op.to \in DOMAIN disk'
        BY <1>2, <1>5
      <3> HIDE DEF Known, found
      <3> QED BY <3>2, <3>4, <3>5, <3>8, <3>9, <3>10
    <2> QED BY <2>1, <2>2
  <1>11. DiskOK'
    <2>1. \A x \in pool' : x \in pool
      BY <1>1
    <2>2. \A d \in DOMAIN request' : request'[d].pc = "queued" => d \in DOMAIN request /\ request'[d] = request[d]
      BY <1>3, <1>7 DEF Ends, Moves
    <2>3. /\ \A file \in DOMAIN data' : file <= sent'
          /\ \A x \in pool' : x.kind = "create" => x.by \notin DOMAIN data'
          /\ \A d \in DOMAIN request' : request'[d].pc = "queued" => request'[d].id \notin DOMAIN data'
      BY <1>1, <2>1, <2>2 DEF DiskOK, counts
    <2> QED BY <1>9, <1>10, <2>3 DEF DiskOK
  <1>12. DOMAIN data' \subseteq RequestId /\ \A file \in DOMAIN data' : data'[file] \in Seq(RequestId)
    BY <1>1 DEF PipelineTypeOK
  <1> HIDE DEF found, IInv, Known
  <1> QED BY <1>3, <1>4, <1>8, <1>9, <1>10, <1>11, <1>12, BlobStep

LEMMA LandRemoveStep ==
    ASSUME IInv, NEW op, Landing(op), LandRemove(op)
    PROVE  IInv'
  <1> USE DEF IInv
  <1> DEFINE found == op.ulid \in DOMAIN disk
  <1>1. /\ op \in pool /\ pool' = pool \ {op} /\ op.kind = "remove"
        /\ disk' = Remove(disk, op.ulid)
        /\ Ended(op, found) /\ data' = data /\ minted' = minted
        /\ UNCHANGED <<catalog, counts>>
    BY DEF Landing, LandRemove, ShowLate, shown
  <1>2. /\ Ends(op) /\ ShowsOwn(op)
        /\ \A c \in DOMAIN request : WaitsFor(request[c], op) => Moves(c, "ready")
    <2>1. found \in BOOLEAN
      OBVIOUS
    <2> HIDE DEF IInv
    <2> QED BY <1>1, <2>1, EndedEnds DEF ShowsOwn
  <1>3. DOMAIN disk' = DOMAIN disk \ {op.ulid} /\ \A u \in DOMAIN disk' : disk'[u] = disk[u]
    BY <1>1 DEF Remove
  <1>4. \A c \in DOMAIN request : WaitsFor(request[c], op) \/ request'[c] = request[c]
    <2>1. CASE IsDropped(op)
      BY <1>2, <2>1 DEF Ends
    <2>2. CASE ~IsDropped(op)
      <3>1. PICK c \in DOMAIN request : WaitsFor(request[c], op)
        BY <2>2 DEF IsDropped
      <3> QED BY <1>2, <3>1 DEF Moves, Advances
    <2> QED BY <2>1, <2>2
  <1>5. UploadsSpareVersions'
    <2> SUFFICES ASSUME NEW c \in DOMAIN request', NEW v \in DOMAIN ver',
                        request'[c].pc = "ready", request'[c].at = "create", ver'[v] \in DOMAIN disk'
                 PROVE  request'[c].file # disk'[ver'[v]]
      BY DEF UploadsSpareVersions
    <2>1. ver' = ver /\ ver[v] \in DOMAIN disk /\ disk'[ver[v]] = disk[ver[v]] /\ c \in DOMAIN request
      BY <1>1, <1>2, <1>3 DEF catalog, Ends
    <2>2. ~WaitsFor(request[c], op)
      BY <1>1, <1>2, <2>1 DEF WaitsFor, Moves
    <2> QED BY <1>4, <2>1, <2>2 DEF UploadsSpareVersions
  <1>6. /\ \A u, w \in DOMAIN disk' : disk'[u] = disk'[w] => u = w
        /\ \A u \in DOMAIN disk' : disk'[u] \in DOMAIN data'
        /\ DOMAIN disk' \subseteq Ulid
    <2>1. /\ \A u, w \in DOMAIN disk : disk[u] = disk[w] => u = w
          /\ \A u \in DOMAIN disk : disk[u] \in DOMAIN data /\ u \in Ulid
      BY DEF DiskOK, PipelineTypeOK
    <2> QED BY <1>1, <1>3, <2>1
  <1> DEFINE Known(u) == \E r \in InProgress' : (HasOpened(r) /\ u = r.ulid) \/ (HasSealed(r) /\ u = r.to)
  <1>7. /\ \A u \in DOMAIN disk' \ minted' : Known(u)
        /\ \A r \in InProgress' : r.pc = "ready" =>
              /\ r.at = "create" /\ r.token = {} => r.ulid \in DOMAIN disk'
              /\ HasSealed(r) => r.to \in DOMAIN disk'
              /\ r.at = "remove" => r.ulid \notin DOMAIN disk'
        /\ ~outlived => \A r \in InProgress' :
              /\ HasOpened(r) /\ (r.pc = "ready" => r.at = "create") => r.ulid \in DOMAIN disk'
              /\ HasOpened(r) /\ r.pc = "ready" /\ r.at = "rename" =>
                    r.ok /\ r.ulid \notin DOMAIN disk'
    <2>1. CASE IsDropped(op)
      <3>1. /\ InProgress' = InProgress /\ (~outlived => InProgress = {})
            /\ \A r \in InProgress : op.by # r.id
        BY <1>1, <1>2, <2>1, EndsInProgress
      <3>2. \A u \in DOMAIN disk' \ minted' : u \in DOMAIN disk \ minted
        BY <1>1, <1>3
      <3>3. \A u \in DOMAIN disk' \ minted' : Known(u)
        BY <3>1, <3>2 DEF DiskOK
      <3>4. ASSUME NEW r \in InProgress, r.pc = "ready"
            PROVE  /\ r.at = "create" /\ r.token = {} => r.ulid \in DOMAIN disk'
                   /\ HasSealed(r) => r.to \in DOMAIN disk'
                   /\ r.at = "remove" => r.ulid \notin DOMAIN disk'
        <4>1. /\ r.at = "create" /\ r.token = {} => r.ulid # op.ulid
              /\ HasSealed(r) => r.to # op.ulid
          BY <1>1, <2>1, <3>1, <3>4, TakenName
        <4>2. /\ r.at = "create" /\ r.token = {} => r.ulid \in DOMAIN disk
              /\ HasSealed(r) => r.to \in DOMAIN disk
              /\ r.at = "remove" => r.ulid \notin DOMAIN disk
          BY <3>4 DEF DiskOK
        <4> QED BY <1>3, <4>1, <4>2
      <3> HIDE DEF Known
      <3> QED BY <3>1, <3>3, <3>4
    <2>2. CASE ~IsDropped(op)
      <3>1. PICK c \in DOMAIN request : WaitsFor(request[c], op)
        BY <2>2 DEF IsDropped
      <3>2. InProgress = {request[c]} /\ InProgress' = {request'[c]}
        BY <1>2, <3>1, EndsInProgress
      <3>3. request[c].at = "remove" /\ request[c].pc = "await" /\ request[c].ulid = op.ulid /\ request[c].op \notin Uploads
        BY <1>1, <3>1, <3>2, WaitingFor, HandlerFacts
      <3>4. request'[c].at = "remove" /\ request'[c].ulid = op.ulid /\ request'[c].op \notin Uploads
        BY <1>1, <1>2, <3>1, <3>3 DEF Advances, Moves
      <3>5. /\ ~HasOpened(request[c]) /\ ~HasSealed(request[c])
            /\ ~HasOpened(request'[c]) /\ ~HasSealed(request'[c])
        BY <3>3, <3>4 DEF HasOpened, HasSealed
      <3>6. DOMAIN disk \subseteq minted
        BY <3>2, <3>5 DEF DiskOK
      <3>7. DOMAIN disk' \ minted' = {} /\ op.ulid \notin DOMAIN disk'
        BY <1>1, <1>3, <3>6
      <3> HIDE DEF Known, found
      <3> QED BY <3>2, <3>4, <3>5, <3>7
    <2> QED BY <2>1, <2>2
  <1>8. DiskOK'
    <2>1. \A x \in pool' : x \in pool
      BY <1>1
    <2>2. \A d \in DOMAIN request' : request'[d].pc = "queued" => d \in DOMAIN request /\ request'[d] = request[d]
      BY <1>2, <1>4 DEF Ends, Moves
    <2>3. /\ \A file \in DOMAIN data' : file <= sent'
          /\ \A x \in pool' : x.kind = "create" => x.by \notin DOMAIN data'
          /\ \A d \in DOMAIN request' : request'[d].pc = "queued" => request'[d].id \notin DOMAIN data'
      BY <1>1, <2>1, <2>2 DEF DiskOK, counts
    <2> QED BY <1>6, <1>7, <2>3 DEF DiskOK
  <1>9. DOMAIN data' \subseteq RequestId /\ \A file \in DOMAIN data' : data'[file] \in Seq(RequestId)
    BY <1>1 DEF PipelineTypeOK
  <1> HIDE DEF found, IInv, Known
  <1> QED BY <1>2, <1>5, <1>6, <1>7, <1>8, <1>9, BlobStep

LEMMA LandAnyStep ==
    ASSUME IInv, NEW id, Land(id)
    PROVE  IInv'
  <1>1. PICK op \in pool :
           /\ pool' = pool \ {op}
           /\ \/ LandCreate(op) \/ LandOpen(op) \/ LandWrite(op)
              \/ LandRead(op) \/ LandRename(op) \/ LandRemove(op)
    BY DEF Land
  <1>2. Landing(op)
    BY <1>1 DEF Land, Landing
  <1> QED BY <1>1, <1>2, LandCreateStep, LandOpenStep, LandWriteStep, LandReadStep, LandRenameStep, LandRemoveStep

-----------------------------------------------------------------------------
(***************************************************************************)
(* The theorems.                                                           *)
(***************************************************************************)
LEMMA InitIInv == Init => IInv
  <1> SUFFICES ASSUME Init PROVE IInv
    OBVIOUS
  <1> USE DEF Init, EmptyTable
  <1>1. DOMAIN request = {} /\ InProgress = {} /\ DOMAIN queue = {} /\ queue \in Seq(DOMAIN request)
    BY DEF InProgress
  <1>2. PipelineTypeOK
    BY <1>1 DEF PipelineTypeOK, QueueOK
  <1>3. WriterHoldsLock /\ UploadsSpareVersions
    BY <1>1 DEF WriterHoldsLock, UploadsSpareVersions
  <1>4. CatalogOK
    <2>1. DOMAIN fs = {} /\ DOMAIN ver = {}
      OBVIOUS
    <2>2. 0 \in 0 .. MaxRequests /\ 0 \in 0 .. 0
      BY PipelineAssumption
    <2>3. IsFiniteSet(DOMAIN fs) /\ Cardinality(DOMAIN fs) = 0
      BY <2>1, FS_EmptySet
    <2> QED BY <1>1, <2>1, <2>2, <2>3 DEF CatalogOK
  <1>5. PoolOK /\ NamesOK /\ HandlersOK /\ OrderOK
    BY <1>1 DEF PoolOK, NamesOK, HandlersOK, OrderOK
  <1>6. DiskOK
    BY <1>1 DEF DiskOK
  <1> QED BY <1>2, <1>3, <1>4, <1>5, <1>6 DEF IInv

LEMMA StepIInv == IInv /\ [Next]_vars => IInv'
  <1> SUFFICES ASSUME IInv, [Next]_vars PROVE IInv'
    OBVIOUS
  <1>1. ASSUME NEW c \in Client, Send(c) PROVE IInv'
    BY <1>1, SendStep
  <1>2. ASSUME NEW c \in Client, Handle(c) PROVE IInv'
    <2>1. CASE StartUpload(c)
      BY <2>1, StartUploadStep
    <2>2. CASE StartOther(c)
      BY <2>2, StartOtherStep
    <2>3. CASE Resume(c)
      BY <2>3, ResumeUploadStep, ResumeSealedStep, ResumeDeleteStep, ResumeOpenedStep, ResumeReadStep DEF Resume
    <2>4. CASE Release(c)
      BY <2>4, ReleaseStep
    <2> QED BY <1>2, <2>1, <2>2, <2>3, <2>4 DEF Handle
  <1>3. ASSUME NEW c \in Client, DropWaiting(c) \/ DropHandler(c) PROVE IInv'
    BY <1>3, DropWaitingStep, DropHandlerStep
  <1>4. ASSUME NEW id \in 1 .. sent, Land(id) PROVE IInv'
    BY <1>4, LandAnyStep
  <1>5. CASE Crash
    BY <1>5, CrashStep
  <1>6. CASE UNCHANGED vars
    <2> USE <1>6 DEF vars, catalog, shown, counts
    <2>1. PipelineTypeOK' /\ WriterHoldsLock' /\ UploadsSpareVersions'
      BY DEF IInv, PipelineTypeOK, QueueOK, WriterHoldsLock, UploadsSpareVersions
    <2>2. CatalogOK' /\ PoolOK' /\ NamesOK'
      BY DEF IInv, CatalogOK, PoolOK, NamesOK, Coming, IsWorking, Drawn
    <2>3. HandlersOK' /\ DiskOK' /\ OrderOK'
      BY DEF IInv, HandlersOK, DiskOK, OrderOK, IsWorking, InProgress, Requests!Continuation,
             Requests!TargetKey, Requests!UploadFits, Requests!UploadKey, Requests!IsPresent
    <2> QED BY <2>1, <2>2, <2>3 DEF IInv
  <1> QED BY <1>1, <1>2, <1>3, <1>4, <1>5, <1>6 DEF Next, Quiet

\* The inductive invariant holds in every state.
THEOREM Invariance == Spec => []IInv
  BY InitIInv, StepIInv, PTL DEF Spec

\* The requests, the queue, the pool and the blobs are of their types in every
\* state, and the queue holds the requests in the order in which they came.
THEOREM PipelineTypeCorrect == Spec => []PipelineTypeOK
  <1>1. IInv => PipelineTypeOK
    BY DEF IInv
  <1> QED BY <1>1, Invariance, PTL

\* begin_write never meets the transaction of another request, however the
\* requests before it have ended.
THEOREM WriterCorrect == Spec => []WriterHoldsLock
  <1>1. IInv => WriterHoldsLock
    BY DEF IInv
  <1> QED BY <1>1, Invariance, PTL

\* No upload opens the blob of a committed version.
THEOREM SpareCorrect == Spec => []UploadsSpareVersions
  <1>1. IInv => UploadsSpareVersions
    BY DEF IInv
  <1> QED BY <1>1, Invariance, PTL

-----------------------------------------------------------------------------
(***************************************************************************)
(* The blobs of versions.                                                  *)
(***************************************************************************)
\* A commit finds the blob under the name that it stores.
LEMMA CommitFindsBlob ==
    ASSUME IInv, Next
    PROVE  \A v \in DOMAIN ver' \ DOMAIN ver : ver'[v] \in DOMAIN disk'
  <1>1. ASSUME NEW c \in DOMAIN request, Turn(c, "ready"), NEW saved \in DOMAIN disk, disk' = disk,
               Requests!CommitFile(Root, request[c].name, request[c].ulid, saved)
        PROVE  \A v \in DOMAIN ver' \ DOMAIN ver : ver'[v] \in DOMAIN disk'
    BY <1>1 DEF Requests!CommitFile, Requests!Insert
  <1>2. CASE ver' = ver
    BY <1>2
  <1>3. ASSUME NEW c \in Client, FinishSingle(c), ResumeUpload(c)
        PROVE  \A v \in DOMAIN ver' \ DOMAIN ver : ver'[v] \in DOMAIN disk'
    <2>1. /\ Turn(c, "ready") /\ request[c].at = "create" /\ request[c].token = {} /\ disk' = disk
          /\ Requests!CommitFile(Root, request[c].name, request[c].ulid, request[c].ulid)
      BY <1>3 DEF ResumeUpload, FinishSingle
    <2>2. c \in DOMAIN request /\ request[c].pc = "ready"
      BY <2>1, TurnTaken
    <2>3. request[c].ulid \in DOMAIN disk
      BY <2>1, <2>2 DEF IInv, DiskOK, InProgress
    <2> QED BY <1>1, <2>1, <2>2, <2>3
  <1>4. ASSUME NEW c \in Client, ResumeSealed(c)
        PROVE  \A v \in DOMAIN ver' \ DOMAIN ver : ver'[v] \in DOMAIN disk'
    <2>1. Turn(c, "ready") /\ request[c].at = "rename" /\ disk' = disk
      BY <1>4 DEF ResumeSealed
    <2>2. c \in DOMAIN request /\ request[c].pc = "ready"
      BY <2>1, TurnTaken
    <2>3. \/ ver' = ver
          \/ request[c].ok /\ Requests!CommitFile(Root, request[c].name, request[c].ulid, request[c].to)
      BY <1>4 DEF ResumeSealed, catalog
    <2>4. request[c].ok => request[c].to \in DOMAIN disk
      BY <2>1, <2>2 DEF IInv, DiskOK, InProgress, HasSealed
    <2> QED BY <1>1, <1>2, <2>1, <2>2, <2>3, <2>4
  <1>5. ASSUME NEW c \in Client, Handle(c)
        PROVE  \/ ver' = ver
               \/ FinishSingle(c) /\ ResumeUpload(c)
               \/ ResumeSealed(c)
    BY <1>5 DEF Handle, Resume, StartUpload, StartOther, ResumeUpload, FinishPart, FinishRefused,
                SealFragments, ResumeDelete, ResumeOpened, ResumeRead, Release, catalog
  <1>6. ASSUME NEW c \in Client, Send(c) \/ DropWaiting(c) \/ DropHandler(c) PROVE ver' = ver
    BY <1>6 DEF Send, DropWaiting, DropHandler, catalog
  <1>7. ASSUME NEW id \in 1 .. sent, Land(id) PROVE ver' = ver
    BY <1>7 DEF Land, catalog
  <1>8. Crash \/ Quiet => ver' = ver
    BY DEF Crash, Quiet, vars, catalog
  <1> QED BY <1>2, <1>3, <1>4, <1>5, <1>6, <1>7, <1>8 DEF Next

\* Only a delete takes a version's blob from disk.
LEMMA RemovedByDelete ==
    ASSUME IInv, Next, NEW v \in DOMAIN ver, ver[v] \in DOMAIN disk \ DOMAIN disk'
    PROVE  \E op \in pool \ pool' : op.kind = "remove" /\ op.ulid = ver[v]
  <1>1. PICK id \in 1 .. sent : Land(id)
    <2>1. ASSUME NEW c \in Client, Handle(c) PROVE disk' = disk
      BY <2>1 DEF Handle, Resume, StartUpload, StartOther, ResumeUpload, ResumeSealed,
                  ResumeDelete, ResumeOpened, ResumeRead, Release
    <2>2. ASSUME NEW c \in Client, Send(c) \/ DropWaiting(c) \/ DropHandler(c) PROVE disk' = disk
      BY <2>2 DEF Send, DropWaiting, DropHandler
    <2>3. Crash \/ Quiet => disk' = disk
      BY DEF Crash, Quiet, vars
    <2> QED BY <2>1, <2>2, <2>3 DEF Next
  <1>2. PICK op \in pool :
           /\ pool' = pool \ {op}
           /\ \/ LandCreate(op) \/ LandOpen(op) \/ LandWrite(op)
              \/ LandRead(op) \/ LandRename(op) \/ LandRemove(op)
    BY <1>1 DEF Land
  <1>3. CASE LandCreate(op) \/ LandOpen(op) \/ LandWrite(op) \/ LandRead(op)
    BY <1>3 DEF LandCreate, LandOpen, LandWrite, LandRead, Insert
  <1>4. CASE LandRename(op)
    <2>1. ver[v] # op.ulid
      BY <1>4, VersionNames DEF LandRename
    <2> QED BY <1>4, <2>1 DEF LandRename, Insert, Remove
  <1>5. CASE LandRemove(op)
    <2>1. op.kind = "remove" /\ disk' = Remove(disk, op.ulid)
      BY <1>5 DEF LandRemove
    <2> QED BY <1>2, <2>1 DEF Remove
  <1> QED BY <1>2, <1>3, <1>4, <1>5

\* A version is committed when its blob is there, and a late rename does not
\* take it away.
THEOREM VersionsOnDisk == Spec => VersionBlobOnDisk
  <1>1. ASSUME IInv, [Next]_vars
        PROVE  [ /\ \A v \in DOMAIN ver' \ DOMAIN ver : ver'[v] \in DOMAIN disk'
                 /\ \A v \in DOMAIN ver :
                       ver[v] \in DOMAIN disk \ DOMAIN disk' =>
                          \E op \in pool \ pool' : op.kind = "remove" /\ op.ulid = ver[v] ]_vars
    BY <1>1, CommitFindsBlob, RemovedByDelete
  <1> QED BY <1>1, Invariance, PTL DEF Spec, VersionBlobOnDisk

=============================================================================
