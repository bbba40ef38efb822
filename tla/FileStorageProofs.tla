------------------------- MODULE FileStorageProofs --------------------------
(***************************************************************************)
(* The properties of the file driver, for any number of processes, tries   *)
(* and requests.                                                           *)
(***************************************************************************)
EXTENDS FileStorage, TLAPS

-----------------------------------------------------------------------------
(***************************************************************************)
(* Type correctness.                                                       *)
(***************************************************************************)
HandlersTyped == ProcessesOK /\ HandlersOK

TypesOK == FileTypeOK /\ HandlersOK

\* The record of a process that has nothing to do.
LEMMA IdleType ==
    /\ Idle \in ProcessState
    /\ Idle.token = 0 /\ Idle.pc = "idle"
  BY FileAssumption DEF Idle, ProcessState, Steps, NoUlid

\* What one assignment to a process leaves alone.
LEMMA SetPc ==
    ASSUME NEW r \in ProcessState, NEW pc \in Steps
    PROVE  LET s == [r EXCEPT !.pc = pc]
           IN  s \in ProcessState /\ s.pc = pc /\ s.id = r.id /\ s.token = r.token
               /\ s.tries = r.tries /\ s.major = r.major
  BY DEF ProcessState

LEMMA SetMajor ==
    ASSUME NEW r \in ProcessState, NEW major \in Nat
    PROVE  LET s == [r EXCEPT !.major = major]
           IN  s \in ProcessState /\ s.pc = r.pc /\ s.token = r.token /\ s.tries = r.tries
               /\ s.major = major
  BY DEF ProcessState

LEMMA SetTries ==
    ASSUME NEW r \in ProcessState, NEW tries \in 0 .. MAX_TRIES + 1
    PROVE  LET s == [r EXCEPT !.tries = tries]
           IN  s \in ProcessState /\ s.pc = r.pc /\ s.token = r.token /\ s.tries = tries
               /\ s.major = r.major
  BY DEF ProcessState

LEMMA SetToken ==
    ASSUME NEW r \in ProcessState, NEW token \in Nat
    PROVE  LET s == [r EXCEPT !.token = token]
           IN  s \in ProcessState /\ s.token = token /\ s.id = r.id
  BY DEF ProcessState

LEMMA SetId ==
    ASSUME NEW r \in ProcessState, NEW id \in RequestId
    PROVE  LET s == [r EXCEPT !.id = id]
           IN  s \in ProcessState /\ s.id = id
  BY DEF ProcessState, RequestId

LEMMA SetOp ==
    ASSUME NEW r \in ProcessState, NEW op \in Ops
    PROVE  [r EXCEPT !.op = op] \in ProcessState
  BY DEF ProcessState

\* A process that turns to something else keeps the handlers well typed.
LEMMA OneProcess ==
    ASSUME HandlersTyped, NEW p \in Process, NEW r \in ProcessState,
           proc' = [proc EXCEPT ![p] = r],
           minted \in Nat, minted' \in Nat, minted <= minted', r.token <= minted',
           r.pc \in {"blobs_dir", "blob"} => r.id \in RequestId,
           r.pc = "reserve" => r.tries \in 1 .. MAX_TRIES
    PROVE  HandlersTyped'
  <1>1. proc' \in [Process -> ProcessState]
    BY DEF HandlersTyped, ProcessesOK
  <1>2. ASSUME NEW q \in Process
        PROVE  /\ proc'[q].token <= minted'
               /\ proc'[q].pc \in {"blobs_dir", "blob"} => proc'[q].id \in RequestId
               /\ proc'[q].pc = "reserve" => proc'[q].tries \in 1 .. MAX_TRIES
    <2>1. CASE q = p
      <3>1. proc'[q] = r
        BY <2>1 DEF HandlersTyped, ProcessesOK
      <3> QED BY <3>1
    <2>2. CASE q # p
      <3>1. proc'[q] = proc[q] /\ proc[q] \in ProcessState
        BY <2>2 DEF HandlersTyped, ProcessesOK
      <3>2. proc[q].token \in Nat
        BY <3>1 DEF ProcessState
      <3> QED BY <3>1, <3>2 DEF HandlersTyped, HandlersOK
    <2> QED BY <2>1, <2>2
  <1> QED BY <1>1, <1>2 DEF HandlersTyped, HandlersOK, ProcessesOK

\* So does one that is done.
LEMMA DoneType ==
    ASSUME HandlersTyped, NEW p \in Process, Done(p),
           minted \in Nat, minted' \in Nat, minted <= minted'
    PROVE  HandlersTyped'
  <1>1. Idle.token <= minted' /\ Idle.pc \notin {"blobs_dir", "blob"} /\ Idle.pc # "reserve"
    BY IdleType
  <1>2. proc' = [proc EXCEPT ![p] = Idle]
    BY DEF Done
  <1> QED BY <1>1, <1>2, IdleType, OneProcess

\* And one that goes on to a step for which it has what it takes.
LEMMA StepType ==
    ASSUME HandlersTyped, NEW p \in Process, NEW r \in ProcessState,
           minted \in Nat, minted' = minted,
           proc' = [proc EXCEPT ![p] = r],
           r.token = proc[p].token \/ r.token = 0,
           r.pc # "blobs_dir",
           r.pc = "blob" => r.id \in RequestId,
           r.pc = "reserve" => r.tries \in 1 .. MAX_TRIES
    PROVE  HandlersTyped'
  <1>1. proc[p].token <= minted
    BY DEF HandlersTyped, HandlersOK
  <1>2. r.token <= minted' /\ minted' \in Nat /\ minted <= minted'
    BY <1>1
  <1>3. r.pc \in {"blobs_dir", "blob"} => r.id \in RequestId
    OBVIOUS
  <1> QED BY <1>2, <1>3, OneProcess

\* The initial state is well typed.
LEMMA InitTypes == Init => TypesOK
  <1> SUFFICES ASSUME Init PROVE TypesOK
    OBVIOUS
  <1>1. DOMAIN blobs = {} /\ DOMAIN versions = {}
    BY DEF Init
  <1>2. FlagsOK
    BY DEF Init, FlagsOK
  <1>3. CountsOK
    BY FileAssumption DEF Init, CountsOK
  <1>4. BlobsOK /\ VersionsOK
    BY <1>1 DEF Init, BlobsOK, VersionsOK
  <1>5. ProcessesOK
    BY IdleType DEF Init, ProcessesOK
  <1>6. HandlersOK
    BY IdleType DEF Init, HandlersOK
  <1> QED BY <1>2, <1>3, <1>4, <1>5, <1>6 DEF TypesOK, FileTypeOK

\* Every step of a handler keeps the flags well typed.
LEMMA NextFlags == FlagsOK /\ [Next]_vars => FlagsOK'
  BY DEF FlagsOK, Next, vars, files, Start, MakeDirectory, CreateBlobsDir, WriteBlob, NoBlobsDir,
         NoVersion, MakeFirst, ReadLink, Reserve, Publish, LinkHead, StartDelete, RemoveEntry,
         FinishDelete, Stop, Quiet

\* Every step of a handler keeps the counts well typed.
LEMMA NextCounts == TypesOK /\ [Next]_vars => CountsOK'
  <1> SUFFICES ASSUME TypesOK, [Next]_vars PROVE CountsOK'
    OBVIOUS
  <1> USE FileAssumption DEF TypesOK, FileTypeOK, CountsOK, files, given, aux
  <1>1. ASSUME NEW p \in Process, Start(p) PROVE CountsOK'
    BY <1>1 DEF Start
  <1>2. ASSUME NEW p \in Process, WriteBlob(p) PROVE CountsOK'
    <2>1. proc[p].token \in Nat /\ proc[p].token <= minted
      BY DEF HandlersOK, ProcessesOK, ProcessState
    <2> QED BY <1>2, <2>1 DEF WriteBlob, NoUlid, Token
  <1>3. ASSUME NEW p \in Process, LinkHead(p) PROVE CountsOK'
    <2>1. proc[p].data \in Seq(RequestId)
      BY DEF ProcessesOK, ProcessState
    <2> QED BY <1>3, <2>1 DEF LinkHead
  <1>4. ASSUME NEW p \in Process,
               \/ MakeDirectory(p) \/ CreateBlobsDir(p) \/ NoBlobsDir(p) \/ NoVersion(p)
               \/ MakeFirst(p) \/ ReadLink(p) \/ Reserve(p) \/ Publish(p) \/ StartDelete(p)
               \/ RemoveEntry(p) \/ FinishDelete(p) \/ Stop(p)
        PROVE  CountsOK'
    BY <1>4 DEF MakeDirectory, CreateBlobsDir, NoBlobsDir, NoVersion, MakeFirst, ReadLink, Reserve,
                Publish, StartDelete, RemoveEntry, FinishDelete, Stop
  <1>5. ASSUME UNCHANGED vars PROVE CountsOK'
    BY <1>5 DEF vars
  <1> QED BY <1>1, <1>2, <1>3, <1>4, <1>5 DEF Next, Quiet

\* Every step of a handler keeps the blobs well typed.
LEMMA NextBlobs == TypesOK /\ [Next]_vars => BlobsOK'
  <1> SUFFICES ASSUME TypesOK, [Next]_vars PROVE BlobsOK'
    OBVIOUS
  <1> USE DEF TypesOK, FileTypeOK, BlobsOK, CountsOK, files, given, aux
  <1>1. ASSUME NEW p \in Process, WriteBlob(p) PROVE BlobsOK'
    <2> DEFINE r == proc[p]
               ulid == IF r.token = NoUlid THEN minted + 1 ELSE r.token
               old == IF ulid \in DOMAIN blobs THEN blobs[ulid] ELSE <<>>
    <2>1. r.token \in Nat /\ r.token <= minted /\ r.id \in RequestId
      BY <1>1 DEF WriteBlob, At, HandlersOK, ProcessesOK, ProcessState
    <2>2. /\ blobs' = Put(blobs, ulid, Append(old, r.id))
          /\ minted' = IF r.token = NoUlid THEN ulid ELSE minted
          /\ hasBlobs /\ hasBlobs' = hasBlobs
      BY <1>1 DEF WriteBlob
    <2>3. ulid \in 1 .. minted' /\ minted' \in Nat /\ minted <= minted'
      BY <2>1, <2>2 DEF NoUlid
    <2>4. Append(old, r.id) \in Seq(RequestId)
      <3>1. old \in Seq(RequestId)
        OBVIOUS
      <3> HIDE DEF old
      <3> QED BY <2>1, <3>1
    <2> HIDE DEF ulid, old, r
    <2>5. DOMAIN blobs' = DOMAIN blobs \cup {ulid}
      BY <2>2 DEF Put
    <2>6. \A u \in DOMAIN blobs' : blobs'[u] \in Seq(RequestId)
      BY <2>2, <2>4 DEF Put
    <2> QED BY <2>2, <2>3, <2>5, <2>6
  <1>2. ASSUME NEW p \in Process, CreateBlobsDir(p) PROVE BlobsOK'
    BY <1>2 DEF CreateBlobsDir
  <1>3. ASSUME NEW p \in Process, Publish(p) PROVE BlobsOK'
    BY <1>3 DEF Publish, Without
  <1>4. ASSUME NEW p \in Process, RemoveEntry(p) PROVE BlobsOK'
    <2>1. PICK e \in proc[p].todo \cup Entries :
             /\ hasBlobs' = (hasBlobs /\ e[1] # "blobs")
             /\ blobs' = IF e[1] = "blobs" THEN <<>> ELSE blobs
      BY <1>4 DEF RemoveEntry
    <2>2. UNCHANGED given
      BY <1>4 DEF RemoveEntry
    <2>3. CASE e[1] = "blobs"
      <3>1. DOMAIN blobs' = {}
        BY <2>1, <2>3
      <3> QED BY <2>2, <3>1
    <2>4. CASE e[1] # "blobs"
      <3>1. blobs' = blobs /\ (hasBlobs' <=> hasBlobs)
        BY <2>1, <2>4
      <3> QED BY <2>2, <3>1
    <2> QED BY <2>3, <2>4
  <1>5. ASSUME NEW p \in Process,
               \/ Start(p) \/ MakeDirectory(p) \/ NoBlobsDir(p) \/ NoVersion(p)
               \/ MakeFirst(p) \/ ReadLink(p) \/ Reserve(p) \/ LinkHead(p) \/ StartDelete(p)
               \/ FinishDelete(p) \/ Stop(p)
        PROVE  BlobsOK'
    BY <1>5 DEF MakeDirectory, Start, NoBlobsDir, NoVersion, MakeFirst, ReadLink, Reserve,
                LinkHead, StartDelete, FinishDelete, Stop
  <1>6. ASSUME UNCHANGED vars PROVE BlobsOK'
    BY <1>6 DEF vars
  <1> QED BY <1>1, <1>2, <1>3, <1>4, <1>5, <1>6 DEF Next, Quiet

\* Every step of a handler keeps the versions and the head well typed.
LEMMA NextVersions == TypesOK /\ [Next]_vars => VersionsOK'
  <1> SUFFICES ASSUME TypesOK, [Next]_vars PROVE VersionsOK'
    OBVIOUS
  <1> USE DEF TypesOK, FileTypeOK, VersionsOK, files, given, aux
  <1>0. \A p \in Process : proc[p].major \in Nat
    BY DEF ProcessesOK, ProcessState
  <1>1. ASSUME NEW p \in Process, MakeFirst(p) PROVE VersionsOK'
    BY <1>1 DEF MakeFirst, MajorVersion, MAJOR_VERSION_1
  <1>2. ASSUME NEW p \in Process, Reserve(p) PROVE VersionsOK'
    <2>1. majors' = majors \/ majors' = majors \cup {proc[p].major + 1}
      BY <1>2 DEF Reserve, Reserved, Taken, Gone
    <2>2. UNCHANGED <<versions, head>>
      BY <1>2 DEF Reserve
    <2>3. proc[p].major + 1 \in MajorVersion
      BY <1>0 DEF MajorVersion
    <2> QED BY <2>1, <2>2, <2>3
  <1>3. ASSUME NEW p \in Process, Publish(p) PROVE VersionsOK'
    BY <1>3 DEF Publish, Put, BlobsOK
  <1>4. ASSUME NEW p \in Process, LinkHead(p) PROVE VersionsOK'
    BY <1>0, <1>4 DEF LinkHead
  <1>5. ASSUME NEW p \in Process, RemoveEntry(p) PROVE VersionsOK'
    <2>1. PICK e \in proc[p].todo \cup Entries :
             /\ head' = IF e[1] = "head" THEN 0 ELSE head
             /\ majors' = majors \ (IF e[1] = "major" THEN {e[2]} ELSE {})
             /\ versions' = [ m \in DOMAIN versions \cap majors' |-> versions[m] ]
      BY <1>5 DEF RemoveEntry
    <2>2. majors' \subseteq majors /\ head' \in Nat
      BY <2>1
    <2>3. DOMAIN versions' = DOMAIN versions \cap majors'
      BY <2>1
    <2>4. \A m \in DOMAIN versions' : versions'[m] = versions[m]
      BY <2>1
    <2> QED BY <2>2, <2>3, <2>4
  <1>6. ASSUME NEW p \in Process,
               \/ Start(p) \/ MakeDirectory(p) \/ CreateBlobsDir(p) \/ WriteBlob(p)
               \/ NoBlobsDir(p) \/ NoVersion(p) \/ ReadLink(p) \/ StartDelete(p)
               \/ FinishDelete(p) \/ Stop(p)
        PROVE  VersionsOK'
    BY <1>6 DEF MakeDirectory, Start, CreateBlobsDir, WriteBlob, NoBlobsDir, NoVersion, ReadLink,
                StartDelete, FinishDelete, Stop
  <1>7. ASSUME UNCHANGED vars PROVE VersionsOK'
    BY <1>7 DEF vars
  <1> QED BY <1>1, <1>2, <1>3, <1>4, <1>5, <1>6, <1>7 DEF Next, Quiet

\* Every step of a handler leaves the handlers well typed.
LEMMA NextHandlers == TypesOK /\ [Next]_vars => HandlersTyped'
  <1> SUFFICES ASSUME TypesOK, [Next]_vars PROVE HandlersTyped'
    OBVIOUS
  <1> USE FileAssumption DEF files, given, aux
  <1>0. /\ HandlersTyped
        /\ minted \in Nat /\ requests \in 0 .. MaxRequests /\ tokens \subseteq 1 .. minted
        /\ head \in Nat
    BY DEF TypesOK, FileTypeOK, HandlersTyped, CountsOK, VersionsOK
  <1>1. ASSUME NEW p \in Process
        PROVE  /\ proc[p] \in ProcessState
               /\ proc[p].token <= minted
               /\ proc[p].pc \in {"blobs_dir", "blob"} => proc[p].id \in RequestId
               /\ proc[p].pc = "reserve" => proc[p].tries \in 1 .. MAX_TRIES
    BY <1>0 DEF HandlersTyped, HandlersOK, ProcessesOK
  <1>2. ASSUME NEW p \in Process, Start(p) PROVE HandlersTyped'
    <2>1. PICK op \in Ops, token \in tokens \cup {NoUlid} :
             proc' = [proc EXCEPT ![p] = [Idle EXCEPT !.op = op, !.id = requests + 1,
                                                      !.token = token, !.pc = FirstStep(op)]]
      BY <1>2 DEF Start
    <2> DEFINE r == [Idle EXCEPT !.op = op, !.id = requests + 1,
                                 !.token = token, !.pc = FirstStep(op)]
    <2>2. FirstStep(op) \in {"blobs_dir", "blob", "make_directory", "delete"}
      BY DEF FirstStep, Uploads, Appends
    <2>3. requests + 1 \in RequestId /\ token \in Nat /\ token <= minted
      BY <1>2, <1>0 DEF Start, RequestId, NoUlid
    <2>4. proc' = [proc EXCEPT ![p] = r]
      BY <2>1
    <2> DEFINE r1 == [Idle EXCEPT !.op = op]
               r2 == [r1 EXCEPT !.id = requests + 1]
               r3 == [r2 EXCEPT !.token = token]
    <2>r. r = [r3 EXCEPT !.pc = FirstStep(op)]
      OBVIOUS
    <2> HIDE DEF r, r3
    <2>3a. r1 \in ProcessState
      BY IdleType, SetOp
    <2> HIDE DEF r1
    <2>3b. r2 \in ProcessState /\ r2.id = requests + 1
      BY <2>3, <2>3a, SetId
    <2> HIDE DEF r2
    <2>3c. r3 \in ProcessState /\ r3.token = token /\ r3.id = requests + 1
      BY <2>3, <2>3b, SetToken DEF r3
    <2>c. FirstStep(op) \in Steps
      BY <2>2 DEF Steps
    <2>5. r \in ProcessState
      BY <2>3c, <2>r, <2>c, SetPc
    <2>6. r.token = token /\ r.pc = FirstStep(op) /\ r.id = requests + 1
      BY <2>3c, <2>r, <2>c, SetPc
    <2> HIDE DEF r
    <2>7. r.pc # "reserve" /\ r.id \in RequestId /\ r.token <= minted
      BY <2>2, <2>3, <2>6
    <2>8. minted' = minted
      BY <1>2 DEF Start
    <2>9. minted' \in Nat /\ minted <= minted' /\ r.token <= minted'
      BY <1>0, <2>7, <2>8
    <2> QED BY <1>0, <2>4, <2>5, <2>7, <2>9, OneProcess
  <1>3. ASSUME NEW p \in Process, NEW pc,
               Goto(p, pc), minted' = minted, pc \in {"blob", "no_version"},
               pc = "blob" => proc[p].id \in RequestId
        PROVE  HandlersTyped'
    <2> DEFINE r == [proc[p] EXCEPT !.pc = pc]
    <2>1. r \in ProcessState /\ r.token = proc[p].token /\ r.pc = pc /\ r.id = proc[p].id
      BY <1>1, <1>3 DEF ProcessState, Steps
    <2>2. proc' = [proc EXCEPT ![p] = r]
      BY <1>3 DEF Goto
    <2> HIDE DEF r
    <2>3. r.pc # "blobs_dir" /\ r.pc # "reserve" /\ (r.pc = "blob" => r.id \in RequestId)
      BY <1>3, <2>1
    <2> QED BY <1>0, <1>3, <2>1, <2>2, <2>3, StepType
  <1>4. ASSUME NEW p \in Process, Done(p), minted' = minted PROVE HandlersTyped'
    <2>1. minted' \in Nat /\ minted <= minted'
      BY <1>0, <1>4
    <2> QED BY <1>0, <1>4, <2>1, DoneType
  <1>5. ASSUME NEW p \in Process, CreateBlobsDir(p) PROVE HandlersTyped'
    BY <1>1, <1>3, <1>5 DEF CreateBlobsDir, At
  <1>6. ASSUME NEW p \in Process, WriteBlob(p) PROVE HandlersTyped'
    <2> DEFINE ulid == IF proc[p].token = NoUlid THEN minted + 1 ELSE proc[p].token
               r == [Idle EXCEPT !.ulid = ulid, !.pc = AfterBlob(proc[p].op)]
    <2>1. proc[p].token \in Nat /\ proc[p].token <= minted
      BY <1>1 DEF ProcessState
    <2>2. ulid \in Nat /\ minted' \in Nat /\ minted <= minted'
      BY <1>0, <1>6, <2>1 DEF WriteBlob, NoUlid
    <2>3. CASE Done(p)
      BY <1>0, <2>2, <2>3, DoneType
    <2>4. CASE proc' = [proc EXCEPT ![p] = r]
      <3>1. AfterBlob(proc[p].op) \in {"first", "read_link", "no_version", "idle"}
        BY DEF AfterBlob
      <3> HIDE DEF ulid
      <3>2. r \in ProcessState
        BY <2>2, <3>1, IdleType DEF ProcessState, Steps
      <3>3. r.token = 0 /\ r.pc = AfterBlob(proc[p].op)
        BY IdleType DEF ProcessState
      <3> HIDE DEF r
      <3>4. r.pc \notin {"blobs_dir", "blob", "reserve"} /\ r.token <= minted'
        BY <2>2, <3>1, <3>3
      <3> QED BY <1>0, <2>2, <2>4, <3>2, <3>4, OneProcess
    <2> QED BY <1>6, <2>3, <2>4 DEF WriteBlob
  <1>7. ASSUME NEW p \in Process, MakeFirst(p) PROVE HandlersTyped'
    <2> DEFINE r == [proc[p] EXCEPT !.pc = AfterDirectory, !.major = MAJOR_VERSION_1]
    <2>1. r \in ProcessState /\ r.token = proc[p].token /\ r.pc = "rename"
      BY <1>1 DEF ProcessState, Steps, AfterDirectory, MAJOR_VERSION_1
    <2>2. proc' = [proc EXCEPT ![p] = r] /\ minted' = minted
      BY <1>7 DEF MakeFirst
    <2> HIDE DEF r
    <2> QED BY <1>0, <2>1, <2>2, StepType
  <1>8. ASSUME NEW p \in Process, ReadLink(p) PROVE HandlersTyped'
    <2> DEFINE pc == IF head = 0 THEN "first" ELSE "reserve"
               r == [proc[p] EXCEPT !.pc = pc, !.major = head, !.tries = 1]
    <2>1. pc \in {"first", "reserve"}
      OBVIOUS
    <2>2. proc' = [proc EXCEPT ![p] = r] /\ minted' = minted
      BY <1>8 DEF ReadLink
    <2> DEFINE r1 == [proc[p] EXCEPT !.pc = pc]
               r2 == [r1 EXCEPT !.major = head]
    <2>r. r = [r2 EXCEPT !.tries = 1]
      OBVIOUS
    <2> HIDE DEF r, pc, r2
    <2>s. pc \in Steps
      BY <2>1 DEF Steps
    <2>3a. r1 \in ProcessState /\ r1.token = proc[p].token /\ r1.pc = pc
      BY <1>1, <2>s, SetPc
    <2> HIDE DEF r1
    <2>3b. r2 \in ProcessState /\ r2.token = proc[p].token /\ r2.pc = pc
      BY <1>0, <2>3a, SetMajor DEF r2
    <2>3. r \in ProcessState /\ r.token = proc[p].token /\ r.pc = pc /\ r.tries = 1
      BY <2>r, <2>3b, SetTries
    <2>4. r.pc \notin {"blobs_dir", "blob"} /\ r.tries \in 1 .. MAX_TRIES
      BY <2>1, <2>3
    <2> QED BY <1>0, <2>2, <2>3, <2>4, StepType
  <1>9. ASSUME NEW p \in Process, Reserve(p) PROVE HandlersTyped'
    <2>1. minted' = minted /\ proc[p].pc = "reserve"
      BY <1>9 DEF Reserve, At
    <2>2. proc[p].tries \in 1 .. MAX_TRIES /\ proc[p].major + 1 \in Nat
      BY <1>1, <2>1 DEF ProcessState
    <2>3. CASE Reserved(p, proc[p])
      <3> DEFINE r == [proc[p] EXCEPT !.major = proc[p].major + 1, !.pc = AfterDirectory]
      <3>1. r \in ProcessState /\ r.token = proc[p].token /\ r.pc = "rename"
        BY <1>1, <2>2 DEF ProcessState, Steps, AfterDirectory
      <3>2. CASE proc' = [proc EXCEPT ![p] = r]
        <4> HIDE DEF r
        <4> QED BY <1>0, <2>1, <3>1, <3>2, StepType
      <3> QED BY <1>4, <2>1, <2>3, <3>2 DEF Reserved
    <2>4. CASE Taken(p, proc[p])
      <3> DEFINE pc == IF proc[p].tries + 1 <= MAX_TRIES THEN "reserve" ELSE AfterDirectory
                 r == [proc[p] EXCEPT !.major = proc[p].major + 1, !.tries = proc[p].tries + 1,
                                      !.pc = pc]
      <3>1. /\ pc \in {"rename", "reserve"}
            /\ proc[p].tries + 1 \in 1 .. MAX_TRIES + 1
            /\ pc = "reserve" => proc[p].tries + 1 \in 1 .. MAX_TRIES
        BY <2>2 DEF AfterDirectory
      <3>2. proc' = [proc EXCEPT ![p] = r]
        BY <2>4 DEF Taken
      <3> DEFINE r1 == [proc[p] EXCEPT !.major = proc[p].major + 1]
                 r2 == [r1 EXCEPT !.tries = proc[p].tries + 1]
      <3>r. r = [r2 EXCEPT !.pc = pc]
        OBVIOUS
      <3> HIDE DEF r, pc, r2
      <3>3a. r1 \in ProcessState /\ r1.token = proc[p].token
        BY <1>1, <2>2, SetMajor
      <3> HIDE DEF r1
      <3>3b. r2 \in ProcessState /\ r2.token = proc[p].token /\ r2.tries = proc[p].tries + 1
        BY <3>1, <3>3a, SetTries DEF r2
      <3>3. r \in ProcessState
        BY <3>1, <3>r, <3>3b, SetPc DEF Steps
      <3>4. r.token = proc[p].token /\ r.pc = pc /\ r.tries = proc[p].tries + 1
        BY <3>1, <3>r, <3>3b, SetPc DEF Steps
      <3> QED BY <1>0, <2>1, <3>1, <3>2, <3>3, <3>4, StepType
    <2> QED BY <1>4, <1>9, <2>1, <2>3, <2>4 DEF Reserve, Gone
  <1>10. ASSUME NEW p \in Process, Publish(p) PROVE HandlersTyped'
    <2>1. minted' = minted
      BY <1>10 DEF Publish
    <2>2. CASE proc[p].ulid \in DOMAIN blobs
      <3> DEFINE bytes == blobs[proc[p].ulid]
                 r == [Idle EXCEPT !.major = proc[p].major, !.data = bytes, !.pc = "symlink"]
      <3>1. bytes \in Seq(RequestId) /\ proc[p].major \in Nat
        BY <1>1, <2>2 DEF ProcessState, TypesOK, FileTypeOK, BlobsOK
      <3> HIDE DEF bytes
      <3>2. r \in ProcessState /\ r.token = 0 /\ r.pc = "symlink"
        BY <3>1, IdleType DEF ProcessState, Steps
      <3>3. CASE proc' = [proc EXCEPT ![p] = r]
        <4> HIDE DEF r
        <4> QED BY <1>0, <2>1, <3>2, <3>3, StepType
      <3> QED BY <1>4, <1>10, <2>1, <3>3 DEF Publish, bytes
    <2> QED BY <1>4, <1>10, <2>1, <2>2 DEF Publish
  <1>11. ASSUME NEW p \in Process, StartDelete(p) PROVE HandlersTyped'
    <2> DEFINE r == [proc[p] EXCEPT !.pc = "removing", !.todo = Entries]
    <2>1. minted' = minted
      BY <1>11 DEF StartDelete
    <2>2. Entries \in SUBSET ({"head", "blobs", "major"} \X Nat)
      BY DEF Entries, TypesOK, FileTypeOK, VersionsOK, MajorVersion
    <2>3. r \in ProcessState /\ r.token = proc[p].token /\ r.pc = "removing"
      BY <1>1, <2>2 DEF ProcessState, Steps
    <2>4. CASE proc' = [proc EXCEPT ![p] = r]
      <3> HIDE DEF r
      <3> QED BY <1>0, <2>1, <2>3, <2>4, StepType
    <2> QED BY <1>4, <1>11, <2>1, <2>4 DEF StartDelete
  <1>12. ASSUME NEW p \in Process, RemoveEntry(p) PROVE HandlersTyped'
    <2>1. PICK e : proc' = [proc EXCEPT ![p].todo = @ \ {e}]
      BY <1>12 DEF RemoveEntry
    <2> DEFINE r == [proc[p] EXCEPT !.todo = @ \ {e}]
    <2>2. proc[p].pc = "removing" /\ minted' = minted
      BY <1>12 DEF RemoveEntry, At
    <2>3. r \in ProcessState /\ r.token = proc[p].token /\ r.pc = "removing"
      BY <1>1, <2>2 DEF ProcessState
    <2>4. proc' = [proc EXCEPT ![p] = r]
      BY <2>1
    <2> HIDE DEF r
    <2> QED BY <1>0, <2>2, <2>3, <2>4, StepType
  <1>13. ASSUME NEW p \in Process,
                \/ MakeDirectory(p) \/ NoBlobsDir(p) \/ NoVersion(p) \/ LinkHead(p)
                \/ FinishDelete(p) \/ Stop(p)
         PROVE  HandlersTyped'
    BY <1>4, <1>13 DEF MakeDirectory, NoBlobsDir, NoVersion, LinkHead, FinishDelete, Stop
  <1>14. ASSUME UNCHANGED vars PROVE HandlersTyped'
    BY <1>0, <1>14 DEF vars, HandlersTyped, HandlersOK, ProcessesOK
  <1> QED BY <1>2, <1>5, <1>6, <1>7, <1>8, <1>9, <1>10, <1>11, <1>12, <1>13, <1>14 DEF Next, Quiet

\* Every step keeps the state well typed.
LEMMA NextTypes == TypesOK /\ [Next]_vars => TypesOK'
  <1>1. TypesOK => FlagsOK
    BY DEF TypesOK, FileTypeOK
  <1> QED BY <1>1, NextFlags, NextCounts, NextBlobs, NextVersions, NextHandlers
          DEF TypesOK, FileTypeOK, HandlersTyped

\* Every reachable state is well typed.
THEOREM FilesTypeCorrect == Spec => []FileTypeOK
  <1>1. TypesOK => FileTypeOK
    BY DEF TypesOK
  <1> QED BY <1>1, InitTypes, NextTypes, PTL DEF Spec

-----------------------------------------------------------------------------
(***************************************************************************)
(* The versions.  Until the first delete the parts of the invariant below  *)
(* hold together.                                                          *)
(***************************************************************************)
Parts == NothingRemoved /\ HeadIsFirst /\ ReservationsApart /\ LinksInPlace /\ FirstIsOwn

\* Steps in which p turns to something that is not about a version.
Aside(p) ==
    /\ \A q \in Process \ {p} : proc'[q] = proc[q]
    /\ proc'[p].pc \notin {"reserve", "rename", "symlink", "removing"}
    /\ there => there'
    /\ UNCHANGED <<majors, versions, head, acked, firsts>>

\* They keep the parts.
LEMMA AsideKeeps ==
    ASSUME Parts, NEW p \in Process, Aside(p)
    PROVE  Parts'
  <1> USE DEF Aside
  <1>1. NothingRemoved'
    BY DEF Parts, NothingRemoved
  <1>2. HeadIsFirst'
    BY DEF Parts, HeadIsFirst, Publishing
  <1>3. ReservationsApart'
    BY DEF Parts, ReservationsApart
  <1>4. LinksInPlace'
    BY DEF Parts, LinksInPlace
  <1>5. FirstIsOwn'
    BY DEF Parts, FirstIsOwn, Publishing
  <1> QED BY <1>1, <1>2, <1>3, <1>4, <1>5 DEF Parts

\* A handler that is done, or that turns to a step of another kind, is aside.
LEMMA DoneAside ==
    ASSUME ProcessesOK, NEW p \in Process, Done(p), there => there',
           UNCHANGED <<majors, versions, head, acked, firsts>>
    PROVE  Aside(p)
  BY IdleType DEF ProcessesOK, Done, Aside

LEMMA TurnAside ==
    ASSUME ProcessesOK, NEW p \in Process, NEW r, proc' = [proc EXCEPT ![p] = r],
           r.pc \notin {"reserve", "rename", "symlink", "removing"}, there => there',
           UNCHANGED <<majors, versions, head, acked, firsts>>
    PROVE  Aside(p)
  BY DEF ProcessesOK, Aside

\* The steps before a version is looked for.
LEMMA EarlySteps ==
    ASSUME TypesOK, NEW p \in Process,
           \/ Start(p) \/ MakeDirectory(p) \/ CreateBlobsDir(p) \/ WriteBlob(p)
           \/ NoBlobsDir(p) \/ NoVersion(p) \/ Stop(p)
    PROVE  Aside(p)
  <1>0. ProcessesOK /\ proc[p] \in ProcessState
    BY DEF TypesOK, FileTypeOK, ProcessesOK
  <1> USE DEF files, given, aux
  <1>1. CASE Start(p)
    <2>1. PICK op \in Ops, token \in tokens \cup {NoUlid} :
             proc' = [proc EXCEPT ![p] = [Idle EXCEPT !.op = op, !.id = requests + 1,
                                                      !.token = token, !.pc = FirstStep(op)]]
      BY <1>1 DEF Start
    <2> DEFINE r == [Idle EXCEPT !.op = op, !.id = requests + 1,
                                 !.token = token, !.pc = FirstStep(op)]
    <2>2. FirstStep(op) \in {"blobs_dir", "blob", "make_directory", "delete"}
      BY FileAssumption DEF FirstStep, Uploads, Appends
    <2>3. r.pc = FirstStep(op)
      BY DEF Idle
    <2>4. proc' = [proc EXCEPT ![p] = r]
      BY <2>1
    <2> HIDE DEF r
    <2>5. UNCHANGED <<there, majors, versions, head, acked, firsts>>
      BY <1>1 DEF Start
    <2>6. r.pc \notin {"reserve", "rename", "symlink", "removing"}
      BY <2>2, <2>3
    <2> QED BY <1>0, <2>4, <2>5, <2>6, TurnAside
  <1>2. CASE CreateBlobsDir(p)
    <2> DEFINE r == [proc[p] EXCEPT !.pc = "blob"]
    <2>1. r.pc = "blob"
      BY <1>0 DEF ProcessState
    <2>2. proc' = [proc EXCEPT ![p] = r]
      BY <1>2 DEF CreateBlobsDir, Goto
    <2>3. there' /\ UNCHANGED <<majors, versions, head, acked, firsts>>
      BY <1>2 DEF CreateBlobsDir
    <2> HIDE DEF r
    <2> QED BY <1>0, <2>1, <2>2, <2>3, TurnAside
  <1>3. CASE WriteBlob(p)
    <2> DEFINE ulid == IF proc[p].token = NoUlid THEN minted + 1 ELSE proc[p].token
               r == [Idle EXCEPT !.ulid = ulid, !.pc = AfterBlob(proc[p].op)]
    <2>1. UNCHANGED <<there, majors, versions, head, acked, firsts>>
      BY <1>3 DEF WriteBlob
    <2>2. CASE Done(p)
      BY <1>0, <2>1, <2>2, DoneAside
    <2>3. CASE proc' = [proc EXCEPT ![p] = r]
      <3>1. AfterBlob(proc[p].op) \in {"first", "read_link", "no_version", "idle"}
        BY DEF AfterBlob
      <3>2. r.pc = AfterBlob(proc[p].op)
        BY DEF Idle
      <3> HIDE DEF r
      <3>3. r.pc \notin {"reserve", "rename", "symlink", "removing"}
        BY <3>1, <3>2
      <3> QED BY <1>0, <2>1, <2>3, <3>3, TurnAside
    <2> QED BY <1>3, <2>2, <2>3 DEF WriteBlob
  <1>4. CASE MakeDirectory(p) \/ NoBlobsDir(p) \/ NoVersion(p) \/ Stop(p)
    <2>1. Done(p) /\ (there => there') /\ UNCHANGED <<majors, versions, head, acked, firsts>>
      BY <1>4 DEF MakeDirectory, NoBlobsDir, NoVersion, Stop
    <2> QED BY <1>0, <2>1, DoneAside
  <1> QED BY <1>1, <1>2, <1>3, <1>4

\* Going for the first version keeps the parts.
LEMMA MakeFirstKeeps ==
    ASSUME TypesOK, Parts, NEW p \in Process, MakeFirst(p)
    PROVE  Parts'
  <1>1. /\ \A q \in Process \ {p} : proc'[q] = proc[q]
        /\ proc'[p].pc = "rename" /\ proc'[p].major = 1
    BY DEF TypesOK, FileTypeOK, ProcessesOK, ProcessState, MakeFirst, AfterDirectory,
           MAJOR_VERSION_1
  <1>2. /\ there' /\ firsts' = firsts + 1 /\ firsts \in Nat
        /\ majors' = majors \cup {1}
        /\ UNCHANGED <<versions, head, acked>>
    BY DEF MakeFirst, MAJOR_VERSION_1, TypesOK, FileTypeOK, CountsOK
  <1> USE <1>1, <1>2 DEF MAJOR_VERSION_1
  <1>3. NothingRemoved'
    BY DEF Parts, NothingRemoved
  <1>4. HeadIsFirst'
    BY DEF Parts, HeadIsFirst, Publishing
  <1>5. ReservationsApart'
    BY DEF Parts, ReservationsApart, IsReserved
  <1>6. LinksInPlace'
    BY DEF Parts, LinksInPlace
  <1>7. FirstIsOwn'
    BY DEF Parts, FirstIsOwn, HeadIsFirst, Publishing
  <1> QED BY <1>3, <1>4, <1>5, <1>6, <1>7 DEF Parts

\* So does reading the head.
LEMMA ReadLinkKeeps ==
    ASSUME TypesOK, Parts, NEW p \in Process, ReadLink(p)
    PROVE  Parts'
  <1>1. /\ \A q \in Process \ {p} : proc'[q] = proc[q]
        /\ proc'[p].pc = IF head = 0 THEN "first" ELSE "reserve"
        /\ proc'[p].major = head /\ proc'[p].tries = 1
    BY DEF TypesOK, FileTypeOK, ProcessesOK, ProcessState, ReadLink
  <1>2. UNCHANGED <<there, majors, versions, head, acked, firsts>>
    BY DEF ReadLink, files, aux
  <1> USE <1>1, <1>2 DEF MAJOR_VERSION_1
  <1>3. NothingRemoved'
    BY DEF Parts, NothingRemoved
  <1>4. HeadIsFirst'
    BY DEF Parts, HeadIsFirst, Publishing
  <1>5. ReservationsApart'
    BY DEF Parts, ReservationsApart
  <1>6. LinksInPlace'
    BY DEF Parts, LinksInPlace
  <1>7. FirstIsOwn'
    BY DEF Parts, FirstIsOwn, Publishing
  <1> QED BY <1>3, <1>4, <1>5, <1>6, <1>7 DEF Parts


\* So does a round of the loop: the directory it makes was not there, so it is
\* no other handler's.
LEMMA ReserveKeeps ==
    ASSUME TypesOK, Parts, NEW p \in Process, Reserve(p)
    PROVE  Parts'
  <1>0. /\ ProcessesOK
        /\ proc[p] \in ProcessState /\ proc[p].pc = "reserve"
        /\ proc[p].major = proc[p].tries
        /\ proc[p].tries \in 1 .. MAX_TRIES
        /\ head # 0
        /\ DOMAIN versions \subseteq majors
    BY DEF TypesOK, FileTypeOK, ProcessesOK, HandlersOK, VersionsOK, Reserve, At, Parts, HeadIsFirst
  <1>1. UNCHANGED <<there, versions, head, acked, firsts>>
    BY DEF Reserve, aux
  <1> DEFINE m == proc[p].major + 1
  <1>2. m \in 2 .. MAX_TRIES + 1 /\ (m <= MAX_TRIES \/ m = LAST_TRIED)
    BY <1>0, FileAssumption DEF LAST_TRIED, MAJOR_VERSION_1
  <1>3. CASE Done(p) /\ majors' = majors
    BY <1>0, <1>1, <1>3, DoneAside, AsideKeeps
  <1>4. CASE Done(p) /\ majors' = majors \cup {m}
    <2>1. /\ \A q \in Process \ {p} : proc'[q] = proc[q]
          /\ proc'[p].pc = "idle"
      BY <1>0, <1>4, IdleType DEF Done, ProcessesOK
    <2> HIDE DEF m
    <2>2. NothingRemoved'
      BY <2>1 DEF Parts, NothingRemoved
    <2>3. HeadIsFirst'
      BY <1>1, <2>1 DEF Parts, HeadIsFirst, Publishing
    <2>4. ReservationsApart'
      BY <1>1, <1>4, <2>1 DEF Parts, ReservationsApart
    <2>5. LinksInPlace' /\ FirstIsOwn'
      BY <1>1, <2>1 DEF Parts, LinksInPlace, FirstIsOwn, Publishing
    <2> QED BY <2>2, <2>3, <2>4, <2>5 DEF Parts
  <1>5. CASE /\ m \notin majors /\ majors' = majors \cup {m}
             /\ proc' = [proc EXCEPT ![p].major = m, ![p].pc = AfterDirectory]
    <2>1. /\ \A q \in Process \ {p} : proc'[q] = proc[q]
          /\ proc'[p].pc = "rename" /\ proc'[p].major = m
      BY <1>0, <1>5 DEF ProcessesOK, ProcessState, AfterDirectory
    <2> HIDE DEF m
    <2>2. NothingRemoved'
      BY <2>1 DEF Parts, NothingRemoved
    <2>3. HeadIsFirst'
      BY <1>0, <1>1, <1>2, <2>1 DEF Parts, HeadIsFirst, Publishing, MAJOR_VERSION_1
    <2>4. ReservationsApart'
      <3>1. m \in majors' \ DOMAIN versions'
        BY <1>0, <1>1, <1>5
      <3>2. \A q \in Process \ {p} : proc[q].pc = "rename" /\ IsReserved(m) => proc[q].major # m
        BY <1>5 DEF Parts, ReservationsApart
      <3>3. ASSUME NEW q \in Process \ {p}, proc[q].pc = "rename", IsReserved(proc[q].major)
            PROVE  /\ proc[q].major \in majors' \ DOMAIN versions' /\ proc[q].major # m
                   /\ \A s \in Process \ {q} : proc[s].pc = "rename" => proc[s].major # proc[q].major
        BY <1>1, <1>5, <3>3 DEF Parts, ReservationsApart
      <3> QED BY <2>1, <3>1, <3>2, <3>3 DEF ReservationsApart
    <2>5. LinksInPlace'
      BY <1>1, <2>1 DEF Parts, LinksInPlace
    <2>6. FirstIsOwn'
      BY <1>1, <1>2, <2>1 DEF Parts, FirstIsOwn, Publishing, MAJOR_VERSION_1
    <2> QED BY <2>2, <2>3, <2>4, <2>5, <2>6 DEF Parts
  <1>6. CASE Taken(p, proc[p])
    <2>1. /\ \A q \in Process \ {p} : proc'[q] = proc[q]
          /\ proc'[p].pc = IF proc[p].tries + 1 <= MAX_TRIES THEN "reserve" ELSE "rename"
          /\ proc'[p].major = m /\ proc'[p].tries = proc[p].tries + 1
      BY <1>0, <1>6 DEF ProcessesOK, ProcessState, AfterDirectory, Taken
    <2>2. \/ proc'[p].pc = "reserve" /\ proc'[p].major = proc'[p].tries
          \/ proc'[p].pc = "rename" /\ proc'[p].major = LAST_TRIED
      BY <1>0, <1>2, <2>1
    <2>3. proc'[p].major # 1 /\ majors' = majors
      BY <1>2, <1>6, <2>1 DEF Taken
    <2> HIDE DEF m
    <2>4. NothingRemoved'
      BY <2>1, <2>2 DEF Parts, NothingRemoved
    <2>5. HeadIsFirst'
      BY <1>0, <1>1, <2>1, <2>2, <2>3 DEF Parts, HeadIsFirst, Publishing, MAJOR_VERSION_1
    <2>6. ReservationsApart'
      BY <1>1, <2>1, <2>2, <2>3 DEF Parts, ReservationsApart, IsReserved
    <2>7. LinksInPlace'
      BY <1>1, <2>1, <2>2 DEF Parts, LinksInPlace
    <2>8. FirstIsOwn'
      BY <1>1, <2>1, <2>2, <2>3 DEF Parts, FirstIsOwn, Publishing, MAJOR_VERSION_1
    <2> QED BY <2>4, <2>5, <2>6, <2>7, <2>8 DEF Parts
  <1> QED BY <1>3, <1>4, <1>5, <1>6 DEF Reserve, Reserved, Gone, IsFree

\* So does putting a version in place.
LEMMA PublishKeeps ==
    ASSUME TypesOK, Parts, NEW p \in Process, Publish(p)
    PROVE  Parts'
  <1> DEFINE m == proc[p].major
             bytes == blobs[proc[p].ulid]
  <1>0. ProcessesOK /\ proc[p].pc = "rename"
    BY DEF TypesOK, FileTypeOK, Publish, At
  <1>1. UNCHANGED <<there, majors, head, acked, firsts>>
    BY DEF Publish, aux
  <1>2. CASE Done(p) /\ versions' = versions
    BY <1>0, <1>1, <1>2, DoneAside, AsideKeeps
  <1>3. CASE /\ versions' = Put(versions, m, bytes)
             /\ proc' = [proc EXCEPT ![p] = [Idle EXCEPT !.major = m, !.data = bytes,
                                                         !.pc = "symlink"]]
    <2>1. /\ \A q \in Process \ {p} : proc'[q] = proc[q]
          /\ proc'[p].pc = "symlink" /\ proc'[p].major = m /\ proc'[p].data = bytes
      BY <1>0, <1>3 DEF ProcessesOK, Idle
    <2> HIDE DEF bytes
    <2>2. /\ DOMAIN versions' = DOMAIN versions \cup {m}
          /\ versions'[m] = bytes
          /\ \A n \in DOMAIN versions \ {m} : versions'[n] = versions[n]
      BY <1>3 DEF Put
    <2>3. NothingRemoved'
      BY <2>1 DEF Parts, NothingRemoved
    <2>4. HeadIsFirst'
      BY <1>0, <1>1, <2>1 DEF Parts, HeadIsFirst, Publishing
    <2>5. ReservationsApart'
      BY <1>0, <1>1, <2>1, <2>2 DEF Parts, ReservationsApart
    <2>6. LinksInPlace'
      BY <1>1, <2>1, <2>2 DEF Parts, LinksInPlace
    <2>7. FirstIsOwn'
      <3>1. acked # {} /\ firsts = 1 => m # 1 /\ 1 \in DOMAIN versions /\ versions'[1] = versions[1]
        BY <1>0, <2>2 DEF Parts, FirstIsOwn, LinksInPlace, MAJOR_VERSION_1
      <3>2. ASSUME firsts = 1, NEW q \in Process, proc'[q].pc = "symlink", proc'[q].major = 1
            PROVE  versions'[1] = proc'[q].data
        <4>1. CASE q = p
          BY <2>1, <2>2, <3>2, <4>1
        <4>2. CASE q # p
          <5>1. proc[q].pc = "symlink" /\ proc[q].major = 1 /\ proc'[q] = proc[q]
            BY <2>1, <3>2, <4>2
          <5>2. m # 1
            BY <1>0, <3>2, <4>2, <5>1 DEF Parts, FirstIsOwn, Publishing, MAJOR_VERSION_1
          <5>3. 1 \in DOMAIN versions /\ versions[1] = proc[q].data
            BY <3>2, <5>1 DEF Parts, FirstIsOwn, LinksInPlace, MAJOR_VERSION_1
          <5> QED BY <2>2, <5>1, <5>2, <5>3
        <4> QED BY <4>1, <4>2
      <3>3. ASSUME firsts = 1, NEW q \in Process, NEW s \in Process,
                   proc'[q].pc \in Publishing, proc'[q].major = 1,
                   proc'[s].pc \in Publishing, proc'[s].major = 1
            PROVE  q = s
        <4>1. \A x \in Process : proc'[x].pc \in Publishing /\ proc'[x].major = 1
                                 => proc[x].pc \in Publishing /\ proc[x].major = 1
          BY <1>0, <2>1 DEF Publishing
        <4> QED BY <3>3, <4>1 DEF Parts, FirstIsOwn, MAJOR_VERSION_1
      <3> QED BY <1>1, <2>1, <3>1, <3>2, <3>3 DEF Parts, FirstIsOwn, MAJOR_VERSION_1
    <2> QED BY <2>3, <2>4, <2>5, <2>6, <2>7 DEF Parts
  <1> QED BY <1>2, <1>3 DEF Publish

\* So does linking to it.
LEMMA LinkHeadKeeps ==
    ASSUME TypesOK, Parts, NEW p \in Process, LinkHead(p)
    PROVE  Parts'
  <1>0. ProcessesOK /\ proc[p].pc = "symlink" /\ Done(p)
    BY DEF TypesOK, FileTypeOK, LinkHead, At
  <1>1. UNCHANGED <<there, majors, versions, firsts>>
    BY DEF LinkHead
  <1>2. CASE UNCHANGED <<head, acked>>
    BY <1>0, <1>1, <1>2, DoneAside, AsideKeeps
  <1>3. CASE there /\ head = 0 /\ head' = proc[p].major /\ acked' = {proc[p].data}
    <2>1. /\ \A q \in Process \ {p} : proc'[q] = proc[q]
          /\ proc'[p].pc = "idle"
      BY <1>0, IdleType DEF ProcessesOK, Done
    <2>2. /\ proc[p].major = 1 /\ firsts >= 1
          /\ 1 \in DOMAIN versions
      BY <1>0, <1>3 DEF Parts, HeadIsFirst, LinksInPlace, Publishing, MAJOR_VERSION_1
    <2>3. NothingRemoved'
      BY <2>1 DEF Parts, NothingRemoved
    <2>4. HeadIsFirst'
      BY <1>1, <1>3, <2>1, <2>2 DEF Parts, HeadIsFirst, Publishing, MAJOR_VERSION_1
    <2>5. ReservationsApart'
      BY <1>1, <2>1 DEF Parts, ReservationsApart
    <2>6. LinksInPlace'
      BY <1>1, <1>3, <2>1, <2>2 DEF Parts, LinksInPlace
    <2>7. FirstIsOwn'
      <3>1. \A q \in Process : proc'[q].pc \in Publishing => q # p /\ proc'[q] = proc[q]
        BY <2>1 DEF Publishing
      <3>2. firsts = 1 => versions[1] = proc[p].data
        BY <1>0, <2>2 DEF Parts, FirstIsOwn, MAJOR_VERSION_1
      <3>3. firsts = 1 => \A q \in Process : proc'[q].pc = "rename" => proc'[q].major # 1
        BY <1>0, <2>2, <3>1 DEF Parts, FirstIsOwn, Publishing, MAJOR_VERSION_1
      <3>4. firsts # 0
        BY <2>2
      <3> QED BY <1>1, <1>3, <2>1, <2>2, <3>1, <3>2, <3>3, <3>4
              DEF Parts, FirstIsOwn, Publishing, MAJOR_VERSION_1
    <2> QED BY <2>3, <2>4, <2>5, <2>6, <2>7 DEF Parts
  <1> QED BY <1>2, <1>3 DEF LinkHead


-----------------------------------------------------------------------------
(***************************************************************************)
(* The theorems.                                                           *)
(***************************************************************************)
LEMMA InitIInv == Init => IInv
  <1> SUFFICES ASSUME Init PROVE IInv
    OBVIOUS
  <1>1. /\ \A p \in Process : proc[p].pc = "idle"
        /\ head = 0 /\ acked = {} /\ firsts = 0
    BY IdleType DEF Init
  <1>2. NothingRemoved /\ HeadIsFirst /\ ReservationsApart /\ LinksInPlace /\ FirstIsOwn
    BY <1>1 DEF NothingRemoved, HeadIsFirst, ReservationsApart, LinksInPlace, FirstIsOwn, Publishing
  <1> QED BY <1>2, InitTypes DEF IInv, TypesOK

\* Before the first delete nobody starts one, and nobody is in one.
LEMMA BeforeDelete ==
    ASSUME IInv, [Next]_vars, deletes' = 0
    PROVE  /\ deletes = 0 /\ TypesOK /\ Parts
           /\ \A p \in Process : ~StartDelete(p) /\ ~RemoveEntry(p) /\ ~FinishDelete(p)
  <1>1. deletes \in Nat
    BY DEF IInv, FileTypeOK, CountsOK
  <1>2. ASSUME NEW p \in Process, StartDelete(p) PROVE FALSE
    BY <1>1, <1>2 DEF StartDelete
  <1>3. deletes = 0
    BY <1>2 DEF Next, vars, aux, Start, MakeDirectory, CreateBlobsDir, WriteBlob, NoBlobsDir,
                NoVersion, MakeFirst, ReadLink, Reserve, Publish, LinkHead, RemoveEntry,
                FinishDelete, Stop, Quiet
  <1>4. TypesOK /\ Parts
    BY <1>3 DEF IInv, TypesOK, Parts
  <1>5. \A p \in Process : ~RemoveEntry(p) /\ ~FinishDelete(p)
    BY <1>4 DEF Parts, NothingRemoved, RemoveEntry, FinishDelete, At
  <1> QED BY <1>2, <1>3, <1>4, <1>5

LEMMA NextParts ==
    ASSUME IInv, [Next]_vars, deletes' = 0
    PROVE  Parts'
  <1>0. TypesOK /\ Parts /\ \A p \in Process : ~StartDelete(p) /\ ~RemoveEntry(p) /\ ~FinishDelete(p)
    BY BeforeDelete
  <1>1. ASSUME NEW p \in Process,
               \/ Start(p) \/ MakeDirectory(p) \/ CreateBlobsDir(p) \/ WriteBlob(p)
               \/ NoBlobsDir(p) \/ NoVersion(p) \/ Stop(p)
        PROVE  Parts'
    BY <1>0, <1>1, EarlySteps, AsideKeeps
  <1>2. ASSUME NEW p \in Process,
               MakeFirst(p) \/ ReadLink(p) \/ Reserve(p) \/ Publish(p) \/ LinkHead(p)
        PROVE  Parts'
    BY <1>0, <1>2, MakeFirstKeeps, ReadLinkKeeps, ReserveKeeps, PublishKeeps, LinkHeadKeeps
  <1>3. ASSUME UNCHANGED vars PROVE Parts'
    BY <1>0, <1>3 DEF vars, files, aux, Parts, NothingRemoved, HeadIsFirst, ReservationsApart,
                      LinksInPlace, FirstIsOwn
  <1> QED BY <1>0, <1>1, <1>2, <1>3 DEF Next, Quiet

LEMMA NextIInv == IInv /\ [Next]_vars => IInv'
  <1> SUFFICES ASSUME IInv, [Next]_vars PROVE IInv'
    OBVIOUS
  <1>1. TypesOK'
    BY NextTypes DEF IInv, TypesOK
  <1>2. deletes' = 0 => Parts'
    BY NextParts
  <1> QED BY <1>1, <1>2 DEF IInv, TypesOK, Parts

LEMMA Inductive == Spec => []IInv
  BY InitIInv, NextIInv, PTL DEF Spec

\* As long as nobody deletes the object, its head leads to a version that is
\* in place (symlink after rename).
THEOREM HeadStaysInPlace == Spec => []HeadIsInPlace
  <1>1. IInv => HeadIsInPlace
    BY DEF IInv, LinksInPlace, HeadIsInPlace
  <1> QED BY <1>1, Inductive, PTL

\* As long as nobody deletes the object and one upload went for the first
\* version, what an acknowledged upload sent is what a download returns.
THEOREM AcknowledgedStays == Spec => []AcknowledgedIsRead
  <1>1. IInv => AcknowledgedIsRead
    BY DEF IInv, LinksInPlace, FirstIsOwn, AcknowledgedIsRead, Download, ListsAsFolder,
           MAJOR_VERSION_1
  <1> QED BY <1>1, Inductive, PTL

\* As long as nobody deletes the object, a version whose directory was reserved
\* stays as it was written (upload: create_dir, then rename).
THEOREM VersionsStay == Spec => VersionsStayWritten
  <1> DEFINE Stays == deletes' = 0 =>
                        \A m \in DOMAIN versions \ {MAJOR_VERSION_1, LAST_TRIED} :
                            m \in DOMAIN versions' /\ versions'[m] = versions[m]
  <1>1. IInv /\ [Next]_vars => [Stays]_vars
    <2> SUFFICES ASSUME IInv, [Next]_vars, deletes' = 0,
                        NEW m \in DOMAIN versions \ {MAJOR_VERSION_1, LAST_TRIED}
                 PROVE  m \in DOMAIN versions' /\ versions'[m] = versions[m]
      OBVIOUS
    <2>1. /\ TypesOK /\ Parts
          /\ \A p \in Process : ~StartDelete(p) /\ ~RemoveEntry(p) /\ ~FinishDelete(p)
      BY BeforeDelete
    <2>2. ASSUME NEW p \in Process, Publish(p) PROVE m \in DOMAIN versions' /\ versions'[m] = versions[m]
      <3>1. proc[p].major # m
        BY <2>1, <2>2 DEF Publish, At, Parts, ReservationsApart, IsReserved
      <3>2. versions' = versions \/ versions' = Put(versions, proc[p].major, blobs[proc[p].ulid])
        BY <2>2 DEF Publish
      <3> QED BY <3>1, <3>2 DEF Put
    <2>3. (\A p \in Process : ~Publish(p)) => versions' = versions
      BY <2>1 DEF Next, vars, files, Start, MakeDirectory, CreateBlobsDir, WriteBlob, NoBlobsDir,
                  NoVersion, MakeFirst, ReadLink, Reserve, LinkHead, Stop, Quiet
    <2> QED BY <2>2, <2>3
  <1> QED BY <1>1, Inductive, PTL DEF Spec, VersionsStayWritten

=============================================================================
