------------------------ MODULE DatabaseStorageProofs ------------------------
(***************************************************************************)
(* Proofs about DatabaseStorage.                                           *)
(***************************************************************************)
EXTENDS DatabaseStorage, TLAPS

-----------------------------------------------------------------------------
(***************************************************************************)
(* Tables.                                                                 *)
(***************************************************************************)
\* The id after the last one still fits an id while there is room.
LEMMA NextIdFits ==
    ASSUME seq \in 0 .. MaxSeq
    PROVE  seq + 1 \in FileSystemId
  <1> DEFINE ids == Radix * Radix
  <1>1. ids \in Int
    BY RadixAssumption
  <1>2. MaxSeq \in Nat /\ MaxSeq + 1 \in 0 .. ids - 1
    BY BoundAssumption DEF FileSystemId
  <1>3. seq + 1 \in 0 .. ids - 1
    <2> HIDE DEF ids
    <2> QED BY <1>1, <1>2
  <1> QED BY <1>3 DEF FileSystemId

\* An id that is handed out while there is room can be stored in a record.
LEMMA NextIdInRoom ==
    ASSUME seq \in 0 .. MaxSeq, HasRoom
    PROVE  NextId \in FileSystemId /\ NextId \in 0 .. MaxSeq
  <1>1. NextId \in FileSystemId
    BY NextIdFits DEF NextId
  <1>2. NextId \in 0 .. MaxSeq
    BY BoundAssumption DEF NextId, HasRoom
  <1> QED BY <1>1, <1>2

\* Keys are well typed when the walk found a folder.
LEMMA MakeKeyType ==
    ASSUME NEW parent \in FileSystemId, NEW name \in Name
    PROVE  MakeKey(parent, name) \in FsRecordKey
  BY NameAssumption DEF MakeKey, FsRecordKey

\* A trimmed name is a name.
LEMMA TrimmedType == ASSUME NEW name \in Name PROVE Trimmed[name] \in Name
  BY NameAssumption

\* A new row keeps FS_TABLE well typed.
LEMMA FsInsertType ==
    ASSUME FsTypeOK, NEW key \in FsRecordKey, NEW record \in FsRecordValue,
           fs' = Insert(fs, key, record)
    PROVE  FsTypeOK'
  BY DEF Insert, FsTypeOK, IsTable

\* So does the removal of one.
LEMMA FsRemoveType ==
    ASSUME FsTypeOK, NEW key, fs' = Remove(fs, key)
    PROVE  FsTypeOK'
  BY DEF Remove, FsTypeOK, IsTable

\* A new row keeps VER_TABLE well typed.
LEMMA VerInsertType ==
    ASSUME VerTypeOK, NEW key \in VersionRecordKey, NEW ulid \in Ulid,
           ver' = Insert(ver, key, ulid)
    PROVE  VerTypeOK'
  BY DEF Insert, VerTypeOK, IsTable

\* A handler that leaves the tables alone keeps them well typed.
LEMMA TablesUnchanged ==
    ASSUME FsTypeOK, VerTypeOK, seq \in 0 .. MaxSeq, UNCHANGED tables
    PROVE  FsTypeOK' /\ VerTypeOK' /\ (seq \in 0 .. MaxSeq)'
  BY DEF tables, FsTypeOK, VerTypeOK, IsTable

-----------------------------------------------------------------------------
(***************************************************************************)
(* Type correctness.                                                       *)
(***************************************************************************)
\* The state that DatabaseStorage::new leaves is well typed.
LEMMA InitType == Init => TypeOK
  BY BoundAssumption
     DEF Init, TypeOK, FsTypeOK, VerTypeOK, IsTable, EmptyTable, Reply, Outcome

\* Every handler keeps the state well typed.
LEMMA NextType == TypeOK /\ [Next]_vars => TypeOK'
  <1> SUFFICES ASSUME TypeOK, [Next]_vars PROVE TypeOK'
    OBVIOUS
  <1> USE DEF Reply, Outcome, Operation, UploadOp
  <1>1. CASE UNCHANGED vars
    BY <1>1 DEF vars, TypeOK, FsTypeOK, VerTypeOK, IsTable
  <1>2. ASSUME NEW op \in Operation, Refuse(op) PROVE TypeOK'
    BY <1>2, TablesUnchanged DEF Refuse, tables, files, TypeOK
  <1>3. ASSUME NEW dir \in Dir, NEW name \in Name, MakeDirectory(dir, name)
        PROVE  TypeOK'
    <2> DEFINE key == MakeKey(DescendPath(fs, dir, AsSent), Trimmed[name])
               record == [ id |-> seq + 1, type |-> FOLDER, latest_version |-> 1,
                           blob_ulid |-> NoUlid, name |-> Trimmed[name] ]
    <2>1. CASE Refuse("make_directory")
      BY <2>1, <1>2
    <2>2. CASE /\ DescendPath(fs, dir, AsSent) \in FileSystemId
               /\ fs' = Insert(fs, key, record)
               /\ reply' = Reply("make_directory", "ok")
               /\ UNCHANGED <<seq, ver, files>>
      <3>1. key \in FsRecordKey /\ record \in FsRecordValue
        BY <2>2, MakeKeyType, TrimmedType, NextIdFits DEF TypeOK, FsRecordValue, ObjType
      <3>2. FsTypeOK'
        BY <2>2, <3>1, FsInsertType DEF TypeOK
      <3> QED BY <2>2, <3>2 DEF TypeOK, VerTypeOK, IsTable, files
    <2> QED BY <1>3, <2>1, <2>2 DEF MakeDirectory
  <1>4. ASSUME NEW dir \in Dir, NEW name \in Name, NEW continuation \in Continuation,
               UploadPart(dir, name, continuation)
        PROVE  TypeOK'
    BY <1>4, TablesUnchanged DEF UploadPart, WriteBlob, tables, TypeOK
  <1>5. ASSUME NEW dir \in Dir, NEW name \in Name, NEW continuation \in Continuation,
               NEW next \in BOOLEAN, UploadRefused(dir, name, next, continuation)
        PROVE  TypeOK'
    BY <1>5, TablesUnchanged DEF UploadRefused, WriteBlob, tables, TypeOK
  <1>6. ASSUME NEW dir \in Dir, NEW name \in Name, NEW continuation \in Continuation,
               NEW next \in BOOLEAN, Upload(dir, name, next, continuation)
        PROVE  TypeOK'
    <2>1. PICK ulid \in Ulid, saved \in Ulid :
            /\ UploadFits(dir, name)
            /\ HasRoom
            /\ \/ continuation = {} /\ saved = ulid /\ WriteBlob(ulid)
               \/ continuation # {} /\ SealBlob(ulid, saved)
            /\ CommitFile(dir, name, ulid, saved)
            /\ reply' = Reply(UploadOp(next), "ok")
            /\ UNCHANGED tokens
      BY <1>6 DEF Upload
    <2> DEFINE record == [ id |-> NextId, type |-> VERSION_BLOB, latest_version |-> 1,
                           blob_ulid |-> ulid, name |-> Trimmed[name] ]
    <2>2. NextId \in FileSystemId /\ NextId \in 0 .. MaxSeq
      BY <2>1, NextIdInRoom DEF TypeOK
    <2>3. UploadKey(dir, name) \in FsRecordKey /\ record \in FsRecordValue
      BY <2>1, <2>2, MakeKeyType, TrimmedType DEF UploadFits, UploadKey, FsRecordValue, ObjType
    <2>4. FsTypeOK'
      BY <2>1, <2>3, FsInsertType DEF TypeOK, CommitFile, FileRecord
    <2>5. VerTypeOK'
      <3>1. <<NextId, 1>> \in VersionRecordKey
        BY <2>2 DEF VersionRecordKey
      <3> QED BY <2>1, <3>1, VerInsertType DEF TypeOK, CommitFile, FirstVersion
    <2>6. (seq \in 0 .. MaxSeq)'
      BY <2>1, <2>2 DEF CommitFile
    <2>7. (blobs \subseteq minted /\ minted \subseteq Ulid /\ tokens \subseteq minted)'
      BY <2>1 DEF TypeOK, WriteBlob, SealBlob
    <2> QED BY <2>1, <2>4, <2>5, <2>6, <2>7 DEF TypeOK
  <1>7. ASSUME NEW dir \in Dir, NEW name \in Name, NEW continuation \in Continuation,
               UploadAbandoned(dir, name, continuation)
        PROVE  TypeOK'
    <2>1. (blobs \subseteq minted /\ minted \subseteq Ulid /\ tokens \subseteq minted)'
      BY <1>7 DEF UploadAbandoned, WriteBlob, SealBlob, TypeOK
    <2> QED BY <1>7, <2>1, TablesUnchanged DEF UploadAbandoned, tables, TypeOK
  <1>8. ASSUME NEW dir \in Dir, NEW name \in Name, NEW version,
               AppendData(dir, name, version) \/ Download(dir, name, version) \/ List(dir)
        PROVE  TypeOK'
    BY <1>8, TablesUnchanged DEF AppendData, Download, List, tables, files, TypeOK
  <1>9. ASSUME NEW dir \in Dir, NEW name \in Name, NEW version \in Requested,
               DeleteEntry(dir, name, version)
        PROVE  TypeOK'
    <2>1. FsTypeOK'
      BY <1>9, FsRemoveType DEF DeleteEntry, TypeOK
    <2> QED BY <1>9, <2>1 DEF DeleteEntry, TypeOK, VerTypeOK, IsTable, files
  <1>10. ASSUME NEW dir \in Dir, NEW name \in Name, NEW version \in Requested,
                \/ DeleteRefused(dir, name, version)
                \/ DeleteFile(dir, name, version)
                \/ DeleteAbandoned(dir, name, version)
         PROVE  TypeOK'
    BY <1>2, <1>10, TablesUnchanged
       DEF DeleteRefused, DeleteFile, DeleteAbandoned, RemoveBlobs, tables, TypeOK
  <1>11. ASSUME NEW dir \in Dir, NEW name \in Name, NEW version \in Requested,
                NEW toDir \in Dir, NEW toName \in Name,
                Move(dir, name, version, toDir, toName)
         PROVE  TypeOK'
    <2> DEFINE source == TargetKey(dir, name)
               dest == TargetKey(toDir, toName)
               moved == [fs[source] EXCEPT !.name = toName]
    <2>1. CASE Refuse("move")
      BY <2>1, <1>2
    <2>2. CASE /\ IsPresent(dir, name)
               /\ DescendPath(fs, toDir, Nfkd) \in FileSystemId
               /\ fs' = Insert(Remove(fs, source), dest, moved)
               /\ reply' = Reply("move", "ok")
               /\ UNCHANGED <<seq, ver, files>>
      <3>1. dest \in FsRecordKey
        BY <2>2, MakeKeyType DEF TargetKey
      <3>2. moved \in FsRecordValue
        BY <2>2 DEF IsPresent, TypeOK, FsTypeOK, FsRecordValue
      <3>3. FsTypeOK'
        <4> HIDE DEF dest, moved, source
        <4> QED BY <2>2, <3>1, <3>2 DEF TypeOK, FsTypeOK, IsTable, Insert, Remove
      <3> QED BY <2>2, <3>3 DEF TypeOK, VerTypeOK, IsTable, files
    <2> QED BY <1>11, <2>1, <2>2 DEF Move, Moved
  <1>12. ASSUME NEW dir \in Dir, NEW name \in Name, NEW toDir \in Dir, NEW toName \in Name,
                Copy(dir, name, toDir, toName)
         PROVE  TypeOK'
    <2> DEFINE dest == TargetKey(toDir, toName)
    <2>1. CASE Refuse("copy")
      BY <2>1, <1>2
    <2>2. ASSUME NEW ulid \in Ulid \ minted,
                 DescendPath(fs, toDir, Nfkd) \in FileSystemId,
                 HasRoom,
                 minted' = minted \cup {ulid},
                 fs' = Insert(fs, dest, [ id |-> NextId, type |-> NORMAL_BLOB,
                                          latest_version |-> 1, blob_ulid |-> ulid,
                                          name |-> toName ]),
                 seq' = NextId,
                 reply' = Reply("copy", "ok"),
                 UNCHANGED <<ver, blobs, tokens>>
          PROVE  TypeOK'
      <3> DEFINE record == [ id |-> NextId, type |-> NORMAL_BLOB, latest_version |-> 1,
                             blob_ulid |-> ulid, name |-> toName ]
      <3>1. NextId \in FileSystemId /\ NextId \in 0 .. MaxSeq
        BY <2>2, NextIdInRoom DEF TypeOK
      <3>2. dest \in FsRecordKey /\ record \in FsRecordValue
        BY <2>2, <3>1, MakeKeyType DEF TargetKey, FsRecordValue, ObjType
      <3>3. FsTypeOK'
        BY <2>2, <3>2, FsInsertType DEF TypeOK
      <3> QED BY <2>2, <3>1, <3>3 DEF TypeOK, VerTypeOK, IsTable
    <2> QED BY <1>12, <2>1, <2>2 DEF Copy, CopyRecord
  <1>13. ASSUME NEW dir \in Dir, NEW name \in Name PROVE UploadRequest(dir, name) => TypeOK'
    BY <1>4, <1>5, <1>6, <1>7 DEF UploadRequest
  <1>14. ASSUME NEW dir \in Dir, NEW name \in Name PROVE ReadRequest(dir, name) => TypeOK'
    BY <1>8 DEF ReadRequest
  <1>15. ASSUME NEW dir \in Dir, NEW name \in Name PROVE DeleteRequest(dir, name) => TypeOK'
    BY <1>9, <1>10 DEF DeleteRequest
  <1>16. ASSUME NEW dir \in Dir, NEW name \in Name PROVE TransferRequest(dir, name) => TypeOK'
    BY <1>11, <1>12 DEF TransferRequest
  <1>17. ASSUME Next PROVE TypeOK'
    BY <1>3, <1>13, <1>14, <1>15, <1>16, <1>17 DEF Next
  <1> QED BY <1>1, <1>17

\* Every reachable state is well typed.
THEOREM TypeCorrect == Spec => []TypeOK
  BY InitType, NextType, PTL DEF Spec

-----------------------------------------------------------------------------
(***************************************************************************)
(* The inductive invariant.  The first lemmas say what each kind of change *)
(* to the tables and to the blob files preserves.                          *)
(***************************************************************************)
USE DEF IsFile, IsVersioned

\* A folder, or the copy of a file, that takes a free key and, if it is no
\* folder, the next id of the sequence.
LEMMA NewUnversioned ==
    ASSUME TypeOK, RecordsOK, NEW key \in FsRecordKey, NEW record \in FsRecordValue,
           key \notin DOMAIN fs, fs' = Insert(fs, key, record), ver' = ver,
           record.type # VERSION_BLOB,
           \/ record.type = FOLDER /\ seq' = seq
           \/ record.id = seq + 1 /\ seq' = seq + 1
    PROVE  RecordsOK'
  <1> USE DEF RecordsOK, TypeOK, FsTypeOK, FsRecordValue, FileSystemId, Insert
  <1>1. FilesNumbered'
    BY DEF FilesNumbered
  <1>2. FileIdsUnique'
    BY DEF FileIdsUnique, FilesNumbered
  <1>3. LatestVersionPresent'
    BY DEF LatestVersionPresent
  <1>4. VersionsOwned'
    BY DEF VersionsOwned
  <1> QED BY <1>1, <1>2, <1>3, <1>4

\* A record other than that of a versioned file that goes away.
LEMMA GoneUnversioned ==
    ASSUME TypeOK, RecordsOK, NEW key \in DOMAIN fs, fs[key].type # VERSION_BLOB,
           fs' = Remove(fs, key), UNCHANGED <<seq, ver>>
    PROVE  RecordsOK'
  <1> USE DEF RecordsOK, Remove
  <1>1. FilesNumbered'
    BY DEF FilesNumbered
  <1>2. FileIdsUnique'
    BY DEF FileIdsUnique
  <1>3. LatestVersionPresent'
    BY DEF LatestVersionPresent
  <1>4. VersionsOwned'
    BY DEF VersionsOwned
  <1> QED BY <1>1, <1>2, <1>3, <1>4

\* A record that moves to a key that is free, or is its own.
LEMMA MovedRecord ==
    ASSUME TypeOK, RecordsOK, NEW source \in DOMAIN fs, NEW dest, NEW toName,
           dest \notin DOMAIN fs \ {source},
           fs' = Insert(Remove(fs, source), dest, [fs[source] EXCEPT !.name = toName]),
           UNCHANGED <<seq, ver>>
    PROVE  RecordsOK'
  <1> DEFINE moved == [fs[source] EXCEPT !.name = toName]
  <1>1. /\ moved.id = fs[source].id
        /\ moved.type = fs[source].type
        /\ moved.latest_version = fs[source].latest_version
    BY DEF TypeOK, FsTypeOK, FsRecordValue
  <1>2. /\ DOMAIN fs' = (DOMAIN fs \ {source}) \cup {dest}
        /\ fs'[dest] = moved
        /\ \A k \in DOMAIN fs \ {source} : fs'[k] = fs[k]
    BY DEF Insert, Remove
  <1> HIDE DEF moved
  <1> USE <1>1, <1>2 DEF RecordsOK
  <1>3. FilesNumbered'
    BY DEF FilesNumbered
  <1>4. FileIdsUnique'
    BY DEF FileIdsUnique
  <1>5. LatestVersionPresent'
    BY DEF LatestVersionPresent
  <1>6. VersionsOwned'
    <2> SUFFICES ASSUME NEW v \in DOMAIN ver
                 PROVE  \E key \in DOMAIN fs' :
                          /\ IsVersioned(fs'[key])
                          /\ fs'[key].id = v[1]
                          /\ v[2] <= fs'[key].latest_version
      BY DEF VersionsOwned
    <2>1. PICK key \in DOMAIN fs :
            IsVersioned(fs[key]) /\ fs[key].id = v[1] /\ v[2] <= fs[key].latest_version
      BY DEF VersionsOwned
    <2>2. CASE key = source
      BY <2>1, <2>2
    <2>3. CASE key # source
      BY <2>1, <2>3
    <2> QED BY <2>2, <2>3
  <1> QED BY <1>3, <1>4, <1>5, <1>6

\* A new versioned file with its first version.
LEMMA NewFile ==
    ASSUME TypeOK, RecordsOK, NEW key \in FsRecordKey, NEW record \in FsRecordValue,
           key \notin DOMAIN fs, fs' = Insert(fs, key, record),
           record.type = VERSION_BLOB, record.id = seq + 1, record.latest_version = 1,
           NEW saved, seq' = seq + 1, ver' = Insert(ver, <<seq + 1, 1>>, saved)
    PROVE  RecordsOK' /\ <<seq + 1, 1>> \notin DOMAIN ver
  <1> USE DEF RecordsOK, TypeOK, FsTypeOK, VerTypeOK, FsRecordValue, FileSystemId, Insert
  <1>1. FilesNumbered'
    BY DEF FilesNumbered
  <1>2. FileIdsUnique'
    BY DEF FileIdsUnique, FilesNumbered
  <1>3. LatestVersionPresent'
    BY DEF LatestVersionPresent
  <1>4. VersionsOwned'
    BY DEF VersionsOwned
  <1>5. ASSUME <<seq + 1, 1>> \in DOMAIN ver PROVE FALSE
    <2>1. PICK k \in DOMAIN fs : IsVersioned(fs[k]) /\ fs[k].id = <<seq + 1, 1>>[1]
      BY <1>5 DEF VersionsOwned
    <2>2. fs[k].id = seq + 1 /\ fs[k].id <= seq
      BY <2>1 DEF FilesNumbered, FOLDER, VERSION_BLOB
    <2>3. seq \in Int /\ fs[k].id \in Int
      OBVIOUS
    <2> QED BY <2>2, <2>3
  <1> QED BY <1>1, <1>2, <1>3, <1>4, <1>5

\* A change of the blob files alone: the one ULID that may become a token is
\* new or was a token before.
LEMMA SameVersions ==
    ASSUME TypeOK, BlobsOK, NEW ulid, ulid \notin minted \/ ulid \in tokens,
           ver' = ver, minted \subseteq minted', tokens' \subseteq tokens \cup {ulid}
    PROVE  BlobsOK'
  BY DEF BlobsOK, VersionsMinted, BlobsPrivate, TokensSealed

\* A new version whose blob has a name nobody has seen.
LEMMA NewVersion ==
    ASSUME TypeOK, BlobsOK, NEW key, key \notin DOMAIN ver,
           NEW saved, saved \notin minted, ver' = Insert(ver, key, saved),
           minted \cup {saved} \subseteq minted', tokens' = tokens
    PROVE  BlobsOK'
  BY DEF TypeOK, BlobsOK, VersionsMinted, BlobsPrivate, TokensSealed, Insert

\* The tables are what they were.
LEMMA SameRecords ==
    ASSUME RecordsOK, UNCHANGED <<fs, seq, ver>>
    PROVE  RecordsOK'
  BY DEF RecordsOK, FilesNumbered, FileIdsUnique, LatestVersionPresent, VersionsOwned

\* The invariant holds of the empty tables.
LEMMA InitInv == Init => IInv
  BY InitType DEF Init, EmptyTable, IInv, RecordsOK, BlobsOK, FilesNumbered, FileIdsUnique,
                  LatestVersionPresent, VersionsOwned, VersionsMinted, BlobsPrivate, TokensSealed

\* Every handler keeps the invariant, whether it commits, fails or is dropped.
LEMMA NextInv == IInv /\ [Next]_vars => IInv'
  <1> DEFINE Good == RecordsOK' /\ BlobsOK'
  <1> SUFFICES ASSUME IInv, [Next]_vars PROVE Good
    BY NextType DEF IInv
  <1> USE DEF IInv
  <1>1. ASSUME UNCHANGED <<tables, minted, tokens>> PROVE Good
    <2>1. RecordsOK'
      BY <1>1, SameRecords DEF tables
    <2>2. BlobsOK'
      BY <1>1 DEF tables, BlobsOK, VersionsMinted, BlobsPrivate, TokensSealed
    <2> QED BY <2>1, <2>2
  <1>2. ASSUME NEW op, Refuse(op) PROVE Good
    BY <1>1, <1>2 DEF Refuse, tables, files
  <1>3. ASSUME NEW dir \in Dir, NEW name \in Name, MakeDirectory(dir, name)
        PROVE  Good
    <2> DEFINE key == MakeKey(DescendPath(fs, dir, AsSent), Trimmed[name])
               record == [ id |-> seq + 1, type |-> FOLDER, latest_version |-> 1,
                           blob_ulid |-> NoUlid, name |-> Trimmed[name] ]
    <2>1. CASE Refuse("make_directory")
      BY <2>1, <1>2
    <2>2. CASE /\ DescendPath(fs, dir, AsSent) \in FileSystemId
               /\ key \notin DOMAIN fs
               /\ fs' = Insert(fs, key, record)
               /\ UNCHANGED <<seq, ver, files>>
      <3>1. key \in FsRecordKey /\ record \in FsRecordValue
        BY <2>2, MakeKeyType, TrimmedType, NextIdFits DEF TypeOK, FsRecordValue, ObjType
      <3>2. record.type = FOLDER /\ FOLDER # VERSION_BLOB
        BY DEF FOLDER, VERSION_BLOB
      <3>3. RecordsOK'
        <4> HIDE DEF key, record
        <4> QED BY <2>2, <3>1, <3>2, NewUnversioned
      <3>4. BlobsOK'
        BY <2>2 DEF files, BlobsOK, VersionsMinted, BlobsPrivate, TokensSealed
      <3> QED BY <3>3, <3>4
    <2> QED BY <1>3, <2>1, <2>2 DEF MakeDirectory
  <1>4. ASSUME NEW dir \in Dir, NEW name \in Name, NEW continuation \in Continuation,
               UploadPart(dir, name, continuation)
        PROVE  Good
    <2>1. PICK ulid \in Ulid : /\ BlobFor(ulid, continuation)
                               /\ WriteBlob(ulid)
                               /\ tokens' = tokens \cup {ulid}
                               /\ UNCHANGED tables
      BY <1>4 DEF UploadPart
    <2>2. ulid \notin minted \/ ulid \in tokens
      BY <2>1 DEF BlobFor, Continuation
    <2> QED BY <2>1, <2>2, SameRecords, SameVersions DEF WriteBlob, tables
  <1>5. ASSUME NEW dir \in Dir, NEW name \in Name, NEW continuation \in Continuation,
               \/ UploadAbandoned(dir, name, continuation)
               \/ \E next \in BOOLEAN : UploadRefused(dir, name, next, continuation)
        PROVE  Good
    <2>1. UNCHANGED <<tables, tokens>> /\ minted \subseteq minted'
      BY <1>5 DEF UploadAbandoned, UploadRefused, WriteBlob, SealBlob
    <2>2. RecordsOK'
      BY <2>1, SameRecords DEF tables
    <2>3. BlobsOK'
      BY <2>1 DEF tables, BlobsOK, VersionsMinted, BlobsPrivate, TokensSealed
    <2> QED BY <2>2, <2>3
  <1>6. ASSUME NEW dir \in Dir, NEW name \in Name, NEW continuation \in Continuation,
               NEW next \in BOOLEAN, Upload(dir, name, next, continuation)
        PROVE  Good
    <2>1. PICK ulid \in Ulid, saved \in Ulid :
            /\ BlobFor(ulid, continuation)
            /\ UploadFits(dir, name)
            /\ HasRoom
            /\ \/ continuation = {} /\ saved = ulid /\ WriteBlob(ulid)
               \/ continuation # {} /\ SealBlob(ulid, saved)
            /\ CommitFile(dir, name, ulid, saved)
            /\ UNCHANGED tokens
      BY <1>6 DEF Upload
    <2> DEFINE key == UploadKey(dir, name)
               record == [ id |-> seq + 1, type |-> VERSION_BLOB, latest_version |-> 1,
                           blob_ulid |-> ulid, name |-> Trimmed[name] ]
    <2>2. saved \notin minted /\ minted \cup {saved} \subseteq minted'
      BY <2>1 DEF BlobFor, WriteBlob, SealBlob
    <2>3. key \in FsRecordKey /\ record \in FsRecordValue /\ key \notin DOMAIN fs
      BY <2>1, MakeKeyType, TrimmedType, NextIdInRoom
         DEF UploadFits, UploadKey, FsRecordValue, ObjType, TypeOK, NextId
    <2>4. /\ fs' = Insert(fs, key, record)
          /\ seq' = seq + 1
          /\ ver' = Insert(ver, <<seq + 1, 1>>, saved)
      BY <2>1 DEF CommitFile, FileRecord, FirstVersion, NextId
    <2>5. RecordsOK' /\ <<seq + 1, 1>> \notin DOMAIN ver
      <3>1. record.type = VERSION_BLOB /\ record.id = seq + 1 /\ record.latest_version = 1
        OBVIOUS
      <3> HIDE DEF key, record
      <3> QED BY <2>3, <2>4, <3>1, NewFile
    <2>6. BlobsOK'
      BY <2>1, <2>2, <2>4, <2>5, NewVersion
    <2> QED BY <2>5, <2>6
  <1>7. ASSUME NEW dir \in Dir, NEW name \in Name, NEW version,
               AppendData(dir, name, version) \/ Download(dir, name, version) \/ List(dir)
        PROVE  Good
    BY <1>1, <1>7 DEF AppendData, Download, List, files
  <1>8. ASSUME NEW dir \in Dir, NEW name \in Name, NEW version \in Requested,
               DeleteEntry(dir, name, version)
        PROVE  Good
    <2>1. RecordsOK'
      BY <1>8, GoneUnversioned DEF DeleteEntry, Deletable, IsPresent
    <2>2. BlobsOK'
      BY <1>8 DEF DeleteEntry, files, BlobsOK, VersionsMinted, BlobsPrivate, TokensSealed
    <2> QED BY <2>1, <2>2
  <1>9. ASSUME NEW dir \in Dir, NEW name \in Name, NEW version \in Requested,
               \/ DeleteRefused(dir, name, version)
               \/ DeleteFile(dir, name, version)
               \/ DeleteAbandoned(dir, name, version)
        PROVE  Good
    BY <1>1, <1>2, <1>9 DEF DeleteRefused, DeleteFile, DeleteAbandoned, RemoveBlobs
  <1>10. ASSUME NEW dir \in Dir, NEW name \in Name, NEW version \in Requested,
                NEW toDir \in Dir, NEW toName \in Name,
                Move(dir, name, version, toDir, toName)
         PROVE  Good
    <2> DEFINE source == TargetKey(dir, name)
               dest == TargetKey(toDir, toName)
    <2>1. CASE Refuse("move")
      BY <2>1, <1>2
    <2>2. CASE /\ source \in DOMAIN fs
               /\ dest \notin DOMAIN fs \ {source}
               /\ fs' = Insert(Remove(fs, source), dest, [fs[source] EXCEPT !.name = toName])
               /\ UNCHANGED <<seq, ver, files>>
      <3>1. RecordsOK'
        <4> HIDE DEF source, dest
        <4> QED BY <2>2, MovedRecord
      <3>2. BlobsOK'
        BY <2>2 DEF files, BlobsOK, VersionsMinted, BlobsPrivate, TokensSealed
      <3> QED BY <3>1, <3>2
    <2> QED BY <1>10, <2>1, <2>2 DEF Move, Moved, IsPresent
  <1>11. ASSUME NEW dir \in Dir, NEW name \in Name, NEW toDir \in Dir, NEW toName \in Name,
                Copy(dir, name, toDir, toName)
         PROVE  Good
    <2> DEFINE dest == TargetKey(toDir, toName)
    <2>1. CASE Refuse("copy")
      BY <2>1, <1>2
    <2>2. ASSUME NEW ulid \in Ulid \ minted,
                 DescendPath(fs, toDir, Nfkd) \in FileSystemId,
                 dest \notin DOMAIN fs,
                 HasRoom,
                 minted' = minted \cup {ulid},
                 fs' = Insert(fs, dest, [ id |-> NextId, type |-> NORMAL_BLOB,
                                          latest_version |-> 1, blob_ulid |-> ulid,
                                          name |-> toName ]),
                 seq' = NextId,
                 UNCHANGED <<ver, blobs, tokens>>
          PROVE  Good
      <3> DEFINE record == [ id |-> NextId, type |-> NORMAL_BLOB, latest_version |-> 1,
                             blob_ulid |-> ulid, name |-> toName ]
      <3>1. dest \in FsRecordKey /\ record \in FsRecordValue
        BY <2>2, NextIdInRoom, MakeKeyType DEF TypeOK, TargetKey, FsRecordValue, ObjType
      <3>2. record.id = seq + 1 /\ seq' = seq + 1 /\ record.type # VERSION_BLOB
        BY <2>2 DEF NextId, NORMAL_BLOB, VERSION_BLOB
      <3>3. RecordsOK'
        <4> HIDE DEF dest, record
        <4>1. fs' = Insert(fs, dest, record)
          BY <2>2 DEF record
        <4> QED BY <2>2, <3>1, <3>2, <4>1, NewUnversioned
      <3>4. BlobsOK'
        BY <2>2 DEF BlobsOK, VersionsMinted, BlobsPrivate, TokensSealed
      <3> QED BY <3>3, <3>4
    <2> QED BY <1>11, <2>1, <2>2 DEF Copy, CopyRecord
  <1>12. ASSUME NEW dir \in Dir, NEW name \in Name PROVE UploadRequest(dir, name) => Good
    BY <1>4, <1>5, <1>6 DEF UploadRequest
  <1>13. ASSUME NEW dir \in Dir, NEW name \in Name PROVE ReadRequest(dir, name) => Good
    BY <1>7 DEF ReadRequest
  <1>14. ASSUME NEW dir \in Dir, NEW name \in Name PROVE DeleteRequest(dir, name) => Good
    BY <1>8, <1>9 DEF DeleteRequest
  <1>15. ASSUME NEW dir \in Dir, NEW name \in Name PROVE TransferRequest(dir, name) => Good
    BY <1>10, <1>11 DEF TransferRequest
  <1>16. ASSUME Next PROVE Good
    BY <1>3, <1>12, <1>13, <1>14, <1>15, <1>16 DEF Next
  <1>17. ASSUME UNCHANGED vars PROVE Good
    BY <1>1, <1>17 DEF vars, tables
  <1> QED BY <1>16, <1>17

\* The invariant holds in every reachable state.
THEOREM Invariance == Spec => []IInv
  BY InitInv, NextInv, PTL DEF Spec

-----------------------------------------------------------------------------
(***************************************************************************)
(* What follows from the invariant.                                        *)
(***************************************************************************)
\* No two files share an id.
THEOREM FileIdsAreUnique == Spec => []FileIdsUnique
  <1>1. IInv => FileIdsUnique
    BY DEF IInv, RecordsOK
  <1> QED BY <1>1, Invariance, PTL

\* The tables of files and of versions agree: the latest version of a file is
\* there (upload inserts it in the transaction of the record).
THEOREM LatestVersionsArePresent == Spec => []LatestVersionPresent
  <1>1. IInv => LatestVersionPresent
    BY DEF IInv, RecordsOK
  <1> QED BY <1>1, Invariance, PTL

\* And every version belongs to a file (delete does not remove the records of
\* a versioned file).
THEOREM VersionsAreOwned == Spec => []VersionsOwned
  <1>1. IInv => VersionsOwned
    BY DEF IInv, RecordsOK
  <1> QED BY <1>1, Invariance, PTL

\* Versions do not share blobs.
THEOREM BlobsArePrivate == Spec => []BlobsPrivate
  <1>1. IInv => BlobsPrivate
    BY DEF IInv, BlobsOK
  <1> QED BY <1>1, Invariance, PTL

\* No blob of a version is named by a token (the rename in upload).
THEOREM TokensAreSealed == Spec => []TokensSealed
  <1>1. IInv => TokensSealed
    BY DEF IInv, BlobsOK
  <1> QED BY <1>1, Invariance, PTL

\* What a step does to the versions there are, to the blobs of those it adds
\* and to the blobs of those there were.
LEMMA VersionStep ==
    ASSUME IInv, Next
    PROVE  /\ \A v \in DOMAIN ver : v \in DOMAIN ver' /\ ver'[v] = ver[v]
           /\ \A v \in DOMAIN ver' \ DOMAIN ver : ver'[v] \in blobs'
           /\ \A v \in DOMAIN ver : ver[v] \in blobs \ blobs' => DeletesOwner(v)
  <1> DEFINE Good == /\ \A v \in DOMAIN ver : v \in DOMAIN ver' /\ ver'[v] = ver[v]
                     /\ \A v \in DOMAIN ver' \ DOMAIN ver : ver'[v] \in blobs'
                     /\ \A v \in DOMAIN ver : ver[v] \in blobs \ blobs' => DeletesOwner(v)
  <1>1. ASSUME ver' = ver, blobs \subseteq blobs' PROVE Good
    BY <1>1
  <1>2. ASSUME NEW dir \in Dir, NEW name \in Name PROVE MakeDirectory(dir, name) => Good
    BY <1>1 DEF MakeDirectory, Refuse, files, tables
  <1>3. ASSUME NEW dir \in Dir, NEW name \in Name PROVE ReadRequest(dir, name) => Good
    BY <1>1 DEF ReadRequest, AppendData, Download, List, files, tables
  <1>4. ASSUME NEW dir \in Dir, NEW name \in Name PROVE TransferRequest(dir, name) => Good
    BY <1>1 DEF TransferRequest, Move, Copy, Refuse, files, tables
  <1>5. ASSUME NEW dir \in Dir, NEW name \in Name, UploadRequest(dir, name) PROVE Good
    <2>1. PICK continuation \in Continuation :
             \/ UploadPart(dir, name, continuation)
             \/ UploadAbandoned(dir, name, continuation)
             \/ \E next \in BOOLEAN : \/ UploadRefused(dir, name, next, continuation)
                                      \/ Upload(dir, name, next, continuation)
      BY <1>5 DEF UploadRequest
    <2>2. CASE \/ UploadPart(dir, name, continuation)
               \/ \E next \in BOOLEAN : UploadRefused(dir, name, next, continuation)
      BY <1>1, <2>2 DEF UploadPart, UploadRefused, WriteBlob, tables
    \* A rename takes the name of a token away, and no version has it.
    <2>3. ASSUME NEW ulid, BlobFor(ulid, continuation), continuation # {},
                 NEW sealed, SealBlob(ulid, sealed)
          PROVE  \A v \in DOMAIN ver : ver[v] \notin blobs \ blobs'
      BY <2>3 DEF BlobFor, SealBlob, Continuation, IInv, BlobsOK, TokensSealed
    <2>4. CASE UploadAbandoned(dir, name, continuation)
      <3>1. ver' = ver
        BY <2>4 DEF UploadAbandoned, tables
      <3>2. \A v \in DOMAIN ver : ver[v] \notin blobs \ blobs'
        BY <2>3, <2>4 DEF UploadAbandoned, WriteBlob
      <3> QED BY <3>1, <3>2
    <2>5. ASSUME NEW next \in BOOLEAN, Upload(dir, name, next, continuation) PROVE Good
      <3>1. PICK ulid \in Ulid, saved \in Ulid :
              /\ BlobFor(ulid, continuation)
              /\ UploadFits(dir, name)
              /\ HasRoom
              /\ \/ continuation = {} /\ saved = ulid /\ WriteBlob(ulid)
                 \/ continuation # {} /\ SealBlob(ulid, saved)
              /\ CommitFile(dir, name, ulid, saved)
        BY <2>5 DEF Upload
      <3>2. <<NextId, 1>> \notin DOMAIN ver
        <4> DEFINE record == [ id |-> NextId, type |-> VERSION_BLOB, latest_version |-> 1,
                               blob_ulid |-> ulid, name |-> Trimmed[name] ]
                   key == UploadKey(dir, name)
        <4>1. key \in FsRecordKey /\ record \in FsRecordValue /\ key \notin DOMAIN fs
          BY <3>1, MakeKeyType, TrimmedType, NextIdInRoom
             DEF IInv, UploadFits, UploadKey, FsRecordValue, ObjType, TypeOK
        <4>2. record.type = VERSION_BLOB /\ record.id = seq + 1 /\ record.latest_version = 1
          BY DEF NextId
        <4>3. /\ fs' = Insert(fs, key, record)
              /\ seq' = seq + 1
              /\ ver' = Insert(ver, <<seq + 1, 1>>, saved)
          BY <3>1 DEF CommitFile, FileRecord, FirstVersion, NextId
        <4> HIDE DEF key, record
        <4> QED BY <4>1, <4>2, <4>3, NewFile DEF IInv, NextId
      <3>3. ver' = Insert(ver, <<NextId, 1>>, saved)
        BY <3>1 DEF CommitFile, FirstVersion
      <3>4. saved \in blobs'
        BY <3>1 DEF WriteBlob, SealBlob
      <3>5. \A v \in DOMAIN ver : ver[v] \notin blobs \ blobs'
        BY <2>3, <3>1 DEF WriteBlob
      <3> QED BY <3>2, <3>3, <3>4, <3>5 DEF Insert
    <2> QED BY <2>1, <2>2, <2>4, <2>5
  <1>6. ASSUME NEW dir \in Dir, NEW name \in Name, DeleteRequest(dir, name) PROVE Good
    <2>1. PICK version \in Requested :
             \/ DeleteRefused(dir, name, version)
             \/ DeleteEntry(dir, name, version)
             \/ DeleteFile(dir, name, version)
             \/ DeleteAbandoned(dir, name, version)
      BY <1>6 DEF DeleteRequest
    <2>2. CASE DeleteRefused(dir, name, version) \/ DeleteEntry(dir, name, version)
      BY <1>1, <2>2 DEF DeleteRefused, DeleteEntry, Refuse, files, tables
    <2>3. CASE DeleteFile(dir, name, version) \/ DeleteAbandoned(dir, name, version)
      <3> DEFINE record == fs[TargetKey(dir, name)]
      <3>1. /\ IsPresent(dir, name)
            /\ IsVersioned(record)
            /\ reply'.op = "delete"
        BY <2>3 DEF DeleteFile, DeleteAbandoned, Deletable, Reply
      <3>2. PICK versions \in SUBSET VersionsOf(record) : RemoveBlobs(record, versions)
        BY <2>3 DEF DeleteFile, DeleteAbandoned, Reached
      <3>3. ver' = ver
        BY <3>2 DEF RemoveBlobs, tables
      <3>4. ASSUME NEW v \in DOMAIN ver, ver[v] \in blobs \ blobs'
            PROVE  DeletesOwner(v)
        <4>1. PICK w \in versions : ver[v] = ver[<<record.id, w>>]
          BY <3>2, <3>4 DEF RemoveBlobs, BlobOf
        <4>2. <<record.id, w>> \in DOMAIN ver
          BY <3>2, <4>1 DEF VersionsOf
        <4>3. v = <<record.id, w>>
          BY <4>1, <4>2 DEF IInv, BlobsOK, BlobsPrivate
        <4> QED BY <3>1, <4>3 DEF DeletesOwner
      <3> QED BY <3>3, <3>4
    <2> QED BY <2>1, <2>2, <2>3
  <1> QED BY <1>2, <1>3, <1>4, <1>5, <1>6 DEF Next

\* Versions are written once.
THEOREM VersionsAreWrittenOnce == Spec => VersionsWriteOnce
  <1>1. IInv /\ [Next]_vars =>
           [\A v \in DOMAIN ver : v \in DOMAIN ver' /\ ver'[v] = ver[v]]_vars
    BY VersionStep
  <1> QED BY <1>1, Invariance, PTL DEF Spec, VersionsWriteOnce

\* Blobs of versions only go away when their file is deleted.
THEOREM VersionBlobsStay == Spec => VersionBlobStays
  <1>1. IInv /\ [Next]_vars =>
           [ /\ \A v \in DOMAIN ver' \ DOMAIN ver : ver'[v] \in blobs'
             /\ \A v \in DOMAIN ver : ver[v] \in blobs \ blobs' => DeletesOwner(v) ]_vars
    BY VersionStep
  <1> QED BY <1>1, Invariance, PTL DEF Spec, VersionBlobStays

-----------------------------------------------------------------------------
(***************************************************************************)
(* The blob_ulid fields, which outlive the names they were taken from.     *)
(***************************************************************************)
\* A handler that adds no row and no version, whatever rows it moves or removes.
LEMMA OldHeads ==
    ASSUME HeadsOK, ver' = ver, minted \subseteq minted',
           \A k \in DOMAIN fs' : \E l \in DOMAIN fs :
              /\ fs'[k].id = fs[l].id
              /\ fs'[k].latest_version = fs[l].latest_version
              /\ fs'[k].blob_ulid = fs[l].blob_ulid
    PROVE  HeadsOK'
  BY DEF HeadsOK, BlobUlidsApart

\* A new row whose blob_ulid is the name of no version.
LEMMA NewHead ==
    ASSUME HeadsOK, NEW key, NEW record, fs' = Insert(fs, key, record), ver' = ver,
           minted \subseteq minted', record.blob_ulid \in minted' \cup {NoUlid},
           \A v \in DOMAIN ver : ver[v] # record.blob_ulid
    PROVE  HeadsOK'
  BY DEF HeadsOK, BlobUlidsApart, Insert

\* A new file and its version, whose blob nobody else can know.
LEMMA NewFileHead ==
    ASSUME HeadsOK, NEW key, NEW record, fs' = Insert(fs, key, record),
           NEW saved \in Ulid, saved \notin minted,
           ver' = Insert(ver, <<record.id, record.latest_version>>, saved),
           minted \subseteq minted', record.blob_ulid \in minted',
           \A v \in DOMAIN ver : ver[v] # record.blob_ulid
    PROVE  HeadsOK'
  <1>1. \A k \in DOMAIN fs : fs[k].blob_ulid # saved
    BY UlidAssumption DEF HeadsOK
  <1>2. BlobUlidsApart'
    BY <1>1 DEF HeadsOK, BlobUlidsApart, Insert
  <1>3. (\A k \in DOMAIN fs : fs[k].blob_ulid \in minted \cup {NoUlid})'
    BY DEF HeadsOK, Insert
  <1> QED BY <1>2, <1>3 DEF HeadsOK

\* A handler that leaves the tables alone.
LEMMA SameHeads ==
    ASSUME HeadsOK, UNCHANGED tables, minted \subseteq minted' PROVE HeadsOK'
  BY DEF HeadsOK, BlobUlidsApart, tables

\* Every handler keeps the blob_ulid fields apart from the blobs of others.
LEMMA NextHeads == IInv /\ HeadsOK /\ [Next]_vars => HeadsOK'
  <1> SUFFICES ASSUME IInv, HeadsOK, [Next]_vars PROVE HeadsOK'
    OBVIOUS
  <1> USE DEF IInv
  <1>1. \A v \in DOMAIN ver : ver[v] \in minted /\ ver[v] # NoUlid
    BY UlidAssumption DEF BlobsOK, VersionsMinted, TypeOK, VerTypeOK
  <1>2. ASSUME NEW dir \in Dir, NEW name \in Name, MakeDirectory(dir, name)
        PROVE  HeadsOK'
    <2> DEFINE record == [ id |-> seq + 1, type |-> FOLDER, latest_version |-> 1,
                           blob_ulid |-> NoUlid, name |-> Trimmed[name] ]
    <2>1. CASE Refuse("make_directory")
      BY <2>1, SameHeads DEF Refuse, files
    <2>2. ASSUME NEW key, fs' = Insert(fs, key, record), UNCHANGED <<ver, files>>
          PROVE  HeadsOK'
      <3>1. record.blob_ulid = NoUlid
        OBVIOUS
      <3> HIDE DEF record
      <3> QED BY <1>1, <2>2, <3>1, NewHead DEF files
    <2> QED BY <1>2, <2>1, <2>2 DEF MakeDirectory
  <1>3. ASSUME NEW dir \in Dir, NEW name \in Name, NEW continuation \in Continuation,
               \/ UploadPart(dir, name, continuation)
               \/ UploadAbandoned(dir, name, continuation)
               \/ \E next \in BOOLEAN : UploadRefused(dir, name, next, continuation)
        PROVE  HeadsOK'
    BY <1>3, SameHeads DEF UploadPart, UploadAbandoned, UploadRefused, WriteBlob, SealBlob
  <1>4. ASSUME NEW dir \in Dir, NEW name \in Name, NEW continuation \in Continuation,
               NEW next \in BOOLEAN, Upload(dir, name, next, continuation)
        PROVE  HeadsOK'
    <2>1. PICK ulid \in Ulid, saved \in Ulid :
            /\ BlobFor(ulid, continuation)
            /\ \/ continuation = {} /\ saved = ulid /\ WriteBlob(ulid)
               \/ continuation # {} /\ SealBlob(ulid, saved)
            /\ CommitFile(dir, name, ulid, saved)
      BY <1>4 DEF Upload
    <2> DEFINE key == UploadKey(dir, name)
               record == FileRecord(name, ulid)
    <2>2. saved \notin minted /\ minted \subseteq minted' /\ ulid \in minted'
      BY <2>1 DEF BlobFor, WriteBlob, SealBlob
    <2>3. \A v \in DOMAIN ver : ver[v] # ulid
      BY <1>1, <2>1 DEF BlobFor, Continuation, BlobsOK, TokensSealed
    <2>4. /\ record.id = NextId /\ record.latest_version = 1 /\ record.blob_ulid = ulid
          /\ fs' = Insert(fs, key, record)
          /\ ver' = Insert(ver, <<NextId, 1>>, saved)
      BY <2>1 DEF CommitFile, FileRecord, FirstVersion
    <2> HIDE DEF key, record
    <2> QED BY <2>2, <2>3, <2>4, NewFileHead
  <1>5. ASSUME NEW dir \in Dir, NEW name \in Name, ReadRequest(dir, name)
        PROVE  HeadsOK'
    BY <1>5, SameHeads DEF ReadRequest, AppendData, Download, List, files
  <1>6. ASSUME NEW dir \in Dir, NEW name \in Name, DeleteRequest(dir, name)
        PROVE  HeadsOK'
    <2>1. CASE UNCHANGED <<tables, minted>>
      BY <2>1, SameHeads
    <2>2. CASE fs' = Remove(fs, TargetKey(dir, name)) /\ UNCHANGED <<ver, minted>>
      BY <2>2, OldHeads DEF Remove
    <2> QED BY <1>6, <2>1, <2>2 DEF DeleteRequest, DeleteRefused, DeleteEntry, DeleteFile,
                                    DeleteAbandoned, RemoveBlobs, Refuse, files
  <1>7. ASSUME NEW dir \in Dir, NEW name \in Name, NEW toDir \in Dir, NEW toName \in Name,
               NEW version, Move(dir, name, version, toDir, toName)
        PROVE  HeadsOK'
    <2> DEFINE source == TargetKey(dir, name)
               dest == TargetKey(toDir, toName)
               moved == [fs[source] EXCEPT !.name = toName]
    <2>1. CASE Refuse("move")
      BY <2>1, SameHeads DEF Refuse, files
    <2>2. CASE /\ source \in DOMAIN fs /\ fs' = Insert(Remove(fs, source), dest, moved)
               /\ UNCHANGED <<ver, files>>
      <3>1. /\ moved.id = fs[source].id
            /\ moved.latest_version = fs[source].latest_version
            /\ moved.blob_ulid = fs[source].blob_ulid
        BY <2>2 DEF TypeOK, FsTypeOK, FsRecordValue
      <3> HIDE DEF source, dest, moved
      <3>2. \A k \in DOMAIN fs' : fs'[k] = moved \/ (k \in DOMAIN fs /\ fs'[k] = fs[k])
        BY <2>2 DEF Insert, Remove
      <3> QED BY <2>2, <3>1, <3>2, OldHeads DEF files
    <2> QED BY <1>7, <2>1, <2>2 DEF Move, Moved, IsPresent
  <1>8. ASSUME NEW dir \in Dir, NEW name \in Name, NEW toDir \in Dir, NEW toName \in Name,
               Copy(dir, name, toDir, toName)
        PROVE  HeadsOK'
    <2>1. CASE Refuse("copy")
      BY <2>1, SameHeads DEF Refuse, files
    <2>2. ASSUME NEW ulid \in Ulid \ minted, NEW source, minted' = minted \cup {ulid},
                 fs' = Insert(fs, TargetKey(toDir, toName), CopyRecord(source, ulid, toName)),
                 ver' = ver
          PROVE  HeadsOK'
      <3> DEFINE record == CopyRecord(source, ulid, toName)
      <3>1. record.blob_ulid = ulid
        BY DEF CopyRecord
      <3> HIDE DEF record
      <3>2. fs' = Insert(fs, TargetKey(toDir, toName), record)
        BY <2>2 DEF record
      <3> QED BY <1>1, <2>2, <3>1, <3>2, NewHead
    <2> QED BY <1>8, <2>1, <2>2 DEF Copy
  <1>9. ASSUME UNCHANGED vars PROVE HeadsOK'
    BY <1>9, SameHeads DEF vars, tables
  <1>10. ASSUME NEW dir \in Dir, NEW name \in Name PROVE UploadRequest(dir, name) => HeadsOK'
    BY <1>3, <1>4 DEF UploadRequest
  <1>11. ASSUME NEW dir \in Dir, NEW name \in Name PROVE TransferRequest(dir, name) => HeadsOK'
    BY <1>7, <1>8 DEF TransferRequest
  <1> QED BY <1>2, <1>5, <1>6, <1>9, <1>10, <1>11 DEF Next

\* The blob_ulid of a record, stale as it may be, never names the data of
\* another file or of another version.
THEOREM HeadsStayApart == Spec => []BlobUlidsApart
  <1>1. Init => HeadsOK
    BY DEF Init, EmptyTable, HeadsOK, BlobUlidsApart
  <1>2. HeadsOK => BlobUlidsApart
    BY DEF HeadsOK
  <1> QED BY <1>1, <1>2, NextHeads, Invariance, PTL DEF Spec

-----------------------------------------------------------------------------
(***************************************************************************)
(* Ids read in the other byte order.                                       *)
(***************************************************************************)
\* The two bytes of an id.
LEMMA TwoBytes ==
    ASSUME NEW r \in Nat, r > 1, NEW id \in 0 .. r * r - 1
    PROVE  /\ id % r \in 0 .. r - 1
           /\ id \div r \in 0 .. r - 1
           /\ id = r * (id \div r) + (id % r)
  <1>1. id % r \in 0 .. r - 1 /\ id \div r \in Int /\ id = r * (id \div r) + (id % r)
    OBVIOUS
  <1>2. id \div r >= 0
    BY <1>1
  <1>3. id \div r < r
    BY <1>1
  <1> QED BY <1>1, <1>2, <1>3

\* Two bytes make one number only.
LEMMA TwoDigits ==
    ASSUME NEW r \in Nat,
           NEW a \in 0 .. r - 1, NEW b \in 0 .. r - 1,
           NEW c \in 0 .. r - 1, NEW d \in 0 .. r - 1,
           a * r + b = c * r + d
    PROVE  a = c /\ b = d
  <1>1. ASSUME NEW x \in 0 .. r - 1, NEW y \in 0 .. r - 1, x < y
        PROVE  y * r >= x * r + r
    <2>1. PICK k \in Nat : y = x + k /\ k >= 1
      BY <1>1, y - x \in Nat
    <2>2. y * r = x * r + k * r
      BY <2>1
    <2>3. k * r >= r
      BY <2>1
    <2> QED BY <2>2, <2>3
  <1>2. ~(a < c)
    BY <1>1
  <1>3. ~(c < a)
    BY <1>1
  <1> QED BY <1>2, <1>3

\* The swap of the bytes loses nothing, so two ids read the wrong way round
\* are the same only if the ids are.
LEMMA ReadBigEndianInjective ==
    ASSUME NEW i \in FileSystemId, NEW j \in FileSystemId,
           ReadBigEndian(i) = ReadBigEndian(j)
    PROVE  i = j
  <1>1. PICK r \in Nat : r = Radix /\ r > 1
    BY RadixAssumption
  <1>2. i \in 0 .. r * r - 1 /\ j \in 0 .. r * r - 1
    BY <1>1 DEF FileSystemId
  <1>3. (i % r) * r + (i \div r) = (j % r) * r + (j \div r)
    BY <1>1 DEF ReadBigEndian
  <1>4. i % r = j % r /\ i \div r = j \div r
    <2> DEFINE a == i % r
               b == i \div r
               c == j % r
               d == j \div r
    <2>1. a \in 0 .. r - 1 /\ b \in 0 .. r - 1 /\ c \in 0 .. r - 1 /\ d \in 0 .. r - 1
      BY <1>1, <1>2, TwoBytes
    <2>2. a * r + b = c * r + d
      BY <1>3
    <2> HIDE DEF a, b, c, d
    <2>3. a = c /\ b = d
      BY <2>1, <2>2, TwoDigits
    <2> QED BY <2>3 DEF a, b, c, d
  <1> QED BY <1>1, <1>2, <1>4, TwoBytes

\* The id of the root reads the same in both byte orders.
LEMMA RootReadsAsRoot == ROOT_FSID \in FileSystemId /\ ReadBigEndian(ROOT_FSID) = ROOT_FSID
  <1>1. PICK r \in Nat : r = Radix /\ r > 1
    BY RadixAssumption
  <1>2. r * r >= 1
    BY <1>1
  <1>3. 0 % r = 0 /\ 0 \div r = 0
    BY <1>1
  <1>4. ROOT_FSID \in FileSystemId
    BY <1>1, <1>2 DEF ROOT_FSID, FileSystemId
  <1>5. ReadBigEndian(ROOT_FSID) = ROOT_FSID
    BY <1>1, <1>3 DEF ROOT_FSID, ReadBigEndian
  <1> QED BY <1>4, <1>5

-----------------------------------------------------------------------------
(***************************************************************************)
(* Rows of FS_TABLE by themselves.                                         *)
(***************************************************************************)
\* A row that names its own key and has an id drawn from the sequence.
LEMMA NewRow ==
    ASSUME TypeOK, RowsOK, NEW parent, NEW name, NEW record,
           record.name = name, record.id \in Nat \ {0},
           fs' = Insert(fs, MakeKey(parent, name), record)
    PROVE  RowsOK'
  <1> DEFINE key == MakeKey(parent, name)
  <1>1. MakeKey(key[1], record.name) = key
    BY DEF MakeKey
  <1>2. record.id # ROOT_FSID
    BY DEF ROOT_FSID
  <1> HIDE DEF key
  <1>3. fs' = Insert(fs, key, record)
    BY DEF key
  <1> QED BY <1>1, <1>2, <1>3 DEF RowsOK, NamesLeadBack, Insert

\* A handler that leaves FS_TABLE alone keeps its rows as they should be.
LEMMA SameRows == ASSUME RowsOK, fs' = fs PROVE RowsOK'
  BY DEF RowsOK, NamesLeadBack

\* Every handler keeps the rows leading back to their keys.
LEMMA NextRows == TypeOK /\ RowsOK /\ [Next]_vars => RowsOK'
  <1> SUFFICES ASSUME TypeOK, RowsOK, [Next]_vars PROVE RowsOK'
    OBVIOUS
  <1>1. NextId \in Nat \ {0}
    BY BoundAssumption DEF TypeOK, NextId
  <1>2. ASSUME NEW dir \in Dir, NEW name \in Name, MakeDirectory(dir, name)
        PROVE  RowsOK'
    <2> DEFINE record == [ id |-> seq + 1, type |-> FOLDER, latest_version |-> 1,
                           blob_ulid |-> NoUlid, name |-> Trimmed[name] ]
    <2>1. CASE fs' = Insert(fs, MakeKey(DescendPath(fs, dir, AsSent), Trimmed[name]), record)
      <3>1. record.name = Trimmed[name] /\ record.id \in Nat \ {0}
        BY <1>1 DEF NextId
      <3> HIDE DEF record
      <3> QED BY <2>1, <3>1, NewRow
    <2>2. CASE fs' = fs
      BY <2>2, SameRows
    <2> QED BY <1>2, <2>1, <2>2 DEF MakeDirectory, Refuse, tables
  <1>3. ASSUME NEW dir \in Dir, NEW name \in Name, UploadRequest(dir, name)
        PROVE  RowsOK'
    <2>1. CASE fs' = fs
      BY <2>1, SameRows
    <2>2. ASSUME NEW ulid, NEW saved, CommitFile(dir, name, ulid, saved) PROVE RowsOK'
      <3> DEFINE record == [ id |-> NextId, type |-> VERSION_BLOB, latest_version |-> 1,
                             blob_ulid |-> ulid, name |-> Trimmed[name] ]
      <3>1. record.name = Trimmed[name] /\ record.id \in Nat \ {0}
        BY <1>1
      <3>2. fs' = Insert(fs, MakeKey(DescendPath(fs, dir, AsSent), Trimmed[name]), record)
        BY <2>2 DEF CommitFile, FileRecord, UploadKey
      <3> HIDE DEF record
      <3> QED BY <3>1, <3>2, NewRow
    <2> QED BY <1>3, <2>1, <2>2
            DEF UploadRequest, UploadPart, UploadAbandoned, UploadRefused, Upload, tables
  <1>4. ASSUME NEW dir \in Dir, NEW name \in Name, ReadRequest(dir, name)
        PROVE  RowsOK'
    BY <1>4, SameRows DEF ReadRequest, AppendData, Download, List, tables
  <1>5. ASSUME NEW dir \in Dir, NEW name \in Name, DeleteRequest(dir, name)
        PROVE  RowsOK'
    <2>1. CASE fs' = fs
      BY <2>1, SameRows
    <2>2. CASE fs' = Remove(fs, TargetKey(dir, name))
      BY <2>2 DEF RowsOK, NamesLeadBack, Remove
    <2> QED BY <1>5, <2>1, <2>2 DEF DeleteRequest, DeleteRefused, DeleteEntry, DeleteFile,
                                    DeleteAbandoned, RemoveBlobs, Refuse, tables
  <1>6. ASSUME NEW dir \in Dir, NEW name \in Name, NEW toDir \in Dir, NEW toName \in Name,
               NEW version, Move(dir, name, version, toDir, toName)
        PROVE  RowsOK'
    <2> DEFINE source == TargetKey(dir, name)
               dest == TargetKey(toDir, toName)
               moved == [fs[source] EXCEPT !.name = toName]
    <2>1. CASE Refuse("move")
      BY <2>1, SameRows DEF Refuse, tables
    <2>2. CASE source \in DOMAIN fs /\ fs' = Insert(Remove(fs, source), dest, moved)
      <3>1. moved.name = toName /\ moved.id # ROOT_FSID
        BY <2>2 DEF RowsOK, TypeOK, FsTypeOK, FsRecordValue
      <3>2. MakeKey(dest[1], moved.name) = dest
        BY <3>1 DEF TargetKey, MakeKey
      <3> HIDE DEF source, dest, moved
      <3> QED BY <2>2, <3>1, <3>2 DEF RowsOK, NamesLeadBack, Insert, Remove
    <2> QED BY <1>6, <2>1, <2>2 DEF Move, Moved, IsPresent
  <1>7. ASSUME NEW dir \in Dir, NEW name \in Name, NEW toDir \in Dir, NEW toName \in Name,
               Copy(dir, name, toDir, toName)
        PROVE  RowsOK'
    <2>1. CASE Refuse("copy")
      BY <2>1, SameRows DEF Refuse, tables
    <2>2. ASSUME NEW ulid,
                 fs' = Insert(fs, TargetKey(toDir, toName),
                              [ id |-> NextId, type |-> NORMAL_BLOB, latest_version |-> 1,
                                blob_ulid |-> ulid, name |-> toName ])
          PROVE  RowsOK'
      <3> DEFINE record == [ id |-> NextId, type |-> NORMAL_BLOB, latest_version |-> 1,
                             blob_ulid |-> ulid, name |-> toName ]
      <3>1. record.name = toName /\ record.id \in Nat \ {0}
        BY <1>1
      <3>2. fs' = Insert(fs, MakeKey(DescendPath(fs, toDir, Nfkd), toName), record)
        BY <2>2 DEF TargetKey
      <3> HIDE DEF record
      <3> QED BY <3>1, <3>2, NewRow
    <2> QED BY <1>7, <2>1, <2>2 DEF Copy, CopyRecord
  <1>8. ASSUME NEW dir \in Dir, NEW name \in Name PROVE TransferRequest(dir, name) => RowsOK'
    BY <1>6, <1>7 DEF TransferRequest
  <1>9. ASSUME UNCHANGED vars PROVE RowsOK'
    BY <1>9, SameRows DEF vars
  <1> QED BY <1>2, <1>3, <1>4, <1>5, <1>8, <1>9 DEF Next

\* In every reachable state the rows of FS_TABLE lead back to their keys and
\* none has the id of the root.
THEOREM RowInvariance == Spec => []RowsOK
  <1>1. Init => RowsOK
    BY DEF Init, EmptyTable, RowsOK, NamesLeadBack
  <1> QED BY <1>1, NextRows, TypeCorrect, PTL DEF Spec

\* The names that list returns lead back to the objects.
THEOREM ListedNamesLeadBack == Spec => []ListedNamesOpen
  <1>1. TypeOK /\ RowsOK => ListedNamesOpen
    <2> SUFFICES ASSUME TypeOK, RowsOK, NEW parent \in FileSystemId,
                        NEW name \in Listing(fs, parent)
                 PROVE  MakeKey(parent, name) \in DOMAIN fs
      BY DEF ListedNamesOpen
    <2>1. PICK key \in DOMAIN fs :
             parent <= key[1] /\ key[1] < parent + 1 /\ name = fs[key].name
      BY DEF Listing
    <2>2. key[1] = parent
      BY <2>1 DEF TypeOK, FsTypeOK, FsRecordKey, FileSystemId
    <2> QED BY <2>1, <2>2 DEF RowsOK, NamesLeadBack
  <1> QED BY <1>1, TypeCorrect, RowInvariance, PTL

\* Different folder ids mean different entries.
THEOREM FoldersStayApart == Spec => []FoldersApart
  <1>1. TypeOK /\ RowsOK => FoldersApart
    <2> SUFFICES ASSUME TypeOK, RowsOK, NEW k \in DOMAIN fs, NEW l \in DOMAIN fs
                 PROVE  /\ ReadBigEndian(fs[k].id) # ROOT_FSID
                        /\ fs[k].id # fs[l].id
                           => ReadBigEndian(fs[k].id) # ReadBigEndian(fs[l].id)
      BY DEF FoldersApart
    <2>1. fs[k].id \in FileSystemId /\ fs[l].id \in FileSystemId /\ fs[k].id # ROOT_FSID
      BY DEF TypeOK, FsTypeOK, FsRecordValue, RowsOK
    <2> QED BY <2>1, ReadBigEndianInjective, RootReadsAsRoot
  <1> QED BY <1>1, TypeCorrect, RowInvariance, PTL
=============================================================================
