--------------------------- MODULE DatabaseStorage ---------------------------
(***************************************************************************)
(* The storage driver of yeetbox-server, src/yeetbox-server/src/storage/   *)
(* database.rs: what each handler of the RPC service does to the three     *)
(* redb tables and to the directory of blob files.                         *)
(*                                                                         *)
(* service.rs holds one mutex over the storage from the first to the last  *)
(* statement of a handler, so a request is one step here.  A request whose *)
(* client goes away is dropped at one of the handler's awaits: the open    *)
(* transaction is aborted, what was done to the blob files stays (the      *)
(* Abandoned actions).  The effect of a crash at an await is the same.     *)
(***************************************************************************)
EXTENDS FsTables, FiniteSets

CONSTANTS
    Dir,        \* the folder paths that clients use, sequences of Name
    MaxSeq,     \* bound on the ids drawn from the sequence
    MaxEntries, \* bound on the number of records in FS_TABLE
    Requested,  \* the versions that requests ask for, each a set of at most
                \* one number (the version of a RequestedFileId is optional)
    Rpc         \* the operations that clients call in an instance

ASSUME DirAssumption == Dir \subseteq Seq(Name)

ASSUME BoundAssumption ==
    /\ MaxSeq \in Nat
    /\ MaxSeq + 1 \in FileSystemId
    /\ MaxEntries \in Nat

ASSUME RequestedAssumption == Requested \subseteq SUBSET Nat

Operation ==
    { "make_directory", "upload_part", "upload", "upload_next", "append",
      "download", "delete", "list", "move", "copy" }

ASSUME RpcAssumption == Rpc \subseteq Operation

VARIABLES
    fs,      \* FS_TABLE: FsRecordKey -> FsRecordValue
    seq,     \* the last id in SEQ_TABLE
    ver,     \* VER_TABLE: VersionRecordKey -> the blob file of the version
    blobs,   \* the blob files on disk, by the ULID in their names
    minted,  \* the ULIDs that Ulid::new() has returned
    tokens,  \* the ULIDs returned to clients as continuation tokens
    reply    \* the last request and how it ended

vars == <<fs, seq, ver, blobs, minted, tokens, reply>>

tables == <<fs, seq, ver>>
files  == <<blobs, minted, tokens>>

Outcome == {"ok", "error", "dropped"}

Reply(op, outcome) == [op |-> op, outcome |-> outcome]

\* The continuation token of an upload is optional too; a client sends one that
\* it was given.
Continuation == {{}} \cup { {token} : token \in tokens }

-----------------------------------------------------------------------------
\* DatabaseStorage::new on an empty directory.
Init ==
    /\ fs = EmptyTable
    /\ seq = 0
    /\ ver = EmptyTable
    /\ blobs = {}
    /\ minted = {}
    /\ tokens = {}
    /\ reply = Reply("none", "ok")

\* The handler returns an Err before it has changed anything it will keep.
Refuse(op) ==
    /\ reply' = Reply(op, "error")
    /\ UNCHANGED <<tables, files>>

\* The key of the object that append, download, delete, move and copy find
\* for a path.
TargetKey(dir, name) == MakeKey(DescendPath(fs, dir, Nfkd), name)

IsPresent(dir, name) ==
    DescendPath(fs, dir, Nfkd) \in FileSystemId /\ TargetKey(dir, name) \in DOMAIN fs

\* A request with a version is for the latest version only.
WantsLatest(version, record) == \A v \in version : v = record.latest_version

\* get_next_id: the next number of the sequence, which the commit stores.  (A
\* slip to be told from it: the last number is used again.)
LastId == seq

NextId == seq + 1

HasRoom == seq < MaxSeq /\ Cardinality(DOMAIN fs) < MaxEntries

-----------------------------------------------------------------------------
\* make_directory.  The id is one more than the sequence, which stays as it is.
MakeDirectory(dir, name) ==
    LET parent == DescendPath(fs, dir, AsSent)
        key    == MakeKey(parent, Trimmed[name])
        fits   == parent \in FileSystemId /\ key \notin DOMAIN fs
    IN  \/ /\ ~fits
           /\ Refuse("make_directory")
        \/ /\ fits
           /\ Cardinality(DOMAIN fs) < MaxEntries
           /\ fs' = Insert(fs, key, [ id             |-> seq + 1,
                                      type           |-> FOLDER,
                                      latest_version |-> 1,
                                      blob_ulid      |-> NoUlid,
                                      name           |-> Trimmed[name] ])
           /\ reply' = Reply("make_directory", "ok")
           /\ UNCHANGED <<seq, ver, files>>

-----------------------------------------------------------------------------
(***************************************************************************)
(* upload.  The data is appended to the blob file named by the token, or   *)
(* by a new ULID, before anything else is looked at.                       *)
(***************************************************************************)
\* The ULID that the blob of this request is opened under.
BlobFor(ulid, continuation) ==
    IF continuation = {} THEN ulid \notin minted ELSE ulid \in continuation

UploadOp(next) == IF next THEN "upload_next" ELSE "upload"

WriteBlob(ulid) ==
    /\ blobs' = blobs \cup {ulid}
    /\ minted' = minted \cup {ulid}

\* (A slip: the client gets another ULID than that of the blob.)
UploadPartUntold(dir, name, continuation) ==
    \E ulid, told \in Ulid :
        /\ BlobFor(ulid, continuation)
        /\ WriteBlob(ulid)
        /\ told \notin minted
        /\ tokens' = tokens \cup {told}
        /\ reply' = Reply("upload_part", "ok")
        /\ UNCHANGED tables

\* incomplete = true: the client gets the ULID as the token to continue with.
UploadPart(dir, name, continuation) ==
    \E ulid \in Ulid :
        /\ BlobFor(ulid, continuation)
        /\ WriteBlob(ulid)
        /\ tokens' = tokens \cup {ulid}
        /\ reply' = Reply("upload_part", "ok")
        /\ UNCHANGED tables

UploadKey(dir, name) == MakeKey(DescendPath(fs, dir, AsSent), Trimmed[name])

UploadFits(dir, name) ==
    DescendPath(fs, dir, AsSent) \in FileSystemId /\ UploadKey(dir, name) \notin DOMAIN fs

\* The folder does not exist, or the name is taken.  With next set a taken
\* name is refused as well, by the check of what insert returns.
UploadRefused(dir, name, next, continuation) ==
    \E ulid \in Ulid :
        /\ BlobFor(ulid, continuation)
        /\ ~UploadFits(dir, name)
        /\ WriteBlob(ulid)
        /\ reply' = Reply(UploadOp(next), "error")
        /\ UNCHANGED <<tables, tokens>>

\* The rename that ends a fragmented upload.  (A slip: there is no rename.)
SealInPlace(ulid, sealed) == sealed = ulid /\ WriteBlob(ulid)

SealBlob(ulid, sealed) ==
    /\ sealed \notin minted \cup {ulid}
    /\ blobs' = (blobs \ {ulid}) \cup {sealed}
    /\ minted' = minted \cup {ulid, sealed}

\* The record of a new file.  blob_ulid is the name that the blob was opened
\* under, before the rename.  (A slip: the friendly name is not trimmed.)
UntrimmedRecord(name, ulid) ==
    [ id             |-> NextId,
      type           |-> VERSION_BLOB,
      latest_version |-> 1,
      blob_ulid      |-> ulid,
      name           |-> name ]

FileRecord(name, ulid) ==
    [ id             |-> NextId,
      type           |-> VERSION_BLOB,
      latest_version |-> 1,
      blob_ulid      |-> ulid,
      name           |-> Trimmed[name] ]

\* The key of its first version.  (A slip: versions are counted from 0.)
ZerothVersion == <<NextId, 0>>

FirstVersion == <<NextId, 1>>

\* (A slip: the version names the blob as it was before the rename.)
CommitUnsaved(dir, name, ulid, saved) ==
    /\ fs' = Insert(fs, UploadKey(dir, name), FileRecord(name, ulid))
    /\ seq' = NextId
    /\ ver' = Insert(ver, FirstVersion, ulid)

CommitFile(dir, name, ulid, saved) ==
    /\ fs' = Insert(fs, UploadKey(dir, name), FileRecord(name, ulid))
    /\ seq' = NextId
    /\ ver' = Insert(ver, FirstVersion, saved)

Upload(dir, name, next, continuation) ==
    \E ulid \in Ulid, saved \in Ulid :
        /\ BlobFor(ulid, continuation)
        /\ UploadFits(dir, name)
        /\ HasRoom
        /\ \/ continuation = {} /\ saved = ulid /\ WriteBlob(ulid)
           \/ continuation # {} /\ SealBlob(ulid, saved)
        /\ CommitFile(dir, name, ulid, saved)
        /\ reply' = Reply(UploadOp(next), "ok")
        /\ UNCHANGED tokens

\* The request is dropped after the blob was written, or, if it was about to
\* finish a fragmented upload, after the rename and before the commit.
UploadAbandoned(dir, name, continuation) ==
    \E ulid \in Ulid :
        /\ BlobFor(ulid, continuation)
        /\ \/ WriteBlob(ulid)
           \/ /\ continuation # {}
              /\ UploadFits(dir, name)
              /\ \E sealed \in Ulid : SealBlob(ulid, sealed)
        /\ reply' = Reply("upload", "dropped")
        /\ UNCHANGED <<tables, tokens>>

-----------------------------------------------------------------------------
IsOpenable(record, version) ==
    LET key == <<record.id, version>>
    IN  /\ IsReadable(record.type)
        /\ key \in DOMAIN ver
        /\ ver[key] \in blobs

\* append grows the blob of the latest version.  The record of the version it
\* makes is inserted in a transaction that is never committed.
AppendData(dir, name, version) ==
    LET record == fs[TargetKey(dir, name)]
        fits   == /\ IsPresent(dir, name)
                  /\ WantsLatest(version, record)
                  /\ IsOpenable(record, record.latest_version)
    IN  /\ reply' = Reply("append", IF fits THEN "ok" ELSE "error")
        /\ UNCHANGED <<tables, files>>

Download(dir, name, version) ==
    LET record == fs[TargetKey(dir, name)]
        wanted == IF version = {} THEN {record.latest_version} ELSE version
        fits   == /\ IsPresent(dir, name)
                  /\ \A v \in wanted : IsOpenable(record, v)
    IN  /\ reply' = Reply("download", IF fits THEN "ok" ELSE "error")
        /\ UNCHANGED <<tables, files>>

List(path) ==
    /\ reply' = Reply("list", IF DescendPath(fs, path, Nfkc) \in FileSystemId
                              THEN "ok" ELSE "error")
    /\ UNCHANGED <<tables, files>>

-----------------------------------------------------------------------------
(***************************************************************************)
(* delete.  The record of anything but a versioned file is removed and the *)
(* removal committed.  For a versioned file the blobs are removed from     *)
(* disk, from the latest version down to version 0, until one of them is   *)
(* missing; the transaction with the removed records is never committed.   *)
(***************************************************************************)
Deletable(dir, name, version) ==
    IsPresent(dir, name) /\ WantsLatest(version, fs[TargetKey(dir, name)])

DeleteRefused(dir, name, version) ==
    ~Deletable(dir, name, version) /\ Refuse("delete")

\* (A slip: the type is not looked at.)
DeleteAnyEntry(dir, name, version) ==
    /\ Deletable(dir, name, version)
    /\ fs' = Remove(fs, TargetKey(dir, name))
    /\ reply' = Reply("delete", "ok")
    /\ UNCHANGED <<seq, ver, files>>

DeleteEntry(dir, name, version) ==
    /\ Deletable(dir, name, version)
    /\ fs[TargetKey(dir, name)].type # VERSION_BLOB
    /\ fs' = Remove(fs, TargetKey(dir, name))
    /\ reply' = Reply("delete", "ok")
    /\ UNCHANGED <<seq, ver, files>>

VersionsOf(record) ==
    { v \in 0 .. record.latest_version : <<record.id, v>> \in DOMAIN ver }

BlobOf(record, v) == ver[<<record.id, v>>]

\* The versions that the loop gets through before a blob that is not there.
Reached(record) ==
    { v \in VersionsOf(record) :
        \A w \in VersionsOf(record) : w >= v => BlobOf(record, w) \in blobs }

RemoveBlobs(record, versions) ==
    /\ blobs' = blobs \ { BlobOf(record, v) : v \in versions }
    /\ UNCHANGED <<tables, minted, tokens>>

DeleteFile(dir, name, version) ==
    LET record == fs[TargetKey(dir, name)]
        done   == Reached(record) = VersionsOf(record)
    IN  /\ Deletable(dir, name, version)
        /\ record.type = VERSION_BLOB
        /\ RemoveBlobs(record, Reached(record))
        /\ reply' = Reply("delete", IF done THEN "ok" ELSE "error")

\* The request is dropped when some of the blobs have been removed.
DeleteAbandoned(dir, name, version) ==
    LET record == fs[TargetKey(dir, name)]
    IN  /\ Deletable(dir, name, version)
        /\ record.type = VERSION_BLOB
        /\ \E least \in 0 .. record.latest_version + 1 :
              RemoveBlobs(record, { v \in Reached(record) : v >= least })
        /\ reply' = Reply("delete", "dropped")

-----------------------------------------------------------------------------
\* The table after a move: the record as it was, with another friendly name,
\* under another key.  (A slip: the source is removed last.)
MovedFirst(source, dest, toName) ==
    Remove(Insert(fs, dest, [fs[source] EXCEPT !.name = toName]), source)

Moved(source, dest, toName) ==
    Insert(Remove(fs, source), dest, [fs[source] EXCEPT !.name = toName])

\* move.  Both walks see the table as it was; the destination is checked
\* after the source is gone.
Move(dir, name, version, toDir, toName) ==
    LET source == TargetKey(dir, name)
        dest   == TargetKey(toDir, toName)
        fits   == /\ IsPresent(dir, name)
                  /\ DescendPath(fs, toDir, Nfkd) \in FileSystemId
                  /\ WantsLatest(version, fs[source])
                  /\ dest \notin DOMAIN fs \ {source}
    IN  \/ ~fits /\ Refuse("move")
        \/ /\ fits
           /\ fs' = Moved(source, dest, toName)
           /\ reply' = Reply("move", "ok")
           /\ UNCHANGED <<seq, ver, files>>

\* The record of a copy: a normal blob with a ULID of its own, without a blob
\* or a version.  (A slip: it has the ULID of the source.)
AliasRecord(source, ulid, toName) ==
    [ id             |-> NextId,
      type           |-> NORMAL_BLOB,
      latest_version |-> 1,
      blob_ulid      |-> source.blob_ulid,
      name           |-> toName ]

CopyRecord(source, ulid, toName) ==
    [ id             |-> NextId,
      type           |-> NORMAL_BLOB,
      latest_version |-> 1,
      blob_ulid      |-> ulid,
      name           |-> toName ]

\* copy.  Only a versioned file gets this far: folders are refused, and the
\* blob of a copy is looked for under a name that no blob file has.
Copy(dir, name, toDir, toName) ==
    LET source == fs[TargetKey(dir, name)]
        dest   == TargetKey(toDir, toName)
        fits   == /\ IsPresent(dir, name)
                  /\ source.type = VERSION_BLOB
                  /\ DescendPath(fs, toDir, Nfkd) \in FileSystemId
                  /\ dest \notin DOMAIN fs
    IN  \/ ~fits /\ Refuse("copy")
        \/ /\ fits
           /\ HasRoom
           /\ \E ulid \in Ulid \ minted :
                 /\ minted' = minted \cup {ulid}
                 /\ fs' = Insert(fs, dest, CopyRecord(source, ulid, toName))
           /\ seq' = NextId
           /\ reply' = Reply("copy", "ok")
           /\ UNCHANGED <<ver, blobs, tokens>>

-----------------------------------------------------------------------------
UploadRequest(dir, name) ==
    \E continuation \in Continuation :
        \/ /\ "upload_part" \in Rpc
           /\ UploadPart(dir, name, continuation)
        \/ /\ {"upload_part", "upload", "upload_next"} \cap Rpc # {}
           /\ UploadAbandoned(dir, name, continuation)
        \/ \E next \in BOOLEAN :
              /\ UploadOp(next) \in Rpc
              /\ \/ UploadRefused(dir, name, next, continuation)
                 \/ Upload(dir, name, next, continuation)

ReadRequest(dir, name) ==
    \/ "list" \in Rpc /\ List(dir)
    \/ \E version \in Requested :
          \/ "append" \in Rpc /\ AppendData(dir, name, version)
          \/ "download" \in Rpc /\ Download(dir, name, version)

DeleteRequest(dir, name) ==
    /\ "delete" \in Rpc
    /\ \E version \in Requested :
          \/ DeleteRefused(dir, name, version)
          \/ DeleteEntry(dir, name, version)
          \/ DeleteFile(dir, name, version)
          \/ DeleteAbandoned(dir, name, version)

TransferRequest(dir, name) ==
    \E toDir \in Dir, toName \in Name :
        \/ "copy" \in Rpc /\ Copy(dir, name, toDir, toName)
        \/ /\ "move" \in Rpc
           /\ \E version \in Requested : Move(dir, name, version, toDir, toName)

Next ==
    \E dir \in Dir, name \in Name :
        \/ "make_directory" \in Rpc /\ MakeDirectory(dir, name)
        \/ UploadRequest(dir, name)
        \/ ReadRequest(dir, name)
        \/ DeleteRequest(dir, name)
        \/ TransferRequest(dir, name)

Spec == Init /\ [][Next]_vars

-----------------------------------------------------------------------------
(***************************************************************************)
(* Types.                                                                  *)
(***************************************************************************)
IsTable(table) == table = [key \in DOMAIN table |-> table[key]]

FsTypeOK ==
    /\ IsTable(fs)
    /\ DOMAIN fs \subseteq FsRecordKey
    /\ \A key \in DOMAIN fs : fs[key] \in FsRecordValue

VerTypeOK ==
    /\ IsTable(ver)
    /\ DOMAIN ver \subseteq VersionRecordKey
    /\ \A key \in DOMAIN ver : ver[key] \in Ulid

\* The types of the tables, the sets of blob files and the last reply.
TypeOK ==
    /\ FsTypeOK
    /\ VerTypeOK
    /\ seq \in 0 .. MaxSeq
    /\ blobs \subseteq minted
    /\ minted \subseteq Ulid
    /\ tokens \subseteq minted
    /\ reply \in [op : Operation \cup {"none"}, outcome : Outcome]

-----------------------------------------------------------------------------
(***************************************************************************)
(* Names.                                                                  *)
(***************************************************************************)
\* The friendly name that list returns for an object leads back to it: it is
\* the name that download, delete and move need to find the record, whichever
\* of make_directory, upload, move and copy stored it (they trim differently).
ListedNamesOpen ==
    \A dir \in Dir :
        LET parent == DescendPath(fs, dir, Nfkc)
        IN  parent \in FileSystemId =>
               \A name \in Listing(fs, parent) : MakeKey(parent, name) \in DOMAIN fs

\* The walks of make_directory and upload (names as sent), of descend_path
\* (form KD) and of list (form KC) may fail for different paths, but when two
\* of them find a folder for one path they find the same folder.
WalksAgree ==
    \A dir \in Dir, form \in {AsSent, Nfkc} :
        DescendPath(fs, dir, form) \in {NoFolder, DescendPath(fs, dir, Nfkd)}

\* The keys of the records that a walk in form KD looks up.
WalkedKeys(dir) ==
    { <<DescendPath(fs, SubSeq(dir, 1, i - 1), Nfkd), Nfkd[dir[i]]>> : i \in 1 .. Len(dir) }

\* An object that was moved is found at its destination right away, unless
\* the destination lies below the object itself (move does not refuse that).
MovedIsFound ==
    [][ reply' = Reply("move", "ok") =>
        \A dir \in Dir, name \in Name :
          IsPresent(dir, name) => \A toDir \in Dir, toName \in Name :
            /\ TargetKey(dir, name) \notin WalkedKeys(toDir)
            /\ Move(dir, name, {}, toDir, toName)
            => LET dest == MakeKey(DescendPath(fs', toDir, Nfkd), toName)
               IN  /\ DescendPath(fs', toDir, Nfkd) \in FileSystemId
                   /\ dest \in DOMAIN fs'
                   /\ fs'[dest].id = fs[TargetKey(dir, name)].id ]_vars

-----------------------------------------------------------------------------
(***************************************************************************)
(* Ids and versions.                                                       *)
(***************************************************************************)
IsFile(record) == record.type # FOLDER

\* No two files have the same id, although make_directory hands out the next
\* id without taking it, and move and delete take records away: the records of
\* VER_TABLE are keyed by the id alone.
FileIdsUnique ==
    \A k, l \in DOMAIN fs :
        IsFile(fs[k]) /\ IsFile(fs[l]) /\ fs[k].id = fs[l].id => k = l

\* Folders with different ids keep their entries apart, and no folder has its
\* entries among those of the root, although the walks read ids back in the
\* wrong byte order.
FoldersApart ==
    \A k, l \in DOMAIN fs :
        /\ fs[k].type = FOLDER => ReadBigEndian(fs[k].id) # ROOT_FSID
        /\ fs[k].type = FOLDER /\ fs[l].type = FOLDER /\ fs[k].id # fs[l].id
           => ReadBigEndian(fs[k].id) # ReadBigEndian(fs[l].id)

IsVersioned(record) == record.type = VERSION_BLOB

\* The latest version that a versioned file claims to have is in VER_TABLE:
\* the two tables are changed by one commit or not at all.
LatestVersionPresent ==
    \A key \in DOMAIN fs :
        IsVersioned(fs[key]) => <<fs[key].id, fs[key].latest_version>> \in DOMAIN ver

\* Every version belongs to a file that exists and that has reached it.
VersionsOwned ==
    \A v \in DOMAIN ver : \E key \in DOMAIN fs :
        /\ IsVersioned(fs[key])
        /\ fs[key].id = v[1]
        /\ v[2] <= fs[key].latest_version

\* A version never changes and never goes away: no later request makes it
\* mean another blob.
VersionsWriteOnce ==
    [][ \A v \in DOMAIN ver : v \in DOMAIN ver' /\ ver'[v] = ver[v] ]_vars

-----------------------------------------------------------------------------
(***************************************************************************)
(* Blobs.                                                                  *)
(***************************************************************************)
\* No two versions share a blob file, so deleting one file takes no data from
\* another.
BlobsPrivate == \A v, w \in DOMAIN ver : ver[v] = ver[w] => v = w

\* The blob of a committed version has no name that a client was given as a
\* continuation token: a spent token cannot be used to append more data.
TokensSealed == \A v \in DOMAIN ver : ver[v] \notin tokens

\* The blob_ulid of a record names its own data or nothing.  After the rename
\* that ends a fragmented upload the record still has the name from before it
\* (not, as its comment says, that of the current head), and copy gives its
\* record the name of a blob that is never made: no other file's version may
\* ever get that name.
BlobUlidsApart ==
    \A key \in DOMAIN fs, v \in DOMAIN ver :
        fs[key].blob_ulid = ver[v] => v = <<fs[key].id, fs[key].latest_version>>

\* The step is a delete of the file that owns version v.
DeletesOwner(v) ==
    /\ reply'.op = "delete"
    /\ \E dir \in Dir, name \in Name :
          /\ IsPresent(dir, name)
          /\ IsVersioned(fs[TargetKey(dir, name)])
          /\ fs[TargetKey(dir, name)].id = v[1]

\* A version is committed with its blob on disk, and the blob is there until
\* a delete (completed, failed or dropped) of the file that owns it.
VersionBlobStays ==
    [][ /\ \A v \in DOMAIN ver' \ DOMAIN ver : ver'[v] \in blobs'
        /\ \A v \in DOMAIN ver : ver[v] \in blobs \ blobs' => DeletesOwner(v) ]_vars

-----------------------------------------------------------------------------
(***************************************************************************)
(* The inductive invariant behind the properties of ids, versions and      *)
(* blobs.                                                                  *)
(***************************************************************************)
\* The ids of files have been taken from the sequence.
FilesNumbered == \A key \in DOMAIN fs : IsFile(fs[key]) => fs[key].id <= seq

\* The blob of a version was named by the driver.
VersionsMinted == \A v \in DOMAIN ver : ver[v] \in minted

\* What the requests preserve about FS_TABLE and VER_TABLE together.
RecordsOK ==
    /\ FilesNumbered
    /\ FileIdsUnique
    /\ LatestVersionPresent
    /\ VersionsOwned

\* What they preserve about the blobs of the versions.
BlobsOK ==
    /\ VersionsMinted
    /\ BlobsPrivate
    /\ TokensSealed

\* The key of a row is made of the friendly name in it.
NamesLeadBack == \A key \in DOMAIN fs : MakeKey(key[1], fs[key].name) = key

\* What holds of every row of FS_TABLE by itself.
RowsOK == NamesLeadBack /\ \A key \in DOMAIN fs : fs[key].id # ROOT_FSID

\* The blob_ulid of every record was named by the driver, and is apart from
\* the blobs of other versions.
HeadsOK ==
    /\ \A key \in DOMAIN fs : fs[key].blob_ulid \in minted \cup {NoUlid}
    /\ BlobUlidsApart

\* All that the safety of ids, versions and blobs rests on.
IInv == TypeOK /\ RecordsOK /\ BlobsOK

-----------------------------------------------------------------------------
(***************************************************************************)
(* What the protocol's comments promise and the driver does not do.        *)
(***************************************************************************)
\* remotefs.proto, DeleteArg: "Deletes a directory, file, or incomplete
\* upload".  After a delete that succeeded the object is no longer found.
DeletedIsGone ==
    [][ \A dir \in Dir, name \in Name :
          DeleteFile(dir, name, {}) /\ reply'.outcome = "ok"
          => MakeKey(DescendPath(fs', dir, Nfkd), name) \notin DOMAIN fs' ]_vars

\* download, database.rs:833: a file that can be read but has no record of
\* its latest version is a corrupted database.
NotCorrupted ==
    \A key \in DOMAIN fs :
        IsReadable(fs[key].type) => <<fs[key].id, fs[key].latest_version>> \in DOMAIN ver

\* The normal form of a path.
NormalPath(dir, name) == [i \in 1 .. Len(dir) + 1 |-> Nfkd[(dir \o <<name>>)[i]]]

IsPrefixPath(p, q) == Len(p) <= Len(q) /\ p = SubSeq(q, 1, Len(p))

\* remotefs.proto, FileSystemService: full paths in every request are to
\* prevent "accidentally deleting /foo/baz instead".  A delete changes nothing
\* that is found under another path.
DeleteStaysInPath ==
    [][ \A dir, otherDir \in Dir, name, otherName \in Name :
          /\ DeleteEntry(dir, name, {})
          /\ IsPresent(otherDir, otherName)
          /\ ~IsPrefixPath(NormalPath(dir, name), NormalPath(otherDir, otherName))
          => /\ DescendPath(fs', otherDir, Nfkd) = DescendPath(fs, otherDir, Nfkd)
             /\ TargetKey(otherDir, otherName) \in DOMAIN fs' ]_vars

\* README.md, Database: "a database relates user-supplied names and version
\* numbers to the blobs as though they were the file names".  A folder can be
\* listed under the name it was made with.
MadeFolderOpens ==
    [][ \A dir \in Dir, name \in Name :
          /\ MakeDirectory(dir, name)
          /\ reply'.outcome = "ok"
          /\ DescendPath(fs, dir, Nfkc) \in FileSystemId
          => DescendPath(fs', dir \o <<name>>, Nfkc) \in FileSystemId ]_vars

=============================================================================
