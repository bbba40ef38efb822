# Yeetbox in TLA+

Yeetbox is a file server: `yeetbox-server` answers the gRPC service
`FileSystemService` of `remotefs.proto`, keeps what users see as folders, files
and versions in three redb tables, and the contents in a flat directory of blob
files. This directory models the server's storage drivers, checks them with TLC
on small instances and proves their main properties with TLAPS. All line numbers
without a file are of `src/yeetbox-server/src/storage/database.rs`.

## The system

| part | source | state | operations |
|---|---|---|---|
| storage driver | `storage/database.rs` | tables `FS_TABLE`, `SEQ_TABLE`, `VER_TABLE`; blob files | make_directory, upload, append, download, delete, list, move, copy; the rest is `unimplemented!()` |
| RPC service | `service.rs`, `main.rs` | one `tokio::sync::Mutex` around the storage | lock, call the method of the same name, unlock when the future ends or is dropped |
| storage interface | `storage/mod.rs` | none | the trait |
| times | `time64.rs` | none | `now`, packing and unpacking a time in 64 bits |
| authentication, authorization | `authn.rs`, `authz/` | a database of users and a map of sessions, both always empty | the PLAIN mechanism, a decision per call; constructed in `main.rs` and never called by the service |
| file driver | `storage/file.rs` | a directory per object: blobs in progress, a directory per major version, a symbolic link to the head | make_directory, upload, append, download, delete, list; not compiled: its `mod` line is commented out |
| client | `yeetbox-cli` | none | a fixed sequence of requests |
| permissions, logging, configuration, web | `utils.rs`, `logging.rs`, `config.rs`, `grpc.rs`, `web.rs` | none | start-up and conversions |

How they interact. tonic runs a task per request. The task waits for the mutex
in `service.rs`, and holds it over the whole handler of the driver, so handlers
never interleave with each other. A handler awaits file operations (`open`,
`write`, `rename`, `remove_file`) while a redb write transaction may be open.
When the client goes away tonic drops the future at such an await: the mutex is
released, the transaction is aborted, what was done to the files stays. A crash
at an await has the same effect on the stored state. File operations run in
tokio's blocking pool and are not cancelled with the handler that awaits them;
and `File::write` is not awaited at all: it hands the data over, the handler drops
the file and may have answered before the data is written.

What is hard here: two stores (tables and files) and no transaction over both;
requests dropped between a change of one and of the other; continuation tokens
that name a blob before any table knows it; one id space shared by folders and
files with two different ways of drawing an id; ids written in one byte order
and read in the other; five copies of the path walk with three treatments of
names; data that a write takes only a part of, lengths that are recorded in one
place and cut in another; clients that send a part again, and attempts that arrive
after they were given up on. The file driver is written for several processes on
one directory, with nothing but the atomicity of `create_dir`, `rename` and
`symlink` between them. The list with its lines is `hazards` in `PROJECT.json`.

What makes each part correct:
- tables: every version has its file, the latest version of a file exists, no
  two files share an id, entries of different folders are apart;
- names: what is listed can be opened; the walks do not contradict each other;
  a moved object is at its destination;
- blobs: private to a version, there as long as the file is not deleted, and
  never open to a continuation token once committed;
- service: every request ends, and the handlers' steps at the awaits implement
  the one-step requests;
- transfers: an upload that was reported done is whole, a version with a length
  keeps it, concatenated windows give the version's bytes and come to an end;
- file driver: the head leads to a version that is in place, a reserved version
  stays as written, an acknowledged upload is what a download returns;
- access: what anonymous users may call changes nothing, an assertion is accepted
  for one user only;
- times: what a listing shows of the clock, and in which order.

## Modules

- `FsTables`: the pure part. `FsRecordKey`, `FsRecordValue`, `VersionRecordKey`,
  `MakeKey` (`make_key`: names in form KD), `ReadBigEndian` (the walks read an
  id back with `from_be_bytes` that `bytes_of` wrote in native, little-endian
  order), `DescendPath` (the walk, parameterised by the form it gives the
  names), `Listing` (the range scan of `list`). A redb table is a function;
  `Insert` overwrites, as redb does.
- `DatabaseStorage`: the driver. `fs`, `seq`, `ver` are the tables, `blobs` the
  blob files by ULID, `minted` the ULIDs that `Ulid::new` has returned (fresh
  every time), `tokens` the ULIDs given out as continuation tokens, `reply` the
  last request and its outcome (`ok`, `error`, or `dropped`). There is one action per
  handler, with the handler's refusals as disjuncts, and `UploadAbandoned` and
  `DeleteAbandoned` for requests dropped at an await where the blobs have
  changed already.
- `RequestPipeline`: the service, the handlers between their awaits, and the
  blocking pool, for upload, append, download and delete of files at the root.
  `request` has a record per request in progress: `pc` (queued at the mutex, at an
  await, ready to go on, leaving) and `at` (the operation it awaits).
  `queue` is the mutex, its holder first. `pool` is the set of file operations;
  `disk` maps blob names to inodes and `data` inodes to the ids of the requests
  whose data they have, so that a write through an open handle follows a renamed
  file. `txn` is the handler with a write transaction. The module instantiates
  `DatabaseStorage` as `Requests`, both for the helpers that the handlers share
  (`CommitFile`, `UploadFits`, `IsPresent`) and as the abstract specification.
- `Transfers`: the bytes of one file. `blobs` has contents, a byte being the number of
  its part and its place there; `file` is the version record (blob and length);
  `pending` are the requests of the uploading client that the server may still
  handle, in any order, given up on or not; `reader` is a client that downloads
  window by window. `MaxBuf` is what tokio's `File` moves in one write or read,
  `MAX_READ_SIZE` what a download allocates, `Word` the number of values of a `u64`.
- `FileStorage`: one object's directory in the file driver. `there`, `hasBlobs`,
  `blobs`, `majors`, `versions`, `head` are what is on disk, `proc` the handlers with
  the await they are at (`pc`) and their locals.
- `Time64`: times as numbers, with the widths of the two fields as constants.
- `Access`: the decisions of `SimpleAuth` and `SimpleAuthz` as operators.
- `GuardedStorage`: `DatabaseStorage`, `Access` and `Time64` together, to state what
  the authorization table means for the driver.
- `MCDatabaseStorage`, `MCGuardedStorage`, `MCRequestPipeline`, `MCTransfers`,
  `MCFileStorage`: values for the constants of the instances. `MCGuardedStorage` also
  assumes `TimesChecked` and `AuthnChecked`, which TLC evaluates for every reading of
  a small clock, and every short assertion and database of two users.
- `DatabaseStorageProofs`, `GuardedStorageProofs`, `FileStorageProofs`,
  `Time64Proofs`, `RequestPipelineProofs`, `RequestRefinementProofs` (which extends
  the one before it), `TransfersProofs`, `WalkProofs` (which extends
  `DatabaseStorageProofs`): the theorems.

Correspondence of the actions to the code:

| action | code |
|---|---|
| `MakeDirectory` | 397-489; takes `seq + 1` and leaves `seq` alone, as line 467 does |
| `UploadPart` | `incomplete` set: write the blob, return the token (495-537) |
| `UploadRefused` | missing folder or taken name; `next` on a taken name ends at line 629, after which the transaction is dropped, so it is the same step. The blob was written before |
| `Upload` | 539-677; `SealBlob` is the rename at 653, `CommitFile` the commit |
| `UploadAbandoned` | the future dropped after the write or after the rename |
| `AppendData` | 679-781: the transaction is not committed, so only the reply changes (blob contents are abstracted) |
| `Download`, `List` | 790-878, 968-1075 |
| `DeleteEntry` | the branch that commits (917-928) |
| `DeleteFile`, `DeleteAbandoned` | the loop over versions (934-959), never committed; it ends at the first blob that is not there |
| `Move`, `Copy` | 1078-1135, 1140-1235 |

In `RequestPipeline`:

| action | code |
|---|---|
| `Send`, `Release`, `DropWaiting` | `self.storage.lock().await` and the end of its guard (`service.rs` 55-92) |
| `StartUpload`, `ResumeUpload`, `ResumeSealed` | upload up to `open`, from there to the reply or to `rename`, and from there to the commit |
| `StartOther`, `ResumeOpened`, `ResumeRead`, `ResumeDelete` | append, download and delete in the same way |
| `Land...` | a file operation takes effect in the pool |
| `DropHandler`, `Crash` | tonic drops the future at an await; the server stops and starts again |

In `Transfers`:

| action | code |
|---|---|
| `SendPart` | the client sends its next part with the token of the last reply, or the same part again (remotefs.proto 314-325) |
| `HandlePart`, `RefuseUpload`, `CommitSingle`, `CommitParts` | the ways upload ends (531-537, 539-629, 600-677); the reply may be lost |
| `StopAtOpen`, `StopAtWrite`, `StopAtRename` | the handler dropped, or the server stopped, at one of its awaits (520, 528, 653) |
| `AppendData` | append by other clients: the data goes to the blob, the new length nowhere |
| `ReadWindow` | download, with `DownloadWindow` for lines 838-874; an overflow of `offset + length` may be refused (a panic in a debug build) or wrap |

In `FileStorage`, all lines of `storage/file.rs`:

| action | code |
|---|---|
| `MakeDirectory` | 76-95 |
| `CreateBlobsDir`, `WriteBlob`, `NoBlobsDir` | the blob of upload and append (114-156, 257-288) |
| `MakeFirst` | `create_dir_all` for version 1 (164-166, 185-186) |
| `ReadLink`, `Reserve` | the head is read (177) and a major version looked for (211-229); `Taken` keeps the count of the loop as it is, with `MAX_TRIES` + 1 after the last round |
| `Publish`, `LinkHead` | `rename` and `symlink` (168-169, 188-189, 231-232) |
| `NoVersion` | append's last step, which has no target: its path lies below the link `_head` (294-301) |
| `StartDelete`, `RemoveEntry`, `FinishDelete` | `remove_dir_all`, entry by entry (374) |
| `Stop` | the handler is dropped or its process stops |
| `Download`, `ListsAsFolder` | what download and list would say (314-340, 392-403) |

The map from `RequestPipeline` to `DatabaseStorage`: tables and tokens are the
same; `ShownBlobs` is the directory without what the holder of the mutex has done
to it so far and with what it has taken away; `last` is the last request that
took effect. A request takes effect when it commits or answers, when its handler
is dropped, or, for append and download, when the blob is opened.

Abstractions. A name is a member of a small set and `trim` and the two
normalisation forms are functions on it (constants, with the two laws of Unicode
that the proofs need as an assumption). An id has two bytes with
`Radix` values each: two are enough to tell the byte orders apart. In
`DatabaseStorage` blobs have no contents, in `RequestPipeline` they have requests
and in `Transfers` bytes; owners and permissions are left out, nothing in the
drivers decides by them. In `Transfers` the data of a request is in the blob before the next
request is handled (the other orders are `RequestPipeline`'s), a request that is
lost is one that is never handled, and the length that append computes is not part
of the state, since no transaction commits it. In `FileStorage` data is in the blob
when its step ends, and a system call is one step, except `remove_dir_all`. I/O errors of
redb and of the file system are left out, but for files that are not there: a
missing file is how the driver's own steps come back to it. ULIDs are taken to
be fresh. A client sends only tokens it was given, by the server or by another
client.

## Runs

| run | expects | what it shows |
|---|---|---|
| `names` | pass | `ListedNamesOpen`, `WalksAgree`, `MovedIsFound` with a plain, a padded, a composed and a decomposed name, paths of two components, two records |
| `catalog` | pass | the consistency of ids, versions, blobs and tokens under all ten operations and dropped requests, and `GuestsOnlyRead`; two names, the root and one folder, four ULIDs, two records |
| `delete_gone` | violation | a successful delete of a file leaves it in the table (`DeletedIsGone`) |
| `copy_version` | violation | a copy has no version (`NotCorrupted`) |
| `folder_ids` | violation | a delete under one folder reaches into another (`DeleteStaysInPath`) |
| `folder_names` | violation | a folder with a decomposable name cannot be listed (`MadeFolderOpens`) |
| `pipeline` | pass | two clients, four requests, one crash: transactions stay under the mutex, no version loses its blob to a late rename, no upload gets at the blob of a version, and `RequestsAreOneStep`: `RequestPipeline` implements `DatabaseStorage` as long as no file operation outlives its request |
| `liveness` | pass | every request ends, acknowledged data reaches a blob (`FairSpec`, three requests, one crash) |
| `transfers` | pass | uploads of one to three parts with five attempts, two appends, windows of three lengths: `UploadIsWhole`, `VersionKeepsItsEnd`, `ReaderGetsVersion`, and under `FairSpec` `ReaderStops` |
| `window_more` | violation | `more` does not mean that there is more (`MoreMeansMore`) |
| `file_storage` | pass | two handlers, five requests, three rounds of the loop: `HeadIsInPlace`, `AcknowledgedIsRead`, `VersionsStayWritten` |
| `resume_order` | violation | the acknowledged parts of an upload can be in the blob in another order (`ResumedUploadIsWhole`) |

Bounds. `MaxEntries` bounds the records and `MaxSeq` the ids; both are guards of
the actions that add a record, named `HasRoom`. Two records are enough for
two folders or files to meet on an id, a key, a blob or a token, for a folder with
an entry, for a move onto or below another object, and for a delete in between.
Four ULIDs are enough for two fragmented uploads, each with its rename, or for
a spent token that is used again. `Requested` has the versions that requests
name: none, and one that is never the latest. `DescendPath` is not
bounded: it follows any path in `Dir`. The larger the radix the fewer
coincidences between ids, so the smallest radix that fits the ids is used. The
ULIDs are a symmetry set (they are only compared for equality) in the runs
without a violation.

In `RequestPipeline` `MaxRequests` bounds the requests. Four are enough for a part,
its dropped and repeated completion and one more request that meets what is left
of them; three, in the run for liveness, for two requests that wait for a third.
`Ulid` has one member per request, which is all that a request can use up.

In `Transfers` `MaxAttempts` and `MaxAppends` bound the requests: five attempts are
two more than the largest upload has parts, for a repeated part and one that was
given up on and arrives late. `MaxBuf` is 2, so that plans have parts of less than a
write, of a write and of more than one; `Word` is 8, so that sums of offset and length overflow.
In `FileStorage` two handlers are enough to meet at a version and `MAX_TRIES` 3 is enough for
the loop to end in each of its ways; five requests are an upload that makes version 1,
two that look for the next version while it is taken, and one more. `MaxRequests` is the only
bound. Processes are a symmetry set.

What `outlived` is for. A file operation that outlives its dropped request and
happens in the middle of a later one has no counterpart among single steps: a
late open with `create` between the rename and the commit of another request, for
instance, makes an empty blob that `DatabaseStorage` has no step for. So the
steps are compared until an operation outlives its request (`outlived`), and the
properties that matter for the stored versions are checked with such operations too.

Deadlock checking is on in every run but two: in `DatabaseStorage` `list` is always
answered, and in `RequestPipeline` and `FileStorage` the one way to stop is `Quiet`,
when all requests have been served. In `Transfers` (`transfers`, `window_more`) clients
finish or give up, and then nothing happens any more.

Fairness is assumed in `liveness` and `transfers` only. In `transfers` it is weak
fairness of `ReadWindow`: a client that has begun to read goes on, and its requests are
answered, which is what `liveness` shows of a request. Appends are bounded, so the end of the
file does not run away from the reader for ever. In `liveness` it is weak fairness of the handler steps of every
client (tokio polls a task that was woken; the mutex is first come, first served,
which is in the model and not assumed) and of every request's file operations (the
blocking pool has up to 512 threads, and an operation on a local file ends). Nothing is
assumed of clients, drops and crashes.

What the preconditions of the properties mean. `UploadIsWhole` and
`VersionKeepsItsEnd` speak of parts that fit in one write: `write` is not `write_all`,
and what it does not take is lost (line 528). `UploadIsWhole` says that parts may be
repeated in the file: the protocol has no number of a part. After a request that ended between
the rename and the commit (`torn`) only the last part is sure to be in the file. The
properties of the file driver hold until the first delete, which removes entries
under uploads that are in progress. `AcknowledgedIsRead` is about one upload that found no head: a
second one replaces version 1, since its directory is not reserved. Two versions are left
out of `VersionsStayWritten` for the same reason: version 1, and the last one
the loop tries (`LAST_TRIED`), which is used although its directory was there,
because the check after the loop (file.rs 227) compares with 1000 and the counter is at 1001.
The other surprise of the file driver is that `symlink` does not replace the link:
against its comment (file.rs 105) the head stays on version 1, and every later upload is told an
error when its version has been published.

What the passing runs mean for two surprising designs of the other driver: although folders take
ids without storing them, *files* never share an id (`FileIdsUnique`), and
although ids are read in the wrong byte order, the mistake is made everywhere
and is injective, so the tree stays a tree of ids (`FoldersApart`). What breaks is
two *folders* made in a row: they share an id and their entries (`folder_ids`).

What a listing shows of a time. `now` keeps the part of the clock below a
millisecond (`as_nanos() % 1_000_000`), although the comment above it says that
nanoseconds are not included; what is left out are the milliseconds. So of two times
of one second the later may be listed as the earlier (`TimesInOrder`).

## Proofs

The theorems hold for every value of the constants that satisfies the named
assumptions of the module; TLC evaluates these assumptions in the runs.

`DatabaseStorageProofs` proves for every value of the constants (any set of
names and paths, any radix, any number of ids, records and ULIDs) that satisfies
the assumptions `NameAssumption`, `RadixAssumption`, `UlidAssumption`,
`DirAssumption`, `BoundAssumption`, `RequestedAssumption`, `RpcAssumption`:

| theorem | states |
|---|---|
| `TypeCorrect` | `[]TypeOK` |
| `Invariance` | `[]IInv`, the inductive invariant |
| `FileIdsAreUnique` | `[]FileIdsUnique` |
| `LatestVersionsArePresent`, `VersionsAreOwned` | `[]LatestVersionPresent`, `[]VersionsOwned` |
| `BlobsArePrivate`, `TokensAreSealed` | `[]BlobsPrivate`, `[]TokensSealed` |
| `HeadsStayApart` | `[]BlobUlidsApart` |
| `VersionsAreWrittenOnce` | `VersionsWriteOnce` |
| `VersionBlobsStay` | `VersionBlobStays` |
| `RowInvariance`, `ListedNamesLeadBack` | `[]RowsOK`, `[]ListedNamesOpen` |
| `FoldersStayApart` | `[]FoldersApart` |

The argument. `FileIdsUnique` is not inductive by itself: a new file takes
`seq + 1`, which is free only because the ids of files were taken from the
sequence (`FilesNumbered`). A new version at `<<seq + 1, 1>>` is new only because
every version belongs to a file (`VersionsOwned`), whose id is at most `seq`. A
blob is private only because a new version's blob either has a fresh ULID or is
a first-time upload, which needs `VersionsMinted`; `TokensSealed` needs the
same. `IInv` is the conjunction: `TypeOK`, `RecordsOK` (ids and versions), `BlobsOK`
(blobs and tokens). `Init => IInv` and `IInv /\ [Next]_vars => IInv'` are
`InitInv` and `NextInv`, the latter with one step per action and the lemmas
`NewUnversioned`, `GoneUnversioned`, `MovedRecord`, `NewFile`, `SameVersions`,
`NewVersion` for the ways an action changes the tables.
`VersionStep` says once what a step does to versions and their blobs; the
two action properties follow. `RowsOK` (the key of a row is made of the name in
it, and no row has the root's id) is inductive over `TypeOK`, and gives
`ListedNamesOpen` and, with `ReadBigEndianInjective`, `FoldersApart`.

`BlobUlidsApart` follows from `IInv` and `HeadsOK`, which says what `blob_ulid` of a record
may be: the blob of its latest version, a spent token, or a ULID that nothing else has.

The bounds `MaxSeq` and `MaxEntries` are parameters: the proofs hold for each
of their values.

`WalkProofs` proves, from the same assumptions and for paths of any length:

| theorem | states |
|---|---|
| `WalksFindTheSame` | `[]WalksAgree` |
| `MovedObjectsAreFound` | `MovedIsFound` |

The argument. A walk is the function that `DescendPath` defines recursively: that there is one
(`WalkExists`), that it is the only one (`WalkUnique`) and that `DescendPath` is its last value
(`WalkEnds`) are lemmas. The library's induction theorems take an operator, which the
provers cannot instantiate; the induction over the length of a path is done with a set
instead (`Upwards`: a set that has 0, and with a number the next one, has all of them), which
follows from the well-foundedness of `<`. A folder is found only under a name in form KD
(`FolderKeys`, from `RowsOK`), so a walk with names as sent or in form KC that goes on has
looked up the name that the walk in form KD looks up (`WalksMeet`). After a move the walk to the
destination passes by none of the changed rows (`WalkStays`).

`GuardedStorageProofs` proves `GuestsDoNotWrite` (`GuestsOnlyRead`): the calls that are
open are `download` and `list` among the driver's, and the replies of all other actions
name another call.

`FileStorageProofs` proves, for any number of handlers, requests and rounds of the loop,
from `FileAssumption`:

| theorem | states |
|---|---|
| `FilesTypeCorrect` | `[]FileTypeOK` |
| `HeadStaysInPlace` | `[]HeadIsInPlace` |
| `AcknowledgedStays` | `[]AcknowledgedIsRead` |
| `VersionsStay` | `VersionsStayWritten` |

The argument. `FileTypeOK` needs what a handler knows at each await (`HandlersOK`): its
token was given out, and its count is in the loop. The rest of `IInv` holds until the
first delete, and its parts need each other. The head is 0 or version 1, since `symlink`
does not replace it (`HeadIsFirst`); so in the loop the version is the number of rounds, and
a handler that leaves the loop without a reservation has the version `LAST_TRIED`. A
directory that was made was not there, so its version is one handler's own and has no
contents yet (`ReservationsApart`), which is `VersionsStayWritten` at the rename. What is linked to
is there because a rename comes before each link (`LinksInPlace`). If only one upload
went for version 1, then one handler at most is between the rename and the link of it, and what it
remembers of its blob is what the version holds (`FirstIsOwn`). Steps that are not about a
version leave all parts alone (`AsideKeeps`); `MakeFirstKeeps`, `ReadLinkKeeps`, `ReserveKeeps`,
`PublishKeeps` and `LinkHeadKeeps` are the others.

`Time64Proofs` proves `TimesAreListed` and `TimesAreInOrder` for fields of any width
(`FieldAssumption`): the remainder of `now` fits in the field, so the parts come
back as they were put in, and a later reading has no fewer seconds.

`RequestPipelineProofs` proves, for any number of clients, requests, crashes and ULIDs,
from `ClientAssumption`, `PipelineAssumption` and the assumptions of `FsTables`:

| theorem | states |
|---|---|
| `Invariance` | `[]IInv`, the inductive invariant |
| `PipelineTypeCorrect` | `[]PipelineTypeOK` |
| `WriterCorrect` | `[]WriterHoldsLock` |
| `SpareCorrect` | `[]UploadsSpareVersions` |
| `VersionsOnDisk` | `VersionBlobOnDisk` |

The argument. `UploadsSpareVersions` at a `create` that lands needs to know that its name
is a token or was drawn by this request and is known to nobody else (`NamesOK`), and that
the blob of a version is neither (`CatalogOK`: versions have names that have shown
up and are no tokens). At a rename it needs that what is renamed had the name of a token
and that the new name is nobody's, so that the inode, which has one name
(`DiskOK`), was no version's. A request that was dropped still counts as long as its operation is
in the pool (`IsWorking`): its names stay drawn until the operation has landed,
and it has one operation besides its writes (`PoolOK`). `HandlersOK` says what a handler
found before an await and relies on after it: the name is still free, or the file is
still there with the blob it opened; it holds because only the holder of the mutex changes
the tables. `QueueOK`, in `PipelineTypeOK`, gives this mutual exclusion: only the head of the
queue is past the mutex, and `WriterHoldsLock` follows the transaction through every way
in which a request ends. `Turn` steps, dropped requests and each kind of landing
have a lemma each.

`RequestRefinementProofs` proves `HandlersAreOneStep` (`RequestsAreOneStep`): the
initial state is one of `DatabaseStorage`, and every step maps to a step of it or
leaves `ShownBlobs`, the tables, the tokens and the reply as they were, until `outlived`. The part of `IInv` that
only this needs is `OrderOK`: without an operation that outlived its request, the blob
of the holder of the mutex is as its handler left it. The bounds of the abstract
specification (`HasRoom`) follow from the count of requests: each adds at most one
record, and `seq` is the number of records.

`TransfersProofs` proves, for uploads of any number of parts of any length, any number
of attempts and appends, and any `MaxBuf`, `MAX_READ_SIZE` and `Word`:

| theorem | states |
|---|---|
| `TransfersInvariance` | `[]TransfersIInv`, the inductive invariant |
| `TransfersTypeCorrect` | `[]TransfersTypeOK` |
| `WholeUploads` | `[]UploadIsWhole` |
| `VersionsKeepTheirEnd` | `[]VersionKeepsItsEnd` |
| `ReadersGetVersions` | `[]ReaderGetsVersion` |

From `TransferAssumption` and `LengthAssumption`: a part and one read fit
in a `u64`, since the data of a message is a vector in memory, of less than 2^63 bytes. The
argument. The client waits for the reply to one attempt only (`AttemptsOK`), so the
blob of its token has the parts before the next (`PartsOK`, by `PartsGrow` when a part
arrives and `PartsStay` when anything else is written behind it). The committed blob only
grows, since no attempt has its name for a token (`FileOK`); its beginning stays what
was committed, and a version with a length has that many bytes of it, or as many as one
write took. From this `VersionKeepsItsEnd` follows for every offset and length, the sums
that overflow left out, and `ReaderOK` says of the reader that it has a beginning of the blob, and
all that was committed when it stops at a window that ends before its length. Lemmas on
prefixes and windows of sequences (`PrefixesOfOne`, `SameWindow`, `LastWindow`, `NextBytes`) are stated once.

Only model-checked: `PlainNamesOneUser`, over short assertions and databases of two
users. Liveness (`RequestsEnd`, `AcknowledgedDataLands`, `ReaderStops`) and `ENABLED`
are out of the provers' reach and stay with TLC.

## Not modelled

- Handlers at their awaits for folders below the root and for copy, which awaits
  nothing but a file copy that always fails.
- Data that arrives late together with lengths: `RequestPipeline` has the one and
  `Transfers` the other.
- `check_authn` and sessions: no code makes a `Session`, so the map it looks in is
  always empty. `From<Timestamp>` of `Time64`: nothing calls it.
- In the file driver, objects inside of each other (a folder's directory holds the
  directories of its objects), and the attributes that list returns.
- The client `yeetbox-cli` (a fixed sequence of requests) and start-up code.
- RPCs that are `unimplemented!()`: they have no behaviour.

## Plan

What is left: `PlainNamesOneUser` as a theorem, for assertions and databases of any size (what
the two fields of an assertion are when names and passwords have no null inside of them).
