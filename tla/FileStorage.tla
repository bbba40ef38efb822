---------------------------- MODULE FileStorage -----------------------------
(***************************************************************************)
(* One object of the file driver (storage/file.rs): a directory with the   *)
(* blobs of uploads in progress under _blobs, a directory per major        *)
(* version with the contents as minor version 0, and _head, a symbolic     *)
(* link to the version that is read.                                       *)
(*                                                                         *)
(* Several processes share the directory: that is what the comment on      *)
(* upload is about ("another process already reserved that version").      *)
(* Nothing orders their system calls.  A step is what a handler does       *)
(* between two awaits; creating a directory with its parents, and removing *)
(* a subdirectory with its contents, are single steps.  The data of a      *)
(* request is in the blob when its step ends: RequestPipeline has the      *)
(* writes of tokio that come later.                                        *)
(***************************************************************************)
EXTENDS Integers, Sequences, FiniteSets

CONSTANTS
    Process,        \* the handlers that run at the same time
    MAX_TRIES,      \* 1000 in the program
    MaxRequests,    \* bound on the requests
    Ops             \* the operations of an instance

ASSUME FileAssumption ==
    /\ MAX_TRIES \in Nat \ {0}
    /\ MaxRequests \in Nat
    /\ Ops \subseteq {"make_directory", "upload_part", "upload", "upload_next",
                      "append_part", "append", "delete"}

VARIABLES
    there,          \* does the directory of the object exist?
    hasBlobs,       \* does _blobs exist?
    blobs,          \* the files in _blobs, by ULID
    majors,         \* the directories of major versions
    versions,       \* the contents of minor version 0, by major version
    head,           \* the major version that _head links to, 0 if there is none
    proc,           \* the processes
    minted,         \* the ULIDs so far are 1 .. minted
    tokens,         \* the continuation tokens given out
    requests,       \* the number of requests so far
    acked,          \* auxiliary: what the client of a finished upload sent
    firsts,         \* auxiliary: uploads that went for version 1
    deletes         \* auxiliary: deletes so far

files == <<there, hasBlobs, blobs, majors, versions, head>>
given == <<minted, tokens>>
aux   == <<acked, firsts, deletes>>
vars  == <<files, proc, given, requests, aux>>

Uploads == {"upload_part", "upload", "upload_next"}
Appends == {"append_part", "append"}

MAJOR_VERSION_1 == 1
NoUlid == 0

Put(f, x, y)   == [ k \in DOMAIN f \cup {x} |-> IF k = x THEN y ELSE f[k] ]
Without(f, x)  == [ k \in DOMAIN f \ {x} |-> f[k] ]

Idle == [ pc |-> "idle", op |-> "none", id |-> 0, token |-> NoUlid, ulid |-> NoUlid,
          data |-> <<>>, major |-> 0, tries |-> 0, todo |-> {} ]

Init ==
    /\ there = FALSE /\ hasBlobs = FALSE /\ blobs = <<>>
    /\ majors = {} /\ versions = <<>> /\ head = 0
    /\ proc = [p \in Process |-> Idle]
    /\ minted = 0 /\ tokens = {} /\ requests = 0
    /\ acked = {} /\ firsts = 0 /\ deletes = 0

At(p, pc) == proc[p].pc = pc

Goto(p, pc) == proc' = [proc EXCEPT ![p].pc = pc]

\* The handler of p is over, with a reply or an error.
Done(p) == proc' = [proc EXCEPT ![p] = Idle]

\* The first step of a handler.
FirstStep(op) ==
    CASE op \in Uploads -> "blobs_dir"
      [] op \in Appends -> "blob"
      [] OTHER          -> op

Start(p) ==
    /\ At(p, "idle")
    /\ requests < MaxRequests
    /\ requests' = requests + 1
    /\ \E op \in Ops, token \in tokens \cup {NoUlid} :
          /\ token # NoUlid => op \in Uploads \cup Appends
          /\ proc' = [proc EXCEPT ![p] = [Idle EXCEPT !.op = op, !.id = requests + 1,
                                                     !.token = token, !.pc = FirstStep(op)]]
    /\ UNCHANGED <<files, given, aux>>

MakeDirectory(p) ==
    /\ At(p, "make_directory")
    /\ there' = TRUE
    /\ Done(p)
    /\ UNCHANGED <<hasBlobs, blobs, majors, versions, head, given, requests, aux>>

-----------------------------------------------------------------------------
(***************************************************************************)
(* upload and append: the blob.                                            *)
(***************************************************************************)
CreateBlobsDir(p) ==
    /\ At(p, "blobs_dir")
    /\ there' = TRUE /\ hasBlobs' = TRUE
    /\ Goto(p, "blob")
    /\ UNCHANGED <<blobs, majors, versions, head, given, requests, aux>>

\* Where an upload or an append goes on when its data is in the blob.
AfterBlob(op) ==
    CASE op = "upload"      -> "first"
      [] op = "upload_next" -> "read_link"
      [] op = "append"      -> "no_version"
      [] OTHER              -> "idle"

\* The token of a blob is its ULID.  (A slip to be told from it: another one.)
NextToken(ulid) == ulid + 1

Token(ulid) == ulid

WriteBlob(p) ==
    LET r    == proc[p]
        ulid == IF r.token = NoUlid THEN minted + 1 ELSE r.token
        old  == IF ulid \in DOMAIN blobs THEN blobs[ulid] ELSE <<>>
    IN  /\ At(p, "blob")
        /\ hasBlobs
        /\ blobs' = Put(blobs, ulid, Append(old, r.id))
        /\ minted' = IF r.token = NoUlid THEN ulid ELSE minted
        /\ IF r.op \in {"upload_part", "append_part"}
           THEN tokens' = tokens \cup {Token(ulid)} /\ Done(p)
           ELSE /\ tokens' = tokens
                /\ proc' = [proc EXCEPT ![p] = [Idle EXCEPT !.ulid = ulid, !.pc = AfterBlob(r.op)]]
        /\ UNCHANGED <<there, hasBlobs, majors, versions, head, requests, aux>>

\* Without _blobs, which append does not make and delete removes, open fails.
NoBlobsDir(p) ==
    /\ At(p, "blob")
    /\ ~hasBlobs
    /\ Done(p)
    /\ UNCHANGED <<files, given, requests, aux>>

\* The last step of append: its target lies below _head, which is a link to a
\* file or no link at all.  Looking for it fails, or renaming to it does.
NoVersion(p) ==
    /\ At(p, "no_version")
    /\ Done(p)
    /\ UNCHANGED <<files, given, requests, aux>>

-----------------------------------------------------------------------------
(***************************************************************************)
(* upload: the version.                                                    *)
(***************************************************************************)
\* The version is put in place before it is linked to.  (A slip: after.)
LinkBeforeRename == "symlink"

AfterDirectory == "rename"

\* The first version takes a directory that may be there already.
MakeFirst(p) ==
    /\ At(p, "first")
    /\ there' = TRUE
    /\ majors' = majors \cup {MAJOR_VERSION_1}
    /\ firsts' = firsts + 1
    /\ proc' = [proc EXCEPT ![p].pc = AfterDirectory, ![p].major = MAJOR_VERSION_1]
    /\ UNCHANGED <<hasBlobs, blobs, versions, head, given, requests, acked, deletes>>

\* Without a head there is no file yet.
ReadLink(p) ==
    /\ At(p, "read_link")
    /\ proc' = [proc EXCEPT ![p].pc = IF head = 0 THEN "first" ELSE "reserve",
                            ![p].major = head, ![p].tries = 1]
    /\ UNCHANGED <<files, given, requests, aux>>

\* create_dir fails for a directory that is there.  (A slip to be told from it:
\* it does not, as create_dir_all.)
IsFreeOrMade(m) == TRUE

IsFree(m) == m \notin majors

\* One round of the loop that looks for a free major version.
Reserved(p, r) ==
    /\ there
    /\ IsFree(r.major + 1)
    /\ majors' = majors \cup {r.major + 1}
    /\ IF r.tries + 1 = MAX_TRIES
       THEN Done(p)
       ELSE proc' = [proc EXCEPT ![p].major = r.major + 1, ![p].pc = AfterDirectory]

\* It was there, or the object is gone.  After the last round inc_tries is
\* MAX_TRIES + 1, which is not what the check after the loop looks for.
Taken(p, r) ==
    /\ there
    /\ ~IsFree(r.major + 1)
    /\ proc' = [proc EXCEPT ![p].major = r.major + 1, ![p].tries = r.tries + 1,
                            ![p].pc = IF r.tries + 1 <= MAX_TRIES THEN "reserve" ELSE AfterDirectory]
    /\ UNCHANGED majors

Gone(p) ==
    /\ ~there
    /\ Done(p)
    /\ UNCHANGED majors

Reserve(p) ==
    /\ At(p, "reserve")
    /\ Reserved(p, proc[p]) \/ Taken(p, proc[p]) \/ Gone(p)
    /\ UNCHANGED <<there, hasBlobs, blobs, versions, head, given, requests, aux>>

\* rename replaces what is there.
Publish(p) ==
    LET r == proc[p]
    IN  /\ At(p, "rename")
        /\ IF r.ulid \in DOMAIN blobs /\ r.major \in majors
           THEN /\ versions' = Put(versions, r.major, blobs[r.ulid])
                /\ blobs' = Without(blobs, r.ulid)
                /\ proc' = [proc EXCEPT ![p] = [Idle EXCEPT !.major = r.major, !.data = blobs[r.ulid],
                                                            !.pc = "symlink"]]
           ELSE /\ UNCHANGED <<versions, blobs>>
                /\ Done(p)
        /\ UNCHANGED <<there, hasBlobs, majors, head, given, requests, aux>>

\* (A slip to be told from it: that there is a link already is no error.)
LinkUnlessThere(p) ==
    /\ At(p, "symlink")
    /\ IF there
       THEN head' = (IF head = 0 THEN proc[p].major ELSE head) /\ acked' = {proc[p].data}
       ELSE UNCHANGED <<head, acked>>
    /\ Done(p)
    /\ UNCHANGED <<there, hasBlobs, blobs, majors, versions, given, requests, firsts, deletes>>

\* symlink does not replace a link: the link stays on the first version.
LinkHead(p) ==
    /\ At(p, "symlink")
    /\ IF there /\ head = 0
       THEN head' = proc[p].major /\ acked' = {proc[p].data}
       ELSE UNCHANGED <<head, acked>>
    /\ Done(p)
    /\ UNCHANGED <<there, hasBlobs, blobs, majors, versions, given, requests, firsts, deletes>>

-----------------------------------------------------------------------------
(***************************************************************************)
(* delete: remove_dir_all removes the entries of the directory one by one, *)
(* in any order, and then the directory if it is empty.  Entries made in   *)
(* the meantime may be met or not.                                         *)
(***************************************************************************)
Entries ==
    (IF head # 0 THEN {<<"head", 0>>} ELSE {})
        \cup (IF hasBlobs THEN {<<"blobs", 0>>} ELSE {})
        \cup { <<"major", m>> : m \in majors }

StartDelete(p) ==
    /\ At(p, "delete")
    /\ IF there
       THEN proc' = [proc EXCEPT ![p].pc = "removing", ![p].todo = Entries]
       ELSE Done(p)
    /\ deletes' = deletes + 1
    /\ UNCHANGED <<files, given, requests, acked, firsts>>

RemoveEntry(p) ==
    /\ At(p, "removing")
    /\ \E e \in proc[p].todo \cup Entries :
          /\ proc' = [proc EXCEPT ![p].todo = @ \ {e}]
          /\ head' = IF e[1] = "head" THEN 0 ELSE head
          /\ hasBlobs' = (hasBlobs /\ e[1] # "blobs")
          /\ blobs' = IF e[1] = "blobs" THEN <<>> ELSE blobs
          /\ majors' = majors \ (IF e[1] = "major" THEN {e[2]} ELSE {})
          /\ versions' = [ m \in DOMAIN versions \cap majors' |-> versions[m] ]
    /\ UNCHANGED <<there, given, requests, aux>>

FinishDelete(p) ==
    /\ At(p, "removing")
    /\ proc[p].todo = {}
    /\ there' = (there /\ Entries # {})
    /\ Done(p)
    /\ UNCHANGED <<hasBlobs, blobs, majors, versions, head, given, requests, aux>>

\* The handler is dropped, or its process stops, between two steps.
Stop(p) ==
    /\ ~At(p, "idle")
    /\ Done(p)
    /\ UNCHANGED <<files, given, requests, aux>>

\* Every request there will be has been served.
Quiet ==
    /\ requests = MaxRequests
    /\ \A p \in Process : At(p, "idle")
    /\ UNCHANGED vars

Next ==
    \/ \E p \in Process :
          \/ Start(p) \/ MakeDirectory(p)
          \/ CreateBlobsDir(p) \/ WriteBlob(p) \/ NoBlobsDir(p) \/ NoVersion(p)
          \/ MakeFirst(p) \/ ReadLink(p) \/ Reserve(p) \/ Publish(p) \/ LinkHead(p)
          \/ StartDelete(p) \/ RemoveEntry(p) \/ FinishDelete(p)
          \/ Stop(p)
    \/ Quiet

Spec == Init /\ [][Next]_vars

-----------------------------------------------------------------------------
(***************************************************************************)
(* What download and list reply.                                           *)
(***************************************************************************)
\* The contents of the object, if there are any.  With a version in the
\* request download looks under _vers, where nothing is ever put.
Download(version) ==
    IF version = 0 /\ head \in DOMAIN versions THEN {versions[head]} ELSE {}

\* A directory with a head that leads somewhere is a file.
ListsAsFolder == there /\ head \notin DOMAIN versions

-----------------------------------------------------------------------------
(***************************************************************************)
(* Types.                                                                  *)
(***************************************************************************)
RequestId == 1 .. MaxRequests

MajorVersion == Nat \ {0}

Steps == {"idle", "make_directory", "blobs_dir", "blob", "no_version", "first", "read_link",
          "reserve", "rename", "symlink", "delete", "removing"}

ProcessState ==
    [ pc : Steps, op : Ops \cup {"none"}, id : 0 .. MaxRequests, token : Nat, ulid : Nat,
      data : Seq(RequestId), major : Nat, tries : 0 .. MAX_TRIES + 1,
      todo : SUBSET ({"head", "blobs", "major"} \X Nat) ]

FlagsOK == there \in BOOLEAN /\ hasBlobs \in BOOLEAN

CountsOK ==
    /\ minted \in Nat /\ tokens \subseteq 1 .. minted
    /\ requests \in 0 .. MaxRequests
    /\ acked \subseteq Seq(RequestId) /\ firsts \in Nat /\ deletes \in Nat

BlobsOK ==
    /\ DOMAIN blobs \subseteq 1 .. minted
    /\ \A ulid \in DOMAIN blobs : blobs[ulid] \in Seq(RequestId)
    /\ ~hasBlobs => DOMAIN blobs = {}

VersionsOK ==
    /\ majors \subseteq MajorVersion
    /\ DOMAIN versions \subseteq majors
    /\ \A m \in DOMAIN versions : versions[m] \in Seq(RequestId)
    /\ head \in Nat

ProcessesOK == proc \in [Process -> ProcessState]

\* The types of the state.  Blobs and versions are in directories that exist.
FileTypeOK == FlagsOK /\ CountsOK /\ BlobsOK /\ VersionsOK /\ ProcessesOK

-----------------------------------------------------------------------------
(***************************************************************************)
(* Safety.                                                                 *)
(***************************************************************************)
\* The version that the loop ends with when every directory it tried was there.
LAST_TRIED == MAJOR_VERSION_1 + MAX_TRIES

\* However many processes upload at the same time and whichever of them stop
\* half way, a version stays as it was written as long as nobody deletes the
\* object.  Two versions are not safe: the first, whose directory is not
\* reserved, and the last one tried.
VersionsStayWritten ==
    [][ deletes' = 0 =>
          \A m \in DOMAIN versions \ {MAJOR_VERSION_1, LAST_TRIED} :
              m \in DOMAIN versions' /\ versions'[m] = versions[m] ]_vars

\* The link is made after the version is in place, and stays on it.
HeadIsInPlace == deletes = 0 /\ head # 0 => head \in DOMAIN versions

\* An upload that ended well is what a download returns, and list takes the
\* object for a file, as long as nobody deletes it and no other upload found
\* the object without a head: that one replaces the first version.
AcknowledgedIsRead ==
    deletes = 0 /\ firsts = 1 /\ acked # {} => Download(0) = acked /\ ~ListsAsFolder

-----------------------------------------------------------------------------
(***************************************************************************)
(* The inductive invariant behind the properties.                          *)
(***************************************************************************)
\* What a handler knows at each of its steps.
HandlersOK ==
    \A p \in Process :
        /\ proc[p].token <= minted
        /\ proc[p].pc \in {"blobs_dir", "blob"} => proc[p].id \in RequestId
        /\ proc[p].pc = "reserve" => proc[p].tries \in 1 .. MAX_TRIES

\* Nobody removes entries before the first delete.
NothingRemoved == \A p \in Process : proc[p].pc # "removing"

Publishing == {"rename", "symlink"}

\* Until then the head is the first version, if there is a head, and the loop
\* has gone through the versions from there.  Only who found no head, or did
\* not look, goes for the first version.
HeadIsFirst ==
    /\ head \in {0, MAJOR_VERSION_1}
    /\ \A p \in Process :
          /\ proc[p].pc = "reserve" => head # 0 /\ proc[p].major = proc[p].tries
          /\ proc[p].pc \in Publishing => head # 0 \/ proc[p].major = MAJOR_VERSION_1
          /\ proc[p].pc \in Publishing /\ proc[p].major = MAJOR_VERSION_1 => firsts >= 1

IsReserved(m) == m \notin {MAJOR_VERSION_1, LAST_TRIED}

\* A version that was reserved is one handler's own, and is not there yet.
ReservationsApart ==
    \A p \in Process : proc[p].pc = "rename" /\ IsReserved(proc[p].major) =>
        /\ proc[p].major \in majors \ DOMAIN versions
        /\ \A q \in Process \ {p} : proc[q].pc = "rename" => proc[q].major # proc[p].major

\* What is linked to is there.
LinksInPlace ==
    /\ head # 0 => head \in DOMAIN versions
    /\ \A p \in Process : proc[p].pc = "symlink" => proc[p].major \in DOMAIN versions

\* When one upload went for the first version, that version is what this upload
\* has written, and what its client was told.
FirstIsOwn ==
    /\ firsts = 0 => acked = {}
    /\ firsts = 1 =>
        /\ \A p, q \in Process :
              /\ proc[p].pc \in Publishing /\ proc[p].major = MAJOR_VERSION_1
              /\ proc[q].pc \in Publishing /\ proc[q].major = MAJOR_VERSION_1
              => p = q
        /\ \A p \in Process :
              proc[p].pc = "symlink" /\ proc[p].major = MAJOR_VERSION_1
              => versions[MAJOR_VERSION_1] = proc[p].data
        /\ acked # {} =>
              /\ there /\ head = MAJOR_VERSION_1
              /\ acked = {versions[MAJOR_VERSION_1]}
              /\ \A p \in Process : proc[p].pc = "rename" => proc[p].major # MAJOR_VERSION_1

\* The safety of the versions rests on this.
IInv ==
    /\ FileTypeOK
    /\ HandlersOK
    /\ deletes = 0 =>
          /\ NothingRemoved /\ HeadIsFirst /\ ReservationsApart
          /\ LinksInPlace /\ FirstIsOwn

=============================================================================
