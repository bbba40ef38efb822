----------------------------- MODULE Transfers ------------------------------
(***************************************************************************)
(* The bytes of one file: a client that uploads it over a network that     *)
(* loses and delays, other clients that append to it, and a client that    *)
(* downloads it window by window (upload, append and download of           *)
(* storage/database.rs).  A handler runs under the mutex and is one step   *)
(* here; RequestPipeline has the steps in between.  What is new is data    *)
(* with a length: how much of it a write takes, which length a version     *)
(* records, and which bytes a download returns.                            *)
(*                                                                         *)
(* The uploading client sends its parts one by one, with the continuation  *)
(* token of the last reply, and sends a part again when it gives up on the *)
(* reply.  Attempts it has given up on may still reach the server.         *)
(***************************************************************************)
EXTENDS Integers, SequencesExt

CONSTANTS
    Plans,          \* the uploads of an instance: the sizes of the parts
    MaxBuf,         \* bytes that one write or read of tokio's File moves
    MAX_READ_SIZE,  \* bytes that one download allocates
    Word,           \* number of values of a u64
    Windows,        \* the lengths that the downloading client asks for
    MaxAttempts,    \* bound on the attempts of the uploading client
    MaxAppends      \* bound on the appends

ASSUME TransferAssumption ==
    /\ Plans \subseteq Seq(Nat \ {0})
    /\ \A plan \in Plans : plan # <<>>
    /\ MaxBuf \in Nat \ {0}
    /\ MAX_READ_SIZE \in Nat \ {0}
    /\ Word \in Nat \ {0}
    /\ Windows \subseteq Nat \ {0}
    /\ MaxAttempts \in Nat
    /\ MaxAppends \in Nat

\* u64::MAX in the length of a version: the file was sent in parts.
UNKNOWN_SIZE == Word - 1

\* The data of a message is a Vec in memory, and so shorter than 2^63 bytes.
ASSUME LengthAssumption ==
    \A plan \in Plans : \A i \in DOMAIN plan : plan[i] + MAX_READ_SIZE < Word

VARIABLES
    plan,           \* the sizes of the parts of the upload
    blobs,          \* the contents of the blob files, by ULID
    minted,         \* the ULIDs so far are 1 .. minted
    file,           \* the blob and the length in the version record
    part, token,    \* of the uploading client: what it sends next
    outcome,        \* what it knows of the upload
    attempts,       \* the number of requests it has sent
    pending,        \* the requests that the server may still handle
    reader,         \* the downloading client
    appends,        \* the number of appends so far
    base,           \* auxiliary: the contents of the blob at the commit
    torn            \* auxiliary: was a blob renamed and not committed?

client == <<part, token, outcome>>
vars   == <<plan, blobs, minted, file, client, attempts, pending, reader, appends, base, torn>>

Smaller(x, y) == IF x <= y THEN x ELSE y

NoToken == 0
NoFile  == [blob |-> 0, length |-> 0]

\* A byte is the number of its part and its position there; 0 is not a part.
PartData(i)     == [ j \in 1 .. plan[i] |-> <<i, j>> ]
AppendedData(n) == [ j \in 1 .. n |-> <<0, j>> ]

\* What one write takes of the data.
Taken(bytes) == SubSeq(bytes, 1, Smaller(Len(bytes), MaxBuf))

-----------------------------------------------------------------------------
(***************************************************************************)
(* Downloads.  A reply has data and the flag more, or is an error.         *)
(***************************************************************************)
IsKnown(version) == version.length # UNKNOWN_SIZE

Overflows(x, y) == x + y >= Word

Refused == [ok |-> FALSE, data |-> <<>>, more |-> FALSE]

\* The length is cut at the end of the version.  (A slip: it is not.)
UncutLength(version, offset, length) == length

CutLength(version, offset, length) ==
    IF IsKnown(version) /\ (offset + length) % Word > version.length
    THEN version.length - offset ELSE length

\* (Slips: the offset at the end is refused; the offset is not used.)
BeyondLastByte(version, offset) ==
    IsKnown(version) /\ offset > 0 /\ offset >= version.length

BeyondEnd(version, offset) ==
    IsKnown(version) /\ offset > 0 /\ offset > version.length

ReadFromStart(blob, offset, n) == SubSeq(blob, 1, Smaller(n, Len(blob)))

ReadFrom(blob, offset, n) == SubSeq(blob, offset + 1, Smaller(offset + n, Len(blob)))

DownloadWindow(version, blob, offset, length) ==
    IF BeyondEnd(version, offset) THEN Refused
    ELSE LET alloc == Smaller(CutLength(version, offset, length), MAX_READ_SIZE)
             bytes == ReadFrom(blob, offset, Smaller(alloc, MaxBuf))
         IN  [ok |-> TRUE, data |-> bytes, more |-> Len(bytes) = alloc]

\* A debug build panics when the sum of offset and length overflows.
DownloadOutcomes(version, blob, offset, length) ==
    {DownloadWindow(version, blob, offset, length)}
        \cup (IF IsKnown(version) /\ Overflows(offset, length) THEN {Refused} ELSE {})

-----------------------------------------------------------------------------
Init ==
    /\ plan \in Plans
    /\ blobs = <<>> /\ minted = 0 /\ file = NoFile
    /\ part = 1 /\ token = NoToken /\ outcome = "sending"
    /\ attempts = 0 /\ pending = {}
    /\ reader = [state |-> "idle", window |-> 0, got |-> <<>>]
    /\ appends = 0 /\ base = <<>> /\ torn = FALSE

\* The client sends its next part, or gives up on the reply and sends it again.
SendPart ==
    /\ outcome = "sending"
    /\ attempts < MaxAttempts
    /\ attempts' = attempts + 1
    /\ pending' = pending \cup {[id |-> attempts + 1, part |-> part, token |-> token]}
    /\ UNCHANGED <<plan, blobs, minted, file, client, reader, appends, base, torn>>

\* The blob of a is opened with create and append.
Blob(a) == IF a.token = NoToken THEN minted + 1 ELSE a.token

Content(ulid) == IF ulid \in DOMAIN blobs THEN blobs[ulid] ELSE <<>>

Stored(ulid, bytes) ==
    [ u \in DOMAIN blobs \cup {ulid} |-> IF u = ulid THEN bytes ELSE blobs[u] ]

\* (A slip: the blob is truncated.)
Truncated(a) == Taken(PartData(a.part))

Written(a) == Content(Blob(a)) \o Taken(PartData(a.part))

IsLast(a) == a.part = Len(plan)

\* The reply reaches the client unless it is lost or comes too late.
Reply(a, nextPart, nextToken, result) ==
    \/ /\ a.id = attempts
       /\ part' = nextPart /\ token' = nextToken /\ outcome' = result
    \/ UNCHANGED client

\* upload with incomplete set.
HandlePart(a) ==
    /\ ~IsLast(a)
    /\ blobs' = Stored(Blob(a), Written(a))
    /\ minted' = IF a.token = NoToken THEN minted + 1 ELSE minted
    /\ Reply(a, part + 1, Blob(a), "sending")
    /\ UNCHANGED <<file, base, torn>>

\* The last part when the name is taken: its data is written all the same.
RefuseUpload(a) ==
    /\ IsLast(a)
    /\ file # NoFile
    /\ blobs' = Stored(Blob(a), Written(a))
    /\ minted' = IF a.token = NoToken THEN minted + 1 ELSE minted
    /\ Reply(a, part, token, "refused")
    /\ UNCHANGED <<file, base, torn>>

\* A file in one message: its length is that of the message.
CommitSingle(a) ==
    /\ IsLast(a) /\ a.token = NoToken
    /\ file = NoFile
    /\ minted' = minted + 1
    /\ blobs' = Stored(minted', Written(a))
    /\ file' = [blob |-> minted', length |-> plan[a.part]]
    /\ base' = Written(a)
    /\ Reply(a, part, token, "done")
    /\ UNCHANGED torn

\* The blob of a with the part of a, renamed.
Renamed(a, to) ==
    [ u \in (DOMAIN blobs \ {a.token}) \cup {to} |-> IF u = to THEN Written(a) ELSE blobs[u] ]

\* A file in parts: the blob is renamed and its length is not recorded.  (A
\* slip: the version refers to the blob by the name it was opened under.)
CommitPartsStale(a) ==
    /\ IsLast(a) /\ a.token # NoToken
    /\ file = NoFile
    /\ minted' = minted + 1
    /\ blobs' = Renamed(a, minted')
    /\ file' = [blob |-> a.token, length |-> UNKNOWN_SIZE]
    /\ base' = Written(a)
    /\ Reply(a, part, token, "done")
    /\ UNCHANGED torn

CommitParts(a) ==
    /\ IsLast(a) /\ a.token # NoToken
    /\ file = NoFile
    /\ minted' = minted + 1
    /\ blobs' = Renamed(a, minted')
    /\ file' = [blob |-> minted', length |-> UNKNOWN_SIZE]
    /\ base' = Written(a)
    /\ Reply(a, part, token, "done")
    /\ UNCHANGED torn

\* The handler is dropped at its first await, and the blob created; or the
\* server stops when the data is written; or the handler is dropped at the
\* rename.  There is no reply.
StopAtOpen(a) ==
    /\ blobs' = Stored(Blob(a), Content(Blob(a)))
    /\ minted' = IF a.token = NoToken THEN minted + 1 ELSE minted
    /\ UNCHANGED <<file, client, base, torn>>

StopAtWrite(a) ==
    /\ blobs' = Stored(Blob(a), Written(a))
    /\ minted' = IF a.token = NoToken THEN minted + 1 ELSE minted
    /\ UNCHANGED <<file, client, base, torn>>

StopAtRename(a) ==
    /\ IsLast(a) /\ a.token # NoToken
    /\ file = NoFile
    /\ minted' = minted + 1
    /\ blobs' = Renamed(a, minted')
    /\ torn' = TRUE
    /\ UNCHANGED <<file, client, base>>

Handle(a) ==
    /\ pending' = pending \ {a}
    /\ \/ HandlePart(a) \/ RefuseUpload(a) \/ CommitSingle(a) \/ CommitParts(a)
       \/ StopAtOpen(a) \/ StopAtWrite(a) \/ StopAtRename(a)
    /\ UNCHANGED <<plan, attempts, reader, appends>>

\* append: the record of the new version is not committed.
AppendData(n) ==
    /\ file # NoFile
    /\ appends < MaxAppends
    /\ appends' = appends + 1
    /\ blobs' = [blobs EXCEPT ![file.blob] = @ \o Taken(AppendedData(n))]
    /\ UNCHANGED <<plan, minted, file, client, attempts, pending, reader, base, torn>>

-----------------------------------------------------------------------------
(***************************************************************************)
(* A client that downloads the file from its start, window by window.  It  *)
(* stops when a window is empty or comes without the flag more.            *)
(***************************************************************************)
StartReading(window) ==
    /\ reader.state = "idle"
    /\ file # NoFile
    /\ reader' = [reader EXCEPT !.state = "reading", !.window = window]
    /\ UNCHANGED <<plan, blobs, minted, file, client, attempts, pending, appends, base, torn>>

ReadWindow ==
    /\ reader.state = "reading"
    /\ \E r \in DownloadOutcomes(file, blobs[file.blob], Len(reader.got), reader.window) :
          reader' = [reader EXCEPT !.got = @ \o r.data,
                                   !.state = IF ~r.ok THEN "failed"
                                             ELSE IF r.data = <<>> \/ ~r.more THEN "stopped"
                                             ELSE "reading"]
    /\ UNCHANGED <<plan, blobs, minted, file, client, attempts, pending, appends, base, torn>>

Next ==
    \/ SendPart
    \/ \E a \in pending : Handle(a)
    \/ \E n \in 1 .. MaxBuf : AppendData(n)
    \/ \E window \in Windows : StartReading(window)
    \/ ReadWindow

Spec == Init /\ [][Next]_vars

\* The downloading client goes on, and its requests are answered.
FairSpec == Spec /\ WF_vars(ReadWindow)

-----------------------------------------------------------------------------
(***************************************************************************)
(* Types.                                                                  *)
(***************************************************************************)
Byte == (0 .. Len(plan)) \X (Nat \ {0})

Attempt == [id : 1 .. attempts, part : DOMAIN plan, token : 0 .. minted]

\* The types of the state.  The blob of a version is there.
TransfersTypeOK ==
    /\ plan \in Plans
    /\ minted \in Nat /\ attempts \in 0 .. MaxAttempts /\ appends \in 0 .. MaxAppends
    /\ DOMAIN blobs \subseteq 1 .. minted
    /\ \A ulid \in DOMAIN blobs : blobs[ulid] \in Seq(Byte)
    /\ file # NoFile => file.blob \in DOMAIN blobs /\ file.length \in 1 .. UNKNOWN_SIZE
    /\ part \in DOMAIN plan /\ token \in 0 .. minted
    /\ outcome \in {"sending", "done", "refused"}
    /\ pending \subseteq Attempt
    /\ reader \in [state : {"idle", "reading", "stopped", "failed"},
                   window : Windows \cup {0}, got : Seq(Byte)]
    /\ base \in Seq(Byte)
    /\ torn \in BOOLEAN

-----------------------------------------------------------------------------
(***************************************************************************)
(* Safety.                                                                 *)
(***************************************************************************)
\* Every part fits in one write.
PartsFit == \A i \in DOMAIN plan : plan[i] <= MaxBuf

\* The parts first .. final are in bytes one after the other, perhaps with
\* repeated parts in between.
HasParts(bytes, first, final) ==
    \E at \in [first .. final -> 0 .. Len(bytes)] :
        /\ \A i \in DOMAIN at :
              /\ at[i] + plan[i] <= Len(bytes)
              /\ SubSeq(bytes, at[i] + 1, at[i] + plan[i]) = PartData(i)
        /\ \A i \in DOMAIN at : i > first => at[i - 1] + plan[i - 1] <= at[i]

\* An upload that the client knows to be done has every part, in order, and
\* ends with the last, however often parts were sent again and whenever the
\* attempts that were given up arrived.  A file in one message has it once.
\* This needs parts that fit in a write; and if a handler was dropped between
\* its rename and its commit, only the last part is sure to be there.
UploadIsWhole ==
    outcome = "done" /\ PartsFit =>
        /\ HasParts(base, IF torn THEN Len(plan) ELSE 1, Len(plan))
        /\ IsSuffix(PartData(Len(plan)), base)
        /\ Len(plan) = 1 => base = PartData(1)

\* The bytes that a download returns at most.
OneRead == Smaller(MaxBuf, MAX_READ_SIZE)

\* A version with a length ends there: whatever is appended to its blob later,
\* a window has the next bytes of what was committed, up to what one read
\* returns, and nothing beyond.  This needs data that fitted in a write, and an
\* offset and length whose sum does not overflow.
VersionKeepsItsEnd ==
    file # NoFile /\ IsKnown(file) /\ PartsFit =>
        \A offset, length \in 0 .. Word - 1 :
            \A r \in DownloadOutcomes(file, blobs[file.blob], offset, length) :
                r.ok /\ ~Overflows(offset, length) =>
                    r.data = SubSeq(base, offset + 1, Smaller(offset + Smaller(length, OneRead), Len(base)))

\* A client that asks for windows of at most one read gets every byte of the
\* committed version, in order and once; of a file with a length nothing else,
\* of one without a length perhaps what was appended meanwhile.
ReaderGetsVersion ==
    reader.state = "stopped" /\ reader.window <= OneRead =>
        /\ IsPrefix(base, reader.got)
        /\ IsPrefix(reader.got, blobs[file.blob])
        /\ IsKnown(file) /\ PartsFit => reader.got = base

-----------------------------------------------------------------------------
(***************************************************************************)
(* The inductive invariant behind the safety properties.                   *)
(***************************************************************************)
\* Of the attempts that the server may still handle one at most is the one
\* whose reply the client waits for.
AttemptsOK ==
    /\ part = 1 <=> token = NoToken
    /\ \A a, b \in pending : a.id = b.id => a = b
    /\ \A a \in pending : a.id = attempts => outcome = "sending" /\ a.part = part /\ a.token = token

\* No token leads to the blob of the version: it only grows, and keeps what was
\* committed.
FileOK ==
    file # NoFile =>
        /\ file.blob # token /\ \A a \in pending : a.token # file.blob
        /\ IsPrefix(base, blobs[file.blob])
        /\ IsKnown(file) =>
              file.length = plan[Len(plan)] /\ Len(base) = Smaller(file.length, MaxBuf)

\* The blob of the token that the client was given last has the parts before
\* the one that it sends next, until one of its attempts has renamed it.
PartsOK ==
    /\ outcome = "done" => file # NoFile
    /\ outcome = "sending" /\ token # NoToken /\ file = NoFile /\ ~torn =>
          /\ token \in DOMAIN blobs
          /\ PartsFit => HasParts(blobs[token], 1, part - 1)

\* The downloading client has the beginning of the blob, and of a version with
\* a length no more than that.
ReaderOK ==
    /\ reader.state = "idle" => reader.got = <<>>
    /\ reader.state # "idle" =>
          /\ file # NoFile /\ reader.window \in Windows
          /\ IsPrefix(reader.got, blobs[file.blob])
          /\ reader.window <= OneRead /\ IsKnown(file) => Len(reader.got) <= file.length
          /\ reader.window <= OneRead /\ reader.state = "stopped" => IsPrefix(base, reader.got)

\* All that the safety properties rest on.
TransfersIInv ==
    /\ TransfersTypeOK /\ AttemptsOK /\ FileOK /\ PartsOK /\ ReaderOK /\ UploadIsWhole

-----------------------------------------------------------------------------
(***************************************************************************)
(* Liveness.                                                               *)
(***************************************************************************)
\* A client that stops at an empty window does stop, and its last request,
\* which may be for the offset at the end of the file, is not refused.
ReaderStops == reader.state = "reading" ~> reader.state = "stopped"

-----------------------------------------------------------------------------
(***************************************************************************)
(* What the protocol promises and the server does not do.                  *)
(***************************************************************************)
\* remotefs.proto, DownloadResult.more: "Returned if there is more data after
\* the offset + data.length."
MoreMeansMore ==
    file # NoFile =>
        LET end == IF IsKnown(file) THEN file.length ELSE Len(blobs[file.blob])
        IN  \A offset \in 0 .. end, length \in 1 .. OneRead :
                \A r \in DownloadOutcomes(file, blobs[file.blob], offset, length) :
                    r.ok => (r.more <=> offset + Len(r.data) < end)

=============================================================================
