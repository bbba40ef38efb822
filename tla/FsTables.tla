------------------------------ MODULE FsTables ------------------------------
(***************************************************************************)
(* The pure part of yeetbox-server/src/storage/database.rs: the records of *)
(* FS_TABLE and VER_TABLE, the encoding of their keys, and the walks that  *)
(* turn the folder part of a path into the id its children are keyed by.   *)
(* Times, owners and permissions are left out: nothing reads them back to  *)
(* decide anything.                                                        *)
(***************************************************************************)
EXTENDS Integers, Sequences

CONSTANTS
    Name,       \* the strings that clients send as path components
    Trimmed,    \* str::trim, as a function on Name
    Nfkd,       \* Unicode normalisation form KD, as a function on Name
    Nfkc,       \* Unicode normalisation form KC, as a function on Name
    Radix,      \* values of one byte of an id (an id has two bytes here)
    Ulid,       \* the names Ulid::new() can return
    NoUlid      \* the zeroed blob_ulid

\* What Unicode guarantees about the two normalisation forms.
ASSUME NameAssumption ==
    /\ Trimmed \in [Name -> Name]
    /\ Nfkd \in [Name -> Name]
    /\ Nfkc \in [Name -> Name]
    /\ \A n \in Name : Nfkd[Nfkd[n]] = Nfkd[n] /\ Nfkd[Nfkc[n]] = Nfkd[n]

ASSUME RadixAssumption == Radix \in Nat \ {0, 1}

ASSUME UlidAssumption == NoUlid \notin Ulid

-----------------------------------------------------------------------------
(***************************************************************************)
(* Ids.  bytes_of writes the id of a record in the byte order of the       *)
(* machine (little endian); every path walk reads those bytes back with    *)
(* from_be_bytes.  So the children of the folder with id i are keyed by    *)
(* the byte-swapped i, not by i.  A FileSystemId has eight bytes in the    *)
(* program and two here.                                                   *)
(***************************************************************************)
FileSystemId == 0 .. Radix * Radix - 1

ROOT_FSID == 0

\* (A slip to be told from it: only the first byte is read.)
ReadOneByte(id) == id % Radix

ReadBigEndian(id) == (id % Radix) * Radix + id \div Radix

\* The object types that some handler stores.
NORMAL_BLOB  == "normal_blob"
VERSION_BLOB == "version_blob"
FOLDER       == "folder"

ObjType == {NORMAL_BLOB, VERSION_BLOB, FOLDER}

IsReadable(type) == type \in {NORMAL_BLOB, VERSION_BLOB}

\* A key of FS_TABLE: the id of the parent as the walks read it, a name.
FsRecordKey == FileSystemId \X Name

FsRecordValue ==
    [ id             : FileSystemId,
      type           : ObjType,
      latest_version : Nat,
      blob_ulid      : Ulid \cup {NoUlid},
      name           : Name ]           \* the friendly name that list returns

\* A key of VER_TABLE: the id of the file and the version.
VersionRecordKey == FileSystemId \X Nat

\* make_key: names are stored in form KD.  (A slip: they are stored as sent.)
RawKey(parent, name) == <<parent, name>>

MakeKey(parent, name) == <<parent, Nfkd[name]>>

-----------------------------------------------------------------------------
(***************************************************************************)
(* A redb table is a partial function.  insert overwrites the value of an  *)
(* existing key.                                                           *)
(***************************************************************************)
EmptyTable == [key \in {} |-> key]

Insert(table, key, value) ==
    [k \in DOMAIN table \cup {key} |-> IF k = key THEN value ELSE table[k]]

Remove(table, key) == [k \in DOMAIN table \ {key} |-> table[k]]

-----------------------------------------------------------------------------
(***************************************************************************)
(* Path walks.  All of them follow the path from ROOT_FSID through folder  *)
(* records and fail on a missing component or on one that is not a folder; *)
(* they differ in the form of the names they look up: make_directory and   *)
(* upload use the bytes as the client sent them, descend_path uses form KD *)
(* and list uses form KC.                                                  *)
(***************************************************************************)
AsSent == [n \in Name |-> n]

NoFolder == -1

DescendPath(fs, path, form) ==
    LET IsFolder(key) == key \in DOMAIN fs /\ fs[key].type = FOLDER
        at[i \in 0 .. Len(path)] ==
            IF i = 0 THEN ROOT_FSID
            ELSE LET key == <<at[i - 1], form[path[i]]>>
                 IN  IF IsFolder(key) THEN ReadBigEndian(fs[key].id)
                                      ELSE NoFolder
    IN  at[Len(path)]

\* The friendly names that list returns for the folder whose children are
\* keyed by parent: a range scan from parent up to the next id.
Listing(fs, parent) ==
    { fs[key].name : key \in { k \in DOMAIN fs : parent <= k[1] /\ k[1] < parent + 1 } }

=============================================================================
