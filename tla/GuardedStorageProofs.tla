------------------------ MODULE GuardedStorageProofs ------------------------
(***************************************************************************)
(* What anonymous users may call, for every instance of the driver.        *)
(***************************************************************************)
EXTENDS GuardedStorage, TLAPS

\* The operations of the driver that are open to anonymous users.
LEMMA OpenOperations ==
    \A op \in Operation : IsAuthorized("ANONYMOUS", CallOf(op)) => op \in {"download", "list"}
  BY DEF Operation, IsAuthorized, OpenToAll, CallOf

\* The other operations say in their replies that they are.
LEMMA OtherOperations ==
    ASSUME NEW dir \in Dir, NEW name \in Name,
           \/ MakeDirectory(dir, name) \/ UploadRequest(dir, name)
           \/ DeleteRequest(dir, name) \/ TransferRequest(dir, name)
    PROVE  reply'.op \in Operation \ {"download", "list"}
  <1>1. CASE MakeDirectory(dir, name)
    BY <1>1 DEF MakeDirectory, Refuse, Reply, Operation
  <1>2. CASE UploadRequest(dir, name)
    <2>1. PICK continuation \in Continuation :
             \/ UploadPart(dir, name, continuation) \/ UploadAbandoned(dir, name, continuation)
             \/ \E next \in BOOLEAN : \/ UploadRefused(dir, name, next, continuation)
                                      \/ Upload(dir, name, next, continuation)
      BY <1>2 DEF UploadRequest
    <2>2. reply'.op \in {"upload_part", "upload", "upload_next"}
      BY <2>1 DEF UploadPart, UploadAbandoned, UploadRefused, Upload, UploadOp, Reply
    <2> QED BY <2>2 DEF Operation
  <1>3. CASE DeleteRequest(dir, name)
    <2>1. reply'.op = "delete"
      BY <1>3 DEF DeleteRequest, DeleteRefused, DeleteEntry, DeleteFile, DeleteAbandoned, Refuse, Reply
    <2> QED BY <2>1 DEF Operation
  <1>4. CASE TransferRequest(dir, name)
    <2>1. reply'.op \in {"copy", "move"}
      BY <1>4 DEF TransferRequest, Copy, Move, Refuse, Reply
    <2> QED BY <2>1 DEF Operation
  <1> QED BY <1>1, <1>2, <1>3, <1>4

\* What SimpleAuthz lets an anonymous user call changes neither the tables nor
\* the blob files.
THEOREM GuestsDoNotWrite == Spec => GuestsOnlyRead
  <1> DEFINE Reads == IsAuthorized("ANONYMOUS", CallOf(reply'.op)) => UNCHANGED <<tables, files>>
  <1>1. Next => Reads
    <2> SUFFICES ASSUME NEW dir \in Dir, NEW name \in Name,
                        \/ MakeDirectory(dir, name) \/ UploadRequest(dir, name)
                        \/ ReadRequest(dir, name) \/ DeleteRequest(dir, name)
                        \/ TransferRequest(dir, name)
                 PROVE  Reads
      BY DEF Next
    <2>1. CASE ReadRequest(dir, name)
      <3>1. UNCHANGED <<tables, files>>
        BY <2>1 DEF ReadRequest, List, AppendData, Download
      <3> QED BY <3>1
    <2>2. CASE ~ReadRequest(dir, name)
      <3>1. reply'.op \in Operation \ {"download", "list"}
        BY <2>2, OtherOperations
      <3>2. ~IsAuthorized("ANONYMOUS", CallOf(reply'.op))
        BY <3>1, OpenOperations
      <3> QED BY <3>2
    <2> QED BY <2>1, <2>2
  <1>2. [Next]_vars => [Reads]_vars
    BY <1>1
  <1> QED BY <1>2, PTL DEF Spec, GuestsOnlyRead

=============================================================================
