------------------------------- MODULE Access -------------------------------
(***************************************************************************)
(* Who may call what: SimpleAuth (yeetbox-server/src/authn.rs) and         *)
(* SimpleAuthz (src/authz/simple.rs).  Both are constructed in main.rs;    *)
(* the service does not ask them yet, and no code makes a Session, so they *)
(* are functions here: of an assertion, and of a mechanism and a call.     *)
(***************************************************************************)
EXTENDS Integers, Sequences, FiniteSets

CONSTANTS
    Byte,           \* the bytes of an assertion
    NUL,            \* the byte 0
    Malformed,      \* strings that are not UTF-8
    Users,          \* the databases: functions from user names to passwords
    MaxAssertion    \* the longest assertion that is looked at (1000 bytes)

ASSUME AccessAssumption ==
    /\ NUL \in Byte
    /\ MaxAssertion \in Nat
    /\ Malformed \subseteq Seq(Byte)
    /\ \A db \in Users : \A user \in DOMAIN db : user \notin Malformed /\ db[user] \notin Malformed

-----------------------------------------------------------------------------
(***************************************************************************)
(* SimpleAuth::attempt_authn.                                              *)
(***************************************************************************)
Nulls(assertion) == { i \in DOMAIN assertion : assertion[i] = NUL }

\* What splitting an assertion at its two nulls gives.
Fields(assertion) ==
    LET first  == CHOOSE i \in Nulls(assertion) : \A j \in Nulls(assertion) : i <= j
        second == CHOOSE i \in Nulls(assertion) : \A j \in Nulls(assertion) : j <= i
    IN  [ authzid |-> SubSeq(assertion, 1, first - 1),
          authcid |-> SubSeq(assertion, first + 1, second - 1),
          passwd  |-> SubSeq(assertion, second + 1, Len(assertion)) ]

Matches(db, authcid, passwd) == authcid \in DOMAIN db /\ db[authcid] = passwd

\* The PLAIN mechanism: whom the assertion speaks for is checked first, then
\* that the strings are UTF-8, then the password.
Plain(db, assertion) ==
    LET f == Fields(assertion)
    IN  IF Len(assertion) > MaxAssertion \/ Cardinality(Nulls(assertion)) # 2 THEN "reject"
        ELSE IF Len(f.authzid) > 0 /\ f.authzid # f.authcid THEN "reject"
        ELSE IF {f.authcid, f.passwd} \cap Malformed # {} THEN "error"
        ELSE IF Matches(db, f.authcid, f.passwd) THEN "accept" ELSE "reject"

AttemptAuthn(db, mechanism, assertion) ==
    CASE mechanism = "ANONYMOUS" -> "accept"
      [] mechanism = "PLAIN"     -> Plain(db, assertion)
      [] OTHER                   -> "reject"

-----------------------------------------------------------------------------
(***************************************************************************)
(* SimpleAuthz.                                                            *)
(***************************************************************************)
\* What it lets everybody do.  (A slip: the source of a copy is only read.)
OpenOrCopy == {"download", "list", "get_attributes", "get_service_info", "copy"}

OpenToAll == {"download", "list", "get_attributes", "get_service_info"}

Call ==
    OpenToAll \cup
    { "watch_many", "make_directory", "upload", "append", "patch", "delete", "move", "copy",
      "list_incomplete_uploads", "get_presigned_download", "get_presigned_upload",
      "watch_once", "set_attributes", "get_audit_trail", "start_transaction",
      "commit_transaction", "abort_transaction", "create_link", "unlink" }

\* The decision for delete_many is unimplemented!().
IsAuthorized(mechanism, call) ==
    call \in Call /\ (call \in OpenToAll \/ mechanism # "ANONYMOUS")

-----------------------------------------------------------------------------
\* The assertions with which a client means to log in as a user: RFC 4616, with
\* or without the name it acts as.
Meant(user, passwd) == { <<NUL>> \o user \o <<NUL>> \o passwd,
                         user \o <<NUL>> \o user \o <<NUL>> \o passwd }

Plainly(text) == NUL \notin { text[i] : i \in DOMAIN text }

Assertions == UNION { [1 .. n -> Byte] : n \in 0 .. MaxAssertion + 1 }

\* PLAIN accepts what a user of the database would send, and nothing that can
\* be read in another way: with empty names and passwords, with a null inside
\* of them, with a null more or less.
PlainNamesOneUser ==
    \A db \in Users, assertion \in Assertions :
        AttemptAuthn(db, "PLAIN", assertion) = "accept"
        <=> /\ Len(assertion) <= MaxAssertion
            /\ \E user \in DOMAIN db :
                  /\ Plainly(user) /\ Plainly(db[user])
                  /\ assertion \in Meant(user, db[user])

=============================================================================
