--------------------------- MODULE GuardedStorage ---------------------------
(***************************************************************************)
(* The storage driver together with the decisions of SimpleAuthz about its *)
(* operations and the times in its records.  Neither has state of its own: *)
(* what they say is a function of the request and of the clock.            *)
(***************************************************************************)
EXTENDS DatabaseStorage, Access, Time64

\* The call of the service that an operation of the driver belongs to.
CallOf(op) == IF op \in {"upload_part", "upload_next"} THEN "upload" ELSE op

\* SimpleAuthz allows "read-only authentication for any users, included
\* anonymous users": what it lets an anonymous user call changes neither the
\* tables nor the blob files, whichever way the request ends.
GuestsOnlyRead ==
    [][ IsAuthorized("ANONYMOUS", CallOf(reply'.op)) => UNCHANGED <<tables, files>> ]_vars

=============================================================================
