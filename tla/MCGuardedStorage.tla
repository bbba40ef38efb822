-------------------------- MODULE MCGuardedStorage --------------------------
(***************************************************************************)
(* Instances of GuardedStorage for TLC.  0 is the null byte, 1 a byte of a *)
(* string, and a string with a 2 in it is not UTF-8.                       *)
(***************************************************************************)
EXTENDS MCDatabaseStorage, GuardedStorage

MCStrings == UNION { [1 .. n -> {0, 1}] : n \in 0 .. 2 }

MCMalformed == { s \in UNION { [1 .. n -> {0, 1, 2}] : n \in 0 .. 3 } : \E i \in DOMAIN s : s[i] = 2 }

\* Databases of at most two users.
MCUsers == UNION { [users -> MCStrings] : users \in { U \in SUBSET MCStrings : Cardinality(U) <= 2 } }

\* What is said of times and of assertions does not depend on the state: TLC
\* evaluates it once, before it looks at any.
ASSUME TimesChecked == TimesInOrder /\ TimesListed

ASSUME AuthnChecked == PlainNamesOneUser

=============================================================================
