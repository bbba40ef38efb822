---------------------------- MODULE MCTransfers -----------------------------
(***************************************************************************)
(* Instances of Transfers for TLC.                                         *)
(***************************************************************************)
EXTENDS Transfers

\* One message that a write takes and one that it does not, two and three
\* parts.
MCPlans == {<<1>>, <<2>>, <<3>>, <<2, 1>>, <<1, 3>>, <<1, 2, 1>>}

=============================================================================
