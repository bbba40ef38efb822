--------------------------- MODULE MCFileStorage ----------------------------
(***************************************************************************)
(* Instances of FileStorage for TLC.                                       *)
(***************************************************************************)
EXTENDS FileStorage, TLC

ProcessSymmetry == Permutations(Process)

=============================================================================
