------------------------- MODULE MCDatabaseStorage -------------------------
(***************************************************************************)
(* Instances of DatabaseStorage for TLC.  A name stands for the strings    *)
(* that trim and the normalisation forms treat like it:                    *)
(*   "a", "b"        plain names, unchanged by all three                   *)
(*   "padded a"      "a" with white space around it                        *)
(*   "composed"      in form KC, e.g. with one precomposed letter          *)
(*   "decomposed"    the same name in form KD                              *)
(***************************************************************************)
EXTENDS DatabaseStorage, TLC

CONSTANT MaxDepth

ASSUME DepthAssumption == MaxDepth \in Nat

MCTrimmed == [n \in Name |-> IF n = "padded a" THEN "a" ELSE n]

MCNfkd == [n \in Name |-> IF n = "composed" THEN "decomposed" ELSE n]

MCNfkc == [n \in Name |-> IF n = "decomposed" THEN "composed" ELSE n]

\* All folder paths of at most MaxDepth components.
MCDir == UNION { [1 .. depth -> Name] : depth \in 0 .. MaxDepth }

\* Only the folder "a", at the root.
MCOneDir == {<<>>, <<"a">>}

UlidSymmetry == Permutations(Ulid)

=============================================================================
