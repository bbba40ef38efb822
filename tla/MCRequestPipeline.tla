------------------------- MODULE MCRequestPipeline -------------------------
(***************************************************************************)
(* Instances of RequestPipeline for TLC, with plain names.                 *)
(***************************************************************************)
EXTENDS RequestPipeline, TLC

MCPlain == [n \in Name |-> n]

PipelineSymmetry == Permutations(Ulid) \cup Permutations(Client) \cup Permutations(Name)

=============================================================================
