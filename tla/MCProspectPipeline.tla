--------------------------- MODULE MCProspectPipeline ---------------------------
(* ProspectPipeline for TLC. *)
EXTENDS ProspectPipeline, TLC

Symmetry == Permutations(Consultants) \cup Permutations(Requests) \cup Permutations(Notes) \cup Permutations(Names)

=============================================================================
