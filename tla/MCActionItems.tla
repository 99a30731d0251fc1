---------------------------- MODULE MCActionItems ----------------------------
(* ActionItems, with the prospects under it, for TLC. *)
EXTENDS ActionItems, TLC

Symmetry ==
    Permutations(Consultants) \cup Permutations(Requests) \cup Permutations(Notes)
        \cup Permutations(Names) \cup Permutations(Texts)

=============================================================================
