-------------------------- MODULE MCProposalHandoff --------------------------
(***************************************************************************)
(* A session each of two consultants may start for Commit or for another   *)
(* capability, and two more requests than proposals are needed to overlap. *)
(***************************************************************************)
EXTENDS ProposalHandoff, TLC

CONSTANTS Legal, c1, c2, s1, s2, q1, q2, p1, p2

Symmetry == Permutations({c1, c2}) \cup Permutations({s1, s2})
            \cup Permutations({q1, q2}) \cup Permutations({p1, p2})

=============================================================================
