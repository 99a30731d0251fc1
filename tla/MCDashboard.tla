----------------------------- MODULE MCDashboard -----------------------------
(***************************************************************************)
(* A grant of each of two families, with assertions of different           *)
(* lifetimes, so that a set expires in parts, under the dashboard.         *)
(***************************************************************************)
EXTENDS Dashboard, TLC

CONSTANTS sales, commit, claims, proposals, r1, r2

MCFamilyOf == [c \in Capabilities |-> IF c = claims THEN sales ELSE commit]
MCLifetimeOf == [c \in Capabilities |-> IF c = claims THEN 1 ELSE 2]

Symmetry == Permutations(Requests)

MCDefaults == <<commit, sales>>

=============================================================================
