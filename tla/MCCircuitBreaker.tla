--------------------------- MODULE MCCircuitBreaker ---------------------------
(***************************************************************************)
(* Calls that overlap in a breaker with a window of four; the default of   *)
(* ten outcomes, five samples and one half only makes windows longer.      *)
(***************************************************************************)
EXTENDS CircuitBreaker

CONSTANTS c1, c2, c3

=============================================================================
