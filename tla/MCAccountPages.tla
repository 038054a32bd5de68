--------------------------- MODULE MCAccountPages ---------------------------
(* Instances of AccountPages for TLC. *)
EXTENDS AccountPages, TLC

CONSTANTS c1, c2, k1

=============================================================================
