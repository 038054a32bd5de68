------------------------------ MODULE MCConsole ------------------------------
(* Instances of Console for TLC. *)
EXTENDS Console, TLC

CONSTANTS c1, c2, u1

=============================================================================
