------------------------------ MODULE MCRelay ------------------------------
(* An instance of Relay for TLC. *)
EXTENDS Relay

CONSTANTS c1, c2, c3, ch, k1

=============================================================================
