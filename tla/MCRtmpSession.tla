--------------------------- MODULE MCRtmpSession ---------------------------
(* Instances of RtmpSession for TLC. *)
EXTENDS RtmpSession

CONSTANTS u1, u2

=============================================================================
