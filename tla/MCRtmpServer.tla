---------------------------- MODULE MCRtmpServer ----------------------------
(* Instance of RtmpServer for TLC. *)
EXTENDS RtmpServer

CONSTANTS c1, c2

=============================================================================
