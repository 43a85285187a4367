--------------------------- MODULE MCHlsPipeline ---------------------------
(* Instance of HlsPipeline for TLC. *)
EXTENDS HlsPipeline

CONSTANTS a, b

=============================================================================
