---------------------------- MODULE MCChunkCodec ----------------------------
(* Instances of ChunkCodec for TLC. *)
EXTENDS ChunkCodec
CONSTANTS s1, s2, ctl
=============================================================================
