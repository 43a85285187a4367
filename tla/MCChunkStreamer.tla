--------------------------- MODULE MCChunkStreamer ---------------------------
(* Instances of ChunkStreamer for TLC. *)
EXTENDS ChunkStreamer, TLC

CONSTANTS c1, c2, s1, s2, s3

\* Chunk streams are alike; so are they for the safety runs only.
Symmetry == Permutations(ChunkStreamIDs)

=============================================================================
