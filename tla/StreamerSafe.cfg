SPECIFICATION Spec
CONSTANTS
  c1 = c1
  c2 = c2
  s1 = s1
  s2 = s2
  s3 = s3
  Callers = {c1, c2}
  Timed = {c2}
  ChunkStreamIDs = {s1, s2, s3}
  MaxChunkStreams = 2
  Capacity = 1
  MaxChunks = 2
  Overlapping = TRUE
  WritesFail = TRUE
  EncodesFail = TRUE
  Closes = TRUE
SYMMETRY Symmetry
INVARIANTS TypeOK HeldOnce RoomForWriters MessageIntact
CHECK_DEADLOCK FALSE
