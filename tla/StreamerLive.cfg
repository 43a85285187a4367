SPECIFICATION FairSpec
CONSTANTS
  c1 = c1
  c2 = c2
  s1 = s1
  s2 = s2
  s3 = s3
  Callers = {c1, c2}
  Timed = {c2}
  ChunkStreamIDs = {s1, s2}
  MaxChunkStreams = 2
  Capacity = 2
  MaxChunks = 2
  Overlapping = FALSE
  WritesFail = FALSE
  EncodesFail = FALSE
  Closes = TRUE
PROPERTIES ScheduledIsWritten WriteReturns CloseEndsRun
CHECK_DEADLOCK FALSE
