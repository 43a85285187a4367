SPECIFICATION Spec
CONSTANTS
  StampModulus = 1073741824
  Word = 65536
  Media <- MCMedia
  Controls <- MCControls
  Commands <- MCCommands
  Openings <- MCOpenings
  Sizes = {100, 200}
  MaxChunkSize = 128
  MaxWindow = 1000
  SelfWindow = 260
  IgnoreNotExist = TRUE
  Threshold = 2
  MaxCalls = 4
  MaxUnder = 2
INVARIANTS TypeOK ReadAsWritten CalledAsAsked LoopsSurvive
CHECK_DEADLOCK FALSE
