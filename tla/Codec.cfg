SPECIFICATION Spec
CONSTANTS
  s1 = s1
  s2 = s2
  ctl = ctl
  Streams = {s1}
  Control = ctl
  Timestamps = {0, 1, 2}
  StampModulus = 5
  StreamIDs = {1, 2}
  Lengths = {1, 2}
  Sizes = {1, 2, 4}
  MaxChunkSize = 2
  DefaultChunkSize = 1
  ProtocolMax = 3
  MaxMessages = 4
  MaxWire = 2
INVARIANTS TypeOK InStep
PROPERTIES Delivered
CHECK_DEADLOCK FALSE
