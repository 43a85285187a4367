SPECIFICATION Spec
CONSTANTS
  c1 = c1
  c2 = c2
  Clients = {c1, c2}
  Capacity = 1
  Verify = TRUE
  Breakable = {c1}
INVARIANTS TypeOK InSync Agreed
PROPERTIES HandshakeEnds CloseEndsServe GoneIsClosed
CHECK_DEADLOCK FALSE
