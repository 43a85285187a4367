SPECIFICATION Spec
CONSTANTS
  a = a
  b = b
  Channels = {a, b}
  None = None
  Failing = {b}
INVARIANTS TypeOK OwnStream StopsMatchReady JoinsInOrder
PROPERTIES AloneIsServed
CHECK_DEADLOCK FALSE
