SPECIFICATION Spec
CONSTANTS
  GoClients = {"g"}
  SwiftClients = {}
  Senders = {"s1"}
  MaxConnects = 1
  Plans <- MCAlone
  MaxBeats = 1
  MaxCalls = 0
INVARIANTS ServerStaysUp
CHECK_DEADLOCK FALSE
