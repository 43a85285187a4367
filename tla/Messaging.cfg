SPECIFICATION Spec
CONSTANTS
  GoClients = {"g"}
  SwiftClients = {"s"}
  Senders = {"s1"}
  MaxConnects = 2
  Plans <- MCPlans
  MaxBeats = 1
  MaxCalls = 1
INVARIANTS TypeOK FramesIntact
 
CHECK_DEADLOCK FALSE
