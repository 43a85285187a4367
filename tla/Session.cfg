SPECIFICATION Spec
CONSTANTS
  u1 = u1
  u2 = u2
  Users = {u1, u2}
  NoUser = NoUser
  MaxMessageStreams = 2
  MaxCreates = 2
  MaxMedia = 1
  Rejects = TRUE
  Breaks = TRUE
INVARIANTS TypeOK TablesAgree  MediaOfPublication
 
CHECK_DEADLOCK FALSE
