SPECIFICATION MCSpec
CONSTANTS
  e1 = e1
  c1 = c1
  Enrollments = {e1, e2}
  Conversations = {c1, c2}
  Nobody = nobody
INVARIANTS
  NoWins
  TokenAccounted
  DoneIsWritten
  OnePerConversation
PROPERTIES
  AccountKept
  LeaseEnds
CHECK_DEADLOCK FALSE
