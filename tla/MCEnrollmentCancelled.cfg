SPECIFICATION Spec
CONSTANTS
  e1 = e1
  c1 = c1
  Enrollments = {e1}
  Conversations = {c1}
  Nobody = nobody
INVARIANTS
  CancelledIsReported
CHECK_DEADLOCK FALSE
