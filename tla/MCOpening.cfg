SPECIFICATION OpeningSpec
CONSTANTS
  Roles = {"runtime", "setup", "resolve"}
  ServiceWait = 3
  MaxChanges = 3
  Rooms = {"r1", "r2"}
INVARIANTS SetupIsChecked NothingLeftOpen OpenedFresh
PROPERTIES StartDue EndsAnyhow
CHECK_DEADLOCK FALSE
