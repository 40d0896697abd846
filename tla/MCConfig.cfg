SPECIFICATION Spec
CONSTANTS
  a1 = a1  a2 = a2  o1 = o1  o2 = o2  g1 = g1  g2 = g2
  Accounts = {a1, a2}
  Owners = {o1, o2}
  Agents = {g1, g2}
  Dirs = {"user", "system", "d"}
  KeySets <- MCKeySets
  InitialRows <- MCRows
  Other = Other
  None = None
  MaxEdits = 2
  MaxDoors = 3
SYMMETRY Swaps
INVARIANTS HostKept AccountsAgree
PROPERTIES GrantsFollow RoutesKept
CHECK_DEADLOCK FALSE
