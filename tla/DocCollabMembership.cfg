SPECIFICATION NotedSpec
VIEW Distinguished
CONSTANTS
  o1 = o1
  s1 = s1
  s2 = s2
  r1 = r1
  r2 = r2
  e1 = e1
  e2 = e2
  Owners = {o1}
  Servants = {s1, s2}
  Requests = {r1, r2}
  Edits = {e1, e2}
  Original = Original
  Clear = Clear
  None = None
  Exclusive <- MembershipMutex
  MaxRunning = 2
  Offers = {"save", "create", "disable", "enable", "again", "fetch"}
SYMMETRY Symmetry
CHECK_DEADLOCK FALSE
INVARIANTS
  ListedAreConnected
  LockFreed
  TableLocked
  NoMissedEditUncrossed
