SPECIFICATION Spec
CONSTANTS
  o1 = o1
  s1 = s1
  r1 = r1
  e1 = e1
  Owners = {o1}
  Servants = {s1}
  Requests = {r1}
  Edits = {e1}
  Original = Original
  Clear = Clear
  None = None
  Exclusive <- NoMutex
  MaxRunning = 1
  Offers = {"save", "create", "disable", "enable"}
CHECK_DEADLOCK FALSE
INVARIANTS
  DisableFindsTable
