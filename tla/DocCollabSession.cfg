SPECIFICATION Spec
VIEW ButCopies
CONSTANTS
  o1 = o1
  o2 = o2
  s1 = s1
  s2 = s2
  r1 = r1
  r2 = r2
  e1 = e1
  e2 = e2
  Owners = {o1, o2}
  Servants = {s1, s2}
  Requests = {r1, r2}
  Edits = {e1, e2}
  Original = Original
  Clear = Clear
  None = None
  Exclusive <- SessionMutex
  MaxRunning = 3
  Offers = {"save", "create", "disable", "fetch", "tabs", "expireUser"}
SYMMETRY Symmetry
CHECK_DEADLOCK FALSE
PROPERTIES
  ImplementsSession
