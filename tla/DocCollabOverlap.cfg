SPECIFICATION Spec
SYMMETRY Symmetry
CONSTANTS
  o1 = o1
  s1 = s1
  r1 = r1
  r2 = r2
  e1 = e1
  Owners = {o1}
  Servants = {s1}
  Requests = {r1, r2}
  Edits = {e1}
  Original = Original
  Clear = Clear
  None = None
  Exclusive <- NoMutex
  MaxRunning = 2
  Offers = {"save", "force", "create", "disable", "enable", "empty", "bin", "crash", "expire"}
CHECK_DEADLOCK FALSE
INVARIANTS
  TypeOK
  TableImpliesShare
  RefusedLeavesNoTrace
PROPERTIES
  NeverEmptied
