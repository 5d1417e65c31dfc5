SPECIFICATION Spec
CONSTANTS
  u1 = u1
  u2 = u2
  h1 = h1
  h2 = h2
  Kinds = {"recover"}
  Users = {u1, u2}
  Strict = {u1, u2}
  Lockable = {u1}
  Handlers = {h1, h2}
  None = None
  MaxAttempts = 1
  MaxTokens = 3
SYMMETRY Symmetry
CHECK_DEADLOCK FALSE
INVARIANTS
  TypeOK
  UsedTokenIsSpent
  AttemptsCounted
  OneLiveRequest
  NoWaitCycle
