SPECIFICATION Spec
CONSTANTS
  u1 = u1
  h1 = h1
  Kinds = {"recover"}
  Users = {u1}
  Strict = {u1}
  Lockable = {}
  Handlers = {h1}
  None = None
  MaxAttempts = 1
  MaxTokens = 2
CHECK_DEADLOCK FALSE
PROPERTY StrictReuseLocks
