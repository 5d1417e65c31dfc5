SPECIFICATION Spec
CONSTANTS
  u1 = u1
  u2 = u2
  h1 = h1
  h2 = h2
  Kinds = {"verify"}
  Users = {u1, u2}
  Strict = {}
  Lockable = {}
  Handlers = {h1, h2}
  None = None
  MaxAttempts = 1
  MaxTokens = 2
SYMMETRY Symmetry
CHECK_DEADLOCK FALSE
INVARIANT CountDeletedWithRequest
