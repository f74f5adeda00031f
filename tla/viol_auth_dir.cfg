SPECIFICATION Spec
CONSTANTS
  Adapters = {a1, a2}
  Sessions = {p1, p2}
  Sockets = {s1, s2}
  None = None
  MaxAttempts = 1
  MaxRestarts = 1
  MaxServices = 2
  MaxCalls = 1
INVARIANT AuthDirFree
CHECK_DEADLOCK FALSE
