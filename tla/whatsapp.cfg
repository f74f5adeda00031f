SPECIFICATION Spec
CONSTANTS
  Adapters = {a1, a2}
  Sessions = {p1, p2}
  Sockets = {s1, s2}
  None = None
  MaxAttempts = 1
  MaxRestarts = 1
  MaxServices = 2
  MaxCalls = 2
SYMMETRY Symmetry
INVARIANTS OneSocket StoppedStaysQuiet NeverSilentlyDeaf RegistryAgrees PairingKept
CHECK_DEADLOCK FALSE
