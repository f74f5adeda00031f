SPECIFICATION Spec
CONSTANTS
  Chats = {c1}
  Msgs = {m1, m2}
  CrossSends = {}
  None = None
  Nudge = Nudge
  MaxCompactions = 0
INVARIANT OneRunPerChat
CHECK_DEADLOCK FALSE
