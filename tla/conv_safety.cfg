SPECIFICATION Spec
CONSTANTS
  Chats = {c1}
  Msgs = {m1, m2, m3}
  CrossSends = {m1, m2, m3}
  None = None
  Nudge = Nudge
  MaxCompactions = 1
SYMMETRY Symmetry
INVARIANTS TypeOK SlotBacked ActiveBacked TypingOwned SealedAfterClose NoDoubleReply
CHECK_DEADLOCK FALSE
