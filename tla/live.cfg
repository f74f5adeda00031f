SPECIFICATION AllSpec
CONSTANTS
  Chats = {c1}
  Msgs = {m1, m2}
  CrossSends = {}
  None = None
  Nudge = Nudge
  MaxCompactions = 1
  Boots = {1, 2, 3}
  NoBoot = NoBoot
INVARIANT NoStrayBoot
PROPERTIES KeepsContract EveryRequestSealed StopsWhenTold
CHECK_DEADLOCK FALSE
