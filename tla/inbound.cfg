SPECIFICATION AllSpec
CONSTANTS
  Chats = {c1}
  Kinds = {"text", "media"}
  Loops = {l1, l2}
  MaxMsgs = 3
  MaxBatch = 2
  MaxAttempts = 1
  MaxFaults = 1
  MaxExpiries = 1
  Keys <- ChatAndTwoBelow
  Gens = {1, 2}
  Tools = {"agent.execute", "channel.send", "memory.search"}
  Strict <- Whitelists
  MaxEdits = 1
  None = None
SYMMETRY Symmetry
INVARIANTS TypeOK HandedInOrder Conserved OneLoop DeafIsReported DelegationKept
CHECK_DEADLOCK FALSE
