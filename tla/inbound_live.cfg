SPECIFICATION Spec
CONSTANTS
  Chats = {c1, c2}
  Kinds = {"text", "media", "other"}
  Loops = {l1, l2}
  MaxMsgs = 2
  MaxBatch = 2
  MaxAttempts = 1
  MaxFaults = 1
  MaxExpiries = 1
PROPERTY EventuallyHandled
CHECK_DEADLOCK FALSE
