SPECIFICATION AllSpec
CONSTANTS
  Insts = {1, 2}
  Callers = {r}
  MaxLoads = 2
  MaxChanges = 1
  MaxRestarts = 1
  MaxPolls = 1
  Notes = {f}
  Transcripts = {s}
  Versions = {1, 2}
  CutInto <- OddIsLonger
  MaxPieces = 2
  DocLines = 1
  Jobs = {j1, j2}
  Nobody = Nobody
SYMMETRY Symmetry
INVARIANTS ConsoleFollows IndexKept
CHECK_DEADLOCK FALSE
