SPECIFICATION Spec
CONSTANTS
  Ids = {c, d}
  Provs = {o}
  Versions = {1, 2, 3}
  Tasks = {t1, t2}
  None = None
INVARIANT ProvidersSaved
CHECK_DEADLOCK FALSE
