SPECIFICATION AllSpec
CONSTANTS
  Tasks = {heartbeat, t1}
  Preset = {heartbeat}
  Heartbeat = heartbeat
  Delegates = {t1}
  Fires = {f1, f2}
  Calls = {c1, c2}
  Days = 2
  MaxLoads = 1
  None = None
  Templates = {a}
  Managed = {a}
  Procs = {p, q}
  MaxTries = 1
SYMMETRY Symmetry
INVARIANTS TypeOK LockBacked OneRunUnlessForced TimerFollowsEnabled DiskAgrees FilesKept
CHECK_DEADLOCK FALSE
