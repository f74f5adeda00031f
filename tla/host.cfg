SPECIFICATION AllSpec
CONSTANTS
  Services = {channel, mcp, web}
  Edges = {web}
  Mcp = mcp
  Servers = {x}
  Loads = {1, 2, 3, 4}
  None = None
  Callers = {r}
  Pipes = {p}
  MaxLines = 2
  Starts = {1, 2}
  Asks = {a1, a2}
  Posts = {p1, p2, p3}
  Hooks = {h, k}
  HookTargets = {t}
  MaxMs = 2
  SentTexts <- AllTexts
  MaxSize = 2
  MaxRetries = 1
  BreakAfter = 3
  MaxFollowed = 1
  MaxUpdates = 3
  MaxStarts = 1
  Items = {i, j}
  PageLists = {1, 2, 3}
  MaxText = 2
  Dirs <- SessionDirs
  Walks = {w}
  MaxMsgs = 1
  ChannelIds = {c, d}
  Provs = {o}
  Edits = {1, 2, 3}
  Tasks = {t1, t2}
  MediaFiles = {m}
  Calls = {c1, c2, c3}
INVARIANTS ReloadsFollow EndsAfterReply DialogFollows RunsAlone DeliversText NudgesBounded PairsTruly PagesKept ConfigKept CacheKept
CHECK_DEADLOCK FALSE
