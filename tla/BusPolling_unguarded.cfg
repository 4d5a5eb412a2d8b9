SPECIFICATION Spec
CONSTANTS
  Run = {r1, r2, r3}
  Request = {}
  Awaited = FALSE
  Interval = 1
  FetchTimeout = 1
  WriteTime = 1
  ReadTime = 1
  DocTTL = 2
  DocSlack = 1
  MemTTL = 1
  Oldest = 4
INVARIANT OneRunAtATime
