SPECIFICATION FairSpec
CONSTANTS
  Run = {r1, r2}
  Request = {q1, q2}
  Awaited = FALSE
  Interval = 2
  FetchTimeout = 1
  WriteTime = 1
  ReadTime = 0
  DocTTL = 6
  DocSlack = 0
  MemTTL = 2
  Oldest = 10
INVARIANTS
  AgeBounded
  BackwardsBounded
PROPERTY EventuallyFresh
