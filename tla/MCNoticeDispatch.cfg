SPECIFICATION FairSpec
CONSTANTS
  n1 = n1
  n2 = n2
  n3 = n3
  n4 = n4
  t1 = t1
  t2 = t2
  Server = {api, poller}
  Poller = poller
  Notice = {n1, n4}
  Topic = {t1, t2}
  DedupKeyOf <- MCDedupKeyOf
  TopicsOf <- MCTopicsOf
  TopicCap = 2
  BatchCap = 2
  MaxAttempts = 2
  Lease = 2
  Timeout = 1
  MaxFaults = 1
INVARIANTS
  ClaimsDisjoint
  NoRepush
  DuplicatesExplained
  DeliveriesCapped
PROPERTY ImplementsPushOnce
PROPERTY EventuallyResolved
