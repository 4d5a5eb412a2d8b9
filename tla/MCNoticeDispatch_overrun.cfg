SPECIFICATION Spec
CONSTANTS
  n1 = n1
  n2 = n2
  n3 = n3
  n4 = n4
  t1 = t1
  t2 = t2
  Server = {api, poller}
  Poller = poller
  Notice = {n1, n2, n3}
  Topic = {t1, t2}
  DedupKeyOf <- MCDedupKeyOf
  TopicsOf <- MCTopicsOf
  TopicCap = 2
  BatchCap = 3
  MaxAttempts = 1
  Lease = 0
  Timeout = 1
  MaxFaults = 0
INVARIANTS
  PushedMeansAnnounced
  DuplicatesBounded
SYMMETRY ServerSymmetry
