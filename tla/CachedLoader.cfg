SPECIFICATION FairSpec
CONSTANTS
  Caller = {c1, c2}
  Attempt = {a1, a2}
  None = None
  Failed = Failed
  TTL = 1
  StaleWindow = 1
  MaxLoad = 1
  MaxVersion = 2
  MaxClears = 1
INVARIANTS
  SingleFlight
  AnswersInOrder
  AgeBounded
PROPERTIES
  LoadsSpaced
  EveryCallAnswered
  EventuallyCurrent
