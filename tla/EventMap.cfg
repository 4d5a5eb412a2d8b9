SPECIFICATION FairSpec
CONSTANTS
  Route = {"overlays"}
  None = None
  Failed = Failed
  TTL = 1
  Window = 1
  MaxLoad = 1
  MaxLeft = 2
INVARIANTS
  ConfigFollows
  RoutesFollow
PROPERTIES
  RequestsAnswered
  CatchesUp
