SPECIFICATION AskSpec
CONSTANTS
  None = None
  Broken = Broken
INVARIANTS
  EtasAtTheirStations
