SPECIFICATION FairSpec
CONSTANTS
  b1 = b1
  i = i
  l = l
  d = d
  Process = {p}
  Building = {b1, b2}
  WithBuildNo = {b1}
  Space = {i, d}
  BuildingOf <- MCBuildingOf
  InInfo = {i, d}
  InList = {d}
  MinBuildings = 1
  MinSpaces = 1
  MaxVersion = 2
  MaxCode = 2
  MaxAge = 1
  MaxFaults = 2
INVARIANTS
  MetSpacesKept
PROPERTY LiveSpacesKept
INVARIANT Phase1Enriches
PROPERTY Converges
