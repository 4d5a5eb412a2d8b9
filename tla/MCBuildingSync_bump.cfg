SPECIFICATION Spec
CONSTANTS
  b1 = b1
  i = i
  l = l
  d = d
  Process = {p}
  Building = {b1, b2}
  WithBuildNo = {b1}
  Space = {l}
  BuildingOf <- MCBuildingOf
  InInfo = {}
  InList = {l}
  MinBuildings = 1
  MinSpaces = 1
  MaxVersion = 1
  MaxCode = 2
  MaxAge = 1
  MaxFaults = 1
INVARIANT BumpReenrichesAll
