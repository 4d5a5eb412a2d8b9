SPECIFICATION FairSpec
CONSTANTS
  Notice = {1, 2, 3, 4}
  Date = {2, 4, 6}
  StartDate = 3
  Wanted = {1, 2, 3, 4}
  AnyType = FALSE
  QueryLimit = {0, 2, 5}
  NoLimit = 5
  DefaultLimit = 3
  MaxLimit = 3
  MaxEdits = 2
INVARIANTS
  NoneSkipped
  NoneRepeated
PROPERTY ScrollEnds
