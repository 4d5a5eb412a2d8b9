SPECIFICATION MCSpec
CHECK_DEADLOCK FALSE
CONSTANTS
  None = None
  Broken = Broken
  Null = Null
  Announcement = {a1, a2, a3}
  WellFormed = {a1, a2}
  FeedLimit = 1
  MaxSend = 3
  r1 = r1
  r2 = r2
  Process = {r1, r2}
  Client = {c1, c2}
  SeedAds <- DefaultAds
  OwnAds <- AdsOfOps
  CacheTtl = 2
  MaxClock = 2
  MaxEdits = 1
  Illegible = Broken
  Run = {r1, r2}
  Command = {"c1", "c2"}
  Place = {"a", "b"}
  Field = {"title", "detail"}
  Sheet <- TwoSheets
  PlaceByHand <- OtherContent
  Minutes = {1}
  Replica = {"s1"}
  Service = {"inja"}
  Weekday = {1, 2}
  TimetableFile <- ThreeTables
  TableByHand <- TypedDocuments
  WeekTtl = 1
  MaxQueries = 1
  MaxImportClock = 1
  MaxTableClock = 2
SYMMETRY Symmetry
INVARIANTS
  PushedIsListed
  RepliesHonest
  RepeatedUnheardOnly
  FestivalResolves
  NextShown
  RegistriesServe
  BusesWhereReported
  BuildingsFound
  ImportedIsServed
  CommandsLand
  ScheduleServed
  AdsAsSwitched
