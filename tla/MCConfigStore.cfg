SPECIFICATION Spec
CONSTANTS
  Names <- MCNames
  Times = {"day", "night"}
  Covered <- NoCovered
  UpstreamOf <- OwnUpstream
  ModelNames = {"m", "a"}
  AliasNames = {"a", "b"}
  ScheduleNames = {"s"}
  Urls <- MCUrls
  Keys = {"k1", "k2"}
  Loads = {l1, l2}
  InitialFiles <- MCFiles
  None = None
  MaxEdits = 1
  MaxSaves = 1
INVARIANTS
  TypeOK
  RoutingIsSound
  KeyOfOwnUpstream
  CommittedSurvives
SYMMETRY LoadSymmetry
CHECK_DEADLOCK FALSE
