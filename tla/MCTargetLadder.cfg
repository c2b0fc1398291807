SPECIFICATION FairSpec
CONSTANTS
  A = A
  B = B
  x = x
  y = y
  c = c
  BaseCode = BaseCode
  NoCode = NoCode
  NoRetry = NoRetry
  Bodies <- MCBodies
  Statuses <- MCStatuses
  ErrorStatuses <- MCErrorStatuses
  MaxTargets = 2
  MaxTargetRetries = 1
INVARIANTS
  TypeOK
  LadderIsFollowed
  BookkeepingIsRight
PROPERTIES
  RequestEnds
