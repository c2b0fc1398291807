SPECIFICATION Spec
SYMMETRY MCSymmetry
CONSTANTS
  r1 = r1
  r2 = r2
  r3 = r3
  r4 = r4
  c1 = c1
  c2 = c2
  None = None
  Requests <- MCRequests
  Conversations <- MCConversations
  MaxEntries = 4
  TTL = 1
  MaxTime = 2
INVARIANTS
  TypeOK
  HistoriesAreTrue
PROPERTIES
  JustStoredIsRetrievable
CHECK_DEADLOCK FALSE
