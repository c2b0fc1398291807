SPECIFICATION Spec
CONSTANTS
  r1 = r1
  r2 = r2
  Requests <- MCRequests
  Amounts = {0, 1}
  Limit = 2
  AliasLimit = 1
  MaxCalls = 2
  MaxLeaks = 1
INVARIANTS
  ReleasedWithResponse
