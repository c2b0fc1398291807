\* Two answers, each with up to two calls, then a third request.
CONSTANTS
  Paths <- MCPaths
  MaxTurns = 2
  MaxCalls = 2
  Documents = TRUE
SPECIFICATION Spec
INVARIANTS
  TypeOK
  ToolExchangesAreWhole
  TurnsAreKept
\* The bound on turns ends the conversation.
CHECK_DEADLOCK FALSE
