CONSTANTS
  Secrets <- MCSecrets
  Marks <- MCMarks
  BlockedTools <- MCBlockedTools
  JudgeMode = "choice"
  MaxBatchTools = 2
  Threshold = 0
  Requests <- MCRequests
  Aliases <- MCAliases
  AnyTool <- MCAnyTool
  TailLimit = 2
  Says <- MCSays
  Filler = "f"
  Refusals <- MCRefusals
  RetryOn <- MCRetryOn
SPECIFICATION Spec
INVARIANTS
  TypeOK
  AttemptsAreIndependent
  FitForUpstream
  ReplyIsInClientsTerms
CHECK_DEADLOCK FALSE
