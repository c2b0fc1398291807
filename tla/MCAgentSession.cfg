SPECIFICATION FairSpec
CONSTANTS
  MaxLines = 4
  Aliases = {a1}
  Budgets <- MCBudgets
  Usages = {0, 1, 2}
  Unlimited = Unlimited
INVARIANTS
  TypeOK
  BudgetIsRespected
  LinesReachTheAgent
PROPERTIES
  MidRunQuitEnds
