SPECIFICATION Spec
SYMMETRY MCSymmetry
CONSTANTS
  m1 = m1
  m2 = m2
  Models <- MCModels
  Amounts = {2}
  Windows = {2, 3}
  DayLength = 3
  Retention = 6
  HeatmapWindow = 5
  RetentionDays = 2
  StartTime = 20
  MaxTime = 4
  MaxRecords = 3
  MaxRows = 3
  MaxQueries = 2
INVARIANTS
  TypeOK
  RestoreIsFaithful
  UsageCountsOnce
CHECK_DEADLOCK FALSE
