SPECIFICATION Spec
CONSTANTS
  Width = 2
  Keys <- MCKeys
  Values <- MCValues
  Churn = FALSE
  MaxBatch = 2
  MaxWrites = 3
  MaxSessions = 2
  MaxTorn = 2
  DeleteFresh = FALSE
INVARIANTS RootIsCanonical FlushComplete IteratorComplete
 
CHECK_DEADLOCK FALSE
