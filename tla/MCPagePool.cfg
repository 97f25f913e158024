SPECIFICATION FairSpec
CONSTANTS
  w1 = w1
  w2 = w2
  Worker = {w1, w2}
  HasQuota = TRUE
  RequestBudget = 5
  ResultCap = 4
  MaxRetries = 2
  PageSizes = {1, 2}
  MaxTotal = 4
INVARIANTS CeilingsKept EveryPageAnswered NoWorkerOutlives
PROPERTIES EventuallyEnds
CHECK_DEADLOCK FALSE
