SPECIFICATION Spec
CONSTANTS
  w1 = w1
  w2 = w2
  Worker = {w1, w2}
  HasQuota = FALSE
  RequestBudget = 5
  ResultCap = 4
  MaxRetries = 2
  PageSizes = {1, 2}
  MaxTotal = 4
INVARIANT NothingLostSilently
CHECK_DEADLOCK FALSE
