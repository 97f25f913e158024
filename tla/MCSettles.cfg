SPECIFICATION FairSpec
CONSTANTS
  p1 = p1
  p2 = p2
  ann = ann
  bob = bob
  annJobs = annJobs
  bobJobs = bobJobs
  annNone = annNone
  ProfileOf <- KeyOwner
  Profile = {ann}
  Key = {annJobs, annNone}
  Provider = {p1}
  Active <- ProvidersOrNone
  BatchSizes = {1}
  MaxCandidates = 1
  MaxStates = 1
  MaxItems = 1
  ReuseWindow = 1
  StateTtl = 2
  PromoteFloor = 1
  MaxSearches = 2
  MaxPages = 2
  MaxTime = 1
  MayClose = TRUE
PROPERTIES StaleServedUntilUseful EverySearchSettles RefreshIsResolved
CHECK_DEADLOCK FALSE
