SPECIFICATION Spec
CONSTANTS
  p1 = p1
  p2 = p2
  ann = ann
  bob = bob
  annJobs = annJobs
  bobJobs = bobJobs
  annNone = annNone
  ProfileOf <- KeyOwner
  Profile = {ann, bob}
  Key = {annJobs, bobJobs}
  Provider = {p1}
  Active <- EveryProvider
  BatchSizes = {1}
  MaxCandidates = 1
  MaxStates = 1
  MaxItems = 1
  ReuseWindow = 1
  StateTtl = 1
  PromoteFloor = 1
  MaxSearches = 3
  MaxPages = 1
  MaxTime = 1
  MayClose = FALSE
INVARIANT RefreshHasServing
PROPERTIES PolledContract OnlyDiscardTakesBusySearches
CHECK_DEADLOCK FALSE
