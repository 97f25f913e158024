SPECIFICATION Spec
CONSTANTS
  p1 = p1
  p2 = p2
  ann = ann
  bob = bob
  annJobs = annJobs
  bobJobs = bobJobs
  annNone = annNone
  ProfileOf <- KeyOwner
  Profile = {ann}
  Key = {annJobs, annNone}
  Provider = {p1, p2}
  Active <- ProvidersOrNone
  BatchSizes = {0, 1, 2, 3}
  MaxCandidates = 2
  MaxStates = 2
  MaxItems = 2
  ReuseWindow = 1
  StateTtl = 2
  PromoteFloor = 2
  MaxSearches = 1
  MaxPages = 2
  MaxTime = 0
  MayClose = TRUE
INVARIANTS OutcomeIsHonest FailedHidesNothing
CHECK_DEADLOCK FALSE
