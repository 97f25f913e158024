CONSTANTS
  ana = ana
  bo = bo
  remote = remote
  onsite = onsite
  other = other
  patcher = patcher
  Profile = {ana}
  Key = {remote, onsite}
  ProfileOf <- MCProfileOf
  Patcher = {patcher}
  MaxSearches = 2
  MaxPatches = 1
SPECIFICATION Spec
INVARIANTS
  DiscardIsComplete
  NotFoundOnlyWhileLeaving
  CompletePageIsFinal
  EvictorDiesOnlyOfDiscards
  NobodyWaitsInVain
  OnlyOvertakenEntriesDangle
SYMMETRY Filters
CHECK_DEADLOCK FALSE
