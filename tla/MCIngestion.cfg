SPECIFICATION Spec
CONSTANTS
  board = board
  feed = feed
  job1 = job1
  job2 = job2
  draft = draft
  draftElsewhere = draftElsewhere
  final = final
  Provider = {board, feed}
  JobId = {job1, job2}
  Content = {draft, draftElsewhere, final}
  Stored <- StoredInUtc
  Snapshot = {board}
  Fetchable <- SmallBatches
  MaxFaults = 1
  MaxInvocations = 3
  Advertised <- Listings
  IdOrder <- Ids
  Factor <- Months
  Queries <- Searches
INVARIANTS OneSyncPerProvider ActiveIsLatestFetched CountersBalance FailedRunLeavesJobs StoredSearchIsExact
PROPERTY HistoryKept
CHECK_DEADLOCK FALSE
