SPECIFICATION Spec
CONSTANTS
  Absent = Absent
  Junk = Junk
  MaxCap = 4
  MaxBudget = 2
  DefaultCap <- ThreeResults
  DefaultBudget <- OneAttempt
  Configurations <- Environments
  Feeds <- Documents
  SourceLimit <- ThreeRows
  MaxRows = 4
INVARIANTS ConfiguredLimitsHold WholeFeedDelivered WarningsTellTheTruth OnlyConversionRaises
CHECK_DEADLOCK FALSE
