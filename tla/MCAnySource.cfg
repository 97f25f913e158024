SPECIFICATION UpgradeSpec
CONSTANTS
  ann = ann
  bob = bob
  himalayas1 = himalayas1
  remoteok1 = remoteok1
  adzuna9 = adzuna9
  engineer = engineer
  designer = designer
  Profile = {ann, bob}
  Source = {himalayas1, remoteok1, adzuna9}
  Role = {engineer, designer}
  RolesOf <- RolesForGood
  MaxRequests = 3
  MaxLegacy = 2
INVARIANT AnySourceCanBeSaved
SYMMETRY ProfileSymmetry
CHECK_DEADLOCK FALSE
