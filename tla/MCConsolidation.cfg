SPECIFICATION Spec
CONSTANTS
  Provider = {"himalayas", "remoteok"}
  Precedence <- Rank
  Alphabetical <- Letters
  Offer <- Offers
  Alias <- Aliases
  Joined <- JoinedTerms
  Filters <- Search
  Skills <- Known
  Near <- Places
  Now = 2
  LegalSuffix = {"inc", "gmbh"}
  RoleWord = {"senior", "junior"}
  MaxCandidates = 4
  MaxBatch = 2
  MaxPages = 2
INVARIANTS RichestIsShown EverySourceKept AnySourceResolves DistinctRolesStayApart SettledOrderIsFixed RecencyOnlyNudges
PROPERTY PlacesStayUntilSorted
CHECK_DEADLOCK FALSE
