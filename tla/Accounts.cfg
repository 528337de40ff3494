SPECIFICATION Spec
CONSTANTS
  MaxOverlap = 2
  MaxCalls = 3
  MaxFaults = 2
  MaxTokens = 3
CHECK_DEADLOCK FALSE
INVARIANT EveryChangeIsSaved
INVARIANT SavedProvidersAreKept
INVARIANT TokensAreSpentOnce
INVARIANT ListIsCurrent
INVARIANT RunsFitTheirModel
PROPERTY SettingsKeepTheRest
 
