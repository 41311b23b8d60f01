SPECIFICATION FairService
CONSTANTS
  NumRules = 2
  Rows <- MCRows
  InputOf <- MCInputOf
  DetectedAt <- MCDetectedAt
  Lookback = 0
  BatchSize = 1
  MaxTime = 1
  MaxFaults = 1
CHECK_DEADLOCK FALSE
INVARIANTS ServiceTypeOK NoPollingBeforeConfirmation BlockIsJustified
PROPERTIES FloorIsFixed BlockedScopeIsFrozen OtherScopesAreServed HarmBlocks
