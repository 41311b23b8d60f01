SPECIFICATION FairSpec
CONSTANTS
  Events <- MCTwoEvents
  EventTime <- MCPlainTime
  Rulesets <- MCRulesets
  Rules <- MCRules
  Matches <- MCMatches
  Failing <- MCFailing
  BatchSize = 1
  Lookback = 0
  LegacyRows <- MCNoLegacy
  MaxSkew = 0
  MaxClock = 1
  MaxRows = 1
  MaxAborts = 2
  MaxSwitches = 1
  LateWrites = TRUE
INVARIANTS LedgerImpliesDetections
PROPERTIES ImplementsContract PendingIsEvaluated FailedIsRetried
