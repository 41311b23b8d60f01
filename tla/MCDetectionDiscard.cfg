SPECIFICATION FairSpec
CONSTANTS
  Events <- MCTwoEvents
  EventTime <- MCSkewedTime
  Rulesets <- MCRulesets
  Rules <- MCRules
  Matches <- MCMatches
  Failing <- MCFailing
  BatchSize = 2
  Lookback = 1
  LegacyRows <- MCNoLegacy
  MaxSkew = 0
  MaxClock = 2
  MaxRows = 1
  MaxAborts = 0
  MaxSwitches = 1
  LateWrites = FALSE
PROPERTIES NeverSilentlyDiscarded
