SPECIFICATION Spec
CONSTANTS
  Events <- MCTwoEvents
  EventTime <- MCSkewedTime
  Rulesets <- MCRulesets
  Rules <- MCRules
  Matches <- MCMatches
  Failing <- MCFailing
  BatchSize = 1
  Lookback = 1
  LegacyRows <- MCLegacy
  MaxSkew = 1
  MaxClock = 3
  MaxRows = 2
  MaxAborts = 1
  MaxSwitches = 2
  LateWrites = FALSE
INVARIANTS TypeOK SingleDetectionRow
PROPERTIES FloorFixed CheckpointNeverRegresses CheckpointHealed LaterRowsEligible
