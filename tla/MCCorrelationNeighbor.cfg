SPECIFICATION FairSpec
CONSTANTS
  Inputs <- MCThree
  Occurred <- MCOccurredNeighbor
  Observed <- MCObservedNeighbor
  Invalid <- MCNone
  Conditions <- MCThresholdOnly
  Joinable <- MCNone
  Rejected <- MCNone
  Window = 2
  Lateness = 1
  ContextLimit = 8
  EventInputs <- MCEvents
  BatchSize = 2
  CacheSlots = 1
  MaxCrashes = 0
  ArriveAnytime = FALSE
  CrashAnytime = FALSE
PROPERTIES EveryInputIsLedgered
