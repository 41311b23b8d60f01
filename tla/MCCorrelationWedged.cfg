SPECIFICATION FairSpec
CONSTANTS
  Inputs <- MCThree
  Occurred <- MCOccurred3
  Observed <- MCOccurred3
  Invalid <- MCNone
  Conditions <- MCThresholdOnly
  Joinable <- MCNone
  Rejected <- MCNone
  Window = 2
  Lateness = 1
  ContextLimit = 8
  EventInputs <- MCEvents
  BatchSize = 2
  CacheSlots = 1
  MaxCrashes = 1
  ArriveAnytime = TRUE
  CrashAnytime = TRUE
PROPERTIES EveryInputIsLedgered
