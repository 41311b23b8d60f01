SPECIFICATION Spec
CONSTANTS
  Inputs <- MCFive
  Occurred <- MCOccurredTwice
  Observed <- MCOccurredTwice
  Invalid <- MCNone
  Conditions <- MCThresholdOnly
  Joinable <- MCNone
  Rejected <- MCNone
  Window = 2
  Lateness = 1
  ContextLimit = 8
  EventInputs <- MCEvents
  BatchSize = 2
  CacheSlots = 1
  MaxCrashes = 0
  ArriveAnytime = TRUE
  CrashAnytime = FALSE
INVARIANTS OverlapHasOwner
