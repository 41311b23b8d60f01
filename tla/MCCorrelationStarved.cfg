SPECIFICATION FairSpec
CONSTANTS
  Inputs <- MCFour
  Occurred <- MCOccurredDense
  Observed <- MCOccurredDense
  Invalid <- MCNone
  Conditions <- MCThresholdOnly
  Joinable <- MCNone
  Rejected <- MCNone
  Window = 2
  Lateness = 1
  ContextLimit = 1
  EventInputs <- MCEvents
  BatchSize = 1
  CacheSlots = 1
  MaxCrashes = 0
  ArriveAnytime = FALSE
  CrashAnytime = FALSE
PROPERTIES NoCandidateIsStarved
