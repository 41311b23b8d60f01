SPECIFICATION FairLifecycle
CONSTANTS
  Inputs <- MCThree
  Occurred <- MCOccurred3
  Observed <- MCOccurred3
  Invalid <- MCNone
  Conditions <- MCThreshold
  Joinable <- MCNone
  Rejected <- MCNone
  Window = 2
  Lateness = 1
  ContextLimit = 8
  EventInputs <- MCEvents
  BatchSize = 2
  CacheSlots = 1
  MaxCrashes = 1
  ArriveAnytime = FALSE
  CrashAnytime = TRUE
  Requests <- MCReusedId
  Times <- MCTimes3
  MaxBacklog = 2
  MaxFaults = 1
PROPERTIES UnauditedIsRepaired
