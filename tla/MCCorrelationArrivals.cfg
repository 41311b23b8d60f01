SPECIFICATION Spec
CONSTANTS
  Inputs <- MCFive
  Occurred <- MCOccurred5
  Observed <- MCObservedLate
  Invalid <- MCNone
  Conditions <- MCStaged
  Joinable <- MCJoined
  Rejected <- MCNoDetection
  Window = 2
  Lateness = 1
  ContextLimit = 8
  EventInputs <- MCTwoEvents
  BatchSize = 3
  CacheSlots = 2
  MaxCrashes = 1
  ArriveAnytime = TRUE
  CrashAnytime = FALSE
INVARIANTS TypeOK WrittenOnce EpisodesQualifyOnce TimelyEvidenceIsKept QualifyingSatisfiesRule NoMissedMatch
PROPERTIES EpisodeIntervalFixed
