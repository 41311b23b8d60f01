SPECIFICATION FairSpec
CONSTANTS
  Inputs <- MCFive
  Occurred <- MCOccurred5
  Observed <- MCOccurred5
  Invalid <- MCConflicted
  Conditions <- MCOrdered
  Joinable <- MCNone
  Rejected <- MCNone
  Window = 2
  Lateness = 1
  ContextLimit = 8
  EventInputs <- MCEvents
  BatchSize = 2
  CacheSlots = 1
  MaxCrashes = 2
  ArriveAnytime = FALSE
  CrashAnytime = TRUE
INVARIANTS SnapshotMatchesLinks EpisodeMatchesIncident
PROPERTIES ImplementsIncidentContract InputsAreLedgeredUnlessNamed IncidentsOnlyGrow
