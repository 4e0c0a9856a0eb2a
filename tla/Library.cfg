\* The stand-alone parts of the library, one per behaviour.
CONSTANTS
  EventTypes = {"opened", "moved"}
  Versions = {1, 2, 3}
  Stored <- MCStored
  c1 = c1
  c2 = c2
  a1 = a1
  a2 = a2
  a3 = a3
  Calls = {c1, c2}
  Keys = {a1, a2, a3}
  Workload <- MCWorkload
  Concurrency = 2
  StoreFaults = TRUE
  Loaded = {a1, a2}
  Strategies <- MCStrategies
  Threshold = 3
  IntervalMs = 3
  MinEventCount = 2
  MaxTime = 6
  MaxEventCount = 4
  Hosts = {"h1", "h2"}
  Names = {"opened", "moved"}
  Classes <- MCClasses
  Upcasters <- MCUpcasters
  MaxDocuments = 2
SPECIFICATION LibrarySpec
INVARIANTS
  LabelsTruthful
  StopsOnlyAtGaps
  BoundedConcurrency
  FailureContained
  OnePerInterval
  DeniedOnlyIfRecent
  OldStreamsLoad
  EndedOnlyByNewer
  OwnEventsSound
PROPERTIES
  ImplementsPublication
  PublicationsEnd
CHECK_DEADLOCK FALSE
