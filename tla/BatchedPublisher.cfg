\* Four events, two of one aggregate, batches of three; anything may fail.
CONSTANTS
  e1 = e1
  e2 = e2
  e3 = e3
  e4 = e4
  acc1 = acc1
  acc2 = acc2
  acc3 = acc3
  AggregateOf <- MCMixed
  BatchSize = 3
  Faults = TRUE
  Crashes = TRUE
SPECIFICATION FairSpec
INVARIANTS
  TypeOK
  NothingStranded
  InOnePlace
  ShutdownDrains
  FailuresAreNoticed
  ResolvedMeansStored
PROPERTIES
  AcceptedAreSettled
CHECK_DEADLOCK FALSE
