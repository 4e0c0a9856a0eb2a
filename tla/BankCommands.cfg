\* The bank on the write side: what its accounts rely on, and liveness.
CONSTANTS
  acc = acc
  h1 = h1
  h2 = h2
  r1 = r1
  r2 = r2
  r3 = r3
  r4 = r4
  r5 = r5
  Aggregates = {acc}
  Requests = {r1, r2, r3, r4, r5}
  Hosts = {h1, h2}
  Basic = {}
  Target <- MCTarget
  Command <- MCCommand
  Host <- MCHost
  Data <- MCData
  Creating <- BankCreating
  Outcomes <- BankOutcomes
  Strategy <- EventCountStrategy
  Threshold = 2
  StreamIdStored = TRUE
  SnapshotFaults = FALSE
  StoreFaults = TRUE
  Crashes = TRUE
SPECIFICATION FairSpec
INVARIANTS
  StreamsReplay
  SnapshotsKeepUp
PROPERTIES
  RacesAreWon
  RequestsEnd
CHECK_DEADLOCK FALSE
