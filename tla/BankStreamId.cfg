\* Event documents as the serializer and the schema in the sources write them.
CONSTANTS
  acc = acc
  h1 = h1
  h2 = h2
  r1 = r1
  r2 = r2
  r3 = r3
  r4 = r4
  r5 = r5
  Aggregates = {acc}
  Requests = {r1, r2, r3, r4, r5}
  Hosts = {h1, h2}
  Basic = {}
  Target <- MCTarget
  Command <- MCCommand
  Host <- MCHost
  Data <- MCData
  Creating <- BankCreating
  Outcomes <- BankOutcomes
  Strategy <- EventCountStrategy
  Threshold = 2
  StreamIdStored = FALSE
  SnapshotFaults = FALSE
  StoreFaults = FALSE
  Crashes = FALSE
SPECIFICATION Spec
CHECK_DEADLOCK FALSE
PROPERTY NotFoundIsTruthful
