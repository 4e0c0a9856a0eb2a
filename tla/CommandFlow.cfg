\* Safety and refinement of the write side with every fault it handles.
CONSTANTS
  a1 = a1
  a2 = a2
  h1 = h1
  h2 = h2
  r1 = r1
  r2 = r2
  r3 = r3
  r4 = r4
  r5 = r5
  opened = opened
  changed = changed
  closed = closed
  Aggregates = {a1, a2}
  Requests = {r1, r2, r3, r4, r5}
  Hosts = {h1, h2}
  Basic = {r3}
  Target <- MCTarget
  Command <- MCCommand
  Host <- MCHost
  Data = {opened, changed, closed}
  Creating = {"create"}
  Outcomes <- MCOutcomes
  Strategy <- MCStrategy
  StreamIdStored = TRUE
  SnapshotFaults = TRUE
  StoreFaults = TRUE
  Crashes = TRUE
SPECIFICATION Spec
INVARIANTS
  TypeOK
  StreamsContiguous
  SnapshotsFaithful
  OpenTransactionsExclusive
  DroppedOnlyForARival
PROPERTIES
  ImplementsEventLog
CHECK_DEADLOCK FALSE
