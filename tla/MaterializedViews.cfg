\* Two views, one asked for twice, the other without a time to live;
\* two events.
CONSTANTS
  summary = summary
  stats = stats
  acc1 = acc1
  acc2 = acc2
  r1 = r1
  r2 = r2
  r3 = r3
  Requests = {r1, r2, r3}
  ViewOf <- MCViewOf
  EventOf <- MCEventOf
  Strategies <- MCStrategies
  Ttl <- MCTtl
SPECIFICATION FairSpec
INVARIANTS
  TypeOK
  StaleOnlyIfRaced
PROPERTIES
  StaleDataExpires
CHECK_DEADLOCK FALSE
