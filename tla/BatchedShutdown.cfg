\* Three events of three aggregates; nothing fails, the application is shut
\* down in order.
CONSTANTS
  e1 = e1
  e2 = e2
  e3 = e3
  e4 = e4
  acc1 = acc1
  acc2 = acc2
  acc3 = acc3
  AggregateOf <- MCApart
  BatchSize = 2
  Faults = FALSE
  Crashes = FALSE
SPECIFICATION Spec
INVARIANT NothingLost
CHECK_DEADLOCK FALSE
