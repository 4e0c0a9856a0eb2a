\* Nothing fails and nothing is replayed, in a single process.
CONSTANTS
  acc = acc
  none = none
  NoId = none
  h1 = h1
  h2 = h2
  Hosts = {h1}
  Feed <- MCFeed
  Replayed = {}
  Faults = FALSE
  Crashes = FALSE
  Expiry = FALSE
SPECIFICATION Spec
INVARIANT BalancesCorrect
CHECK_DEADLOCK FALSE
