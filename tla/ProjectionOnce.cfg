\* Nothing fails and nothing is replayed: two processes watch the stream.
CONSTANTS
  acc = acc
  none = none
  NoId = none
  h1 = h1
  h2 = h2
  Hosts = {h1, h2}
  Feed <- MCFeed
  Replayed = {}
  Faults = FALSE
  Crashes = FALSE
  Expiry = FALSE
SPECIFICATION Spec
INVARIANT AppliedOnce
CHECK_DEADLOCK FALSE
