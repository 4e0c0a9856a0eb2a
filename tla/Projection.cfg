\* The read side with two processes, faults, crashes, expiry and replays.
CONSTANTS
  acc = acc
  none = none
  NoId = none
  h1 = h1
  h2 = h2
  Hosts = {h1, h2}
  Feed <- MCFeed
  Replayed <- MCReplayed
  Faults = TRUE
  Crashes = TRUE
  Expiry = TRUE
SPECIFICATION FairSpec
INVARIANTS
  TypeOK
  SkippedOnlyIfHandled
  BalancesExplained
PROPERTIES
  RecordedIsFinal
  EventsAreHandled
CHECK_DEADLOCK FALSE
