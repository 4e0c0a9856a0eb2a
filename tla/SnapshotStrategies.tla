------------------------- MODULE SnapshotStrategies -------------------------
(***************************************************************************)
(* The decisions of the snapshot strategies.  eventCount is the number of *)
(* events read after the snapshot the rehydrator started from.             *)
(***************************************************************************)
EXTENDS Naturals

\* Seeded fault: the threshold has to be exceeded.
EventCountPast(threshold, eventCount) == eventCount > threshold

\* EventCountSnapshotStrategy; its constructor insists on threshold >= 1.
EventCount(threshold, eventCount) ==
  eventCount > 0 /\ eventCount % threshold = 0

\* TimeBasedSnapshotStrategy, when the aggregate's entry in
\* lastSnapshotTimes is `last` (0: none).
TimeBased(interval, minEventCount, last, time, eventCount) ==
  eventCount >= minEventCount /\ (last = 0 \/ time - last >= interval)
=============================================================================
