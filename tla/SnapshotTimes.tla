--------------------------- MODULE SnapshotTimes ---------------------------
(***************************************************************************)
(* CompositeSnapshotStrategy over an EventCount- and a TimeBased-          *)
(* SnapshotStrategy, as the requests of one process ask it: the answer to  *)
(* one request depends, through lastSnapshotTimes, on those to earlier     *)
(* ones.  shouldTakeSnapshot() awaits nothing and is one step; the save it *)
(* leads to comes later, and may fail without the strategy hearing of it.  *)
(***************************************************************************)
EXTENDS Sequences, SnapshotStrategies

CONSTANTS
  Loaded,         \* the aggregates
  Strategies,     \* the members, in order: a sequence of "count" and "time"
  Threshold, IntervalMs, MinEventCount,
  MaxTime,        \* bound of the clock
  MaxEventCount   \* bound of what a request loads

ASSUME SnapshotTimesAssumption ==
  /\ Strategies \in Seq({"count", "time"}) \ {<<>>}
  /\ {Threshold, IntervalMs} \subseteq Nat \ {0}
  /\ {MinEventCount, MaxTime, MaxEventCount} \subseteq Nat

VARIABLES
  time,               \* Date.now()
  lastSnapshotTimes,  \* of the time-based strategy; 0: no entry
  taken,              \* history: when the composite last said yes
  timed,              \* history: when the time-based strategy did
  refusal             \* history: the last request that was told no

timesVars == <<time, lastSnapshotTimes, taken, timed, refusal>>

Never == [a \in Loaded |-> 0]
None == [aggregate |-> "none", eventCount |-> 0]

InitTimes ==
  /\ time = 1
  /\ lastSnapshotTimes = Never
  /\ taken = Never
  /\ timed = [a \in Loaded |-> <<>>]
  /\ refusal = None

Says(member, a, n) ==
  IF member = "count" THEN EventCount(Threshold, n)
  ELSE TimeBased(IntervalMs, MinEventCount, lastSnapshotTimes[a], time, n)

\* Seeded fault: all members have to agree.
FirstYesOfAll(a, n) ==
  {k \in DOMAIN Strategies : \A j \in DOMAIN Strategies : Says(Strategies[j], a, n)}

\* some(): the members are asked in order, up to the first that says yes.
FirstYes(a, n) ==
  {k \in DOMAIN Strategies :
     /\ Says(Strategies[k], a, n)
     /\ \A j \in 1 .. k - 1 : ~Says(Strategies[j], a, n)}

\* Seeded fault: the time is left to whoever saves the snapshot.
TakeUnrecorded(a, n) ==
  \E k \in FirstYes(a, n) :
    /\ taken' = [taken EXCEPT ![a] = time]
    /\ timed' = IF Strategies[k] = "time" THEN [timed EXCEPT ![a] = Append(@, time)] ELSE timed
    /\ refusal' = None
    /\ UNCHANGED <<time, lastSnapshotTimes>>

\* A request that loaded n events of a is told to take a snapshot.  The
\* time-based strategy notes the time if it was the one to say so.
TakeSnapshot(a, n) ==
  \E k \in FirstYes(a, n) :
    /\ taken' = [taken EXCEPT ![a] = time]
    /\ IF Strategies[k] = "time"
       THEN /\ lastSnapshotTimes' = [lastSnapshotTimes EXCEPT ![a] = time]
            /\ timed' = [timed EXCEPT ![a] = Append(@, time)]
       ELSE UNCHANGED <<lastSnapshotTimes, timed>>
    /\ refusal' = None
    /\ UNCHANGED time

\* It is told not to.
NoSnapshot(a, n) ==
  /\ FirstYes(a, n) = {}
  /\ refusal' = [aggregate |-> a, eventCount |-> n]
  /\ UNCHANGED <<time, lastSnapshotTimes, taken, timed>>

Tick ==
  /\ time < MaxTime
  /\ time' = time + 1
  /\ refusal' = None
  /\ UNCHANGED <<lastSnapshotTimes, taken, timed>>

\* The process is started anew, with an empty map.
Forget ==
  /\ lastSnapshotTimes' = Never
  /\ taken' = Never
  /\ timed' = [a \in Loaded |-> <<>>]
  /\ refusal' = None
  /\ UNCHANGED time

NextTimes ==
  \/ Tick \/ Forget
  \/ \E a \in Loaded, n \in 1 .. MaxEventCount : TakeSnapshot(a, n) \/ NoSnapshot(a, n)

TimesSpec == InitTimes /\ [][NextTimes]_timesVars

-----------------------------------------------------------------------------
(* Correctness.                                                            *)

\* However many requests load an aggregate at the same time, before any of
\* their saves is done, the time-based strategy lets a process take one
\* snapshot of it per interval (lastSnapshotTimes is set with the answer).
OnePerInterval ==
  \A a \in Loaded : \A i, j \in DOMAIN timed[a] :
    i < j => timed[a][j] - timed[a][i] >= IntervalMs

\* No aggregate is denied a snapshot for longer than the interval: whoever
\* loads enough events and is told no does so less than an interval after
\* the composite last said yes, although its members are not asked about
\* every request and a yes of one is not told to the other.
DeniedOnlyIfRecent ==
  LET a == refusal.aggregate IN
  /\ refusal # None
  /\ refusal.eventCount >= MinEventCount
  /\ "time" \in {Strategies[k] : k \in DOMAIN Strategies}
  => taken[a] # 0 /\ time - taken[a] < IntervalMs

\* The inductive invariant: the strategy remembers its own last yes, and no
\* yes of the composite is older than that.
TimesInv ==
  /\ time \in Nat \ {0}
  /\ {lastSnapshotTimes, taken} \subseteq [Loaded -> Nat]
  /\ timed \in [Loaded -> Seq(Nat \ {0})]
  /\ refusal = None \/ refusal \in [aggregate : Loaded, eventCount : Nat]
  /\ \A a \in Loaded :
       /\ lastSnapshotTimes[a] = IF timed[a] = <<>> THEN 0 ELSE timed[a][Len(timed[a])]
       /\ lastSnapshotTimes[a] <= taken[a] /\ taken[a] <= time
  /\ OnePerInterval /\ DeniedOnlyIfRecent
=============================================================================
