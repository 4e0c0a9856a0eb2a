---------------------------- MODULE LibraryProofs ----------------------------
(***************************************************************************)
(* Proofs about the parts of the library that stand alone: Upcasting, with *)
(* the loop invariant of upcast(); SnapshotTimes; and EventFormats, by     *)
(* induction over the upcasters a document is taken through.               *)
(***************************************************************************)
EXTENDS Upcasting, SnapshotTimes, EventFormats, Induction

-----------------------------------------------------------------------------
(* Upcasting.                                                              *)

Event == [type : EventTypes, label : Nat, layout : Nat]

USE DEF Event

\* VersionOf() is a number, and 1 at least.
LEMMA VersionOfIsNat ==
  ASSUME NEW e \in Event PROVE VersionOf(e) \in Nat \ {0}
  BY DEF VersionOf

\* Before anything is registered.
LEMMA UpcastingInitially == InitUpcasting => UpcastingInv
<1> SUFFICES ASSUME InitUpcasting PROVE UpcastingInv
  OBVIOUS
<1> USE DEF InitUpcasting
<1>1. read \in Event /\ held = read /\ current = read
  BY UpcastingAssumption DEF UpcastingAssumption, Garbled
<1>2. UpcastingTypeOK
  BY <1>1 DEF UpcastingTypeOK
<1>3. StepByStep
  BY DEF StepByStep
<1>4. LoopSound /\ LabelsTruthful /\ StopsOnlyAtGaps
  BY <1>1 DEF LoopSound, LabelsTruthful, StopsOnlyAtGaps
<1> QED
  BY <1>2, <1>3, <1>4 DEF UpcastingInv

\* Every registration leaves the registry well formed, and types outside
\* skipping step by step.
LEMMA RegisterKeeps ==
  ASSUME UpcastingInv,
         NEW t \in EventTypes, NEW from \in Versions, NEW to \in Versions,
         Register(t, from, to)
  PROVE  UpcastingInv'
<1> DEFINE new == [v \in DOMAIN upcasters[t] \cup {from} |->
                     IF v = from THEN to ELSE upcasters[t][v]]
<1> USE UpcastingAssumption DEF UpcastingAssumption
<1>0. UpcastingTypeOK /\ StepByStep /\ LoopSound /\ LabelsTruthful /\ StopsOnlyAtGaps
  BY DEF UpcastingInv
<1>1. upcasters' = [upcasters EXCEPT ![t] = new]
  BY DEF Register
<1>2. \A s \in EventTypes \ {t} : upcasters'[s] = upcasters[s]
  BY <1>0, <1>1 DEF UpcastingTypeOK
<1>3. upcasters'[t] = new /\ DOMAIN upcasters' = EventTypes
  BY <1>0, <1>1 DEF UpcastingTypeOK
<1>4. new \in [DOMAIN new -> Versions] /\ DOMAIN new \subseteq Versions
  BY <1>0 DEF UpcastingTypeOK
<1> HIDE DEF new
<1>5. UpcastingTypeOK'
  <2>1. \A s \in EventTypes :
          upcasters'[s] \in [DOMAIN upcasters'[s] -> Versions] /\ DOMAIN upcasters'[s] \subseteq Versions
    BY <1>0, <1>2, <1>3, <1>4 DEF UpcastingTypeOK
  <2>2. latest' \in [EventTypes -> Nat] /\ skipping' \subseteq EventTypes
    BY <1>0 DEF UpcastingTypeOK, Register
  <2> QED
    BY <1>0, <1>3, <2>1, <2>2 DEF UpcastingTypeOK, Register
<1>6. StepByStep'
  <2> SUFFICES ASSUME NEW s \in EventTypes \ skipping', NEW v \in DOMAIN upcasters'[s]
               PROVE  upcasters'[s][v] = v + 1
    BY DEF StepByStep
  <2>1. s \notin skipping /\ (s = t => to = from + 1)
    BY DEF Register
  <2>2. CASE s # t
    BY <1>0, <1>2, <2>1, <2>2 DEF StepByStep
  <2>3. CASE s = t
    BY <1>0, <1>3, <2>1, <2>3 DEF StepByStep, new
  <2> QED
    BY <2>2, <2>3
<1>7. LoopSound' /\ LabelsTruthful' /\ StopsOnlyAtGaps'
  BY <1>0 DEF Register, LoopSound, LabelsTruthful, StopsOnlyAtGaps, Truthful, VersionOf
<1> QED
  BY <1>5, <1>6, <1>7 DEF UpcastingInv

\* The call begins with the caller's own object, and returns it at once only
\* if it has the target version or no upcaster is there.
LEMMA UpcastKeeps ==
  ASSUME UpcastingInv, NEW wanted \in {0} \cup Versions, Upcast(wanted)
  PROVE  UpcastingInv'
<1> USE UpcastingAssumption DEF UpcastingAssumption
<1>0. UpcastingTypeOK /\ StepByStep /\ LoopSound /\ LabelsTruthful /\ StopsOnlyAtGaps
  BY DEF UpcastingInv
<1>1. held \in Event /\ VersionOf(held) \in Nat
  BY <1>0, VersionOfIsNat DEF UpcastingTypeOK
<1>2. TargetFor(wanted) \in Nat
  BY <1>0, <1>1 DEF UpcastingTypeOK, TargetFor
<1>3. /\ current' = held /\ held' = held /\ read' = read
      /\ target' = TargetFor(wanted) /\ version' = VersionOf(held)
      /\ aliased' = TRUE
      /\ upcasters' = upcasters /\ latest' = latest /\ skipping' = skipping
      /\ phase' = IF NothingToDo(VersionOf(held), TargetFor(wanted))
                  THEN "returned" ELSE "looping"
  BY DEF Upcast, registry
<1>4. UpcastingTypeOK'
  BY <1>0, <1>1, <1>2, <1>3 DEF UpcastingTypeOK
<1>5. StepByStep'
  BY <1>0, <1>3 DEF StepByStep
<1>6. LoopSound' /\ LabelsTruthful'
  BY <1>0, <1>3 DEF LoopSound, LabelsTruthful, Truthful, VersionOf
<1>7. StopsOnlyAtGaps'
  <2> SUFFICES ASSUME NothingToDo(VersionOf(held), TargetFor(wanted))
               PROVE  \/ VersionOf(held) >= TargetFor(wanted)
                      \/ ~hasUpcaster(held.type, VersionOf(held))
    BY <1>3 DEF StopsOnlyAtGaps, VersionOf, hasUpcaster
  <2> QED
    BY DEF NothingToDo, hasUpcaster
<1> QED
  BY <1>4, <1>5, <1>6, <1>7 DEF UpcastingInv

\* A turn of the loop takes a truthful event to a truthful event.
LEMMA TurnKeeps ==
  ASSUME UpcastingInv, Turn
  PROVE  UpcastingInv'
<1> USE UpcastingAssumption DEF UpcastingAssumption
<1> DEFINE to == upcasters[held.type][version]
<1>0. UpcastingTypeOK /\ StepByStep /\ LoopSound /\ LabelsTruthful /\ StopsOnlyAtGaps
  BY DEF UpcastingInv
<1>1. /\ phase = "looping" /\ phase' = "looping"
      /\ version' = version + 1 /\ target' = target /\ read' = read
      /\ upcasters' = upcasters /\ latest' = latest /\ skipping' = skipping
      /\ current' = Upcasted(current)
      /\ \/ aliased' = FALSE /\ held' = held
         \/ aliased /\ aliased' = aliased /\ held' = Upcasted(held)
      /\ hasUpcaster(held.type, version)
  BY DEF Turn, registry
<1>2. held \in Event /\ current \in Event /\ held.type \in EventTypes /\ version \in Nat
  BY <1>0 DEF UpcastingTypeOK
<1>3. to \in Nat
  BY <1>0, <1>1, <1>2 DEF UpcastingTypeOK, hasUpcaster
<1>4. ASSUME NEW e \in Event
      PROVE  /\ Upcasted(e) \in Event
             /\ Upcasted(e).type = e.type
             /\ Upcasted(e).label = version + 1
             /\ e.layout = version => Upcasted(e).layout = to
  BY <1>2, <1>3 DEF Upcasted, Converted, Garbled
<1>5. /\ current' \in Event /\ current'.type = current.type
      /\ current'.label = version + 1 /\ VersionOf(current') = version + 1
      /\ current.layout = version => current'.layout = to
  BY <1>1, <1>2, <1>4 DEF VersionOf
<1>6. /\ held' \in Event /\ held'.type = held.type
      /\ aliased' => held' = current'
      /\ held' = held \/ (held' = current' /\ aliased)
  BY <1>0, <1>1, <1>2, <1>4 DEF LoopSound
<1>7. UpcastingTypeOK'
  BY <1>0, <1>1, <1>2, <1>5, <1>6 DEF UpcastingTypeOK
<1>8. StepByStep'
  BY <1>0, <1>1 DEF StepByStep
<1>9. LoopSound'
  <2>1. VersionOf(current)' = version'
    BY <1>1, <1>5 DEF VersionOf
  <2> QED
    BY <2>1, <1>0, <1>1, <1>5, <1>6 DEF LoopSound
<1>10. LabelsTruthful'
  <2> SUFFICES ASSUME Truthful(read), held.type \notin skipping
               PROVE  Truthful(held') /\ Truthful(current')
    BY <1>1, <1>6 DEF LabelsTruthful, Truthful, VersionOf
  <2>1. Truthful(held) /\ Truthful(current) /\ version = VersionOf(current)
    BY <1>0, <1>1 DEF LabelsTruthful, LoopSound
  <2>2. current.layout = version
    BY <2>1 DEF Truthful
  <2>3. to = version + 1
    BY <1>0, <1>1, <1>2 DEF StepByStep, hasUpcaster
  <2>4. Truthful(current')
    BY <1>5, <2>2, <2>3 DEF Truthful
  <2> QED
    BY <1>6, <2>1, <2>4
<1>11. StopsOnlyAtGaps'
  BY <1>1 DEF StopsOnlyAtGaps
<1> QED
  BY <1>7, <1>8, <1>9, <1>10, <1>11 DEF UpcastingInv

\* Leaving the loop, by its condition, its break or an exception, and
\* going on with what it left.
LEMMA LeavingKeeps ==
  ASSUME UpcastingInv, Return \/ Throw \/ Take
  PROVE  UpcastingInv'
<1>0. UpcastingTypeOK /\ StepByStep /\ LoopSound /\ LabelsTruthful /\ StopsOnlyAtGaps
  BY DEF UpcastingInv
<1>1. /\ upcasters' = upcasters /\ latest' = latest /\ skipping' = skipping
      /\ read' = read /\ current' = current /\ aliased' = aliased
      /\ version' = version /\ target' = target
  BY DEF Return, Throw, Take, registry
<1>2. StepByStep'
  BY <1>0, <1>1 DEF StepByStep
<1>3. CASE Return
  <2>1. phase = "looping" /\ phase' = "returned" /\ held' = held
    BY <1>3 DEF Return
  <2>2. UpcastingTypeOK' /\ LoopSound' /\ LabelsTruthful'
    BY <1>0, <1>1, <2>1 DEF UpcastingTypeOK, LoopSound, LabelsTruthful, Truthful, VersionOf
  <2>3. StopsOnlyAtGaps'
    BY <1>0, <1>1, <1>3, <2>1 DEF Return, StopsOnlyAtGaps, LoopSound, hasUpcaster, VersionOf
  <2> QED
    BY <1>2, <2>2, <2>3 DEF UpcastingInv
<1>4. CASE Throw \/ Take
  <2>1. /\ phase # "idle" /\ phase' = "idle"
        /\ held' \in {held, current}
    BY <1>4 DEF Throw, Take
  <2>2. held'.type = held.type
    BY <1>0, <2>1 DEF LoopSound
  <2>3. UpcastingTypeOK'
    BY <1>0, <1>1, <2>1 DEF UpcastingTypeOK
  <2>4. LoopSound' /\ StopsOnlyAtGaps'
    BY <1>0, <1>1, <2>1, <2>2 DEF LoopSound, StopsOnlyAtGaps
  <2>5. LabelsTruthful'
    BY <1>0, <1>1, <2>1, <2>2 DEF LabelsTruthful, Truthful, VersionOf
  <2> QED
    BY <1>2, <2>3, <2>4, <2>5 DEF UpcastingInv
<1> QED
  BY <1>3, <1>4

\* The conjunction of the properties of Upcasting is inductive.
THEOREM UpcastingInvariance == UpcastingSpec => []UpcastingInv
<1>1. UpcastingInv /\ [NextUpcasting]_upcastingVars => UpcastingInv'
  <2> SUFFICES ASSUME UpcastingInv, [NextUpcasting]_upcastingVars
               PROVE  UpcastingInv'
    OBVIOUS
  <2>1. CASE NextUpcasting
    BY <2>1, RegisterKeeps, UpcastKeeps, TurnKeeps, LeavingKeeps DEF NextUpcasting
  <2>2. CASE UNCHANGED upcastingVars
    BY <2>2 DEF upcastingVars, UpcastingInv, UpcastingTypeOK, StepByStep, LoopSound,
       LabelsTruthful, StopsOnlyAtGaps, Truthful, VersionOf, hasUpcaster
  <2> QED
    BY <2>1, <2>2
<1> QED
  BY <1>1, UpcastingInitially, PTL DEF UpcastingSpec

\* Whatever the versions, registrations and events: a truthfully labelled
\* event stays truthfully labelled, also in place, also after a throw.
THEOREM LabelsStayTruthful == UpcastingSpec => []LabelsTruthful
<1>1. UpcastingInv => LabelsTruthful
  BY DEF UpcastingInv
<1> QED
  BY <1>1, UpcastingInvariance, PTL

\* upcast() falls short of its target only where an upcaster is missing.
THEOREM UpcastsReachTheirTarget == UpcastingSpec => []StopsOnlyAtGaps
<1>1. UpcastingInv => StopsOnlyAtGaps
  BY DEF UpcastingInv
<1> QED
  BY <1>1, UpcastingInvariance, PTL

-----------------------------------------------------------------------------
(* SnapshotTimes.                                                          *)

\* some() answers no only if every member does: the first to say yes would
\* have been found.
LEMMA NobodySaysYes ==
  ASSUME NEW a, NEW n, FirstYes(a, n) = {}, NEW k \in DOMAIN Strategies
  PROVE  ~Says(Strategies[k], a, n)
<1>. DEFINE S == {j \in DOMAIN Strategies : Says(Strategies[j], a, n)}
<1>1. Len(Strategies) \in Nat /\ DOMAIN Strategies = 1 .. Len(Strategies)
  BY SnapshotTimesAssumption DEF SnapshotTimesAssumption
<1>2. SUFFICES ASSUME S # {} PROVE FALSE
  OBVIOUS
<1>3. PICK m \in S : \A j \in S : m <= j
  <2>1. S \in SUBSET Nat
    BY <1>1
  <2>. HIDE DEF S
  <2>. QED BY <1>2, <2>1, LeastElement
<1>4. \A j \in 1 .. m - 1 : ~Says(Strategies[j], a, n)
  BY <1>1, <1>3
<1>5. m \in FirstYes(a, n)
  BY <1>3, <1>4 DEF FirstYes
<1>. QED BY <1>5

LEMMA TimesInitially == InitTimes => TimesInv
<1>. SUFFICES ASSUME InitTimes PROVE TimesInv
  OBVIOUS
<1>. QED
  BY DEF InitTimes, TimesInv, Never, None, OnePerInterval, DeniedOnlyIfRecent

\* The instants at which the time-based strategy may say yes again.
LEMMA IntervalKept ==
  ASSUME TimesInv, NEW a \in Loaded, NEW n \in Nat, Says("time", a, n),
         NEW i \in DOMAIN timed[a]
  PROVE  time - timed[a][i] >= IntervalMs
<1>. DEFINE t == timed[a]
<1>1. t \in Seq(Nat \ {0}) /\ lastSnapshotTimes[a] = IF t = <<>> THEN 0 ELSE t[Len(t)]
  BY DEF TimesInv
<1>0. \A h, j \in DOMAIN t : h < j => t[j] - t[h] >= IntervalMs
  BY DEF TimesInv, OnePerInterval
<1>. HIDE DEF t
<1>2. Len(t) \in Nat /\ DOMAIN t = 1 .. Len(t) /\ i \in 1 .. Len(t) /\ t # <<>>
  BY <1>1 DEF t
<1>3. t[Len(t)] \in Nat \ {0} /\ t[i] \in Nat \ {0}
  BY <1>1, <1>2
<1>4. time - t[Len(t)] >= IntervalMs
  BY <1>1, <1>2, <1>3 DEF Says, TimeBased
<1>5. i = Len(t) \/ t[Len(t)] - t[i] >= IntervalMs
  BY <1>0, <1>2
<1>6. time \in Nat /\ IntervalMs \in Nat
  BY SnapshotTimesAssumption DEF TimesInv, SnapshotTimesAssumption
<1>. QED BY <1>3, <1>4, <1>5, <1>6 DEF t

LEMMA TakeKeeps ==
  ASSUME TimesInv, NEW a \in Loaded, NEW n \in 1 .. MaxEventCount, TakeSnapshot(a, n)
  PROVE  TimesInv'
<1>1. PICK k \in FirstYes(a, n) :
        /\ taken' = [taken EXCEPT ![a] = time]
        /\ IF Strategies[k] = "time"
           THEN /\ lastSnapshotTimes' = [lastSnapshotTimes EXCEPT ![a] = time]
                /\ timed' = [timed EXCEPT ![a] = Append(timed[a], time)]
           ELSE UNCHANGED <<lastSnapshotTimes, timed>>
        /\ refusal' = None
        /\ UNCHANGED time
  BY DEF TakeSnapshot
<1>2. /\ time \in Nat \ {0} /\ IntervalMs \in Nat /\ n \in Nat
      /\ taken \in [Loaded -> Nat] /\ lastSnapshotTimes \in [Loaded -> Nat]
      /\ timed \in [Loaded -> Seq(Nat \ {0})]
  BY SnapshotTimesAssumption DEF TimesInv, SnapshotTimesAssumption
<1>3. /\ taken' \in [Loaded -> Nat] /\ lastSnapshotTimes' \in [Loaded -> Nat]
      /\ timed' \in [Loaded -> Seq(Nat \ {0})]
  <2>1. Append(timed[a], time) \in Seq(Nat \ {0})
    BY <1>2
  <2>. QED BY <1>1, <1>2, <2>1
<1>4. ASSUME NEW b \in Loaded
      PROVE  /\ lastSnapshotTimes'[b] = IF timed'[b] = <<>> THEN 0 ELSE timed'[b][Len(timed'[b])]
             /\ lastSnapshotTimes'[b] <= taken'[b] /\ taken'[b] <= time'
             /\ \A i, j \in DOMAIN timed'[b] : i < j => timed'[b][j] - timed'[b][i] >= IntervalMs
  <2>1. /\ lastSnapshotTimes[b] = IF timed[b] = <<>> THEN 0 ELSE timed[b][Len(timed[b])]
        /\ lastSnapshotTimes[b] <= taken[b] /\ taken[b] <= time
        /\ \A i, j \in DOMAIN timed[b] : i < j => timed[b][j] - timed[b][i] >= IntervalMs
    BY DEF TimesInv, OnePerInterval
  <2>2. CASE b # a
    BY <1>1, <1>2, <2>1, <2>2
  <2>3. CASE b = a /\ Strategies[k] # "time"
    BY <1>1, <1>2, <2>1, <2>3
  <2>4. CASE b = a /\ Strategies[k] = "time"
    <3>. DEFINE t == timed[a]
    <3>1. t \in Seq(Nat \ {0}) /\ timed'[b] = Append(t, time)
          /\ taken'[b] = time /\ lastSnapshotTimes'[b] = time
      BY <1>1, <1>2, <2>4
    <3>2. \A i \in DOMAIN t : time - t[i] >= IntervalMs
      BY <1>1, <1>2, <2>4, IntervalKept DEF FirstYes
    <3>3. \A i, j \in DOMAIN t : i < j => t[j] - t[i] >= IntervalMs
      BY <2>1, <2>4
    <3>. HIDE DEF t
    <3>4. /\ Len(Append(t, time)) = Len(t) + 1 /\ Append(t, time)[Len(t) + 1] = time
          /\ DOMAIN Append(t, time) = 1 .. Len(t) + 1 /\ DOMAIN t = 1 .. Len(t) /\ Len(t) \in Nat
          /\ \A i \in 1 .. Len(t) : Append(t, time)[i] = t[i]
      BY <1>2, <3>1
    <3>5. Append(t, time) # <<>>
      BY <3>4
    <3>6. ASSUME NEW i \in 1 .. Len(t) + 1, NEW j \in 1 .. Len(t) + 1, i < j
          PROVE  Append(t, time)[j] - Append(t, time)[i] >= IntervalMs
      <4>1. i \in 1 .. Len(t)
        BY <3>4, <3>6
      <4>2. CASE j = Len(t) + 1
        BY <3>2, <3>4, <4>1, <4>2
      <4>3. CASE j \in 1 .. Len(t)
        BY <3>3, <3>4, <3>6, <4>1, <4>3
      <4>. QED BY <3>4, <4>2, <4>3
    <3>. DEFINE new == Append(t, time)
    <3>7. \A i, j \in DOMAIN new : i < j => new[j] - new[i] >= IntervalMs
      BY <3>4, <3>6
    <3>8. new # <<>> /\ new[Len(new)] = time
      BY <3>4, <3>5
    <3>9. timed'[b] = new
      BY <3>1
    <3>. HIDE DEF new
    <3>. QED BY <1>1, <1>2, <3>1, <3>7, <3>8, <3>9
  <2>. QED BY <2>2, <2>3, <2>4
<1>5. OnePerInterval'
  BY <1>4 DEF OnePerInterval
<1>6. DeniedOnlyIfRecent'
  BY <1>1 DEF DeniedOnlyIfRecent, None
<1>. QED BY <1>1, <1>2, <1>3, <1>4, <1>5, <1>6 DEF TimesInv

LEMMA RefusalKeeps ==
  ASSUME TimesInv, NEW a \in Loaded, NEW n \in 1 .. MaxEventCount, NoSnapshot(a, n)
  PROVE  TimesInv'
<1>1. /\ FirstYes(a, n) = {} /\ refusal' = [aggregate |-> a, eventCount |-> n]
      /\ UNCHANGED <<time, lastSnapshotTimes, taken, timed>>
  BY DEF NoSnapshot
<1>2. n \in Nat /\ time \in Nat /\ IntervalMs \in Nat
      /\ lastSnapshotTimes[a] \in Nat /\ taken[a] \in Nat
      /\ lastSnapshotTimes[a] <= taken[a] /\ taken[a] <= time
  BY SnapshotTimesAssumption DEF TimesInv, SnapshotTimesAssumption
<1>3. DeniedOnlyIfRecent'
  <2>1. SUFFICES ASSUME n >= MinEventCount, "time" \in {Strategies[k] : k \in DOMAIN Strategies}
                 PROVE  taken[a] # 0 /\ time - taken[a] < IntervalMs
    BY <1>1 DEF DeniedOnlyIfRecent
  <2>2. ~Says("time", a, n)
    BY <1>1, <2>1, NobodySaysYes
  <2>3. ~(lastSnapshotTimes[a] = 0 \/ time - lastSnapshotTimes[a] >= IntervalMs)
    BY <2>1, <2>2 DEF Says, TimeBased
  <2>. QED BY <1>2, <2>3
<1>4. OnePerInterval'
  BY <1>1 DEF TimesInv, OnePerInterval
<1>5. refusal' \in [aggregate : Loaded, eventCount : Nat]
  BY <1>1, <1>2
<1>. QED BY <1>1, <1>3, <1>4, <1>5 DEF TimesInv

\* Time passes, or the process is started anew.
LEMMA OtherTimesKeep ==
  ASSUME TimesInv, Tick \/ Forget
  PROVE  TimesInv'
<1>1. CASE Tick
  <2>1. /\ time' = time + 1 /\ refusal' = None /\ UNCHANGED <<lastSnapshotTimes, taken, timed>>
    BY <1>1 DEF Tick
  <2>2. OnePerInterval' /\ DeniedOnlyIfRecent'
    BY <2>1 DEF TimesInv, OnePerInterval, DeniedOnlyIfRecent, None
  <2>3. \A a \in Loaded : taken[a] <= time + 1
    BY DEF TimesInv
  <2>. QED BY <2>1, <2>2, <2>3 DEF TimesInv
<1>2. CASE Forget
  BY <1>2 DEF Forget, TimesInv, Never, None, OnePerInterval, DeniedOnlyIfRecent
<1>. QED BY <1>1, <1>2

\* What the strategy remembers is what its answers were.
THEOREM TimesInvariance == TimesSpec => []TimesInv
<1>1. ASSUME TimesInv, [NextTimes]_timesVars PROVE TimesInv'
  <2>1. CASE NextTimes
    BY <1>1, <2>1, TakeKeeps, RefusalKeeps, OtherTimesKeep DEF NextTimes
  <2>2. CASE UNCHANGED timesVars
    BY <1>1, <2>2 DEF timesVars, TimesInv, OnePerInterval, DeniedOnlyIfRecent
  <2>. QED BY <1>1, <2>1, <2>2
<1>. QED BY <1>1, TimesInitially, PTL DEF TimesSpec

\* Whatever the members, thresholds and requests: one timed snapshot of an
\* aggregate per interval.
THEOREM OnePerIntervalAlways == TimesSpec => []OnePerInterval
<1>1. TimesInv => OnePerInterval
  BY DEF TimesInv
<1>. QED BY <1>1, TimesInvariance, PTL

\* And none is denied for longer than that.
THEOREM DeniedOnlyIfRecentAlways == TimesSpec => []DeniedOnlyIfRecent
<1>1. TimesInv => DeniedOnlyIfRecent
  BY DEF TimesInv
<1>. QED BY <1>1, TimesInvariance, PTL

-----------------------------------------------------------------------------
(* EventFormats.                                                           *)

Document == [name : Names, layout : Nat, by : Releases]

USE DEF Releases, Document

\* The least index of a set of indices: what the registry finds first.
LEMMA FirstIndex ==
  ASSUME NEW N \in Nat, NEW S \in SUBSET (1 .. N), S # {}
  PROVE  LET first == CHOOSE k \in S : \A j \in S : k <= j
         IN first \in S /\ \A j \in S : first <= j
<1>1. \E m \in S : \A j \in S : m <= j
  <2>. S \in SUBSET Nat
    OBVIOUS
  <2>. QED BY LeastElement
<1>. QED BY <1>1

LEMMA ClassesTyped ==
  ASSUME NEW r \in Releases
  PROVE  /\ Len(Classes[r]) \in Nat /\ DOMAIN Classes[r] = 1 .. Len(Classes[r])
         /\ \A k \in DOMAIN Classes[r] :
              /\ Classes[r][k] \in [name : Names, layout : Nat \ {0}]
              /\ Classes[r][k].name \in Names
              /\ Classes[r][k].layout \in Nat \ {0}
<1>. DEFINE Class == [name : Names, layout : Nat \ {0}]
<1>1. Classes \in Seq(Seq(Class))
  BY FormatsAssumption DEF FormatsAssumption
<1>. HIDE DEF Class
<1>2. Classes[r] \in Seq(Class)
  BY <1>1
<1>3. Len(Classes[r]) \in Nat /\ DOMAIN Classes[r] = 1 .. Len(Classes[r])
      /\ \A k \in DOMAIN Classes[r] : Classes[r][k] \in Class
  BY <1>2
<1>. QED BY <1>3 DEF Class

LEMMA UpcastersTyped ==
  ASSUME NEW r \in Releases
  PROVE  /\ Len(Upcasters[r]) \in Nat /\ DOMAIN Upcasters[r] = 1 .. Len(Upcasters[r])
         /\ \A m \in DOMAIN Upcasters[r] :
              /\ Upcasters[r][m].name \in Names
              /\ Upcasters[r][m].from \in Nat
              /\ Upcasters[r][m].to \in Nat
<1>. DEFINE Upcaster == [name : Names, from : Nat, to : Nat]
<1>1. Upcasters[r] \in Seq(Upcaster)
  BY FormatsAssumption DEF FormatsAssumption
<1>. HIDE DEF Upcaster
<1>2. Len(Upcasters[r]) \in Nat /\ DOMAIN Upcasters[r] = 1 .. Len(Upcasters[r])
      /\ \A m \in DOMAIN Upcasters[r] : Upcasters[r][m] \in Upcaster
  BY <1>1
<1>. QED BY <1>2 DEF Upcaster

\* With the newest class first, what a release publishes under a name is
\* what it reads events of that name as.
LEMMA PublishedIsRead ==
  ASSUME NewestFirst, NEW r \in Releases, NEW k \in Newest(r)
  PROVE  /\ Classes[r][k].name \in Registered(r)
         /\ Layout(r, Classes[r][k].name) = Classes[r][k].layout
<1>. DEFINE n == Classes[r][k].name
            first == CHOOSE i \in Called(r, n) : \A j \in Called(r, n) : i <= j
<1>1. k \in DOMAIN Classes[r] /\ k \in Called(r, n)
  BY DEF Newest, Called
<1>2. first \in Called(r, n) /\ \A j \in Called(r, n) : first <= j
  <2>1. Called(r, n) \in SUBSET (1 .. Len(Classes[r])) /\ Len(Classes[r]) \in Nat
    BY ClassesTyped DEF Called
  <2>2. Called(r, n) # {}
    BY <1>1
  <2>. QED BY <2>1, <2>2, FirstIndex
<1>. HIDE DEF first
<1>3. first \in DOMAIN Classes[r] /\ Classes[r][first].name = n /\ first <= k
  BY <1>1, <1>2 DEF Called
<1>4. Classes[r][k].layout <= Classes[r][first].layout
  <2>1. CASE first = k
    BY <2>1, <1>1, ClassesTyped
  <2>2. CASE first # k
    <3>1. first < k
      BY <1>1, <1>3, <2>2, ClassesTyped
    <3>. QED BY <1>1, <1>3, <3>1 DEF NewestFirst
  <2>. QED BY <2>1, <2>2
<1>5. Classes[r][first].layout <= Classes[r][k].layout
  BY <1>2 DEF Newest
<1>6. Classes[r][first].layout = Classes[r][k].layout
  BY <1>1, <1>3, <1>4, <1>5, ClassesTyped
<1>7. n \in Registered(r)
  BY <1>1 DEF Registered
<1>8. Layout(r, n) = Classes[r][first].layout
  BY DEF Layout, first
<1>. QED BY <1>6, <1>7, <1>8

\* A release publishes something under every name it registers.
LEMMA EveryNamePublished ==
  ASSUME NewestFirst, NEW r \in Releases, NEW n \in Registered(r)
  PROVE  \E k \in Newest(r) : Classes[r][k].name = n
<1>. DEFINE first == CHOOSE i \in Called(r, n) : \A j \in Called(r, n) : i <= j
<1>1. Called(r, n) # {}
  BY DEF Called, Registered
<1>2. first \in Called(r, n) /\ \A j \in Called(r, n) : first <= j
  <2>1. Called(r, n) \in SUBSET (1 .. Len(Classes[r])) /\ Len(Classes[r]) \in Nat
    BY ClassesTyped DEF Called
  <2>. QED BY <1>1, <2>1, FirstIndex
<1>. HIDE DEF first
<1>3. first \in DOMAIN Classes[r] /\ Classes[r][first].name = n
  BY <1>2 DEF Called
<1>4. ASSUME NEW j \in Called(r, n) PROVE Classes[r][j].layout <= Classes[r][first].layout
  <2>1. j \in DOMAIN Classes[r] /\ Classes[r][j].name = n /\ first <= j
    BY <1>2 DEF Called
  <2>2. CASE first = j
    BY <2>2, <1>3, ClassesTyped
  <2>3. CASE first # j
    <3>1. first < j
      BY <1>3, <2>1, <2>3, ClassesTyped
    <3>. QED BY <1>3, <2>1, <3>1 DEF NewestFirst
  <2>. QED BY <2>2, <2>3
<1>5. first \in Newest(r)
  BY <1>3, <1>4 DEF Newest
<1>. QED BY <1>3, <1>5

\* The loop over the upcasters, unfolded.
LEMMA MigratedUnfolds ==
  ASSUME NEW r \in Releases, NEW document \in Document
  PROVE  \E after \in [0 .. Len(Upcasters[r]) -> Nat] :
           /\ after[0] = document.layout
           /\ \A k \in DOMAIN Upcasters[r] :
                after[k] = UpcastedBy(Upcasters[r][k], document.name, after[k - 1])
           /\ Migrated(r, document) = [document EXCEPT !.layout = after[Len(Upcasters[r])]]
<1>. DEFINE N == Len(Upcasters[r])
            step == [k \in 1 .. N |-> [x \in Nat |-> UpcastedBy(Upcasters[r][k], document.name, x)]]
            body(f) == [k \in 0 .. N |->
                          IF k = 0 THEN document.layout
                          ELSE UpcastedBy(Upcasters[r][k], document.name, f[k - 1])]
            after == CHOOSE f : f = body(f)
<1>1. step \in [1 .. N -> [Nat -> Nat]] /\ N \in Nat /\ DOMAIN Upcasters[r] = 1 .. N
  BY UpcastersTyped DEF UpcastedBy
<1>2. PICK f \in [0 .. N -> Nat] : Iterates(f, N, document.layout, step)
  <2>. HIDE DEF step, N
  <2>. QED BY <1>1, IteratesExist
<1>3. f = body(f)
  <2>1. ASSUME NEW k \in 1 .. N
        PROVE  step[k][f[k - 1]] = UpcastedBy(Upcasters[r][k], document.name, f[k - 1])
    <3>1. f[k - 1] \in Nat
      <4>1. N \in Nat
        BY <1>1
      <4>. HIDE DEF step, N
      <4>. QED BY <4>1
    <3>. QED BY <3>1
  <2>2. ASSUME NEW k \in 0 .. N
        PROVE  f[k] = IF k = 0 THEN document.layout
                      ELSE UpcastedBy(Upcasters[r][k], document.name, f[k - 1])
    <3>1. f[k] = IF k = 0 THEN document.layout ELSE step[k][f[k - 1]]
      <4>. HIDE DEF step, N
      <4>. QED BY <1>2 DEF Iterates
    <3>2. k # 0 => k \in 1 .. N
      BY <1>1
    <3>. QED BY <2>1, <3>1, <3>2
  <2>. HIDE DEF step
  <2>. QED BY <1>2, <2>2
<1>4. after = body(after)
  BY <1>3
<1>5. Migrated(r, document) = [document EXCEPT !.layout = after[N]]
  BY DEF Migrated
<1>. HIDE DEF after, step
<1>6. DOMAIN after = 0 .. N /\ after[0] = document.layout
  BY <1>1, <1>4
<1>7. ASSUME NEW k \in 1 .. N
      PROVE  after[k] = UpcastedBy(Upcasters[r][k], document.name, after[k - 1])
  <2>1. k \in 0 .. N /\ k # 0
    BY <1>1
  <2>2. after[k] = body(after)[k]
    BY <1>4
  <2>. HIDE DEF N
  <2>. QED BY <2>1, <2>2
<1>8. after \in [0 .. N -> Nat]
  <2>. DEFINE S == {k \in 0 .. N : after[k] \in Nat}
  <2>1. 0 \in S
    BY <1>1, <1>6
  <2>2. ASSUME NEW k \in 0 .. N - 1, k \in S PROVE k + 1 \in S
    <3>1. k + 1 \in 1 .. N /\ (k + 1) - 1 = k
      BY <1>1
    <3>2. after[k + 1] = UpcastedBy(Upcasters[r][k + 1], document.name, after[k])
      BY <1>7, <3>1
    <3>. QED BY <1>1, <2>2, <3>1, <3>2, UpcastersTyped DEF UpcastedBy
  <2>. HIDE DEF S
  <2>3. 0 .. N \subseteq S
    BY <1>1, <2>1, <2>2, SetInduction
  <2>4. \A k \in 0 .. N : after[k] \in Nat
    BY <2>3 DEF S
  <2>. QED BY <1>4, <1>6, <2>4
<1>. QED BY <1>1, <1>5, <1>6, <1>7, <1>8

\* The upcasters take every layout a release or an earlier one publishes to
\* the layout the release reads it as: the loop is always there already,
\* or short of an upcaster that goes on from where it is.
LEMMA MigratedArrives ==
  ASSUME NewestFirst, UpcastersLead,
         NEW r \in Releases, NEW k \in Newest(r),
         NEW s \in Releases, s <= r, NEW j \in Newest(s),
         NEW document \in Document, document.name = Classes[r][k].name,
         Classes[s][j].name = document.name, document.layout = Classes[s][j].layout
  PROVE  /\ Migrated(r, document).layout = Classes[r][k].layout
         /\ Migrated(r, document).name = document.name
<1>. DEFINE n == document.name
            own == Classes[r][k].layout
            N == Len(Upcasters[r])
<1>1. k \in DOMAIN Classes[r] /\ j \in DOMAIN Classes[s]
  BY DEF Newest
<1>2. document.layout \in Nat /\ own \in Nat /\ N \in Nat /\ DOMAIN Upcasters[r] = 1 .. N
  BY <1>1, ClassesTyped, UpcastersTyped
<1>3. PICK after \in [0 .. N -> Nat] :
        /\ after[0] = document.layout
        /\ \A m \in DOMAIN Upcasters[r] :
             after[m] = UpcastedBy(Upcasters[r][m], n, after[m - 1])
        /\ Migrated(r, document) = [document EXCEPT !.layout = after[N]]
  BY <1>2, MigratedUnfolds
<1>4. /\ document.layout = own \/ Continued(r, 0, n, document.layout)
      /\ \A m \in DOMAIN Upcasters[r] :
            Upcasters[r][m].name = n =>
              /\ Upcasters[r][m].from # own
              /\ Upcasters[r][m].to = own \/ Continued(r, m, n, Upcasters[r][m].to)
  BY DEF UpcastersLead
<1>. DEFINE S == {m \in 0 .. N : after[m] = own \/ Continued(r, m, n, after[m])}
<1>5. 0 \in S
  BY <1>2, <1>3, <1>4
<1>6. ASSUME NEW m \in 0 .. N - 1, m \in S PROVE m + 1 \in S
  <2>. DEFINE u == Upcasters[r][m + 1]
  <2>1. m + 1 \in DOMAIN Upcasters[r] /\ m + 1 \in 0 .. N /\ (m + 1) - 1 = m
    BY <1>2
  <2>2. after[m + 1] = UpcastedBy(u, n, after[m])
    BY <1>3, <2>1
  <2>3. after[m] = own \/ Continued(r, m, n, after[m])
    BY <1>6
  <2>4. CASE u.name = n /\ u.from = after[m]
    <3>1. after[m + 1] = u.to
      BY <2>2, <2>4 DEF UpcastedBy
    <3>. QED BY <1>4, <2>1, <2>4, <3>1
  <2>5. CASE ~(u.name = n /\ u.from = after[m])
    <3>1. after[m + 1] = after[m]
      BY <2>2, <2>5 DEF UpcastedBy
    <3>2. ASSUME Continued(r, m, n, after[m]) PROVE Continued(r, m + 1, n, after[m])
      <4>1. PICK v \in DOMAIN Upcasters[r] :
              v > m /\ Upcasters[r][v].name = n /\ Upcasters[r][v].from = after[m]
        BY <3>2 DEF Continued
      <4>2. v # m + 1
        BY <2>5, <4>1
      <4>3. v > m + 1
        BY <1>2, <4>1, <4>2
      <4>. QED BY <4>1, <4>3 DEF Continued
    <3>. QED BY <2>1, <2>3, <3>1, <3>2
  <2>. QED BY <2>4, <2>5
<1>. HIDE DEF S
<1>7. 0 .. N \subseteq S
  BY <1>2, <1>5, <1>6, SetInduction
<1>8. after[N] = own \/ Continued(r, N, n, after[N])
  BY <1>2, <1>7 DEF S
<1>9. ~Continued(r, N, n, after[N])
  BY <1>2 DEF Continued
<1>10. Migrated(r, document).layout = after[N] /\ Migrated(r, document).name = n
  <2>. DEFINE x == after[N]
  <2>1. [document EXCEPT !.layout = x].layout = x
    BY <1>3
  <2>. QED BY <1>3
<1>. QED BY <1>8, <1>9, <1>10

\* What is in the collection when a process reads its k-th document.
LEMMA DocumentsPublished ==
  ASSUME FormatsInv, NEW k \in DOMAIN documents
  PROVE  /\ documents[k] \in Document /\ documents[k].by \in Releases
         /\ \E j \in Newest(documents[k].by) :
              /\ documents[k].name = Classes[documents[k].by][j].name
              /\ documents[k].layout = Classes[documents[k].by][j].layout
<1>1. documents[k] \in Document
  <2>. HIDE DEF Document
  <2>1. documents \in Seq(Document)
    BY DEF FormatsInv, Document
  <2>. QED BY <2>1
<1>2. PICK j \in Newest(documents[k].by) :
        documents[k] = Serialized(Classes[documents[k].by][j], documents[k].by)
  BY DEF FormatsInv
<1>3. /\ documents[k].name = Classes[documents[k].by][j].name
      /\ documents[k].layout = Classes[documents[k].by][j].layout
  BY <1>2 DEF Serialized
<1>. QED BY <1>1, <1>3

LEMMA FormatsInitially == InitFormats => FormatsInv
  BY DEF InitFormats, FormatsInv

LEMMA FormatsStep ==
  ASSUME FormatsInv, [NextFormats]_formatsVars
  PROVE  FormatsInv'
<1>1. /\ release \in [Hosts -> {0} \cup Releases] /\ seen \in [Hosts -> Nat]
      /\ documents \in Seq(Document)
  BY DEF FormatsInv
<1>2. ASSUME UNCHANGED documents,
             release' \in [Hosts -> {0} \cup Releases], seen' \in [Hosts -> Nat]
      PROVE  FormatsInv'
  BY <1>2 DEF FormatsInv
<1>3. ASSUME NEW i \in Hosts, NEW r \in Releases, Start(i, r) PROVE FormatsInv'
  <2>1. Len(documents) \in Nat
    <3>. HIDE DEF Document
    <3>. QED BY <1>1
  <2>. QED BY <1>1, <1>2, <1>3, <2>1 DEF Start
<1>4. ASSUME NEW i \in Hosts, Stop(i) PROVE FormatsInv'
  BY <1>1, <1>2, <1>4 DEF Stop
<1>5. ASSUME NEW i \in Hosts, NEW r \in Releases, NEW k \in DOMAIN Classes[r], Publish(i, k)
      PROVE  FormatsInv'
  <2>. DEFINE s == release[i]
              document == Serialized(Classes[s][k], s)
  <2>1. s \in Releases /\ k \in Newest(s) /\ documents' = Append(documents, document)
        /\ release' = release /\ seen' = seen
    BY <1>1, <1>5 DEF Publish
  <2>2. document \in Document /\ document.by = s
    <3>1. k \in DOMAIN Classes[s]
      BY <2>1 DEF Newest
    <3>2. Classes[s][k].name \in Names /\ Classes[s][k].layout \in Nat
      BY <2>1, <3>1, ClassesTyped
    <3>. QED BY <2>1, <3>2 DEF Serialized
  <2>3. documents' \in Seq(Document)
    <3>. HIDE DEF Document, document
    <3>. QED BY <1>1, <2>1, <2>2
  <2>4. ASSUME NEW m \in DOMAIN documents'
        PROVE  \E j \in Newest(documents'[m].by) :
                 documents'[m] = Serialized(Classes[documents'[m].by][j], documents'[m].by)
    <3>1. (m \in DOMAIN documents /\ documents'[m] = documents[m]) \/ documents'[m] = document
      <4>. HIDE DEF Document, document
      <4>. QED BY <1>1, <2>1, <2>2
    <3>2. CASE m \in DOMAIN documents /\ documents'[m] = documents[m]
      BY <3>2 DEF FormatsInv
    <3>3. CASE documents'[m] = document
      BY <2>1, <2>2, <3>3
    <3>. QED BY <3>1, <3>2, <3>3
  <2>. QED BY <1>1, <2>1, <2>3, <2>4 DEF FormatsInv
<1>6. ASSUME NEW i \in Hosts, NEW k \in DOMAIN documents, Load(i, k) PROVE FormatsInv'
  BY <1>1, <1>2, <1>6 DEF Load
<1>7. ASSUME NEW i \in Hosts, Emit(i) PROVE FormatsInv'
  <2>1. /\ documents' = documents
        /\ seen' = [seen EXCEPT ![i] = seen[i] + 1]
        /\ release' = [release EXCEPT ![i] = 0] \/ release' = release
    BY <1>7 DEF Emit
  <2>2. seen' \in [Hosts -> Nat]
    BY <1>1, <2>1
  <2>3. release' \in [Hosts -> {0} \cup Releases]
    BY <1>1, <2>1
  <2>. QED BY <1>2, <2>1, <2>2, <2>3
<1>8. CASE UNCHANGED formatsVars
  BY <1>1, <1>2, <1>8 DEF formatsVars
<1>. QED BY <1>3, <1>4, <1>5, <1>6, <1>7, <1>8 DEF NextFormats

\* Reading changes nothing but the outcome, and without a read there is none.
LEMMA OutcomeOfStep ==
  ASSUME FormatsInv, NextFormats
  PROVE  \/ outcome' = NoRead
         \/ \E r \in Releases : \E k \in DOMAIN documents :
               \/ outcome' = [path |-> "store", release |-> r, by |-> documents[k].by,
                             instance |-> Deserialized(r, Migrated(r, documents[k]))]
               \/ outcome' = [path |-> "bridge", release |-> r, by |-> documents[k].by,
                             instance |-> Deserialized(r, documents[k])]
<1>1. release \in [Hosts -> {0} \cup Releases] /\ seen \in [Hosts -> Nat]
  BY DEF FormatsInv
<1>2. DOMAIN documents = 1 .. Len(documents) /\ Len(documents) \in Nat
  <2>1. documents \in Seq(Document)
    BY DEF FormatsInv
  <2>. HIDE DEF Document
  <2>. QED BY <2>1
<1>3. ASSUME NEW i \in Hosts,
             \/ \E r \in Releases : Start(i, r) \/ \E k \in DOMAIN Classes[r] : Publish(i, k)
             \/ Stop(i)
      PROVE  outcome' = NoRead
  BY <1>3 DEF Start, Publish, Stop
<1>4. ASSUME NEW i \in Hosts, NEW k \in DOMAIN documents, Load(i, k)
      PROVE  /\ release[i] \in Releases
             /\ outcome' = [path |-> "store", release |-> release[i], by |-> documents[k].by,
                            instance |-> Deserialized(release[i], Migrated(release[i], documents[k]))]
  BY <1>1, <1>4 DEF Load, Read
<1>5. ASSUME NEW i \in Hosts, Emit(i)
      PROVE  /\ release[i] \in Releases /\ seen[i] + 1 \in DOMAIN documents
             /\ outcome' = [path |-> "bridge", release |-> release[i], by |-> documents[seen[i] + 1].by,
                            instance |-> Deserialized(release[i], documents[seen[i] + 1])]
  BY <1>1, <1>2, <1>5 DEF Emit, Read
<1>. QED BY <1>3, <1>4, <1>5 DEF NextFormats

\* What each kind of read comes to.
LEMMA StoreReadSound ==
  ASSUME NewestFirst, NamesStay, UpcastersLead, FormatsInv,
         NEW r \in Releases, NEW k \in DOMAIN documents, documents[k].by <= r
  PROVE  Sound(Deserialized(r, Migrated(r, documents[k])))
<1>. DEFINE document == documents[k]
            s == document.by
<1>1. document \in Document /\ s \in Releases
  BY DocumentsPublished
<1>2. PICK j \in Newest(s) :
        document.name = Classes[s][j].name /\ document.layout = Classes[s][j].layout
  BY DocumentsPublished
<1>3. document.name \in Registered(r)
  <2>1. j \in DOMAIN Classes[s]
    BY DEF Newest
  <2>. QED BY <1>1, <1>2, <2>1 DEF NamesStay, Registered
<1>4. PICK own \in Newest(r) : Classes[r][own].name = document.name
  BY <1>3, EveryNamePublished
<1>. HIDE DEF Document, document
<1>5. /\ Migrated(r, document).layout = Classes[r][own].layout
      /\ Migrated(r, document).name = document.name
  BY <1>1, <1>2, <1>4, MigratedArrives DEF document
<1>6. Layout(r, document.name) = Classes[r][own].layout
  BY <1>4, PublishedIsRead
<1>. QED BY <1>3, <1>5, <1>6 DEF Sound, Deserialized, document

LEMMA BridgeReadThrows ==
  ASSUME NamesStay, FormatsInv,
         NEW r \in Releases, NEW k \in DOMAIN documents, Throws(Deserialized(r, documents[k]))
  PROVE  documents[k].by > r
<1>. DEFINE s == documents[k].by
<1>1. PICK j \in Newest(s) : documents[k].name = Classes[s][j].name
  BY DocumentsPublished
<1>2. s \in Releases /\ s \in Nat /\ r \in Nat
  <2>1. s \in Releases
    BY DocumentsPublished
  <2>2. DOMAIN Classes \in SUBSET Nat
    BY FormatsAssumption DEF FormatsAssumption
  <2>. QED BY <2>1, <2>2
<1>3. j \in DOMAIN Classes[s]
  BY DEF Newest
<1>4. ASSUME s <= r PROVE FALSE
  <2>1. documents[k].name \in Registered(r)
    BY <1>1, <1>2, <1>3, <1>4 DEF NamesStay, Registered
  <2>2. \E c \in DOMAIN Classes[r] : Classes[r][c].name = documents[k].name
    BY <2>1 DEF Registered
  <2>3. Layout(r, documents[k].name) # 0
    <3>. DEFINE n == documents[k].name
                first == CHOOSE i \in Called(r, n) : \A c \in Called(r, n) : i <= c
    <3>1. first \in Called(r, n)
      <4>1. Called(r, n) \in SUBSET (1 .. Len(Classes[r])) /\ Len(Classes[r]) \in Nat
        BY ClassesTyped DEF Called
      <4>2. Called(r, n) # {}
        BY <2>2 DEF Called
      <4>. QED BY <4>1, <4>2, FirstIndex
    <3>2. Layout(r, n) = Classes[r][first].layout
      BY DEF Layout
    <3>. HIDE DEF first
    <3>3. first \in DOMAIN Classes[r]
      BY <3>1 DEF Called
    <3>. QED BY <3>2, <3>3, ClassesTyped
  <2>. QED BY <2>1, <2>3 DEF Throws, Deserialized
<1>. QED BY <1>2, <1>4

LEMMA OwnReadSound ==
  ASSUME NewestFirst, FormatsInv, NEW k \in DOMAIN documents
  PROVE  Sound(Deserialized(documents[k].by, documents[k]))
<1>. DEFINE s == documents[k].by
<1>1. PICK j \in Newest(s) :
        documents[k].name = Classes[s][j].name /\ documents[k].layout = Classes[s][j].layout
  BY DocumentsPublished
<1>2. s \in Releases
  BY DocumentsPublished
<1>3. documents[k].name \in Registered(s) /\ Layout(s, documents[k].name) = documents[k].layout
  BY <1>1, <1>2, PublishedIsRead
<1>. QED BY <1>3 DEF Sound, Deserialized

\* The collection holds only what some release published.
THEOREM FormatsInvariance == FormatsSpec => []FormatsInv
<1>1. FormatsInv /\ [NextFormats]_formatsVars => FormatsInv'
  BY FormatsStep
<1>. QED BY <1>1, FormatsInitially, PTL DEF FormatsSpec

\* An application that keeps its names, registers its newest classes first
\* and has an upcaster for every layout it left behind can load every
\* stream, for any number of releases, classes, upcasters and processes.
THEOREM OldStreamsAlwaysLoad ==
  ASSUME NewestFirst, NamesStay, UpcastersLead
  PROVE  FormatsSpec => []OldStreamsLoad
<1>1. InitFormats => OldStreamsLoad
  BY DEF InitFormats, OldStreamsLoad, NoRead
<1>2. ASSUME FormatsInv, OldStreamsLoad, [NextFormats]_formatsVars PROVE OldStreamsLoad'
  <2>1. CASE NextFormats
    <3>1. SUFFICES ASSUME outcome'.path = "store", outcome'.by <= outcome'.release
                   PROVE  Sound(outcome'.instance)
      BY DEF OldStreamsLoad, Sound
    <3>2. PICK r \in Releases, k \in DOMAIN documents :
            outcome' = [path |-> "store", release |-> r, by |-> documents[k].by,
                        instance |-> Deserialized(r, Migrated(r, documents[k]))]
      BY <1>2, <2>1, <3>1, OutcomeOfStep DEF NoRead
    <3>. QED BY <1>2, <3>1, <3>2, StoreReadSound
  <2>2. CASE UNCHANGED formatsVars
    BY <1>2, <2>2 DEF formatsVars, OldStreamsLoad, Sound
  <2>. QED BY <1>2, <2>1, <2>2
<1>. QED BY <1>1, <1>2, FormatsInvariance, PTL DEF FormatsSpec

\* An application that keeps its names has its processes ended by the change
\* stream only while a later release is being rolled out.
THEOREM EndedOnlyInDeployments ==
  ASSUME NamesStay
  PROVE  FormatsSpec => []EndedOnlyByNewer
<1>1. InitFormats => EndedOnlyByNewer
  BY DEF InitFormats, EndedOnlyByNewer, NoRead
<1>2. ASSUME FormatsInv, EndedOnlyByNewer, [NextFormats]_formatsVars PROVE EndedOnlyByNewer'
  <2>1. CASE NextFormats
    <3>1. SUFFICES ASSUME outcome'.path = "bridge", Throws(outcome'.instance)
                   PROVE  outcome'.by > outcome'.release
      BY DEF EndedOnlyByNewer, Throws
    <3>2. PICK r \in Releases, k \in DOMAIN documents :
            outcome' = [path |-> "bridge", release |-> r, by |-> documents[k].by,
                        instance |-> Deserialized(r, documents[k])]
      BY <1>2, <2>1, <3>1, OutcomeOfStep DEF NoRead
    <3>. QED BY <1>2, <3>1, <3>2, BridgeReadThrows
  <2>2. CASE UNCHANGED formatsVars
    BY <1>2, <2>2 DEF formatsVars, EndedOnlyByNewer, Throws
  <2>. QED BY <1>2, <2>1, <2>2
<1>. QED BY <1>1, <1>2, FormatsInvariance, PTL DEF FormatsSpec

\* An application that registers its newest classes first hands every event
\* of its own release to its handlers as the class they were written for.
THEOREM OwnEventsAlwaysSound ==
  ASSUME NewestFirst
  PROVE  FormatsSpec => []OwnEventsSound
<1>1. InitFormats => OwnEventsSound
  BY DEF InitFormats, OwnEventsSound, NoRead
<1>2. ASSUME FormatsInv, OwnEventsSound, [NextFormats]_formatsVars PROVE OwnEventsSound'
  <2>1. CASE NextFormats
    <3>1. SUFFICES ASSUME outcome'.path = "bridge", outcome'.by = outcome'.release
                   PROVE  Sound(outcome'.instance)
      BY DEF OwnEventsSound, Sound
    <3>2. PICK r \in Releases, k \in DOMAIN documents :
            outcome' = [path |-> "bridge", release |-> r, by |-> documents[k].by,
                        instance |-> Deserialized(r, documents[k])]
      BY <1>2, <2>1, <3>1, OutcomeOfStep DEF NoRead
    <3>. QED BY <1>2, <3>1, <3>2, OwnReadSound
  <2>2. CASE UNCHANGED formatsVars
    BY <1>2, <2>2 DEF formatsVars, OwnEventsSound, Sound
  <2>. QED BY <1>2, <2>1, <2>2
<1>. QED BY <1>1, <1>2, FormatsInvariance, PTL DEF FormatsSpec
=============================================================================
