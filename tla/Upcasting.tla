----------------------------- MODULE Upcasting -----------------------------
(***************************************************************************)
(* EnhancedUpcasterRegistry: upcasters by event type and version, and the *)
(* loop that takes an event through them.  upcast() awaits nothing, so    *)
(* nothing is registered while it runs; one turn of its loop is one step. *)
(*                                                                         *)
(* An event has a label, its eventVersion (0: none), and a layout, the    *)
(* version its attributes really have (Garbled: none).  An upcaster       *)
(* returns a new object or the one it was given, changed in place; it may *)
(* throw, and the caller may try again with the object it holds.          *)
(***************************************************************************)
EXTENDS Naturals

CONSTANTS
  EventTypes,
  Versions,   \* those upcasters are registered for
  Stored      \* the events a caller may have read

Garbled == 0

ASSUME UpcastingAssumption ==
  /\ Versions \subseteq Nat \ {0}
  /\ Stored \subseteq [type : EventTypes, label : Nat, layout : Nat \ {Garbled}]

VARIABLES
  upcasters,  \* event type |-> (from |-> to)
  latest,     \* this.latestVersions; 0: no entry
  skipping,   \* history: types with an upcaster over several versions
  read,       \* history: the event as the caller has read it
  held,       \* the caller's object
  phase,      \* "idle", "looping" or "returned"
  target,     \* of the call
  version,    \* of the call
  current,    \* currentEvent of the call, at the end its result
  aliased     \* currentEvent is the caller's object

upcastingVars == <<upcasters, latest, skipping, read, held, phase, target,
                   version, current, aliased>>

registry == <<upcasters, latest, skipping>>

\* event.eventVersion || 1
VersionOf(e) == IF e.label = 0 THEN 1 ELSE e.label

hasUpcaster(t, v) == v \in DOMAIN upcasters[t]

InitUpcasting ==
  /\ upcasters = [t \in EventTypes |-> [v \in {} |-> 0]]
  /\ latest = [t \in EventTypes |-> 0]
  /\ skipping = {}
  /\ read \in Stored
  /\ held = read
  /\ phase = "idle"
  /\ target = 0
  /\ version = 0
  /\ current = read
  /\ aliased = TRUE

-----------------------------------------------------------------------------

\* register(t, from, to): the last registration for a version counts, and
\* the latest version never goes down.
Register(t, from, to) ==
  /\ phase = "idle"
  /\ upcasters' = [upcasters EXCEPT ![t] =
                     [v \in DOMAIN @ \cup {from} |-> IF v = from THEN to ELSE @[v]]]
  /\ latest' = [latest EXCEPT ![t] = IF to > @ THEN to ELSE @]
  /\ skipping' = IF to = from + 1 THEN skipping ELSE skipping \cup {t}
  /\ UNCHANGED <<read, held, phase, target, version, current, aliased>>

\* Seeded fault: one version short of the target is taken for good enough.
NothingToDoEarly(from, to) == from + 1 >= to \/ DOMAIN upcasters[held.type] = {}

\* The early returns: the event has the target version already, or no
\* upcaster was ever registered for its type.
NothingToDo(from, to) == from >= to \/ DOMAIN upcasters[held.type] = {}

\* The target version when the caller asks for `wanted` (0: nothing).
TargetFor(wanted) ==
  IF wanted # 0 THEN wanted
  ELSE IF latest[held.type] # 0 THEN latest[held.type]
  ELSE VersionOf(held)

\* upcast(held, wanted) up to its loop.
Upcast(wanted) ==
  /\ phase = "idle"
  /\ target' = TargetFor(wanted)
  /\ version' = VersionOf(held)
  /\ current' = held
  /\ aliased' = TRUE
  /\ phase' = IF NothingToDo(VersionOf(held), TargetFor(wanted))
              THEN "returned" ELSE "looping"
  /\ UNCHANGED <<registry, read, held>>

\* What the upcaster for `version` makes of the attributes of e.
Converted(e) ==
  IF e.layout = version THEN upcasters[held.type][version] ELSE Garbled

\* Seeded fault: the label is left to the end of the loop.
UpcastedUnlabelled(e) == [type |-> e.type, label |-> e.label, layout |-> Converted(e)]

\* The converted event, with the label the loop gives it: one more than
\* before, whatever version the upcaster was registered to reach.
Upcasted(e) == [type |-> e.type, label |-> version + 1, layout |-> Converted(e)]

\* A turn of the loop, with an upcaster that copies or one that does not.
Turn ==
  /\ phase = "looping"
  /\ version < target
  /\ hasUpcaster(held.type, version)
  /\ current' = Upcasted(current)
  /\ version' = version + 1
  /\ \/ aliased' = FALSE /\ UNCHANGED held
     \/ aliased /\ held' = Upcasted(held) /\ UNCHANGED aliased
  /\ UNCHANGED <<registry, read, phase, target>>

\* The loop ends, at the target or where an upcaster is missing.
Return ==
  /\ phase = "looping"
  /\ version >= target \/ ~hasUpcaster(held.type, version)
  /\ phase' = "returned"
  /\ UNCHANGED <<registry, read, held, target, version, current, aliased>>

\* The upcaster throws, and so does upcast().
Throw ==
  /\ phase = "looping"
  /\ version < target
  /\ hasUpcaster(held.type, version)
  /\ phase' = "idle"
  /\ UNCHANGED <<registry, read, held, target, version, current, aliased>>

\* The caller goes on, with the result or with the object it had.
Take ==
  /\ phase = "returned"
  /\ held' \in {held, current}
  /\ phase' = "idle"
  /\ UNCHANGED <<registry, read, target, version, current, aliased>>

NextUpcasting ==
  \/ \E t \in EventTypes : \E from, to \in Versions : from < to /\ Register(t, from, to)
  \/ \E wanted \in {0} \cup Versions : Upcast(wanted)
  \/ Turn \/ Return \/ Throw \/ Take

UpcastingSpec == InitUpcasting /\ [][NextUpcasting]_upcastingVars

-----------------------------------------------------------------------------
(* Correctness.                                                            *)

\* The version the registry takes e for is the one its attributes have.
Truthful(e) == VersionOf(e) = e.layout

\* If events are labelled truthfully in the store and upcasters go from one
\* version to the next, everything the caller can get hold of is labelled
\* truthfully: results, and its own object too, which an upcaster has
\* changed in place before a later one has thrown, so that trying again
\* repeats no conversion (upcast, its loop).
LabelsTruthful ==
  Truthful(read) /\ held.type \notin skipping =>
    Truthful(held) /\ (phase # "idle" => Truthful(current))

\* upcast() stops short of the version asked for, or of the latest, only
\* where the chain has a gap, however the registrations came in.
StopsOnlyAtGaps ==
  phase = "returned" =>
    VersionOf(current) >= target \/ ~hasUpcaster(held.type, VersionOf(current))

\* The inductive invariant.
UpcastingTypeOK ==
  /\ DOMAIN upcasters = EventTypes
  /\ \A t \in EventTypes :
       upcasters[t] \in [DOMAIN upcasters[t] -> Versions] /\ DOMAIN upcasters[t] \subseteq Versions
  /\ latest \in [EventTypes -> Nat]
  /\ skipping \subseteq EventTypes
  /\ {read, held, current} \subseteq [type : EventTypes, label : Nat, layout : Nat]
  /\ phase \in {"idle", "looping", "returned"}
  /\ target \in Nat
  /\ version \in Nat
  /\ aliased \in BOOLEAN

\* Outside skipping, every upcaster goes one version up.
StepByStep ==
  \A t \in EventTypes \ skipping : \A v \in DOMAIN upcasters[t] : upcasters[t][v] = v + 1

\* What the loop knows.
LoopSound ==
  /\ held.type = read.type
  /\ current.type = held.type
  /\ phase # "idle" => version = VersionOf(current)
  /\ phase = "looping" /\ aliased => held = current

UpcastingInv ==
  /\ UpcastingTypeOK /\ StepByStep /\ LoopSound /\ LabelsTruthful /\ StopsOnlyAtGaps
=============================================================================
