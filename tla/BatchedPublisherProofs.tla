----------------------- MODULE BatchedPublisherProofs -----------------------
(***************************************************************************)
(* Proofs about BatchedPublisher, for any events, aggregates and batch     *)
(* size: nothing is stranded, doubled or dropped without notice.           *)
(***************************************************************************)
EXTENDS BatchedPublisher, TLAPS

Stages == {"new", "batched"} \cup InFlight \cup Settled
Replies == {"none", "waiting", "ok", "error", "gone"}
Flights == [caller : Callers, events : SUBSET Events]

\* The part of InOnePlace about flushes, and the part about the batch.
FlightsApart ==
  /\ \A f \in flights : \A e \in f.events : stage[e] \in InFlight \cup Stored
  /\ \A f, g \in flights : f # g => f.events \cap g.events = {}

BatchInPlace ==
  /\ \A i \in DOMAIN batch : stage[batch[i]] = "batched"
  /\ IsInjective(batch)
  /\ \A e \in Events : stage[e] = "batched" => e \in Range(batch)

LEMMA OnePlaceParts == InOnePlace <=> BatchInPlace /\ FlightsApart
BY DEF InOnePlace, BatchInPlace, FlightsApart

LEMMA CallerKinds == Events \cap {"none", "timer", "destroy", "manual"} = {}
BY ConstantsAssumption DEF ConstantsAssumption

LEMMA EmptyBatch ==
  /\ <<>> \in Seq(Events)
  /\ Len(<<>>) = 0
  /\ DOMAIN <<>> = {}
  /\ Range(<<>>) = {}
  /\ IsInjective(<<>>)
BY DEF Range, IsInjective

LEMMA AppendFacts ==
  ASSUME NEW b \in Seq(Events), NEW e \in Events
  PROVE  /\ Append(b, e) \in Seq(Events)
         /\ Append(b, e) # <<>>
         /\ Len(Append(b, e)) = Len(b) + 1
         /\ Range(Append(b, e)) = Range(b) \cup {e}
         /\ IsInjective(b) /\ e \notin Range(b) => IsInjective(Append(b, e))
<1>. DEFINE c == Append(b, e)
<1>1. /\ c \in Seq(Events)
      /\ Len(b) \in Nat /\ Len(c) = Len(b) + 1
      /\ DOMAIN b = 1 .. Len(b) /\ DOMAIN c = 1 .. Len(b) + 1
      /\ \A i \in 1 .. Len(b) : c[i] = b[i]
      /\ c[Len(b) + 1] = e
  OBVIOUS
<1>2. c # <<>>
  BY <1>1
<1>3. Range(c) = Range(b) \cup {e}
  <2>1. ASSUME NEW x \in Range(c) PROVE x \in Range(b) \cup {e}
    <3>1. PICK i \in 1 .. Len(b) + 1 : x = c[i]
      BY <1>1, <2>1 DEF Range
    <3>2. CASE i \in 1 .. Len(b)
      BY <1>1, <3>1, <3>2 DEF Range
    <3>3. CASE i = Len(b) + 1
      BY <1>1, <3>1, <3>3
    <3>. QED BY <1>1, <3>1, <3>2, <3>3
  <2>2. ASSUME NEW x \in Range(b) PROVE x \in Range(c)
    <3>1. PICK i \in 1 .. Len(b) : x = b[i]
      BY <1>1, <2>2 DEF Range
    <3>2. i \in DOMAIN c /\ x = c[i]
      BY <1>1, <3>1
    <3>. QED BY <3>2 DEF Range
  <2>3. e \in Range(c)
    <3>1. Len(b) + 1 \in DOMAIN c
      BY <1>1
    <3>. QED BY <1>1, <3>1 DEF Range
  <2>. QED BY <2>1, <2>2, <2>3
<1>4. ASSUME IsInjective(b), e \notin Range(b)
      PROVE  IsInjective(c)
  <2>1. \A i \in 1 .. Len(b) : b[i] # e
    BY <1>1, <1>4 DEF Range
  <2>2. \A i, j \in 1 .. Len(b) : b[i] = b[j] => i = j
    BY <1>1, <1>4 DEF IsInjective
  <2>3. \A i, j \in 1 .. Len(b) + 1 : c[i] = c[j] => i = j
    BY <1>1, <2>1, <2>2
  <2>. QED BY <1>1, <2>3 DEF IsInjective
<1>. QED BY <1>1, <1>2, <1>3, <1>4

LEMMA BatchFacts ==
  ASSUME Inv
  PROVE  /\ Len(batch) \in Nat
         /\ Range(batch) \subseteq Events
         /\ \A e \in Range(batch) : stage[e] = "batched"
         /\ \A e \in Events : stage[e] = "new" => e \notin Range(batch)
<1>1. batch \in Seq(Events)
  BY DEF Inv, TypeOK
<1>2. \A i \in DOMAIN batch : batch[i] \in Events /\ stage[batch[i]] = "batched"
  BY <1>1 DEF Inv, InOnePlace
<1>3. \A e \in Range(batch) : e \in Events /\ stage[e] = "batched"
  BY <1>2 DEF Range
<1>. QED BY <1>1, <1>3

LEMMA InitInv == Init => Inv
<1>. SUFFICES ASSUME Init PROVE Inv
  OBVIOUS
<1>1. TypeOK
  <2>1. BatchSize \in Nat /\ BatchSize > 0
    BY ConstantsAssumption DEF ConstantsAssumption
  <2>2. batch \in Seq(Events) /\ Len(batch) < BatchSize
    BY <2>1, EmptyBatch DEF Init
  <2>3. flights \subseteq Flights
    BY DEF Init
  <2>. QED BY <2>2, <2>3 DEF Init, TypeOK, Flights
<1>2. NothingStranded /\ InOnePlace /\ ShutdownDrains
  BY EmptyBatch DEF Init, NothingStranded, InOnePlace, ShutdownDrains
<1>3. FailuresAreNoticed /\ FlightsKnown
  BY DEF Init, FailuresAreNoticed, FlightsKnown
<1>4. NobodyForgotten
  BY CallerKinds DEF Init, NobodyForgotten, InFlight
<1>. QED BY <1>1, <1>2, <1>3, <1>4 DEF Inv

-----------------------------------------------------------------------------
(* What a flush does to the flushes and the promises.                      *)

LEMMA LaunchKeeps ==
  ASSUME Inv, NEW c \in Callers, NEW E \in SUBSET Events, Launch(c, E),
         \A e \in E : stage[e] \in {"new", "batched"},
         c \in Events => c \in E /\ stage[c] = "new",
         c \in Events => reply' = [reply EXCEPT ![c] = "waiting"],
         c \notin Events => reply' = reply,
         UNCHANGED <<closed, up>>
  PROVE  /\ stage' \in [Events -> Stages]
         /\ flights' \subseteq Flights
         /\ leader' \in [Events -> Callers \cup {"none"}]
         /\ reply' \in [Events -> Replies]
         /\ FlightsApart' /\ FailuresAreNoticed'
         /\ FlightsKnown' /\ NobodyForgotten'
<1>. DEFINE new == [caller |-> c, events |-> E]
<1>1. TypeOK /\ FlightsApart /\ FailuresAreNoticed /\ FlightsKnown /\ NobodyForgotten
  BY OnePlaceParts DEF Inv
<1>2. /\ flights' = flights \cup {new}
      /\ stage' \in [Events -> Stages] /\ leader' \in [Events -> Callers \cup {"none"}]
      /\ \A e \in E : stage'[e] = "inserting" /\ leader'[e] = c
      /\ \A e \in Events \ E : stage'[e] = stage[e] /\ leader'[e] = leader[e]
  BY <1>1 DEF Launch, TypeOK, Stages, InFlight
<1>3. new \in Flights /\ new.caller = c /\ new.events = E
  BY DEF Flights
<1>4. flights' \subseteq Flights
  BY <1>1, <1>2, <1>3 DEF TypeOK, Flights
<1>5. reply' \in [Events -> Replies]
  BY <1>1 DEF TypeOK, Replies
<1>6. \A f \in flights : f.events \cap E = {} /\ f.events \subseteq Events /\ f.caller \in Callers
  BY <1>1 DEF FlightsApart, TypeOK, InFlight, Stored, Flights
<1>7. FlightsApart'
  BY <1>1, <1>2, <1>3, <1>6 DEF FlightsApart, InFlight
<1>8. FlightsKnown'
  <2>1. ASSUME NEW f \in flights
        PROVE  /\ \A e \in f.events : leader'[e] = f.caller
               /\ f.caller \in Events => f.caller \in f.events /\ reply'[f.caller] = "waiting"
    BY <1>1, <1>2, <1>6 DEF FlightsKnown, TypeOK
  <2>2. /\ \A e \in new.events : leader'[e] = new.caller
        /\ new.caller \in Events => new.caller \in new.events /\ reply'[new.caller] = "waiting"
    BY <1>1, <1>2, <1>3 DEF TypeOK
  <2>. QED BY <1>2, <2>1, <2>2 DEF FlightsKnown
<1>9. ASSUME NEW e \in Events \ E, Told(e)
      PROVE  Told(e)'
  <2>1. FlightOf(e) = {} => FlightOf(e)' = {}
    BY <1>2, <1>3, <1>9 DEF FlightOf
  <2>2. leader[e] \in Events => reply'[leader[e]] = reply[leader[e]]
    <3>1. leader[e] \in Events => stage[leader[e]] # "new"
      BY <1>1 DEF NobodyForgotten
    <3>. QED BY <1>1, <3>1 DEF TypeOK
  <2>. QED BY <1>2, <1>9, <2>1, <2>2 DEF Told
<1>10. FailuresAreNoticed'
  BY <1>1, <1>2, <1>9 DEF FailuresAreNoticed
<1>11. NobodyForgotten'
  <2>1. ASSUME NEW e \in Events, leader'[e] \in Events
        PROVE  stage'[leader'[e]] # "new"
    BY <1>1, <1>2, <2>1 DEF NobodyForgotten
  <2>2. ASSUME NEW e \in Events, stage'[e] \in InFlight
        PROVE  Told(e)' \/ FlightOf(e)' # {}
    <3>1. CASE e \in E
      BY <1>2, <1>3, <3>1 DEF FlightOf
    <3>2. CASE e \notin E
      <4>1. Told(e) \/ FlightOf(e) # {}
        BY <1>1, <1>2, <2>2, <3>2 DEF NobodyForgotten
      <4>2. FlightOf(e) \subseteq FlightOf(e)'
        BY <1>2 DEF FlightOf
      <4>. QED BY <1>9, <3>2, <4>1, <4>2
    <3>. QED BY <3>1, <3>2
  <2>. QED BY <2>1, <2>2 DEF NobodyForgotten
<1>. QED BY <1>2, <1>4, <1>5, <1>7, <1>8, <1>10, <1>11

LEMMA AnsweredKeeps ==
  ASSUME Inv, NEW e \in Events, stage[e] \in InFlight,
         NEW how \in {"persisted", "dropped", "failed"},
         NEW what \in {"ok", "error"},
         NEW F \in SUBSET FlightOf(e),
         stage' = [stage EXCEPT ![e] = how],
         Answered(F, what),
         UNCHANGED <<leader, up>>,
         how = "failed" =>
           /\ F = FlightOf(e) /\ what = "error"
           /\ \A f \in F : f.caller # "timer",
         how # "failed" =>
           \A f \in F : \A d \in f.events \ {e} : stage[d] \in Stored
  PROVE  /\ stage' \in [Events -> Stages]
         /\ flights' \subseteq Flights
         /\ closed' \in BOOLEAN
         /\ reply' \in [Events -> Replies]
         /\ FlightsApart' /\ FailuresAreNoticed'
         /\ FlightsKnown' /\ NobodyForgotten'
<1>1. TypeOK /\ FlightsApart /\ FailuresAreNoticed /\ FlightsKnown /\ NobodyForgotten
  BY OnePlaceParts DEF Inv
<1>2. /\ stage' \in [Events -> Stages]
      /\ stage'[e] = how
      /\ \A d \in Events \ {e} : stage'[d] = stage[d]
  BY <1>1 DEF TypeOK, Stages, Settled, Stored
<1>3. /\ flights' = flights \ F
      /\ F \subseteq flights
      /\ \A f \in F : e \in f.events
  BY DEF Answered, FlightOf
<1>4. /\ closed' \in BOOLEAN
      /\ closed => closed'
      /\ (\E f \in F : f.caller = "destroy") => closed'
  BY <1>1 DEF Answered, TypeOK
<1>5. /\ reply' \in [Events -> Replies]
      /\ \A d \in Events : (\E f \in F : f.caller = d) => reply'[d] = what
      /\ \A d \in Events : ~(\E f \in F : f.caller = d) => reply'[d] = reply[d]
  BY <1>1 DEF Answered, TypeOK, Replies
<1>6. \A f \in flights : f.events \subseteq Events /\ f.caller \in Callers
  BY <1>1 DEF TypeOK, Flights
<1>7. FlightsApart'
  <2>1. ASSUME NEW f \in flights', NEW d \in f.events
        PROVE  stage'[d] \in InFlight \cup Stored
    <3>1. CASE d = e
      <4>1. f \in FlightOf(e) /\ f \notin F
        BY <1>3, <2>1, <3>1 DEF FlightOf
      <4>. QED BY <1>2, <3>1, <4>1 DEF Stored
    <3>2. CASE d # e
      BY <1>1, <1>2, <1>3, <1>6, <2>1, <3>2 DEF FlightsApart
    <3>. QED BY <3>1, <3>2
  <2>2. \A f, g \in flights' : f # g => f.events \cap g.events = {}
    BY <1>1, <1>3 DEF FlightsApart
  <2>. QED BY <2>1, <2>2 DEF FlightsApart
<1>8. FlightsKnown'
  <2>. SUFFICES ASSUME NEW f \in flights', f.caller \in Events
                PROVE  f.caller \in f.events /\ reply'[f.caller] = "waiting"
    BY <1>1, <1>3 DEF FlightsKnown
  <2>1. f.caller \in f.events /\ reply[f.caller] = "waiting"
    BY <1>1, <1>3 DEF FlightsKnown
  <2>2. ~\E g \in F : g.caller = f.caller
    <3>. SUFFICES ASSUME NEW g \in F, g.caller = f.caller PROVE FALSE
      OBVIOUS
    <3>1. f.caller \in g.events
      BY <1>1, <1>3 DEF FlightsKnown
    <3>. QED BY <1>1, <1>3, <2>1, <3>1 DEF FlightsApart
  <2>. QED BY <1>5, <2>1, <2>2
<1>9. ASSUME NEW d \in Events, Told(d)
      PROVE  Told(d)'
  <2>1. FlightOf(d) = {} => FlightOf(d)' = {}
    BY <1>3 DEF FlightOf
  <2>2. leader[d] \in Events /\ reply[leader[d]] = "error" => reply'[leader[d]] = "error"
    <3>1. ASSUME leader[d] \in Events, reply[leader[d]] = "error"
          PROVE  ~\E f \in F : f.caller = leader[d]
      BY <1>1, <1>3, <3>1 DEF FlightsKnown
    <3>. QED BY <1>5, <3>1
  <2>. QED BY <1>4, <1>9, <2>1, <2>2 DEF Told
\* A failure is told to whoever waits for any event of the flush.
<1>10. ASSUME how = "failed", NEW d \in Events, NEW g \in F, d \in g.events
       PROVE  Told(d)'
  <2>1. leader'[d] = g.caller /\ g \in flights
    BY <1>1, <1>3, <1>10 DEF FlightsKnown
  <2>2. CASE g.caller \in Events
    BY <1>5, <1>10, <2>1, <2>2 DEF Told
  <2>3. CASE g.caller = "destroy"
    BY <1>4, <2>1, <2>3 DEF Told
  <2>4. CASE g.caller = "manual"
    <3>1. \A f \in flights : d \in f.events => f = g
      BY <1>1, <1>10, <2>1 DEF FlightsApart
    <3>2. FlightOf(d)' = {}
      BY <1>3, <3>1 DEF FlightOf
    <3>. QED BY <2>1, <2>4, <3>2 DEF Told
  <2>5. g.caller # "timer"
    BY <1>10
  <2>. QED BY <1>6, <2>1, <2>2, <2>3, <2>4, <2>5 DEF Callers
<1>11. FailuresAreNoticed'
  <2>. SUFFICES ASSUME NEW d \in Events, stage'[d] = "failed" PROVE Told(d)'
    BY DEF FailuresAreNoticed
  <2>1. CASE d # e
    BY <1>1, <1>2, <1>9, <2>1 DEF FailuresAreNoticed
  <2>2. CASE d = e
    <3>1. how = "failed" /\ F = FlightOf(e)
      BY <1>2, <2>2
    <3>2. CASE FlightOf(e) = {}
      BY <1>1, <1>9, <2>2, <3>2 DEF NobodyForgotten
    <3>3. CASE FlightOf(e) # {}
      <4>1. PICK g \in F : e \in g.events
        BY <1>3, <3>1, <3>3
      <4>. QED BY <1>10, <2>2, <3>1, <4>1
    <3>. QED BY <3>2, <3>3
  <2>. QED BY <2>1, <2>2
<1>12. NobodyForgotten'
  <2>1. ASSUME NEW d \in Events, leader'[d] \in Events
        PROVE  stage'[leader'[d]] # "new"
    BY <1>1, <1>2, <2>1 DEF NobodyForgotten
  <2>2. ASSUME NEW d \in Events, stage'[d] \in InFlight
        PROVE  Told(d)' \/ FlightOf(d)' # {}
    <3>1. d # e
      BY <1>2, <2>2 DEF InFlight
    <3>2. Told(d) \/ FlightOf(d) # {}
      BY <1>1, <1>2, <2>2, <3>1 DEF NobodyForgotten
    <3>3. ASSUME NEW g \in FlightOf(d) PROVE Told(d)' \/ FlightOf(d)' # {}
      <4>1. CASE g \notin F
        BY <1>3, <4>1 DEF FlightOf
      <4>2. CASE g \in F /\ how = "failed"
        BY <1>10, <4>2 DEF FlightOf
      <4>3. CASE g \in F /\ how # "failed"
        <5>1. stage[d] \in Stored
          BY <3>1, <4>3 DEF FlightOf
        <5>. QED BY <1>2, <2>2, <3>1, <5>1 DEF Stored, InFlight
      <4>. QED BY <4>1, <4>2, <4>3
    <3>. QED BY <1>9, <3>2, <3>3
  <2>. QED BY <2>1, <2>2 DEF NobodyForgotten
<1>. QED BY <1>2, <1>3, <1>4, <1>5, <1>7, <1>8, <1>11, <1>12, <1>1 DEF TypeOK, Flights

-----------------------------------------------------------------------------
(* One lemma per kind of action.                                           *)

\* Every action that flushes takes a batch b that holds the events of the
\* old one and at most the event it publishes.
LEMMA FlushKeepsInv ==
  ASSUME Inv, NEW c \in Callers, NEW b, Flush(c, b),
         Range(b) \subseteq Events,
         \A e \in Range(b) : stage[e] \in {"new", "batched"},
         Range(batch) \subseteq Range(b),
         c \in Events => c \in Range(b) /\ stage[c] = "new",
         c \in Events => reply' = [reply EXCEPT ![c] = "waiting"],
         c \notin Events => reply' = reply,
         stopping' \in BOOLEAN,
         UNCHANGED <<closed, up, docs>>
  PROVE  Inv'
<1>1. /\ batch' = <<>> /\ batchTimer' = FALSE /\ scheduled' = FALSE
      /\ Launch(c, Range(b))
  BY DEF Flush, Inv, NothingStranded
<1>2. /\ stage' \in [Events -> Stages]
      /\ flights' \subseteq Flights
      /\ leader' \in [Events -> Callers \cup {"none"}]
      /\ reply' \in [Events -> Replies]
      /\ FlightsApart' /\ FailuresAreNoticed'
      /\ FlightsKnown' /\ NobodyForgotten'
  BY <1>1, LaunchKeeps
<1>3. Len(batch') < BatchSize /\ batch' \in Seq(Events)
  BY <1>1, EmptyBatch, ConstantsAssumption DEF ConstantsAssumption
<1>4. TypeOK'
  BY <1>1, <1>2, <1>3 DEF Inv, TypeOK, Stages, Replies, Flights
<1>5. BatchInPlace'
  <2>1. \A e \in Events : stage'[e] # "batched"
    <3>1. \A e \in Events : stage[e] = "batched" => e \in Range(b)
      BY DEF Inv, InOnePlace
    <3>. QED BY <1>1, <3>1 DEF Launch
  <2>. QED BY <1>1, <2>1, EmptyBatch DEF BatchInPlace
<1>6. InOnePlace' <=> BatchInPlace' /\ FlightsApart'
  BY DEF InOnePlace, BatchInPlace, FlightsApart
<1>7. NothingStranded' /\ ShutdownDrains'
  BY <1>1 DEF NothingStranded, ShutdownDrains
<1>. QED BY <1>2, <1>4, <1>5, <1>6, <1>7 DEF Inv

LEMMA CollectKeepsInv ==
  ASSUME Inv, NEW e \in Events, Collect(e)
  PROVE  Inv'
<1>1. TypeOK /\ InOnePlace /\ FlightsKnown /\ NobodyForgotten /\ FailuresAreNoticed
  BY DEF Inv
<1>2. /\ stage[e] = "new"
      /\ stage' \in [Events -> Stages]
      /\ stage'[e] = "batched"
      /\ \A d \in Events \ {e} : stage'[d] = stage[d]
  BY <1>1 DEF Collect, TypeOK, Stages
<1>3. /\ reply' \in [Events -> Replies]
      /\ \A d \in Events \ {e} : reply'[d] = reply[d]
  BY <1>1 DEF Collect, Replied, TypeOK, Replies
<1>4. /\ batch' = Append(batch, e)
      /\ batch \in Seq(Events)
      /\ e \notin Range(batch)
  BY <1>1, <1>2, BatchFacts DEF Collect, TypeOK
<1>5. /\ batch' \in Seq(Events)
      /\ Len(batch') < BatchSize
      /\ Range(batch') = Range(batch) \cup {e}
      /\ IsInjective(batch')
  BY <1>1, <1>4, AppendFacts DEF Collect, InOnePlace
<1>6. UNCHANGED <<stopping, closed, up, flights, leader, docs>> /\ ~stopping
  BY DEF Collect
<1>7. batchTimer' = TRUE /\ scheduled' = TRUE
  BY DEF Collect, Inv, NothingStranded, TypeOK
<1>8. TypeOK'
  BY <1>1, <1>2, <1>3, <1>5, <1>6, <1>7 DEF TypeOK, Stages, Replies
<1>9. \A f \in flights : e \notin f.events /\ f.caller # e /\ f.events \subseteq Events
  BY <1>1, <1>2 DEF InOnePlace, FlightsKnown, TypeOK, InFlight, Stored, Flights
<1>10. InOnePlace'
  <2>1. \A i \in DOMAIN batch' : stage'[batch'[i]] = "batched"
    <3>1. \A d \in Range(batch) : d \in Events /\ stage[d] = "batched"
      BY BatchFacts
    <3>2. \A d \in Range(batch') : stage'[d] = "batched"
      BY <1>2, <1>5, <3>1
    <3>. QED BY <3>2 DEF Range
  <2>2. \A d \in Events : stage'[d] = "batched" => d \in Range(batch')
    BY <1>1, <1>2, <1>5 DEF InOnePlace
  <2>3. \A f \in flights : \A d \in f.events : stage'[d] \in InFlight \cup Stored
    BY <1>1, <1>2, <1>9 DEF InOnePlace
  <2>. QED BY <1>1, <1>5, <1>6, <2>1, <2>2, <2>3 DEF InOnePlace
<1>11. NothingStranded' /\ ShutdownDrains'
  BY <1>6, <1>7 DEF NothingStranded, ShutdownDrains
<1>12. FlightsKnown'
  BY <1>1, <1>3, <1>6, <1>9 DEF FlightsKnown
<1>13. ASSUME NEW d \in Events, Told(d) PROVE Told(d)'
  <2>1. leader[d] \in Events => leader[d] # e
    BY <1>1, <1>2 DEF NobodyForgotten
  <2>. QED BY <1>3, <1>6, <1>13, <2>1 DEF Told, FlightOf
<1>14. FailuresAreNoticed'
  BY <1>1, <1>2, <1>13 DEF FailuresAreNoticed
<1>15. NobodyForgotten'
  BY <1>1, <1>2, <1>6, <1>13 DEF NobodyForgotten, FlightOf, InFlight
<1>. QED BY <1>8, <1>10, <1>11, <1>12, <1>14, <1>15 DEF Inv

\* A step that settles one event, or moves it on.
LEMMA SettlingKeepsInv ==
  ASSUME Inv, NEW e \in Events, stage[e] \in InFlight,
         NEW how \in {"persisted", "dropped", "failed"},
         stage' = [stage EXCEPT ![e] = how],
         stage' \in [Events -> Stages],
         flights' \subseteq Flights, closed' \in BOOLEAN,
         reply' \in [Events -> Replies], docs' \subseteq Events,
         FlightsApart', FailuresAreNoticed', FlightsKnown', NobodyForgotten',
         UNCHANGED <<batch, batchTimer, scheduled, stopping, up, leader>>
  PROVE  Inv'
<1>1. TypeOK'
  BY DEF Inv, TypeOK, Stages, Replies, Flights
<1>2. BatchInPlace'
  <2>1. BatchInPlace
    BY OnePlaceParts DEF Inv
  <2>2. \A d \in Events : stage'[d] = "batched" <=> stage[d] = "batched"
    BY DEF Inv, TypeOK, InFlight
  <2>3. \A i \in DOMAIN batch : batch[i] \in Events
    BY DEF Inv, TypeOK
  <2>. QED BY <2>1, <2>2, <2>3 DEF BatchInPlace
<1>3. InOnePlace' <=> BatchInPlace' /\ FlightsApart'
  BY DEF InOnePlace, BatchInPlace, FlightsApart
<1>4. NothingStranded' /\ ShutdownDrains'
  BY DEF Inv, NothingStranded, ShutdownDrains
<1>. QED BY <1>1, <1>2, <1>3, <1>4 DEF Inv

LEMMA ResolvedKeepsInv ==
  ASSUME Inv, NEW e \in Events, stage[e] \in InFlight,
         NEW how \in {"persisted", "dropped"}, Resolved(e, how),
         docs' \subseteq Events,
         UNCHANGED <<batch, batchTimer, scheduled, stopping, up, leader>>
  PROVE  Inv'
<1>. DEFINE F == {f \in FlightOf(e) : \A d \in f.events \ {e} : stage[d] \in Stored}
<1>1. F \in SUBSET FlightOf(e) /\ Answered(F, "ok") /\ stage' = [stage EXCEPT ![e] = how]
  BY DEF Resolved
<1>2. \A f \in F : \A d \in f.events \ {e} : stage[d] \in Stored
  OBVIOUS
<1>. HIDE DEF F
<1>3. /\ stage' \in [Events -> Stages]
      /\ flights' \subseteq Flights
      /\ closed' \in BOOLEAN
      /\ reply' \in [Events -> Replies]
      /\ FlightsApart' /\ FailuresAreNoticed'
      /\ FlightsKnown' /\ NobodyForgotten'
  BY <1>1, <1>2, AnsweredKeeps
<1>. QED BY <1>1, <1>3, SettlingKeepsInv

LEMMA InsertKeepsInv ==
  ASSUME Inv, NEW e \in Events, Insert(e)
  PROVE  Inv'
<1>1. /\ stage[e] = "inserting"
      /\ stage' \in [Events -> Stages]
      /\ stage'[e] = "committing"
      /\ \A d \in Events \ {e} : stage'[d] = stage[d]
  BY DEF Insert, Inv, TypeOK, Stages, InFlight
<1>2. UNCHANGED <<batch, batchTimer, scheduled, stopping, closed, up, flights,
                  leader, reply, docs>>
  BY DEF Insert
<1>3. TypeOK'
  BY <1>1, <1>2 DEF Inv, TypeOK, Stages
<1>4. InOnePlace'
  <2>1. \A i \in DOMAIN batch : batch[i] \in Events
    BY DEF Inv, TypeOK
  <2>2. \A f \in flights : f.events \subseteq Events
    BY DEF Inv, TypeOK
  <2>. QED BY <1>1, <1>2, <2>1, <2>2 DEF Inv, InOnePlace, InFlight
<1>5. NothingStranded' /\ ShutdownDrains' /\ FlightsKnown'
  BY <1>2 DEF Inv, NothingStranded, ShutdownDrains, FlightsKnown
<1>6. \A d \in Events : Told(d)' <=> Told(d)
  BY <1>2 DEF Told, FlightOf
<1>7. FailuresAreNoticed' /\ NobodyForgotten'
  BY <1>1, <1>2, <1>6 DEF Inv, FailuresAreNoticed, NobodyForgotten, InFlight, FlightOf
<1>. QED BY <1>3, <1>4, <1>5, <1>7 DEF Inv

LEMMA DiesKeepsInv ==
  ASSUME Inv, NEW S, Dies(S), docs' \subseteq Events
  PROVE  Inv'
<1>1. /\ up' = FALSE /\ batch' = <<>> /\ batchTimer' = FALSE /\ scheduled' = FALSE
      /\ flights' = {}
      /\ UNCHANGED <<stopping, closed, leader>>
  BY DEF Dies
<1>2. /\ stage' \in [Events -> Stages]
      /\ \A e \in Events : stage'[e] \notin InFlight \cup {"batched"}
      /\ \A e \in Events : stage'[e] = "new" => stage[e] = "new"
  BY DEF Dies, Inv, TypeOK, Stages, InFlight, Settled
<1>3. reply' \in [Events -> Replies]
  BY DEF Dies, Inv, TypeOK, Replies
<1>4. Len(batch') < BatchSize /\ batch' \in Seq(Events)
  BY <1>1, EmptyBatch, ConstantsAssumption DEF ConstantsAssumption
<1>5. TypeOK'
  BY <1>1, <1>2, <1>3, <1>4 DEF Inv, TypeOK, Stages, Replies
<1>6. InOnePlace' /\ NothingStranded' /\ ShutdownDrains' /\ FlightsKnown'
  BY <1>1, <1>2, EmptyBatch DEF InOnePlace, NothingStranded, ShutdownDrains, FlightsKnown
<1>7. FailuresAreNoticed' /\ NobodyForgotten'
  BY <1>1, <1>2 DEF Inv, FailuresAreNoticed, NobodyForgotten, Told
<1>. QED BY <1>5, <1>6, <1>7 DEF Inv

-----------------------------------------------------------------------------

LEMMA PublishKeepsInv ==
  ASSUME Inv, NEW e \in Events, PublishDirectly(e) \/ Fill(e)
  PROVE  Inv'
<1>1. stage[e] = "new" /\ e \in Callers
  BY DEF PublishDirectly, Fill, Callers
<1>2. reply' = [reply EXCEPT ![e] = "waiting"]
  BY DEF PublishDirectly, Fill, Replied
<1>3. CASE PublishDirectly(e)
  <2>1. /\ Launch(e, {e}) /\ stopping
        /\ UNCHANGED <<batch, batchTimer, scheduled, stopping, closed, up, docs>>
    BY <1>3 DEF PublishDirectly
  <2>2. /\ stage' \in [Events -> Stages]
        /\ flights' \subseteq Flights
        /\ leader' \in [Events -> Callers \cup {"none"}]
        /\ reply' \in [Events -> Replies]
        /\ FlightsApart' /\ FailuresAreNoticed'
        /\ FlightsKnown' /\ NobodyForgotten'
    <3>1. {e} \in SUBSET Events
      OBVIOUS
    <3>. QED BY <1>1, <1>2, <2>1, <3>1, LaunchKeeps
  <2>3. TypeOK'
    BY <2>1, <2>2 DEF Inv, TypeOK, Stages, Replies, Flights
  <2>4. BatchInPlace'
    <3>1. batch = <<>>
      BY <2>1 DEF Inv, ShutdownDrains
    <3>2. \A d \in Events : stage'[d] # "batched"
      BY <2>1, <3>1, EmptyBatch DEF Launch, Inv, InOnePlace
    <3>. QED BY <2>1, <3>1, <3>2, EmptyBatch DEF BatchInPlace
  <2>5. InOnePlace' <=> BatchInPlace' /\ FlightsApart'
    BY DEF InOnePlace, BatchInPlace, FlightsApart
  <2>6. NothingStranded' /\ ShutdownDrains'
    BY <2>1 DEF Inv, NothingStranded, ShutdownDrains
  <2>. QED BY <2>2, <2>3, <2>4, <2>5, <2>6 DEF Inv
<1>4. CASE Fill(e)
  <2>. DEFINE b == Append(batch, e)
  <2>1. /\ Flush(e, b)
        /\ UNCHANGED <<stopping, closed, up, docs>>
    BY <1>4 DEF Fill
  <2>2. batch \in Seq(Events)
    BY DEF Inv, TypeOK
  <2>3. Range(b) = Range(batch) \cup {e}
    BY <2>2, AppendFacts
  <2>4. /\ Range(b) \subseteq Events
        /\ \A d \in Range(b) : stage[d] \in {"new", "batched"}
        /\ Range(batch) \subseteq Range(b)
        /\ e \in Range(b)
    BY <1>1, <2>3, BatchFacts
  <2>5. stopping' \in BOOLEAN
    BY <2>1 DEF Inv, TypeOK
  <2>. HIDE DEF b
  <2>. QED BY <1>1, <1>2, <2>1, <2>4, <2>5, FlushKeepsInv
<1>. QED BY <1>3, <1>4

\* The flushes nobody's publish() waits for.
LEMMA OtherFlushesKeepInv ==
  ASSUME Inv, NEW c \in {"timer", "manual", "destroy"}, Flush(c, batch),
         stopping' \in BOOLEAN, UNCHANGED <<closed, up, reply, docs>>
  PROVE  Inv'
<1>1. c \in Callers /\ c \notin Events
  BY CallerKinds DEF Callers
<1>2. /\ Range(batch) \subseteq Events
      /\ \A e \in Range(batch) : stage[e] \in {"new", "batched"}
  BY BatchFacts
<1>. QED BY <1>1, <1>2, FlushKeepsInv

LEMMA RejectKeepsInv ==
  ASSUME Inv, NEW e \in Events, Reject(e)
  PROVE  Inv'
<1>1. /\ stage[e] \in InFlight /\ docs' \subseteq Events
      /\ Answered(FlightOf(e), "error")
      /\ \A f \in FlightOf(e) : f.caller # "timer"
      /\ stage' = [stage EXCEPT ![e] = "failed"]
      /\ UNCHANGED <<batch, batchTimer, scheduled, stopping, up, leader>>
  BY DEF Reject, Rejected, InFlight, Inv, TypeOK
<1>2. /\ stage' \in [Events -> Stages]
      /\ flights' \subseteq Flights
      /\ closed' \in BOOLEAN
      /\ reply' \in [Events -> Replies]
      /\ FlightsApart' /\ FailuresAreNoticed'
      /\ FlightsKnown' /\ NobodyForgotten'
  BY <1>1, AnsweredKeeps
<1>. QED BY <1>1, <1>2, SettlingKeepsInv

LEMMA NextKeepsInv == Inv /\ [Next]_vars => Inv'
<1>. SUFFICES ASSUME Inv, [Next]_vars PROVE Inv'
  OBVIOUS
<1>1. ASSUME NEW e \in Events, PublishDirectly(e) \/ Fill(e) PROVE Inv'
  BY <1>1, PublishKeepsInv
<1>2. ASSUME NEW e \in Events, Collect(e) PROVE Inv'
  BY <1>2, CollectKeepsInv
<1>3. ASSUME NEW e \in Events, Insert(e) PROVE Inv'
  BY <1>3, InsertKeepsInv
<1>4. ASSUME NEW e \in Events, DuplicateKey(e) PROVE Inv'
  <2>1. stage[e] \in InFlight /\ docs' \subseteq Events
    BY <1>4 DEF DuplicateKey, InFlight, Inv, TypeOK
  <2>. QED BY <1>4, <2>1, ResolvedKeepsInv DEF DuplicateKey
<1>5. ASSUME NEW e \in Events, Commit(e) PROVE Inv'
  <2>1. stage[e] \in InFlight /\ docs' \subseteq Events
    BY <1>5 DEF Commit, InFlight, Inv, TypeOK
  <2>. QED BY <1>5, <2>1, ResolvedKeepsInv DEF Commit
<1>6. ASSUME NEW e \in Events, Reject(e) PROVE Inv'
  BY <1>6, RejectKeepsInv
<1>7. ASSUME NEW e \in Events, RejectUnhandled(e) PROVE Inv'
  <2>1. docs' \subseteq Events
    BY <1>7 DEF RejectUnhandled, Rejected, Inv, TypeOK
  <2>. QED BY <1>7, <2>1, DiesKeepsInv DEF RejectUnhandled
<1>8. CASE TimerFires
  BY <1>8, OtherFlushesKeepInv DEF TimerFires, Inv, TypeOK
<1>9. CASE FlushByHand
  BY <1>9, OtherFlushesKeepInv DEF FlushByHand, Inv, TypeOK
<1>10. CASE ShutdownFlushes
  BY <1>10, OtherFlushesKeepInv DEF ShutdownFlushes
<1>11. CASE ShutdownEmpty
  <2>1. /\ batch = <<>> /\ stopping' = TRUE /\ closed' = TRUE
        /\ UNCHANGED <<batch, batchTimer, scheduled, up, stage, flights, leader, reply, docs>>
    BY <1>11 DEF ShutdownEmpty
  <2>2. TypeOK' /\ NothingStranded' /\ InOnePlace' /\ ShutdownDrains' /\ FlightsKnown'
    BY <2>1 DEF Inv, TypeOK, NothingStranded, InOnePlace, ShutdownDrains, FlightsKnown
  <2>3. \A e \in Events : Told(e) => Told(e)'
    BY <2>1 DEF Told, FlightOf
  <2>4. FailuresAreNoticed' /\ NobodyForgotten'
    BY <2>1, <2>3 DEF Inv, FailuresAreNoticed, NobodyForgotten, FlightOf
  <2>. QED BY <2>2, <2>4 DEF Inv
<1>12. CASE Exit
  BY <1>12, DiesKeepsInv DEF Exit, Inv, TypeOK
<1>13. CASE Crash
  BY <1>13, DiesKeepsInv DEF Crash, Inv, TypeOK
<1>14. CASE UNCHANGED vars
  <2>1. TypeOK' /\ NothingStranded' /\ InOnePlace' /\ ShutdownDrains' /\ FlightsKnown'
    BY <1>14 DEF vars, Inv, TypeOK, NothingStranded, InOnePlace, ShutdownDrains, FlightsKnown
  <2>2. FailuresAreNoticed' /\ NobodyForgotten'
    BY <1>14 DEF vars, Inv, FailuresAreNoticed, NobodyForgotten, Told, FlightOf
  <2>. QED BY <2>1, <2>2 DEF Inv
<1>. QED
  BY <1>1, <1>2, <1>3, <1>4, <1>5, <1>6, <1>7, <1>8, <1>9, <1>10, <1>11,
     <1>12, <1>13, <1>14 DEF Next, Proceed

\* The invariant is inductive (BatchedEventStorePublisher).
THEOREM Invariance == Spec => []Inv
BY InitInv, NextKeepsInv, PTL DEF Spec

\* The types of the publisher; its batch never reaches the batch size between
\* two calls (publish).
THEOREM TypeCorrectness == Spec => []TypeOK
<1>1. Inv => TypeOK
  BY DEF Inv
<1>. QED BY <1>1, Invariance, PTL

\* Events in the batch always have a timeout that will flush them (flush).
THEOREM TimersCoverBatches == Spec => []NothingStranded
<1>1. Inv => NothingStranded
  BY DEF Inv
<1>. QED BY <1>1, Invariance, PTL

\* No event is in two flushes, twice in the batch, or forgotten (flush).
THEOREM HandedOverOnce == Spec => []InOnePlace
<1>1. Inv => InOnePlace
  BY DEF Inv
<1>. QED BY <1>1, Invariance, PTL

\* Nothing is in the batch once a shutdown has begun (onModuleDestroy).
THEOREM ShutdownLeavesNothing == Spec => []ShutdownDrains
<1>1. Inv => ShutdownDrains
  BY DEF Inv
<1>. QED BY <1>1, Invariance, PTL

\* Every event that could not be stored has been reported to somebody (flush).
THEOREM NoSilentFailure == Spec => []FailuresAreNoticed
<1>1. Inv => FailuresAreNoticed
  BY DEF Inv
<1>. QED BY <1>1, Invariance, PTL

-----------------------------------------------------------------------------
(* What a publish() that resolves answers for.                             *)

Answers == AnswersSound /\ ResolvedMeansStored

\* What is taken stays taken.
LEMMA TakenStays ==
  ASSUME docs \subseteq docs', NEW d \in Events, Taken(d)
  PROVE  Taken(d)'
BY DEF Taken

LEMMA InitAnswers == Init => Answers
BY CallerKinds DEF Init, Answers, AnswersSound, ResolvedMeansStored, Stored

\* A flush begins: no earlier event names its caller, if that is an event.
LEMMA LaunchAnswers ==
  ASSUME Inv, Answers, NEW c \in Callers, NEW E \in SUBSET Events, Launch(c, E),
         \A e \in E : stage[e] \in {"new", "batched"},
         c \in Events => c \in E /\ stage[c] = "new",
         c \in Events => reply' = [reply EXCEPT ![c] = "waiting"],
         c \notin Events => reply' = reply,
         UNCHANGED docs
  PROVE  Answers'
<1>1. /\ \A e \in Events : leader'[e] = IF e \in E THEN c ELSE leader[e]
      /\ \A e \in Events : stage'[e] = IF e \in E THEN "inserting" ELSE stage[e]
      /\ flights' = flights \cup {[caller |-> c, events |-> E]}
  BY DEF Launch
<1>2. \A d \in Events : leader[d] \in Events => stage[leader[d]] # "new"
  BY DEF Inv, NobodyForgotten
<1>3. \A f \in flights : \A e \in f.events : e \in Events /\ stage[e] \in InFlight \cup Stored
  BY DEF Inv, InOnePlace, TypeOK
<1>4. \A f \in flights : f.caller \in Events => f.caller \in f.events
  BY DEF Inv, FlightsKnown
<1>5. ASSUME NEW f \in flights', f.caller \in Events, NEW d \in Events, leader'[d] = f.caller
      PROVE  d \in f.events
  <2>1. CASE f \in flights
    <3>1. f.caller # c
      BY <1>3, <1>4, <1>5, <2>1 DEF InFlight, Stored
    <3>. QED BY <1>1, <1>5, <2>1, <3>1 DEF Answers, AnswersSound
  <2>2. CASE f = [caller |-> c, events |-> E]
    BY <1>1, <1>2, <1>5, <2>2
  <2>. QED BY <1>1, <1>5, <2>1, <2>2
<1>6. ASSUME NEW d \in Events, stage'[d] \in Stored
      PROVE  d \notin E /\ stage[d] \in Stored /\ Taken(d)'
  <2>1. d \notin E /\ stage[d] \in Stored
    BY <1>1, <1>6 DEF Stored
  <2>2. Taken(d)
    BY <2>1 DEF Answers, AnswersSound
  <2>. QED BY <2>1, <2>2, TakenStays
<1>7. ASSUME NEW e \in Events, NEW d \in Events,
             leader'[e] = e, reply'[e] = "ok", leader'[d] = e
      PROVE  stage'[d] \in Stored /\ Taken(d)'
  <2>1. e # c
    BY <1>7 DEF Inv, TypeOK
  <2>2. e \notin E /\ d \notin E /\ leader[e] = e /\ leader[d] = e
    BY <1>1, <1>7, <2>1
  <2>3. reply[e] = "ok"
    BY <1>7, <2>1 DEF Inv, TypeOK
  <2>4. stage[d] \in Stored
    BY <2>2, <2>3 DEF Answers, ResolvedMeansStored
  <2>5. stage'[d] \in Stored
    BY <1>1, <2>2, <2>4
  <2>. QED BY <1>6, <2>5
<1>. QED BY <1>5, <1>6, <1>7 DEF Answers, AnswersSound, ResolvedMeansStored

\* One event of a flush settles, and the flush with it, or not.
LEMMA SettlingAnswers ==
  ASSUME Inv, Answers, NEW e \in Events, stage[e] \in InFlight,
         NEW how, stage' = [stage EXCEPT ![e] = how],
         NEW F \in SUBSET FlightOf(e), NEW what, Answered(F, what),
         docs \subseteq docs', leader' = leader,
         how \in Stored => Taken(e)',
         what = "ok" => \A f \in F : \A d \in f.events : stage'[d] \in Stored
  PROVE  Answers'
<1>1. /\ stage'[e] = how /\ \A d \in Events \ {e} : stage'[d] = stage[d]
      /\ flights' \subseteq flights /\ F \subseteq flights
      /\ \A d \in Events :
           reply'[d] = IF \E f \in F : f.caller = d THEN what ELSE reply[d]
  BY DEF Answered, FlightOf, Inv, TypeOK
<1>2. ASSUME NEW f \in flights', f.caller \in Events, NEW d \in Events, leader'[d] = f.caller
      PROVE  d \in f.events
  BY <1>1, <1>2 DEF Answers, AnswersSound
<1>3. ASSUME NEW d \in Events, stage'[d] \in Stored PROVE Taken(d)'
  <2>1. CASE d = e
    BY <1>1, <1>3, <2>1
  <2>2. CASE d # e
    BY <1>1, <1>3, <2>2, TakenStays DEF Answers, AnswersSound
  <2>. QED BY <2>1, <2>2
<1>4. ASSUME NEW x \in Events, NEW d \in Events,
             leader'[x] = x, reply'[x] = "ok", leader'[d] = x
      PROVE  stage'[d] \in Stored
  <2>1. CASE \E f \in F : f.caller = x
    <3>1. PICK f \in F : f.caller = x
      BY <2>1
    <3>2. d \in f.events
      BY <1>1, <1>4, <3>1 DEF Answers, AnswersSound
    <3>. QED BY <1>1, <1>4, <2>1, <3>1, <3>2
  <2>2. CASE ~ \E f \in F : f.caller = x
    <3>1. stage[d] \in Stored
      BY <1>1, <1>4, <2>2 DEF Answers, ResolvedMeansStored
    <3>2. d # e
      BY <3>1 DEF InFlight, Stored
    <3>. QED BY <1>1, <3>1, <3>2
  <2>. QED BY <2>1, <2>2
<1>. QED BY <1>2, <1>3, <1>4 DEF Answers, AnswersSound, ResolvedMeansStored

\* Nothing settles, and nothing begins.
LEMMA OtherwiseAnswers ==
  ASSUME Inv, Answers, flights' \subseteq flights, leader' = leader, docs \subseteq docs',
         \A d \in Events : stage'[d] \in Stored <=> stage[d] \in Stored,
         \A d \in Events : leader[d] = d /\ reply'[d] = "ok" => reply[d] = "ok"
  PROVE  Answers'
<1>1. \A d \in Events : Taken(d) => Taken(d)'
  BY TakenStays
<1>. QED BY <1>1 DEF Answers, AnswersSound, ResolvedMeansStored

LEMMA DiesAnswers ==
  ASSUME Inv, Answers, NEW S, Dies(S), docs \subseteq docs',
         \A e \in S : stage[e] \in InFlight
  PROVE  Answers'
<1>1. /\ flights' = {} /\ leader' = leader
      /\ \A d \in Events : reply'[d] = "ok" => reply[d] = "ok"
  BY DEF Dies
<1>2. \A d \in Events : stage'[d] \in Stored <=> stage[d] \in Stored
  BY DEF Dies, InFlight, Stored
<1>. QED BY <1>1, <1>2, OtherwiseAnswers

LEMMA CollectAnswers ==
  ASSUME Inv, Answers, NEW e \in Events, Collect(e)
  PROVE  Answers'
<1>1. /\ stage[e] = "new" /\ stage' = [stage EXCEPT ![e] = "batched"]
      /\ reply' = [reply EXCEPT ![e] = "ok"]
      /\ flights' = flights /\ leader' = leader /\ docs' = docs
  BY DEF Collect, Replied
<1>2. leader[e] # e
  BY <1>1 DEF Inv, NobodyForgotten
<1>3. \A d \in Events : stage'[d] \in Stored <=> stage[d] \in Stored
  BY <1>1 DEF Inv, TypeOK, Stored
<1>4. \A d \in Events : leader[d] = d /\ reply'[d] = "ok" => reply[d] = "ok"
  BY <1>1, <1>2 DEF Inv, TypeOK
<1>. QED BY <1>1, <1>3, <1>4, OtherwiseAnswers

LEMMA ResolvedAnswers ==
  ASSUME Inv, Answers, NEW e \in Events, DuplicateKey(e) \/ Commit(e)
  PROVE  Answers'
<1>. DEFINE F == {f \in FlightOf(e) : \A d \in f.events \ {e} : stage[d] \in Stored}
<1>1. PICK how \in Stored : Resolved(e, how)
  BY DEF DuplicateKey, Commit, Stored
<1>2. /\ stage[e] \in InFlight /\ docs \subseteq docs' /\ leader' = leader
      /\ Taken(e)'
  BY DEF DuplicateKey, Commit, InFlight, Taken
<1>3. /\ stage' = [stage EXCEPT ![e] = how]
      /\ F \in SUBSET FlightOf(e) /\ Answered(F, "ok")
  BY <1>1 DEF Resolved
<1>4. \A f \in F : \A d \in f.events : stage'[d] \in Stored
  BY <1>1, <1>3 DEF FlightOf, Inv, TypeOK
<1>. HIDE DEF F
<1>. QED BY <1>2, <1>3, <1>4, SettlingAnswers

LEMMA RejectAnswers ==
  ASSUME Inv, Answers, NEW e \in Events, Reject(e)
  PROVE  Answers'
<1>1. /\ stage[e] \in InFlight /\ docs \subseteq docs' /\ leader' = leader
      /\ stage' = [stage EXCEPT ![e] = "failed"]
      /\ Answered(FlightOf(e), "error")
  BY DEF Reject, Rejected, InFlight
<1>2. "failed" \notin Stored
  BY DEF Stored
<1>. QED BY <1>1, <1>2, SettlingAnswers

LEMMA NextAnswers == Inv /\ Answers /\ [Next]_vars => Answers'
<1>. SUFFICES ASSUME Inv, Answers, [Next]_vars PROVE Answers'
  OBVIOUS
<1>0. Range(batch) \subseteq Events /\ \A e \in Range(batch) : stage[e] = "batched"
  BY BatchFacts
<1>1. ASSUME NEW e \in Events, PublishDirectly(e) PROVE Answers'
  <2>1. /\ Launch(e, {e}) /\ stage[e] = "new" /\ docs' = docs
        /\ reply' = [reply EXCEPT ![e] = "waiting"] /\ e \in Callers
    BY <1>1 DEF PublishDirectly, Replied, Callers
  <2>. QED BY <2>1, LaunchAnswers
<1>2. ASSUME NEW e \in Events, Fill(e) PROVE Answers'
  <2>. DEFINE E == Range(Append(batch, e))
  <2>1. /\ Launch(e, E) /\ stage[e] = "new" /\ docs' = docs
        /\ reply' = [reply EXCEPT ![e] = "waiting"] /\ e \in Callers
    BY <1>2 DEF Fill, Flush, Replied, Callers
  <2>2. E = Range(batch) \cup {e}
    BY AppendFacts DEF Inv, TypeOK
  <2>. HIDE DEF E
  <2>. QED BY <1>0, <2>1, <2>2, LaunchAnswers
<1>3. ASSUME NEW c \in {"timer", "manual", "destroy"}, Flush(c, batch),
             UNCHANGED <<reply, docs>>
      PROVE  Answers'
  <2>1. c \in Callers /\ c \notin Events
    BY CallerKinds DEF Callers
  <2>. QED BY <1>0, <1>3, <2>1, LaunchAnswers DEF Flush
<1>4. ASSUME NEW e \in Events, Insert(e) PROVE Answers'
  <2>1. /\ \A d \in Events : stage'[d] \in Stored <=> stage[d] \in Stored
        /\ UNCHANGED <<flights, leader, reply, docs>>
    BY <1>4 DEF Insert, Stored, Inv, TypeOK
  <2>. QED BY <2>1, OtherwiseAnswers
<1>5. ASSUME NEW e \in Events, RejectUnhandled(e) PROVE Answers'
  <2>1. Dies({e}) /\ stage[e] \in InFlight /\ docs \subseteq docs'
    BY <1>5 DEF RejectUnhandled, Rejected, InFlight
  <2>. QED BY <2>1, DiesAnswers
<1>6. CASE Exit \/ Crash
  <2>1. Dies({}) /\ docs' = docs
    BY <1>6 DEF Exit, Crash
  <2>. QED BY <2>1, DiesAnswers
<1>7. CASE ShutdownEmpty \/ UNCHANGED vars
  <2>1. UNCHANGED <<flights, leader, reply, stage, docs>>
    BY <1>7 DEF ShutdownEmpty, vars
  <2>. QED BY <2>1, OtherwiseAnswers
<1>8. CASE TimerFires \/ FlushByHand \/ ShutdownFlushes
  BY <1>3, <1>8 DEF TimerFires, FlushByHand, ShutdownFlushes
<1>. QED
  BY <1>1, <1>2, <1>4, <1>5, <1>6, <1>7, <1>8,
     CollectAnswers, ResolvedAnswers, RejectAnswers DEF Next, Proceed

\* A publish() that resolves after waiting for its flush has told the truth
\* about the whole batch (flush, Promise.all).
THEOREM NoFalseSuccess == Spec => []ResolvedMeansStored
<1>1. Answers => ResolvedMeansStored
  BY DEF Answers
<1>. QED BY <1>1, InitAnswers, NextAnswers, Invariance, PTL DEF Spec
=============================================================================
