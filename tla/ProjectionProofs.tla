-------------------------- MODULE ProjectionProofs --------------------------
(***************************************************************************)
(* Proofs about Projection, for any feed, any finite number of processes  *)
(* and any replays: no key is on record unearned, and records are final.   *)
(***************************************************************************)
EXTENDS Projection, FiniteSetTheorems, Induction

Stages == {"none", "gone"} \cup InFlight \cup Settled

LEMMA DeliveryParts ==
  ASSUME NEW d \in Deliveries
  PROVE  d[1] \in Hosts /\ d[2] \in Events /\ Key(d[2]) \in Keys
BY ConstantsAssumption DEF ConstantsAssumption, Deliveries, Keys

Types == {"AccountOpened", "MoneyDeposited", "MoneyWithdrawn"}

LEMMA FeedFacts ==
  /\ Len(Feed) \in Nat
  /\ Events = 1 .. Len(Feed)
  /\ \A k \in Events : /\ Feed[k].type \in Types
                       /\ Feed[k].account \in Accounts
                       /\ Feed[k].amount \in Int
<1>. DEFINE Doc == [type : Types, account : Accounts, amount : Int,
               eventId : Ids]
<1>1. Feed \in Seq(Doc)
  BY ConstantsAssumption DEF ConstantsAssumption, Types
<1>2. \A x \in Doc : x.type \in Types /\ x.account \in Accounts /\ x.amount \in Int
  OBVIOUS
<1>. HIDE DEF Doc
<1>3. Len(Feed) \in Nat /\ DOMAIN Feed = 1 .. Len(Feed)
  BY <1>1
<1>4. \A k \in 1 .. Len(Feed) : Feed[k] \in Doc
  BY <1>1
<1>. QED BY <1>2, <1>3, <1>4 DEF Events

\* The projector's write keeps the types of what it touches.
LEMMA WriteTypes ==
  ASSUME TypeOK, NEW k \in Events, Write(k), ~Rejects(k)
  PROVE  /\ DOMAIN view' \subseteq Accounts
         /\ \A a \in DOMAIN view' : view'[a] \in Int
         /\ effects' \in [Events -> Nat]
<1>1. CASE Effective(k)
  <2>1. view' = Projected(k) /\ effects' = [effects EXCEPT ![k] = @ + 1]
    BY <1>1 DEF Write
  <2>2. DOMAIN view' \subseteq Accounts
    BY <2>1, FeedFacts DEF Projected, TypeOK
  <2>3. ASSUME NEW a \in DOMAIN view' PROVE view'[a] \in Int
    <3>1. Feed[k].type \in Types
      BY FeedFacts
    <3>2. CASE a # Feed[k].account
      BY <2>1, <2>3, <3>2 DEF Projected, TypeOK
    <3>3. CASE a = Feed[k].account /\ Feed[k].type = "AccountOpened"
      BY <2>1, <2>3, <3>3, FeedFacts DEF Projected
    <3>4. CASE a = Feed[k].account /\ Feed[k].type # "AccountOpened"
      <4>1. a \in DOMAIN view
        BY <1>1, <3>4 DEF Effective
      <4>2. view[a] \in Int /\ Feed[k].amount \in Int
        BY <4>1, FeedFacts DEF TypeOK
      <4>3. CASE Feed[k].type = "MoneyDeposited"
        BY <2>1, <2>3, <3>4, <4>2, <4>3 DEF Projected
      <4>4. CASE Feed[k].type = "MoneyWithdrawn"
        BY <2>1, <2>3, <3>4, <4>2, <4>4 DEF Projected
      <4>. QED BY <3>1, <3>4, <4>3, <4>4 DEF Types
    <3>. QED BY <3>2, <3>3, <3>4
  <2>4. effects' \in [Events -> Nat]
    BY <2>1 DEF TypeOK
  <2>. QED BY <2>2, <2>3, <2>4
<1>2. CASE ~Effective(k)
  BY <1>2 DEF Write, TypeOK
<1>. QED BY <1>1, <1>2

LEMMA InitInv == Init => Inv
<1>. SUFFICES ASSUME Init PROVE Inv
  OBVIOUS
<1>1. TypeOK
  BY FeedFacts DEF Init, TypeOK, Stages, Events
<1>2. SkippedOnlyIfHandled /\ MarksEarned
  BY DEF Init, SkippedOnlyIfHandled,
     HandledKeys, MarksEarned
<1>. QED BY <1>1, <1>2 DEF Inv

-----------------------------------------------------------------------------
(* One lemma per action.                                                   *)

LEMMA BeginKeeps ==
  ASSUME Inv, NEW d \in Deliveries, Begin(d), UNCHANGED <<cache, marks, handled>>
  PROVE  /\ stage' \in [Deliveries -> Stages]
         /\ SkippedOnlyIfHandled'
         /\ MarksEarned'
<1>1. Key(d[2]) \in cache[d[1]] => Key(d[2]) \in HandledKeys
  BY DeliveryParts DEF Inv, SkippedOnlyIfHandled, HandledKeys
<1>2. stage' \in [Deliveries -> Stages]
  BY DEF Inv, TypeOK, Stages, InFlight, Settled, Begin, Goto
<1>3. \A e \in Deliveries : e # d => stage'[e] = stage[e]
  BY DEF Begin, Goto, Inv, TypeOK
<1>4. stage'[d] = IF Key(d[2]) \in cache[d[1]] THEN "skipped" ELSE "checking"
  BY DEF Begin, Goto, Inv, TypeOK
<1>5. SkippedOnlyIfHandled'
  BY <1>1, <1>3, <1>4 DEF Inv, SkippedOnlyIfHandled, HandledKeys
<1>6. MarksEarned'
  BY <1>3, <1>4 DEF Inv, MarksEarned
<1>. QED BY <1>2, <1>5, <1>6

LEMMA StoreKeepsInv ==
  ASSUME Inv, Store
  PROVE  Inv'
BY FeedFacts DEF Inv, Store, TypeOK, SkippedOnlyIfHandled,
     HandledKeys, MarksEarned

LEMMA DeliverKeepsInv ==
  ASSUME Inv, NEW i \in Hosts, Deliver(i)
  PROVE  Inv'
<1>. DEFINE d == <<i, seen[i] + 1, "stream">>
<1>1. seen[i] \in Nat /\ stored \in Nat /\ seen[i] + 1 \in 1 .. stored
  BY DEF Deliver, Inv, TypeOK
<1>2. seen[i] + 1 \in Events
  BY <1>1, FeedFacts DEF Inv, TypeOK
<1>3. d \in Deliveries
  BY <1>2 DEF Deliveries
<1>4. Begin(d) /\ UNCHANGED <<cache, marks, handled>>
  BY DEF Deliver
<1>5. stage' \in [Deliveries -> Stages] /\ SkippedOnlyIfHandled' /\ MarksEarned'
  BY <1>3, <1>4, BeginKeeps
<1>6. seen' \in [Hosts -> 0 .. stored]
  BY <1>1 DEF Deliver, Inv, TypeOK
<1>. QED BY <1>5, <1>6 DEF Deliver, Inv, TypeOK, Stages

LEMMA ReplayKeepsInv ==
  ASSUME Inv, NEW x \in Replayed, Replay(x[1], x[2])
  PROVE  Inv'
<1>1. <<x[1], x[2], "replay">> \in Deliveries
  BY DEF Deliveries
<1>2. stage' \in [Deliveries -> Stages] /\ SkippedOnlyIfHandled' /\ MarksEarned'
  BY <1>1, BeginKeeps DEF Replay
<1>. QED BY <1>2 DEF Replay, Inv, TypeOK, Stages

\* Steps of a delivery move it and nothing else.
LEMMA Moved ==
  ASSUME TypeOK, NEW d \in Deliveries, NEW where \in Stages, Goto(d, where)
  PROVE  /\ stage' \in [Deliveries -> Stages]
         /\ stage'[d] = where
         /\ \A e \in Deliveries : e # d => stage'[e] = stage[e]
BY DEF TypeOK, Stages, Goto

LEMMA CheckAnswersKeepsInv ==
  ASSUME Inv, NEW d \in Deliveries, CheckAnswers(d)
  PROVE  Inv'
<1>1. d[1] \in Hosts /\ d[2] \in Events /\ Key(d[2]) \in Keys
  BY DeliveryParts
<1>2. CASE Key(d[2]) \in marks /\ Goto(d, "skipped")
             /\ cache' = [cache EXCEPT ![d[1]] = @ \cup {Key(d[2])}]
  <2>1. /\ stage' \in [Deliveries -> Stages]
        /\ stage'[d] = "skipped"
        /\ \A e \in Deliveries : e # d => stage'[e] = stage[e]
    BY <1>2, Moved DEF Inv, Stages, Settled
  <2>2. Key(d[2]) \in HandledKeys
    BY <1>2 DEF Inv, SkippedOnlyIfHandled, HandledKeys
  <2>3. cache' \in [Hosts -> SUBSET Keys]
    BY <1>1, <1>2 DEF Inv, TypeOK
  <2>4. \A i \in Hosts : cache'[i] \subseteq HandledKeys
    BY <1>2, <2>2 DEF Inv, TypeOK, SkippedOnlyIfHandled, HandledKeys
  <2>5. TypeOK'
    BY <2>1, <2>3 DEF CheckAnswers, Inv, TypeOK, Stages
  <2>6. SkippedOnlyIfHandled' /\ MarksEarned'
    BY <2>1, <2>2, <2>4
    DEF CheckAnswers, Inv, SkippedOnlyIfHandled,
     HandledKeys, MarksEarned
  <2>. QED BY <2>5, <2>6 DEF Inv
<1>3. CASE Key(d[2]) \notin marks /\ Goto(d, "handling") /\ UNCHANGED cache
  <2>1. /\ stage' \in [Deliveries -> Stages]
        /\ stage'[d] = "handling"
        /\ \A e \in Deliveries : e # d => stage'[e] = stage[e]
    BY <1>3, Moved DEF Inv, Stages, InFlight
  <2>2. TypeOK'
    BY <1>3, <2>1 DEF CheckAnswers, Inv, TypeOK, Stages
  <2>3. SkippedOnlyIfHandled' /\ MarksEarned'
    BY <1>3, <2>1 DEF CheckAnswers, Inv, SkippedOnlyIfHandled,
     HandledKeys, MarksEarned
  <2>. QED BY <2>2, <2>3 DEF Inv
<1>. QED BY <1>2, <1>3 DEF CheckAnswers

LEMMA HandleKeepsInv ==
  ASSUME Inv, NEW d \in Deliveries, Handle(d)
  PROVE  Inv'
<1>1. d[1] \in Hosts /\ d[2] \in Events /\ Key(d[2]) \in Keys
  BY DeliveryParts
<1>2. /\ stage' \in [Deliveries -> Stages]
      /\ stage'[d] = "marking"
      /\ \A e \in Deliveries : e # d => stage'[e] = stage[e]
  BY Moved DEF Handle, Inv, Stages, InFlight
<1>3. /\ DOMAIN view' \subseteq Accounts
      /\ \A a \in DOMAIN view' : view'[a] \in Int
      /\ effects' \in [Events -> Nat]
  BY <1>1, WriteTypes DEF Handle, Inv
<1>4. /\ cache' \in [Hosts -> SUBSET Keys]
      /\ \A i \in Hosts : cache'[i] \subseteq HandledKeys'
  BY <1>1 DEF Handle, Inv, TypeOK, SkippedOnlyIfHandled, HandledKeys
<1>5. TypeOK'
  BY <1>1, <1>2, <1>3, <1>4 DEF Handle, Inv, TypeOK, Stages
<1>6. SkippedOnlyIfHandled' /\ MarksEarned'
  BY <1>2, <1>4 DEF Handle, Inv, SkippedOnlyIfHandled,
     HandledKeys, MarksEarned
<1>. QED BY <1>5, <1>6 DEF Inv

LEMMA HandleRejectsKeepsInv ==
  ASSUME Inv, NEW d \in Deliveries, HandleRejects(d)
  PROVE  Inv'
<1>1. /\ stage' \in [Deliveries -> Stages]
      /\ stage'[d] = "failed"
      /\ \A e \in Deliveries : e # d => stage'[e] = stage[e]
  BY Moved DEF HandleRejects, Inv, Stages, Settled
<1>. QED
  BY <1>1 DEF HandleRejects, Inv, TypeOK, Stages, SkippedOnlyIfHandled,
     HandledKeys, MarksEarned

LEMMA MarkKeepsInv ==
  ASSUME Inv, NEW d \in Deliveries, Mark(d)
  PROVE  Inv'
<1>1. d[2] \in Events /\ Key(d[2]) \in Keys
  BY DeliveryParts
<1>2. /\ stage' \in [Deliveries -> Stages]
      /\ stage'[d] = "done"
      /\ \A e \in Deliveries : e # d => stage'[e] = stage[e]
  BY Moved DEF Mark, Inv, Stages, Settled
<1>3. d[2] \in handled
  BY DEF Mark, Inv, MarksEarned
<1>4. TypeOK'
  BY <1>1, <1>2 DEF Mark, Inv, TypeOK, Stages
<1>5. SkippedOnlyIfHandled' /\ MarksEarned'
  BY <1>2, <1>3 DEF Mark, Inv, SkippedOnlyIfHandled,
     HandledKeys, MarksEarned
<1>. QED BY <1>4, <1>5 DEF Inv

LEMMA HandleFailsKeepsInv ==
  ASSUME Inv, NEW d \in Deliveries, HandleFails(d)
  PROVE  Inv'
<1>1. d[2] \in Events /\ Key(d[2]) \in Keys
  BY DeliveryParts
<1>2. /\ stage' \in [Deliveries -> Stages]
      /\ stage'[d] = "failed"
      /\ \A e \in Deliveries : e # d => stage'[e] = stage[e]
  BY Moved DEF HandleFails, Inv, Stages, Settled
<1>3. /\ DOMAIN view' \subseteq Accounts
      /\ \A a \in DOMAIN view' : view'[a] \in Int
      /\ effects' \in [Events -> Nat]
  <2>1. CASE UNCHANGED <<view, effects>>
    BY <2>1 DEF Inv, TypeOK
  <2>2. CASE ~Rejects(d[2]) /\ Write(d[2])
    BY <1>1, <2>2, WriteTypes DEF Inv
  <2>. QED BY <2>1, <2>2 DEF HandleFails
<1>4. TypeOK'
  BY <1>2, <1>3 DEF HandleFails, Inv, TypeOK, Stages
<1>5. SkippedOnlyIfHandled' /\ MarksEarned'
  BY <1>2 DEF HandleFails, Inv, SkippedOnlyIfHandled,
     HandledKeys, MarksEarned
<1>. QED BY <1>4, <1>5 DEF Inv

LEMMA MarkFailsKeepsInv ==
  ASSUME Inv, NEW d \in Deliveries, MarkFails(d)
  PROVE  Inv'
<1>1. /\ stage' \in [Deliveries -> Stages]
      /\ stage'[d] = "done"
      /\ \A e \in Deliveries : e # d => stage'[e] = stage[e]
  BY Moved DEF MarkFails, Inv, Stages, Settled
<1>. QED
  BY <1>1 DEF MarkFails, Inv, TypeOK, Stages, SkippedOnlyIfHandled,
     HandledKeys, MarksEarned

LEMMA CrashKeepsInv ==
  ASSUME Inv, NEW i \in Hosts, Crash(i)
  PROVE  Inv'
<1>1. /\ stage' \in [Deliveries -> Stages]
      /\ \A d \in Deliveries : stage'[d] \in {stage[d], "gone"}
  BY DEF Crash, Inv, TypeOK, Stages
<1>2. /\ cache' \in [Hosts -> SUBSET Keys]
      /\ \A j \in Hosts : cache'[j] \subseteq cache[j]
  BY DEF Crash, Inv, TypeOK
<1>3. TypeOK'
  BY <1>1, <1>2 DEF Crash, Inv, TypeOK, Stages
<1>4. SkippedOnlyIfHandled' /\ MarksEarned'
  BY <1>1, <1>2 DEF Crash, Inv, SkippedOnlyIfHandled,
     HandledKeys, MarksEarned
<1>. QED BY <1>3, <1>4 DEF Inv

LEMMA RestartKeepsInv ==
  ASSUME Inv, NEW i \in Hosts, Restart(i)
  PROVE  Inv'
BY DEF Restart, Inv, TypeOK, SkippedOnlyIfHandled,
     HandledKeys, MarksEarned

LEMMA ExpireKeepsInv ==
  ASSUME Inv, Expire
  PROVE  Inv'
BY DEF Expire, Inv, TypeOK, SkippedOnlyIfHandled,
     HandledKeys, MarksEarned

LEMMA NextKeepsInv == Inv /\ [Next]_vars => Inv'
<1>. SUFFICES ASSUME Inv, [Next]_vars PROVE Inv'
  OBVIOUS
<1>1. CASE Store
  BY <1>1, StoreKeepsInv
<1>2. CASE Expire
  BY <1>2, ExpireKeepsInv
<1>3. ASSUME NEW i \in Hosts, Deliver(i) \/ Crash(i) \/ Restart(i)
      PROVE  Inv'
  BY <1>3, DeliverKeepsInv, CrashKeepsInv, RestartKeepsInv
<1>4. ASSUME NEW x \in Replayed, Replay(x[1], x[2])
      PROVE  Inv'
  BY <1>4, ReplayKeepsInv
<1>5. ASSUME NEW d \in Deliveries, Advance(d)
      PROVE  Inv'
  BY <1>5, CheckAnswersKeepsInv, HandleKeepsInv, HandleRejectsKeepsInv,
     MarkKeepsInv DEF Advance
<1>6. ASSUME NEW d \in Deliveries, HandleFails(d) \/ MarkFails(d)
      PROVE  Inv'
  BY <1>6, HandleFailsKeepsInv, MarkFailsKeepsInv
<1>7. CASE UNCHANGED vars
  BY <1>7 DEF vars, Inv, TypeOK, SkippedOnlyIfHandled,
     HandledKeys, MarksEarned
<1>. QED
  BY <1>1, <1>2, <1>3, <1>4, <1>5, <1>6, <1>7 DEF Next

\* Inv holds throughout (the whole of the read side).
THEOREM Invariance == Spec => []Inv
BY InitInv, NextKeepsInv, PTL DEF Spec

\* The variables of the read side have their types.
THEOREM TypeCorrectness == Spec => []TypeOK
<1>1. Inv => TypeOK
  BY DEF Inv
<1>. QED BY <1>1, Invariance, PTL

\* No key is on record, in the collection or in a cache, and no delivery is
\* skipped, unless a projector has completed on an event with that key,
\* whatever crashes, fails, expires or is replayed (decorator, tracker).  That
\* event need not be the one delivered: see SkipsLoseNothing.
THEOREM SkipsAreJustified == Spec => []SkippedOnlyIfHandled
<1>1. Inv => SkippedOnlyIfHandled
  BY DEF Inv
<1>. QED BY <1>1, Invariance, PTL

\* If no two events share a key, a delivery is skipped only if its own event
\* has been handled: ids that are unique and survive, or at most one event of
\* each type per aggregate (decorator).
THEOREM SkipsLoseNothing ==
  ASSUME \A j, k \in Events : Key(j) = Key(k) => j = k
  PROVE  Spec =>
           [](\A d \in Deliveries : stage[d] = "skipped" => d[2] \in handled)
<1>. DEFINE Own == \A d \in Deliveries : stage[d] = "skipped" => d[2] \in handled
<1>1. ASSUME Inv, NEW d \in Deliveries, stage[d] = "skipped"
      PROVE  d[2] \in handled
  <2>1. PICK k \in handled : Key(d[2]) = Key(k)
    BY <1>1 DEF Inv, SkippedOnlyIfHandled, HandledKeys
  <2>2. k \in Events
    BY <1>1 DEF Inv, TypeOK
  <2>. QED BY <2>1, <2>2, DeliveryParts
<1>2. Inv => Own
  BY <1>1
<1>. HIDE DEF Own
<1>3. Spec => []Own
  BY <1>2, Invariance, PTL
<1>. QED BY <1>3 DEF Own

-----------------------------------------------------------------------------
(* A record is final.                                                      *)

\* The deliveries of event k that have passed the check and not yet written.
Exposed(k) == {d \in Of(k) : stage[d] = "handling"}

LEMMA DeliveriesFinite == IsFiniteSet(Deliveries)
<1>. DEFINE S == (Hosts \X Events) \X {"stream", "replay"}
            f == [x \in S |-> <<x[1][1], x[1][2], x[2]>>]
            T == {f[x] : x \in S}
<1>1. IsFiniteSet(Hosts) /\ IsFiniteSet(Events)
  BY ConstantsAssumption, FeedFacts, FS_Interval DEF ConstantsAssumption
<1>2. IsFiniteSet({"stream", "replay"})
  <2>1. IsFiniteSet({"stream"})
    BY FS_Singleton
  <2>2. IsFiniteSet({"stream"} \cup {"replay"})
    BY <2>1, FS_AddElement
  <2>3. {"stream", "replay"} = {"stream"} \cup {"replay"}
    OBVIOUS
  <2>. QED BY <2>2, <2>3
<1>3. IsFiniteSet(S)
  BY <1>1, <1>2, FS_Product
<1>4. f \in Surjection(S, T)
  BY DEF Surjection
<1>5. IsFiniteSet(T)
  BY <1>3, <1>4, FS_Surjection
<1>6. ASSUME NEW d \in Deliveries PROVE d \in T
  <2>1. PICK i \in Hosts, k \in Events, w \in {"stream", "replay"} :
          d = <<i, k, w>>
    BY ConstantsAssumption DEF Deliveries, ConstantsAssumption
  <2>2. <<<<i, k>>, w>> \in S /\ f[<<<<i, k>>, w>>] = d
    BY <2>1
  <2>. QED BY <2>2
<1>. QED BY <1>5, <1>6, FS_Subset

LEMMA ExposedFinite ==
  ASSUME NEW k
  PROVE  /\ IsFiniteSet(Exposed(k))
         /\ Cardinality(Exposed(k)) \in Nat
BY DeliveriesFinite, FS_Subset, FS_CardinalityType DEF Exposed, Of

LEMMA ExposureSplit ==
  ASSUME NEW k \in Events
  PROVE  /\ Exposure(k) = effects[k] + Cardinality(Exposed(k))
         /\ Exposure(k)' = effects'[k] + Cardinality(Exposed(k)')
<1>1. Exposure(k) = effects[k] + Cardinality(Exposed(k))
  BY DEF Exposure, Exposed
<1>2. Exposure(k)' = effects'[k] + Cardinality({d \in Of(k) : stage'[d] = "handling"})
  BY DEF Exposure, Of
<1>3. Exposed(k)' = {d \in Of(k) : stage'[d] = "handling"}
  BY DEF Exposed, Of
<1>. QED BY <1>1, <1>2, <1>3

\* A step that exposes nothing new and changes no effects.
LEMMA ExposureShrinks ==
  ASSUME TypeOK, NEW k \in Events,
         Exposed(k)' \subseteq Exposed(k), effects'[k] = effects[k]
  PROVE  Exposure(k)' <= Exposure(k)
<1>1. Cardinality(Exposed(k)') <= Cardinality(Exposed(k))
  BY ExposedFinite, FS_Subset
<1>2. Cardinality(Exposed(k)') \in Nat
  BY ExposedFinite, FS_Subset, FS_CardinalityType
<1>3. effects[k] \in Nat
  BY DEF TypeOK
<1>. QED BY <1>1, <1>2, <1>3, ExposedFinite, ExposureSplit

\* A step that turns an exposed delivery into at most one effect.
LEMMA ExposureMoves ==
  ASSUME TypeOK, NEW k \in Events, NEW d \in Exposed(k),
         Exposed(k)' \subseteq Exposed(k) \ {d},
         effects'[k] \in {effects[k], effects[k] + 1}
  PROVE  Exposure(k)' <= Exposure(k)
<1>1. /\ IsFiniteSet(Exposed(k) \ {d})
      /\ Cardinality(Exposed(k) \ {d}) = Cardinality(Exposed(k)) - 1
  BY ExposedFinite, FS_RemoveElement
<1>2. Cardinality(Exposed(k)') <= Cardinality(Exposed(k)) - 1
  BY <1>1, FS_Subset
<1>3. Cardinality(Exposed(k)') \in Nat
  BY <1>1, FS_Subset, FS_CardinalityType
<1>4. effects[k] \in Nat
  BY DEF TypeOK
<1>. QED BY <1>2, <1>3, <1>4, ExposedFinite, ExposureSplit

\* A delivery that moves elsewhere exposes nothing new.
LEMMA MovedExposes ==
  ASSUME TypeOK, NEW d \in Deliveries, NEW where \in Stages \ {"handling"},
         Goto(d, where), NEW k \in Events
  PROVE  Exposed(k)' \subseteq Exposed(k) \ {d}
BY Moved DEF Exposed, Of

LEMMA BeginExposes ==
  ASSUME TypeOK, NEW d \in Deliveries, Begin(d), NEW k \in Events
  PROVE  Exposed(k)' \subseteq Exposed(k)
BY MovedExposes DEF Begin, Stages, InFlight, Settled

\* The projector of a delivery writes: its exposure becomes the effect.
LEMMA WriteExposes ==
  ASSUME TypeOK, NEW d \in Deliveries, stage[d] = "handling",
         Write(d[2]) \/ UNCHANGED effects,
         NEW where \in Stages \ {"handling"}, Goto(d, where), NEW k \in Events
  PROVE  Exposure(k)' <= Exposure(k)
<1>1. Exposed(k)' \subseteq Exposed(k) \ {d}
  BY MovedExposes
<1>2. CASE d[2] = k
  <2>1. d \in Exposed(k)
    BY <1>2 DEF Exposed, Of
  <2>2. effects'[k] \in {effects[k], effects[k] + 1}
    BY <1>2 DEF Write, TypeOK
  <2>. QED BY <1>1, <2>1, <2>2, ExposureMoves
<1>3. CASE d[2] # k
  <2>1. effects'[k] = effects[k]
    BY <1>3 DEF Write, TypeOK
  <2>. QED BY <1>1, <2>1, ExposureShrinks
<1>. QED BY <1>2, <1>3

LEMMA NextIsFinal ==
  ASSUME Inv, [Next]_vars, NEW k \in Events,
         Key(k) \in marks, Key(k) \in marks'
  PROVE  Exposure(k)' <= Exposure(k)
<1>0. TypeOK
  BY DEF Inv
<1>1. CASE Store \/ Expire \/ UNCHANGED vars
  <2>1. UNCHANGED <<stage, effects>>
    BY <1>1 DEF Store, Expire, vars
  <2>. QED BY <1>0, <2>1, ExposureShrinks DEF Exposed, Of
<1>2. ASSUME NEW i \in Hosts, Deliver(i)
      PROVE  Exposure(k)' <= Exposure(k)
  <2>1. seen[i] + 1 \in Events
    BY <1>0, <1>2, FeedFacts DEF Deliver, TypeOK
  <2>2. <<i, seen[i] + 1, "stream">> \in Deliveries
    BY <2>1 DEF Deliveries
  <2>3. Exposed(k)' \subseteq Exposed(k)
    BY <1>0, <1>2, <2>2, BeginExposes DEF Deliver
  <2>4. effects'[k] = effects[k]
    BY <1>2 DEF Deliver
  <2>. QED BY <1>0, <2>3, <2>4, ExposureShrinks
<1>3. ASSUME NEW i \in Hosts, Crash(i)
      PROVE  Exposure(k)' <= Exposure(k)
  <2>1. \A d \in Deliveries : stage'[d] \in {stage[d], "gone"}
    BY <1>3 DEF Crash
  <2>2. Exposed(k)' \subseteq Exposed(k)
    BY <2>1 DEF Exposed, Of
  <2>3. effects'[k] = effects[k]
    BY <1>3 DEF Crash
  <2>. QED BY <1>0, <2>2, <2>3, ExposureShrinks
<1>4. ASSUME NEW i \in Hosts, Restart(i)
      PROVE  Exposure(k)' <= Exposure(k)
  <2>1. UNCHANGED <<stage, effects>>
    BY <1>4 DEF Restart
  <2>. QED BY <1>0, <2>1, ExposureShrinks DEF Exposed, Of
<1>5. ASSUME NEW x \in Replayed, Replay(x[1], x[2])
      PROVE  Exposure(k)' <= Exposure(k)
  <2>1. <<x[1], x[2], "replay">> \in Deliveries
    BY DEF Deliveries
  <2>2. Exposed(k)' \subseteq Exposed(k) /\ effects'[k] = effects[k]
    BY <1>0, <1>5, <2>1, BeginExposes DEF Replay
  <2>. QED BY <1>0, <2>2, ExposureShrinks
<1>6. ASSUME NEW d \in Deliveries, CheckAnswers(d)
      PROVE  Exposure(k)' <= Exposure(k)
  <2>1. effects'[k] = effects[k]
    BY <1>6 DEF CheckAnswers
  <2>2. CASE d[2] = k
    <3>1. Goto(d, "skipped")
      BY <1>6, <2>2 DEF CheckAnswers
    <3>2. Exposed(k)' \subseteq Exposed(k)
      BY <1>0, <3>1, MovedExposes DEF Stages, Settled
    <3>. QED BY <1>0, <2>1, <3>2, ExposureShrinks
  <2>3. CASE d[2] # k
    <3>1. \A e \in Deliveries : e # d => stage'[e] = stage[e]
      BY <1>0, <1>6 DEF CheckAnswers, Goto, TypeOK
    <3>2. Exposed(k)' \subseteq Exposed(k)
      BY <2>3, <3>1 DEF Exposed, Of
    <3>. QED BY <1>0, <2>1, <3>2, ExposureShrinks
  <2>. QED BY <2>2, <2>3
<1>7. ASSUME NEW d \in Deliveries, Handle(d)
      PROVE  Exposure(k)' <= Exposure(k)
  BY <1>0, <1>7, WriteExposes DEF Handle, Stages, InFlight
<1>8. ASSUME NEW d \in Deliveries, HandleRejects(d)
      PROVE  Exposure(k)' <= Exposure(k)
  BY <1>0, <1>8, WriteExposes DEF HandleRejects, Stages, Settled
<1>9. ASSUME NEW d \in Deliveries, Mark(d) \/ MarkFails(d)
      PROVE  Exposure(k)' <= Exposure(k)
  <2>1. Goto(d, "done") /\ effects'[k] = effects[k]
    BY <1>9 DEF Mark, MarkFails
  <2>2. Exposed(k)' \subseteq Exposed(k)
    BY <1>0, <2>1, MovedExposes DEF Stages, Settled
  <2>. QED BY <1>0, <2>1, <2>2, ExposureShrinks
<1>10. ASSUME NEW d \in Deliveries, HandleFails(d)
       PROVE  Exposure(k)' <= Exposure(k)
  <2>1. Goto(d, "failed")
    BY <1>10 DEF HandleFails
  <2>2. CASE stage[d] = "handling"
    BY <1>0, <1>10, <2>1, <2>2, WriteExposes DEF HandleFails, Stages, Settled
  <2>3. CASE stage[d] # "handling"
    <3>1. effects'[k] = effects[k]
      BY <1>10, <2>3 DEF HandleFails
    <3>2. Exposed(k)' \subseteq Exposed(k)
      BY <1>0, <2>1, MovedExposes DEF Stages, Settled
    <3>. QED BY <1>0, <3>1, <3>2, ExposureShrinks
  <2>. QED BY <2>2, <2>3
<1>. QED
  BY <1>1, <1>2, <1>3, <1>4, <1>5, <1>6, <1>7, <1>8, <1>9, <1>10
  DEF Next, Advance

\* Once an event is on record, nothing adds to what its earlier deliveries
\* do, in any process, while the record lasts (isProcessed).
THEOREM RecordsAreFinal == Spec => RecordedIsFinal
<1>1. Inv /\ [Next]_vars =>
        [\A k \in Events : Key(k) \in marks \cap marks' =>
           Exposure(k)' <= Exposure(k)]_vars
  BY NextIsFinal
<1>. QED BY <1>1, Invariance, PTL DEF Spec, RecordedIsFinal

-----------------------------------------------------------------------------
(* Balances.                                                               *)

\* What event k adds to SumOf() of account a.
Part(count, a, k) == IF Feed[k].account = a THEN count[k] * Signed(k) ELSE 0

LEMMA PartIsInt ==
  ASSUME NEW count \in [Events -> Nat], NEW a, NEW k \in Events
  PROVE  Part(count, a, k) \in Int /\ Signed(k) \in Int
<1>1. Signed(k) \in Int
  BY FeedFacts DEF Signed
<1>2. \A m \in Nat, s \in Int : m * s \in Int
  OBVIOUS
<1>. QED BY <1>1, <1>2 DEF Part

\* The recursion that defines SumOf() has a solution.
LEMMA SumUnfolds ==
  ASSUME NEW count \in [Events -> Nat], NEW a
  PROVE  /\ SumOf(count, a, 0) = 0
         /\ \A n \in Events : SumOf(count, a, n) = SumOf(count, a, n - 1) + Part(count, a, n)
         /\ \A n \in 0 .. Len(Feed) : SumOf(count, a, n) \in Int
<1>. DEFINE N == Len(Feed)
            step == [k \in 1 .. N |-> [x \in Int |-> x + Part(count, a, k)]]
            body(f) == [k \in 0 .. N |-> IF k = 0 THEN 0 ELSE f[k - 1] + Part(count, a, k)]
            sum == CHOOSE f : f = body(f)
<1>1. N \in Nat /\ Events = 1 .. N /\ \A k \in 1 .. N : Part(count, a, k) \in Int
  BY FeedFacts, PartIsInt
<1>2. step \in [1 .. N -> [Int -> Int]]
  BY <1>1
<1>3. PICK f \in [0 .. N -> Int] : Iterates(f, N, 0, step)
  <2>. HIDE DEF step, N
  <2>1. N \in Nat /\ 0 \in Int
    BY <1>1
  <2>. QED BY <1>2, <2>1, IteratesExist
<1>4. f = body(f)
  <2>1. ASSUME NEW k \in 0 .. N
        PROVE  f[k] = IF k = 0 THEN 0 ELSE f[k - 1] + Part(count, a, k)
    <3>1. f[k] = IF k = 0 THEN 0 ELSE step[k][f[k - 1]]
      <4>. HIDE DEF step, N
      <4>. QED BY <1>3 DEF Iterates
    <3>2. k # 0 => k \in 1 .. N /\ f[k - 1] \in Int
      <4>. HIDE DEF step, N
      <4>. QED BY <1>1
    <3>. QED BY <3>1, <3>2
  <2>. HIDE DEF step, N
  <2>. QED BY <1>3, <2>1
<1>5. sum = body(sum)
  BY <1>4
<1>6. \A n : SumOf(count, a, n) = sum[n]
  BY DEF SumOf, Part
<1>. HIDE DEF sum, step
<1>7. sum[0] = 0
  BY <1>1, <1>5
<1>8. ASSUME NEW k \in 1 .. N PROVE sum[k] = sum[k - 1] + Part(count, a, k)
  <2>1. k \in 0 .. N /\ k # 0
    BY <1>1
  <2>2. sum[k] = body(sum)[k]
    BY <1>5
  <2>. HIDE DEF N
  <2>. QED BY <2>1, <2>2
<1>. HIDE DEF N
<1>9. \A k \in 0 .. N : sum[k] \in Int
  <2>. DEFINE S == {k \in 0 .. N : sum[k] \in Int}
  <2>1. 0 \in S
    BY <1>1, <1>7
  <2>2. ASSUME NEW k \in 0 .. N - 1, k \in S PROVE k + 1 \in S
    <3>1. k + 1 \in 1 .. N /\ (k + 1) - 1 = k
      BY <1>1
    <3>2. sum[k + 1] = sum[k] + Part(count, a, k + 1)
      BY <1>8, <3>1
    <3>. QED BY <1>1, <2>2, <3>1, <3>2
  <2>. HIDE DEF S
  <2>3. 0 .. N \subseteq S
    BY <1>1, <2>1, <2>2, SetInduction
  <2>. QED BY <2>3 DEF S
<1>10. \A n \in 0 .. N : SumOf(count, a, n) \in Int
  BY <1>6, <1>9
<1>11. \A n \in Events : SumOf(count, a, n) = SumOf(count, a, n - 1) + Part(count, a, n)
  BY <1>1, <1>6, <1>8
<1>. QED BY <1>6, <1>7, <1>10, <1>11 DEF N

\* One effect more of event j adds what j is worth to the sums behind it.
LEMMA SumOfOneMore ==
  ASSUME NEW count \in [Events -> Nat], NEW a, NEW j \in Events
  PROVE  SumOf([count EXCEPT ![j] = @ + 1], a, Len(Feed))
           = SumOf(count, a, Len(Feed)) + (IF Feed[j].account = a THEN Signed(j) ELSE 0)
<1>. DEFINE N == Len(Feed)
            more == [count EXCEPT ![j] = @ + 1]
            worth == IF Feed[j].account = a THEN Signed(j) ELSE 0
            S == {n \in 0 .. N : SumOf(more, a, n) = SumOf(count, a, n) + (IF j <= n THEN worth ELSE 0)}
<1>1. N \in Nat /\ Events = 1 .. N /\ j \in 1 .. N /\ more \in [Events -> Nat]
  BY FeedFacts
<1>2. worth \in Int
  BY PartIsInt
<1>3. ASSUME NEW n \in 1 .. N
      PROVE  Part(more, a, n) = Part(count, a, n) + (IF n = j THEN worth ELSE 0)
  <2>1. CASE n = j
    <3>1. more[n] = count[n] + 1 /\ count[n] \in Int /\ Signed(n) \in Int
      BY <1>1, <2>1, PartIsInt
    <3>2. \A m, s \in Int : (m + 1) * s = m * s + s
      OBVIOUS
    <3>3. more[n] * Signed(n) = count[n] * Signed(n) + Signed(n)
      BY <3>1, <3>2
    <3>. QED BY <2>1, <3>3 DEF Part
  <2>2. CASE n # j
    <3>1. more[n] = count[n] /\ Part(count, a, n) \in Int
      BY <1>1, <2>2, PartIsInt
    <3>. QED BY <2>2, <3>1 DEF Part
  <2>. QED BY <2>1, <2>2
<1>4. /\ SumOf(more, a, 0) = 0 /\ SumOf(count, a, 0) = 0
      /\ \A n \in 1 .. N : SumOf(more, a, n) = SumOf(more, a, n - 1) + Part(more, a, n)
      /\ \A n \in 1 .. N : SumOf(count, a, n) = SumOf(count, a, n - 1) + Part(count, a, n)
      /\ \A n \in 0 .. N : SumOf(more, a, n) \in Int /\ SumOf(count, a, n) \in Int
  <2>. HIDE DEF more
  <2>. QED BY <1>1, SumUnfolds
<1>5. \A n \in 1 .. N : Part(more, a, n) \in Int /\ Part(count, a, n) \in Int
  <2>. HIDE DEF more
  <2>. QED BY <1>1, PartIsInt
<1>. HIDE DEF N, more, worth
<1>6. 0 \in S
  BY <1>1, <1>4
<1>7. ASSUME NEW n \in 0 .. N - 1, n \in S PROVE n + 1 \in S
  <2>1. n + 1 \in 1 .. N /\ (n + 1) - 1 = n /\ n \in 0 .. N /\ n + 1 \in 0 .. N
    BY <1>1
  <2>2. /\ SumOf(more, a, n + 1) = SumOf(more, a, n) + Part(more, a, n + 1)
        /\ SumOf(count, a, n + 1) = SumOf(count, a, n) + Part(count, a, n + 1)
        /\ SumOf(more, a, n) = SumOf(count, a, n) + (IF j <= n THEN worth ELSE 0)
    BY <1>4, <1>7, <2>1
  <2>3. Part(more, a, n + 1) = Part(count, a, n + 1) + (IF n + 1 = j THEN worth ELSE 0)
    BY <1>3, <2>1
  <2>4. /\ SumOf(count, a, n) \in Int /\ SumOf(count, a, n + 1) \in Int
        /\ Part(count, a, n + 1) \in Int
    BY <1>4, <1>5, <2>1
  <2>5. SumOf(more, a, n + 1)
          = SumOf(count, a, n + 1) + (IF j <= n + 1 THEN worth ELSE 0)
    <3>1. CASE j <= n
      BY <1>1, <1>2, <2>1, <2>2, <2>3, <2>4, <3>1
    <3>2. CASE j = n + 1
      BY <1>1, <1>2, <2>1, <2>2, <2>3, <2>4, <3>2
    <3>3. CASE j > n + 1
      BY <1>1, <1>2, <2>1, <2>2, <2>3, <2>4, <3>3
    <3>. QED BY <1>1, <2>1, <3>1, <3>2, <3>3
  <2>. QED BY <2>1, <2>5
<1>. HIDE DEF S
<1>8. 0 .. N \subseteq S
  BY <1>1, <1>6, <1>7, SetInduction
<1>9. N \in S /\ j <= N
  BY <1>1, <1>8
<1>. QED BY <1>9 DEF S, N, more, worth

\* The projector's write changes the balance that is shown by what the event
\* is worth.
LEMMA WriteExplained ==
  ASSUME TypeOK, BalancesExplained, NEW k \in Events, Write(k), ~Rejects(k)
  PROVE  BalancesExplained'
<1>1. CASE Effective(k)
  <2>1. view' = Projected(k) /\ effects' = [effects EXCEPT ![k] = @ + 1]
    BY <1>1 DEF Write
  <2>2. ASSUME NEW a \in Accounts
        PROVE  Shown(a)' = Shown(a) + (IF Feed[k].account = a THEN Signed(k) ELSE 0)
    <3>1. Feed[k].type \in Types /\ Feed[k].amount \in Int
      BY FeedFacts
    <3>2. Shown(a) \in Int
      BY DEF Shown, TypeOK
    <3>3. CASE a # Feed[k].account
      <4>1. (a \in DOMAIN view' <=> a \in DOMAIN view)
            /\ (a \in DOMAIN view => view'[a] = view[a])
        BY <2>1, <3>3 DEF Projected
      <4>. QED BY <3>2, <3>3, <4>1 DEF Shown
    <3>4. CASE a = Feed[k].account /\ Feed[k].type = "AccountOpened"
      <4>1. Shown(a) = 0
        BY <3>4 DEF Rejects, Shown
      <4>2. a \in DOMAIN view' /\ view'[a] = Feed[k].amount
        BY <2>1, <3>4 DEF Projected
      <4>. QED BY <3>1, <3>4, <4>1, <4>2 DEF Shown, Signed
    <3>5. CASE a = Feed[k].account /\ Feed[k].type # "AccountOpened"
      <4>1. a \in DOMAIN view /\ view[a] \in Int /\ a \in DOMAIN view'
        BY <1>1, <2>1, <3>5 DEF Effective, Projected, TypeOK
      <4>2. CASE Feed[k].type = "MoneyDeposited"
        <5>1. view'[a] = view[a] + Feed[k].amount
          BY <2>1, <3>5, <4>1, <4>2 DEF Projected
        <5>. QED BY <3>1, <3>5, <4>1, <4>2, <5>1 DEF Shown, Signed
      <4>3. CASE Feed[k].type = "MoneyWithdrawn"
        <5>1. view'[a] = view[a] - Feed[k].amount
          BY <2>1, <3>5, <4>1, <4>3 DEF Projected
        <5>. QED BY <3>1, <3>5, <4>1, <4>3, <5>1 DEF Shown, Signed
      <4>. QED BY <3>1, <3>5, <4>2, <4>3 DEF Types
    <3>. QED BY <3>3, <3>4, <3>5
  <2>3. ASSUME NEW a \in Accounts
        PROVE  SumOf(effects', a, Len(Feed))
                 = SumOf(effects, a, Len(Feed)) + (IF Feed[k].account = a THEN Signed(k) ELSE 0)
    BY <2>1, SumOfOneMore DEF TypeOK
  <2>. QED BY <2>2, <2>3 DEF BalancesExplained
<1>2. CASE ~Effective(k)
  <2>1. UNCHANGED <<view, effects>>
    BY <1>2 DEF Write
  <2>. QED BY <2>1 DEF BalancesExplained, Shown
<1>. QED BY <1>1, <1>2

LEMMA NextExplained ==
  ASSUME Inv, BalancesExplained, [Next]_vars
  PROVE  BalancesExplained'
<1>1. CASE UNCHANGED <<view, effects>>
  BY <1>1 DEF BalancesExplained, Shown
<1>2. ASSUME NEW d \in Deliveries, Write(d[2]), ~Rejects(d[2])
      PROVE  BalancesExplained'
  BY <1>2, WriteExplained, DeliveryParts DEF Inv
<1>3. ASSUME NEW i \in Hosts, Deliver(i) \/ Crash(i) \/ Restart(i)
      PROVE  UNCHANGED <<view, effects>>
  BY <1>3 DEF Deliver, Crash, Restart
<1>4. ASSUME NEW x \in Replayed, Replay(x[1], x[2]) PROVE UNCHANGED <<view, effects>>
  BY <1>4 DEF Replay
<1>5. ASSUME NEW d \in Deliveries,
             CheckAnswers(d) \/ HandleRejects(d) \/ Mark(d) \/ MarkFails(d)
      PROVE  UNCHANGED <<view, effects>>
  BY <1>5 DEF CheckAnswers, HandleRejects, Mark, MarkFails
<1>6. ASSUME NEW d \in Deliveries, Handle(d) PROVE BalancesExplained'
  BY <1>2, <1>6 DEF Handle
<1>7. ASSUME NEW d \in Deliveries, HandleFails(d) PROVE BalancesExplained'
  BY <1>1, <1>2, <1>7 DEF HandleFails
<1>8. CASE Store \/ Expire \/ UNCHANGED vars
  BY <1>1, <1>8 DEF Store, Expire, vars
<1>. QED BY <1>1, <1>3, <1>4, <1>5, <1>6, <1>7, <1>8 DEF Next, Advance

\* Whatever handlers of whatever processes meet on a document, and whatever
\* fails: a balance is the sum of the effects its events have had.
THEOREM NoUpdateLost == Spec => []BalancesExplained
<1>1. Init => BalancesExplained
  <2>. SUFFICES ASSUME Init, NEW a \in Accounts PROVE Shown(a) = SumOf(effects, a, Len(Feed))
    BY DEF BalancesExplained
  <2>. DEFINE S == {n \in 0 .. Len(Feed) : SumOf(effects, a, n) = 0}
  <2>1. effects \in [Events -> Nat] /\ \A k \in Events : effects[k] = 0
    BY DEF Init
  <2>2. Len(Feed) \in Nat /\ Events = 1 .. Len(Feed)
    BY FeedFacts
  <2>3. 0 \in S
    BY <2>1, <2>2, SumUnfolds
  <2>4. ASSUME NEW n \in 0 .. Len(Feed) - 1, n \in S PROVE n + 1 \in S
    <3>1. n + 1 \in Events /\ (n + 1) - 1 = n
      BY <2>2
    <3>2. Part(effects, a, n + 1) = 0
      <4>1. \A s \in Int : 0 * s = 0
        OBVIOUS
      <4>. QED BY <2>1, <3>1, <4>1, PartIsInt DEF Part
    <3>3. SumOf(effects, a, n + 1) = SumOf(effects, a, n) + 0
      BY <2>1, <3>1, <3>2, SumUnfolds
    <3>. QED BY <2>2, <2>4, <3>1, <3>3
  <2>. HIDE DEF S
  <2>5. 0 .. Len(Feed) \subseteq S
    BY <2>2, <2>3, <2>4, SetInduction
  <2>6. SumOf(effects, a, Len(Feed)) = 0
    BY <2>2, <2>5 DEF S
  <2>. QED BY <2>6 DEF Init, Shown
<1>2. Inv /\ BalancesExplained /\ [Next]_vars => BalancesExplained'
  BY NextExplained
<1>. QED BY <1>1, <1>2, Invariance, PTL DEF Spec

\* What event k makes of the balance x of account a.
Balanced(a, k, x) ==
  IF Feed[k].account # a THEN x
  ELSE CASE Feed[k].type = "AccountOpened"  -> Feed[k].amount
         [] Feed[k].type = "MoneyDeposited" -> x + Feed[k].amount
         [] Feed[k].type = "MoneyWithdrawn" -> x - Feed[k].amount

LEMMA BalanceAfterUnfolds ==
  ASSUME NEW a
  PROVE  /\ BalanceAfter(a, 0) = 0
         /\ \A n \in Events : BalanceAfter(a, n) = Balanced(a, n, BalanceAfter(a, n - 1))
<1>. DEFINE N == Len(Feed)
            step == [k \in 1 .. N |-> [x \in Int |-> Balanced(a, k, x)]]
            body(f) == [k \in 0 .. N |-> IF k = 0 THEN 0 ELSE Balanced(a, k, f[k - 1])]
            after == CHOOSE f : f = body(f)
<1>1. N \in Nat /\ Events = 1 .. N
  BY FeedFacts
<1>2. step \in [1 .. N -> [Int -> Int]]
  <2>1. ASSUME NEW k \in 1 .. N, NEW x \in Int PROVE Balanced(a, k, x) \in Int
    BY <1>1, FeedFacts DEF Balanced, Types
  <2>. QED BY <2>1
<1>3. PICK f \in [0 .. N -> Int] : Iterates(f, N, 0, step)
  <2>. HIDE DEF step, N
  <2>1. N \in Nat /\ 0 \in Int
    BY <1>1
  <2>. QED BY <1>2, <2>1, IteratesExist
<1>4. f = body(f)
  <2>1. ASSUME NEW k \in 0 .. N
        PROVE  f[k] = IF k = 0 THEN 0 ELSE Balanced(a, k, f[k - 1])
    <3>1. f[k] = IF k = 0 THEN 0 ELSE step[k][f[k - 1]]
      <4>. HIDE DEF step, N
      <4>. QED BY <1>3 DEF Iterates
    <3>2. k # 0 => k \in 1 .. N /\ f[k - 1] \in Int
      <4>. HIDE DEF step, N
      <4>. QED BY <1>1
    <3>. QED BY <3>1, <3>2
  <2>. HIDE DEF step, N
  <2>. QED BY <1>3, <2>1
<1>5. after = body(after)
  BY <1>4
<1>6. \A n : BalanceAfter(a, n) = after[n]
  BY DEF BalanceAfter, Balanced
<1>. HIDE DEF after, step
<1>7. after[0] = 0
  BY <1>1, <1>5
<1>8. ASSUME NEW k \in 1 .. N PROVE after[k] = Balanced(a, k, after[k - 1])
  <2>1. k \in 0 .. N /\ k # 0
    BY <1>1
  <2>2. after[k] = body(after)[k]
    BY <1>5
  <2>. HIDE DEF N
  <2>. QED BY <2>1, <2>2
<1>. QED BY <1>1, <1>6, <1>7, <1>8

\* Each of the first m events of an account once, and no other, is what its
\* balance after them is.
LEMMA SumOfOnce ==
  ASSUME OpeningsLead, NEW count \in [Events -> Nat], NEW a, NEW m \in 0 .. Len(Feed),
         \A k \in Events : Feed[k].account = a => count[k] = IF k <= m THEN 1 ELSE 0
  PROVE  SumOf(count, a, Len(Feed)) = BalanceAfter(a, m)
<1>. DEFINE N == Len(Feed)
            sum(n) == SumOf(count, a, n)
            balance(n) == BalanceAfter(a, n)
            S == {n \in 0 .. N :
                    /\ n <= m => sum(n) = balance(n)
                    /\ n > m => sum(n) = balance(m)
                    /\ (\A j \in 1 .. n : Feed[j].account # a) => sum(n) = 0}
<1>1. N \in Nat /\ Events = 1 .. N /\ m \in 0 .. N
  BY FeedFacts
<1>2. /\ sum(0) = 0 /\ \A n \in 0 .. N : sum(n) \in Int
      /\ \A n \in Events : sum(n) = sum(n - 1) + Part(count, a, n)
  BY SumUnfolds
<1>3. balance(0) = 0 /\ \A n \in Events : balance(n) = Balanced(a, n, balance(n - 1))
  BY BalanceAfterUnfolds
<1>4. ASSUME NEW n \in Events
      PROVE  Part(count, a, n) = IF Feed[n].account = a /\ n <= m THEN Signed(n) ELSE 0
  <2>1. \A s \in Int : 1 * s = s /\ 0 * s = 0
    OBVIOUS
  <2>. QED BY <2>1, PartIsInt DEF Part
<1>. HIDE DEF N, sum, balance
<1>5. 0 \in S
  BY <1>1, <1>2, <1>3
<1>6. ASSUME NEW n \in 0 .. N - 1, n \in S PROVE n + 1 \in S
  <2>1. n + 1 \in Events /\ (n + 1) - 1 = n /\ n + 1 \in 0 .. N /\ n \in 0 .. N
    BY <1>1
  <2>2. sum(n + 1) = sum(n) + Part(count, a, n + 1) /\ sum(n) \in Int
    BY <1>2, <2>1
  <2>3. balance(n + 1) = Balanced(a, n + 1, balance(n))
    BY <1>3, <2>1
  <2>4. CASE Feed[n + 1].account # a
    <3>1. sum(n + 1) = sum(n) /\ balance(n + 1) = balance(n)
      BY <1>4, <2>1, <2>2, <2>3, <2>4 DEF Balanced
    <3>2. (\A j \in 1 .. n + 1 : Feed[j].account # a) => \A j \in 1 .. n : Feed[j].account # a
      BY <2>1
    <3>. QED BY <1>1, <1>6, <2>1, <3>1, <3>2
  <2>5. CASE Feed[n + 1].account = a /\ n + 1 > m
    <3>1. sum(n + 1) = sum(n)
      BY <1>4, <2>1, <2>2, <2>5
    <3>2. sum(n) = balance(m)
      BY <1>1, <1>6, <2>1, <2>5
    <3>3. n + 1 \in 1 .. n + 1
      BY <2>1
    <3>. QED BY <1>1, <2>1, <2>5, <3>1, <3>2, <3>3
  <2>6. CASE Feed[n + 1].account = a /\ n + 1 <= m
    <3>1. sum(n + 1) = sum(n) + Signed(n + 1)
      BY <1>4, <2>1, <2>2, <2>6
    <3>2. sum(n) = balance(n) /\ n + 1 \in 1 .. n + 1
      BY <1>1, <1>6, <2>1, <2>6
    <3>3. Feed[n + 1].type \in Types /\ Feed[n + 1].amount \in Int
      BY <2>1, FeedFacts
    <3>4. CASE Feed[n + 1].type = "AccountOpened"
      <4>1. ASSUME NEW j \in 1 .. n PROVE Feed[j].account # a
        <5>1. j \in Events /\ ~ n + 1 <= j
          BY <1>1, <2>1
        <5>. QED BY <2>1, <2>6, <3>4, <5>1 DEF OpeningsLead
      <4>2. sum(n) = 0
        BY <1>6, <4>1
      <4>3. sum(n + 1) = balance(n + 1)
        BY <2>3, <2>6, <3>1, <3>3, <3>4, <4>2 DEF Balanced, Signed
      <4>. QED BY <1>1, <2>1, <2>6, <3>2, <4>3
    <3>5. CASE Feed[n + 1].type # "AccountOpened"
      <4>1. sum(n + 1) = balance(n + 1)
        BY <2>2, <2>3, <2>6, <3>1, <3>2, <3>3, <3>5 DEF Balanced, Signed, Types
      <4>. QED BY <1>1, <2>1, <2>6, <3>2, <4>1
    <3>. QED BY <3>4, <3>5
  <2>. QED BY <1>1, <2>1, <2>4, <2>5, <2>6
<1>. HIDE DEF S
<1>7. 0 .. N \subseteq S
  BY <1>1, <1>5, <1>6, SetInduction
<1>8. N \in S
  BY <1>1, <1>7
<1>9. sum(N) = balance(m)
  <2>1. (N <= m => sum(N) = balance(N)) /\ (N > m => sum(N) = balance(m))
    BY <1>8 DEF S
  <2>. QED BY <1>1, <2>1
<1>. QED BY <1>9 DEF sum, balance, N

\* An account whose stored events have had one effect each, in whatever order
\* and from whatever processes they came, shows the balance it has: what goes
\* wrong with a balance goes wrong with a count of effects.
THEOREM OnceMeansCorrect ==
  ASSUME OpeningsLead
  PROVE  Spec => [](\A a \in DOMAIN view :
                      (\A k \in Events :
                         Feed[k].account = a => effects[k] = IF k <= stored THEN 1 ELSE 0)
                      => view[a] = BalanceAfter(a, stored))
<1>. DEFINE Once(a) == \A k \in Events :
                         Feed[k].account = a => effects[k] = IF k <= stored THEN 1 ELSE 0
            Correct == \A a \in DOMAIN view : Once(a) => view[a] = BalanceAfter(a, stored)
<1>1. ASSUME Inv, BalancesExplained, NEW a \in DOMAIN view, Once(a)
      PROVE  view[a] = BalanceAfter(a, stored)
  <2>1. a \in Accounts /\ effects \in [Events -> Nat] /\ stored \in 0 .. Len(Feed)
    BY <1>1 DEF Inv, TypeOK
  <2>2. view[a] = SumOf(effects, a, Len(Feed))
    BY <1>1, <2>1 DEF BalancesExplained, Shown
  <2>. QED BY <1>1, <2>1, <2>2, SumOfOnce
<1>2. Inv /\ BalancesExplained => Correct
  BY <1>1
<1>. HIDE DEF Correct
<1>3. Spec => []Correct
  BY <1>2, Invariance, NoUpdateLost, PTL
<1>. QED BY <1>3 DEF Correct
=============================================================================
