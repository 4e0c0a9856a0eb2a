----------------------------- MODULE Projection -----------------------------
(***************************************************************************)
(* The read side: EventsBridge watches the event collection in every      *)
(* process, hands each inserted document to the projectors of             *)
(* bank-account.projector.ts, and @IdempotentEventHandler wraps them with *)
(* the checks of ProcessedEventTracker.                                    *)
(*                                                                         *)
(* A delivery is one call of a projector's handle(), cut at its awaits:    *)
(*                                                                         *)
(*   none --> checking --> handling --> marking --> done                   *)
(*      '--> skipped <-'       '--> failed                                 *)
(*                                                                         *)
(* Deliveries of one process run concurrently: the event bus does not      *)
(* wait for a handler before it dispatches the next event.                 *)
(***************************************************************************)
EXTENDS Integers, Sequences, FiniteSets

CONSTANTS
  Hosts,     \* the processes
  Feed,      \* the event documents, in the order they are inserted
  NoId,      \* the eventId of an event that carries none
  Replayed,  \* <<process, event>>: fed to the handlers once more
  Faults,    \* may the database refuse or lose an answer?
  Crashes,   \* may a process die?
  Expiry     \* do records of processed events expire?

Events == DOMAIN Feed
Accounts == {Feed[k].account : k \in Events}
Ids == {Feed[k].eventId : k \in Events}

ASSUME ConstantsAssumption ==
  /\ Feed \in Seq([type : {"AccountOpened", "MoneyDeposited", "MoneyWithdrawn"},
                   account : Accounts, amount : Int, eventId : Ids])
  /\ IsFiniteSet(Hosts)
  /\ Replayed \subseteq Hosts \X Events
  /\ {Faults, Crashes, Expiry} \subseteq BOOLEAN

\* Seeded fault: the key leaves out the handler's name.
KeyUnscoped(k) ==
  IF Feed[k].eventId = NoId THEN Feed[k].account ELSE Feed[k].eventId

\* The key of event k's records: the name of its projector, of which every
\* event type has one, and the id, or the aggregate's if the event has none.
Key(k) ==
  <<Feed[k].type,
    IF Feed[k].eventId = NoId THEN Feed[k].account ELSE Feed[k].eventId>>
Keys == {Key(k) : k \in Events}

\* A delivery of event k in process i, by the change stream or by a replay.
Deliveries ==
  {<<i, k, "stream">> : i \in Hosts, k \in Events}
    \cup {<<x[1], x[2], "replay">> : x \in Replayed}
On(i) == {d \in Deliveries : d[1] = i}
Of(k) == {d \in Deliveries : d[2] = k}

VARIABLES
  stored,   \* how many documents of Feed have been inserted
  up,       \* the processes that run
  seen,     \* the last document each process's change stream went past
  stage,    \* where each delivery is
  cache,    \* ProcessedEventTracker.inMemoryCache of each process
  marks,    \* the collection processed_events
  view,     \* the collection bank_accounts_view: account |-> balance
  handled,  \* history: events some projector has completed on
  effects   \* history: how often an event has changed the view

vars == <<stored, up, seen, stage, cache, marks, view, handled, effects>>

InFlight == {"checking", "handling", "marking"}
Settled == {"done", "skipped", "failed"}

TypeOK ==
  /\ stored \in 0 .. Len(Feed)
  /\ up \subseteq Hosts
  /\ seen \in [Hosts -> 0 .. stored]
  /\ stage \in [Deliveries -> {"none", "gone"} \cup InFlight \cup Settled]
  /\ cache \in [Hosts -> SUBSET Keys]
  /\ marks \subseteq Keys
  /\ DOMAIN view \subseteq Accounts
  /\ \A a \in DOMAIN view : view[a] \in Int
  /\ handled \subseteq Events
  /\ effects \in [Events -> Nat]

Init ==
  /\ stored = 0
  /\ up = Hosts
  /\ seen = [i \in Hosts |-> 0]
  /\ stage = [d \in Deliveries |-> "none"]
  /\ cache = [i \in Hosts |-> {}]
  /\ marks = {}
  /\ view = <<>>
  /\ handled = {}
  /\ effects = [k \in Events |-> 0]

-----------------------------------------------------------------------------
(* What a projector does to the view.                                      *)

\* Seeded fault: the document is replaced.
RejectsNever(k) == FALSE

\* create() refuses an account that has a document.
Rejects(k) ==
  Feed[k].type = "AccountOpened" /\ Feed[k].account \in DOMAIN view

\* findByIdAndUpdate() of a document that is not there does nothing.
Effective(k) ==
  Feed[k].type = "AccountOpened" \/ Feed[k].account \in DOMAIN view

Projected(k) ==
  LET a == Feed[k].account
      n == Feed[k].amount
  IN [b \in DOMAIN view \cup {a} |->
        IF b # a THEN view[b]
        ELSE CASE Feed[k].type = "AccountOpened"  -> n
               [] Feed[k].type = "MoneyDeposited" -> view[a] + n
               [] Feed[k].type = "MoneyWithdrawn" -> view[a] - n]

\* The write of the projector of event k reaches the view.
Write(k) ==
  IF Effective(k)
  THEN /\ view' = Projected(k)
       /\ effects' = [effects EXCEPT ![k] = @ + 1]
  ELSE UNCHANGED <<view, effects>>

Goto(d, where) == stage' = [stage EXCEPT ![d] = where]

\* handle() begins: isProcessed looks into the cache and, on a miss, asks
\* the collection.
Begin(d) ==
  IF Key(d[2]) \in cache[d[1]] THEN Goto(d, "skipped") ELSE Goto(d, "checking")

-----------------------------------------------------------------------------

\* The write side inserts the next document.
Store ==
  /\ stored < Len(Feed)
  /\ stored' = stored + 1
  /\ UNCHANGED <<up, seen, stage, cache, marks, view, handled, effects>>

\* The change stream of process i emits the next document and the bridge
\* hands it to the handlers.
Deliver(i) ==
  /\ i \in up
  /\ seen[i] < stored
  /\ seen' = [seen EXCEPT ![i] = @ + 1]
  /\ Begin(<<i, seen[i] + 1, "stream">>)
  /\ UNCHANGED <<stored, up, cache, marks, view, handled, effects>>

\* An operator feeds a stored event to the handlers of process i again.
Replay(i, k) ==
  /\ i \in up
  /\ k <= stored
  /\ stage[<<i, k, "replay">>] = "none"
  /\ Begin(<<i, k, "replay">>)
  /\ UNCHANGED <<stored, up, seen, cache, marks, view, handled, effects>>

\* Seeded fault: isProcessed consults the cache only.
CacheOnly(d) ==
  /\ stage[d] = "checking"
  /\ Goto(d, "handling")
  /\ UNCHANGED <<stored, up, seen, cache, marks, view, handled, effects>>

\* isProcessed answers from the collection.
CheckAnswers(d) ==
  /\ stage[d] = "checking"
  /\ \/ /\ Key(d[2]) \in marks
        /\ cache' = [cache EXCEPT ![d[1]] = @ \cup {Key(d[2])}]
        /\ Goto(d, "skipped")
     \/ /\ Key(d[2]) \notin marks
        /\ Goto(d, "handling")
        /\ UNCHANGED cache
  /\ UNCHANGED <<stored, up, seen, marks, view, handled, effects>>

\* Seeded fault: the event is marked before the projector has run.
MarkFirst(d) ==
  /\ stage[d] = "handling"
  /\ \/ /\ Key(d[2]) \notin marks
        /\ marks' = marks \cup {Key(d[2])}
        /\ UNCHANGED <<stage, view, handled, effects>>
     \/ /\ Key(d[2]) \in marks
        /\ ~Rejects(d[2])
        /\ Write(d[2])
        /\ handled' = handled \cup {d[2]}
        /\ Goto(d, "done")
        /\ UNCHANGED marks
  /\ UNCHANGED <<stored, up, seen, cache>>

\* The projector's write succeeds, and markProcessed starts: the cache at
\* once, the collection when it answers.
Handle(d) ==
  /\ stage[d] = "handling"
  /\ ~Rejects(d[2])
  /\ Write(d[2])
  /\ handled' = handled \cup {d[2]}
  /\ cache' = [cache EXCEPT ![d[1]] = @ \cup {Key(d[2])}]
  /\ Goto(d, "marking")
  /\ UNCHANGED <<stored, up, seen, marks>>

\* The projector's create() meets an existing document: handle() rejects,
\* the event bus logs it and goes on.
HandleRejects(d) ==
  /\ stage[d] = "handling"
  /\ Rejects(d[2])
  /\ Goto(d, "failed")
  /\ UNCHANGED <<stored, up, seen, cache, marks, view, handled, effects>>

\* The mark is stored, or is there already.
Mark(d) ==
  /\ stage[d] = "marking"
  /\ marks' = marks \cup {Key(d[2])}
  /\ Goto(d, "done")
  /\ UNCHANGED <<stored, up, seen, cache, view, handled, effects>>

\* The check or the write rejects; the write may have been done.
HandleFails(d) ==
  /\ Faults
  /\ stage[d] \in {"checking", "handling"}
  /\ Goto(d, "failed")
  /\ \/ UNCHANGED <<view, effects>>
     \/ stage[d] = "handling" /\ ~Rejects(d[2]) /\ Write(d[2])
  /\ UNCHANGED <<stored, up, seen, cache, marks, handled>>

\* markProcessed fails, logs and resolves.
MarkFails(d) ==
  /\ Faults
  /\ stage[d] = "marking"
  /\ Goto(d, "done")
  /\ UNCHANGED <<stored, up, seen, cache, marks, view, handled, effects>>

\* Process i dies with its handlers and its cache.
Crash(i) ==
  /\ Crashes
  /\ i \in up
  /\ up' = up \ {i}
  /\ cache' = [cache EXCEPT ![i] = {}]
  /\ stage' = [d \in Deliveries |->
                 IF d \in On(i) /\ stage[d] \in InFlight
                 THEN "gone" ELSE stage[d]]
  /\ UNCHANGED <<stored, seen, marks, view, handled, effects>>

\* Seeded fault: the new change stream misses a document.
RestartLate(i) ==
  /\ i \notin up
  /\ up' = up \cup {i}
  /\ seen' = [seen EXCEPT ![i] = stored + 1]
  /\ UNCHANGED <<stored, stage, cache, marks, view, handled, effects>>

\* It starts again: watch() has no resume token and begins with what is
\* inserted from now on.
Restart(i) ==
  /\ i \notin up
  /\ up' = up \cup {i}
  /\ seen' = [seen EXCEPT ![i] = stored]
  /\ UNCHANGED <<stored, stage, cache, marks, view, handled, effects>>

\* The TTL index, or cleanup(), drops a record that has become old enough;
\* the caches keep theirs.
Expire ==
  /\ Expiry
  /\ \E key \in marks : marks' = marks \ {key}
  /\ UNCHANGED <<stored, up, seen, stage, cache, view, handled, effects>>

Advance(d) ==
  \/ CheckAnswers(d)
  \/ Handle(d)
  \/ HandleRejects(d)
  \/ Mark(d)

Next ==
  \/ Store
  \/ Expire
  \/ \E i \in Hosts : Deliver(i) \/ Crash(i) \/ Restart(i)
  \/ \E x \in Replayed : Replay(x[1], x[2])
  \/ \E d \in Deliveries : Advance(d) \/ HandleFails(d) \/ MarkFails(d)

Spec == Init /\ [][Next]_vars

\* The change stream keeps delivering and the database answers.
FairSpec ==
  /\ Spec
  /\ \A i \in Hosts : WF_vars(Deliver(i))
  /\ \A d \in Deliveries : WF_vars(Advance(d))
-----------------------------------------------------------------------------
(* Correctness.                                                            *)

\* The keys of the events some projector has completed on.
HandledKeys == {Key(k) : k \in handled}

\* Skipping is always justified: a record, in the collection or in any
\* cache, and every delivery that was skipped for it, comes after a
\* projector has completed on an event with its key, whatever crashed since
\* (decorator: handle first, mark afterwards).
SkippedOnlyIfHandled ==
  /\ marks \subseteq HandledKeys
  /\ \A i \in Hosts : cache[i] \subseteq HandledKeys
  /\ \A d \in Deliveries : stage[d] = "skipped" => Key(d[2]) \in HandledKeys

\* How often event k has changed the view or may still change it without
\* another check.
Exposure(k) ==
  effects[k] + Cardinality({d \in Of(k) : stage[d] = "handling"})

\* Once the key of an event is on record, no later delivery of it adds to what its
\* earlier deliveries do, in this process or in another (isProcessed).
RecordedIsFinal ==
  [][\A k \in Events : Key(k) \in marks \cap marks' =>
       Exposure(k)' <= Exposure(k)]_vars

\* An event stored while some process stays up is eventually handled, or a
\* projector reports that it failed, whatever the other processes did to
\* its record in the meantime, if no two events share a key: not even the
\* ones without an id, by the handler's name (EventsBridge, isProcessed,
\* markProcessed).
EventsAreHandled ==
  \A i \in Hosts : \A k \in Events :
    [](i \in up) =>
      (stored >= k ~> k \in handled \/ \E d \in Of(k) : stage[d] = "failed")

\* A rule of the feed, which the write side keeps: an account is opened by
\* its first event, and only by that.
OpeningsLead ==
  \A j, k \in Events :
    Feed[j].account = Feed[k].account /\ Feed[k].type = "AccountOpened" => k <= j

\* What one effect of event k adds to a balance.
Signed(k) ==
  IF Feed[k].type = "MoneyWithdrawn" THEN -Feed[k].amount ELSE Feed[k].amount

\* What the first n events come to on account a, each with its count.
SumOf(count, a, n) ==
  LET sum[k \in 0 .. Len(Feed)] ==
        IF k = 0 THEN 0
        ELSE sum[k - 1] + (IF Feed[k].account = a THEN count[k] * Signed(k) ELSE 0)
  IN sum[n]

Shown(a) == IF a \in DOMAIN view THEN view[a] ELSE 0

\* However the handlers of several processes interleave on one document, no
\* update is lost and none is partly done: a balance is off only by events
\* that have had an effect more than once, or none (create, $inc).
BalancesExplained ==
  \A a \in Accounts : Shown(a) = SumOf(effects, a, Len(Feed))

\* The inductive invariant: what is about to be marked has been handled.
MarksEarned ==
  \A d \in Deliveries : stage[d] = "marking" => d[2] \in handled

Inv == TypeOK /\ SkippedOnlyIfHandled /\ MarksEarned

-----------------------------------------------------------------------------
(* Claims of the documentation that the code does not meet.                *)

\* "This will only execute once per event" (bank-account.projector.ts:32).
AppliedOnce == \A k \in Events : effects[k] <= 1

AtRest ==
  /\ \A i \in Hosts : seen[i] = stored
  /\ \A d \in Deliveries : stage[d] \notin InFlight

\* The balance an account has after its first n events.
BalanceAfter(a, n) ==
  LET after[k \in 0 .. Len(Feed)] ==
        IF k = 0 THEN 0
        ELSE IF Feed[k].account # a THEN after[k - 1]
        ELSE CASE Feed[k].type = "AccountOpened"  -> Feed[k].amount
               [] Feed[k].type = "MoneyDeposited" -> after[k - 1] + Feed[k].amount
               [] Feed[k].type = "MoneyWithdrawn" -> after[k - 1] - Feed[k].amount
  IN after[n]

\* When everything delivered has been handled, "balance stays correct"
\* (docs/PHASE1_EXAMPLES.md:172).
BalancesCorrect ==
  AtRest => \A a \in DOMAIN view : view[a] = BalanceAfter(a, stored)
=============================================================================
