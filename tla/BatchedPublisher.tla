-------------------------- MODULE BatchedPublisher --------------------------
(***************************************************************************)
(* BatchedEventStorePublisher: events are collected in a batch, which is   *)
(* flushed when it is full, when a timer fires, by hand or on shutdown.    *)
(* A flush hands every event of the batch to EventStorePublisher.publish   *)
(* at once, each in a transaction of its own:                              *)
(*                                                                         *)
(*   new --> batched --> inserting --> committing --> persisted            *)
(*    '---------------------^  '--> dropped               '--> failed      *)
(*                                                                         *)
(* publish() stamps no position, so all events of an aggregate have the    *)
(* same key in the unique index.                                           *)
(***************************************************************************)
EXTENDS Naturals, Sequences, FiniteSets, Functions

CONSTANTS
  AggregateOf,  \* the aggregate of each event that is published
  BatchSize,
  Faults,       \* may the database refuse, or lose an answer?
  Crashes       \* may the process be killed?

Events == DOMAIN AggregateOf

\* Whose flush it is: the event whose publish() waits for it, the timer,
\* onModuleDestroy(), or somebody who called flush().
Callers == Events \cup {"timer", "destroy", "manual"}

ASSUME ConstantsAssumption ==
  /\ AggregateOf = [e \in Events |-> AggregateOf[e]]
  /\ IsFiniteSet(Events)
  /\ Events \cap {"none", "timer", "destroy", "manual"} = {}
  /\ BatchSize \in Nat \ {0}
  /\ {Faults, Crashes} \subseteq BOOLEAN

VARIABLES
  batch,       \* this.batch
  batchTimer,  \* this.batchTimer is set
  scheduled,   \* a timeout is pending
  stopping,    \* this.isShuttingDown
  closed,      \* onModuleDestroy() has settled
  up,          \* the process runs
  stage,       \* where each event is
  flights,     \* flushes whose Promise.all() is pending
  leader,      \* history: whose flush each event was part of
  reply,       \* what the publish() of each event has answered
  docs         \* the events in the collection

vars == <<batch, batchTimer, scheduled, stopping, closed, up, stage,
          flights, leader, reply, docs>>

InFlight == {"inserting", "committing"}
Stored == {"persisted", "dropped"}
Settled == Stored \cup {"failed", "lost"}

TypeOK ==
  /\ batch \in Seq(Events)
  /\ Len(batch) < BatchSize
  /\ {batchTimer, scheduled, stopping, closed, up} \subseteq BOOLEAN
  /\ stage \in [Events -> {"new", "batched"} \cup InFlight \cup Settled]
  /\ flights \subseteq [caller : Callers, events : SUBSET Events]
  /\ leader \in [Events -> Callers \cup {"none"}]
  /\ reply \in [Events -> {"none", "waiting", "ok", "error", "gone"}]
  /\ docs \subseteq Events

Init ==
  /\ batch = <<>>
  /\ batchTimer = FALSE
  /\ scheduled = FALSE
  /\ stopping = FALSE
  /\ closed = FALSE
  /\ up = TRUE
  /\ stage = [e \in Events |-> "new"]
  /\ flights = {}
  /\ leader = [e \in Events |-> "none"]
  /\ reply = [e \in Events |-> "none"]
  /\ docs = {}

-----------------------------------------------------------------------------
(* The pieces publish(), flush() and persist() are made of.                *)

\* c waits for the publication of all events of E.
Launch(c, E) ==
  /\ flights' = flights \cup {[caller |-> c, events |-> E]}
  /\ stage' = [e \in Events |-> IF e \in E THEN "inserting" ELSE stage[e]]
  /\ leader' = [e \in Events |-> IF e \in E THEN c ELSE leader[e]]

\* Seeded fault: the timer is cancelled, but this.batchTimer stays set.
FlushKeepsHandle(c, b) ==
  /\ batch' = <<>>
  /\ scheduled' = FALSE
  /\ Launch(c, Range(b))
  /\ UNCHANGED batchTimer

\* Seeded fault: the batch is emptied at the end, when it has been published.
FlushKeepsBatch(c, b) ==
  /\ batch' = b
  /\ batchTimer' = FALSE
  /\ scheduled' = FALSE
  /\ Launch(c, Range(b))

\* flush() by c when the batch is b: it does nothing if b is empty, and
\* otherwise takes the whole batch and cancels the timer.
Flush(c, b) ==
  /\ b # <<>>
  /\ batch' = <<>>
  /\ batchTimer' = FALSE
  /\ scheduled' = (scheduled /\ ~batchTimer)
  /\ Launch(c, Range(b))

Replied(e, what) == reply' = [reply EXCEPT ![e] = what]

\* Another document with the key of e is in the collection, or inserted by
\* an open transaction.
Taken(e) == \E d \in docs : AggregateOf[d] = AggregateOf[e]
Contended(e) ==
  \E d \in Events : stage[d] = "committing" /\ AggregateOf[d] = AggregateOf[e]

FlightOf(e) == {f \in flights : e \in f.events}

\* The flush of e ends, if one is still waited for; its caller is answered.
Answered(F, what) ==
  /\ flights' = flights \ F
  /\ reply' = [e \in Events |->
                 IF \E f \in F : f.caller = e THEN what ELSE reply[e]]
  /\ closed' = (closed \/ \E f \in F : f.caller = "destroy")

\* Seeded fault: flush() waits for the first event only (Promise.race).
ResolvedFirst(e, how) ==
  /\ stage' = [stage EXCEPT ![e] = how]
  /\ Answered(FlightOf(e), "ok")

\* persist(e) resolves.
Resolved(e, how) ==
  /\ stage' = [stage EXCEPT ![e] = how]
  /\ Answered({f \in FlightOf(e) :
                 \A d \in f.events \ {e} : stage[d] \in Stored}, "ok")

\* persist(e) rejects, with its transaction aborted or, if the answer to
\* the commit was lost, committed.
Rejected(e) ==
  \/ stage[e] = "inserting" /\ Contended(e) /\ ~Taken(e) /\ UNCHANGED docs
  \/ Faults /\ stage[e] \in InFlight /\ UNCHANGED docs
  \/ Faults /\ stage[e] = "committing" /\ docs' = docs \cup {e}

\* The process ends. What it had not handed over, or not committed, is lost.
Dies(S) ==
  /\ up' = FALSE
  /\ batch' = <<>>
  /\ batchTimer' = FALSE
  /\ scheduled' = FALSE
  /\ flights' = {}
  /\ stage' = [e \in Events |->
                 IF e \in S THEN "failed"
                 ELSE IF stage[e] \in InFlight \cup {"batched"} THEN "lost"
                 ELSE stage[e]]
  /\ reply' = [e \in Events |-> IF reply[e] = "waiting" THEN "gone" ELSE reply[e]]
  /\ UNCHANGED <<stopping, closed, leader>>

-----------------------------------------------------------------------------

\* publish(e) while the application shuts down: without the batch.
PublishDirectly(e) ==
  /\ up
  /\ stage[e] = "new"
  /\ stopping
  /\ Launch(e, {e})
  /\ Replied(e, "waiting")
  /\ UNCHANGED <<batch, batchTimer, scheduled, stopping, closed, up, docs>>

\* Seeded fault: a batch may be one event too long.
CollectTooLong(e) ==
  /\ up
  /\ stage[e] = "new"
  /\ ~stopping
  /\ batch' = Append(batch, e)
  /\ stage' = [stage EXCEPT ![e] = "batched"]
  /\ Replied(e, "ok")
  /\ batchTimer' = TRUE
  /\ scheduled' = (scheduled \/ ~batchTimer)
  /\ UNCHANGED <<stopping, closed, up, flights, leader, docs>>

\* Seeded fault: publish() does not look at this.isShuttingDown.
CollectWhileStopping(e) ==
  /\ up
  /\ stage[e] = "new"
  /\ Len(batch) + 1 < BatchSize
  /\ batch' = Append(batch, e)
  /\ stage' = [stage EXCEPT ![e] = "batched"]
  /\ Replied(e, "ok")
  /\ batchTimer' = TRUE
  /\ scheduled' = (scheduled \/ ~batchTimer)
  /\ UNCHANGED <<stopping, closed, up, flights, leader, docs>>

\* publish(e) leaves the batch incomplete: it makes sure that there is a
\* timer, and resolves.
Collect(e) ==
  /\ up
  /\ stage[e] = "new"
  /\ ~stopping
  /\ Len(batch) + 1 < BatchSize
  /\ batch' = Append(batch, e)
  /\ stage' = [stage EXCEPT ![e] = "batched"]
  /\ Replied(e, "ok")
  /\ batchTimer' = TRUE
  /\ scheduled' = (scheduled \/ ~batchTimer)
  /\ UNCHANGED <<stopping, closed, up, flights, leader, docs>>

\* publish(e) fills the batch and waits for its flush.
Fill(e) ==
  /\ up
  /\ stage[e] = "new"
  /\ ~stopping
  /\ Len(batch) + 1 >= BatchSize
  /\ Flush(e, Append(batch, e))
  /\ Replied(e, "waiting")
  /\ UNCHANGED <<stopping, closed, up, docs>>

\* The timer fires; nobody waits for the promise of this flush.
TimerFires ==
  /\ up
  /\ scheduled
  /\ Flush("timer", batch)
  /\ UNCHANGED <<stopping, closed, up, reply, docs>>

\* Somebody calls flush().
FlushByHand ==
  /\ up
  /\ Flush("manual", batch)
  /\ UNCHANGED <<stopping, closed, up, reply, docs>>

\* onModuleDestroy() with events waiting, and without.
ShutdownFlushes ==
  /\ up
  /\ ~stopping
  /\ stopping' = TRUE
  /\ Flush("destroy", batch)
  /\ UNCHANGED <<closed, up, reply, docs>>

ShutdownEmpty ==
  /\ up
  /\ ~stopping
  /\ stopping' = TRUE
  /\ batch = <<>>
  /\ closed' = TRUE
  /\ UNCHANGED <<batch, batchTimer, scheduled, up, stage, flights, leader, reply, docs>>

\* insertMany() of e succeeds; the transaction is open.
Insert(e) ==
  /\ stage[e] = "inserting"
  /\ ~Taken(e)
  /\ ~Contended(e)
  /\ stage' = [stage EXCEPT ![e] = "committing"]
  /\ UNCHANGED <<batch, batchTimer, scheduled, stopping, closed, up, flights,
                 leader, reply, docs>>

\* insertMany() meets a committed document: persist() logs it and resolves.
DuplicateKey(e) ==
  /\ stage[e] = "inserting"
  /\ Taken(e)
  /\ Resolved(e, "dropped")
  /\ UNCHANGED <<batch, batchTimer, scheduled, stopping, up, leader, docs>>

\* The transaction of e commits.
Commit(e) ==
  /\ stage[e] = "committing"
  /\ docs' = docs \cup {e}
  /\ Resolved(e, "persisted")
  /\ UNCHANGED <<batch, batchTimer, scheduled, stopping, up, leader>>

\* Seeded fault: flush() logs an error and does not throw it again.
RejectSwallowed(e) ==
  /\ Rejected(e)
  /\ stage' = [stage EXCEPT ![e] = "failed"]
  /\ Answered(FlightOf(e), "ok")
  /\ UNCHANGED <<batch, batchTimer, scheduled, stopping, up, leader>>

\* persist(e) rejects, and with it the flush e is part of; the other events
\* of the flush go on.
Reject(e) ==
  /\ Rejected(e)
  /\ \A f \in FlightOf(e) : f.caller # "timer"
  /\ stage' = [stage EXCEPT ![e] = "failed"]
  /\ Answered(FlightOf(e), "error")
  /\ UNCHANGED <<batch, batchTimer, scheduled, stopping, up, leader>>

\* A flush of the timer rejects: nobody handles it, and Node ends the
\* process.
RejectUnhandled(e) ==
  /\ Rejected(e)
  /\ \E f \in FlightOf(e) : f.caller = "timer"
  /\ Dies({e})

\* The application has shut down and the process exits.
Exit ==
  /\ up
  /\ closed
  /\ Dies({})
  /\ UNCHANGED docs

\* The process is killed.
Crash ==
  /\ Crashes
  /\ up
  /\ Dies({})
  /\ UNCHANGED docs

Proceed(e) == Insert(e) \/ DuplicateKey(e) \/ Commit(e) \/ Reject(e) \/ RejectUnhandled(e)

Next ==
  \/ \E e \in Events : PublishDirectly(e) \/ Collect(e) \/ Fill(e) \/ Proceed(e)
  \/ TimerFires \/ FlushByHand \/ ShutdownFlushes \/ ShutdownEmpty
  \/ Exit \/ Crash

Spec == Init /\ [][Next]_vars

\* A pending timeout fires and the database answers. Nobody need publish,
\* flush by hand or shut down.
FairSpec ==
  /\ Spec
  /\ WF_vars(TimerFires)
  /\ \A e \in Events : WF_vars(Proceed(e))
-----------------------------------------------------------------------------
(* Correctness.                                                            *)

\* Events never wait without a timeout that will flush them, and the handle
\* publish() looks at never outlives its timeout: neither a full batch, a
\* manual flush nor the early return of flush() leaves a stale handle that
\* would keep publish() from arming the timer.
NothingStranded ==
  /\ batch # <<>> => scheduled
  /\ batchTimer <=> scheduled

\* Every event that was accepted is in one place: once in the batch, or in
\* one flush, or done with. No event is published by two flushes, although
\* the timer, a full batch and the shutdown race for it (flush takes the
\* batch before its first await).
InOnePlace ==
  /\ \A i \in DOMAIN batch : stage[batch[i]] = "batched"
  /\ IsInjective(batch)
  /\ \A e \in Events : stage[e] = "batched" => e \in Range(batch)
  /\ \A f \in flights : \A e \in f.events : stage[e] \in InFlight \cup Stored
  /\ \A f, g \in flights : f # g => f.events \cap g.events = {}

\* When a shutdown has begun, no event is left behind in the batch or gets
\* into it any more: what onModuleDestroy() flushed is all there was.
ShutdownDrains == stopping => batch = <<>>

\* Somebody knows that the flush of e went wrong.
Told(e) ==
  \/ ~up
  \/ leader[e] \in Events /\ reply[leader[e]] = "error"
  \/ leader[e] = "destroy" /\ closed
  \/ leader[e] = "manual" /\ FlightOf(e) = {}

\* An event that could not be stored is reported: to the publish() that
\* flushed it, or by the end of the process, of onModuleDestroy() or of the
\* flush() somebody called, even though its own publish() has long resolved
\* and Promise.all() tells only of the first of several failures.
FailuresAreNoticed == \A e \in Events : stage[e] = "failed" => Told(e)

\* A publish() that waited for its flush and has resolved answers for all of
\* it: each event of the batch is in the collection, or has lost its key to
\* one that is, whoever else flushes, rejects or shuts down meanwhile
\* (Promise.all).
ResolvedMeansStored ==
  \A e, d \in Events :
    leader[e] = e /\ reply[e] = "ok" /\ leader[d] = e => stage[d] \in Stored /\ Taken(d)

\* An event that was handed in leaves the batch and its transaction, while
\* the process lives, without anybody publishing or flushing again (timer).
AcceptedAreSettled ==
  \A e \in Events : stage[e] # "new" ~> stage[e] \in Settled

\* What FailuresAreNoticed and InOnePlace rest on: a pending flush knows its
\* caller, who waits, and an event on its way to the store belongs to a
\* pending flush or to one whose failure has been told.
FlightsKnown ==
  \A f \in flights :
    /\ \A e \in f.events : leader[e] = f.caller
    /\ f.caller \in Events => f.caller \in f.events /\ reply[f.caller] = "waiting"

NobodyForgotten ==
  \A e \in Events :
    /\ leader[e] \in Events => stage[leader[e]] # "new"
    /\ stage[e] \in InFlight => Told(e) \/ FlightOf(e) # {}

Inv ==
  /\ TypeOK
  /\ NothingStranded /\ InOnePlace /\ ShutdownDrains /\ FailuresAreNoticed
  /\ FlightsKnown /\ NobodyForgotten

\* What ResolvedMeansStored rests on besides: a publish() waits for all that
\* was flushed with it, and what is done with has its key in the collection.
AnswersSound ==
  /\ \A f \in flights : f.caller \in Events =>
       \A d \in Events : leader[d] = f.caller => d \in f.events
  /\ \A d \in Events : stage[d] \in Stored => Taken(d)

-----------------------------------------------------------------------------
(* A claim of the documentation that the code does not meet.               *)

\* With a shutdown that runs to its end, no event is lost whose publish()
\* has resolved: "Ensure graceful shutdown to avoid data loss"
\* (docs/PHASE2_IMPLEMENTATION.md:263).
NothingLost == \A e \in Events : reply[e] = "ok" => stage[e] # "lost"
=============================================================================
