---------------------------- MODULE CommandFlow ----------------------------
(***************************************************************************)
(* The write side: command handlers, the two rehydrators, the publisher   *)
(* and the Mongo event and snapshot stores, as concurrent requests served *)
(* by one or more Node processes.  A request is cut at its awaits; what   *)
(* runs between two awaits is one action.                                  *)
(*                                                                         *)
(*   Receive ---------------------------------------- creating ----.      *)
(*      |                                                           v      *)
(*   getLast --> getEvents --[strategy says so]--> saving --> (decide)    *)
(*                   |                                         ^   |      *)
(*                   '-----------------------------------------'   v      *)
(*                        insertMany --> commit --> committed             *)
(*                                                                         *)
(* The handler resolves (the caller is told "ok") when it has decided:    *)
(* commit() does not return the promise of the persist it starts.         *)
(***************************************************************************)
EXTENDS EventStore

CONSTANTS
  Aggregates, Requests, Hosts,
  Target,          \* the aggregate a request is about
  Command,         \* the command it carries
  Host,            \* the process that serves it
  Basic,           \* requests whose handler uses AggregateRehydrator
  Strategy(_),     \* number of events loaded |-> answers of the strategy
  StreamIdStored,  \* do event documents carry the field find() filters on?
  SnapshotFaults,  \* may the snapshot collection fail?
  StoreFaults,     \* may the event collection fail?
  Crashes          \* may a process die at any moment?

ASSUME ConstantsAssumption ==
  /\ Target \in [Requests -> Aggregates]
  /\ Host \in [Requests -> Hosts]
  /\ Basic \subseteq Requests
  /\ {StreamIdStored, SnapshotFaults, StoreFaults, Crashes} \subseteq BOOLEAN

VARIABLES
  events,     \* event documents of each aggregate, by position
  snapshots,  \* snapshot documents of each aggregate
  pc,         \* where each request is
  state,      \* the history of the aggregate instance a request holds
  version,    \* the version of that instance
  batch,      \* the uncommitted events of that instance
  reply       \* what the caller was told

vars == <<events, snapshots, pc, state, version, batch, reply>>

Waiting == {"getLast", "getEvents", "saving", "insertMany", "commit"}
Terminal == {"committed", "stale", "answered", "lost"}
Replies == {"none", "ok", "rejected", "notFound", "failed"}

Snapshot == [version : Nat, payload : Seq(Data)]

TypeOK ==
  /\ DOMAIN events = Aggregates
  /\ \A a \in Aggregates : IsStream(events[a])
  /\ DOMAIN snapshots = Aggregates
  /\ \A a \in Aggregates : \A x \in snapshots[a] : x \in Snapshot
  /\ pc \in [Requests -> {"idle"} \cup Waiting \cup Terminal]
  /\ state \in [Requests -> Seq(Data)]
  /\ version \in [Requests -> Nat]
  /\ batch \in [Requests -> Seq(Data)]
  /\ reply \in [Requests -> Replies]

Init ==
  /\ events = [a \in Aggregates |-> <<>>]
  /\ snapshots = [a \in Aggregates |-> {}]
  /\ pc = [r \in Requests |-> "idle"]
  /\ state = [r \in Requests |-> <<>>]
  /\ version = [r \in Requests |-> 0]
  /\ batch = [r \in Requests |-> <<>>]
  /\ reply = [r \in Requests |-> "none"]

-----------------------------------------------------------------------------
(* Steps shared by the actions.                                            *)

Goto(r, where) == pc' = [pc EXCEPT ![r] = where]

\* r holds an aggregate instance with history h at version v.
Hold(r, h, v) ==
  /\ state' = [state EXCEPT ![r] = h]
  /\ version' = [version EXCEPT ![r] = v]

\* The handler rejects: the caller sees the error, nothing is published.
Answer(r, error) ==
  /\ Goto(r, "answered")
  /\ reply' = [reply EXCEPT ![r] = error]
  /\ UNCHANGED batch

\* The rest of the handler, from the loaded aggregate (h, v) to its end:
\* the domain method, and commit(), whose promise nobody awaits.
Decide(r, h, v) ==
  /\ Hold(r, h, v)
  /\ \/ /\ Decisions(h, Command[r]) = {}
        /\ Answer(r, "rejected")
     \/ \E b \in Decisions(h, Command[r]) :
          /\ batch' = [batch EXCEPT ![r] = b]
          /\ Goto(r, "insertMany")
          /\ reply' = [reply EXCEPT ![r] = "ok"]

\* Process i dies: what it was serving is gone, and the server aborts its
\* open transactions.
Killed(i) ==
  [q \in Requests |-> IF Host[q] = i /\ pc[q] \in Waiting
                      THEN "lost" ELSE pc[q]]

\* The persist of r rejects.  commit() dropped the promise, so this is an
\* unhandled rejection, which ends the process.
RejectUnhandled(r) ==
  /\ pc' = Killed(Host[r])
  /\ UNCHANGED <<events, snapshots, state, version, batch, reply>>

\* What the event query returns for an instance at version v.
Found(a, v) == IF StreamIdStored THEN Read(events[a], v) ELSE <<>>

\* Another open transaction has written a document at a position r claims.
Contended(r) ==
  \E q \in Requests \ {r} :
    /\ pc[q] = "commit"
    /\ Target[q] = Target[r]
    /\ Claimed(version[q], batch[q]) \cap Claimed(version[r], batch[r]) # {}

\* Seeded fault: inserts outside a transaction, of which the first of
\* several is lost.
VisibleInPart(r) ==
  LET lost == IF Len(batch[r]) > 1 THEN 1 ELSE 0 IN
  [events EXCEPT ![Target[r]] =
     Inserted(@, version[r] + lost, SubSeq(batch[r], 1 + lost, Len(batch[r])))]

\* The documents of r become visible.
Visible(r) ==
  [events EXCEPT ![Target[r]] = Inserted(@, version[r], batch[r])]

-----------------------------------------------------------------------------
(* A request arrives.  OpenAccount builds a new aggregate at once; the     *)
(* other handlers rehydrate first.                                         *)
Receive(r) ==
  /\ pc[r] = "idle"
  /\ \/ /\ Command[r] \in Creating
        /\ Decide(r, <<>>, 0)
     \/ /\ Command[r] \notin Creating
        /\ Goto(r, "getLast")
        /\ UNCHANGED <<state, version, batch, reply>>
  /\ UNCHANGED <<events, snapshots>>

\* getLast() answers: the instance starts from a snapshot, or from scratch.
LoadSnapshot(r) ==
  /\ pc[r] = "getLast"
  /\ \/ /\ snapshots[Target[r]] = {}
        /\ Hold(r, <<>>, 0)
     \/ \E x \in Latest(snapshots[Target[r]]) : Hold(r, x.payload, x.version)
  /\ Goto(r, "getEvents")
  /\ UNCHANGED <<events, snapshots, batch, reply>>

\* getLast() rejects: EnhancedAggregateRehydrator goes on without snapshot,
\* AggregateRehydrator lets the error reach the caller.
LoadSnapshotFails(r) ==
  /\ SnapshotFaults
  /\ pc[r] = "getLast"
  /\ \/ r \in Basic /\ Answer(r, "failed")
     \/ /\ r \notin Basic
        /\ Goto(r, "getEvents")
        /\ UNCHANGED <<batch, reply>>
  /\ UNCHANGED <<events, snapshots, state, version>>

\* getEventsByStreamId() answers and the instance is brought up to date;
\* an empty result means, to the store, that there is no such aggregate.
LoadEvents(r) ==
  LET found == Found(Target[r], version[r])
      h == state[r] \o found
      v == version[r] + Len(found)
  IN
  /\ pc[r] = "getEvents"
  /\ \/ /\ found = <<>>
        /\ Answer(r, "notFound")
        /\ UNCHANGED <<state, version>>
     \/ /\ found # <<>>
        /\ r \notin Basic
        /\ TRUE \in Strategy(Len(found))
        /\ Hold(r, h, v)
        /\ Goto(r, "saving")
        /\ UNCHANGED <<batch, reply>>
     \/ /\ found # <<>>
        /\ r \in Basic \/ FALSE \in Strategy(Len(found))
        /\ Decide(r, h, v)
  /\ UNCHANGED <<events, snapshots>>

\* The event query rejects: so does the handler.
LoadEventsFails(r) ==
  /\ StoreFaults
  /\ pc[r] = "getEvents"
  /\ Answer(r, "failed")
  /\ UNCHANGED <<events, snapshots, state, version>>

\* Seeded faults: the instance lost its version; the version counts an
\* event too many.
EnvelopeUnversioned(r) == [payload |-> state[r]]
EnvelopeAhead(r) == [version |-> version[r] + 1, payload |-> state[r]]

\* The snapshot document EnhancedAggregateRehydrator takes of its instance.
Envelope(r) == [version |-> version[r], payload |-> state[r]]

\* save() of the snapshot succeeds, and the handler resumes.
SaveSnapshot(r) ==
  /\ pc[r] = "saving"
  /\ snapshots' = [snapshots EXCEPT ![Target[r]] = @ \cup {Envelope(r)}]
  /\ Decide(r, state[r], version[r])
  /\ UNCHANGED events

\* save() fails: the error is logged and the handler resumes all the same.
SaveSnapshotFails(r) ==
  /\ SnapshotFaults
  /\ pc[r] = "saving"
  /\ Decide(r, state[r], version[r])
  /\ UNCHANGED <<events, snapshots>>

\* Seeded fault: two open transactions don't see each other's inserts.
InsertManyBlind(r) ==
  /\ pc[r] = "insertMany"
  /\ ~Duplicate(events[Target[r]], version[r], batch[r])
  /\ Goto(r, "commit")
  /\ UNCHANGED <<events, snapshots, state, version, batch, reply>>

\* insertMany() succeeds inside the transaction.
InsertMany(r) ==
  /\ pc[r] = "insertMany"
  /\ ~Duplicate(events[Target[r]], version[r], batch[r])
  /\ ~Contended(r)
  /\ Goto(r, "commit")
  /\ UNCHANGED <<events, snapshots, state, version, batch, reply>>

\* Seeded fault: the insert is retried with the same positions.
DuplicateKeyRetried(r) ==
  /\ pc[r] = "insertMany"
  /\ Duplicate(events[Target[r]], version[r], batch[r])
  /\ UNCHANGED vars

\* insertMany() meets a committed document at its position: error 11000,
\* which persist() logs ("Aggregate is stale") and swallows.
DuplicateKey(r) ==
  /\ pc[r] = "insertMany"
  /\ Duplicate(events[Target[r]], version[r], batch[r])
  /\ Goto(r, "stale")
  /\ UNCHANGED <<events, snapshots, state, version, batch, reply>>

\* Seeded fault: a write conflict is taken for a duplicate and swallowed.
WriteConflictSwallowed(r) ==
  /\ pc[r] = "insertMany"
  /\ Contended(r)
  /\ Goto(r, "stale")
  /\ UNCHANGED <<events, snapshots, state, version, batch, reply>>

\* insertMany() meets a document of another open transaction: a write
\* conflict, which persist() rethrows.
WriteConflict(r) ==
  /\ pc[r] = "insertMany"
  /\ Contended(r)
  /\ RejectUnhandled(r)

\* commitTransaction() succeeds: the batch becomes visible as a whole.
CommitTransaction(r) ==
  /\ pc[r] = "commit"
  /\ events' = Visible(r)
  /\ Goto(r, "committed")
  /\ UNCHANGED <<snapshots, state, version, batch, reply>>

\* startSession, insertMany or commitTransaction rejects and nothing was
\* written.
PersistFails(r) ==
  /\ StoreFaults
  /\ pc[r] \in {"insertMany", "commit"}
  /\ RejectUnhandled(r)

\* commitTransaction() rejects although the server did commit.
CommitOutcomeUnknown(r) ==
  /\ StoreFaults
  /\ pc[r] = "commit"
  /\ events' = Visible(r)
  /\ pc' = [Killed(Host[r]) EXCEPT ![r] = "committed"]
  /\ UNCHANGED <<snapshots, state, version, batch, reply>>

\* Process i dies on its own, with requests under way.
Crash(i) ==
  /\ Crashes
  /\ \E q \in Requests : Host[q] = i /\ pc[q] \in Waiting
  /\ pc' = Killed(i)
  /\ UNCHANGED <<events, snapshots, state, version, batch, reply>>

\* The next step of a request that is under way, when nothing breaks.
Proceed(r) ==
  \/ LoadSnapshot(r)
  \/ LoadEvents(r)
  \/ SaveSnapshot(r)
  \/ InsertMany(r)
  \/ DuplicateKey(r)
  \/ WriteConflict(r)
  \/ CommitTransaction(r)

Break(r) ==
  \/ LoadSnapshotFails(r)
  \/ LoadEventsFails(r)
  \/ SaveSnapshotFails(r)
  \/ PersistFails(r)
  \/ CommitOutcomeUnknown(r)

Next ==
  \/ \E r \in Requests : Receive(r) \/ Proceed(r) \/ Break(r)
  \/ \E i \in Hosts : Crash(i)

Spec == Init /\ [][Next]_vars

\* Every awaited operation settles: the drivers answer or time out.
FairSpec == Spec /\ \A r \in Requests : WF_vars(Proceed(r))
-----------------------------------------------------------------------------
(* Safety.                                                                 *)

\* The event documents of an aggregate are numbered 1, 2, ... without a
\* gap, however many processes append: what (aggregateId, position) and
\* aggregateVersion together are for (event.schema.ts, publishAll).
StreamsContiguous == \A a \in Aggregates : Gapless(events[a])

\* x is the state of the aggregate after exactly the first x.version
\* events of its stream s.
Faithful(x, s) ==
  /\ x.version = Len(x.payload)
  /\ x.version <= Len(s)
  /\ \A i \in 1 .. x.version : x.payload[i] = s[i]

\* A snapshot, taken in the middle of other requests' commits, is always a
\* state the stream went through, labelled with its position: no snapshot
\* can resurrect a decision that lost (takeSnapshot, reconstructAggregate).
SnapshotsFaithful ==
  \A a \in Aggregates : \A x \in snapshots[a] : Faithful(x, events[a])

\* "Aggregate is stale" is never a false alarm: a batch is dropped only
\* when another request's event is durable at the position it claimed, so
\* two contenders can't drop each other (persist, error 11000).
DroppedOnlyForARival ==
  \A r \in Requests :
    pc[r] = "stale" =>
      Claimed(version[r], batch[r]) \cap DOMAIN events[Target[r]] # {}

\* An open transaction was decided on the whole of its stream, and no other
\* is open on that stream: the read at the start of the handler and the
\* unique index at its end add up to optimistic concurrency control.
OpenTransactionsExclusive ==
  \A r \in Requests :
    pc[r] = "commit" =>
      /\ state[r] = events[Target[r]]
      /\ \A q \in Requests :
           pc[q] = "commit" /\ Target[q] = Target[r] => q = r

\* Refinement: the streams are the log of EventLog, and the requests that
\* took effect are those whose transaction committed.
Log == INSTANCE EventLog
         WITH log <- events,
              applied <- {r \in Requests : pc[r] = "committed"}

ImplementsEventLog == Log!Spec

-----------------------------------------------------------------------------
(* The inductive invariant: the safety properties and, between a read and  *)
(* the insert that relies on it, what a request holds.                     *)

\* Every instance is a state its stream went through.
InstancesFaithful ==
  \A r \in Requests : Faithful(Envelope(r), events[Target[r]])

\* Only changes rehydrate, and only from a stream that has events.
RehydrationsSound ==
  \A r \in Requests :
    pc[r] \in {"getLast", "getEvents", "saving"} =>
      /\ Command[r] \notin Creating
      /\ pc[r] = "saving" => state[r] # <<>>

\* What is being persisted is what the handler decided on its instance.
DecisionsSound ==
  \A r \in Requests :
    pc[r] \in {"insertMany", "commit", "stale"} =>
      /\ Admissible(state[r], Command[r])
      /\ batch[r] \in Decisions(state[r], Command[r])

Inv ==
  /\ TypeOK
  /\ StreamsContiguous
  /\ SnapshotsFaithful
  /\ InstancesFaithful
  /\ RehydrationsSound
  /\ DecisionsSound
  /\ OpenTransactionsExclusive
  /\ DroppedOnlyForARival

-----------------------------------------------------------------------------
(* Liveness, under FairSpec.                                               *)

\* Whoever wins, a race for a position is won: once a request has decided,
\* the first position it claims is filled by some request unless its
\* process dies (insertMany, commitTransaction).
RacesAreWon ==
  \A r \in Requests :
    pc[r] = "insertMany" ~>
      \/ version[r] + 1 \in DOMAIN events[Target[r]]
      \/ pc[r] = "lost"

\* No request waits for ever: it is stored, dropped, answered with an
\* error, or dies with its process.
RequestsEnd ==
  \A r \in Requests : pc[r] \in Waiting ~> pc[r] \in Terminal

-----------------------------------------------------------------------------
(* Claims of the documentation that the code does not meet.                *)

\* A request that was answered without an error, and whose persist is over
\* in a process that has not died, has its events in the stream: "optimistic
\* concurrency control" (README) as a caller understands it.
AcknowledgedStored ==
  \A r \in Requests :
    reply[r] = "ok" /\ pc[r] \in Terminal \ {"lost"} => pc[r] = "committed"

\* "Aggregate with id ... does not exist" is said of no aggregate that has
\* events (mongo-event-store.ts:64).
NotFoundIsTruthful ==
  [][\A r \in Requests :
       reply[r] = "none" /\ reply'[r] = "notFound"
         => events[Target[r]] = <<>>]_vars
=============================================================================
