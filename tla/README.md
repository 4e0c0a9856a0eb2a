# Verification of the event-sourcing library and its bank application

TLA+ models of `@nestjslatam/es` (repository directory `libs/es/src`) and of the
sample application that uses it (`src/bank-account`). Paths below are relative to
the root of the repository.

## 1. The system

A NestJS library for event-sourced aggregates on MongoDB, and a bank built with
it. Commands load an aggregate from its events, decide, and append new events;
every process watches the event collection and projects what it sees into a read
model. Nothing coordinates the processes but the database.

```
 caller -> command handler -> rehydrator -> snapshot store (getLast, save)
              |                    '------> event store    (getEventsByStreamId)
              | apply, commit()
              v
          publisher.publishAll -> event store (persist: transaction, unique index)
                                        |
                                        v  change stream, in every process
                             events bridge -> event bus -> idempotent projector
                                                            |  isProcessed / markProcessed
                                                            v
                                                      bank_accounts_view
```

| Component | State | Operations | Hard behaviour | What makes it correct |
|---|---|---|---|---|
| Event store (`es-store/mongo-event-store.ts`, `schemas/event.schema.ts`) | event documents, unique on (aggregateId, position) | `persist`, `getEventsByStreamId` | concurrent transactions, duplicate keys, write conflicts, lost commit answers | streams without gaps; all or nothing; optimistic concurrency control |
| Snapshot store (`mongo-snapshot-store.ts`) | snapshot documents, no unique index | `save`, `getLast` | saved while others commit; failures | a snapshot is a state its stream went through |
| Rehydrators (`es-aggregate-rehydrator.ts`, `es-enhanced-aggregate-rehydrator.ts`) | the instance being loaded | `rehydrate` | two reads, one write, not in one transaction | the instance is a prefix of the stream with the right version |
| Publisher (`es-eventstore.publisher.ts`) | none | `publish`, `publishAll` | its promise is dropped by `commit()` | positions continue the stream |
| Snapshot strategies (`es-core/snapshot-strategy.interface.ts`) | last snapshot times | `shouldTakeSnapshot` | counts relative to a snapshot | streams do not outrun their snapshots |
| Bank aggregate, `Money`, command handlers | props of an account | open, deposit, withdraw | decided on an instance that may be stale | no overdraft; every stream can be replayed |
| Idempotency (`idempotent-event-handler.decorator.ts`, `processed-event-tracker.service.ts`) | cache per process; `processed_events` with TTL | `isProcessed`, `markProcessed`, `cleanup` | check, handle and mark are separate awaits; crashes between them | nothing is skipped unless an event with its key was handled; events whose key is on record gain no more effects |
| Events bridge (`events-bridge.ts`) | a change stream | bootstrap, change, shutdown | restart without resume token | each event reaches a handler |
| Projectors (`bank-account.projector.ts`) | `bank_accounts_view` | `handle` of three event types | handlers run concurrently | the balance of the events |
| Batched publisher (`batched-event-publisher.ts`) | batch, timer, shutdown flag | `publish`, `flush`, `onModuleDestroy` | timer against full batch against shutdown | nothing accepted is lost or published twice |
| Parallel processor (`parallel-event-processor.ts`) | the loop of each call | `processEvents` | one failure in a chunk; stragglers; a call repeated while they run | bounded concurrency; a failure stays in its chunk; every event of a resolved call is stored |
| Materialized views (`materialized-view.manager.ts`, `view-invalidation.strategy.ts`, `account-view.service.ts`) | cached views with TTL | `getOrCreate`, `invalidate*`, `cleanup` | invalidation while a factory runs | no view older than its last invalidation |
| Versioned upcasters (`enhanced-upcaster.registry.ts`) | upcasters and latest version per event type | `register`, `upcast` | registrations in any order; upcasters that throw or change the event in place | labels say what the attributes are; the chain stops only at gaps |
| Event formats (`domain-event-serializer.ts`, `-deserializer.ts`, `-cls.registry.ts`, `upcasting/`) | registered classes and upcasters | `serialize`, `deserialize`, `register`, `upcast` | several releases write and read one collection | old streams load in every later release |
| Sagas | none (streams) | `saga$` | reactions without idempotency | a transfer is completed once |
| In-memory store | a list | `persist`, `getEventsByStreamId` | ignores `fromVersion` | the contract of the event store |
| Wiring, controllers, queries | none | - | - | - |

`PROJECT.json` lists the same components with their status, and under `hazards`
every place where this code is hard to test. Two hazards have no property: that
events of one type on one account share a record of the tracker when they have no
ids, and that an event published alone has no position. In both the code does what
is hazardous, so a property could only fail; they are recorded as findings.

## 2. Modules

| Module | What it is |
|---|---|
| `Domain` | What the library asks of an application: event contents, which commands create, and which batches a command may commit on a history. |
| `EventLog` | Abstract: one append-only log per aggregate; a request takes effect at most once, in one step, on the very history it was decided on. This is "optimistic concurrency control" and "transaction support" as a state machine. |
| `EventStore` | Operators on the documents of one aggregate: positions claimed by a batch, the unique index, insert, query, latest snapshot. |
| `CommandFlow` | The write side: requests in several processes, cut at their awaits, with every failure the code handles. EXTENDS `EventStore`; refines `EventLog`. |
| `BankAccount`, `SnapshotStrategies` | Pure: balances, `Money`, what the commands decide; `EventCountSnapshotStrategy` and `TimeBasedSnapshotStrategy`. |
| `BankCommands` | Composition of `CommandFlow` with the bank's domain and strategy. |
| `SnapshotTimes` | `CompositeSnapshotStrategy` over both strategies, asked by the requests of one process, with the map of the time-based one. |
| `Projection` | The read side: bridges, idempotent handling and projectors in several processes. |
| `BatchedPublisher` | `BatchedEventStorePublisher` in one process: batch, timer, flushes and shutdown, down to the transaction of each event. |
| `MaterializedViews` | `MaterializedViewManager`, `AutoViewInvalidator` and the account views in one process. |
| `Publication` | Abstract: bulk publication over a unique index; a call that resolves finds every key of its list stored. |
| `ParallelProcessor` | `ParallelEventProcessor.processEvents`, several calls at once, down to the transaction of each event; refines `Publication`. |
| `Upcasting` | `EnhancedUpcasterRegistry`: registration, and the loop of `upcast()` turn by turn. |
| `EventFormats` | Serializer, class registry, upcaster list and deserializer in processes of several releases, on the store's read path and on the bridge's. |
| `MC...` | Instances for TLC. `MCLibrary` holds those of the four modules that stand alone: a behaviour is one of them. |
| `CommandFlowProofs`, `BankCommandsProofs`, `ProjectionProofs`, `BatchedPublisherProofs`, `MaterializedViewsProofs`, `ParallelProcessorProofs`, `LibraryProofs` | Theorems and their proofs. `LibraryProofs` is about `Upcasting`, `SnapshotTimes` and `EventFormats`. |
| `Induction` | Lemmas for proofs by induction, which the three of them that are about sums and lists cite. |

### CommandFlow

A request's `pc` names the await it is suspended at: `getLast`, `getEvents`,
`saving`, `insertMany`, `commit`; it ends as `committed`, `stale` (dropped),
`answered` (with an error) or `lost` (its process died). Everything between two
awaits is one action, as a Node process runs it: `LoadEvents`, for example, is the
answer of the query, the replay, the strategy's decision and, if no snapshot is
due, the domain method and `commit()` up to the start of the persist. An instance
is the sequence of events applied to it (`state`) and its `version`; all props are
functions of that sequence. `reply` records what the caller was told. It is set
to "ok" when the handler has decided, because `AggregateRoot.commit()` does not
return the promise of `publishAll`.

`persist()` has five outcomes: it commits; it meets a committed document
(`DuplicateKey`: error 11000, logged and swallowed); it meets a document of an
open transaction (`WriteConflict`: rethrown); something fails and nothing is
written (`PersistFails`); the commit happens but its answer is lost
(`CommitOutcomeUnknown`). A rethrown error rejects a promise that nobody awaits:
the process ends, and with it all requests it serves (`Killed`).

### Projection

A delivery is one call of a projector's decorated `handle()` in one process:
`checking` (the query of `isProcessed`), `handling` (the projector's write),
`marking` (the insert of `markProcessed`). The cache of a process is consulted and
filled without an await, so it is part of the neighbouring steps. Deliveries run
concurrently, since the event bus does not wait for a handler. A process that
restarts sees what is inserted from then on. A record is kept under the handler's
name, which the event type stands for since each has one projector, and the event's
id, or the aggregate's if the event has none (`Key`).

### BatchedPublisher

`batch`, `batchTimer` and `stopping` are the fields of the class; `scheduled` is the
pending timeout itself, kept apart from its handle because `publish` looks at the
handle only. A flush whose `Promise.all` is pending is a member of `flights`: its
events and its caller, which is the event whose `publish` filled the batch, the
timer, `onModuleDestroy` or somebody who called `flush`. A `publish` during
shutdown is a flight of one event. When an event's `persist` settles, the same
action settles the flight (`Answered`): with the last success, or with the first
failure, after which its other events go on alone. A flush of the timer that
rejects ends the process. Single events carry no position, so their key in the
unique index is the aggregate alone (`Taken`, `Contended`).

`leader` and `reply` record whose flush an event was part of and what its own
`publish` answered. A `publish` that leaves the batch incomplete resolves at once:
its caller learns nothing of the flush.

### MaterializedViews

A view's data is the set of events its factory found in the read model. A call of
`getOrCreate` is cut at the factory: `running` until it has read, `computed` until
the result is cached. An event reaches the read model (`Project`) and the
invalidator (`HandleEvent`) separately, because both are handlers of the event
bus. `overlapped`, `early` and the `missed` of an entry are history: they say which
invalidations came while a factory ran and which came before the projection. Time
is not counted: an entry with a time to live may expire at any moment.

### ParallelProcessor

`progress` and `offset` are the loop of each call: which chunk it is at, and how its
promise has settled. `course` follows the publication of each event through its own
transaction. `Promise.all` is in two places: `ChunkResolves` needs all events of the
chunk, `Fail` rejects the call with the first failure and leaves the others on their
way. As in `BatchedPublisher`, a published event has no position and its key is its
aggregate; a duplicate is swallowed by `persist()` and counts as published
(`Drop`), a write conflict is thrown. In `Publication` all this is: documents are
stored one key at a time, and a call resolves only when all its keys are there.

### Upcasting and EventFormats

`Upcasting` keeps two versions of an event apart: the label `eventVersion`, which the
registry goes by, and the layout its attributes really have, which its converters
need. `upcast()` awaits nothing, so registration and upcasting do not interleave; the
loop is still cut into turns, because an upcaster may throw in the middle and may
have changed the caller's object by then (`aliased`, `held`).

`EventFormats` starts and stops processes with releases of the application, each
with its classes and upcasters; they publish, load what any of them wrote (`Load`:
upcasters, in the order of their list, then the deserializer) and see it on their change streams (`Emit`: the
deserializer alone, whose throw ends the process). `outcome` records the last read.
How an application has to evolve for this to work is stated as three rules about its
releases: `NamesStay` (no class is given up), `NewestFirst` (of two classes of one
name the newer registers first: `register` ignores the second) and `UpcastersLead`
(every layout left behind has an upcaster, which leads to the present layout or to
an upcaster later in the list). TLC checks that the instance keeps them.

### SnapshotTimes

One step per request that asks the composite: `TakeSnapshot` or `NoSnapshot`, with
the short cut of `some()`. `lastSnapshotTimes` is the map of the time-based strategy;
`taken`, `timed` and `refusal` are history. `Forget` is a restart.

## 3. Runs

| Run | Instance | Shows |
|---|---|---|
| `command_flow` | 5 requests, 4 on one aggregate and one beside them, 2 processes, one request with the basic rehydrator, batches of 1 and 2 events, any strategy, all faults; 58 thousand states | gapless streams, faithful snapshots, exclusive open transactions, no false "stale", refinement of `EventLog`: its log only grows, so committed events never change |
| `bank_commands` | one account opened with 2; withdrawals of 2, 1 and -1, a deposit; threshold 2; faults and crashes, fairness | streams replay, snapshots keep up, races are won, requests end |
| `projection` | 2 processes, an opening and a deposit without ids, one replay; faults, crashes, expiry, fairness; 308 thousand states | a delivery is skipped only if an event with its key has been handled, an event whose key is on record gains no further effects, a balance is the sum of the effects that reached it, every event is handled or reported |
| `batched_publisher` | 4 events, 2 of one aggregate, batches of 3, all faults, fairness; 298 thousand states | nothing is stranded, flushed twice, left behind by a shutdown or lost without notice; a publish that waited and resolved has its whole batch in the store; accepted events are settled |
| `materialized_views` | 2 views of one account, 3 requests, 2 events, 2 strategies; 204 thousand states | a stale view is the result of a named race, and ends with its time to live |
| `library` | one of: versions 1 to 3 of an event type, and one beside it; two calls of 5 and 4 events in chunks of 2, with duplicates and all faults; two aggregates, clock to 6, loads of 1 to 4 events; 2 processes, 3 releases, 2 documents; 37 thousand states | upcasting keeps labels truthful and stops at gaps only; publications are bounded, contain failures, refine `Publication` and end; one snapshot per interval, none denied for longer; old streams load, and the bridge ends a process only for a newer release's event |
| `lost_acknowledged` | the bank, nothing fails | finding: an acknowledged command meets a duplicate key and is dropped, while its process lives on |
| `snapshot_at_head` | the bank, nothing fails | finding: a snapshot of the last event makes the account "not exist" |
| `stream_id` | the bank with the query as written | finding: the query filters on a field that no document has |
| `projection_once` | 2 processes, nothing fails | finding: an event is applied twice |
| `projection_balance` | 1 process, nothing fails | finding: a deposit overtakes the creation of its document and is lost |
| `batched_shutdown` | 3 events of 3 aggregates, nothing fails | finding: an orderly shutdown does not wait for the flush under way |

**Bounds.** Requests are finite sets and each runs once, so streams are as long as
the requests' batches; no counter needs a cap. Three requests on a stream are
enough for a winner, a loser and a late reader; the fourth lets a snapshot be
older than two later commits. Two aggregates show independence; two processes
show that a crash takes some requests and leaves others. Threshold 2 makes
snapshots happen, and happen again, within four events. In `Projection` two
events on one account are the shortest feed with an order to get wrong; crashes and
restarts are not counted, because a crashed process comes back to one of finitely
many states. In `BatchedPublisher` four events and batches of three give a full
flush, a timer flush and a single event racing each other, and two events of one
aggregate give both outcomes of the shared key; the process is not restarted,
because nothing survives it but documents. In `MaterializedViews` two requests for
one view give two factories that overtake each other; every event is projected and
invalidated once. In `library`, three versions are the shortest chain with a middle
in which an upcaster can be missing, throw, or be registered over two versions;
five events in chunks of two give a first, a middle and a last, shorter chunk; the
clock (`MaxTime`) covers an interval of 3 twice and loads (`MaxEventCount`) pass both
thresholds; three releases give a document that is upcast twice, and two documents
(`MaxDocuments`) one event name with and one without upcasters. Model values are not declared symmetric: requests differ by the
command they carry, and liveness is checked.

**Fairness.** `CommandFlow!FairSpec`: every awaited operation of a request
settles, since the drivers answer or time out. Faults and crashes have no
fairness, and neither has the arrival of requests. `Projection!FairSpec`: a change
stream that has something to deliver delivers it while its process is up, and the
operations of a delivery are answered. Restarts are not assumed.
`BatchedPublisher!FairSpec`: a pending timeout fires and the database answers; no
publish, manual flush or shutdown is assumed. `MaterializedViews!FairSpec`: a time
to live ends; factories may hang. `ParallelProcessor!ParallelFairness`: the database
answers, and a promise that can resolve does; no call is assumed to be made.

**Deadlock** checking is off in every run: when all requests have ended, or all
events have been handled, nothing is left to do.

**Mutants.** Each property of a passing run has a seeded fault (in the module,
marked "Seeded fault") under which TLC finds it violated: a missing unique index,
a snapshot version off by one, a swallowed write conflict, a mark before the work,
records without the handler's name, `race` or `allSettled` for `all`, upcasters in reverse, a lost
decorator.

## 4. What is proved

`CommandFlowProofs` holds for every set of aggregates,
requests and processes, every domain and strategy, and every combination of faults.

The inductive invariant is `Inv` of `CommandFlow`. The properties of the runs are
not inductive by themselves: between reading a stream and inserting into it, other
requests commit, so `Inv` says what a suspended request still knows.
`InstancesFaithful`: its instance is a prefix of the stream, labelled with its
length. `RehydrationsSound`: only changes rehydrate, and never from nothing.
`DecisionsSound`: what it wants to persist is what the handler decided on that
instance. From these and the unique index follows that an insert which the index
accepts was decided on the whole stream (`DuplicateMeansBehind`: a prefix that is
shorter than the stream claims a position that is taken), and from the write
conflicts that no two such transactions are open (`OpenTransactionsExclusive`).
Then a commit appends exactly at the end (`InsertedAtEnd`), which keeps streams
gapless and every older prefix faithful (`AppendGrows`).

- `Invariance`, and from it `TypeCorrectness`, `ContiguousStreams`,
  `FaithfulSnapshots`, `NoFalseAlarm`, `OptimisticConcurrency`;
- `Refinement`: `Spec => ImplementsEventLog`; a commit, answered or not, is
  `TakeEffect`, every other step stutters. The streams are the log, and a log
  only grows: no committed event is changed, overwritten or lost.

`BankCommandsProofs` adds the bank, for any accounts, commands and threshold.
`BankStreamsReplay` follows from the refinement: each commit appends one event that
the aggregate accepted on the whole stream (`DecisionsAreChecked`, from the guards of
the domain methods). Its hypothesis `BankDomain` says that the commands and their
outcomes are those of `BankAccount`. `AccountsOpenedOnce` follows in the same way: the
first event of a stream opens the account and no other does, although two requests
may both find it empty. To replay is not yet to be solvent, since it speaks of what
the handlers would do; `NeverOverdrawn` says what the balance is, at every version of
every account, and that each withdrawal was covered by the balance before it. It
needs the balance of a stream with one more event (`BalanceOfAppend`), an induction,
and that amounts are numbers (`AmountsAreNumbers`). `WithdrawalsDecidedByBalance` says what
becomes of a withdrawal of any amount: it fails just if the amount is negative or the
balance does not cover it. The guard of `withdraw()` refuses nothing its handler would
accept; negative amounts that the balance "covers" pass the guard and are refused by
`Money.create` in the handler. `BankSnapshotsKeepUp` needs a strengthening of
its own, `SnapshotsAligned`: snapshots are at multiples of the threshold, and every
multiple that a stream has left behind has one, because the request that commits
past it has loaded exactly that many events and saved first. Its hypothesis
`BankSnapshots` says that every handler uses the enhanced rehydrator with the
event-count strategy and that the snapshot collection answers; with failing saves
the property is not true.

`ProjectionProofs` holds for every feed, every finite set of processes and any
replays. Its invariant adds to `SkippedOnlyIfHandled` what is about to be recorded:
a delivery that is `marking` has been handled (`MarksEarned`). Together they give
`Invariance`, `TypeCorrectness` and `SkipsAreJustified`. These speak of keys;
`SkipsLoseNothing` says what they mean for events: if no two share a key, a delivery
is skipped only if its own event has been handled. `RecordsAreFinal` proves the
action property `RecordedIsFinal` with a count: the effects of an event plus its
deliveries between check and write. A write turns one of the latter into one of the
former at most, and only `CheckAnswers` can add to them, which a record prevents.

`NoUpdateLost` proves `BalancesExplained`: the balance of an account is the sum of its
events, each as often as `effects` says it changed the document. Every step but a write
leaves both sides alone; a write adds one effect to one event (`SumOfOneMore`), and
`create()` finds no document, so that all counts of the account are 0 before it.
`OnceMeansCorrect` adds what that sum is if each event counts once: the balance of the
stream, in whatever order the handlers came. So `BalancesCorrect`, which `projection_balance`
refutes, fails only by a wrong count, and the two ways to get one are the two findings
about the projection. Its hypothesis, that an account is opened by its first event and
only by that (`OpeningsLead`), is what `AccountsOpenedOnce` proves of the write side.

`BatchedPublisherProofs` holds for any events, aggregates and batch size. Its
invariant adds to the properties of the run who is waiting for what: a pending
flush knows its caller, the caller is part of it and waits (`FlightsKnown`), and an
event on its way to the store belongs to a pending flush or to one whose failure
has been told (`NobodyForgotten`). Since flushes are disjoint, an answer reaches one
caller only and cannot overwrite an earlier failure (`AnsweredKeeps`). `NoFalseSuccess`
is the converse: a `publish` that waited for its flush and resolved has all events of
the batch in the collection, or their keys taken there. It rests on `AnswersSound`, which
TLC checks first: a pending flush holds every event that was flushed for its caller,
because a publish that has begun never leads a second flush.

`MaterializedViewsProofs` holds for any views, events, strategies and requests. What
a cached entry may lack is what its factory's draft may lack when it is put
(`DraftsSound`), and a draft that is read now lacks only what the read model lacks,
which the invalidator has handled early or not at all (`EarlyIsKnown`).

`ParallelProcessorProofs` holds for any calls, lists, keys and concurrency. Its
invariant says where a loop is (`LoopInPlace`: behind it everything is published, its
chunk has started, beyond it nothing has) and that a key is stored once and contended
for by one open transaction (`KeysOnce`). `ConcurrencyBounded` follows because what is
on its way lies in one chunk; `FailuresContained` is part of the invariant;
`ParallelRefinement` maps a commit, acknowledged or not, to the storing of a free key,
the end of a loop to `Resolve`, and the first failure to `Reject`.

`LibraryProofs` has three parts. About `Upcasting` it holds for any types, versions and stored events. The invariant is
that of the loop (`LoopSound`: `version` is the version of `currentEvent`, and as long
as no upcaster has copied, `currentEvent` is the caller's object) together with the
registry's (`StepByStep`). From it `LabelsStayTruthful`, for types whose upcasters go
one version up, and `UpcastsReachTheirTarget`, for all.

About `SnapshotTimes`, it holds for any strategies, thresholds and interval. The inductive
invariant `TimesInv` ties the map of the time-based strategy to what it has answered:
its entry is the time of its last yes, and the composite's last yes is no older.
`OnePerIntervalAlways` then needs the difference of two times only, and
`DeniedOnlyIfRecentAlways` the turn of `some()` at which every member has said no.

About `EventFormats`, it holds for any releases, as long as they keep the rules each
theorem names. `FormatsInv` says that every document was published by some release, as
its newest class of that name. `OldStreamsAlwaysLoad` is an induction over the list of
upcasters: after the m-th, the layout is the reader's own, or there is an upcaster for
it later in the list; at the end there is none later. `EndedOnlyInDeployments` needs
`NamesStay` alone, and `OwnEventsAlwaysSound` `NewestFirst` alone.

**Induction.** `Induction` turns a proof by induction into one about a set of numbers:
the set of those for which the statement holds contains 0 and, with a number, its
successor; the least number outside it would be a contradiction (`SetInduction`, from
the least element of a set). `IteratesExist` gives, in the same way, the function a
recursion over a list defines. With them the recursive functions of the models
(`Balance`, `Migrated`, `SumOf`, `BalanceAfter`) unfold step by step.

**Assumptions.** Those of the constants in each module (`ConstantsAssumption`,
`ParallelAssumption`, `UpcastingAssumption`, `SnapshotTimesAssumption`,
`FormatsAssumption`, `ThresholdAssumption`): their types, and that processes and events
are finite sets; and the hypotheses that stand in the statements of theorems:
`BankDomain`, `BankSnapshots` and `AmountsAreNumbers` about the bank, `OpeningsLead` and
distinct keys (`SkipsLoseNothing`) about the feed, and the rules of `EventFormats`. TLC
evaluates `OpeningsLead` and the rules of the releases on the instances of its runs.

**Model-checked only.** The liveness properties (`RacesAreWon`, `RequestsEnd`,
`EventsAreHandled`, `AcceptedAreSettled`, `StaleDataExpires`, `PublicationsEnd`), which
need fairness and ENABLED and are out of the prover's reach. Every invariant, action
property and refinement of the passing runs is proved.

## 5. Assumptions about code outside the repository

- `@nestjslatam/ddd-lib`: `apply` runs the handler and increments the version;
  an event's `aggregateVersion` at commit is the version after it;
  `loadFromHistory` accepts what each of the two rehydrators hands it.
- `@nestjs/cqrs`: `AggregateRoot.commit()` calls `publishAll` and drops its result;
  the event bus runs handlers concurrently, and catches and logs their errors.
- Node: an unhandled rejection ends the process (`src/main.ts` installs no
  handler).
- MongoDB: a unique index answers a committed conflict with 11000 and an open one
  with a write conflict; transactions of a dead client are aborted; a change
  stream delivers in order.
- The event query is taken to filter on the aggregate's id (`StreamIdStored =
  TRUE`), and the strategy to be injected, in all runs but the ones that show
  otherwise. The findings say where the sources differ.
- Upcasters recognise the layout they are written for, and leave others alone, in
  `EventFormats`: the store applies all that support an event's name to every
  document, and no version is stored that could say which of them are due. In `Upcasting`, an upcaster that is given attributes of
  another layout produces garbage.
- Names, dates, currencies, logging and the layout of documents are left out.
  Commands that emit no event are left out: `commit()` is then without effect.
  A snapshot payload is taken to come back as it was saved. A missing snapshot
  store behaves like a strategy that always answers no. A process that dies
  between the storage of a snapshot and its acknowledgement ends, in the model,
  with the reply already given; no property but the claims looks at `reply`.

## 6. Not modelled

- Sagas: stateless mappings from events to commands. The transfer saga reacts to
  withdrawals with `metadata.transferId`, which no command attaches and the
  serializer would strip; it never emits a command, so there is nothing to check
  until one does.
- The in-memory store: one process, no await inside an operation, neither unique
  index nor `fromVersion`. It is for tests and examples.
- Wiring, controllers, queries, event classes without behaviour: no state that
  changes. What the wiring gets wrong (the strategy that is not injected) is a
  finding. With the `custom` driver, `EsModule` provides the store class twice, as
  itself and as `AbstractEventStore` (`useClass`, es.module.ts:62-66): a store with
  memory exists twice, which matters to none of the modelled components.
- `.agents`, `.github`, `.husky`, `scripts`: tooling.

## 7. Plan

All components with state of their own are modelled, and every safety property of
theirs is proved. Next, in this order:

1. The write side and the read side composed: the feed of `Projection` as the
   streams of `EventLog`. `AccountsOpenedOnce` and `OnceMeansCorrect` meet in it already;
   what is missing is that `BalanceAfter` of a feed is `Balance` of the stream in it.
2. An abstract specification for `BatchedPublisher`, with flushes as its calls:
   `NoFalseSuccess` and `NoSilentFailure` are its two halves.
3. A larger instance of `Projection` in which two deposits share a key.
