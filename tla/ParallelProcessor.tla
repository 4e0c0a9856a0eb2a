------------------------- MODULE ParallelProcessor -------------------------
(***************************************************************************)
(* ParallelEventProcessor: processEvents() cuts its list into chunks and  *)
(* publishes the events of a chunk at once, each in a transaction of its  *)
(* own; the next chunk starts when all of them have resolved.  The first  *)
(* rejection rejects the call, while the rest of the chunk goes on.       *)
(*                                                                         *)
(* Several calls may run, such as one that repeats a list which an        *)
(* earlier call has failed to publish, some of it still on its way.       *)
(***************************************************************************)
EXTENDS Naturals, Sequences, FiniteSets

CONSTANTS
  Calls,
  Keys,         \* the aggregates of the events: publish() stamps no
                \* position, so the aggregate is the key of the document
  Workload,     \* the list of each call
  Concurrency,
  StoreFaults   \* may the database refuse, or lose an answer?

ASSUME ParallelAssumption ==
  /\ Workload \in [Calls -> Seq(Keys)]
  /\ Concurrency \in Nat \ {0}
  /\ StoreFaults \in BOOLEAN

\* The publication of the i-th event of call c.
Items == UNION {{c} \X DOMAIN Workload[c] : c \in Calls}
KeyOf(x) == Workload[x[1]][x[2]]

VARIABLES
  progress,  \* "idle", "running", or how the call's promise has settled
  offset,    \* how many events come before the chunk a call is at
  course,    \* where each publication is
  docs       \* the documents in the collection

parallelVars == <<progress, offset, course, docs>>

OnItsWay == {"inserting", "committing"}
Published == {"persisted", "dropped"}

InitParallel ==
  /\ progress = [c \in Calls |-> "idle"]
  /\ offset = [c \in Calls |-> 0]
  /\ course = [x \in Items |-> "new"]
  /\ docs = {}

-----------------------------------------------------------------------------

\* Seeded fault: the last slice reaches an event too far.
ChunkTooLong(c, k) == {x \in Items : x[1] = c /\ k < x[2] /\ x[2] <= k + Concurrency + 1}

\* The slice of the list of c that starts after k events.
Chunk(c, k) == {x \in Items : x[1] = c /\ k < x[2] /\ x[2] <= k + Concurrency}

\* The loop of c goes on after its first k events, or has come to its end.
GoOn(c, k) ==
  /\ offset' = [offset EXCEPT ![c] = k]
  /\ progress' = [progress EXCEPT ![c] =
                    IF Chunk(c, k) = {} THEN "resolved" ELSE "running"]
  /\ course' = [x \in Items |-> IF x \in Chunk(c, k) THEN "inserting" ELSE course[x]]

\* processEvents() is called.
Process(c) ==
  /\ progress[c] = "idle"
  /\ GoOn(c, 0)
  /\ UNCHANGED docs

\* Seeded fault: Promise.allSettled() in place of Promise.all().
ChunkSettled(c) ==
  /\ progress[c] \in {"running", "rejected"}
  /\ \A x \in Chunk(c, offset[c]) : course[x] \notin OnItsWay
  /\ GoOn(c, offset[c] + Concurrency)
  /\ UNCHANGED docs

\* Seeded fault: a swallowed duplicate does not count as processed.
ChunkPersisted(c) ==
  /\ progress[c] = "running"
  /\ \A x \in Chunk(c, offset[c]) : course[x] = "persisted"
  /\ GoOn(c, offset[c] + Concurrency)
  /\ UNCHANGED docs

\* Promise.all() of the chunk resolves.
ChunkResolves(c) ==
  /\ progress[c] = "running"
  /\ \A x \in Chunk(c, offset[c]) : course[x] \in Published
  /\ GoOn(c, offset[c] + Concurrency)
  /\ UNCHANGED docs

Reaches(x, where) == course' = [course EXCEPT ![x] = where]

\* A document with the key of x is in the collection, or inserted by an
\* open transaction.
Occupied(x) == \E d \in docs : KeyOf(d) = KeyOf(x)
Disputed(x) == \E y \in Items : course[y] = "committing" /\ KeyOf(y) = KeyOf(x)

\* insertMany() succeeds.
Insert(x) ==
  /\ course[x] = "inserting"
  /\ ~Occupied(x) /\ ~Disputed(x)
  /\ Reaches(x, "committing")
  /\ UNCHANGED <<progress, offset, docs>>

\* insertMany() meets a document; persist() logs that and resolves.
Drop(x) ==
  /\ course[x] = "inserting"
  /\ Occupied(x)
  /\ Reaches(x, "dropped")
  /\ UNCHANGED <<progress, offset, docs>>

\* The transaction commits.
Persist(x) ==
  /\ course[x] = "committing"
  /\ docs' = docs \cup {x}
  /\ Reaches(x, "persisted")
  /\ UNCHANGED <<progress, offset>>

\* Seeded fault: the error is logged and not thrown again.
FailLogged(x) ==
  /\ course[x] \in OnItsWay
  /\ StoreFaults \/ (course[x] = "inserting" /\ Disputed(x) /\ ~Occupied(x))
  /\ Reaches(x, "persisted")
  /\ UNCHANGED <<progress, offset, docs>>

\* The publication rejects: a write conflict, a database that refuses, or
\* one that has committed and whose answer was lost.
Fail(x) ==
  /\ \/ /\ course[x] = "inserting"
        /\ Disputed(x) /\ ~Occupied(x)
        /\ UNCHANGED docs
     \/ /\ StoreFaults
        /\ course[x] \in OnItsWay
        /\ UNCHANGED docs
     \/ /\ StoreFaults
        /\ course[x] = "committing"
        /\ docs' = docs \cup {x}
  /\ Reaches(x, "failed")
  /\ progress' = [progress EXCEPT ![x[1]] = "rejected"]
  /\ UNCHANGED offset

Step(x) == Insert(x) \/ Drop(x) \/ Persist(x) \/ Fail(x)

NextParallel ==
  \/ \E c \in Calls : Process(c) \/ ChunkResolves(c)
  \/ \E x \in Items : Step(x)

ParallelSpec == InitParallel /\ [][NextParallel]_parallelVars

\* The database answers, and promises that have resolved are noticed.
ParallelFairness ==
  /\ \A c \in Calls : WF_parallelVars(ChunkResolves(c))
  /\ \A x \in Items : WF_parallelVars(Step(x))

-----------------------------------------------------------------------------
(* Correctness.                                                            *)

\* "Controlled concurrency": a call never has more than Concurrency events
\* on their way, the stragglers of a chunk that has failed included.
BoundedConcurrency ==
  \A c \in Calls :
    Cardinality({x \in Items : x[1] = c /\ course[x] \in OnItsWay}) <= Concurrency

\* A failure stays in its chunk: what comes before the chunk is published,
\* what comes after it is untouched, whatever its stragglers do, and the
\* call has rejected.
FailureContained ==
  \A x \in Items :
    /\ x[2] <= offset[x[1]] => course[x] \in Published
    /\ x[2] > offset[x[1]] + Concurrency => course[x] = "new"
    /\ course[x] = "failed" => progress[x[1]] = "rejected"

\* Refinement: stragglers and repeated calls never store a key twice, and a
\* call resolves only when every key of its list is in the collection.
ItemsOf(c) == {x \in Items : x[1] = c}

Bulk == INSTANCE Publication
          WITH Documents <- Items,
               DocumentsOf <- ItemsOf,
               answered <- [c \in Calls |->
                              IF progress[c] \in {"idle", "running"}
                              THEN "pending" ELSE progress[c]]

ImplementsPublication == Bulk!Spec

\* A call settles, and so does each of its events, under ParallelFairness.
PublicationsEnd ==
  /\ \A c \in Calls : progress[c] = "running" ~> progress[c] \in {"resolved", "rejected"}
  /\ \A x \in Items : course[x] \in OnItsWay ~> course[x] \notin OnItsWay

-----------------------------------------------------------------------------
(* The inductive invariant.                                                *)

ParallelTypeOK ==
  /\ progress \in [Calls -> {"idle", "running", "resolved", "rejected"}]
  /\ offset \in [Calls -> Nat]
  /\ course \in [Items -> {"new", "failed"} \cup OnItsWay \cup Published]
  /\ docs \subseteq Items

\* Nothing starts before its call, and a call that goes on has started its
\* chunk and nothing beyond; one that has resolved is at its end.
LoopInPlace ==
  \A x \in Items :
    /\ progress[x[1]] = "idle" => course[x] = "new"
    /\ progress[x[1]] = "resolved" => course[x] \in Published
    /\ progress[x[1]] # "idle" /\ x[2] <= offset[x[1]] + Concurrency => course[x] # "new"

\* Keys are stored once; a transaction that is open is alone on its key.
KeysOnce ==
  /\ \A d, e \in docs : KeyOf(d) = KeyOf(e) => d = e
  /\ \A x \in Items : course[x] \in Published => Occupied(x)
  /\ \A x \in Items : course[x] = "committing" =>
       ~Occupied(x) /\ \A y \in Items : course[y] = "committing" /\ KeyOf(y) = KeyOf(x) => y = x

ParallelInv ==
  ParallelTypeOK /\ FailureContained /\ LoopInPlace /\ KeysOnce
=============================================================================
