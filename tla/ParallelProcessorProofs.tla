---------------------- MODULE ParallelProcessorProofs ----------------------
(***************************************************************************)
(* Proofs about ParallelProcessor, for any calls, lists, keys and          *)
(* concurrency: failures stay in their chunk, concurrency stays bounded,   *)
(* and bulk publication is implemented.                                    *)
(***************************************************************************)
EXTENDS ParallelProcessor, FiniteSetTheorems, TLAPS

LEMMA ItemFacts ==
  ASSUME NEW x \in Items
  PROVE  /\ x = <<x[1], x[2]>> /\ x[1] \in Calls
         /\ Len(Workload[x[1]]) \in Nat /\ x[2] \in 1 .. Len(Workload[x[1]])
BY ParallelAssumption DEF ParallelAssumption, Items

LEMMA ItemIntro ==
  ASSUME NEW c \in Calls, NEW i \in Nat, 0 < i, i <= Len(Workload[c])
  PROVE  <<c, i>> \in Items
<1>1. i \in DOMAIN Workload[c]
  BY ParallelAssumption DEF ParallelAssumption
<1> QED
  BY <1>1 DEF Items

\* A call whose next chunk is empty has come to the end of its list.
LEMMA EmptyChunkIsEnd ==
  ASSUME NEW c \in Calls, NEW k \in Nat, Chunk(c, k) = {},
         NEW x \in Items, x[1] = c
  PROVE  x[2] <= k
<1> SUFFICES ASSUME x[2] > k PROVE FALSE
  BY ItemFacts
<1>1. x[2] \in Nat /\ x[2] <= Len(Workload[c]) /\ Len(Workload[c]) \in Nat
  BY ItemFacts
<1>2. <<c, k + 1>> \in Items
  BY <1>1, ItemIntro
<1>3. k < k + 1 /\ k + 1 <= k + Concurrency
  BY ParallelAssumption DEF ParallelAssumption
<1>4. <<c, k + 1>> \in Chunk(c, k)
  BY <1>2, <1>3 DEF Chunk
<1> QED
  BY <1>4

\* A chunk has at most Concurrency events.
LEMMA ChunksAreSmall ==
  ASSUME NEW c \in Calls, NEW k \in Nat
  PROVE  IsFiniteSet(Chunk(c, k)) /\ Cardinality(Chunk(c, k)) <= Concurrency
<1> DEFINE positions == k + 1 .. k + Concurrency
           index == [x \in Chunk(c, k) |-> x[2]]
<1>1. IsFiniteSet(positions) /\ Cardinality(positions) = Concurrency
  BY ParallelAssumption, FS_Interval DEF ParallelAssumption
<1>2. ASSUME NEW x \in Chunk(c, k)
      PROVE  x = <<c, x[2]>> /\ x[2] \in positions
  BY <1>2, ItemFacts, ParallelAssumption DEF Chunk, ParallelAssumption
<1>3. index \in Injection(Chunk(c, k), positions)
  BY <1>2 DEF Injection, IsInjective
<1> HIDE DEF positions, index
<1> QED
  BY <1>1, <1>3, FS_Injection

-----------------------------------------------------------------------------

LEMMA ParallelInitially == InitParallel => ParallelInv
<1> SUFFICES ASSUME InitParallel PROVE ParallelInv
  OBVIOUS
<1>1. ASSUME NEW x \in Items
      PROVE  /\ course[x] = "new" /\ progress[x[1]] = "idle"
             /\ ~(x[2] <= offset[x[1]])
  BY ItemFacts DEF InitParallel
<1>2. ParallelTypeOK
  BY DEF InitParallel, ParallelTypeOK
<1>3. FailureContained /\ LoopInPlace
  BY <1>1 DEF FailureContained, LoopInPlace
<1>4. KeysOnce
  BY <1>1 DEF InitParallel, KeysOnce, Published
<1> QED
  BY <1>2, <1>3, <1>4 DEF ParallelInv

\* A call starts its next chunk: its own events before that chunk are
\* published, and those of the chunk and after it are new.
LEMMA GoOnKeeps ==
  ASSUME ParallelInv,
         NEW c \in Calls, NEW k \in Nat, GoOn(c, k), UNCHANGED docs,
         \A x \in ItemsOf(c) :
           /\ x[2] <= k => course[x] \in Published
           /\ x[2] > k => course[x] = "new"
  PROVE  ParallelInv'
<1> USE ParallelAssumption DEF ParallelAssumption
<1>0. ParallelTypeOK /\ FailureContained /\ LoopInPlace /\ KeysOnce
  BY DEF ParallelInv
<1>1. /\ offset' = [offset EXCEPT ![c] = k]
      /\ progress' = [progress EXCEPT ![c] =
                        IF Chunk(c, k) = {} THEN "resolved" ELSE "running"]
      /\ course' = [x \in Items |-> IF x \in Chunk(c, k) THEN "inserting" ELSE course[x]]
      /\ docs' = docs
  BY DEF GoOn
<1>2. ParallelTypeOK'
  BY <1>0, <1>1 DEF ParallelTypeOK, OnItsWay
<1>3. ASSUME NEW x \in Items
      PROVE  /\ x[1] # c => /\ course'[x] = course[x]
                            /\ progress'[x[1]] = progress[x[1]]
                            /\ offset'[x[1]] = offset[x[1]]
             /\ x[1] = c => /\ offset'[x[1]] = k
                            /\ progress'[x[1]] \in {"running", "resolved"}
                            /\ progress'[x[1]] = "resolved" => Chunk(c, k) = {}
                            /\ x[2] <= k => course'[x] = course[x] /\ course[x] \in Published
                            /\ x[2] > k /\ x[2] <= k + Concurrency => course'[x] = "inserting"
                            /\ x[2] > k + Concurrency => course'[x] = "new"
  <2>1. x[1] \in Calls /\ x[2] \in Nat
    BY ItemFacts
  <2>2. CASE x[1] # c
    BY <1>0, <1>1, <2>1, <2>2 DEF ParallelTypeOK, Chunk
  <2>3. CASE x[1] = c
    BY <1>0, <1>1, <2>1, <2>3 DEF ParallelTypeOK, Chunk, ItemsOf
  <2> QED
    BY <2>2, <2>3
<1>4. FailureContained' /\ LoopInPlace'
  <2> SUFFICES ASSUME NEW x \in Items
               PROVE  /\ x[2] <= offset'[x[1]] => course'[x] \in Published
                      /\ x[2] > offset'[x[1]] + Concurrency => course'[x] = "new"
                      /\ course'[x] = "failed" => progress'[x[1]] = "rejected"
                      /\ progress'[x[1]] = "idle" => course'[x] = "new"
                      /\ progress'[x[1]] = "resolved" => course'[x] \in Published
                      /\ progress'[x[1]] # "idle" /\ x[2] <= offset'[x[1]] + Concurrency
                           => course'[x] # "new"
    BY DEF FailureContained, LoopInPlace
  <2>1. x[1] \in Calls /\ x[2] \in Nat
    BY ItemFacts
  <2>2. CASE x[1] # c
    BY <1>0, <1>3, <2>2 DEF FailureContained, LoopInPlace
  <2>3. CASE x[1] = c
    <3>1. progress'[x[1]] = "resolved" => x[2] <= k
      BY <1>3, <2>3, EmptyChunkIsEnd
    <3> QED
      BY <1>3, <2>1, <2>3, <3>1 DEF Published
  <2> QED
    BY <2>2, <2>3
<1>5. KeysOnce'
  <2>1. ASSUME NEW x \in Items
        PROVE  /\ course'[x] = "committing" => course[x] = "committing"
               /\ course'[x] \in Published => course[x] \in Published
    BY <1>1 DEF Published
  <2> QED
    BY <1>0, <1>1, <2>1 DEF KeysOnce, Occupied
<1> QED
  BY <1>2, <1>4, <1>5 DEF ParallelInv

LEMMA ProcessKeeps ==
  ASSUME ParallelInv, NEW c \in Calls, Process(c)
  PROVE  ParallelInv'
<1>1. ASSUME NEW x \in ItemsOf(c)
      PROVE  ~(x[2] <= 0) /\ course[x] = "new"
  BY ItemFacts DEF Process, ParallelInv, LoopInPlace, ItemsOf
<1> QED
  BY <1>1, GoOnKeeps DEF Process

LEMMA ChunkResolvesKeeps ==
  ASSUME ParallelInv, NEW c \in Calls, ChunkResolves(c)
  PROVE  ParallelInv'
<1> USE ParallelAssumption DEF ParallelAssumption
<1>1. offset[c] \in Nat /\ offset[c] + Concurrency \in Nat
  BY DEF ParallelInv, ParallelTypeOK
<1>2. ASSUME NEW x \in ItemsOf(c)
      PROVE  /\ x[2] <= offset[c] + Concurrency => course[x] \in Published
             /\ x[2] > offset[c] + Concurrency => course[x] = "new"
  <2>1. x \in Items /\ x[1] = c /\ x[2] \in Nat
    BY ItemFacts DEF ItemsOf
  <2>2. CASE x[2] <= offset[c]
    BY <1>1, <2>1, <2>2 DEF ParallelInv, FailureContained
  <2>3. CASE x \in Chunk(c, offset[c])
    BY <1>1, <2>1, <2>3 DEF ChunkResolves, Chunk
  <2>4. CASE x[2] > offset[c] + Concurrency
    BY <1>1, <2>1, <2>4 DEF ParallelInv, FailureContained
  <2> QED
    BY <1>1, <2>1, <2>2, <2>3, <2>4 DEF Chunk
<1> QED
  BY <1>1, <1>2, GoOnKeeps DEF ChunkResolves

\* What a step of one publication leaves of the loops: it stays on its way
\* or settles, and rejects its call if it fails.
LEMMA StepKeepsLoops ==
  ASSUME ParallelInv, NEW x \in Items, Step(x)
  PROVE  ParallelTypeOK' /\ FailureContained' /\ LoopInPlace'
<1>0. ParallelTypeOK /\ FailureContained /\ LoopInPlace
  BY DEF ParallelInv
<1>1. PICK where \in {"committing", "dropped", "persisted", "failed"} :
        /\ course' = [course EXCEPT ![x] = where]
        /\ IF where = "failed"
           THEN progress' = [progress EXCEPT ![x[1]] = "rejected"]
           ELSE progress' = progress
  BY DEF Step, Insert, Drop, Persist, Fail, Reaches
<1>2. course[x] \in OnItsWay /\ offset' = offset /\ docs' \in {docs, docs \cup {x}}
  BY DEF Step, Insert, Drop, Persist, Fail, OnItsWay
<1>3. x[1] \in Calls
  BY ItemFacts
<1>4. ParallelTypeOK'
  BY <1>0, <1>1, <1>2, <1>3 DEF ParallelTypeOK, OnItsWay, Published
<1>5. ASSUME NEW y \in Items
      PROVE  /\ y # x => course'[y] = course[y]
             /\ y = x => course'[y] \in {"committing", "dropped", "persisted", "failed"}
             /\ progress'[y[1]] \in {progress[y[1]], "rejected"}
             /\ y = x /\ course'[y] = "failed" => progress'[y[1]] = "rejected"
  BY <1>0, <1>1, <1>3, ItemFacts DEF ParallelTypeOK
<1>6. \A y \in Items : ~(course[y] \in OnItsWay /\ course[y] \in Published \cup {"new", "failed"})
  BY DEF OnItsWay, Published
<1>7. /\ ~(x[2] <= offset[x[1]])
      /\ ~(x[2] > offset[x[1]] + Concurrency)
      /\ progress[x[1]] \notin {"idle", "resolved"}
  BY <1>0, <1>2, <1>6 DEF FailureContained, LoopInPlace
<1>8. FailureContained' /\ LoopInPlace'
  <2> SUFFICES ASSUME NEW y \in Items
               PROVE  /\ y[2] <= offset[y[1]] => course'[y] \in Published
                      /\ y[2] > offset[y[1]] + Concurrency => course'[y] = "new"
                      /\ course'[y] = "failed" => progress'[y[1]] = "rejected"
                      /\ progress'[y[1]] = "idle" => course'[y] = "new"
                      /\ progress'[y[1]] = "resolved" => course'[y] \in Published
                      /\ progress'[y[1]] # "idle" /\ y[2] <= offset[y[1]] + Concurrency
                           => course'[y] # "new"
    BY <1>2 DEF FailureContained, LoopInPlace
  <2>1. CASE y = x
    BY <1>5, <1>7, <2>1
  <2>2. CASE y # x
    <3>1. course'[y] = course[y] /\ progress'[y[1]] \in {progress[y[1]], "rejected"}
      BY <1>5, <2>2
    <3>2. progress'[y[1]] # progress[y[1]] => progress[y[1]] # "idle"
      BY <1>0, <1>1, <1>3, <1>7, ItemFacts DEF ParallelTypeOK
    <3> QED
      BY <1>0, <3>1, <3>2 DEF FailureContained, LoopInPlace
  <2> QED
    BY <2>1, <2>2
<1> QED
  BY <1>4, <1>8

\* The unique index: a step stores a key only if no document has it.
LEMMA StepKeepsKeys ==
  ASSUME ParallelInv, NEW x \in Items, Step(x)
  PROVE  KeysOnce'
<1>0. ParallelTypeOK /\ KeysOnce
  BY DEF ParallelInv
<1>1. CASE Insert(x)
  <2>1. /\ course' = [course EXCEPT ![x] = "committing"] /\ docs' = docs
        /\ ~Occupied(x) /\ ~Disputed(x)
    BY <1>1 DEF Insert, Reaches
  <2>2. \A y \in Items : course'[y] = IF y = x THEN "committing" ELSE course[y]
    BY <1>0, <2>1 DEF ParallelTypeOK
  <2>3. \A y \in Items : course'[y] \in Published => course[y] \in Published
    BY <2>2 DEF Published
  <2>4. ASSUME NEW y \in Items, course'[y] = "committing",
               NEW z \in Items, course'[z] = "committing", KeyOf(z) = KeyOf(y)
        PROVE  z = y
    BY <1>0, <2>1, <2>2, <2>4 DEF KeysOnce, Disputed
  <2>5. \A y \in Items : course'[y] = "committing" => ~Occupied(y)
    BY <1>0, <2>1, <2>2 DEF KeysOnce
  <2> QED
    BY <1>0, <2>1, <2>3, <2>4, <2>5 DEF KeysOnce, Occupied
<1>2. CASE Drop(x)
  <2>1. course' = [course EXCEPT ![x] = "dropped"] /\ docs' = docs /\ Occupied(x)
    BY <1>2 DEF Drop, Reaches
  <2>2. \A y \in Items : course'[y] = IF y = x THEN "dropped" ELSE course[y]
    BY <1>0, <2>1 DEF ParallelTypeOK
  <2> QED
    BY <1>0, <2>1, <2>2 DEF KeysOnce, Occupied
<1>3. CASE (Persist(x) \/ Fail(x)) /\ docs' = docs \cup {x}
  <2>1. PICK where \in {"persisted", "failed"} : course' = [course EXCEPT ![x] = where]
    BY <1>3 DEF Persist, Fail, Reaches
  <2>2. \A y \in Items : course'[y] = IF y = x THEN where ELSE course[y]
    BY <1>0, <2>1 DEF ParallelTypeOK
  <2>3. CASE course[x] = "committing"
    <3>1. ~Occupied(x) /\ \A y \in Items : course[y] = "committing" /\ KeyOf(y) = KeyOf(x) => y = x
      BY <1>0, <2>3 DEF KeysOnce
    <3>2. \A d, e \in docs' : KeyOf(d) = KeyOf(e) => d = e
      BY <1>0, <1>3, <3>1 DEF KeysOnce, Occupied
    <3>3. \A y \in Items : course'[y] \in Published => Occupied(y)'
      BY <1>0, <1>3, <2>2 DEF KeysOnce, Occupied
    <3>4. ASSUME NEW y \in Items, course'[y] = "committing"
          PROVE  ~Occupied(y)' /\ \A z \in Items : course'[z] = "committing" /\ KeyOf(z) = KeyOf(y) => z = y
      <4>1. y # x /\ course[y] = "committing"
        BY <2>2, <3>4
      <4>2. KeyOf(y) # KeyOf(x)
        BY <3>1, <4>1
      <4> QED
        BY <1>0, <1>3, <2>2, <4>1, <4>2 DEF KeysOnce, Occupied
    <3> QED
      BY <3>2, <3>3, <3>4 DEF KeysOnce, Occupied
  <2>4. CASE course[x] # "committing"
    <3>1. docs' = docs
      BY <1>3, <2>4 DEF Persist, Fail
    <3>2. course[x] = "inserting" /\ Fail(x)
      BY <1>3, <2>4 DEF Persist, Fail, OnItsWay
    <3>3. course' = [course EXCEPT ![x] = "failed"]
      BY <3>2 DEF Fail, Reaches
    <3>4. \A y \in Items : course'[y] = IF y = x THEN "failed" ELSE course[y]
      BY <1>0, <3>3 DEF ParallelTypeOK
    <3>5. "failed" \notin Published
      BY DEF Published
    <3> QED
      BY <1>0, <3>1, <3>4, <3>5 DEF KeysOnce, Occupied
  <2> QED
    BY <2>3, <2>4
<1>4. CASE Fail(x) /\ docs' = docs
  <2>1. course' = [course EXCEPT ![x] = "failed"]
    BY <1>4 DEF Fail, Reaches
  <2>2. \A y \in Items : course'[y] = IF y = x THEN "failed" ELSE course[y]
    BY <1>0, <2>1 DEF ParallelTypeOK
  <2>3. "failed" \notin Published
    BY DEF Published
  <2> QED
    BY <1>0, <1>4, <2>2, <2>3 DEF KeysOnce, Occupied
<1> QED
  BY <1>1, <1>2, <1>3, <1>4 DEF Step, Persist, Fail

-----------------------------------------------------------------------------

THEOREM ParallelInvariance == ParallelSpec => []ParallelInv
<1>1. ParallelInv /\ [NextParallel]_parallelVars => ParallelInv'
  <2> SUFFICES ASSUME ParallelInv, [NextParallel]_parallelVars
               PROVE  ParallelInv'
    OBVIOUS
  <2>1. ASSUME NEW c \in Calls, Process(c) \/ ChunkResolves(c)
        PROVE  ParallelInv'
    BY <2>1, ProcessKeeps, ChunkResolvesKeeps
  <2>2. ASSUME NEW x \in Items, Step(x)
        PROVE  ParallelInv'
    BY <2>2, StepKeepsLoops, StepKeepsKeys DEF ParallelInv
  <2>3. CASE UNCHANGED parallelVars
    BY <2>3 DEF parallelVars, ParallelInv, ParallelTypeOK, FailureContained, LoopInPlace,
       KeysOnce, Occupied
  <2> QED
    BY <2>1, <2>2, <2>3 DEF NextParallel
<1> QED
  BY <1>1, ParallelInitially, PTL DEF ParallelSpec

\* A failure never reaches beyond its chunk, and always rejects its call.
THEOREM FailuresContained == ParallelSpec => []FailureContained
<1>1. ParallelInv => FailureContained
  BY DEF ParallelInv
<1> QED
  BY <1>1, ParallelInvariance, PTL

\* No call has more than Concurrency events on their way, before or after
\* a failure.
THEOREM ConcurrencyBounded == ParallelSpec => []BoundedConcurrency
<1>1. ASSUME ParallelInv PROVE BoundedConcurrency
  <2> SUFFICES ASSUME NEW c \in Calls
               PROVE  Cardinality({x \in Items : x[1] = c /\ course[x] \in OnItsWay}) <= Concurrency
    BY DEF BoundedConcurrency
  <2> DEFINE busy == {x \in Items : x[1] = c /\ course[x] \in OnItsWay}
  <2>1. offset[c] \in Nat /\ Concurrency \in Nat
    BY <1>1, ParallelAssumption DEF ParallelAssumption, ParallelInv, ParallelTypeOK
  <2>2. busy \in SUBSET Chunk(c, offset[c])
    <3> SUFFICES ASSUME NEW x \in busy
                 PROVE  x \in Chunk(c, offset[c])
      OBVIOUS
    <3>1. x \in Items /\ x[1] = c /\ x[2] \in Nat /\ course[x] \in OnItsWay
      BY ItemFacts
    <3>2. course[x] \notin Published /\ course[x] # "new"
      BY <3>1 DEF OnItsWay, Published
    <3>3. ~(x[2] <= offset[c]) /\ ~(x[2] > offset[c] + Concurrency)
      BY <1>1, <3>1, <3>2 DEF ParallelInv, FailureContained
    <3> QED
      BY <2>1, <3>1, <3>3 DEF Chunk
  <2>3. IsFiniteSet(Chunk(c, offset[c])) /\ Cardinality(Chunk(c, offset[c])) <= Concurrency
    BY <2>1, ChunksAreSmall
  <2> HIDE DEF busy
  <2>4. IsFiniteSet(busy) /\ Cardinality(busy) <= Cardinality(Chunk(c, offset[c]))
    BY <2>2, <2>3, FS_Subset
  <2>5. Cardinality(busy) \in Nat /\ Cardinality(Chunk(c, offset[c])) \in Nat
    BY <2>3, <2>4, FS_CardinalityType
  <2>6. Cardinality(busy) <= Concurrency
    BY <2>1, <2>3, <2>4, <2>5
  <2> QED
    BY <2>6 DEF busy
<1> QED
  BY <1>1, ParallelInvariance, PTL

-----------------------------------------------------------------------------

\* What the caller of c has been answered.
Answer(c) == IF progress[c] \in {"idle", "running"} THEN "pending" ELSE progress[c]

LEMMA FreeIsUnoccupied ==
  ASSUME NEW x PROVE Bulk!Free(x) <=> ~Occupied(x)
BY DEF Bulk!Free, Occupied

\* The loop goes on: nothing the caller sees, or the call resolves with all
\* its keys in the collection.
LEMMA GoOnRefines ==
  ASSUME ParallelInv,
         NEW c \in Calls, NEW k \in Nat, GoOn(c, k), UNCHANGED docs,
         progress[c] \in {"idle", "running"},
         \A x \in ItemsOf(c) : x[2] <= k => course[x] \in Published
  PROVE  [Bulk!Next]_Bulk!vars
<1>1. progress \in [Calls -> {"idle", "running", "resolved", "rejected"}] /\ KeysOnce
  BY DEF ParallelInv, ParallelTypeOK
<1>2. progress' = [progress EXCEPT ![c] =
                     IF Chunk(c, k) = {} THEN "resolved" ELSE "running"]
  BY DEF GoOn
<1>3. CASE Chunk(c, k) # {}
  <2>1. \A d \in Calls : Answer(d)' = Answer(d)
    BY <1>1, <1>2, <1>3 DEF Answer
  <2> QED
    BY <2>1 DEF Bulk!vars, Answer
<1>4. CASE Chunk(c, k) = {}
  <2>1. /\ Answer(c) = "pending" /\ Answer(c)' = "resolved"
        /\ \A d \in Calls \ {c} : Answer(d)' = Answer(d)
    BY <1>1, <1>2, <1>4 DEF Answer
  <2>2. \A x \in ItemsOf(c) : Occupied(x)
    BY <1>1, <1>4, EmptyChunkIsEnd DEF ItemsOf, KeysOnce
  <2>3. \A x \in ItemsOf(c) : ~Bulk!Free(x)
    BY <2>2, FreeIsUnoccupied
  <2>4. Bulk!Resolve(c)
    BY <2>1, <2>3 DEF Bulk!Resolve, Answer
  <2> QED
    BY <2>4 DEF Bulk!Next
<1> QED
  BY <1>3, <1>4

\* Steps of one publication: a key that was free is stored, a call rejects,
\* or nobody notices.
LEMMA StepRefines ==
  ASSUME ParallelInv, NEW x \in Items, Step(x)
  PROVE  [Bulk!Next]_Bulk!vars
<1>0. ParallelTypeOK /\ LoopInPlace /\ KeysOnce
  BY DEF ParallelInv
<1>1. x[1] \in Calls /\ x \in ItemsOf(x[1])
  BY ItemFacts DEF ItemsOf
<1>2. course[x] = "committing" => Bulk!Free(x)
  BY <1>0, FreeIsUnoccupied DEF KeysOnce
<1>3. CASE Insert(x) \/ Drop(x)
  BY <1>3 DEF Insert, Drop, Bulk!vars
<1>4. CASE Persist(x)
  <2>1. docs' = docs \cup {x} /\ progress' = progress /\ course[x] = "committing"
    BY <1>4 DEF Persist
  <2>2. Bulk!Store(x)
    BY <1>2, <2>1 DEF Bulk!Store
  <2> QED
    BY <2>2 DEF Bulk!Next
<1>5. CASE Fail(x)
  <2>1. /\ progress' = [progress EXCEPT ![x[1]] = "rejected"]
        /\ docs' = docs \/ (docs' = docs \cup {x} /\ course[x] = "committing")
        /\ course[x] \in OnItsWay
    BY <1>5 DEF Fail, OnItsWay
  <2>2. progress[x[1]] \in {"running", "rejected"}
    BY <1>0, <1>1, <2>1 DEF ParallelTypeOK, LoopInPlace, OnItsWay, Published
  <2>3. Answer(x[1])' = "rejected" /\ \A d \in Calls \ {x[1]} : Answer(d)' = Answer(d)
    BY <1>0, <1>1, <2>1 DEF ParallelTypeOK, Answer
  <2>4. CASE progress[x[1]] = "running"
    <3>1. Answer(x[1]) = "pending"
      BY <2>4 DEF Answer
    <3>2. Bulk!Reject(x[1])
      BY <1>1, <1>2, <2>1, <2>3, <3>1 DEF Bulk!Reject, Answer
    <3> QED
      BY <1>1, <3>2 DEF Bulk!Next
  <2>5. CASE progress[x[1]] = "rejected"
    <3>1. progress' = progress
      BY <1>0, <2>1, <2>5 DEF ParallelTypeOK
    <3>2. CASE docs' = docs
      BY <3>1, <3>2 DEF Bulk!vars
    <3>3. CASE docs' = docs \cup {x} /\ course[x] = "committing"
      <4>1. Bulk!Store(x)
        BY <1>2, <3>1, <3>3 DEF Bulk!Store
      <4> QED
        BY <4>1 DEF Bulk!Next
    <3> QED
      BY <2>1, <3>2, <3>3
  <2> QED
    BY <2>2, <2>4, <2>5
<1> QED
  BY <1>3, <1>4, <1>5 DEF Step

\* Bulk publication: keys are stored once, in whatever order calls, chunks
\* and stragglers get to them, and a call resolves only when its keys are
\* in the collection.
THEOREM ParallelRefinement == ParallelSpec => ImplementsPublication
<1>1. InitParallel => Bulk!Init
  BY DEF InitParallel, Bulk!Init
<1>2. ParallelInv /\ [NextParallel]_parallelVars => [Bulk!Next]_Bulk!vars
  <2> SUFFICES ASSUME ParallelInv, [NextParallel]_parallelVars
               PROVE  [Bulk!Next]_Bulk!vars
    OBVIOUS
  <2>1. ASSUME NEW c \in Calls, Process(c)
        PROVE  [Bulk!Next]_Bulk!vars
    <3>1. \A x \in ItemsOf(c) : ~(x[2] <= 0)
      BY ItemFacts DEF ItemsOf
    <3> QED
      BY <2>1, <3>1, GoOnRefines DEF Process
  <2>2. ASSUME NEW c \in Calls, ChunkResolves(c)
        PROVE  [Bulk!Next]_Bulk!vars
    <3>1. offset[c] \in Nat /\ Concurrency \in Nat /\ offset[c] + Concurrency \in Nat
      BY ParallelAssumption DEF ParallelAssumption, ParallelInv, ParallelTypeOK
    <3>2. ASSUME NEW x \in ItemsOf(c), x[2] <= offset[c] + Concurrency
          PROVE  course[x] \in Published
      <4>1. x \in Items /\ x[1] = c /\ x[2] \in Nat
        BY ItemFacts DEF ItemsOf
      <4>2. CASE x[2] <= offset[c]
        BY <4>1, <4>2 DEF ParallelInv, FailureContained
      <4>3. CASE ~(x[2] <= offset[c])
        BY <2>2, <3>1, <3>2, <4>1, <4>3 DEF ChunkResolves, Chunk
      <4> QED
        BY <4>2, <4>3
    <3> QED
      BY <2>2, <3>1, <3>2, GoOnRefines DEF ChunkResolves
  <2>3. ASSUME NEW x \in Items, Step(x)
        PROVE  [Bulk!Next]_Bulk!vars
    BY <2>3, StepRefines
  <2>4. CASE UNCHANGED parallelVars
    BY <2>4 DEF parallelVars, Bulk!vars
  <2> QED
    BY <2>1, <2>2, <2>3, <2>4 DEF NextParallel
<1> QED
  BY <1>1, <1>2, ParallelInvariance, PTL DEF ParallelSpec, ImplementsPublication, Bulk!Spec
=============================================================================
