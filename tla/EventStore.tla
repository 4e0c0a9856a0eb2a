----------------------------- MODULE EventStore -----------------------------
(***************************************************************************)
(* The collections behind MongoEventStore and MongoSnapshotStore, as      *)
(* operators on the documents of one aggregate.                           *)
(*                                                                         *)
(* The unique index on {aggregateId, position} makes the event documents  *)
(* of an aggregate a function from positions to contents.  Position 0     *)
(* stands for a document without a position: null is a key of the index   *)
(* like any other and sorts before every number.                          *)
(***************************************************************************)
EXTENDS Domain, FiniteSets

Position == Nat

\* s holds the event documents of one aggregate.
IsStream(s) ==
  /\ s = [p \in DOMAIN s |-> s[p]]
  /\ DOMAIN s \subseteq Position
  /\ IsFiniteSet(DOMAIN s)
  /\ \A p \in DOMAIN s : s[p] \in Data

\* s holds documents at positions 1, 2, ... and no others: it is a sequence.
Gapless(s) ==
  /\ DOMAIN s = 1 .. Cardinality(DOMAIN s)
  /\ s \in Seq(Data)

\* The positions publishAll() stamps on a batch committed at version v:
\* each event's aggregateVersion, counting on from the version.
Claimed(v, b) == v + 1 .. v + Len(b)

\* Seeded fault: the collection has no unique index.
NoUniqueIndex(s, v, b) == FALSE

\* The unique index refuses the batch.
Duplicate(s, v, b) == Claimed(v, b) \cap DOMAIN s # {}

\* insertMany() of a batch the index accepts.
Inserted(s, v, b) ==
  [p \in DOMAIN s \cup Claimed(v, b) |->
     IF p \in Claimed(v, b) THEN b[p - v] ELSE s[p]]

\* The positions find() matches; fromVersion 0 (or none) adds no filter.
Matching(s, fromVersion) ==
  {p \in DOMAIN s : fromVersion = 0 \/ p > fromVersion}

\* The i-th of a set of positions, in the order of sort({position: 1}).
Nth(P, i) == CHOOSE p \in P : Cardinality({q \in P : q < p}) = i - 1

\* What getEventsByStreamId reads: the matching documents in order.
Read(s, fromVersion) ==
  LET P == Matching(s, fromVersion) IN
  [i \in 1 .. Cardinality(P) |-> s[Nth(P, i)]]

\* The documents findOne().sort({version: -1}) may return: snapshots have
\* no unique index, so several may share the highest version.
Latest(S) == {x \in S : \A y \in S : y.version <= x.version}

=============================================================================
