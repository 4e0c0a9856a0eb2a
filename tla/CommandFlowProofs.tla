------------------------- MODULE CommandFlowProofs -------------------------
(***************************************************************************)
(* Proofs about CommandFlow, for any number of requests, processes,       *)
(* aggregates and events.  Inv is inductive; its conjuncts are arranged    *)
(* here per request, because every step but a commit concerns one request *)
(* and leaves the streams alone.                                           *)
(***************************************************************************)
EXTENDS CommandFlow, FiniteSetTheorems, SequenceTheorems, TLAPS

(* What the store's operators do with a stream that has no gaps.           *)

\* A gapless stream is a legal set of event documents.
LEMMA SeqIsStream ==
  ASSUME NEW s \in Seq(Data)
  PROVE  IsStream(s)
<1>1. DOMAIN s = 1 .. Len(s) /\ s \in [1 .. Len(s) -> Data] /\ Len(s) \in Nat
  BY LenProperties
<1>2. IsFiniteSet(1 .. Len(s))
  BY <1>1, FS_Interval
<1> QED
  BY <1>1, <1>2 DEF IsStream, Position

\* Being a sequence is all there is to having no gaps.
LEMMA GaplessIsSeq == \A s : Gapless(s) <=> s \in Seq(Data)
<1>1. ASSUME NEW s \in Seq(Data) PROVE DOMAIN s = 1 .. Cardinality(DOMAIN s)
  <2>1. DOMAIN s = 1 .. Len(s) /\ Len(s) \in Nat
    BY LenProperties
  <2>2. Cardinality(1 .. Len(s)) = Len(s)
    BY <2>1, FS_Interval
  <2>. QED BY <2>1, <2>2
<1>. QED BY <1>1 DEF Gapless

\* Sorting an interval of positions leaves it in its own order.
LEMMA NthOfInterval ==
  ASSUME NEW v \in Nat, NEW n \in Nat, NEW i \in 1 .. n - v
  PROVE  Nth(v + 1 .. n, i) = v + i
<1> DEFINE P == v + 1 .. n
<1>1. ASSUME NEW p \in P
      PROVE  Cardinality({q \in P : q < p}) = p - 1 - v
  <2>1. {q \in P : q < p} = v + 1 .. p - 1
    OBVIOUS
  <2>2. Cardinality(v + 1 .. p - 1) = p - 1 - v
    BY FS_Interval
  <2> QED
    BY <2>1, <2>2
<1>2. v + i \in P
  OBVIOUS
<1>3. \A p \in P : Cardinality({q \in P : q < p}) = i - 1 <=> p = v + i
  BY <1>1
<1> QED
  BY <1>2, <1>3 DEF Nth

\* Reading after version v returns the events after the first v.
LEMMA ReadIsSuffix ==
  ASSUME NEW s \in Seq(Data), NEW v \in 0 .. Len(s)
  PROVE  /\ Read(s, v) \in Seq(Data)
         /\ Len(Read(s, v)) = Len(s) - v
         /\ \A i \in 1 .. Len(s) - v : Read(s, v)[i] = s[v + i]
<1> DEFINE n == Len(s)
           P == v + 1 .. n
<1>1. n \in Nat /\ DOMAIN s = 1 .. n /\ \A p \in 1 .. n : s[p] \in Data
  BY LenProperties, ElementOfSeq
<1>2. Matching(s, v) = P
  BY <1>1 DEF Matching
<1>3. Cardinality(P) = n - v
  <2>1. v \in Nat /\ v <= n
    BY <1>1
  <2>2. \A a, b \in Int : Cardinality(a .. b) = IF a > b THEN 0 ELSE b - a + 1
    BY FS_Interval
  <2>3. v + 1 \in Int /\ n \in Int
    BY <1>1, <2>1
  <2>4. Cardinality(v + 1 .. n) = IF v + 1 > n THEN 0 ELSE n - (v + 1) + 1
    BY <2>2, <2>3
  <2> QED
    BY <1>1, <2>1, <2>4
<1>4. \A i \in 1 .. n - v : Nth(P, i) = v + i
  BY <1>1, NthOfInterval
<1>5. Read(s, v) = [i \in 1 .. n - v |-> s[v + i]]
  BY <1>2, <1>3, <1>4 DEF Read
<1>6. \A i \in 1 .. n - v : s[v + i] \in Data
  BY <1>1
<1> QED
  BY <1>1, <1>5, <1>6

\* An instance that holds the first v events is complete once what the
\* store reads after v has been applied to it.
LEMMA ReadCompletes ==
  ASSUME NEW s \in Seq(Data), NEW h \in Seq(Data), Len(h) <= Len(s),
         \A i \in 1 .. Len(h) : h[i] = s[i]
  PROVE  /\ h \o Read(s, Len(h)) = s
         /\ Len(h) + Len(Read(s, Len(h))) = Len(s)
<1> DEFINE t == Read(s, Len(h))
<1>1. Len(h) \in Nat /\ Len(s) \in Nat /\ Len(h) \in 0 .. Len(s)
  BY LenProperties
<1>2. /\ t \in Seq(Data)
      /\ Len(t) = Len(s) - Len(h)
      /\ \A i \in 1 .. Len(s) - Len(h) : t[i] = s[Len(h) + i]
  BY <1>1, ReadIsSuffix
<1> HIDE DEF t
<1>3. /\ h \o t \in Seq(Data)
      /\ Len(h \o t) = Len(s)
      /\ \A i \in 1 .. Len(s) :
           (h \o t)[i] = IF i <= Len(h) THEN h[i] ELSE t[i - Len(h)]
  BY <1>1, <1>2, ConcatProperties
<1>4. ASSUME NEW i \in 1 .. Len(s)
      PROVE  (h \o t)[i] = s[i]
  <2>1. CASE i <= Len(h)
    <3>1. i \in 1 .. Len(h)
      BY <1>1, <2>1
    <3> QED
      BY <1>3, <2>1, <3>1
  <2>2. CASE i > Len(h)
    <3>1. i - Len(h) \in 1 .. Len(s) - Len(h) /\ Len(h) + (i - Len(h)) = i
      BY <1>1, <2>2
    <3>2. t[i - Len(h)] = s[Len(h) + (i - Len(h))]
      BY <1>2, <3>1
    <3>3. (h \o t)[i] = t[i - Len(h)]
      BY <1>1, <1>3, <2>2
    <3> QED
      BY <3>1, <3>2, <3>3
  <2>3. i <= Len(h) \/ i > Len(h)
    BY <1>1
  <2> QED
    BY <2>1, <2>2, <2>3
<1>5. h \o t = s
  BY <1>3, <1>4, SeqEqual
<1> QED
  BY <1>1, <1>2, <1>5 DEF t

\* Inserting at the version of a stream appends to it.
LEMMA InsertedAtEnd ==
  ASSUME NEW s \in Seq(Data), NEW b \in Seq(Data)
  PROVE  Inserted(s, Len(s), b) = s \o b
<1>1. /\ Len(s) \in Nat /\ Len(b) \in Nat
      /\ DOMAIN s = 1 .. Len(s)
  BY LenProperties
<1>2. Claimed(Len(s), b) = Len(s) + 1 .. Len(s) + Len(b)
  BY DEF Claimed
<1>3. DOMAIN s \cup Claimed(Len(s), b) = 1 .. Len(s) + Len(b)
  BY <1>1, <1>2
<1>4. Inserted(s, Len(s), b) =
        [p \in 1 .. Len(s) + Len(b) |->
           IF p <= Len(s) THEN s[p] ELSE b[p - Len(s)]]
  BY <1>1, <1>2, <1>3 DEF Inserted
<1> DEFINE t == Inserted(s, Len(s), b)
<1>5. \A p \in 1 .. Len(s) + Len(b) : t[p] \in Data
  <2> SUFFICES ASSUME NEW p \in 1 .. Len(s) + Len(b)
               PROVE  t[p] \in Data
    OBVIOUS
  <2>1. CASE p <= Len(s)
    BY <1>1, <1>4, <2>1, ElementOfSeq
  <2>2. CASE p > Len(s)
    <3>1. p - Len(s) \in 1 .. Len(b)
      BY <1>1, <2>2
    <3>2. b[p - Len(s)] \in Data
      BY <3>1, ElementOfSeq
    <3> QED
      BY <1>1, <1>4, <2>2, <3>2
  <2> QED
    BY <1>1, <2>1, <2>2
<1>6. Len(s) + Len(b) \in Nat
  BY <1>1
<1>7. t \in [1 .. Len(s) + Len(b) -> Data]
  BY <1>4, <1>5
<1>8. t \in Seq(Data) /\ Len(t) = Len(s) + Len(b)
  BY <1>6, <1>7
<1>9. \A i \in 1 .. Len(t) : t[i] = (s \o b)[i]
  BY <1>4, <1>8, ConcatProperties
<1> HIDE DEF t
<1>10. t = s \o b
  BY <1>8, <1>9, ConcatProperties, SeqEqual
<1> QED
  BY <1>10 DEF t

\* The unique index refuses a batch just when its version is behind.
LEMMA DuplicateMeansBehind ==
  ASSUME NEW s \in Seq(Data), NEW v \in 0 .. Len(s),
         NEW b \in Seq(Data) \ {<<>>}
  PROVE  Duplicate(s, v, b) <=> v < Len(s)
<1>1. Len(b) \in Nat \ {0} /\ Len(s) \in Nat /\ DOMAIN s = 1 .. Len(s)
  BY LenProperties, EmptySeq
<1>2. CASE v < Len(s)
  <2>1. v + 1 \in Claimed(v, b) /\ v + 1 \in DOMAIN s
    BY <1>1, <1>2 DEF Claimed
  <2> QED
    BY <1>2, <2>1 DEF Duplicate
<1>3. CASE v = Len(s)
  <2>1. \A p \in Claimed(v, b) : p \notin DOMAIN s
    BY <1>1, <1>3 DEF Claimed
  <2> QED
    BY <1>1, <1>3, <2>1 DEF Duplicate
<1>4. v < Len(s) \/ v = Len(s)
  <2>1. Len(s) \in Nat
    BY LenProperties
  <2> QED
    BY <2>1
<1> QED
  BY <1>2, <1>3, <1>4

\* Appending frees no position.
LEMMA AppendGrows ==
  ASSUME NEW s \in Seq(Data), NEW b \in Seq(Data)
  PROVE  DOMAIN s \subseteq DOMAIN (s \o b)
<1> DEFINE t == s \o b
<1>1. t \in Seq(Data) /\ Len(t) = Len(s) + Len(b)
  BY ConcatProperties
<1> HIDE DEF t
<1>2. /\ DOMAIN s = 1 .. Len(s) /\ Len(s) \in Nat /\ Len(b) \in Nat
      /\ DOMAIN t = 1 .. Len(t)
  BY <1>1, LenProperties
<1>3. DOMAIN s \subseteq DOMAIN t
  BY <1>1, <1>2
<1> QED
  BY <1>3 DEF t

-----------------------------------------------------------------------------
(* The inductive invariant.                                                *)

Places == {"idle"} \cup Waiting \cup Terminal

\* What Inv says of request r.
Own(r) ==
  /\ Faithful(Envelope(r), events[Target[r]])
  /\ pc[r] \in {"getLast", "getEvents", "saving"} =>
       /\ Command[r] \notin Creating
       /\ pc[r] = "saving" => state[r] # <<>>
  /\ pc[r] \in {"insertMany", "commit", "stale"} =>
       /\ Admissible(state[r], Command[r])
       /\ batch[r] \in Decisions(state[r], Command[r])
  /\ pc[r] = "commit" =>
       /\ state[r] = events[Target[r]]
       /\ \A q \in Requests :
            pc[q] = "commit" /\ Target[q] = Target[r] => q = r
  /\ pc[r] = "stale" =>
       Claimed(version[r], batch[r]) \cap DOMAIN events[Target[r]] # {}

\* A step of r that leaves the streams alone; other requests at most die.
Local(r) ==
  /\ events' = events
  /\ \A q \in Requests \ {r} :
       /\ pc'[q] \in {pc[q], "lost"}
       /\ state'[q] = state[q]
       /\ version'[q] = version[q]
       /\ batch'[q] = batch[q]

LEMMA InvByRequest ==
  Inv <=> TypeOK /\ StreamsContiguous /\ SnapshotsFaithful
            /\ \A r \in Requests : Own(r)
BY DEF Inv, Own, InstancesFaithful, RehydrationsSound, DecisionsSound,
       OpenTransactionsExclusive, DroppedOnlyForARival

\* Streams that are sequences are legal collections.
LEMMA StreamsAreStreams ==
  ASSUME StreamsContiguous
  PROVE  \A a \in Aggregates : IsStream(events[a])
BY SeqIsStream, GaplessIsSeq DEF StreamsContiguous

\* What a step of r alone does to the others.
LEMMA OthersKeep ==
  ASSUME Inv, NEW r \in Requests, Local(r), Own(r)',
         NEW q \in Requests \ {r}
  PROVE  Own(q)'
<1>1. Own(q)
  BY InvByRequest
<1>2. /\ events' = events
      /\ pc'[q] \in {pc[q], "lost"}
      /\ state'[q] = state[q]
      /\ version'[q] = version[q]
      /\ batch'[q] = batch[q]
  BY DEF Local
<1>3. Faithful(Envelope(q), events[Target[q]])'
  BY <1>1, <1>2 DEF Own, Envelope, Faithful
<1>4. ASSUME pc'[q] = "commit"
      PROVE  /\ state'[q] = events'[Target[q]]
             /\ \A p \in Requests :
                  pc'[p] = "commit" /\ Target[p] = Target[q] => p = q
  <2>1. pc[q] = "commit"
    BY <1>2, <1>4
  <2>2. state'[q] = events'[Target[q]]
    BY <1>1, <1>2, <2>1 DEF Own
  <2>3. ASSUME NEW p \in Requests, pc'[p] = "commit", Target[p] = Target[q]
        PROVE  p = q
    <3>1. CASE p = r
      BY <1>4, <2>3, <3>1 DEF Own
    <3>2. CASE p # r
      <4>1. pc[p] = "commit"
        BY <2>3, <3>2 DEF Local
      <4> QED
        BY <1>1, <2>1, <2>3, <4>1 DEF Own
    <3> QED
      BY <3>1, <3>2
  <2> QED
    BY <2>2, <2>3
<1> QED
  BY <1>1, <1>2, <1>3, <1>4 DEF Own, Admissible, Decisions, Claimed

LEMMA LocalKeepsInv ==
  ASSUME Inv, TypeOK', SnapshotsFaithful',
         NEW r \in Requests, Local(r), Own(r)'
  PROVE  Inv'
<1>1. StreamsContiguous'
  BY DEF Inv, StreamsContiguous, Local
<1>2. \A q \in Requests : Own(q)'
  BY OthersKeep
<1> QED
  BY <1>1, <1>2
  DEF Inv, Own, InstancesFaithful, RehydrationsSound, DecisionsSound,
      OpenTransactionsExclusive, DroppedOnlyForARival

\* The rest of a handler, from an instance that is faithful to its stream.
LEMMA DecideIsLocal ==
  ASSUME Inv, NEW r \in Requests, NEW h \in Seq(Data), NEW v,
         v = Len(h), Admissible(h, Command[r]),
         Faithful([version |-> v, payload |-> h], events[Target[r]]),
         Decide(r, h, v), events' = events,
         DOMAIN snapshots' = Aggregates,
         \A a \in Aggregates : \A x \in snapshots'[a] : x \in Snapshot
  PROVE  TypeOK' /\ Local(r) /\ Own(r)'
<1>1. TypeOK /\ v \in Nat
  BY LenProperties DEF Inv
<1>2. /\ state' = [state EXCEPT ![r] = h]
      /\ version' = [version EXCEPT ![r] = v]
  BY DEF Decide, Hold
<1>3. CASE Answer(r, "rejected")
  <2>1. TypeOK'
    BY <1>1, <1>2, <1>3 DEF TypeOK, Answer, Goto, Replies, Terminal
  <2>2. Local(r)
    BY <1>1, <1>2, <1>3 DEF TypeOK, Answer, Goto, Local
  <2>3. /\ pc'[r] = "answered" /\ Envelope(r)' = [version |-> v, payload |-> h]
    BY <1>1, <1>2, <1>3 DEF TypeOK, Answer, Goto, Envelope
  <2>4. Own(r)'
    BY <2>3 DEF Own, Faithful
  <2> QED
    BY <2>1, <2>2, <2>4
<1>4. ASSUME NEW b \in Decisions(h, Command[r]),
             batch' = [batch EXCEPT ![r] = b],
             Goto(r, "insertMany"),
             reply' = [reply EXCEPT ![r] = "ok"]
      PROVE  TypeOK' /\ Local(r) /\ Own(r)'
  <2>1. b \in Seq(Data)
    BY DEF Decisions
  <2>2. TypeOK'
    BY <1>1, <1>2, <1>4, <2>1 DEF TypeOK, Goto, Replies, Waiting
  <2>3. Local(r)
    BY <1>1, <1>2, <1>4 DEF TypeOK, Goto, Local
  <2>4. /\ pc'[r] = "insertMany" /\ batch'[r] = b /\ state'[r] = h
        /\ Envelope(r)' = [version |-> v, payload |-> h]
    BY <1>1, <1>2, <1>4 DEF TypeOK, Goto, Envelope
  <2>5. Own(r)'
    BY <2>4 DEF Own, Faithful, Admissible, Decisions
  <2> QED
    BY <2>2, <2>3, <2>5
<1> QED
  BY <1>3, <1>4 DEF Decide

-----------------------------------------------------------------------------
(* One lemma per action: it preserves Inv.                                 *)

LEMMA SnapshotsUnchanged ==
  ASSUME Inv, events' = events, snapshots' = snapshots
  PROVE  /\ SnapshotsFaithful'
         /\ DOMAIN snapshots' = Aggregates
         /\ \A a \in Aggregates : \A x \in snapshots'[a] : x \in Snapshot
BY DEF Inv, TypeOK, SnapshotsFaithful

LEMMA ReceiveKeepsInv ==
  ASSUME Inv, NEW r \in Requests, Receive(r)
  PROVE  Inv'
<1>1. events' = events /\ snapshots' = snapshots
  BY DEF Receive
<1>2. CASE Command[r] \in Creating /\ Decide(r, <<>>, 0)
  <2>1. <<>> \in Seq(Data) /\ 0 = Len(<<>>) /\ Admissible(<<>>, Command[r])
    BY <1>2 DEF Admissible
  <2>2. Faithful([version |-> 0, payload |-> <<>>], events[Target[r]])
    <3>1. Len(events[Target[r]]) \in Nat
      BY ConstantsAssumption, GaplessIsSeq, LenProperties
      DEF Inv, StreamsContiguous, ConstantsAssumption
    <3> QED
      BY <3>1 DEF Faithful
  <2>3. TypeOK' /\ Local(r) /\ Own(r)'
    BY <1>1, <1>2, <2>1, <2>2, SnapshotsUnchanged, DecideIsLocal
  <2> QED
    BY <1>1, <2>3, SnapshotsUnchanged, LocalKeepsInv
<1>3. CASE /\ Command[r] \notin Creating
           /\ Goto(r, "getLast")
           /\ UNCHANGED <<state, version, batch, reply>>
  <2>1. TypeOK'
    BY <1>1, <1>3 DEF Inv, TypeOK, Goto, Waiting
  <2>2. Local(r)
    BY <1>1, <1>3 DEF Inv, TypeOK, Goto, Local
  <2>3. pc'[r] = "getLast" /\ Envelope(r)' = Envelope(r)
    BY <1>3 DEF Inv, TypeOK, Goto, Envelope
  <2>4. Own(r)'
    BY <1>1, <1>3, <2>3, InvByRequest DEF Own, Faithful
  <2> QED
    BY <1>1, <2>1, <2>2, <2>4, SnapshotsUnchanged, LocalKeepsInv
<1> QED
  BY <1>2, <1>3 DEF Receive

LEMMA LoadSnapshotKeepsInv ==
  ASSUME Inv, NEW r \in Requests, LoadSnapshot(r)
  PROVE  Inv'
<1> DEFINE a == Target[r]
<1>1. /\ events' = events /\ snapshots' = snapshots
      /\ batch' = batch /\ reply' = reply
      /\ pc[r] = "getLast" /\ Goto(r, "getEvents")
  BY DEF LoadSnapshot
<1>2. a \in Aggregates /\ Len(events[a]) \in Nat
  BY ConstantsAssumption, GaplessIsSeq, LenProperties
  DEF Inv, StreamsContiguous, ConstantsAssumption
<1>3. PICK h \in Seq(Data), v \in Nat :
        /\ Hold(r, h, v)
        /\ Faithful([version |-> v, payload |-> h], events[a])
  <2>1. CASE Hold(r, <<>>, 0)
    <3>1. Faithful([version |-> 0, payload |-> <<>>], events[a])
      BY <1>2 DEF Faithful
    <3>2. <<>> \in Seq(Data) /\ 0 \in Nat
      OBVIOUS
    <3> QED
      BY <2>1, <3>1, <3>2
  <2>2. ASSUME NEW x \in Latest(snapshots[a]), Hold(r, x.payload, x.version)
        PROVE  \E h \in Seq(Data), v \in Nat :
                 /\ Hold(r, h, v)
                 /\ Faithful([version |-> v, payload |-> h], events[a])
    <3>1. x \in snapshots[a]
      BY DEF Latest
    <3>2. x \in Snapshot /\ Faithful(x, events[a])
      BY <1>2, <3>1 DEF Inv, TypeOK, SnapshotsFaithful
    <3>3. /\ x.payload \in Seq(Data) /\ x.version \in Nat
          /\ x = [version |-> x.version, payload |-> x.payload]
      BY <3>2 DEF Snapshot
    <3> QED
      BY <2>2, <3>2, <3>3
  <2> QED
    BY <2>1, <2>2 DEF LoadSnapshot
<1>4. TypeOK'
  BY <1>1, <1>3 DEF Inv, TypeOK, Goto, Hold, Waiting
<1>5. Local(r)
  BY <1>1, <1>3 DEF Inv, TypeOK, Goto, Hold, Local
<1>6. pc'[r] = "getEvents" /\ Envelope(r)' = [version |-> v, payload |-> h]
  BY <1>1, <1>3 DEF Inv, TypeOK, Goto, Hold, Envelope
<1>7. Own(r)'
  BY <1>1, <1>3, <1>6, InvByRequest DEF Own
<1> QED
  BY <1>1, <1>4, <1>5, <1>7, SnapshotsUnchanged, LocalKeepsInv

\* A handler that rejects without touching its instance.
LEMMA AnswerKeepsInv ==
  ASSUME Inv, NEW r \in Requests, NEW error \in Replies, Answer(r, error),
         UNCHANGED <<events, snapshots, state, version>>
  PROVE  Inv'
<1>1. TypeOK'
  BY DEF Inv, TypeOK, Answer, Goto, Terminal
<1>2. Local(r)
  BY DEF Inv, TypeOK, Answer, Goto, Local
<1>3. pc'[r] = "answered" /\ Envelope(r)' = Envelope(r)
  BY DEF Inv, TypeOK, Answer, Goto, Envelope
<1>4. Own(r)'
  BY <1>3, InvByRequest DEF Own
<1> QED
  BY <1>1, <1>2, <1>4, SnapshotsUnchanged, LocalKeepsInv

LEMMA LoadSnapshotFailsKeepsInv ==
  ASSUME Inv, NEW r \in Requests, LoadSnapshotFails(r)
  PROVE  Inv'
<1>1. CASE Answer(r, "failed")
  BY <1>1, AnswerKeepsInv DEF LoadSnapshotFails, Replies
<1>2. CASE Goto(r, "getEvents") /\ UNCHANGED <<batch, reply>>
  <2>1. /\ UNCHANGED <<events, snapshots, state, version, batch, reply>>
        /\ pc[r] = "getLast"
    BY <1>2 DEF LoadSnapshotFails
  <2>2. TypeOK'
    BY <1>2, <2>1 DEF Inv, TypeOK, Goto, Waiting
  <2>3. Local(r)
    BY <1>2, <2>1 DEF Inv, TypeOK, Goto, Local
  <2>4. pc'[r] = "getEvents" /\ Envelope(r)' = Envelope(r)
    BY <1>2, <2>1 DEF Inv, TypeOK, Goto, Envelope
  <2>5. Own(r)'
    BY <2>1, <2>4, InvByRequest DEF Own
  <2> QED
    BY <2>1, <2>2, <2>3, <2>5, SnapshotsUnchanged, LocalKeepsInv
<1> QED
  BY <1>1, <1>2 DEF LoadSnapshotFails

\* Bringing an instance up to date makes it the stream itself.
LEMMA FoundCompletes ==
  ASSUME Inv, NEW r \in Requests,
         Found(Target[r], version[r]) # <<>>
  PROVE  LET h == state[r] \o Found(Target[r], version[r]) IN
         /\ h = events[Target[r]]
         /\ h \in Seq(Data)
         /\ h # <<>>
         /\ version[r] + Len(Found(Target[r], version[r])) = Len(h)
<1> DEFINE s == events[Target[r]]
<1>1. s \in Seq(Data) /\ state[r] \in Seq(Data)
  BY ConstantsAssumption, GaplessIsSeq
  DEF Inv, StreamsContiguous, TypeOK, ConstantsAssumption
<1>2. /\ version[r] = Len(state[r]) /\ Len(state[r]) <= Len(s)
      /\ \A i \in 1 .. Len(state[r]) : state[r][i] = s[i]
  BY InvByRequest DEF Own, Faithful, Envelope
<1>3. Found(Target[r], version[r]) = Read(s, Len(state[r]))
  BY <1>2 DEF Found
<1> HIDE DEF s
<1>4. /\ state[r] \o Read(s, Len(state[r])) = s
      /\ Len(state[r]) + Len(Read(s, Len(state[r]))) = Len(s)
  BY <1>1, <1>2, ReadCompletes
<1>5. Read(s, Len(state[r])) \in Seq(Data)
  <2>1. Len(state[r]) \in Nat /\ Len(s) \in Nat
    BY <1>1, LenProperties
  <2>2. Len(state[r]) \in 0 .. Len(s)
    BY <1>2, <2>1
  <2> QED
    BY <1>1, <2>2, ReadIsSuffix
<1>6. s # <<>>
  <2>1. Len(Read(s, Len(state[r]))) \in Nat \ {0}
    BY <1>3, <1>5, EmptySeq
  <2>2. Len(state[r]) \in Nat
    BY <1>1, LenProperties
  <2> DEFINE m == Len(state[r])
             n == Len(Read(s, Len(state[r])))
  <2>3. m \in Nat /\ n \in Nat \ {0} /\ m + n = Len(s)
    BY <1>4, <2>1, <2>2
  <2> HIDE DEF m, n
  <2>4. Len(s) # 0
    BY <2>3
  <2> QED
    BY <2>4, EmptySeq
<1> QED
  BY <1>1, <1>2, <1>3, <1>4, <1>6 DEF s

LEMMA LoadEventsKeepsInv ==
  ASSUME Inv, NEW r \in Requests, LoadEvents(r)
  PROVE  Inv'
<1> DEFINE found == Found(Target[r], version[r])
           h == state[r] \o found
           v == version[r] + Len(found)
<1>1. events' = events /\ snapshots' = snapshots /\ pc[r] = "getEvents"
  BY DEF LoadEvents
<1>2. Command[r] \notin Creating
  BY <1>1 DEF Inv, RehydrationsSound
<1>3. CASE Answer(r, "notFound") /\ UNCHANGED <<state, version>>
  BY <1>1, <1>3, AnswerKeepsInv DEF Replies
<1>4. ASSUME found # <<>>
      PROVE  /\ h \in Seq(Data) /\ h # <<>> /\ v = Len(h) /\ v \in Nat
             /\ Faithful([version |-> v, payload |-> h], events[Target[r]])
  <2>1. /\ h = events[Target[r]] /\ h \in Seq(Data)
        /\ h # <<>> /\ v = Len(h)
    BY <1>4, FoundCompletes
  <2>2. Len(h) \in Nat
    BY <2>1, LenProperties
  <2> HIDE DEF h, v
  <2> QED
    BY <2>1, <2>2 DEF Faithful
<1>5. CASE /\ found # <<>>
           /\ Hold(r, h, v)
           /\ Goto(r, "saving")
           /\ UNCHANGED <<batch, reply>>
  <2> HIDE DEF h, v
  <2>1. TypeOK'
    BY <1>1, <1>4, <1>5 DEF Inv, TypeOK, Goto, Hold, Waiting
  <2>2. Local(r)
    BY <1>1, <1>4, <1>5 DEF Inv, TypeOK, Goto, Hold, Local
  <2>3. /\ pc'[r] = "saving" /\ state'[r] = h
        /\ Envelope(r)' = [version |-> v, payload |-> h]
    BY <1>1, <1>4, <1>5 DEF Inv, TypeOK, Goto, Hold, Envelope
  <2>4. Own(r)'
    BY <1>1, <1>2, <1>4, <1>5, <2>3 DEF Own
  <2> QED
    BY <1>1, <2>1, <2>2, <2>4, SnapshotsUnchanged, LocalKeepsInv
<1>6. CASE found # <<>> /\ Decide(r, h, v)
  <2>1. Admissible(h, Command[r])
    BY <1>2, <1>4, <1>6 DEF Admissible
  <2> HIDE DEF h, v
  <2>2. TypeOK' /\ Local(r) /\ Own(r)'
    BY <1>1, <1>4, <1>6, <2>1, SnapshotsUnchanged, DecideIsLocal
  <2> QED
    BY <1>1, <2>2, SnapshotsUnchanged, LocalKeepsInv
<1> QED
  BY <1>3, <1>5, <1>6 DEF LoadEvents

LEMMA LoadEventsFailsKeepsInv ==
  ASSUME Inv, NEW r \in Requests, LoadEventsFails(r)
  PROVE  Inv'
BY AnswerKeepsInv DEF LoadEventsFails, Replies

LEMMA SavingIsSound ==
  ASSUME Inv, NEW r \in Requests, pc[r] = "saving"
  PROVE  /\ state[r] \in Seq(Data) /\ version[r] = Len(state[r])
         /\ Admissible(state[r], Command[r])
         /\ Envelope(r) = [version |-> version[r], payload |-> state[r]]
         /\ Faithful(Envelope(r), events[Target[r]])
         /\ Envelope(r) \in Snapshot
<1>1. /\ Command[r] \notin Creating /\ state[r] # <<>>
      /\ Faithful(Envelope(r), events[Target[r]])
  BY InvByRequest DEF Own
<1>2. state[r] \in Seq(Data) /\ version[r] \in Nat
  BY DEF Inv, TypeOK
<1> QED
  BY <1>1, <1>2 DEF Faithful, Admissible, Envelope, Snapshot

LEMMA SaveSnapshotKeepsInv ==
  ASSUME Inv, NEW r \in Requests, SaveSnapshot(r)
  PROVE  Inv'
<1>1. /\ events' = events /\ pc[r] = "saving"
      /\ Decide(r, state[r], version[r])
  BY DEF SaveSnapshot
<1>2. snapshots' = [snapshots EXCEPT ![Target[r]] = @ \cup {Envelope(r)}]
  BY DEF SaveSnapshot
<1>3. \A a \in Aggregates : \A x \in snapshots'[a] :
        x \in snapshots[a] \/ (a = Target[r] /\ x = Envelope(r))
  BY <1>2 DEF Inv, TypeOK
<1>4. /\ DOMAIN snapshots' = Aggregates
      /\ \A a \in Aggregates : \A x \in snapshots'[a] : x \in Snapshot
  BY <1>1, <1>2, <1>3, SavingIsSound DEF Inv, TypeOK
<1>5. SnapshotsFaithful'
  BY <1>1, <1>3, SavingIsSound DEF Inv, SnapshotsFaithful
<1>6. TypeOK' /\ Local(r) /\ Own(r)'
  BY <1>1, <1>4, SavingIsSound, DecideIsLocal
<1> QED
  BY <1>5, <1>6, LocalKeepsInv

LEMMA SaveSnapshotFailsKeepsInv ==
  ASSUME Inv, NEW r \in Requests, SaveSnapshotFails(r)
  PROVE  Inv'
<1>1. /\ events' = events /\ snapshots' = snapshots /\ pc[r] = "saving"
      /\ Decide(r, state[r], version[r])
  BY DEF SaveSnapshotFails
<1>2. TypeOK' /\ Local(r) /\ Own(r)'
  BY <1>1, SnapshotsUnchanged, SavingIsSound, DecideIsLocal
<1> QED
  BY <1>1, <1>2, SnapshotsUnchanged, LocalKeepsInv

\* The insert is accepted only from the version the stream is at.
LEMMA InsertManyKeepsInv ==
  ASSUME Inv, NEW r \in Requests, InsertMany(r)
  PROVE  Inv'
<1> DEFINE s == events[Target[r]]
<1>1. /\ UNCHANGED <<events, snapshots, state, version, batch, reply>>
      /\ pc[r] = "insertMany" /\ Goto(r, "commit")
      /\ ~Duplicate(s, version[r], batch[r]) /\ ~Contended(r)
  BY DEF InsertMany
<1>2. /\ s \in Seq(Data) /\ state[r] \in Seq(Data)
      /\ Len(s) \in Nat /\ Len(state[r]) \in Nat
  BY ConstantsAssumption, GaplessIsSeq, LenProperties
  DEF Inv, StreamsContiguous, TypeOK, ConstantsAssumption
<1>3. /\ version[r] = Len(state[r]) /\ version[r] \in 0 .. Len(s)
      /\ \A i \in 1 .. Len(state[r]) : state[r][i] = s[i]
  BY <1>2, InvByRequest DEF Own, Faithful, Envelope
<1>4. /\ Admissible(state[r], Command[r])
      /\ batch[r] \in Decisions(state[r], Command[r])
  BY <1>1, InvByRequest DEF Own
<1>5. batch[r] \in Seq(Data) \ {<<>>} /\ Len(batch[r]) \in Nat \ {0}
  BY <1>4, EmptySeq DEF Decisions
<1> HIDE DEF s
<1>6. version[r] = Len(s)
  BY <1>1, <1>2, <1>3, <1>5, DuplicateMeansBehind
<1>7. state[r] = s
  BY <1>2, <1>3, <1>6, SeqEqual
<1>8. ASSUME NEW q \in Requests, pc[q] = "commit", Target[q] = Target[r]
      PROVE  FALSE
  <2>1. q # r
    BY <1>1, <1>8
  <2>2. Own(q)
    BY InvByRequest
  <2>3. state[q] = s /\ version[q] = Len(s)
    BY <1>8, <2>2 DEF Own, Faithful, Envelope, s
  <2>4. Len(batch[q]) \in Nat \ {0}
    BY <1>8, <2>2, EmptySeq DEF Own, Decisions
  <2>5. Len(s) + 1 \in Claimed(version[q], batch[q]) \cap
                       Claimed(version[r], batch[r])
    BY <1>2, <1>5, <1>6, <2>3, <2>4 DEF Claimed
  <2> QED
    BY <1>1, <1>8, <2>1, <2>5 DEF Contended
<1>9. TypeOK'
  BY <1>1 DEF Inv, TypeOK, Goto, Waiting
<1>10. Local(r)
  BY <1>1 DEF Inv, TypeOK, Goto, Local
<1>11. /\ pc'[r] = "commit"
       /\ \A q \in Requests \ {r} : pc'[q] = pc[q]
  BY <1>1 DEF Inv, TypeOK, Goto
<1>12. Own(r)'
  <2>1. Faithful(Envelope(r), events[Target[r]])'
    BY <1>1, InvByRequest DEF Own, Envelope, Faithful
  <2>2. \A q \in Requests :
          pc'[q] = "commit" /\ Target[q] = Target[r] => q = r
    BY <1>8, <1>11
  <2> QED
    BY <1>1, <1>4, <1>7, <1>11, <2>1, <2>2
    DEF Own, Admissible, Decisions, s
<1> QED
  BY <1>1, <1>9, <1>10, <1>12, SnapshotsUnchanged, LocalKeepsInv

LEMMA DuplicateKeyKeepsInv ==
  ASSUME Inv, NEW r \in Requests, DuplicateKey(r)
  PROVE  Inv'
<1>1. /\ UNCHANGED <<events, snapshots, state, version, batch, reply>>
      /\ pc[r] = "insertMany" /\ Goto(r, "stale")
      /\ Duplicate(events[Target[r]], version[r], batch[r])
  BY DEF DuplicateKey
<1>2. TypeOK'
  BY <1>1 DEF Inv, TypeOK, Goto, Terminal
<1>3. Local(r)
  BY <1>1 DEF Inv, TypeOK, Goto, Local
<1>4. pc'[r] = "stale"
  BY <1>1 DEF Inv, TypeOK, Goto
<1>5. Faithful(Envelope(r), events[Target[r]])'
  BY <1>1, InvByRequest DEF Own, Envelope, Faithful
<1>6. Own(r)'
  BY <1>1, <1>4, <1>5, InvByRequest
  DEF Own, Admissible, Decisions, Duplicate, Claimed
<1> QED
  BY <1>1, <1>2, <1>3, <1>6, SnapshotsUnchanged, LocalKeepsInv

\* The death of a process takes requests away and changes nothing else.
LEMMA KilledKeepsInv ==
  ASSUME Inv, NEW i, pc' = Killed(i),
         UNCHANGED <<events, snapshots, state, version, batch, reply>>
  PROVE  Inv'
<1>1. \A q \in Requests : pc'[q] \in {pc[q], "lost"}
  BY DEF Killed
<1>2. TypeOK'
  <2>1. pc' \in [Requests -> {"idle"} \cup Waiting \cup Terminal]
    BY DEF Inv, TypeOK, Killed, Terminal
  <2> QED
    BY <2>1 DEF Inv, TypeOK
<1>3. SnapshotsFaithful'
  BY SnapshotsUnchanged
<1>4. CASE Requests = {}
  BY <1>2, <1>3, <1>4
  DEF Inv, StreamsContiguous, InstancesFaithful, RehydrationsSound,
      DecisionsSound, OpenTransactionsExclusive, DroppedOnlyForARival
<1>5. ASSUME NEW r \in Requests
      PROVE  Inv'
  <2>1. Local(r)
    BY <1>1 DEF Local
  <2>2. Own(r)
    BY InvByRequest
  <2>3. Faithful(Envelope(r), events[Target[r]])'
    BY <2>2 DEF Own, Envelope, Faithful
  <2>4. Own(r)'
    BY <1>1, <2>2, <2>3 DEF Own, Admissible, Decisions, Claimed
  <2> QED
    BY <1>2, <1>3, <2>1, <2>4, LocalKeepsInv
<1> QED
  BY <1>4, <1>5

\* A commit appends the batch to the stream it was decided on.
LEMMA VisibleAppends ==
  ASSUME Inv, NEW r \in Requests, pc[r] = "commit"
  PROVE  /\ Visible(r) = [events EXCEPT ![Target[r]] = @ \o batch[r]]
         /\ state[r] = events[Target[r]]
         /\ Admissible(events[Target[r]], Command[r])
         /\ batch[r] \in Decisions(events[Target[r]], Command[r])
<1> DEFINE s == events[Target[r]]
<1>1. Own(r) /\ s \in Seq(Data)
  BY ConstantsAssumption, GaplessIsSeq, InvByRequest
  DEF Inv, StreamsContiguous, ConstantsAssumption
<1>2. /\ state[r] = s /\ version[r] = Len(s)
      /\ Admissible(s, Command[r])
      /\ batch[r] \in Decisions(s, Command[r])
  BY <1>1 DEF Own, Faithful, Envelope
<1>3. batch[r] \in Seq(Data)
  BY <1>2 DEF Decisions
<1>4. Inserted(s, version[r], batch[r]) = s \o batch[r]
  BY <1>1, <1>2, <1>3, InsertedAtEnd
<1> QED
  BY <1>2, <1>4 DEF Visible

\* What was a state of a stream stays one when the stream grows.
LEMMA FaithfulGrows ==
  ASSUME NEW s \in Seq(Data), NEW b \in Seq(Data),
         NEW x \in Snapshot, Faithful(x, s)
  PROVE  Faithful(x, s \o b)
<1>1. /\ Len(s) \in Nat /\ Len(b) \in Nat
      /\ Len(s \o b) = Len(s) + Len(b)
      /\ \A i \in 1 .. Len(s) + Len(b) : (s \o b)[i] =
           IF i <= Len(s) THEN s[i] ELSE b[i - Len(s)]
  BY LenProperties, ConcatProperties
<1>2. x.version \in Nat /\ x.version <= Len(s)
  BY DEF Snapshot, Faithful
<1>3. x.version <= Len(s \o b)
  BY <1>1, <1>2
<1>4. ASSUME NEW i \in 1 .. x.version
      PROVE  (s \o b)[i] = s[i]
  <2>1. i \in 1 .. Len(s) + Len(b) /\ i <= Len(s)
    BY <1>1, <1>2
  <2> QED
    BY <1>1, <2>1
<1> QED
  BY <1>3, <1>4 DEF Faithful

LEMMA CommitKeepsInv ==
  ASSUME Inv, NEW r \in Requests, pc[r] = "commit",
         events' = Visible(r),
         pc' \in [Requests -> Places], pc'[r] = "committed",
         \A q \in Requests \ {r} : pc'[q] \in {pc[q], "lost"},
         UNCHANGED <<snapshots, state, version, batch, reply>>
  PROVE  Inv'
<1> DEFINE a == Target[r]
           s == events[a]
           b == batch[r]
<1>1. /\ a \in Aggregates /\ s \in Seq(Data)
      /\ events' = [events EXCEPT ![a] = s \o b]
      /\ b \in Seq(Data)
  BY ConstantsAssumption, GaplessIsSeq, VisibleAppends
  DEF Inv, StreamsContiguous, ConstantsAssumption, Decisions
<1>2. /\ DOMAIN events' = Aggregates
      /\ events'[a] = s \o b
      /\ \A c \in Aggregates \ {a} : events'[c] = events[c]
  BY <1>1 DEF Inv, TypeOK
<1>3. StreamsContiguous'
  <2>1. s \o b \in Seq(Data)
    BY <1>1, ConcatProperties
  <2> QED
    BY <1>2, <2>1, GaplessIsSeq DEF Inv, StreamsContiguous
<1>4. TypeOK'
  <2>1. \A c \in Aggregates : IsStream(events'[c])
    BY <1>3, SeqIsStream, GaplessIsSeq DEF StreamsContiguous
  <2> QED
    BY <1>2, <2>1 DEF Inv, TypeOK, Places
<1>5. ASSUME NEW c \in Aggregates, NEW x \in Snapshot, Faithful(x, events[c])
      PROVE  Faithful(x, events'[c])
  <2>1. CASE c = a
    BY <1>1, <1>2, <1>5, <2>1, FaithfulGrows
  <2>2. CASE c # a
    BY <1>2, <1>5, <2>2
  <2> QED
    BY <2>1, <2>2
<1>6. SnapshotsFaithful'
  BY <1>5 DEF Inv, TypeOK, SnapshotsFaithful
<1>7. ASSUME NEW q \in Requests
      PROVE  Own(q)'
  <2>1. Own(q) /\ Target[q] \in Aggregates
    BY ConstantsAssumption, InvByRequest DEF ConstantsAssumption
  <2>2. Faithful(Envelope(q), events[Target[q]])'
    <3>1. Envelope(q) \in Snapshot /\ Envelope(q)' = Envelope(q)
      BY DEF Inv, TypeOK, Envelope, Snapshot
    <3>2. Faithful(Envelope(q), events'[Target[q]])
      BY <1>5, <2>1, <3>1 DEF Own
    <3> QED
      BY <3>1, <3>2 DEF Faithful
  <2>3. CASE q = r
    BY <2>2, <2>3 DEF Own
  <2>4. CASE q # r
    <3>1. pc'[q] \in {pc[q], "lost"}
      BY <2>4
    <3>2. ASSUME pc'[q] = "commit"
          PROVE  /\ state'[q] = events'[Target[q]]
                 /\ \A p \in Requests :
                      pc'[p] = "commit" /\ Target[p] = Target[q] => p = q
      <4>1. pc[q] = "commit" /\ Target[q] # a
        BY <2>1, <2>4, <3>1, <3>2 DEF Own
      <4>2. state'[q] = events'[Target[q]]
        BY <1>2, <2>1, <4>1 DEF Own
      <4>3. ASSUME NEW p \in Requests, pc'[p] = "commit"
            PROVE  pc[p] = "commit"
        BY <4>3
      <4> QED
        BY <2>1, <4>1, <4>2, <4>3 DEF Own
    <3>3. DOMAIN events[Target[q]] \subseteq DOMAIN events'[Target[q]]
      <4>1. DOMAIN s \subseteq DOMAIN (s \o b)
        BY <1>1, AppendGrows
      <4> QED
        BY <1>2, <2>1, <4>1
    <3> QED
      BY <2>1, <2>2, <3>1, <3>2, <3>3
      DEF Own, Admissible, Decisions, Claimed
  <2> QED
    BY <2>3, <2>4
<1> QED
  BY <1>3, <1>4, <1>6, <1>7
  DEF Inv, Own, InstancesFaithful, RehydrationsSound, DecisionsSound,
      OpenTransactionsExclusive, DroppedOnlyForARival

LEMMA CommitTransactionKeepsInv ==
  ASSUME Inv, NEW r \in Requests, CommitTransaction(r)
  PROVE  Inv'
<1>1. /\ pc[r] = "commit" /\ events' = Visible(r)
      /\ pc' = [pc EXCEPT ![r] = "committed"]
      /\ UNCHANGED <<snapshots, state, version, batch, reply>>
  BY DEF CommitTransaction, Goto
<1>2. pc \in [Requests -> Places]
  BY DEF Inv, TypeOK, Places
<1>3. /\ pc' \in [Requests -> Places] /\ pc'[r] = "committed"
      /\ \A q \in Requests \ {r} : pc'[q] \in {pc[q], "lost"}
  BY <1>1, <1>2 DEF Places, Terminal
<1> QED
  BY <1>1, <1>3, CommitKeepsInv

LEMMA CommitOutcomeUnknownKeepsInv ==
  ASSUME Inv, NEW r \in Requests, CommitOutcomeUnknown(r)
  PROVE  Inv'
<1>1. /\ pc[r] = "commit" /\ events' = Visible(r)
      /\ pc' = [Killed(Host[r]) EXCEPT ![r] = "committed"]
      /\ UNCHANGED <<snapshots, state, version, batch, reply>>
  BY DEF CommitOutcomeUnknown
<1>2. pc \in [Requests -> Places]
  BY DEF Inv, TypeOK, Places
<1>3. Killed(Host[r]) \in [Requests -> Places]
  BY <1>2 DEF Killed, Places, Terminal
<1>4. \A q \in Requests : Killed(Host[r])[q] \in {pc[q], "lost"}
  BY DEF Killed
<1>5. /\ pc' \in [Requests -> Places] /\ pc'[r] = "committed"
      /\ \A q \in Requests \ {r} : pc'[q] \in {pc[q], "lost"}
  BY <1>1, <1>3, <1>4 DEF Places, Terminal
<1> QED
  BY <1>1, <1>5, CommitKeepsInv

LEMMA InitInv == Init => Inv
<1> SUFFICES ASSUME Init PROVE Inv
  OBVIOUS
<1>1. \A a \in Aggregates : events[a] = <<>> /\ snapshots[a] = {}
  BY DEF Init
<1>2. <<>> \in Seq(Data) /\ Len(<<>>) = 0
  OBVIOUS
<1>3. StreamsContiguous /\ SnapshotsFaithful
  BY <1>1, <1>2, GaplessIsSeq DEF StreamsContiguous, SnapshotsFaithful
<1>4. TypeOK
  BY <1>1, <1>2, <1>3, StreamsAreStreams DEF Init, TypeOK, Replies
<1>5. ASSUME NEW r \in Requests
      PROVE  Own(r)
  BY <1>1, <1>2, ConstantsAssumption
  DEF Init, Own, Faithful, Envelope, ConstantsAssumption
<1> QED
  BY <1>3, <1>4, <1>5, InvByRequest

LEMMA NextKeepsInv == Inv /\ [Next]_vars => Inv'
<1> SUFFICES ASSUME Inv, [Next]_vars PROVE Inv'
  OBVIOUS
<1>1. ASSUME NEW r \in Requests, Receive(r) PROVE Inv'
  BY <1>1, ReceiveKeepsInv
<1>2. ASSUME NEW r \in Requests, Proceed(r) PROVE Inv'
  <2>1. CASE LoadSnapshot(r)
    BY <2>1, LoadSnapshotKeepsInv
  <2>2. CASE LoadEvents(r)
    BY <2>2, LoadEventsKeepsInv
  <2>3. CASE SaveSnapshot(r)
    BY <2>3, SaveSnapshotKeepsInv
  <2>4. CASE InsertMany(r)
    BY <2>4, InsertManyKeepsInv
  <2>5. CASE DuplicateKey(r)
    BY <2>5, DuplicateKeyKeepsInv
  <2>6. CASE WriteConflict(r)
    BY <2>6, KilledKeepsInv DEF WriteConflict, RejectUnhandled
  <2>7. CASE CommitTransaction(r)
    BY <2>7, CommitTransactionKeepsInv
  <2> QED
    BY <1>2, <2>1, <2>2, <2>3, <2>4, <2>5, <2>6, <2>7 DEF Proceed
<1>3. ASSUME NEW r \in Requests, Break(r) PROVE Inv'
  <2>1. CASE LoadSnapshotFails(r)
    BY <2>1, LoadSnapshotFailsKeepsInv
  <2>2. CASE LoadEventsFails(r)
    BY <2>2, LoadEventsFailsKeepsInv
  <2>3. CASE SaveSnapshotFails(r)
    BY <2>3, SaveSnapshotFailsKeepsInv
  <2>4. CASE PersistFails(r)
    BY <2>4, KilledKeepsInv DEF PersistFails, RejectUnhandled
  <2>5. CASE CommitOutcomeUnknown(r)
    BY <2>5, CommitOutcomeUnknownKeepsInv
  <2> QED
    BY <1>3, <2>1, <2>2, <2>3, <2>4, <2>5 DEF Break
<1>4. ASSUME NEW i \in Hosts, Crash(i) PROVE Inv'
  BY <1>4, KilledKeepsInv DEF Crash
<1>5. CASE UNCHANGED vars
  BY <1>5
  DEF vars, Inv, TypeOK, StreamsContiguous, SnapshotsFaithful,
      InstancesFaithful, Envelope, RehydrationsSound, DecisionsSound,
      OpenTransactionsExclusive, DroppedOnlyForARival, Faithful, Decisions,
      Admissible, Claimed, IsStream, Snapshot, Position
<1> QED
  BY <1>1, <1>2, <1>3, <1>4, <1>5 DEF Next

-----------------------------------------------------------------------------
(* The theorems.                                                           *)

\* Inv holds in every reachable state.
THEOREM Invariance == Spec => []Inv
BY InitInv, NextKeepsInv, PTL DEF Spec

\* The types of the write side's state.
THEOREM TypeCorrectness == Spec => []TypeOK
<1>1. Inv => TypeOK
  BY DEF Inv
<1> QED
  BY <1>1, Invariance, PTL

\* No interleaving leaves a gap in a stream (event.schema.ts, publishAll).
THEOREM ContiguousStreams == Spec => []StreamsContiguous
<1>1. Inv => StreamsContiguous
  BY DEF Inv
<1> QED
  BY <1>1, Invariance, PTL

\* Every snapshot is a state of its stream (takeSnapshot).
THEOREM FaithfulSnapshots == Spec => []SnapshotsFaithful
<1>1. Inv => SnapshotsFaithful
  BY DEF Inv
<1> QED
  BY <1>1, Invariance, PTL

\* A batch is dropped only for a durable rival (persist).
THEOREM NoFalseAlarm == Spec => []DroppedOnlyForARival
<1>1. Inv => DroppedOnlyForARival
  BY DEF Inv
<1> QED
  BY <1>1, Invariance, PTL

\* Whatever is about to be committed was decided on all that is there.
THEOREM OptimisticConcurrency == Spec => []OpenTransactionsExclusive
<1>1. Inv => OpenTransactionsExclusive
  BY DEF Inv
<1> QED
  BY <1>1, Invariance, PTL

-----------------------------------------------------------------------------
(* The refinement: a commit takes effect, every other step stutters.       *)

LEMMA CommitTakesEffect ==
  ASSUME Inv, NEW r \in Requests, pc[r] = "commit",
         events' = Visible(r), pc'[r] = "committed",
         \A q \in Requests \ {r} :
           pc'[q] = "committed" <=> pc[q] = "committed"
  PROVE  Log!TakeEffect(r)
<1> DEFINE done == {q \in Requests : pc[q] = "committed"}
<1>1. r \notin done /\ done' = done \cup {r}
  OBVIOUS
<1>2. Log!Admissible(events[Target[r]], Command[r])
  BY VisibleAppends DEF Admissible, Log!Admissible
<1>3. batch[r] \in Log!Decisions(events[Target[r]], Command[r])
  BY VisibleAppends DEF Decisions, Log!Decisions
<1>4. events' = [events EXCEPT ![Target[r]] = @ \o batch[r]]
  BY VisibleAppends
<1> QED
  BY <1>1, <1>2, <1>3, <1>4 DEF Log!TakeEffect

LEMMA OtherStepsStutter ==
  ASSUME events' = events,
         \A q \in Requests : pc'[q] = "committed" <=> pc[q] = "committed"
  PROVE  UNCHANGED Log!vars
BY DEF Log!vars

LEMMA KilledCommitsNobody ==
  ASSUME NEW i, NEW q \in Requests
  PROVE  Killed(i)[q] = "committed" <=> pc[q] = "committed"
BY DEF Killed, Waiting

LEMMA GotoCommitsOnlyThere ==
  ASSUME Inv, NEW r \in Requests, NEW where, Goto(r, where),
         where # "committed", pc[r] # "committed"
  PROVE  \A q \in Requests : pc'[q] = "committed" <=> pc[q] = "committed"
BY DEF Goto, Inv, TypeOK

LEMMA DecideStutters ==
  ASSUME Inv, NEW r \in Requests, NEW h, NEW v, Decide(r, h, v),
         pc[r] # "committed", events' = events
  PROVE  UNCHANGED Log!vars
<1>1. Goto(r, "answered") \/ Goto(r, "insertMany")
  BY DEF Decide, Answer
<1>2. \A q \in Requests : pc'[q] = "committed" <=> pc[q] = "committed"
  BY <1>1, GotoCommitsOnlyThere
<1> QED
  BY <1>2, OtherStepsStutter

LEMMA InitRefines == Init => Log!Init
BY ConstantsAssumption DEF Init, Log!Init

LEMMA NextRefines == Inv /\ [Next]_vars => [Log!Next]_(Log!vars)
<1> SUFFICES ASSUME Inv, [Next]_vars
             PROVE  Log!Next \/ UNCHANGED Log!vars
  OBVIOUS
<1>1. ASSUME NEW r \in Requests, NEW where \in Places \ {"committed"},
             Goto(r, where), pc[r] # "committed", events' = events
      PROVE  UNCHANGED Log!vars
  BY <1>1, GotoCommitsOnlyThere, OtherStepsStutter
<1>2. ASSUME NEW i, pc' = Killed(i), events' = events
      PROVE  UNCHANGED Log!vars
  BY <1>2, KilledCommitsNobody, OtherStepsStutter
<1>3. ASSUME NEW r \in Requests, Receive(r)
      PROVE  UNCHANGED Log!vars
  BY <1>1, <1>3, DecideStutters DEF Receive, Places, Waiting
<1>4. ASSUME NEW r \in Requests, Proceed(r)
      PROVE  Log!Next \/ UNCHANGED Log!vars
  <2>1. CASE LoadSnapshot(r)
    BY <1>1, <2>1 DEF LoadSnapshot, Places, Waiting
  <2>2. CASE LoadEvents(r)
    BY <1>1, <2>2, DecideStutters
    DEF LoadEvents, Answer, Places, Waiting, Terminal
  <2>3. CASE SaveSnapshot(r)
    BY <2>3, DecideStutters DEF SaveSnapshot
  <2>4. CASE InsertMany(r)
    BY <1>1, <2>4 DEF InsertMany, Places, Waiting
  <2>5. CASE DuplicateKey(r)
    BY <1>1, <2>5 DEF DuplicateKey, Places, Terminal
  <2>6. CASE WriteConflict(r)
    BY <1>2, <2>6 DEF WriteConflict, RejectUnhandled
  <2>7. CASE CommitTransaction(r)
    <3>1. pc'[r] = "committed" /\ \A q \in Requests \ {r} : pc'[q] = pc[q]
      BY <2>7 DEF CommitTransaction, Goto, Inv, TypeOK
    <3>2. Log!TakeEffect(r)
      BY <2>7, <3>1, CommitTakesEffect DEF CommitTransaction
    <3> QED
      BY <3>2 DEF Log!Next
  <2> QED
    BY <1>4, <2>1, <2>2, <2>3, <2>4, <2>5, <2>6, <2>7 DEF Proceed
<1>5. ASSUME NEW r \in Requests, Break(r)
      PROVE  Log!Next \/ UNCHANGED Log!vars
  <2>1. CASE LoadSnapshotFails(r)
    BY <1>1, <2>1 DEF LoadSnapshotFails, Answer, Places, Waiting, Terminal
  <2>2. CASE LoadEventsFails(r)
    BY <1>1, <2>2 DEF LoadEventsFails, Answer, Places, Terminal
  <2>3. CASE SaveSnapshotFails(r)
    BY <2>3, DecideStutters DEF SaveSnapshotFails
  <2>4. CASE PersistFails(r)
    BY <1>2, <2>4 DEF PersistFails, RejectUnhandled
  <2>5. CASE CommitOutcomeUnknown(r)
    <3>1. /\ pc[r] = "commit" /\ events' = Visible(r)
          /\ pc' = [Killed(Host[r]) EXCEPT ![r] = "committed"]
      BY <2>5 DEF CommitOutcomeUnknown
    <3>2. pc'[r] = "committed"
      BY <3>1 DEF Killed
    <3>3. \A q \in Requests \ {r} : pc'[q] = Killed(Host[r])[q]
      BY <3>1 DEF Killed
    <3>4. Log!TakeEffect(r)
      BY <3>1, <3>2, <3>3, KilledCommitsNobody, CommitTakesEffect
    <3> QED
      BY <3>4 DEF Log!Next
  <2> QED
    BY <1>5, <2>1, <2>2, <2>3, <2>4, <2>5 DEF Break
<1>6. ASSUME NEW i \in Hosts, Crash(i)
      PROVE  UNCHANGED Log!vars
  BY <1>2, <1>6 DEF Crash
<1>7. CASE UNCHANGED vars
  BY <1>7, OtherStepsStutter DEF vars
<1> QED
  BY <1>3, <1>4, <1>5, <1>6, <1>7 DEF Next

\* The write side implements the abstract log: requests take effect at most
\* once, as a whole, and on the history they were decided on.
THEOREM Refinement == Spec => ImplementsEventLog
BY InitRefines, NextRefines, Invariance, PTL
DEF Spec, ImplementsEventLog, Log!Spec
=============================================================================
