----------------------- MODULE MaterializedViewsProofs -----------------------
(***************************************************************************)
(* Proofs about MaterializedViews, for any views, events, strategies and   *)
(* number of concurrent factories: a cached view is only stale if its own  *)
(* factory, or the read model, raced with an invalidation.                 *)
(***************************************************************************)
EXTENDS MaterializedViews, TLAPS

Stages == {"idle", "running", "computed", "done", "failed"}

LEMMA InitInv == Init => Inv
<1>. SUFFICES ASSUME Init PROVE Inv
  OBVIOUS
<1>1. DOMAIN cache = {}
  BY DEF Init
<1>2. TypeOK
  BY <1>1 DEF Init, TypeOK
<1>3. StaleOnlyIfRaced
  BY <1>1 DEF StaleOnlyIfRaced
<1>4. EarlyIsKnown /\ DraftsSound
  BY DEF Init, EarlyIsKnown, DraftsSound
<1>. QED BY <1>2, <1>3, <1>4 DEF Inv

\* What StaleOnlyIfRaced says of one entry, in the terms of DraftsSound.
Sound(x, v) ==
  \A k \in invalidated :
    v \in Concerns(k) => k \in early \cup x.missed \cup x.data

LEMMA StaleByEntry ==
  ASSUME TypeOK, EarlyIsKnown
  PROVE  StaleOnlyIfRaced <=> \A v \in DOMAIN cache : Sound(cache[v], v)
<1>1. ASSUME StaleOnlyIfRaced, NEW v \in DOMAIN cache
      PROVE  Sound(cache[v], v)
  <2>. SUFFICES ASSUME NEW k \in invalidated, v \in Concerns(k),
                       k \notin early, k \notin cache[v].data
                PROVE  k \in cache[v].missed
    BY DEF Sound
  <2>1. k \in projected
    BY DEF EarlyIsKnown
  <2>2. k \in Lacks(v)
    BY <2>1 DEF Lacks
  <2>. QED BY <1>1, <2>2 DEF StaleOnlyIfRaced
<1>2. ASSUME \A v \in DOMAIN cache : Sound(cache[v], v)
      PROVE  StaleOnlyIfRaced
  <2>. SUFFICES ASSUME NEW v \in DOMAIN cache, NEW k \in Lacks(v)
                PROVE  k \in (Events \ invalidated) \cup early \cup cache[v].missed
    BY DEF StaleOnlyIfRaced
  <2>1. k \in Events /\ k \notin cache[v].data /\ v \in Concerns(k)
    BY DEF Lacks, TypeOK
  <2>. QED BY <1>2, <2>1 DEF Sound
<1>. QED BY <1>1, <1>2

-----------------------------------------------------------------------------
(* Steps that leave the events alone.                                      *)

\* A step that adds no entry and changes at most which ones have expired.
LEMMA OldEntriesStaySound ==
  ASSUME Inv, UNCHANGED <<projected, invalidated, early>>,
         DOMAIN cache' \subseteq DOMAIN cache,
         \A v \in DOMAIN cache' : /\ cache'[v].data = cache[v].data
                                  /\ cache'[v].missed = cache[v].missed
  PROVE  StaleOnlyIfRaced'
BY DEF Inv, StaleOnlyIfRaced, Lacks

LEMMA DroppingKeepsInv ==
  ASSUME Inv, NEW V, cache' = Without(V),
         UNCHANGED <<stage, draft, overlapped, projected, invalidated, early>>
  PROVE  Inv'
<1>1. /\ DOMAIN cache' \subseteq DOMAIN cache
      /\ \A v \in DOMAIN cache' : cache'[v] = cache[v]
  BY DEF Without, Restrict
<1>2. TypeOK'
  BY <1>1 DEF Inv, TypeOK
<1>3. StaleOnlyIfRaced'
  BY <1>1, OldEntriesStaySound
<1>4. EarlyIsKnown' /\ DraftsSound'
  BY DEF Inv, EarlyIsKnown, DraftsSound
<1>. QED BY <1>2, <1>3, <1>4 DEF Inv

LEMMA GetKeepsInv ==
  ASSUME Inv, NEW r \in Requests, Get(r)
  PROVE  Inv'
<1>1. stage' \in [Requests -> Stages] /\ \A q \in Requests : stage'[q] = "computed" => stage[q] = "computed"
  BY DEF Inv, TypeOK, Get, Stages
<1>2. TypeOK'
  BY <1>1 DEF Inv, TypeOK, Get, Stages
<1>3. StaleOnlyIfRaced' /\ EarlyIsKnown'
  BY DEF Inv, Get, StaleOnlyIfRaced, Lacks, EarlyIsKnown
<1>4. DraftsSound'
  BY <1>1 DEF Inv, Get, DraftsSound
<1>. QED BY <1>2, <1>3, <1>4 DEF Inv

LEMMA ComputeKeepsInv ==
  ASSUME Inv, NEW r \in Requests, Compute(r)
  PROVE  Inv'
<1>1. TypeOK'
  BY DEF Inv, TypeOK, Compute
<1>2. StaleOnlyIfRaced' /\ EarlyIsKnown'
  BY DEF Inv, Compute, StaleOnlyIfRaced, Lacks, EarlyIsKnown
<1>3. DraftsSound'
  <2>. SUFFICES ASSUME NEW q \in Requests, NEW k \in invalidated,
                       ViewOf[q] \in Concerns(k),
                       k \notin early \cup overlapped[q],
                       stage'[q] = "computed"
                PROVE  k \in draft'[q]
    BY DEF Compute, DraftsSound
  <2>1. CASE q = r
    <3>1. draft'[r] = projected
      BY DEF Compute, Inv, TypeOK
    <3>. QED BY <2>1, <3>1 DEF Inv, EarlyIsKnown
  <2>2. CASE q # r
    <3>1. draft'[q] = draft[q] /\ stage[q] = "computed"
      BY <2>2 DEF Compute, Inv, TypeOK
    <3>. QED BY <3>1 DEF Inv, DraftsSound
  <2>. QED BY <2>1, <2>2
<1>. QED BY <1>1, <1>2, <1>3 DEF Inv

LEMMA EndsKeepsDrafts ==
  ASSUME Inv, NEW r \in Requests, NEW how \in {"done", "failed"}, Ends(r, how),
         UNCHANGED <<projected, invalidated, early>>
  PROVE  /\ stage' \in [Requests -> Stages]
         /\ draft' \in [Requests -> SUBSET Events]
         /\ overlapped' \in [Requests -> SUBSET Events]
         /\ DraftsSound'
<1>1. /\ stage' \in [Requests -> Stages]
      /\ draft' \in [Requests -> SUBSET Events]
      /\ overlapped' \in [Requests -> SUBSET Events]
  BY DEF Inv, TypeOK, Ends, Stages
<1>2. DraftsSound'
  <2>. SUFFICES ASSUME NEW q \in Requests, NEW k \in invalidated,
                       ViewOf[q] \in Concerns(k),
                       k \notin early \cup overlapped'[q],
                       stage'[q] = "computed"
                PROVE  k \in draft'[q]
    BY DEF DraftsSound
  <2>1. q # r
    BY DEF Ends, Inv, TypeOK
  <2>2. draft'[q] = draft[q] /\ overlapped'[q] = overlapped[q] /\ stage[q] = "computed"
    BY <2>1 DEF Ends, Inv, TypeOK
  <2>. QED BY <2>2 DEF Inv, DraftsSound
<1>. QED BY <1>1, <1>2

LEMMA PutKeepsInv ==
  ASSUME Inv, NEW r \in Requests, Put(r)
  PROVE  Inv'
<1>. DEFINE new == [data |-> draft[r], missed |-> overlapped[r],
                    ttl |-> ViewOf[r] \in Ttl, expired |-> FALSE]
<1>1. /\ DOMAIN cache' = DOMAIN cache \cup {ViewOf[r]}
      /\ cache'[ViewOf[r]] = new
      /\ \A v \in DOMAIN cache : v # ViewOf[r] => cache'[v] = cache[v]
  BY DEF Put
<1>2. new \in Entry
  BY DEF Inv, TypeOK, Entry
<1>3. /\ stage' \in [Requests -> Stages]
      /\ draft' \in [Requests -> SUBSET Events]
      /\ overlapped' \in [Requests -> SUBSET Events]
      /\ DraftsSound'
  BY EndsKeepsDrafts DEF Put
<1>4. ViewOf[r] \in Views
  BY DEF Views
<1>5. TypeOK'
  <2>1. DOMAIN cache' \subseteq Views
    BY <1>1, <1>4 DEF Inv, TypeOK
  <2>2. \A v \in DOMAIN cache' :
         /\ cache'[v] \in Entry
         /\ cache'[v].expired => cache'[v].ttl
         /\ cache'[v].ttl => v \in Ttl
    <3>1. new.expired = FALSE /\ (new.ttl => ViewOf[r] \in Ttl)
      OBVIOUS
    <3>. QED BY <1>1, <1>2, <3>1 DEF Inv, TypeOK
  <2>3. /\ projected' \subseteq Events
        /\ invalidated' \subseteq Events
        /\ early' \subseteq invalidated'
    BY DEF Put, Inv, TypeOK
  <2>. QED BY <1>3, <2>1, <2>2, <2>3, Zenon DEF TypeOK, Stages
<1>6. EarlyIsKnown'
  BY DEF Put, Inv, EarlyIsKnown
<1>7. \A v \in DOMAIN cache' : Sound(cache'[v], v)
  <2>1. Sound(new, ViewOf[r])
    BY DEF Sound, Put, Inv, DraftsSound
  <2>2. \A v \in DOMAIN cache : Sound(cache[v], v)
    BY StaleByEntry DEF Inv
  <2>. QED BY <1>1, <2>1, <2>2
<1>8. StaleOnlyIfRaced'
  <2>. SUFFICES ASSUME NEW v \in DOMAIN cache', NEW k \in Lacks(v)'
                PROVE  k \in (Events \ invalidated') \cup early' \cup cache'[v].missed
    BY DEF StaleOnlyIfRaced
  <2>1. k \in Events /\ k \notin cache'[v].data /\ v \in Concerns(k)
    BY <1>5 DEF Lacks, TypeOK
  <2>2. invalidated' = invalidated /\ early' = early
    BY DEF Put
  <2>. QED BY <1>7, <2>1, <2>2 DEF Sound
<1>. QED BY <1>3, <1>5, <1>6, <1>8 DEF Inv

LEMMA FactoryFailsKeepsInv ==
  ASSUME Inv, NEW r \in Requests, FactoryFails(r)
  PROVE  Inv'
<1>1. /\ stage' \in [Requests -> Stages]
      /\ draft' \in [Requests -> SUBSET Events]
      /\ overlapped' \in [Requests -> SUBSET Events]
      /\ DraftsSound'
  BY EndsKeepsDrafts DEF FactoryFails
<1>2. TypeOK'
  BY <1>1 DEF Inv, TypeOK, FactoryFails, Stages
<1>3. StaleOnlyIfRaced' /\ EarlyIsKnown'
  BY DEF Inv, FactoryFails, StaleOnlyIfRaced, Lacks, EarlyIsKnown
<1>. QED BY <1>1, <1>2, <1>3 DEF Inv

LEMMA ExpiredEntry ==
  ASSUME NEW x \in Entry
  PROVE  LET y == [x EXCEPT !.expired = TRUE] IN
         /\ y \in Entry
         /\ y.data = x.data /\ y.missed = x.missed /\ y.ttl = x.ttl
BY DEF Entry

LEMMA ExpireKeepsInv ==
  ASSUME Inv, NEW v \in Views, Expire(v)
  PROVE  Inv'
<1>1. /\ DOMAIN cache' = DOMAIN cache
      /\ cache'[v] = [cache[v] EXCEPT !.expired = TRUE]
      /\ \A w \in DOMAIN cache : w # v => cache'[w] = cache[w]
  BY Zenon DEF Expire
<1>2. cache[v] \in Entry
  BY DEF Expire, Inv, TypeOK
<1>3. /\ cache'[v] \in Entry
      /\ cache'[v].data = cache[v].data
      /\ cache'[v].missed = cache[v].missed
      /\ cache'[v].ttl = cache[v].ttl
  BY <1>1, <1>2, ExpiredEntry, Zenon
<1>4. UNCHANGED <<stage, draft, overlapped, projected, invalidated, early>>
  BY DEF Expire
<1>5. cache[v].ttl
  BY DEF Expire
<1>6. \A w \in DOMAIN cache' :
       /\ cache'[w] \in Entry
       /\ cache'[w].expired => cache'[w].ttl
       /\ cache'[w].ttl => w \in Ttl
  BY <1>1, <1>3, <1>5 DEF Inv, TypeOK
<1>7. DOMAIN cache' \subseteq Views
  BY <1>1 DEF Inv, TypeOK
<1>8. TypeOK'
  <2>1. /\ stage' \in [Requests -> Stages]
        /\ draft' \in [Requests -> SUBSET Events]
        /\ overlapped' \in [Requests -> SUBSET Events]
        /\ projected' \subseteq Events
        /\ invalidated' \subseteq Events
        /\ early' \subseteq invalidated'
    BY <1>4 DEF Inv, TypeOK, Stages
  <2>. QED BY <1>6, <1>7, <2>1 DEF TypeOK, Stages
<1>9. StaleOnlyIfRaced'
  BY <1>1, <1>3, <1>4, OldEntriesStaySound
<1>10. EarlyIsKnown' /\ DraftsSound'
  BY <1>4 DEF Inv, EarlyIsKnown, DraftsSound
<1>. QED BY <1>8, <1>9, <1>10 DEF Inv

-----------------------------------------------------------------------------
(* Steps of the events.                                                    *)

LEMMA ProjectKeepsInv ==
  ASSUME Inv, NEW k \in Events, Project(k)
  PROVE  Inv'
<1>1. TypeOK'
  BY DEF Inv, TypeOK, Project
<1>2. EarlyIsKnown' /\ DraftsSound'
  BY DEF Inv, Project, EarlyIsKnown, DraftsSound
<1>3. k \in invalidated => k \in early
  BY DEF Inv, Project, EarlyIsKnown
<1>4. StaleOnlyIfRaced'
  <2>. SUFFICES ASSUME NEW v \in DOMAIN cache, NEW j \in Lacks(v)'
                PROVE  j \in (Events \ invalidated) \cup early \cup cache[v].missed
    BY DEF StaleOnlyIfRaced, Project
  <2>1. j = k \/ j \in Lacks(v)
    BY DEF Lacks, Project
  <2>. QED BY <1>3, <2>1 DEF Inv, StaleOnlyIfRaced
<1>. QED BY <1>1, <1>2, <1>4 DEF Inv

LEMMA HandleEventKeepsInv ==
  ASSUME Inv, NEW k \in Events, HandleEvent(k)
  PROVE  Inv'
<1>1. /\ DOMAIN cache' = DOMAIN cache \ Concerns(k)
      /\ \A v \in DOMAIN cache' : cache'[v] = cache[v]
  BY DEF HandleEvent, Without, Restrict
<1>2. overlapped' \in [Requests -> SUBSET Events]
  BY DEF HandleEvent, Inv, TypeOK
<1>3. invalidated' = invalidated \cup {k} /\ early \subseteq early' /\ early' \subseteq invalidated'
  BY DEF HandleEvent, Inv, TypeOK
<1>4. TypeOK'
  BY <1>1, <1>2, <1>3 DEF HandleEvent, Inv, TypeOK
<1>5. EarlyIsKnown'
  BY DEF HandleEvent, Inv, EarlyIsKnown
<1>6. DraftsSound'
  <2>. SUFFICES ASSUME NEW q \in Requests, NEW j \in invalidated',
                       ViewOf[q] \in Concerns(j),
                       j \notin early' \cup overlapped'[q],
                       stage[q] = "computed"
                PROVE  j \in draft[q]
    BY DEF HandleEvent, DraftsSound
  <2>1. overlapped'[q] = overlapped[q] \cup {k}
    BY DEF HandleEvent
  <2>2. j \in invalidated /\ j \notin early
    BY <1>3, <2>1
  <2>. QED BY <2>1, <2>2 DEF Inv, DraftsSound
<1>7. StaleOnlyIfRaced'
  <2>. SUFFICES ASSUME NEW v \in DOMAIN cache', NEW j \in Lacks(v)'
                PROVE  j \in (Events \ invalidated') \cup early' \cup cache'[v].missed
    BY DEF StaleOnlyIfRaced
  <2>1. v \in DOMAIN cache /\ cache'[v] = cache[v] /\ v \notin Concerns(k)
    BY <1>1
  <2>2. j \in Lacks(v) /\ j # k
    BY <2>1 DEF Lacks, HandleEvent
  <2>. QED BY <1>3, <2>1, <2>2 DEF Inv, StaleOnlyIfRaced
<1>. QED BY <1>4, <1>5, <1>6, <1>7 DEF Inv

-----------------------------------------------------------------------------

LEMMA NextKeepsInv == Inv /\ [Next]_vars => Inv'
<1>. SUFFICES ASSUME Inv, [Next]_vars PROVE Inv'
  OBVIOUS
<1>1. ASSUME NEW r \in Requests, Get(r) PROVE Inv'
  BY <1>1, GetKeepsInv
<1>2. ASSUME NEW r \in Requests, Compute(r) PROVE Inv'
  BY <1>2, ComputeKeepsInv
<1>3. ASSUME NEW r \in Requests, Put(r) PROVE Inv'
  BY <1>3, PutKeepsInv
<1>4. ASSUME NEW r \in Requests, FactoryFails(r) PROVE Inv'
  BY <1>4, FactoryFailsKeepsInv
<1>5. ASSUME NEW k \in Events, Project(k) PROVE Inv'
  BY <1>5, ProjectKeepsInv
<1>6. ASSUME NEW k \in Events, HandleEvent(k) PROVE Inv'
  BY <1>6, HandleEventKeepsInv
<1>7. ASSUME NEW a \in Accounts, InvalidateAccount(a) PROVE Inv'
  BY <1>7, DroppingKeepsInv DEF InvalidateAccount
<1>8. ASSUME NEW v \in Views, Expire(v) PROVE Inv'
  BY <1>8, ExpireKeepsInv
<1>9. ASSUME Cleanup PROVE Inv'
  BY <1>9, DroppingKeepsInv DEF Cleanup
<1>10. ASSUME UNCHANGED vars PROVE Inv'
  BY <1>10 DEF vars, Inv, TypeOK, StaleOnlyIfRaced, Lacks, EarlyIsKnown, DraftsSound
<1>. QED BY <1>1, <1>2, <1>3, <1>4, <1>5, <1>6, <1>7, <1>8, <1>9, <1>10 DEF Next

\* The invariant is inductive (MaterializedViewManager, AutoViewInvalidator).
THEOREM Invariance == Spec => []Inv
BY InitInv, NextKeepsInv, PTL DEF Spec

\* A cached view lacks an event only if the invalidation of that event raced
\* with the read model or with the view's own factory (getOrCreate).
THEOREM StalenessIsARace == Spec => []StaleOnlyIfRaced
<1>1. Inv => StaleOnlyIfRaced
  BY DEF Inv
<1>. QED BY <1>1, Invariance, PTL

\* The entries of the cache are well formed; only views that were created
\* with a time to live expire (isExpired).
THEOREM TypeCorrectness == Spec => []TypeOK
<1>1. Inv => TypeOK
  BY DEF Inv
<1>. QED BY <1>1, Invariance, PTL
=============================================================================
