-------------------------- MODULE MaterializedViews --------------------------
(***************************************************************************)
(* MaterializedViewManager and AutoViewInvalidator in one process: views   *)
(* are computed by asynchronous factories, cached with a time to live, and *)
(* dropped when an event concerns them.                                    *)
(*                                                                         *)
(* A request is one call of getOrCreate(), cut at its awaits:              *)
(*                                                                         *)
(*   idle --> running --> computed --> done                                *)
(*    '------------- hit ---------------^                                  *)
(*                                                                         *)
(* The data of a view are the events it takes account of.  What a factory  *)
(* reads is the read model, which the projectors update on their own: an   *)
(* event reaches them and the invalidator in either order.                 *)
(***************************************************************************)
EXTENDS Naturals, FiniteSets, Functions

CONSTANTS
  Requests,
  ViewOf,      \* the view a request asks for: <<prefix, account>>
  EventOf,     \* the events: [type, account]
  Strategies,  \* the invalidation strategies that are registered
  Ttl          \* the views that are created with a time to live

Views == {ViewOf[r] : r \in Requests}
Events == DOMAIN EventOf
Accounts == {v[2] : v \in Views}

\* The name that stands for all views.
Star == <<"*">>

ASSUME ConstantsAssumption ==
  /\ ViewOf \in [Requests -> Views]
  /\ EventOf = [k \in Events |-> EventOf[k]]
  /\ Star \notin Views
  /\ Ttl \subseteq Views

VARIABLES
  cache,        \* the views in the manager's map
  stage,        \* where each request is
  draft,        \* the data a request's factory has read
  overlapped,   \* history: invalidations during a request's factory
  projected,    \* the events the read model takes account of
  invalidated,  \* the events the invalidator has handled
  early         \* history: those it has handled before the projectors

vars == <<cache, stage, draft, overlapped, projected, invalidated, early>>

\* A CachedView; missed is history: the events whose invalidation came while
\* its factory was running.
Entry == [data : SUBSET Events, missed : SUBSET Events,
          ttl : BOOLEAN, expired : BOOLEAN]

TypeOK ==
  /\ DOMAIN cache \subseteq Views
  /\ \A v \in DOMAIN cache :
       /\ cache[v] \in Entry
       /\ cache[v].expired => cache[v].ttl
       /\ cache[v].ttl => v \in Ttl
  /\ stage \in [Requests -> {"idle", "running", "computed", "done", "failed"}]
  /\ draft \in [Requests -> SUBSET Events]
  /\ overlapped \in [Requests -> SUBSET Events]
  /\ projected \subseteq Events
  /\ invalidated \subseteq Events
  /\ early \subseteq invalidated

Init ==
  /\ cache = <<>>
  /\ stage = [r \in Requests |-> "idle"]
  /\ draft = [r \in Requests |-> {}]
  /\ overlapped = [r \in Requests |-> {}]
  /\ projected = {}
  /\ invalidated = {}
  /\ early = {}

-----------------------------------------------------------------------------
(* Which views an event concerns.                                          *)

\* getViewsToInvalidate() of the three strategies.
Named(s, e) ==
  CASE s.kind = "AggregateId"   -> {<<s.prefix, e.account>>}
    [] s.kind = "EventType"     -> IF e.type \in DOMAIN s.map THEN s.map[e.type] ELSE {}
    [] s.kind = "InvalidateAll" -> {Star}

\* The views handleEvent() invalidates for event k.
Concerns(k) ==
  LET names == UNION {Named(s, EventOf[k]) : s \in Strategies}
  IN IF Star \in names THEN Views ELSE Views \cap names

\* Seeded fault: only one of the views is dropped.
WithoutFirst(V) ==
  IF V = {} THEN cache ELSE Restrict(cache, DOMAIN cache \ {CHOOSE v \in V : TRUE})

\* The map without the views of V.
Without(V) == Restrict(cache, DOMAIN cache \ V)

\* getOrCreate() finds an entry that has not expired.
Hit(v) == v \in DOMAIN cache /\ ~cache[v].expired

\* The call of r ends, and its factory's variables with it.
Ends(r, how) ==
  /\ stage' = [stage EXCEPT ![r] = how]
  /\ draft' = [draft EXCEPT ![r] = {}]
  /\ overlapped' = [overlapped EXCEPT ![r] = {}]

-----------------------------------------------------------------------------

\* getOrCreate() returns the cached view, or starts the factory.
Get(r) ==
  /\ stage[r] = "idle"
  /\ stage' = [stage EXCEPT ![r] = IF Hit(ViewOf[r]) THEN "done" ELSE "running"]
  /\ UNCHANGED <<cache, draft, overlapped, projected, invalidated, early>>

\* The factory reads the read model.
Compute(r) ==
  /\ stage[r] = "running"
  /\ stage' = [stage EXCEPT ![r] = "computed"]
  /\ draft' = [draft EXCEPT ![r] = projected]
  /\ UNCHANGED <<cache, overlapped, projected, invalidated, early>>

\* Seeded fault: the entry is stored without its time to live.
PutForever(r) ==
  /\ stage[r] = "computed"
  /\ Ends(r, "done")
  /\ cache' = [v \in DOMAIN cache \cup {ViewOf[r]} |->
                 IF v = ViewOf[r]
                 THEN [data |-> draft[r], missed |-> overlapped[r],
                       ttl |-> FALSE, expired |-> FALSE]
                 ELSE cache[v]]
  /\ UNCHANGED <<projected, invalidated, early>>

\* The factory resolves: its result is cached, over whatever is there.
Put(r) ==
  /\ stage[r] = "computed"
  /\ Ends(r, "done")
  /\ cache' = [v \in DOMAIN cache \cup {ViewOf[r]} |->
                 IF v = ViewOf[r]
                 THEN [data |-> draft[r], missed |-> overlapped[r],
                       ttl |-> v \in Ttl, expired |-> FALSE]
                 ELSE cache[v]]
  /\ UNCHANGED <<projected, invalidated, early>>

\* The factory rejects: nothing is cached.
FactoryFails(r) ==
  /\ stage[r] \in {"running", "computed"}
  /\ Ends(r, "failed")
  /\ UNCHANGED <<cache, projected, invalidated, early>>

\* The projectors bring the read model up to event k.
Project(k) ==
  /\ k \notin projected
  /\ projected' = projected \cup {k}
  /\ UNCHANGED <<cache, stage, draft, overlapped, invalidated, early>>

\* handleEvent(k): every view it concerns leaves the cache.
HandleEvent(k) ==
  /\ k \notin invalidated
  /\ invalidated' = invalidated \cup {k}
  /\ cache' = Without(Concerns(k))
  /\ overlapped' = [r \in Requests |->
                      IF stage[r] \in {"running", "computed"}
                      THEN overlapped[r] \cup {k} ELSE overlapped[r]]
  /\ early' = IF k \in projected THEN early ELSE early \cup {k}
  /\ UNCHANGED <<stage, draft, projected>>

\* invalidateAccount(a): invalidatePattern() with the pattern of account a.
InvalidateAccount(a) ==
  /\ cache' = Without({v \in Views : v[2] = a})
  /\ UNCHANGED <<stage, draft, overlapped, projected, invalidated, early>>

\* Seeded fault: a view without a time to live counts as expired.
ExpireAny(v) ==
  /\ v \in DOMAIN cache
  /\ cache' = [cache EXCEPT ![v].expired = TRUE]
  /\ UNCHANGED <<stage, draft, overlapped, projected, invalidated, early>>

\* The time to live of an entry ends; isExpired() says so from now on.
Expire(v) ==
  /\ v \in DOMAIN cache
  /\ cache[v].ttl
  /\ cache' = [cache EXCEPT ![v].expired = TRUE]
  /\ UNCHANGED <<stage, draft, overlapped, projected, invalidated, early>>

\* cleanup() removes what has expired.
Cleanup ==
  /\ cache' = Without({v \in DOMAIN cache : cache[v].expired})
  /\ UNCHANGED <<stage, draft, overlapped, projected, invalidated, early>>

Next ==
  \/ \E r \in Requests : Get(r) \/ Compute(r) \/ Put(r) \/ FactoryFails(r)
  \/ \E k \in Events : Project(k) \/ HandleEvent(k)
  \/ \E a \in Accounts : InvalidateAccount(a)
  \/ \E v \in Views : Expire(v)
  \/ Cleanup

Spec == Init /\ [][Next]_vars

\* Time passes.
FairSpec == Spec /\ \A v \in Views : WF_vars(Expire(v))
-----------------------------------------------------------------------------
(* Correctness.                                                            *)

\* The events that a cached view should take account of and does not.
Lacks(v) == {k \in projected \ cache[v].data : v \in Concerns(k)}

\* A cached view lacks an event only for one of three reasons: the
\* invalidator has yet to handle it, has handled it before the read model
\* had it, or has handled it while the factory of this very entry was
\* running. An entry whose factory began after the invalidation is never
\* stale, whatever other factories, expiry and cleanup do to the cache.
StaleOnlyIfRaced ==
  \A v \in DOMAIN cache :
    Lacks(v) \subseteq (Events \ invalidated) \cup early \cup cache[v].missed

\* The staleness that a race leaves behind is not served for ever, if the
\* view was created with a time to live (isExpired).
Stale(v) == Hit(v) /\ Lacks(v) # {}

StaleDataExpires == \A v \in Ttl : Stale(v) ~> ~Stale(v)

\* What StaleOnlyIfRaced rests on: an event that the invalidator has handled
\* and the read model does not have is early, and what a factory has read, or
\* is going to read, lacks no other event than the races allow.
EarlyIsKnown == invalidated \ projected \subseteq early

DraftsSound ==
  \A r \in Requests : \A k \in invalidated :
    \/ ViewOf[r] \notin Concerns(k)
    \/ k \in early \cup overlapped[r]
    \/ stage[r] # "computed"
    \/ k \in draft[r]

Inv == TypeOK /\ StaleOnlyIfRaced /\ EarlyIsKnown /\ DraftsSound
=============================================================================
