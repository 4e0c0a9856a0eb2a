---------------------------- MODULE EventFormats ----------------------------
(***************************************************************************)
(* What becomes of an event between the class it is published with and    *)
(* the one it is read as, while processes of several releases share one   *)
(* collection: DomainEventSerializer, DomainEventClsRegistry,             *)
(* UpcasterRegistry and DomainEventDeserializer, on the two paths by       *)
(* which documents come back, the store (with upcasters) and the bridge   *)
(* (without).                                                              *)
(*                                                                         *)
(* A document has the name of its class and the layout of its attributes, *)
(* but no version: the serializer strips it.  An upcaster recognises the  *)
(* layout it is written for and leaves every other alone.                 *)
(***************************************************************************)
EXTENDS Naturals, Sequences

CONSTANTS
  Hosts,
  Names,        \* of event classes
  Classes,      \* release |-> the event classes, in the order they register:
                \* [name, layout]
  Upcasters,    \* release |-> its upcasters, in the order they register:
                \* [name, from, to]
  MaxDocuments  \* bound of the collection

Releases == DOMAIN Classes

ASSUME FormatsAssumption ==
  /\ Classes \in Seq(Seq([name : Names, layout : Nat \ {0}]))
  /\ Upcasters \in [Releases -> Seq([name : Names, from : Nat, to : Nat])]
  /\ MaxDocuments \in Nat

VARIABLES
  release,    \* what each process runs; 0: it is down
  documents,  \* the collection, in the order of insertion; `by` is history:
              \* the release that wrote a document
  seen,       \* how far each process's change stream has come
  outcome     \* history: the last read and what came of it

formatsVars == <<release, documents, seen, outcome>>

NoRead == [path |-> "none"]

InitFormats ==
  /\ release = [i \in Hosts |-> 0]
  /\ documents = <<>>
  /\ seen = [i \in Hosts |-> 0]
  /\ outcome = NoRead

-----------------------------------------------------------------------------

\* Seeded fault: the last class of a release has lost its decorator.
RegisteredButLast(r) == {Classes[r][k].name : k \in 1 .. Len(Classes[r]) - 1}

\* The names register() is called with.
Registered(r) == {Classes[r][k].name : k \in DOMAIN Classes[r]}

\* The classes of release r that have name n.
Called(r, n) == {k \in DOMAIN Classes[r] : Classes[r][k].name = n}

\* Seeded fault: a class replaces an earlier one of its name.
LastLayout(r, n) ==
  Classes[r][CHOOSE k \in Called(r, n) : \A j \in Called(r, n) : j <= k].layout

\* DomainEventClsRegistry.register(): the first class of a name stays.
Layout(r, n) ==
  Classes[r][CHOOSE k \in Called(r, n) : \A j \in Called(r, n) : k <= j].layout

\* What upcaster u makes of the attributes of an event called n: it supports
\* the name, and recognises the layout, or leaves them alone.
UpcastedBy(u, n, layout) ==
  IF u.name = n /\ u.from = layout THEN u.to ELSE layout

\* Seeded fault: the upcaster that was registered last comes first.
MigratedInReverse(r, document) ==
  LET after[k \in 0 .. Len(Upcasters[r])] ==
        IF k = 0 THEN document.layout
        ELSE UpcastedBy(Upcasters[r][Len(Upcasters[r]) + 1 - k], document.name, after[k - 1])
  IN [document EXCEPT !.layout = after[Len(Upcasters[r])]]

\* The layout after all upcasters, one after the other, as registered.
Migrated(r, document) ==
  LET after[k \in 0 .. Len(Upcasters[r])] ==
        IF k = 0 THEN document.layout
        ELSE UpcastedBy(Upcasters[r][k], document.name, after[k - 1])
  IN [document EXCEPT !.layout = after[Len(Upcasters[r])]]

\* deserialize(): an instance of the registered class, with whatever
\* attributes the document has; without a class it throws.
Deserialized(r, document) ==
  IF document.name \in Registered(r)
  THEN [class |-> Layout(r, document.name), attributes |-> document.layout]
  ELSE [class |-> 0, attributes |-> document.layout]

Throws(instance) == instance.class = 0
Sound(instance) == instance.class = instance.attributes

Read(path, r, k, instance) ==
  outcome' = [path |-> path, release |-> r, by |-> documents[k].by, instance |-> instance]

-----------------------------------------------------------------------------

\* Process i starts with release r, and watches from now on.
Start(i, r) ==
  /\ release[i] = 0
  /\ release' = [release EXCEPT ![i] = r]
  /\ seen' = [seen EXCEPT ![i] = Len(documents)]
  /\ outcome' = NoRead
  /\ UNCHANGED documents

\* It ends, or is replaced.
Stop(i) ==
  /\ release[i] # 0
  /\ release' = [release EXCEPT ![i] = 0]
  /\ outcome' = NoRead
  /\ UNCHANGED <<documents, seen>>

\* What the application of release r publishes: of each name, the newest.
Newest(r) ==
  {k \in DOMAIN Classes[r] :
     \A j \in Called(r, Classes[r][k].name) : Classes[r][j].layout <= Classes[r][k].layout}

\* serialize(): the name of the class and the attributes; neither version
\* nor type of the event is kept.
Serialized(cls, r) == [name |-> cls.name, layout |-> cls.layout, by |-> r]

\* It publishes an event of its k-th class.
Publish(i, k) ==
  /\ release[i] # 0
  /\ k \in Newest(release[i])
  /\ Len(documents) < MaxDocuments
  /\ documents' = Append(documents, Serialized(Classes[release[i]][k], release[i]))
  /\ outcome' = NoRead
  /\ UNCHANGED <<release, seen>>

\* It loads the k-th document as part of a stream; a throw rejects the
\* command that needs it.
Load(i, k) ==
  /\ release[i] # 0
  /\ Read("store", release[i], k, Deserialized(release[i], Migrated(release[i], documents[k])))
  /\ UNCHANGED <<release, documents, seen>>

\* Its change stream emits the next document.  A throw in the listener ends
\* the process.
Emit(i) ==
  LET k == seen[i] + 1 IN
  /\ release[i] # 0
  /\ seen[i] < Len(documents)
  /\ Read("bridge", release[i], k, Deserialized(release[i], documents[k]))
  /\ seen' = [seen EXCEPT ![i] = k]
  /\ release' = IF Throws(outcome'.instance) THEN [release EXCEPT ![i] = 0] ELSE release
  /\ UNCHANGED documents

NextFormats ==
  \E i \in Hosts :
    \/ \E r \in Releases : Start(i, r)
    \/ Stop(i)
    \/ \E r \in Releases : \E k \in DOMAIN Classes[r] : Publish(i, k)
    \/ \E k \in DOMAIN documents : Load(i, k)
    \/ Emit(i)

FormatsSpec == InitFormats /\ [][NextFormats]_formatsVars

-----------------------------------------------------------------------------
(* The rules by which an application has to evolve.                        *)

\* Of several classes of one name, the newest registers first.
NewestFirst ==
  \A r \in Releases : \A j, k \in DOMAIN Classes[r] :
    j < k /\ Classes[r][j].name = Classes[r][k].name =>
      Classes[r][k].layout <= Classes[r][j].layout

\* No release gives up the events of an earlier one.
NamesStay ==
  \A s, r \in Releases : s <= r =>
    \A k \in DOMAIN Classes[s] : \E j \in DOMAIN Classes[r] :
      Classes[r][j].name = Classes[s][k].name

\* Release r has an upcaster for layout l of name n, later than its m-th.
Continued(r, m, n, l) ==
  \E u \in DOMAIN Upcasters[r] :
    u > m /\ Upcasters[r][u].name = n /\ Upcasters[r][u].from = l

\* For every layout a release or an earlier one publishes, it has it or an
\* upcaster, which leads to its own layout, or to a later upcaster.
UpcastersLead ==
  \A r \in Releases : \A k \in Newest(r) :
    LET n == Classes[r][k].name
        own == Classes[r][k].layout
    IN /\ \A s \in Releases : \A j \in Newest(s) :
            s <= r /\ Classes[s][j].name = n =>
              Classes[s][j].layout = own \/ Continued(r, 0, n, Classes[s][j].layout)
       /\ \A m \in DOMAIN Upcasters[r] :
            Upcasters[r][m].name = n =>
              /\ Upcasters[r][m].from # own
              /\ Upcasters[r][m].to = own \/ Continued(r, m, n, Upcasters[r][m].to)

-----------------------------------------------------------------------------
(* Correctness.                                                            *)

\* A stream can always be loaded by the release that wrote it and by every
\* later one, and its events have the layout of their classes by then,
\* whichever releases wrote and read it in between (upcasters; the history
\* of an aggregate mixes the layouts of all releases).
OldStreamsLoad ==
  outcome.path = "store" /\ outcome.by <= outcome.release => Sound(outcome.instance)

\* A process is ended by the change stream only in a rolling deployment, by
\* a document of a release later than its own.
EndedOnlyByNewer ==
  outcome.path = "bridge" /\ Throws(outcome.instance) => outcome.by > outcome.release

\* The handlers of a process see an event of its own release as the class
\* they were written for, although the bridge does not upcast.
OwnEventsSound ==
  outcome.path = "bridge" /\ outcome.by = outcome.release => Sound(outcome.instance)

\* The inductive invariant: what is in the collection was published by one
\* of the releases.
FormatsInv ==
  /\ release \in [Hosts -> {0} \cup Releases]
  /\ seen \in [Hosts -> Nat]
  /\ documents \in Seq([name : Names, layout : Nat, by : Releases])
  /\ \A k \in DOMAIN documents : \E j \in Newest(documents[k].by) :
       documents[k] = Serialized(Classes[documents[k].by][j], documents[k].by)
=============================================================================
