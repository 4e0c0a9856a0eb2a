------------------------------ MODULE MCLibrary ------------------------------
(***************************************************************************)
(* Instances, for TLC, of the parts of the library that stand alone: a     *)
(* behaviour is one of Upcasting, ParallelProcessor, SnapshotTimes or      *)
(* EventFormats, the other three staying where they began.                 *)
(***************************************************************************)
EXTENDS Upcasting, ParallelProcessor, SnapshotTimes, EventFormats, TLC

CONSTANTS c1, c2, a1, a2, a3

VARIABLE part

\* Every label, truthful or not, on the first two layouts of one type.
MCStored == [type : {"opened"}, label : 0 .. 2, layout : 1 .. 2]

\* Two calls with chunks of two; c2 has an aggregate twice in one chunk, and
\* repeats what c1 may have failed to publish.
MCWorkload == c1 :> <<a1, a2, a3, a1, a2>> @@ c2 :> <<a2, a2, a3, a1>>

MCStrategies == <<"count", "time">>

\* Three releases: the second adds an event, the second and third change the
\* layout of the first one and keep the old class.
Opened(layout) == [name |-> "opened", layout |-> layout]
Moved == [name |-> "moved", layout |-> 1]

MCClasses == <<  <<Opened(1)>>,
                 <<Opened(2), Opened(1), Moved>>,
                 <<Opened(3), Opened(2), Moved>>  >>

Opening(from, to) == [name |-> "opened", from |-> from, to |-> to]

MCUpcasters == << <<>>, <<Opening(1, 2)>>, <<Opening(1, 2), Opening(2, 3)>> >>

\* The releases are what the theorems about EventFormats take for granted.
ASSUME MCReleasesReadable == NewestFirst /\ NamesStay /\ UpcastersLead

LibraryInit ==
  /\ part \in {"upcasting", "parallel", "times", "formats"}
  /\ InitUpcasting /\ InitParallel /\ InitTimes /\ InitFormats
  /\ part # "upcasting" => read = [type |-> "opened", label |-> 1, layout |-> 1]

LibraryNext ==
  /\ UNCHANGED part
  /\ \/ part = "upcasting" /\ NextUpcasting
        /\ UNCHANGED <<parallelVars, timesVars, formatsVars>>
     \/ part = "parallel" /\ NextParallel
        /\ UNCHANGED <<upcastingVars, timesVars, formatsVars>>
     \/ part = "times" /\ NextTimes
        /\ UNCHANGED <<upcastingVars, parallelVars, formatsVars>>
     \/ part = "formats" /\ NextFormats
        /\ UNCHANGED <<upcastingVars, parallelVars, timesVars>>

LibrarySpec ==
  /\ LibraryInit
  /\ [][LibraryNext]_<<part, upcastingVars, parallelVars, timesVars, formatsVars>>
  /\ ParallelFairness
=============================================================================
