--------------------------- MODULE MCCommandFlow ---------------------------
(* An instance of CommandFlow for TLC that knows nothing of a domain:      *)
(* commands emit one event or two, or refuse, and the snapshot strategy    *)
(* may answer anything.                                                    *)
EXTENDS CommandFlow

CONSTANTS a1, a2, h1, h2, r1, r2, r3, r4, r5, opened, changed, closed

\* Four requests meet on a1; r5 works beside them on a2.
MCTarget == [r \in Requests |-> IF r = r5 THEN a2 ELSE a1]
MCCommand == [r \in Requests |-> IF r \in {r1, r5} THEN "create" ELSE "change"]
MCHost == [r \in Requests |-> IF r \in {r1, r2} THEN h1 ELSE h2]

\* A change emits one event or closes the aggregate with two; a closed
\* aggregate refuses every command.
MCOutcomes(h, c) ==
  IF c = "create" THEN {<<opened>>}
  ELSE IF h # <<>> /\ h[Len(h)] = closed THEN {}
  ELSE {<<changed>>, <<changed, closed>>}

MCStrategy(n) == BOOLEAN
=============================================================================
