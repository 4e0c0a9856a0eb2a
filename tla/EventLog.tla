------------------------------ MODULE EventLog ------------------------------
(***************************************************************************)
(* What the write side promises, with no awaits, caches or processes: one *)
(* append-only log per aggregate, and requests that take effect at most   *)
(* once, atomically, on the very history they were decided on.  This is   *)
(* the "optimistic concurrency control" and "atomic event persistence" of *)
(* the repository's README, as a state machine.                           *)
(***************************************************************************)
EXTENDS Domain

CONSTANTS
  Aggregates,
  Requests,
  Target,    \* the aggregate a request is about
  Command    \* the command a request carries

VARIABLES
  log,       \* the events of each aggregate, in order
  applied    \* the requests that took effect

vars == <<log, applied>>

Init ==
  /\ log = [a \in Aggregates |-> <<>>]
  /\ applied = {}

\* Request r takes effect: its decision is made and recorded in one step.
TakeEffect(r) ==
  LET a == Target[r] IN
  /\ r \notin applied
  /\ Admissible(log[a], Command[r])
  /\ \E b \in Decisions(log[a], Command[r]) :
       log' = [log EXCEPT ![a] = @ \o b]
  /\ applied' = applied \cup {r}

Next == \E r \in Requests : TakeEffect(r)

Spec == Init /\ [][Next]_vars

=============================================================================
