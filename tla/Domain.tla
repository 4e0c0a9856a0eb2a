------------------------------- MODULE Domain -------------------------------
(***************************************************************************)
(* What the library asks of the application whose aggregates it stores.   *)
(*                                                                         *)
(* The state of an aggregate is, in this development, the sequence of the *)
(* events applied to it: apply() and loadFromHistory() are the only ways  *)
(* the props change, so every projection of the props is a function of    *)
(* that sequence.  Outcomes(h, c) is the set of event batches a command   *)
(* handler may leave uncommitted on an aggregate with history h; it is    *)
(* empty when the domain method throws.                                   *)
(***************************************************************************)
EXTENDS Naturals, Sequences

CONSTANTS
  Data,            \* the event contents (class and attributes)
  Creating,        \* commands whose handler builds a new aggregate
  Outcomes(_, _)   \* history, command |-> the batches the handler may commit

\* The non-empty batches a handler may hand to commit() on history h.
Decisions(h, c) == {b \in Outcomes(h, c) : b \in Seq(Data) \ {<<>>}}

\* A creating command never loads a stream, every other one loads a
\* stream that exists: its history is empty exactly when it creates.
Admissible(h, c) == (c \in Creating) <=> (h = <<>>)

=============================================================================
