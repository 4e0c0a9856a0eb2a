---------------------------- MODULE BankCommands ----------------------------
(***************************************************************************)
(* The write side serving bank accounts: CommandFlow with the domain of   *)
(* BankAccount, and what that composition owes its account holders.       *)
(***************************************************************************)
EXTENDS CommandFlow, BankAccount, SnapshotStrategies

CONSTANT Threshold   \* of the EventCountSnapshotStrategy the module wires

ASSUME ThresholdAssumption == Threshold \in Nat \ {0}

BankCreating == {c \in {Command[r] : r \in Requests} :
                   c.type = "OpenAccount"}

EventCountStrategy(n) == {EventCount(Threshold, n)}

\* Every account's stream is one the aggregate alone could have emitted:
\* no interleaving of withdrawals decided on stale balances overdraws it,
\* and rehydration never throws (withdraw, Money.subtract).
StreamsReplay == \A a \in Aggregates : Replays(events[a])

\* No stream runs ahead of its latest snapshot by more than the threshold,
\* whatever requests are dropped in between: rehydration stays cheap
\* (EventCountSnapshotStrategy, takeSnapshot).  It needs every handler to
\* use EnhancedAggregateRehydrator and no snapshot to fail.
SnapshotsKeepUp ==
  \A a \in Aggregates :
    LET last == {x.version : x \in snapshots[a]} IN
    \E v \in last \cup {0} : Cardinality(DOMAIN events[a]) <= v + Threshold
=============================================================================
