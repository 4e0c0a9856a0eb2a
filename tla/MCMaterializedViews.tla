------------------------- MODULE MCMaterializedViews -------------------------
(* An instance of MaterializedViews for TLC: two views of one account. An  *)
(* event concerns the summary of its account, a deposit also the           *)
(* statistics of the first account, and an opening everything.             *)
EXTENDS MaterializedViews, Sequences, TLC

CONSTANTS summary, stats, acc1, acc2, r1, r2, r3

MCViewOf ==
  r1 :> <<summary, acc1>> @@ r2 :> <<summary, acc1>> @@ r3 :> <<stats, acc1>>

MCEventOf ==
  << [type |-> "MoneyDeposited", account |-> acc1],
     [type |-> "AccountOpened", account |-> acc2] >>

MCStrategies ==
  { [kind |-> "AggregateId", prefix |-> summary],
    [kind |-> "EventType",
     map |-> "MoneyDeposited" :> {<<stats, acc1>>} @@ "AccountOpened" :> {Star}] }

MCTtl == {<<summary, acc1>>}
=============================================================================
