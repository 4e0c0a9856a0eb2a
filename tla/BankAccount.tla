---------------------------- MODULE BankAccount ----------------------------
(***************************************************************************)
(* The domain of the sample application: the balance that the handlers of *)
(* BankAccount rebuild from its events, the checks of the value object    *)
(* Money, and what the three commands decide.  Names and the currency are *)
(* left out: the events of an account copy the currency of its balance,   *)
(* so "Currencies must match" can't fail on a stream of the account's own. *)
(***************************************************************************)
EXTENDS Integers, Sequences

Opened(n) == [type |-> "AccountOpened", amount |-> n]
Deposited(n) == [type |-> "MoneyDeposited", amount |-> n]
Withdrawn(n) == [type |-> "MoneyWithdrawn", amount |-> n]

OpenAccount(n) == [type |-> "OpenAccount", amount |-> n]
DepositMoney(n) == [type |-> "DepositMoney", amount |-> n]
WithdrawMoney(n) == [type |-> "WithdrawMoney", amount |-> n]

-----------------------------------------------------------------------------

\* The balance an event leaves: onAccountOpenedEvent sets it, the other
\* handlers add to it and subtract from it.
Handled(balance, e) ==
  IF e.type = "AccountOpened" THEN e.amount
  ELSE IF e.type = "MoneyDeposited" THEN balance + e.amount
  ELSE balance - e.amount

\* The balance after a history.
Balance(history) ==
  LET after[i \in 0 .. Len(history)] ==
        IF i = 0 THEN 0 ELSE Handled(after[i - 1], history[i])
  IN after[Len(history)]

\* The handler of event e throws on history h: Money.create of a negative
\* amount, or Money.subtract below zero.
Throws(h, e) == e.amount < 0 \/ Balance(Append(h, e)) < 0

\* apply() records e and runs its handler; if that throws, so does the
\* command, and nothing is committed.
Applied(h, e) == IF Throws(h, e) THEN {} ELSE {<<e>>}

\* BankAccount.withdraw: its own guard, then apply().
Withdraw(h, n) == IF Balance(h) < n THEN {} ELSE Applied(h, Withdrawn(n))

\* The batches command c may leave uncommitted on an account with history h.
BankOutcomes(h, c) ==
  CASE c.type = "OpenAccount"   -> Applied(<<>>, Opened(c.amount))
    [] c.type = "DepositMoney"  -> Applied(h, Deposited(c.amount))
    [] c.type = "WithdrawMoney" -> Withdraw(h, c.amount)

\* loadFromHistory() of the history does not throw.
Replays(history) ==
  \A i \in 1 .. Len(history) : ~Throws(SubSeq(history, 1, i - 1), history[i])
=============================================================================
