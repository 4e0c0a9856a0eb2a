--------------------------- MODULE MCBankCommands ---------------------------
(* An instance of BankCommands for TLC: one account, with withdrawals that *)
(* its balance can't all honour and one of a negative amount, served by    *)
(* two processes.                                                          *)
EXTENDS BankCommands

CONSTANTS acc, h1, h2, r1, r2, r3, r4, r5

MCTarget == [r \in Requests |-> acc]

MCCommand ==
  [r \in Requests |->
     CASE r = r1 -> OpenAccount(2)
       [] r = r2 -> WithdrawMoney(2)
       [] r = r3 -> WithdrawMoney(1)
       [] r = r4 -> DepositMoney(1)
       [] r = r5 -> WithdrawMoney(-1)]

MCHost == [r \in Requests |-> IF r \in {r1, r2} THEN h1 ELSE h2]

MCData == {Opened(2), Withdrawn(2), Withdrawn(1), Deposited(1), Withdrawn(-1)}
=============================================================================
