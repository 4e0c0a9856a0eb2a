------------------------- MODULE BankCommandsProofs -------------------------
(***************************************************************************)
(* Proofs about BankCommands: what the write side owes its account        *)
(* holders follows, for any number of accounts, requests, processes and   *)
(* crashes and any threshold, from the refinement and the invariant of    *)
(* CommandFlowProofs.  What the balance is takes an induction over the      *)
(* history; that a stream replays does not: it depends only on each event *)
(* having been checked against what precedes it.                           *)
(***************************************************************************)
EXTENDS BankCommands, CommandFlowProofs, Induction

\* CommandFlow serves the commands of BankAccount and nothing else.
BankDomain ==
  /\ \A r \in Requests :
       Command[r].type \in {"OpenAccount", "DepositMoney", "WithdrawMoney"}
  /\ Creating = BankCreating
  /\ \A h, c : Outcomes(h, c) = BankOutcomes(h, c)

\* Every handler uses the rehydrator, and the strategy, that the bank module
\* wires, and the snapshot collection answers.
BankSnapshots ==
  /\ Basic = {}
  /\ ~SnapshotFaults
  /\ \A n : Strategy(n) = EventCountStrategy(n)

-----------------------------------------------------------------------------
(* Streams replay.                                                         *)

\* A command decides one event, which the history it was decided on accepts.
LEMMA DecisionsAreChecked ==
  ASSUME BankDomain, NEW r \in Requests, NEW h \in Seq(Data),
         Admissible(h, Command[r]),
         NEW b \in Decisions(h, Command[r])
  PROVE  \E e \in Data : b = <<e>> /\ ~Throws(h, e)
<1> DEFINE c == Command[r]
<1>1. b \in BankOutcomes(h, c) /\ b \in Seq(Data)
  BY DEF BankDomain, Decisions
<1>2. \E e : b = <<e>> /\ ~Throws(h, e)
  <2>1. CASE c.type = "OpenAccount"
    <3>1. c \in BankCreating
      BY <2>1 DEF BankCreating
    <3>2. h = <<>>
      BY <3>1 DEF Admissible, BankDomain
    <3>3. b \in Applied(<<>>, Opened(c.amount))
      BY <1>1, <2>1 DEF BankOutcomes
    <3> QED
      BY <3>2, <3>3 DEF Applied
  <2>2. CASE c.type = "DepositMoney"
    <3>1. b \in Applied(h, Deposited(c.amount))
      BY <1>1, <2>2 DEF BankOutcomes
    <3> QED
      BY <3>1 DEF Applied
  <2>3. CASE c.type = "WithdrawMoney"
    <3>1. b \in Withdraw(h, c.amount)
      BY <1>1, <2>3 DEF BankOutcomes
    <3>2. b \in Applied(h, Withdrawn(c.amount))
      BY <3>1 DEF Withdraw
    <3> QED
      BY <3>2 DEF Applied
  <2> QED
    BY <2>1, <2>2, <2>3 DEF BankDomain
<1>3. PICK e : b = <<e>> /\ ~Throws(h, e)
  BY <1>2
<1>4. e \in Data
  <2>1. b[1] = e /\ 1 \in 1 .. Len(b)
    BY <1>3
  <2>2. b[1] \in Data
    BY <1>1, <2>1, ElementOfSeq
  <2> QED
    BY <2>1, <2>2
<1> QED
  BY <1>3, <1>4

\* A stream that replays still does with a checked event at its end.
LEMMA ReplaysGrows ==
  ASSUME NEW h \in Seq(Data), Replays(h), NEW e \in Data, ~Throws(h, e)
  PROVE  Replays(h \o <<e>>)
<1> DEFINE g == h \o <<e>>
<1>1. Len(h) \in Nat /\ g \in Seq(Data) /\ Len(g) = Len(h) + 1
  BY LenProperties, ConcatProperties
<1>2. SUFFICES ASSUME NEW i \in 1 .. Len(g)
               PROVE  ~Throws(SubSeq(g, 1, i - 1), g[i])
  BY DEF Replays
<1>3. SubSeq(g, 1, i - 1) = SubSeq(h, 1, i - 1)
  BY <1>1
<1>4. CASE i \in 1 .. Len(h)
  <2>1. g[i] = h[i]
    BY <1>1, <1>4, ConcatProperties
  <2> QED
    BY <1>3, <1>4, <2>1 DEF Replays
<1>5. CASE i = Len(h) + 1
  <2>1. g[i] = e
    BY <1>1, <1>5
  <2>2. SubSeq(h, 1, i - 1) = h
    BY <1>1, <1>5
  <2> QED
    BY <1>3, <1>5, <2>1, <2>2
<1> QED
  BY <1>1, <1>4, <1>5

LEMMA TakeEffectReplays ==
  ASSUME BankDomain, Inv, StreamsReplay, NEW r \in Requests, Log!TakeEffect(r)
  PROVE  StreamsReplay'
<1> DEFINE a == Target[r]
           s == events[a]
<1>1. \A x \in Aggregates : events[x] \in Seq(Data)
  BY GaplessIsSeq DEF Inv, StreamsContiguous
<1>2. a \in Aggregates /\ s \in Seq(Data) /\ DOMAIN events = Aggregates
  BY <1>1, ConstantsAssumption DEF ConstantsAssumption, Inv, TypeOK
<1>3. Admissible(s, Command[r])
  BY DEF Log!TakeEffect, Log!Admissible, Admissible
<1>4. PICK b \in Decisions(s, Command[r]) :
        events' = [events EXCEPT ![a] = @ \o b]
  BY DEF Log!TakeEffect, Log!Decisions, Decisions
<1>5. PICK e \in Data : b = <<e>> /\ ~Throws(s, e)
  BY <1>2, <1>3, DecisionsAreChecked
<1>6. Replays(s \o <<e>>)
  BY <1>2, <1>5, ReplaysGrows DEF StreamsReplay
<1> QED
  BY <1>2, <1>4, <1>5, <1>6 DEF StreamsReplay

\* Every account's stream is one the aggregate alone could have emitted,
\* whatever requests race for it (withdraw, Money.subtract).
THEOREM BankStreamsReplay ==
  ASSUME BankDomain
  PROVE  Spec => []StreamsReplay
<1>1. Init => StreamsReplay
  BY DEF Init, StreamsReplay, Replays
<1>2. Inv /\ StreamsReplay /\ [Next]_vars => StreamsReplay'
  <2> SUFFICES ASSUME Inv, StreamsReplay, [Next]_vars
               PROVE  StreamsReplay'
    OBVIOUS
  <2>1. CASE \E r \in Requests : Log!TakeEffect(r)
    BY <2>1, TakeEffectReplays
  <2>2. CASE UNCHANGED Log!vars
    BY <2>2 DEF Log!vars, StreamsReplay
  <2> QED
    BY <2>1, <2>2, NextRefines DEF Log!Next
<1> QED
  BY <1>1, <1>2, Invariance, PTL DEF Spec

\* A command decides to open an account exactly if it is the one that may find
\* nothing there (OpenAccountCommandHandler, getEventsByStreamId).
LEMMA OpensOnlyTheEmpty ==
  ASSUME BankDomain, NEW r \in Requests, NEW h,
         Admissible(h, Command[r]),
         NEW e, <<e>> \in Decisions(h, Command[r])
  PROVE  e.type = "AccountOpened" <=> h = <<>>
<1>. DEFINE c == Command[r]
<1>1. <<e>> \in BankOutcomes(h, c)
  BY DEF BankDomain, Decisions
<1>2. h = <<>> <=> c.type = "OpenAccount"
  BY DEF Admissible, BankDomain, BankCreating
<1>3. CASE c.type = "OpenAccount"
  <2>1. <<e>> \in Applied(<<>>, Opened(c.amount))
    BY <1>1, <1>3 DEF BankOutcomes
  <2>2. e = Opened(c.amount)
    BY <2>1 DEF Applied
  <2>. QED BY <1>2, <1>3, <2>2 DEF Opened
<1>4. CASE c.type = "DepositMoney"
  <2>1. <<e>> \in Applied(h, Deposited(c.amount))
    BY <1>1, <1>4 DEF BankOutcomes
  <2>2. e = Deposited(c.amount)
    BY <2>1 DEF Applied
  <2>. QED BY <1>2, <1>4, <2>2 DEF Deposited
<1>5. CASE c.type = "WithdrawMoney"
  <2>1. <<e>> \in Applied(h, Withdrawn(c.amount))
    BY <1>1, <1>5 DEF BankOutcomes, Withdraw
  <2>2. e = Withdrawn(c.amount)
    BY <2>1 DEF Applied
  <2>. QED BY <1>2, <1>5, <2>2 DEF Withdrawn
<1>. QED BY <1>3, <1>4, <1>5 DEF BankDomain

\* The first event of an account opens it, and no other does.
OpenedOnce ==
  \A a \in Aggregates : \A i \in DOMAIN events[a] :
    events[a][i].type = "AccountOpened" <=> i = 1

LEMMA TakeEffectOpensOnce ==
  ASSUME BankDomain, Inv, OpenedOnce, NEW r \in Requests, Log!TakeEffect(r)
  PROVE  OpenedOnce'
<1>. DEFINE a == Target[r]
            s == events[a]
<1>1. \A x \in Aggregates : events[x] \in Seq(Data)
  BY GaplessIsSeq DEF Inv, StreamsContiguous
<1>2. a \in Aggregates /\ s \in Seq(Data) /\ DOMAIN events = Aggregates
  BY <1>1, ConstantsAssumption DEF ConstantsAssumption, Inv, TypeOK
<1>3. Admissible(s, Command[r])
  BY DEF Log!TakeEffect, Log!Admissible, Admissible
<1>4. PICK b \in Decisions(s, Command[r]) :
        events' = [events EXCEPT ![a] = @ \o b]
  BY DEF Log!TakeEffect, Log!Decisions, Decisions
<1>5. PICK e \in Data : b = <<e>>
  BY <1>2, <1>3, DecisionsAreChecked
<1>6. e.type = "AccountOpened" <=> s = <<>>
  BY <1>3, <1>4, <1>5, OpensOnlyTheEmpty
<1>7. events'[a] = s \o <<e>> /\ \A x \in Aggregates \ {a} : events'[x] = events[x]
  BY <1>2, <1>4, <1>5
<1>8. /\ Len(s) \in Nat /\ DOMAIN s = 1 .. Len(s) /\ (s = <<>> <=> Len(s) = 0)
      /\ DOMAIN (s \o <<e>>) = 1 .. Len(s) + 1
      /\ (s \o <<e>>)[Len(s) + 1] = e
      /\ \A i \in 1 .. Len(s) : (s \o <<e>>)[i] = s[i]
  BY <1>2, <1>5, LenProperties, ConcatProperties
<1>9. ASSUME NEW i \in 1 .. Len(s) + 1
      PROVE  (s \o <<e>>)[i].type = "AccountOpened" <=> i = 1
  <2>1. CASE i \in 1 .. Len(s)
    BY <1>2, <1>8, <2>1 DEF OpenedOnce
  <2>2. CASE i = Len(s) + 1
    BY <1>6, <1>8, <2>2
  <2>. QED BY <1>8, <1>9, <2>1, <2>2
<1>10. ASSUME NEW x \in Aggregates, NEW i \in DOMAIN events'[x]
       PROVE  events'[x][i].type = "AccountOpened" <=> i = 1
  <2>1. CASE x = a
    BY <1>7, <1>8, <1>9, <1>10, <2>1
  <2>2. CASE x # a
    BY <1>7, <1>10, <2>2 DEF OpenedOnce
  <2>. QED BY <2>1, <2>2
<1>. QED BY <1>10 DEF OpenedOnce

\* Two requests that open one account never both succeed, and none is changed
\* before it is opened, whatever they race with (the unique index; the empty
\* result of the query).
THEOREM AccountsOpenedOnce ==
  ASSUME BankDomain
  PROVE  Spec => []OpenedOnce
<1>1. Init => OpenedOnce
  BY DEF Init, OpenedOnce
<1>2. Inv /\ OpenedOnce /\ [Next]_vars => OpenedOnce'
  <2>. SUFFICES ASSUME Inv, OpenedOnce, [Next]_vars PROVE OpenedOnce'
    OBVIOUS
  <2>1. CASE \E r \in Requests : Log!TakeEffect(r)
    BY <2>1, TakeEffectOpensOnce
  <2>2. CASE UNCHANGED Log!vars
    BY <2>2 DEF Log!vars, OpenedOnce
  <2>. QED BY <2>1, <2>2, NextRefines DEF Log!Next
<1>. QED BY <1>1, <1>2, Invariance, PTL DEF Spec

-----------------------------------------------------------------------------
(* Balances.                                                               *)

\* Amounts are numbers; the currency is left out of the model.
AmountsAreNumbers == \A e \in Data : e.amount \in Int

\* The recursion that defines the balance has a solution.
LEMMA BalanceUnfolds ==
  ASSUME AmountsAreNumbers, NEW h \in Seq(Data)
  PROVE  \E after \in [0 .. Len(h) -> Int] :
           /\ after[0] = 0
           /\ \A i \in 1 .. Len(h) : after[i] = Handled(after[i - 1], h[i])
           /\ Balance(h) = after[Len(h)]
<1>. DEFINE N == Len(h)
            step == [i \in 1 .. N |-> [b \in Int |-> Handled(b, h[i])]]
            body(f) == [i \in 0 .. N |-> IF i = 0 THEN 0 ELSE Handled(f[i - 1], h[i])]
            after == CHOOSE f : f = body(f)
<1>1. N \in Nat /\ \A i \in 1 .. N : h[i].amount \in Int
  BY LenProperties, ElementOfSeq DEF AmountsAreNumbers
<1>2. ASSUME NEW b \in Int, NEW i \in 1 .. N PROVE Handled(b, h[i]) \in Int
  BY <1>1 DEF Handled
<1>3. step \in [1 .. N -> [Int -> Int]]
  BY <1>2
<1>4. PICK f \in [0 .. N -> Int] : Iterates(f, N, 0, step)
  <2>. HIDE DEF step, N
  <2>1. N \in Nat /\ 0 \in Int
    BY <1>1
  <2>. QED BY <1>3, <2>1, IteratesExist
<1>5. f = body(f)
  <2>1. ASSUME NEW i \in 0 .. N
        PROVE  f[i] = IF i = 0 THEN 0 ELSE Handled(f[i - 1], h[i])
    <3>1. f[i] = IF i = 0 THEN 0 ELSE step[i][f[i - 1]]
      <4>. HIDE DEF step, N
      <4>. QED BY <1>4 DEF Iterates
    <3>2. i # 0 => i \in 1 .. N /\ f[i - 1] \in Int
      <4>. HIDE DEF step, N
      <4>. QED BY <1>1
    <3>. QED BY <3>1, <3>2
  <2>. HIDE DEF step, N
  <2>. QED BY <1>4, <2>1
<1>6. after = body(after)
  BY <1>5
<1>7. Balance(h) = after[N]
  BY DEF Balance
<1>. HIDE DEF after, step
<1>8. after[0] = 0
  BY <1>1, <1>6
<1>9. ASSUME NEW i \in 1 .. N PROVE after[i] = Handled(after[i - 1], h[i])
  <2>1. i \in 0 .. N /\ i # 0
    BY <1>1
  <2>2. after[i] = body(after)[i]
    BY <1>6
  <2>. HIDE DEF N
  <2>. QED BY <2>1, <2>2
<1>10. after \in [0 .. N -> Int]
  <2>. DEFINE S == {i \in 0 .. N : after[i] \in Int}
  <2>1. 0 \in S
    BY <1>1, <1>8
  <2>2. ASSUME NEW i \in 0 .. N - 1, i \in S PROVE i + 1 \in S
    <3>. HIDE DEF N
    <3>1. i + 1 \in 1 .. N /\ (i + 1) - 1 = i
      BY <1>1
    <3>2. after[i + 1] = Handled(after[i], h[i + 1])
      BY <1>9, <3>1
    <3>3. after[i] \in Int
      BY <2>2
    <3>4. Handled(after[i], h[i + 1]) \in Int
      BY <1>2, <3>1, <3>3
    <3>. QED BY <1>1, <3>2, <3>4
  <2>. HIDE DEF S
  <2>3. 0 .. N \subseteq S
    BY <1>1, <2>1, <2>2, SetInduction
  <2>4. \A i \in 0 .. N : after[i] \in Int
    BY <2>3 DEF S
  <2>. HIDE DEF N
  <2>. QED BY <1>6, <2>4
<1>. QED BY <1>7, <1>8, <1>9, <1>10

\* The recursion has one solution: the balance after one event more is what
\* its handler makes of the balance before.
LEMMA BalanceOfAppend ==
  ASSUME AmountsAreNumbers, NEW h \in Seq(Data), NEW e \in Data
  PROVE  /\ Balance(h) \in Int
         /\ Balance(Append(h, e)) = Handled(Balance(h), e)
<1>. DEFINE N == Len(h)
            g == Append(h, e)
<1>1. /\ N \in Nat /\ g \in Seq(Data) /\ Len(g) = N + 1 /\ g[N + 1] = e
      /\ \A i \in 1 .. N : g[i] = h[i]
  BY AppendProperties, LenProperties
<1>2. PICK f \in [0 .. N -> Int] :
        /\ f[0] = 0
        /\ \A i \in 1 .. N : f[i] = Handled(f[i - 1], h[i])
        /\ Balance(h) = f[N]
  BY BalanceUnfolds
<1>3. PICK after \in [0 .. N + 1 -> Int] :
        /\ after[0] = 0
        /\ \A i \in 1 .. N + 1 : after[i] = Handled(after[i - 1], g[i])
        /\ Balance(g) = after[N + 1]
  <2>. HIDE DEF g
  <2>. QED BY <1>1, BalanceUnfolds
<1>. HIDE DEF N, g
<1>. DEFINE S == {i \in 0 .. N : after[i] = f[i]}
<1>4. 0 \in S
  BY <1>1, <1>2, <1>3
<1>5. ASSUME NEW i \in 0 .. N - 1, i \in S PROVE i + 1 \in S
  <2>1. i + 1 \in 1 .. N /\ i + 1 \in 1 .. N + 1 /\ (i + 1) - 1 = i
    BY <1>1
  <2>2. after[i + 1] = Handled(after[i], g[i + 1]) /\ f[i + 1] = Handled(f[i], h[i + 1])
    BY <1>2, <1>3, <2>1
  <2>. QED BY <1>1, <1>5, <2>1, <2>2
<1>. HIDE DEF S
<1>6. N \in S
  <2>1. 0 .. N \subseteq S
    BY <1>1, <1>4, <1>5, SetInduction
  <2>. QED BY <1>1, <2>1
<1>7. after[N] = f[N]
  BY <1>6 DEF S
<1>8. after[N + 1] = Handled(after[N], e)
  <2>1. N + 1 \in 1 .. N + 1 /\ (N + 1) - 1 = N
    BY <1>1
  <2>. QED BY <1>1, <1>3, <2>1
<1>9. f[N] \in Int
  BY <1>1, <1>2
<1>. QED BY <1>2, <1>3, <1>7, <1>8, <1>9 DEF g

\* What becomes of a withdrawal, of any amount: the handler of its event
\* rejects negative amounts and those the balance does not cover, and the
\* command fails on just these.  So the guard of withdraw() refuses nothing
\* its handler would accept; a negative amount passes the guard unless the
\* balance is below it, and is stopped by Money.create (withdraw,
\* onMoneyWithdrawnEvent).
THEOREM WithdrawalsDecidedByBalance ==
  ASSUME AmountsAreNumbers, NEW h \in Seq(Data), NEW n \in Int, Withdrawn(n) \in Data
  PROVE  /\ Throws(h, Withdrawn(n)) <=> n < 0 \/ Balance(h) < n
         /\ Withdraw(h, n) =
              IF n < 0 \/ Balance(h) < n THEN {} ELSE {<<Withdrawn(n)>>}
<1>1. Withdrawn(n).amount = n /\ Withdrawn(n).type = "MoneyWithdrawn"
  BY DEF Withdrawn
<1>. DEFINE e == Withdrawn(n)
<1>2. Balance(h) \in Int /\ Balance(Append(h, e)) = Handled(Balance(h), e)
  <2>. HIDE DEF e
  <2>1. e \in Data
    BY DEF e
  <2>. QED BY <2>1, BalanceOfAppend
<1>3. Handled(Balance(h), e) = Balance(h) - n
  BY <1>1 DEF Handled
<1>. HIDE DEF e
<1>4. Throws(h, e) <=> n < 0 \/ Balance(h) < n
  BY <1>1, <1>2, <1>3 DEF Throws, e
<1>. QED BY <1>4 DEF Withdraw, Applied, e

\* The balance at every version of every account.
AccountsSolvent ==
  \A a \in Aggregates : \A i \in 0 .. Len(events[a]) :
    Balance(SubSeq(events[a], 1, i)) >= 0

\* Every withdrawal in a stream was covered by the balance of that moment.
WithdrawalsCovered ==
  \A a \in Aggregates : \A i \in 1 .. Len(events[a]) :
    events[a][i].type = "MoneyWithdrawn" =>
      0 <= events[a][i].amount /\ events[a][i].amount <= Balance(SubSeq(events[a], 1, i - 1))

\* A stream that replays was solvent throughout.
LEMMA ReplaysMeansCovered ==
  ASSUME AmountsAreNumbers, NEW h \in Seq(Data), Replays(h)
  PROVE  /\ \A i \in 0 .. Len(h) : Balance(SubSeq(h, 1, i)) >= 0
         /\ \A i \in 1 .. Len(h) : h[i].type = "MoneyWithdrawn" =>
              0 <= h[i].amount /\ h[i].amount <= Balance(SubSeq(h, 1, i - 1))
<1>1. Len(h) \in Nat
  BY LenProperties
<1>2. Balance(SubSeq(h, 1, 0)) = 0
  <2>1. <<>> \in Seq(Data) /\ Len(<<>>) = 0 /\ SubSeq(h, 1, 0) = <<>>
    OBVIOUS
  <2>2. Balance(<<>>) = 0
    BY <2>1, BalanceUnfolds
  <2>. QED BY <2>1, <2>2
<1>3. ASSUME NEW i \in 1 .. Len(h)
      PROVE  /\ Balance(SubSeq(h, 1, i)) >= 0
             /\ h[i].type = "MoneyWithdrawn" =>
                  0 <= h[i].amount /\ h[i].amount <= Balance(SubSeq(h, 1, i - 1))
  <2>. DEFINE g == SubSeq(h, 1, i - 1)
              e == h[i]
  <2>1. g \in Seq(Data) /\ e \in Data /\ e.amount \in Int
    <3>1. e \in Data
      BY ElementOfSeq
    <3>2. g \in Seq(Data)
      BY <1>1
    <3>. QED BY <3>1, <3>2 DEF AmountsAreNumbers
  <2>2. Append(g, e) = SubSeq(h, 1, i)
    BY <1>1
  <2>3. ~Throws(g, e)
    BY DEF Replays
  <2>. HIDE DEF g, e
  <2>4. Balance(g) \in Int /\ Balance(Append(g, e)) = Handled(Balance(g), e)
    BY <2>1, BalanceOfAppend
  <2>5. Balance(Append(g, e)) \in Int
    BY <2>1, <2>4 DEF Handled
  <2>6. 0 <= e.amount /\ 0 <= Balance(Append(g, e))
    BY <2>1, <2>3, <2>5 DEF Throws
  <2>7. e.type = "MoneyWithdrawn" => e.amount <= Balance(g)
    BY <2>1, <2>4, <2>6 DEF Handled
  <2>8. Balance(SubSeq(h, 1, i)) >= 0
    BY <2>2, <2>5, <2>6
  <2>. QED BY <2>6, <2>7, <2>8 DEF g, e
<1>. QED BY <1>1, <1>2, <1>3

\* No account is ever overdrawn, at any version a reader may load, and no
\* withdrawal exceeded the balance it was taken from, whatever requests race
\* and processes die (withdraw, Money.subtract, the unique index).
THEOREM NeverOverdrawn ==
  ASSUME BankDomain, AmountsAreNumbers
  PROVE  Spec => [](AccountsSolvent /\ WithdrawalsCovered)
<1>1. Inv /\ StreamsReplay => AccountsSolvent /\ WithdrawalsCovered
  <2>. SUFFICES ASSUME Inv, StreamsReplay PROVE AccountsSolvent /\ WithdrawalsCovered
    OBVIOUS
  <2>1. \A a \in Aggregates : events[a] \in Seq(Data) /\ Replays(events[a])
    BY GaplessIsSeq DEF Inv, StreamsContiguous, StreamsReplay
  <2>. QED BY <2>1, ReplaysMeansCovered DEF AccountsSolvent, WithdrawalsCovered
<1>. QED BY <1>1, Invariance, BankStreamsReplay, PTL

-----------------------------------------------------------------------------
(* Arithmetic of the threshold t.                                          *)

LEMMA Distributes ==
  ASSUME NEW t \in Int, NEW m \in Int, NEW n \in Int
  PROVE  t * (m + n) = t * m + t * n /\ t * (m - n) = t * m - t * n
OBVIOUS

LEMMA Divides ==
  ASSUME NEW t \in Nat \ {0}, NEW n \in Nat
  PROVE  \E q \in Nat, u \in 0 .. t - 1 : n = t * q + u /\ u = n % t
<1>1. /\ n \div t \in Nat /\ n % t \in 0 .. t - 1
      /\ n = t * (n \div t) + (n % t)
  OBVIOUS
<1> QED
  BY <1>1, Zenon

LEMMA NoMultipleBetween ==
  ASSUME NEW t \in Nat \ {0}, NEW d \in Int, NEW u \in 0 .. t - 1, t * d = u
  PROVE  u = 0
OBVIOUS

LEMMA Multiples ==
  ASSUME NEW t \in Nat \ {0}, NEW n \in Nat
  PROVE  n % t = 0 <=> \E k \in Nat : n = t * k
<1>1. PICK q \in Nat, u \in 0 .. t - 1 : n = t * q + u /\ u = n % t
  BY Divides, Zenon
<1>2. ASSUME n % t = 0
      PROVE  \E k \in Nat : n = t * k
  <2>1. u = 0 /\ t * q \in Nat
    BY <1>1, <1>2
  <2>2. n = t * q
    BY <1>1, <2>1
  <2> QED
    BY <2>2
<1>3. ASSUME NEW k \in Nat, n = t * k
      PROVE  n % t = 0
  <2> DEFINE x == t * k
             y == t * q
  <2>1. x \in Int /\ y \in Int /\ k - q \in Int /\ t * (k - q) = x - y
    BY Distributes
  <2>2. x = y + u
    BY <1>1, <1>3
  <2> HIDE DEF x, y
  <2>3. x - y = u
    BY <2>1, <2>2
  <2>4. u = 0
    BY <2>1, <2>3, NoMultipleBetween
  <2> QED
    BY <1>1, <2>4
<1> QED
  BY <1>2, <1>3

LEMMA SumOfMultiples ==
  ASSUME NEW t \in Nat \ {0}, NEW m \in Nat, NEW n \in Nat, m % t = 0
  PROVE  (m + n) % t = 0 <=> n % t = 0
<1>1. PICK k \in Nat : m = t * k
  BY Multiples
<1>2. ASSUME NEW j \in Nat, n = t * j
      PROVE  \E i \in Nat : m + n = t * i
  BY <1>1, <1>2, Distributes, k + j \in Nat
<1>3. ASSUME NEW j \in Nat, m + n = t * j
      PROVE  \E i \in Nat : n = t * i
  <2>1. n = t * (j - k) /\ j - k \in Int
    BY <1>1, <1>3
  <2>2. j - k >= 0
    BY <2>1
  <2>3. j - k \in Nat
    BY <2>1, <2>2
  <2> QED
    BY <2>1, <2>3
<1>4. m + n \in Nat
  OBVIOUS
<1>5. (m + n) % t = 0 <=> \E i \in Nat : m + n = t * i
  BY <1>4, Multiples
<1>6. n % t = 0 <=> \E i \in Nat : n = t * i
  BY Multiples
<1> QED
  BY <1>2, <1>3, <1>5, <1>6

\* Below every n > t there is a multiple of t that is at most t away.
LEMMA MultipleBelow ==
  ASSUME NEW t \in Nat \ {0}, NEW n \in Nat, n > t
  PROVE  \E p \in 1 .. n - 1 : p % t = 0 /\ n <= p + t
<1>1. n - 1 \in Nat
  OBVIOUS
<1>2. PICK q \in Nat, u \in 0 .. t - 1 : n - 1 = t * q + u
  BY <1>1, Divides
<1> DEFINE p == t * q
<1>3. p \in Nat /\ p % t = 0
  BY Multiples, t * q \in Nat
<1>4. n - 1 = p + u
  BY <1>2
<1> HIDE DEF p
<1>5. p \in 1 .. n - 1 /\ n <= p + t
  BY <1>3, <1>4
<1> QED
  BY <1>3, <1>5

-----------------------------------------------------------------------------
(* Snapshots keep up.                                                      *)

Multiple(n) == n % Threshold = 0

Taken(a, n) == \E x \in snapshots[a] : x.version = n

\* No handler gets past a multiple of the threshold without its snapshot.
Aligned(r) ==
  /\ pc[r] \in {"getEvents", "saving"} => Multiple(version[r])
  /\ pc[r] \in {"insertMany", "commit"} /\ version[r] > 0 /\ Multiple(version[r])
       => Taken(Target[r], version[r])

\* Inductive, given Inv: snapshots are at multiples of the threshold, and
\* every multiple a stream has left behind has one.
SnapshotsAligned ==
  /\ \A a \in Aggregates : \A x \in snapshots[a] : Multiple(x.version)
  /\ \A r \in Requests : Aligned(r)
  /\ \A a \in Aggregates : \A p \in 1 .. Len(events[a]) - 1 :
       Multiple(p) => Taken(a, p)

\* r moves on, or dies; snapshots may be added, streams stay.
Moves(r) ==
  /\ events' = events
  /\ \A q \in Requests \ {r} :
       pc'[q] \in {pc[q], "lost"} /\ version'[q] = version[q]
  /\ \A a \in Aggregates : snapshots[a] \subseteq snapshots'[a]

\* A request that is past its reads loses none of its snapshots.
LEMMA OthersAligned ==
  ASSUME NEW q \in Requests, Aligned(q),
         pc'[q] \in {pc[q], "lost"}, version'[q] = version[q],
         snapshots[Target[q]] \subseteq snapshots'[Target[q]]
  PROVE  Aligned(q)'
BY DEF Aligned, Taken, Multiple

LEMMA MovesKeepAligned ==
  ASSUME SnapshotsAligned, NEW r \in Requests, Moves(r), Aligned(r)',
         \A a \in Aggregates : \A x \in snapshots'[a] : Multiple(x.version)
  PROVE  SnapshotsAligned'
<1>1. ASSUME NEW q \in Requests
      PROVE  Aligned(q)'
  BY OthersAligned, ConstantsAssumption
  DEF Moves, SnapshotsAligned, ConstantsAssumption
<1>2. \A a \in Aggregates : \A p \in 1 .. Len(events'[a]) - 1 :
        Multiple(p) => Taken(a, p)'
  BY DEF Moves, SnapshotsAligned, Taken
<1> QED
  BY <1>1, <1>2 DEF SnapshotsAligned, Multiple

\* The rest of a handler, from an instance at version v.
LEMMA DecideKeepsAligned ==
  ASSUME Inv, SnapshotsAligned, NEW r \in Requests, NEW h, NEW v \in Nat,
         Decide(r, h, v), events' = events,
         \A a \in Aggregates : snapshots[a] \subseteq snapshots'[a],
         \A a \in Aggregates : \A x \in snapshots'[a] : Multiple(x.version),
         v > 0 /\ Multiple(v) =>
           \E x \in snapshots'[Target[r]] : x.version = v
  PROVE  SnapshotsAligned'
<1>1. /\ version' = [version EXCEPT ![r] = v]
      /\ Goto(r, "answered") \/ Goto(r, "insertMany")
  BY DEF Decide, Hold, Answer
<1>2. /\ version'[r] = v /\ pc'[r] \in {"answered", "insertMany"}
      /\ \A q \in Requests \ {r} : pc'[q] = pc[q] /\ version'[q] = version[q]
  BY <1>1 DEF Goto, Inv, TypeOK
<1>3. Aligned(r)'
  BY <1>2 DEF Aligned, Taken, Multiple
<1> QED
  BY <1>2, <1>3, MovesKeepAligned DEF Moves

\* A step that only sends r to a place it has already earned, or kills.
LEMMA GotoKeepsAligned ==
  ASSUME SnapshotsAligned, NEW r \in Requests,
         UNCHANGED <<events, snapshots, version>>,
         \A q \in Requests \ {r} : pc'[q] \in {pc[q], "lost"},
         \/ pc'[r] \notin {"getEvents", "saving", "insertMany", "commit"}
         \/ pc[r] = "insertMany" /\ pc'[r] = "commit"
  PROVE  SnapshotsAligned'
<1>1. Aligned(r)'
  BY DEF SnapshotsAligned, Aligned, Taken, Multiple
<1> QED
  BY <1>1, MovesKeepAligned DEF Moves, SnapshotsAligned

LEMMA KilledKeepsAligned ==
  ASSUME SnapshotsAligned, NEW i, pc' = Killed(i),
         UNCHANGED <<events, snapshots, version>>
  PROVE  SnapshotsAligned'
<1>1. \A q \in Requests : Aligned(q)'
  BY ConstantsAssumption, OthersAligned
  DEF Killed, SnapshotsAligned, ConstantsAssumption
<1> QED
  BY <1>1 DEF SnapshotsAligned, Taken, Multiple

LEMMA ReceiveKeepsAligned ==
  ASSUME Inv, SnapshotsAligned, NEW r \in Requests, Receive(r)
  PROVE  SnapshotsAligned'
<1>1. UNCHANGED <<events, snapshots>>
  BY DEF Receive
<1>2. CASE Decide(r, <<>>, 0)
  BY <1>1, <1>2, DecideKeepsAligned DEF SnapshotsAligned
<1>3. CASE Goto(r, "getLast") /\ UNCHANGED version
  <2>1. pc'[r] = "getLast" /\ \A q \in Requests \ {r} : pc'[q] = pc[q]
    BY <1>3 DEF Goto, Inv, TypeOK
  <2> QED
    BY <1>1, <1>3, <2>1, GotoKeepsAligned
<1> QED
  BY <1>2, <1>3 DEF Receive

LEMMA LoadSnapshotKeepsAligned ==
  ASSUME Inv, SnapshotsAligned, NEW r \in Requests, LoadSnapshot(r)
  PROVE  SnapshotsAligned'
<1>1. /\ UNCHANGED <<events, snapshots>> /\ Goto(r, "getEvents")
      /\ Target[r] \in Aggregates
  BY ConstantsAssumption DEF LoadSnapshot, ConstantsAssumption
<1>2. PICK v : Multiple(v) /\ version' = [version EXCEPT ![r] = v]
  <2>1. 0 % Threshold = 0
    BY ThresholdAssumption, Multiples DEF ThresholdAssumption
  <2>2. CASE Hold(r, <<>>, 0)
    BY <2>1, <2>2 DEF Hold, Multiple
  <2>3. CASE \E x \in Latest(snapshots[Target[r]]) :
               Hold(r, x.payload, x.version)
    BY <1>1, <2>3 DEF Latest, Hold, SnapshotsAligned
  <2> QED
    BY <2>2, <2>3 DEF LoadSnapshot
<1>3. /\ pc'[r] = "getEvents" /\ version'[r] = v
      /\ \A q \in Requests \ {r} : pc'[q] = pc[q] /\ version'[q] = version[q]
  BY <1>1, <1>2 DEF Goto, Inv, TypeOK
<1>4. Aligned(r)'
  BY <1>2, <1>3 DEF Aligned, Multiple
<1> QED
  BY <1>1, <1>3, <1>4, MovesKeepAligned DEF Moves, SnapshotsAligned

LEMMA FoundIsSeq ==
  ASSUME Inv, NEW r \in Requests
  PROVE  Found(Target[r], version[r]) \in Seq(Data)
<1>1. /\ events[Target[r]] \in Seq(Data)
      /\ version[r] \in 0 .. Len(events[Target[r]])
  <2>1. events[Target[r]] \in Seq(Data) /\ Faithful(Envelope(r), events[Target[r]])
    BY ConstantsAssumption, GaplessIsSeq
    DEF Inv, StreamsContiguous, InstancesFaithful, ConstantsAssumption
  <2>2. version[r] \in Nat /\ Len(events[Target[r]]) \in Nat
    BY <2>1, LenProperties DEF Inv, TypeOK
  <2> QED
    BY <2>1, <2>2 DEF Faithful, Envelope
<1>2. Read(events[Target[r]], version[r]) \in Seq(Data)
  BY <1>1, ReadIsSuffix
<1>3. <<>> \in Seq(Data)
  OBVIOUS
<1> QED
  BY <1>2, <1>3 DEF Found

LEMMA LoadEventsKeepsAligned ==
  ASSUME BankSnapshots, Inv, SnapshotsAligned,
         NEW r \in Requests, LoadEvents(r)
  PROVE  SnapshotsAligned'
<1> DEFINE n == Len(Found(Target[r], version[r]))
           h == state[r] \o Found(Target[r], version[r])
           v == version[r] + n
<1>1. UNCHANGED <<events, snapshots>> /\ pc[r] = "getEvents"
  BY DEF LoadEvents
<1>2. version[r] \in Nat /\ Multiple(version[r])
  BY <1>1 DEF Inv, TypeOK, SnapshotsAligned, Aligned
<1>3. CASE Answer(r, "notFound") /\ UNCHANGED version
  <2>1. pc'[r] = "answered" /\ \A q \in Requests \ {r} : pc'[q] = pc[q]
    BY <1>3 DEF Answer, Goto, Inv, TypeOK
  <2> QED
    BY <1>1, <1>3, <2>1, GotoKeepsAligned
<1>4. ASSUME Found(Target[r], version[r]) # <<>>
      PROVE  n \in Nat \ {0} /\ v \in Nat /\ (Multiple(v) <=> n % Threshold = 0)
  <2>1. h \in Seq(Data) /\ v = Len(h)
    BY <1>4, FoundCompletes
  <2>2. v \in Nat
    BY <2>1, LenProperties
  <2>3. n \in Nat \ {0}
    <3>1. \A s \in Seq(Data) : s # <<>> => Len(s) \in Nat \ {0}
      BY EmptySeq
    <3>2. Found(Target[r], version[r]) \in Seq(Data)
      BY FoundIsSeq
    <3> QED
      BY <1>4, <3>1, <3>2
  <2> HIDE DEF n
  <2>4. (version[r] + n) % Threshold = 0 <=> n % Threshold = 0
    BY <1>2, <2>3, ThresholdAssumption, SumOfMultiples
    DEF ThresholdAssumption, Multiple
  <2> QED
    BY <2>2, <2>3, <2>4 DEF Multiple
<1>5. CASE /\ Found(Target[r], version[r]) # <<>>
           /\ TRUE \in Strategy(n)
           /\ Hold(r, h, v)
           /\ Goto(r, "saving")
  <2> HIDE DEF h, v
  <2>1. n % Threshold = 0
    BY <1>5 DEF BankSnapshots, EventCountStrategy, EventCount
  <2>2. /\ pc'[r] = "saving" /\ version'[r] = v
        /\ \A q \in Requests \ {r} :
             pc'[q] = pc[q] /\ version'[q] = version[q]
    BY <1>5 DEF Goto, Hold, Inv, TypeOK
  <2>3. Aligned(r)'
    BY <1>4, <1>5, <2>1, <2>2 DEF Aligned, Multiple
  <2> QED
    BY <1>1, <2>2, <2>3, MovesKeepAligned DEF Moves, SnapshotsAligned
<1>6. CASE /\ Found(Target[r], version[r]) # <<>>
           /\ FALSE \in Strategy(n)
           /\ Decide(r, h, v)
  <2> HIDE DEF h, v
  <2>1. ~(n > 0 /\ n % Threshold = 0)
    BY <1>6 DEF BankSnapshots, EventCountStrategy, EventCount
  <2>2. ~Multiple(v)
    BY <1>4, <1>6, <2>1
  <2> QED
    BY <1>1, <1>4, <1>6, <2>2, DecideKeepsAligned DEF SnapshotsAligned
<1> QED
  BY <1>3, <1>5, <1>6 DEF LoadEvents, BankSnapshots

LEMMA SaveSnapshotKeepsAligned ==
  ASSUME Inv, SnapshotsAligned, NEW r \in Requests, SaveSnapshot(r)
  PROVE  SnapshotsAligned'
<1>1. /\ events' = events /\ pc[r] = "saving"
      /\ Decide(r, state[r], version[r])
      /\ snapshots' = [snapshots EXCEPT ![Target[r]] = @ \cup {Envelope(r)}]
  BY DEF SaveSnapshot
<1>2. /\ version[r] \in Nat /\ Multiple(version[r])
      /\ Target[r] \in Aggregates /\ DOMAIN snapshots = Aggregates
  BY <1>1, ConstantsAssumption
  DEF Inv, TypeOK, SnapshotsAligned, Aligned, ConstantsAssumption
<1>3. Envelope(r).version = version[r]
  BY DEF Envelope
<1>4. /\ \A a \in Aggregates : snapshots[a] \subseteq snapshots'[a]
      /\ \A a \in Aggregates : \A x \in snapshots'[a] :
           x \in snapshots[a] \/ x = Envelope(r)
      /\ Envelope(r) \in snapshots'[Target[r]]
  BY <1>1, <1>2
<1>5. \A a \in Aggregates : \A x \in snapshots'[a] : Multiple(x.version)
  BY <1>2, <1>3, <1>4 DEF SnapshotsAligned
<1>6. \E x \in snapshots'[Target[r]] : x.version = version[r]
  BY <1>3, <1>4
<1> QED
  BY <1>1, <1>2, <1>4, <1>5, <1>6, DecideKeepsAligned

\* A commit adds one event: if it leaves a multiple of the threshold behind,
\* the handler that commits it saw to the snapshot.
LEMMA CommitKeepsAligned ==
  ASSUME BankDomain, Inv, SnapshotsAligned, NEW r \in Requests,
         pc[r] = "commit", events' = Visible(r),
         UNCHANGED <<snapshots, version>>,
         pc'[r] = "committed",
         \A q \in Requests \ {r} : pc'[q] \in {pc[q], "lost"}
  PROVE  SnapshotsAligned'
<1> DEFINE a == Target[r]
           s == events[a]
<1>1. a \in Aggregates /\ DOMAIN events = Aggregates /\ s \in Seq(Data)
  BY ConstantsAssumption, GaplessIsSeq
  DEF ConstantsAssumption, Inv, TypeOK, StreamsContiguous
<1>2. PICK e \in Data : batch[r] = <<e>>
  <2>1. Admissible(s, Command[r]) /\ batch[r] \in Decisions(s, Command[r])
    BY VisibleAppends
  <2> HIDE DEF s
  <2> QED
    BY <1>1, <2>1, DecisionsAreChecked
<1>3. events' = [events EXCEPT ![a] = s \o <<e>>] /\ version[r] = Len(s)
  BY <1>2, VisibleAppends DEF Inv, InstancesFaithful, Faithful, Envelope
<1>4. Len(s) \in Nat /\ Len(s \o <<e>>) = Len(s) + 1
  BY <1>1, LenProperties
<1>5. \A q \in Requests : Aligned(q)'
  <2>1. Aligned(r)'
    BY DEF Aligned
  <2>2. \A q \in Requests \ {r} : Aligned(q)'
    BY OthersAligned, ConstantsAssumption
    DEF SnapshotsAligned, ConstantsAssumption
  <2> QED
    BY <2>1, <2>2
<1>6. ASSUME NEW x \in Aggregates, NEW p \in 1 .. Len(events'[x]) - 1,
             Multiple(p)
      PROVE  Taken(x, p)
  <2>1. CASE p \in 1 .. Len(events[x]) - 1
    BY <1>6, <2>1 DEF SnapshotsAligned
  <2>2. CASE p \notin 1 .. Len(events[x]) - 1
    <3>1. x = a
      BY <1>1, <1>3, <2>2
    <3>2. p = Len(s) /\ p > 0
      BY <1>1, <1>3, <1>4, <2>2, <3>1
    <3> QED
      BY <1>3, <1>6, <3>1, <3>2 DEF SnapshotsAligned, Aligned
  <2> QED
    BY <2>1, <2>2
<1> QED
  BY <1>5, <1>6 DEF SnapshotsAligned, Taken, Multiple

LEMMA BankNextKeepsAligned ==
  ASSUME BankDomain, BankSnapshots, Inv, SnapshotsAligned, [Next]_vars
  PROVE  SnapshotsAligned'
<1>1. ASSUME NEW r \in Requests, NEW where, Goto(r, where)
      PROVE  pc'[r] = where /\ \A q \in Requests \ {r} : pc'[q] = pc[q]
  BY <1>1 DEF Goto, Inv, TypeOK
<1>2. ASSUME NEW r \in Requests, Receive(r) PROVE SnapshotsAligned'
  BY <1>2, ReceiveKeepsAligned
<1>3. ASSUME NEW r \in Requests, Proceed(r) PROVE SnapshotsAligned'
  <2>1. CASE LoadSnapshot(r)
    BY <2>1, LoadSnapshotKeepsAligned
  <2>2. CASE LoadEvents(r)
    BY <2>2, LoadEventsKeepsAligned
  <2>3. CASE SaveSnapshot(r)
    BY <2>3, SaveSnapshotKeepsAligned
  <2>4. CASE InsertMany(r)
    BY <1>1, <2>4, GotoKeepsAligned DEF InsertMany
  <2>5. CASE DuplicateKey(r)
    BY <1>1, <2>5, GotoKeepsAligned DEF DuplicateKey
  <2>6. CASE WriteConflict(r)
    BY <2>6, KilledKeepsAligned DEF WriteConflict, RejectUnhandled
  <2>7. CASE CommitTransaction(r)
    BY <1>1, <2>7, CommitKeepsAligned DEF CommitTransaction
  <2> QED
    BY <1>3, <2>1, <2>2, <2>3, <2>4, <2>5, <2>6, <2>7 DEF Proceed
<1>4. ASSUME NEW r \in Requests, Break(r) PROVE SnapshotsAligned'
  <2>1. CASE LoadEventsFails(r)
    BY <1>1, <2>1, GotoKeepsAligned DEF LoadEventsFails, Answer
  <2>2. CASE PersistFails(r)
    BY <2>2, KilledKeepsAligned DEF PersistFails, RejectUnhandled
  <2>3. CASE CommitOutcomeUnknown(r)
    <3>1. /\ pc'[r] = "committed"
          /\ \A q \in Requests \ {r} : pc'[q] \in {pc[q], "lost"}
      BY <2>3 DEF CommitOutcomeUnknown, Killed
    <3> QED
      BY <2>3, <3>1, CommitKeepsAligned DEF CommitOutcomeUnknown
  <2> QED
    BY <1>4, <2>1, <2>2, <2>3
    DEF Break, LoadSnapshotFails, SaveSnapshotFails, BankSnapshots
<1>5. ASSUME NEW i \in Hosts, Crash(i) PROVE SnapshotsAligned'
  BY <1>5, KilledKeepsAligned DEF Crash
<1>6. CASE UNCHANGED vars
  BY <1>6 DEF vars, SnapshotsAligned, Aligned, Taken, Multiple
<1> QED
  BY <1>2, <1>3, <1>4, <1>5, <1>6 DEF Next

LEMMA AlignedMeansKeepUp ==
  ASSUME Inv, SnapshotsAligned
  PROVE  SnapshotsKeepUp
<1> SUFFICES ASSUME NEW a \in Aggregates
             PROVE  \E v \in {x.version : x \in snapshots[a]} \cup {0} :
                      Cardinality(DOMAIN events[a]) <= v + Threshold
  BY DEF SnapshotsKeepUp
<1> DEFINE n == Len(events[a])
<1>1. n \in Nat /\ Cardinality(DOMAIN events[a]) = n
  <2>1. events[a] \in Seq(Data)
    BY GaplessIsSeq DEF Inv, StreamsContiguous
  <2>2. n \in Nat /\ DOMAIN events[a] = 1 .. n
    BY <2>1, LenProperties
  <2> QED
    BY <2>2, FS_Interval
<1>2. CASE n <= Threshold
  BY <1>1, <1>2, ThresholdAssumption DEF ThresholdAssumption
<1>3. CASE n > Threshold
  <2>1. PICK p \in 1 .. n - 1 : p % Threshold = 0 /\ n <= p + Threshold
    BY <1>1, <1>3, ThresholdAssumption, MultipleBelow DEF ThresholdAssumption
  <2>2. Taken(a, p)
    BY <2>1 DEF SnapshotsAligned, Multiple
  <2> QED
    BY <1>1, <2>1, <2>2 DEF Taken
<1> QED
  BY <1>1, <1>2, <1>3, ThresholdAssumption DEF ThresholdAssumption

\* Rehydrating any account reads at most Threshold events after its latest
\* snapshot, however its requests interleave, are dropped or crash
\* (EventCountSnapshotStrategy, EnhancedAggregateRehydrator).
THEOREM BankSnapshotsKeepUp ==
  ASSUME BankDomain, BankSnapshots
  PROVE  Spec => []SnapshotsKeepUp
<1>1. Init => SnapshotsAligned
  <2> SUFFICES ASSUME Init PROVE SnapshotsAligned
    OBVIOUS
  <2>1. \A a \in Aggregates : events[a] = <<>> /\ snapshots[a] = {}
    BY DEF Init
  <2>2. \A r \in Requests : Aligned(r)
    BY DEF Init, Aligned
  <2> QED
    BY <2>1, <2>2 DEF SnapshotsAligned
<1>2. Inv /\ SnapshotsAligned /\ [Next]_vars => SnapshotsAligned'
  BY BankNextKeepsAligned
<1>3. Inv /\ SnapshotsAligned => SnapshotsKeepUp
  BY AlignedMeansKeepUp
<1> QED
  BY <1>1, <1>2, <1>3, Invariance, PTL DEF Spec
=============================================================================
