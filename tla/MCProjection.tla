---------------------------- MODULE MCProjection ----------------------------
(* An instance of Projection for TLC: an account is opened and a deposit   *)
(* follows. Neither carries an id: the names of their handlers keep their   *)
(* records apart.                                                          *)
EXTENDS Projection

CONSTANTS acc, none, h1, h2

MCFeed ==
  << [type |-> "AccountOpened", account |-> acc, amount |-> 2,
      eventId |-> none],
     [type |-> "MoneyDeposited", account |-> acc, amount |-> 1,
      eventId |-> none] >>

ASSUME MCFeedOpens == OpeningsLead

MCReplayed == {<<h1, 2>>}
=============================================================================
