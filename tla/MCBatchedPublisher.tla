-------------------------- MODULE MCBatchedPublisher --------------------------
(* Instances of BatchedPublisher for TLC.                                  *)
EXTENDS BatchedPublisher, TLC

CONSTANTS e1, e2, e3, e4, acc1, acc2, acc3

\* Two events of one aggregate, and one each of two others.
MCMixed == e1 :> acc1 @@ e2 :> acc1 @@ e3 :> acc2 @@ e4 :> acc3

\* No two events share an aggregate.
MCApart == e1 :> acc1 @@ e2 :> acc2 @@ e3 :> acc3
=============================================================================
