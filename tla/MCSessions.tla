----------------------------- MODULE MCSessions -----------------------------
(* Small instances of Sessions for TLC: one deal, ada buys from bob. *)
EXTENDS Sessions, TLC

OneDeal == {"d1"}
\* Sessions differ in nothing but their names.
SessionSymmetry == Permutations(SessionIds)

OneMilestone == {"m1"}
TwoMilestones == {"m1", "m2"}
OneDealOf == [m \in Milestones |-> "d1"]
TwoUsers == {"ada", "bob"}
AdaBuys == [t \in Deals |-> "ada"]
BobSells == [t \in Deals |-> "bob"]
AdaHas3 == [u \in Users |-> IF u = "ada" THEN 3 ELSE 0]
NoRequests == {}
NoRequestMap == [r \in {} |-> 0]
=============================================================================
