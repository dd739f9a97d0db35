--------------------------- MODULE MCStatusEdits ---------------------------
(* Small instances of StatusEdits for TLC: one deal, ada buys from bob and *)
(* cannot pay for the dearer milestone.                                     *)
EXTENDS StatusEdits

OneDeal == {"d1"}
OneMilestone == {"m1"}
TwoMilestones == {"m1", "m2"}
OneDealOf == [m \in Milestones |-> "d1"]
TwoUsers == {"ada", "bob"}
AdaBuys == [t \in Deals |-> "ada"]
BobSells == [t \in Deals |-> "bob"]
AdaHas2 == [u \in Users |-> IF u = "ada" THEN 2 ELSE 0]
NoRequests == {}
NoRequestMap == [r \in {} |-> 0]
=============================================================================
