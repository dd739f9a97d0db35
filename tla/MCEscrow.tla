------------------------------ MODULE MCEscrow ------------------------------
(* Small instances of Escrow for TLC. *)
EXTENDS EscrowVault

\* One deal.
OneDeal == {"d1"}
OneMilestone == {"m1"}
TwoMilestones == {"m1", "m2"}
OneDealOf == [m \in Milestones |-> "d1"]
NoRequests == {}
NoRequestMap == [r \in {} |-> 0]

\* Two users, ada buys from bob; ada cannot pay for everything.
TwoUsers == {"ada", "bob"}
AdaBuys == [t \in Deals |-> "ada"]
BobSells == [t \in Deals |-> "bob"]
AdaHas3 == [u \in Users |-> IF u = "ada" THEN 3 ELSE 0]
=============================================================================
