---------------------------- MODULE MCAgentFees ----------------------------
(* Small instances of AgentFees for TLC. *)
EXTENDS AgentFees

OneDeal == {"d1"}
OneMilestone == {"m1"}
OneDealOf == [m \in Milestones |-> "d1"]
AdaBuys == [t \in Deals |-> "ada"]
BobSells == [t \in Deals |-> "bob"]

\* eve verifies the deal; the platform keeps one of her fee of two.
ThreeUsers == {"ada", "bob", "eve"}
OneRequest == {"r1"}
ForD1 == [r \in Requests |-> "d1"]
EveVerifies == [r \in Requests |-> "eve"]
FeeOf2 == [r \in Requests |-> 2]
PayoutOf1 == [r \in Requests |-> 1]

\* Enough for the fee and a milestone of one, not for the fee and one of two.
AdaHas3 == [u \in Users |-> IF u = "ada" THEN 3 ELSE 0]
=============================================================================
