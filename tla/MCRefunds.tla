----------------------------- MODULE MCRefunds -----------------------------
(* Small instances of Refunds for TLC: two refunds of different size for one *)
(* recipient.                                                                *)
EXTENDS Refunds

TwoRefunds == {"f1", "f2"}
AllToAda == [r \in RefundIds |-> "ada"]
Amounts2And1 == [r \in RefundIds |-> IF r = "f1" THEN 2 ELSE 1]
=============================================================================
