----------------------------- MODULE EscrowVault -----------------------------
(***************************************************************************)
(* The escrow workflow implements the vault: an item is a milestone, its   *)
(* payer is the buyer, the pot is the buyer's escrow balance, and the      *)
(* ledger entries of the milestone are the history of the item.            *)
(***************************************************************************)
EXTENDS Escrow

V == INSTANCE Vault WITH
       Items   <- Milestones,
       Payers  <- Users,
       PayerOf <- [m \in Milestones |-> Buyer[DealOf[m]]],
       Parts   <- UNION {1 .. a : a \in Amounts},
       Sum     <- Total,
       held    <- Locked,
       put     <- [m \in Milestones |-> ledger[m].fund],
       back    <- [m \in Milestones |-> ledger[m].refund],
       out     <- [m \in Milestones |-> ledger[m].release],
       pot     <- escrow

\* Invitations, deadlines, deliveries, revisions, messages, disputes and agent
\* fees only ever lock money for an open milestone, give the whole lock of a
\* milestone back to its buyer, or pay it out, once: nothing else moves money
\* in or out of an escrow balance, and no debit meets its clamp at zero.
ImplementsVault == V!Spec
=============================================================================
