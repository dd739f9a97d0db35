----------------------------- MODULE MCAccounts -----------------------------
(* Instances of Accounts: e1 invites e2 as its seller, and as its buyer. *)
EXTENDS Accounts, TLC

CONSTANTS e1, e2, d1, d2

MCTerms ==
    (d1 :> [creator |-> e1, other |-> e2, as |-> "buyer"])
      @@ (d2 :> [creator |-> e1, other |-> e2, as |-> "seller"])
=============================================================================
