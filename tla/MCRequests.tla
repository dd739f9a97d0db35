----------------------------- MODULE MCRequests -----------------------------
(* Instances of Requests: e2 registers with retries, beside another address. *)
EXTENDS Requests, TLC

CONSTANTS e1, e2, r1, r2, r3

MCTerms == [d \in Deals |-> [creator |-> e1, other |-> e2, as |-> "buyer"]]

\* What becomes of other accounts is the subject of the run of Accounts.
OneAccount == \A e \in Emails \ {Address} : account[e] = "none"

Symmetry == Permutations(Tries)
=============================================================================
