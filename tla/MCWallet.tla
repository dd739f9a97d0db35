------------------------------ MODULE MCWallet ------------------------------
(* Instances of Wallet.  An amount is counted in thirds of a cent, so that   *)
(* one third is what the rounding of routers/crypto.py loses.                *)
EXTENDS Wallet, TLC

CONSTANTS u1, u2, ngn, usd, p1, p2, d1, w1, w2, t1, t2, k1, k2

MCPayment ==
    (p1 :> [gateway |-> "paystack", user |-> u1, currency |-> ngn, amount |-> 3])
      @@ (p2 :> [gateway |-> "stripe", user |-> u1, currency |-> ngn, amount |-> 3])
MCCryptoCredit == (d1 :> [user |-> u1, currency |-> ngn, amount |-> 3])
MCWithdrawal ==
    (w1 :> [user |-> u1, currency |-> ngn, amount |-> 1])
      @@ (w2 :> [user |-> u1, currency |-> ngn, amount |-> 3])
MCTransfer ==
    (t1 :> [from |-> u1, to |-> u2, currency |-> ngn, amount |-> 3])
      @@ (t2 :> [from |-> u2, to |-> u1, currency |-> ngn, amount |-> 3])
MCFirstRates == (<<ngn, usd>> :> 0) @@ (<<usd, ngn>> :> 1)
MCConversion == (k1 :> [user |-> u1, from |-> ngn, to |-> usd, amount |-> 3])

\* Bound: the rows that a behaviour writes, of all tables together, with what
\* administrators set.
CONSTANT MaxRows
RowsWritten ==
    Cardinality({p \in Payments : deposit[p] # "none"}) + Cardinality(extra)
      + Cardinality({d \in CryptoDeposits : crypto[d] # "detected"})
      + Cardinality({w \in Withdrawals : withdrawal[w] # "none"})
      + Cardinality({t \in Transfers : sent[t] # "none"})
      + Cardinality(converted) + settings
FewRows == RowsWritten <= MaxRows
=============================================================================
