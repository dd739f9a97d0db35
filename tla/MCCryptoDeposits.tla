-------------------------- MODULE MCCryptoDeposits --------------------------
(* Instances of CryptoDeposits. *)
EXTENDS CryptoDeposits, TLC

CONSTANTS btc, sol, eth, btc1, btc2, sol1, sol2, eth1, b1, b2, b3, s1, s2, e1, e2, r1, r2

KindOf == (btc :> "bitcoin") @@ (sol :> "solana") @@ (eth :> "evm")
Home == (btc1 :> btc) @@ (btc2 :> btc) @@ (sol1 :> sol) @@ (sol2 :> sol) @@ (eth1 :> eth)
Payee == (b1 :> btc1) @@ (b2 :> btc1) @@ (b3 :> btc2) @@ (s1 :> sol1) @@ (s2 :> sol2)
           @@ (e1 :> eth1) @@ (e2 :> eth1)

MCKind == [n \in Networks |-> KindOf[n]]
MCNetworkOf == [a \in Addresses |-> Home[a]]
MCPaidTo == [t \in Transfers |-> Payee[t]]

\* Bound: two bitcoin addresses with three transfers, or two Solana addresses
\* next to a bitcoin one, with one transfer each.
Seen == recorded \cup UNION {OnChain(a) : a \in Addresses}
FewTransfers ==
    \/ Seen \subseteq {b1, b2, b3} /\ ~address[sol].active /\ address[sol].at = sol1
    \/ Seen \subseteq {b2, s1, s2} /\ address[btc].at = btc1

Symmetry == Permutations(Scans)
=============================================================================
