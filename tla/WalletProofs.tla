---------------------------- MODULE WalletProofs ----------------------------
(***************************************************************************)
(* Theorems about Wallet, for any number of users, currencies, payments,   *)
(* withdrawals, transfers, conversions and verifications that overlap: the *)
(* types (no amount falls below zero), what can be credited twice, what    *)
(* pending_amount holds, and where the money of a currency came from.      *)
(***************************************************************************)
EXTENDS Wallet, TotalsProofs

-----------------------------------------------------------------------------
(* The rows and requests of deposits *)

Pairings == Users \X Payments

DepositTypeOK ==
    /\ paid \subseteq Payments
    /\ deposit \in [Payments -> {"none", "pending", "completed"}]
    /\ made \in [Payments -> Nat] /\ carries \in [Payments -> Payments]
    /\ extra \subseteq Pairings /\ stale \subseteq Pairings /\ crossed \subseteq Pairings
    /\ request \in [Requests -> Asked \cup {NoRequest}]
    /\ credits \in [Pairings -> Nat]

\* A row carries its own payment until it is completed, and the payment of
\* another row only after a request named it.
RowOK(r) ==
    /\ deposit[r] # "completed" => carries[r] = r
    /\ carries[r] # r => <<Payment[r].user, carries[r]>> \in crossed

\* Only a payment with a row is paid; the row that a credit has made is of a
\* paid payment, whose own row the credit did not find.
PaidOK(p) == p \in paid => deposit[p] # "none"
ExtraOK(u, p) ==
    <<u, p>> \in extra =>
      /\ p \in paid
      /\ Payment[p].gateway # "stripe" /\ Payment[p].user = u => deposit[p] = "completed"

\* User u has a completed row that carries p.
HasRow(u, p) ==
    \E r \in Payments : Payment[r].user = u /\ deposit[r] = "completed" /\ carries[r] = p

\* CreditedOnce for one user and payment.
CreditedOnceOf(u, p) ==
    /\ credits[<<u, p>>] > 1 => <<u, p>> \in stale \cup crossed \/ TwoRows(u, p)
    /\ credits[<<u, p>>] > 0 => p \in paid
    /\ credits[<<u, p>>] > 0 => <<u, p>> \in stale \cup extra \/ HasRow(u, p)

RowsOK == \A p \in Payments : RowOK(p) /\ PaidOK(p)
PairsOK == \A u \in Users, p \in Payments : ExtraOK(u, p) /\ CreditedOnceOf(u, p)

DepositInv == DepositTypeOK /\ RowsOK /\ PairsOK

LEMMA PairsGiveCreditedOnce == DepositInv => CreditedOnce
<1> SUFFICES ASSUME DepositInv, NEW u \in Users, NEW p \in Payments
             PROVE  /\ credits[<<u, p>>] > 1 => <<u, p>> \in stale \cup crossed \/ TwoRows(u, p)
                    /\ credits[<<u, p>>] > 0 => p \in paid
                    /\ credits[<<u, p>>] > 0 =>
                         \/ <<u, p>> \in stale \cup extra
                         \/ \E r \in Carrying(u, p) : deposit[r] = "completed"
  BY DEF CreditedOnce
<1>1. CreditedOnceOf(u, p)
  BY DEF DepositInv, PairsOK
<1>2. HasRow(u, p) => \E r \in Carrying(u, p) : deposit[r] = "completed"
  BY DEF HasRow, Carrying
<1> QED
  BY <1>1, <1>2 DEF CreditedOnceOf

LEMMA DepositInvInit == Init => DepositInv
<1> SUFFICES ASSUME Init PROVE DepositInv
  OBVIOUS
<1>1. DepositTypeOK
  BY DEF Init, DepositTypeOK, Pairings
<1>2. RowsOK
  BY DEF Init, RowsOK, RowOK, PaidOK
<1>3. PairsOK
  <2> SUFFICES ASSUME NEW u \in Users, NEW p \in Payments
               PROVE  ExtraOK(u, p) /\ CreditedOnceOf(u, p)
    BY DEF PairsOK
  <2>1. credits[<<u, p>>] = 0
    BY DEF Init
  <2> QED
    BY <2>1 DEF Init, ExtraOK, CreditedOnceOf
<1> QED
  BY <1>1, <1>2, <1>3 DEF DepositInv

-----------------------------------------------------------------------------
(* Steps *)

\* Requests that wait for a gateway hold a payment and a row.
LEMMA AskedPayment ==
    ASSUME DepositTypeOK, NEW q \in Requests, request[q].step = "asked"
    PROVE  request[q].payment \in Payments /\ request[q].row \in Payments
BY DEF DepositTypeOK, NoRequest, Asked

LEMMA PayerIsUser == \A r \in Payments : Payment[r].user \in Users
BY WalletAssumption

\* A credit adds one to the count of its user and payment and to no other.
LEMMA CreditCounts ==
    ASSUME DepositTypeOK, NEW u \in Users, NEW p \in Payments, Credit(u, p)
    PROVE  /\ credits' \in [Pairings -> Nat]
           /\ credits'[<<u, p>>] = credits[<<u, p>>] + 1
           /\ \A v \in Users, x \in Payments :
                <<v, x>> # <<u, p>> => credits'[<<v, x>>] = credits[<<v, x>>]
<1>1. <<u, p>> \in Pairings /\ \A v \in Users, x \in Payments : <<v, x>> \in Pairings
  BY DEF Pairings
<1> QED
  BY <1>1 DEF DepositTypeOK, Credit

\* What no credit ever takes back.
Grows ==
    /\ paid \subseteq paid' /\ extra \subseteq extra'
    /\ stale \subseteq stale' /\ crossed \subseteq crossed'

\* A pair whose count does not change and whose completed row, if it has one,
\* stays or is recorded as taken over, keeps its part of the invariant.
LEMMA QuietPair ==
    ASSUME NEW u \in Users, NEW p \in Payments, CreditedOnceOf(u, p), Grows,
           credits'[<<u, p>>] = credits[<<u, p>>],
           HasRow(u, p) => HasRow(u, p)' \/ <<u, p>> \in stale'
    PROVE  CreditedOnceOf(u, p)'
BY DEF CreditedOnceOf, TwoRows, Grows

LEMMA QuietRows ==
    ASSUME NEW u \in Users, NEW p \in Payments,
           \A r \in Payments :
             deposit[r] = "completed" => deposit'[r] = "completed" /\ carries'[r] = carries[r]
    PROVE  HasRow(u, p) => HasRow(u, p)'
BY DEF HasRow

LEMMA RowNumber == Cardinality({r \in Payments : deposit[r] # "none"}) + 1 \in Nat
<1>1. IsFiniteSet({r \in Payments : deposit[r] # "none"})
  BY WalletAssumption, FS_Subset
<1> QED
  BY <1>1, FS_CardinalityType

LEMMA RowStep ==
    ASSUME DepositInv, NEW p \in Payments, InitiateDeposit(p) \/ Pay(p)
    PROVE  DepositInv'
<1>1. DepositTypeOK /\ RowsOK /\ PairsOK
  BY DEF DepositInv
<1>2. UNCHANGED <<carries, extra, request, credits, stale, crossed>>
  BY DEF InitiateDeposit, Pay
<1>3. /\ deposit' \in [Payments -> {"none", "pending", "completed"}]
      /\ \A r \in Payments : \/ deposit'[r] = deposit[r]
                             \/ deposit[r] = "none" /\ deposit'[r] = "pending"
  BY <1>1 DEF InitiateDeposit, Pay, DepositTypeOK
<1>4. /\ paid \subseteq paid' /\ paid' \subseteq Payments
      /\ \A r \in paid' : r \in paid \/ deposit[r] # "none"
  BY <1>1 DEF InitiateDeposit, Pay, DepositTypeOK
<1>5. made' \in [Payments -> Nat]
  BY <1>1, RowNumber DEF InitiateDeposit, Pay, DepositTypeOK
<1>6. DepositTypeOK'
  BY <1>1, <1>2, <1>3, <1>4, <1>5 DEF DepositTypeOK
<1>7. RowsOK'
  <2> SUFFICES ASSUME NEW r \in Payments PROVE RowOK(r)' /\ PaidOK(r)'
    BY DEF RowsOK
  <2>1. RowOK(r) /\ PaidOK(r)
    BY <1>1 DEF RowsOK
  <2> QED
    BY <1>2, <1>3, <1>4, <2>1 DEF RowOK, PaidOK
<1>8. PairsOK'
  <2> SUFFICES ASSUME NEW u \in Users, NEW x \in Payments
               PROVE  ExtraOK(u, x)' /\ CreditedOnceOf(u, x)'
    BY DEF PairsOK
  <2>1. ExtraOK(u, x) /\ CreditedOnceOf(u, x) /\ PaidOK(x)
    BY <1>1 DEF PairsOK, RowsOK
  <2>2. ExtraOK(u, x)'
    BY <1>2, <1>3, <1>4, <2>1 DEF ExtraOK, PaidOK
  <2>3. HasRow(u, x) => HasRow(u, x)'
    BY <1>2, <1>3, QuietRows
  <2>4. Grows
    BY <1>2, <1>4 DEF Grows
  <2> QED
    BY <1>2, <2>1, <2>2, <2>3, <2>4, QuietPair
<1> QED
  BY <1>6, <1>7, <1>8 DEF DepositInv

\* A credit for which the lookup by reference found no row.
LEMMA ExtraCredit ==
    ASSUME DepositInv, NEW u \in Users, NEW p \in Payments, p \in paid, Credit(u, p),
           <<u, p>> \notin extra, Carrying(u, p) = {},
           extra' = extra \cup {<<u, p>>},
           UNCHANGED <<paid, deposit, made, carries, request, stale, crossed>>
    PROVE  DepositInv'
<1>1. DepositTypeOK /\ RowsOK /\ PairsOK
  BY DEF DepositInv
<1>2. /\ credits' \in [Pairings -> Nat]
      /\ credits'[<<u, p>>] = credits[<<u, p>>] + 1
      /\ \A v \in Users, x \in Payments :
           <<v, x>> # <<u, p>> => credits'[<<v, x>>] = credits[<<v, x>>]
  BY <1>1, CreditCounts
<1>3. DepositTypeOK'
  BY <1>1, <1>2 DEF DepositTypeOK, Pairings
<1>4. RowsOK'
  BY <1>1 DEF RowsOK, RowOK, PaidOK
<1>5. \A r \in Payments :
        ~(Payment[r].user = u /\ deposit[r] = "completed" /\ carries[r] = p)
  BY DEF Carrying
<1>6. ~HasRow(u, p)
  BY <1>5 DEF HasRow
<1>7. Payment[p].gateway # "stripe" /\ Payment[p].user = u => deposit[p] = "completed"
  <2>1. RowOK(p) /\ PaidOK(p)
    BY <1>1 DEF RowsOK
  <2> QED
    BY <2>1 DEF RowOK, PaidOK, Carrying
<1>8. Grows
  BY DEF Grows
<1>9. PairsOK'
  <2> SUFFICES ASSUME NEW v \in Users, NEW x \in Payments
               PROVE  ExtraOK(v, x)' /\ CreditedOnceOf(v, x)'
    BY DEF PairsOK
  <2>1. ExtraOK(v, x) /\ CreditedOnceOf(v, x)
    BY <1>1 DEF PairsOK
  <2>2. CASE <<v, x>> # <<u, p>>
    <3>1. HasRow(v, x) => HasRow(v, x)'
      BY QuietRows
    <3>2. CreditedOnceOf(v, x)'
      BY <1>2, <1>8, <2>1, <2>2, <3>1, QuietPair
    <3>3. ExtraOK(v, x)'
      BY <2>1, <2>2 DEF ExtraOK
    <3> QED
      BY <3>2, <3>3
  <2>3. CASE <<v, x>> = <<u, p>>
    <3>1. v = u /\ x = p
      BY <2>3
    <3>2. ExtraOK(u, p)'
      BY <1>7 DEF ExtraOK
    <3>3. credits[<<u, p>>] \in Nat
      BY <1>1 DEF DepositTypeOK, Pairings
    <3>4. credits[<<u, p>>] > 0 => <<u, p>> \in stale
      BY <1>6, <2>1, <3>1 DEF CreditedOnceOf
    <3>5. CreditedOnceOf(u, p)'
      <4>1. credits'[<<u, p>>] > 1 => <<u, p>> \in stale
        BY <1>2, <3>3, <3>4
      <4> QED
        BY <4>1 DEF CreditedOnceOf
    <3> QED
      BY <3>1, <3>2, <3>5
  <2> QED
    BY <2>2, <2>3
<1> QED
  BY <1>3, <1>4, <1>9 DEF DepositInv

\* A credit through row r of the user who asks.
LEMMA RowCredit ==
    ASSUME DepositInv, NEW p \in Payments, NEW r \in Payments, p \in paid,
           CreditRow(Payment[r].user, p, r),
           UNCHANGED <<paid, extra, made>>,
           crossed' = crossed \cup CrossedNow(Payment[r].user, p, r),
           stale \subseteq stale', stale' \subseteq Pairings,
           \/ deposit[r] = "pending"
           \/ /\ <<Payment[r].user, p>> \in stale'
              /\ <<Payment[r].user, carries[r]>> \in stale',
           request' \in [Requests -> Asked \cup {NoRequest}]
    PROVE  DepositInv'
<1> DEFINE u == Payment[r].user
<1>1. DepositTypeOK /\ RowsOK /\ PairsOK
  BY DEF DepositInv
<1>u. u \in Users /\ <<u, p>> \in Pairings
  BY PayerIsUser DEF Pairings
<1>2. /\ credits' \in [Pairings -> Nat]
      /\ credits'[<<u, p>>] = credits[<<u, p>>] + 1
      /\ \A v \in Users, x \in Payments :
           <<v, x>> # <<u, p>> => credits'[<<v, x>>] = credits[<<v, x>>]
  BY <1>1, <1>u, CreditCounts DEF CreditRow
<1>3. /\ deposit' \in [Payments -> {"none", "pending", "completed"}]
      /\ carries' \in [Payments -> Payments]
      /\ deposit'[r] = "completed" /\ carries'[r] = p
      /\ \A s \in Payments : s # r => deposit'[s] = deposit[s] /\ carries'[s] = carries[s]
  BY <1>1 DEF DepositTypeOK, CreditRow
<1>4. /\ crossed \subseteq crossed' /\ crossed' \subseteq Pairings
      /\ r # p => <<u, p>> \in crossed'
  BY <1>1, <1>u DEF CrossedNow, DepositTypeOK
<1>5. DepositTypeOK'
  BY <1>1, <1>2, <1>3, <1>4 DEF DepositTypeOK
<1>6. RowsOK'
  <2> SUFFICES ASSUME NEW s \in Payments PROVE RowOK(s)' /\ PaidOK(s)'
    BY DEF RowsOK
  <2>1. RowOK(s) /\ PaidOK(s)
    BY <1>1 DEF RowsOK
  <2>2. CASE s = r
    BY <1>3, <1>4, <2>2 DEF RowOK, PaidOK
  <2>3. CASE s # r
    BY <1>3, <1>4, <2>1, <2>3 DEF RowOK, PaidOK
  <2> QED
    BY <2>2, <2>3
<1>7. Grows
  BY <1>4 DEF Grows
<1>8. HasRow(u, p)'
  BY <1>3 DEF HasRow
<1>9. ASSUME NEW v \in Users, NEW x \in Payments, <<v, x>> # <<u, p>>,
             CreditedOnceOf(v, x)
      PROVE  CreditedOnceOf(v, x)'
  <2>1. ASSUME HasRow(v, x)
        PROVE  HasRow(v, x)' \/ <<v, x>> \in stale'
    <3>1. PICK s \in Payments :
            Payment[s].user = v /\ deposit[s] = "completed" /\ carries[s] = x
      BY <2>1 DEF HasRow
    <3>2. CASE s = r
      <4>1. deposit[r] # "pending" /\ v = u /\ x = carries[r]
        BY <3>1, <3>2
      <4> QED
        BY <4>1
    <3>3. CASE s # r
      BY <1>3, <3>1, <3>3 DEF HasRow
    <3> QED
      BY <3>2, <3>3
  <2> QED
    BY <1>2, <1>7, <1>9, <2>1, QuietPair
<1>10. ASSUME CreditedOnceOf(u, p), credits[<<u, p>>] > 0
       PROVE  <<u, p>> \in stale' \cup crossed' \/ TwoRows(u, p)'
  <2>1. CASE r # p
    BY <1>4, <2>1
  <2>2. CASE deposit[r] # "pending"
    BY <2>2
  <2>3. CASE r = p /\ deposit[p] = "pending"
    <3>1. <<u, p>> \in stale \cup extra \/ HasRow(u, p)
      BY <1>10 DEF CreditedOnceOf
    <3>2. CASE <<u, p>> \in stale
      BY <3>2
    <3>3. CASE <<u, p>> \in extra
      <4>1. ExtraOK(u, p)
        BY <1>1, <1>u DEF PairsOK
      <4>2. Payment[p].gateway = "stripe"
        BY <2>3, <3>3, <4>1 DEF ExtraOK
      <4> QED
        BY <3>3, <4>2 DEF TwoRows
    <3>4. CASE HasRow(u, p)
      <4>1. PICK s \in Payments :
              Payment[s].user = u /\ deposit[s] = "completed" /\ carries[s] = p
        BY <3>4 DEF HasRow
      <4>2. RowOK(s) /\ s # p
        BY <1>1, <2>3, <4>1 DEF RowsOK
      <4>3. <<u, p>> \in crossed
        BY <4>1, <4>2 DEF RowOK
      <4> QED
        BY <1>4, <4>3
    <3> QED
      BY <3>1, <3>2, <3>3, <3>4
  <2> QED
    BY <2>1, <2>2, <2>3
<1>11. ASSUME CreditedOnceOf(u, p)
       PROVE  CreditedOnceOf(u, p)'
  <2>1. credits[<<u, p>>] \in Nat
    BY <1>1, <1>u DEF DepositTypeOK
  <2>2. credits'[<<u, p>>] > 1 => credits[<<u, p>>] > 0
    BY <1>2, <2>1
  <2>3. credits'[<<u, p>>] > 1 => <<u, p>> \in stale' \cup crossed' \/ TwoRows(u, p)'
    BY <1>10, <1>11, <2>2
  <2> HIDE DEF u
  <2> QED
    BY <1>8, <2>3 DEF CreditedOnceOf, Grows
<1>12. PairsOK'
  <2> SUFFICES ASSUME NEW v \in Users, NEW x \in Payments
               PROVE  ExtraOK(v, x)' /\ CreditedOnceOf(v, x)'
    BY DEF PairsOK
  <2>1. ExtraOK(v, x) /\ CreditedOnceOf(v, x)
    BY <1>1 DEF PairsOK
  <2>2. ExtraOK(v, x)'
    <3>1. deposit[x] = "completed" => deposit'[x] = "completed"
      BY <1>3
    <3> QED
      BY <2>1, <3>1 DEF ExtraOK
  <2>3. CASE <<v, x>> # <<u, p>>
    BY <1>9, <2>1, <2>2, <2>3
  <2>4. CASE <<v, x>> = <<u, p>>
    <3>1. v = u /\ x = p
      BY <2>4
    <3> QED
      BY <1>11, <2>1, <2>2, <3>1
  <2> QED
    BY <2>3, <2>4
<1> QED
  BY <1>5, <1>6, <1>12 DEF DepositInv

\* Verification and webhook, which look the row up by reference.
LEMMA ReferenceStep ==
    ASSUME DepositInv, NEW u \in Users, NEW p \in Payments, p \in paid,
           ApplyByReference(u, p), UNCHANGED <<paid, made, request, stale, crossed>>
    PROVE  DepositInv'
<1>1. DepositTypeOK /\ RowsOK /\ PairsOK
  BY DEF DepositInv
<1>2. CASE UNCHANGED <<available, deposit, carries, extra, credits, cooldown>>
  BY <1>1, <1>2
  DEF DepositInv, DepositTypeOK, RowsOK, RowOK, PaidOK, PairsOK, ExtraOK,
      CreditedOnceOf, HasRow, TwoRows
<1>3. CASE /\ <<u, p>> \notin extra /\ Carrying(u, p) = {} /\ Credit(u, p)
           /\ extra' = extra \cup {<<u, p>>} /\ UNCHANGED <<deposit, carries>>
  BY <1>3, ExtraCredit
<1>4. ASSUME NEW r \in Carrying(u, p), deposit[r] = "pending", CreditRow(u, p, r),
             UNCHANGED extra
      PROVE  DepositInv'
  <2>1. r \in Payments /\ Payment[r].user = u /\ carries[r] = p
    BY DEF Carrying
  <2>2. RowOK(r)
    BY <1>1, <2>1 DEF RowsOK
  <2>3. r = p
    BY <1>4, <2>1, <2>2 DEF RowOK
  <2>4. crossed' = crossed \cup CrossedNow(Payment[r].user, p, r)
    BY <2>3 DEF CrossedNow
  <2>5. request' \in [Requests -> Asked \cup {NoRequest}] /\ stale' \subseteq Pairings
    BY <1>1 DEF DepositTypeOK
  <2>6. CreditRow(Payment[r].user, p, r)
    BY <1>4, <2>1
  <2> QED
    BY <1>4, <2>1, <2>4, <2>5, <2>6, RowCredit
<1> QED
  BY <1>2, <1>3, <1>4 DEF ApplyByReference

LEMMA ReconcileStep ==
    ASSUME DepositInv, NEW p \in Payments, NEW r \in Payments, ReconcileDeposit(p, r)
    PROVE  DepositInv'
<1>1. /\ p \in paid /\ deposit[r] = "pending"
      /\ CreditRow(Payment[r].user, p, r)
      /\ crossed' = crossed \cup CrossedNow(Payment[r].user, p, r)
      /\ UNCHANGED <<paid, extra, made, request, stale>>
  BY DEF ReconcileDeposit
<1>2. request' \in [Requests -> Asked \cup {NoRequest}] /\ stale' \subseteq Pairings
  BY <1>1 DEF DepositInv, DepositTypeOK
<1> QED
  BY <1>1, <1>2, RowCredit

LEMMA GatewayStep ==
    ASSUME DepositInv, NEW q \in Requests, GatewayAnswers(q)
    PROVE  DepositInv'
<1> DEFINE p == request[q].payment
           r == request[q].row
<1>1. DepositTypeOK /\ RowsOK /\ PairsOK
  BY DEF DepositInv
<1>2. p \in Payments /\ r \in Payments
  BY <1>1, AskedPayment DEF GatewayAnswers
<1>3. request' \in [Requests -> Asked \cup {NoRequest}]
  BY <1>1 DEF GatewayAnswers, DepositTypeOK
<1>4. UNCHANGED <<paid, made, extra>>
  BY DEF GatewayAnswers
<1>5. CASE p \in paid
  <2>1. /\ CreditRow(Payment[r].user, p, r)
        /\ crossed' = crossed \cup CrossedNow(Payment[r].user, p, r)
        /\ stale' = IF deposit[r] = "pending" THEN stale
                    ELSE stale \cup {<<Payment[r].user, p>>, <<Payment[r].user, carries[r]>>}
    BY <1>5 DEF GatewayAnswers
  <2> HIDE DEF p, r
  <2>2. /\ stale \subseteq stale'
        /\ \/ deposit[r] = "pending"
           \/ /\ <<Payment[r].user, p>> \in stale'
              /\ <<Payment[r].user, carries[r]>> \in stale'
    BY <2>1
  <2>3. stale' \subseteq Pairings
    <3>1. Payment[r].user \in Users /\ carries[r] \in Payments
      BY <1>1, <1>2, PayerIsUser DEF DepositTypeOK
    <3> QED
      BY <1>1, <1>2, <2>1, <3>1 DEF DepositTypeOK, Pairings
  <2> QED
    BY <1>2, <1>3, <1>4, <1>5, <2>1, <2>2, <2>3, RowCredit
<1>6. CASE p \notin paid
  <2>1. UNCHANGED <<credits, deposit, carries, stale, crossed>>
    BY <1>6 DEF GatewayAnswers
  <2> QED
    BY <1>1, <1>3, <1>4, <2>1
    DEF DepositInv, DepositTypeOK, RowsOK, RowOK, PaidOK, PairsOK, ExtraOK,
        CreditedOnceOf, HasRow, TwoRows
<1> QED
  BY <1>5, <1>6

LEMMA AskStep ==
    ASSUME DepositInv, NEW p \in Payments, NEW r \in Payments, NEW q \in Requests,
           AskGateway(q, p, r)
    PROVE  DepositInv'
<1>1. request' \in [Requests -> Asked \cup {NoRequest}]
  BY DEF AskGateway, DepositInv, DepositTypeOK, Asked
<1> QED
  BY <1>1
  DEF AskGateway, DepositInv, DepositTypeOK, RowsOK, RowOK, PaidOK, PairsOK, ExtraOK,
      CreditedOnceOf, HasRow, TwoRows

LEMMA DepositInvStep == DepositInv /\ [Next]_vars => DepositInv'
<1> SUFFICES ASSUME DepositInv, [Next]_vars
             PROVE  DepositInv'
  OBVIOUS
<1>1. CASE UNCHANGED depositVars
  BY <1>1
  DEF depositVars, DepositInv, DepositTypeOK, RowsOK, RowOK, PaidOK, PairsOK, ExtraOK,
      CreditedOnceOf, HasRow, TwoRows
<1>2. CASE DepositStep
  <2>1. ASSUME NEW u \in Users, NEW p \in Payments, VerifyByReference(u, p)
        PROVE  DepositInv'
    BY <2>1, ReferenceStep DEF VerifyByReference
  <2>2. ASSUME NEW p \in Payments, PaystackWebhook(p)
        PROVE  DepositInv'
    BY <2>2, ReferenceStep, PayerIsUser DEF PaystackWebhook
  <2> QED
    BY <1>2, <2>1, <2>2, RowStep, ReconcileStep, AskStep, GatewayStep DEF DepositStep
<1>3. CASE WithdrawalStep
  BY <1>1, <1>3
  DEF WithdrawalStep, Withdraw, ApproveWithdrawal, RejectWithdrawal,
      ApproveCryptoWithdrawal, RejectCryptoWithdrawal, EndWithdrawal
<1>4. CASE SettingStep
  BY <1>1, <1>4
  DEF SettingStep, FreezeWallet, UnfreezeWallet, BlockWithdrawals,
      UnblockWithdrawals, SetExchangeRate, DeactivateExchangeRate, Setting,
      Untouched
<1>5. CASE \E d \in CryptoDeposits : ApproveCryptoDeposit(d) \/ RejectCryptoDeposit(d)
  BY <1>1, <1>5 DEF ApproveCryptoDeposit, RejectCryptoDeposit
<1>6. CASE \E u \in Users : CooldownEnds(u)
  BY <1>1, <1>6 DEF CooldownEnds
<1>7. CASE \E t \in Transfers : \/ TransferFunds(t)
                                \/ \E i \in Transfers : ReverseTransfer(t, i)
  BY <1>1, <1>7 DEF TransferFunds, ReverseTransfer
<1>8. CASE \E k \in Conversions : ConvertCurrency(k)
  BY <1>1, <1>8 DEF ConvertCurrency
<1>9. CASE UNCHANGED vars
  BY <1>1, <1>9 DEF vars
<1> QED
  BY <1>2, <1>3, <1>4, <1>5, <1>6, <1>7, <1>8, <1>9 DEF Next

\* A user is credited a payment at most once, for any number of users,
\* payments and rows, whoever verifies what, in any order, unless a credit
\* acted on a status that had changed while it asked the gateway, a request
\* named the row of another payment, or Stripe's second row is followed by the
\* first; and a credit is for what was paid, and leaves its row.
THEOREM DepositsCreditedOnce == Spec => []CreditedOnce
<1> QED
  BY PairsGiveCreditedOnce, DepositInvInit, DepositInvStep, PTL DEF Spec

-----------------------------------------------------------------------------
(* Types *)

\* Rounding to cents and quoting a conversion stay in the natural numbers.
LEMMA RoundNat ==
    ASSUME NEW x \in Nat
    PROVE  Round(x) \in Nat
<1>1. Cent \in Nat /\ Cent > 0
  BY WalletAssumption
<1>2. Cent \div 2 \in Nat
  BY <1>1
<1>3. x + Cent \div 2 \in Nat
  BY <1>2
<1>4. ASSUME NEW y \in Nat, NEW d \in Nat, d > 0
      PROVE  (y \div d) * d \in Nat
  <2>1. y \div d \in Nat
    BY <1>4
  <2> QED
    BY <1>4, <2>1
<1> QED
  BY <1>1, <1>3, <1>4 DEF Round

LEMMA QuoteNat ==
    ASSUME TypeOK, NEW c \in Currencies, NEW d \in Currencies, c # d, NEW n \in Nat,
           rate[<<c, d>>] # 0 \/ rate[<<d, c>>] # 0
    PROVE  Quote(c, d, n) \in Nat
<1>1. <<c, d>> \in Pairs /\ <<d, c>> \in Pairs
  BY DEF Pairs
<1>2. rate[<<c, d>>] \in Nat /\ rate[<<d, c>>] \in Nat /\ Markup \in Nat
  <2>1. rate[<<c, d>>] \in Rates \cup {0} /\ rate[<<d, c>>] \in Rates \cup {0}
    BY <1>1 DEF TypeOK
  <2>2. Rates \subseteq Nat \ {0} /\ Markup \in Nat \ {0}
    BY WalletAssumption
  <2>3. \A x \in Rates \cup {0} : x \in Nat
    BY <2>2
  <2> QED
    BY <2>1, <2>2, <2>3
<1>3. ASSUME NEW y \in Nat, NEW z \in Nat
      PROVE  y * z \in Nat /\ (z > 0 => y \div z \in Nat)
  BY <1>3
<1>4. n * rate[<<c, d>>] \in Nat /\ n * Markup \in Nat
  BY <1>2, <1>3
<1>5. n * rate[<<c, d>>] * Markup \in Nat
  BY <1>2, <1>3, <1>4
<1>6. rate[<<d, c>>] # 0 => (n * Markup) \div rate[<<d, c>>] \in Nat
  BY <1>2, <1>3, <1>4
<1>7. CASE rate[<<c, d>>] # 0
  BY <1>5, <1>7 DEF Quote
<1>8. CASE rate[<<c, d>>] = 0
  <2>1. rate[<<d, c>>] # 0
    BY <1>8
  <2> QED
    BY <1>6, <1>8, <2>1 DEF Quote
<1> QED
  BY <1>7, <1>8

\* The accounts and amounts of the rows.
LEMMA RowAccounts ==
    /\ \A p \in Payments :
         /\ Payment[p].user \in Users
         /\ \A u \in Users : <<u, Payment[p].currency>> \in Accounts
         /\ Payment[p].currency \in Currencies /\ Payment[p].amount \in Nat
    /\ \A d \in CryptoDeposits :
         /\ <<CryptoCredit[d].user, CryptoCredit[d].currency>> \in Accounts
         /\ CryptoCredit[d].currency \in Currencies /\ CryptoCredit[d].amount \in Nat
    /\ \A w \in Withdrawals :
         /\ <<Withdrawal[w].user, Withdrawal[w].currency>> \in Accounts
         /\ Withdrawal[w].currency \in Currencies /\ Withdrawal[w].amount \in Nat
    /\ \A t \in Transfers :
         /\ <<Transfer[t].from, Transfer[t].currency>> \in Accounts
         /\ <<Transfer[t].to, Transfer[t].currency>> \in Accounts
         /\ <<Transfer[t].from, Transfer[t].currency>>
              # <<Transfer[t].to, Transfer[t].currency>>
         /\ Transfer[t].currency \in Currencies /\ Transfer[t].amount \in Nat
    /\ \A k \in Conversions :
         /\ <<Conversion[k].user, Conversion[k].from>> \in Accounts
         /\ <<Conversion[k].user, Conversion[k].to>> \in Accounts
         /\ Conversion[k].from \in Currencies /\ Conversion[k].to \in Currencies
         /\ Conversion[k].from # Conversion[k].to /\ Conversion[k].amount \in Nat
BY WalletAssumption DEF Accounts

LEMMA CreditType ==
    ASSUME TypeOK, NEW u \in Users, NEW p \in Payments, Credit(u, p)
    PROVE  /\ available' \in [Accounts -> Nat]
           /\ cooldown' \subseteq Users
           /\ credits' \in [Users \X Payments -> Nat]
<1>1. <<u, Payment[p].currency>> \in Accounts /\ Payment[p].amount \in Nat
  BY RowAccounts
<1> QED
  BY <1>1 DEF Credit, TypeOK

LEMMA CreditRowType ==
    ASSUME TypeOK, NEW u \in Users, NEW p \in Payments, NEW r \in Payments,
           CreditRow(u, p, r)
    PROVE  /\ available' \in [Accounts -> Nat]
           /\ cooldown' \subseteq Users
           /\ credits' \in [Users \X Payments -> Nat]
           /\ deposit' \in [Payments -> {"none", "pending", "completed"}]
           /\ carries' \in [Payments -> Payments]
BY CreditType DEF CreditRow, TypeOK

LEMMA ReferenceType ==
    ASSUME TypeOK, NEW u \in Users, NEW p \in Payments, ApplyByReference(u, p),
           UNCHANGED <<pending, paid, made, request, stale, crossed, adminVars,
                       otherRows, auditVars>>
    PROVE  TypeOK'
<1>1. /\ available' \in [Accounts -> Nat]
      /\ cooldown' \subseteq Users
      /\ credits' \in [Users \X Payments -> Nat]
      /\ deposit' \in [Payments -> {"none", "pending", "completed"}]
      /\ carries' \in [Payments -> Payments]
      /\ extra' \subseteq Users \X Payments
  <2>1. CASE UNCHANGED <<available, deposit, carries, extra, credits, cooldown>>
    BY <2>1 DEF TypeOK
  <2>2. ASSUME NEW r \in Carrying(u, p), CreditRow(u, p, r), UNCHANGED extra
        PROVE  /\ available' \in [Accounts -> Nat]
               /\ cooldown' \subseteq Users
               /\ credits' \in [Users \X Payments -> Nat]
               /\ deposit' \in [Payments -> {"none", "pending", "completed"}]
               /\ carries' \in [Payments -> Payments]
               /\ extra' \subseteq Users \X Payments
    <3>1. r \in Payments
      BY DEF Carrying
    <3> QED
      BY <2>2, <3>1, CreditRowType DEF TypeOK
  <2>3. CASE Credit(u, p) /\ extra' = extra \cup {<<u, p>>} /\ UNCHANGED <<deposit, carries>>
    BY <2>3, CreditType DEF TypeOK
  <2> QED
    BY <2>1, <2>2, <2>3 DEF ApplyByReference
<1> QED
  BY <1>1 DEF TypeOK, adminVars, otherRows, auditVars

LEMMA DepositType ==
    ASSUME TypeOK, DepositStep
    PROVE  TypeOK'
<1>1. ASSUME NEW u \in Users, NEW p \in Payments, VerifyByReference(u, p)
      PROVE  TypeOK'
  BY <1>1, ReferenceType DEF VerifyByReference
<1>2. ASSUME NEW p \in Payments, PaystackWebhook(p)
      PROVE  TypeOK'
  BY <1>2, ReferenceType, PayerIsUser DEF PaystackWebhook
<1>3. ASSUME NEW p \in Payments, NEW r \in Payments, ReconcileDeposit(p, r)
      PROVE  TypeOK'
  <2>1. Payment[r].user \in Users
    BY PayerIsUser
  <2>2. /\ CreditRow(Payment[r].user, p, r)
        /\ crossed' = crossed \cup CrossedNow(Payment[r].user, p, r)
        /\ UNCHANGED <<pending, paid, made, extra, request, stale, adminVars, otherRows,
                       auditVars>>
    BY <1>3 DEF ReconcileDeposit
  <2>3. crossed' \subseteq Users \X Payments
    BY <2>1, <2>2 DEF TypeOK, CrossedNow
  <2> QED
    BY <2>1, <2>2, <2>3, CreditRowType DEF TypeOK, adminVars, otherRows, auditVars
<1>4. ASSUME NEW q \in Requests, GatewayAnswers(q)
      PROVE  TypeOK'
  <2> DEFINE p == request[q].payment
             r == request[q].row
             u == Payment[r].user
  <2>1. p \in Payments /\ r \in Payments
    BY <1>4 DEF GatewayAnswers, TypeOK, NoRequest, Asked
  <2>2. u \in Users /\ carries[r] \in Payments
    BY <2>1, PayerIsUser DEF TypeOK
  <2>3. request' \in [Requests -> Asked \cup {NoRequest}]
    BY <1>4 DEF GatewayAnswers, TypeOK
  <2>4. UNCHANGED <<pending, paid, made, extra, adminVars, otherRows, auditVars>>
    BY <1>4 DEF GatewayAnswers
  <2>5. \/ /\ CreditRow(u, p, r)
           /\ crossed' = crossed \cup CrossedNow(u, p, r)
           /\ stale' = IF deposit[r] = "pending" THEN stale
                       ELSE stale \cup {<<u, p>>, <<u, carries[r]>>}
        \/ UNCHANGED <<available, cooldown, credits, deposit, carries, stale, crossed>>
    BY <1>4 DEF GatewayAnswers
  <2> HIDE DEF p, r, u
  <2>6. CASE UNCHANGED <<available, cooldown, credits, deposit, carries, stale, crossed>>
    BY <2>3, <2>4, <2>6 DEF TypeOK, adminVars, otherRows, auditVars
  <2>7. CASE /\ CreditRow(u, p, r)
             /\ crossed' = crossed \cup CrossedNow(u, p, r)
             /\ stale' = IF deposit[r] = "pending" THEN stale
                         ELSE stale \cup {<<u, p>>, <<u, carries[r]>>}
    <3>1. crossed' \subseteq Users \X Payments /\ stale' \subseteq Users \X Payments
      BY <2>1, <2>2, <2>7 DEF TypeOK, CrossedNow
    <3> QED
      BY <2>1, <2>2, <2>3, <2>4, <2>7, <3>1, CreditRowType
      DEF TypeOK, adminVars, otherRows, auditVars
  <2> QED
    BY <2>5, <2>6, <2>7
<1>5. ASSUME NEW p \in Payments, NEW r \in Payments, NEW q \in Requests,
             AskGateway(q, p, r)
      PROVE  TypeOK'
  <2>1. request' \in [Requests -> Asked \cup {NoRequest}]
    BY <1>5 DEF AskGateway, TypeOK, Asked
  <2> QED
    BY <1>5, <2>1 DEF AskGateway, TypeOK, adminVars, otherRows, auditVars
<1>6. ASSUME NEW p \in Payments, InitiateDeposit(p) \/ Pay(p)
      PROVE  TypeOK'
  <2>1. made' \in [Payments -> Nat]
    BY <1>6, RowNumber DEF InitiateDeposit, Pay, TypeOK
  <2> QED
    BY <1>6, <2>1 DEF InitiateDeposit, Pay, TypeOK, adminVars, otherRows, auditVars
<1> QED
  BY <1>1, <1>2, <1>3, <1>4, <1>5, <1>6 DEF DepositStep

LEMMA CryptoType ==
    ASSUME TypeOK, NEW d \in CryptoDeposits,
           ApproveCryptoDeposit(d) \/ RejectCryptoDeposit(d)
    PROVE  TypeOK'
<1> DEFINE a == <<CryptoCredit[d].user, CryptoCredit[d].currency>>
           total == available[a] + CryptoCredit[d].amount
<1>1. a \in Accounts /\ total \in Nat
  BY RowAccounts DEF TypeOK
<1>2. Round(total) \in Nat
  BY <1>1, RoundNat
<1>3. CASE ApproveCryptoDeposit(d)
  <2>1. /\ available' = [available EXCEPT ![a] = Round(total)]
        /\ rounded' = RoundedNow(a, total, 0)
    BY <1>3 DEF ApproveCryptoDeposit
  <2> HIDE DEF a, total
  <2>2. available' \in [Accounts -> Nat] /\ rounded' \subseteq Accounts
    BY <1>1, <1>2, <2>1 DEF TypeOK, RoundedNow
  <2> QED
    BY <1>3, <2>2 DEF ApproveCryptoDeposit, TypeOK, depositVars, adminVars
<1>4. CASE RejectCryptoDeposit(d)
  BY <1>4 DEF RejectCryptoDeposit, TypeOK, depositVars, adminVars, auditVars
<1> QED
  BY <1>3, <1>4

LEMMA WithdrawalType ==
    ASSUME TypeOK, WithdrawalStep
    PROVE  TypeOK'
<1>1. ASSUME NEW w \in Withdrawals, Withdraw(w)
      PROVE  TypeOK'
  <2> DEFINE a == <<Withdrawal[w].user, Withdrawal[w].currency>>
             n == Withdrawal[w].amount
  <2>1. a \in Accounts /\ n \in Nat
    BY RowAccounts
  <2>2. /\ available[a] >= n
        /\ available' = [available EXCEPT ![a] = @ - n]
        /\ pending' = [pending EXCEPT ![a] = @ + n]
    BY <1>1 DEF Withdraw
  <2> HIDE DEF a, n
  <2>3. available[a] \in Nat /\ pending[a] \in Nat
    BY <2>1 DEF TypeOK
  <2>4. available[a] - n \in Nat /\ pending[a] + n \in Nat
    BY <2>1, <2>2, <2>3
  <2>5. available' \in [Accounts -> Nat] /\ pending' \in [Accounts -> Nat]
    BY <2>1, <2>2, <2>4 DEF TypeOK
  <2> QED
    BY <1>1, <2>5 DEF Withdraw, TypeOK, depositVars, adminVars, auditVars
<1>2. ASSUME NEW w \in Withdrawals, NEW status \in {"completed", "failed"},
             NEW back \in BOOLEAN, NEW crypt \in BOOLEAN,
             EndWithdrawal(w, status, back, crypt)
      PROVE  TypeOK'
  <2> DEFINE a == <<Withdrawal[w].user, Withdrawal[w].currency>>
             n == Withdrawal[w].amount
             rest == IF pending[a] >= n THEN pending[a] - n
                     ELSE IF crypt THEN 0 ELSE pending[a]
             total == IF back THEN available[a] + n ELSE available[a]
  <2>1. a \in Accounts /\ n \in Nat
    BY RowAccounts
  <2>2. rest \in Nat /\ total \in Nat
    BY <2>1 DEF TypeOK
  <2>3. /\ pending' = [pending EXCEPT ![a] = IF crypt THEN Round(rest) ELSE rest]
        /\ available' = [available EXCEPT ![a] =
                          IF back /\ crypt THEN Round(total) ELSE total]
        /\ rounded' = IF crypt THEN RoundedNow(a, rest, IF back THEN total ELSE 0)
                      ELSE rounded
    BY <1>2 DEF EndWithdrawal
  <2> HIDE DEF a, n, rest, total
  <2>4. Round(rest) \in Nat /\ Round(total) \in Nat
    BY <2>2, RoundNat
  <2>5. /\ pending' \in [Accounts -> Nat] /\ available' \in [Accounts -> Nat]
        /\ rounded' \subseteq Accounts
    BY <2>1, <2>2, <2>3, <2>4 DEF TypeOK, RoundedNow
  <2>6. withdrawal' \in [Withdrawals -> {"none", "pending", "completed", "failed"}]
    BY <1>2 DEF EndWithdrawal, TypeOK
  <2> QED
    BY <1>2, <2>5, <2>6 DEF EndWithdrawal, TypeOK, depositVars, adminVars
<1> QED
  BY <1>1, <1>2
  DEF WithdrawalStep, ApproveWithdrawal, RejectWithdrawal, ApproveCryptoWithdrawal,
      RejectCryptoWithdrawal

\* A debit and a credit of two accounts.
LEMMA MoveType ==
    ASSUME TypeOK, NEW a \in Accounts, NEW b \in Accounts, a # b,
           NEW n \in Nat, NEW m \in Nat, available[a] >= n,
           available' = [available EXCEPT ![a] = @ - n, ![b] = @ + m]
    PROVE  available' \in [Accounts -> Nat]
<1>1. available[a] \in Nat /\ available[b] \in Nat
  BY DEF TypeOK
<1>2. available[a] - n \in Nat /\ available[b] + m \in Nat
  BY <1>1
<1>3. ASSUME NEW x \in Accounts
      PROVE  available'[x] \in Nat
  BY <1>2 DEF TypeOK
<1> QED
  BY <1>3 DEF TypeOK

LEMMA TransferType ==
    ASSUME TypeOK, NEW t \in Transfers, TransferFunds(t)
    PROVE  TypeOK'
<1> DEFINE a == <<Transfer[t].from, Transfer[t].currency>>
           b == <<Transfer[t].to, Transfer[t].currency>>
           n == Transfer[t].amount
<1>1. a \in Accounts /\ b \in Accounts /\ a # b /\ n \in Nat
  BY RowAccounts
<1>2. available[a] >= n /\ available' = [available EXCEPT ![a] = @ - n, ![b] = @ + n]
  BY DEF TransferFunds
<1> HIDE DEF a, b, n
<1>3. available' \in [Accounts -> Nat]
  BY <1>1, <1>2, MoveType
<1> QED
  BY <1>3 DEF TransferFunds, TypeOK, depositVars, adminVars, auditVars

LEMMA ConversionType ==
    ASSUME TypeOK, NEW k \in Conversions, ConvertCurrency(k)
    PROVE  TypeOK'
<1> DEFINE a == <<Conversion[k].user, Conversion[k].from>>
           b == <<Conversion[k].user, Conversion[k].to>>
           from == Conversion[k].from
           to == Conversion[k].to
           n == Conversion[k].amount
           got == Quote(from, to, n)
<1>1. /\ a \in Accounts /\ b \in Accounts /\ a # b /\ n \in Nat
      /\ from \in Currencies /\ to \in Currencies /\ from # to
  BY RowAccounts
<1>2. got \in Nat
  BY <1>1, QuoteNat DEF ConvertCurrency
<1>3. /\ available[a] >= n
      /\ available' = [available EXCEPT ![a] = @ - n, ![b] = @ + got]
      /\ gained' = [gained EXCEPT ![from] = @ - n, ![to] = @ + got]
  BY DEF ConvertCurrency
<1> HIDE DEF a, b, n, from, to, got
<1>4. available' \in [Accounts -> Nat]
  BY <1>1, <1>2, <1>3, MoveType
<1>5. gained' \in [Currencies -> Int]
  <2>1. gained[from] - n \in Int /\ gained[to] + got \in Int
    BY <1>1, <1>2 DEF TypeOK
  <2>2. \A c \in Currencies : gained'[c] \in Int
    BY <1>1, <1>3, <2>1 DEF TypeOK
  <2> QED
    BY <1>3, <2>2 DEF TypeOK
<1> QED
  BY <1>4, <1>5 DEF ConvertCurrency, TypeOK, depositVars, adminVars

LEMMA ReversalType ==
    ASSUME TypeOK, NEW t \in Transfers, NEW i \in Transfers, ReverseTransfer(t, i)
    PROVE  TypeOK'
<1> DEFINE a == <<Transfer[t].from, Transfer[t].currency>>
           b == <<Transfer[i].to, Transfer[i].currency>>
           n == Transfer[t].amount
           m == Transfer[i].amount
           credited == [available EXCEPT ![a] = @ + n]
<1>1. /\ a \in Accounts /\ b \in Accounts /\ n \in Nat /\ m \in Nat
      /\ a[2] \in Currencies /\ b[2] \in Currencies
  BY RowAccounts
<1>2. /\ available' = [credited EXCEPT ![b] = Minus(@, m)]
      /\ minted' = [[minted EXCEPT ![a[2]] = @ + n]
                      EXCEPT ![b[2]] = @ - (credited[b] - available'[b])]
  BY DEF ReverseTransfer
<1>3. credited \in [Accounts -> Nat]
  BY <1>1 DEF TypeOK
<1> HIDE DEF a, b, n, m, credited
<1>4. Minus(credited[b], m) \in Nat
  BY <1>1, <1>3 DEF Minus
<1>5. available' \in [Accounts -> Nat]
  BY <1>1, <1>2, <1>3, <1>4
<1>6. minted' \in [Currencies -> Int]
  <2>1. credited[b] - available'[b] \in Int
    BY <1>1, <1>3, <1>5
  <2>2. [minted EXCEPT ![a[2]] = @ + n] \in [Currencies -> Int]
    BY <1>1 DEF TypeOK
  <2> QED
    BY <1>1, <1>2, <2>1, <2>2
<1> QED
  BY <1>5, <1>6 DEF ReverseTransfer, TypeOK, depositVars, adminVars

LEMMA SettingType ==
    ASSUME TypeOK, SettingStep
    PROVE  TypeOK'
<1>1. UNCHANGED Untouched /\ settings' \in 0 .. MaxSettings
  BY WalletAssumption
  DEF SettingStep, FreezeWallet, UnfreezeWallet, BlockWithdrawals,
      UnblockWithdrawals, SetExchangeRate, DeactivateExchangeRate, Setting, TypeOK
<1>2. /\ frozen' \subseteq Users /\ blocked' \subseteq Users
      /\ rate' \in [Pairs -> Rates \cup {0}]
  BY DEF SettingStep, FreezeWallet, UnfreezeWallet, BlockWithdrawals,
         UnblockWithdrawals, SetExchangeRate, DeactivateExchangeRate, Setting, TypeOK
<1> QED
  BY <1>1, <1>2 DEF Untouched, TypeOK, depositVars, otherRows, auditVars

LEMMA InitType == Init => TypeOK
BY WalletAssumption DEF Init, TypeOK

LEMMA StepType == TypeOK /\ [Next]_vars => TypeOK'
<1> SUFFICES ASSUME TypeOK, [Next]_vars
             PROVE  TypeOK'
  OBVIOUS
<1>1. CASE UNCHANGED vars
  BY <1>1 DEF vars, TypeOK, depositVars, adminVars, otherRows, auditVars
<1>2. ASSUME NEW u \in Users, CooldownEnds(u)
      PROVE  TypeOK'
  BY <1>2 DEF CooldownEnds, TypeOK, depositVars, adminVars, otherRows, auditVars
<1> QED
  BY <1>1, <1>2, DepositType, CryptoType, WithdrawalType, TransferType,
     ReversalType, ConversionType, SettingType DEF Next

LEMMA WalletTypes == Spec => []TypeOK
BY InitType, StepType, PTL DEF Spec

\* No request, webhook, approval, reversal or conversion takes a balance or a
\* pending amount below zero, whatever the amounts, rates and roundings.
THEOREM WalletTypeCorrect == Spec => []TypeOK
BY WalletTypes

-----------------------------------------------------------------------------
(* Pending amounts *)

RequestedBy(a) ==
    {w \in Withdrawals : /\ withdrawal[w] = "pending"
                         /\ a = <<Withdrawal[w].user, Withdrawal[w].currency>>}
Requested(a) == Total([w \in Withdrawals |-> Withdrawal[w].amount], RequestedBy(a))

PendingHolds == \A a \in Accounts \ rounded : pending[a] = Requested(a)

LEMMA PendingNamed == PendingHolds <=> PendingMatchesRequests
BY DEF PendingHolds, PendingMatchesRequests, Requested, RequestedBy

LEMMA QuietPending ==
    ASSUME PendingHolds, UNCHANGED <<pending, withdrawal>>, rounded \subseteq rounded'
    PROVE  PendingHolds'
BY DEF PendingHolds, Requested, RequestedBy

\* The sum of the requests of an account, with and without one of them.
LEMMA RequestCounts ==
    ASSUME NEW S \in SUBSET Withdrawals, NEW w \in Withdrawals \ S
    PROVE  /\ Total([v \in Withdrawals |-> Withdrawal[v].amount], S \cup {w})
                = Total([v \in Withdrawals |-> Withdrawal[v].amount], S)
                    + Withdrawal[w].amount
           /\ Total([v \in Withdrawals |-> Withdrawal[v].amount], S) \in Nat
<1> DEFINE f == [v \in Withdrawals |-> Withdrawal[v].amount]
<1>1. IsFiniteSet(S)
  BY WalletAssumption, FS_Subset
<1>2. \A v \in S \cup {w} : f[v] \in Nat
  BY RowAccounts
<1>3. f[w] = Withdrawal[w].amount
  OBVIOUS
<1> HIDE DEF f
<1>4. Total(f, S \cup {w}) = Total(f, S) + f[w] /\ Total(f, S) \in Nat
  BY <1>1, <1>2, TotalInsert
<1> QED
  BY <1>3, <1>4 DEF f

\* The requests of the account of w, when w is decided on or sent.
LEMMA RequestMoves ==
    ASSUME TypeOK, NEW w \in Withdrawals, NEW status \in {"pending", "completed", "failed"},
           withdrawal' = [withdrawal EXCEPT ![w] = status],
           withdrawal[w] = "pending" <=> status # "pending",
           NEW a \in Accounts
    PROVE  /\ a # <<Withdrawal[w].user, Withdrawal[w].currency>>
                => Requested(a)' = Requested(a)
           /\ a = <<Withdrawal[w].user, Withdrawal[w].currency>> =>
                IF status = "pending"
                THEN Requested(a)' = Requested(a) + Withdrawal[w].amount
                ELSE Requested(a) = Requested(a)' + Withdrawal[w].amount
           /\ Requested(a) \in Nat /\ Requested(a)' \in Nat
<1> DEFINE S == RequestedBy(a)
           T == RequestedBy(a)'
           f == [v \in Withdrawals |-> Withdrawal[v].amount]
<1>1. S \in SUBSET Withdrawals /\ T \in SUBSET Withdrawals
  BY DEF RequestedBy
<1>2. Requested(a) = Total(f, S) /\ Requested(a)' = Total(f, T)
  BY DEF Requested
<1>3. IsFiniteSet(S) /\ IsFiniteSet(T)
  BY <1>1, WalletAssumption, FS_Subset
<1>4. \A v \in Withdrawals : f[v] \in Nat
  BY RowAccounts
<1>5. Total(f, S) \in Nat /\ Total(f, T) \in Nat
  <2> HIDE DEF f, S, T
  <2> QED
    BY <1>1, <1>3, <1>4, TotalNat
<1>6. CASE a # <<Withdrawal[w].user, Withdrawal[w].currency>>
  <2>1. S = T
    BY <1>6 DEF RequestedBy, TypeOK
  <2> HIDE DEF f, S, T
  <2> QED
    BY <1>2, <1>5, <1>6, <2>1
<1>7. CASE a = <<Withdrawal[w].user, Withdrawal[w].currency>> /\ status = "pending"
  <2>1. w \notin S /\ T = S \cup {w}
    BY <1>7 DEF RequestedBy, TypeOK
  <2>2. Total(f, S \cup {w}) = Total(f, S) + Withdrawal[w].amount
    BY <1>1, <2>1, RequestCounts
  <2> HIDE DEF f, S, T
  <2> QED
    BY <1>2, <1>5, <1>7, <2>1, <2>2
<1>8. CASE a = <<Withdrawal[w].user, Withdrawal[w].currency>> /\ status # "pending"
  <2>1. w \notin T /\ S = T \cup {w}
    BY <1>8 DEF RequestedBy, TypeOK
  <2>2. Total(f, T \cup {w}) = Total(f, T) + Withdrawal[w].amount
    BY <1>1, <2>1, RequestCounts
  <2> HIDE DEF f, S, T
  <2> QED
    BY <1>2, <1>5, <1>8, <2>1, <2>2
<1> QED
  BY <1>6, <1>7, <1>8

LEMMA WithdrawPending ==
    ASSUME TypeOK, PendingHolds, NEW w \in Withdrawals, Withdraw(w)
    PROVE  PendingHolds'
<1> DEFINE a == <<Withdrawal[w].user, Withdrawal[w].currency>>
           n == Withdrawal[w].amount
<1>1. a \in Accounts /\ n \in Nat
  BY RowAccounts
<1>2. /\ withdrawal[w] = "none" /\ withdrawal' = [withdrawal EXCEPT ![w] = "pending"]
      /\ pending' = [pending EXCEPT ![a] = @ + n] /\ rounded' = rounded
  BY DEF Withdraw, auditVars
<1>3. SUFFICES ASSUME NEW b \in Accounts, b \notin rounded
               PROVE  pending'[b] = Requested(b)'
  BY <1>2 DEF PendingHolds
<1>4. pending[b] = Requested(b)
  BY <1>3 DEF PendingHolds
<1>5. /\ b # a => Requested(b)' = Requested(b)
      /\ b = a => Requested(b)' = Requested(b) + n
  BY <1>2, RequestMoves
<1> HIDE DEF a, n
<1>6. pending'[b] = IF b = a THEN pending[b] + n ELSE pending[b]
  BY <1>2 DEF TypeOK
<1> QED
  BY <1>4, <1>5, <1>6

\* The end of a withdrawal finds its amount in pending_amount, and takes
\* exactly that, unless a rounding has touched the account.
LEMMA EndPending ==
    ASSUME TypeOK, PendingHolds, NEW w \in Withdrawals,
           NEW status \in {"completed", "failed"},
           NEW back \in BOOLEAN, NEW crypt \in BOOLEAN,
           EndWithdrawal(w, status, back, crypt)
    PROVE  /\ rounded \subseteq rounded'
           /\ \A b \in Accounts : b \notin rounded' =>
                /\ pending'[b] = Requested(b)'
                /\ pending[b] = Requested(b)
                /\ b = <<Withdrawal[w].user, Withdrawal[w].currency>> =>
                     /\ pending[b] = pending'[b] + Withdrawal[w].amount
                     /\ available'[b] = IF back THEN available[b] + Withdrawal[w].amount
                                        ELSE available[b]
<1> DEFINE a == <<Withdrawal[w].user, Withdrawal[w].currency>>
           n == Withdrawal[w].amount
           rest == IF pending[a] >= n THEN pending[a] - n
                   ELSE IF crypt THEN 0 ELSE pending[a]
           total == IF back THEN available[a] + n ELSE available[a]
<1>1. a \in Accounts /\ n \in Nat
  BY RowAccounts
<1>2. withdrawal[w] = "pending" /\ withdrawal' = [withdrawal EXCEPT ![w] = status]
  BY DEF EndWithdrawal
<1>3. /\ pending' = [pending EXCEPT ![a] = IF crypt THEN Round(rest) ELSE rest]
      /\ available' = [available EXCEPT ![a] = IF back /\ crypt THEN Round(total) ELSE total]
      /\ rounded' = IF crypt THEN RoundedNow(a, rest, IF back THEN total ELSE 0)
                    ELSE rounded
  BY DEF EndWithdrawal
<1>4. rounded \subseteq rounded'
  BY <1>3 DEF RoundedNow
<1>5. ASSUME NEW b \in Accounts, b \notin rounded'
      PROVE  /\ pending'[b] = Requested(b)'
             /\ pending[b] = Requested(b)
             /\ b = a => /\ pending[b] = pending'[b] + n
                         /\ available'[b] = IF back THEN available[b] + n ELSE available[b]
  <2>1. pending[b] = Requested(b)
    BY <1>4, <1>5 DEF PendingHolds
  <2>2. /\ b # a => Requested(b)' = Requested(b)
        /\ b = a => Requested(b) = Requested(b)' + n
        /\ Requested(b) \in Nat /\ Requested(b)' \in Nat
    BY <1>2, RequestMoves
  <2>3. CASE b # a
    <3>1. pending'[b] = pending[b]
      BY <1>3, <2>3 DEF TypeOK
    <3> QED
      BY <2>1, <2>2, <2>3, <3>1
  <2>4. CASE b = a
    <3>1. pending[a] = Requested(a)' + n /\ Requested(a)' \in Nat
      BY <2>1, <2>2, <2>4
    <3>2. rest = Requested(a)'
      BY <1>1, <3>1
    <3>3. crypt => Round(rest) = rest /\ (back => Round(total) = total)
      BY <1>3, <1>5, <2>4 DEF RoundedNow
    <3> HIDE DEF a, n, rest, total
    <3>4. pending'[a] = rest /\ available'[a] = total
      BY <1>1, <1>3, <3>3 DEF TypeOK
    <3> QED
      BY <2>1, <2>4, <3>1, <3>2, <3>4 DEF total
  <2> QED
    BY <2>3, <2>4
<1> QED
  BY <1>4, <1>5

LEMMA PendingStep ==
    TypeOK /\ PendingHolds /\ [Next]_vars => PendingHolds'
<1> SUFFICES ASSUME TypeOK, PendingHolds, [Next]_vars
             PROVE  PendingHolds'
  OBVIOUS
<1>1. ASSUME NEW w \in Withdrawals, Withdraw(w)
      PROVE  PendingHolds'
  BY <1>1, WithdrawPending
<1>2. ASSUME NEW w \in Withdrawals, NEW status \in {"completed", "failed"},
             NEW back \in BOOLEAN, NEW crypt \in BOOLEAN,
             EndWithdrawal(w, status, back, crypt)
      PROVE  PendingHolds'
  BY <1>2, EndPending DEF PendingHolds
<1>3. CASE WithdrawalStep
  BY <1>1, <1>2, <1>3
  DEF WithdrawalStep, ApproveWithdrawal, RejectWithdrawal, ApproveCryptoWithdrawal,
      RejectCryptoWithdrawal
<1>4. CASE DepositStep
  <2>1. UNCHANGED <<pending, otherRows, auditVars>>
    BY <1>4
    DEF DepositStep, InitiateDeposit, Pay, VerifyByReference, PaystackWebhook,
        ReconcileDeposit, AskGateway, GatewayAnswers
  <2> QED
    BY <2>1, QuietPending DEF otherRows, auditVars
<1>5. ASSUME NEW d \in CryptoDeposits,
             ApproveCryptoDeposit(d) \/ RejectCryptoDeposit(d)
      PROVE  PendingHolds'
  BY <1>5, QuietPending
  DEF ApproveCryptoDeposit, RejectCryptoDeposit, RoundedNow, auditVars
<1>6. ASSUME UNCHANGED <<pending, withdrawal, rounded>>
      PROVE  PendingHolds'
  BY <1>6, QuietPending
<1>7. CASE SettingStep
  BY <1>6, <1>7
  DEF SettingStep, FreezeWallet, UnfreezeWallet, BlockWithdrawals,
      UnblockWithdrawals, SetExchangeRate, DeactivateExchangeRate, Setting,
      Untouched, otherRows, auditVars
<1>8. CASE \/ \E u \in Users : CooldownEnds(u)
           \/ \E t \in Transfers : \/ TransferFunds(t)
                                   \/ \E i \in Transfers : ReverseTransfer(t, i)
           \/ \E k \in Conversions : ConvertCurrency(k)
  BY <1>6, <1>8
  DEF CooldownEnds, TransferFunds, ReverseTransfer, ConvertCurrency, otherRows, auditVars
<1>9. CASE UNCHANGED vars
  BY <1>6, <1>9 DEF vars, otherRows, auditVars
<1> QED
  BY <1>3, <1>4, <1>5, <1>7, <1>8, <1>9 DEF Next

LEMMA PendingInit == Init => PendingHolds
<1> SUFFICES ASSUME Init, NEW a \in Accounts
             PROVE  pending[a] = Requested(a)
  BY DEF PendingHolds
<1>1. RequestedBy(a) = {}
  BY DEF Init, RequestedBy
<1>2. Requested(a) = 0
  BY <1>1, TotalZero DEF Requested
<1> QED
  BY <1>2 DEF Init

LEMMA PendingInvariant == Spec => []PendingHolds
BY PendingInit, PendingStep, WalletTypes, PTL DEF Spec

\* pending_amount is the sum of the withdrawals that wait, whichever router
\* ends them and in whatever order, in accounts no rounding has touched.
THEOREM PendingIsRequested == Spec => []PendingMatchesRequests
BY PendingInvariant, PendingNamed, PTL

-----------------------------------------------------------------------------
(* Money *)

\* What the wallets hold in currency c, and what has come into it.
InWallets(c) == Total(available, Users \X {c})
OnHold(c) == Total(pending, Users \X {c})
FromGateways(c) ==
    Total([x \in Pairings |-> credits[x] * Payment[x[2]].amount],
          {x \in Pairings : Payment[x[2]].currency = c})
FromChains(c) ==
    Total([d \in CryptoDeposits |-> CryptoCredit[d].amount],
          {d \in CryptoDeposits : crypto[d] = "approved" /\ CryptoCredit[d].currency = c})

Unrounded(c) == \A u \in Users : <<u, c>> \notin rounded

Explained(c) ==
    InWallets(c) + OnHold(c) = Deposited(c) - PaidOut(c) + gained[c] + minted[c]

LEMMA MoneyNamed ==
    MoneyExplained <=> \A c \in Currencies : Unrounded(c) => Explained(c)
BY DEF MoneyExplained, Unrounded, Explained, InWallets, OnHold

LEMMA DepositedNamed ==
    \A c \in Currencies : Deposited(c) = FromGateways(c) + FromChains(c)
BY DEF Deposited, FromGateways, FromChains, Pairings

\* Users and payments make finitely many pairs.
LEMMA PairingsFinite ==
    /\ IsFiniteSet(Pairings)
    /\ \A x \in Pairings : /\ x[2] \in Payments /\ Payment[x[2]].amount \in Nat
<1>1. IsFiniteSet(Pairings)
  BY WalletAssumption, FS_Product DEF Pairings
<1> QED
  BY <1>1, RowAccounts DEF Pairings

\* Finitely many accounts hold a currency.
LEMMA CurrencyAccounts ==
    ASSUME NEW c \in Currencies
    PROVE  IsFiniteSet(Users \X {c}) /\ Users \X {c} \subseteq Accounts
BY WalletAssumption, FS_Product, FS_Singleton DEF Accounts

\* One account changes: the sum of its currency changes by as much, and the
\* sums of the others do not.
ChangesOne(f, g, a) ==
    /\ \A x \in Accounts : f[x] \in Nat
    /\ \A x \in Accounts : g[x] \in Nat
    /\ \A x \in Accounts \ {a} : g[x] = f[x]

LEMMA AccountChanges ==
    ASSUME NEW f, NEW g, NEW a \in Accounts, ChangesOne(f, g, a), NEW c \in Currencies
    PROVE  /\ Total(g, Users \X {c})
                = Total(f, Users \X {c}) + (IF a[2] = c THEN g[a] - f[a] ELSE 0)
           /\ Total(f, Users \X {c}) \in Nat
           /\ Total(g, Users \X {c}) \in Nat
<1> USE DEF ChangesOne
<1> DEFINE S == Users \X {c}
<1>1. IsFiniteSet(S) /\ S \subseteq Accounts /\ (a \in S <=> a[2] = c)
  BY CurrencyAccounts DEF Accounts
<1> HIDE DEF S
<1>2. /\ \A x \in S : f[x] \in Nat
      /\ \A x \in S : g[x] \in Nat
  BY <1>1
<1>3. Total(f, S) \in Nat /\ Total(g, S) \in Nat
  BY <1>1, <1>2, TotalNat
<1>4. CASE a \in S
  <2>1. \A x \in S \ {a} : g[x] = f[x]
    BY <1>1
  <2>2. Total(g, S) = Total(f, S) - f[a] + g[a]
    BY <1>1, <1>2, <1>4, <2>1, TotalUpdate
  <2>3. f[a] \in Nat /\ g[a] \in Nat
    OBVIOUS
  <2> QED
    BY <1>1, <1>3, <1>4, <2>2, <2>3 DEF S
<1>5. CASE a \notin S
  <2>1. \A x \in S : f[x] = g[x]
    BY <1>1, <1>5
  <2>2. Total(f, S) = Total(g, S)
    BY <2>1, TotalSame
  <2> QED
    BY <1>1, <1>3, <1>5, <2>2 DEF S
<1> QED
  BY <1>4, <1>5

LEMMA MoneyNat ==
    ASSUME TypeOK, NEW c \in Currencies
    PROVE  /\ InWallets(c) \in Nat /\ OnHold(c) \in Nat
           /\ FromGateways(c) \in Nat /\ FromChains(c) \in Nat /\ PaidOut(c) \in Nat
           /\ gained[c] \in Int /\ minted[c] \in Int
<1>1. InWallets(c) \in Nat /\ OnHold(c) \in Nat
  <2>1. /\ \A x \in Users \X {c} : available[x] \in Nat
        /\ \A x \in Users \X {c} : pending[x] \in Nat
    BY CurrencyAccounts DEF TypeOK
  <2> QED
    BY <2>1, CurrencyAccounts, TotalNat DEF InWallets, OnHold
<1>2. FromGateways(c) \in Nat
  <2> DEFINE f == [x \in Pairings |-> credits[x] * Payment[x[2]].amount]
             S == {x \in Pairings : Payment[x[2]].currency = c}
  <2>1. IsFiniteSet(S)
    BY PairingsFinite, FS_Subset
  <2>2. \A x \in Nat : \A y \in Nat : x * y \in Nat
    OBVIOUS
  <2>3. \A x \in S : f[x] \in Nat
    BY <2>2, PairingsFinite DEF TypeOK, Pairings
  <2> HIDE DEF f, S
  <2>4. Total(f, S) \in Nat
    BY <2>1, <2>3, TotalNat
  <2> QED
    BY <2>4 DEF FromGateways, f, S
<1>3. FromChains(c) \in Nat
  <2> DEFINE f == [d \in CryptoDeposits |-> CryptoCredit[d].amount]
             S == {d \in CryptoDeposits : crypto[d] = "approved"
                                            /\ CryptoCredit[d].currency = c}
  <2>1. IsFiniteSet(S)
    BY WalletAssumption, FS_Subset
  <2>2. \A d \in S : f[d] \in Nat
    BY RowAccounts
  <2> HIDE DEF f, S
  <2>3. Total(f, S) \in Nat
    BY <2>1, <2>2, TotalNat
  <2> QED
    BY <2>3 DEF FromChains, f, S
<1>4. PaidOut(c) \in Nat
  <2> DEFINE f == [w \in Withdrawals |-> Withdrawal[w].amount]
             S == {w \in Withdrawals : withdrawal[w] = "completed"
                                         /\ Withdrawal[w].currency = c}
  <2>1. IsFiniteSet(S)
    BY WalletAssumption, FS_Subset
  <2>2. \A w \in S : f[w] \in Nat
    BY RowAccounts
  <2> HIDE DEF f, S
  <2>3. Total(f, S) \in Nat
    BY <2>1, <2>2, TotalNat
  <2> QED
    BY <2>3 DEF PaidOut, f, S
<1> QED
  BY <1>1, <1>2, <1>3, <1>4 DEF TypeOK

\* A step that moves nothing in any of the sums.
LEMMA QuietMoney ==
    ASSUME NEW c \in Currencies, Explained(c),
           UNCHANGED <<available, pending, credits, withdrawal, gained, minted>>,
           \A d \in CryptoDeposits : crypto'[d] = "approved" <=> crypto[d] = "approved"
    PROVE  Explained(c)'
<1>1. FromChains(c)' = FromChains(c) /\ FromGateways(c)' = FromGateways(c)
  BY DEF FromChains, FromGateways
<1>2. Deposited(c)' = Deposited(c)
  BY <1>1 DEF Deposited, FromChains, FromGateways, Pairings
<1> QED
  BY <1>2 DEF Explained, InWallets, OnHold, PaidOut

\* A payment is credited: it comes in, and its user has it.
LEMMA CreditMoney ==
    ASSUME TypeOK, NEW c \in Currencies, Explained(c), NEW u \in Users,
           NEW p \in Payments, Credit(u, p),
           UNCHANGED <<pending, crypto, withdrawal, gained, minted>>
    PROVE  Explained(c)'
<1> DEFINE a == <<u, Payment[p].currency>>
           y == <<u, p>>
           n == Payment[p].amount
           f == [x \in Pairings |-> credits[x] * Payment[x[2]].amount]
           g == [x \in Pairings |-> credits'[x] * Payment[x[2]].amount]
           S == {x \in Pairings : Payment[x[2]].currency = c}
<1>1. /\ a \in Accounts /\ n \in Nat /\ a[2] = Payment[p].currency
      /\ y \in Pairings /\ y[2] = p
  BY RowAccounts DEF Pairings
<1>2. InWallets(c)' = InWallets(c) + (IF a[2] = c THEN n ELSE 0)
  <2>1. /\ available \in [Accounts -> Nat]
        /\ available' = [available EXCEPT ![a] = @ + n]
    BY DEF TypeOK, Credit
  <2> HIDE DEF a, n
  <2>2. /\ ChangesOne(available, available', a)
        /\ available'[a] = available[a] + n /\ available[a] \in Nat
    BY <1>1, <2>1 DEF ChangesOne
  <2>3. InWallets(c)' = InWallets(c) + (IF a[2] = c THEN available'[a] - available[a] ELSE 0)
    BY <1>1, <2>2, AccountChanges DEF InWallets
  <2>4. available'[a] - available[a] = n
    BY <1>1, <2>2
  <2> QED
    BY <2>3, <2>4
<1>3. FromGateways(c)' = FromGateways(c) + (IF a[2] = c THEN n ELSE 0)
  <2>1. FromGateways(c) = Total(f, S) /\ FromGateways(c)' = Total(g, S)
    BY DEF FromGateways
  <2>2. /\ credits \in [Pairings -> Nat] /\ credits' \in [Pairings -> Nat]
        /\ credits'[y] = credits[y] + 1
        /\ \A x \in Pairings : x # y => credits'[x] = credits[x]
    BY <1>1 DEF TypeOK, Credit, Pairings
  <2>3. IsFiniteSet(S) /\ S \subseteq Pairings /\ (y \in S <=> a[2] = c)
    BY <1>1, PairingsFinite, FS_Subset
  <2>4. \A i \in Nat : \A j \in Nat : i * j \in Nat /\ (i + 1) * j = i * j + j
    OBVIOUS
  <2>5. /\ \A x \in Pairings : f[x] \in Nat
        /\ \A x \in Pairings : g[x] \in Nat
    BY <2>2, <2>4, PairingsFinite
  <2>6. \A x \in Pairings \ {y} : g[x] = f[x]
    BY <2>2
  <2>7. g[y] = f[y] + n
    BY <1>1, <2>2, <2>4
  <2> HIDE DEF f, g, S, n, a, y
  <2>8. /\ \A x \in S : f[x] \in Nat
        /\ \A x \in S : g[x] \in Nat
    BY <2>3, <2>5
  <2>9. CASE y \in S
    <3>1. \A x \in S \ {y} : g[x] = f[x]
      BY <2>3, <2>6
    <3>2. Total(g, S) = Total(f, S) - f[y] + g[y] /\ Total(f, S) \in Nat
      BY <2>3, <2>8, <2>9, <3>1, TotalUpdate
    <3> QED
      BY <1>1, <2>1, <2>3, <2>5, <2>7, <2>9, <3>2
  <2>10. CASE y \notin S
    <3>1. \A x \in S : f[x] = g[x]
      BY <2>3, <2>6, <2>10
    <3>2. Total(f, S) = Total(g, S)
      BY <3>1, TotalSame
    <3>3. Total(f, S) \in Nat
      BY <2>3, <2>8, TotalNat
    <3> QED
      BY <2>1, <2>3, <2>10, <3>2, <3>3
  <2> QED
    BY <2>9, <2>10
<1>4. OnHold(c)' = OnHold(c) /\ FromChains(c)' = FromChains(c) /\ PaidOut(c)' = PaidOut(c)
  <2> HIDE DEF a, n, f, g, S, y
  <2>1. OnHold(c)' = OnHold(c)
    BY DEF OnHold
  <2>2. FromChains(c)' = FromChains(c)
    BY DEF FromChains
  <2>3. PaidOut(c)' = PaidOut(c)
    BY DEF PaidOut
  <2> QED
    BY <2>1, <2>2, <2>3
<1>5. /\ InWallets(c) \in Nat /\ OnHold(c) \in Nat
      /\ FromGateways(c) \in Nat /\ FromChains(c) \in Nat /\ PaidOut(c) \in Nat
      /\ gained[c] \in Int /\ minted[c] \in Int
  BY MoneyNat
<1>6. /\ Deposited(c) = FromGateways(c) + FromChains(c)
      /\ Deposited(c)' = FromGateways(c)' + FromChains(c)'
  BY DEF Deposited, FromGateways, FromChains, Pairings
<1>7. Explained(c)' <=>
        (InWallets(c)' + OnHold(c)' = Deposited(c)' - PaidOut(c)' + gained[c] + minted[c])
  BY DEF Explained
<1> HIDE DEF a, n, f, g, S, y
<1> QED
  BY <1>1, <1>2, <1>3, <1>4, <1>5, <1>6, <1>7 DEF Explained

\* A crypto deposit is approved and no part of a cent is lost: it comes in.
LEMMA CryptoMoney ==
    ASSUME TypeOK, NEW c \in Currencies, Explained(c), NEW d \in CryptoDeposits,
           ApproveCryptoDeposit(d), Unrounded(c)'
    PROVE  Explained(c)'
<1> DEFINE a == <<CryptoCredit[d].user, CryptoCredit[d].currency>>
           n == CryptoCredit[d].amount
           total == available[a] + n
           f == [e \in CryptoDeposits |-> CryptoCredit[e].amount]
           S == {e \in CryptoDeposits : crypto[e] = "approved" /\ CryptoCredit[e].currency = c}
           T == {e \in CryptoDeposits : crypto'[e] = "approved" /\ CryptoCredit[e].currency = c}
<1>1. a \in Accounts /\ n \in Nat /\ a[2] = CryptoCredit[d].currency
  BY RowAccounts
<1>2. /\ crypto[d] = "detected" /\ crypto' = [crypto EXCEPT ![d] = "approved"]
      /\ available' = [available EXCEPT ![a] = Round(total)]
      /\ rounded' = RoundedNow(a, total, 0)
      /\ UNCHANGED <<pending, credits, withdrawal, gained, minted>>
  BY DEF ApproveCryptoDeposit, depositVars
<1>3. FromChains(c) = Total(f, S) /\ FromChains(c)' = Total(f, T)
  BY DEF FromChains
<1>4. /\ S \subseteq CryptoDeposits /\ d \notin S
      /\ (IF a[2] = c THEN T = S \cup {d} ELSE T = S)
  BY <1>1, <1>2 DEF TypeOK
<1>5. (\A e \in CryptoDeposits : f[e] \in Nat) /\ f[d] = n
  BY RowAccounts
<1>6. IsFiniteSet(S)
  BY <1>4, WalletAssumption, FS_Subset
<1>7. available \in [Accounts -> Nat]
  BY DEF TypeOK
<1>8. a[2] = c => Round(total) = total
  <2>1. a[2] = c => \E u \in Users : a = <<u, c>>
    BY <1>1 DEF Accounts
  <2> QED
    BY <1>2, <2>1 DEF Unrounded, RoundedNow
<1>9. total \in Nat /\ Round(total) \in Nat /\ total = available[a] + n
  <2>1. total \in Nat
    BY <1>1, <1>7
  <2> QED
    BY <2>1, RoundNat
<1> HIDE DEF a, n, total, f, S, T
<1>10. InWallets(c)' = InWallets(c) + (IF a[2] = c THEN n ELSE 0)
  <2>1. /\ ChangesOne(available, available', a)
        /\ available'[a] = Round(total) /\ available[a] \in Nat
    BY <1>1, <1>2, <1>7, <1>9 DEF ChangesOne
  <2>2. InWallets(c)' = InWallets(c) + (IF a[2] = c THEN available'[a] - available[a] ELSE 0)
    BY <1>1, <2>1, AccountChanges DEF InWallets
  <2>3. a[2] = c => available'[a] - available[a] = n
    BY <1>1, <1>8, <1>9, <2>1
  <2> QED
    BY <2>2, <2>3
<1>11. FromChains(c)' = FromChains(c) + (IF a[2] = c THEN n ELSE 0)
  <2>1. CASE a[2] = c
    <3>1. \A e \in S \cup {d} : f[e] \in Nat
      BY <1>4, <1>5
    <3>2. Total(f, S \cup {d}) = Total(f, S) + f[d]
      BY <1>4, <1>6, <3>1, TotalInsert
    <3> QED
      BY <1>3, <1>4, <1>5, <2>1, <3>2
  <2>2. CASE a[2] # c
    BY <1>3, <1>4, <2>2, MoneyNat
  <2> QED
    BY <2>1, <2>2
<1>12. OnHold(c)' = OnHold(c) /\ FromGateways(c)' = FromGateways(c) /\ PaidOut(c)' = PaidOut(c)
  BY <1>2 DEF OnHold, FromGateways, PaidOut
<1>13. /\ InWallets(c) \in Nat /\ OnHold(c) \in Nat
       /\ FromGateways(c) \in Nat /\ FromChains(c) \in Nat /\ PaidOut(c) \in Nat
       /\ gained[c] \in Int /\ minted[c] \in Int
  BY MoneyNat
<1>14. /\ Deposited(c) = FromGateways(c) + FromChains(c)
       /\ Deposited(c)' = FromGateways(c)' + FromChains(c)'
  BY DEF Deposited, FromGateways, FromChains, Pairings
<1>15. Explained(c)' <=>
         (InWallets(c)' + OnHold(c)' = Deposited(c)' - PaidOut(c)' + gained[c] + minted[c])
  BY <1>2 DEF Explained
<1> QED
  BY <1>1, <1>10, <1>11, <1>12, <1>13, <1>14, <1>15 DEF Explained

\* Two accounts change, one after the other.
LEMMA AccountsChange ==
    ASSUME NEW f, NEW d, NEW g,
           NEW a \in Accounts, ChangesOne(f, d, a),
           NEW b \in Accounts, ChangesOne(d, g, b),
           NEW c \in Currencies
    PROVE  /\ Total(g, Users \X {c})
                = Total(f, Users \X {c}) + (IF a[2] = c THEN d[a] - f[a] ELSE 0)
                    + (IF b[2] = c THEN g[b] - d[b] ELSE 0)
           /\ Total(f, Users \X {c}) \in Nat
<1>1. /\ Total(d, Users \X {c})
           = Total(f, Users \X {c}) + (IF a[2] = c THEN d[a] - f[a] ELSE 0)
      /\ Total(f, Users \X {c}) \in Nat
  BY AccountChanges
<1>2. /\ Total(g, Users \X {c})
           = Total(d, Users \X {c}) + (IF b[2] = c THEN g[b] - d[b] ELSE 0)
      /\ Total(d, Users \X {c}) \in Nat
  BY AccountChanges
<1> QED
  BY <1>1, <1>2

\* Two accounts exchange money, perhaps of different currencies.
Exchange(f, g, a, n, b, m) ==
    /\ f \in [Accounts -> Nat] /\ g \in [Accounts -> Nat]
    /\ g[a] = f[a] - n /\ g[b] = f[b] + m
    /\ \A x \in Accounts \ {a, b} : g[x] = f[x]

LEMMA MoveMoney ==
    ASSUME NEW f, NEW g, NEW c \in Currencies,
           NEW a \in Accounts, NEW b \in Accounts, a # b,
           NEW n \in Nat, NEW m \in Nat, Exchange(f, g, a, n, b, m)
    PROVE  /\ Total(g, Users \X {c})
                = Total(f, Users \X {c}) - (IF a[2] = c THEN n ELSE 0)
                    + (IF b[2] = c THEN m ELSE 0)
           /\ Total(f, Users \X {c}) \in Nat
<1> DEFINE d == [x \in Accounts |-> IF x = a THEN g[a] ELSE f[x]]
<1>1. ChangesOne(f, d, a) /\ ChangesOne(d, g, b)
  BY DEF Exchange, ChangesOne
<1>2. d[a] - f[a] = -n /\ g[b] - d[b] = m
  BY DEF Exchange
<1> HIDE DEF d
<1>3. /\ Total(g, Users \X {c})
           = Total(f, Users \X {c}) + (IF a[2] = c THEN d[a] - f[a] ELSE 0)
               + (IF b[2] = c THEN g[b] - d[b] ELSE 0)
      /\ Total(f, Users \X {c}) \in Nat
  BY <1>1, AccountsChange
<1> QED
  BY <1>2, <1>3

LEMMA DebitAndCredit ==
    ASSUME TypeOK, NEW a \in Accounts, NEW b \in Accounts, a # b,
           NEW n \in Nat, NEW m \in Nat, available[a] >= n,
           available' = [available EXCEPT ![a] = @ - n, ![b] = @ + m]
    PROVE  Exchange(available, available', a, n, b, m)
<1>1. available' \in [Accounts -> Nat]
  BY MoveType
<1> QED
  BY <1>1 DEF Exchange, TypeOK

LEMMA TransferMoney ==
    ASSUME TypeOK, NEW c \in Currencies, Explained(c), NEW t \in Transfers,
           TransferFunds(t)
    PROVE  Explained(c)'
<1> DEFINE a == <<Transfer[t].from, Transfer[t].currency>>
           b == <<Transfer[t].to, Transfer[t].currency>>
           n == Transfer[t].amount
<1>1. a \in Accounts /\ b \in Accounts /\ a # b /\ n \in Nat /\ a[2] = b[2]
  BY RowAccounts
<1>2. /\ available[a] >= n /\ available' = [available EXCEPT ![a] = @ - n, ![b] = @ + n]
      /\ UNCHANGED <<pending, credits, crypto, withdrawal, gained, minted>>
  BY DEF TransferFunds, depositVars, auditVars
<1> HIDE DEF a, b, n
<1>3. InWallets(c)' = InWallets(c) - (IF a[2] = c THEN n ELSE 0)
                        + (IF b[2] = c THEN n ELSE 0)
  <2>1. Exchange(available, available', a, n, b, n)
    BY <1>1, <1>2, DebitAndCredit
  <2>2. Total(available', Users \X {c})
          = Total(available, Users \X {c}) - (IF a[2] = c THEN n ELSE 0)
              + (IF b[2] = c THEN n ELSE 0)
    BY <1>1, <2>1, MoveMoney
  <2> QED
    BY <2>2 DEF InWallets
<1>4. InWallets(c) \in Nat
  BY MoneyNat
<1>5. InWallets(c)' = InWallets(c)
  BY <1>1, <1>3, <1>4
<1>6. OnHold(c)' = OnHold(c) /\ Deposited(c)' = Deposited(c) /\ PaidOut(c)' = PaidOut(c)
  <2>1. OnHold(c)' = OnHold(c)
    BY <1>2 DEF OnHold
  <2>2. Deposited(c)' = Deposited(c)
    BY <1>2 DEF Deposited
  <2>3. PaidOut(c)' = PaidOut(c)
    BY <1>2 DEF PaidOut
  <2> QED
    BY <2>1, <2>2, <2>3
<1> QED
  BY <1>2, <1>5, <1>6 DEF Explained

LEMMA ConversionMoney ==
    ASSUME TypeOK, NEW c \in Currencies, Explained(c), NEW k \in Conversions,
           ConvertCurrency(k)
    PROVE  Explained(c)'
<1> DEFINE a == <<Conversion[k].user, Conversion[k].from>>
           b == <<Conversion[k].user, Conversion[k].to>>
           from == Conversion[k].from
           to == Conversion[k].to
           n == Conversion[k].amount
           got == Quote(from, to, n)
<1>1. /\ a \in Accounts /\ b \in Accounts /\ a # b /\ n \in Nat
      /\ from \in Currencies /\ to \in Currencies /\ from # to
      /\ a[2] = from /\ b[2] = to
  BY RowAccounts
<1>2. got \in Nat
  BY <1>1, QuoteNat DEF ConvertCurrency
<1>3. /\ available[a] >= n
      /\ available' = [available EXCEPT ![a] = @ - n, ![b] = @ + got]
      /\ gained' = [gained EXCEPT ![from] = @ - n, ![to] = @ + got]
      /\ UNCHANGED <<pending, credits, crypto, withdrawal, minted>>
  BY DEF ConvertCurrency, depositVars
<1> HIDE DEF a, b, n, from, to, got
<1>4. InWallets(c)' = InWallets(c) - (IF a[2] = c THEN n ELSE 0)
                        + (IF b[2] = c THEN got ELSE 0)
  <2>1. Exchange(available, available', a, n, b, got)
    BY <1>1, <1>2, <1>3, DebitAndCredit
  <2>2. Total(available', Users \X {c})
          = Total(available, Users \X {c}) - (IF a[2] = c THEN n ELSE 0)
              + (IF b[2] = c THEN got ELSE 0)
    BY <1>1, <1>2, <2>1, MoveMoney
  <2> QED
    BY <2>2 DEF InWallets
<1>5. gained'[c] = gained[c] - (IF from = c THEN n ELSE 0) + (IF to = c THEN got ELSE 0)
  <2>1. gained \in [Currencies -> Int]
    BY DEF TypeOK
  <2> QED
    BY <1>1, <1>2, <1>3, <2>1
<1>6. OnHold(c)' = OnHold(c) /\ Deposited(c)' = Deposited(c) /\ PaidOut(c)' = PaidOut(c)
  <2>1. OnHold(c)' = OnHold(c)
    BY <1>3 DEF OnHold
  <2>2. Deposited(c)' = Deposited(c)
    BY <1>3 DEF Deposited
  <2>3. PaidOut(c)' = PaidOut(c)
    BY <1>3 DEF PaidOut
  <2> QED
    BY <2>1, <2>2, <2>3
<1>7. /\ InWallets(c) \in Nat /\ OnHold(c) \in Nat /\ PaidOut(c) \in Nat
      /\ FromGateways(c) \in Nat /\ FromChains(c) \in Nat
      /\ gained[c] \in Int /\ minted[c] \in Int
  BY MoneyNat
<1>8. Deposited(c) \in Nat
  BY <1>7, DepositedNamed
<1>9. Explained(c)' <=>
        (InWallets(c)' + OnHold(c)' = Deposited(c)' - PaidOut(c)' + gained'[c] + minted[c])
  BY <1>3 DEF Explained
<1> QED
  BY <1>1, <1>2, <1>4, <1>5, <1>6, <1>7, <1>8, <1>9 DEF Explained

\* A reversal credits one account and debits another one, or the same one; the
\* difference is what it is recorded to have made.
LEMMA ReversalMoney ==
    ASSUME TypeOK, NEW c \in Currencies, Explained(c),
           NEW t \in Transfers, NEW i \in Transfers, ReverseTransfer(t, i)
    PROVE  Explained(c)'
<1> DEFINE a == <<Transfer[t].from, Transfer[t].currency>>
           b == <<Transfer[i].to, Transfer[i].currency>>
           n == Transfer[t].amount
           m == Transfer[i].amount
           d == [available EXCEPT ![a] = @ + n]
<1>1. /\ a \in Accounts /\ b \in Accounts /\ n \in Nat /\ m \in Nat
      /\ a[2] \in Currencies /\ b[2] \in Currencies
  BY RowAccounts
<1>2. /\ available' = [d EXCEPT ![b] = Minus(@, m)]
      /\ minted' = [[minted EXCEPT ![a[2]] = @ + n]
                      EXCEPT ![b[2]] = @ - (d[b] - available'[b])]
      /\ UNCHANGED <<pending, credits, crypto, withdrawal, gained>>
  BY DEF ReverseTransfer, depositVars
<1>3. available \in [Accounts -> Nat] /\ minted \in [Currencies -> Int]
  BY DEF TypeOK
<1>4. d \in [Accounts -> Nat] /\ d[a] = available[a] + n
  BY <1>1, <1>3
<1>5. ChangesOne(available, d, a)
  BY <1>1, <1>3, <1>4 DEF ChangesOne
<1> HIDE DEF a, b, n, m, d
<1>6. available' \in [Accounts -> Nat]
  <2>1. Minus(d[b], m) \in Nat
    BY <1>1, <1>4 DEF Minus
  <2> QED
    BY <1>1, <1>2, <1>4, <2>1
<1>7. ChangesOne(d, available', b)
  BY <1>1, <1>2, <1>4, <1>6 DEF ChangesOne
<1>8. PICK g \in [Accounts -> Nat] : g = available'
  BY <1>6
<1>9. minted'[c] = minted[c] + (IF a[2] = c THEN n ELSE 0)
                     + (IF b[2] = c THEN g[b] - d[b] ELSE 0)
  <2>1. minted' = [[minted EXCEPT ![a[2]] = @ + n]
                     EXCEPT ![b[2]] = @ - (d[b] - g[b])]
    BY <1>2, <1>8
  <2>2. d[b] \in Nat /\ g[b] \in Nat
    BY <1>1, <1>4
  <2>3. PICK once \in [Currencies -> Int] : once = [minted EXCEPT ![a[2]] = @ + n]
    <3>1. [minted EXCEPT ![a[2]] = @ + n] \in [Currencies -> Int]
      BY <1>1, <1>3
    <3> QED
      BY <3>1
  <2>4. once[c] = minted[c] + (IF a[2] = c THEN n ELSE 0)
    BY <1>1, <1>3, <2>3
  <2>5. minted'[c] = once[c] - (IF b[2] = c THEN d[b] - g[b] ELSE 0)
    BY <1>1, <2>1, <2>2, <2>3
  <2>6. once[c] \in Int
    OBVIOUS
  <2> QED
    BY <2>2, <2>4, <2>5, <2>6
<1>10. InWallets(c)' = InWallets(c) + (IF a[2] = c THEN n ELSE 0)
                         + (IF b[2] = c THEN g[b] - d[b] ELSE 0)
  <2>1. ChangesOne(d, g, b)
    BY <1>7, <1>8
  <2>2. /\ Total(g, Users \X {c})
             = Total(available, Users \X {c})
                 + (IF a[2] = c THEN d[a] - available[a] ELSE 0)
                 + (IF b[2] = c THEN g[b] - d[b] ELSE 0)
        /\ Total(available, Users \X {c}) \in Nat
    BY <1>1, <1>5, <2>1, AccountsChange
  <2>3. d[a] - available[a] = n
    BY <1>1, <1>3, <1>4
  <2>4. InWallets(c)' = Total(g, Users \X {c}) /\ InWallets(c) = Total(available, Users \X {c})
    BY <1>8 DEF InWallets
  <2> QED
    BY <2>2, <2>3, <2>4
<1>11. OnHold(c)' = OnHold(c) /\ Deposited(c)' = Deposited(c) /\ PaidOut(c)' = PaidOut(c)
  <2>1. OnHold(c)' = OnHold(c)
    BY <1>2 DEF OnHold
  <2>2. Deposited(c)' = Deposited(c)
    BY <1>2 DEF Deposited
  <2>3. PaidOut(c)' = PaidOut(c)
    BY <1>2 DEF PaidOut
  <2> QED
    BY <2>1, <2>2, <2>3
<1>12. /\ InWallets(c) \in Nat /\ OnHold(c) \in Nat /\ PaidOut(c) \in Nat
       /\ FromGateways(c) \in Nat /\ FromChains(c) \in Nat
       /\ gained[c] \in Int /\ minted[c] \in Int
  BY MoneyNat
<1>13. Deposited(c) \in Nat
  BY <1>12, DepositedNamed
<1>14. Explained(c)' <=>
         (InWallets(c)' + OnHold(c)' = Deposited(c)' - PaidOut(c)' + gained[c] + minted'[c])
  BY <1>2 DEF Explained
<1>15. (IF b[2] = c THEN g[b] - d[b] ELSE 0) \in Int
  BY <1>1, <1>4
<1> QED
  BY <1>1, <1>9, <1>10, <1>11, <1>12, <1>13, <1>14, <1>15 DEF Explained

\* What has been paid out grows by a withdrawal that is completed.
LEMMA PaidOutGrows ==
    ASSUME TypeOK, NEW c \in Currencies, NEW w \in Withdrawals,
           NEW status \in {"pending", "completed", "failed"},
           withdrawal' = [withdrawal EXCEPT ![w] = status],
           withdrawal[w] \in {"none", "pending"}
    PROVE  PaidOut(c)' = PaidOut(c) +
             (IF status = "completed" /\ Withdrawal[w].currency = c
              THEN Withdrawal[w].amount ELSE 0)
<1> DEFINE f == [v \in Withdrawals |-> Withdrawal[v].amount]
           S == {v \in Withdrawals : withdrawal[v] = "completed"
                                       /\ Withdrawal[v].currency = c}
           T == {v \in Withdrawals : withdrawal'[v] = "completed"
                                       /\ Withdrawal[v].currency = c}
<1>1. PaidOut(c) = Total(f, S) /\ PaidOut(c)' = Total(f, T)
  BY DEF PaidOut
<1>2. S \in SUBSET Withdrawals /\ w \notin S
  OBVIOUS
<1>3. CASE status = "completed" /\ Withdrawal[w].currency = c
  <2>1. T = S \cup {w}
    BY <1>3 DEF TypeOK
  <2>2. Total(f, S \cup {w}) = Total(f, S) + Withdrawal[w].amount
    BY <1>2, RequestCounts
  <2> HIDE DEF f, S, T
  <2> QED
    BY <1>1, <1>3, <2>1, <2>2
<1>4. CASE ~(status = "completed" /\ Withdrawal[w].currency = c)
  <2>1. T = S
    BY <1>4 DEF TypeOK
  <2>2. PaidOut(c) \in Nat
    BY MoneyNat
  <2> HIDE DEF f, S, T
  <2> QED
    BY <1>1, <1>4, <2>1, <2>2
<1> QED
  BY <1>3, <1>4

\* A withdrawal is sent, or ended: what leaves one sum enters another.
LEMMA WithdrawalMoney ==
    ASSUME TypeOK, TypeOK', NEW c \in Currencies, Explained(c), NEW w \in Withdrawals,
           NEW status \in {"pending", "completed", "failed"},
           withdrawal' = [withdrawal EXCEPT ![w] = status],
           withdrawal[w] \in {"none", "pending"},
           NEW a \in Accounts, a = <<Withdrawal[w].user, Withdrawal[w].currency>>,
           \A x \in Accounts \ {a} : available'[x] = available[x] /\ pending'[x] = pending[x],
           a[2] = c => available'[a] + pending'[a]
                         = available[a] + pending[a]
                             - (IF status = "completed" THEN Withdrawal[w].amount ELSE 0),
           UNCHANGED <<credits, crypto, gained, minted>>
    PROVE  Explained(c)'
<1>1. /\ ChangesOne(available, available', a) /\ ChangesOne(pending, pending', a)
      /\ available[a] \in Nat /\ pending[a] \in Nat
      /\ available'[a] \in Nat /\ pending'[a] \in Nat
  BY DEF ChangesOne, TypeOK
<1>2. Withdrawal[w].amount \in Nat /\ a[2] = Withdrawal[w].currency
  BY RowAccounts
<1>3. InWallets(c)' = InWallets(c) + (IF a[2] = c THEN available'[a] - available[a] ELSE 0)
  <2>1. Total(available', Users \X {c})
          = Total(available, Users \X {c})
              + (IF a[2] = c THEN available'[a] - available[a] ELSE 0)
    BY <1>1, AccountChanges
  <2> QED
    BY <2>1 DEF InWallets
<1>4. OnHold(c)' = OnHold(c) + (IF a[2] = c THEN pending'[a] - pending[a] ELSE 0)
  <2>1. Total(pending', Users \X {c})
          = Total(pending, Users \X {c})
              + (IF a[2] = c THEN pending'[a] - pending[a] ELSE 0)
    BY <1>1, AccountChanges
  <2> QED
    BY <2>1 DEF OnHold
<1>5. PaidOut(c)' = PaidOut(c) + (IF status = "completed" /\ a[2] = c
                                  THEN Withdrawal[w].amount ELSE 0)
  BY <1>2, PaidOutGrows
<1>6. Deposited(c)' = Deposited(c)
  BY DEF Deposited
<1>7. /\ InWallets(c) \in Nat /\ OnHold(c) \in Nat /\ PaidOut(c) \in Nat
      /\ FromGateways(c) \in Nat /\ FromChains(c) \in Nat
      /\ gained[c] \in Int /\ minted[c] \in Int
  BY MoneyNat
<1>8. Deposited(c) \in Nat
  BY <1>7, DepositedNamed
<1>9. Explained(c)' <=>
        (InWallets(c)' + OnHold(c)' = Deposited(c)' - PaidOut(c)' + gained[c] + minted[c])
  BY DEF Explained
<1>10. CASE a[2] = c
  BY <1>1, <1>2, <1>3, <1>4, <1>5, <1>6, <1>7, <1>8, <1>9, <1>10 DEF Explained
<1>11. CASE a[2] # c
  BY <1>3, <1>4, <1>5, <1>6, <1>7, <1>8, <1>9, <1>11 DEF Explained
<1> QED
  BY <1>10, <1>11

LEMMA WithdrawMoney ==
    ASSUME TypeOK, TypeOK', NEW c \in Currencies, Explained(c),
           NEW w \in Withdrawals, Withdraw(w)
    PROVE  Explained(c)'
<1> DEFINE a == <<Withdrawal[w].user, Withdrawal[w].currency>>
           n == Withdrawal[w].amount
<1>1. a \in Accounts /\ n \in Nat
  BY RowAccounts
<1>2. /\ withdrawal[w] = "none" /\ withdrawal' = [withdrawal EXCEPT ![w] = "pending"]
      /\ available' = [available EXCEPT ![a] = @ - n]
      /\ pending' = [pending EXCEPT ![a] = @ + n]
      /\ UNCHANGED <<credits, crypto, gained, minted>>
  BY DEF Withdraw, depositVars, auditVars
<1>3. /\ \A x \in Accounts \ {a} : available'[x] = available[x] /\ pending'[x] = pending[x]
      /\ available'[a] + pending'[a] = available[a] + pending[a]
  <2>1. /\ available \in [Accounts -> Nat] /\ pending \in [Accounts -> Nat]
        /\ available[a] \in Nat /\ pending[a] \in Nat
    BY <1>1 DEF TypeOK
  <2> HIDE DEF a, n
  <2>2. \A x \in Accounts \ {a} : available'[x] = available[x] /\ pending'[x] = pending[x]
    BY <1>2, <2>1
  <2>3. available'[a] = available[a] - n /\ pending'[a] = pending[a] + n
    BY <1>1, <1>2, <2>1
  <2> QED
    BY <1>1, <2>1, <2>2, <2>3
<1>4. available[a] + pending[a] - 0 = available[a] + pending[a]
  BY <1>1 DEF TypeOK
<1>5. /\ \A x \in Accounts \ {a} : available'[x] = available[x] /\ pending'[x] = pending[x]
      /\ a[2] = c => available'[a] + pending'[a]
                       = available[a] + pending[a]
                           - (IF "pending" = "completed" THEN Withdrawal[w].amount ELSE 0)
  BY <1>3, <1>4
<1> QED
  BY <1>1, <1>2, <1>5, WithdrawalMoney

LEMMA EndMoney ==
    ASSUME TypeOK, TypeOK', PendingHolds, NEW c \in Currencies, Explained(c),
           NEW w \in Withdrawals, NEW status \in {"completed", "failed"},
           NEW back \in BOOLEAN, NEW crypt \in BOOLEAN,
           EndWithdrawal(w, status, back, crypt),
           back <=> status = "failed", Unrounded(c)'
    PROVE  Explained(c)'
<1> DEFINE a == <<Withdrawal[w].user, Withdrawal[w].currency>>
           n == Withdrawal[w].amount
<1>1. a \in Accounts /\ n \in Nat
  BY RowAccounts
<1>2. /\ withdrawal[w] = "pending" /\ withdrawal' = [withdrawal EXCEPT ![w] = status]
      /\ UNCHANGED <<credits, crypto, gained, minted>>
  BY DEF EndWithdrawal, depositVars
<1>3. \A x \in Accounts \ {a} : available'[x] = available[x] /\ pending'[x] = pending[x]
  BY DEF EndWithdrawal, TypeOK
<1>4. a[2] = c => /\ pending[a] = pending'[a] + n
                  /\ available'[a] = IF back THEN available[a] + n ELSE available[a]
  <2>1. a[2] = c => a \notin rounded'
    BY <1>1 DEF Unrounded, Accounts
  <2> QED
    BY <1>1, <2>1, EndPending
<1>5. available[a] \in Nat /\ pending[a] \in Nat /\ pending'[a] \in Nat
  BY <1>1 DEF TypeOK
<1> HIDE DEF n
<1>6. a[2] = c => available'[a] + pending'[a]
                    = available[a] + pending[a] - (IF status = "completed" THEN n ELSE 0)
  BY <1>1, <1>4, <1>5
<1> QED
  BY <1>1, <1>2, <1>3, <1>6, WithdrawalMoney DEF n

LEMMA MoneyStep ==
    ASSUME TypeOK, TypeOK', PendingHolds, [Next]_vars, NEW c \in Currencies,
           Unrounded(c) => Explained(c), Unrounded(c)'
    PROVE  Explained(c)'
<1>1. Unrounded(c)
  <2>1. rounded \subseteq rounded'
    <3>1. CASE UNCHANGED auditVars
      BY <3>1 DEF auditVars
    <3>2. ASSUME NEW d \in CryptoDeposits,
                 ApproveCryptoDeposit(d) \/ RejectCryptoDeposit(d)
          PROVE  rounded \subseteq rounded'
      BY <3>2 DEF ApproveCryptoDeposit, RejectCryptoDeposit, RoundedNow, auditVars
    <3>3. CASE WithdrawalStep
      BY <3>3
      DEF WithdrawalStep, Withdraw, ApproveWithdrawal, RejectWithdrawal,
          ApproveCryptoWithdrawal, RejectCryptoWithdrawal, EndWithdrawal, RoundedNow,
          auditVars
    <3>4. CASE DepositStep
      BY <3>1, <3>4
      DEF DepositStep, InitiateDeposit, Pay, VerifyByReference, PaystackWebhook,
          ReconcileDeposit, AskGateway, GatewayAnswers
    <3>5. CASE SettingStep
      BY <3>1, <3>5
      DEF SettingStep, FreezeWallet, UnfreezeWallet, BlockWithdrawals,
          UnblockWithdrawals, SetExchangeRate, DeactivateExchangeRate, Setting,
          Untouched
    <3>6. CASE \/ \E u \in Users : CooldownEnds(u)
               \/ \E t \in Transfers : \/ TransferFunds(t)
                                       \/ \E i \in Transfers : ReverseTransfer(t, i)
               \/ \E k \in Conversions : ConvertCurrency(k)
      BY <3>6 DEF CooldownEnds, TransferFunds, ReverseTransfer, ConvertCurrency, auditVars
    <3>7. CASE UNCHANGED vars
      BY <3>1, <3>7 DEF vars
    <3> QED
      BY <3>2, <3>3, <3>4, <3>5, <3>6, <3>7 DEF Next
  <2> QED
    BY <2>1 DEF Unrounded
<1>2. Explained(c)
  BY <1>1
<1>3. ASSUME UNCHANGED <<available, pending, credits, withdrawal, gained, minted, crypto>>
      PROVE  Explained(c)'
  BY <1>2, <1>3, QuietMoney
<1>4. ASSUME NEW u \in Users, NEW p \in Payments, Credit(u, p),
             UNCHANGED <<pending, crypto, withdrawal, gained, minted>>
      PROVE  Explained(c)'
  BY <1>2, <1>4, CreditMoney
<1>5. CASE DepositStep
  <2>1. ASSUME NEW u \in Users, NEW p \in Payments, ApplyByReference(u, p),
               UNCHANGED <<pending, otherRows, auditVars>>
        PROVE  Explained(c)'
    <3>1. CASE UNCHANGED <<available, deposit, carries, extra, credits, cooldown>>
      BY <1>3, <2>1, <3>1 DEF otherRows, auditVars
    <3>2. CASE Credit(u, p)
      BY <1>4, <2>1, <3>2 DEF otherRows, auditVars
    <3> QED
      BY <2>1, <3>1, <3>2 DEF ApplyByReference, CreditRow
  <2>2. ASSUME NEW u \in Users, NEW p \in Payments, VerifyByReference(u, p)
        PROVE  Explained(c)'
    BY <2>1, <2>2 DEF VerifyByReference
  <2>3. ASSUME NEW p \in Payments, PaystackWebhook(p)
        PROVE  Explained(c)'
    BY <2>1, <2>3, PayerIsUser DEF PaystackWebhook
  <2>4. ASSUME NEW p \in Payments, NEW r \in Payments, ReconcileDeposit(p, r)
        PROVE  Explained(c)'
    BY <1>4, <2>4, PayerIsUser DEF ReconcileDeposit, CreditRow, otherRows, auditVars
  <2>5. ASSUME NEW q \in Requests, GatewayAnswers(q)
        PROVE  Explained(c)'
    <3>1. UNCHANGED <<pending, otherRows, auditVars>> /\ request[q].step = "asked"
      BY <2>5 DEF GatewayAnswers
    <3>2. request[q].payment \in Payments /\ Payment[request[q].row].user \in Users
      BY <3>1, PayerIsUser DEF TypeOK, NoRequest, Asked
    <3>3. \/ Credit(Payment[request[q].row].user, request[q].payment)
          \/ UNCHANGED <<available, credits>>
      BY <2>5 DEF GatewayAnswers, CreditRow
    <3> QED
      BY <1>3, <1>4, <3>1, <3>2, <3>3 DEF otherRows, auditVars
  <2>6. ASSUME NEW p \in Payments, InitiateDeposit(p) \/ Pay(p)
        PROVE  Explained(c)'
    BY <1>3, <2>6 DEF InitiateDeposit, Pay, otherRows, auditVars
  <2>7. ASSUME NEW p \in Payments, NEW r \in Payments, NEW q \in Requests,
               AskGateway(q, p, r)
        PROVE  Explained(c)'
    BY <1>3, <2>7 DEF AskGateway, otherRows, auditVars
  <2> QED
    BY <1>5, <2>2, <2>3, <2>4, <2>5, <2>6, <2>7 DEF DepositStep
<1>6. ASSUME NEW d \in CryptoDeposits, RejectCryptoDeposit(d)
      PROVE  Explained(c)'
  <2>1. \A e \in CryptoDeposits : crypto'[e] = "approved" <=> crypto[e] = "approved"
    BY <1>6 DEF RejectCryptoDeposit, TypeOK
  <2>2. UNCHANGED <<available, pending, credits, withdrawal, gained, minted>>
    BY <1>6 DEF RejectCryptoDeposit, depositVars, auditVars
  <2> QED
    BY <1>2, <2>1, <2>2, QuietMoney
<1>7. ASSUME NEW d \in CryptoDeposits, ApproveCryptoDeposit(d)
      PROVE  Explained(c)'
  BY <1>2, <1>7, CryptoMoney
<1>8. ASSUME NEW w \in Withdrawals, Withdraw(w)
      PROVE  Explained(c)'
  BY <1>2, <1>8, WithdrawMoney
<1>9. ASSUME NEW w \in Withdrawals,
             \/ ApproveWithdrawal(w) \/ RejectWithdrawal(w)
             \/ ApproveCryptoWithdrawal(w) \/ RejectCryptoWithdrawal(w)
      PROVE  Explained(c)'
  BY <1>2, <1>9, EndMoney
  DEF ApproveWithdrawal, RejectWithdrawal, ApproveCryptoWithdrawal,
      RejectCryptoWithdrawal
<1>10. ASSUME NEW t \in Transfers, NEW i \in Transfers,
              TransferFunds(t) \/ ReverseTransfer(t, i)
       PROVE  Explained(c)'
  BY <1>2, <1>10, TransferMoney, ReversalMoney
<1>11. ASSUME NEW k \in Conversions, ConvertCurrency(k)
       PROVE  Explained(c)'
  BY <1>2, <1>11, ConversionMoney
<1>12. CASE SettingStep
  BY <1>3, <1>12
  DEF SettingStep, FreezeWallet, UnfreezeWallet, BlockWithdrawals,
      UnblockWithdrawals, SetExchangeRate, DeactivateExchangeRate, Setting,
      Untouched, depositVars, otherRows, auditVars
<1>13. ASSUME NEW u \in Users, CooldownEnds(u)
       PROVE  Explained(c)'
  BY <1>3, <1>13 DEF CooldownEnds, depositVars, otherRows, auditVars
<1>14. CASE UNCHANGED vars
  BY <1>3, <1>14 DEF vars, depositVars, otherRows, auditVars
<1> QED
  BY <1>5, <1>6, <1>7, <1>8, <1>9, <1>10, <1>11, <1>12, <1>13, <1>14
  DEF Next, WithdrawalStep

MoneyInv == \A c \in Currencies : Unrounded(c) => Explained(c)

LEMMA MoneyInit == Init => MoneyInv
<1> SUFFICES ASSUME Init, NEW c \in Currencies
             PROVE  Explained(c)
  BY DEF MoneyInv
<1>1. InWallets(c) = 0
  <2>1. \A x \in Users \X {c} : available[x] = 0
    BY CurrencyAccounts DEF Init
  <2> QED
    BY <2>1, TotalZero DEF InWallets
<1>2. OnHold(c) = 0
  <2>1. \A x \in Users \X {c} : pending[x] = 0
    BY CurrencyAccounts DEF Init
  <2> QED
    BY <2>1, TotalZero DEF OnHold
<1>3. FromGateways(c) = 0
  <2> DEFINE f == [x \in Pairings |-> credits[x] * Payment[x[2]].amount]
             S == {x \in Pairings : Payment[x[2]].currency = c}
  <2>1. \A n \in Nat : 0 * n = 0
    OBVIOUS
  <2>2. \A x \in S : f[x] = 0
    BY <2>1, PairingsFinite DEF Init, Pairings
  <2> HIDE DEF f, S
  <2>3. Total(f, S) = 0
    BY <2>2, TotalZero
  <2> QED
    BY <2>3 DEF FromGateways, f, S
<1>4. FromChains(c) = 0
  <2>1. {d \in CryptoDeposits : crypto[d] = "approved" /\ CryptoCredit[d].currency = c} = {}
    BY DEF Init
  <2> QED
    BY <2>1, TotalZero DEF FromChains
<1>5. PaidOut(c) = 0
  <2>1. {w \in Withdrawals : withdrawal[w] = "completed" /\ Withdrawal[w].currency = c} = {}
    BY DEF Init
  <2> QED
    BY <2>1, TotalZero DEF PaidOut
<1>6. Deposited(c) = 0
  BY <1>3, <1>4, DepositedNamed
<1>7. gained[c] = 0 /\ minted[c] = 0
  BY DEF Init
<1> QED
  BY <1>1, <1>2, <1>5, <1>6, <1>7 DEF Explained

LEMMA MoneyInvStep ==
    TypeOK /\ TypeOK' /\ PendingHolds /\ MoneyInv /\ [Next]_vars => MoneyInv'
<1> SUFFICES ASSUME TypeOK, TypeOK', PendingHolds, MoneyInv, [Next]_vars,
                    NEW c \in Currencies, Unrounded(c)'
             PROVE  Explained(c)'
  BY DEF MoneyInv
<1>1. Unrounded(c) => Explained(c)
  BY DEF MoneyInv
<1> QED
  BY <1>1, MoneyStep

\* In a currency no rounding has touched, the wallets hold what came in through
\* gateways and chains, less what was paid out, plus what conversions exchanged
\* and reversals made: no other step makes or loses money, for any number of
\* users, payments and requests in any order.
THEOREM WalletMoneyExplained == Spec => []MoneyExplained
<1>1. MoneyInv => MoneyExplained
  BY MoneyNamed DEF MoneyInv
<1> QED
  BY <1>1, MoneyInit, MoneyInvStep, WalletTypes, PendingInvariant, PTL DEF Spec
=============================================================================
