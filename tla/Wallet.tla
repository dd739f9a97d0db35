------------------------------- MODULE Wallet -------------------------------
(***************************************************************************)
(* The wallet (routers/wallet.py) and what administrators do to it         *)
(* (routers/admin.py, routers/crypto.py): deposits through a gateway,      *)
(* crypto deposits, withdrawals, transfers, conversions and reversals.     *)
(*                                                                         *)
(* A request is one step, with one exception: verify_deposit_endpoint and  *)
(* reconcile_pending_deposits hold the row they read before they ask the   *)
(* gateway, and look at its status, not read again, after the answer.      *)
(* Overlaps shorter than a gateway call are the subject of Sessions.       *)
(*                                                                         *)
(* Who asks, the reference and the row are three inputs of a verification: *)
(* the code looks the row up among those of the user who asks, never asks  *)
(* whose payment the reference is, and has the row carry it afterwards.    *)
(***************************************************************************)
EXTENDS Totals

CONSTANTS
    Users,
    Currencies,
    Payments,       \* payments at a gateway
    Payment,        \* their [gateway, user, currency, amount]
    CryptoDeposits, \* rows of CryptoPendingDeposit
    CryptoCredit,   \* their [user, currency, amount], as approved
    Withdrawals,    \* withdrawal requests
    Withdrawal,     \* their [user, currency, amount]
    Transfers,      \* transfers by e-mail address
    Transfer,       \* their [from, to, currency, amount]
    Conversions,    \* conversions
    Conversion,     \* their [user, from, to, amount]
    Requests,       \* verifications that wait for a gateway
    Rates,          \* rates an administrator may set
    FirstRates,     \* the rates set before
    Markup,         \* 1 + spread_percent / 100
    Verified,       \* users with is_kyc_verified, which no code sets
    Cent,           \* units to the cent
    MaxSettings     \* bound: freezes, blocks and changed rates

Accounts == Users \X Currencies
Pairs == {p \in Currencies \X Currencies : p[1] # p[2]}

ASSUME WalletAssumption ==
    /\ \A S \in {Users, Currencies, Payments, CryptoDeposits, Withdrawals, Transfers} :
         IsFiniteSet(S)
    /\ Payment \in [Payments -> [gateway : {"paystack", "stripe", "flutterwave"},
                                 user : Users, currency : Currencies,
                                 amount : Nat \ {0}]]
    /\ CryptoCredit \in [CryptoDeposits -> [user : Users, currency : Currencies,
                                            amount : Nat \ {0}]]
    /\ Withdrawal \in [Withdrawals -> [user : Users, currency : Currencies,
                                       amount : Nat \ {0}]]
    /\ Transfer \in [Transfers -> [from : Users, to : Users, currency : Currencies,
                                   amount : Nat \ {0}]]
    /\ \A t \in Transfers : Transfer[t].from # Transfer[t].to
    /\ Conversion \in [Conversions -> [user : Users, from : Currencies,
                                       to : Currencies, amount : Nat \ {0}]]
    /\ \A k \in Conversions : Conversion[k].from # Conversion[k].to
    /\ Rates \subseteq Nat \ {0} /\ FirstRates \in [Pairs -> Rates \cup {0}]
    /\ Markup \in Nat \ {0} /\ Cent \in Nat \ {0}
    /\ Verified \subseteq Users /\ MaxSettings \in Nat

VARIABLES
    available,   \* WalletBalance.amount
    pending,     \* WalletBalance.pending_amount
    paid,        \* payments that have succeeded at the gateway
    deposit,     \* status of the row that initiate writes for a payment
    made,        \* its place in the order of created_at, 0 before
    carries,     \* the payment whose reference a completed one has
    extra,       \* <<user, payment>>: completed rows that a credit has made
    request,     \* what every waiting verification holds
    crypto,      \* CryptoPendingDeposit.status
    withdrawal,  \* status of withdrawal rows
    sent,        \* status of transfer_out rows
    received,    \* status of transfer_in rows
    converted,   \* conversions done
    rate,        \* the active ExchangeRate of a pair, 0 if there is none
    frozen,      \* users with wallet_frozen
    blocked,     \* users with withdrawals_blocked
    cooldown,    \* users before withdrawal_cooldown_until
    settings,    \* see MaxSettings
    credits,     \* history: how often a user was credited a payment
    stale,       \* history: <<user, payment>> credited on a status that had
                 \* changed, or whose row such a credit took over
    crossed,     \* history: <<user, payment>> credited through a row that the
                 \* request named and that was not the payment's own
    rounded,     \* history: accounts that lost or won a part of a cent
    minted,      \* history: what reversals credited and did not debit
    gained       \* history: what conversions added to a currency

depositVars == <<paid, deposit, made, carries, extra, request, credits, stale, crossed>>
adminVars   == <<rate, frozen, blocked, settings>>
otherRows   == <<crypto, withdrawal, sent, received, converted>>
auditVars   == <<rounded, minted, gained>>
vars == <<available, pending, depositVars, cooldown, adminVars, otherRows, auditVars>>

NoRequest == [step |-> "idle"]
Asked == [step : {"asked"}, payment : Payments, row : Payments]

TypeOK ==
    /\ available \in [Accounts -> Nat]
    /\ pending \in [Accounts -> Nat]
    /\ paid \subseteq Payments
    /\ deposit \in [Payments -> {"none", "pending", "completed"}]
    /\ made \in [Payments -> Nat] /\ carries \in [Payments -> Payments]
    /\ extra \subseteq Users \X Payments
    /\ stale \subseteq Users \X Payments /\ crossed \subseteq Users \X Payments
    /\ request \in [Requests -> Asked \cup {NoRequest}]
    /\ crypto \in [CryptoDeposits -> {"detected", "approved", "rejected"}]
    /\ withdrawal \in [Withdrawals -> {"none", "pending", "completed", "failed"}]
    /\ sent \in [Transfers -> {"none", "completed", "reversed"}]
    /\ received \in [Transfers -> {"none", "completed", "reversed"}]
    /\ converted \subseteq Conversions
    /\ rate \in [Pairs -> Rates \cup {0}]
    /\ frozen \subseteq Users /\ blocked \subseteq Users /\ cooldown \subseteq Users
    /\ settings \in 0 .. MaxSettings
    /\ credits \in [Users \X Payments -> Nat]
    /\ rounded \subseteq Accounts
    /\ minted \in [Currencies -> Int] /\ gained \in [Currencies -> Int]

Init ==
    /\ available = [a \in Accounts |-> 0]
    /\ pending = [a \in Accounts |-> 0]
    /\ paid = {} /\ extra = {} /\ stale = {} /\ crossed = {}
    /\ deposit = [p \in Payments |-> "none"]
    /\ made = [p \in Payments |-> 0]
    /\ carries = [p \in Payments |-> p]
    /\ request = [q \in Requests |-> NoRequest]
    /\ crypto = [d \in CryptoDeposits |-> "detected"]
    /\ withdrawal = [w \in Withdrawals |-> "none"]
    /\ sent = [t \in Transfers |-> "none"]
    /\ received = [t \in Transfers |-> "none"]
    /\ converted = {}
    /\ rate = FirstRates
    /\ frozen = {} /\ blocked = {} /\ cooldown = {}
    /\ settings = 0
    /\ credits = [x \in Users \X Payments |-> 0]
    /\ rounded = {}
    /\ minted = [c \in Currencies |-> 0]
    /\ gained = [c \in Currencies |-> 0]

-----------------------------------------------------------------------------
(* Deposits through a gateway *)

\* initiate_deposit_endpoint: the gateway first, then the pending row.
InitiateDeposit(p) ==
    /\ deposit[p] = "none"
    /\ deposit' = [deposit EXCEPT ![p] = "pending"]
    /\ made' = [made EXCEPT ![p] = Cardinality({r \in Payments : deposit[r] # "none"}) + 1]
    /\ UNCHANGED <<available, pending, paid, carries, extra, request, credits, stale,
                   crossed, cooldown, adminVars, otherRows, auditVars>>

\* The user pays at the gateway, which may also never happen.
Pay(p) ==
    /\ deposit[p] # "none"
    /\ p \notin paid
    /\ paid' = paid \cup {p}
    /\ UNCHANGED <<available, pending, deposit, made, carries, extra, request, credits,
                   stale, crossed, cooldown, adminVars, otherRows, auditVars>>

\* What _apply_verified_deposit gives user u for payment p.
Credit(u, p) ==
    /\ available' = [available EXCEPT ![<<u, Payment[p].currency>>] = @ + Payment[p].amount]
    /\ cooldown' = cooldown \cup {u}
    /\ credits' = [credits EXCEPT ![<<u, p>>] = @ + 1]

\* The same through the row of payment r, which carries p from then on.
CreditRow(u, p, r) ==
    /\ Credit(u, p)
    /\ deposit' = [deposit EXCEPT ![r] = "completed"]
    /\ carries' = [carries EXCEPT ![r] = p]

\* The rows of u with the reference that the gateway answers with for p.
\* Stripe answers with the id of its payment intent, which a row carries only
\* when it was completed.  (No row has an empty reference any more.)
Carrying(u, p) ==
    {r \in Payments : /\ Payment[r].user = u
                      /\ deposit[r] # "none"
                      /\ carries[r] = p
                      /\ deposit[r] = "completed" \/ Payment[r].gateway # "stripe"}

\* Fault: the status of the row is not looked at.
ApplyAlways(u, p) ==
    /\ Credit(u, p)
    /\ extra' = extra \cup {<<u, p>>}
    /\ UNCHANGED <<deposit, carries>>

\* _apply_verified_deposit for user u, when it looks the row up by reference:
\* a completed row ends it, a pending one is completed, the last created first,
\* and if there is none a completed one is made.  When a row of extra is there,
\* all others that carry p are completed too.
ApplyByReference(u, p) ==
    \/ /\ \/ <<u, p>> \in extra
          \/ \E r \in Carrying(u, p) : /\ deposit[r] = "completed"
                                       /\ \A s \in Carrying(u, p) : made[s] <= made[r]
       /\ UNCHANGED <<available, deposit, carries, extra, credits, cooldown>>
    \/ /\ <<u, p>> \notin extra
       /\ \E r \in Carrying(u, p) : /\ deposit[r] = "pending"
                                    /\ \A s \in Carrying(u, p) : made[s] <= made[r]
                                    /\ CreditRow(u, p, r)
       /\ UNCHANGED extra
    \/ /\ <<u, p>> \notin extra
       /\ Carrying(u, p) = {}
       /\ Credit(u, p)
       /\ extra' = extra \cup {<<u, p>>}
       /\ UNCHANGED <<deposit, carries>>

\* verify_deposit_endpoint, or reconcile_deposit_endpoint, asked by any user u
\* with the reference of p, without the id of a row of u.
VerifyByReference(u, p) ==
    /\ p \in paid
    /\ ApplyByReference(u, p)
    /\ UNCHANGED <<pending, paid, made, request, stale, crossed, adminVars, otherRows,
                   auditVars>>

\* paystack_webhook, which takes the user from the payment's metadata; for a
\* frozen wallet it answers ok and does nothing.
PaystackWebhook(p) ==
    /\ p \in paid
    /\ Payment[p].gateway = "paystack"
    /\ Payment[p].user \notin frozen
    /\ ApplyByReference(Payment[p].user, p)
    /\ UNCHANGED <<pending, paid, made, request, stale, crossed, adminVars, otherRows,
                   auditVars>>

\* The pairs that a credit of p through a row named r adds to crossed.
CrossedNow(u, p, r) == IF r = p THEN {} ELSE {<<u, p>>}

\* reconcile_deposit_endpoint with the id of a row of the user who asks and any
\* reference; the row is read after the gateway's answer.
ReconcileDeposit(p, r) ==
    LET u == Payment[r].user IN
    /\ p \in paid
    /\ u \notin frozen
    /\ deposit[r] = "pending"
    /\ CreditRow(u, p, r)
    /\ crossed' = crossed \cup CrossedNow(u, p, r)
    /\ UNCHANGED <<pending, paid, made, extra, request, stale, adminVars, otherRows,
                   auditVars>>

\* verify_deposit_endpoint with the id of a row of the user who asks and any
\* reference, and every turn of reconcile_pending_deposits, with the row's own:
\* the row is read, then the gateway is asked.
AskGateway(q, p, r) ==
    /\ request[q] = NoRequest
    /\ deposit[p] # "none" /\ deposit[r] = "pending"
    /\ request' = [request EXCEPT ![q] = [step |-> "asked", payment |-> p, row |-> r]]
    /\ UNCHANGED <<available, pending, paid, deposit, made, carries, extra, credits,
                   stale, crossed, cooldown, adminVars, otherRows, auditVars>>

\* The gateway answers.  The row is still pending in the session's identity
\* map, whatever others have committed.
GatewayAnswers(q) ==
    /\ request[q].step = "asked"
    /\ LET p == request[q].payment
           r == request[q].row
           u == Payment[r].user IN
         IF p \in paid
         THEN /\ CreditRow(u, p, r)
              /\ crossed' = crossed \cup CrossedNow(u, p, r)
              /\ stale' = IF deposit[r] = "pending" THEN stale
                          ELSE stale \cup {<<u, p>>, <<u, carries[r]>>}
         ELSE UNCHANGED <<available, cooldown, credits, deposit, carries, stale, crossed>>
    /\ request' = [request EXCEPT ![q] = NoRequest]
    /\ UNCHANGED <<pending, paid, made, extra, adminVars, otherRows, auditVars>>

-----------------------------------------------------------------------------
(* Crypto deposits and withdrawals *)

\* routers/crypto.py rounds a balance to two decimals.  Cent is odd, so that
\* there are no ties.
Round(x) == ((x + Cent \div 2) \div Cent) * Cent

\* The accounts whose balances a rounding changes.
RoundedNow(a, x, y) == rounded \cup (IF Round(x) # x \/ Round(y) # y THEN {a} ELSE {})

\* admin_approve_deposit
ApproveCryptoDeposit(d) ==
    LET a == <<CryptoCredit[d].user, CryptoCredit[d].currency>>
        total == available[a] + CryptoCredit[d].amount IN
    /\ crypto[d] = "detected"
    /\ crypto' = [crypto EXCEPT ![d] = "approved"]
    /\ available' = [available EXCEPT ![a] = Round(total)]
    /\ rounded' = RoundedNow(a, total, 0)
    /\ UNCHANGED <<pending, depositVars, cooldown, adminVars, withdrawal, sent,
                   received, converted, minted, gained>>

\* admin_reject_deposit
RejectCryptoDeposit(d) ==
    /\ crypto[d] = "detected"
    /\ crypto' = [crypto EXCEPT ![d] = "rejected"]
    /\ UNCHANGED <<available, pending, depositVars, cooldown, adminVars, withdrawal,
                   sent, received, converted, auditVars>>

\* Fault: the balance is not compared with the amount.
WithdrawUnchecked(w) ==
    LET a == <<Withdrawal[w].user, Withdrawal[w].currency>> IN
    /\ withdrawal[w] = "none"
    /\ Withdrawal[w].user \in Verified \ (frozen \cup blocked \cup cooldown)
    /\ available' = [available EXCEPT ![a] = @ - Withdrawal[w].amount]
    /\ pending' = [pending EXCEPT ![a] = @ + Withdrawal[w].amount]
    /\ withdrawal' = [withdrawal EXCEPT ![w] = "pending"]
    /\ UNCHANGED <<depositVars, cooldown, adminVars, crypto, sent, received,
                   converted, auditVars>>

\* withdraw
Withdraw(w) ==
    LET a == <<Withdrawal[w].user, Withdrawal[w].currency>> IN
    /\ withdrawal[w] = "none"
    /\ Withdrawal[w].user \in Verified \ (frozen \cup blocked \cup cooldown)
    /\ available[a] >= Withdrawal[w].amount
    /\ available' = [available EXCEPT ![a] = @ - Withdrawal[w].amount]
    /\ pending' = [pending EXCEPT ![a] = @ + Withdrawal[w].amount]
    /\ withdrawal' = [withdrawal EXCEPT ![w] = "pending"]
    /\ UNCHANGED <<depositVars, cooldown, adminVars, crypto, sent, received,
                   converted, auditVars>>

\* The end of a withdrawal: the amount leaves pending_amount, and goes back to
\* the available balance if back.  routers/admin.py takes it off if it is
\* there; routers/crypto.py takes it off down to zero, and rounds.
EndWithdrawal(w, status, back, crypt) ==
    LET a == <<Withdrawal[w].user, Withdrawal[w].currency>>
        n == Withdrawal[w].amount
        rest == IF pending[a] >= n THEN pending[a] - n
                ELSE IF crypt THEN 0 ELSE pending[a]
        total == IF back THEN available[a] + n ELSE available[a] IN
    /\ withdrawal[w] = "pending"
    /\ withdrawal' = [withdrawal EXCEPT ![w] = status]
    /\ pending' = [pending EXCEPT ![a] = IF crypt THEN Round(rest) ELSE rest]
    /\ available' = [available EXCEPT ![a] = IF back /\ crypt THEN Round(total) ELSE total]
    /\ rounded' = IF crypt THEN RoundedNow(a, rest, IF back THEN total ELSE 0) ELSE rounded
    /\ UNCHANGED <<depositVars, cooldown, adminVars, crypto, sent, received,
                   converted, minted, gained>>

\* Fault: the money of a rejected withdrawal stays pending as well.
RejectKeepsPending(w) ==
    LET a == <<Withdrawal[w].user, Withdrawal[w].currency>> IN
    /\ withdrawal[w] = "pending"
    /\ withdrawal' = [withdrawal EXCEPT ![w] = "failed"]
    /\ available' = [available EXCEPT ![a] = @ + Withdrawal[w].amount]
    /\ UNCHANGED <<pending, depositVars, cooldown, adminVars, crypto, sent, received,
                   converted, auditVars>>

ApproveWithdrawal(w) == EndWithdrawal(w, "completed", FALSE, FALSE)
RejectWithdrawal(w) == EndWithdrawal(w, "failed", TRUE, FALSE)
ApproveCryptoWithdrawal(w) == EndWithdrawal(w, "completed", FALSE, TRUE)
RejectCryptoWithdrawal(w) == EndWithdrawal(w, "failed", TRUE, TRUE)

\* 24 hours pass since the last deposit through a gateway.
CooldownEnds(u) ==
    /\ u \in cooldown
    /\ cooldown' = cooldown \ {u}
    /\ UNCHANGED <<available, pending, depositVars, adminVars, otherRows, auditVars>>

-----------------------------------------------------------------------------
(* Transfers and conversions *)

\* transfer_funds; neither row has a reference.
TransferFunds(t) ==
    LET f == Transfer[t] IN
    /\ sent[t] = "none"
    /\ available[<<f.from, f.currency>>] >= f.amount
    /\ available' = [available EXCEPT ![<<f.from, f.currency>>] = @ - f.amount,
                                      ![<<f.to, f.currency>>] = @ + f.amount]
    /\ sent' = [sent EXCEPT ![t] = "completed"]
    /\ received' = [received EXCEPT ![t] = "completed"]
    /\ UNCHANGED <<pending, depositVars, cooldown, adminVars, crypto, withdrawal,
                   converted, auditVars>>

\* The rows that the reversal of t may take for the other half: completed ones
\* whose reference equals that of the first half, which is NULL.
OtherHalf(t) == {i \in Transfers : received[i] = "completed"}

\* reverse_transfer: the first row found is debited, down to zero.
ReverseTransfer(t, i) ==
    LET sender == <<Transfer[t].from, Transfer[t].currency>>
        debtor == <<Transfer[i].to, Transfer[i].currency>>
        credited == [available EXCEPT ![sender] = @ + Transfer[t].amount] IN
    /\ sent[t] = "completed"
    /\ i \in OtherHalf(t)
    /\ available' = [credited EXCEPT ![debtor] = Minus(@, Transfer[i].amount)]
    /\ sent' = [sent EXCEPT ![t] = "reversed"]
    /\ received' = [received EXCEPT ![i] = "reversed"]
    /\ minted' = [[minted EXCEPT ![sender[2]] = @ + Transfer[t].amount]
                    EXCEPT ![debtor[2]] = @ - (credited[debtor] - available'[debtor])]
    /\ UNCHANGED <<pending, depositVars, cooldown, adminVars, crypto, withdrawal,
                   converted, rounded, gained>>

\* _get_exchange_rate: the rate of the pair, or the inverse of the other one;
\* the spread makes either larger.
Quote(from, to, n) ==
    IF rate[<<from, to>>] # 0 THEN n * rate[<<from, to>>] * Markup
    ELSE (n * Markup) \div rate[<<to, from>>]

\* convert_currency
ConvertCurrency(k) ==
    LET v == Conversion[k]
        got == Quote(v.from, v.to, v.amount) IN
    /\ k \notin converted
    /\ rate[<<v.from, v.to>>] # 0 \/ rate[<<v.to, v.from>>] # 0
    /\ available[<<v.user, v.from>>] >= v.amount
    /\ available' = [available EXCEPT ![<<v.user, v.from>>] = @ - v.amount,
                                      ![<<v.user, v.to>>] = @ + got]
    /\ converted' = converted \cup {k}
    /\ gained' = [gained EXCEPT ![v.from] = @ - v.amount, ![v.to] = @ + got]
    /\ UNCHANGED <<pending, depositVars, cooldown, adminVars, crypto, withdrawal,
                   sent, received, rounded, minted>>

-----------------------------------------------------------------------------
(* What administrators set *)

Untouched == <<available, pending, depositVars, cooldown, otherRows, auditVars>>

Setting ==
    /\ settings < MaxSettings
    /\ settings' = settings + 1
    /\ UNCHANGED Untouched

\* freeze_wallet
FreezeWallet(u) ==
    /\ frozen' = frozen \cup {u}
    /\ Setting /\ UNCHANGED <<rate, blocked>>

\* unfreeze_wallet
UnfreezeWallet(u) ==
    /\ u \in frozen
    /\ frozen' = frozen \ {u}
    /\ UNCHANGED <<Untouched, settings, rate, blocked>>

\* block_withdrawals
BlockWithdrawals(u) ==
    /\ blocked' = blocked \cup {u}
    /\ Setting /\ UNCHANGED <<rate, frozen>>

\* unblock_withdrawals
UnblockWithdrawals(u) ==
    /\ u \in blocked
    /\ blocked' = blocked \ {u}
    /\ UNCHANGED <<Untouched, settings, rate, frozen>>

\* set_exchange_rate
SetExchangeRate(p, r) ==
    /\ rate[p] # r
    /\ rate' = [rate EXCEPT ![p] = r]
    /\ Setting /\ UNCHANGED <<frozen, blocked>>

\* deactivate_exchange_rate
DeactivateExchangeRate(p) ==
    /\ rate[p] # 0
    /\ rate' = [rate EXCEPT ![p] = 0]
    /\ Setting /\ UNCHANGED <<frozen, blocked>>

-----------------------------------------------------------------------------
DepositStep ==
    \/ \E p \in Payments : \/ InitiateDeposit(p) \/ Pay(p) \/ PaystackWebhook(p)
                           \/ \E u \in Users : VerifyByReference(u, p)
                           \/ \E r \in Payments : \/ ReconcileDeposit(p, r)
                                                  \/ \E q \in Requests : AskGateway(q, p, r)
    \/ \E q \in Requests : GatewayAnswers(q)

WithdrawalStep ==
    \E w \in Withdrawals : \/ Withdraw(w)
                           \/ ApproveWithdrawal(w) \/ RejectWithdrawal(w)
                           \/ ApproveCryptoWithdrawal(w) \/ RejectCryptoWithdrawal(w)

SettingStep ==
    \/ \E u \in Users : \/ FreezeWallet(u) \/ UnfreezeWallet(u)
                        \/ BlockWithdrawals(u) \/ UnblockWithdrawals(u)
    \/ \E p \in Pairs : \/ DeactivateExchangeRate(p)
                        \/ \E r \in Rates : SetExchangeRate(p, r)

Next ==
    \/ DepositStep
    \/ \E d \in CryptoDeposits : ApproveCryptoDeposit(d) \/ RejectCryptoDeposit(d)
    \/ WithdrawalStep
    \/ \E u \in Users : CooldownEnds(u)
    \/ \E t \in Transfers : \/ TransferFunds(t)
                            \/ \E i \in Transfers : ReverseTransfer(t, i)
    \/ \E k \in Conversions : ConvertCurrency(k)
    \/ SettingStep

Spec == Init /\ [][Next]_vars

-----------------------------------------------------------------------------
(* Properties *)

\* A Stripe payment that was verified without the id of its row: the row stays
\* pending, and can be completed as well.
TwoRows(u, p) == Payment[p].gateway = "stripe" /\ <<u, p>> \in extra

\* However verifications, webhooks and reconciliations meet, whoever asks for
\* them and whichever row they name, a user is credited a payment once, with
\* three exceptions: a credit on a status that had changed while the gateway
\* was asked, a credit through the row of another payment that the request
\* named, and Stripe's second row.  What was credited was paid, and has left a
\* completed row of that user that carries the payment, unless a stale credit
\* took the row over.
CreditedOnce ==
    \A u \in Users, p \in Payments :
      /\ credits[<<u, p>>] > 1 => <<u, p>> \in stale \cup crossed \/ TwoRows(u, p)
      /\ credits[<<u, p>>] > 0 => p \in paid
      /\ credits[<<u, p>>] > 0 =>
           \/ <<u, p>> \in stale \cup extra
           \/ \E r \in Carrying(u, p) : deposit[r] = "completed"

\* pending_amount is the sum of the withdrawals that wait for an administrator,
\* whichever of the two routers ends them, in accounts that no rounding to
\* cents has touched.  So no approval finds less there than it takes off.
PendingMatchesRequests ==
    \A a \in Accounts \ rounded :
      pending[a] = Total([w \in Withdrawals |-> Withdrawal[w].amount],
                         {w \in Withdrawals : /\ withdrawal[w] = "pending"
                                              /\ a = <<Withdrawal[w].user, Withdrawal[w].currency>>})

\* What has come into a currency, less what has been paid out.
Deposited(c) ==
    Total([x \in Users \X Payments |-> credits[x] * Payment[x[2]].amount],
          {x \in Users \X Payments : Payment[x[2]].currency = c})
      + Total([d \in CryptoDeposits |-> CryptoCredit[d].amount],
              {d \in CryptoDeposits : crypto[d] = "approved" /\ CryptoCredit[d].currency = c})
PaidOut(c) ==
    Total([w \in Withdrawals |-> Withdrawal[w].amount],
          {w \in Withdrawals : withdrawal[w] = "completed" /\ Withdrawal[w].currency = c})

\* Withdrawals and transfers neither make nor lose money: in a currency that no
\* rounding has touched, the wallets hold what came in, less what was paid
\* out, plus what conversions exchanged and what reversals made.
MoneyExplained ==
    \A c \in Currencies :
      (\A u \in Users : <<u, c>> \notin rounded) =>
        Total(available, Users \X {c}) + Total(pending, Users \X {c})
          = Deposited(c) - PaidOut(c) + gained[c] + minted[c]
=============================================================================
