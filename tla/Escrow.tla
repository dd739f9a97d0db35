------------------------------- MODULE Escrow -------------------------------
(***************************************************************************)
(* The escrow workflow of a deal: app/routers/transactions.py, the funding *)
(* deadline, the dispute handlers, the Celery tasks that act on deals, and *)
(* what those handlers do to held agent fees.                              *)
(*                                                                         *)
(* One action is one database transaction: a handler that commits once is  *)
(* one action, and a handler that create_notification() commits half way   *)
(* is two, with the crash in between as a third.                           *)
(*                                                                         *)
(* Amounts are integers in one currency.  Titles, logs, reputation scores  *)
(* and notifications carry no state that any guard here reads.             *)
(***************************************************************************)
EXTENDS Totals

CONSTANTS
    Users,          \* accounts: buyers, sellers and agents
    Deals,          \* ids of Transaction rows
    Milestones,     \* ids of Milestone rows
    Requests,       \* ids of AgentRequest rows
    AgentOf,        \* the account of the agent that an earning names
    DealOf,         \* the deal a milestone id belongs to
    RequestDeal,    \* the deal an agent request id belongs to
    Buyer, Seller,  \* the two parties of a deal, both registered users
    Balance,        \* what every user has available at the start
    Amounts,        \* the prices a milestone may be given
    Fee,            \* gross agent fee of a request (AgentEarning.gross_fee)
    Payout,         \* what the agent gets of it (AgentEarning.agent_payout)
    Freezable       \* the users whose wallet an administrator may freeze

ASSUME RowsAssumption ==
    /\ IsFiniteSet(Users) /\ IsFiniteSet(Milestones) /\ IsFiniteSet(Requests)
    /\ DealOf \in [Milestones -> Deals]
    /\ RequestDeal \in [Requests -> Deals]
    /\ AgentOf \in [Requests -> Users]
    /\ Freezable \subseteq Users

ASSUME PartiesAssumption ==
    /\ Buyer \in [Deals -> Users]
    /\ Seller \in [Deals -> Users]
    /\ \A t \in Deals : Buyer[t] # Seller[t]

ASSUME MoneyAssumption ==
    /\ Balance \in [Users -> Nat]
    /\ Amounts \subseteq Nat
    /\ Fee \in [Requests -> Nat]
    /\ Payout \in [Requests -> Nat]
    /\ \A r \in Requests : Payout[r] <= Fee[r]

VARIABLES
    \* Transaction rows
    status, deadline, fundedMs, completedMs, hasDispute,
    \* Milestone rows
    mstatus, amount, funded, isFunded, autoRelease, proof,
    \* WalletBalance and LedgerEntry rows, and User.wallet_frozen
    available, escrow, ledger, frozen,
    \* AgentRequest and AgentEarning rows, and the ledger entries of the fees
    request, earning, feeLedger,
    \* work in progress: Celery messages and handlers between two commits
    enforceTask, releaseTask, staleTask, sweep, feeRefundDue

dealVars  == <<status, deadline, fundedMs, completedMs, hasDispute>>
msVars    == <<mstatus, amount, funded, isFunded, autoRelease, proof>>
moneyVars == <<available, escrow, ledger, frozen>>
feeVars   == <<request, earning, feeLedger>>
taskVars  == <<enforceTask, releaseTask, staleTask, sweep, feeRefundDue>>
vars      == <<dealVars, msVars, moneyVars, feeVars, taskVars>>

-----------------------------------------------------------------------------
(* Values *)

\* "none" is a deal that does not exist yet.
DealStatus == {"none", "pending_acceptance", "pending_approval", "approved",
               "funding_in_progress", "partially_funded", "active",
               "in_progress", "disputed", "completed", "cancelled"}

\* "absent" is a milestone that does not exist yet.
MilestoneStatus == {"absent", "pending", "funded", "in_progress", "delivered",
                    "under_review", "revision_requested", "disputed",
                    "completed"}

\* A timestamp column compared with utcnow(): null, in the future, in the past.
Clock == {"none", "ahead", "due"}

RequestStatus == {"none", "pending", "active", "completed", "declined",
                  "cancelled"}
EarningStatus == {"none", "pending", "held", "paid", "refunded"}

\* The sums of the ledger entries that name a milestone, by reference_type.
MilestoneLedger == [fund : Nat, release : Nat, refund : Nat]
\* The sums of the ledger entries that name an agent request.
RequestLedger == [hold : Nat, refund : Nat, payout : Nat]

\* The statuses in which a deal may be funded and its deadline enforced.
FundingPhase == {"funding_in_progress", "partially_funded", "active",
                 "approved"}

MilestonesOf(t) == {m \in Milestones : DealOf[m] = t}
Present(t) == {m \in MilestonesOf(t) : mstatus[m] # "absent"}

TypeOK ==
    /\ status \in [Deals -> DealStatus]
    /\ deadline \in [Deals -> Clock]
    /\ fundedMs \in [Deals -> Nat]
    /\ completedMs \in [Deals -> Nat]
    /\ hasDispute \in [Deals -> BOOLEAN]
    /\ mstatus \in [Milestones -> MilestoneStatus]
    /\ amount \in [Milestones -> Nat]
    /\ funded \in [Milestones -> Nat]
    /\ isFunded \in [Milestones -> BOOLEAN]
    /\ autoRelease \in [Milestones -> Clock]
    /\ proof \in [Milestones -> BOOLEAN]
    /\ available \in [Users -> Nat]
    /\ escrow \in [Users -> Nat]
    /\ ledger \in [Milestones -> MilestoneLedger]
    /\ frozen \in SUBSET Users
    /\ request \in [Requests -> RequestStatus]
    /\ earning \in [Requests -> EarningStatus]
    /\ feeLedger \in [Requests -> RequestLedger]
    /\ enforceTask \in [Deals -> BOOLEAN]
    /\ releaseTask \in [Milestones -> BOOLEAN]
    /\ staleTask \in [Milestones -> BOOLEAN]
    /\ sweep \in SUBSET Deals
    /\ feeRefundDue \in SUBSET Deals

Init ==
    /\ status = [t \in Deals |-> "none"]
    /\ deadline = [t \in Deals |-> "none"]
    /\ fundedMs = [t \in Deals |-> 0]
    /\ completedMs = [t \in Deals |-> 0]
    /\ hasDispute = [t \in Deals |-> FALSE]
    /\ mstatus = [m \in Milestones |-> "absent"]
    /\ amount = [m \in Milestones |-> 0]
    /\ funded = [m \in Milestones |-> 0]
    /\ isFunded = [m \in Milestones |-> FALSE]
    /\ autoRelease = [m \in Milestones |-> "none"]
    /\ proof = [m \in Milestones |-> FALSE]
    /\ available = Balance
    /\ escrow = [u \in Users |-> 0]
    /\ ledger = [m \in Milestones |-> [fund |-> 0, release |-> 0, refund |-> 0]]
    /\ frozen = {}
    /\ request = [r \in Requests |-> "none"]
    /\ earning = [r \in Requests |-> "none"]
    /\ feeLedger = [r \in Requests |-> [hold |-> 0, refund |-> 0, payout |-> 0]]
    /\ enforceTask = [t \in Deals |-> FALSE]
    /\ releaseTask = [m \in Milestones |-> FALSE]
    /\ staleTask = [m \in Milestones |-> FALSE]
    /\ sweep = {}
    /\ feeRefundDue = {}

-----------------------------------------------------------------------------
(* Agent fees, as the deal handlers settle them (agent_fee_service.py) *)

HeldOn(t) == {r \in Requests : RequestDeal[r] = t /\ earning[r] = "held"}

\* Fault: every accepted request is paid on completion.
EligibleOnceHeld(t) == HeldOn(t)

\* The held fees that are paid on completion: the agent finished the work.
Eligible(t) == {r \in HeldOn(t) : request[r] = "completed"}

\* What user u receives when, of the fees held on t, those in paid go to
\* their agents and the others back to the buyer.
FeeCredit(u, t, paid) ==
    Total(Payout, {r \in paid : AgentOf[r] = u})
      + (IF u = Buyer[t] THEN Total(Fee, HeldOn(t) \ paid) ELSE 0)

\* The earnings and their ledger entries after that settlement.
SettleFees(t, paid) ==
    /\ earning' = [r \in Requests |->
                     IF r \in paid THEN "paid"
                     ELSE IF r \in HeldOn(t) THEN "refunded" ELSE earning[r]]
    /\ feeLedger' = [r \in Requests |->
                       IF r \in paid
                       THEN [feeLedger[r] EXCEPT !.payout = @ + Payout[r]]
                       ELSE IF r \in HeldOn(t)
                       THEN [feeLedger[r] EXCEPT !.refund = @ + Fee[r]]
                       ELSE feeLedger[r]]

\* refund_held_agent_fees_for_transaction: every held fee goes back.
RefundHeldFees(t) ==
    /\ available' = [u \in Users |-> available[u] + FeeCredit(u, t, {})]
    /\ SettleFees(t, {})

-----------------------------------------------------------------------------
(* Invitation: create, accept, decline, cancel, expire *)

\* create_transaction, with the milestones the payload lists (perhaps none).
CreateDeal(t) ==
    /\ status[t] = "none"
    /\ status' = [status EXCEPT ![t] = "pending_approval"]
    /\ \E ms \in SUBSET MilestonesOf(t) : \E price \in [ms -> Amounts] :
         /\ mstatus' = [m \in Milestones |->
                          IF m \in ms THEN "pending" ELSE mstatus[m]]
         /\ amount' = [m \in Milestones |->
                         IF m \in ms THEN price[m] ELSE amount[m]]
    /\ UNCHANGED <<deadline, fundedMs, completedMs, hasDispute, funded,
                   isFunded, autoRelease, proof, moneyVars, feeVars, taskVars>>

\* create_milestone: the buyer adds one, whatever the status of the deal.
CreateMilestone(m) ==
    /\ status[DealOf[m]] # "none"
    /\ mstatus[m] = "absent"
    /\ mstatus' = [mstatus EXCEPT ![m] = "pending"]
    /\ \E a \in Amounts : amount' = [amount EXCEPT ![m] = a]
    /\ UNCHANGED <<dealVars, funded, isFunded, autoRelease, proof, moneyVars,
                   feeVars, taskVars>>

\* Fault: accepting again, whatever the status.
AcceptDealAgain(t) ==
    /\ status[t] # "none"
    /\ status' = [status EXCEPT ![t] = "funding_in_progress"]
    /\ deadline' = [deadline EXCEPT ![t] = "ahead"]
    /\ UNCHANGED <<fundedMs, completedMs, hasDispute, msVars, moneyVars,
                   feeVars, taskVars>>

\* accept_transaction: the notification commits, then the deadline task is
\* queued; a broker error is swallowed and leaves no task.
AcceptDeal(t) ==
    /\ status[t] \in {"pending_acceptance", "pending_approval"}
    /\ status' = [status EXCEPT ![t] = "funding_in_progress"]
    /\ deadline' = [deadline EXCEPT ![t] = "ahead"]
    /\ \E queued \in BOOLEAN :
         enforceTask' = [enforceTask EXCEPT ![t] = @ \/ queued]
    /\ UNCHANGED <<fundedMs, completedMs, hasDispute, msVars, moneyVars,
                   feeVars, releaseTask, staleTask, sweep, feeRefundDue>>

\* decline_transaction: the party that did not send the invitation; there is
\* no guard on the status and nothing is refunded.
DeclineDeal(t) ==
    /\ status[t] # "none"
    /\ status' = [status EXCEPT ![t] = "cancelled"]
    /\ UNCHANGED <<deadline, fundedMs, completedMs, hasDispute, msVars,
                   moneyVars, feeVars, taskVars>>

\* cancel_transaction: the party that sent the invitation; no guard on the
\* status, held agent fees are refunded, milestone money is not.
CancelDeal(t) ==
    /\ status[t] # "none"
    /\ RefundHeldFees(t)
    /\ status' = [status EXCEPT ![t] = "cancelled"]
    /\ UNCHANGED <<deadline, fundedMs, completedMs, hasDispute, msVars, escrow,
                   ledger, frozen, request, taskVars>>

\* expire_stale_invitations reads the list of deals still pending once; a run
\* that died before the end of its list may be repeated beside a slow one ...
SelectStaleInvitations ==
    /\ \E old \in SUBSET {t \in Deals : status[t] = "pending_approval"} :
         sweep' = sweep \cup old
    /\ UNCHANGED <<dealVars, msVars, moneyVars, feeVars, enforceTask,
                   releaseTask, staleTask, feeRefundDue>>

\* Fault: the expired deal keeps its held fees.
ExpireWithoutRefund(t) ==
    /\ t \in sweep
    /\ sweep' = sweep \ {t}
    /\ status' = [status EXCEPT ![t] = "cancelled"]
    /\ UNCHANGED <<deadline, fundedMs, completedMs, hasDispute, msVars,
                   moneyVars, feeVars, enforceTask, releaseTask, staleTask,
                   feeRefundDue>>

\* ... and then cancels every deal of the list, one commit each, without
\* looking at the status again.
ExpireInvitation(t) ==
    /\ t \in sweep
    /\ sweep' = sweep \ {t}
    /\ RefundHeldFees(t)
    /\ status' = [status EXCEPT ![t] = "cancelled"]
    /\ UNCHANGED <<deadline, fundedMs, completedMs, hasDispute, msVars, escrow,
                   ledger, frozen, request, enforceTask, releaseTask, staleTask,
                   feeRefundDue>>

-----------------------------------------------------------------------------
(* Funding and the funding deadline *)

\* enforce_funding_deadline_if_due has work to do on deal t.
Due(t) == status[t] \in FundingPhase /\ deadline[t] = "due"

FullyFunded(t) == {m \in Present(t) : isFunded[m]}
\* Fault: a refund that does not spare fully funded milestones.
AnyFunded(t) == {m \in Present(t) : funded[m] > 0}
PartlyFunded(t) == {m \in Present(t) : ~isFunded[m] /\ funded[m] > 0}

\* Fault: the buyer is credited and escrow_amount is not debited.
RefundWithoutDebit(t, ms) ==
    /\ available' = [available EXCEPT ![Buyer[t]] = @ + Total(funded, ms)]
    /\ ledger' = [m \in Milestones |->
                   IF m \in ms THEN [ledger[m] EXCEPT !.refund = @ + funded[m]]
                   ELSE ledger[m]]
    /\ funded' = [m \in Milestones |-> IF m \in ms THEN 0 ELSE funded[m]]
    /\ mstatus' = [m \in Milestones |->
                    IF m \in ms THEN "pending" ELSE mstatus[m]]
    /\ UNCHANGED escrow

\* Fault: funded_amount is reset before the ledger entry reads it.
RefundAfterReset(t, ms) ==
    /\ available' = [available EXCEPT ![Buyer[t]] = @ + Total(funded, ms)]
    /\ escrow' = [escrow EXCEPT ![Buyer[t]] = Minus(@, Total(funded, ms))]
    /\ funded' = [m \in Milestones |-> IF m \in ms THEN 0 ELSE funded[m]]
    /\ mstatus' = [m \in Milestones |->
                    IF m \in ms THEN "pending" ELSE mstatus[m]]
    /\ UNCHANGED ledger

\* refund_milestone_escrow_to_buyer for the milestones ms of deal t.
RefundMilestones(t, ms) ==
    /\ available' = [available EXCEPT ![Buyer[t]] = @ + Total(funded, ms)]
    /\ escrow' = [escrow EXCEPT ![Buyer[t]] = Minus(@, Total(funded, ms))]
    /\ ledger' = [m \in Milestones |->
                   IF m \in ms THEN [ledger[m] EXCEPT !.refund = @ + funded[m]]
                   ELSE ledger[m]]
    /\ funded' = [m \in Milestones |-> IF m \in ms THEN 0 ELSE funded[m]]
    /\ mstatus' = [m \in Milestones |->
                    IF m \in ms THEN "pending" ELSE mstatus[m]]

\* The deadline passes with no milestone fully funded: the refunds and the
\* cancellation are committed by the notification to the buyer, before the
\* agent fees are looked at.
CancelUnfundedDeal(t) ==
    /\ Due(t)
    /\ FullyFunded(t) = {}
    /\ RefundMilestones(t, PartlyFunded(t))
    /\ fundedMs' = [fundedMs EXCEPT ![t] = 0]
    /\ status' = [status EXCEPT ![t] = "cancelled"]
    /\ deadline' = [deadline EXCEPT ![t] = "none"]
    /\ feeRefundDue' = feeRefundDue \cup {t}
    /\ UNCHANGED <<completedMs, hasDispute, amount, isFunded, autoRelease,
                   proof, frozen, feeVars, releaseTask, staleTask, sweep>>

\* The deadline passes with a milestone fully funded: only the partial locks
\* go back.
RefundPartialLocks(t) ==
    /\ Due(t)
    /\ FullyFunded(t) # {}
    /\ RefundMilestones(t, PartlyFunded(t))
    /\ deadline' = [deadline EXCEPT ![t] = "none"]
    /\ UNCHANGED <<status, fundedMs, completedMs, hasDispute, amount, isFunded,
                   autoRelease, proof, frozen, feeVars, releaseTask, staleTask,
                   sweep, feeRefundDue>>

EnforceDeadline(t) == CancelUnfundedDeal(t) \/ RefundPartialLocks(t)

\* A party opens the deal, or the buyer tries to fund it, after the deadline:
\* get_transaction and fund_milestone enforce the deadline first.
EnforceOnAccess(t) ==
    /\ EnforceDeadline(t)
    /\ UNCHANGED enforceTask

\* The Celery message queued by accept_transaction, at its eta.
EnforceTask(t) ==
    /\ enforceTask[t]
    /\ deadline[t] # "ahead"
    /\ enforceTask' = [enforceTask EXCEPT ![t] = FALSE]
    /\ \/ EnforceDeadline(t)
       \/ /\ ~Due(t)
          /\ UNCHANGED <<dealVars, msVars, moneyVars, feeVars, releaseTask,
                         staleTask, sweep, feeRefundDue>>

\* The handler that cancelled the deal goes on to refund the agent fees ...
RefundFeesAfterDeadline(t) ==
    /\ t \in feeRefundDue
    /\ feeRefundDue' = feeRefundDue \ {t}
    /\ RefundHeldFees(t)
    /\ UNCHANGED <<dealVars, msVars, escrow, ledger, frozen, request,
                   enforceTask, releaseTask, staleTask, sweep>>

\* ... unless its process dies first: the deal is cancelled by now, so a
\* redelivered message or a later request skips it.
CrashAfterCancel(t) ==
    /\ t \in feeRefundDue
    /\ feeRefundDue' = feeRefundDue \ {t}
    /\ UNCHANGED <<dealVars, msVars, moneyVars, feeVars, enforceTask,
                   releaseTask, staleTask, sweep>>

\* Fault: no check of is_funded.
MayFundAgain(m, pay) ==
    /\ mstatus[m] # "absent"
    /\ ~Due(DealOf[m])
    /\ Buyer[DealOf[m]] \notin frozen
    /\ status[DealOf[m]] \in FundingPhase
    /\ funded[m] + pay <= amount[m]

\* The guards of fund_milestone; a due deadline is enforced, and committed,
\* before they are read.
MayFund(m, pay) ==
    /\ mstatus[m] # "absent"
    /\ ~Due(DealOf[m])
    /\ Buyer[DealOf[m]] \notin frozen
    /\ status[DealOf[m]] \in FundingPhase
    /\ ~isFunded[m]
    /\ funded[m] + pay <= amount[m]
\* Fault: no check of the available balance.
FundUnchecked(m, pay) == MayFund(m, pay)
CanFund(m, pay) == MayFund(m, pay) /\ available[Buyer[DealOf[m]]] >= pay

\* fund_milestone: the buyer locks pay, at most what is missing.
FundMilestone(m, pay) ==
    LET t == DealOf[m]
        b == Buyer[t]
        total == funded[m] + pay
        full == total = amount[m]
    IN
    /\ CanFund(m, pay)
    /\ available' = [available EXCEPT ![b] = @ - pay]
    /\ escrow' = [escrow EXCEPT ![b] = @ + pay]
    /\ ledger' = [ledger EXCEPT ![m].fund = @ + pay]
    /\ funded' = [funded EXCEPT ![m] = total]
    /\ isFunded' = [isFunded EXCEPT ![m] = full]
    /\ mstatus' = [mstatus EXCEPT ![m] = IF full THEN "funded" ELSE "pending"]
    /\ fundedMs' = [fundedMs EXCEPT ![t] = IF full THEN @ + 1 ELSE @]
    /\ status' = [status EXCEPT ![t] =
                   IF full \/ FullyFunded(t) # {} THEN "active"
                   ELSE "partially_funded"]
    /\ UNCHANGED <<deadline, completedMs, hasDispute, amount, autoRelease,
                   proof, frozen, feeVars, taskVars>>

-----------------------------------------------------------------------------
(* Delivery, review and release *)

\* start_milestone
StartWork(m) ==
    /\ isFunded[m]
    /\ mstatus[m] = "funded"
    /\ mstatus' = [mstatus EXCEPT ![m] = "in_progress"]
    /\ UNCHANGED <<dealVars, amount, funded, isFunded, autoRelease, proof,
                   moneyVars, feeVars, taskVars>>

\* submit_delivery: a new review window and one more auto-release message, if
\* the broker takes it.  ok is whether the stored delivery passes
\* delivery_meets_auto_release_bar: a title of blanks passes the schema and
\* is stripped before it is stored.
SubmitDelivery(m, ok) ==
    LET t == DealOf[m] IN
    /\ isFunded[m]
    /\ mstatus[m] \in {"funded", "in_progress", "revision_requested"}
    /\ mstatus' = [mstatus EXCEPT ![m] = "under_review"]
    /\ proof' = [proof EXCEPT ![m] = ok]
    /\ autoRelease' = [autoRelease EXCEPT ![m] = "ahead"]
    /\ status' = [status EXCEPT ![t] = IF @ = "active" THEN "in_progress" ELSE @]
    /\ staleTask' = [staleTask EXCEPT ![m] = @ \/ releaseTask[m]]
    /\ \E queued \in BOOLEAN :
         releaseTask' = [releaseTask EXCEPT ![m] = queued]
    /\ UNCHANGED <<deadline, fundedMs, completedMs, hasDispute, amount, funded,
                   isFunded, moneyVars, feeVars, enforceTask, sweep,
                   feeRefundDue>>

\* What is paid out: funded_amount, or the price when nothing is recorded.
ReleaseAmount(m) == IF funded[m] # 0 THEN funded[m] ELSE amount[m]

\* Fault: any() for all().
CompletesDealAny(m) ==
    \E n \in Present(DealOf[m]) : n = m \/ mstatus[n] = "completed"

\* Every other milestone of the deal is completed already.
CompletesDeal(m) ==
    \A n \in Present(DealOf[m]) \ {m} : mstatus[n] = "completed"

\* _release_milestone_escrow.  The last milestone completes the deal, and the
\* held agent fees are settled with it.
Release(m) ==
    LET t == DealOf[m]
        last == CompletesDeal(m)
        fees(u) == IF last THEN FeeCredit(u, t, Eligible(t)) ELSE 0
    IN
    /\ escrow' = [escrow EXCEPT ![Buyer[t]] = Minus(@, ReleaseAmount(m))]
    /\ available' = [u \in Users |->
                      available[u] + fees(u)
                        + (IF u = Seller[t] THEN ReleaseAmount(m) ELSE 0)]
    /\ ledger' = [ledger EXCEPT ![m].release = @ + ReleaseAmount(m)]
    /\ mstatus' = [mstatus EXCEPT ![m] = "completed"]
    /\ completedMs' = [completedMs EXCEPT ![t] = @ + 1]
    /\ status' = [status EXCEPT ![t] = IF last THEN "completed" ELSE @]
    /\ IF last THEN SettleFees(t, Eligible(t))
               ELSE UNCHANGED <<earning, feeLedger>>
    /\ UNCHANGED <<deadline, fundedMs, hasDispute, amount, funded, isFunded,
                   autoRelease, proof, frozen, request>>

\* Fault: a completed milestone may be approved again.
UnderReviewOrDone(m) ==
    mstatus[m] \in {"under_review", "delivered", "completed"}

\* The statuses in which a delivery may be approved or sent back.
UnderReview(m) == mstatus[m] \in {"under_review", "delivered"}

\* approve_milestone (the high-value checklist is part of the buyer's input)
ApproveMilestone(m) ==
    /\ UnderReview(m)
    /\ Release(m)
    /\ UNCHANGED taskVars

\* request_revision: the review window is cleared, its message stays queued.
RequestRevision(m) ==
    /\ UnderReview(m)
    /\ mstatus' = [mstatus EXCEPT ![m] = "revision_requested"]
    /\ autoRelease' = [autoRelease EXCEPT ![m] = "none"]
    /\ UNCHANGED <<dealVars, amount, funded, isFunded, proof, moneyVars,
                   feeVars, taskVars>>

\* Fault: the review window is not looked at.
ReadyAnyTime(m) == UnderReview(m) /\ proof[m]

\* auto_release_milestone: which milestones it pays out.
ReadyForAutoRelease(m) ==
    /\ UnderReview(m)
    /\ autoRelease[m] # "ahead"
    /\ proof[m]

AutoRelease(m) ==
    \/ /\ ReadyForAutoRelease(m)
       /\ Release(m)
    \/ /\ ~ReadyForAutoRelease(m)
       /\ UNCHANGED <<dealVars, msVars, moneyVars, feeVars>>

\* The message of the latest delivery, at the end of its countdown.  Late
\* acknowledgement: if the worker dies before it, the message comes again.
RunReleaseTask(m) ==
    /\ releaseTask[m]
    /\ autoRelease[m] # "ahead"
    /\ AutoRelease(m)
    /\ releaseTask' = [releaseTask EXCEPT ![m] = FALSE]
    /\ \E again \in BOOLEAN :
         staleTask' = [staleTask EXCEPT ![m] = @ \/ again]
    /\ UNCHANGED <<enforceTask, sweep, feeRefundDue>>

\* A message of an earlier delivery, or one delivered again: at any time.
RunStaleTask(m) ==
    /\ staleTask[m]
    /\ AutoRelease(m)
    /\ \E again \in BOOLEAN :
         staleTask' = [staleTask EXCEPT ![m] = again]
    /\ UNCHANGED <<enforceTask, releaseTask, sweep, feeRefundDue>>

-----------------------------------------------------------------------------
(* Disputes *)

\* create_dispute, on the deal (ms empty) or on one of its milestones.
OpenDispute(t, ms) ==
    /\ status[t] # "none"
    /\ hasDispute' = [hasDispute EXCEPT ![t] = TRUE]
    /\ status' = [status EXCEPT ![t] = "disputed"]
    /\ mstatus' = [m \in Milestones |->
                    IF m \in ms THEN "disputed" ELSE mstatus[m]]
    /\ UNCHANGED <<deadline, fundedMs, completedMs, amount, funded, isFunded,
                   autoRelease, proof, moneyVars, feeVars, taskVars>>

\* admin_update_dispute with "resolved" (the other statuses leave the deal
\* alone): the deal becomes completed, the agent fees are settled by the
\* policy the administrator picks, and milestone money stays where it is.
ResolveDispute(t) ==
    /\ hasDispute[t]
    /\ status' = [status EXCEPT ![t] = "completed"]
    /\ \E paid \in {{}, HeldOn(t), Eligible(t)} :
         /\ available' = [u \in Users |-> available[u] + FeeCredit(u, t, paid)]
         /\ SettleFees(t, paid)
    /\ UNCHANGED <<deadline, fundedMs, completedMs, hasDispute, msVars, escrow,
                   ledger, frozen, request, taskVars>>

-----------------------------------------------------------------------------
(* The environment: time, and the administrator's freeze *)

DeadlinePasses(t) ==
    /\ deadline[t] = "ahead"
    /\ deadline' = [deadline EXCEPT ![t] = "due"]
    /\ UNCHANGED <<status, fundedMs, completedMs, hasDispute, msVars, moneyVars,
                   feeVars, taskVars>>

ReviewWindowEnds(m) ==
    /\ autoRelease[m] = "ahead"
    /\ autoRelease' = [autoRelease EXCEPT ![m] = "due"]
    /\ UNCHANGED <<dealVars, mstatus, amount, funded, isFunded, proof, moneyVars,
                   feeVars, taskVars>>

\* freeze_wallet and unfreeze_wallet
SetFrozen(u) ==
    /\ u \in Freezable
    /\ frozen' = (IF u \in frozen THEN frozen \ {u} ELSE frozen \cup {u})
    /\ UNCHANGED <<dealVars, msVars, available, escrow, ledger, feeVars,
                   taskVars>>

-----------------------------------------------------------------------------
InvitationStep(t) ==
    \/ CreateDeal(t)
    \/ AcceptDeal(t)
    \/ DeclineDeal(t)
    \/ CancelDeal(t)
    \/ ExpireInvitation(t)

DeadlineStep(t) ==
    \/ DeadlinePasses(t)
    \/ EnforceOnAccess(t)
    \/ EnforceTask(t)
    \/ RefundFeesAfterDeadline(t)
    \/ CrashAfterCancel(t)

DisputeStep(t) ==
    \/ OpenDispute(t, {})
    \/ \E m \in Present(t) : OpenDispute(t, {m})
    \/ ResolveDispute(t)

MilestoneStep(m) ==
    \/ CreateMilestone(m)
    \/ \E pay \in 1 .. amount[m] : FundMilestone(m, pay)
    \/ StartWork(m)
    \/ \E ok \in BOOLEAN : SubmitDelivery(m, ok)
    \/ ApproveMilestone(m)
    \/ RequestRevision(m)
    \/ ReviewWindowEnds(m)
    \/ RunReleaseTask(m)
    \/ RunStaleTask(m)

Next ==
    \/ \E t \in Deals : InvitationStep(t) \/ DeadlineStep(t) \/ DisputeStep(t)
    \/ \E m \in Milestones : MilestoneStep(m)
    \/ \E u \in Users : SetFrozen(u)
    \/ SelectStaleInvitations

Spec == Init /\ [][Next]_vars

-----------------------------------------------------------------------------
(* Safety *)

\* What a milestone holds in its buyer's escrow: what was funded and not yet
\* released (funded_amount is not reset by a release).
Locked == [m \in Milestones |->
            IF ledger[m].release > 0 THEN 0 ELSE funded[m]]

BoughtBy(u) == {m \in Milestones : Buyer[DealOf[m]] = u}

\* The escrow balance of a user is exactly what the user's milestones hold:
\* partial locks, deadline refunds and releases of several deals share one
\* WalletBalance row and never eat into each other, so the max(0, ...) of
\* _release_milestone_escrow never hides a shortfall.
EscrowBacked == \A u \in Users : escrow[u] = Total(Locked, BoughtBy(u))

\* The ledger accounts for every unit: what was locked for a milestone was
\* refunded, released or is still held.
LedgerBalanced ==
    \A m \in Milestones :
        ledger[m].fund = ledger[m].refund + ledger[m].release + Locked[m]

\* A milestone is paid at most once, and then its whole price: approval, the
\* auto-release message, its redelivery and the messages of earlier
\* deliveries all try.
PaidOnceInFull ==
    \A m \in Milestones :
        ledger[m].release > 0 => /\ ledger[m].release = amount[m]
                                 /\ mstatus[m] \in {"completed", "disputed"}

\* is_funded means fully funded, and work never starts on less.
FundedMeansFull ==
    \A m \in Milestones :
        IF isFunded[m]
        THEN funded[m] = amount[m] /\ funded[m] > 0
        ELSE /\ funded[m] > 0 => funded[m] < amount[m]
             /\ mstatus[m] \in {"absent", "pending", "disputed"}

\* What the proofs need beside these: rows that do not exist hold nothing, and
\* money is only released for a milestone that is fully funded.
RowsAgree ==
    \A m \in Milestones :
        /\ status[DealOf[m]] = "none" => mstatus[m] = "absent"
        /\ mstatus[m] = "absent" => funded[m] = 0 /\ ~isFunded[m]
        /\ ledger[m].release > 0 => isFunded[m]

\* The inductive invariant.
EscrowInv ==
    /\ TypeOK
    /\ RowsAgree
    /\ FundedMeansFull
    /\ PaidOnceInFull
    /\ LedgerBalanced
    /\ EscrowBacked

\* funded_milestones and completed_milestones of a deal are what a count of
\* its milestones gives (the funded count decides whether
\* cancel_unfunded_transaction may cancel).
CountersAgree ==
    \A t \in Deals :
        /\ fundedMs[t] = Cardinality(FullyFunded(t))
        /\ completedMs[t] =
             Cardinality({m \in MilestonesOf(t) : ledger[m].release > 0})

\* The status of a deal in its funding phase tells what its milestones hold:
\* nothing, partial locks only, or at least one fully funded milestone.
StatusTellsFunding ==
    \A t \in Deals :
        /\ status[t] \in {"pending_approval", "funding_in_progress"} =>
             \A m \in Present(t) : funded[m] = 0
        /\ status[t] = "partially_funded" =>
             FullyFunded(t) = {} /\ PartlyFunded(t) # {}
        /\ status[t] \in {"active", "in_progress"} => FullyFunded(t) # {}

\* A deal that its last release completed, and that nobody disputed, holds no
\* money any more.
CompletedIsDrained ==
    \A t \in Deals :
        status[t] = "completed" /\ ~hasDispute[t] =>
            \A m \in MilestonesOf(t) : Locked[m] = 0

\* Money is neither created nor lost: what the users have, available or in
\* escrow, and what the platform keeps of the agent fees add up to what the
\* users brought.
PlatformFees ==
    Total([r \in Requests |-> feeLedger[r].hold], Requests)
      - Total([r \in Requests |-> feeLedger[r].refund], Requests)
      - Total([r \in Requests |-> feeLedger[r].payout], Requests)
MoneyConserved ==
    Total(available, Users) + Total(escrow, Users) + PlatformFees
      = Total(Balance, Users)

\* No message releases a delivery before the review window of that delivery
\* has ended: not the message of an earlier delivery that a revision
\* replaced, and not one delivered twice.
NoEarlyAutoRelease ==
    [][\A m \in Milestones :
         (RunReleaseTask(m) \/ RunStaleTask(m)) /\ ledger'[m] # ledger[m]
           => autoRelease[m] = "due"]_vars

(* What a docstring of the source says *)

\* enforce_funding_deadline (tasks.py:278-282): at the deadline of a deal that
\* is still open the locks of incomplete milestones are refunded, whether or
\* not another milestone is funded.
TaskRefundsPartialLocks ==
    [][\A t \in Deals :
         /\ EnforceTask(t)
         /\ deadline[t] = "due"
         /\ status[t] \notin {"disputed", "completed", "cancelled"}
         => PartlyFunded(t)' = {}]_vars
=============================================================================
