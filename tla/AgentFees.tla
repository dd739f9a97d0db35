----------------------------- MODULE AgentFees -----------------------------
(***************************************************************************)
(* Agent requests and their fees, composed with the deals they are about:  *)
(* app/routers/agents.py, app/services/agent_fee_service.py and the agent  *)
(* handlers of app/routers/admin.py.                                       *)
(*                                                                         *)
(* A buyer asks an agent to verify a deal.  Accepting holds the fee: it    *)
(* leaves the buyer's available balance and stays with the platform until  *)
(* the deal, the buyer or an administrator settles it.  The variables and  *)
(* what deals do to held fees are those of module Escrow.                  *)
(***************************************************************************)
EXTENDS Escrow

RequestsOn(t) == {r \in Requests : RequestDeal[r] = t /\ request[r] # "none"}

\* request_agent reads one of the requests of the deal, in no order, and
\* refuses when that one is open.
MayRequest(t) ==
    \/ RequestsOn(t) = {}
    \/ \E r \in RequestsOn(t) : request[r] \notin {"active", "pending"}

RequestAgent(r) ==
    /\ request[r] = "none"
    /\ status[RequestDeal[r]] # "none"
    /\ MayRequest(RequestDeal[r])
    /\ request' = [request EXCEPT ![r] = "pending"]
    /\ UNCHANGED <<dealVars, msVars, moneyVars, earning, feeLedger, taskVars>>

\* hold_agent_fee_on_agent_accept has something to hold: the request has a
\* fee and no earning of it is held or paid.
NeedsHold(r) == Fee[r] > 0 /\ earning[r] \notin {"held", "paid"}

CanHold(r) == NeedsHold(r) /\ available[Buyer[RequestDeal[r]]] >= Fee[r]

\* Fault: the debit is forgotten.
HoldWithoutDebit(r) ==
    /\ earning' = [earning EXCEPT ![r] = "held"]
    /\ feeLedger' = [feeLedger EXCEPT ![r].hold = @ + Fee[r]]
    /\ UNCHANGED available

\* The fee moves from the buyer to the platform.
Hold(r) ==
    /\ available' = [available EXCEPT ![Buyer[RequestDeal[r]]] = @ - Fee[r]]
    /\ earning' = [earning EXCEPT ![r] = "held"]
    /\ feeLedger' = [feeLedger EXCEPT ![r].hold = @ + Fee[r]]

\* respond_to_request with "accept": without the money the request stays
\* pending.  The status of the deal is not looked at.
AcceptRequest(r) ==
    /\ request[r] = "pending"
    /\ \/ CanHold(r) /\ Hold(r)
       \/ ~NeedsHold(r) /\ UNCHANGED <<available, earning, feeLedger>>
    /\ request' = [request EXCEPT ![r] = "active"]
    /\ UNCHANGED <<dealVars, msVars, escrow, ledger, frozen, taskVars>>

\* respond_to_request with "decline".
DeclineRequest(r) ==
    /\ request[r] = "pending"
    /\ request' = [request EXCEPT ![r] = "declined"]
    /\ UNCHANGED <<dealVars, msVars, moneyVars, earning, feeLedger, taskVars>>

\* Fault: a request the agent has completed may still be cancelled, and its
\* fee refunded whatever the state of the earning.
RefundAnyway(r) ==
    /\ available' = [available EXCEPT ![Buyer[RequestDeal[r]]] = @ + Fee[r]]
    /\ earning' = [earning EXCEPT ![r] = "refunded"]
    /\ feeLedger' = [feeLedger EXCEPT ![r].refund = @ + Fee[r]]

\* refund_held_agent_fee_for_request
RefundRequest(r) ==
    IF earning[r] = "held"
    THEN /\ available' = [available EXCEPT ![Buyer[RequestDeal[r]]] = @ + Fee[r]]
         /\ earning' = [earning EXCEPT ![r] = "refunded"]
         /\ feeLedger' = [feeLedger EXCEPT ![r].refund = @ + Fee[r]]
    ELSE UNCHANGED <<available, earning, feeLedger>>

\* cancel_request: the buyer withdraws an open request.
CancelRequest(r) ==
    /\ request[r] \in {"pending", "active"}
    /\ RefundRequest(r)
    /\ request' = [request EXCEPT ![r] = "cancelled"]
    /\ UNCHANGED <<dealVars, msVars, escrow, ledger, frozen, taskVars>>

\* complete_request: the agent has verified the deal.
CompleteRequest(r) ==
    /\ request[r] = "active"
    /\ request' = [request EXCEPT ![r] = "completed"]
    /\ UNCHANGED <<dealVars, msVars, moneyVars, earning, feeLedger, taskVars>>

\* admin_assign_agent: any request that is not completed becomes active, and
\* one without an earning gets a pending one, for which no money was held.
AssignAgent(r) ==
    /\ request[r] \notin {"none", "completed"}
    /\ request' = [request EXCEPT ![r] = "active"]
    /\ earning' = [earning EXCEPT ![r] =
                     IF @ = "none" /\ Fee[r] > 0 /\ Payout[r] > 0
                     THEN "pending" ELSE @]
    /\ UNCHANGED <<dealVars, msVars, moneyVars, feeLedger, taskVars>>

\* admin_force_payout_held_earning for a held fee; any other record is only
\* marked as paid.
PayEarning(r) ==
    IF earning[r] = "held"
    THEN /\ available' = [available EXCEPT ![AgentOf[r]] = @ + Payout[r]]
         /\ feeLedger' = [feeLedger EXCEPT ![r].payout = @ + Payout[r]]
    ELSE UNCHANGED <<available, feeLedger>>

\* process_agent_payout: an administrator pays an earning out.
AdminPayout(r) ==
    /\ earning[r] \notin {"none", "paid"}
    /\ PayEarning(r)
    /\ earning' = [earning EXCEPT ![r] = "paid"]
    /\ UNCHANGED <<dealVars, msVars, escrow, ledger, frozen, request, taskVars>>

RequestStep(r) ==
    \/ RequestAgent(r)
    \/ AcceptRequest(r)
    \/ DeclineRequest(r)
    \/ CancelRequest(r)
    \/ CompleteRequest(r)
    \/ AssignAgent(r)
    \/ AdminPayout(r)

AgentNext == Next \/ \E r \in Requests : RequestStep(r)
AgentSpec == Init /\ [][AgentNext]_vars

-----------------------------------------------------------------------------
(* Safety *)

\* A fee is held once, and then it is either still held, or all of it went
\* back to the buyer, or the agent got its share: never both, although the
\* completion, cancellation and expiry of the deal, its deadline, the buyer's
\* withdrawal, the dispute policy and the administrator's payout all settle it.
FeeSettledOnce ==
    \A r \in Requests :
        LET l == feeLedger[r] IN
        /\ l.hold \in {0, Fee[r]}
        /\ l.refund > 0 => l.refund = l.hold /\ l.payout = 0
        /\ l.payout > 0 => l.payout = Payout[r] /\ l.hold = Fee[r]
        /\ earning[r] = "held" => l.hold > 0 /\ l.refund = 0 /\ l.payout = 0

\* agent_fee_service.py:4-8: an agent is paid for a completed verification or
\* on an administrator's decision, not for having accepted.
NoPassivePayout ==
    [][\A r \in Requests :
         feeLedger'[r].payout > feeLedger[r].payout =>
            \/ request[r] = "completed"
            \/ AdminPayout(r)
            \/ ResolveDispute(RequestDeal[r])]_vars

\* When a deal is cancelled, its held fees go back to the buyer in the same
\* step, or in one that is due: by the party that sent the invitation, by
\* expiry and by the deadline.  (decline_transaction is the exception: it
\* leaves the fee held, against agents.py:6-7.)
CancelRefundsFees ==
    [][\A t \in Deals :
         status[t] # "cancelled" /\ status'[t] = "cancelled" =>
            \/ HeldOn(t)' = {}
            \/ t \in feeRefundDue'
            \/ DeclineDeal(t)]_vars
=============================================================================
