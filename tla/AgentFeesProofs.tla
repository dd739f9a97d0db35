-------------------------- MODULE AgentFeesProofs --------------------------
(***************************************************************************)
(* Theorems about AgentFees and StatusEdits, for all values of their       *)
(* constants: a fee is settled once, and whoever was paid had earned it;   *)
(* the balances are what the ledger says, and money is conserved.          *)
(***************************************************************************)
EXTENDS AgentFees, StatusEdits, EscrowProofs

-----------------------------------------------------------------------------
(* Types *)

USE DEF RequestStatus, EarningStatus, RequestLedger

\* Earnings, fee ledger and balances of the three ways to move a fee.
LEMMA RequestType ==
    ASSUME TypeOK, NEW r \in Requests, RequestStep(r)
    PROVE  TypeOK'
<1> DEFINE b == Buyer[RequestDeal[r]]
<1>1. /\ b \in Users /\ AgentOf[r] \in Users
      /\ Fee[r] \in Nat /\ Payout[r] \in Nat
  BY RowsAssumption, PartiesAssumption, MoneyAssumption
<1>2. feeLedger[r] \in RequestLedger /\ available[b] \in Nat
  BY <1>1 DEF TypeOK
<1>3. CASE RequestAgent(r)
  BY <1>3 DEF RequestAgent, TypeOK, dealVars, msVars, moneyVars, taskVars
<1>4. CASE AcceptRequest(r)
  <2>1. request' \in [Requests -> RequestStatus]
    BY <1>4 DEF AcceptRequest, TypeOK
  <2>2. CASE CanHold(r) /\ Hold(r)
    <3>1. [feeLedger[r] EXCEPT !.hold = @ + Fee[r]] \in RequestLedger
      BY <1>1, <1>2
    <3>2. feeLedger' \in [Requests -> RequestLedger]
      BY <2>2, <3>1 DEF Hold, TypeOK
    <3>3. available' \in [Users -> Nat]
      BY <1>1, <1>2, <2>2 DEF CanHold, Hold, TypeOK
    <3> QED
      BY <1>4, <2>1, <2>2, <3>2, <3>3
      DEF AcceptRequest, Hold, TypeOK, dealVars, msVars, taskVars
  <2>3. CASE ~NeedsHold(r) /\ UNCHANGED <<available, earning, feeLedger>>
    BY <1>4, <2>1, <2>3 DEF AcceptRequest, TypeOK, dealVars, msVars, taskVars
  <2> QED
    BY <1>4, <2>2, <2>3 DEF AcceptRequest
<1>5. CASE DeclineRequest(r)
  BY <1>5 DEF DeclineRequest, TypeOK, dealVars, msVars, moneyVars, taskVars
<1>6. CASE CancelRequest(r)
  <2>1. request' \in [Requests -> RequestStatus]
    BY <1>6 DEF CancelRequest, TypeOK
  <2>2. [feeLedger[r] EXCEPT !.refund = @ + Fee[r]] \in RequestLedger
    BY <1>1, <1>2
  <2>3. /\ available' \in [Users -> Nat]
        /\ earning' \in [Requests -> EarningStatus]
        /\ feeLedger' \in [Requests -> RequestLedger]
    <3>1. CASE earning[r] = "held"
      <4>1. available' \in [Users -> Nat]
        BY <1>1, <1>2, <1>6, <3>1 DEF CancelRequest, RefundRequest, TypeOK
      <4>2. earning' \in [Requests -> EarningStatus]
        BY <1>6, <3>1 DEF CancelRequest, RefundRequest, TypeOK
      <4>3. feeLedger' \in [Requests -> RequestLedger]
        BY <1>6, <2>2, <3>1 DEF CancelRequest, RefundRequest, TypeOK
      <4> QED
        BY <4>1, <4>2, <4>3
    <3>2. CASE earning[r] # "held"
      BY <1>6, <3>2 DEF CancelRequest, RefundRequest, TypeOK
    <3> QED
      BY <3>1, <3>2
  <2> QED
    BY <1>6, <2>1, <2>3 DEF CancelRequest, TypeOK, dealVars, msVars, taskVars
<1>7. CASE CompleteRequest(r)
  BY <1>7 DEF CompleteRequest, TypeOK, dealVars, msVars, moneyVars, taskVars
<1>8. CASE AssignAgent(r)
  BY <1>8 DEF AssignAgent, TypeOK, dealVars, msVars, moneyVars, taskVars
<1>9. CASE AdminPayout(r)
  <2>1. [feeLedger[r] EXCEPT !.payout = @ + Payout[r]] \in RequestLedger
    BY <1>1, <1>2
  <2>2. /\ available' \in [Users -> Nat]
        /\ earning' \in [Requests -> EarningStatus]
        /\ feeLedger' \in [Requests -> RequestLedger]
    <3>1. earning' \in [Requests -> EarningStatus]
      BY <1>9 DEF AdminPayout, TypeOK
    <3>2. CASE earning[r] = "held"
      <4>1. available' \in [Users -> Nat]
        BY <1>1, <1>9, <3>2 DEF AdminPayout, PayEarning, TypeOK
      <4>2. feeLedger' \in [Requests -> RequestLedger]
        BY <1>9, <2>1, <3>2 DEF AdminPayout, PayEarning, TypeOK
      <4> QED
        BY <3>1, <4>1, <4>2
    <3>3. CASE earning[r] # "held"
      BY <1>9, <3>1, <3>3 DEF AdminPayout, PayEarning, TypeOK
    <3> QED
      BY <3>2, <3>3
  <2> QED
    BY <1>9, <2>2 DEF AdminPayout, TypeOK, dealVars, msVars, taskVars
<1> QED
  BY <1>3, <1>4, <1>5, <1>6, <1>7, <1>8, <1>9 DEF RequestStep

LEMMA AgentStepType == TypeOK /\ [AgentNext]_vars => TypeOK'
BY StepType, RequestType DEF AgentNext

-----------------------------------------------------------------------------
(* What the deal handlers do to fees *)

\* A handler of a deal leaves the fees alone, or settles all that are held on
\* one deal; it pays only agents that have completed their work, unless it
\* resolves a dispute.
LEMMA DealStepFees ==
    ASSUME [Next]_vars
    PROVE  /\ UNCHANGED request
           /\ \/ UNCHANGED <<earning, feeLedger>>
              \/ \E t \in Deals : \E paid \in SUBSET HeldOn(t) :
                    /\ SettleFees(t, paid)
                    /\ paid \subseteq Eligible(t) \/ ResolveDispute(t)
<1> DEFINE Goal ==
      /\ UNCHANGED request
      /\ \/ UNCHANGED <<earning, feeLedger>>
         \/ \E t \in Deals : \E paid \in SUBSET HeldOn(t) :
               /\ SettleFees(t, paid)
               /\ paid \subseteq Eligible(t) \/ ResolveDispute(t)
<1> SUFFICES Goal
  OBVIOUS
<1>1. CASE UNCHANGED feeVars
  BY <1>1 DEF feeVars
<1>2. ASSUME NEW t \in Deals, RefundHeldFees(t), UNCHANGED request
      PROVE  Goal
  <2>1. {} \in SUBSET HeldOn(t) /\ {} \subseteq Eligible(t)
    OBVIOUS
  <2> QED
    BY <1>2, <2>1 DEF RefundHeldFees
<1>3. ASSUME NEW t \in Deals, InvitationStep(t)
      PROVE  Goal
  BY <1>1, <1>2, <1>3
  DEF InvitationStep, CreateDeal, AcceptDeal, DeclineDeal, CancelDeal, ExpireInvitation
<1>4. ASSUME NEW t \in Deals, DeadlineStep(t)
      PROVE  Goal
  BY <1>1, <1>2, <1>4
  DEF DeadlineStep, DeadlinePasses, EnforceOnAccess, EnforceTask,
      EnforceDeadline, CancelUnfundedDeal, RefundPartialLocks,
      RefundFeesAfterDeadline, CrashAfterCancel
<1>5. ASSUME NEW t \in Deals, DisputeStep(t)
      PROVE  Goal
  <2>1. ASSUME NEW ms, OpenDispute(t, ms)
        PROVE  Goal
    BY <1>1, <2>1 DEF OpenDispute
  <2>2. CASE ResolveDispute(t)
    <3>1. PICK paid \in {{}, HeldOn(t), Eligible(t)} : SettleFees(t, paid)
      BY <2>2 DEF ResolveDispute
    <3>2. paid \in SUBSET HeldOn(t)
      BY DEF Eligible
    <3> QED
      BY <2>2, <3>1, <3>2 DEF ResolveDispute
  <2> QED
    BY <1>5, <2>1, <2>2 DEF DisputeStep
<1>6. ASSUME NEW m \in Milestones, Release(m)
      PROVE  Goal
  <2>1. DealOf[m] \in Deals /\ Eligible(DealOf[m]) \in SUBSET HeldOn(DealOf[m])
    BY RowsAssumption DEF Eligible
  <2> QED
    BY <1>6, <2>1 DEF Release
<1>7. ASSUME NEW m \in Milestones, MilestoneStep(m)
      PROVE  Goal
  <2>1. CASE ApproveMilestone(m) \/ RunReleaseTask(m) \/ RunStaleTask(m)
    BY <1>1, <1>6, <2>1
    DEF ApproveMilestone, RunReleaseTask, RunStaleTask, AutoRelease
  <2> QED
    BY <1>1, <1>7, <2>1
    DEF MilestoneStep, CreateMilestone, FundMilestone, StartWork,
        SubmitDelivery, RequestRevision, ReviewWindowEnds
<1>8. CASE \E u \in Users : SetFrozen(u)
  BY <1>1, <1>8 DEF SetFrozen
<1>9. CASE SelectStaleInvitations
  BY <1>1, <1>9 DEF SelectStaleInvitations
<1>10. CASE UNCHANGED vars
  BY <1>1, <1>10 DEF vars
<1> HIDE DEF Goal
<1> QED
  BY <1>3, <1>4, <1>5, <1>7, <1>8, <1>9, <1>10 DEF Next

-----------------------------------------------------------------------------
(* A fee is settled once *)

\* What FeeSettledOnce needs to be inductive: an earning appears only when an
\* open request is accepted or assigned, and only a held one has money.
FeesFollowEarnings ==
    \A r \in Requests :
        LET l == feeLedger[r] IN
        /\ request[r] \in {"none", "pending"} => earning[r] = "none"
        /\ earning[r] \in {"none", "pending"} =>
             l.hold = 0 /\ l.refund = 0 /\ l.payout = 0
        /\ earning[r] = "held" => l.hold = Fee[r]

FeeInv == TypeOK /\ FeesFollowEarnings /\ FeeSettledOnce

\* The same for one request.
FeeOf(r) ==
    LET l == feeLedger[r] IN
    /\ request[r] \in {"none", "pending"} => earning[r] = "none"
    /\ earning[r] \in {"none", "pending"} =>
         l.hold = 0 /\ l.refund = 0 /\ l.payout = 0
    /\ earning[r] = "held" => l.hold = Fee[r]
    /\ l.hold \in {0, Fee[r]}
    /\ l.refund > 0 => l.refund = l.hold /\ l.payout = 0
    /\ l.payout > 0 => l.payout = Payout[r] /\ l.hold = Fee[r]
    /\ earning[r] = "held" => l.hold > 0 /\ l.refund = 0 /\ l.payout = 0

LEMMA FeeInvByRequest == FeeInv <=> TypeOK /\ \A r \in Requests : FeeOf(r)
BY DEF FeeInv, FeesFollowEarnings, FeeSettledOnce, FeeOf

\* A request that a step does not touch keeps its part of the invariant.
LEMMA QuietRequest ==
    ASSUME NEW r \in Requests, FeeOf(r),
           request'[r] = request[r] \/ request'[r] \notin {"none", "pending"},
           earning'[r] = earning[r], feeLedger'[r] = feeLedger[r]
    PROVE  FeeOf(r)'
BY DEF FeeOf

LEMMA FeeInvInit == Init => FeeInv
<1> SUFFICES ASSUME Init PROVE FeeInv
  OBVIOUS
<1>1. ASSUME NEW r \in Requests
      PROVE  FeeOf(r)
  BY DEF Init, FeeOf
<1> QED
  BY <1>1, InitType, FeeInvByRequest

LEMMA SettledByDeal ==
    ASSUME FeeInv, NEW t \in Deals, NEW paid \in SUBSET HeldOn(t),
           SettleFees(t, paid), UNCHANGED request, NEW r \in Requests
    PROVE  FeeOf(r)'
<1>1. /\ FeeOf(r) /\ feeLedger[r] \in RequestLedger
      /\ Fee[r] \in Nat /\ Payout[r] \in Nat
  BY FeeInvByRequest, MoneyAssumption DEF TypeOK
<1>2. CASE r \in paid
  <2>1. earning[r] = "held" /\ earning'[r] = "paid"
    BY <1>2 DEF SettleFees, HeldOn
  <2>2. feeLedger'[r] = [feeLedger[r] EXCEPT !.payout = @ + Payout[r]]
    BY <1>2 DEF SettleFees
  <2> QED
    BY <1>1, <2>1, <2>2 DEF FeeOf
<1>3. CASE r \in HeldOn(t) \ paid
  <2>1. earning[r] = "held" /\ earning'[r] = "refunded"
    BY <1>3 DEF SettleFees, HeldOn
  <2>2. feeLedger'[r] = [feeLedger[r] EXCEPT !.refund = @ + Fee[r]]
    BY <1>3 DEF SettleFees
  <2> QED
    BY <1>1, <2>1, <2>2 DEF FeeOf
<1>4. CASE r \notin HeldOn(t)
  <2>1. earning'[r] = earning[r] /\ feeLedger'[r] = feeLedger[r]
    BY <1>4 DEF SettleFees
  <2> QED
    BY <1>1, <2>1, QuietRequest
<1> QED
  BY <1>2, <1>3, <1>4

LEMMA SettledByRequest ==
    ASSUME FeeInv, NEW q \in Requests, RequestStep(q), NEW r \in Requests
    PROVE  FeeOf(r)'
<1>1. /\ FeeOf(r) /\ feeLedger[r] \in RequestLedger
      /\ Fee[r] \in Nat /\ Payout[r] \in Nat
  BY FeeInvByRequest, MoneyAssumption DEF TypeOK
<1>2. /\ request \in [Requests -> RequestStatus]
      /\ earning \in [Requests -> EarningStatus]
      /\ feeLedger \in [Requests -> RequestLedger]
  BY DEF FeeInv, TypeOK
<1>3. CASE RequestAgent(q) \/ DeclineRequest(q) \/ CompleteRequest(q)
  <2>1. UNCHANGED <<earning, feeLedger>>
    BY <1>3 DEF RequestAgent, DeclineRequest, CompleteRequest
  <2>2. CASE RequestAgent(q) /\ r = q
    <3>1. earning[r] = "none"
      BY <1>1, <2>2 DEF RequestAgent, FeeOf
    <3> QED
      BY <1>1, <2>1, <3>1 DEF FeeOf
  <2>3. CASE r # q \/ ~RequestAgent(q)
    <3>1. request'[r] = request[r] \/ request'[r] \notin {"none", "pending"}
      BY <1>2, <1>3, <2>3 DEF RequestAgent, DeclineRequest, CompleteRequest
    <3> QED
      BY <1>1, <2>1, <3>1, QuietRequest
  <2> QED
    BY <2>2, <2>3
<1>4. CASE AcceptRequest(q)
  <2>1. request'[r] = request[r] \/ request'[r] \notin {"none", "pending"}
    BY <1>2, <1>4 DEF AcceptRequest
  <2>2. CASE r = q /\ CanHold(q) /\ Hold(q)
    <3>1. earning[r] = "none" /\ Fee[r] > 0
      BY <1>1, <1>4, <2>2 DEF AcceptRequest, FeeOf, CanHold, NeedsHold
    <3>2. /\ earning'[r] = "held" /\ request'[r] = "active"
          /\ feeLedger'[r] = [feeLedger[r] EXCEPT !.hold = @ + Fee[r]]
      BY <1>2, <1>4, <2>2 DEF AcceptRequest, Hold
    <3> QED
      BY <1>1, <3>1, <3>2 DEF FeeOf
  <2>3. CASE r # q \/ UNCHANGED <<earning, feeLedger>>
    <3>1. earning'[r] = earning[r] /\ feeLedger'[r] = feeLedger[r]
      BY <1>2, <1>4, <2>3 DEF AcceptRequest, Hold
    <3> QED
      BY <1>1, <2>1, <3>1, QuietRequest
  <2> QED
    BY <1>4, <2>2, <2>3 DEF AcceptRequest
<1>5. CASE CancelRequest(q)
  <2>1. request'[r] = request[r] \/ request'[r] \notin {"none", "pending"}
    BY <1>2, <1>5 DEF CancelRequest
  <2>2. CASE r = q /\ earning[q] = "held"
    <3>1. /\ earning'[r] = "refunded" /\ request'[r] = "cancelled"
          /\ feeLedger'[r] = [feeLedger[r] EXCEPT !.refund = @ + Fee[r]]
      BY <1>2, <1>5, <2>2 DEF CancelRequest, RefundRequest
    <3> QED
      BY <1>1, <2>2, <3>1 DEF FeeOf
  <2>3. CASE r # q \/ earning[q] # "held"
    <3>1. earning'[r] = earning[r] /\ feeLedger'[r] = feeLedger[r]
      BY <1>2, <1>5, <2>3 DEF CancelRequest, RefundRequest
    <3> QED
      BY <1>1, <2>1, <3>1, QuietRequest
  <2> QED
    BY <2>2, <2>3
<1>6. CASE AssignAgent(q)
  <2>1. feeLedger'[r] = feeLedger[r]
    BY <1>6 DEF AssignAgent
  <2>2. r = q => request'[r] = "active"
    BY <1>2, <1>6 DEF AssignAgent
  <2>3. r # q => request'[r] = request[r]
    BY <1>2, <1>6 DEF AssignAgent
  <2>4. \/ earning'[r] = earning[r]
        \/ r = q /\ earning[r] = "none" /\ earning'[r] = "pending"
    BY <1>2, <1>6 DEF AssignAgent
  <2> QED
    BY <1>1, <2>1, <2>2, <2>3, <2>4 DEF FeeOf
<1>7. CASE AdminPayout(q)
  <2>1. UNCHANGED request
    BY <1>7 DEF AdminPayout
  <2>2. CASE r = q /\ earning[q] = "held"
    <3>1. /\ earning'[r] = "paid" /\ request'[r] = request[r]
          /\ feeLedger'[r] = [feeLedger[r] EXCEPT !.payout = @ + Payout[r]]
      BY <1>2, <1>7, <2>1, <2>2 DEF AdminPayout, PayEarning
    <3> QED
      BY <1>1, <2>2, <3>1 DEF FeeOf
  <2>3. CASE r = q /\ earning[q] # "held"
    <3>1. /\ earning'[r] = "paid" /\ earning[r] # "none"
          /\ feeLedger'[r] = feeLedger[r]
      BY <1>2, <1>7, <2>3 DEF AdminPayout, PayEarning
    <3> QED
      BY <1>1, <2>1, <3>1 DEF FeeOf
  <2>4. CASE r # q
    <3>1. earning'[r] = earning[r] /\ feeLedger'[r] = feeLedger[r]
      BY <1>2, <1>7, <2>4 DEF AdminPayout, PayEarning
    <3> QED
      BY <1>1, <2>1, <3>1, QuietRequest
  <2> QED
    BY <2>2, <2>3, <2>4
<1> QED
  BY <1>3, <1>4, <1>5, <1>6, <1>7 DEF RequestStep

LEMMA FeeInvStep == FeeInv /\ [AgentNext]_vars => FeeInv'
<1> SUFFICES ASSUME FeeInv, [AgentNext]_vars
             PROVE  FeeInv'
  OBVIOUS
<1>1. TypeOK'
  BY AgentStepType DEF FeeInv
<1>2. ASSUME NEW r \in Requests
      PROVE  FeeOf(r)'
  <2>1. FeeOf(r)
    BY FeeInvByRequest
  <2>2. CASE [Next]_vars
    BY <2>1, <2>2, DealStepFees, SettledByDeal, QuietRequest
  <2>3. CASE \E q \in Requests : RequestStep(q)
    BY <2>3, SettledByRequest
  <2> QED
    BY <2>2, <2>3 DEF AgentNext
<1>3. FeeInv' <=> TypeOK' /\ \A r \in Requests : FeeOf(r)'
  BY DEF FeeInv, FeesFollowEarnings, FeeSettledOnce, FeeOf
<1> QED
  BY <1>1, <1>2, <1>3

\* The fee of a request is held once and settled once, for any number of
\* deals, requests and agents: cancellation, expiry, deadline, completion,
\* dispute, withdrawal and the administrator's payout exclude each other.
THEOREM FeesSettledOnce == AgentSpec => []FeeSettledOnce
<1>1. FeeInv => FeeSettledOnce
  BY DEF FeeInv
<1> QED
  BY <1>1, FeeInvInit, FeeInvStep, PTL DEF AgentSpec

-----------------------------------------------------------------------------
(* Who is paid, and what a cancellation gives back *)

LEMMA PaidByDeal ==
    ASSUME TypeOK, [Next]_vars, NEW r \in Requests,
           feeLedger'[r].payout > feeLedger[r].payout
    PROVE  request[r] = "completed" \/ ResolveDispute(RequestDeal[r])
<1>1. feeLedger[r] \in RequestLedger
  BY DEF TypeOK
<1>2. feeLedger'[r] # feeLedger[r]
  BY <1>1
<1>a. PICK t \in Deals : \E paid \in SUBSET HeldOn(t) :
        /\ SettleFees(t, paid)
        /\ paid \subseteq Eligible(t) \/ ResolveDispute(t)
  BY <1>2, DealStepFees
<1>3. PICK paid \in SUBSET HeldOn(t) :
        /\ SettleFees(t, paid)
        /\ paid \subseteq Eligible(t) \/ ResolveDispute(t)
  BY <1>a
<1>4. r \in paid
  <2>1. SUFFICES ASSUME r \notin paid PROVE FALSE
    OBVIOUS
  <2>2. \/ feeLedger'[r] = [feeLedger[r] EXCEPT !.refund = @ + Fee[r]]
        \/ feeLedger'[r] = feeLedger[r]
    BY <1>3, <2>1 DEF SettleFees
  <2>3. feeLedger'[r].payout = feeLedger[r].payout
    BY <1>1, <2>2
  <2> QED
    BY <1>1, <2>3
<1> QED
  BY <1>3, <1>4 DEF HeldOn, Eligible

LEMMA PaidByRequest ==
    ASSUME TypeOK, NEW q \in Requests, RequestStep(q), NEW r \in Requests,
           feeLedger'[r].payout > feeLedger[r].payout
    PROVE  AdminPayout(r)
<1>1. /\ feeLedger \in [Requests -> RequestLedger]
      /\ feeLedger[r] \in RequestLedger
  BY DEF TypeOK
<1>2. feeLedger'[r] # feeLedger[r]
  BY <1>1
<1>3. CASE AcceptRequest(q)
  <2>1. \/ feeLedger'[r] = feeLedger[r]
        \/ feeLedger'[r] = [feeLedger[r] EXCEPT !.hold = @ + Fee[r]]
    BY <1>1, <1>3 DEF AcceptRequest, Hold
  <2> QED
    BY <1>1, <1>2, <2>1
<1>4. CASE CancelRequest(q)
  <2>1. \/ feeLedger'[r] = feeLedger[r]
        \/ feeLedger'[r] = [feeLedger[r] EXCEPT !.refund = @ + Fee[r]]
    BY <1>1, <1>4 DEF CancelRequest, RefundRequest
  <2> QED
    BY <1>1, <1>2, <2>1
<1>5. CASE AdminPayout(q)
  <2>1. q = r
    BY <1>1, <1>2, <1>5 DEF AdminPayout, PayEarning
  <2> QED
    BY <1>5, <2>1
<1> QED
  BY <1>2, <1>3, <1>4, <1>5
  DEF RequestStep, RequestAgent, DeclineRequest, CompleteRequest, AssignAgent,
      moneyVars, feeVars

\* Nobody is paid for having accepted a request: whoever is paid has completed
\* it, or an administrator decided so.
THEOREM NobodyPaidPassively == AgentSpec => NoPassivePayout
<1>1. ASSUME TypeOK, [AgentNext]_vars, NEW r \in Requests,
             feeLedger'[r].payout > feeLedger[r].payout
      PROVE  \/ request[r] = "completed"
             \/ AdminPayout(r)
             \/ ResolveDispute(RequestDeal[r])
  BY <1>1, PaidByDeal, PaidByRequest DEF AgentNext
<1>2. TypeOK /\ [AgentNext]_vars =>
        [\A r \in Requests :
           feeLedger'[r].payout > feeLedger[r].payout =>
              \/ request[r] = "completed"
              \/ AdminPayout(r)
              \/ ResolveDispute(RequestDeal[r])]_vars
  BY <1>1
<1> QED
  BY <1>2, InitType, AgentStepType, PTL DEF AgentSpec, NoPassivePayout

\* After all held fees of a deal went back, none is held.
LEMMA RefundedNoneHeld ==
    ASSUME NEW t \in Deals, RefundHeldFees(t)
    PROVE  HeldOn(t)' = {}
BY DEF RefundHeldFees, SettleFees, HeldOn

LEMMA CancelledByDeal ==
    ASSUME TypeOK, [Next]_vars, NEW t \in Deals,
           status[t] # "cancelled", status'[t] = "cancelled"
    PROVE  HeldOn(t)' = {} \/ t \in feeRefundDue' \/ DeclineDeal(t)
<1> DEFINE Goal == HeldOn(t)' = {} \/ t \in feeRefundDue' \/ DeclineDeal(t)
<1>1. status \in [Deals -> DealStatus]
  BY DEF TypeOK
<1>2. status' # status
  OBVIOUS
<1>3. ASSUME NEW d \in Deals, InvitationStep(d)
      PROVE  Goal
  <2>1. CASE CreateDeal(d) \/ AcceptDeal(d)
    BY <1>1, <2>1 DEF CreateDeal, AcceptDeal
  <2>2. CASE DeclineDeal(d)
    <3>1. d = t
      BY <1>1, <2>2 DEF DeclineDeal
    <3> QED
      BY <2>2, <3>1
  <2>3. CASE CancelDeal(d) \/ ExpireInvitation(d)
    <3>1. d = t /\ RefundHeldFees(d)
      BY <1>1, <2>3 DEF CancelDeal, ExpireInvitation
    <3> QED
      BY <3>1, RefundedNoneHeld
  <2> QED
    BY <1>3, <2>1, <2>2, <2>3 DEF InvitationStep
<1>4. ASSUME NEW d \in Deals, DeadlineStep(d)
      PROVE  Goal
  <2>1. CASE CancelUnfundedDeal(d)
    BY <1>1, <2>1 DEF CancelUnfundedDeal
  <2> QED
    BY <1>2, <1>4, <2>1
    DEF DeadlineStep, DeadlinePasses, EnforceOnAccess, EnforceTask,
        EnforceDeadline, RefundPartialLocks, RefundFeesAfterDeadline,
        CrashAfterCancel, dealVars
<1>5. ASSUME NEW d \in Deals, DisputeStep(d)
      PROVE  FALSE
  BY <1>1, <1>5 DEF DisputeStep, OpenDispute, ResolveDispute
<1>6. ASSUME NEW m \in Milestones, MilestoneStep(m)
      PROVE  FALSE
  <2>1. CASE Release(m)
    BY <1>1, <2>1 DEF Release
  <2>2. ASSUME NEW pay, FundMilestone(m, pay)
        PROVE  FALSE
    BY <1>1, <2>2 DEF FundMilestone
  <2>3. ASSUME NEW ok, SubmitDelivery(m, ok)
        PROVE  FALSE
    BY <1>1, <2>3 DEF SubmitDelivery
  <2> QED
    BY <1>2, <1>6, <2>1, <2>2, <2>3
    DEF MilestoneStep, CreateMilestone, StartWork, ApproveMilestone,
        RequestRevision, ReviewWindowEnds, RunReleaseTask, RunStaleTask,
        AutoRelease, dealVars
<1> QED
  BY <1>2, <1>3, <1>4, <1>5, <1>6
  DEF Next, SetFrozen, SelectStaleInvitations, vars, dealVars

\* No cancellation but a party's refusal forgets the agents' fees.
THEOREM CancellationRefunds == AgentSpec => CancelRefundsFees
<1>1. ASSUME NEW q \in Requests, RequestStep(q)
      PROVE  UNCHANGED status
  BY <1>1
  DEF RequestStep, RequestAgent, AcceptRequest, DeclineRequest, CancelRequest,
      CompleteRequest, AssignAgent, AdminPayout, dealVars
<1>2. TypeOK /\ [AgentNext]_vars =>
        [\A t \in Deals :
           status[t] # "cancelled" /\ status'[t] = "cancelled" =>
              \/ HeldOn(t)' = {}
              \/ t \in feeRefundDue'
              \/ DeclineDeal(t)]_vars
  BY <1>1, CancelledByDeal DEF AgentNext
<1> QED
  BY <1>2, InitType, AgentStepType, PTL DEF AgentSpec, CancelRefundsFees

-----------------------------------------------------------------------------
(* The available balances are what the ledger says *)

\* Sums over the ledger are natural numbers.
LEMMA BookedNat ==
    ASSUME TypeOK, NEW ms \in SUBSET Milestones
    PROVE  /\ Booked("fund", ms) \in Nat
           /\ Booked("refund", ms) \in Nat
           /\ Booked("release", ms) \in Nat
<1>1. IsFiniteSet(ms)
  BY RowsAssumption, FS_Subset
<1>2. \A m \in ms : ledger[m] \in MilestoneLedger
  BY DEF TypeOK
<1>3. \A m \in ms : /\ [n \in Milestones |-> ledger[n]["fund"]][m] \in Nat
                    /\ [n \in Milestones |-> ledger[n]["refund"]][m] \in Nat
                    /\ [n \in Milestones |-> ledger[n]["release"]][m] \in Nat
  BY <1>2 DEF MilestoneLedger
<1> QED
  BY <1>1, <1>3, TotalNat DEF Booked

LEMMA FeeBookedNat ==
    ASSUME TypeOK, NEW rs \in SUBSET Requests
    PROVE  /\ FeeBooked("hold", rs) \in Nat
           /\ FeeBooked("refund", rs) \in Nat
           /\ FeeBooked("payout", rs) \in Nat
<1>1. IsFiniteSet(rs)
  BY RowsAssumption, FS_Subset
<1>2. \A r \in rs : feeLedger[r] \in RequestLedger
  BY DEF TypeOK
<1>3. \A r \in rs : /\ [q \in Requests |-> feeLedger[q]["hold"]][r] \in Nat
                    /\ [q \in Requests |-> feeLedger[q]["refund"]][r] \in Nat
                    /\ [q \in Requests |-> feeLedger[q]["payout"]][r] \in Nat
  BY <1>2
<1> QED
  BY <1>1, <1>3, TotalNat DEF FeeBooked

\* The entries of one kind are raised for the milestones of T, by h.
LEMMA BookedRaised ==
    ASSUME NEW kind, NEW ms \in SUBSET Milestones, NEW T \in SUBSET ms,
           \A m \in ms : ledger[m][kind] \in Nat,
           NEW h, \A m \in T : h[m] \in Nat,
           \A m \in ms :
             ledger'[m][kind] = IF m \in T THEN ledger[m][kind] + h[m]
                                ELSE ledger[m][kind]
    PROVE  Booked(kind, ms)' = Booked(kind, ms) + Total(h, T)
<1> DEFINE old == [m \in Milestones |-> ledger[m][kind]]
           new == [m \in Milestones |-> ledger'[m][kind]]
<1>1. IsFiniteSet(ms)
  BY RowsAssumption, FS_Subset
<1>2. /\ \A m \in ms : old[m] \in Nat
      /\ \A m \in ms : new[m] = IF m \in T THEN old[m] + h[m] ELSE old[m]
  OBVIOUS
<1>3. Booked(kind, ms) = Total(old, ms) /\ Booked(kind, ms)' = Total(new, ms)
  BY DEF Booked
<1> HIDE DEF old, new
<1>4. Total(new, ms) = Total(old, ms) + Total(h, T)
  BY <1>1, <1>2, TotalRaise
<1> QED
  BY <1>3, <1>4

LEMMA FeeBookedRaised ==
    ASSUME NEW kind, NEW rs \in SUBSET Requests, NEW T \in SUBSET rs,
           \A r \in rs : feeLedger[r][kind] \in Nat,
           NEW h, \A r \in T : h[r] \in Nat,
           \A r \in rs :
             feeLedger'[r][kind] = IF r \in T THEN feeLedger[r][kind] + h[r]
                                   ELSE feeLedger[r][kind]
    PROVE  FeeBooked(kind, rs)' = FeeBooked(kind, rs) + Total(h, T)
<1> DEFINE old == [r \in Requests |-> feeLedger[r][kind]]
           new == [r \in Requests |-> feeLedger'[r][kind]]
<1>1. IsFiniteSet(rs)
  BY RowsAssumption, FS_Subset
<1>2. /\ \A r \in rs : old[r] \in Nat
      /\ \A r \in rs : new[r] = IF r \in T THEN old[r] + h[r] ELSE old[r]
  OBVIOUS
<1>3. FeeBooked(kind, rs) = Total(old, rs) /\ FeeBooked(kind, rs)' = Total(new, rs)
  BY DEF FeeBooked
<1> HIDE DEF old, new
<1>4. Total(new, rs) = Total(old, rs) + Total(h, T)
  BY <1>1, <1>2, TotalRaise
<1> QED
  BY <1>3, <1>4

\* The same for one row, which may be among those that are summed up.
LEMMA BookedOnce ==
    ASSUME NEW kind, \A n \in Milestones : ledger[n][kind] \in Nat,
           NEW m \in Milestones, NEW pay \in Nat,
           \A n \in Milestones :
             ledger'[n][kind] = IF n = m THEN ledger[n][kind] + pay
                                ELSE ledger[n][kind],
           NEW ms \in SUBSET Milestones
    PROVE  Booked(kind, ms)' = Booked(kind, ms) + (IF m \in ms THEN pay ELSE 0)
<1> DEFINE h == [n \in Milestones |-> pay]
           T == {n \in ms : n = m}
<1>1. /\ T \in SUBSET ms
      /\ \A n \in ms : ledger[n][kind] \in Nat
      /\ \A n \in T : h[n] \in Nat
      /\ \A n \in ms :
           ledger'[n][kind] = IF n \in T THEN ledger[n][kind] + h[n]
                              ELSE ledger[n][kind]
  OBVIOUS
<1>2. Total(h, T) = IF m \in ms THEN pay ELSE 0
  <2>1. CASE m \in ms
    <3>1. T = {m} /\ h[m] = pay
      BY <2>1
    <3> QED
      BY <2>1, <3>1, TotalSingle
  <2>2. CASE m \notin ms
    <3>1. \A n \in T : h[n] = 0
      BY <2>2
    <3> HIDE DEF T, h
    <3> QED
      BY <2>2, <3>1, TotalZero
  <2> QED
    BY <2>1, <2>2
<1> HIDE DEF T, h
<1>3. Booked(kind, ms)' = Booked(kind, ms) + Total(h, T)
  BY <1>1, BookedRaised
<1> QED
  BY <1>2, <1>3

LEMMA FeeBookedOnce ==
    ASSUME NEW kind, \A q \in Requests : feeLedger[q][kind] \in Nat,
           NEW r \in Requests, NEW pay \in Nat,
           \A q \in Requests :
             feeLedger'[q][kind] = IF q = r THEN feeLedger[q][kind] + pay
                                   ELSE feeLedger[q][kind],
           NEW rs \in SUBSET Requests
    PROVE  FeeBooked(kind, rs)' = FeeBooked(kind, rs) + (IF r \in rs THEN pay ELSE 0)
<1> DEFINE h == [q \in Requests |-> pay]
           T == {q \in rs : q = r}
<1>1. /\ T \in SUBSET rs
      /\ \A q \in rs : feeLedger[q][kind] \in Nat
      /\ \A q \in T : h[q] \in Nat
      /\ \A q \in rs :
           feeLedger'[q][kind] = IF q \in T THEN feeLedger[q][kind] + h[q]
                                 ELSE feeLedger[q][kind]
  OBVIOUS
<1>2. Total(h, T) = IF r \in rs THEN pay ELSE 0
  <2>1. CASE r \in rs
    <3>1. T = {r} /\ h[r] = pay
      BY <2>1
    <3> QED
      BY <2>1, <3>1, TotalSingle
  <2>2. CASE r \notin rs
    <3>1. \A q \in T : h[q] = 0
      BY <2>2
    <3> HIDE DEF T, h
    <3> QED
      BY <2>2, <3>1, TotalZero
  <2> QED
    BY <2>1, <2>2
<1> HIDE DEF T, h
<1>3. FeeBooked(kind, rs)' = FeeBooked(kind, rs) + Total(h, T)
  BY <1>1, FeeBookedRaised
<1> QED
  BY <1>2, <1>3

\* The rows over which a user's entries are summed up never change.
LEMMA UserRows ==
    ASSUME NEW u
    PROVE  /\ BoughtBy(u) \in SUBSET Milestones
           /\ SoldBy(u) \in SUBSET Milestones
           /\ HiredBy(u) \in SUBSET Requests
           /\ WorkOf(u) \in SUBSET Requests
BY DEF BoughtBy, SoldBy, HiredBy, WorkOf

\* What the entries of a user say about its balance.
BooksOf(u) ==
    Balance[u]
      - Booked("fund", BoughtBy(u)) + Booked("refund", BoughtBy(u))
      + Booked("release", SoldBy(u))
      - FeeBooked("hold", HiredBy(u)) + FeeBooked("refund", HiredBy(u))
      + FeeBooked("payout", WorkOf(u))

LEMMA AvailableByUser ==
    AvailableMatchesLedger <=> \A u \in Users : available[u] = BooksOf(u)
BY DEF AvailableMatchesLedger, BooksOf

LEMMA UserTypes ==
    ASSUME TypeOK, NEW u \in Users
    PROVE  /\ available[u] \in Nat /\ Balance[u] \in Nat
           /\ Booked("fund", BoughtBy(u)) \in Nat
           /\ Booked("refund", BoughtBy(u)) \in Nat
           /\ Booked("release", SoldBy(u)) \in Nat
           /\ FeeBooked("hold", HiredBy(u)) \in Nat
           /\ FeeBooked("refund", HiredBy(u)) \in Nat
           /\ FeeBooked("payout", WorkOf(u)) \in Nat
<1>1. available[u] \in Nat /\ Balance[u] \in Nat
  BY MoneyAssumption DEF TypeOK
<1> QED
  BY <1>1, UserRows, BookedNat, FeeBookedNat

\* A settlement of the fees held on a deal credits every user with what it
\* books for the user: the agents' shares, and the buyer's refunds.
LEMMA SettleBooks ==
    ASSUME TypeOK, NEW t \in Deals, NEW paid \in SUBSET HeldOn(t),
           SettleFees(t, paid), NEW u \in Users
    PROVE  /\ FeeBooked("hold", HiredBy(u))' = FeeBooked("hold", HiredBy(u))
           /\ FeeBooked("refund", HiredBy(u))' + FeeBooked("payout", WorkOf(u))'
                = FeeBooked("refund", HiredBy(u)) + FeeBooked("payout", WorkOf(u))
                    + FeeCredit(u, t, paid)
           /\ FeeBooked("refund", HiredBy(u))' \in Nat
           /\ FeeBooked("payout", WorkOf(u))' \in Nat
           /\ FeeCredit(u, t, paid) \in Nat
<1> DEFINE back == HeldOn(t) \ paid
           mine == {r \in paid : AgentOf[r] = u}
           due == IF u = Buyer[t] THEN back ELSE {}
<1>1. /\ paid \in SUBSET Requests /\ back \in SUBSET Requests
      /\ \A r \in HeldOn(t) : RequestDeal[r] = t
  BY DEF HeldOn
<1>2. ASSUME NEW r \in Requests
      PROVE  /\ feeLedger[r].hold \in Nat
             /\ feeLedger[r].refund \in Nat
             /\ feeLedger[r].payout \in Nat
             /\ feeLedger'[r].hold = feeLedger[r].hold
             /\ feeLedger'[r].refund = IF r \in back THEN feeLedger[r].refund + Fee[r]
                                       ELSE feeLedger[r].refund
             /\ feeLedger'[r].payout = IF r \in paid THEN feeLedger[r].payout + Payout[r]
                                       ELSE feeLedger[r].payout
  <2>1. feeLedger[r] \in RequestLedger
    BY DEF TypeOK
  <2>2. feeLedger'[r] = IF r \in paid
                        THEN [feeLedger[r] EXCEPT !.payout = @ + Payout[r]]
                        ELSE IF r \in HeldOn(t)
                        THEN [feeLedger[r] EXCEPT !.refund = @ + Fee[r]]
                        ELSE feeLedger[r]
    BY DEF SettleFees
  <2>3. Fee[r] \in Nat /\ Payout[r] \in Nat
    BY MoneyAssumption
  <2> QED
    BY <2>1, <2>2, <2>3
<1>3. FeeBooked("hold", HiredBy(u))' = FeeBooked("hold", HiredBy(u))
  <2>1. [r \in Requests |-> feeLedger'[r]["hold"]] = [r \in Requests |-> feeLedger[r]["hold"]]
    BY <1>2
  <2> QED
    BY <2>1 DEF FeeBooked
<1>4. FeeBooked("payout", WorkOf(u))' = FeeBooked("payout", WorkOf(u)) + Total(Payout, mine)
  <2>1. /\ WorkOf(u) \in SUBSET Requests /\ mine \in SUBSET WorkOf(u)
        /\ \A r \in WorkOf(u) : r \in mine <=> r \in paid
    BY <1>1 DEF WorkOf
  <2>2. /\ \A r \in WorkOf(u) : feeLedger[r]["payout"] \in Nat
        /\ \A r \in mine : Payout[r] \in Nat
        /\ \A r \in WorkOf(u) :
             feeLedger'[r]["payout"] = IF r \in mine THEN feeLedger[r]["payout"] + Payout[r]
                                       ELSE feeLedger[r]["payout"]
    BY <1>2, <2>1, MoneyAssumption
  <2> HIDE DEF mine
  <2> QED
    BY <2>1, <2>2, FeeBookedRaised
<1>5. FeeBooked("refund", HiredBy(u))' = FeeBooked("refund", HiredBy(u)) + Total(Fee, due)
  <2>1. /\ HiredBy(u) \in SUBSET Requests /\ due \in SUBSET HiredBy(u)
        /\ \A r \in HiredBy(u) : r \in due <=> r \in back
    BY <1>1 DEF HiredBy
  <2>2. /\ \A r \in HiredBy(u) : feeLedger[r]["refund"] \in Nat
        /\ \A r \in due : Fee[r] \in Nat
        /\ \A r \in HiredBy(u) :
             feeLedger'[r]["refund"] = IF r \in due THEN feeLedger[r]["refund"] + Fee[r]
                                       ELSE feeLedger[r]["refund"]
    BY <1>2, <2>1, MoneyAssumption
  <2> HIDE DEF due, back
  <2> QED
    BY <2>1, <2>2, FeeBookedRaised
<1>6. FeeCredit(u, t, paid) = Total(Payout, mine) + Total(Fee, due)
  <2>1. u # Buyer[t] => Total(Fee, due) = 0
    BY TotalZero
  <2> QED
    BY <2>1 DEF FeeCredit
<1>7. Total(Payout, mine) \in Nat /\ Total(Fee, due) \in Nat
  <2>1. IsFiniteSet(mine) /\ IsFiniteSet(due)
    BY <1>1, RowsAssumption, FS_Subset
  <2>2. (\A r \in mine : Payout[r] \in Nat) /\ (\A r \in due : Fee[r] \in Nat)
    BY <1>1, MoneyAssumption
  <2> HIDE DEF mine, due
  <2> QED
    BY <2>1, <2>2, TotalNat
<1>8. /\ FeeBooked("refund", HiredBy(u)) \in Nat
      /\ FeeBooked("payout", WorkOf(u)) \in Nat
  BY UserTypes
<1> HIDE DEF mine, due
<1> QED
  BY <1>3, <1>4, <1>5, <1>6, <1>7, <1>8

\* A step that credits the users by what it books for them.
LEMMA QuietAvailable ==
    ASSUME AvailableMatchesLedger, UNCHANGED <<available, ledger, feeLedger>>
    PROVE  AvailableMatchesLedger'
BY DEF AvailableMatchesLedger, Booked, FeeBooked, BoughtBy, SoldBy, HiredBy, WorkOf

LEMMA SettleAvailable ==
    ASSUME TypeOK, AvailableMatchesLedger,
           NEW t \in Deals, NEW paid \in SUBSET HeldOn(t), SettleFees(t, paid),
           available' = [u \in Users |-> available[u] + FeeCredit(u, t, paid)],
           UNCHANGED ledger
    PROVE  AvailableMatchesLedger'
<1>1. ASSUME NEW u \in Users
      PROVE  available'[u] = BooksOf(u)'
  <2>1. available[u] = BooksOf(u) /\ available'[u] = available[u] + FeeCredit(u, t, paid)
    BY AvailableByUser
  <2>2. /\ Booked("fund", BoughtBy(u))' = Booked("fund", BoughtBy(u))
        /\ Booked("refund", BoughtBy(u))' = Booked("refund", BoughtBy(u))
        /\ Booked("release", SoldBy(u))' = Booked("release", SoldBy(u))
    BY DEF Booked, BoughtBy, SoldBy
  <2>3. /\ FeeBooked("hold", HiredBy(u))' = FeeBooked("hold", HiredBy(u))
        /\ FeeBooked("refund", HiredBy(u))' + FeeBooked("payout", WorkOf(u))'
             = FeeBooked("refund", HiredBy(u)) + FeeBooked("payout", WorkOf(u))
                 + FeeCredit(u, t, paid)
        /\ FeeBooked("refund", HiredBy(u))' \in Nat
        /\ FeeBooked("payout", WorkOf(u))' \in Nat
        /\ FeeCredit(u, t, paid) \in Nat
    BY SettleBooks
  <2> QED
    BY <2>1, <2>2, <2>3, UserTypes DEF BooksOf
<1> QED
  BY <1>1 DEF AvailableMatchesLedger, BooksOf, BoughtBy, SoldBy, HiredBy, WorkOf

\* A buyer locks money for a milestone.
LEMMA FundAvailable ==
    ASSUME TypeOK, AvailableMatchesLedger,
           NEW m \in Milestones, NEW pay \in Nat, FundMilestone(m, pay)
    PROVE  AvailableMatchesLedger'
<1> DEFINE b == Buyer[DealOf[m]]
<1>1. /\ b \in Users
      /\ available' = [available EXCEPT ![b] = @ - pay]
      /\ UNCHANGED feeLedger
  BY RowsAssumption, PartiesAssumption DEF FundMilestone, feeVars
<1>2. ASSUME NEW n \in Milestones
      PROVE  /\ ledger[n].fund \in Nat
             /\ ledger'[n].fund = IF n = m THEN ledger[n].fund + pay ELSE ledger[n].fund
             /\ ledger'[n].refund = ledger[n].refund
             /\ ledger'[n].release = ledger[n].release
  <2>1. ledger' = [ledger EXCEPT ![m].fund = @ + pay]
    BY DEF FundMilestone
  <2>2. ledger \in [Milestones -> MilestoneLedger]
    BY DEF TypeOK
  <2> QED
    BY <2>1, <2>2 DEF MilestoneLedger
<1>3. ASSUME NEW u \in Users
      PROVE  available'[u] = BooksOf(u)'
  <2>1. available[u] = BooksOf(u)
    BY AvailableByUser
  <2>2. /\ Booked("refund", BoughtBy(u))' = Booked("refund", BoughtBy(u))
        /\ Booked("release", SoldBy(u))' = Booked("release", SoldBy(u))
    BY <1>2, UserRows, TotalSame DEF Booked, BoughtBy, SoldBy
  <2>3. /\ FeeBooked("hold", HiredBy(u))' = FeeBooked("hold", HiredBy(u))
        /\ FeeBooked("refund", HiredBy(u))' = FeeBooked("refund", HiredBy(u))
        /\ FeeBooked("payout", WorkOf(u))' = FeeBooked("payout", WorkOf(u))
    BY <1>1 DEF FeeBooked, HiredBy, WorkOf
  <2>4. Booked("fund", BoughtBy(u))'
          = Booked("fund", BoughtBy(u)) + (IF m \in BoughtBy(u) THEN pay ELSE 0)
    <3>1. /\ BoughtBy(u) \in SUBSET Milestones
          /\ \A n \in Milestones : ledger[n]["fund"] \in Nat
          /\ \A n \in Milestones :
               ledger'[n]["fund"] = IF n = m THEN ledger[n]["fund"] + pay
                                    ELSE ledger[n]["fund"]
      BY <1>2, UserRows
    <3> QED
      BY <3>1, BookedOnce
  <2>5. m \in BoughtBy(u) <=> u = b
    BY DEF BoughtBy
  <2>6. available'[u] = IF u = b THEN available[u] - pay ELSE available[u]
    BY <1>1 DEF TypeOK
  <2> HIDE DEF b
  <2> QED
    BY <2>1, <2>2, <2>3, <2>4, <2>5, <2>6, UserTypes DEF BooksOf
<1> QED
  BY <1>3 DEF AvailableMatchesLedger, BooksOf, BoughtBy, SoldBy, HiredBy, WorkOf

\* Milestones of one deal give their locks back to its buyer.
LEMMA RefundAvailable ==
    ASSUME TypeOK, AvailableMatchesLedger, NEW t \in Deals,
           NEW ms \in SUBSET MilestonesOf(t), RefundMilestones(t, ms),
           UNCHANGED feeLedger
    PROVE  AvailableMatchesLedger'
<1> DEFINE b == Buyer[t]
<1>1. /\ b \in Users
      /\ available' = [available EXCEPT ![b] = @ + Total(funded, ms)]
  BY PartiesAssumption DEF RefundMilestones
<1>2. /\ \A n \in ms : n \in Milestones /\ DealOf[n] = t /\ funded[n] \in Nat
      /\ IsFiniteSet(ms)
  BY RowsAssumption, FS_Subset DEF MilestonesOf, TypeOK
<1>3. ASSUME NEW n \in Milestones
      PROVE  /\ ledger[n].refund \in Nat
             /\ ledger'[n].refund = IF n \in ms THEN ledger[n].refund + funded[n]
                                    ELSE ledger[n].refund
             /\ ledger'[n].fund = ledger[n].fund
             /\ ledger'[n].release = ledger[n].release
  <2>1. ledger'[n] = IF n \in ms THEN [ledger[n] EXCEPT !.refund = @ + funded[n]]
                     ELSE ledger[n]
    BY DEF RefundMilestones
  <2>2. ledger[n] \in MilestoneLedger
    BY DEF TypeOK
  <2> QED
    BY <2>1, <2>2 DEF MilestoneLedger
<1>4. Total(funded, ms) \in Nat
  BY <1>2, TotalNat
<1>5. ASSUME NEW u \in Users
      PROVE  available'[u] = BooksOf(u)'
  <2> DEFINE mine == IF u = b THEN ms ELSE {}
  <2>1. available[u] = BooksOf(u)
    BY AvailableByUser
  <2>2. /\ Booked("fund", BoughtBy(u))' = Booked("fund", BoughtBy(u))
        /\ Booked("release", SoldBy(u))' = Booked("release", SoldBy(u))
    BY <1>3, UserRows, TotalSame DEF Booked, BoughtBy, SoldBy
  <2>3. /\ FeeBooked("hold", HiredBy(u))' = FeeBooked("hold", HiredBy(u))
        /\ FeeBooked("refund", HiredBy(u))' = FeeBooked("refund", HiredBy(u))
        /\ FeeBooked("payout", WorkOf(u))' = FeeBooked("payout", WorkOf(u))
    BY DEF FeeBooked, HiredBy, WorkOf
  <2>4. Booked("refund", BoughtBy(u))' = Booked("refund", BoughtBy(u)) + Total(funded, mine)
    <3>1. /\ BoughtBy(u) \in SUBSET Milestones /\ mine \in SUBSET BoughtBy(u)
          /\ \A n \in BoughtBy(u) : n \in mine <=> n \in ms
      BY <1>2 DEF BoughtBy
    <3>2. /\ \A n \in BoughtBy(u) : ledger[n]["refund"] \in Nat
          /\ \A n \in mine : funded[n] \in Nat
          /\ \A n \in BoughtBy(u) :
               ledger'[n]["refund"] = IF n \in mine THEN ledger[n]["refund"] + funded[n]
                                      ELSE ledger[n]["refund"]
      BY <1>2, <1>3, <3>1
    <3> HIDE DEF mine
    <3> QED
      BY <3>1, <3>2, BookedRaised
  <2>5. Total(funded, mine) = IF u = b THEN Total(funded, ms) ELSE 0
    BY TotalZero
  <2>6. available'[u] = IF u = b THEN available[u] + Total(funded, ms) ELSE available[u]
    BY <1>1 DEF TypeOK
  <2> HIDE DEF b, mine
  <2> QED
    BY <1>4, <2>1, <2>2, <2>3, <2>4, <2>5, <2>6, UserTypes DEF BooksOf
<1> QED
  BY <1>5 DEF AvailableMatchesLedger, BooksOf, BoughtBy, SoldBy, HiredBy, WorkOf

\* A milestone is paid out; the last one settles the fees of its deal.
LEMMA ReleaseAvailable ==
    ASSUME TypeOK, AvailableMatchesLedger, NEW m \in Milestones, Release(m)
    PROVE  AvailableMatchesLedger'
<1> DEFINE t == DealOf[m]
           s == Seller[t]
           pay == ReleaseAmount(m)
           fees(u) == IF CompletesDeal(m) THEN FeeCredit(u, t, Eligible(t)) ELSE 0
<1>1. t \in Deals /\ s \in Users /\ Eligible(t) \in SUBSET HeldOn(t)
  BY RowsAssumption, PartiesAssumption DEF Eligible
<1>2. pay \in Nat
  BY DEF TypeOK, ReleaseAmount
<1>3. available' = [u \in Users |->
                     available[u] + fees(u) + (IF u = s THEN pay ELSE 0)]
  BY DEF Release
<1>4. ASSUME NEW n \in Milestones
      PROVE  /\ ledger[n].release \in Nat
             /\ ledger'[n].release = IF n = m THEN ledger[n].release + pay
                                     ELSE ledger[n].release
             /\ ledger'[n].fund = ledger[n].fund
             /\ ledger'[n].refund = ledger[n].refund
  <2>1. ledger' = [ledger EXCEPT ![m].release = @ + pay]
    BY DEF Release
  <2>2. ledger \in [Milestones -> MilestoneLedger]
    BY DEF TypeOK
  <2> HIDE DEF pay
  <2> QED
    BY <2>1, <2>2 DEF MilestoneLedger
<1>5. ASSUME NEW u \in Users
      PROVE  /\ FeeBooked("hold", HiredBy(u))' = FeeBooked("hold", HiredBy(u))
             /\ FeeBooked("refund", HiredBy(u))' + FeeBooked("payout", WorkOf(u))'
                  = FeeBooked("refund", HiredBy(u)) + FeeBooked("payout", WorkOf(u))
                      + fees(u)
             /\ FeeBooked("refund", HiredBy(u))' \in Nat
             /\ FeeBooked("payout", WorkOf(u))' \in Nat
             /\ fees(u) \in Nat
  <2>1. CASE CompletesDeal(m)
    BY <1>1, <2>1, SettleBooks DEF Release
  <2>2. CASE ~CompletesDeal(m)
    <3>1. UNCHANGED feeLedger /\ fees(u) = 0
      BY <2>2 DEF Release
    <3>2. /\ FeeBooked("hold", HiredBy(u))' = FeeBooked("hold", HiredBy(u))
          /\ FeeBooked("refund", HiredBy(u))' = FeeBooked("refund", HiredBy(u))
          /\ FeeBooked("payout", WorkOf(u))' = FeeBooked("payout", WorkOf(u))
      BY <3>1 DEF FeeBooked, HiredBy, WorkOf
    <3> HIDE DEF fees
    <3> QED
      BY <3>1, <3>2, UserTypes
  <2> QED
    BY <2>1, <2>2
<1>6. ASSUME NEW u \in Users
      PROVE  available'[u] = BooksOf(u)'
  <2>1. available[u] = BooksOf(u)
    BY AvailableByUser
  <2>2. /\ Booked("fund", BoughtBy(u))' = Booked("fund", BoughtBy(u))
        /\ Booked("refund", BoughtBy(u))' = Booked("refund", BoughtBy(u))
    BY <1>4, UserRows, TotalSame DEF Booked, BoughtBy, SoldBy
  <2>3. Booked("release", SoldBy(u))'
          = Booked("release", SoldBy(u)) + (IF m \in SoldBy(u) THEN pay ELSE 0)
    <3> HIDE DEF pay
    <3> QED
      BY <1>2, <1>4, UserRows, BookedOnce
  <2>4. m \in SoldBy(u) <=> u = s
    BY DEF SoldBy
  <2>5. available'[u] = available[u] + fees(u) + (IF u = s THEN pay ELSE 0)
    BY <1>3
  <2> HIDE DEF s, pay, fees
  <2> QED
    BY <1>2, <1>5, <2>1, <2>2, <2>3, <2>4, <2>5, UserTypes DEF BooksOf
<1> QED
  BY <1>6 DEF AvailableMatchesLedger, BooksOf, BoughtBy, SoldBy, HiredBy, WorkOf

\* The five ways in which the steps of the workflow touch balances and books.
LEMMA DealStepBooks ==
    ASSUME [Next]_vars
    PROVE  \/ UNCHANGED <<available, ledger, feeLedger>>
           \/ \E t \in Deals : \E paid \in SUBSET HeldOn(t) :
                 /\ SettleFees(t, paid)
                 /\ available' = [u \in Users |-> available[u] + FeeCredit(u, t, paid)]
                 /\ UNCHANGED ledger
           \/ \E t \in Deals : /\ RefundMilestones(t, PartlyFunded(t))
                               /\ UNCHANGED feeLedger
           \/ \E m \in Milestones : \E pay \in Nat : FundMilestone(m, pay)
           \/ \E m \in Milestones : Release(m)
<1> DEFINE Settles(t) ==
             \E paid \in SUBSET HeldOn(t) :
               /\ SettleFees(t, paid)
               /\ available' = [u \in Users |-> available[u] + FeeCredit(u, t, paid)]
               /\ UNCHANGED ledger
           Refunds(t) == RefundMilestones(t, PartlyFunded(t)) /\ UNCHANGED feeLedger
           Funds(m) == \E pay \in Nat : FundMilestone(m, pay)
           Quiet == UNCHANGED <<available, ledger, feeLedger>>
<1>1. ASSUME NEW t \in Deals, RefundHeldFees(t), UNCHANGED ledger
      PROVE  Settles(t)
  BY <1>1 DEF RefundHeldFees
<1>2. ASSUME NEW t \in Deals, ResolveDispute(t)
      PROVE  Settles(t)
  <2>1. PICK paid \in {{}, HeldOn(t), Eligible(t)} :
          /\ available' = [u \in Users |-> available[u] + FeeCredit(u, t, paid)]
          /\ SettleFees(t, paid)
    BY <1>2 DEF ResolveDispute
  <2>2. paid \in SUBSET HeldOn(t)
    BY DEF Eligible
  <2> QED
    BY <1>2, <2>1, <2>2 DEF ResolveDispute
<1> HIDE DEF Settles
<1>3. ASSUME NEW t \in Deals, InvitationStep(t)
      PROVE  Quiet \/ Settles(t)
  BY <1>1, <1>3
  DEF InvitationStep, CreateDeal, AcceptDeal, DeclineDeal, CancelDeal,
      ExpireInvitation, moneyVars, feeVars
<1>4. ASSUME NEW t \in Deals, DeadlineStep(t)
      PROVE  Quiet \/ Settles(t) \/ Refunds(t)
  BY <1>1, <1>4
  DEF DeadlineStep, DeadlinePasses, EnforceOnAccess, EnforceTask, EnforceDeadline,
      CancelUnfundedDeal, RefundPartialLocks, RefundFeesAfterDeadline,
      CrashAfterCancel, moneyVars, feeVars
<1>5. ASSUME NEW t \in Deals, DisputeStep(t)
      PROVE  Quiet \/ Settles(t)
  BY <1>2, <1>5 DEF DisputeStep, OpenDispute, moneyVars, feeVars
<1>6. ASSUME NEW m \in Milestones, MilestoneStep(m)
      PROVE  Quiet \/ Funds(m) \/ Release(m)
  <2>1. CASE \E pay \in 1 .. amount[m] : FundMilestone(m, pay)
    <3>1. PICK pay \in 1 .. amount[m] : FundMilestone(m, pay)
      BY <2>1
    <3>2. pay \in Nat
      OBVIOUS
    <3> QED
      BY <3>1, <3>2
  <2> QED
    BY <1>6, <2>1
    DEF MilestoneStep, CreateMilestone, StartWork, SubmitDelivery, ApproveMilestone,
        RequestRevision, ReviewWindowEnds, RunReleaseTask, RunStaleTask, AutoRelease,
        moneyVars, feeVars
<1>7. CASE (\E u \in Users : SetFrozen(u)) \/ SelectStaleInvitations \/ UNCHANGED vars
  BY <1>7 DEF SetFrozen, SelectStaleInvitations, vars, moneyVars, feeVars
<1>8. \/ Quiet
      \/ \E t \in Deals : Settles(t)
      \/ \E t \in Deals : Refunds(t)
      \/ \E m \in Milestones : Funds(m)
      \/ \E m \in Milestones : Release(m)
  <2> HIDE DEF Quiet, Refunds, Funds
  <2>1. CASE \E t \in Deals : InvitationStep(t) \/ DeadlineStep(t) \/ DisputeStep(t)
    BY <1>3, <1>4, <1>5, <2>1
  <2>2. CASE \E m \in Milestones : MilestoneStep(m)
    BY <1>6, <2>2
  <2>3. CASE ~Next \/ (\E u \in Users : SetFrozen(u)) \/ SelectStaleInvitations
    BY <1>7, <2>3 DEF Quiet, vars, moneyVars, feeVars, SetFrozen, SelectStaleInvitations
  <2> QED
    BY <2>1, <2>2, <2>3 DEF Next
<1> QED
  BY <1>8 DEF Settles

LEMMA DealStepAvailable ==
    TypeOK /\ AvailableMatchesLedger /\ [Next]_vars => AvailableMatchesLedger'
<1> SUFFICES ASSUME TypeOK, AvailableMatchesLedger, [Next]_vars
             PROVE  AvailableMatchesLedger'
  OBVIOUS
<1>1. CASE \E t \in Deals : \E paid \in SUBSET HeldOn(t) :
             /\ SettleFees(t, paid)
             /\ available' = [u \in Users |-> available[u] + FeeCredit(u, t, paid)]
             /\ UNCHANGED ledger
  BY <1>1, SettleAvailable
<1>2. ASSUME NEW t \in Deals, RefundMilestones(t, PartlyFunded(t)), UNCHANGED feeLedger
      PROVE  AvailableMatchesLedger'
  <2>1. PartlyFunded(t) \in SUBSET MilestonesOf(t)
    BY DEF PartlyFunded, Present
  <2> QED
    BY <1>2, <2>1, RefundAvailable
<1> QED
  BY <1>1, <1>2, DealStepBooks, QuietAvailable, FundAvailable, ReleaseAvailable

-----------------------------------------------------------------------------
(* The same under edits by hand *)

LEMMA EditType == TypeOK /\ EditStep => TypeOK'
<1> SUFFICES ASSUME TypeOK, EditStep PROVE TypeOK'
  OBVIOUS
<1>1. ASSUME NEW t \in Deals, NEW s \in DealStatus \ {"none"},
             UpdateTransaction(t, s) \/ ForceStatus(t, s)
      PROVE  TypeOK'
  <2>1. UpdateTransaction(t, s)
    BY <1>1 DEF ForceStatus
  <2> QED
    BY <2>1 DEF UpdateTransaction, TypeOK, msVars, moneyVars, feeVars, taskVars
<1>2. ASSUME NEW m \in Milestones, NEW s \in MilestoneStatus \ {"absent"},
             NEW a \in Amounts \cup {amount[m]}, UpdateMilestone(m, s, a)
      PROVE  TypeOK'
  <2>1. a \in Nat /\ DealOf[m] \in Deals
    BY MoneyAssumption, RowsAssumption DEF TypeOK
  <2> QED
    BY <1>2, <2>1 DEF UpdateMilestone, TypeOK, moneyVars, feeVars, taskVars
<1> QED
  BY <1>1, <1>2 DEF EditStep

LEMMA EditKeepsMoney ==
    ASSUME EditStep
    PROVE  UNCHANGED <<moneyVars, feeVars, funded, isFunded, fundedMs>>
BY DEF EditStep, UpdateTransaction, ForceStatus, UpdateMilestone, msVars

LEMMA InitAvailable == Init => AvailableMatchesLedger
<1> SUFFICES ASSUME Init, NEW u \in Users
             PROVE  available[u] = BooksOf(u)
  BY AvailableByUser
<1>1. /\ Booked("fund", BoughtBy(u)) = 0
      /\ Booked("refund", BoughtBy(u)) = 0
      /\ Booked("release", SoldBy(u)) = 0
  BY UserRows, TotalZero DEF Init, Booked
<1>2. /\ FeeBooked("hold", HiredBy(u)) = 0
      /\ FeeBooked("refund", HiredBy(u)) = 0
      /\ FeeBooked("payout", WorkOf(u)) = 0
  BY UserRows, TotalZero DEF Init, FeeBooked
<1> QED
  BY <1>1, <1>2, MoneyAssumption DEF Init, BooksOf

\* Whatever statuses and prices the parties and the administrator set by hand,
\* the available balance of every user is the sum of the user's ledger entries
\* and never negative, for any number of users, deals, milestones and edits.
THEOREM BalancesMatchLedger == EditsSpec => []AvailableMatchesLedger
<1>1. EditsInit => TypeOK /\ AvailableMatchesLedger
  BY InitType, InitAvailable DEF EditsInit
<1>2. TypeOK /\ AvailableMatchesLedger /\ [EditsNext]_editVars
        => TypeOK' /\ AvailableMatchesLedger'
  <2> SUFFICES ASSUME TypeOK, AvailableMatchesLedger, [EditsNext]_editVars
               PROVE  TypeOK' /\ AvailableMatchesLedger'
    OBVIOUS
  <2>1. CASE [Next]_vars
    BY <2>1, StepType, DealStepAvailable
  <2>2. CASE EditStep
    BY <2>2, EditType, EditKeepsMoney, QuietAvailable DEF moneyVars, feeVars
  <2> QED
    BY <2>1, <2>2 DEF EditsNext, editVars
<1> QED
  BY <1>1, <1>2, PTL DEF EditsSpec

LEMMA EditKeepsRows ==
    ASSUME TypeOK, EditStep
    PROVE  KeepsRows
<1>1. ASSUME NEW t \in Deals, NEW s \in DealStatus \ {"none"},
             UpdateTransaction(t, s) \/ ForceStatus(t, s)
      PROVE  KeepsRows
  BY <1>1 DEF ForceStatus, UpdateTransaction, KeepsRows, DealsStay, TypeOK, msVars
<1>2. ASSUME NEW m \in Milestones, NEW s \in MilestoneStatus \ {"absent"}, NEW a,
             UpdateMilestone(m, s, a)
      PROVE  KeepsRows
  BY <1>2 DEF UpdateMilestone, KeepsRows, DealsStay, TypeOK
<1> QED
  BY <1>1, <1>2 DEF EditStep

\* funded_milestones counts the rows marked as funded, whatever statuses and
\* prices were set by hand before, between and after the payments.
THEOREM FundedCounterSurvivesEdits == EditsSpec => []FundedCounterAgrees
<1> DEFINE Inv == TypeOK /\ RowsExist /\ FundedCount
<1>1. EditsInit => Inv
  BY InitType, InitCount DEF EditsInit
<1>2. Inv /\ [EditsNext]_editVars => Inv'
  <2> SUFFICES ASSUME Inv, [EditsNext]_editVars
               PROVE  Inv'
    OBVIOUS
  <2>1. CASE [Next]_vars
    BY <2>1, StepType, StepCount
  <2>2. CASE EditStep
    <3>1. KeepsRows /\ UNCHANGED <<isFunded, fundedMs>>
      BY <2>2, EditKeepsRows, EditKeepsMoney
    <3> QED
      BY <2>2, <3>1, EditType, QuietCount
  <2> QED
    BY <2>1, <2>2 DEF EditsNext, editVars
<1>3. Inv => FundedCounterAgrees
  BY DEF FundedCount, FundedCounterAgrees
<1> QED
  BY <1>1, <1>2, <1>3, PTL DEF EditsSpec

-----------------------------------------------------------------------------
(* The same with agent requests *)

\* A fee is held, goes back, or is paid out: one entry of one request.
LEMMA RequestStepBooks ==
    ASSUME TypeOK, NEW r \in Requests, RequestStep(r), NEW u \in Users
    PROVE  \E hold, back, out \in Nat :
             /\ FeeBooked("hold", HiredBy(u))' = FeeBooked("hold", HiredBy(u)) + hold
             /\ FeeBooked("refund", HiredBy(u))' = FeeBooked("refund", HiredBy(u)) + back
             /\ FeeBooked("payout", WorkOf(u))' = FeeBooked("payout", WorkOf(u)) + out
             /\ available'[u] = available[u] - hold + back + out
             /\ UNCHANGED ledger
<1> DEFINE b == Buyer[RequestDeal[r]]
           a == AgentOf[r]
           Moves(hold, back, out) ==
             /\ FeeBooked("hold", HiredBy(u))' = FeeBooked("hold", HiredBy(u)) + hold
             /\ FeeBooked("refund", HiredBy(u))' = FeeBooked("refund", HiredBy(u)) + back
             /\ FeeBooked("payout", WorkOf(u))' = FeeBooked("payout", WorkOf(u)) + out
             /\ available'[u] = available[u] - hold + back + out
             /\ UNCHANGED ledger
           Raised(kind, n) ==
             /\ \A q \in Requests :
                  feeLedger'[q][kind] = IF q = r THEN feeLedger[q][kind] + n
                                        ELSE feeLedger[q][kind]
           Same(kind) == \A q \in Requests : feeLedger'[q][kind] = feeLedger[q][kind]
<1>1. /\ b \in Users /\ a \in Users
      /\ Fee[r] \in Nat /\ Payout[r] \in Nat
      /\ r \in HiredBy(u) <=> u = b
      /\ r \in WorkOf(u) <=> u = a
  BY RowsAssumption, PartiesAssumption, MoneyAssumption DEF HiredBy, WorkOf
<1>2. \A q \in Requests : /\ feeLedger[q]["hold"] \in Nat
                          /\ feeLedger[q]["refund"] \in Nat
                          /\ feeLedger[q]["payout"] \in Nat
  <2>1. \A q \in Requests : feeLedger[q] \in RequestLedger
    BY DEF TypeOK
  <2> QED
    BY <2>1
<1>3. /\ feeLedger \in [Requests -> RequestLedger] /\ available \in [Users -> Nat]
  BY DEF TypeOK
<1>4. ASSUME NEW kind, Same(kind), NEW rs \in SUBSET Requests
      PROVE  FeeBooked(kind, rs)' = FeeBooked(kind, rs)
  BY <1>4, TotalSame DEF FeeBooked
<1>5. /\ HiredBy(u) \in SUBSET Requests /\ WorkOf(u) \in SUBSET Requests
      /\ FeeBooked("hold", HiredBy(u)) \in Nat
      /\ FeeBooked("refund", HiredBy(u)) \in Nat
      /\ FeeBooked("payout", WorkOf(u)) \in Nat
      /\ available[u] \in Nat
  BY UserRows, UserTypes
<1>6. ASSUME UNCHANGED <<available, feeLedger, ledger>>
      PROVE  Moves(0, 0, 0)
  BY <1>5, <1>6 DEF FeeBooked, HiredBy, WorkOf
<1>7. ASSUME Hold(r), UNCHANGED ledger
      PROVE  Moves(IF u = b THEN Fee[r] ELSE 0, 0, 0)
  <2>1. Raised("hold", Fee[r]) /\ Same("refund") /\ Same("payout")
    BY <1>3, <1>7 DEF Hold
  <2>2. FeeBooked("hold", HiredBy(u))'
          = FeeBooked("hold", HiredBy(u)) + (IF r \in HiredBy(u) THEN Fee[r] ELSE 0)
    <3>1. /\ \A q \in Requests : feeLedger[q]["hold"] \in Nat
          /\ \A q \in Requests :
               feeLedger'[q]["hold"] = IF q = r THEN feeLedger[q]["hold"] + Fee[r]
                                     ELSE feeLedger[q]["hold"]
      BY <1>2, <2>1
    <3>2. HiredBy(u) \in SUBSET Requests /\ Fee[r] \in Nat
      BY <1>1, <1>5
    <3> HIDE DEF b, a, Moves, Raised, Same
    <3>3. ASSUME NEW rs \in SUBSET Requests
          PROVE  FeeBooked("hold", rs)'
                   = FeeBooked("hold", rs) + (IF r \in rs THEN Fee[r] ELSE 0)
      BY <3>1, <3>2, FeeBookedOnce
    <3> QED
      BY <3>2, <3>3
  <2>3. /\ FeeBooked("refund", HiredBy(u))' = FeeBooked("refund", HiredBy(u))
        /\ FeeBooked("payout", WorkOf(u))' = FeeBooked("payout", WorkOf(u))
    BY <1>4, <1>5, <2>1
  <2>4. available'[u] = IF u = b THEN available[u] - Fee[r] ELSE available[u]
    BY <1>3, <1>7 DEF Hold
  <2> HIDE DEF b, Raised, Same
  <2> QED
    BY <1>1, <1>5, <1>7, <2>2, <2>3, <2>4
<1>8. ASSUME available' = [available EXCEPT ![b] = @ + Fee[r]],
             feeLedger' = [feeLedger EXCEPT ![r].refund = @ + Fee[r]],
             UNCHANGED ledger
      PROVE  Moves(0, IF u = b THEN Fee[r] ELSE 0, 0)
  <2>1. Raised("refund", Fee[r]) /\ Same("hold") /\ Same("payout")
    BY <1>3, <1>8
  <2>2. FeeBooked("refund", HiredBy(u))'
          = FeeBooked("refund", HiredBy(u)) + (IF r \in HiredBy(u) THEN Fee[r] ELSE 0)
    <3>1. /\ \A q \in Requests : feeLedger[q]["refund"] \in Nat
          /\ \A q \in Requests :
               feeLedger'[q]["refund"] = IF q = r THEN feeLedger[q]["refund"] + Fee[r]
                                     ELSE feeLedger[q]["refund"]
      BY <1>2, <2>1
    <3>2. HiredBy(u) \in SUBSET Requests /\ Fee[r] \in Nat
      BY <1>1, <1>5
    <3> HIDE DEF b, a, Moves, Raised, Same
    <3>3. ASSUME NEW rs \in SUBSET Requests
          PROVE  FeeBooked("refund", rs)'
                   = FeeBooked("refund", rs) + (IF r \in rs THEN Fee[r] ELSE 0)
      BY <3>1, <3>2, FeeBookedOnce
    <3> QED
      BY <3>2, <3>3
  <2>3. /\ FeeBooked("hold", HiredBy(u))' = FeeBooked("hold", HiredBy(u))
        /\ FeeBooked("payout", WorkOf(u))' = FeeBooked("payout", WorkOf(u))
    BY <1>4, <1>5, <2>1
  <2>4. available'[u] = IF u = b THEN available[u] + Fee[r] ELSE available[u]
    BY <1>3, <1>8
  <2> HIDE DEF b, Raised, Same
  <2> QED
    BY <1>1, <1>5, <1>8, <2>2, <2>3, <2>4
<1>9. ASSUME available' = [available EXCEPT ![a] = @ + Payout[r]],
             feeLedger' = [feeLedger EXCEPT ![r].payout = @ + Payout[r]],
             UNCHANGED ledger
      PROVE  Moves(0, 0, IF u = a THEN Payout[r] ELSE 0)
  <2>1. Raised("payout", Payout[r]) /\ Same("hold") /\ Same("refund")
    BY <1>3, <1>9
  <2>2. FeeBooked("payout", WorkOf(u))'
          = FeeBooked("payout", WorkOf(u)) + (IF r \in WorkOf(u) THEN Payout[r] ELSE 0)
    <3>1. /\ \A q \in Requests : feeLedger[q]["payout"] \in Nat
          /\ \A q \in Requests :
               feeLedger'[q]["payout"] = IF q = r THEN feeLedger[q]["payout"] + Payout[r]
                                     ELSE feeLedger[q]["payout"]
      BY <1>2, <2>1
    <3>2. WorkOf(u) \in SUBSET Requests /\ Payout[r] \in Nat
      BY <1>1, <1>5
    <3> HIDE DEF b, a, Moves, Raised, Same
    <3>3. ASSUME NEW rs \in SUBSET Requests
          PROVE  FeeBooked("payout", rs)'
                   = FeeBooked("payout", rs) + (IF r \in rs THEN Payout[r] ELSE 0)
      BY <3>1, <3>2, FeeBookedOnce
    <3> QED
      BY <3>2, <3>3
  <2>3. /\ FeeBooked("hold", HiredBy(u))' = FeeBooked("hold", HiredBy(u))
        /\ FeeBooked("refund", HiredBy(u))' = FeeBooked("refund", HiredBy(u))
    BY <1>4, <1>5, <2>1
  <2>4. available'[u] = IF u = a THEN available[u] + Payout[r] ELSE available[u]
    BY <1>3, <1>9
  <2> HIDE DEF a, Raised, Same
  <2> QED
    BY <1>1, <1>5, <1>9, <2>2, <2>3, <2>4
<1> HIDE DEF Moves
<1>10. \E hold, back, out \in Nat : Moves(hold, back, out)
  <2>1. CASE AcceptRequest(r)
    BY <1>1, <1>6, <1>7, <2>1 DEF AcceptRequest
  <2>2. CASE CancelRequest(r)
    BY <1>1, <1>6, <1>8, <2>2 DEF CancelRequest, RefundRequest
  <2>3. CASE AdminPayout(r)
    BY <1>1, <1>6, <1>9, <2>3 DEF AdminPayout, PayEarning
  <2>4. CASE UNCHANGED <<available, feeLedger, ledger>>
    BY <1>6, <2>4
  <2> QED
    BY <2>1, <2>2, <2>3, <2>4
    DEF RequestStep, RequestAgent, DeclineRequest, CompleteRequest, AssignAgent, moneyVars
<1> QED
  BY <1>10 DEF Moves

LEMMA RequestAvailable ==
    ASSUME TypeOK, AvailableMatchesLedger, NEW r \in Requests, RequestStep(r)
    PROVE  AvailableMatchesLedger'
<1>1. ASSUME NEW u \in Users
      PROVE  available'[u] = BooksOf(u)'
  <2>1. PICK hold, back, out \in Nat :
          /\ FeeBooked("hold", HiredBy(u))' = FeeBooked("hold", HiredBy(u)) + hold
          /\ FeeBooked("refund", HiredBy(u))' = FeeBooked("refund", HiredBy(u)) + back
          /\ FeeBooked("payout", WorkOf(u))' = FeeBooked("payout", WorkOf(u)) + out
          /\ available'[u] = available[u] - hold + back + out
          /\ UNCHANGED ledger
    BY RequestStepBooks
  <2>2. /\ Booked("fund", BoughtBy(u))' = Booked("fund", BoughtBy(u))
        /\ Booked("refund", BoughtBy(u))' = Booked("refund", BoughtBy(u))
        /\ Booked("release", SoldBy(u))' = Booked("release", SoldBy(u))
    BY <2>1 DEF Booked, BoughtBy, SoldBy
  <2>3. available[u] = BooksOf(u)
    BY AvailableByUser
  <2>4. /\ available[u] \in Nat /\ Balance[u] \in Nat
        /\ Booked("fund", BoughtBy(u)) \in Nat
        /\ Booked("refund", BoughtBy(u)) \in Nat
        /\ Booked("release", SoldBy(u)) \in Nat
        /\ FeeBooked("hold", HiredBy(u)) \in Nat
        /\ FeeBooked("refund", HiredBy(u)) \in Nat
        /\ FeeBooked("payout", WorkOf(u)) \in Nat
    BY UserTypes
  <2>5. /\ FeeBooked("hold", HiredBy(u))' = FeeBooked("hold", HiredBy(u)) + hold
        /\ FeeBooked("refund", HiredBy(u))' = FeeBooked("refund", HiredBy(u)) + back
        /\ FeeBooked("payout", WorkOf(u))' = FeeBooked("payout", WorkOf(u)) + out
        /\ available'[u] = available[u] - hold + back + out
        /\ hold \in Nat /\ back \in Nat /\ out \in Nat
    BY <2>1
  <2> QED
    BY <2>2, <2>3, <2>4, <2>5 DEF BooksOf
<1> QED
  BY <1>1 DEF AvailableMatchesLedger, BooksOf, BoughtBy, SoldBy, HiredBy, WorkOf

-----------------------------------------------------------------------------
(* Money is conserved *)

\* Every ledger entry of a milestone belongs to one buyer and one seller, so
\* that the users' sums add up to the sum over the milestones.
LEMMA UsersBooks ==
    ASSUME TypeOK
    PROVE  /\ Total([u \in Users |-> Booked("fund", BoughtBy(u))], Users)
                = Booked("fund", Milestones)
           /\ Total([u \in Users |-> Booked("refund", BoughtBy(u))], Users)
                = Booked("refund", Milestones)
           /\ Total([u \in Users |-> Booked("release", SoldBy(u))], Users)
                = Booked("release", Milestones)
<1> DEFINE buyer == [m \in Milestones |-> Buyer[DealOf[m]]]
           seller == [m \in Milestones |-> Seller[DealOf[m]]]
<1>1. \A m \in Milestones : /\ buyer[m] \in Users
                            /\ seller[m] \in Users
  BY RowsAssumption, PartiesAssumption
<1>2. \A m \in Milestones : /\ ledger[m]["fund"] \in Nat
                            /\ ledger[m]["refund"] \in Nat
                            /\ ledger[m]["release"] \in Nat
  <2>1. \A m \in Milestones : ledger[m] \in MilestoneLedger
    BY DEF TypeOK
  <2> QED
    BY <2>1 DEF MilestoneLedger
<1>3. \A u : /\ {m \in Milestones : buyer[m] = u} = BoughtBy(u)
             /\ {m \in Milestones : seller[m] = u} = SoldBy(u)
  BY DEF BoughtBy, SoldBy
<1> HIDE DEF buyer, seller
<1>4. Total([u \in Users |-> Booked("fund", BoughtBy(u))], Users)
        = Booked("fund", Milestones)
  <2> DEFINE f == [m \in Milestones |-> ledger[m]["fund"]]
             F == [u \in Users |-> Booked("fund", BoughtBy(u))]
  <2>1. SumsBy(F, f, buyer, Milestones, Users)
    <3>1. ASSUME NEW u \in Users
          PROVE  F[u] = Total(f, {m \in Milestones : buyer[m] = u})
      BY <1>3 DEF Booked
    <3> QED
      BY <1>1, <1>2, <3>1, RowsAssumption DEF SumsBy
  <2> HIDE DEF f, F
  <2>2. Total(F, Users) = Total(f, Milestones)
    BY <2>1, TotalPartition
  <2> QED
    BY <2>2 DEF f, F, Booked
<1>5. Total([u \in Users |-> Booked("refund", BoughtBy(u))], Users)
        = Booked("refund", Milestones)
  <2> DEFINE f == [m \in Milestones |-> ledger[m]["refund"]]
             F == [u \in Users |-> Booked("refund", BoughtBy(u))]
  <2>1. SumsBy(F, f, buyer, Milestones, Users)
    <3>1. ASSUME NEW u \in Users
          PROVE  F[u] = Total(f, {m \in Milestones : buyer[m] = u})
      BY <1>3 DEF Booked
    <3> QED
      BY <1>1, <1>2, <3>1, RowsAssumption DEF SumsBy
  <2> HIDE DEF f, F
  <2>2. Total(F, Users) = Total(f, Milestones)
    BY <2>1, TotalPartition
  <2> QED
    BY <2>2 DEF f, F, Booked
<1>6. Total([u \in Users |-> Booked("release", SoldBy(u))], Users)
        = Booked("release", Milestones)
  <2> DEFINE f == [m \in Milestones |-> ledger[m]["release"]]
             F == [u \in Users |-> Booked("release", SoldBy(u))]
  <2>1. SumsBy(F, f, seller, Milestones, Users)
    <3>1. ASSUME NEW u \in Users
          PROVE  F[u] = Total(f, {m \in Milestones : seller[m] = u})
      BY <1>3 DEF Booked
    <3> QED
      BY <1>1, <1>2, <3>1, RowsAssumption DEF SumsBy
  <2> HIDE DEF f, F
  <2>2. Total(F, Users) = Total(f, Milestones)
    BY <2>1, TotalPartition
  <2> QED
    BY <2>2 DEF f, F, Booked
<1> QED
  BY <1>4, <1>5, <1>6

\* The same for the entries of the fees: each has one buyer and one agent.
LEMMA UsersFeeBooks ==
    ASSUME TypeOK
    PROVE  /\ Total([u \in Users |-> FeeBooked("hold", HiredBy(u))], Users)
                = FeeBooked("hold", Requests)
           /\ Total([u \in Users |-> FeeBooked("refund", HiredBy(u))], Users)
                = FeeBooked("refund", Requests)
           /\ Total([u \in Users |-> FeeBooked("payout", WorkOf(u))], Users)
                = FeeBooked("payout", Requests)
<1> DEFINE buyer == [r \in Requests |-> Buyer[RequestDeal[r]]]
<1>1. \A r \in Requests : /\ buyer[r] \in Users
                          /\ AgentOf[r] \in Users
  BY RowsAssumption, PartiesAssumption
<1>2. \A r \in Requests : /\ feeLedger[r]["hold"] \in Nat
                          /\ feeLedger[r]["refund"] \in Nat
                          /\ feeLedger[r]["payout"] \in Nat
  <2>1. \A r \in Requests : feeLedger[r] \in RequestLedger
    BY DEF TypeOK
  <2> QED
    BY <2>1 DEF RequestLedger
<1>3. \A u : /\ {r \in Requests : buyer[r] = u} = HiredBy(u)
             /\ {r \in Requests : AgentOf[r] = u} = WorkOf(u)
  BY DEF HiredBy, WorkOf
<1> HIDE DEF buyer
<1>4. Total([u \in Users |-> FeeBooked("hold", HiredBy(u))], Users)
        = FeeBooked("hold", Requests)
  <2> DEFINE f == [r \in Requests |-> feeLedger[r]["hold"]]
             F == [u \in Users |-> FeeBooked("hold", HiredBy(u))]
  <2>1. SumsBy(F, f, buyer, Requests, Users)
    <3>1. ASSUME NEW u \in Users
          PROVE  F[u] = Total(f, {r \in Requests : buyer[r] = u})
      BY <1>3 DEF FeeBooked
    <3> QED
      BY <1>1, <1>2, <3>1, RowsAssumption DEF SumsBy
  <2> HIDE DEF f, F
  <2>2. Total(F, Users) = Total(f, Requests)
    BY <2>1, TotalPartition
  <2> QED
    BY <2>2 DEF f, F, FeeBooked
<1>5. Total([u \in Users |-> FeeBooked("refund", HiredBy(u))], Users)
        = FeeBooked("refund", Requests)
  <2> DEFINE f == [r \in Requests |-> feeLedger[r]["refund"]]
             F == [u \in Users |-> FeeBooked("refund", HiredBy(u))]
  <2>1. SumsBy(F, f, buyer, Requests, Users)
    <3>1. ASSUME NEW u \in Users
          PROVE  F[u] = Total(f, {r \in Requests : buyer[r] = u})
      BY <1>3 DEF FeeBooked
    <3> QED
      BY <1>1, <1>2, <3>1, RowsAssumption DEF SumsBy
  <2> HIDE DEF f, F
  <2>2. Total(F, Users) = Total(f, Requests)
    BY <2>1, TotalPartition
  <2> QED
    BY <2>2 DEF f, F, FeeBooked
<1>6. Total([u \in Users |-> FeeBooked("payout", WorkOf(u))], Users)
        = FeeBooked("payout", Requests)
  <2> DEFINE f == [r \in Requests |-> feeLedger[r]["payout"]]
             F == [u \in Users |-> FeeBooked("payout", WorkOf(u))]
  <2>1. SumsBy(F, f, AgentOf, Requests, Users)
    <3>1. ASSUME NEW u \in Users
          PROVE  F[u] = Total(f, {r \in Requests : AgentOf[r] = u})
      BY <1>3 DEF FeeBooked
    <3> QED
      BY <1>1, <1>2, <3>1, RowsAssumption DEF SumsBy
  <2> HIDE DEF f, F
  <2>2. Total(F, Users) = Total(f, Requests)
    BY <2>1, TotalPartition
  <2> QED
    BY <2>2 DEF f, F, FeeBooked
<1> QED
  BY <1>4, <1>5, <1>6

\* What the users have in escrow is what their milestones hold.
LEMMA UsersEscrow ==
    ASSUME TypeOK, EscrowBacked
    PROVE  Total(escrow, Users) = Total(Locked, Milestones)
<1> DEFINE buyer == [m \in Milestones |-> Buyer[DealOf[m]]]
<1>1. \A m \in Milestones : buyer[m] \in Users /\ Locked[m] \in Nat
  BY RowsAssumption, PartiesAssumption, RowType
<1>2. ASSUME NEW u \in Users
      PROVE  escrow[u] = Total(Locked, {m \in Milestones : buyer[m] = u})
  <2>1. {m \in Milestones : buyer[m] = u} = BoughtBy(u)
    BY DEF BoughtBy
  <2> QED
    BY <2>1 DEF EscrowBacked
<1> HIDE DEF buyer
<1>3. SumsBy(escrow, Locked, buyer, Milestones, Users)
  BY <1>1, <1>2, RowsAssumption DEF SumsBy
<1> QED
  BY <1>3, TotalPartition

\* What was locked for all milestones went back, was paid out or is held.
LEMMA MilestonesBooks ==
    ASSUME TypeOK, LedgerBalanced
    PROVE  Booked("fund", Milestones)
             = Booked("refund", Milestones) + Booked("release", Milestones)
                 + Total(Locked, Milestones)
<1> DEFINE f == [m \in Milestones |-> ledger[m]["fund"]]
           b == [m \in Milestones |-> ledger[m]["refund"]]
           p == [m \in Milestones |-> ledger[m]["release"]]
           z == [m \in Milestones |-> 0]
<1>1. \A m \in Milestones : /\ f[m] \in Nat /\ z[m] \in Nat /\ b[m] \in Nat
                            /\ p[m] \in Nat /\ Locked[m] \in Nat
                            /\ f[m] + z[m] = b[m] + p[m] + Locked[m]
  <2> SUFFICES ASSUME NEW m \in Milestones
               PROVE  /\ f[m] \in Nat /\ z[m] \in Nat /\ b[m] \in Nat
                      /\ p[m] \in Nat /\ Locked[m] \in Nat
                      /\ f[m] + z[m] = b[m] + p[m] + Locked[m]
    OBVIOUS
  <2>1. /\ f[m] = ledger[m].fund /\ z[m] = 0
        /\ b[m] = ledger[m].refund /\ p[m] = ledger[m].release
    OBVIOUS
  <2>2. ledger[m].fund = ledger[m].refund + ledger[m].release + Locked[m]
    BY DEF LedgerBalanced
  <2> HIDE DEF f, z, b, p
  <2> QED
    BY <2>1, <2>2, RowType
<1>2. Total(z, Milestones) = 0
  BY TotalZero
<1> HIDE DEF f, b, p, z
<1>3. /\ Total(f, Milestones) + Total(z, Milestones)
           = Total(b, Milestones) + Total(p, Milestones) + Total(Locked, Milestones)
      /\ Total(f, Milestones) \in Nat
  BY <1>1, RowsAssumption, TotalBalance
<1> QED
  BY <1>2, <1>3 DEF f, b, p, Booked


\* The users' balances add up to what they brought, moved by the entries.
LEMMA UsersAvailable ==
    ASSUME TypeOK, AvailableMatchesLedger
    PROVE  /\ Total(available, Users)
                + Booked("fund", Milestones) + FeeBooked("hold", Requests)
              = Total(Balance, Users)
                + Booked("refund", Milestones) + Booked("release", Milestones)
                + FeeBooked("refund", Requests) + FeeBooked("payout", Requests)
           /\ Total(available, Users) \in Nat
           /\ Total(Balance, Users) \in Nat
<1> DEFINE fund == [u \in Users |-> Booked("fund", BoughtBy(u))]
           back == [u \in Users |-> Booked("refund", BoughtBy(u))]
           sold == [u \in Users |-> Booked("release", SoldBy(u))]
           hold == [u \in Users |-> FeeBooked("hold", HiredBy(u))]
           feeBack == [u \in Users |-> FeeBooked("refund", HiredBy(u))]
           work == [u \in Users |-> FeeBooked("payout", WorkOf(u))]
           had == [u \in Users |-> Balance[u] + back[u]]
           fees == [u \in Users |-> feeBack[u] + work[u]]
           spent == [u \in Users |-> fund[u] + hold[u]]
<1>1. ASSUME NEW u \in Users
      PROVE  /\ available[u] \in Nat /\ Balance[u] \in Nat /\ fund[u] \in Nat
             /\ back[u] \in Nat /\ sold[u] \in Nat /\ hold[u] \in Nat
             /\ feeBack[u] \in Nat /\ work[u] \in Nat
             /\ available[u] = Balance[u] - fund[u] + back[u] + sold[u]
                                 - hold[u] + feeBack[u] + work[u]
  BY AvailableByUser, UserTypes DEF BooksOf
<1> HIDE DEF fund, back, sold, hold, feeBack, work
<1>2. ASSUME NEW u \in Users
      PROVE  /\ had[u] = Balance[u] + back[u] /\ had[u] \in Nat
             /\ fees[u] = feeBack[u] + work[u] /\ fees[u] \in Nat
             /\ spent[u] = fund[u] + hold[u] /\ spent[u] \in Nat
  BY <1>1
<1> HIDE DEF had, fees, spent
<1>3. Total(had, Users) = Total(Balance, Users) + Total(back, Users)
      /\ Total(Balance, Users) \in Nat /\ Total(back, Users) \in Nat
  <2>1. /\ \A u \in Users : Balance[u] \in Nat
        /\ \A u \in Users : back[u] \in Nat
        /\ \A u \in Users : had[u] = Balance[u] + back[u]
    BY <1>1, <1>2
  <2> QED
    BY <2>1, RowsAssumption, TotalAdd
<1>4. Total(fees, Users) = Total(feeBack, Users) + Total(work, Users)
      /\ Total(feeBack, Users) \in Nat /\ Total(work, Users) \in Nat
  <2>1. /\ \A u \in Users : feeBack[u] \in Nat
        /\ \A u \in Users : work[u] \in Nat
        /\ \A u \in Users : fees[u] = feeBack[u] + work[u]
    BY <1>1, <1>2
  <2> QED
    BY <2>1, RowsAssumption, TotalAdd
<1>5. Total(spent, Users) = Total(fund, Users) + Total(hold, Users)
      /\ Total(fund, Users) \in Nat /\ Total(hold, Users) \in Nat
  <2>1. /\ \A u \in Users : fund[u] \in Nat
        /\ \A u \in Users : hold[u] \in Nat
        /\ \A u \in Users : spent[u] = fund[u] + hold[u]
    BY <1>1, <1>2
  <2> QED
    BY <2>1, RowsAssumption, TotalAdd
<1>6. \A u \in Users : /\ available[u] \in Nat /\ spent[u] \in Nat /\ had[u] \in Nat
                       /\ sold[u] \in Nat /\ fees[u] \in Nat
                       /\ available[u] + spent[u] = had[u] + sold[u] + fees[u]
  BY <1>1, <1>2
<1>7. /\ Total(available, Users) + Total(spent, Users)
           = Total(had, Users) + Total(sold, Users) + Total(fees, Users)
      /\ Total(available, Users) \in Nat /\ Total(sold, Users) \in Nat
  BY <1>6, RowsAssumption, TotalBalance
<1>8. /\ Total(fund, Users) = Booked("fund", Milestones)
      /\ Total(back, Users) = Booked("refund", Milestones)
      /\ Total(sold, Users) = Booked("release", Milestones)
      /\ Total(hold, Users) = FeeBooked("hold", Requests)
      /\ Total(feeBack, Users) = FeeBooked("refund", Requests)
      /\ Total(work, Users) = FeeBooked("payout", Requests)
  BY UsersBooks, UsersFeeBooks DEF fund, back, sold, hold, feeBack, work
<1> QED
  BY <1>3, <1>4, <1>5, <1>7, <1>8

\* The books of the milestones and of the users leave no unit over.
LEMMA BooksConserve ==
    ASSUME EscrowInv, AvailableMatchesLedger
    PROVE  MoneyConserved
<1>1. TypeOK /\ LedgerBalanced /\ EscrowBacked
  BY DEF EscrowInv
<1>2. /\ Total(escrow, Users) = Total(Locked, Milestones)
      /\ Booked("fund", Milestones)
           = Booked("refund", Milestones) + Booked("release", Milestones)
               + Total(Locked, Milestones)
  BY <1>1, UsersEscrow, MilestonesBooks
<1> DEFINE have == Total(available, Users)
           had == Total(Balance, Users)
           held == Total(Locked, Milestones)
           fund == Booked("fund", Milestones)
           back == Booked("refund", Milestones)
           sold == Booked("release", Milestones)
           hold == FeeBooked("hold", Requests)
           feeBack == FeeBooked("refund", Requests)
           work == FeeBooked("payout", Requests)
<1>3. /\ have \in Nat /\ had \in Nat
      /\ have + fund + hold = had + back + sold + feeBack + work
  BY <1>1, UsersAvailable
<1>4. /\ fund \in Nat /\ back \in Nat /\ sold \in Nat
      /\ hold \in Nat /\ feeBack \in Nat /\ work \in Nat
  BY <1>1, BookedNat, FeeBookedNat
<1>5. held \in Nat
  <2>1. \A m \in Milestones : Locked[m] \in Nat
    BY <1>1, RowType
  <2> QED
    BY <2>1, TotalNat, RowsAssumption
<1>6. PlatformFees = hold - feeBack - work
  BY DEF PlatformFees, FeeBooked
<1>7. fund = back + sold + held
  BY <1>2
<1> HIDE DEF have, had, held, fund, back, sold, hold, feeBack, work
<1>8. have + held + PlatformFees = had
  BY <1>3, <1>4, <1>5, <1>6, <1>7
<1> QED
  BY <1>2, <1>8 DEF MoneyConserved, have, held, had

LEMMA RequestKeepsEscrow ==
    ASSUME TypeOK, MoneyOK, NEW r \in Requests, RequestStep(r)
    PROVE  MoneyOK'
<1>1. UNCHANGED <<status, mstatus, amount, funded, isFunded, ledger, escrow>>
  BY DEF RequestStep, RequestAgent, AcceptRequest, DeclineRequest, CancelRequest,
         CompleteRequest, AssignAgent, AdminPayout, dealVars, msVars, moneyVars
<1>2. DealsStay
  BY <1>1 DEF DealsStay
<1> QED
  BY <1>1, <1>2, QuietStep

\* With agent requests and their fees, too, the balances agree with the
\* ledger, whoever accepts, cancels, completes or is paid in which order.
THEOREM AgentBalancesMatchLedger == AgentSpec => []AvailableMatchesLedger
<1>1. Init => TypeOK /\ AvailableMatchesLedger
  BY InitType, InitAvailable
<1>2. TypeOK /\ AvailableMatchesLedger /\ [AgentNext]_vars
        => TypeOK' /\ AvailableMatchesLedger'
  BY AgentStepType, DealStepAvailable, RequestAvailable DEF AgentNext
<1> QED
  BY <1>1, <1>2, PTL DEF AgentSpec

\* No handler of a deal, a milestone, a dispute or an agent request creates or
\* loses a unit: balances, escrow and the platform's fees add up to what the
\* users brought.
THEOREM MoneyIsConserved == AgentSpec => []MoneyConserved
<1> DEFINE Inv == TypeOK /\ MoneyOK /\ AvailableMatchesLedger
<1>1. Init => Inv
  BY InitType, InitMoney, InitAvailable
<1>2. Inv /\ [AgentNext]_vars => Inv'
  <2>1. TypeOK /\ MoneyOK /\ [AgentNext]_vars => MoneyOK'
    BY StepMoney, RequestKeepsEscrow DEF AgentNext
  <2>2. TypeOK /\ AvailableMatchesLedger /\ [AgentNext]_vars
          => AvailableMatchesLedger'
    BY DealStepAvailable, RequestAvailable DEF AgentNext
  <2> QED
    BY <2>1, <2>2, AgentStepType
<1>3. Inv => MoneyConserved
  BY InvByRows, BooksConserve
<1> QED
  BY <1>1, <1>2, <1>3, PTL DEF AgentSpec

\* In particular when no agent is asked: what Escrow alone does.
COROLLARY EscrowConservesMoney == Spec => []MoneyConserved
<1>1. Spec => AgentSpec
  <2>1. [Next]_vars => [AgentNext]_vars
    BY DEF AgentNext
  <2> QED
    BY <2>1, PTL DEF Spec, AgentSpec
<1> QED
  BY <1>1, MoneyIsConserved, PTL

=============================================================================
