---------------------------- MODULE EscrowProofs ----------------------------
(***************************************************************************)
(* Theorems about Escrow, for all values of its constants: its types; the  *)
(* money of the milestones and of the escrow balances (EscrowInv is        *)
(* inductive); what the status of a deal tells; and that the workflow      *)
(* implements Vault.                                                       *)
(***************************************************************************)
EXTENDS EscrowVault, TotalsProofs

-----------------------------------------------------------------------------
(* Types *)

USE DEF DealStatus, MilestoneStatus, Clock, RequestStatus, EarningStatus,
        MilestoneLedger, RequestLedger

\* A settlement credits every user a natural number.
LEMMA FeeCreditNat ==
    ASSUME NEW u, NEW t \in Deals, NEW paid \in SUBSET Requests
    PROVE  FeeCredit(u, t, paid) \in Nat
<1>1. IsFiniteSet({r \in paid : AgentOf[r] = u})
  BY RowsAssumption, FS_Subset
<1>2. Total(Payout, {r \in paid : AgentOf[r] = u}) \in Nat
  BY <1>1, MoneyAssumption, TotalNat
<1>3. IsFiniteSet(HeldOn(t) \ paid)
  BY RowsAssumption, FS_Subset DEF HeldOn
<1>4. Total(Fee, HeldOn(t) \ paid) \in Nat
  BY <1>3, MoneyAssumption, TotalNat DEF HeldOn
<1> QED
  BY <1>2, <1>4 DEF FeeCredit

\* A settlement leaves earnings and fee ledger well typed.
LEMMA SettleFeesType ==
    ASSUME TypeOK, NEW t \in Deals, NEW paid \in SUBSET Requests,
           SettleFees(t, paid)
    PROVE  /\ earning' \in [Requests -> EarningStatus]
           /\ feeLedger' \in [Requests -> RequestLedger]
<1>1. earning' \in [Requests -> EarningStatus]
  BY DEF TypeOK, SettleFees
<1>2. \A r \in Requests : Payout[r] \in Nat /\ Fee[r] \in Nat
  BY MoneyAssumption
<1>3. feeLedger' \in [Requests -> RequestLedger]
  <2>1. SUFFICES ASSUME NEW r \in Requests
                 PROVE  feeLedger'[r] \in RequestLedger
    BY DEF SettleFees
  <2>2. feeLedger[r] \in RequestLedger
    BY DEF TypeOK
  <2>3. feeLedger'[r] = IF r \in paid
                        THEN [feeLedger[r] EXCEPT !.payout = @ + Payout[r]]
                        ELSE IF r \in HeldOn(t)
                        THEN [feeLedger[r] EXCEPT !.refund = @ + Fee[r]]
                        ELSE feeLedger[r]
    BY DEF SettleFees
  <2> QED
    BY <1>2, <2>2, <2>3
<1> QED
  BY <1>1, <1>3

LEMMA RefundHeldFeesType ==
    ASSUME TypeOK, NEW t \in Deals, RefundHeldFees(t)
    PROVE  /\ available' \in [Users -> Nat]
           /\ earning' \in [Requests -> EarningStatus]
           /\ feeLedger' \in [Requests -> RequestLedger]
<1>1. \A u \in Users : FeeCredit(u, t, {}) \in Nat
  BY FeeCreditNat
<1>2. available' \in [Users -> Nat]
  BY <1>1 DEF TypeOK, RefundHeldFees
<1>3. SettleFees(t, {})
  BY DEF RefundHeldFees
<1> QED
  BY <1>2, <1>3, SettleFeesType

\* The sums a deadline refund moves.
LEMMA RefundTotalNat ==
    ASSUME TypeOK, NEW ms \in SUBSET Milestones
    PROVE  Total(funded, ms) \in Nat
<1>1. IsFiniteSet(ms)
  BY RowsAssumption, FS_Subset
<1> QED
  BY <1>1, TotalNat DEF TypeOK

LEMMA RefundMilestonesType ==
    ASSUME TypeOK, NEW t \in Deals, NEW ms \in SUBSET Milestones,
           RefundMilestones(t, ms)
    PROVE  /\ available' \in [Users -> Nat]
           /\ escrow' \in [Users -> Nat]
           /\ ledger' \in [Milestones -> MilestoneLedger]
           /\ funded' \in [Milestones -> Nat]
           /\ mstatus' \in [Milestones -> MilestoneStatus]
<1>1. Total(funded, ms) \in Nat
  BY RefundTotalNat
<1>2. available' \in [Users -> Nat] /\ escrow' \in [Users -> Nat]
  BY <1>1, PartiesAssumption DEF TypeOK, RefundMilestones, Minus
<1>3. ledger' \in [Milestones -> MilestoneLedger]
  <2>1. SUFFICES ASSUME NEW m \in Milestones
                 PROVE  ledger'[m] \in MilestoneLedger
    BY DEF RefundMilestones
  <2>2. ledger[m] \in MilestoneLedger /\ funded[m] \in Nat
    BY DEF TypeOK
  <2>3. ledger'[m] = IF m \in ms
                     THEN [ledger[m] EXCEPT !.refund = @ + funded[m]]
                     ELSE ledger[m]
    BY DEF RefundMilestones
  <2> QED
    BY <2>2, <2>3
<1>4. /\ funded' \in [Milestones -> Nat]
      /\ mstatus' \in [Milestones -> MilestoneStatus]
  BY DEF TypeOK, RefundMilestones
<1> QED
  BY <1>2, <1>3, <1>4

LEMMA PartlyFundedSubset ==
    ASSUME NEW t
    PROVE  PartlyFunded(t) \in SUBSET Milestones
BY DEF PartlyFunded, Present, MilestonesOf

LEMMA EnforceDeadlineType ==
    ASSUME TypeOK, NEW t \in Deals, EnforceDeadline(t),
           enforceTask' \in [Deals -> BOOLEAN]
    PROVE  TypeOK'
<1>1. CASE CancelUnfundedDeal(t)
  <2>1. RefundMilestones(t, PartlyFunded(t))
    BY <1>1 DEF CancelUnfundedDeal
  <2>2. /\ available' \in [Users -> Nat]
        /\ escrow' \in [Users -> Nat]
        /\ ledger' \in [Milestones -> MilestoneLedger]
        /\ funded' \in [Milestones -> Nat]
        /\ mstatus' \in [Milestones -> MilestoneStatus]
    BY <2>1, PartlyFundedSubset, RefundMilestonesType
  <2> QED
    BY <1>1, <2>2 DEF TypeOK, CancelUnfundedDeal, feeVars
<1>2. CASE RefundPartialLocks(t)
  <2>1. RefundMilestones(t, PartlyFunded(t))
    BY <1>2 DEF RefundPartialLocks
  <2>2. /\ available' \in [Users -> Nat]
        /\ escrow' \in [Users -> Nat]
        /\ ledger' \in [Milestones -> MilestoneLedger]
        /\ funded' \in [Milestones -> Nat]
        /\ mstatus' \in [Milestones -> MilestoneStatus]
    BY <2>1, PartlyFundedSubset, RefundMilestonesType
  <2> QED
    BY <1>2, <2>2 DEF TypeOK, RefundPartialLocks, feeVars
<1> QED
  BY <1>1, <1>2 DEF EnforceDeadline

LEMMA ReleaseType ==
    ASSUME TypeOK, NEW m \in Milestones, Release(m),
           releaseTask' \in [Milestones -> BOOLEAN],
           staleTask' \in [Milestones -> BOOLEAN],
           UNCHANGED <<enforceTask, sweep, feeRefundDue>>
    PROVE  TypeOK'
<1> DEFINE t == DealOf[m]
           fees(u) == IF CompletesDeal(m) THEN FeeCredit(u, t, Eligible(t))
                      ELSE 0
           pay == ReleaseAmount(m)
<1>1. t \in Deals /\ Eligible(t) \in SUBSET Requests
  BY RowsAssumption DEF Eligible, HeldOn
<1>2. \A u \in Users : fees(u) \in Nat
  BY <1>1, FeeCreditNat
<1>3. pay \in Nat
  BY DEF TypeOK, ReleaseAmount
<1>4. available' = [u \in Users |->
                     available[u] + fees(u) + (IF u = Seller[t] THEN pay ELSE 0)]
  BY DEF Release
<1>5. available' \in [Users -> Nat]
  <2> HIDE DEF fees, pay
  <2> QED
    BY <1>2, <1>3, <1>4 DEF TypeOK
<1>6. escrow' = [escrow EXCEPT ![Buyer[t]] = Minus(@, pay)]
  BY DEF Release
<1>7. escrow' \in [Users -> Nat]
  BY <1>1, <1>3, <1>6, PartiesAssumption DEF TypeOK, Minus
<1>8. ledger' = [ledger EXCEPT ![m].release = @ + pay]
  BY DEF Release
<1>9. ledger' \in [Milestones -> MilestoneLedger]
  <2>1. ledger \in [Milestones -> MilestoneLedger]
    BY DEF TypeOK
  <2>2. [ledger[m] EXCEPT !.release = @ + pay] \in MilestoneLedger
    BY <1>3, <2>1
  <2> HIDE DEF pay
  <2> QED
    BY <1>8, <2>1, <2>2
<1>10. /\ earning' \in [Requests -> EarningStatus]
       /\ feeLedger' \in [Requests -> RequestLedger]
  <2>1. CASE CompletesDeal(m)
    BY <1>1, <2>1, SettleFeesType DEF Release
  <2>2. CASE ~CompletesDeal(m)
    BY <2>2 DEF Release, TypeOK
  <2> QED
    BY <2>1, <2>2
<1>11. /\ status' \in [Deals -> DealStatus]
       /\ completedMs' \in [Deals -> Nat]
       /\ mstatus' \in [Milestones -> MilestoneStatus]
  BY <1>1 DEF Release, TypeOK
<1>12. UNCHANGED <<deadline, fundedMs, hasDispute, amount, funded, isFunded,
                   autoRelease, proof, frozen, request>>
  BY DEF Release
<1> QED
  BY <1>5, <1>7, <1>9, <1>10, <1>11, <1>12 DEF TypeOK

LEMMA AutoReleaseType ==
    ASSUME TypeOK, NEW m \in Milestones, AutoRelease(m),
           releaseTask' \in [Milestones -> BOOLEAN],
           staleTask' \in [Milestones -> BOOLEAN],
           UNCHANGED <<enforceTask, sweep, feeRefundDue>>
    PROVE  TypeOK'
<1>1. CASE Release(m)
  BY <1>1, ReleaseType
<1>2. CASE UNCHANGED <<dealVars, msVars, moneyVars, feeVars>>
  BY <1>2 DEF TypeOK, dealVars, msVars, moneyVars, feeVars
<1> QED
  BY <1>1, <1>2 DEF AutoRelease

\* Every kind of step preserves the types; one lemma for each group of Next.
LEMMA InvitationType ==
    ASSUME TypeOK, NEW t \in Deals, InvitationStep(t)
    PROVE  TypeOK'
<1>1. CASE CreateDeal(t)
  <2>a. PICK ms \in SUBSET MilestonesOf(t) : \E price \in [ms -> Amounts] :
          /\ mstatus' = [m \in Milestones |->
                           IF m \in ms THEN "pending" ELSE mstatus[m]]
          /\ amount' = [m \in Milestones |->
                          IF m \in ms THEN price[m] ELSE amount[m]]
    BY <1>1 DEF CreateDeal
  <2>1. PICK price \in [ms -> Amounts] :
          /\ mstatus' = [m \in Milestones |->
                           IF m \in ms THEN "pending" ELSE mstatus[m]]
          /\ amount' = [m \in Milestones |->
                          IF m \in ms THEN price[m] ELSE amount[m]]
    BY <2>a
  <2>2. mstatus' \in [Milestones -> MilestoneStatus]
    BY <2>1 DEF TypeOK
  <2>3. amount' \in [Milestones -> Nat]
    BY <2>1, MoneyAssumption DEF TypeOK
  <2>4. status' \in [Deals -> DealStatus]
    BY <1>1 DEF CreateDeal, TypeOK
  <2> QED
    BY <1>1, <2>2, <2>3, <2>4 DEF CreateDeal, TypeOK, moneyVars, feeVars, taskVars
<1>2. CASE AcceptDeal(t)
  BY <1>2 DEF AcceptDeal, TypeOK, msVars, moneyVars, feeVars
<1>3. CASE DeclineDeal(t)
  BY <1>3 DEF DeclineDeal, TypeOK, msVars, moneyVars, feeVars, taskVars
<1>4. CASE CancelDeal(t)
  <2>1. RefundHeldFees(t)
    BY <1>4 DEF CancelDeal
  <2> QED
    BY <1>4, <2>1, RefundHeldFeesType DEF CancelDeal, TypeOK, msVars, taskVars
<1>5. CASE ExpireInvitation(t)
  <2>1. RefundHeldFees(t)
    BY <1>5 DEF ExpireInvitation
  <2> QED
    BY <1>5, <2>1, RefundHeldFeesType DEF ExpireInvitation, TypeOK, msVars
<1> QED
  BY <1>1, <1>2, <1>3, <1>4, <1>5 DEF InvitationStep

LEMMA DeadlineType ==
    ASSUME TypeOK, NEW t \in Deals, DeadlineStep(t)
    PROVE  TypeOK'
<1>1. CASE DeadlinePasses(t)
  BY <1>1 DEF DeadlinePasses, TypeOK, msVars, moneyVars, feeVars, taskVars
<1>2. CASE EnforceOnAccess(t)
  <2>1. enforceTask' \in [Deals -> BOOLEAN]
    BY <1>2 DEF EnforceOnAccess, TypeOK
  <2> QED
    BY <1>2, <2>1, EnforceDeadlineType DEF EnforceOnAccess
<1>3. CASE EnforceTask(t)
  <2>1. enforceTask' \in [Deals -> BOOLEAN]
    BY <1>3 DEF EnforceTask, TypeOK
  <2>2. CASE EnforceDeadline(t)
    BY <2>1, <2>2, EnforceDeadlineType
  <2>3. CASE UNCHANGED <<dealVars, msVars, moneyVars, feeVars, releaseTask,
                         staleTask, sweep, feeRefundDue>>
    BY <2>1, <2>3 DEF TypeOK, dealVars, msVars, moneyVars, feeVars
  <2> QED
    BY <1>3, <2>2, <2>3 DEF EnforceTask
<1>4. CASE RefundFeesAfterDeadline(t)
  <2>1. RefundHeldFees(t)
    BY <1>4 DEF RefundFeesAfterDeadline
  <2> QED
    BY <1>4, <2>1, RefundHeldFeesType
    DEF RefundFeesAfterDeadline, TypeOK, dealVars, msVars
<1>5. CASE CrashAfterCancel(t)
  BY <1>5 DEF CrashAfterCancel, TypeOK, dealVars, msVars, moneyVars, feeVars
<1> QED
  BY <1>1, <1>2, <1>3, <1>4, <1>5 DEF DeadlineStep

LEMMA DisputeType ==
    ASSUME TypeOK, NEW t \in Deals, DisputeStep(t)
    PROVE  TypeOK'
<1>1. ASSUME NEW ms, OpenDispute(t, ms)
      PROVE  TypeOK'
  BY <1>1 DEF OpenDispute, TypeOK, moneyVars, feeVars, taskVars
<1>2. CASE ResolveDispute(t)
  <2>1. PICK paid \in {{}, HeldOn(t), Eligible(t)} :
          /\ available' = [u \in Users |-> available[u] + FeeCredit(u, t, paid)]
          /\ SettleFees(t, paid)
    BY <1>2 DEF ResolveDispute
  <2>2. paid \in SUBSET Requests
    BY DEF Eligible, HeldOn
  <2>3. \A u \in Users : FeeCredit(u, t, paid) \in Nat
    BY <2>2, FeeCreditNat
  <2>4. available' \in [Users -> Nat]
    BY <2>1, <2>3 DEF TypeOK
  <2>5. /\ earning' \in [Requests -> EarningStatus]
        /\ feeLedger' \in [Requests -> RequestLedger]
    BY <2>1, <2>2, SettleFeesType
  <2> QED
    BY <1>2, <2>4, <2>5 DEF ResolveDispute, TypeOK, msVars, taskVars
<1> QED
  BY <1>1, <1>2 DEF DisputeStep

LEMMA FundType ==
    ASSUME TypeOK, NEW m \in Milestones, NEW pay \in Nat, FundMilestone(m, pay)
    PROVE  TypeOK'
<1> DEFINE t == DealOf[m]
           b == Buyer[t]
<1>1. t \in Deals /\ b \in Users
  BY RowsAssumption, PartiesAssumption
<1>2. available[b] >= pay
  BY DEF FundMilestone, CanFund
<1>3. available' = [available EXCEPT ![b] = @ - pay]
  BY DEF FundMilestone
<1>4. available' \in [Users -> Nat]
  BY <1>1, <1>2, <1>3 DEF TypeOK
<1>5. escrow' \in [Users -> Nat] /\ funded' \in [Milestones -> Nat]
  BY <1>1 DEF FundMilestone, TypeOK
<1>6. ledger' \in [Milestones -> MilestoneLedger]
  <2>1. ledger' = [ledger EXCEPT ![m].fund = @ + pay]
    BY DEF FundMilestone
  <2>2. ledger \in [Milestones -> MilestoneLedger]
    BY DEF TypeOK
  <2>3. [ledger[m] EXCEPT !.fund = @ + pay] \in MilestoneLedger
    BY <2>2
  <2> QED
    BY <2>1, <2>2, <2>3
<1>7. /\ isFunded' \in [Milestones -> BOOLEAN]
      /\ mstatus' \in [Milestones -> MilestoneStatus]
  BY DEF FundMilestone, TypeOK
<1>8. fundedMs' \in [Deals -> Nat] /\ status' \in [Deals -> DealStatus]
  BY <1>1 DEF FundMilestone, TypeOK
<1>9. UNCHANGED <<deadline, completedMs, hasDispute, amount, autoRelease,
                  proof, frozen, feeVars, taskVars>>
  BY DEF FundMilestone
<1> QED
  BY <1>4, <1>5, <1>6, <1>7, <1>8, <1>9 DEF TypeOK, feeVars, taskVars

LEMMA MilestoneType ==
    ASSUME TypeOK, NEW m \in Milestones, MilestoneStep(m)
    PROVE  TypeOK'
<1>1. CASE CreateMilestone(m)
  BY <1>1, MoneyAssumption
  DEF CreateMilestone, TypeOK, dealVars, moneyVars, feeVars, taskVars
<1>2. ASSUME NEW pay \in 1 .. amount[m], FundMilestone(m, pay)
      PROVE  TypeOK'
  <2>1. pay \in Nat
    OBVIOUS
  <2> QED
    BY <1>2, <2>1, FundType
<1>3. CASE StartWork(m)
  BY <1>3 DEF StartWork, TypeOK, dealVars, moneyVars, feeVars, taskVars
<1>4. ASSUME NEW ok \in BOOLEAN, SubmitDelivery(m, ok)
      PROVE  TypeOK'
  <2>1. DealOf[m] \in Deals
    BY RowsAssumption
  <2>2. /\ mstatus' \in [Milestones -> MilestoneStatus]
        /\ proof' \in [Milestones -> BOOLEAN]
        /\ autoRelease' \in [Milestones -> Clock]
        /\ releaseTask' \in [Milestones -> BOOLEAN]
        /\ staleTask' \in [Milestones -> BOOLEAN]
    BY <1>4 DEF SubmitDelivery, TypeOK
  <2>3. status' \in [Deals -> DealStatus]
    BY <1>4, <2>1 DEF SubmitDelivery, TypeOK
  <2> QED
    BY <1>4, <2>2, <2>3 DEF SubmitDelivery, TypeOK, moneyVars, feeVars
<1>5. CASE ApproveMilestone(m)
  <2>1. /\ Release(m)
        /\ UNCHANGED taskVars
    BY <1>5 DEF ApproveMilestone
  <2>2. /\ releaseTask' \in [Milestones -> BOOLEAN]
        /\ staleTask' \in [Milestones -> BOOLEAN]
        /\ UNCHANGED <<enforceTask, sweep, feeRefundDue>>
    BY <2>1 DEF taskVars, TypeOK
  <2> QED
    BY <2>1, <2>2, ReleaseType
<1>6. CASE RequestRevision(m)
  BY <1>6 DEF RequestRevision, TypeOK, dealVars, moneyVars, feeVars, taskVars
<1>7. CASE ReviewWindowEnds(m)
  BY <1>7 DEF ReviewWindowEnds, TypeOK, dealVars, moneyVars, feeVars, taskVars
<1>8. CASE RunReleaseTask(m)
  <2>1. /\ releaseTask' \in [Milestones -> BOOLEAN]
        /\ staleTask' \in [Milestones -> BOOLEAN]
    BY <1>8 DEF RunReleaseTask, TypeOK
  <2> QED
    BY <1>8, <2>1, AutoReleaseType DEF RunReleaseTask
<1>9. CASE RunStaleTask(m)
  <2>1. /\ releaseTask' \in [Milestones -> BOOLEAN]
        /\ staleTask' \in [Milestones -> BOOLEAN]
    BY <1>9 DEF RunStaleTask, TypeOK
  <2> QED
    BY <1>9, <2>1, AutoReleaseType DEF RunStaleTask
<1> QED
  BY <1>1, <1>2, <1>3, <1>4, <1>5, <1>6, <1>7, <1>8, <1>9 DEF MilestoneStep

LEMMA InitType == Init => TypeOK
BY MoneyAssumption DEF Init, TypeOK

LEMMA StepType == TypeOK /\ [Next]_vars => TypeOK'
<1> SUFFICES ASSUME TypeOK, [Next]_vars
             PROVE  TypeOK'
  OBVIOUS
<1>1. CASE \E u \in Users : SetFrozen(u)
  BY <1>1, RowsAssumption
  DEF SetFrozen, TypeOK, dealVars, msVars, feeVars, taskVars
<1>2. CASE SelectStaleInvitations
  BY <1>2 DEF SelectStaleInvitations, TypeOK, dealVars, msVars, moneyVars, feeVars
<1>3. CASE UNCHANGED vars
  BY <1>3 DEF vars, TypeOK, dealVars, msVars, moneyVars, feeVars, taskVars
<1> QED
  BY <1>1, <1>2, <1>3, InvitationType, DeadlineType, DisputeType,
     MilestoneType DEF Next

\* Every column keeps its domain: in particular no balance, no funded amount
\* and no counter ever becomes negative, although fund_milestone subtracts
\* from the available balance without a clamp.
THEOREM EscrowTypeCorrect == Spec => []TypeOK
BY InitType, StepType, PTL DEF Spec

HIDE DEF DealStatus, MilestoneStatus, Clock, RequestStatus, EarningStatus,
         RequestLedger

-----------------------------------------------------------------------------
(* The invariant, row by row *)

\* What EscrowInv says of one milestone.
RowOK(m) ==
    /\ status[DealOf[m]] = "none" => mstatus[m] = "absent"
    /\ mstatus[m] = "absent" => funded[m] = 0 /\ ~isFunded[m]
    /\ ledger[m].release > 0 => /\ isFunded[m]
                                /\ ledger[m].release = amount[m]
                                /\ mstatus[m] \in {"completed", "disputed"}
    /\ isFunded[m] => funded[m] = amount[m] /\ funded[m] > 0
    /\ ~isFunded[m] => /\ funded[m] > 0 => funded[m] < amount[m]
                       /\ mstatus[m] \in {"absent", "pending", "disputed"}
    /\ ledger[m].fund = ledger[m].refund + ledger[m].release + Locked[m]

MoneyOK == (\A m \in Milestones : RowOK(m)) /\ EscrowBacked

LEMMA InvByRows == EscrowInv <=> TypeOK /\ MoneyOK
BY DEF EscrowInv, MoneyOK, RowOK, RowsAgree, FundedMeansFull, PaidOnceInFull,
       LedgerBalanced

LEMMA RowType ==
    ASSUME TypeOK, NEW m \in Milestones
    PROVE  /\ DealOf[m] \in Deals
           /\ Buyer[DealOf[m]] \in Users
           /\ amount[m] \in Nat
           /\ funded[m] \in Nat
           /\ isFunded[m] \in BOOLEAN
           /\ mstatus[m] \in MilestoneStatus
           /\ ledger[m].fund \in Nat
           /\ ledger[m].release \in Nat
           /\ ledger[m].refund \in Nat
           /\ Locked[m] = IF ledger[m].release > 0 THEN 0 ELSE funded[m]
           /\ Locked[m] \in Nat
<1>1. DealOf[m] \in Deals /\ Buyer[DealOf[m]] \in Users
  BY RowsAssumption, PartiesAssumption
<1>2. /\ amount[m] \in Nat
      /\ funded[m] \in Nat
      /\ isFunded[m] \in BOOLEAN
      /\ mstatus[m] \in MilestoneStatus
  BY DEF TypeOK
<1>3. ledger[m] \in MilestoneLedger
  BY DEF TypeOK
<1>4. Locked[m] = IF ledger[m].release > 0 THEN 0 ELSE funded[m]
  BY DEF Locked
<1>5. ledger[m].fund \in Nat /\ ledger[m].release \in Nat /\ ledger[m].refund \in Nat
  BY <1>3
<1>6. Locked[m] \in Nat
  BY <1>2, <1>4
<1> QED
  BY <1>1, <1>2, <1>4, <1>5, <1>6, Zenon

\* A row that a step leaves alone stays in order.
LEMMA RowKept ==
    ASSUME NEW m \in Milestones, RowOK(m),
           mstatus'[m] = mstatus[m], amount'[m] = amount[m],
           funded'[m] = funded[m], isFunded'[m] = isFunded[m],
           ledger'[m] = ledger[m],
           status'[DealOf[m]] = "none" => status[DealOf[m]] = "none"
    PROVE  RowOK(m)' /\ Locked'[m] = Locked[m]
BY DEF RowOK, Locked

\* What was bought does not change, so the sums are over the same rows.
LEMMA BoughtFinite ==
    ASSUME NEW u
    PROVE  IsFiniteSet(BoughtBy(u)) /\ BoughtBy(u) \in SUBSET Milestones
BY RowsAssumption, FS_Subset DEF BoughtBy

\* No deal is ever deleted.
DealsStay == \A t \in Deals : status'[t] = "none" => status[t] = "none"

-----------------------------------------------------------------------------
(* Steps that move no money *)

LEMMA SameEscrow ==
    ASSUME EscrowBacked, escrow' = escrow, funded' = funded, ledger' = ledger
    PROVE  EscrowBacked'
BY DEF EscrowBacked, Locked, BoughtBy

LEMMA QuietStep ==
    ASSUME TypeOK, MoneyOK, DealsStay,
           UNCHANGED <<mstatus, amount, funded, isFunded, ledger, escrow>>
    PROVE  MoneyOK'
<1>1. EscrowBacked'
  BY SameEscrow DEF MoneyOK
<1>2. ASSUME NEW m \in Milestones
      PROVE  RowOK(m)'
  <2>1. DealOf[m] \in Deals
    BY RowsAssumption
  <2> QED
    BY <2>1, RowKept DEF MoneyOK, DealsStay
<1> QED
  BY <1>1, <1>2 DEF MoneyOK

-----------------------------------------------------------------------------
(* Steps that move money *)

\* One row of old changes, and the buyer's balance by as much.
LEMMA BalanceUpdate ==
    ASSUME NEW old, \A n \in Milestones : old[n] \in Nat,
           NEW new, \A n \in Milestones : new[n] \in Nat,
           NEW m \in Milestones, \A n \in Milestones \ {m} : new[n] = old[n],
           NEW e \in [Users -> Nat],
           \A u \in Users : e[u] = Total(old, BoughtBy(u))
    PROVE  /\ old[m] <= e[Buyer[DealOf[m]]]
           /\ \A u \in Users :
                [e EXCEPT ![Buyer[DealOf[m]]] = e[Buyer[DealOf[m]]] - old[m] + new[m]][u]
                  = Total(new, BoughtBy(u))
<1> DEFINE b == Buyer[DealOf[m]]
<1>1. b \in Users /\ m \in BoughtBy(b)
  BY RowsAssumption, PartiesAssumption DEF BoughtBy
<1>2. /\ Total(new, BoughtBy(b)) = Total(old, BoughtBy(b)) - old[m] + new[m]
      /\ old[m] <= Total(old, BoughtBy(b))
  <2>1. IsFiniteSet(BoughtBy(b)) /\ BoughtBy(b) \in SUBSET Milestones
    BY BoughtFinite
  <2> HIDE DEF b
  <2> QED
    BY <1>1, <2>1, TotalUpdate
<1>3. ASSUME NEW u \in Users, u # b
      PROVE  Total(new, BoughtBy(u)) = Total(old, BoughtBy(u))
  <2>1. \A n \in BoughtBy(u) : new[n] = old[n]
    BY <1>3 DEF BoughtBy
  <2> QED
    BY <2>1, TotalSame
<1> QED
  BY <1>1, <1>2, <1>3

LEMMA FundMoney ==
    ASSUME TypeOK, MoneyOK, NEW m \in Milestones, NEW pay \in Nat \ {0},
           FundMilestone(m, pay)
    PROVE  MoneyOK'
<1> DEFINE b == Buyer[DealOf[m]]
<1>1. /\ mstatus[m] # "absent"
      /\ ~isFunded[m]
      /\ funded[m] + pay <= amount[m]
      /\ status[DealOf[m]] \in FundingPhase
  BY DEF FundMilestone, CanFund, MayFund
<1>2. RowOK(m)
  BY DEF MoneyOK
<1>3. ledger[m].release = 0
  BY <1>1, <1>2, RowType DEF RowOK
<1>4. /\ funded'[m] = funded[m] + pay
      /\ isFunded'[m] <=> (funded[m] + pay = amount[m])
      /\ mstatus'[m] = IF funded[m] + pay = amount[m] THEN "funded" ELSE "pending"
      /\ status'[DealOf[m]] # "none"
      /\ amount' = amount
  BY RowType DEF FundMilestone, TypeOK
<1>5. /\ ledger'[m].fund = ledger[m].fund + pay
      /\ ledger'[m].release = ledger[m].release
      /\ ledger'[m].refund = ledger[m].refund
  BY DEF FundMilestone, TypeOK
<1>6. Locked[m] = funded[m] /\ Locked'[m] = funded[m] + pay
  BY <1>3, <1>4, <1>5, RowType DEF Locked
<1>7. RowOK(m)'
  <2>1. funded[m] \in Nat /\ amount[m] \in Nat
    BY RowType
  <2>2. ledger'[m].fund = ledger'[m].refund + ledger'[m].release + Locked'[m]
    BY <1>2, <1>5, <1>6, RowType DEF RowOK
  <2>3. isFunded'[m] => funded'[m] = amount'[m] /\ funded'[m] > 0
    BY <1>4, <2>1
  <2>4. ~isFunded'[m] => funded'[m] < amount'[m] /\ mstatus'[m] = "pending"
    BY <1>1, <1>4, <2>1
  <2>5. ~(ledger'[m].release > 0) /\ mstatus'[m] # "absent"
    BY <1>3, <1>4, <1>5
  <2> QED
    BY <1>4, <2>2, <2>3, <2>4, <2>5 DEF RowOK
<1>8. ASSUME NEW n \in Milestones \ {m}
      PROVE  RowOK(n)' /\ Locked'[n] = Locked[n]
  <2>1. /\ mstatus'[n] = mstatus[n] /\ amount'[n] = amount[n]
        /\ funded'[n] = funded[n] /\ isFunded'[n] = isFunded[n]
        /\ ledger'[n] = ledger[n]
    BY DEF FundMilestone, TypeOK
  <2>2. status'[DealOf[n]] = "none" => status[DealOf[n]] = "none"
    BY RowsAssumption DEF FundMilestone, TypeOK
  <2> QED
    BY <2>1, <2>2, RowKept DEF MoneyOK
<1>9. EscrowBacked'
  <2>1. \A n \in Milestones : Locked[n] \in Nat /\ Locked'[n] \in Nat
    BY <1>6, <1>8, RowType
  <2>2. escrow \in [Users -> Nat]
    BY DEF TypeOK
  <2>3. \A u \in Users : escrow[u] = Total(Locked, BoughtBy(u))
    BY DEF MoneyOK, EscrowBacked
  <2>4. \A u \in Users :
          [escrow EXCEPT ![b] = escrow[b] - Locked[m] + Locked'[m]][u]
            = Total(Locked', BoughtBy(u))
    BY <1>8, <2>1, <2>2, <2>3, BalanceUpdate
  <2>5. escrow' = [escrow EXCEPT ![b] = escrow[b] + pay]
    BY DEF FundMilestone
  <2>6. escrow[b] + pay = escrow[b] - Locked[m] + Locked'[m]
    BY <1>6, <2>2, RowType
  <2> QED
    BY <2>4, <2>5, <2>6 DEF EscrowBacked, BoughtBy
<1> QED
  BY <1>7, <1>8, <1>9 DEF MoneyOK

\* A refund of partial locks: the rows of ms hold money and are not fully
\* funded, so nothing was released for them.
LEMMA RefundMoney ==
    ASSUME TypeOK, MoneyOK, DealsStay, NEW t \in Deals,
           RefundMilestones(t, PartlyFunded(t)),
           UNCHANGED <<amount, isFunded>>
    PROVE  MoneyOK'
<1> DEFINE b == Buyer[t]
           ms == PartlyFunded(t)
           sum == Total(funded, ms)
<1>1. /\ b \in Users
      /\ ms \in SUBSET BoughtBy(b)
      /\ ms \in SUBSET Milestones
  BY PartiesAssumption DEF PartlyFunded, Present, MilestonesOf, BoughtBy
<1>2. ASSUME NEW m \in ms
      PROVE  /\ m \in Milestones
             /\ ~isFunded[m]
             /\ mstatus[m] # "absent"
             /\ DealOf[m] = t
             /\ ledger[m].release = 0
             /\ Locked[m] = funded[m]
  <2>1. /\ m \in Milestones
        /\ ~isFunded[m]
        /\ mstatus[m] # "absent"
        /\ DealOf[m] = t
    BY DEF PartlyFunded, Present, MilestonesOf
  <2>2. RowOK(m)
    BY <2>1 DEF MoneyOK
  <2>3. ledger[m].release = 0
    BY <2>1, <2>2, RowType DEF RowOK
  <2> QED
    BY <2>1, <2>3, RowType
<1>3. \A m \in Milestones :
        /\ funded'[m] = IF m \in ms THEN 0 ELSE funded[m]
        /\ mstatus'[m] = IF m \in ms THEN "pending" ELSE mstatus[m]
        /\ ledger'[m] = IF m \in ms
                        THEN [ledger[m] EXCEPT !.refund = @ + funded[m]]
                        ELSE ledger[m]
  BY DEF RefundMilestones
<1>4. ASSUME NEW m \in ms
      PROVE  RowOK(m)' /\ Locked'[m] = 0
  <2>1. m \in Milestones /\ RowOK(m)
    BY <1>2 DEF MoneyOK
  <2>2. /\ funded'[m] = 0 /\ mstatus'[m] = "pending"
        /\ amount'[m] = amount[m] /\ ~isFunded'[m]
    BY <1>2, <1>3
  <2>3. /\ ledger'[m].fund = ledger[m].fund
        /\ ledger'[m].release = 0
        /\ ledger'[m].refund = ledger[m].refund + funded[m]
    <3>1. ledger[m] \in MilestoneLedger
      BY <2>1 DEF TypeOK
    <3> QED
      BY <1>2, <1>3, <3>1
  <2>4. Locked'[m] = 0
    BY <2>1, <2>2, <2>3 DEF Locked
  <2>5. ledger'[m].fund = ledger'[m].refund + ledger'[m].release + Locked'[m]
    <3>1. ledger[m].fund = ledger[m].refund + ledger[m].release + Locked[m]
      BY <2>1 DEF RowOK
    <3> QED
      BY <1>2, <2>1, <2>3, <2>4, <3>1, RowType
  <2>6. status'[DealOf[m]] # "none"
    <3>1. status[DealOf[m]] # "none"
      BY <1>2, <2>1 DEF RowOK
    <3> QED
      BY <1>2, <3>1 DEF DealsStay
  <2> QED
    BY <2>2, <2>3, <2>4, <2>5, <2>6 DEF RowOK
<1>5. ASSUME NEW m \in Milestones \ ms
      PROVE  RowOK(m)' /\ Locked'[m] = Locked[m]
  <2>1. DealOf[m] \in Deals /\ RowOK(m)
    BY RowsAssumption DEF MoneyOK
  <2>2. /\ mstatus'[m] = mstatus[m] /\ funded'[m] = funded[m]
        /\ ledger'[m] = ledger[m]
    BY <1>3
  <2> QED
    BY <2>1, <2>2, RowKept DEF DealsStay
<1>6. EscrowBacked'
  <2>1. \A u \in Users : escrow[u] = Total(Locked, BoughtBy(u))
    BY DEF MoneyOK, EscrowBacked
  <2>2. /\ Total(Locked', BoughtBy(b))
              = Total(Locked, BoughtBy(b)) - Total(Locked, ms)
        /\ Total(Locked, ms) \in Nat
        /\ Total(Locked, BoughtBy(b)) \in Nat
        /\ Total(Locked, ms) <= Total(Locked, BoughtBy(b))
    <3>1. IsFiniteSet(BoughtBy(b)) /\ BoughtBy(b) \in SUBSET Milestones
      BY BoughtFinite
    <3>2. \A m \in BoughtBy(b) : Locked[m] \in Nat
      BY <3>1, RowType
    <3>3. \A m \in ms : Locked'[m] = 0
      BY <1>4
    <3>4. \A m \in BoughtBy(b) \ ms : Locked'[m] = Locked[m]
      BY <1>5, <3>1
    <3> HIDE DEF ms, b
    <3> QED
      BY <1>1, <3>1, <3>2, <3>3, <3>4, TotalClear
  <2>3. Total(Locked, ms) = sum
    <3>1. \A m \in ms : Locked[m] = funded[m]
      BY <1>2
    <3> HIDE DEF ms
    <3> QED
      BY <3>1, TotalSame
  <2>4. ASSUME NEW u \in Users, u # b
        PROVE  Total(Locked', BoughtBy(u)) = Total(Locked, BoughtBy(u))
    <3>1. \A m \in BoughtBy(u) : m \in Milestones \ ms
      BY <1>1, <2>4 DEF BoughtBy
    <3>2. \A m \in BoughtBy(u) : Locked'[m] = Locked[m]
      BY <1>5, <3>1
    <3> QED
      BY <3>2, TotalSame
  <2>5. escrow' = [escrow EXCEPT ![b] = Minus(escrow[b], sum)]
    BY DEF RefundMilestones
  <2>6. escrow \in [Users -> Nat]
    BY DEF TypeOK
  <2>7. Minus(escrow[b], sum) = Total(Locked', BoughtBy(b))
    BY <1>1, <2>1, <2>2, <2>3 DEF Minus
  <2>8. \A u \in Users : escrow'[u] = Total(Locked', BoughtBy(u))
    BY <1>1, <2>1, <2>4, <2>5, <2>6, <2>7
  <2> QED
    BY <2>8 DEF EscrowBacked, BoughtBy
<1> QED
  BY <1>4, <1>5, <1>6 DEF MoneyOK

\* A release pays what the milestone holds, all of it, and finds it in escrow.
LEMMA ReleaseMoney ==
    ASSUME TypeOK, MoneyOK, NEW m \in Milestones, UnderReview(m), Release(m)
    PROVE  MoneyOK'
<1> DEFINE b == Buyer[DealOf[m]]
           pay == ReleaseAmount(m)
<1>1. RowOK(m)
  BY DEF MoneyOK
<1>2. isFunded[m] /\ ledger[m].release = 0 /\ mstatus[m] # "absent"
  BY <1>1, RowType DEF RowOK, UnderReview
<1>3. pay = funded[m] /\ pay = amount[m] /\ Locked[m] = pay /\ pay > 0
  BY <1>1, <1>2, RowType DEF RowOK, ReleaseAmount
<1>4. /\ mstatus'[m] = "completed"
      /\ funded' = funded /\ isFunded' = isFunded /\ amount' = amount
  BY DEF Release, TypeOK
<1>5. ledger' = [ledger EXCEPT ![m].release = @ + pay]
  BY DEF Release
<1>6. /\ ledger'[m].fund = ledger[m].fund
      /\ ledger'[m].release = pay
      /\ ledger'[m].refund = ledger[m].refund
  <2>1. ledger[m] \in MilestoneLedger /\ m \in DOMAIN ledger
    BY DEF TypeOK
  <2>2. pay \in Nat
    BY <1>3, RowType
  <2> HIDE DEF pay
  <2> QED
    BY <1>2, <1>5, <2>1, <2>2
<1>7. Locked'[m] = 0
  BY <1>3, <1>6 DEF Locked
<1>8. status'[DealOf[m]] = "none" => status[DealOf[m]] = "none"
  BY RowType DEF Release, TypeOK
<1>9. RowOK(m)'
  <2>1. ledger'[m].fund = ledger'[m].refund + ledger'[m].release + Locked'[m]
    BY <1>1, <1>2, <1>3, <1>6, <1>7, RowType DEF RowOK
  <2>2. status'[DealOf[m]] # "none"
    BY <1>1, <1>2, <1>8 DEF RowOK
  <2>3. funded'[m] = amount'[m] /\ funded'[m] > 0 /\ ledger'[m].release = amount'[m]
    BY <1>3, <1>4, <1>6
  <2>4. isFunded'[m]
    BY <1>2, <1>4
  <2> QED
    BY <1>4, <2>1, <2>2, <2>3, <2>4 DEF RowOK
<1>10. ASSUME NEW n \in Milestones \ {m}
       PROVE  RowOK(n)' /\ Locked'[n] = Locked[n]
  <2>1. mstatus'[n] = mstatus[n] /\ ledger'[n] = ledger[n]
    BY DEF Release, TypeOK
  <2>2. status'[DealOf[n]] = "none" => status[DealOf[n]] = "none"
    BY RowsAssumption DEF Release, TypeOK
  <2> QED
    BY <1>4, <2>1, <2>2, RowKept DEF MoneyOK
<1>11. EscrowBacked'
  <2>1. \A n \in Milestones : Locked[n] \in Nat /\ Locked'[n] \in Nat
    BY <1>7, <1>10, RowType
  <2>2. escrow \in [Users -> Nat]
    BY DEF TypeOK
  <2>3. \A u \in Users : escrow[u] = Total(Locked, BoughtBy(u))
    BY DEF MoneyOK, EscrowBacked
  <2>4. /\ Locked[m] <= escrow[b]
        /\ \A u \in Users :
             [escrow EXCEPT ![b] = escrow[b] - Locked[m] + Locked'[m]][u]
               = Total(Locked', BoughtBy(u))
    BY <1>10, <2>1, <2>2, <2>3, BalanceUpdate
  <2>5. escrow' = [escrow EXCEPT ![b] = Minus(escrow[b], pay)]
    BY DEF Release
  <2>6. Minus(escrow[b], pay) = escrow[b] - Locked[m] + Locked'[m]
    BY <1>3, <1>7, <2>2, <2>4, RowType DEF Minus
  <2> QED
    BY <2>4, <2>5, <2>6 DEF EscrowBacked, BoughtBy
<1> QED
  BY <1>9, <1>10, <1>11 DEF MoneyOK

-----------------------------------------------------------------------------
(* Steps that change a status or a price, never the money of a row *)

LEMMA RowsEdited ==
    ASSUME TypeOK, MoneyOK,
           UNCHANGED <<funded, isFunded, ledger, escrow>>,
           \A m \in Milestones : RowOK(m)'
    PROVE  MoneyOK'
<1>1. EscrowBacked'
  BY SameEscrow DEF MoneyOK
<1> QED
  BY <1>1 DEF MoneyOK

LEMMA CreateDealMoney ==
    ASSUME TypeOK, MoneyOK, NEW t \in Deals, CreateDeal(t)
    PROVE  MoneyOK'
<1>a. PICK ms \in SUBSET MilestonesOf(t) : \E price \in [ms -> Amounts] :
        /\ mstatus' = [m \in Milestones |->
                         IF m \in ms THEN "pending" ELSE mstatus[m]]
        /\ amount' = [m \in Milestones |->
                        IF m \in ms THEN price[m] ELSE amount[m]]
  BY DEF CreateDeal
<1>1. UNCHANGED <<funded, isFunded, ledger, escrow>>
  BY DEF CreateDeal, moneyVars
<1>2. ASSUME NEW m \in ms
      PROVE  RowOK(m)'
  <2>1. m \in Milestones /\ DealOf[m] = t /\ RowOK(m)
    BY DEF MilestonesOf, MoneyOK
  <2>2. funded[m] = 0 /\ ~isFunded[m] /\ ledger[m].release = 0
    BY <2>1, RowType DEF CreateDeal, RowOK
  <2>3. status'[DealOf[m]] # "none" /\ mstatus'[m] = "pending"
    BY <1>a, <2>1 DEF CreateDeal, TypeOK
  <2>4. funded'[m] = 0 /\ ~isFunded'[m] /\ ledger'[m] = ledger[m]
    BY <1>1, <2>2
  <2>5. ledger'[m].fund = ledger'[m].refund + ledger'[m].release + Locked'[m]
    BY <1>1, <2>1, <2>2 DEF RowOK, Locked
  <2> QED
    BY <2>2, <2>3, <2>4, <2>5 DEF RowOK
<1>3. ASSUME NEW m \in Milestones \ ms
      PROVE  RowOK(m)'
  <2>1. RowOK(m) /\ DealOf[m] \in Deals
    BY RowsAssumption DEF MoneyOK
  <2>2. mstatus'[m] = mstatus[m] /\ amount'[m] = amount[m]
    BY <1>a
  <2>3. status'[DealOf[m]] = "none" => status[DealOf[m]] = "none"
    BY <2>1 DEF CreateDeal, TypeOK
  <2> QED
    BY <1>1, <2>1, <2>2, <2>3, RowKept
<1> QED
  BY <1>1, <1>2, <1>3, RowsEdited

LEMMA CreateMilestoneMoney ==
    ASSUME TypeOK, MoneyOK, NEW m \in Milestones, CreateMilestone(m)
    PROVE  MoneyOK'
<1>1. UNCHANGED <<status, funded, isFunded, ledger, escrow>>
  BY DEF CreateMilestone, moneyVars, dealVars
<1>2. RowOK(m)'
  <2>1. RowOK(m)
    BY DEF MoneyOK
  <2>2. funded[m] = 0 /\ ~isFunded[m] /\ ledger[m].release = 0
    BY <2>1, RowType DEF CreateMilestone, RowOK
  <2>3. status'[DealOf[m]] # "none" /\ mstatus'[m] = "pending"
    BY <1>1 DEF CreateMilestone, TypeOK
  <2>4. funded'[m] = 0 /\ ~isFunded'[m] /\ ledger'[m] = ledger[m]
    BY <1>1, <2>2
  <2>5. ledger'[m].fund = ledger'[m].refund + ledger'[m].release + Locked'[m]
    BY <1>1, <2>1, <2>2 DEF RowOK, Locked
  <2> QED
    BY <2>2, <2>3, <2>4, <2>5 DEF RowOK
<1>3. ASSUME NEW n \in Milestones \ {m}
      PROVE  RowOK(n)'
  <2>1. mstatus'[n] = mstatus[n] /\ amount'[n] = amount[n]
    BY DEF CreateMilestone, TypeOK
  <2> QED
    BY <1>1, <2>1, RowKept DEF MoneyOK
<1> QED
  BY <1>1, <1>2, <1>3, RowsEdited

\* Moving a milestone from one status of the work to another.
LEMMA WorkStep ==
    ASSUME TypeOK, MoneyOK, NEW m \in Milestones,
           DealsStay,
           isFunded[m],
           mstatus[m] \notin {"absent", "completed", "disputed"},
           mstatus'[m] \notin {"absent"},
           \A n \in Milestones \ {m} : mstatus'[n] = mstatus[n],
           UNCHANGED <<amount, funded, isFunded, ledger, escrow>>
    PROVE  MoneyOK'
<1>1. RowOK(m)'
  <2>1. RowOK(m) /\ DealOf[m] \in Deals
    BY RowsAssumption DEF MoneyOK
  <2>2. status'[DealOf[m]] # "none"
    BY <2>1 DEF RowOK, DealsStay
  <2>3. ~(ledger'[m].release > 0)
    BY <2>1 DEF RowOK
  <2>4. ledger'[m].fund = ledger'[m].refund + ledger'[m].release + Locked'[m]
    BY <2>1 DEF RowOK, Locked
  <2> QED
    BY <2>1, <2>2, <2>3, <2>4 DEF RowOK
<1>2. ASSUME NEW n \in Milestones \ {m}
      PROVE  RowOK(n)'
  <2>1. DealOf[n] \in Deals /\ RowOK(n)
    BY RowsAssumption DEF MoneyOK
  <2> QED
    BY <2>1, RowKept DEF DealsStay
<1> QED
  BY <1>1, <1>2, RowsEdited

LEMMA OpenDisputeMoney ==
    ASSUME TypeOK, MoneyOK, NEW t \in Deals, NEW ms \in SUBSET Present(t),
           OpenDispute(t, ms)
    PROVE  MoneyOK'
<1>1. UNCHANGED <<amount, funded, isFunded, ledger, escrow>>
  BY DEF OpenDispute, moneyVars
<1>2. DealsStay
  BY DEF OpenDispute, TypeOK, DealsStay
<1>3. ASSUME NEW m \in ms
      PROVE  RowOK(m)'
  <2>1. m \in Milestones /\ DealOf[m] = t /\ RowOK(m)
    BY DEF Present, MilestonesOf, MoneyOK
  <2>2. mstatus'[m] = "disputed" /\ status'[DealOf[m]] # "none"
    BY <2>1 DEF OpenDispute, TypeOK
  <2>3. ledger'[m].fund = ledger'[m].refund + ledger'[m].release + Locked'[m]
    BY <1>1, <2>1 DEF RowOK, Locked
  <2> QED
    BY <1>1, <2>1, <2>2, <2>3 DEF RowOK
<1>4. ASSUME NEW m \in Milestones \ ms
      PROVE  RowOK(m)'
  <2>1. DealOf[m] \in Deals /\ RowOK(m)
    BY RowsAssumption DEF MoneyOK
  <2>2. mstatus'[m] = mstatus[m]
    BY DEF OpenDispute
  <2> QED
    BY <1>1, <1>2, <2>1, <2>2, RowKept DEF DealsStay
<1> QED
  BY <1>1, <1>3, <1>4, RowsEdited

-----------------------------------------------------------------------------
(* Every step *)

LEMMA InvitationMoney ==
    ASSUME TypeOK, MoneyOK, NEW t \in Deals, InvitationStep(t)
    PROVE  MoneyOK'
<1>1. CASE CreateDeal(t)
  BY <1>1, CreateDealMoney
<1>2. CASE AcceptDeal(t)
  BY <1>2, QuietStep DEF AcceptDeal, DealsStay, TypeOK, msVars, moneyVars
<1>3. CASE DeclineDeal(t)
  BY <1>3, QuietStep DEF DeclineDeal, DealsStay, TypeOK, msVars, moneyVars
<1>4. CASE CancelDeal(t)
  BY <1>4, QuietStep DEF CancelDeal, DealsStay, TypeOK, msVars
<1>5. CASE ExpireInvitation(t)
  BY <1>5, QuietStep DEF ExpireInvitation, DealsStay, TypeOK, msVars
<1> QED
  BY <1>1, <1>2, <1>3, <1>4, <1>5 DEF InvitationStep

LEMMA EnforceMoney ==
    ASSUME TypeOK, MoneyOK, NEW t \in Deals, EnforceDeadline(t)
    PROVE  MoneyOK'
<1>1. /\ RefundMilestones(t, PartlyFunded(t))
      /\ UNCHANGED <<amount, isFunded>>
  BY DEF EnforceDeadline, CancelUnfundedDeal, RefundPartialLocks
<1>2. DealsStay
  BY DEF EnforceDeadline, CancelUnfundedDeal, RefundPartialLocks, DealsStay,
         TypeOK
<1> QED
  BY <1>1, <1>2, RefundMoney

LEMMA DeadlineMoney ==
    ASSUME TypeOK, MoneyOK, NEW t \in Deals, DeadlineStep(t)
    PROVE  MoneyOK'
<1>1. CASE DeadlinePasses(t)
  BY <1>1, QuietStep DEF DeadlinePasses, DealsStay, msVars, moneyVars
<1>2. CASE EnforceDeadline(t)
  BY <1>2, EnforceMoney
<1>3. CASE UNCHANGED <<dealVars, msVars, moneyVars>>
  BY <1>3, QuietStep DEF DealsStay, dealVars, msVars, moneyVars
<1>4. CASE RefundFeesAfterDeadline(t)
  BY <1>4, QuietStep DEF RefundFeesAfterDeadline, DealsStay, dealVars, msVars
<1> QED
  BY <1>1, <1>2, <1>3, <1>4
  DEF DeadlineStep, EnforceOnAccess, EnforceTask, CrashAfterCancel

LEMMA DisputeMoney ==
    ASSUME TypeOK, MoneyOK, NEW t \in Deals, DisputeStep(t)
    PROVE  MoneyOK'
<1>1. CASE OpenDispute(t, {})
  BY <1>1, OpenDisputeMoney
<1>2. ASSUME NEW m \in Present(t), OpenDispute(t, {m})
      PROVE  MoneyOK'
  BY <1>2, OpenDisputeMoney
<1>3. CASE ResolveDispute(t)
  BY <1>3, QuietStep DEF ResolveDispute, DealsStay, TypeOK, msVars
<1> QED
  BY <1>1, <1>2, <1>3 DEF DisputeStep

LEMMA AutoReleaseMoney ==
    ASSUME TypeOK, MoneyOK, NEW m \in Milestones, AutoRelease(m)
    PROVE  MoneyOK'
<1>1. CASE ReadyForAutoRelease(m) /\ Release(m)
  BY <1>1, ReleaseMoney DEF ReadyForAutoRelease
<1>2. CASE UNCHANGED <<dealVars, msVars, moneyVars, feeVars>>
  BY <1>2, QuietStep DEF DealsStay, dealVars, msVars, moneyVars
<1> QED
  BY <1>1, <1>2 DEF AutoRelease

\* Work only moves on a milestone that is fully funded.
LEMMA WorkIsFunded ==
    ASSUME MoneyOK, NEW m \in Milestones,
           mstatus[m] \notin {"absent", "pending", "disputed"}
    PROVE  isFunded[m]
BY DEF MoneyOK, RowOK

LEMMA MilestoneMoney ==
    ASSUME TypeOK, MoneyOK, NEW m \in Milestones, MilestoneStep(m)
    PROVE  MoneyOK'
<1>1. CASE CreateMilestone(m)
  BY <1>1, CreateMilestoneMoney
<1>2. ASSUME NEW pay \in 1 .. amount[m], FundMilestone(m, pay)
      PROVE  MoneyOK'
  <2>1. pay \in Nat \ {0}
    OBVIOUS
  <2> QED
    BY <1>2, <2>1, FundMoney
<1>3. CASE StartWork(m)
  BY <1>3, WorkStep DEF StartWork, DealsStay, TypeOK, dealVars, moneyVars
<1>4. ASSUME NEW ok \in BOOLEAN, SubmitDelivery(m, ok)
      PROVE  MoneyOK'
  <2>1. DealsStay
    BY <1>4, RowsAssumption DEF SubmitDelivery, DealsStay, TypeOK
  <2> QED
    BY <1>4, <2>1, WorkStep DEF SubmitDelivery, TypeOK, moneyVars
<1>5. CASE ApproveMilestone(m)
  BY <1>5, ReleaseMoney DEF ApproveMilestone
<1>6. CASE RequestRevision(m)
  <2>1. isFunded[m]
    BY <1>6, WorkIsFunded DEF RequestRevision, UnderReview
  <2> QED
    BY <1>6, <2>1, WorkStep
    DEF RequestRevision, UnderReview, DealsStay, TypeOK, dealVars, moneyVars
<1>7. CASE ReviewWindowEnds(m)
  BY <1>7, QuietStep DEF ReviewWindowEnds, DealsStay, dealVars, moneyVars
<1>8. CASE AutoRelease(m)
  BY <1>8, AutoReleaseMoney
<1> QED
  BY <1>1, <1>2, <1>3, <1>4, <1>5, <1>6, <1>7, <1>8
  DEF MilestoneStep, RunReleaseTask, RunStaleTask

LEMMA StepMoney == TypeOK /\ MoneyOK /\ [Next]_vars => MoneyOK'
<1> SUFFICES ASSUME TypeOK, MoneyOK, [Next]_vars
             PROVE  MoneyOK'
  OBVIOUS
<1>1. CASE \E u \in Users : SetFrozen(u)
  BY <1>1, QuietStep DEF SetFrozen, DealsStay, dealVars, msVars
<1>2. CASE SelectStaleInvitations
  BY <1>2, QuietStep
  DEF SelectStaleInvitations, DealsStay, dealVars, msVars, moneyVars
<1>3. CASE UNCHANGED vars
  BY <1>3, QuietStep DEF vars, DealsStay, dealVars, msVars, moneyVars
<1> QED
  BY <1>1, <1>2, <1>3, InvitationMoney, DeadlineMoney, DisputeMoney,
     MilestoneMoney DEF Next

LEMMA InitMoney == Init => MoneyOK
<1> SUFFICES ASSUME Init PROVE MoneyOK
  OBVIOUS
<1>1. TypeOK
  BY InitType
<1>2. ASSUME NEW m \in Milestones
      PROVE  RowOK(m) /\ Locked[m] = 0
  BY DEF Init, RowOK, Locked
<1>3. ASSUME NEW u \in Users
      PROVE  escrow[u] = Total(Locked, BoughtBy(u))
  <2>1. \A m \in BoughtBy(u) : Locked[m] = 0
    BY <1>2, BoughtFinite
  <2>2. Total(Locked, BoughtBy(u)) = 0
    BY <2>1, TotalZero
  <2> QED
    BY <2>2 DEF Init
<1> QED
  BY <1>2, <1>3 DEF MoneyOK, EscrowBacked

\* EscrowInv is inductive.
THEOREM EscrowInvariant == Spec => []EscrowInv
<1>1. Init => EscrowInv
  BY InitType, InitMoney, InvByRows
<1>2. EscrowInv /\ [Next]_vars => EscrowInv'
  <2> SUFFICES ASSUME EscrowInv, [Next]_vars PROVE EscrowInv'
    OBVIOUS
  <2>1. TypeOK /\ MoneyOK
    BY InvByRows
  <2>2. TypeOK' /\ MoneyOK'
    BY <2>1, StepType, StepMoney
  <2> QED
    BY <2>2 DEF EscrowInv, MoneyOK, RowOK, RowsAgree, FundedMeansFull,
                PaidOnceInFull, LedgerBalanced, EscrowBacked
<1> QED
  BY <1>1, <1>2, PTL DEF Spec

\* A user's escrow balance is always what the milestones the user bought hold,
\* however many deals share it: a release or a deadline refund never takes
\* the money of another milestone, and the max(0, ...) clamps never act.
THEOREM EscrowIsBacked == Spec => []EscrowBacked
<1>1. EscrowInv => EscrowBacked
  BY DEF EscrowInv
<1> QED
  BY <1>1, EscrowInvariant, PTL

\* A milestone is paid at most once and in full, whoever approves it and
\* however often its auto-release messages arrive.
THEOREM MilestonePaidOnce == Spec => []PaidOnceInFull
<1>1. EscrowInv => PaidOnceInFull
  BY DEF EscrowInv
<1> QED
  BY <1>1, EscrowInvariant, PTL

\* What was locked for a milestone was refunded, released or is still held.
THEOREM MilestoneLedgerBalanced == Spec => []LedgerBalanced
<1>1. EscrowInv => LedgerBalanced
  BY DEF EscrowInv
<1> QED
  BY <1>1, EscrowInvariant, PTL

\* Work, review and release only happen to milestones that are fully funded.
THEOREM FullyFundedBeforeWork == Spec => []FundedMeansFull
<1>1. EscrowInv => FundedMeansFull
  BY DEF EscrowInv
<1> QED
  BY <1>1, EscrowInvariant, PTL

-----------------------------------------------------------------------------
(* What the status of a deal tells about its money *)

\* StatusTellsFunding and CompletedIsDrained for one deal.  The milestones
\* that are not there yet hold nothing, so all its rows may be looked at.
StatusOK(t) ==
    /\ status[t] # "pending_acceptance"
    /\ status[t] \in {"pending_approval", "funding_in_progress"} =>
         \A m \in MilestonesOf(t) : funded[m] = 0
    /\ status[t] = "partially_funded" =>
         /\ \A m \in MilestonesOf(t) : ~isFunded[m]
         /\ \E m \in MilestonesOf(t) : funded[m] > 0
    /\ status[t] \in {"active", "in_progress"} =>
         \E m \in MilestonesOf(t) : isFunded[m]
    /\ status[t] = "completed" /\ ~hasDispute[t] =>
         \A m \in MilestonesOf(t) : Locked[m] = 0

\* A completed milestone holds nothing any more.
PaidOut == \A m \in Milestones : mstatus[m] = "completed" => Locked[m] = 0

StatusInv == PaidOut /\ \A t \in Deals : StatusOK(t)

\* The ways in which a status moves without money.
StatusMoves(t) ==
    \/ status'[t] = status[t]
    \/ status'[t] \in {"disputed", "cancelled"}
    \/ status[t] = "pending_approval" /\ status'[t] = "funding_in_progress"
    \/ status[t] = "active" /\ status'[t] = "in_progress"
    \/ status'[t] = "completed" /\ hasDispute'[t]

\* A step that moves no money and completes no milestone.
LEMMA QuietStatus ==
    ASSUME StatusInv,
           UNCHANGED <<funded, isFunded, ledger>>,
           \A t \in Deals : StatusMoves(t) /\ (hasDispute[t] => hasDispute'[t]),
           \A m \in Milestones : mstatus'[m] = "completed" => mstatus[m] = "completed"
    PROVE  StatusInv'
<1>1. UNCHANGED Locked
  BY DEF Locked
<1>2. PaidOut'
  BY <1>1 DEF StatusInv, PaidOut
<1>3. ASSUME NEW t \in Deals
      PROVE  StatusOK(t)'
  <2>1. StatusOK(t) /\ StatusMoves(t) /\ (hasDispute[t] => hasDispute'[t])
    BY DEF StatusInv
  <2>2. hasDispute'[t] \/ ~hasDispute[t]
    BY <2>1
  <2> QED
    BY <1>1, <2>1, <2>2 DEF StatusOK, StatusMoves, MilestonesOf
<1> QED
  BY <1>2, <1>3 DEF StatusInv

\* A new deal holds nothing: its rows are new as well.
LEMMA CreateDealStatus ==
    ASSUME TypeOK, MoneyOK, StatusInv, NEW t \in Deals, CreateDeal(t)
    PROVE  StatusInv'
<1>1. UNCHANGED <<funded, isFunded, ledger, hasDispute>>
  BY DEF CreateDeal, moneyVars
<1>2. UNCHANGED Locked
  BY <1>1 DEF Locked
<1>3. \A m \in Milestones : mstatus'[m] = "completed" => mstatus[m] = "completed"
  BY DEF CreateDeal
<1>4. PaidOut'
  BY <1>2, <1>3 DEF StatusInv, PaidOut
<1>5. /\ status'[t] = "pending_approval"
      /\ \A d \in Deals : d # t => status'[d] = status[d]
  BY DEF CreateDeal, TypeOK
<1>6. \A m \in MilestonesOf(t) : funded[m] = 0
  BY DEF CreateDeal, MilestonesOf, MoneyOK, RowOK
<1>7. ASSUME NEW d \in Deals
      PROVE  StatusOK(d)'
  <2>1. CASE d = t
    BY <1>1, <1>5, <1>6, <2>1 DEF StatusOK, MilestonesOf
  <2>2. CASE d # t
    BY <1>1, <1>2, <1>5, <2>2 DEF StatusInv, StatusOK, MilestonesOf
  <2> QED
    BY <2>1, <2>2
<1> QED
  BY <1>4, <1>7 DEF StatusInv

\* A milestone that is completed cannot be funded; the status is set from what
\* the milestones hold after the payment.
LEMMA FundStatus ==
    ASSUME TypeOK, MoneyOK, StatusInv, NEW m \in Milestones,
           NEW pay \in Nat \ {0}, FundMilestone(m, pay)
    PROVE  StatusInv'
<1> DEFINE t == DealOf[m]
           full == funded[m] + pay = amount[m]
<1>1. t \in Deals /\ m \in MilestonesOf(t) /\ funded[m] \in Nat
  BY RowType DEF MilestonesOf
<1>2. /\ funded'[m] = funded[m] + pay /\ isFunded'[m] = full
      /\ \A n \in Milestones : n # m =>
           /\ funded'[n] = funded[n] /\ isFunded'[n] = isFunded[n]
           /\ mstatus'[n] = mstatus[n]
      /\ mstatus'[m] # "completed"
  BY DEF FundMilestone, TypeOK
<1>3. UNCHANGED hasDispute
  BY DEF FundMilestone
<1>4. \A n \in Milestones : ledger'[n].release = ledger[n].release
  <2>1. ledger' = [ledger EXCEPT ![m].fund = @ + pay] /\ ledger \in [Milestones -> MilestoneLedger]
    BY DEF FundMilestone, TypeOK
  <2> QED
    BY <2>1
<1>5. \A n \in Milestones : n # m => Locked'[n] = Locked[n]
  BY <1>2, <1>4 DEF Locked
<1>6. PaidOut'
  BY <1>2, <1>5 DEF StatusInv, PaidOut
<1>7. /\ status'[t] = IF full \/ FullyFunded(t) # {} THEN "active"
                      ELSE "partially_funded"
      /\ \A d \in Deals : d # t => status'[d] = status[d]
  BY <1>1 DEF FundMilestone, TypeOK
<1>8. ~isFunded[m]
  BY DEF FundMilestone, CanFund, MayFund
<1>9. StatusOK(t)'
  <2>1. CASE full
    BY <1>1, <1>2, <1>7, <2>1 DEF StatusOK
  <2>2. CASE ~full /\ FullyFunded(t) # {}
    <3>1. PICK n \in FullyFunded(t) : TRUE
      BY <2>2
    <3>2. n \in MilestonesOf(t) /\ n \in Milestones /\ isFunded[n] /\ n # m
      BY <1>8, <3>1 DEF FullyFunded, Present, MilestonesOf
    <3>3. isFunded'[n]
      BY <1>2, <3>2
    <3> QED
      BY <1>7, <2>2, <3>2, <3>3 DEF StatusOK
  <2>3. CASE ~full /\ FullyFunded(t) = {}
    <3>1. \A n \in MilestonesOf(t) : ~isFunded[n]
      BY <2>3 DEF FullyFunded, Present, MilestonesOf, MoneyOK, RowOK
    <3>2. \A n \in MilestonesOf(t) : ~isFunded'[n]
      BY <1>2, <2>3, <3>1 DEF MilestonesOf
    <3>3. funded'[m] > 0
      BY <1>1, <1>2
    <3> QED
      BY <1>1, <1>7, <2>3, <3>2, <3>3 DEF StatusOK, MilestonesOf
  <2> QED
    BY <2>1, <2>2, <2>3
<1>10. ASSUME NEW d \in Deals, d # t
       PROVE  StatusOK(d)'
  <2>1. \A n \in MilestonesOf(d) : n \in Milestones /\ n # m
    BY <1>10 DEF MilestonesOf
  <2>2. \A n \in MilestonesOf(d) : /\ funded'[n] = funded[n]
                                   /\ isFunded'[n] = isFunded[n]
                                   /\ Locked'[n] = Locked[n]
    BY <1>2, <1>5, <2>1
  <2>3. status'[d] = status[d] /\ hasDispute'[d] = hasDispute[d]
    BY <1>3, <1>7, <1>10
  <2> QED
    BY <2>2, <2>3 DEF StatusInv, StatusOK, MilestonesOf
<1> QED
  BY <1>6, <1>9, <1>10 DEF StatusInv

\* A deadline refund empties partial locks only; it leaves no deal that counts
\* as partially funded without one.
LEMMA EnforceStatus ==
    ASSUME TypeOK, MoneyOK, StatusInv, NEW t \in Deals, EnforceDeadline(t)
    PROVE  StatusInv'
<1>1. RefundMilestones(t, PartlyFunded(t)) /\ UNCHANGED <<isFunded, hasDispute>>
  BY DEF EnforceDeadline, CancelUnfundedDeal, RefundPartialLocks
<1>2. \A n \in Milestones :
        /\ funded'[n] = IF n \in PartlyFunded(t) THEN 0 ELSE funded[n]
        /\ mstatus'[n] = "completed" => mstatus[n] = "completed"
  BY <1>1 DEF RefundMilestones
<1>3. \A n \in Milestones : ledger'[n].release = ledger[n].release
  <2>1. ASSUME NEW n \in Milestones
        PROVE  ledger'[n].release = ledger[n].release
    <3>1. ledger[n] \in MilestoneLedger
      BY DEF TypeOK
    <3>2. ledger'[n] = IF n \in PartlyFunded(t)
                       THEN [ledger[n] EXCEPT !.refund = @ + funded[n]]
                       ELSE ledger[n]
      BY <1>1 DEF RefundMilestones
    <3> QED
      BY <3>1, <3>2
  <2> QED
    BY <2>1
<1>4. \A n \in Milestones : Locked'[n] = Locked[n] \/ Locked'[n] = 0
  BY <1>2, <1>3 DEF Locked
<1>5. PaidOut'
  BY <1>2, <1>4 DEF StatusInv, PaidOut
<1>6. \A d \in Deals : d # t => status'[d] = status[d]
  BY DEF EnforceDeadline, CancelUnfundedDeal, RefundPartialLocks, TypeOK
<1>7. \/ status'[t] = "cancelled"
      \/ status'[t] = status[t] /\ FullyFunded(t) # {}
  BY DEF EnforceDeadline, CancelUnfundedDeal, RefundPartialLocks, TypeOK
<1>8. StatusOK(t)'
  <2>1. CASE status'[t] = "cancelled"
    BY <2>1 DEF StatusOK
  <2>2. CASE status'[t] = status[t] /\ FullyFunded(t) # {}
    <3>1. StatusOK(t)
      BY DEF StatusInv
    <3>2. status[t] # "partially_funded"
      BY <2>2, <3>1 DEF StatusOK, FullyFunded, Present
    <3>3. \A n \in MilestonesOf(t) : funded[n] = 0 => funded'[n] = 0
      BY <1>2 DEF MilestonesOf
    <3>4. \A n \in MilestonesOf(t) : Locked[n] = 0 => Locked'[n] = 0
      BY <1>4 DEF MilestonesOf
    <3> QED
      BY <1>1, <2>2, <3>1, <3>2, <3>3, <3>4 DEF StatusOK, MilestonesOf
  <2> QED
    BY <1>7, <2>1, <2>2
<1>9. ASSUME NEW d \in Deals, d # t
      PROVE  StatusOK(d)'
  <2>1. \A n \in MilestonesOf(d) : n \in Milestones /\ n \notin PartlyFunded(t)
    BY <1>9 DEF PartlyFunded, Present, MilestonesOf
  <2>2. \A n \in MilestonesOf(d) : funded'[n] = funded[n]
    BY <1>2, <2>1
  <2>3. \A n \in MilestonesOf(d) : Locked'[n] = Locked[n] \/ Locked'[n] = 0
    BY <1>4, <2>1
  <2>4. StatusOK(d) /\ status'[d] = status[d]
    BY <1>6, <1>9 DEF StatusInv
  <2> QED
    BY <1>1, <2>2, <2>3, <2>4 DEF StatusOK, MilestonesOf
<1> QED
  BY <1>5, <1>8, <1>9 DEF StatusInv

\* The last release of a deal finds every other milestone paid out.
LEMMA ReleaseStatus ==
    ASSUME TypeOK, MoneyOK, StatusInv, NEW m \in Milestones, UnderReview(m),
           Release(m)
    PROVE  StatusInv'
<1> DEFINE t == DealOf[m]
           last == CompletesDeal(m)
<1>1. t \in Deals
  BY RowType
<1>2. UNCHANGED <<funded, isFunded, hasDispute>>
  BY DEF Release
<1>3. /\ mstatus'[m] = "completed"
      /\ \A n \in Milestones : n # m => mstatus'[n] = mstatus[n]
      /\ status'[t] = IF last THEN "completed" ELSE status[t]
      /\ \A d \in Deals : d # t => status'[d] = status[d]
  BY <1>1 DEF Release, TypeOK
<1>4. Locked'[m] = 0
  <2>1. isFunded[m]
    BY WorkIsFunded DEF UnderReview
  <2>2. funded[m] > 0 /\ funded[m] \in Nat /\ ledger[m].release \in Nat
    BY <2>1, RowType DEF MoneyOK, RowOK
  <2>3. ledger'[m].release = ledger[m].release + ReleaseAmount(m)
    BY DEF Release, TypeOK
  <2>4. ReleaseAmount(m) > 0 /\ ReleaseAmount(m) \in Nat
    BY <2>2 DEF ReleaseAmount
  <2>5. ledger'[m].release > 0
    BY <2>2, <2>3, <2>4
  <2> QED
    BY <2>5 DEF Locked
<1>5. \A n \in Milestones : n # m => Locked'[n] = Locked[n]
  <2>1. \A n \in Milestones : n # m => ledger'[n] = ledger[n]
    BY DEF Release, TypeOK
  <2> QED
    BY <1>2, <2>1 DEF Locked
<1>6. PaidOut'
  BY <1>3, <1>4, <1>5 DEF StatusInv, PaidOut
<1>7. ASSUME NEW d \in Deals
      PROVE  StatusOK(d)'
  <2>1. StatusOK(d)
    BY DEF StatusInv
  <2>2. \A n \in MilestonesOf(d) : Locked[n] = 0 => Locked'[n] = 0
    BY <1>4, <1>5 DEF MilestonesOf
  <2>3. CASE d = t /\ last
    <3>1. ASSUME NEW n \in MilestonesOf(t)
          PROVE  Locked'[n] = 0
      <4>1. n \in Milestones
        BY DEF MilestonesOf
      <4>2. CASE n = m
        BY <1>4, <4>2
      <4>3. CASE n # m /\ mstatus[n] = "absent"
        BY <1>5, <4>1, <4>3, RowType DEF MoneyOK, RowOK
      <4>4. CASE n # m /\ mstatus[n] # "absent"
        <5>1. mstatus[n] = "completed"
          BY <2>3, <4>4 DEF CompletesDeal, Present
        <5> QED
          BY <1>5, <4>1, <4>4, <5>1 DEF StatusInv, PaidOut
      <4> QED
        BY <4>2, <4>3, <4>4
    <3> QED
      BY <1>3, <2>3, <3>1 DEF StatusOK, MilestonesOf
  <2>4. CASE ~(d = t /\ last)
    <3>1. status'[d] = status[d]
      BY <1>3, <2>4
    <3> QED
      BY <1>2, <2>1, <2>2, <3>1 DEF StatusOK, MilestonesOf
  <2> QED
    BY <2>3, <2>4
<1> QED
  BY <1>6, <1>7 DEF StatusInv

LEMMA InvitationStatus ==
    ASSUME TypeOK, MoneyOK, StatusInv, NEW t \in Deals, InvitationStep(t)
    PROVE  StatusInv'
<1>1. CASE CreateDeal(t)
  BY <1>1, CreateDealStatus
<1>2. CASE AcceptDeal(t)
  <2>1. status[t] = "pending_approval"
    BY <1>2 DEF AcceptDeal, StatusInv, StatusOK
  <2>2. \A d \in Deals : StatusMoves(d)
    BY <1>2, <2>1 DEF AcceptDeal, StatusMoves, TypeOK
  <2> QED
    BY <1>2, <2>2, QuietStatus DEF AcceptDeal, msVars, moneyVars
<1>3. CASE DeclineDeal(t) \/ CancelDeal(t) \/ ExpireInvitation(t)
  <2>1. \A d \in Deals : StatusMoves(d)
    BY <1>3 DEF DeclineDeal, CancelDeal, ExpireInvitation, StatusMoves, TypeOK
  <2> QED
    BY <1>3, <2>1, QuietStatus
    DEF DeclineDeal, CancelDeal, ExpireInvitation, msVars, moneyVars
<1> QED
  BY <1>1, <1>2, <1>3 DEF InvitationStep

LEMMA DeadlineStatus ==
    ASSUME TypeOK, MoneyOK, StatusInv, NEW t \in Deals, DeadlineStep(t)
    PROVE  StatusInv'
<1>1. CASE EnforceDeadline(t)
  BY <1>1, EnforceStatus
<1>2. CASE UNCHANGED <<status, hasDispute, msVars, ledger>>
  BY <1>2, QuietStatus DEF StatusMoves, msVars
<1> QED
  BY <1>1, <1>2
  DEF DeadlineStep, DeadlinePasses, EnforceOnAccess, EnforceTask,
      RefundFeesAfterDeadline, CrashAfterCancel, dealVars, moneyVars

LEMMA DisputeStatus ==
    ASSUME TypeOK, StatusInv, NEW t \in Deals, DisputeStep(t)
    PROVE  StatusInv'
<1>1. ASSUME NEW ms, OpenDispute(t, ms)
      PROVE  StatusInv'
  <2>1. \A d \in Deals : StatusMoves(d) /\ (hasDispute[d] => hasDispute'[d])
    BY <1>1 DEF OpenDispute, StatusMoves, TypeOK
  <2>2. \A m \in Milestones : mstatus'[m] = "completed" => mstatus[m] = "completed"
    BY <1>1 DEF OpenDispute
  <2> QED
    BY <1>1, <2>1, <2>2, QuietStatus DEF OpenDispute, moneyVars
<1>2. CASE ResolveDispute(t)
  <2>1. \A d \in Deals : StatusMoves(d)
    BY <1>2 DEF ResolveDispute, StatusMoves, TypeOK
  <2> QED
    BY <1>2, <2>1, QuietStatus DEF ResolveDispute, msVars
<1> QED
  BY <1>1, <1>2 DEF DisputeStep

LEMMA MilestoneStatusStep ==
    ASSUME TypeOK, MoneyOK, StatusInv, NEW m \in Milestones, MilestoneStep(m)
    PROVE  StatusInv'
<1>1. ASSUME NEW pay \in 1 .. amount[m], FundMilestone(m, pay)
      PROVE  StatusInv'
  <2>1. pay \in Nat \ {0}
    OBVIOUS
  <2> QED
    BY <1>1, <2>1, FundStatus
<1>2. CASE UnderReview(m) /\ Release(m)
  BY <1>2, ReleaseStatus
<1>3. CASE CreateMilestone(m) \/ StartWork(m) \/ RequestRevision(m)
  <2>1. \A n \in Milestones : mstatus'[n] = "completed" => mstatus[n] = "completed"
    BY <1>3 DEF CreateMilestone, StartWork, RequestRevision, TypeOK
  <2> QED
    BY <1>3, <2>1, QuietStatus
    DEF CreateMilestone, StartWork, RequestRevision, StatusMoves, dealVars, moneyVars
<1>4. ASSUME NEW ok \in BOOLEAN, SubmitDelivery(m, ok)
      PROVE  StatusInv'
  <2>1. \A n \in Milestones : mstatus'[n] = "completed" => mstatus[n] = "completed"
    BY <1>4 DEF SubmitDelivery, TypeOK
  <2>2. \A d \in Deals : StatusMoves(d)
    BY <1>4, RowType DEF SubmitDelivery, StatusMoves, TypeOK
  <2> QED
    BY <1>4, <2>1, <2>2, QuietStatus DEF SubmitDelivery, moneyVars
<1>5. CASE UNCHANGED <<dealVars, mstatus, funded, isFunded, ledger>>
  BY <1>5, QuietStatus DEF StatusMoves, dealVars
<1> QED
  BY <1>1, <1>2, <1>3, <1>4, <1>5
  DEF MilestoneStep, ApproveMilestone, ReviewWindowEnds, RunReleaseTask,
      RunStaleTask, AutoRelease, ReadyForAutoRelease, msVars, moneyVars

LEMMA StepStatus == TypeOK /\ MoneyOK /\ StatusInv /\ [Next]_vars => StatusInv'
<1> SUFFICES ASSUME TypeOK, MoneyOK, StatusInv, [Next]_vars
             PROVE  StatusInv'
  OBVIOUS
<1>1. CASE UNCHANGED <<dealVars, msVars, ledger>>
  BY <1>1, QuietStatus DEF StatusMoves, dealVars, msVars
<1> QED
  BY <1>1, InvitationStatus, DeadlineStatus, DisputeStatus, MilestoneStatusStep
  DEF Next, SetFrozen, SelectStaleInvitations, vars, moneyVars

LEMMA InitStatus == Init => StatusInv
BY DEF Init, StatusInv, PaidOut, StatusOK, Locked, MilestonesOf

LEMMA StatusInvariant == Spec => [](EscrowInv /\ StatusInv)
<1>1. Init => StatusInv
  BY InitStatus
<1>2. EscrowInv /\ StatusInv /\ [Next]_vars => StatusInv'
  BY InvByRows, StepStatus
<1> QED
  BY <1>1, <1>2, EscrowInvariant, PTL DEF Spec

\* The status of a deal in its funding phase tells what its milestones hold,
\* for any number of deals and milestones, prices and payments.
THEOREM DealStatusTellsFunding == Spec => []StatusTellsFunding
<1>1. EscrowInv /\ StatusInv => StatusTellsFunding
  <2> SUFFICES ASSUME EscrowInv, StatusInv, NEW t \in Deals
               PROVE  /\ status[t] \in {"pending_approval", "funding_in_progress"} =>
                           \A m \in Present(t) : funded[m] = 0
                      /\ status[t] = "partially_funded" =>
                           FullyFunded(t) = {} /\ PartlyFunded(t) # {}
                      /\ status[t] \in {"active", "in_progress"} => FullyFunded(t) # {}
    BY DEF StatusTellsFunding
  <2>1. StatusOK(t)
    BY DEF StatusInv
  <2>2. ASSUME NEW m \in MilestonesOf(t), isFunded[m] \/ funded[m] > 0
        PROVE  m \in Present(t)
    BY <2>2 DEF MilestonesOf, Present, EscrowInv, RowsAgree
  <2>3. Present(t) \subseteq MilestonesOf(t)
    BY DEF Present
  <2>4. status[t] \in {"pending_approval", "funding_in_progress"} =>
          \A m \in Present(t) : funded[m] = 0
    BY <2>1, <2>3 DEF StatusOK
  <2>5. status[t] = "partially_funded" =>
          FullyFunded(t) = {} /\ PartlyFunded(t) # {}
    BY <2>1, <2>2, <2>3 DEF StatusOK, FullyFunded, PartlyFunded
  <2>6. status[t] \in {"active", "in_progress"} => FullyFunded(t) # {}
    BY <2>1, <2>2 DEF StatusOK, FullyFunded
  <2> QED
    BY <2>4, <2>5, <2>6
<1> QED
  BY <1>1, StatusInvariant, PTL

\* A deal that its last release completed, and that nobody disputed, holds no
\* money any more, for any number of milestones.
THEOREM CompletedDealsDrained == Spec => []CompletedIsDrained
<1>1. StatusInv => CompletedIsDrained
  BY DEF StatusInv, StatusOK, CompletedIsDrained
<1> QED
  BY <1>1, StatusInvariant, PTL

-----------------------------------------------------------------------------
(* The counters of a deal *)

\* Milestones belong to deals that exist, and only those that exist are
\* marked as funded.  Prices play no part: this survives edits by hand.
RowsExist ==
    \A m \in Milestones :
        /\ status[DealOf[m]] = "none" => mstatus[m] = "absent"
        /\ mstatus[m] = "absent" => ~isFunded[m]

\* No step deletes a deal or a milestone, or adds a milestone to no deal.
KeepsRows ==
    /\ DealsStay
    /\ \A m \in Milestones :
         /\ mstatus'[m] = "absent" => mstatus[m] = "absent"
         /\ mstatus[m] = "absent" =>
              mstatus'[m] = "absent" \/ status'[DealOf[m]] # "none"

FundedCount == \A t \in Deals : fundedMs[t] = Cardinality(FullyFunded(t))

FundedOf(t) == {m \in MilestonesOf(t) : isFunded[m]}

LEMMA FundedExist ==
    ASSUME RowsExist, NEW t
    PROVE  /\ FullyFunded(t) = FundedOf(t)
           /\ IsFiniteSet(FundedOf(t))
<1>1. FullyFunded(t) = FundedOf(t)
  BY DEF FullyFunded, FundedOf, Present, RowsExist, MilestonesOf
<1>2. FundedOf(t) \in SUBSET Milestones
  BY DEF FundedOf, MilestonesOf
<1> QED
  BY <1>1, <1>2, RowsAssumption, FS_Subset

LEMMA QuietCount ==
    ASSUME RowsExist, FundedCount, KeepsRows, UNCHANGED <<isFunded, fundedMs>>
    PROVE  RowsExist' /\ FundedCount'
<1>1. RowsExist'
  BY RowsAssumption DEF RowsExist, KeepsRows, DealsStay
<1>2. ASSUME NEW t \in Deals
      PROVE  FullyFunded(t)' = FullyFunded(t)
  <2>1. FundedOf(t)' = FundedOf(t)
    BY DEF FundedOf, MilestonesOf
  <2>2. FullyFunded(t) = FundedOf(t) /\ FullyFunded(t)' = FundedOf(t)'
    BY <1>1 DEF FullyFunded, FundedOf, Present, RowsExist, MilestonesOf
  <2> QED
    BY <2>1, <2>2
<1> QED
  BY <1>1, <1>2 DEF FundedCount

LEMMA InvitationRows ==
    ASSUME TypeOK, NEW t \in Deals, InvitationStep(t)
    PROVE  KeepsRows
<1>1. CASE CreateDeal(t)
  <2>1. PICK ms \in SUBSET MilestonesOf(t) : \E price \in [ms -> Amounts] :
          /\ mstatus' = [m \in Milestones |->
                           IF m \in ms THEN "pending" ELSE mstatus[m]]
          /\ amount' = [m \in Milestones |->
                          IF m \in ms THEN price[m] ELSE amount[m]]
    BY <1>1 DEF CreateDeal
  <2>2. status' = [status EXCEPT ![t] = "pending_approval"]
    BY <1>1 DEF CreateDeal
  <2> QED
    BY <2>1, <2>2, RowsAssumption DEF KeepsRows, DealsStay, MilestonesOf, TypeOK
<1>2. CASE AcceptDeal(t) \/ DeclineDeal(t) \/ CancelDeal(t) \/ ExpireInvitation(t)
  BY <1>2 DEF AcceptDeal, DeclineDeal, CancelDeal, ExpireInvitation, KeepsRows,
              DealsStay, TypeOK, msVars
<1> QED
  BY <1>1, <1>2 DEF InvitationStep

LEMMA DeadlineRows ==
    ASSUME TypeOK, NEW t \in Deals, DeadlineStep(t)
    PROVE  KeepsRows
<1>1. CASE EnforceDeadline(t)
  <2>1. mstatus' = [m \in Milestones |->
                      IF m \in PartlyFunded(t) THEN "pending" ELSE mstatus[m]]
    BY <1>1 DEF EnforceDeadline, CancelUnfundedDeal, RefundPartialLocks,
                RefundMilestones
  <2>2. DealsStay
    BY <1>1 DEF EnforceDeadline, CancelUnfundedDeal, RefundPartialLocks, DealsStay,
                TypeOK
  <2> QED
    BY <2>1, <2>2 DEF KeepsRows, PartlyFunded, Present
<1>2. CASE UNCHANGED <<status, mstatus>>
  BY <1>2 DEF KeepsRows, DealsStay
<1> QED
  BY <1>1, <1>2
  DEF DeadlineStep, DeadlinePasses, EnforceOnAccess, EnforceTask,
      RefundFeesAfterDeadline, CrashAfterCancel, dealVars, msVars

LEMMA DisputeRows ==
    ASSUME TypeOK, NEW t \in Deals, DisputeStep(t)
    PROVE  KeepsRows
<1>1. ASSUME NEW ms \in SUBSET Present(t), OpenDispute(t, ms)
      PROVE  KeepsRows
  BY <1>1 DEF OpenDispute, KeepsRows, DealsStay, TypeOK, Present
<1>2. CASE ResolveDispute(t)
  BY <1>2 DEF ResolveDispute, KeepsRows, DealsStay, TypeOK, msVars
<1>3. {} \in SUBSET Present(t) /\ \A m \in Present(t) : {m} \in SUBSET Present(t)
  OBVIOUS
<1> QED
  BY <1>1, <1>2, <1>3 DEF DisputeStep

LEMMA MilestoneRows ==
    ASSUME TypeOK, NEW m \in Milestones, MilestoneStep(m)
    PROVE  KeepsRows
<1>1. ASSUME NEW pay, FundMilestone(m, pay)
      PROVE  KeepsRows
  BY <1>1, RowType DEF FundMilestone, CanFund, MayFund, KeepsRows, DealsStay, TypeOK
<1>2. CASE CreateMilestone(m)
  BY <1>2 DEF CreateMilestone, KeepsRows, DealsStay, TypeOK, dealVars
<1>3. CASE StartWork(m) \/ RequestRevision(m)
  BY <1>3 DEF StartWork, RequestRevision, UnderReview, KeepsRows, DealsStay, TypeOK,
              dealVars
<1>4. ASSUME NEW ok, SubmitDelivery(m, ok)
      PROVE  KeepsRows
  BY <1>4, RowType DEF SubmitDelivery, KeepsRows, DealsStay, TypeOK
<1>5. CASE UnderReview(m) /\ Release(m)
  BY <1>5, RowType DEF UnderReview, Release, KeepsRows, DealsStay, TypeOK
<1>6. CASE UNCHANGED <<status, mstatus>>
  BY <1>6 DEF KeepsRows, DealsStay
<1> QED
  BY <1>1, <1>2, <1>3, <1>4, <1>5, <1>6
  DEF MilestoneStep, ApproveMilestone, ReviewWindowEnds, RunReleaseTask,
      RunStaleTask, AutoRelease, ReadyForAutoRelease, dealVars, msVars

LEMMA StepRows == TypeOK /\ [Next]_vars => KeepsRows
<1> SUFFICES ASSUME TypeOK, [Next]_vars PROVE KeepsRows
  OBVIOUS
<1>1. CASE UNCHANGED <<status, mstatus>>
  BY <1>1 DEF KeepsRows, DealsStay
<1> QED
  BY <1>1, InvitationRows, DeadlineRows, DisputeRows, MilestoneRows
  DEF Next, SetFrozen, SelectStaleInvitations, vars, dealVars, msVars

\* A milestone that becomes fully funded is counted once.
LEMMA FundCount ==
    ASSUME TypeOK, RowsExist, FundedCount, KeepsRows,
           NEW m \in Milestones, NEW pay, FundMilestone(m, pay)
    PROVE  RowsExist' /\ FundedCount'
<1> DEFINE full == funded[m] + pay = amount[m]
<1>1. /\ mstatus[m] # "absent" /\ ~isFunded[m]
      /\ isFunded' = [isFunded EXCEPT ![m] = full]
      /\ fundedMs' = [fundedMs EXCEPT ![DealOf[m]] = IF full THEN @ + 1 ELSE @]
  BY DEF FundMilestone, CanFund, MayFund
<1>2. RowsExist'
  BY <1>1, RowsAssumption DEF RowsExist, KeepsRows, DealsStay, TypeOK
<1> HIDE DEF full
<1>3. ASSUME NEW t \in Deals
      PROVE  fundedMs'[t] = Cardinality(FullyFunded(t)')
  <2>1. /\ FullyFunded(t) = FundedOf(t) /\ IsFiniteSet(FundedOf(t))
        /\ fundedMs[t] = Cardinality(FundedOf(t))
    BY FundedExist DEF FundedCount
  <2>2. FullyFunded(t)' = FundedOf(t)'
    BY <1>2 DEF FullyFunded, FundedOf, Present, RowsExist, MilestonesOf
  <2>3. m \notin FundedOf(t)
    BY <1>1 DEF FundedOf
  <2>4. CASE t = DealOf[m] /\ full
    <3>1. FundedOf(t)' = FundedOf(t) \cup {m}
      BY <1>1, <2>4 DEF FundedOf, MilestonesOf, TypeOK
    <3>2. fundedMs'[t] = fundedMs[t] + 1
      BY <1>1, <2>4 DEF TypeOK
    <3>3. Cardinality(FundedOf(t) \cup {m}) = Cardinality(FundedOf(t)) + 1
      BY <2>1, <2>3, FS_AddElement
    <3> QED
      BY <2>1, <2>2, <3>1, <3>2, <3>3
  <2>5. CASE ~(t = DealOf[m] /\ full)
    <3>1. FundedOf(t)' = FundedOf(t)
      BY <1>1, <2>5 DEF FundedOf, MilestonesOf, TypeOK
    <3>2. fundedMs'[t] = fundedMs[t]
      BY <1>1, <2>5 DEF TypeOK
    <3> QED
      BY <2>1, <2>2, <3>1, <3>2
  <2> QED
    BY <2>4, <2>5
<1> QED
  BY <1>2, <1>3 DEF FundedCount

\* The counter of a deal that is cancelled with nothing fully funded is reset.
LEMMA CancelCount ==
    ASSUME TypeOK, RowsExist, FundedCount, KeepsRows,
           NEW t \in Deals, CancelUnfundedDeal(t)
    PROVE  RowsExist' /\ FundedCount'
<1>1. /\ FullyFunded(t) = {} /\ UNCHANGED isFunded
      /\ fundedMs' = [fundedMs EXCEPT ![t] = 0]
  BY DEF CancelUnfundedDeal
<1>2. fundedMs[t] = 0
  BY <1>1, FS_EmptySet DEF FundedCount
<1>3. UNCHANGED fundedMs
  BY <1>1, <1>2 DEF TypeOK
<1> QED
  BY <1>1, <1>3, QuietCount

LEMMA StepCount ==
    TypeOK /\ RowsExist /\ FundedCount /\ [Next]_vars => RowsExist' /\ FundedCount'
<1> SUFFICES ASSUME TypeOK, RowsExist, FundedCount, [Next]_vars
             PROVE  RowsExist' /\ FundedCount'
  OBVIOUS
<1>1. KeepsRows
  BY StepRows
<1>2. CASE UNCHANGED <<isFunded, fundedMs>>
  BY <1>1, <1>2, QuietCount
<1>3. CASE \E t \in Deals : InvitationStep(t) \/ DeadlineStep(t) \/ DisputeStep(t)
  <2>1. \/ UNCHANGED <<isFunded, fundedMs>>
        \/ \E t \in Deals : CancelUnfundedDeal(t)
    BY <1>3 DEF InvitationStep, CreateDeal, AcceptDeal, DeclineDeal, CancelDeal,
                ExpireInvitation, DeadlineStep, DeadlinePasses, EnforceOnAccess,
                EnforceTask, EnforceDeadline, RefundPartialLocks,
                RefundFeesAfterDeadline, CrashAfterCancel, DisputeStep,
                OpenDispute, ResolveDispute, dealVars, msVars
  <2> QED
    BY <1>1, <1>2, <2>1, CancelCount
<1>4. CASE \E m \in Milestones : MilestoneStep(m)
  <2>1. \/ UNCHANGED <<isFunded, fundedMs>>
        \/ \E m \in Milestones : \E pay \in 1 .. amount[m] : FundMilestone(m, pay)
    BY <1>4 DEF MilestoneStep, CreateMilestone, StartWork, SubmitDelivery,
                ApproveMilestone, Release, RequestRevision, ReviewWindowEnds,
                RunReleaseTask, RunStaleTask, AutoRelease, dealVars, msVars
  <2> QED
    BY <1>1, <1>2, <2>1, FundCount
<1> QED
  BY <1>2, <1>3, <1>4
  DEF Next, SetFrozen, SelectStaleInvitations, vars, dealVars, msVars

LEMMA InitCount == Init => RowsExist /\ FundedCount
<1> SUFFICES ASSUME Init PROVE RowsExist /\ FundedCount
  OBVIOUS
<1>1. \A t \in Deals : FullyFunded(t) = {}
  BY DEF Init, FullyFunded, Present, MilestonesOf
<1> QED
  BY <1>1, FS_EmptySet DEF Init, RowsExist, FundedCount

\* completed_milestones counts the milestones that were paid.
PaidOf(t) == {m \in MilestonesOf(t) : ledger[m].release > 0}
CompletedCount == \A t \in Deals : completedMs[t] = Cardinality(PaidOf(t))

LEMMA ReleaseCount ==
    ASSUME TypeOK, MoneyOK, CompletedCount,
           NEW m \in Milestones, UnderReview(m), Release(m)
    PROVE  CompletedCount'
<1>1. /\ ledger[m].release = 0
      /\ ReleaseAmount(m) \in Nat /\ ReleaseAmount(m) > 0
  <2>1. RowOK(m) /\ isFunded[m]
    BY WorkIsFunded DEF MoneyOK, UnderReview
  <2> QED
    BY <2>1, RowType DEF RowOK, UnderReview, ReleaseAmount
<1>2. ledger'[m].release > 0
  <2>1. ledger' = [ledger EXCEPT ![m].release = @ + ReleaseAmount(m)]
    BY DEF Release
  <2>2. ledger[m] \in MilestoneLedger /\ m \in DOMAIN ledger
    BY DEF TypeOK
  <2>3. ledger'[m].release = ReleaseAmount(m)
    BY <1>1, <2>1, <2>2
  <2> QED
    BY <1>1, <2>3
<1>3. \A n \in Milestones \ {m} : ledger'[n] = ledger[n]
  BY DEF Release, TypeOK
<1>4. completedMs' = [completedMs EXCEPT ![DealOf[m]] = @ + 1]
  BY DEF Release
<1>5. ASSUME NEW t \in Deals
      PROVE  completedMs'[t] = Cardinality(PaidOf(t)')
  <2>1. completedMs[t] = Cardinality(PaidOf(t)) /\ IsFiniteSet(PaidOf(t))
    <3>1. PaidOf(t) \in SUBSET Milestones
      BY DEF PaidOf, MilestonesOf
    <3> QED
      BY <3>1, RowsAssumption, FS_Subset DEF CompletedCount
  <2>2. m \notin PaidOf(t)
    BY <1>1 DEF PaidOf
  <2>3. CASE t = DealOf[m]
    <3>1. PaidOf(t)' = PaidOf(t) \cup {m}
      BY <1>2, <1>3, <2>3 DEF PaidOf, MilestonesOf
    <3>2. completedMs'[t] = completedMs[t] + 1
      BY <1>4, <2>3 DEF TypeOK
    <3>3. Cardinality(PaidOf(t) \cup {m}) = Cardinality(PaidOf(t)) + 1
      BY <2>1, <2>2, FS_AddElement
    <3> QED
      BY <2>1, <3>1, <3>2, <3>3
  <2>4. CASE t # DealOf[m]
    <3>1. PaidOf(t)' = PaidOf(t)
      BY <1>3, <2>4 DEF PaidOf, MilestonesOf
    <3>2. completedMs'[t] = completedMs[t]
      BY <1>4, <2>4 DEF TypeOK
    <3> QED
      BY <2>1, <3>1, <3>2
  <2> QED
    BY <2>3, <2>4
<1> QED
  BY <1>5 DEF CompletedCount

\* A step that pays for no milestone counts none as completed.
LEMMA QuietPaid ==
    ASSUME CompletedCount, UNCHANGED completedMs,
           \A m \in Milestones : ledger'[m].release = ledger[m].release
    PROVE  CompletedCount'
<1>1. \A t \in Deals : PaidOf(t)' = PaidOf(t)
  BY DEF PaidOf, MilestonesOf
<1> QED
  BY <1>1 DEF CompletedCount

LEMMA StepPaid ==
    TypeOK /\ MoneyOK /\ CompletedCount /\ [Next]_vars => CompletedCount'
<1> SUFFICES ASSUME TypeOK, MoneyOK, CompletedCount, [Next]_vars
             PROVE  CompletedCount'
  OBVIOUS
<1>1. CASE UNCHANGED <<completedMs, ledger>>
  BY <1>1, QuietPaid
<1>2. ASSUME NEW t \in Deals, EnforceDeadline(t)
      PROVE  CompletedCount'
  <2>1. /\ UNCHANGED completedMs
        /\ RefundMilestones(t, PartlyFunded(t))
    BY <1>2 DEF EnforceDeadline, CancelUnfundedDeal, RefundPartialLocks
  <2>2. ASSUME NEW m \in Milestones
        PROVE  ledger'[m].release = ledger[m].release
    <3>1. ledger[m] \in MilestoneLedger
      BY DEF TypeOK
    <3>2. ledger'[m] = IF m \in PartlyFunded(t)
                       THEN [ledger[m] EXCEPT !.refund = @ + funded[m]]
                       ELSE ledger[m]
      BY <2>1 DEF RefundMilestones
    <3> QED
      BY <3>1, <3>2 DEF MilestoneLedger
  <2> QED
    BY <2>1, <2>2, QuietPaid
<1>3. CASE \E t \in Deals : InvitationStep(t) \/ DeadlineStep(t) \/ DisputeStep(t)
  BY <1>1, <1>2, <1>3
  DEF InvitationStep, CreateDeal, AcceptDeal, DeclineDeal, CancelDeal,
      ExpireInvitation, DeadlineStep, DeadlinePasses, EnforceOnAccess, EnforceTask,
      RefundFeesAfterDeadline, CrashAfterCancel, DisputeStep, OpenDispute,
      ResolveDispute, dealVars, moneyVars
<1>4. ASSUME NEW m \in Milestones, NEW pay \in Nat, FundMilestone(m, pay)
      PROVE  CompletedCount'
  <2>1. UNCHANGED completedMs /\ ledger' = [ledger EXCEPT ![m].fund = @ + pay]
    BY <1>4 DEF FundMilestone
  <2>2. \A n \in Milestones : ledger'[n].release = ledger[n].release
    BY <2>1 DEF TypeOK, MilestoneLedger
  <2> QED
    BY <2>1, <2>2, QuietPaid
<1>5. ASSUME NEW m \in Milestones, MilestoneStep(m)
      PROVE  CompletedCount'
  <2>1. \/ UNCHANGED <<completedMs, ledger>>
        \/ UnderReview(m) /\ Release(m)
        \/ \E pay \in 1 .. amount[m] : FundMilestone(m, pay)
    BY <1>5 DEF MilestoneStep, CreateMilestone, StartWork, SubmitDelivery,
                ApproveMilestone, RequestRevision, ReviewWindowEnds,
                RunReleaseTask, RunStaleTask, AutoRelease, ReadyForAutoRelease,
                dealVars, moneyVars
  <2>2. \A pay \in 1 .. amount[m] : pay \in Nat
    OBVIOUS
  <2> QED
    BY <1>1, <1>4, <2>1, <2>2, ReleaseCount
<1> QED
  BY <1>1, <1>3, <1>5
  DEF Next, SetFrozen, SelectStaleInvitations, vars, dealVars, moneyVars

\* funded_milestones and completed_milestones are what a count of the rows
\* gives, although funding, the deadline, approval and the auto-release
\* messages write them one by one.
THEOREM CountersCount == Spec => []CountersAgree
<1>1. Init => RowsExist /\ FundedCount /\ CompletedCount
  <2> SUFFICES ASSUME Init PROVE CompletedCount
    BY InitCount
  <2>1. \A t \in Deals : PaidOf(t) = {}
    BY DEF Init, PaidOf, MilestonesOf
  <2> QED
    BY <2>1, FS_EmptySet DEF Init, CompletedCount
<1>2. EscrowInv /\ RowsExist /\ FundedCount /\ CompletedCount /\ [Next]_vars
        => RowsExist' /\ FundedCount' /\ CompletedCount'
  BY InvByRows, StepCount, StepPaid
<1>3. FundedCount /\ CompletedCount => CountersAgree
  BY DEF FundedCount, CompletedCount, PaidOf, CountersAgree
<1> QED
  BY <1>1, <1>2, <1>3, EscrowInvariant, PTL DEF Spec

-----------------------------------------------------------------------------
(* The review window *)

\* A delivery that waits for its review has a window that runs or has ended.
ReviewIsTimed == \A m \in Milestones : UnderReview(m) => autoRelease[m] # "none"

LEMMA QuietReview ==
    ASSUME ReviewIsTimed, UNCHANGED autoRelease,
           \A m \in Milestones :
             mstatus'[m] = mstatus[m] \/ mstatus'[m] \notin {"under_review", "delivered"}
    PROVE  ReviewIsTimed'
BY DEF ReviewIsTimed, UnderReview

LEMMA StepReview == TypeOK /\ ReviewIsTimed /\ [Next]_vars => ReviewIsTimed'
<1> SUFFICES ASSUME TypeOK, ReviewIsTimed, [Next]_vars
             PROVE  ReviewIsTimed'
  OBVIOUS
<1> DEFINE Leaves == \A m \in Milestones :
                       \/ mstatus'[m] = mstatus[m]
                       \/ mstatus'[m] \notin {"under_review", "delivered"}
<1>1. CASE UNCHANGED <<mstatus, autoRelease>>
  BY <1>1, QuietReview
<1>2. CASE \E t \in Deals : InvitationStep(t) \/ DeadlineStep(t) \/ DisputeStep(t)
  <2>1. UNCHANGED autoRelease /\ Leaves
    BY <1>2 DEF InvitationStep, CreateDeal, AcceptDeal, DeclineDeal, CancelDeal,
                ExpireInvitation, DeadlineStep, DeadlinePasses, EnforceOnAccess,
                EnforceTask, EnforceDeadline, CancelUnfundedDeal,
                RefundPartialLocks, RefundMilestones, RefundFeesAfterDeadline,
                CrashAfterCancel, DisputeStep, OpenDispute, ResolveDispute, msVars
  <2> QED
    BY <2>1, QuietReview
<1>3. ASSUME NEW m \in Milestones, MilestoneStep(m)
      PROVE  ReviewIsTimed'
  <2>1. CASE \/ CreateMilestone(m) \/ StartWork(m) \/ Release(m)
             \/ \E pay \in 1 .. amount[m] : FundMilestone(m, pay)
    <3>1. UNCHANGED autoRelease /\ Leaves
      BY <2>1 DEF CreateMilestone, StartWork, Release, FundMilestone, TypeOK
    <3> QED
      BY <3>1, QuietReview
  <2>2. CASE RequestRevision(m) \/ \E ok \in BOOLEAN : SubmitDelivery(m, ok)
    BY <2>2 DEF RequestRevision, SubmitDelivery, ReviewIsTimed, UnderReview, TypeOK
  <2>3. CASE ReviewWindowEnds(m)
    BY <2>3 DEF ReviewWindowEnds, ReviewIsTimed, UnderReview, TypeOK
  <2> QED
    BY <1>1, <1>3, <2>1, <2>2, <2>3
    DEF MilestoneStep, ApproveMilestone, RunReleaseTask, RunStaleTask, AutoRelease,
        msVars
<1> QED
  BY <1>1, <1>2, <1>3 DEF Next, SetFrozen, SelectStaleInvitations, vars, msVars

\* No message releases a delivery before the review window of that delivery
\* has ended, however often it was sent back and however late, early or often
\* the messages of earlier deliveries come.
THEOREM NoReleaseBeforeReview == Spec => NoEarlyAutoRelease
<1>1. Init => ReviewIsTimed
  BY DEF Init, ReviewIsTimed, UnderReview
<1>2. TypeOK /\ ReviewIsTimed =>
        [\A m \in Milestones :
           (RunReleaseTask(m) \/ RunStaleTask(m)) /\ ledger'[m] # ledger[m]
             => autoRelease[m] = "due"]_vars
  <2> SUFFICES ASSUME TypeOK, ReviewIsTimed, NEW m \in Milestones,
                      RunReleaseTask(m) \/ RunStaleTask(m), ledger'[m] # ledger[m]
               PROVE  autoRelease[m] = "due"
    OBVIOUS
  <2>1. ReadyForAutoRelease(m)
    BY DEF RunReleaseTask, RunStaleTask, AutoRelease, moneyVars
  <2>2. autoRelease[m] \in {"none", "ahead", "due"}
    BY DEF TypeOK, Clock
  <2> QED
    BY <2>1, <2>2 DEF ReadyForAutoRelease, ReviewIsTimed
<1> QED
  BY <1>1, <1>2, StepReview, EscrowTypeCorrect, PTL DEF Spec, NoEarlyAutoRelease

-----------------------------------------------------------------------------
(* The books of the vault *)

LEMMA QuietBooks ==
    ASSUME UNCHANGED <<funded, ledger, escrow>>
    PROVE  UNCHANGED V!vars
BY DEF V!vars, Locked

\* The price of a milestone is one that was asked for.
PricesOK == \A m \in Milestones : amount[m] \in Amounts \cup {0}

LEMMA InitVault == Init => V!Init
<1> SUFFICES ASSUME Init PROVE V!Init
  OBVIOUS
<1>1. ASSUME NEW m \in Milestones
      PROVE  /\ Locked[m] = 0
             /\ ledger[m].fund = 0 /\ ledger[m].refund = 0 /\ ledger[m].release = 0
  BY DEF Init, Locked
<1>2. Locked = [m \in Milestones |-> 0]
  BY <1>1 DEF Locked
<1> QED
  BY <1>1, <1>2 DEF Init, V!Init

-----------------------------------------------------------------------------
(* Prices *)

LEMMA StepPrices == TypeOK /\ PricesOK /\ [Next]_vars => PricesOK'
<1> SUFFICES ASSUME TypeOK, PricesOK, [Next]_vars
             PROVE  PricesOK'
  OBVIOUS
<1>1. CASE UNCHANGED amount
  BY <1>1 DEF PricesOK
<1>2. ASSUME NEW t \in Deals, CreateDeal(t)
      PROVE  PricesOK'
  <2>1. PICK ms \in SUBSET MilestonesOf(t) : \E price \in [ms -> Amounts] :
          amount' = [m \in Milestones |->
                      IF m \in ms THEN price[m] ELSE amount[m]]
    BY <1>2 DEF CreateDeal
  <2> QED
    BY <2>1 DEF PricesOK
<1>3. ASSUME NEW m \in Milestones, CreateMilestone(m)
      PROVE  PricesOK'
  <2>1. PICK a \in Amounts : amount' = [amount EXCEPT ![m] = a]
    BY <1>3 DEF CreateMilestone
  <2> QED
    BY <2>1 DEF PricesOK, TypeOK
<1>4. ASSUME NEW t \in Deals, InvitationStep(t)
      PROVE  PricesOK'
  BY <1>1, <1>2, <1>4
  DEF InvitationStep, AcceptDeal, DeclineDeal, CancelDeal, ExpireInvitation, msVars
<1>5. ASSUME NEW t \in Deals, DeadlineStep(t)
      PROVE  UNCHANGED amount
  BY <1>5
  DEF DeadlineStep, DeadlinePasses, EnforceOnAccess, EnforceTask, EnforceDeadline,
      CancelUnfundedDeal, RefundPartialLocks, RefundFeesAfterDeadline,
      CrashAfterCancel, msVars
<1>6. ASSUME NEW t \in Deals, DisputeStep(t)
      PROVE  UNCHANGED amount
  BY <1>6 DEF DisputeStep, OpenDispute, ResolveDispute, msVars
<1>7. ASSUME NEW m \in Milestones, MilestoneStep(m)
      PROVE  PricesOK'
  BY <1>1, <1>3, <1>7
  DEF MilestoneStep, FundMilestone, StartWork, SubmitDelivery, ApproveMilestone,
      RequestRevision, ReviewWindowEnds, RunReleaseTask, RunStaleTask, AutoRelease,
      Release, msVars
<1> QED
  BY <1>1, <1>4, <1>5, <1>6, <1>7
  DEF Next, SetFrozen, SelectStaleInvitations, vars, msVars

-----------------------------------------------------------------------------
(* Steps that move money *)

LEMMA FundLocks ==
    ASSUME TypeOK, MoneyOK, PricesOK, NEW m \in Milestones,
           NEW pay \in 1 .. amount[m], FundMilestone(m, pay)
    PROVE  V!Next
<1>1. pay \in UNION {1 .. a : a \in Amounts}
  BY RowType DEF PricesOK
<1>2. RowOK(m) /\ ~isFunded[m]
  BY DEF MoneyOK, FundMilestone, CanFund, MayFund
<1>3. ledger[m].release = 0
  BY <1>2, RowType DEF RowOK
<1>4. /\ ledger' = [ledger EXCEPT ![m].fund = @ + pay]
      /\ funded' = [funded EXCEPT ![m] = funded[m] + pay]
      /\ escrow' = [escrow EXCEPT ![Buyer[DealOf[m]]] = @ + pay]
  BY DEF FundMilestone
<1>5. \A n \in Milestones :
        /\ ledger'[n].fund = IF n = m THEN ledger[n].fund + pay ELSE ledger[n].fund
        /\ ledger'[n].release = ledger[n].release
        /\ ledger'[n].refund = ledger[n].refund
        /\ funded'[n] = IF n = m THEN funded[n] + pay ELSE funded[n]
  BY <1>4 DEF TypeOK
<1>6. Locked' = [Locked EXCEPT ![m] = @ + pay]
  <2>1. ASSUME NEW n \in Milestones
        PROVE  (IF ledger'[n].release > 0 THEN 0 ELSE funded'[n])
                 = IF n = m THEN Locked[m] + pay ELSE Locked[n]
    BY <1>3, <1>5, RowType
  <2>2. Locked' = [n \in Milestones |-> IF n = m THEN Locked[m] + pay ELSE Locked[n]]
    BY <2>1 DEF Locked
  <2> QED
    BY <2>2 DEF Locked
<1>7. V!Lock(m, pay)
  BY <1>3, <1>4, <1>5, <1>6 DEF V!Lock, V!Open
<1> QED
  BY <1>1, <1>7 DEF V!Next

LEMMA RefundGivesBack ==
    ASSUME TypeOK, MoneyOK, NEW t \in Deals, RefundMilestones(t, PartlyFunded(t))
    PROVE  V!Next
<1> DEFINE b == Buyer[t]
           ms == PartlyFunded(t)
<1>1. /\ b \in Users
      /\ ms \in SUBSET BoughtBy(b)
      /\ ms \in SUBSET Milestones
  BY PartiesAssumption DEF PartlyFunded, Present, MilestonesOf, BoughtBy
<1>2. ASSUME NEW m \in ms
      PROVE  ledger[m].release = 0 /\ Locked[m] = funded[m]
  <2>1. m \in Milestones /\ ~isFunded[m] /\ RowOK(m)
    BY DEF PartlyFunded, Present, MilestonesOf, MoneyOK
  <2>2. ledger[m].release = 0
    BY <2>1, RowType DEF RowOK
  <2> QED
    BY <2>1, <2>2, RowType
<1>3. \A m \in Milestones :
        /\ funded'[m] = IF m \in ms THEN 0 ELSE funded[m]
        /\ ledger'[m] = IF m \in ms
                        THEN [ledger[m] EXCEPT !.refund = @ + funded[m]]
                        ELSE ledger[m]
  BY DEF RefundMilestones
<1>4. ASSUME NEW m \in Milestones
      PROVE  /\ ledger'[m].fund = ledger[m].fund
             /\ ledger'[m].release = ledger[m].release
             /\ ledger'[m].refund = IF m \in ms THEN ledger[m].refund + Locked[m]
                                    ELSE ledger[m].refund
  <2>1. ledger[m] \in MilestoneLedger
    BY DEF TypeOK
  <2> HIDE DEF ms
  <2>2. CASE m \in ms
    <3>1. ledger'[m] = [ledger[m] EXCEPT !.refund = @ + funded[m]]
      BY <1>3, <2>2
    <3>2. ledger'[m].refund = ledger[m].refund + funded[m]
      BY <2>1, <3>1
    <3> QED
      BY <1>2, <2>1, <2>2, <3>1, <3>2
  <2>3. CASE m \notin ms
    BY <1>3, <2>3
  <2> QED
    BY <2>2, <2>3
<1>5. Locked' = [m \in Milestones |-> IF m \in ms THEN 0 ELSE Locked[m]]
  <2> HIDE DEF ms
  <2> QED
    BY <1>2, <1>3, <1>4, RowType DEF Locked
<1>6. Total(Locked, ms) = Total(funded, ms)
  <2> HIDE DEF ms
  <2> QED
    BY <1>2, TotalSame
<1>7. Total(Locked, ms) \in Nat /\ Total(Locked, ms) <= escrow[b]
  <2>1. escrow[b] = Total(Locked, BoughtBy(b))
    BY <1>1 DEF MoneyOK, EscrowBacked
  <2>2. \A m \in BoughtBy(b) : Locked[m] \in Nat
    BY BoughtFinite, RowType
  <2> HIDE DEF ms, b
  <2> QED
    BY <1>1, <2>1, <2>2, BoughtFinite, TotalPart
<1>8. escrow' = [escrow EXCEPT ![b] = @ - Total(Locked, ms)]
  <2>1. escrow' = [escrow EXCEPT ![b] = Minus(escrow[b], Total(funded, ms))]
    BY DEF RefundMilestones
  <2> HIDE DEF ms, b
  <2> QED
    BY <1>6, <1>7, <2>1 DEF Minus
<1>9. ASSUME NEW S, S = ms
      PROVE  V!GiveBack(b, S) /\ S \in SUBSET V!ItemsOf(b)
  <2>1. \A m \in S : V!Open(m)
    BY <1>1, <1>2, <1>9 DEF V!Open
  <2>2. S \in SUBSET V!ItemsOf(b)
    BY <1>1, <1>9 DEF V!ItemsOf, BoughtBy
  <2> HIDE DEF ms, b
  <2> QED
    BY <1>1, <1>4, <1>5, <1>8, <1>9, <2>1, <2>2 DEF V!GiveBack
<1>10. \E S : S = ms
  OBVIOUS
<1> HIDE DEF ms, b
<1> QED
  BY <1>1, <1>9, <1>10 DEF V!Next

LEMMA ReleasePays ==
    ASSUME TypeOK, MoneyOK, NEW m \in Milestones, UnderReview(m), Release(m)
    PROVE  V!Next
<1> DEFINE b == Buyer[DealOf[m]]
           pay == ReleaseAmount(m)
<1>1. RowOK(m)
  BY DEF MoneyOK
<1>2. isFunded[m] /\ ledger[m].release = 0
  BY <1>1, RowType DEF RowOK, UnderReview
<1>3. pay = funded[m] /\ Locked[m] = pay /\ pay > 0 /\ pay \in Nat
  BY <1>1, <1>2, RowType DEF RowOK, ReleaseAmount
<1>4. /\ funded' = funded
      /\ ledger' = [ledger EXCEPT ![m].release = @ + pay]
      /\ escrow' = [escrow EXCEPT ![b] = Minus(@, pay)]
  BY DEF Release
<1>5. ASSUME NEW n \in Milestones
      PROVE  /\ ledger'[n].fund = ledger[n].fund
             /\ ledger'[n].refund = ledger[n].refund
             /\ ledger'[n].release = IF n = m THEN pay ELSE ledger[n].release
  <2>1. ledger[n] \in MilestoneLedger /\ ledger \in [Milestones -> MilestoneLedger]
    BY DEF TypeOK
  <2> HIDE DEF pay
  <2> QED
    BY <1>2, <1>3, <1>4, <2>1
<1>6. Locked' = [Locked EXCEPT ![m] = 0]
  <2> HIDE DEF pay
  <2> QED
    BY <1>3, <1>4, <1>5, RowType DEF Locked
<1>7. pay <= escrow[b]
  <2>1. b \in Users /\ m \in BoughtBy(b)
    BY RowType DEF BoughtBy
  <2>2. escrow[b] = Total(Locked, BoughtBy(b))
    BY <2>1 DEF MoneyOK, EscrowBacked
  <2>3. \A n \in BoughtBy(b) : Locked[n] \in Nat
    BY BoughtFinite, RowType
  <2> HIDE DEF b
  <2> QED
    BY <1>3, <2>1, <2>2, <2>3, BoughtFinite, TotalUpdate
<1>8. escrow' = [escrow EXCEPT ![b] = @ - pay]
  <2> HIDE DEF pay, b
  <2> QED
    BY <1>4, <1>7 DEF Minus
<1>9. V!Pay(m)
  <2> HIDE DEF pay
  <2> QED
    BY <1>2, <1>3, <1>5, <1>6, <1>8 DEF V!Pay, V!Open
<1> QED
  BY <1>9 DEF V!Next

-----------------------------------------------------------------------------
(* Every step *)

LEMMA InvitationVault ==
    ASSUME NEW t \in Deals, InvitationStep(t)
    PROVE  UNCHANGED V!vars
<1>1. UNCHANGED <<funded, ledger, escrow>>
  BY DEF InvitationStep, CreateDeal, AcceptDeal, DeclineDeal, CancelDeal,
         ExpireInvitation, msVars, moneyVars
<1> QED
  BY <1>1, QuietBooks

LEMMA DeadlineVault ==
    ASSUME TypeOK, MoneyOK, NEW t \in Deals, DeadlineStep(t)
    PROVE  V!Next \/ UNCHANGED V!vars
<1>1. CASE EnforceDeadline(t)
  <2>1. RefundMilestones(t, PartlyFunded(t))
    BY <1>1 DEF EnforceDeadline, CancelUnfundedDeal, RefundPartialLocks
  <2> QED
    BY <2>1, RefundGivesBack
<1>2. CASE ~EnforceDeadline(t)
  <2>1. UNCHANGED <<funded, ledger, escrow>>
    BY <1>2 DEF DeadlineStep, DeadlinePasses, EnforceOnAccess, EnforceTask,
                RefundFeesAfterDeadline, CrashAfterCancel, msVars, moneyVars
  <2> QED
    BY <2>1, QuietBooks
<1> QED
  BY <1>1, <1>2

LEMMA MilestoneVault ==
    ASSUME TypeOK, MoneyOK, PricesOK, NEW m \in Milestones, MilestoneStep(m)
    PROVE  V!Next \/ UNCHANGED V!vars
<1>1. CASE \E pay \in 1 .. amount[m] : FundMilestone(m, pay)
  BY <1>1, FundLocks
<1>2. CASE UnderReview(m) /\ Release(m)
  BY <1>2, ReleasePays
<1>3. CASE /\ ~(\E pay \in 1 .. amount[m] : FundMilestone(m, pay))
           /\ ~(UnderReview(m) /\ Release(m))
  <2>1. UNCHANGED <<funded, ledger, escrow>>
    BY <1>3 DEF MilestoneStep, CreateMilestone, StartWork, SubmitDelivery,
                ApproveMilestone, RequestRevision, ReviewWindowEnds, RunReleaseTask,
                RunStaleTask, AutoRelease, ReadyForAutoRelease, msVars, moneyVars
  <2> QED
    BY <2>1, QuietBooks
<1> QED
  BY <1>1, <1>2, <1>3

LEMMA StepVault ==
    TypeOK /\ MoneyOK /\ PricesOK /\ [Next]_vars => [V!Next]_V!vars
<1> SUFFICES ASSUME TypeOK, MoneyOK, PricesOK, [Next]_vars
             PROVE  V!Next \/ UNCHANGED V!vars
  OBVIOUS
<1>1. ASSUME NEW t \in Deals, DisputeStep(t)
      PROVE  UNCHANGED V!vars
  <2>1. UNCHANGED <<funded, ledger, escrow>>
    BY <1>1 DEF DisputeStep, OpenDispute, ResolveDispute, msVars, moneyVars
  <2> QED
    BY <2>1, QuietBooks
<1>2. CASE \/ \E u \in Users : SetFrozen(u)
           \/ SelectStaleInvitations
           \/ UNCHANGED vars
  <2>1. UNCHANGED <<funded, ledger, escrow>>
    BY <1>2 DEF SetFrozen, SelectStaleInvitations, vars, msVars, moneyVars
  <2> QED
    BY <2>1, QuietBooks
<1> QED
  BY <1>1, <1>2, InvitationVault, DeadlineVault, MilestoneVault DEF Next

\* What TLC checks on small instances: the escrow workflow is a vault.  Money
\* is locked for open milestones only, goes back whole, or is paid out once
\* and whole, and every movement finds its money in the buyer's escrow.
THEOREM EscrowImplementsVault == Spec => ImplementsVault
<1>1. Init => V!Init /\ PricesOK
  <2>1. Init => PricesOK
    BY DEF Init, PricesOK
  <2> QED
    BY <2>1, InitVault
<1>2. Spec => [](TypeOK /\ MoneyOK)
  <2>1. EscrowInv => TypeOK /\ MoneyOK
    BY InvByRows
  <2> QED
    BY <2>1, EscrowInvariant, PTL
<1>3. Spec => []PricesOK
  BY <1>1, <1>2, StepPrices, PTL DEF Spec
<1> QED
  BY <1>1, <1>2, <1>3, StepVault, PTL DEF Spec, ImplementsVault, V!Spec
=============================================================================
