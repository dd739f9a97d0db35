---------------------------- MODULE StatusEdits ----------------------------
(***************************************************************************)
(* The escrow workflow with the handlers that edit rows by hand: PUT of a  *)
(* deal and of a milestone by either party, and the administrator's        *)
(* force_status.  They overwrite status and price whatever the workflow    *)
(* has reached, and move no money.  Asked here: what of Escrow survives    *)
(* such edits?                                                             *)
(***************************************************************************)
EXTENDS Escrow

CONSTANT MaxEdits   \* bound: how many edits are made

ASSUME EditsAssumption == MaxEdits \in Nat

VARIABLE edits      \* how many edits were made

editVars == <<vars, edits>>

\* The statuses an administrator may force.
ForcedStatus == {"pending_approval", "approved", "in_progress", "completed",
                 "cancelled", "disputed"}

\* update_transaction: a party sets the status; nothing follows it.
UpdateTransaction(t, s) ==
    /\ status[t] # "none"
    /\ status' = [status EXCEPT ![t] = s]
    /\ UNCHANGED <<deadline, fundedMs, completedMs, hasDispute, msVars,
                   moneyVars, feeVars, taskVars>>

\* force_status: the same by an administrator, from a shorter list.
ForceStatus(t, s) ==
    /\ s \in ForcedStatus
    /\ UpdateTransaction(t, s)

\* update_milestone: a party sets status and price (either may be the old
\* one); completed_milestones counts a milestone set to completed by hand.
UpdateMilestone(m, s, a) ==
    /\ mstatus[m] # "absent"
    /\ mstatus' = [mstatus EXCEPT ![m] = s]
    /\ amount' = [amount EXCEPT ![m] = a]
    /\ completedMs' = [completedMs EXCEPT ![DealOf[m]] =
                         IF s = "completed" /\ mstatus[m] # "completed"
                         THEN @ + 1 ELSE @]
    /\ UNCHANGED <<status, deadline, fundedMs, hasDispute, funded, isFunded,
                   autoRelease, proof, moneyVars, feeVars, taskVars>>

EditStep ==
    \/ \E t \in Deals, s \in DealStatus \ {"none"} :
         UpdateTransaction(t, s) \/ ForceStatus(t, s)
    \/ \E m \in Milestones, s \in MilestoneStatus \ {"absent"} :
         \E a \in Amounts \cup {amount[m]} : UpdateMilestone(m, s, a)

EditsInit == Init /\ edits = 0

EditsNext ==
    \/ Next /\ UNCHANGED edits
    \/ edits < MaxEdits /\ edits' = edits + 1 /\ EditStep

EditsSpec == EditsInit /\ [][EditsNext]_editVars

-----------------------------------------------------------------------------
(* Safety *)

Booked(kind, ms) == Total([m \in Milestones |-> ledger[m][kind]], ms)
FeeBooked(kind, rs) == Total([r \in Requests |-> feeLedger[r][kind]], rs)
SoldBy(u) == {m \in Milestones : Seller[DealOf[m]] = u}
HiredBy(u) == {r \in Requests : Buyer[RequestDeal[r]] = u}
WorkOf(u) == {r \in Requests : AgentOf[r] = u}

\* Whatever statuses and prices were edited to, the available balance of every
\* user is what the ledger entries of the user add up to, and no funding step
\* took what was not there.
AvailableMatchesLedger ==
    \A u \in Users :
        available[u] = Balance[u]
          - Booked("fund", BoughtBy(u)) + Booked("refund", BoughtBy(u))
          + Booked("release", SoldBy(u))
          - FeeBooked("hold", HiredBy(u)) + FeeBooked("refund", HiredBy(u))
          + FeeBooked("payout", WorkOf(u))

\* funded_milestones survives edits: it counts the rows that are marked as
\* funded, although their price may have changed since.
FundedCounterAgrees ==
    \A t \in Deals : fundedMs[t] = Cardinality(FullyFunded(t))
=============================================================================
