------------------------------ MODULE Sessions ------------------------------
(***************************************************************************)
(* Requests on the same rows at the same time.  A handler reads a deal and *)
(* a milestone, then the wallets, computes, and commits at its end         *)
(* (app/database.py: one session per request, no autoflush).  PostgreSQL   *)
(* runs it READ COMMITTED, no handler locks a row, and SQLAlchemy writes   *)
(* the values that were computed from what was read, for the columns that  *)
(* changed.  Here the four handlers that race for a milestone are cut into *)
(* these steps; the others stay the atomic actions of Escrow and are       *)
(* served while no session is open.  Held agent fees are left out.         *)
(***************************************************************************)
EXTENDS Escrow

CONSTANTS
    SessionIds,  \* requests and task runs that may be open at a time
    MaxBooked    \* bound: no session is opened for a milestone beyond this sum

ASSUME SessionsAssumption == Requests = {} /\ MaxBooked \in Nat

VARIABLE session

sessionVars == <<vars, session>>

Idle == [at |-> "idle"]
Kinds == {"fund", "approve", "auto", "revise"}

\* What a session has read of the milestone and its deal, then of the wallets,
\* and whether no other session has committed since.
Rows == [mstatus : MilestoneStatus, amount : Nat, funded : Nat,
         status : DealStatus, fundedMs : Nat, completedMs : Nat]
Purse == [available : Nat, escrow : Nat, seller : Nat]
NoPurse == [available |-> 0, escrow |-> 0, seller |-> 0]
Open ==
    [at : {"rows", "wallets"}, kind : Kinds, m : Milestones, pay : Nat,
     row : Rows, purse : Purse, fresh : BOOLEAN]

SessionsTypeOK ==
    /\ TypeOK
    /\ session \in [SessionIds -> Open \cup {Idle}]

SessionsInit == Init /\ session = [s \in SessionIds |-> Idle]

AllIdle == \A s \in SessionIds : session[s] = Idle

-----------------------------------------------------------------------------
(* Reading *)

RowsOf(m) ==
    [mstatus |-> mstatus[m], amount |-> amount[m], funded |-> funded[m],
     status |-> status[DealOf[m]], fundedMs |-> fundedMs[DealOf[m]],
     completedMs |-> completedMs[DealOf[m]]]

\* A message is in the hands of one worker.
Unclaimed(m) ==
    \A s \in SessionIds :
        session[s] # Idle => session[s].kind # "auto" \/ session[s].m # m

\* The checks of a handler on the rows it has just read; when they fail the
\* request is refused.
Admits(kind, m, pay) ==
    \/ kind = "fund" /\ pay > 0 /\ MayFund(m, pay)
    \/ kind \in {"approve", "revise"} /\ pay = 0 /\ UnderReview(m)
    \/ /\ kind = "auto" /\ pay = 0
       /\ releaseTask[m] /\ Unclaimed(m)
       /\ ReadyForAutoRelease(m)

ReadRows(s, kind, m, pay) ==
    /\ session[s] = Idle
    /\ Admits(kind, m, pay)
    /\ ledger[m].fund <= MaxBooked /\ ledger[m].release <= MaxBooked
    /\ session' = [session EXCEPT ![s] =
                    [at |-> "rows", kind |-> kind, m |-> m, pay |-> pay,
                     row |-> RowsOf(m), purse |-> NoPurse, fresh |-> TRUE]]
    /\ UNCHANGED vars

\* Fault: the balance is not looked at.
AffordsAnything(m, pay) == TRUE
Affords(m, pay) == available[Buyer[DealOf[m]]] >= pay

\* The wallets are read later, and may be newer than the rows.
ReadWallets(s) ==
    LET t == DealOf[session[s].m] IN
    /\ session[s].at = "rows"
    /\ session[s].kind # "revise"
    /\ Affords(session[s].m, session[s].pay)
    /\ session' = [session EXCEPT
         ![s].at = "wallets",
         ![s].purse = [available |-> available[Buyer[t]],
                       escrow |-> escrow[Buyer[t]],
                       seller |-> available[Seller[t]]]]
    /\ UNCHANGED vars

\* The request is refused for want of money, or its process dies.
Abort(s) ==
    /\ session[s] # Idle
    /\ session' = [session EXCEPT ![s] = Idle]
    /\ UNCHANGED vars

-----------------------------------------------------------------------------
(* Committing *)

\* A column is written when its new value differs from the one read.
Written(current, read, new) == IF new = read THEN current ELSE new

\* Fault: a milestone one unit short counts as fully funded.
FillsNearly(row, pay) == row.funded + pay >= row.amount - 1
Fills(row, pay) == row.funded + pay = row.amount

\* fund_milestone
CommitFund(s) ==
    LET m == session[s].m
        t == DealOf[m]
        row == session[s].row
        pay == session[s].pay
        purse == session[s].purse
        full == Fills(row, pay)
        new == IF full \/ FullyFunded(t) \ {m} # {} THEN "active"
               ELSE "partially_funded"
    IN
    /\ session[s].at = "wallets" /\ session[s].kind = "fund"
    /\ available' = [available EXCEPT ![Buyer[t]] = purse.available - pay]
    /\ escrow' = [escrow EXCEPT ![Buyer[t]] = purse.escrow + pay]
    /\ ledger' = [ledger EXCEPT ![m].fund = @ + pay]
    /\ funded' = [funded EXCEPT ![m] = row.funded + pay]
    /\ isFunded' = [isFunded EXCEPT ![m] = @ \/ full]
    /\ mstatus' = [mstatus EXCEPT ![m] =
                    Written(@, row.mstatus, IF full THEN "funded" ELSE "pending")]
    /\ fundedMs' = [fundedMs EXCEPT ![t] = IF full THEN row.fundedMs + 1 ELSE @]
    /\ status' = [status EXCEPT ![t] = Written(@, row.status, new)]
    /\ UNCHANGED <<deadline, completedMs, hasDispute, amount, autoRelease,
                   proof, frozen, feeVars, taskVars>>

\* approve_milestone and auto_release_milestone
CommitRelease(s) ==
    LET m == session[s].m
        t == DealOf[m]
        row == session[s].row
        purse == session[s].purse
        paid == IF row.funded # 0 THEN row.funded ELSE row.amount
    IN
    /\ session[s].at = "wallets" /\ session[s].kind \in {"approve", "auto"}
    /\ escrow' = [escrow EXCEPT ![Buyer[t]] = Minus(purse.escrow, paid)]
    /\ available' = [available EXCEPT ![Seller[t]] = purse.seller + paid]
    /\ ledger' = [ledger EXCEPT ![m].release = @ + paid]
    /\ mstatus' = [mstatus EXCEPT ![m] = "completed"]
    /\ completedMs' = [completedMs EXCEPT ![t] = row.completedMs + 1]
    /\ status' = [status EXCEPT ![t] = IF CompletesDeal(m) THEN "completed" ELSE @]
    /\ releaseTask' = [releaseTask EXCEPT ![m] = @ /\ session[s].kind # "auto"]
    /\ UNCHANGED <<deadline, fundedMs, hasDispute, amount, funded, isFunded,
                   autoRelease, proof, frozen, feeVars, enforceTask, staleTask,
                   sweep, feeRefundDue>>

\* request_revision
CommitRevision(s) ==
    LET m == session[s].m IN
    /\ session[s].at = "rows" /\ session[s].kind = "revise"
    /\ mstatus' = [mstatus EXCEPT ![m] = "revision_requested"]
    /\ autoRelease' = [autoRelease EXCEPT ![m] = "none"]
    /\ UNCHANGED <<dealVars, amount, funded, isFunded, proof, moneyVars,
                   feeVars, taskVars>>

Commit(s) ==
    /\ CommitFund(s) \/ CommitRelease(s) \/ CommitRevision(s)
    /\ session' = [i \in SessionIds |->
                    IF i = s \/ session[i] = Idle THEN Idle
                    ELSE [session[i] EXCEPT !.fresh = FALSE]]

\* The other handlers, one at a time.
AtomicStep ==
    /\ AllIdle
    /\ \/ \E t \in Deals : CreateDeal(t) \/ AcceptDeal(t)
       \/ \E m \in Milestones : SubmitDelivery(m, TRUE)
    /\ UNCHANGED session

SessionsNext ==
    \/ \E s \in SessionIds :
         \/ \E kind \in Kinds, m \in Milestones : \E pay \in 0 .. amount[m] :
              ReadRows(s, kind, m, pay)
         \/ ReadWallets(s)
         \/ Commit(s)
         \/ Abort(s)
    \/ \E m \in Milestones : ReviewWindowEnds(m) /\ UNCHANGED session
    \/ AtomicStep

SessionsSpec == SessionsInit /\ [][SessionsNext]_sessionVars

-----------------------------------------------------------------------------
(* Safety *)

\* A commit whose reads are still current is one of the atomic steps that
\* module Escrow takes for the handler: what goes wrong in Sessions goes wrong
\* only because of what another session committed in between.
FreshCommitsAreAtomic ==
    [][\A s \in SessionIds :
         Commit(s) /\ session[s].fresh => \E m \in Milestones : MilestoneStep(m)]_sessionVars

\* What survives without locks: a milestone is only marked as funded, and work
\* on it only starts, when its price was taken from the buyer's balance.
WorkIsPaidFor ==
    \A m \in Milestones : isFunded[m] => ledger[m].fund >= amount[m]

(* What a docstring of the source says *)

\* tasks.py:165: auto_release_milestone skips a milestone that is completed.
ReleasedOnce == \A m \in Milestones : ledger[m].release <= amount[m]
=============================================================================
