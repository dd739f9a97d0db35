--------------------------- MODULE SessionsProofs ---------------------------
(***************************************************************************)
(* What survives when sessions interleave without locks, for any number of *)
(* sessions, deals and milestones: the types (no debit takes more than the *)
(* session has seen), that work is only started on a price that was taken, *)
(* and that a commit whose reads are current is a step of module Escrow.   *)
(***************************************************************************)
EXTENDS Sessions, EscrowProofs

-----------------------------------------------------------------------------
(* Types *)

\* A session debits at most what it has seen in the wallet.
PurseCovers ==
    \A s \in SessionIds :
        session[s].at = "wallets" => session[s].purse.available >= session[s].pay

LEMMA OpenSession ==
    ASSUME SessionsTypeOK, NEW s \in SessionIds, session[s].at # "idle"
    PROVE  /\ session[s] \in Open
           /\ session[s].at \in {"rows", "wallets"}
           /\ session[s].kind \in Kinds
           /\ session[s].m \in Milestones
           /\ DealOf[session[s].m] \in Deals
           /\ Buyer[DealOf[session[s].m]] \in Users
           /\ Seller[DealOf[session[s].m]] \in Users
           /\ session[s].pay \in Nat
           /\ session[s].fresh \in BOOLEAN
<1>1. session[s] \in Open
  BY DEF SessionsTypeOK, Idle
<1> QED
  BY <1>1, RowsAssumption, PartiesAssumption DEF Open

LEMMA OpenReads ==
    ASSUME SessionsTypeOK, NEW s \in SessionIds, session[s].at # "idle"
    PROVE  /\ session[s].row.mstatus \in MilestoneStatus
           /\ session[s].row.amount \in Nat
           /\ session[s].row.funded \in Nat
           /\ session[s].row.status \in DealStatus
           /\ session[s].row.fundedMs \in Nat
           /\ session[s].row.completedMs \in Nat
           /\ session[s].purse.available \in Nat
           /\ session[s].purse.escrow \in Nat
           /\ session[s].purse.seller \in Nat
<1>1. session[s].row \in Rows /\ session[s].purse \in Purse
  BY OpenSession DEF Open
<1> QED
  BY <1>1 DEF Rows, Purse

LEMMA RowsOfType ==
    ASSUME TypeOK, NEW m \in Milestones
    PROVE  RowsOf(m) \in Rows
BY RowsAssumption DEF TypeOK, RowsOf, Rows

LEMMA ReadRowsType ==
    ASSUME SessionsTypeOK, PurseCovers, NEW s \in SessionIds, NEW kind \in Kinds,
           NEW m \in Milestones, NEW pay \in 0 .. amount[m],
           ReadRows(s, kind, m, pay)
    PROVE  SessionsTypeOK' /\ PurseCovers'
<1> DEFINE new == [at |-> "rows", kind |-> kind, m |-> m, pay |-> pay,
                   row |-> RowsOf(m), purse |-> NoPurse, fresh |-> TRUE]
<1>1. session' = [session EXCEPT ![s] = new]
  BY DEF ReadRows
<1>2. new \in Open /\ new.at = "rows"
  <2>1. pay \in Nat
    BY DEF SessionsTypeOK, TypeOK
  <2>2. NoPurse \in Purse
    BY DEF NoPurse, Purse
  <2>3. RowsOf(m) \in Rows
    BY RowsOfType DEF SessionsTypeOK
  <2> QED
    BY <2>1, <2>2, <2>3 DEF Open
<1>3. TypeOK'
  BY DEF SessionsTypeOK, ReadRows, vars, dealVars, msVars, moneyVars, feeVars,
         taskVars, TypeOK
<1> HIDE DEF new
<1> QED
  BY <1>1, <1>2, <1>3 DEF SessionsTypeOK, PurseCovers

LEMMA ReadWalletsType ==
    ASSUME SessionsTypeOK, PurseCovers, NEW s \in SessionIds, ReadWallets(s)
    PROVE  SessionsTypeOK' /\ PurseCovers'
<1> DEFINE t == DealOf[session[s].m]
           seen == [available |-> available[Buyer[t]],
                    escrow |-> escrow[Buyer[t]],
                    seller |-> available[Seller[t]]]
           new == [session[s] EXCEPT !.at = "wallets", !.purse = seen]
<1>1. session[s].at = "rows" /\ Affords(session[s].m, session[s].pay)
  BY DEF ReadWallets
<1>2. session[s] \in Open /\ Buyer[t] \in Users /\ Seller[t] \in Users
  BY <1>1, OpenSession
<1>3. session' = [session EXCEPT ![s] = new]
  BY <1>2 DEF ReadWallets, SessionsTypeOK
<1>4. seen \in Purse
  BY <1>2 DEF SessionsTypeOK, TypeOK, Purse
<1>5. /\ new \in Open
      /\ new.purse.available >= new.pay
  BY <1>1, <1>2, <1>4 DEF Open, Affords
<1>6. TypeOK'
  BY DEF SessionsTypeOK, ReadWallets, vars, dealVars, msVars, moneyVars, feeVars,
         taskVars, TypeOK
<1> HIDE DEF new
<1> QED
  BY <1>3, <1>5, <1>6 DEF SessionsTypeOK, PurseCovers

\* A commit ends the session and tells the others that their reads are old.
LEMMA CommittedSession ==
    ASSUME SessionsTypeOK, PurseCovers, NEW s \in SessionIds,
           session' = [i \in SessionIds |->
                        IF i = s \/ session[i] = Idle THEN Idle
                        ELSE [session[i] EXCEPT !.fresh = FALSE]]
    PROVE  /\ session' \in [SessionIds -> Open \cup {Idle}]
           /\ PurseCovers'
<1>1. ASSUME NEW i \in SessionIds
      PROVE  /\ session'[i] \in Open \cup {Idle}
             /\ session'[i].at = "wallets" =>
                  session'[i].purse.available >= session'[i].pay
  <2>1. CASE i = s \/ session[i] = Idle
    BY <2>1 DEF Idle
  <2>2. CASE i # s /\ session[i] # Idle
    <3>1. session[i] \in Open
      BY <2>2 DEF SessionsTypeOK
    <3>2. session'[i] = [session[i] EXCEPT !.fresh = FALSE]
      BY <2>2
    <3> QED
      BY <3>1, <3>2 DEF Open, PurseCovers
  <2> QED
    BY <2>1, <2>2
<1> QED
  BY <1>1 DEF PurseCovers

LEMMA CommitFundType ==
    ASSUME SessionsTypeOK, PurseCovers, NEW s \in SessionIds, CommitFund(s)
    PROVE  TypeOK'
<1> DEFINE m == session[s].m
           t == DealOf[m]
           b == Buyer[t]
           row == session[s].row
           pay == session[s].pay
           purse == session[s].purse
<1>1. session[s].at = "wallets"
  BY DEF CommitFund
<1>2. /\ m \in Milestones /\ t \in Deals /\ b \in Users /\ pay \in Nat
      /\ row.funded \in Nat /\ row.fundedMs \in Nat
      /\ row.mstatus \in MilestoneStatus /\ row.status \in DealStatus
      /\ purse.escrow \in Nat /\ purse.available \in Nat
  BY <1>1, OpenSession, OpenReads
<1>3. purse.available - pay \in Nat
  BY <1>1, <1>2 DEF PurseCovers
<1>4. TypeOK
  BY DEF SessionsTypeOK
<1> HIDE DEF m, t, b, row, pay, purse
<1>5. /\ available' \in [Users -> Nat] /\ escrow' \in [Users -> Nat]
      /\ funded' \in [Milestones -> Nat]
  BY <1>2, <1>3, <1>4 DEF CommitFund, TypeOK, m, t, b, row, pay, purse
<1>6. ledger' \in [Milestones -> MilestoneLedger]
  <2>1. ledger' = [ledger EXCEPT ![m].fund = @ + pay]
    BY DEF CommitFund, m, pay
  <2> QED
    BY <1>2, <1>4, <2>1 DEF TypeOK, MilestoneLedger
<1>7. /\ isFunded' \in [Milestones -> BOOLEAN]
      /\ mstatus' \in [Milestones -> MilestoneStatus]
      /\ fundedMs' \in [Deals -> Nat]
      /\ status' \in [Deals -> DealStatus]
  BY <1>2, <1>4
  DEF CommitFund, TypeOK, Written, Fills, MilestoneStatus, DealStatus, m, t, row, pay
<1> QED
  BY <1>4, <1>5, <1>6, <1>7 DEF CommitFund, TypeOK, feeVars, taskVars

LEMMA CommitReleaseType ==
    ASSUME SessionsTypeOK, NEW s \in SessionIds, CommitRelease(s)
    PROVE  TypeOK'
<1> DEFINE m == session[s].m
           t == DealOf[m]
           row == session[s].row
           purse == session[s].purse
           paid == IF row.funded # 0 THEN row.funded ELSE row.amount
<1>1. session[s].at = "wallets"
  BY DEF CommitRelease
<1>2. /\ m \in Milestones /\ t \in Deals
      /\ Buyer[t] \in Users /\ Seller[t] \in Users
      /\ row.completedMs \in Nat /\ paid \in Nat
      /\ purse.escrow \in Nat /\ purse.seller \in Nat
  BY <1>1, OpenSession, OpenReads
<1>3. TypeOK
  BY DEF SessionsTypeOK
<1>4. Minus(purse.escrow, paid) \in Nat
  BY <1>2 DEF Minus
<1>5. /\ escrow' = [escrow EXCEPT ![Buyer[t]] = Minus(purse.escrow, paid)]
      /\ available' = [available EXCEPT ![Seller[t]] = purse.seller + paid]
      /\ ledger' = [ledger EXCEPT ![m].release = @ + paid]
      /\ mstatus' = [mstatus EXCEPT ![m] = "completed"]
      /\ completedMs' = [completedMs EXCEPT ![t] = row.completedMs + 1]
      /\ status' = [status EXCEPT ![t] = IF CompletesDeal(m) THEN "completed" ELSE @]
      /\ releaseTask' = [releaseTask EXCEPT ![m] = @ /\ session[s].kind # "auto"]
  BY DEF CommitRelease
<1> HIDE DEF m, t, row, purse, paid
<1>6. /\ escrow' \in [Users -> Nat] /\ available' \in [Users -> Nat]
      /\ completedMs' \in [Deals -> Nat]
  BY <1>2, <1>3, <1>4, <1>5 DEF TypeOK
<1>7. ledger' \in [Milestones -> MilestoneLedger]
  BY <1>2, <1>3, <1>5 DEF TypeOK, MilestoneLedger
<1>8. /\ mstatus' \in [Milestones -> MilestoneStatus]
      /\ status' \in [Deals -> DealStatus]
      /\ releaseTask' \in [Milestones -> BOOLEAN]
  BY <1>2, <1>3, <1>5 DEF TypeOK, MilestoneStatus, DealStatus
<1> QED
  BY <1>3, <1>6, <1>7, <1>8 DEF CommitRelease, TypeOK, feeVars

LEMMA CommitType ==
    ASSUME SessionsTypeOK, PurseCovers, NEW s \in SessionIds, Commit(s)
    PROVE  SessionsTypeOK' /\ PurseCovers'
<1>1. CASE CommitFund(s)
  BY <1>1, CommitFundType, CommittedSession DEF Commit, SessionsTypeOK
<1>2. CASE CommitRelease(s)
  BY <1>2, CommitReleaseType, CommittedSession DEF Commit, SessionsTypeOK
<1>3. CASE CommitRevision(s)
  <2>1. session[s].m \in Milestones
    BY <1>3, OpenSession DEF CommitRevision
  <2>2. TypeOK'
    BY <1>3, <2>1 DEF CommitRevision, SessionsTypeOK, TypeOK, MilestoneStatus, Clock,
                      dealVars, moneyVars, feeVars, taskVars
  <2> QED
    BY <2>2, CommittedSession DEF Commit, SessionsTypeOK
<1> QED
  BY <1>1, <1>2, <1>3 DEF Commit

\* The steps of module Escrow that are taken between sessions.
LEMMA EscrowSteps ==
    ASSUME \/ AtomicStep
           \/ \E m \in Milestones : ReviewWindowEnds(m) /\ UNCHANGED session
    PROVE  Next /\ UNCHANGED session
BY DEF AtomicStep, Next, InvitationStep, MilestoneStep

LEMMA SessionsStepType ==
    SessionsTypeOK /\ PurseCovers /\ [SessionsNext]_sessionVars
      => SessionsTypeOK' /\ PurseCovers'
<1> SUFFICES ASSUME SessionsTypeOK, PurseCovers, [SessionsNext]_sessionVars
             PROVE  SessionsTypeOK' /\ PurseCovers'
  OBVIOUS
<1>1. ASSUME NEW s \in SessionIds, NEW kind \in Kinds, NEW m \in Milestones,
             NEW pay \in 0 .. amount[m], ReadRows(s, kind, m, pay)
      PROVE  SessionsTypeOK' /\ PurseCovers'
  BY <1>1, ReadRowsType
<1>2. ASSUME NEW s \in SessionIds, ReadWallets(s)
      PROVE  SessionsTypeOK' /\ PurseCovers'
  BY <1>2, ReadWalletsType
<1>3. ASSUME NEW s \in SessionIds, Commit(s)
      PROVE  SessionsTypeOK' /\ PurseCovers'
  BY <1>3, CommitType
<1>4. ASSUME NEW s \in SessionIds, Abort(s)
      PROVE  SessionsTypeOK' /\ PurseCovers'
  <2>1. TypeOK' /\ session' = [session EXCEPT ![s] = Idle] /\ Idle.at = "idle"
    BY <1>4 DEF Abort, SessionsTypeOK, vars, dealVars, msVars, moneyVars, feeVars,
                taskVars, TypeOK, Idle
  <2> QED
    BY <2>1 DEF SessionsTypeOK, PurseCovers
<1>5. CASE Next /\ UNCHANGED session
  BY <1>5, StepType DEF SessionsTypeOK, PurseCovers
<1>6. CASE UNCHANGED sessionVars
  BY <1>6, StepType DEF sessionVars, SessionsTypeOK, PurseCovers
<1> QED
  BY <1>1, <1>2, <1>3, <1>4, <1>5, <1>6, EscrowSteps DEF SessionsNext

LEMMA SessionsInitType == SessionsInit => SessionsTypeOK /\ PurseCovers
BY InitType DEF SessionsInit, SessionsTypeOK, PurseCovers, Idle

LEMMA SessionsTypes == SessionsSpec => [](SessionsTypeOK /\ PurseCovers)
BY SessionsInitType, SessionsStepType, PTL DEF SessionsSpec

\* However the sessions interleave, no balance is ever written below zero: a
\* session that overwrites the commit of another one writes what it has read
\* less at most what it has read.
THEOREM SessionsTypeCorrect == SessionsSpec => []SessionsTypeOK
BY SessionsTypes, PTL

-----------------------------------------------------------------------------
(* Work is paid for *)

\* What is recorded as funded was taken from the buyer; a milestone is marked
\* as funded when the price was.
Paid(m) ==
    /\ funded[m] <= ledger[m].fund
    /\ isFunded[m] => ledger[m].fund >= amount[m]

\* What an open session has read of its milestone is old, but not wrong: the
\* milestone exists, its price is the same, and what it saw as funded was paid.
ReadsHold(s) ==
    session[s].at # "idle" =>
        /\ mstatus[session[s].m] # "absent"
        /\ session[s].row.amount = amount[session[s].m]
        /\ session[s].row.funded <= ledger[session[s].m].fund

PaidInv ==
    /\ RowsExist
    /\ \A m \in Milestones : Paid(m)
    /\ \A s \in SessionIds : ReadsHold(s)

LEMMA PaidInit == SessionsInit => PaidInv
<1> SUFFICES ASSUME SessionsInit PROVE PaidInv
  OBVIOUS
<1>1. \A m \in Milestones : Paid(m)
  BY DEF SessionsInit, Init, Paid
<1>2. \A s \in SessionIds : ReadsHold(s)
  BY DEF SessionsInit, ReadsHold, Idle
<1> QED
  BY <1>1, <1>2, InitCount DEF SessionsInit, PaidInv

\* Readers change no row.
LEMMA PaidKept ==
    ASSUME PaidInv, UNCHANGED vars, \A s \in SessionIds : ReadsHold(s)'
    PROVE  PaidInv'
BY DEF PaidInv, RowsExist, Paid, vars, dealVars, msVars, moneyVars

LEMMA ReadRowsPaid ==
    ASSUME SessionsTypeOK, PaidInv, NEW s \in SessionIds, NEW kind \in Kinds,
           NEW m \in Milestones, NEW pay \in 0 .. amount[m],
           ReadRows(s, kind, m, pay)
    PROVE  PaidInv'
<1>1. mstatus[m] # "absent"
  BY DEF ReadRows, Admits, MayFund, UnderReview, ReadyForAutoRelease
<1>2. UNCHANGED <<mstatus, amount, ledger>>
  BY DEF ReadRows, vars, msVars, moneyVars
<1>3. ASSUME NEW i \in SessionIds
      PROVE  ReadsHold(i)'
  <2>1. CASE i = s
    <3>1. /\ session'[i].m = m /\ session'[i].row = RowsOf(m)
      BY <2>1 DEF ReadRows, SessionsTypeOK
    <3>2. RowsOf(m).amount = amount[m] /\ RowsOf(m).funded = funded[m]
      BY DEF RowsOf
    <3> QED
      BY <1>1, <1>2, <3>1, <3>2 DEF ReadsHold, PaidInv, Paid
  <2>2. CASE i # s
    <3>1. session'[i] = session[i]
      BY <2>2 DEF ReadRows, SessionsTypeOK
    <3> QED
      BY <1>2, <3>1 DEF ReadsHold, PaidInv
  <2> QED
    BY <2>1, <2>2
<1> QED
  BY <1>3, PaidKept DEF ReadRows

LEMMA ReadWalletsPaid ==
    ASSUME SessionsTypeOK, PaidInv, NEW s \in SessionIds,
           ReadWallets(s) \/ Abort(s)
    PROVE  PaidInv'
<1>1. UNCHANGED <<mstatus, amount, ledger>> /\ UNCHANGED vars
  BY DEF ReadWallets, Abort, vars, msVars, moneyVars
<1>2. ASSUME NEW i \in SessionIds
      PROVE  \/ session'[i].at = "idle"
             \/ /\ session'[i].m = session[i].m
                /\ session'[i].row = session[i].row
                /\ session[i].at # "idle"
  <2>1. CASE i = s /\ Abort(s)
    BY <2>1 DEF Abort, Idle, SessionsTypeOK
  <2>2. CASE i = s /\ ReadWallets(s)
    <3>1. session[s] \in Open /\ session[s].at = "rows"
      BY <2>2, OpenSession DEF ReadWallets
    <3>2. \E p : session' = [session EXCEPT ![s].at = "wallets", ![s].purse = p]
      BY <2>2 DEF ReadWallets
    <3>3. \E p : session'[s] = [session[s] EXCEPT !.at = "wallets", !.purse = p]
      BY <3>2 DEF SessionsTypeOK
    <3> QED
      BY <2>2, <3>1, <3>3 DEF Open
  <2>3. CASE i # s
    <3>1. session'[i] = session[i]
      BY <2>3 DEF Abort, ReadWallets, SessionsTypeOK
    <3> QED
      BY <3>1
  <2> QED
    BY <2>1, <2>2, <2>3
<1>3. ASSUME NEW i \in SessionIds
      PROVE  ReadsHold(i)'
  BY <1>1, <1>2 DEF ReadsHold, PaidInv
<1> QED
  BY <1>1, <1>3, PaidKept


\* A commit changes one milestone that exists, and takes nothing back of what
\* was locked: the other sessions' reads hold.
LEMMA CommitKeeps ==
    ASSUME SessionsTypeOK, TypeOK', PaidInv, NEW s \in SessionIds, Commit(s),
           NEW m \in Milestones, mstatus[m] # "absent", mstatus'[m] # "absent",
           DealsStay, UNCHANGED amount,
           \A n \in Milestones : Paid(n)' /\ ledger[n].fund <= ledger'[n].fund,
           \A n \in Milestones \ {m} : /\ mstatus'[n] = mstatus[n]
                                       /\ isFunded'[n] = isFunded[n]
    PROVE  PaidInv'
<1>1. RowsExist'
  BY RowsAssumption DEF PaidInv, RowsExist, DealsStay
<1>2. ASSUME NEW i \in SessionIds
      PROVE  ReadsHold(i)'
  <2>1. CASE i = s \/ session[i] = Idle
    BY <2>1 DEF Commit, Idle, ReadsHold
  <2>2. CASE i # s /\ session[i] # Idle
    <3>1. session[i] \in Open
      BY <2>2 DEF SessionsTypeOK
    <3>2. session[i].at # "idle" /\ session[i].row.funded \in Nat
      BY <3>1 DEF Open, Rows
    <3>3. /\ session'[i].m = session[i].m /\ session'[i].row = session[i].row
          /\ session[i].m \in Milestones
      BY <2>2, <3>1 DEF Commit, Open
    <3>4. /\ mstatus[session[i].m] # "absent"
          /\ session[i].row.amount = amount[session[i].m]
          /\ session[i].row.funded <= ledger[session[i].m].fund
      BY <3>2 DEF PaidInv, ReadsHold
    <3>5. mstatus'[session[i].m] # "absent"
      BY <3>3, <3>4
    <3>6. /\ ledger[session[i].m].fund <= ledger'[session[i].m].fund
          /\ funded'[session[i].m] <= ledger'[session[i].m].fund
      BY <3>3 DEF Paid
    <3>7. ledger[session[i].m].fund \in Nat /\ ledger'[session[i].m].fund \in Nat
      BY <3>3 DEF SessionsTypeOK, TypeOK, MilestoneLedger
    <3> QED
      BY <3>2, <3>3, <3>4, <3>5, <3>6, <3>7 DEF ReadsHold
  <2> QED
    BY <2>1, <2>2
<1> QED
  BY <1>1, <1>2 DEF PaidInv

LEMMA CommitFundPaid ==
    ASSUME SessionsTypeOK, TypeOK', PaidInv, NEW s \in SessionIds, Commit(s),
           CommitFund(s)
    PROVE  PaidInv'
<1> DEFINE m == session[s].m
           t == DealOf[m]
           row == session[s].row
           pay == session[s].pay
<1>1. session[s].at # "idle"
  BY DEF CommitFund
<1>2. /\ m \in Milestones /\ t \in Deals /\ pay \in Nat
      /\ row.funded \in Nat /\ row.amount \in Nat
  BY <1>1, OpenSession, OpenReads
<1>3. /\ mstatus[m] # "absent" /\ row.amount = amount[m]
      /\ row.funded <= ledger[m].fund
  BY <1>1 DEF PaidInv, ReadsHold
<1>4. status[t] # "none"
  BY <1>2, <1>3 DEF PaidInv, RowsExist
<1>5. /\ ledger' = [ledger EXCEPT ![m].fund = @ + pay]
      /\ funded' = [funded EXCEPT ![m] = row.funded + pay]
      /\ isFunded' = [isFunded EXCEPT ![m] = @ \/ row.funded + pay = row.amount]
      /\ UNCHANGED amount
      /\ \E x \in {"funded", "pending", mstatus[m]} :
           mstatus' = [mstatus EXCEPT ![m] = x]
      /\ \E x \in {"active", "partially_funded", status[t]} :
           status' = [status EXCEPT ![t] = x]
  BY DEF CommitFund, Fills, Written
<1>6. TypeOK
  BY DEF SessionsTypeOK
<1> HIDE DEF m, t, row, pay
<1>7. ASSUME NEW n \in Milestones
      PROVE  /\ ledger[n].fund \in Nat
             /\ ledger'[n].fund = IF n = m THEN ledger[n].fund + pay ELSE ledger[n].fund
  <2>1. ledger[n] \in MilestoneLedger /\ n \in DOMAIN ledger
    BY <1>6 DEF TypeOK
  <2> QED
    BY <1>5, <2>1 DEF MilestoneLedger
<1>8. ASSUME NEW n \in Milestones
      PROVE  Paid(n)' /\ ledger[n].fund <= ledger'[n].fund
  <2>1. funded[n] <= ledger[n].fund /\ (isFunded[n] => ledger[n].fund >= amount[n])
    BY DEF PaidInv, Paid
  <2>2. amount[n] \in Nat /\ amount'[n] = amount[n] /\ funded[n] \in Nat
    BY <1>5, <1>6 DEF TypeOK
  <2>3. CASE n = m
    <3>1. /\ funded'[n] = row.funded + pay
          /\ isFunded'[n] = (isFunded[n] \/ row.funded + pay = row.amount)
      BY <1>2, <1>5, <1>6, <2>3 DEF TypeOK
    <3>2. funded'[n] <= ledger'[n].fund
      BY <1>2, <1>3, <1>7, <2>3, <3>1
    <3>3. isFunded'[n] => ledger'[n].fund >= amount'[n]
      <4>1. amount[m] \in Nat /\ amount'[n] = amount[m] /\ ledger[m].fund \in Nat
        BY <1>7, <2>2, <2>3
      <4>2. ledger'[n].fund = ledger[m].fund + pay
        BY <1>7, <2>3
      <4>3. isFunded[n] => ledger[m].fund >= amount[m]
        BY <2>1, <2>3
      <4>4. CASE isFunded[n]
        <5>1. ledger[m].fund >= amount[m]
          BY <4>3, <4>4
        <5> QED
          BY <1>2, <4>1, <4>2, <5>1
      <4>5. CASE row.funded + pay = row.amount
        BY <1>2, <1>3, <4>1, <4>2, <4>5
      <4> QED
        BY <3>1, <4>4, <4>5
    <3> QED
      BY <1>2, <1>7, <3>2, <3>3 DEF Paid
  <2>4. CASE n # m
    <3>1. /\ funded'[n] = funded[n] /\ isFunded'[n] = isFunded[n]
          /\ ledger'[n].fund = ledger[n].fund
      BY <1>5, <1>6, <1>7, <2>4 DEF TypeOK
    <3> QED
      BY <1>7, <2>1, <2>2, <3>1 DEF Paid
  <2> QED
    BY <2>3, <2>4
<1>9. mstatus'[m] # "absent" /\ DealsStay
  BY <1>2, <1>3, <1>4, <1>5, <1>6 DEF DealsStay, TypeOK
<1>10. \A n \in Milestones \ {m} : /\ mstatus'[n] = mstatus[n]
                                   /\ isFunded'[n] = isFunded[n]
  BY <1>5, <1>6 DEF TypeOK
<1> QED
  BY <1>2, <1>3, <1>5, <1>8, <1>9, <1>10, CommitKeeps

\* A release or a revision leaves what was locked, and the marks, alone.
LEMMA CommitOtherPaid ==
    ASSUME SessionsTypeOK, TypeOK', PaidInv, NEW s \in SessionIds, Commit(s),
           CommitRelease(s) \/ CommitRevision(s)
    PROVE  PaidInv'
<1> DEFINE m == session[s].m
<1>1. session[s].at # "idle"
  BY DEF CommitRelease, CommitRevision
<1>2. /\ m \in Milestones /\ DealOf[m] \in Deals
      /\ session[s].row.funded \in Nat /\ session[s].row.amount \in Nat
  BY <1>1, OpenSession, OpenReads
<1>3. mstatus[m] # "absent"
  BY <1>1 DEF PaidInv, ReadsHold
<1>4. /\ UNCHANGED <<amount, funded, isFunded>>
      /\ \E x \in {"completed", "revision_requested"} :
           mstatus' = [mstatus EXCEPT ![m] = x]
      /\ \E x \in {"completed", status[DealOf[m]]} :
           status' = [status EXCEPT ![DealOf[m]] = x]
      /\ \E x : ledger' = ledger \/ ledger' = [ledger EXCEPT ![m].release = x]
  <2>1. TypeOK
    BY DEF SessionsTypeOK
  <2>2. CASE CommitRelease(s)
    BY <2>2 DEF CommitRelease
  <2>3. CASE CommitRevision(s)
    <3>1. status' = [status EXCEPT ![DealOf[m]] = status[DealOf[m]]]
      BY <1>2, <2>1, <2>3 DEF CommitRevision, dealVars, TypeOK
    <3> QED
      BY <2>3, <3>1 DEF CommitRevision, moneyVars
  <2> QED
    BY <2>2, <2>3
<1>5. TypeOK
  BY DEF SessionsTypeOK
<1> HIDE DEF m
<1>6. ASSUME NEW n \in Milestones
      PROVE  ledger[n].fund \in Nat /\ ledger'[n].fund = ledger[n].fund
  <2>1. ledger[n] \in MilestoneLedger /\ n \in DOMAIN ledger
    BY <1>5 DEF TypeOK
  <2> QED
    BY <1>4, <2>1 DEF MilestoneLedger
<1>7. \A n \in Milestones : Paid(n)' /\ ledger[n].fund <= ledger'[n].fund
  BY <1>4, <1>6 DEF PaidInv, Paid
<1>8. mstatus'[m] # "absent" /\ DealsStay
  BY <1>2, <1>3, <1>4, <1>5 DEF DealsStay, TypeOK, PaidInv, RowsExist
<1>9. \A n \in Milestones \ {m} : /\ mstatus'[n] = mstatus[n]
                                  /\ isFunded'[n] = isFunded[n]
  BY <1>4, <1>5 DEF TypeOK
<1> QED
  BY <1>2, <1>3, <1>4, <1>7, <1>8, <1>9, CommitKeeps

\* Between sessions only a new deal sets prices, and none of its milestones
\* is funded.
LEMMA BetweenPaid ==
    ASSUME SessionsTypeOK, PaidInv,
           \/ AtomicStep
           \/ \E m \in Milestones : ReviewWindowEnds(m) /\ UNCHANGED session
    PROVE  PaidInv'
<1>1. TypeOK
  BY DEF SessionsTypeOK
<1>2. UNCHANGED <<funded, isFunded, ledger, session>>
  BY DEF AtomicStep, CreateDeal, AcceptDeal, SubmitDelivery, ReviewWindowEnds,
         msVars, moneyVars
<1>3. RowsExist'
  <2>1. KeepsRows
    BY <1>1, EscrowSteps, StepRows
  <2> QED
    BY <1>2, <2>1, RowsAssumption DEF PaidInv, RowsExist, KeepsRows, DealsStay
<1>4. ASSUME NEW n \in Milestones
      PROVE  Paid(n)'
  <2>1. amount'[n] = amount[n] \/ ~isFunded[n]
    <3>1. ASSUME NEW t \in Deals, CreateDeal(t)
          PROVE  amount'[n] = amount[n] \/ ~isFunded[n]
      <4>1. PICK ms \in SUBSET MilestonesOf(t) : \E price \in [ms -> Amounts] :
              /\ mstatus' = [m \in Milestones |->
                               IF m \in ms THEN "pending" ELSE mstatus[m]]
              /\ amount' = [m \in Milestones |->
                              IF m \in ms THEN price[m] ELSE amount[m]]
        BY <3>1 DEF CreateDeal
      <4>2. status[t] = "none"
        BY <3>1 DEF CreateDeal
      <4> QED
        BY <4>1, <4>2 DEF PaidInv, RowsExist, MilestonesOf
    <3> QED
      BY <3>1 DEF AtomicStep, AcceptDeal, SubmitDelivery, ReviewWindowEnds, msVars
  <2> QED
    BY <1>2, <2>1 DEF PaidInv, Paid
<1>5. ASSUME NEW i \in SessionIds
      PROVE  ReadsHold(i)'
  <2>1. CASE AtomicStep
    BY <1>2, <2>1 DEF AtomicStep, AllIdle, Idle, ReadsHold
  <2>2. CASE \E m \in Milestones : ReviewWindowEnds(m)
    BY <1>2, <2>2 DEF ReviewWindowEnds, PaidInv, ReadsHold
  <2> QED
    BY <2>1, <2>2
<1> QED
  BY <1>3, <1>4, <1>5 DEF PaidInv

LEMMA PaidStep ==
    SessionsTypeOK /\ TypeOK' /\ PaidInv /\ [SessionsNext]_sessionVars => PaidInv'
<1> SUFFICES ASSUME SessionsTypeOK, TypeOK', PaidInv, [SessionsNext]_sessionVars
             PROVE  PaidInv'
  OBVIOUS
<1>1. CASE UNCHANGED sessionVars
  <2>1. \A i \in SessionIds : ReadsHold(i)'
    BY <1>1 DEF sessionVars, vars, msVars, moneyVars, PaidInv, ReadsHold
  <2> QED
    BY <1>1, <2>1, PaidKept DEF sessionVars
<1>2. ASSUME NEW s \in SessionIds, Commit(s)
      PROVE  PaidInv'
  BY <1>2, CommitFundPaid, CommitOtherPaid DEF Commit
<1> QED
  BY <1>1, <1>2, ReadRowsPaid, ReadWalletsPaid, BetweenPaid DEF SessionsNext

\* Without locks the counters and balances of Sessions go wrong, but this
\* stays: a milestone is only marked as funded, and work on it only starts,
\* when its price was taken.
THEOREM WorkPaidFor == SessionsSpec => []WorkIsPaidFor
<1>1. PaidInv => WorkIsPaidFor
  BY DEF PaidInv, Paid, WorkIsPaidFor
<1>2. SessionsTypeOK => TypeOK
  BY DEF SessionsTypeOK
<1> QED
  BY <1>1, <1>2, PaidInit, PaidStep, SessionsTypes, PTL DEF SessionsSpec

-----------------------------------------------------------------------------
(* A commit on current reads is an atomic step *)

\* What session s would be admitted on if it read its rows now.
StillAdmitted(s) ==
    LET m == session[s].m
        pay == session[s].pay
    IN
    \/ session[s].kind = "fund" /\ pay > 0 /\ MayFund(m, pay)
    \/ session[s].kind \in {"approve", "revise"} /\ UnderReview(m)
    \/ session[s].kind = "auto" /\ releaseTask[m] /\ ReadyForAutoRelease(m)

PurseOf(m) ==
    [available |-> available[Buyer[DealOf[m]]],
     escrow |-> escrow[Buyer[DealOf[m]]],
     seller |-> available[Seller[DealOf[m]]]]

\* Until another session commits, what a session has read is what is stored.
Current(s) ==
    session[s].at # "idle" /\ session[s].fresh =>
        /\ session[s].row = RowsOf(session[s].m)
        /\ session[s].at = "wallets" => session[s].purse = PurseOf(session[s].m)
        /\ StillAdmitted(s)

ReadsAreCurrent == \A s \in SessionIds : Current(s)

\* A session that reads nothing new while only clocks advance.
LEMMA StaysCurrent ==
    ASSUME NEW i \in SessionIds, Current(i), session'[i] = session[i],
           UNCHANGED <<dealVars, mstatus, amount, funded, isFunded, proof,
                       moneyVars, releaseTask>>,
           \A m \in Milestones : autoRelease[m] # "ahead" => autoRelease'[m] # "ahead",
           session[i].at # "idle" => session[i].m \in Milestones
    PROVE  Current(i)'
<1> DEFINE m == session[i].m
           pay == session[i].pay
<1>1. SUFFICES ASSUME session[i].at # "idle" /\ session[i].fresh
               PROVE  /\ session'[i].row = RowsOf(m)'
                      /\ session'[i].at = "wallets" => session'[i].purse = PurseOf(m)'
                      /\ StillAdmitted(i)'
  BY DEF Current
<1>2. /\ m \in Milestones /\ session[i].row = RowsOf(m)
      /\ session[i].at = "wallets" => session[i].purse = PurseOf(m)
      /\ StillAdmitted(i)
  BY <1>1 DEF Current
<1>3. m' = m /\ pay' = pay /\ session'[i].kind = session[i].kind
  OBVIOUS
<1> HIDE DEF m, pay
<1>4. RowsOf(m)' = RowsOf(m) /\ PurseOf(m)' = PurseOf(m)
  BY <1>3 DEF RowsOf, PurseOf, dealVars, moneyVars
<1>5. MayFund(m, pay) => MayFund(m, pay)'
  BY <1>3 DEF MayFund, Due, dealVars, moneyVars
<1>6. UnderReview(m) => UnderReview(m)'
  BY <1>3 DEF UnderReview
<1>7. ReadyForAutoRelease(m) => ReadyForAutoRelease(m)'
  BY <1>2, <1>3, <1>6 DEF ReadyForAutoRelease
<1>8. StillAdmitted(i)'
  <2>1. \/ session[i].kind = "fund" /\ pay > 0 /\ MayFund(m, pay)'
        \/ session[i].kind \in {"approve", "revise"} /\ UnderReview(m)'
        \/ session[i].kind = "auto" /\ releaseTask[m] /\ ReadyForAutoRelease(m)'
    BY <1>2, <1>5, <1>6, <1>7 DEF StillAdmitted, m, pay
  <2> QED
    BY <1>3, <2>1 DEF StillAdmitted, m, pay
<1> QED
  BY <1>2, <1>4, <1>8

LEMMA ReadRowsCurrent ==
    ASSUME SessionsTypeOK, ReadsAreCurrent, NEW s \in SessionIds,
           NEW kind \in Kinds, NEW m \in Milestones, NEW pay \in 0 .. amount[m],
           ReadRows(s, kind, m, pay)
    PROVE  ReadsAreCurrent'
<1>1. session'[s] = [at |-> "rows", kind |-> kind, m |-> m, pay |-> pay,
                     row |-> RowsOf(m), purse |-> NoPurse, fresh |-> TRUE]
  BY DEF ReadRows, SessionsTypeOK
<1>2. UNCHANGED vars
  BY DEF ReadRows
<1>3. RowsOf(m)' = RowsOf(m)
  BY <1>2 DEF RowsOf, vars, dealVars, msVars
<1>4. MayFund(m, pay)' = MayFund(m, pay) /\ UnderReview(m)' = UnderReview(m)
  BY <1>2 DEF MayFund, Due, UnderReview, vars, dealVars, msVars, moneyVars
<1>5. ReadyForAutoRelease(m)' = ReadyForAutoRelease(m) /\ releaseTask' = releaseTask
  BY <1>2, <1>4 DEF ReadyForAutoRelease, vars, msVars, taskVars
<1>6. Admits(kind, m, pay)
  BY DEF ReadRows
<1>7. StillAdmitted(s)'
  BY <1>1, <1>4, <1>5, <1>6 DEF StillAdmitted, Admits
<1>8. Current(s)'
  BY <1>1, <1>3, <1>7 DEF Current
<1>9. ASSUME NEW i \in SessionIds \ {s}
      PROVE  Current(i)'
  <2>1. session'[i] = session[i]
    BY DEF ReadRows, SessionsTypeOK
  <2> QED
    BY <1>2, <2>1, OpenSession, StaysCurrent
    DEF ReadsAreCurrent, vars, msVars, taskVars
<1> QED
  BY <1>8, <1>9 DEF ReadsAreCurrent

LEMMA ReadWalletsCurrent ==
    ASSUME SessionsTypeOK, ReadsAreCurrent, NEW s \in SessionIds, ReadWallets(s)
    PROVE  ReadsAreCurrent'
<1> DEFINE m == session[s].m
<1>1. session[s].at = "rows"
  BY DEF ReadWallets
<1>2. session[s] \in Open
  BY <1>1, OpenSession
<1>3. session'[s] = [session[s] EXCEPT !.at = "wallets", !.purse = PurseOf(m)]
  BY <1>2 DEF ReadWallets, SessionsTypeOK, PurseOf
<1>4. /\ session'[s].m = m /\ session'[s].kind = session[s].kind
      /\ session'[s].pay = session[s].pay /\ session'[s].row = session[s].row
      /\ session'[s].fresh = session[s].fresh
      /\ session'[s].purse = PurseOf(m)
  BY <1>2, <1>3 DEF Open
<1>5. UNCHANGED vars
  BY DEF ReadWallets
<1>6. RowsOf(m)' = RowsOf(m) /\ PurseOf(m)' = PurseOf(m)
  BY <1>4, <1>5 DEF RowsOf, PurseOf, vars, dealVars, msVars, moneyVars
<1>7. StillAdmitted(s)' = StillAdmitted(s)
  BY <1>4, <1>5 DEF StillAdmitted, MayFund, Due, UnderReview, ReadyForAutoRelease,
                    vars, dealVars, msVars, moneyVars, taskVars
<1>8. Current(s)'
  BY <1>1, <1>4, <1>6, <1>7 DEF Current, ReadsAreCurrent
<1>9. ASSUME NEW i \in SessionIds \ {s}
      PROVE  Current(i)'
  <2>1. session'[i] = session[i]
    BY DEF ReadWallets, SessionsTypeOK
  <2> QED
    BY <1>5, <2>1, OpenSession, StaysCurrent
    DEF ReadsAreCurrent, vars, msVars, taskVars
<1> QED
  BY <1>8, <1>9 DEF ReadsAreCurrent

LEMMA CurrentStep ==
    ASSUME SessionsTypeOK, ReadsAreCurrent, [SessionsNext]_sessionVars
    PROVE  ReadsAreCurrent'
<1>1. ASSUME NEW s \in SessionIds, NEW kind \in Kinds, NEW m \in Milestones,
             NEW pay \in 0 .. amount[m], ReadRows(s, kind, m, pay)
      PROVE  ReadsAreCurrent'
  BY <1>1, ReadRowsCurrent
<1>2. ASSUME NEW s \in SessionIds, ReadWallets(s)
      PROVE  ReadsAreCurrent'
  BY <1>2, ReadWalletsCurrent
<1>3. ASSUME NEW s \in SessionIds, Commit(s)
      PROVE  ReadsAreCurrent'
  <2>1. ASSUME NEW i \in SessionIds
        PROVE  session'[i].at # "idle" => session'[i].fresh = FALSE
    <3>1. CASE i = s \/ session[i] = Idle
      BY <1>3, <3>1 DEF Commit, Idle
    <3>2. CASE i # s /\ session[i] # Idle
      <4>1. session[i] \in Open
        BY <3>2 DEF SessionsTypeOK
      <4>2. session'[i] = [session[i] EXCEPT !.fresh = FALSE]
        BY <1>3, <3>2 DEF Commit
      <4> QED
        BY <4>1, <4>2 DEF Open
    <3> QED
      BY <3>1, <3>2
  <2> QED
    BY <2>1 DEF ReadsAreCurrent, Current
<1>4. ASSUME NEW s \in SessionIds, Abort(s)
      PROVE  ReadsAreCurrent'
  <2>1. session'[s].at = "idle" /\ UNCHANGED vars
    BY <1>4 DEF Abort, SessionsTypeOK, Idle
  <2>2. ASSUME NEW i \in SessionIds \ {s}
        PROVE  Current(i)'
    <3>1. session'[i] = session[i]
      BY <1>4 DEF Abort, SessionsTypeOK
    <3> QED
      BY <2>1, <3>1, OpenSession, StaysCurrent
      DEF ReadsAreCurrent, vars, msVars, taskVars
  <2> QED
    BY <2>1, <2>2 DEF ReadsAreCurrent, Current
<1>5. ASSUME NEW m \in Milestones, ReviewWindowEnds(m), UNCHANGED session
      PROVE  ReadsAreCurrent'
  <2>1. \A n \in Milestones : autoRelease[n] # "ahead" => autoRelease'[n] # "ahead"
    BY <1>5 DEF ReviewWindowEnds, SessionsTypeOK, TypeOK
  <2>2. UNCHANGED <<dealVars, mstatus, amount, funded, isFunded, proof,
                    moneyVars, releaseTask>>
    BY <1>5 DEF ReviewWindowEnds, taskVars
  <2>3. ASSUME NEW i \in SessionIds
        PROVE  Current(i)'
    BY <1>5, <2>1, <2>2, OpenSession, StaysCurrent DEF ReadsAreCurrent
  <2> QED
    BY <2>3 DEF ReadsAreCurrent
<1>6. CASE AtomicStep
  BY <1>6 DEF AtomicStep, AllIdle, Idle, ReadsAreCurrent, Current
<1>7. CASE UNCHANGED sessionVars
  <2>1. \A n \in Milestones : autoRelease[n] # "ahead" => autoRelease'[n] # "ahead"
    BY <1>7 DEF sessionVars, vars, msVars
  <2>2. UNCHANGED <<dealVars, mstatus, amount, funded, isFunded, proof,
                    moneyVars, releaseTask>> /\ UNCHANGED session
    BY <1>7 DEF sessionVars, vars, msVars, taskVars
  <2>3. ASSUME NEW i \in SessionIds
        PROVE  Current(i)'
    BY <2>1, <2>2, OpenSession, StaysCurrent DEF ReadsAreCurrent
  <2> QED
    BY <2>3 DEF ReadsAreCurrent
<1> QED
  BY <1>1, <1>2, <1>3, <1>4, <1>5, <1>6, <1>7 DEF SessionsNext

LEMMA FundIsAtomic ==
    ASSUME SessionsTypeOK, PurseCovers, ReadsAreCurrent, NEW s \in SessionIds,
           CommitFund(s), session[s].fresh
    PROVE  \E pay \in 1 .. amount[session[s].m] : FundMilestone(session[s].m, pay)
<1> DEFINE m == session[s].m
           t == DealOf[m]
           b == Buyer[t]
           pay == session[s].pay
           full == funded[m] + pay = amount[m]
<1>1. session[s].at = "wallets" /\ session[s].kind = "fund"
  BY DEF CommitFund
<1>2. /\ m \in Milestones /\ t \in Deals /\ b \in Users /\ pay \in Nat
      /\ session[s].purse.available >= pay
  BY <1>1, OpenSession DEF PurseCovers
<1>3. /\ session[s].row = RowsOf(m) /\ session[s].purse = PurseOf(m)
      /\ pay > 0 /\ MayFund(m, pay)
  BY <1>1 DEF ReadsAreCurrent, Current, StillAdmitted
<1>4. /\ session[s].row.mstatus = mstatus[m] /\ session[s].row.amount = amount[m]
      /\ session[s].row.funded = funded[m] /\ session[s].row.status = status[t]
      /\ session[s].row.fundedMs = fundedMs[t]
      /\ session[s].purse.available = available[b]
      /\ session[s].purse.escrow = escrow[b]
  BY <1>3 DEF RowsOf, PurseOf
<1>5. TypeOK
  BY DEF SessionsTypeOK
<1>6. ~isFunded[m] /\ funded[m] + pay <= amount[m]
  BY <1>3 DEF MayFund
<1>7. pay \in 1 .. amount[m]
  <2>1. funded[m] \in Nat /\ amount[m] \in Nat
    BY <1>2, <1>5 DEF TypeOK
  <2> QED
    BY <1>2, <1>3, <1>6, <2>1
<1>8. FullyFunded(t) \ {m} = FullyFunded(t)
  BY <1>6 DEF FullyFunded
<1>9. /\ available' = [available EXCEPT ![b] = @ - pay]
      /\ escrow' = [escrow EXCEPT ![b] = @ + pay]
  BY <1>2, <1>4, <1>5 DEF CommitFund, TypeOK
<1>10. /\ ledger' = [ledger EXCEPT ![m].fund = @ + pay]
       /\ funded' = [funded EXCEPT ![m] = funded[m] + pay]
  BY <1>4 DEF CommitFund
<1>11. isFunded' = [isFunded EXCEPT ![m] = full]
  BY <1>2, <1>4, <1>5, <1>6 DEF CommitFund, Fills, TypeOK
<1>12. mstatus' = [mstatus EXCEPT ![m] = IF full THEN "funded" ELSE "pending"]
  BY <1>2, <1>4, <1>5 DEF CommitFund, Fills, Written, TypeOK
<1>13. fundedMs' = [fundedMs EXCEPT ![t] = IF full THEN @ + 1 ELSE @]
  BY <1>2, <1>4, <1>5 DEF CommitFund, Fills, TypeOK
<1>14. status' = [status EXCEPT ![t] =
                   IF full \/ FullyFunded(t) # {} THEN "active"
                   ELSE "partially_funded"]
  BY <1>2, <1>4, <1>5, <1>8 DEF CommitFund, Fills, Written, TypeOK
<1>15. CanFund(m, pay)
  BY <1>2, <1>3, <1>4 DEF CanFund
<1>16. UNCHANGED <<deadline, completedMs, hasDispute, amount, autoRelease,
                   proof, frozen, feeVars, taskVars>>
  BY DEF CommitFund
<1> HIDE DEF pay
<1>17. FundMilestone(m, pay)
  BY <1>9, <1>10, <1>11, <1>12, <1>13, <1>14, <1>15, <1>16 DEF FundMilestone
<1> QED
  BY <1>7, <1>17

\* With no agent requests a settlement credits nobody and changes nothing.
LEMMA NoFees ==
    ASSUME TypeOK, NEW t \in Deals, NEW paid \in SUBSET Requests
    PROVE  /\ \A u \in Users : FeeCredit(u, t, paid) = 0
           /\ UNCHANGED <<earning, feeLedger>> => SettleFees(t, paid)
<1>1. Requests = {} /\ paid = {} /\ HeldOn(t) = {}
  BY SessionsAssumption DEF HeldOn
<1>2. ASSUME NEW u \in Users
      PROVE  FeeCredit(u, t, paid) = 0
  <2>1. {r \in paid : AgentOf[r] = u} = {} /\ HeldOn(t) \ paid = {}
    BY <1>1
  <2> QED
    BY <2>1, TotalZero DEF FeeCredit
<1>3. earning \in [Requests -> EarningStatus] /\ DOMAIN feeLedger = Requests
  BY DEF TypeOK
<1> QED
  BY <1>1, <1>2, <1>3 DEF SettleFees, TypeOK

LEMMA ReleaseIsAtomic ==
    ASSUME SessionsTypeOK, ReadsAreCurrent, NEW s \in SessionIds,
           CommitRelease(s), session[s].fresh
    PROVE  Release(session[s].m)
<1> DEFINE m == session[s].m
           t == DealOf[m]
           paid == ReleaseAmount(m)
<1>1. session[s].at = "wallets"
  BY DEF CommitRelease
<1>2. /\ m \in Milestones /\ t \in Deals
      /\ Buyer[t] \in Users /\ Seller[t] \in Users
  BY <1>1, OpenSession
<1>3. session[s].row = RowsOf(m) /\ session[s].purse = PurseOf(m)
  BY <1>1 DEF ReadsAreCurrent, Current
<1>4. /\ session[s].row.amount = amount[m] /\ session[s].row.funded = funded[m]
      /\ session[s].row.completedMs = completedMs[t]
      /\ session[s].purse.escrow = escrow[Buyer[t]]
      /\ session[s].purse.seller = available[Seller[t]]
  BY <1>3 DEF RowsOf, PurseOf
<1>5. TypeOK
  BY DEF SessionsTypeOK
<1>6. (IF session[s].row.funded # 0 THEN session[s].row.funded
       ELSE session[s].row.amount) = paid
  BY <1>4 DEF ReleaseAmount
<1>7. paid \in Nat
  BY <1>2, <1>5 DEF TypeOK, ReleaseAmount
<1> HIDE DEF paid
<1>8. escrow' = [escrow EXCEPT ![Buyer[t]] = Minus(@, paid)]
  BY <1>2, <1>4, <1>5, <1>6 DEF CommitRelease, TypeOK
<1>9. available' = [available EXCEPT ![Seller[t]] = @ + paid]
  BY <1>2, <1>4, <1>5, <1>6 DEF CommitRelease, TypeOK
<1>10. available' =
         [u \in Users |->
            available[u] + (IF CompletesDeal(m) THEN FeeCredit(u, t, Eligible(t)) ELSE 0)
              + (IF u = Seller[t] THEN paid ELSE 0)]
  <2>1. \A u \in Users : FeeCredit(u, t, Eligible(t)) = 0
    BY <1>2, <1>5, NoFees DEF Eligible, HeldOn
  <2>2. available' = [u \in Users |-> available[u] + (IF u = Seller[t] THEN paid ELSE 0)]
    <3>1. available \in [Users -> Nat] /\ Seller[t] \in Users
      BY <1>2, <1>5 DEF TypeOK
    <3>2. \A u \in Users : available[u] + 0 = available[u]
      BY <3>1
    <3> HIDE DEF t
    <3> QED
      BY <1>9, <3>1, <3>2
  <2>3. \A u \in Users :
          available[u] + (IF CompletesDeal(m) THEN FeeCredit(u, t, Eligible(t)) ELSE 0)
            = available[u]
    BY <1>5, <2>1 DEF TypeOK
  <2> QED
    BY <2>2, <2>3
<1>11. ledger' = [ledger EXCEPT ![m].release = @ + paid]
  BY <1>6 DEF CommitRelease
<1>12. completedMs' = [completedMs EXCEPT ![t] = @ + 1]
  BY <1>4 DEF CommitRelease
<1>13. IF CompletesDeal(m) THEN SettleFees(t, Eligible(t))
                           ELSE UNCHANGED <<earning, feeLedger>>
  <2>1. UNCHANGED <<earning, feeLedger>>
    BY DEF CommitRelease, feeVars
  <2> QED
    BY <1>2, <1>5, <2>1, NoFees DEF Eligible, HeldOn
<1> QED
  BY <1>8, <1>10, <1>11, <1>12, <1>13 DEF CommitRelease, Release, paid, feeVars

LEMMA FreshCommit ==
    ASSUME SessionsTypeOK, PurseCovers, ReadsAreCurrent, NEW s \in SessionIds,
           Commit(s), session[s].fresh
    PROVE  \E m \in Milestones : MilestoneStep(m)
<1> DEFINE m == session[s].m
<1>1. session[s].at # "idle" /\ TypeOK
  BY DEF Commit, CommitFund, CommitRelease, CommitRevision, SessionsTypeOK
<1>2. m \in Milestones /\ StillAdmitted(s)
  BY <1>1, OpenSession DEF ReadsAreCurrent, Current
<1>3. CASE CommitFund(s)
  BY <1>2, <1>3, FundIsAtomic DEF MilestoneStep
<1>4. CASE CommitRelease(s) /\ session[s].kind = "approve"
  <2>1. Release(m) /\ UnderReview(m)
    BY <1>2, <1>4, ReleaseIsAtomic DEF StillAdmitted
  <2>2. UNCHANGED taskVars
    BY <1>1, <1>2, <1>4 DEF CommitRelease, TypeOK, taskVars
  <2> QED
    BY <1>2, <2>1, <2>2 DEF ApproveMilestone, MilestoneStep
<1>5. CASE CommitRelease(s) /\ session[s].kind = "auto"
  <2>1. Release(m) /\ releaseTask[m] /\ ReadyForAutoRelease(m)
    BY <1>2, <1>5, ReleaseIsAtomic DEF StillAdmitted
  <2>2. /\ releaseTask' = [releaseTask EXCEPT ![m] = FALSE]
        /\ UNCHANGED <<enforceTask, staleTask, sweep, feeRefundDue>>
    BY <1>1, <1>2, <1>5 DEF CommitRelease, TypeOK
  <2>3. staleTask' = [staleTask EXCEPT ![m] = @ \/ FALSE]
    BY <1>1, <1>2, <2>2 DEF TypeOK
  <2>4. RunReleaseTask(m)
    BY <2>1, <2>2, <2>3 DEF RunReleaseTask, AutoRelease, ReadyForAutoRelease
  <2> QED
    BY <1>2, <2>4 DEF MilestoneStep
<1>6. CASE CommitRevision(s)
  <2>1. UnderReview(m)
    BY <1>2, <1>6 DEF CommitRevision, StillAdmitted
  <2> QED
    BY <1>2, <1>6, <2>1 DEF CommitRevision, RequestRevision, MilestoneStep
<1> QED
  BY <1>3, <1>4, <1>5, <1>6 DEF Commit, CommitRelease

\* The only thing that goes wrong in Sessions is staleness: a commit whose
\* reads are still current is one of the atomic steps module Escrow takes for
\* the handler, guard and effect, so that everything proved of Escrow's
\* milestone steps holds of it.
THEOREM CommitsOnCurrentReads == SessionsSpec => FreshCommitsAreAtomic
<1>1. SessionsInit => ReadsAreCurrent
  BY DEF SessionsInit, ReadsAreCurrent, Current, Idle
<1>2. SessionsTypeOK /\ PurseCovers /\ ReadsAreCurrent
        => \A s \in SessionIds :
             Commit(s) /\ session[s].fresh => \E m \in Milestones : MilestoneStep(m)
  BY FreshCommit
<1>3. SessionsTypeOK /\ ReadsAreCurrent /\ [SessionsNext]_sessionVars
        => ReadsAreCurrent'
  BY CurrentStep
<1> QED
  BY <1>1, <1>2, <1>3, SessionsTypes, PTL DEF SessionsSpec, FreshCommitsAreAtomic
=============================================================================
