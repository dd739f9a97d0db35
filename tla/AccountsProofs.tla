--------------------------- MODULE AccountsProofs ---------------------------
(***************************************************************************)
(* Theorems about Accounts, for any number of accounts and deals: types,   *)
(* invitations, and which accounts may be deleted as unverified ones.      *)
(* About Requests, for any number of retries: what a retry is told.        *)
(***************************************************************************)
EXTENDS Requests, TLAPS

-----------------------------------------------------------------------------
(* The invariant *)

Registrations ==
    [step : {"flushed"}, verify : BOOLEAN, links : SUBSET Deals]

\* A registration that has flushed its row: there is no account yet, and the
\* invitations to the address are in its list, or were made in the meantime.
RegistrationOK(e) ==
    registering[e] # NotRegistering =>
        /\ account[e] = "none"
        /\ \A d \in registering[e].links :
             Terms[d].as = "buyer" /\ Terms[d].other = e /\ deal[d] # "none"
        /\ \A d \in Deals : deal[d] = "pending" /\ Terms[d].other = e =>
             d \in registering[e].links \cup crossed

\* Both parties of a deal that a seller made exist; a link, made or half-made,
\* leads to an account; a deal that missed an account was made at the same
\* time.
DealOK(d) ==
    LET other == Terms[d].other IN
    /\ Terms[d].as = "seller" =>
         /\ deal[d] # "none" => d \in linked
         /\ creating[d] # "unlinked"
    /\ d \in linked \/ creating[d] = "linked" => account[other] # "none"
    /\ creating[d] = "unlinked" => account[other] = "none" \/ d \in crossed
    /\ creating[d] # "idle" /\ registering[other] # NotRegistering => d \in crossed
    /\ deal[d] = "pending" /\ account[other] # "none" => d \in linked \cup crossed

\* Whoever has signed in is verified, an account that a handler or a clean-up
\* is about to delete is not, and the invited party of an accepted deal has
\* signed in and is linked to it: or the account is excused.
Unexcused ==
    /\ \A e \in signedIn : e \in excused \/ account[e] = "verified"
    /\ \A e \in deleting \cup sweep : e \in excused \/ account[e] # "verified"
    /\ \A d \in Deals : deal[d] = "accepted" =>
         \/ Terms[d].other \in excused
         \/ d \in linked /\ Terms[d].other \in signedIn

AccountsInv ==
    /\ TypeOK
    /\ \A e \in Emails : RegistrationOK(e)
    /\ \A d \in Deals : DealOK(d)
    /\ Unexcused

LEMMA TermsType ==
    ASSUME NEW d \in Deals
    PROVE  /\ Terms[d].creator \in Emails /\ Terms[d].other \in Emails
           /\ Terms[d].as \in {"buyer", "seller"}
BY AccountsAssumption

LEMMA RegistrationType ==
    ASSUME TypeOK, NEW e \in Emails
    PROVE  /\ registering[e] # NotRegistering <=> registering[e].step = "flushed"
           /\ registering[e] # NotRegistering => registering[e] \in Registrations
<1>1. registering[e] \in {NotRegistering} \cup Registrations
  BY DEF TypeOK, Registrations
<1>2. NotRegistering.step = "idle"
  BY DEF NotRegistering
<1>3. CASE registering[e] = NotRegistering
  BY <1>2, <1>3
<1>4. CASE registering[e] # NotRegistering
  <2>1. registering[e] \in Registrations
    BY <1>1, <1>4
  <2>2. registering[e].step = "flushed"
    BY <2>1 DEF Registrations
  <2> QED
    BY <1>4, <2>1, <2>2
<1> QED
  BY <1>3, <1>4

LEMMA AccountsInit == Init => AccountsInv
<1> SUFFICES ASSUME Init PROVE AccountsInv
  OBVIOUS
<1>1. TypeOK
  BY AccountsAssumption DEF Init, TypeOK
<1>2. ASSUME NEW e \in Emails
      PROVE  RegistrationOK(e)
  BY DEF Init, RegistrationOK
<1>3. ASSUME NEW d \in Deals
      PROVE  DealOK(d)
  BY TermsType DEF Init, DealOK
<1>4. Unexcused
  BY DEF Init, Unexcused
<1> QED
  BY <1>1, <1>2, <1>3, <1>4 DEF AccountsInv

-----------------------------------------------------------------------------
(* Registration *)

LEMMA RegisterReadsStep ==
    ASSUME AccountsInv, NEW e \in Emails, RegisterReads(e)
    PROVE  AccountsInv'
<1> DEFINE r == [step |-> "flushed", verify |-> required, links |-> Invitations(e)]
<1>1. TypeOK /\ r \in Registrations
  BY DEF AccountsInv, TypeOK, Registrations, Invitations
<1>2. /\ registering' = [registering EXCEPT ![e] = r]
      /\ registering'[e] = r
      /\ \A f \in Emails : f # e => registering'[f] = registering[f]
  BY <1>1 DEF RegisterReads, TypeOK
<1>3. TypeOK'
  <2>1. registering' \in [Emails -> {NotRegistering} \cup Registrations]
    BY <1>1, <1>2 DEF TypeOK, Registrations
  <2>2. crossed' \subseteq Deals
    BY <1>1 DEF RegisterReads, TypeOK
  <2> HIDE DEF r
  <2> QED
    BY <1>1, <2>1, <2>2 DEF RegisterReads, TypeOK, accountVars, dealVars, Registrations
<1>4. ASSUME NEW f \in Emails
      PROVE  RegistrationOK(f)'
  <2>1. CASE f = e
    <3>1. ASSUME NEW d \in Deals, deal[d] = "pending", Terms[d].other = e
          PROVE  d \in Invitations(e)
      BY <3>1, TermsType DEF AccountsInv, DealOK, RegisterReads, Invitations
    <3>2. \A d \in Invitations(e) :
            Terms[d].as = "buyer" /\ Terms[d].other = e /\ deal[d] # "none"
      BY DEF Invitations
    <3> QED
      BY <1>2, <2>1, <3>1, <3>2
      DEF RegisterReads, RegistrationOK, accountVars, dealVars
  <2>2. CASE f # e
    BY <1>2, <2>2 DEF AccountsInv, RegisterReads, RegistrationOK, accountVars, dealVars
  <2> QED
    BY <2>1, <2>2
<1>5. ASSUME NEW d \in Deals
      PROVE  DealOK(d)'
  <2>1. DealOK(d) /\ Terms[d].other \in Emails
    BY TermsType DEF AccountsInv
  <2> HIDE DEF r
  <2> QED
    BY <1>2, <2>1 DEF RegisterReads, DealOK, accountVars, dealVars
<1>6. Unexcused'
  BY DEF AccountsInv, RegisterReads, Unexcused, accountVars, dealVars
<1> QED
  BY <1>3, <1>4, <1>5, <1>6 DEF AccountsInv

LEMMA RegisterCommitsStep ==
    ASSUME AccountsInv, NEW e \in Emails, RegisterCommits(e)
    PROVE  AccountsInv'
<1>1. TypeOK /\ registering[e] # NotRegistering /\ registering[e] \in Registrations
  BY RegistrationType DEF AccountsInv, RegisterCommits
<1>2. RegistrationOK(e) /\ account[e] = "none"
  BY <1>1 DEF AccountsInv, RegistrationOK
<1>3. /\ account'[e] \in {"unverified", "verified"}
      /\ \A f \in Emails : f # e => account'[f] = account[f]
      /\ registering'[e] = NotRegistering
      /\ \A f \in Emails : f # e => registering'[f] = registering[f]
  BY <1>1 DEF RegisterCommits, TypeOK
<1>4. linked' = linked \cup registering[e].links
  BY DEF RegisterCommits
<1>5. TypeOK'
  <2>1. /\ account' \in [Emails -> {"none", "unverified", "verified"}]
        /\ window' \in [Emails -> {"none", "open", "over"}]
        /\ registering' \in [Emails -> {NotRegistering} \cup Registrations]
    BY <1>1 DEF RegisterCommits, TypeOK, Registrations
  <2>2. \A f \in Emails : /\ account'[f] = "unverified" => window'[f] # "none"
                          /\ account'[f] = "none" => window'[f] = "none"
    BY <1>1 DEF RegisterCommits, TypeOK
  <2>3. linked' \subseteq {d \in Deals : deal'[d] # "none"}
    BY <1>1, <1>2, <1>4 DEF RegisterCommits, TypeOK, RegistrationOK, Registrations
  <2>4. UNCHANGED <<signedIn, deactivated, required, verifying, resending, deleting,
                    sweep, creating, deal, changes, excused, crossed>>
    BY DEF RegisterCommits
  <2>5. /\ signedIn' \cup deactivated' \subseteq {f \in Emails : account'[f] # "none"}
        /\ resending' \cup deleting' \cup sweep' \subseteq {f \in Emails : account'[f] # "none"}
    BY <1>1, <1>3, <2>4 DEF TypeOK
  <2>6. verifying' \subseteq {f \in Emails : account'[f] = "unverified"}
    <3>1. \A f \in verifying : f \in Emails /\ account[f] = "unverified"
      BY <1>1 DEF TypeOK
    <3>2. \A f \in verifying : f # e
      BY <1>2, <3>1
    <3> QED
      BY <1>3, <2>4, <3>1, <3>2
  <2>7. /\ required' \in BOOLEAN
        /\ creating' \in [Deals -> {"idle", "unlinked", "linked"}]
        /\ deal' \in [Deals -> {"none", "pending", "accepted", "cancelled"}]
        /\ changes' \in 0 .. MaxChanges
        /\ excused' \subseteq Emails
        /\ crossed' \subseteq Deals
    BY <1>1, <2>4 DEF TypeOK
  <2> QED
    BY <2>1, <2>2, <2>3, <2>5, <2>6, <2>7 DEF TypeOK, Registrations
<1>6. ASSUME NEW f \in Emails
      PROVE  RegistrationOK(f)'
  BY <1>3 DEF AccountsInv, RegisterCommits, RegistrationOK
<1>7. ASSUME NEW d \in Deals
      PROVE  DealOK(d)'
  <2>1. DealOK(d) /\ Terms[d].other \in Emails
    BY TermsType DEF AccountsInv
  <2>2. UNCHANGED <<creating, deal, crossed>>
    BY DEF RegisterCommits
  <2> QED
    BY <1>1, <1>2, <1>3, <1>4, <2>1, <2>2 DEF DealOK, RegistrationOK
<1>8. Unexcused'
  <2>1. \A f \in signedIn \cup deleting \cup sweep : f # e /\ account'[f] = account[f]
    BY <1>1, <1>2, <1>3 DEF TypeOK
  <2>2. UNCHANGED <<signedIn, deleting, sweep, deal, excused>>
    BY DEF RegisterCommits
  <2> QED
    BY <1>4, <2>1, <2>2 DEF AccountsInv, Unexcused
<1> QED
  BY <1>5, <1>6, <1>7, <1>8 DEF AccountsInv

-----------------------------------------------------------------------------
(* Verification, signing in and administrators *)

\* Steps that leave rows, links and half-made work alone.
LEMMA QuietStep ==
    ASSUME AccountsInv, TypeOK',
           UNCHANGED <<registering, dealVars, crossed>>,
           \A e \in Emails : account'[e] = "none" <=> account[e] = "none",
           Unexcused'
    PROVE  AccountsInv'
<1>1. ASSUME NEW e \in Emails
      PROVE  RegistrationOK(e)'
  BY DEF AccountsInv, RegistrationOK, dealVars
<1>2. ASSUME NEW d \in Deals
      PROVE  DealOK(d)'
  <2>1. Terms[d].other \in Emails /\ DealOK(d)
    BY TermsType DEF AccountsInv
  <2> QED
    BY <2>1 DEF DealOK, dealVars
<1> QED
  BY <1>1, <1>2 DEF AccountsInv

LEMMA ChangeType ==
    ASSUME TypeOK, Change
    PROVE  changes' \in 0 .. MaxChanges
<1>1. MaxChanges \in Nat /\ changes \in 0 .. MaxChanges
  BY AccountsAssumption DEF TypeOK
<1>2. changes < MaxChanges /\ changes' = changes + 1
  BY DEF Change
<1> QED
  BY <1>1, <1>2

LEMMA EmailOK ==
    ASSUME AccountsInv, NEW e \in Emails,
           \/ WindowEnds(e) \/ VerifyReads(e) \/ VerifyCommits(e)
           \/ ResendReads(e) \/ ResendCommits(e) \/ FindExpired(e) \/ KeepExpired(e)
           \/ SignIn(e) \/ DeactivateUser(e)
    PROVE  AccountsInv'
<1>1. TypeOK /\ Unexcused
  BY DEF AccountsInv
<1>2. CASE WindowEnds(e) \/ ResendCommits(e)
  <2>1. /\ UNCHANGED <<account, signedIn, deactivated, required, registering, verifying,
                       deleting, sweep, dealVars, changes, excused, crossed>>
        /\ resending' \subseteq resending
        /\ window' \in [Emails -> {"none", "open", "over"}]
        /\ \A f \in Emails : /\ account'[f] = "unverified" => window'[f] # "none"
                             /\ account'[f] = "none" => window'[f] = "none"
    BY <1>1, <1>2 DEF WindowEnds, ResendCommits, TypeOK, handlerVars
  <2>2. TypeOK'
    BY <1>1, <2>1 DEF TypeOK, dealVars
  <2>3. Unexcused'
    BY <1>1, <2>1 DEF Unexcused, dealVars
  <2> QED
    BY <2>1, <2>2, <2>3, QuietStep
<1>3. CASE \/ VerifyReads(e) \/ ResendReads(e) \/ FindExpired(e) \/ KeepExpired(e)
  <2>1. /\ UNCHANGED <<accountVars, required, registering, sweep, dealVars, changes,
                       excused, crossed>>
        /\ verifying' \subseteq verifying \cup {f \in Emails : account[f] = "unverified"}
        /\ resending' \subseteq resending \cup {f \in Emails : account[f] = "unverified"}
        /\ deleting' \subseteq deleting \cup {f \in Emails : account[f] = "unverified"}
    BY <1>3 DEF VerifyReads, ResendReads, FindExpired, KeepExpired, InTime, Expired
  <2>2. TypeOK'
    BY <1>1, <2>1 DEF TypeOK, accountVars, dealVars
  <2>3. Unexcused'
    BY <1>1, <2>1 DEF Unexcused, accountVars, dealVars
  <2> QED
    BY <2>1, <2>2, <2>3, QuietStep DEF accountVars
<1>4. CASE VerifyCommits(e)
  <2>1. /\ account' = [account EXCEPT ![e] = "verified"] /\ account[e] = "unverified"
        /\ excused' = IF e \in deleting \cup sweep THEN excused \cup {e} ELSE excused
        /\ UNCHANGED <<signedIn, deleting, sweep, registering, dealVars, crossed>>
    BY <1>1, <1>4 DEF VerifyCommits, TypeOK
  <2>2. TypeOK'
    BY <1>1, <1>4, <2>1 DEF VerifyCommits, TypeOK, dealVars
  <2>3. Unexcused'
    BY <1>1, <2>1 DEF Unexcused, TypeOK, dealVars
  <2>4. \A f \in Emails : account'[f] = "none" <=> account[f] = "none"
    BY <1>1, <2>1 DEF TypeOK
  <2> QED
    BY <2>1, <2>2, <2>3, <2>4, QuietStep
<1>5. CASE SignIn(e)
  <2>1. TypeOK'
    BY <1>1, <1>5 DEF SignIn, MaySignIn, TypeOK, handlerVars, dealVars
  <2>2. Unexcused'
    BY <1>1, <1>5 DEF SignIn, MaySignIn, Unexcused, handlerVars, dealVars
  <2> QED
    BY <1>5, <2>1, <2>2, QuietStep DEF SignIn, handlerVars
<1>6. CASE DeactivateUser(e)
  <2>1. changes' \in 0 .. MaxChanges
    BY <1>1, <1>6, ChangeType DEF DeactivateUser
  <2>2. TypeOK'
    BY <1>1, <1>6, <2>1 DEF DeactivateUser, TypeOK, handlerVars, dealVars
  <2>3. Unexcused'
    BY <1>1, <1>6 DEF DeactivateUser, Unexcused, handlerVars, dealVars
  <2> QED
    BY <1>6, <2>2, <2>3, QuietStep DEF DeactivateUser, handlerVars
<1> QED
  BY <1>2, <1>3, <1>4, <1>5, <1>6

LEMMA SwitchOK ==
    ASSUME AccountsInv, SwitchVerification
    PROVE  AccountsInv'
<1>1. TypeOK /\ Unexcused
  BY DEF AccountsInv
<1>2. changes' \in 0 .. MaxChanges
  BY <1>1, ChangeType DEF SwitchVerification
<1>3. TypeOK'
  BY <1>1, <1>2 DEF SwitchVerification, TypeOK, accountVars, handlerVars, dealVars
<1>4. Unexcused'
  BY <1>1 DEF SwitchVerification, Unexcused, accountVars, handlerVars, dealVars
<1> QED
  BY <1>3, <1>4, QuietStep DEF SwitchVerification, accountVars, handlerVars

-----------------------------------------------------------------------------
(* Deletion *)

\* What is deleted was found expired before: so it was not in use, or it is
\* excused.
LEMMA DeletedUnused ==
    ASSUME AccountsInv, NEW S \in SUBSET Emails, S \subseteq deleting \cup sweep
    PROVE  S \cap signedIn \subseteq excused
BY DEF AccountsInv, Unexcused

LEMMA RemoveStep ==
    ASSUME AccountsInv, NEW S \in SUBSET Emails, S \subseteq deleting \cup sweep,
           Remove(S), \A e \in S : Deletable(e)
    PROVE  AccountsInv'
<1>1. TypeOK
  BY DEF AccountsInv
<1>2. /\ account' = [e \in Emails |-> IF e \in S THEN "none" ELSE account[e]]
      /\ window' = [e \in Emails |-> IF e \in S THEN "none" ELSE window[e]]
      /\ signedIn' = signedIn \ S
      /\ deactivated' = deactivated \ S
      /\ verifying' = verifying \ S
      /\ resending' = resending \ S
      /\ deleting' = deleting \ S
      /\ sweep' = sweep \ S
      /\ linked' = linked \ {d \in Deals : Terms[d].as = "buyer" /\ Terms[d].other \in S}
      /\ UNCHANGED <<required, registering, deal, changes, excused, crossed>>
  BY DEF Remove
<1>3. \A d \in Deals :
        creating'[d] = IF \/ Terms[d].creator \in S
                          \/ creating[d] = "linked" /\ Terms[d].other \in S
                       THEN "idle" ELSE creating[d]
  BY DEF Remove
<1>4. TypeOK'
  <2>1. creating' \in [Deals -> {"idle", "unlinked", "linked"}]
    BY <1>1 DEF Remove, TypeOK
  <2>2. /\ account' \in [Emails -> {"none", "unverified", "verified"}]
        /\ window' \in [Emails -> {"none", "open", "over"}]
        /\ \A e \in Emails : /\ account'[e] = "unverified" => window'[e] # "none"
                             /\ account'[e] = "none" => window'[e] = "none"
    BY <1>1, <1>2 DEF TypeOK
  <2>3. /\ signedIn' \cup deactivated' \subseteq {e \in Emails : account'[e] # "none"}
        /\ verifying' \subseteq {e \in Emails : account'[e] = "unverified"}
        /\ resending' \cup deleting' \cup sweep' \subseteq {e \in Emails : account'[e] # "none"}
    BY <1>1, <1>2 DEF TypeOK
  <2>4. linked' \subseteq {d \in Deals : deal'[d] # "none"}
    BY <1>1, <1>2 DEF TypeOK
  <2> QED
    BY <1>1, <1>2, <2>1, <2>2, <2>3, <2>4 DEF TypeOK
<1>5. ASSUME NEW e \in Emails
      PROVE  RegistrationOK(e)'
  <2>1. RegistrationOK(e)
    BY DEF AccountsInv
  <2>2. account[e] = "none" => account'[e] = "none"
    BY <1>2
  <2>3. UNCHANGED <<registering, deal, crossed>>
    BY <1>2
  <2> QED
    BY <2>1, <2>2, <2>3 DEF RegistrationOK
<1>6. ASSUME NEW d \in Deals
      PROVE  DealOK(d)'
  <2>1. DealOK(d) /\ Terms[d].other \in Emails /\ Terms[d].as \in {"buyer", "seller"}
    BY TermsType DEF AccountsInv
  <2>2. d \in linked => deal[d] # "none"
    BY <1>1 DEF TypeOK
  <2>3. Terms[d].as = "seller" /\ deal[d] # "none" => Terms[d].other \notin S
    BY DEF Deletable, BuyerOf
  <2>4. creating'[d] \in {"idle", creating[d]}
    BY <1>3
  <2>5. creating'[d] = "linked" => Terms[d].other \notin S
    BY <1>3
  <2>6. /\ account'[Terms[d].other] = IF Terms[d].other \in S THEN "none"
                                      ELSE account[Terms[d].other]
        /\ d \in linked' => d \in linked
        /\ d \in linked /\ (Terms[d].as = "seller" \/ Terms[d].other \notin S)
             => d \in linked'
        /\ d \in linked' /\ Terms[d].as = "buyer" => Terms[d].other \notin S
        /\ UNCHANGED <<registering, deal, crossed>>
    BY <1>2, <2>1
  <2> QED
    BY <2>1, <2>2, <2>3, <2>4, <2>5, <2>6 DEF DealOK
<1>7. Unexcused'
  <2>1. S \cap signedIn \subseteq excused /\ Unexcused
    BY DeletedUnused DEF AccountsInv
  <2>2. signedIn \cup deleting \cup sweep \subseteq Emails
    BY <1>1 DEF TypeOK
  <2>3. ASSUME NEW d \in Deals, deal[d] = "accepted", Terms[d].other \notin excused
        PROVE  d \in linked' /\ Terms[d].other \in signedIn'
    <3>1. d \in linked /\ Terms[d].other \in signedIn
      BY <2>1, <2>3 DEF Unexcused
    <3>2. Terms[d].other \notin S
      BY <2>1, <2>3, <3>1
    <3> QED
      BY <1>2, <3>1, <3>2
  <2>4. \A e \in signedIn' : e \in excused' \/ account'[e] = "verified"
    BY <1>2, <2>1, <2>2 DEF Unexcused
  <2>5. \A e \in deleting' \cup sweep' : e \in excused' \/ account'[e] # "verified"
    BY <1>2, <2>1, <2>2 DEF Unexcused
  <2> QED
    BY <1>2, <2>3, <2>4, <2>5 DEF Unexcused
<1> QED
  BY <1>4, <1>5, <1>6, <1>7 DEF AccountsInv

LEMMA DeletionOK ==
    ASSUME AccountsInv
    PROVE  /\ \A e \in Emails : DeleteExpired(e) => AccountsInv'
           /\ DeleteListed => AccountsInv'
<1>1. TypeOK
  BY DEF AccountsInv
<1>2. ASSUME NEW e \in Emails, DeleteExpired(e)
      PROVE  AccountsInv'
  <2>1. {e} \in SUBSET Emails /\ {e} \subseteq deleting \cup sweep
    BY <1>2 DEF DeleteExpired
  <2>2. Remove({e}) /\ (\A f \in {e} : Deletable(f))
    BY <1>2 DEF DeleteExpired
  <2> QED
    BY <2>1, <2>2, RemoveStep
<1>3. ASSUME DeleteListed
      PROVE  AccountsInv'
  <2>1. sweep \in SUBSET Emails /\ sweep \subseteq deleting \cup sweep
    BY <1>1 DEF TypeOK
  <2>2. Remove(sweep) /\ (\A f \in sweep : Deletable(f))
    BY <1>3 DEF DeleteListed
  <2> QED
    BY <2>1, <2>2, RemoveStep
<1> QED
  BY <1>2, <1>3

LEMMA ListOK ==
    ASSUME AccountsInv, ListExpired \/ RollBackSweep
    PROVE  AccountsInv'
<1>1. TypeOK /\ Unexcused
  BY DEF AccountsInv
<1>2. TypeOK'
  BY <1>1
  DEF ListExpired, Listed, Expired, RollBackSweep, TypeOK, accountVars, handlerVars,
      dealVars
<1>3. Unexcused'
  BY <1>1
  DEF ListExpired, Listed, Expired, RollBackSweep, Unexcused, accountVars, handlerVars,
      dealVars
<1> QED
  BY <1>2, <1>3, QuietStep DEF ListExpired, RollBackSweep, accountVars, handlerVars

-----------------------------------------------------------------------------
(* Deals *)

\* Steps of deals leave accounts and registrations alone.
LEMMA DealStepOK ==
    ASSUME AccountsInv, NEW d \in Deals,
           CreateReads(d) \/ CreateCommits(d) \/ AcceptDeal(d) \/ EndDeal(d)
    PROVE  AccountsInv'
<1>1. /\ TypeOK /\ Unexcused /\ DealOK(d)
      /\ Terms[d].other \in Emails /\ Terms[d].as \in {"buyer", "seller"}
  BY TermsType DEF AccountsInv
<1>2. UNCHANGED <<accountVars, required, handlerVars, sweep, excused>>
  BY DEF CreateReads, CreateCommits, AcceptDeal, EndDeal
<1>3. TypeOK'
  <2>1. CASE CreateReads(d)
    <3>1. creating' \in [Deals -> {"idle", "unlinked", "linked"}]
      BY <1>1, <2>1 DEF CreateReads, TypeOK
    <3>2. crossed' \subseteq Deals
      BY <1>1, <2>1 DEF CreateReads, TypeOK
    <3> QED
      BY <1>1, <2>1, <3>1, <3>2 DEF CreateReads, TypeOK, accountVars, handlerVars
  <2>2. CASE CreateCommits(d)
    <3>1. creating' \in [Deals -> {"idle", "unlinked", "linked"}]
      BY <1>1, <2>2 DEF CreateCommits, TypeOK
    <3>2. /\ deal' \in [Deals -> {"none", "pending", "accepted", "cancelled"}]
          /\ deal'[d] = "pending"
          /\ \A f \in Deals : f # d => deal'[f] = deal[f]
      BY <1>1, <2>2 DEF CreateCommits, TypeOK
    <3>3. \A f \in linked : f \in Deals /\ deal[f] # "none"
      BY <1>1 DEF TypeOK
    <3>4. linked' \subseteq linked \cup {d}
      BY <2>2 DEF CreateCommits
    <3>5. linked' \subseteq {f \in Deals : deal'[f] # "none"}
      BY <3>2, <3>3, <3>4
    <3> QED
      BY <1>1, <2>2, <3>1, <3>2, <3>5 DEF CreateCommits, TypeOK, accountVars, handlerVars
  <2>3. CASE AcceptDeal(d) \/ EndDeal(d)
    <3>1. /\ deal' \in [Deals -> {"none", "pending", "accepted", "cancelled"}]
          /\ linked' \subseteq {f \in Deals : deal'[f] # "none"}
      BY <1>1, <2>3 DEF AcceptDeal, EndDeal, TypeOK
    <3> QED
      BY <1>1, <2>3, <3>1 DEF AcceptDeal, EndDeal, TypeOK, accountVars, handlerVars
  <2> QED
    BY <2>1, <2>2, <2>3
<1>4. CASE CreateReads(d)
  <2>1. /\ creating'[d] = IF account[Terms[d].other] = "none" THEN "unlinked"
                          ELSE "linked"
        /\ \A f \in Deals : f # d => creating'[f] = creating[f]
    BY <1>1, <1>4 DEF CreateReads, TypeOK
  <2>2. /\ crossed \subseteq crossed'
        /\ registering[Terms[d].other] # NotRegistering => d \in crossed'
        /\ UNCHANGED <<deal, linked>>
    BY <1>4 DEF CreateReads
  <2>3. ASSUME NEW e \in Emails
        PROVE  RegistrationOK(e)'
    BY <1>2, <2>2 DEF AccountsInv, RegistrationOK, accountVars, handlerVars
  <2>4. ASSUME NEW f \in Deals
        PROVE  DealOK(f)'
    <3>1. DealOK(f)
      BY DEF AccountsInv
    <3>2. CASE f = d
      BY <1>1, <1>2, <1>4, <2>1, <2>2, <3>1, <3>2
      DEF CreateReads, DealOK, accountVars, handlerVars
    <3>3. CASE f # d
      BY <1>2, <2>1, <2>2, <3>1, <3>3 DEF DealOK, accountVars, handlerVars
    <3> QED
      BY <3>2, <3>3
  <2>5. Unexcused'
    BY <1>1, <1>2, <2>2 DEF Unexcused, accountVars, handlerVars
  <2> QED
    BY <1>3, <2>3, <2>4, <2>5 DEF AccountsInv
<1>5. CASE CreateCommits(d)
  <2>1. /\ creating[d] # "idle" /\ creating'[d] = "idle" /\ deal'[d] = "pending"
        /\ \A f \in Deals : f # d => creating'[f] = creating[f] /\ deal'[f] = deal[f]
    BY <1>1, <1>5 DEF CreateCommits, TypeOK
  <2>2. /\ linked' = IF creating[d] = "linked" THEN linked \cup {d} ELSE linked
        /\ UNCHANGED crossed
    BY <1>5 DEF CreateCommits
  <2>3. creating[d] \in {"unlinked", "linked"}
    BY <1>1, <2>1 DEF TypeOK
  <2>4. ASSUME NEW e \in Emails
        PROVE  RegistrationOK(e)'
    <3>1. RegistrationOK(e)
      BY DEF AccountsInv
    <3>2. registering[e] # NotRegistering => registering[e] \in Registrations
      BY <1>1, RegistrationType
    <3>3. \A f \in Deals : deal[f] # "none" => deal'[f] # "none"
      BY <2>1
    <3>4. SUFFICES ASSUME registering[e] # NotRegistering
                   PROVE  RegistrationOK(e)'
      BY <1>2 DEF RegistrationOK, handlerVars
    <3>5. \A f \in registering[e].links :
            f \in Deals /\ Terms[f].as = "buyer" /\ Terms[f].other = e /\ deal'[f] # "none"
      BY <3>1, <3>2, <3>3, <3>4 DEF RegistrationOK, Registrations
    <3>6. ASSUME NEW f \in Deals, deal'[f] = "pending", Terms[f].other = e
          PROVE  f \in registering[e].links \cup crossed
      <4>1. CASE f = d
        BY <1>1, <2>1, <3>4, <3>6, <4>1 DEF DealOK
      <4>2. CASE f # d
        BY <2>1, <3>1, <3>4, <3>6, <4>2 DEF RegistrationOK
      <4> QED
        BY <4>1, <4>2
    <3> QED
      BY <1>2, <2>2, <3>1, <3>4, <3>5, <3>6 DEF RegistrationOK, accountVars, handlerVars
  <2>5. ASSUME NEW f \in Deals
        PROVE  DealOK(f)'
    <3>1. DealOK(f)
      BY DEF AccountsInv
    <3>2. CASE f = d
      BY <1>1, <1>2, <2>1, <2>2, <2>3, <3>1, <3>2 DEF DealOK, accountVars, handlerVars
    <3>3. CASE f # d
      BY <1>2, <2>1, <2>2, <3>1, <3>3 DEF DealOK, accountVars, handlerVars
    <3> QED
      BY <3>2, <3>3
  <2>6. Unexcused'
    BY <1>1, <1>2, <2>1, <2>2 DEF Unexcused, accountVars, handlerVars
  <2> QED
    BY <1>3, <2>4, <2>5, <2>6 DEF AccountsInv
<1>6. CASE AcceptDeal(d) \/ EndDeal(d)
  <2>1. /\ deal[d] # "none" /\ deal'[d] \in {"accepted", "cancelled"}
        /\ \A f \in Deals : f # d => deal'[f] = deal[f]
        /\ UNCHANGED <<creating, linked, crossed>>
    BY <1>1, <1>6 DEF AcceptDeal, EndDeal, TypeOK
  <2>2. deal'[d] = "accepted" => d \in linked /\ Terms[d].other \in signedIn
    BY <1>1, <1>6 DEF AcceptDeal, EndDeal, Present, TypeOK
  <2>3. ASSUME NEW e \in Emails
        PROVE  RegistrationOK(e)'
    <3>1. \A f \in Deals : /\ deal[f] # "none" => deal'[f] # "none"
                           /\ deal'[f] = "pending" => deal[f] = "pending"
      BY <2>1
    <3>2. registering[e] # NotRegistering => registering[e] \in Registrations
      BY <1>1, RegistrationType
    <3> QED
      BY <1>2, <2>1, <3>1, <3>2
      DEF AccountsInv, RegistrationOK, Registrations, accountVars, handlerVars
  <2>4. ASSUME NEW f \in Deals
        PROVE  DealOK(f)'
    <3>1. DealOK(f)
      BY DEF AccountsInv
    <3>2. /\ deal[f] # "none" <=> deal'[f] # "none"
          /\ deal'[f] = "pending" => deal[f] = "pending"
      BY <2>1
    <3> QED
      BY <1>2, <2>1, <3>1, <3>2 DEF DealOK, accountVars, handlerVars
  <2>5. Unexcused'
    BY <1>1, <1>2, <2>1, <2>2 DEF Unexcused, accountVars, handlerVars
  <2> QED
    BY <1>3, <2>3, <2>4, <2>5 DEF AccountsInv
<1> QED
  BY <1>4, <1>5, <1>6

-----------------------------------------------------------------------------
(* Restarts, and every step *)

LEMMA RestartOK ==
    ASSUME AccountsInv, SessionsLost
    PROVE  AccountsInv'
<1>1. TypeOK /\ Unexcused
  BY DEF AccountsInv
<1>2. TypeOK'
  BY <1>1 DEF SessionsLost, TypeOK, accountVars
<1>3. Unexcused'
  BY <1>1 DEF SessionsLost, Unexcused, accountVars
<1>4. ASSUME NEW e \in Emails
      PROVE  RegistrationOK(e)'
  BY DEF SessionsLost, RegistrationOK
<1>5. ASSUME NEW d \in Deals
      PROVE  DealOK(d)'
  BY TermsType DEF AccountsInv, SessionsLost, DealOK, accountVars
<1> QED
  BY <1>2, <1>3, <1>4, <1>5 DEF AccountsInv

LEMMA AccountsStep == AccountsInv /\ [Next]_vars => AccountsInv'
<1> SUFFICES ASSUME AccountsInv, [Next]_vars
             PROVE  AccountsInv'
  OBVIOUS
<1>1. CASE UNCHANGED vars
  <2>1. TypeOK'
    BY <1>1 DEF vars, accountVars, handlerVars, dealVars, AccountsInv, TypeOK
  <2>2. Unexcused'
    BY <1>1 DEF vars, accountVars, handlerVars, dealVars, AccountsInv, Unexcused
  <2> QED
    BY <1>1, <2>1, <2>2, QuietStep DEF vars, accountVars, handlerVars
<1>2. ASSUME NEW e \in Emails, EmailStep(e) \/ WindowEnds(e) \/ DeactivateUser(e)
      PROVE  AccountsInv'
  BY <1>2, EmailOK, DeletionOK DEF EmailStep
<1>3. CASE CleanUp
  BY <1>3, ListOK, DeletionOK DEF CleanUp
<1> QED
  BY <1>1, <1>2, <1>3, SwitchOK, DealStepOK, RestartOK, RegisterReadsStep,
     RegisterCommitsStep
  DEF Next, AccountStep, DealStep, Registration

\* Columns keep their domains: an unverified account has a window, and no
\* session, list, link or handler's work outlives its account.
THEOREM AccountsTypeCorrect == Spec => []TypeOK
<1>1. AccountsInv => TypeOK
  BY DEF AccountsInv
<1> QED
  BY <1>1, AccountsInit, AccountsStep, PTL DEF Spec

\* An open invitation to an address with an account is linked to it, for any
\* number of accounts that come and go, unless both were made at once.
THEOREM OpenInvitationsLinked == Spec => []InvitationsAreLinked
<1>1. AccountsInv => InvitationsAreLinked
  BY DEF AccountsInv, DealOK, InvitationsAreLinked
<1> QED
  BY <1>1, AccountsInit, AccountsStep, PTL DEF Spec

\* An accepted deal keeps its seller, with the two exceptions it names.
THEOREM AcceptedDealsKeepSeller == Spec => []AcceptedDealHasSeller
<1>1. AccountsInv => AcceptedDealHasSeller
  BY DEF AccountsInv, Unexcused, AcceptedDealHasSeller
<1> QED
  BY <1>1, AccountsInit, AccountsStep, PTL DEF Spec

\* A step that deletes an account somebody has signed in to has an excuse.
LEMMA UsedDeletion ==
    ASSUME AccountsInv, [Next]_vars, NEW e \in signedIn, account'[e] = "none"
    PROVE  e \in excused'
<1>1. TypeOK /\ e \in Emails /\ account[e] # "none"
  BY DEF AccountsInv, TypeOK
<1>2. ASSUME UNCHANGED account
      PROVE  FALSE
  BY <1>1, <1>2
<1>3. ASSUME NEW S \in SUBSET Emails, S \subseteq deleting \cup sweep, Remove(S)
      PROVE  e \in excused'
  <2>1. /\ account' = [f \in Emails |-> IF f \in S THEN "none" ELSE account[f]]
        /\ excused' = excused
    BY <1>3 DEF Remove
  <2>2. e \in S
    BY <1>1, <2>1
  <2> QED
    BY <1>3, <2>1, <2>2, DeletedUnused
<1>4. CASE DeleteListed
  <2>1. sweep \in SUBSET Emails /\ sweep \subseteq deleting \cup sweep /\ Remove(sweep)
    BY <1>1, <1>4 DEF DeleteListed, TypeOK
  <2> QED
    BY <1>3, <2>1
<1>5. ASSUME NEW f \in Emails, EmailStep(f) \/ WindowEnds(f) \/ DeactivateUser(f)
      PROVE  e \in excused'
  <2>1. CASE VerifyCommits(f)
    BY <1>1, <2>1 DEF VerifyCommits, TypeOK
  <2>2. CASE DeleteExpired(f)
    <3>1. {f} \in SUBSET Emails /\ {f} \subseteq deleting \cup sweep /\ Remove({f})
      BY <2>2 DEF DeleteExpired
    <3> QED
      BY <1>3, <3>1
  <2> QED
    BY <1>2, <1>5, <2>1, <2>2
    DEF EmailStep, WindowEnds, VerifyReads, ResendReads, ResendCommits, FindExpired,
        KeepExpired, SignIn, DeactivateUser, accountVars
<1>6. ASSUME NEW f \in Emails, Registration(f)
      PROVE  FALSE
  <2>1. CASE RegisterReads(f)
    BY <1>2, <2>1 DEF RegisterReads, accountVars
  <2>2. CASE RegisterCommits(f)
    <3>1. account' = [account EXCEPT ![f] =
                        IF registering[f].verify THEN "unverified" ELSE "verified"]
      BY <2>2 DEF RegisterCommits
    <3> QED
      BY <1>1, <3>1 DEF TypeOK
  <2> QED
    BY <1>6, <2>1, <2>2 DEF Registration
<1>7. CASE CleanUp
  BY <1>2, <1>4, <1>7 DEF CleanUp, ListExpired, RollBackSweep, accountVars
<1>8. CASE SwitchVerification \/ DealStep \/ SessionsLost \/ UNCHANGED vars
  BY <1>2, <1>8
  DEF SwitchVerification, DealStep, CreateReads, CreateCommits, AcceptDeal,
      EndDeal, SessionsLost, vars, accountVars
<1> QED
  BY <1>5, <1>6, <1>7, <1>8 DEF Next, AccountStep

\* No account that somebody has signed in to is deleted as an unverified one,
\* unless it was used before it was verified, or was verified after a handler
\* or a clean-up had found it expired.
THEOREM UsedAccountsNotDeleted == Spec => UsedAccountsStay
<1>1. AccountsInv /\ [Next]_vars =>
        [\A e \in signedIn : account'[e] = "none" => e \in excused']_vars
  BY UsedDeletion
<1> QED
  BY <1>1, AccountsInit, AccountsStep, PTL DEF Spec, UsedAccountsStay

-----------------------------------------------------------------------------
(* Requests behind the middlewares (module Requests) *)

\* Whatever the middlewares and Redis do, accounts change by the steps of
\* Accounts only.
LEMMA RequestsAreAccounts ==
    [RequestsNext]_<<vars, requestVars>> => [Next]_vars
<1> SUFFICES ASSUME [RequestsNext]_<<vars, requestVars>>
             PROVE  [Next]_vars
  OBVIOUS
<1>1. CASE Elsewhere
  BY <1>1 DEF Elsewhere, Next
<1>2. ASSUME NEW r \in Tries, Execute(r) \/ Commit(r)
      PROVE  Next
  BY <1>2, RequestsAssumption DEF Execute, Commit, Next, Registration
<1>3. ASSUME NEW r \in Tries,
             Arrive(r) \/ Limiter(r) \/ Refuse(r) \/ Store(r) \/ Reply(r)
      PROVE  UNCHANGED vars
  BY <1>3 DEF Arrive, Limiter, Refuse, Store, Reply
<1>4. CASE Restart
  BY <1>4 DEF Restart, Next
<1>5. CASE Tick \/ RedisFails \/ RedisReturns \/ EntryExpires
  BY <1>5 DEF Tick, RedisFails, RedisReturns, EntryExpires
<1> QED
  BY <1>1, <1>2, <1>3, <1>4, <1>5 DEF RequestsNext, Request, FaultStep

\* What the requests write, whatever happens to the accounts.
Places == {"unsent", "missed", "admitted", "running", "done", "stored", "over"}

Answers == Cached \cup {"refused", "limited", "replayed", "lost"}

RequestTypes ==
    /\ progress \in [Tries -> Places]
    /\ answer \in [Tries -> Answers]
    /\ late \subseteq Tries
    /\ redis \in BOOLEAN /\ connected \in BOOLEAN
    /\ committed \in BOOLEAN /\ forgotten \in BOOLEAN

\* A request that was answered is over.
AnsweredIsOver == \A r \in Tries : answer[r] # "nothing" => progress[r] = "over"

\* What the cache holds, in Redis or in memory, was committed, and so is what is
\* about to be cached or told.
CacheIsTrue ==
    /\ stored \in Cached /\ memory \in Cached
    /\ stored = "created" \/ memory = "created" => committed
    /\ \A r \in Tries : progress[r] \in {"done", "stored"} => committed

\* A success has been cached, and told or not.
Kept == Told("created") \/ \E r \in Tries : progress[r] = "stored"

\* From then on, a cache that has lost nothing finds the entry: in Redis while
\* that is up, and otherwise in the memory of a process that never had a client
\* of Redis.
CacheRemembers ==
    Kept /\ ~forgotten =>
        IF redis THEN stored # "nothing"
        ELSE ~connected /\ memory # "nothing"

\* So a retry sent later does not get past the cache.
LateIsReplayed ==
    \A r \in late :
        /\ Told("created")
        /\ forgotten \/ (progress[r] = "over" /\ answer[r] \in {"replayed", "lost"})

RequestsInv ==
    /\ RequestTypes
    /\ AnsweredIsOver
    /\ CacheIsTrue
    /\ CacheRemembers
    /\ LateIsReplayed
    /\ ReplaysTellTheTruth

LEMMA RequestsInvInit == RequestsInit => RequestsInv
BY DEF RequestsInit, RequestsInv, RequestTypes, AnsweredIsOver, CacheIsTrue,
       CacheRemembers, Kept, LateIsReplayed, ReplaysTellTheTruth, Told, Cached,
       Places, Answers

\* An answer of its own is the only thing a step gives to a request.
LEMMA AnswerGiven ==
    ASSUME RequestTypes, AnsweredIsOver, NEW r \in Tries, progress[r] # "over",
           NEW a \in {"created", "refused", "limited", "replayed"}, Answer(r, a)
    PROVE  /\ progress' \in [Tries -> Places]
           /\ answer' \in [Tries -> Answers]
           /\ AnsweredIsOver'
           /\ progress'[r] = "over" /\ answer'[r] = a
           /\ \A s \in Tries \ {r} : progress'[s] = progress[s] /\ answer'[s] = answer[s]
           /\ Told("created")' <=> Told("created") \/ a = "created"
           /\ Told("replayed")' <=> Told("replayed") \/ a = "replayed"
<1>1. /\ progress' = [progress EXCEPT ![r] = "over"]
      /\ answer' = [answer EXCEPT ![r] = a]
  BY DEF Answer
<1>2. /\ progress' \in [Tries -> Places]
      /\ answer' \in [Tries -> Answers]
  BY <1>1 DEF RequestTypes, Cached, Places, Answers
<1>3. progress'[r] = "over" /\ answer'[r] = a
  BY <1>1 DEF RequestTypes
<1>4. \A s \in Tries \ {r} : progress'[s] = progress[s] /\ answer'[s] = answer[s]
  BY <1>1 DEF RequestTypes
<1>5. AnsweredIsOver'
  BY <1>3, <1>4 DEF AnsweredIsOver
<1>6. answer[r] = "nothing"
  BY DEF AnsweredIsOver
<1> QED
  BY <1>2, <1>3, <1>4, <1>5, <1>6 DEF Told

\* A step that caches nothing and forgets no commit.
Quiet ==
    /\ committed => committed'
    /\ \A s \in Tries : /\ progress[s] = "over" => progress'[s] = "over"
                        /\ progress'[s] = "stored" => progress[s] = "stored"
                        /\ progress'[s] = "done" => progress[s] = "done" \/ committed'

\* If it answers nothing and leaves the cache and what is late alone as well:
LEMMA QuietRequest ==
    ASSUME RequestsInv, RequestTypes', UNCHANGED <<answer, stored, memory, redis, late>>,
           AnsweredIsOver', forgotten' = forgotten, connected' \in {connected, UsesRedis},
           Quiet
    PROVE  RequestsInv'
<1>1. \A b : Told(b)' <=> Told(b)
  BY DEF Told
<1>2. CacheIsTrue'
  BY <1>1 DEF RequestsInv, CacheIsTrue, Quiet
<1>3. CacheRemembers'
  BY <1>1 DEF RequestsInv, CacheRemembers, Kept, UsesRedis, Quiet
<1>4. LateIsReplayed'
  BY <1>1 DEF RequestsInv, LateIsReplayed, RequestTypes, Quiet
<1>5. ReplaysTellTheTruth'
  BY <1>1 DEF RequestsInv, ReplaysTellTheTruth, Quiet
<1> QED
  BY <1>2, <1>3, <1>4, <1>5 DEF RequestsInv

\* A request goes on to the next layer.
LEMMA Proceeds ==
    ASSUME RequestsInv, NEW r \in Tries, progress[r] # "over",
           NEW p \in {"missed", "admitted", "running", "done", "stored"},
           progress' = [progress EXCEPT ![r] = p], answer' = answer
    PROVE  /\ progress' \in [Tries -> Places]
           /\ AnsweredIsOver'
           /\ \A s \in Tries : progress[s] = "over" => progress'[s] = "over"
           /\ progress'[r] = p
           /\ \A s \in Tries \ {r} : progress'[s] = progress[s]
BY DEF RequestsInv, RequestTypes, AnsweredIsOver, Places

LEMMA ArriveInv ==
    ASSUME RequestsInv, NEW r \in Tries, Arrive(r)
    PROVE  RequestsInv'
<1>1. /\ RequestTypes /\ AnsweredIsOver /\ CacheIsTrue /\ CacheRemembers
      /\ LateIsReplayed /\ ReplaysTellTheTruth
  BY DEF RequestsInv
<1>2. /\ progress[r] = "unsent" /\ connected' = UsesRedis
      /\ UNCHANGED <<redis, stored, memory, committed, forgotten>>
      /\ late' = IF Told("created") THEN late \cup {r} ELSE late
  BY DEF Arrive
<1>3. late' \subseteq Tries /\ connected' \in BOOLEAN
  BY <1>1, <1>2 DEF RequestTypes, UsesRedis
<1>4. CASE Entry # "nothing"
  <2>1. Answer(r, "replayed")
    BY <1>4 DEF Arrive
  <2>2. committed
    BY <1>1, <1>4 DEF Entry, CacheIsTrue, Cached
  <2>3. /\ progress' \in [Tries -> Places]
        /\ answer' \in [Tries -> Answers]
        /\ AnsweredIsOver'
        /\ progress'[r] = "over" /\ answer'[r] = "replayed"
        /\ \A s \in Tries \ {r} : progress'[s] = progress[s] /\ answer'[s] = answer[s]
        /\ Told("created")' <=> Told("created") \/ "replayed" = "created"
    BY <1>1, <1>2, <2>1, AnswerGiven
  <2>4. /\ Told("created")' <=> Told("created")
        /\ Kept' => Kept
    BY <2>3 DEF Kept
  <2>5. RequestTypes'
    BY <1>1, <1>2, <1>3, <2>3 DEF RequestTypes
  <2>6. CacheIsTrue' /\ ReplaysTellTheTruth'
    BY <1>1, <1>2, <2>2 DEF CacheIsTrue, ReplaysTellTheTruth
  <2>7. CacheRemembers'
    BY <1>1, <1>2, <2>4 DEF CacheRemembers, UsesRedis
  <2>8. LateIsReplayed'
    BY <1>1, <1>2, <2>3, <2>4 DEF LateIsReplayed, RequestTypes
  <2> QED
    BY <2>3, <2>5, <2>6, <2>7, <2>8 DEF RequestsInv
<1>5. CASE Entry = "nothing"
  <2>1. progress' = [progress EXCEPT ![r] = "missed"] /\ answer' = answer
    BY <1>5 DEF Arrive
  <2>2. /\ progress' \in [Tries -> Places]
        /\ AnsweredIsOver'
        /\ \A s \in Tries : progress[s] = "over" => progress'[s] = "over"
        /\ progress'[r] = "missed"
        /\ \A s \in Tries \ {r} : progress'[s] = progress[s]
    BY <1>2, <2>1, Proceeds
  <2>3. RequestTypes'
    BY <1>1, <1>2, <1>3, <2>1, <2>2 DEF RequestTypes
  <2>4. /\ (Told("created")' <=> Told("created")) /\ (Told("replayed")' <=> Told("replayed"))
        /\ Kept' => Kept
    BY <2>1, <2>2 DEF Told, Kept
  <2>5. Kept => forgotten
    BY <1>1, <1>5 DEF CacheRemembers, Entry, UsesRedis
  <2>6. CacheIsTrue' /\ ReplaysTellTheTruth'
    BY <1>1, <1>2, <2>2, <2>4 DEF CacheIsTrue, ReplaysTellTheTruth
  <2>7. CacheRemembers'
    BY <1>2, <2>4, <2>5 DEF CacheRemembers
  <2>8. LateIsReplayed'
    BY <1>1, <1>2, <2>1, <2>2, <2>4, <2>5 DEF LateIsReplayed, Kept, RequestTypes
  <2> QED
    BY <2>2, <2>3, <2>6, <2>7, <2>8 DEF RequestsInv
<1> QED
  BY <1>4, <1>5

\* The limiter and the handler keep what the cache knows; a refusal by either
\* is no success.
LEMMA RefusedInv ==
    ASSUME RequestsInv, NEW r \in Tries, progress[r] # "over",
           NEW a \in {"limited", "refused"}, Answer(r, a),
           UNCHANGED <<redis, stored, memory, historyVars>>,
           connected' \in {connected, UsesRedis}
    PROVE  RequestsInv'
<1>1. /\ RequestTypes /\ AnsweredIsOver /\ CacheIsTrue /\ CacheRemembers
      /\ LateIsReplayed /\ ReplaysTellTheTruth
  BY DEF RequestsInv
<1>2. /\ progress' \in [Tries -> Places]
      /\ answer' \in [Tries -> Answers]
      /\ AnsweredIsOver'
      /\ progress'[r] = "over" /\ answer'[r] = a
      /\ \A s \in Tries \ {r} : progress'[s] = progress[s] /\ answer'[s] = answer[s]
      /\ Told("created")' <=> Told("created") \/ a = "created"
      /\ Told("replayed")' <=> Told("replayed") \/ a = "replayed"
  BY <1>1, AnswerGiven
<1>3. /\ (Told("created")' <=> Told("created")) /\ (Told("replayed")' <=> Told("replayed"))
      /\ Kept' => Kept
  BY <1>2 DEF Kept
<1>4. RequestTypes'
  BY <1>1, <1>2 DEF RequestTypes, historyVars, UsesRedis
<1>5. CacheIsTrue' /\ ReplaysTellTheTruth'
  BY <1>1, <1>2, <1>3 DEF CacheIsTrue, ReplaysTellTheTruth, historyVars
<1>6. CacheRemembers'
  BY <1>1, <1>3 DEF CacheRemembers, UsesRedis, historyVars
<1>7. LateIsReplayed'
  BY <1>1, <1>2, <1>3 DEF LateIsReplayed, RequestTypes, historyVars
<1> QED
  BY <1>2, <1>4, <1>5, <1>6, <1>7 DEF RequestsInv

LEMMA LimiterInv ==
    ASSUME RequestsInv, NEW r \in Tries, Limiter(r)
    PROVE  RequestsInv'
<1>1. /\ progress[r] = "missed" /\ connected' = UsesRedis
      /\ UNCHANGED <<redis, stored, memory, historyVars>>
  BY DEF Limiter
<1>2. \/ Answer(r, "limited")
      \/ progress' = [progress EXCEPT ![r] = "admitted"] /\ answer' = answer
  BY DEF Limiter
<1>3. CASE Answer(r, "limited")
  BY <1>1, <1>3, RefusedInv
<1>4. CASE progress' = [progress EXCEPT ![r] = "admitted"] /\ answer' = answer
  <2>1. /\ progress' \in [Tries -> Places]
        /\ AnsweredIsOver'
        /\ \A s \in Tries : progress[s] = "over" => progress'[s] = "over"
        /\ progress'[r] = "admitted"
        /\ \A s \in Tries \ {r} : progress'[s] = progress[s]
    BY <1>1, <1>4, Proceeds
  <2>2. RequestTypes'
    BY <1>1, <1>4, <2>1 DEF RequestsInv, RequestTypes, historyVars, UsesRedis
  <2>3. Quiet
    BY <1>1, <2>1 DEF Quiet, historyVars
  <2> QED
    BY <1>1, <1>4, <2>1, <2>2, <2>3, QuietRequest DEF historyVars
<1> QED
  BY <1>2, <1>3, <1>4

LEMMA HandlerInv ==
    ASSUME RequestsInv, NEW r \in Tries, Execute(r) \/ Commit(r)
    PROVE  RequestsInv'
<1>1. /\ progress[r] \in {"admitted", "running"} /\ answer' = answer
      /\ UNCHANGED <<redis, connected, stored, memory, late, forgotten>>
      /\ committed' = committed \/ committed' = TRUE
  BY DEF Execute, Commit, cacheVars, historyVars
<1>2. committed \in BOOLEAN /\ progress[r] # "over"
  BY <1>1 DEF RequestsInv, RequestTypes
<1>3. ASSUME NEW p \in {"missed", "admitted", "running", "done", "stored"},
             progress' = [progress EXCEPT ![r] = p],
             p = "running" \/ (p = "done" /\ committed' = TRUE)
      PROVE  RequestsInv'
  <2>1. /\ progress' \in [Tries -> Places]
        /\ AnsweredIsOver'
        /\ \A s \in Tries : progress[s] = "over" => progress'[s] = "over"
        /\ progress'[r] = p
        /\ \A s \in Tries \ {r} : progress'[s] = progress[s]
    BY <1>1, <1>2, <1>3, Proceeds
  <2>2. RequestTypes'
    BY <1>1, <1>2, <2>1 DEF RequestsInv, RequestTypes
  <2>3. Quiet
    BY <1>1, <1>3, <2>1 DEF Quiet
  <2>4. /\ connected' \in {connected, UsesRedis}
        /\ forgotten' = forgotten
        /\ UNCHANGED <<answer, stored, memory, redis, late>>
    BY <1>1
  <2> QED
    BY <2>1, <2>2, <2>3, <2>4, QuietRequest
<1>4. CASE Execute(r)
  BY <1>3, <1>4 DEF Execute
<1>5. CASE Commit(r)
  BY <1>3, <1>5 DEF Commit
<1> QED
  BY <1>4, <1>5

\* A success is kept before it is told.
LEMMA StoreInv ==
    ASSUME RequestsInv, NEW r \in Tries, Store(r)
    PROVE  RequestsInv'
<1>1. /\ RequestTypes /\ AnsweredIsOver /\ CacheIsTrue /\ CacheRemembers
      /\ LateIsReplayed /\ ReplaysTellTheTruth
  BY DEF RequestsInv
<1>2. /\ progress[r] = "done" /\ progress' = [progress EXCEPT ![r] = "stored"]
      /\ UNCHANGED <<answer, committed, late>>
  BY DEF Store
<1>3. /\ progress' \in [Tries -> Places]
      /\ AnsweredIsOver'
      /\ \A s \in Tries : progress[s] = "over" => progress'[s] = "over"
      /\ progress'[r] = "stored"
      /\ \A s \in Tries \ {r} : progress'[s] = progress[s]
  BY <1>2, Proceeds
<1>4. (Told("created")' <=> Told("created")) /\ (Told("replayed")' <=> Told("replayed"))
  BY <1>2 DEF Told
<1>5. /\ connected' = UsesRedis /\ redis' = redis
      /\ stored' = IF redis THEN "created" ELSE stored
      /\ memory' = IF UsesRedis THEN memory ELSE "created"
      /\ forgotten' = (forgotten \/ (UsesRedis /\ ~redis))
  BY DEF Store, Keep
<1>6. RequestTypes'
  BY <1>1, <1>2, <1>3, <1>5 DEF RequestTypes, UsesRedis
<1>7. CacheIsTrue' /\ ReplaysTellTheTruth'
  BY <1>1, <1>2, <1>3, <1>4, <1>5 DEF CacheIsTrue, ReplaysTellTheTruth, Cached
<1>8. CacheRemembers'
  BY <1>5 DEF CacheRemembers, UsesRedis
<1>9. LateIsReplayed'
  BY <1>1, <1>2, <1>3, <1>4, <1>5 DEF LateIsReplayed, RequestTypes
<1> QED
  BY <1>3, <1>6, <1>7, <1>8, <1>9 DEF RequestsInv

LEMMA ReplyInv ==
    ASSUME RequestsInv, NEW r \in Tries, Reply(r)
    PROVE  RequestsInv'
<1>1. /\ RequestTypes /\ AnsweredIsOver /\ CacheIsTrue /\ CacheRemembers
      /\ LateIsReplayed /\ ReplaysTellTheTruth
  BY DEF RequestsInv
<1>2. /\ progress[r] = "stored" /\ Answer(r, "created")
      /\ UNCHANGED <<redis, connected, stored, memory, committed, late, forgotten>>
  BY DEF Reply, cacheVars, historyVars
<1>3. /\ progress' \in [Tries -> Places]
      /\ answer' \in [Tries -> Answers]
      /\ AnsweredIsOver'
      /\ progress'[r] = "over" /\ answer'[r] = "created"
      /\ \A s \in Tries \ {r} : progress'[s] = progress[s] /\ answer'[s] = answer[s]
      /\ Told("created")' <=> Told("created") \/ "created" = "created"
      /\ Told("replayed")' <=> Told("replayed") \/ "created" = "replayed"
  BY <1>1, <1>2, AnswerGiven
<1>4. Told("created")' /\ (Told("replayed")' <=> Told("replayed"))
  BY <1>3
<1>5. RequestTypes'
  BY <1>1, <1>2, <1>3 DEF RequestTypes
<1>6. CacheIsTrue' /\ ReplaysTellTheTruth'
  BY <1>1, <1>2, <1>3, <1>4 DEF CacheIsTrue, ReplaysTellTheTruth
<1>7. CacheRemembers'
  BY <1>1, <1>2 DEF CacheRemembers, Kept
<1>8. LateIsReplayed'
  BY <1>1, <1>2, <1>3, <1>4 DEF LateIsReplayed, RequestTypes
<1> QED
  BY <1>3, <1>5, <1>6, <1>7, <1>8 DEF RequestsInv

\* What the cache loses is written down as forgotten.
LEMMA FaultInv ==
    ASSUME RequestsInv, RedisFails \/ RedisReturns \/ EntryExpires
    PROVE  RequestsInv'
<1>1. /\ RequestTypes /\ AnsweredIsOver /\ CacheIsTrue /\ CacheRemembers
      /\ LateIsReplayed /\ ReplaysTellTheTruth
  BY DEF RequestsInv
<1>2. UNCHANGED <<progress, answer, connected, memory, committed, late>>
  BY DEF RedisFails, RedisReturns, EntryExpires
<1>3. /\ (Told("created")' <=> Told("created")) /\ (Told("replayed")' <=> Told("replayed"))
      /\ Kept' <=> Kept
  BY <1>2 DEF Told, Kept
<1>4. /\ stored' \in {stored, "nothing"} /\ redis' \in BOOLEAN /\ forgotten' \in BOOLEAN
      /\ forgotten => forgotten'
  BY <1>1 DEF RedisFails, RedisReturns, EntryExpires, RequestTypes
<1>5. RequestTypes' /\ AnsweredIsOver'
  BY <1>1, <1>2, <1>4 DEF RequestTypes, AnsweredIsOver
<1>6. CacheIsTrue' /\ ReplaysTellTheTruth'
  BY <1>1, <1>2, <1>3, <1>4 DEF CacheIsTrue, ReplaysTellTheTruth, Cached
<1>7. CacheRemembers'
  BY <1>1, <1>2, <1>3
  DEF CacheRemembers, RedisFails, RedisReturns, EntryExpires
<1>8. LateIsReplayed'
  BY <1>1, <1>2, <1>3, <1>4 DEF LateIsReplayed
<1> QED
  BY <1>5, <1>6, <1>7, <1>8 DEF RequestsInv

LEMMA RestartInv ==
    ASSUME RequestsInv, Restart
    PROVE  RequestsInv'
<1>1. /\ RequestTypes /\ AnsweredIsOver /\ CacheIsTrue /\ CacheRemembers
      /\ LateIsReplayed /\ ReplaysTellTheTruth
  BY DEF RequestsInv
<1>2. /\ connected' = FALSE /\ memory' = "nothing"
      /\ forgotten' = (forgotten \/ memory # "nothing")
      /\ UNCHANGED <<redis, stored, committed, late>>
  BY DEF Restart
<1>3. \A s \in Tries :
          /\ progress'[s] = IF progress[s] = "unsent" THEN "unsent" ELSE "over"
          /\ answer'[s] = IF progress[s] \in {"unsent", "over"} THEN answer[s] ELSE "lost"
  BY DEF Restart
<1>4. /\ progress' \in [Tries -> {"unsent", "over"}]
      /\ answer' \in [Tries -> Answers]
  BY <1>1 DEF Restart, RequestTypes, Answers
<1>5. RequestTypes'
  BY <1>1, <1>2, <1>4 DEF RequestTypes, Places
<1>6. AnsweredIsOver'
  BY <1>1, <1>3 DEF AnsweredIsOver
<1>7. \A s \in Tries : \A a \in {"created", "replayed"} : answer'[s] = a <=> answer[s] = a
  BY <1>1, <1>3 DEF AnsweredIsOver
<1>8. /\ (Told("created")' <=> Told("created")) /\ (Told("replayed")' <=> Told("replayed"))
      /\ Kept' => Kept
  BY <1>3, <1>7 DEF Told, Kept
<1>9. CacheIsTrue' /\ ReplaysTellTheTruth'
  BY <1>1, <1>2, <1>3, <1>8 DEF CacheIsTrue, ReplaysTellTheTruth, Cached
<1>10. CacheRemembers'
  BY <1>1, <1>2, <1>8 DEF CacheRemembers
<1>11. LateIsReplayed'
  BY <1>1, <1>2, <1>3, <1>8 DEF LateIsReplayed, RequestTypes
<1> QED
  BY <1>5, <1>6, <1>9, <1>10, <1>11 DEF RequestsInv

LEMMA RequestsInvStep ==
    RequestsInv /\ [RequestsNext]_<<vars, requestVars>> => RequestsInv'
<1> SUFFICES ASSUME RequestsInv, [RequestsNext]_<<vars, requestVars>>
             PROVE  RequestsInv'
  OBVIOUS
<1>1. CASE Elsewhere \/ Tick \/ UNCHANGED <<vars, requestVars>>
  <2>1. UNCHANGED <<progress, answer, redis, connected, stored, memory, committed, late,
                    forgotten>>
    BY <1>1 DEF Elsewhere, Tick, requestVars, cacheVars, historyVars
  <2> QED
    BY <2>1
    DEF RequestsInv, RequestTypes, AnsweredIsOver, CacheIsTrue, CacheRemembers, Kept,
        LateIsReplayed, ReplaysTellTheTruth, Told
<1>2. ASSUME NEW r \in Tries, Refuse(r)
      PROVE  RequestsInv'
  <2>1. /\ progress[r] = "admitted" /\ Answer(r, "refused")
        /\ UNCHANGED <<cacheVars, historyVars>>
    BY <1>2 DEF Refuse
  <2> QED
    BY <2>1, RefusedInv DEF cacheVars
<1> QED
  BY <1>1, <1>2, ArriveInv, LimiterInv, HandlerInv, StoreInv, ReplyInv, FaultInv,
     RestartInv
  DEF RequestsNext, Request, FaultStep

\* A retry sent after the success was told is replayed from the cache, unless
\* the cache has lost the entry or the process dies: for any number of retries,
\* outages, restarts and seconds, and any limit of the limiter.
THEOREM LateRetriesReplayed == RequestsSpec => []RetriesAreReplayed
<1>1. RequestsInv => RetriesAreReplayed
  BY DEF RequestsInv, LateIsReplayed, RetriesAreReplayed
<1> QED
  BY <1>1, RequestsInvInit, RequestsInvStep, PTL DEF RequestsSpec

\* Nothing is replayed but a registration that was committed, whoever was told
\* of it: for any crash between the commit, the cache and the answer.
THEOREM ReplaysAreTrue == RequestsSpec => []ReplaysTellTheTruth
<1>1. RequestsInv => ReplaysTellTheTruth
  BY DEF RequestsInv
<1> QED
  BY <1>1, RequestsInvInit, RequestsInvStep, PTL DEF RequestsSpec

\* What the type of a running request needs: its registration is the only one
\* under way for the address, as register holds one row per address.
OneRuns ==
    \A r, s \in Tries : progress[r] = "running" /\ progress[s] = "running" => r = s

RequestsTypeInv == AccountsInv /\ RequestsInv /\ RequestsTypeOK /\ OneRuns

LEMMA SecondsStep ==
    ASSUME RequestsTypeOK, [RequestsNext]_<<vars, requestVars>>
    PROVE  seconds' \subseteq 0 .. Window - 1 /\ faults' \in 0 .. MaxFaults
<1>1. /\ seconds \subseteq 0 .. Window - 1 /\ faults \in 0 .. MaxFaults
      /\ Window \in Nat \ {0} /\ MaxFaults \in Nat
  BY RequestsAssumption DEF RequestsTypeOK
<1>2. \/ seconds' = seconds \/ seconds' = seconds \cup {0} \/ seconds' = {}
      \/ seconds' = {s + 1 : s \in seconds} \cap 0 .. Window - 1
  BY DEF RequestsNext, Elsewhere, Tick, FaultStep, RedisFails, RedisReturns,
         EntryExpires, Restart, Request, Arrive, Limiter, Execute, Commit, Refuse,
         Store, Keep, Reply, requestVars, cacheVars
<1>3. faults' = faults \/ (faults < MaxFaults /\ faults' = faults + 1)
  BY DEF RequestsNext, Elsewhere, Tick, FaultStep, RedisFails, RedisReturns,
         EntryExpires, Restart, Request, Arrive, Limiter, Execute, Commit, Refuse,
         Store, Reply, Fault, requestVars
<1>4. seconds' \subseteq 0 .. Window - 1
  <2>1. 0 \in 0 .. Window - 1
    BY <1>1
  <2>2. CASE seconds' = {s + 1 : s \in seconds} \cap 0 .. Window - 1
    BY <2>2
  <2> QED
    BY <1>1, <1>2, <2>1, <2>2
<1>5. faults' \in 0 .. MaxFaults
  BY <1>1, <1>3
<1> QED
  BY <1>4, <1>5

LEMMA OneRunsStep ==
    ASSUME RequestsTypeInv, [RequestsNext]_<<vars, requestVars>>
    PROVE  /\ OneRuns'
           /\ \A r \in Tries :
                  progress'[r] = "running" => registering'[Address] # NotRegistering
<1>1. /\ OneRuns /\ RequestTypes
      /\ \A r \in Tries : progress[r] = "running" => registering[Address] # NotRegistering
      /\ registering \in [Emails -> {NotRegistering} \cup Registrations]
      /\ Address \in Emails
  BY RequestsAssumption
  DEF RequestsTypeInv, RequestsInv, RequestsTypeOK, AccountsInv, TypeOK, Registrations
<1>2. ASSUME NEW r \in Tries, Execute(r)
      PROVE  /\ OneRuns'
             /\ \A s \in Tries :
                    progress'[s] = "running" => registering'[Address] # NotRegistering
  <2>1. registering[Address] = NotRegistering
    BY <1>2 DEF Execute, RegisterReads
  <2>2. progress' = [progress EXCEPT ![r] = "running"]
    BY <1>2 DEF Execute
  <2>3. \A s \in Tries : progress[s] # "running"
    BY <1>1, <2>1
  <2>4. \A s \in Tries : progress'[s] = "running" => s = r
    BY <1>1, <2>2, <2>3 DEF RequestTypes
  <2>5. registering'[Address] # NotRegistering
    BY <1>1, <1>2 DEF Execute, RegisterReads, NotRegistering
  <2> QED
    BY <2>4, <2>5 DEF OneRuns
<1>3. ASSUME NEW r \in Tries, Commit(r)
      PROVE  \A s \in Tries : progress'[s] # "running"
  <2>1. progress[r] = "running" /\ progress' = [progress EXCEPT ![r] = "done"]
    BY <1>3 DEF Commit
  <2> QED
    BY <1>1, <2>1 DEF OneRuns, RequestTypes
<1>4. CASE Restart
  <2>1. \A s \in Tries : progress'[s] # "running"
    BY <1>4 DEF Restart
  <2> QED
    BY <2>1 DEF OneRuns
<1>5. CASE Elsewhere
  <2>1. progress' = progress
    BY <1>5 DEF Elsewhere, requestVars
  <2>2. registering'[Address] = registering[Address]
    <3>1. CASE AccountStep
      BY <3>1
      DEF AccountStep, EmailStep, CleanUp, DealStep, WindowEnds, VerifyReads,
          VerifyCommits, ResendReads, ResendCommits, SignIn, FindExpired,
          DeleteExpired, KeepExpired, DeactivateUser, ListExpired, handlerVars,
          DeleteListed, RollBackSweep, Remove, SwitchVerification, CreateReads,
          CreateCommits, AcceptDeal, EndDeal
    <3>2. ASSUME NEW e \in Emails \ {Address}, Registration(e)
          PROVE  registering'[Address] = registering[Address]
      BY <1>1, <3>2 DEF Registration, RegisterReads, RegisterCommits
    <3> QED
      BY <1>5, <3>1, <3>2 DEF Elsewhere
  <2> QED
    BY <1>1, <2>1, <2>2 DEF OneRuns
<1>6. ASSUME UNCHANGED registering,
             \A s \in Tries : progress'[s] = "running" => progress[s] = "running"
      PROVE  /\ OneRuns'
             /\ \A s \in Tries :
                    progress'[s] = "running" => registering'[Address] # NotRegistering
  BY <1>1, <1>6 DEF OneRuns
<1>7. ASSUME NEW r \in Tries,
             Arrive(r) \/ Limiter(r) \/ Refuse(r) \/ Store(r) \/ Reply(r)
      PROVE  /\ UNCHANGED registering
             /\ \A s \in Tries : progress'[s] = "running" => progress[s] = "running"
  BY <1>1, <1>7
  DEF Arrive, Limiter, Refuse, Store, Reply, Answer, RequestTypes, vars, handlerVars
<1>8. CASE Tick \/ RedisFails \/ RedisReturns \/ EntryExpires
           \/ UNCHANGED <<vars, requestVars>>
  BY <1>6, <1>8
  DEF Tick, RedisFails, RedisReturns, EntryExpires, vars, requestVars, handlerVars
<1> QED
  BY <1>2, <1>3, <1>4, <1>5, <1>6, <1>7, <1>8
  DEF RequestsNext, Request, FaultStep, OneRuns

LEMMA RequestsTypeStep ==
    RequestsTypeInv /\ [RequestsNext]_<<vars, requestVars>> => RequestsTypeInv'
<1> SUFFICES ASSUME RequestsTypeInv, [RequestsNext]_<<vars, requestVars>>
             PROVE  RequestsTypeInv'
  OBVIOUS
<1>1. AccountsInv'
  BY AccountsStep, RequestsAreAccounts DEF RequestsTypeInv
<1>2. RequestsInv'
  BY RequestsInvStep DEF RequestsTypeInv
<1>3. seconds' \subseteq 0 .. Window - 1 /\ faults' \in 0 .. MaxFaults
  BY SecondsStep DEF RequestsTypeInv
<1>4. /\ OneRuns'
      /\ \A r \in Tries :
             progress'[r] = "running" => registering'[Address] # NotRegistering
  BY OneRunsStep
<1>5. TypeOK' /\ RequestTypes' /\ CacheIsTrue'
  BY <1>1, <1>2 DEF AccountsInv, RequestsInv
<1>6. RequestsTypeOK'
  BY <1>3, <1>4, <1>5 DEF RequestsTypeOK, RequestTypes, CacheIsTrue, Places, Answers
<1> QED
  BY <1>1, <1>2, <1>4, <1>6 DEF RequestsTypeInv

LEMMA RequestsTypeInit == RequestsInit => RequestsTypeInv
<1> SUFFICES ASSUME RequestsInit
             PROVE  RequestsTypeInv
  OBVIOUS
<1>1. AccountsInv /\ RequestsInv
  BY AccountsInit, RequestsInvInit DEF RequestsInit
<1>2. TypeOK /\ RequestTypes /\ CacheIsTrue
  BY <1>1 DEF AccountsInv, RequestsInv
<1>3. 0 \in 0 .. MaxFaults
  BY RequestsAssumption
<1>4. RequestsTypeOK
  BY <1>2, <1>3
  DEF RequestsInit, RequestsTypeOK, RequestTypes, CacheIsTrue, Cached
<1> QED
  BY <1>1, <1>4 DEF RequestsTypeInv, OneRuns, RequestsInit

\* Types, with at most one registration under way for the address.
THEOREM RequestsTypeCorrect == RequestsSpec => []RequestsTypeOK
<1>1. RequestsTypeInv => RequestsTypeOK
  BY DEF RequestsTypeInv
<1> QED
  BY <1>1, RequestsTypeInit, RequestsTypeStep, PTL DEF RequestsSpec
=============================================================================
