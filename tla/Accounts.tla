------------------------------ MODULE Accounts ------------------------------
(***************************************************************************)
(* Accounts (routers/auth.py), the task that deletes those whose e-mail    *)
(* address was not verified in time (cleanup_unverified_accounts), the     *)
(* administrator's switches, and the deals that refer to accounts by       *)
(* e-mail address before there is one (create_transaction).                *)
(*                                                                         *)
(* An account is named by its address; one that is registered again after  *)
(* its deletion is another row, which no session, list or half-made deal   *)
(* of the first one reaches.  Every handler and the clean-up read rows     *)
(* first and write them later, by their ids, whatever has become of them.  *)
(***************************************************************************)
EXTENDS FiniteSets, Naturals

CONSTANTS
    Emails,
    Deals,
    Terms,       \* of a deal: [creator, other, as], as is initiated_as
    MaxChanges   \* bound: switches of a setting, deactivations

ASSUME AccountsAssumption ==
    /\ Terms \in [Deals -> [creator : Emails, other : Emails, as : {"buyer", "seller"}]]
    /\ \A d \in Deals : Terms[d].creator # Terms[d].other
    /\ MaxChanges \in Nat

VARIABLES
    account,     \* is there a User row, and is_email_verified
    window,      \* email_verification_expires_at: unset, ahead, behind
    signedIn,    \* accounts that have signed in (tokens can be refreshed)
    deactivated, \* accounts without is_active
    required,    \* PlatformSettings.require_email_verification
    registering, \* what a registration has read and flushed
    verifying,   \* accounts whose verification passed its checks
    resending,   \* accounts that are about to get a new link
    deleting,    \* accounts that a handler has found expired
    creating,    \* did a half-made deal find its counterparty?
    sweep,       \* accounts that a running clean-up has listed
    deal,        \* Transaction.status, as far as it matters here
    linked,      \* deals whose seller_id is set
    changes,     \* see MaxChanges
    excused,     \* history: accounts whose deletion the properties allow for
    crossed      \* history: deals made while their invitee registered

accountVars == <<account, window, signedIn, deactivated>>
handlerVars == <<registering, verifying, resending, deleting>>
dealVars    == <<creating, deal, linked>>
vars == <<accountVars, required, handlerVars, sweep, dealVars, changes, excused, crossed>>

NotRegistering == [step |-> "idle"]

TypeOK ==
    /\ account \in [Emails -> {"none", "unverified", "verified"}]
    /\ window \in [Emails -> {"none", "open", "over"}]
    /\ \A e \in Emails : /\ account[e] = "unverified" => window[e] # "none"
                         /\ account[e] = "none" => window[e] = "none"
    /\ signedIn \cup deactivated \subseteq {e \in Emails : account[e] # "none"}
    /\ required \in BOOLEAN
    /\ registering \in [Emails -> {NotRegistering} \cup
                          [step : {"flushed"}, verify : BOOLEAN, links : SUBSET Deals]]
    /\ verifying \subseteq {e \in Emails : account[e] = "unverified"}
    /\ resending \cup deleting \cup sweep \subseteq {e \in Emails : account[e] # "none"}
    /\ creating \in [Deals -> {"idle", "unlinked", "linked"}]
    /\ deal \in [Deals -> {"none", "pending", "accepted", "cancelled"}]
    /\ linked \subseteq {d \in Deals : deal[d] # "none"}
    /\ changes \in 0 .. MaxChanges
    /\ excused \subseteq Emails
    /\ crossed \subseteq Deals

Init ==
    /\ account = [e \in Emails |-> "none"]
    /\ window = [e \in Emails |-> "none"]
    /\ signedIn = {} /\ deactivated = {}
    /\ required = TRUE
    /\ registering = [e \in Emails |-> NotRegistering]
    /\ verifying = {} /\ resending = {} /\ deleting = {}
    /\ creating = [d \in Deals |-> "idle"]
    /\ sweep = {}
    /\ deal = [d \in Deals |-> "none"]
    /\ linked = {}
    /\ changes = 0
    /\ excused = {} /\ crossed = {}

Change ==
    /\ changes < MaxChanges
    /\ changes' = changes + 1

-----------------------------------------------------------------------------
(* Registration and verification *)

\* Fault: addresses that differ in case are not found.
NoInvitations(e) == {}

\* Deals that wait for the seller they invited, by address.
Invitations(e) ==
    {d \in Deals : /\ deal[d] = "pending" /\ d \notin linked
                   /\ Terms[d].as = "buyer" /\ Terms[d].other = e}

\* register, up to its commit.  A second registration of an address waits at
\* the unique index, and fails.
RegisterReads(e) ==
    /\ account[e] = "none"
    /\ registering[e] = NotRegistering
    /\ registering' = [registering EXCEPT ![e] =
                         [step |-> "flushed", verify |-> required, links |-> Invitations(e)]]
    /\ crossed' = crossed \cup {d \in Deals : creating[d] # "idle" /\ Terms[d].other = e}
    /\ UNCHANGED <<accountVars, required, verifying, resending, deleting, sweep,
                   dealVars, changes, excused>>

\* Fault: no link is issued, and so no window.
RegisterWithoutLink(e) ==
    LET r == registering[e] IN
    /\ r.step = "flushed"
    /\ registering' = [registering EXCEPT ![e] = NotRegistering]
    /\ account' = [account EXCEPT ![e] = IF r.verify THEN "unverified" ELSE "verified"]
    /\ linked' = linked \cup r.links
    /\ UNCHANGED <<window, signedIn, deactivated, required, verifying, resending,
                   deleting, sweep, creating, deal, changes, excused, crossed>>

RegisterCommits(e) ==
    LET r == registering[e] IN
    /\ r.step = "flushed"
    /\ registering' = [registering EXCEPT ![e] = NotRegistering]
    /\ account' = [account EXCEPT ![e] = IF r.verify THEN "unverified" ELSE "verified"]
    /\ window' = [window EXCEPT ![e] = IF r.verify THEN "open" ELSE "none"]
    /\ linked' = linked \cup r.links
    /\ UNCHANGED <<signedIn, deactivated, required, verifying, resending, deleting,
                   sweep, creating, deal, changes, excused, crossed>>

\* The 15 minutes are over.
WindowEnds(e) ==
    /\ window[e] = "open"
    /\ window' = [window EXCEPT ![e] = "over"]
    /\ UNCHANGED <<account, signedIn, deactivated, required, handlerVars, sweep,
                   dealVars, changes, excused, crossed>>

\* An unverified account within its window.
InTime(e) == account[e] = "unverified" /\ window[e] = "open"

\* verify_email with the current link: a no-op while the setting is off.
VerifyReads(e) ==
    /\ required
    /\ InTime(e)
    /\ verifying' = verifying \cup {e}
    /\ UNCHANGED <<accountVars, required, registering, resending, deleting, sweep,
                   dealVars, changes, excused, crossed>>

VerifyCommits(e) ==
    /\ e \in verifying
    /\ verifying' = verifying \ {e}
    /\ account' = [account EXCEPT ![e] = "verified"]
    /\ window' = [window EXCEPT ![e] = "none"]
    /\ excused' = IF e \in deleting \cup sweep THEN excused \cup {e} ELSE excused
    /\ UNCHANGED <<signedIn, deactivated, required, registering, resending, deleting,
                   sweep, dealVars, changes, crossed>>

\* resend_verification: a new link, and a new window.
ResendReads(e) ==
    /\ required
    /\ InTime(e)
    /\ resending' = resending \cup {e}
    /\ UNCHANGED <<accountVars, required, registering, verifying, deleting, sweep,
                   dealVars, changes, excused, crossed>>

\* Even if the account was verified in the meantime, or its window is over.
ResendCommits(e) ==
    /\ e \in resending
    /\ resending' = resending \ {e}
    /\ window' = [window EXCEPT ![e] = "open"]
    /\ UNCHANGED <<account, signedIn, deactivated, required, registering, verifying,
                   deleting, sweep, dealVars, changes, excused, crossed>>

\* Fault: an address that is not verified does not keep anybody out.
MaySignInUnverified(e) == account[e] # "none"

MaySignIn(e) == account[e] = "verified" \/ (account[e] = "unverified" /\ ~required)

\* login
SignIn(e) ==
    /\ MaySignIn(e)
    /\ e \notin deactivated \cup signedIn
    /\ signedIn' = signedIn \cup {e}
    /\ excused' = IF account[e] = "unverified" /\ ~required THEN excused \cup {e}
                  ELSE excused
    /\ UNCHANGED <<account, window, deactivated, required, handlerVars, sweep,
                   dealVars, changes, crossed>>

-----------------------------------------------------------------------------
(* Deletion *)

Expired(e) == account[e] = "unverified" /\ window[e] = "over"

BuyerOf(d) == IF Terms[d].as = "buyer" THEN Terms[d].creator ELSE Terms[d].other

\* buyer_id must not be null, and initiated_by_user_id is a foreign key.
Deletable(e) ==
    \A d \in Deals : deal[d] # "none" => e \notin {BuyerOf(d), Terms[d].creator}

\* The rows go with everything that belongs to them; deals lose their seller;
\* whoever works on one of the rows fails at the commit.
Remove(S) ==
    /\ account' = [e \in Emails |-> IF e \in S THEN "none" ELSE account[e]]
    /\ window' = [e \in Emails |-> IF e \in S THEN "none" ELSE window[e]]
    /\ signedIn' = signedIn \ S
    /\ deactivated' = deactivated \ S
    /\ verifying' = verifying \ S
    /\ resending' = resending \ S
    /\ deleting' = deleting \ S
    /\ sweep' = sweep \ S
    /\ linked' = linked \ {d \in Deals : Terms[d].as = "buyer" /\ Terms[d].other \in S}
    /\ creating' = [d \in Deals |->
         IF \/ Terms[d].creator \in S
            \/ creating[d] = "linked" /\ Terms[d].other \in S THEN "idle" ELSE creating[d]]
    /\ UNCHANGED <<required, registering, deal, changes, excused, crossed>>

\* login, verify_email and resend_verification come across an expired account ...
FindExpired(e) ==
    /\ required
    /\ Expired(e)
    /\ deleting' = deleting \cup {e}
    /\ UNCHANGED <<accountVars, required, registering, verifying, resending, sweep,
                   dealVars, changes, excused, crossed>>

\* ... and delete it, or fail.
DeleteExpired(e) ==
    /\ e \in deleting
    /\ Deletable(e)
    /\ Remove({e})

KeepExpired(e) ==
    /\ e \in deleting
    /\ ~Deletable(e)
    /\ deleting' = deleting \ {e}
    /\ UNCHANGED <<accountVars, required, registering, verifying, resending, sweep,
                   dealVars, changes, excused, crossed>>

\* What the query of cleanup_unverified_accounts returns.
Listed == {e \in Emails : Expired(e)}

ListExpired ==
    /\ required
    /\ sweep = {} /\ Listed # {}
    /\ sweep' = Listed
    /\ UNCHANGED <<accountVars, required, handlerVars, dealVars, changes, excused, crossed>>

DeleteListed ==
    /\ sweep # {}
    /\ \A e \in sweep : Deletable(e)
    /\ Remove(sweep)

\* One row that cannot go takes the others with it; retries meet it again.
RollBackSweep ==
    /\ \E e \in sweep : ~Deletable(e)
    /\ sweep' = {}
    /\ UNCHANGED <<accountVars, required, handlerVars, dealVars, changes, excused, crossed>>

-----------------------------------------------------------------------------
(* Administrators *)

\* update_platform_settings
SwitchVerification ==
    /\ Change
    /\ required' = ~required
    /\ UNCHANGED <<accountVars, handlerVars, sweep, dealVars, excused, crossed>>

\* deactivate_user, which nothing takes back
DeactivateUser(e) ==
    /\ Change
    /\ account[e] # "none"
    /\ deactivated' = deactivated \cup {e}
    /\ UNCHANGED <<account, window, signedIn, required, handlerVars, sweep, dealVars,
                   excused, crossed>>

-----------------------------------------------------------------------------
(* Deals *)

\* get_current_user
Present(e) == e \in signedIn \ deactivated

\* create_transaction: the counterparty is looked up by its address; a seller
\* can only name a registered buyer.
CreateReads(d) ==
    LET other == Terms[d].other IN
    /\ deal[d] = "none" /\ creating[d] = "idle"
    /\ Present(Terms[d].creator)
    /\ Terms[d].as = "seller" => account[other] # "none"
    /\ creating' = [creating EXCEPT ![d] = IF account[other] = "none" THEN "unlinked"
                                           ELSE "linked"]
    /\ crossed' = IF registering[other] # NotRegistering THEN crossed \cup {d} ELSE crossed
    /\ UNCHANGED <<accountVars, required, handlerVars, sweep, deal, linked,
                   changes, excused>>

CreateCommits(d) ==
    /\ creating[d] # "idle"
    /\ creating' = [creating EXCEPT ![d] = "idle"]
    /\ deal' = [deal EXCEPT ![d] = "pending"]
    /\ linked' = IF creating[d] = "linked" THEN linked \cup {d} ELSE linked
    /\ UNCHANGED <<accountVars, required, handlerVars, sweep, changes,
                   excused, crossed>>

\* accept_transaction: both parties are linked, the invited one accepts.
AcceptDeal(d) ==
    /\ deal[d] = "pending" /\ d \in linked
    /\ Present(Terms[d].other)
    /\ deal' = [deal EXCEPT ![d] = "accepted"]
    /\ UNCHANGED <<accountVars, required, handlerVars, sweep, creating,
                   linked, changes, excused, crossed>>

\* decline_transaction by the invited party, whatever the status;
\* cancel_transaction by the creator.
EndDeal(d) ==
    /\ \/ deal[d] \in {"pending", "accepted"} /\ d \in linked /\ Present(Terms[d].other)
       \/ deal[d] = "pending" /\ Present(Terms[d].creator)
    /\ deal' = [deal EXCEPT ![d] = "cancelled"]
    /\ UNCHANGED <<accountVars, required, handlerVars, sweep, creating,
                   linked, changes, excused, crossed>>

-----------------------------------------------------------------------------
\* The web process restarts; its open sessions are rolled back.
SessionsLost ==
    /\ registering' = [e \in Emails |-> NotRegistering]
    /\ verifying' = {} /\ resending' = {} /\ deleting' = {}
    /\ creating' = [d \in Deals |-> "idle"]
    /\ UNCHANGED <<accountVars, required, sweep, deal, linked, changes, excused, crossed>>

Registration(e) == RegisterReads(e) \/ RegisterCommits(e)

\* verify_email, resend_verification, login
EmailStep(e) ==
    \/ VerifyReads(e) \/ VerifyCommits(e)
    \/ ResendReads(e) \/ ResendCommits(e)
    \/ FindExpired(e) \/ DeleteExpired(e) \/ KeepExpired(e)
    \/ SignIn(e)

CleanUp == ListExpired \/ DeleteListed \/ RollBackSweep

DealStep ==
    \E d \in Deals : CreateReads(d) \/ CreateCommits(d) \/ AcceptDeal(d) \/ EndDeal(d)

\* What happens besides registrations and restarts.
AccountStep ==
    \/ \E e \in Emails : EmailStep(e) \/ WindowEnds(e) \/ DeactivateUser(e)
    \/ CleanUp \/ SwitchVerification \/ DealStep

Next == AccountStep \/ SessionsLost \/ \E e \in Emails : Registration(e)

Spec == Init /\ [][Next]_vars

-----------------------------------------------------------------------------
(* Properties *)

\* An account that somebody has signed in to is never deleted as an unverified
\* one, unless it was used before it was verified, while verification was
\* switched off, or a handler or a clean-up had found it expired before a
\* verification that was checked in time was committed.
UsedAccountsStay ==
    [][\A e \in signedIn : account'[e] = "none" => e \in excused']_vars

\* An accepted deal keeps its seller, with the same two exceptions for that
\* seller's address.
AcceptedDealHasSeller ==
    \A d \in Deals :
      deal[d] = "accepted" /\ d \notin linked => Terms[d].other \in excused

\* An open invitation to an address that has an account is linked to that
\* account, also to one that was registered anew after its deletion; unless the
\* deal and the account were made at the same time.
InvitationsAreLinked ==
    \A d \in Deals :
      deal[d] = "pending" /\ account[Terms[d].other] # "none" => d \in linked \cup crossed
=============================================================================
