# Milevault escrow: formal model

Milevault is an escrow marketplace (FastAPI, PostgreSQL through SQLAlchemy,
Celery on Redis).  A buyer and a seller agree on a deal, the buyer locks the
price of each milestone in escrow, the seller delivers, and the money is
released by the buyer's approval or by a timer.  Agents may be hired to verify
a deal; administrators resolve disputes, freeze wallets, refund and pay out.
Every path through this moves money, so most of what follows is about where
the money is.

This directory holds TLA+ modules that model the backend, the TLC instances
that check them, and proofs that TLAPS checks.

## 1. Inventory of the system

For each part: the state it keeps, its operations, whom it interacts with,
what is hard about it, and what makes it correct.

**Deals, milestones and escrow** (`app/routers/transactions.py`,
`app/services/funding_deadline_enforcement.py`, `app/models/transaction.py`,
`app/models/wallet.py`).
State: `Transaction` (status, funding deadline, counters of funded and
completed milestones), `Milestone` (status, price, amount funded so far,
is_funded, auto_release_at), one `WalletBalance` per user and currency with
`available_amount` and `escrow_amount`, and `LedgerEntry`.
Operations: create, edit, accept, decline and cancel a deal; add and edit
milestones; fund in parts; start; deliver; approve; ask for a revision; report
an invalid delivery; enforce the funding deadline, which is done by a task
*and* by every read of a deal.
Hard: several deals share one balance row; three kinds of message and four
people act on one milestone; a repeated or late message must not pay twice;
`create_notification` commits, so some handlers are several database
transactions.
Correct when: the escrow balance is exactly what the milestones hold; a
milestone is paid at most once and in full; counters and statuses agree with
the rows; money is conserved.

**Deal tasks** (`app/services/tasks.py`, `celery_app.py`).
State: queued messages (with countdown or eta), late acknowledgement.
Operations: `auto_release_milestone`, `enforce_funding_deadline`,
`expire_stale_invitations`, `process_refund`, the deposit scan, the clean-up
of unverified accounts.
Hard: messages are lost, repeated and late, and most of these tasks have no
route to a queue that the deployed worker reads; the expiry task iterates over
a list that it read before its first commit.
Correct when: "All tasks are idempotent and safe to retry" (tasks.py:3).

**Disputes** (`app/routers/disputes.py`, `admin_update_dispute`).
State: `Dispute`, and the statuses of the deal and milestone it is about.
Hard: it can be opened and resolved in any state of the deal.
Correct when: no money is stranded or paid twice across it.

**Agent requests and fees** (`app/routers/agents.py`,
`app/services/agent_fee_service.py`, the agent handlers of `admin.py`).
State: `AgentRequest`, `AgentEarning` (held, paid, refunded, pending), ledger.
Operations: request, accept (holds the fee), decline, cancel, complete,
assign by an administrator, pay out; the deal settles held fees when it
completes, is cancelled, expires or misses its deadline.
Hard: seven places settle the same fee.
Correct when: a held fee is settled once, to one side.

**Administrator refunds** (`create_refund`, `process_refund`).
State: `Refund` rows, a queued message.
Hard: the message is queued before the row is committed, the task does not
look at the refund's status, and two worker processes add to one balance.
Correct when: every refund is credited exactly once, and no credit is lost.

**Concurrent requests on the same rows** (`app/database.py`; no handler locks a
row).  PostgreSQL's READ COMMITTED, absolute values written back.
Hard: lost updates and decisions on stale reads.
Correct when: what the sequential handlers guarantee survives.

**Wallet** (`app/routers/wallet.py`, the withdrawal handlers of `admin.py` and
`crypto.py`).
State: `WalletBalance` (amount, pending_amount), `WalletTransaction` rows,
`ExchangeRate`, and per user `wallet_frozen`, `withdrawals_blocked` and
`withdrawal_cooldown_until`.
Operations: withdraw, and its end by an administrator in either of two
routers; transfer by e-mail address, and its reversal; convert; freeze, block
and set rates.
Hard: two routers end the same requests, one of them rounds to cents; a
transfer is two rows that nothing ties together.
Correct when: pending money is what the open requests say; balances hold what
came in less what went out.

**Deposits and gateways** (`payment_service.py`, `wallet.py`).
Operations: initiate at Paystack, Stripe or Flutterwave; verify by reference or
by row; reconcile one row or all pending ones; Paystack's webhook.
Hard: several of these for one payment, in any order; the gateway is asked
between reading a row and using it; who asks, the reference and the row are
three inputs that nothing compares.
Correct when: a payment is credited once, and only when it was made.

**Crypto deposits** (`crypto.py`, `crypto_scanner.py`, `scan_crypto_deposits`).
State: an address per network with the cursor of its last scan, and a row per
transfer, unique by hash.
Operations: the scan of all networks every five minutes; a report by a user;
approval, rejection; set and delete an address.
Hard: explorers list one page, newest first; scans overlap with each other,
with reports; the cursor of a network stays when its address is replaced; one
commit holds all networks.
Correct when: every transfer gets its row, and none two.

**Idempotency and rate limiting** (`app/middleware/`, `cache_service.py`).
State: cached answers in Redis or in the process, the limiter's sorted sets.
Hard: a retry while the first request still runs; Redis that goes and returns;
a process that dies between caching a success and answering it; the order of the
two middlewares.
Correct when: a retry gets the answer of the request it repeats.

**Accounts** (`auth.py`, `auth_service.py`, `dependencies.py`, the clean-up
task): registration, verification, login.
State: `User` rows, the window in which an address may be verified, deals that
name an address.
Hard: three handlers and a task delete by its id what they found expired when
they read it, whatever was committed since, and deals are made with addresses
that have no account yet.
Correct when: accounts in use stay, and an invitation reaches whoever registers
its address.

**WebSocket chat** (`websocket/manager.py`, `messages.py`): connection registry.

**Reputation limits; KYC, uploads, dashboard, contact, notifications; schema
management**: rows without a protocol between actors, or pure input and output.

The hazards, each at its line and with the properties that would catch it, are
listed in `PROJECT.json`.

## 2. Modules

| module | what it holds |
|---|---|
| `Totals` | sum of a function over a finite set; subtraction that stops at 0 (`max(Decimal("0"), ...)`) |
| `Escrow` | deals, milestones, wallets, ledger, deal tasks, disputes; and what deals do to held agent fees |
| `AgentFees` | extends `Escrow` with the requests, earnings and payouts of agents |
| `StatusEdits` | extends `Escrow` with the PUT handlers and `force_status`, which overwrite status and price |
| `Sessions` | extends `Escrow`: fund, approve, auto-release and revise cut into read, read wallets, commit, in overlapping sessions |
| `Refunds` | refunds by an administrator: `create_refund`, the queue, the workers, `process_refund` |
| `Vault` | abstract: money is locked for an item, given back, or paid out once |
| `EscrowVault` | the refinement mapping from `Escrow` to `Vault` |
| `Wallet` | deposits through gateways, withdrawals, transfers, conversions, and what administrators do to them |
| `CryptoDeposits` | chains, explorers, the scan with its cursors, reports, addresses |
| `Accounts` | registration, verification, clean-up, deactivation, and the deals that name accounts |
| `Requests` | extends `Accounts`: idempotency cache and rate limiter before a registration and its retries |
| `MC...` | instances for TLC |
| `TotalsProofs` | lemmas about sums |
| `EscrowProofs` | `Escrow`: types, money, counters, statuses, review windows; and that it implements `Vault` |
| `AgentFeesProofs` | `AgentFees` and `StatusEdits`: fees are settled once, balances match the ledger, money is conserved |
| `SessionsProofs` | what holds without row locks, and that commits on current reads are steps of `Escrow` |
| `RefundsProofs`, `WalletProofs` | credits of refunds and of payments, balances, pending money |
| `CryptoDepositsProofs` | types, and which transfers can fall behind a cursor |
| `AccountsProofs` | `Accounts`: types and its three safety properties; `Requests`: what a retry is told |

### How state and actions correspond to the code

*One action is one database transaction.*  A handler with a single commit is
one action named after it (`FundMilestone` is `fund_milestone`,
`Release` is `_release_milestone_escrow`, which `ApproveMilestone` and
`AutoRelease` both call).  `create_notification` commits
(`notification_service.py`), so a handler that notifies in the middle is two
actions: `CancelUnfundedDeal` commits the refunds and the cancellation, and
puts the deal in `feeRefundDue`; then either `RefundFeesAfterDeadline` runs or
the process dies first (`CrashAfterCancel`).  In the same way
`SelectStaleInvitations` reads the list of `expire_stale_invitations` and
`ExpireInvitation` cancels one deal of it, because each iteration commits.

Requests are serialised in `Escrow`, `AgentFees` and `StatusEdits`: an action
reads and writes the rows atomically.  What happens when two requests overlap
is a question of its own, and module `Sessions` asks it.  There a handler reads
the deal and the milestone (`ReadRows`, with its checks), then the wallets
(`ReadWallets`), and writes at its commit what it computed from these reads, in
the columns that changed (`Written`): `database.py` opens one session per
request, PostgreSQL runs it READ COMMITTED, and no handler uses
`with_for_update`.  What `Release` and `FundMilestone` do at once in `Escrow`,
`CommitRelease` and `CommitFund` do from a snapshot that may be stale.

`Refunds` has a state of its own: the row with the time before its commit
(`flushed`), the messages in the queue by refund and number of retries, what
every worker process is doing (it holds a message and the balance it read),
the balances, the number of credits per refund, and the users whose balance two
workers had in hand at once (`overlapped`).  `create_refund` is two
actions, because it queues the task before it commits; `process_refund` is
read, commit, acknowledge, with failing attempts (retried at most
`max_retries` times), dying workers and the broker's visibility timeout in
between.

`Wallet` serialises requests too, with one exception that lasts as long as a
call to a gateway: `AskGateway` reads the row, `GatewayAnswers` acts on it
whatever was committed meanwhile.  The reference, the row and the user of a
verification are independent inputs, as they are in the code: `ReconcileDeposit`
and `AskGateway` combine any payment's reference with any pending row of the
user who asks, and `VerifyByReference` is asked by anybody.  A credit completes
the row that was named, which carries the reference from then on (`carries`);
or the row found by the reference among those of the user (`Carrying`, the
last created of them); or, if there is none, a row that it makes (`extra`).
Stripe answers with the id of its payment intent, which a pending row does not
carry, so that its first verification by reference makes a second row.
Units are thirds of a cent, so that the crypto handlers' rounding to two
decimals has something to round and never meets a tie.  The history variables
say why a property may fail to hold: `stale` (a credit on a status that had
changed while the gateway was asked), `crossed` (a credit through the row of
another payment, which the request named), `rounded`, `minted` (what a reversal
credited and did not debit), `gained` (what a conversion added to a currency).

`CryptoDeposits` has the chain and the explorer as its environment: a bitcoin
transfer is listed when it enters the mempool and moves when a block takes it.
The row of a network names one of its possible addresses; `SetAddress` overwrites
address and switch and leaves the cursor, and `DeleteAddress` takes the cursor
away with the row.  A run of `scan_crypto_deposits` reads the addresses (`StartScan`), polls one
network after the other (`ScanNetwork`), and commits all of them or none
(`CommitScan`, `RollBackScan`).  The session does not flush before its commit,
so a hash that is there twice is noticed only then.  Once a network is polled,
`cursor` of the run is `new_cursor`, the oldest of the deposits in `found`
(`OldestOf`).  What the four scanners
do with a cursor is in `BitcoinPage`, `TronPage`, `SolanaPages` and `EvmPage`.
What Solana's node answers when the cursor is no transfer of the address it is
asked about is not in the code: `SolanaPages` lets it cut the page anywhere.

`Accounts` names an account by its address.  Registration, verification, the
resending of a link, the deletion of an expired account, the clean-up and the
creation of a deal read first and commit later; whoever works on a row that is
deleted in between fails at the commit (`Remove`).  `login`, `verify_email` and
`resend_verification` find an account expired (`FindExpired`) and delete it by
its id (`DeleteExpired`), or fail to (`KeepExpired`), whatever was committed in
between: `login` checks a bcrypt password there.  `ResendCommits` writes its new
window also on a row that was verified meanwhile.  A buyer or creator of a deal
cannot be deleted (`Deletable`: `buyer_id` must not be null,
`initiated_by_user_id` is a foreign key), a seller can, and the deal loses its
seller.  The history variable `excused` has the accounts that were used while
verification was switched off, and those whose verification was committed when
a handler or the clean-up had already found them expired; `crossed` the deals
that were made while their invitee registered.  `Requests` puts the two
middlewares before `register`: the cache lookup, the limiter, the handler's two
steps, the storing of a success (`Store`) and its answer (`Reply`) are
steps of their own, and Redis fails, forgets and returns between them.  The
cached answer is in Redis once the process has a client, and in the process
before that; keys are not bound to a user, because nothing sets
`request.state.user_id`.

| variable | code |
|---|---|
| `status`, `deadline`, `fundedMs`, `completedMs` | columns of `Transaction` |
| `hasDispute` | a `Dispute` row names the deal |
| `mstatus`, `amount`, `funded`, `isFunded`, `autoRelease` | columns of `Milestone` |
| `proof` | whether the latest `MilestoneDelivery` passes `delivery_meets_auto_release_bar` |
| `available`, `escrow`, `frozen` | `WalletBalance`, `User.wallet_frozen` |
| `ledger`, `feeLedger` | the sums of the `LedgerEntry` rows of a milestone, or of an agent request, per kind |
| `request`, `earning` | `AgentRequest.status`, `AgentEarning.status` |
| `enforceTask`, `releaseTask` | a Celery message is queued for the deal, for the latest delivery |
| `staleTask` | messages of earlier deliveries, or redeliveries: they may arrive at any time |
| `sweep`, `feeRefundDue` | handlers between two commits |

Abstractions.  One currency and integer amounts (every handler works in the
deal's currency; conversions are in `Wallet`).  Both parties are
registered users with one wallet row each; a timestamp is *absent*, *ahead* or
*due*, and time is an action that turns ahead into due.  A swallowed broker
error is the choice `queued \in BOOLEAN`.  A redelivery is the choice
`again \in BOOLEAN`.  A rejected request changes nothing and is no action.
Not modelled because no guard of the model reads what they write: reports of
invalid deliveries, reminder tasks, `in_review` and `closed` disputes,
reputation scores, invoices and notifications.
`cancel_unfunded_transaction` exists but is queued by nothing in the
repository.

`Escrow` is the workflow without the handlers that overwrite a deal's or
milestone's status and price by hand (`update_transaction`,
`update_milestone`, `force_status`).  `StatusEdits` adds them, and with them
most of the guarantees go: the module states the ones that remain.

## 3. What is checked

| run | instance | question |
|---|---|---|
| `escrow` | one deal, two milestones of price 0 or 2, a buyer with 3 | do money, ledger, counters and statuses agree in every interleaving, and is every step one of the vault's? |
| `agent_fees` | one request, every step of its deal, a buyer who cannot always pay both | is a fee settled once, to the right side? |
| `status_edits` | one milestone of price 1 or 3, a buyer with 2, two edits | what survives edits of status and price? |
| `refunds` | two refunds of one user, two worker processes, two failures, two redeliveries | when is a credit lost, and is none repeated but by a redelivery? |
| `sessions` | two overlapping sessions on two milestones | what survives without row locks, and is a commit whose reads are current an atomic step of `Escrow`? |
| `wallet` | two users, two currencies, a Paystack and a Stripe payment of one of them, a crypto deposit, two withdrawals, two transfers, a conversion; four rows at most | is a user credited a payment once, and where does money come from and go to? |
| `crypto_deposits` | two bitcoin and two Solana addresses, three transfers (one with two outputs), pages of one, two overlapping scans, one incident, addresses replaced at any time | which transfers can be missed? |
| `accounts` | two addresses, two deals between them, two switches or deactivations | do accounts in use stay, and do invitations reach their accounts? |
| `requests` | a registration and two retries, a limit of one second in two, two faults | what is a retry told? |
| `escrow_partial_locks`, `sessions_release`, `crypto_scan_stops` | as above; one Ethereum address and two transfers | three sentences of docstrings that the code does not keep (section 5) |

Properties, module by module:

- `EscrowBacked`: the escrow balance of a user is exactly what the user's
  milestones hold, so `max(0, ...)` never hides a shortfall.
- `LedgerBalanced`: locked = refunded + released + held, for every milestone.
- `PaidOnceInFull`: whoever triggers it, a milestone is released once, for its price.
- `FundedMeansFull`: `is_funded` is "fully funded", and no work starts on less.
- `CountersAgree`, `StatusTellsFunding`: counters and statuses beside the rows they summarise.
- `CompletedIsDrained`: a completed deal that was never disputed holds nothing.
- `MoneyConserved`: available + escrow + fees at the platform is constant.
- `NoEarlyAutoRelease`: no message, of whatever delivery, pays before the
  review window of the *current* delivery has ended.
- `FeeSettledOnce`, `NoPassivePayout`, `CancelRefundsFees`: a fee goes to one
  side, to the agent only for finished work or on an administrator's word, and
  back to the buyer when the deal is cancelled (declining is the exception that
  the code makes).
- `AvailableMatchesLedger`, `FundedCounterAgrees` (`StatusEdits`): available
  balances are what the ledger says, and the counter of funded milestones
  counts, whatever was edited.
- `FreshCommitsAreAtomic` (`Sessions`): the read-compute-commit steps refine
  `Escrow` as long as nobody else commits in between, so what goes wrong there
  is the missing lock and nothing else.  `WorkIsPaidFor`: even without locks no
  milestone is marked as funded before its price was taken from the buyer.
- `BalanceIsCredits` (`Refunds`): a balance is the sum of its credits, unless
  two workers had it in hand at once, and it is never more: a lost update loses
  credits and makes none.  `PaidMeansCompleted`, `OnlyRedeliveryRepeats`: a
  refund is credited exactly when its row says completed, and again only for a
  redelivered message.  `WaitingRefundIsPaid`: liveness.
- `ImplementsVault`: `V!Spec`, with a milestone as the item, the buyer's escrow
  balance as the pot and the ledger's sums as the item's history.  A clamp at
  zero, a release of a part, a second release, or a refund of another
  milestone's money is no step of the vault.
- `CreditedOnce` (`Wallet`): however verifications, webhooks and
  reconciliations meet, whoever asks for them and whichever row they name, a
  user is credited a payment once.  Three exceptions are named, each by the
  user and the payment it concerns: a gateway call that spans another credit
  (`stale`), a request that named the row of another payment (`crossed`), and
  Stripe's second row (`TwoRows`).  The property is per user because the code
  is: another user who verifies the same reference is credited too (section 5).
  What was credited was paid, and has a completed row that carries it.
  `PendingMatchesRequests`, `MoneyExplained`: pending money is the
  sum of the open withdrawals, and the wallets hold what came in less what was
  paid out, up to what roundings, conversions and reversals change.
- `MissedIsExplained` (`CryptoDeposits`): a transfer without a row stands before
  the cursor, where the next scan of its address looks.  If not, it was beyond
  a page, skipped by a failing request, cut off by a cursor of another address,
  has overtaken an older one, or pays an address that has been replaced.
  Overlapping, dying and rolled back scans, reports, outages and the cursors
  that replaced addresses leave behind lose nothing else.
- `UsedAccountsStay`, `AcceptedDealHasSeller`, `InvitationsAreLinked`
  (`Accounts`), each with the exceptions that the code makes: a switched-off
  verification, an account that a handler or the clean-up found expired before a
  verification that was checked in time was committed, and a deal and an account
  made at the same time.
- `RetriesAreReplayed`, `ReplaysTellTheTruth` (`Requests`): a retry sent after
  the success was answered gets that answer, and reaches neither limiter nor
  handler, unless the cache lost the entry or the process died; and what is
  replayed is the success of a committed registration, though perhaps of one
  whose sender was told nothing.

### Bounds

Two milestones are the least with which "another milestone" (funded, partial,
completed) means something: completion, the partial refund and the deal's
status all quantify over the others, and a third adds no new case.  Price 2 is
the least that can be funded in parts; 0 is included because a price of zero
can never be funded.  A balance of 3 lets the buyer fund one milestone and
part of the other, or both in part, and forces the balance check to bite;
refunds let the same money be locked again.  Messages need no count: one
Boolean for the latest delivery and one for all the others reaches the same
states as a queue, because a message carries nothing but the milestone's id.
No bound cuts a behaviour off inside an instance of `Escrow` or `AgentFees`:
their state spaces are finite as they stand.  Two deals that share wallet rows
are not in a run; `EscrowIsBacked` is proved for every number of them.

`StatusEdits` bounds the number of edits (`MaxEdits`): one is enough to bring a
milestone back under review or to change a price after funding, two combine
them.  `Sessions` opens no session for a milestone whose ledger is beyond
`MaxBooked`, because lost updates let a milestone be funded and paid again and
again; requests of other kinds are served while no session is open.  Sessions
are interchangeable, so that run uses symmetry.
`Refunds` bounds redeliveries and failures (`MaxRedeliveries`, `MaxFailures`);
with as many failures as retries every retry is taken.  A deal at rest may stop:
`Refunds`, `Sessions`, `Wallet`, `CryptoDeposits`, `Accounts` and `Requests`
run without the deadlock check.

`Wallet`: two payments, two withdrawals and two transfers are the least with
which one of them can be taken for the other; one verification that waits for
its gateway is enough to be overtaken; an administrator changes one setting
(`MaxSettings`), and undoing a change is free.  A behaviour writes at most four
rows of all tables together (`MaxRows`): two payments with the second row that a
credit makes and one more, or one payment, a transfer, its withdrawal and a
setting, and so on: any two handlers meet, with the deposit that pays for them,
and `WalletProofs` has no such bound.  Both payments are of one user,
so that one reference can be crossed with the other's row, and the second user
is a stranger to both.  Amounts are chosen so that a
balance is sometimes too small, and so that a crypto deposit leaves a part of a
cent.  `CryptoDeposits`: pages of one transfer make every second transfer
overflow a page; three transfers allow an overtaking, a report and an overlap at
once.  A behaviour is about two bitcoin addresses with three transfers, or about
two Solana addresses beside a bitcoin one with a transfer each (`FewTransfers`),
so that each network has an address replaced and put back.  `MaxIncidents` bounds
outages, deaths, and what is done to an address in use: replacing, switching off
or deleting it (one that is off may be replaced and switched on freely).  `Accounts`: one account invites the
other, once as its seller and once as its buyer, so that each of them is buyer
of one deal and seller of the other; `MaxChanges` bounds the switches of the
setting and the deactivations (off and on again needs two).  `Requests`: a request, a retry that
overlaps it and a retry after the answer; `MaxFaults` of two lets Redis go and
return; tries are interchangeable, so the run uses symmetry.

### Fairness

One run has a liveness property, `refunds`, because one task has a queue that
something reads: `process_refund` is routed to `payments` (`celery_app.py:26`),
and the worker that `railway-worker.toml` starts reads that queue.  Its
`FairSpec` has weak fairness of handlers that commit or roll back and of workers
that take messages and work them off, with late acknowledgement redelivering
what a worker did not finish; failures and redeliveries are owed to nobody.

Nothing of the kind is stated of the other tasks.  `auto_release_milestone`,
`enforce_funding_deadline`, `expire_stale_invitations`, `scan_crypto_deposits`
and `cleanup_unverified_accounts` have no route, so they go to Celery's default
queue, which is called `celery`; that worker reads `default`, `media`,
`notifications`, `kyc` and `payments`.  The commands in `Procfile` and
`Dockerfile.celery` name a module, `app.celery_app`, that does not exist, and
nothing starts beat, which would fire the periodic ones.  So the models let these
tasks run at any time or never, and state safety of them only.  The hazard is in
`PROJECT.json`.  Users, administrators, gateways and explorers owe nothing.

## 4. What is proved

Everything below holds for every value of the constants (any number of users,
deals, milestones, requests, payments, workers, addresses; any amounts), under
the named assumptions of the modules: sets of rows are finite, buyer and seller
of a deal differ (which `create_transaction` and acceptance see to), amounts are
naturals.

**`Escrow`** (`EscrowProofs`).

- `EscrowTypeCorrect`: `Spec => []TypeOK`.  The point is that no balance
  becomes negative.
- `EscrowInvariant`: `Spec => []EscrowInv`, the conjunction of `TypeOK`,
  `RowsAgree`, `FundedMeansFull`, `PaidOnceInFull`, `LedgerBalanced` and
  `EscrowBacked`; and from it `EscrowIsBacked`, `MilestonePaidOnce`,
  `MilestoneLedgerBalanced` and `FullyFundedBeforeWork`.

Why the conjuncts need each other.  `EscrowBacked` is not inductive alone: a
release debits `ReleaseAmount`, and this equals what the milestone holds only
when it is fully funded and was not paid before.  Not paid before follows from
`PaidOnceInFull` (a paid milestone is completed or disputed, so not under
review); fully funded from `FundedMeansFull` (work never starts on less).
`RowsAgree` rules out rows that do not exist yet and still hold something.
The step on money is then arithmetic on sums: an action changes one milestone's
`Locked` (or, at the deadline, a set of them) and the buyer's escrow by the
same amount; `TotalsProofs` has the lemmas (a sum over a set in which one
member changes; the sum over a subset; sums of two functions that agree).
There is one lemma per kind of step.

- `DealStatusTellsFunding`, `CompletedDealsDrained`: the invariant is
  `StatusInv`, used beside `EscrowInv`.  Three things are added to the two
  properties.  A deal never is `pending_acceptance` (it is the column's default,
  but `create_transaction` writes `pending_approval`; acceptance looks for both,
  so a deal in that status with money in it has to be ruled out).
  `in_progress` deals have a funded milestone, as active ones do, because a
  delivery makes the one of the other.  And `PaidOut`, that a completed
  milestone holds nothing: the release that completes the *last* milestone has
  to know that the earlier ones are empty, which follows from `PaidOnceInFull`
  at the time of their release and must be carried along.
- `CountersCount`, with `RowsExist` beside it (milestones belong to deals that
  exist, and only those that exist are marked as funded).  The counter of
  funded milestones is shown without any word about prices, so the lemma serves
  `StatusEdits` as well; the one of completed milestones needs `PaidOnceInFull`:
  it goes up with a release only because the milestone had none before.
- `NoReleaseBeforeReview`, an action property.  Messages of old deliveries may
  arrive at any time; what stops them is `ReviewIsTimed`: whatever waits for
  review has a window that runs or has ended, so the handler's test of
  `auto_release_at` cannot be passed by a column that is empty.
- `EscrowImplementsVault`: `Spec => ImplementsVault`, for every
  value of the constants.  Its lemmas go through the actions of `Escrow`: one
  that leaves ledger, prices and escrow balances alone is a stutter of the
  vault; `FundMilestone` is `Lock`, which needs that the milestone was not paid;
  a release is `Pay`, which needs that what is released is all that is held
  (`FundedMeansFull`, `PaidOnceInFull`) and that the clamp at zero is not met
  (`EscrowBacked`); the two deadline refunds are `GiveBack` of a set of
  milestones, which needs the sums of `TotalsProofs`.  `EscrowInvariant` is
  used before every step.

**`AgentFees`** (`AgentFeesProofs`).  `FeesSettledOnce`, `NobodyPaidPassively`,
`CancellationRefunds`.  The invariant is `FeeInv`: `FeeSettledOnce` with
`FeesFollowEarnings` (an earning appears only when an open request is accepted
or assigned; a held earning has exactly its fee in the ledger).  Without it a
second acceptance could hold a fee twice.  The theorem is about every action of
`Escrow` and of `AgentFees`: `DealStepFees` brings every place of the deal's
workflow that settles fees to one form (some of the held fees are paid, the
others refunded), and `SettledByDeal` and `SettledByRequest` are about that form
and about the handlers of a request.  The two action properties use the
invariant before the step.

`BalancesMatchLedger` (for `StatusEdits`) and `AgentBalancesMatchLedger` (with
agents) say that the available balance of every user is what the user's ledger
entries add up to.  The invariant is stated per user (`BooksOf`): an action books
entries of a few rows, and the lemmas of `TotalsProofs` say what that does to the
sums over the deals the user bought, sold, or was hired for; the natural numbers
of `TypeOK` see to it that nothing is clamped.  `FundedCounterSurvivesEdits` uses
the counter's lemma of `EscrowProofs`.  `MoneyIsConserved` needs no
invariant of its own: `TotalPartition` sums the books over all users, every
entry of a release or a payout meets its lock or hold, and `EscrowBacked` and
`LedgerBalanced` say where the rest is.  `EscrowConservesMoney` is the corollary
for the specification that the run `escrow` checks.

**`Sessions`** (`SessionsProofs`).  `SessionsTypeCorrect` needs `PurseCovers`: a
session debits at most what it has read in the wallet, however stale that is.
`WorkPaidFor` needs `PaidInv`: what a session has read is old but was true
(`ReadsHold`: the price is still the same, and what it saw as funded is in the
ledger), so a lost update can only lower `funded`, never the ledger.
`CommitsOnCurrentReads` is the step-by-step refinement: `ReadsAreCurrent` says
that, until somebody else commits, the rows, the wallets and the admission
check of a session are what it would read now; then `CommitFund`,
`CommitRelease` and `CommitRevision` are `FundMilestone`, `ApproveMilestone` or
`AutoRelease`, and `RequestRevision`.

**`Refunds`** (`RefundsProofs`).  `RefundsPaidWhenCompleted`, for any number of
worker processes: `PaidMeansCompleted` needs `SeenIsCommitted` (a worker holds
only a refund that it has seen, and what was seen is not rolled back).
`OnlyRedeliveriesRepeat`, also for any number of workers, counts the *load* of a
refund: its credits, its messages in the queue and the workers that have read it
as pending.  A commit, a retry or a death moves load from one of these to
another (`Moves`), only `create_refund` makes a load of one (`NotYetCreated`),
and only a redelivery adds to it; so what exceeds one per refund is bounded by
the redeliveries (`ExcessIsRedelivered`).  `BalancesAreCredits` needs no
hypothesis about their number.  `ReadIsExplained`: what a worker has read is what
the balance is now, unless the user is in `overlapped`, and never more than the
credits add up to; `ReadersOverlap`: two workers that have one balance in hand
have put its user there.  So a write-back of a stale read can only lose.

**`Wallet`** (`WalletProofs`).  `DepositsCreditedOnce`: the invariant
`DepositInv` is about rows and about pairs of a user and a payment.  `RowsOK`: a
row that carries the payment of another one was crossed with it by a request.
`PairsOK`: a row that a credit made is of a paid payment, and if the payment is
the user's own and not Stripe's, the row of the payment was completed by then, or
the credit would have found it; so a pair that was credited twice has
two such rows only where an exception is named.  There is one lemma per action
that credits (`ReferenceStep`, `ReconcileStep`, `GatewayStep`); the others leave
these rows alone (`QuietRows`).  `WalletTypeCorrect` says that
no amount falls below zero, in any interleaving with answers of gateways.
`PendingIsRequested` is inductive with the types: a withdrawal adds its amount
to `pending_amount` and itself to the sum, and both ways to end it take the same
out.  `WalletMoneyExplained` needs it: only because `pending_amount` covers the
request does the end of a withdrawal take its whole amount, instead of what
`max(0, ...)` leaves.

**`CryptoDeposits`** (`CryptoDepositsProofs`).  `DepositsTypeCorrect`,
`MissedTransfersExplained`.  The invariant is about cursors, three kinds of
them.  `UpTo(c, known)` says that, on the list of the address that the transfer
`c` pays, everything that is not known stands before `c`; it says nothing of
another address, so it survives a replaced one.  It holds of the cursor in the
database (`CursorsUpTo`); of the cursor that a run has read, because other runs
only add to what is known; and of the cursor that a run will write, if its
deposits are added to what is known, which its commit does in the same
transaction (`ScanUpTo`).  From all of them, `UnknownBeforeCursor`
says that what is not known is before the cursor: one of another address is not
on the list, and then the whole list is before it.  The chains
themselves move: `Follows` says what a new transfer and a block leave of the
order of a listing, `ChainsDistinct` that it holds no transfer twice, and
`OnlyBitcoinWaits` that a list with a part in the mempool is Bitcoin's.  The types
depend on the invariant, because the new cursor has to be the hash of a row
(`OldestIs`).

**`Accounts`** (`AccountsProofs`).  `AccountsTypeCorrect`,
`OpenInvitationsLinked`, `AcceptedDealsKeepSeller`, `UsedAccountsNotDeleted`.
The invariant says what the handlers between read and commit know:
`RegistrationOK` (a registration under way has the links of every deal that it
will have to know), `DealOK` (a half-made deal that found no account is one that
crossed a registration) and `Unexcused` (an account that is not excused: whoever
has signed in to it is verified, one that somebody is about to delete is not, and
the invited party of an accepted deal has signed in and is linked to it).
`DeletedUnused` says what the two last have to do with each other, and
`DeletionOK` is about the deletions by a handler and by the clean-up, however old
their reading is.

**`Requests`** (`AccountsProofs`).  `LateRetriesReplayed`, for any number of
retries: `CacheRemembers` says where the entry is once a success was cached
(`Kept`), in Redis while that is up and otherwise in the memory of a process that
never had a client of Redis; `LateIsReplayed` that a retry sent later is over and
was replayed, or lost its answer on the way.  `ReplaysAreTrue` needs
`CacheIsTrue`: what the cache holds, and what is about to be cached or told, was
committed, which stays true when the process dies before it answers.
`RequestsTypeCorrect` adds the types, which need `OneRuns`: at most one of the
requests is inside the handler.

Every safety and action property that a passing run checks is a theorem.  Only
model-checked: the liveness property `WaitingRefundIsPaid`, which is out of the
prover's reach.  `FairSpec` implies `Spec`, so the theorems hold of the
specification that the run checks.

## 5. Where code and documentation disagree

Shown by a run, and listed under `findings` in `PROJECT.json`:

1. `enforce_funding_deadline`'s docstring promises that partial locks are
   refunded while funded milestones proceed.  A deal whose seller has already
   delivered one milestone is `in_progress`, which the enforcement skips: the
   partial lock stays in escrow (`escrow_partial_locks`).
2. The auto-release task "skips if milestone already completed", on what it
   read before another session committed (`sessions_release`).
3. `scan_crypto_deposits` is to poll the addresses "for new incoming
   transactions".  It stores a transfer's hash as the cursor, the Ethereum
   scanners read a block number there, and `scan_network` turns the exception
   into an empty result: after the first deposit nothing is found any more
   (`crypto_scan_stops`).

Seen while modelling, and reached by the models without a run of their own:

4. `models/wallet.py:48` says that the ledger records "both sides" of every
   movement.  After one PUT of a status an unfunded milestone can be approved;
   the ledger then debits an escrow balance that the code clamps at zero.
   `AvailableMatchesLedger` states the side that does hold.
5. "All tasks are idempotent and safe to retry" (tasks.py:3).  `process_refund`
   pays a refund again when its message is delivered again;
   `OnlyRedeliveryRepeats` bounds how often.
6. `expire_stale_invitations` cancels deals "where the invitee never accepted"
   from a list it read before its first commit.
7. `models/transaction.py` gives refunded or cancelled as the ends of a dispute;
   the administrator's resolution sets `completed` and moves no escrow.
8. `agents.py` promises the fee back when the deal is cancelled; declining a
   deal cancels it and leaves the fee held.
9. `process_agent_payout` marks a refunded fee as paid, as a "legacy row".
10. `create_refund` queues its task before it commits; a faster worker does not
    find the refund, which stays pending.
11. Two worker processes that credit one user overwrite each other's balance; so
    do two funding requests.
12. `_apply_verified_deposit` is to credit "idempotently" (wallet.py:63-65) and
    `verify_deposit_endpoint` is "safe to call multiple times with same
    reference" (wallet.py:357).  A reference is credited again through each
    other pending row of the user that a request names, through a row whose
    status changed while the gateway was asked, and for Stripe through its
    pending row; and it is credited to every other user who verifies it, because
    nobody asks whose payment it is.  `CreditedOnce` names the first three, and
    is stated per user because of the last.
13. `reverse_transfer` reverses "a transfer_out/transfer_in pair" (admin.py:806).
    Neither row has a reference, so any completed incoming half is taken, and
    its debit stops at zero.
14. A frozen wallet freezes "all wallet operations" (admin.py:737,
    models/user.py:42); transfers, conversions and the verification of a deposit
    do not look at it.
15. The spread makes the rate larger in both directions of a pair, so a
    conversion there and back gains.
16. Nothing sets `is_kyc_verified` but the seeding of the first administrator
    (main.py:65), and `withdraw` requires it.
17. The clean-up of expired accounts fails as a whole while one of them is the
    buyer or creator of a deal; verification is a no-op while the setting is
    off, and the windows go on.
18. `main.py:3-4` documents the rate limiter outside the idempotency cache.
    `add_middleware` (main.py:149-151) puts what is added last outermost, so it
    is the other way round, and `RetriesAreReplayed` holds because of that: with
    the documented order a retry of what was done can be refused by the limiter
    (`LimiterFirst`, with which the property fails).
19. Replacing the address of a network (crypto.py:232) keeps its cursor and drops
    the old address from the scans: a transfer to it that has no row gets one
    only by a report, or when the address is put back.
20. "Acknowledge after completion (prevents loss on crash)" (celery_app.py:19)
    holds of messages that a worker takes; five of the tasks go to a queue that
    none reads (see Fairness).
21. The rate limiter's "requests per window" counts seconds with requests: its
    members are `str(now)` in whole seconds.

## 6. Plan and what is left out

| next | question | theorem |
|---|---|---|
| `Sessions` | deliveries, the deadline and disputes in overlapping sessions | the same three with these handlers |
| `Vault` | - | `StatusEdits` up to the first edit implements it |
| `Escrow` | - | a deal that has ended stays as it is |

Not modelled, because the rows have no protocol between actors that a state
machine would say anything about: KYC documents, uploads, dashboards, contact,
notifications, profiles and agents' registration; reputation limits are a pure
function of one request; the chat's registry lives in one process and no other
component reads it; schema management runs once, before any request.  Password
reset and change, two-factor codes and the expiry of tokens concern one row of
one user each.  The gateways' HTTP calls and the choice of a gateway by country
are input and output; what they answer is a choice of the model.
