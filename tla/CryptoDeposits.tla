--------------------------- MODULE CryptoDeposits ---------------------------
(***************************************************************************)
(* Crypto deposits: the periodic task scan_crypto_deposits (tasks.py) asks *)
(* an explorer per network for transfers to the platform's address there   *)
(* (crypto_scanner.py) and records the new ones; users may report a hash   *)
(* themselves, and administrators replace, switch and delete the addresses *)
(* (routers/crypto.py).  What becomes of a recorded deposit, which no scan *)
(* looks at, is in module Wallet.                                          *)
(*                                                                         *)
(* An explorer lists transfers newest first and one page only.  The scan   *)
(* stops at its cursor, the hash it stored last, and leaves the cursor at  *)
(* the oldest new transfer.  All networks are committed together; tx_hash  *)
(* is unique, so overlapping scans and reports end in a rolled back scan.  *)
(* The cursor belongs to the row of a network and stays when its address   *)
(* is replaced.                                                            *)
(***************************************************************************)
EXTENDS Naturals, Sequences, SequencesExt

CONSTANTS
    Networks,
    Kind,        \* how the network is scanned
    Addresses,   \* addresses the platform may have its deposits paid to
    NetworkOf,
    Transfers,   \* transfers to these addresses, by hash
    PaidTo,
    TwoOutputs,  \* bitcoin transfers that pay the address in two outputs
    PageSize,    \* transfers on one page of an explorer
    Scans,       \* runs of the task that may overlap
    NoHash,
    MaxIncidents \* bound: explorer errors, dying scans, addresses taken away

ASSUME DepositsAssumption ==
    /\ IsFiniteSet(Transfers)
    /\ Kind \in [Networks -> {"bitcoin", "tron", "solana", "evm"}]
    /\ NetworkOf \in [Addresses -> Networks]
    /\ \A n \in Networks : \E a \in Addresses : NetworkOf[a] = n
    /\ PaidTo \in [Transfers -> Addresses]
    /\ \A t \in TwoOutputs : t \in Transfers /\ Kind[NetworkOf[PaidTo[t]]] = "bitcoin"
    /\ PageSize \in Nat \ {0}
    /\ NoHash \notin Transfers
    /\ MaxIncidents \in Nat

VARIABLES
    mempool,    \* unconfirmed transfers to an address, newest first
    blocks,     \* confirmed transfers to an address, newest first
    address,    \* CryptoDepositAddress: is_active, address, last_scanned_cursor
    recorded,   \* transfers with a row in CryptoPendingDeposit
    scan,       \* what every run of the task holds in memory
    incidents,  \* see MaxIncidents
    excused     \* history: transfers no scan could be expected to see

chainVars  == <<mempool, blocks>>
vars == <<chainVars, address, recorded, scan, incidents, excused>>

NotScanning == [step |-> "idle"]

\* at[n] is the address that was read, cursor[n] the cursor, and new_cursor
\* once the network is polled; found[n] are the deposits added to the session.
ScanState ==
    [step : {"open"}, at : [Networks -> Addresses],
     cursor : [Networks -> Transfers \cup {NoHash}],
     loaded : SUBSET Networks, todo : SUBSET Networks, found : [Networks -> SUBSET Transfers],
     doomed : BOOLEAN]

\* The row of a network: one that is switched off and has no cursor stands for
\* none as well.
Rows(hashes) == [active : BOOLEAN, at : Addresses, cursor : hashes \cup {NoHash}]

\* The cursor of an address is the hash of a deposit's row.
TypeOK ==
    /\ mempool \in [Addresses -> Seq(Transfers)]
    /\ blocks \in [Addresses -> Seq(Transfers)]
    /\ address \in [Networks -> Rows(recorded)]
    /\ recorded \subseteq Transfers
    /\ scan \in [Scans -> ScanState \cup {NotScanning}]
    /\ incidents \in 0 .. MaxIncidents
    /\ excused \subseteq Transfers
    /\ \A n \in Networks : NetworkOf[address[n].at] = n

Init ==
    /\ mempool = [a \in Addresses |-> <<>>]
    /\ blocks = [a \in Addresses |-> <<>>]
    /\ address \in [Networks -> Rows({})]
    /\ \A n \in Networks : ~address[n].active /\ NetworkOf[address[n].at] = n
    /\ recorded = {}
    /\ scan = [s \in Scans |-> NotScanning]
    /\ incidents = 0
    /\ excused = {}

Incident ==
    /\ incidents < MaxIncidents
    /\ incidents' = incidents + 1

-----------------------------------------------------------------------------
(* The chains, as explorers show them *)

\* What an explorer would list, newest first, if its pages had no end.
Listing(a) == mempool[a] \o blocks[a]
OnChain(a) == ToSet(Listing(a))

\* The part of a list before its first occurrence of c, or all of it.
Before(list, c) ==
    IF c \in ToSet(list)
    THEN SubSeq(list, 1, (CHOOSE i \in DOMAIN list : list[i] = c) - 1)
    ELSE list

\* Somebody pays.  Bitcoin shows the transfer before it is in a block.
Broadcast(t) ==
    LET a == PaidTo[t] IN
    /\ t \notin OnChain(a)
    /\ IF Kind[NetworkOf[a]] = "bitcoin"
       THEN mempool' = [mempool EXCEPT ![a] = <<t>> \o @] /\ UNCHANGED blocks
       ELSE blocks' = [blocks EXCEPT ![a] = <<t>> \o @] /\ UNCHANGED mempool
    /\ UNCHANGED <<address, recorded, scan, incidents, excused>>

\* t was seen first by the explorer after u and both are unconfirmed.
NewerThan(t, u) ==
    LET m == mempool[PaidTo[t]] IN
    \E i, j \in DOMAIN m : i < j /\ m[i] = t /\ m[j] = u

\* A block takes any of the waiting transfers.  One that overtakes an older
\* one ends up behind it in the listing.
Mine(t) ==
    LET a == PaidTo[t] IN
    /\ \E i \in DOMAIN mempool[a] :
         /\ mempool[a][i] = t
         /\ mempool' = [mempool EXCEPT ![a] = RemoveAt(@, i)]
    /\ blocks' = [blocks EXCEPT ![a] = <<t>> \o @]
    /\ excused' = IF \E u \in Transfers : NewerThan(t, u)
                  THEN excused \cup {t} ELSE excused
    /\ UNCHANGED <<address, recorded, scan, incidents>>

-----------------------------------------------------------------------------
(* scan_crypto_deposits *)

ActiveNetworks == {n \in Networks : address[n].active}

\* The addresses are read once, with their cursors.
StartScan(s) ==
    /\ scan[s] = NotScanning
    /\ ActiveNetworks # {}
    /\ scan' = [scan EXCEPT ![s] =
                  [step |-> "open",
                   at |-> [n \in Networks |-> address[n].at],
                   cursor |-> [n \in Networks |-> address[n].cursor],
                   loaded |-> ActiveNetworks, todo |-> ActiveNetworks,
                   found |-> [n \in Networks |-> {}],
                   doomed |-> FALSE]]
    /\ UNCHANGED <<chainVars, address, recorded, incidents, excused>>

FirstPage(list) ==
    SubSeq(list, 1, IF Len(list) > PageSize THEN PageSize ELSE Len(list))

\* scan_bitcoin: of the first page, what is newer than the cursor.
BitcoinPage(a, c) == Before(FirstPage(Listing(a)), c)

\* scan_trc20_usdt
TronPage(a, c) == Before(FirstPage(Listing(a)), c)

\* scan_solana: the explorer itself leaves out what is older than the cursor,
\* for a cursor of another address perhaps what is older than that in time.
SolanaPages(a, c) ==
    IF c \in OnChain(a) \cup {NoHash} THEN {FirstPage(Before(Listing(a), c))}
    ELSE {SubSeq(FirstPage(Listing(a)), 1, i) : i \in 0 .. Len(FirstPage(Listing(a)))}

\* scan_erc20_usdt and scan_bep20_usdt take the cursor for the number of a
\* block; a hash is none, int() raises, and scan_network returns nothing.
EvmPage(a, c) == IF c = NoHash THEN FirstPage(Listing(a)) ELSE <<>>

\* scan_network: the answers an explorer may give.
Pages(a, c) ==
    CASE Kind[NetworkOf[a]] = "bitcoin" -> {BitcoinPage(a, c)}
      [] Kind[NetworkOf[a]] = "tron" -> {TronPage(a, c)}
      [] Kind[NetworkOf[a]] = "solana" -> SolanaPages(a, c)
      [] Kind[NetworkOf[a]] = "evm" -> {EvmPage(a, c)}

\* The last transfer of a page, newest first, that is in new.
OldestOf(page, new) ==
    page[CHOOSE i \in DOMAIN page :
           page[i] \in new /\ \A j \in DOMAIN page : page[j] \in new => j <= i]

\* What the session adds for network n when it receives the transfers seen:
\* those without a committed row.  Each of them becomes the new cursor in
\* turn; without one the cursor is not needed any more.
Record(s, n, page, seen) ==
    LET new == seen \ recorded IN
    scan' = [scan EXCEPT ![s].todo = @ \ {n},
                         ![s].cursor[n] = IF new = {} THEN NoHash ELSE OldestOf(page, new),
                         ![s].found[n] = new]

\* Transfers newer than the cursor that did not come with this answer.
Unseen(s, n, seen) == ToSet(Before(Listing(scan[s].at[n]), scan[s].cursor[n])) \ seen

\* One network is polled, with the address and the cursor that were read.  On
\* Solana every transfer is a request of its own; one that fails is skipped.
ScanNetwork(s, n) ==
    /\ scan[s].step = "open"
    /\ n \in scan[s].todo
    /\ \E page \in Pages(scan[s].at[n], scan[s].cursor[n]) :
       \E failing \in SUBSET ToSet(page) :
         LET seen == ToSet(page) \ failing IN
         /\ failing # {} => Kind[n] = "solana" /\ incidents < MaxIncidents
         /\ incidents' = IF failing = {} THEN incidents ELSE incidents + 1
         /\ Record(s, n, page, seen)
         /\ excused' = excused \cup Unseen(s, n, seen)
    /\ UNCHANGED <<chainVars, address, recorded>>

\* The explorer does not answer: no transfers, and no error either.
ExplorerDown(s, n) ==
    /\ scan[s].step = "open"
    /\ n \in scan[s].todo
    /\ Incident
    /\ Record(s, n, <<>>, {})
    /\ UNCHANGED <<chainVars, address, recorded, excused>>

FoundBy(s) == UNION {scan[s].found[n] : n \in Networks}

\* The database refuses the session: a hash is there twice, in the table or
\* in the session (no autoflush, so both outputs of a transfer are added), or
\* an address it stamps was deleted.
Refused(s) ==
    \/ \E t \in FoundBy(s) : t \in recorded \cup TwoOutputs
    \/ scan[s].doomed

\* Fault: the cursor goes to the head of the listing, recorded or not.
CursorAtHead(s, n) ==
    LET list == Listing(scan[s].at[n]) IN
    IF list = <<>> THEN address[n].cursor ELSE Head(list)

\* The column is written only when a new transfer changed the cursor.
CursorAfter(s, n) ==
    IF scan[s].found[n] = {} THEN address[n].cursor ELSE scan[s].cursor[n]

CommitScan(s) ==
    /\ scan[s].step = "open"
    /\ scan[s].todo = {}
    /\ ~Refused(s)
    /\ recorded' = recorded \cup FoundBy(s)
    /\ address' = [n \in Networks |-> [address[n] EXCEPT !.cursor = CursorAfter(s, n)]]
    /\ scan' = [scan EXCEPT ![s] = NotScanning]
    /\ UNCHANGED <<chainVars, incidents, excused>>

\* Everything the session found is rolled back; the retry, or the next run,
\* starts over.
RollBackScan(s) ==
    /\ scan[s].step = "open"
    /\ scan[s].todo = {}
    /\ Refused(s)
    /\ scan' = [scan EXCEPT ![s] = NotScanning]
    /\ UNCHANGED <<chainVars, address, recorded, incidents, excused>>

\* The worker dies in the middle of a run.
ScanDies(s) ==
    /\ scan[s].step = "open"
    /\ Incident
    /\ scan' = [scan EXCEPT ![s] = NotScanning]
    /\ UNCHANGED <<chainVars, address, recorded, excused>>

-----------------------------------------------------------------------------
(* Requests of users and administrators *)

\* notify_deposit: a user reports a hash that has no row, seen on a chain or
\* not.
NotifyDeposit(t) ==
    /\ t \notin recorded
    /\ recorded' = recorded \cup {t}
    /\ UNCHANGED <<chainVars, address, scan, incidents, excused>>

\* admin_set_deposit_address adds a row, or overwrites its address and its
\* switch.  The cursor stays, and so do the runs that have read the row.
SetAddress(n, a, active) ==
    /\ NetworkOf[a] = n
    /\ IF address[n].active THEN Incident ELSE UNCHANGED incidents
    /\ address' = [address EXCEPT ![n].active = active, ![n].at = a]
    /\ UNCHANGED <<chainVars, recorded, scan, excused>>

\* admin_delete_deposit_address: the cursor goes with the row, and a run that
\* has read the row cannot stamp it any more.
DeleteAddress(n) ==
    /\ Incident
    /\ address' = [address EXCEPT ![n].active = FALSE, ![n].cursor = NoHash]
    /\ scan' = [s \in Scans |-> IF scan[s].step = "open" /\ n \in scan[s].loaded
                                THEN [scan[s] EXCEPT !.doomed = TRUE] ELSE scan[s]]
    /\ UNCHANGED <<chainVars, recorded, excused>>

-----------------------------------------------------------------------------
Poll(s) == \E n \in Networks : ScanNetwork(s, n)
Finish(s) == CommitScan(s) \/ RollBackScan(s)

ScanStep == \E s \in Scans :
    \/ StartScan(s)
    \/ Poll(s)
    \/ Finish(s)
    \/ ScanDies(s)
    \/ \E n \in Networks : ExplorerDown(s, n)

AdminStep == \E n \in Networks :
    \/ \E a \in Addresses : \E active \in BOOLEAN : SetAddress(n, a, active)
    \/ DeleteAddress(n)

Next ==
    \/ \E t \in Transfers : Broadcast(t) \/ Mine(t) \/ NotifyDeposit(t)
    \/ ScanStep
    \/ AdminStep

Spec == Init /\ [][Next]_vars

-----------------------------------------------------------------------------
(* Properties *)

\* A transfer on a chain that has no row is before the cursor, where the next
\* scan of its address looks.  If it is not, it was left out of an answer that
\* some scan got: beyond the page, skipped by a failing request, or cut off by
\* a cursor of another address; or it has overtaken an older transfer; or the
\* address it pays has been replaced, which nobody polls until it is put back.
\* Overlapping, rolled back and dead scans, outages, reports of users and the
\* cursors that replaced addresses leave behind lose nothing more.  (On the
\* Ethereum networks a cursor stops every further scan.)
MissedIsExplained ==
    \A t \in Transfers :
      LET a == PaidTo[t]
          row == address[NetworkOf[a]] IN
      (Kind[NetworkOf[a]] # "evm" /\ t \in OnChain(a) \ recorded)
        => \/ row.at = a /\ t \in ToSet(Before(Listing(a), row.cursor))
           \/ t \in excused
           \/ row.at # a

(* What a docstring of the source says *)

\* tasks.py:488: the task polls each configured deposit address for new
\* incoming transactions, and saves those it detects.  So a poll that the
\* explorer answers adds every transfer that its one page can show.
EveryTransferDetected ==
    [][\A s \in Scans : \A n \in Networks :
         ScanNetwork(s, n) /\ Len(Listing(scan[s].at[n])) <= PageSize
           => OnChain(scan[s].at[n]) \ recorded \subseteq scan'[s].found[n]]_vars
=============================================================================
