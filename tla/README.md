# A verification model of NFTopia

NFTopia is an NFT marketplace on Stellar: four Soroban contracts
(`nftopia-stellar/contracts`), a NestJS backend (`nftopia-backend`) and three
user interfaces. This project models, in TLA+, the two places where its own
logic is hard to test:

- `marketplace_settlement`, the contract that holds other people's property:
  what its entrypoints do to NFTs, payment tokens, fees, escrows, auctions and
  disputes in any order;
- three protocols of the backend whose steps interleave at every `await`: a
  purchase, from claiming the listing to the last retry; signing in with a
  wallet and keeping the session; and the event indexer.

TLC checks the properties on small instances; TLAPS proves all but the liveness
properties for every instance. Paths are relative to
`src/nftopia-stellar/contracts/marketplace_settlement/src/` (`*.rs`) or
`src/nftopia-backend/src/` (`*.ts`), unless they start with another directory.

## 1. Inventory

| Component | State it keeps | Operations | Hard behaviour |
|---|---|---|---|
| Ledger, NFT contract, payment token (`utils/asset_utils.rs`, `utils/time_utils.rs`) | time, sequence, owners, balances | transfers, ledger close | two clocks that drift; NFTs that change hands outside |
| Pause (`pause_manager.rs`) | pause, scheduled pause | pause, unpause, schedule, cancel, execute | a scheduled pause races the immediate one |
| Blocklist, allowlists, rate limiter (`storage/`, `security/rate_limiter.rs`) | records, windows per caller and function | block, update, unblock, (dis)allow, limits | blocks purged by being read; bursts at window edges |
| Fees and royalties (`fee_manager.rs`, `royalty_distributor.rs`, `utils/math_utils.rs`) | configuration, booked fees, volumes | quote, collect, withdraw, reconfigure | quotes outlive the configuration; one balance shared with bids |
| Sales and atomic swaps (`settlement_core.rs`, `atomic_swap.rs`) | sale, swap with two holdings, timeout configuration | create, execute, cancel, expire, cleanup, reclaim, emergency withdrawal | five refund paths over one escrow; sale and swap records written by different paths |
| Auctions (`auction_engine.rs`, `storage/auction_store.rs`, `security/frontrun_protection.rs`) | auction, bid history, Dutch price | create, bid, end, abort, ask the Dutch price, withdraw | push refunds inside another's bid, refund flag looked up by bidder, late bids |
| Disputes (`dispute_resolution.rs`) | dispute, arbitrators, oracles, admins, configuration | initiate, vote, force, oracle, timeout, execute | four ways to decide race each other and the sale, which a dispute does not freeze |
| Listings (`modules/listing/listing.service.ts`) | rows with a status and a reservation | claim, release, mark sold, cancel, sweep stale reservations, expire | the jobs read and write in separate statements, with requests between |
| Transactions and their retry queue (`modules/transaction/`) | the contract's state, the row, the retry record, the Bull job | create, execute, cancel, recover, read; submit, count, give up, replay | four stores kept in step by the order of the writes alone; rows saved whole from old reads; answers lost after the contract has acted |
| Wallet sign-in and sessions (`auth/auth.service.ts`, `auth/wallet-nonce.store.ts`) | a challenge per wallet in Redis; users, wallet links, token families, tokens | issue and verify a challenge, find or create the account, refresh | a token presented twice at once; a lost answer; a challenge replaced while it is verified; two first sign-ins |
| Event indexer (`jobs/contract-event-indexer.job.ts`) | cursor, table of events | load, fetch, persist, advance | activations that overlap; events and cursor saved in two transactions; an error caught inside a transaction |
| Trades and bundles (`settlement_core.rs`) | records with states | create, accept, execute | not modelled |
| NFT contract, collection factory | tokens, approvals, collections | mint, transfer, burn | not modelled |
| Offers, bids and auctions of the database; e-mail login, second factor, lockouts; dead letter worker | rows, counters | offer, accept, bid, settle, lock | not modelled (section 5) |

In the contract the components meet in three places: the NFTs and the single
payment balance, which sales, auctions, disputes and fees share; the access
policy, which every entrypoint consults first; and ids: a dispute knows its
transaction by a number that sales and auctions count separately. In the
backend they meet in the database: a purchase crosses listing, transaction,
retry record and contract, each of them also written by somebody else.

What makes each correct, in words. Contract: every NFT it holds is claimed by
exactly one open record and leaves it once; the balance is exactly booked fees
plus standing bids; outcomes are final; nobody but the parties and the admin
takes an escrow before it has expired; every escrow comes out again; losing
bidders are made whole; disputes are decided once, by a quorum unless the
admins, an oracle or the timeout decide; limits and timelocks hold under
reconfiguration. Purchases: the record is never ahead of the contract, a listing
is sold only against an executed transaction, a reservation ends. Sessions: one
session for a challenge, one chain of tokens for a session, one account for a
wallet, and a session ends only because a spent token was shown again. Indexer:
the cursor never passes an event that nobody accounts for. `PROJECT.json` lists
the hazards line by line.

## 2. Modules

```
MarketLedger           time, owners, balances, transfers
  AccessPolicy         pause, blocklist, allowlists, rate limits
    FeeManager         quotes, booked fees, volumes
      SaleEscrow       sales and swaps      -> SaleMarket      (MCSaleMarket)
      AuctionHouse     auctions, bids       -> AuctionMarket   (MCAuctionMarket)
        DisputeResolution (both)            -> Settlement      (MCSettlement)
EscrowPromise          what is promised of NFTs and money (abstract);
                       implemented by Settlement
ListingClaims          listings, sweeper, expiry job
RetryQueue             contract, record, retry record, job, worker
  PurchaseFlow (both)  requests, crashes                       (MCPurchase)
Sessions               what is promised of sessions (abstract)
TokenRotation          token families, refreshing
  SignIn               challenges, accounts; implements Sessions (MCSignIn)
EventIndexer           cursor, activations, table of events    (MCIndexer)
FeeManager_proofs, AuctionHouse_proofs      lemmas
SaleMarket_proofs, AuctionMarket_proofs, Settlement_proofs,
PurchaseFlow_proofs, SignIn_proofs, EventIndexer_proofs
                                            theorems and their lemmas
```

Each module holds state and one action per operation; those that compose others
(`SaleMarket`, `AuctionMarket`, `Settlement`, `PurchaseFlow`, `SignIn`) state the
properties. `Settlement` is the whole contract. The `MC*` modules only give
values to constants.

**Atomicity in the contract.** A Soroban invocation either succeeds or leaves no
trace, so each action is one successful invocation, from its checks to its last
store, and every error return is a conjunct that disables it. A transfer that the
token contract would refuse is one of those conjuncts. This is also why the
reentrancy guard has no counterpart.

**Atomicity in the backend.** There every `await` ends a step: `request[r].step`
(`job[j].step` in the indexer, `job[k]` for a worker's job, `cron` for the expiry
job) is the place between two awaits, and the rest of the record is what the code
holds in variables there. A single SQL statement, a Redis script and a statement
under a row lock is one step. Every database or network call may fail, and a
call to the contract may succeed and its answer be lost.

**Correspondence.** `PROJECT.json` ("map") gives the lines of every definition.
The main ones:

- `SaleEscrow`: `sale[i]` is `SALE_TRANSACTIONS`, `swap[i]` is `ATOMIC_SWAPS`;
  `create_sale` is the only caller of `initialize_swap`, so one id serves both.
  `RefundHoldings`/`FailSwaps` are `refund_holdings` and the state change that
  follows it; `Live(h)` is "deposited and `released_at` not set".
- `AuctionHouse`: `bids[i]` is the history in storage; `Refundable` and
  `Refunded` are `mark_bid_refunded`, which stops at the first bid of a bidder.
  `Suspicious` is the front-running detector, three patterns that each reject
  the bid. `CanWithdrawLosingBid` is the condition of `withdraw_losing_bid`; a
  property says it never holds, so it is no action.
- `DisputeResolution`: the shuffle that draws arbitrators is a choice among all
  sets of the right size; oracle signatures are taken as valid.
- `FeeManager`: the key under which royalties are stored is empty, so all NFTs
  share one record, and no entrypoint writes it: `Royalty` is a constant.
- `Settlement`: `Promise` maps the contract to `EscrowPromise`. The claim on a
  token is read off the sale whose swap holds it or the open auction that offers
  it (`ClaimOn`); what is due to a seller is the share frozen in the swap, if
  positive, and of an auction nothing is promised but that the proceeds do not
  exceed the bid.
- `ListingClaims`: `by`, `at` and `expires` are `reservedBy`, `reservedAt` and
  `expiresAt`. The claim locks the row and is one step; so is each conditional
  update. The two jobs select in one step and write in later ones.
- `RetryQueue`: `chain` is the transaction contract as the backend sees it
  (`transaction_core.rs`), `tx` the row, `retry` the `transaction_retries` row,
  `job` the Bull job of the same id. Bull drops a job added under an id it still
  knows (`Readded`), cannot remove one that is being worked on (`Removed`), and
  runs the jobs of a dead worker again (`StalledJobsRequeued`).
- `PurchaseFlow`: `request[r].seen` is the row the code has read and saves whole
  (`Saved`); `Sync` is `syncContractState`, which saves too. `Leave` is where the
  callers differ: `buyListing` catches the error and reads again, the others
  answer.
- `TokenRotation`: locks are no variable; who holds one follows from the steps of
  the requests (`TokenLocked`, `FamilyLockedBy`), and lasts to the commit.
- `SignIn`: `challenge[w]` is the Redis record of a wallet, of which there is one
  at a time; `Consume` is the compare-and-delete script. `Promise` maps the
  tables to `Sessions`: a session is a family, its live and spent tokens the
  unused and used rows, and the redeemed challenges those whose request has
  begun a family.
- `EventIndexer`: `cursor` is the row in `system_settings`, 0 when missing; `lost`
  and `job[j].missed` are history, the events the cursor is moved past although
  nobody stored them, in the two ways of section 3.

**Abstractions.** Amounts are small integers and rounding is modelled exactly
(`Percentage` rounds half up); `i128` overflow is an error return in the code
and out of range here. One NFT contract and one payment token stand for the
allowlisted ones. Durations are in units; what the checks need is their order.
Transactions, retry records and jobs are named by their position; token, family
and account by the request that made them, since a request makes at most one of
each. A token may expire at any moment after it was issued, and a challenge
likewise: no property depends on how long either lives. Wallet signatures and
tokens presented are valid, accounts have no second factor. The RPC server
answers a request with its first page (`getEvents` is called without a limit and
the answer's paging cursor is not read), takes no request without a ledger to
start at, and returns no index of an event within its transaction, so that all
have index 0.

## 3. Runs

All runs use two workers and finish within three minutes. Deadlock is checked in
`indexer`, whose minute job always comes back. Elsewhere it is off: a bounded
clock stops, a contract nobody calls stops, and a bounded number of requests is
answered some day.

| Run | Question | Bounds and why they suffice |
|---|---|---|
| `sale_escrow` | Custody, terminal states, books, finality, late refunds of the sale escrow | 2 sales over 2 tokens, one of which also changes hands outside: the same token can be listed, refunded, sold on and listed again; 2 fee and 2 timeout configurations; ledger closes of 1 or 3 seconds so that the sequence lags the time and the reverse; cleanup of 1 |
| `sale_access` | Does an NFT reach the right party, does a scheduled pause keep its word | 1 sale, pauses of the sale and of another module, delays below, at and above the minimum, blocks that lapse at 3 or never |
| `sale_limits` | Rate bound; every escrow comes out | 4 sales of one seller, limit 2, windows 2 and 3: two bursts fit at a window's edge; liveness under `FairSpec` |
| `auction_money` | Custody, solvency, atomic closing | 2 English auctions over 2 tokens, 2 users, changing fees and withdrawals |
| `auction_bids` | Bidders made whole, nothing to withdraw twice, time to answer, who may move an auction, Dutch price, settlement | 1 Dutch auction (which accepts bids like an English one), 3 users, 4 amounts, two extensions, a pause, a fee floor above the price |
| `settlement_shared` | Do a sale, an auction and a dispute with the same id keep apart; does the contract keep the promise of `EscrowPromise` | 1 of each over 2 tokens, bids of one amount by 2 users; sold, refunded and disputed tokens are offered again |
| `settlement_votes` | Who decides a dispute, once, and does it end | 1 sale, 2 arbitrators, quorum 1 and 2, an oracle, an admin, a pause |
| `purchase` | Record behind the contract, paid sales, reservations end | 1 listing, 1 buyer, 2 requests of any kind over it, 2 transactions, 1 retry record with 1 retry, 1 crash, 2 units of time: two writers of every row beside worker and expiry job, a sweep between claim and outcome, and a second purchase of the swept listing |
| `sign_in` | Do the tables keep the promise of `Sessions`; what ends a session; accounts; requests end | 1 wallet, 2 challenges, 4 requests: two sign-ins and two refreshes of one token, or one sign-in and three refreshes (reuse by two at once, or reuse of the grandparent) |
| `indexer` | Is an event ever skipped, is every event recorded | 2 activations, 3 ledgers, 3 events, pages of 2: a full page, an activation that starts behind and finishes ahead of another, a cursor moved back |

Two runs end in a violation, each of what the repository itself says:

- `auction_abort`: `auction_engine.rs:515` presents `cancel_auction_with_refund`
  as the abort path when bids exist. If A bids, B outbids and A outbids again,
  A's first bid is already marked and `mark_bid_refunded`
  (`storage/auction_store.rs:153`) rejects the second: the seller cannot abort
  and nobody can outbid A until the auction ends.
- `purchase_once`: `modules/listing/listing.service.ts:431` says that a listing
  yields exactly one success and never a duplicate settlement. A reservation is
  released when its time to live is over (line 684) although its purchase may
  still be executing or wait in the retry queue; the second buyer's transaction is
  executed as well, since the contract knows transactions and not listings.

### What the checks say about the code

Everything else that was stated holds on the instances. Some properties are
worth reading for what they had to concede.

The contract:

- `RateBound` is `2 * limit - 1`, not `limit`: the window is fixed and restarts
  at the first call after it has ended.
- `BiddersMadeWhole` is an equality for those who only bid. A seller, the royalty
  creator and the recipient of fees have other income, and of them it says that
  they are never short.
- `AuctionSettles` has two ways out besides settlement: a pause, and a fee floor
  above what the royalty leaves of the price, in which case `end_auction` fails
  until the admin changes the fees. Auctions have no backstop like
  `reclaim_expired_escrow`.
- `DisputeUnwinds` says that a settled dispute always returns the NFT to its
  depositor. A payment never rests in escrow (`execute_sale` pays and delivers
  in one invocation and never marks the payment holding deposited), so
  `ReleaseToSeller` and `SplitFunds` have nothing to distribute
  (`atomic_swap.rs:645`).
- `EndingsAgree` is one-sided on refunds: after expiry, reclaim or
  emergency withdrawal the swap is Failed and the sale record stays Pending.
- `LateRefund` holds also when the admin shortens grace and tolerance while
  swaps are open, because expiry needs both clocks past frozen deadlines.

The backend:

- `RecordNotAhead` is one-sided as well: the record often stays behind. A
  request that saves the row it read puts an executed transaction back to
  pending, and a read is enough for that (`transaction.service.ts:884`). A retry
  added again under the id of the job being worked on is dropped by Bull, so a
  retry that failed once stays pending without a job. A retry that succeeds
  completes the transaction but settles nothing and replaces its metadata.
- `SoldIsPaid` allows any executed transaction of the listing, not only that of
  the last one to reserve it: `purchase_once` is why.
- `SessionsKept` lets a session end without misuse. When the answer to a refresh
  is lost, the client's retry presents a spent token and ends the session;
  `EndedByReuse` states that nothing less does. `Discard` deletes a challenge by
  its wallet, so that one issued since the expired one was read disappears with
  it.
- `NothingSkipped` exempts what the indexer gives up without noticing. It logs
  `Failed to persist ... Cursor NOT advanced.`
  (`jobs/contract-event-indexer.job.ts:51`), but a refused insert does not get
  there: the error is caught within the database transaction, which it has
  aborted; the dead letter written next fails too, the commit rolls everything
  back without an error, and the cursor moves on. Events beyond a full page are
  passed in the same way. The later events of a transaction are taken for
  duplicates of the first (`Recorded`).

More disagreements between text and code were met while translating:

- `fee_manager.rs:262` calls `USER_VOLUMES` the user's trading volume;
  `collect_platform_fee` adds the fee, not the price (line 93), so that volume
  tiers written in traded value are reached late or never.
- `settlement_core.rs:914` says a transaction id is shared by every transaction
  kind; sales and auctions count separately, and a dispute of sale 1 is recorded
  against auction 1. `OneClaim` shows that nothing is paid out by it.
- `marketplace_settlement/README.md:196` says the grace period keeps a
  transaction submitted in time from being falsely expired; grace delays the
  refund (`LateRefund`), but `execute_sale` rejects the buyer at `expires_at`
  without it (`settlement_core.rs:492`).
- `security/frontrun_protection.rs:215` says the increment heuristic only reports
  a repeated pattern; one match rejects the bid (line 228 and
  `analyze_bidding_pattern`).
- `pause_manager.rs:111`: pausing a second module replaces the list, which
  reopens the first.

### Fairness

Each `FairSpec` assumes no more than its liveness property needs.

- Sales, auctions, disputes: ledgers keep closing (until the bound), and somebody
  calls the one permissionless entrypoint the property is about, when it would
  succeed: `reclaim_expired_escrow` for `EscrowReturned`, `end_auction` for
  `AuctionSettles`, `resolve_dispute_timeout` for `DisputeEnds`. Each caller
  exists whose property is at stake. Nothing is assumed of sellers, buyers,
  arbitrators or the admin, who may pause for ever. Weak fairness is enough
  because each call stays possible once time has passed.
- `PurchaseFlow`: time passes and the expiry job, which cron starts every minute,
  keeps taking steps. Nothing is assumed of requests and workers: they may stop
  for ever at any await. (`Buy` needs room on the clock for the reservation to
  become stale, or the bound of the clock would strand it.)
- `SignIn`: while some request can carry out its next statement, some request
  does. That is less than fairness for each, and enough because requests are
  finitely many and none can repeat itself; a cycle of locks would leave none
  that can proceed.
- `EventIndexer`: the job is started again and again, which is weak fairness of
  `LoadCursor`; server and database may fail any number of times but not for
  ever, which is strong fairness of `Fetch`, `Persist`, `AdvanceCursor` and
  `SaveCursor`, since a failed activation disables them until the next one.

## 4. Proofs

The theorems hold for every value of the constants that satisfies the ASSUMEs
of the modules: any sets of users, tokens, listings and wallets, any number of
sales, requests, retries, crashes, ledgers and events, any configuration of the
right type.

| Module | Theorem | States |
|---|---|---|
| `FeeManager_proofs`, `AuctionHouse_proofs` | | lemmas on fees, sums and the auction house |
| `SaleMarket_proofs` | `IndInvariant`, `TimeInvariant` | the inductive invariants `IndInv` and `TimeInv` |
| | `TypeCorrect` | `TypeOK`: no balance and no booked fee becomes negative |
| | `CustodyHolds`, `RecordsAgree`, `BooksBalance` | `Custody`, `EndingsAgree`, `BalanceIsFees` |
| | `OutcomesAreFinal`, `ScheduledPausesKeepTheirWord`, `RightPartyReceives`, `RefundsAreLate` | the action properties `Finality`, `PauseTimelock`, `ReleasedToTheRightParty`, `LateRefund` |
| | `MoneyIsConserved` | `MoneyConserved`, for a finite set of users |
| | `BurstsAreBounded` | `RateBound`, if `create_sale` is rate limited, limits are bounded (they are `u32`), and some limit is positive or every window is |
| `AuctionMarket_proofs` | `AuctionTypes`, `AuctionCustody`, `BidsAreEscrowed` | `TypeOK`, `Custody`, `EscrowedBids` |
| | `BiddersAreMadeWhole`, `PullFindsNothing`, `TimeToAnswerHolds` | `BiddersMadeWhole`, `NothingLeftToWithdraw`, `TimeToAnswer` |
| | `BidsMoveAuctions`, `AuctionsCloseAtomically`, `DutchPricesFall` | the action properties `OnlyBidsMoveAnAuction`, `ClosesAtomically`, `DutchPriceFalls` |
| `Settlement_proofs` | `IndInvariant` | the inductive invariant `IndInv` of the whole contract |
| | `SettlementTypes`, `OneClaimHolds`, `ContractIsSolvent` | `TypeOK`, `OneClaim`, `Solvent` |
| | `QuorumsDecide`, `DisputesAreDecidedOnce`, `DisputesUnwind` | `QuorumDecides` and the action properties `DecidedOnce`, `DisputeUnwinds` |
| | `ContractKeepsItsPromise` | `PromiseKept`: every behaviour of `Settlement` is one of `EscrowPromise` |
| `PurchaseFlow_proofs` | `PurchaseTypes`, `RecordsFollow`, `SoldListingsArePaid` | `TypeOK`, `RecordNotAhead`, `SoldIsPaid` |
| `SignIn_proofs` | `SessionsAreKept` | `SessionsKept`: every behaviour of `SignIn` is one of `Sessions` |
| | `SignInTypes`, `FamiliesEndByReuse`, `WalletsKeepTheirAccount` | `TypeOK`, `EndedByReuse`, `OneAccountPerWallet` |
| `EventIndexer_proofs` | `IndexerInvariant`, `EventsAreNotSkipped` | the inductive invariant `IndInv`, `NothingSkipped` |

**Sales.** The properties are not inductive: a refund pays what the swap's
record says, so the record must be tied to the sale and to the custody of the
token. `IndInv` adds `SwapsFrozen`: a swap names its sale's token and seller, its
NFT holding is deposited and its payment holding never is, and royalty, share and
fee add up to the price. From the payment clause `NothingOwed` follows, so every
refund moves NFTs alone; `RefundStep` then treats cancel, expire, cleanup,
reclaim and emergency withdrawal together, as one refund of a set of swaps.
`CreateSaleStep` rests on the seller owning the token (so no swap claims it),
`ExecuteSaleStep` on the split adding up (so what stays in the contract is the
fee that is booked), and the ledger, access and fee steps on `SalesUntouched`.
`FeeManager_proofs` holds what is independent of sales: `FeeFor` is an integer
for every tier list, payments leave naturals, the types of the three lower
modules, and sums.

Properties of time need a second invariant beside it, `TimeInv`: sale and swap
carry the same deadline (the sale path reads one copy, the refund paths the
other), the backstop of a swap is not before its deadline, a scheduled pause was
announced at least the minimum delay ahead, and the timeout configuration
satisfies `validate_timeout_config`, which is what keeps a new sale's backstop
behind its deadline whatever the admin configures.

**Sums.** Money is a sum over a set of accounts or auctions, folded over the set
in an order only CHOOSE knows, and the provers cannot do the induction that
computes it. `FeeManager_proofs` argues by a smallest counterexample instead
(`MinimalSubset`): were a fold undefined on some finite set, or two folds
different on it (`PartialSums`), or a sum not what its terms less one give, there
would be a smallest such set, and taking one element out of it refutes that.
`MoneyIsConserved` applies these lemmas to the balances.

**Rate limit.** The window a call is counted in may have started under another
configuration, and is reset only by the next call. For the largest limit `L` and
the smallest window `W`, `RateInv` relates it to the sales on record: since a
moment after the window's start there are fewer than it has counted, since one
less than `W` before it at most `L - 1` more than it has counted, because the
first call of the window before is at least that far back. A stretch of length
`W` meets at most these two windows and misses that first call, hence
`2 * L - 1`.

**Auctions.** An auction returns a standing bid only if the history marks it
refunded (`mark_bid_refunded` marks the first bid of a bidder), pays a winner only
out of money that is still there, and hands out a token only if it is still the
contract's. So history, custody and money are one invariant, `HouseInv(held)`:
everyone but the standing bidder has been paid back (`PaidBack`: the first bid,
whose mark speaks for all), each open auction alone holds its token, and the
balance is fees plus standing bids. `held` is the set of tokens the contract holds
for other reasons: none for `AuctionMarket`, the sales' escrow for `Settlement`.
`MadeWhole` adds a sum per user, of the bids that stand or have won, and a bid is
the step that moves two of these sums at once, the bidder's and that of the user
it outbids, who may be the same.

**Settlement.** `HouseInv` is taken over with `held` the tokens in sales' escrow
(`Escrowed`); every sale or refund then has to show only which token enters or
leaves it. What stands between sale and auction is `SeparateTokens`: no two live
swaps hold one token, which rests on the seller owning what is deposited. A
dispute that settles is a refund like any other, since payments never rest in
escrow (`SettlingRefunds`), and it reaches for the swap of its number alone, also
when it was raised over an auction. `DisputeInv` says that an unresolved dispute has
fewer votes than it asks for and a voted one exactly as many, decided by their
majority; a resolution that comes from elsewhere is settled in the same
invocation, so the ways to decide exclude each other.

**The promise.** `PromiseKept` sees NFTs, claims and purses only. The claim on a
token is a CHOOSE among the records that could stand for it; `ClaimsKnown`, which
follows from `IndInv`, says that there is at most one and that there is one exactly
when the contract holds the token (`SeparateTokens` and custody again). Each
invocation then maps to one abstract step: `create_sale` and `create_auction` to
`Deposit`, `place_bid` to `Pledge`, every refund path, an auction that closes without
a bid and a settled dispute to `Return` (of several tokens at once, for the cleanup
sweep), an abort with a bid to `CallOff`, `end_auction` with one to `Award`, since
no bid is below the reserve (`UnsoldHasNoBidder`), `execute_sale` to `Sell`, and the rest to `Elsewhere`, which touches no claim.
`TokenLeaves` and `TokenEnters` say what one token that moves does to all claims;
what is left per action is its money.

**Purchases.** What makes stale saves harmless is that the contract takes
nothing back: executed stays executed, and a transaction that will never execute
never does (`Moves`). So everything written from an old read is still true of the
contract. `IndInv` says this of every place a state is kept: of the rows
(`RecordsTrue`), of what each request holds at each of its steps
(`RequestsSound`: its copy of the row, its outcome, the listing it will mark),
of each job of the worker (`QueueTrue`), with `ChainFinal` on the contract's own
states. Each action is then an instance of a few lemmas about what a step does
to one table.

**Sessions.** The refinement needs that at most one token of a family is unused
(`OneLive`), although two transactions may work on it: `Exclusive` says that no
two hold one row lock, and `ReadsHold` that what a transaction has read under
its locks is still so. `NamesFresh` keeps the names apart, `NoncesOnce` says that
of a challenge's record and the requests past `Consume` only one exists for each
nonce, `ShownEnough` and `SpentByRequest` count presentations against used
tokens, `AccountsSound` follows the account from its row through the request to
the family. Each step of `SignIn` then maps to one of `Begin`, `FirstToken`,
`Exchange`, `End` or a stutter, with `HeldIssued` for the tokens clients hold.

**Indexer.** `NothingSkipped` survives overlapping activations because each
carries its own obligation: everything before its start is accounted for
(`StartsCovered`), what lies between start and the latest ledger of its answer is
on its page or among what it misses (`AnswerComplete`), and once persisted,
everything up to that ledger is accounted for (`TargetCovered`). Hence a cursor
moved back, or twice, does no harm. That the first event of a transaction stands
for the others rests on every set of events having a first (`FirstEvent`).

Every inductive invariant was checked by TLC on the instance of its run before
it was proved.

Only model-checked: the liveness properties (`EscrowReturned`, `AuctionSettles`,
`DisputeEnds`, `ReservationEnds`, `RequestsEnd`, `EventsRecorded`), since fairness
and ENABLED are out of the prover's reach. Every other property of a passing run
is proved.

## 5. Not modelled, and why

In the settlement contract:

- Commit-reveal bidding, `update_auction_config`, `cancel_auction`, royalty
  setters, `deposit_to_escrow` and `execute_swap` for buyers: no entrypoint
  reaches them.
- Evidence, events, statistics and asset metadata: stored or emitted, never read
  by a decision.
- `i128` overflow: checked arithmetic returns an error, which reverts the call.
- The limit of 100 bids is a guard of `PlaceBid` that no instance reaches.
- Trades and bundles: records with a state machine that move no escrow.
- The withdrawal monitor (`security/frontrun_protection.rs:389`): only tests call it.

The other contracts: the NFT contract and the collection factory are sequential
and small (`MarketLedger` holds what the marketplace uses of the former); of the
transaction contract, operations, dependencies, signatures and checkpoints.

In the backend:

- Of the transaction service: bundle purchases, which run the same steps over
  several listings; batch execution; `executeWithRetry`, which nothing calls; and
  off-chain payments, which store `offchain_...` in `contractTxId`, a number in
  the database, so that the row cannot be inserted
  (`modules/transaction/transaction.service.ts:1222`).
- Bids, auctions and offers kept in the database. Each call reads a row, awaits
  and saves it whole, without a lock or a version. A late `placeBid`
  (`modules/auction/auction.service.ts:207`, `modules/bid/bid.service.ts:84`)
  saves a settled or cancelled auction back to ACTIVE, which the next sweep then
  settles again; two bids may leave the lower as current price; accepting and
  cancelling an offer (`modules/offer/offer.service.ts:124`, 211) overwrite each
  other. No invariant of interest survives, and nothing in the repository claims
  one.
- E-mail login, lockouts and the second factor: counters per account and address
  in one store. `linkWallet` looks for a row in `wallet_sessions`, which nothing
  in the source inserts (`auth/auth.service.ts:491`), so that linking a further
  wallet never succeeds.
- The dead letter worker and its replay: no row of the indexer reaches their
  table (section 3). The ledger ingestion (`jobs/indexer.service.ts:75`) starts
  every page at `now` and so finds no transaction from which to take another
  start.
- Collections, NFTs, users, search, storage, e-mail, notifications, analytics,
  AI, GraphQL and HTTP: single statements, marshalling and wiring.

The user interfaces hold no protocol state but the mobile app's offline queue
(`nftopia-mobile-app/stores/offlineStore.ts`, `processQueue`), which awaits
each queued action in turn and then writes back the list it started from without
the successes: what was queued meanwhile is overwritten.

Measured in lines, most of the repository's TypeScript is of the last two kinds
(components, hooks, generated GraphQL types, DTOs, resolvers, entities): the map
covers the core logic and a small share of all lines, and the share would grow
only by mapping code that takes no decision a property could be about.

## 6. Plan

Done: the settlement contract, purchases with their retry queue, wallet sign-in,
the event indexer, and the proofs of section 4. Next, in this order:

1. Trades and bundles, composed into `Settlement`.
2. The login lockout, whose counters are read and written in separate calls.
3. The NFT contract (approvals and enumeration) and the collection factory.
