# A TLA+ model of the magi market

`src/contract` is one smart contract, compiled from Go to WASM: a marketplace
for ERC-1155 style NFTs (an item is a token id of an NFT contract, of which
accounts hold units) and for tokens, priced in payment tokens the owner has put
on a whitelist. This directory holds a TLA+ model of it, TLC configurations
that check the model on small instances, and TLAPS proofs of theorems that hold
for every instance. It covers every entrypoint and query of the contract and the
events they log; "Not modelled" at the end says what is abstracted.

## How the program works, and how the model follows it

* **One transaction, one step.** Every exported function runs as a transaction:
  it reaches its end, or `sdk.Abort` undoes everything, calls to other contracts
  included. An entrypoint is therefore one action; its guard is the conjunction
  of all conditions it would abort on, those inside the called contracts
  included (balance too small, subtraction below zero in `mSub`). What
  interleaves is whole transactions, and that is where the difficulties are:
  listings outlive the settings, approvals and balances they were checked
  against. Two modules look inside a transaction: `Buckets` at the draws of a
  purchase, and `Calls`, for purchases of listings and bundles, swaps, mint spots
  and token sales, at the calls to other contracts, during which these may call
  the market back.
* **Callers.** A guard looks at the caller where the code does. Configuration
  entrypoints are taken whenever their argument is in the `...Choices` set of
  the instance; they stand for "the owner signs". Entrypoints reserved to one
  party of a record (the seller of an auction, the renter of a rental) are
  actions of that party.
* **Money.** The contract stores no total of what it holds. `pool[t]` is its
  balance in the token contract, which every transfer of the code changes.
  `escrowIn` measures what arrived: `Arrivals` lets a *deducting* token deliver
  anything from 0 to the amount asked for; `EscrowIn` credits the asked amount
  for native assets and tokens bound to the `magi_token` decoder, and the
  measured amount for all others. A payout is one decrement of `pool`: which
  account gets which part is left out, but not the fact that the parts are
  computed with rounding and subtracted (`Payable`).
* **Units.** `nft[i][x]` are the balances in the NFT contracts, `approved` the
  approvals granted to the market. Both are changed by the accounts behind the
  market's back (`TransferOutside`, `SetApproval`).
* **Queries and events.** A query is an operator on the state it reads. An event
  is a record with a `type` and the fields the code gives it (module `Events`);
  a `books` variable holds what somebody knows who reads only the events, in the
  order of the log. Properties compare the two.
* **Left out of every module:** the decimal and JSON formats and character checks
  on names.

## Components

| component | source | state | operations | modules |
|---|---|---|---|---|
| configuration | `market.go`, `internal.go`, `main.go` | `owner`, `paused`, `fee_bps`, `cfee`, `ry`, `rsplit`, `ptw`, `ptwd`, `dl`, `min_bid_inc`, `snipe_ext`, `min_ofr` | `init`, `set*`, `pause`, `addPaymentToken`, `denyCollection`, `changeOwner`, ... | `MarketState` |
| payout arithmetic | `money.go`, `internal.go` | - | `mMulBpsDiv`, `feeAndRoyaltyOf` | `Payout` |
| custody | `internal.go` | balances in other contracts | `escrowIn`, `nftSafeTransferFrom` | `MarketState`, `Custody`, `Approvals` |
| auctions | `auction.go` | `au\|<id>\|...`, `nxt_auc` | `createAuction`, `placeBid`, `settleAuction`, `cancelAuction` | `Auction`, `AtomicSale` |
| emergency withdrawal | `market.go` | - | `emergencyWithdraw` | `Rescue` |
| offers | `market.go` | `of\|<id>\|...`, `nxt_ofr` | `makeOffer`, `cancelOffer`, `acceptOffer`, `acceptCollectionOffer` | `Offers` |
| rentals | `market.go` | `rnt\|<id>\|...`, `nxt_rnt`, `ract\|...` | `listRental`, `rent`, `endRental`, `endRentalEarly`, `delistRental`, `getActiveRentalOf` | `Rental` |
| listings, batches, sweep | `market.go` | `ls\|<id>\|...`, `nxt_lst` | `list`, `delist`, `buy`, `updateListing`, `batchList`, `batchBuy`, `sweep` | `KeptStock`, `Calls`, `Listings` |
| bundles | `market.go` | `bnd\|<id>\|...`, `nxt_bnd` | `listBundle`, `buyBundle`, `delistBundle` | `Calls`, `Bundles` |
| swaps | `market.go` | `sw\|<id>\|...`, `nxt_sw` | `proposeSwap`, `acceptSwap`, `cancelSwap` | `Calls`, `Swaps`, `Sales` |
| buckets | `bucket.go`, `internal.go` | `bkt\|<id>\|...`: slots, chunk sums, stack and bucket totals, `nxt_bkt` | `listBucket`, `addToBucket`, `buyFromBucket`, `delistBucket` | `KeptStock`, `Buckets` |
| mint spots | `market.go`, `crosschain.go` | `msp\|<id>\|...`: cap and number sold, `nxt_msp` | `listMintSpots`, `buyMintSpot`, `delistMintSpots` | `Calls`, `MintSpots`, `Sales` |
| token sales | `tokens.go` | `tl\|<id>\|...`, `nxt_tl` | `listToken`, `buyToken`, `delistToken` | `Calls`, `TokenSales`, `Sales` |
| payout legs | `crosschain.go`, `market.go` | `pm`, `st` of a listing | `unmap`, DEX swap, transfer | `Listings` |
| queries | `market.go`, `auction.go`, `tokens.go` | - | `get*`, `is*` | `Indexer`, `AuctionLog`, `Offers`, `Rental`, `Sales` |
| events | `events.go`, `tokens.go` | the log | `emit*` | `Events` and the modules of the queries |

They meet in four places: the configuration every trade reads and copies into
its record; the market's one balance per payment token and per item, which all
trades share without any record of whose is what; the approvals, which several
listings may rely on at once; and the pause switch.

What is hard to get right, and what a test hardly reaches:

* shared custody: a refund or a return that happens twice does not fail, it
  takes somebody else's money or units;
* tokens that deliver less than asked: checks on the nominal amount say nothing
  about what the market holds;
* fees and royalties that change between the check and the payout;
* ways out: everything escrowed must leave again, whatever is paused, denied or
  removed in the meantime;
* units on offer that the seller has kept: they may be listed twice, traded
  elsewhere, or out of the market's reach when somebody pays for them;
* several purchases in one transaction, the same listing named twice, each reading
  its listing only after the ones before it have called other contracts;
* counters cached on four levels of a bucket and changed in the middle of a
  purchase;
* one key for several rentals (`ract|...`);
* recovery of stray money without a record of what is escrowed;
* contracts that call the market back while it waits for a payment: a deposit is
  measured as the difference of two balances, and anything may happen between;
* a log that is the only thing most readers of the market see.

What makes each component correct: the **configuration** keeps its two views of
a royalty equal; **auctions** keep lot and money together, pay each bidder back
exactly once, and end; **offers** spend, keep or return every unit of a buyer's
money; **rentals** return the units to the owner and tell other contracts the
truth about who rents what; the **emergency withdrawal** takes stray money only.
For **listings** and **bundles** nothing is sold twice, what was agreed at
listing stands, a buyer gets what was paid for, and pays no more than the budget
unless a price is raised in the middle of a sweep;
for **swaps** both legs happen under the terms of the proposal; for **buckets** the four levels of counters agree and no
unit is sold twice; for **mint spots** and **token sales** what is sold is
delivered, once, within the cap. Whoever reads the **events** knows what the
**queries** answer.

## Modules

`A > B`: A extends B.

    MarketState > Payout                 configuration and arithmetic
    Custody     > MarketState            balances in other contracts
    Approvals   > Custody                approvals granted to the market
    Auction     > Custody, FcnSum        auctions; refines AtomicSale
    KeptStock   > Approvals, FcnSum      units the seller keeps until the sale
    Listings    > Calls                  listings, batches, sweeps, call by call
    Bundles     > Listings               bundles next to listings
    Indexer     > Bundles, Events        both with the settings, their queries and log
    AuctionLog  > Auction, Events        auctions with their query and log
    Rescue      > AuctionLog             auctions, stray money, emergencyWithdraw
    Offers      > Approvals, Events      offers with their query and log
    Rental      > Approvals, Events      rentals with their queries and log
    Buckets     > KeptStock, Events      buckets, a purchase draw by draw
    Calls       > KeptStock              entrypoints in progress, call by call
    Swaps, MintSpots, TokenSales > Calls
    Sales       > Swaps, MintSpots, TokenSales, Events    the three in one market
    MarketProofs  > Custody, FcnSum                                          proofs
    AuctionProofs > Rescue, MarketProofs
    OfferProofs   > Offers, MarketProofs
    RentalProofs  > Rental, MarketProofs
    ListingProofs > Indexer, MarketProofs
    SalesProofs   > Sales, MarketProofs
    SoldProofs    > SalesProofs
    BucketProofs  > Buckets, MarketProofs
    MCAuction, MCRescue, MCOffers, MCRental, MCIndexer, MCBuckets, MCSales     instances

`Auction`, `KeptStock`, `Offers` and `Rental` also extend `FcnSum`, sums of
functions.

* **Payout** - `MulBpsDiv`, the fee, the royalties of a split list, and
  `Payable`: the two subtractions in `feeAndRoyaltyOf` succeed. Split lists have
  at most ten entries, so sums over them are written out and need no recursion.
* **MarketState** - `cfg` is a record with one field per key or family of keys,
  `height` the block. One action per entrypoint; `Configure` is their
  disjunction. `decoder` matters only through `CreditsFaceValue`.
* **Custody**, **Approvals** - see above. `Market` is the contract's own account.
  The NFT contract is external: a transfer moves the units or aborts. An
  allowance may be used up by a transfer; an operator approval is not.
* **Auction** - `auctions[id]` has the fields of the `au|<id>|` keys, with
  the item for `nc` and `ti` and `rs` for the royalty snapshot (`rb`, `rr` are
  the first view of the same data, see `RoyaltyViewsAgree`). `PlaceBidEnglish`
  brings the new bid in, compares it with the standing one *again*, stores what
  arrived and refunds; `SettleNoSale` is the branch of a denied collection or no
  bid, `SettleSale` the other. `lotAt`, `stake` and `proceeds` are history
  variables: where the lot is, what each account has paid and not got back, what
  was paid out.
* **AtomicSale** - what a seller and a bidder are promised, without tokens,
  fees, blocks or settings: a lot is put up, at most one account has money in
  it and everybody else is back to zero, and it ends with lot and money changing
  sides in one step or with both going back.
* **Events** - one operator per event, with the arguments the `emit` function
  takes; names as in the code.
* **AuctionLog** - `GetAuction`, and `LogNext`: the actions of `Auction`, each
  with the events it logs. `Told` is what a reader makes of an event.
* **Rescue** - adds `SendStray` (a transfer to the market nobody asked for)
  and `EmergencyWithdraw`; `sent` and `everRemoved` are history variables.
* **Offers** - `wants` is the set of items an offer accepts: one item, or those
  of a collection for a collection offer. `esc` is what is left in escrow.
  `paidIn`, `delivered`, `refunded` are history variables.
* **Rental** - `rentals[id]` has the fields of `rnt|<id>|`, `ract[i][x]` is the
  attestation key. The rent passes through `pool` in one step. `overlapped` is a
  history variable, see the finding below.
* **KeptStock** - `CanOffer` is the preflight of `doList`, `ListBundle` and
  `assertEntriesStockable`; `HandOver` the transfers from sellers to a buyer,
  which the NFT contracts refuse for the same reasons.
* **Listings** - `listings[id]` has the fields of `ls|<id>|`. A purchase is a
  frame on the stack of `Calls` with the orders it was given: one is `buy`,
  several are `batchBuy`, and `sweep` makes one of every listing it names, for
  `Whole`, all that is left when its turn comes. Each order goes through `doBuy`'s
  stages: `NextOrder` reads price, amount and terms afresh, checks them and
  writes the amount left (`market.go:275-332`); `TakePayment` is `escrowIn` (334),
  `GiveUnits` the NFT transfer (343), `FinishOrder` fee, royalties, the seller's
  part and the event (345-376). During the three, the contract that is called may
  enter the market, `updateListing` and `delist` included. `Sweep` is the first
  pass: it compares `SweepTotal` with the budget and remembers both in the frame's
  `bill`, where the second pass adds up what it asks for (`cost`) and
  `UpdateListing` notes if a listing still to come got dearer (`raised`); cost and
  raised are history. `BatchList` is `list` and `batchList`. How the
  seller is paid (`pm`) is recorded and checked as `doList` does; when the sale
  happens, fee, royalties and the seller's part are one decrement of `pool`
  whichever way they go, with one place at which the payment token may call back.
  `listed`, `sold`, `received`, `proceeds`, `swept` are history variables.
* **Bundles** - extends `Listings`, so that the same units may be in a bundle
  and in a listing, and a purchase of one may run inside one of the other.
  `BuyBundle` takes the flag down and makes the first call; `GiveItem` moves one
  item, `FinishBundle` pays. `elsewhere` and `buyers` are history variables.
* **Indexer** - the queries on settings, listings and bundles, and the next-state
  relation of all three with the events of every step; a purchase is logged when its
  last call has come back. Blocks pass and settings change only between
  transactions: the block is one number during a transaction, and a callback that
  signs as the owner is left out.
* **Calls** - `calls` is the stack of entrypoints in progress. `Enter` pushes a
  frame with the entrypoint's local variables and the calls it has to make;
  `Pay`, `PayOut` and the asset's moves are the calls, each one step. While a
  frame waits for a call, the contract called may enter another entrypoint
  (`MayEnter`, under the account `CallbackAccount` gives it). The balance is read
  into `before` when the entrypoint is entered and compared with the balance
  when the payment has come back, as `escrowIn` does. An abort undoes the whole
  transaction, so it is not a step: a behaviour that ends with a stack that
  cannot go on stands for it.
* **Swaps** - `swaps[id]` has the fields of `sw|<id>|`. `SwapTerms` is the choice
  `acceptSwap` makes between the locked terms and those of the day, taken when it
  is entered. A top-up of 0 skips the payment. `acceptors`, `charged` are history
  variables.
* **MintSpots** - `mintRight` is the market's allowance in the NFT contract,
  `EditionSize` its `maxSupply`; numbers are modulo `Word`, as `WithinCap`
  depends on how a sum may wrap. `minted` is a history variable.
* **TokenSales** - `coins` are the holdings in the token contracts, which the
  asset's transfer changes; a token may be payment in one sale and asset in
  another. `offered`, `sent` are history variables.
* **Sales** - the three in one market, so that a purchase of one kind can run
  inside one of another; their queries and their log. A purchase is logged when
  its last call has come back. `outside` is a history variable.
* **Buckets** - a purchase in several steps:
  `BeginPurchase` makes the checks and copies the table (`newBucketDraw`,
  `load`), each `DrawOne` is one round of the loop in `drawOne`, and
  `FinishPurchase` or `AbortPurchase` ends it; nothing else happens in between.
  The code writes slots through while it draws; as an abort undoes that and
  nobody looks in between, the model keeps them in the copy. Slots and chunks are
  counted from 1. `Locate` finds a unit by chunk sums first, as `locate` does, so
  that sums that disagree with the slots make it fail. `stocked`, `delivered` and
  `unannounced` (units dropped without an event) are history variables, and
  `books` is what the events told.
* **FcnSum** - `Total(f)`, the sum of a function's values, as the number of
  pairs of an argument and a number from 1 to its value: the library's facts on
  cardinality apply to it, and it needs no order of the arguments.

Operators called "mutant of ..." are plausible bugs: the same definition with a
check dropped or a reset forgotten. They are used by no specification; each
property is known to fail when one of them takes the place of its original.

## Runs

All bounds are CONSTANTS of the `.cfg` files: `MaxHeight` (last block),
`MaxAuctions`, `MaxOffers`, `MaxRentals`, `MaxListings`, `MaxBundles`,
`MaxBuckets`, `MaxSwaps`, `MaxSpotListings`, `MaxTokenListings` (records per
behaviour), `MaxOnOffer` (listings, bundles and moved settings together),
`MaxOrders` (purchases in one transaction), `MaxDepth` (entrypoints in progress),
`MaxStray`, and the finite sets arguments are taken from. `CHECK_DEADLOCK FALSE` is given
everywhere because behaviours end at the last block. Settings whose `...Choices`
set is empty keep their initial value in that run. `height + blocks <=
MaxHeight` in `Rent` keeps terms inside the modelled blocks.

| run | instance | what it shows |
|---|---|---|
| `auction` | two auctions of one item, three accounts, hive and a deducting token, one or both kinds of auction, 3 blocks, fees, royalties, splits, a ban | `BidsBacked`, `LotsHeld`: the market's balances are exactly the open escrows. `LotFollowsMoney`: every auction is in one of four situations. `NothingMissing`: the aborts inside settlement never fire. `RoyaltyViewsAgree`. `SaleSpec`: refinement of `AtomicSale` |
| `auction_wrap` | one English auction, block numbers modulo 8, windows up to 7 | `BidLeavesTime` fails (finding 3) |
| `rescue` | one auction, English or Dutch from 2 to 1 over 3 blocks, 10 blocks, bids of 2, 3 and 5 near the end with a window of 2 blocks, a token on the whitelist and one beside it, stray money, pause, ban, removal, addition and withdrawal in every order | `WhitelistProtects`, `BidLeavesTime`, `AuctionsEnd`, `DutchPriceFalls`; `LogTellsAuctions`: log, query and money agree |
| `rescue_drain` | the same | `OnlyDustWithdrawn` fails (finding 2) |
| `offers` | two offers of two units for one or any of two items, two holders, hive and a deducting token, fees and royalties, an approval withdrawn, a pause that is never lifted | `EscrowBacked`, `BuyersAccount` (with what the log told of each offer), `ExpiredOffersEnd` |
| `rentals` | two rentals of one unit each of one item, three accounts, a deducting token, fees up to 100%, 3 blocks, units traded outside, pause, ban, an approval withdrawn | `RentedUnitsHeld`, `AttestationTruthful`, `AttestationKept`, `LockedTermsPayable`, `OwnersKeepTitle`, `RentalsEnd` |
| `rental_wipe` | the same without the restrictions | `AttestationSurvives` fails (finding 1) |
| `views` | two listings of two items, one soulbound, paid out in the payment token or to another chain (one that an exchange could not pay out is refused), or two bundles, of two items or naming one twice, or one of each, in hive and a deducting token; orders of one and of two units alone and in pairs, sweeps of one or two listings with a budget of 3, prices that change; the deducting token's and the collection's contract call back and list, delist, reprice, trade and buy in the middle; every setting changed | `SoldWithinListed`, `SweepDearerOnlyByRaise`, `PaymentsPass`, `BundlesWhole`, `TermsHonoured`, `TermsStand`; `ViewsAgree`: a reader of the events knows what the queries answer, but for the purchases in progress |
| `buckets` | one bucket of two stacks, two slots per chunk, three items, single draws and packs of 3, the seller trading units and withdrawing approvals between purchases | `CountersAgree`, `DrawFindsOneEntry`, `DrawnUnitsHeld`, `UnitsAccounted` |
| `buckets_mirror` | the same | `EventsMirrorStacks` fails (finding 4) |
| `sales` | two swaps, mint-spot sales or token sales of any kind, one inside the other or one after the other; a deducting token whose contract calls back and trades under its own account; no cap and a cap of 4, orders of 1 and 4, an edition and an allowance of 4, or an edition of 1 and an unlimited right, with numbers modulo 5; a pause, a removed token, trades and withdrawn allowances in between | `NothingKept`, `BarterWhole`, `SoldIsDelivered` |
| `swap_terms` | one swap, proposed before the fee and the royalty are set | `SwapTermsStand` fails (finding 5) |

Each passing run also checks the type invariant of its module, as `TypeOK`,
`SalesTypeOK` or `AnswersOK` (in `rescue` the answers are checked by
`LogTellsAuctions`). `AnswersOK` and `SalesTypeOK` include that each query
answers in the range a client may expect.

Why these bounds are enough to mean something. Two records over one shared
balance are what it takes to pay one out of the other's escrow; the proofs below
show that more add nothing. Prices are 1 to 5 units and percentages
25% to 100%, so that rounding, a part of zero and a payout that would exceed
the payment all occur. A deducting token delivers every amount from 0 to the
one asked for. In `auction` an auction that ends at block 2 has a first, a last
and a next block; in `rentals` terms of 1 and 2 blocks within 3 allow a rental
that has expired and not been ended, next to a new one by the same account. In
`rescue` ten blocks hold an auction of three and every extension its bids can
ask for. In `views` the more settings have moved, tokens are missing on the whitelist and
approvals are withdrawn, the less is on offer (`Moved`, `Room`): two records under
the settings of the first day, one record with any one of those moved, or two of
them; every pair of a record and a setting, and of two settings, occurs.
A batch of two orders may take one listing's two units in two parts,
or four of two; a listing of two units costs 2 or, after its price has changed, 6,
so that a sweep with a budget of 3 can take one or two and not a dearer one, and
asks for 4 when a listing gets dearer after the comparison. Two
entrypoints in progress reach every call at which another can enter; a third
level repeats this between the second and the third, and the theorems hold for
any number.
In `buckets` a third slot opens a second chunk, an entry can
be drawn empty, found partly or wholly gone, and the attempts can run out; the
limits on work and draws are scaled down so that both refuse some purchase. In
`sales` one entrypoint inside another reaches every pair of entrypoints and every
call at which the second can enter; a third level repeats this between the
second and the third. No
symmetry is used: the accounts have roles (deployer, holder).

### Fairness

`FairSpec` of `Rental` and `Offers` and `FairRescueSpec` of `Rescue` assume that blocks keep coming
(weak fairness of `Tick`) and that somebody eventually submits the closing
transaction if it would go through: `settleAuction`, `endRental`, and
`cancelOffer` once an offer has expired. The code lets *anybody* sign these
three, and the seller, the winner, the owner or the buyer gains from it; the
transaction is kept alive by resubmission. Nothing else is fair: nobody has to
bid, accept, unpause or lift a ban. So `AuctionsEnd` and `RentalsEnd` are stated for
behaviours in which the contract does not stay paused, and `AuctionsEnd` also
requires that the payment token was never taken off the whitelist, since
`emergencyWithdraw` may have taken what a payout needs by the time it is back;
without these premises they are false, as `settleAuction`, `endRental` and the cancel
entrypoints are written.
`ExpiredOffersEnd` needs no premise. That an auction ends although bids can put
off its end rests on the minimum increment: bids grow, and the instance has a
largest bid as every account has a finite balance.

## Proofs

TLAPS checks these theorems for every value of the constants that satisfies the
ASSUMEs in the modules: any number of auctions, accounts, items and tokens, any
amounts and settings, any depth of nested calls, any size of block numbers, any
number of stacks, slots and slots per chunk. Every safety property a run checks,
invariant or action property, is stated by one.

The argument is the same throughout. A property of the runs is seldom inductive
as it stands, so each component has an invariant of named parts that is, one
lemma per action that the action keeps it, and theorems that take the properties
from it. Predicates on *one* record (`Settled(offer, in, out, back)`) carry what
there is to calculate; that a step changes one record and leaves the others
alone is proved once per component. What an invariant says of a balance is a
sum over records, and a step changes one summand: `TotalUpdate`.

**`MarketProofs`**, which all others rest on.

* `TotalType`, `TotalZero`, `TotalUpdate`, `TotalBound`, `TotalCompare`, ... -
  the sum of a function of naturals on a finite set, its change when one value
  changes, and that it bounds each value. Two sums are compared by looking at a
  smallest set on which the claim fails, as the library's induction theorems
  cannot be used.
* `FoldExists` - the recursive function behind a fold over a list exists, so that a
  fold can be unfolded one element at a time: the function on the subsets of
  `1 .. n` is put together from the one for `n - 1`, and a smallest `n` without one
  is shown not to exist.
* `WithinTotalIsPayable` - fee and royalties of together at most 100%, each
  rounded down, never exceed the amount: each part is bounded by its exact share.
* `ConfigureInv` - every configuration entrypoint keeps `MarketInv`: well typed,
  `RoyaltyViewsAgree`, `RoyaltiesBounded` (no more than 50%, which needs the
  agreement of the two views), `DecodersTruthful`.
* What a deposit is credited (`DepositCredited`), what a transfer of units changes
  (`MoveBalances`), that terms locked within 100% can be paid (`TermsPay`).

**`AuctionProofs`**, first for `Spec` of `Auction`.

* `BooksInvariant`: `Books == MarketInv /\ TypeOK /\ LotFollowsMoney` is
  inductive. None of its parts is by itself: `LotFollowsMoney` needs types to
  evaluate records, and it needs `DecodersTruthful` to know that a credited
  amount arrived. `TypeCorrect`, `LotsFollowMoney`, `RoyaltyViewsStayEqual` are its
  parts.
* `BidsStayBacked`, `LotsStayHeld`: from `Books` in the state before, each
  action changes the balance and exactly one summand by the same amount.
* `NothingGoesMissing`: the lot and the bid from the two theorems before and
  `TotalBound`; the payout from the terms locked at creation (an invariant of
  its own) and `WithinTotalIsPayable`.
* `AuctionsAreSales`: `Spec => SaleSpec`, the refinement of `AtomicSale`:
  initial states and, action by action, steps.
* `DutchPriceCurve` - for any prices in order and any two blocks, `DutchPrice`
  starts at the first price, ends at the second, stays between them, never rises
  from a block to the next, and its rounding is in the seller's favour. The
  products of variables are bounded by one lemma, as the provers do not do
  nonlinear arithmetic. `DutchPricesFall`: together with `Books`, `DutchOrder` is
  inductive, which says of every recorded Dutch auction that its prices and
  blocks are in order and that a lot a bidder has was paid for at a price between
  the two; the rest is the curve.
* `BidsLeaveTime`: `WindowsFit => (Spec => BidLeavesTime)`. `WindowsFit` says that
  the last block and the widest anti-sniping window in `AntiSnipeChoices` add up to
  less than `Word`. The code does not check this, and run `auction_wrap` shows that
  without it the property is false (finding 3).

Then for `RescueSpec`: the auctions with their log, stray money and
`emergencyWithdraw`.

* Stray money and withdrawals change `pool` only, so `Books`, `LotsHeld`,
  `DutchPriceFalls`, `BidLeavesTime` and the refinement hold here too
  (`LotsStayInRescue`, `RescuePricesFall`, `RescueBidsLeaveTime`,
  `RescuedAuctionsAreSales`). `BidsBacked` does not (finding 2), and is replaced by
* `WhitelistIsEnough`: `WhitelistProtects` is inductive with `StillListed`, which
  says that the token of an open auction is on the whitelist or was removed from
  it at some time.
* `ListedAuctionsCanSettle`: an auction in a token that never left the whitelist has
  the money and the units its settlement needs, whatever was withdrawn.
* `LogIsTruthful`: `LogTellsAuctions`, under `WindowsFit`. Its inductive form `LogAgrees`
  relates every record to its entry in the books, and must say that an entry
  still open has neither winner nor price.

**`OfferProofs`**, for `Spec` of `Offers`.

* `OffersInvariant`: `OfferInv` has `MarketInv`, the types, `PoolBacked` and for every
  offer its `Situation`: not made and blank everywhere, or made on sound terms
  (`SoundTerms`), with its money accounted for (`Settled`) and told (`WrittenDown`).
  That a refund leaves a balance takes `PoolBacked`; that an offer that is over
  holds nothing takes the bound `esc <= p * a` on one that is not; both take
  truthful decoders.
* `OffersTyped`, `EscrowStaysBacked`, `BuyersAreAccounted` are the runs' properties;
  `RefundsAreThere` says that the escrow of every open offer can be paid back.

**`RentalProofs`**, for `Spec` of `Rental`.

* `RentalsInvariant`: `RentalInv` with the types, `RentedUnitsHeld` and the situation of
  each rental, then `RentalsTyped`, `RentedUnitsStayHeld`, `RentIsPayable`.
* `AttestationsInvariant`: `AttestationKept` speaks of rentals whose term runs; that no
  expired one can wipe the slot of another takes the same of every rental still
  rented out (`RentersAttested`). `AttestationsAreTrue`, `AttestationsAreKept`.
* `TitleIsKept`: `OwnersKeepTitle` - in every step an owner's balance and the units
  lent change together. `RentalsCanEnd`: the market has the units of every rental.

**`ListingProofs`**, for `IndexerSpec`: listings, bundles and settings in one market.

* The stack of purchases is *weighed* as for `SalesProofs` below, where this is explained:
  `HoldingsOK` says that the market's balance is the weight of the stack, and needs
  `BalancesRead`, what a purchase read before its payment, and `FramesOK`.
* `FramesOK` says of every frame at which call it can be, and with which terms
  (`FrameFits`). For a sweep it has `SweepFits`: all its listings are in one token, and
  what it has asked for (`cost`) together with what the listings *to come* would cost
  now (`ToCome`) is within the budget, unless `raised`. `NextOrder` moves one summand
  from the one to the other; any other step can only make `ToCome` smaller
  (`CostsFall`: amounts go down, and a listing named twice is gone the second time),
  but for `UpdateListing`, which sets `raised` in just those frames whose `ToCome` it
  may have made larger. `SweepDearerOnlyByRaise` is not inductive without it: it
  speaks of sweeps that are through only.
* `ListingsOK`: of each listing `GoodListing` (sold, in flight and left make up what was
  listed, the seller's total is at least the share of what came in). `BundlesOK`: an
  active bundle has no buyer yet, and `UnitsTraced` follows every unit at every call:
  what the deliveries still to come in the stack weigh is part of the sum, and is
  nothing between transactions. `IndexerInvariant` is the whole.
* `NeverOversold`, `SweepsKeepToBudgetUnlessRaised`, `PaymentsPassThrough`,
  `BundlesStayWhole`, `TermsAreHonoured`, `QueriesAnswer`; the action property
  `ListingTermsStand`.
* `LogTellsState`: `LogIsState` says that the books of an indexer are `BooksShown`, a
  function of the state. `ViewsAgree` alone is not inductive: it says
  nothing of the entries of listings not yet made, and it takes a listing as found
  when it has a seller, so that `SellersKnown` (whatever was made has one) has to come
  along. One lemma per event says what it changes of the books. A list of events is
  told one after the other (`ToldInTurn`, from the definition of `FoldLeft`). What a
  listing shows and what was told of it differ by the purchases of it in progress,
  a weight of the stack that falls when one of them is logged. From it,
  `EventsMatchQueries` is `ViewsAgree`.

**`SalesProofs`** and **`SoldProofs`**, for `Spec` of `Sales`: swaps, mint spots and token
sales whose calls nest to any depth.

* A stack of purchases is *weighed*: `Weighed(W, calls)` is the sum over its frames
  of `W[frame]`, and one call changes the weight of the last frame only. With
  `HeldWeight(t)`, what a frame has taken in of `t` and not paid out, `HoldingsOK` says
  that the market's balance is the weight of the stack. It is inductive only with
  `BalancesRead`: the balance a purchase read before its payment is the weight of
  the frames *around* it, so that whatever ran inside has left the balance as it
  found it; and that needs `FramesOK`, which says at which calls a frame can be, and
  `OpenOK`, that what is open is known. `CoreInvariant`, `SalesTypesAreOK`,
  `NothingIsKept`.
* `SoldIsDeliveredAlways`: `TellsOK` relates each record to its entry in the books and to
  the units of the purchases of it in progress (`SwapAgrees`, `SpotsAgree`,
  `CoinsAgree`): what is sold was told or is not yet logged, was delivered or is in
  flight. For mint spots it needs `EditionsOK` (the spots of all listings of an item
  stay within its edition, which keeps `sold` from wrapping) and `FewMinted`, as a sum
  over accounts is a number only if finitely many have any.
* `BarterIsWhole`: `LedgerOK` holds at every call, not only between transactions: what an
  account has of an item, plus what the legs still to come in the stack owe it and
  less what they take from it, is what it had, traded elsewhere, had minted and
  bartered. The legs to come weigh nothing on an empty stack. `SalesInvariant` is the
  whole invariant.

**`BucketProofs`**, for `Spec` of `Buckets`, whose steps are the draws of a purchase.

* `TableOK` is a table whose counts agree (`StackOK` for every stack): each chunk
  sum is the sum of the slots of its chunk, and the last chunk is that of the last
  slot. `AppendBucketEntries` and `Take` keep it; `Take` changes one slot, one
  chunk sum, one stack and the total, and no other chunk has the slot. Where a
  list is folded (`AppendBucketEntries`, `Told`) `FoldExists` gives the tables or
  books in between.
* `LocateOne`: with the units before a slot written as the earlier chunks and the
  earlier slots of its own, the ranges `[before, before + u)` of the slots of a stack
  are those of a running sum, so that each offset below the stack's count is in
  exactly one, and the search by chunk sums finds it.
* `BucketInvariant`: `BucketInv` has a `Kept` part per bucket (`BucketOK`, and
  `Accounted`, the entry of `UnitsAccounted`), and `TxOK` for a purchase under way.
  `CountersAgree` is not inductive by itself, as `FinishPurchase` writes back the copy;
  so `TxOK` says of the copy that it is a `TableOK`, that an item has one entry in it
  (`OneEntry`), and by `Tally` that stored units less those in the copy are what was
  drawn, dropped with an event in the copy of the books, or dropped without. `Held`
  is the argument for the cache of balances: of an item whose entry was asked about,
  drawn units *and* those the entry still counts are held; of any other nothing was
  drawn. Without `OneEntry` a second entry of the item would be asked about against
  a balance already promised.
* `BucketsTyped`, `CountersInStep`, `DrawsFindOneEntry`, `DrawsAreDeliverable` and
  `EveryUnitAccounted` are the run's properties.

Assumptions worth knowing: a token that withholds part of a transfer is never
bound to the `magi_token` decoder (`DecoderAssumption`; the code credits such
deposits at face value by design); accounts are distinct from the market; an
NFT transfer moves what it says or aborts; a token that calls back does so for an
account of `CallbackAccount`.

Trying to prove the model right corrected it twice. `SpotsTold` compared two numbers of
which one wraps and the other does not; it now compares them modulo `Word`. `Mint`
and `RightCovers` compared the market's allowance with `Unlimited` in a way that is
right only if no number equals it; both now ask whether it is `Unlimited` first, and
run `sales` has an item of each kind.

Only model-checked:

* liveness: `AuctionsEnd`, `ExpiredOffersEnd`, `RentalsEnd` - fairness and ENABLED are
  outside the prover's reach; `ListedAuctionsCanSettle`, `RefundsAreThere` and
  `RentalsCanEnd` are the safety part, that the closing step has what it needs.

## Findings

1. **`rental_wipe`** - `endRental` (`market.go:2473`) deletes the attestation
   key whatever rental it belongs to. If an account's rental has expired but has
   not been ended, `rent` lets it rent the same item from a second listing; the
   key is then overwritten, and ending the first rental wipes the proof of the
   second. The comment at `market.go:2385-2390` names this very outcome as what the
   check prevents. `AttestationKept` shows it is the only way: accounts that
   never overlap rentals like this keep their attestation.
2. **`rescue_drain`** - `emergencyWithdraw` (`market.go:1187`) protects the
   tokens on the whitelist now. While paused, the owner may remove a token and
   withdraw what backs standing bids, contrary to the comment at
   `market.go:1182-1186`. `WhitelistProtects` shows tokens never removed are safe.
3. **`auction_wrap`** - `setAntiSnipeBlocks` has no upper bound and
   `auction.go:261` adds it to the block height without `safeAdd`. For a window
   near 2^64 a bid ends the auction instead of extending it.
4. **`buckets_mirror`** - when a seller still holds a part of an entry,
   `deliverable` (`bucket.go:241`) takes the rest out of the slot, the chunk, the
   stack and the total without an event. `docs/bucket-events.md:72-74` says
   `bucket_entry_dropped` carries the units that disappeared because "otherwise
   a mirror cannot decrement correctly", and lines 107-110 ask consumers to
   track units per stack; `unitsLeft` corrects the total only.
   `UnitsAccounted` shows that nothing else is missing from the log.
5. **`swap_terms`** - `acceptSwap` (`market.go:2061`) takes a swap whose locked
   fee, royalty and splits are all empty for one from before terms were locked,
   and charges the fee and royalty of the day. A swap proposed while both were
   zero looks just like that, so a later `setFee` or `setRoyalty` takes its share
   of a top-up that was agreed on without one, contrary to
   `market.go:1955-1957`.

One more disagreement is stated by what holds instead of it. `README.md:184` and
`:276` name `maxTotal` as the slippage guard of a sweep. `sweep` compares it with the
total of its first pass and then buys in a second one through `doBuy` without a
`MaxTotalPrice` (`market.go:1325-1326`). Each `doBuy` reads price and amount again (287,
301) after the one before it has called the token and NFT contracts (334, 343). If
the account of one of those contracts is a seller and calls `updateListing` there,
the sweep spends more than its budget: run `views` reaches a sweep that has asked
for 4 with a budget of 3. `SweepDearerOnlyByRaise`, checked and proved for any depth of
calls, says that this is the only way: partial purchases, delistings and repeated
names never make a sweep dearer, and it never spends a second token.

Smaller divergences met while reading: `README.md` says an entry expires at its
expiration block, `isExpired` only after it; `README.md` describes rentals as
escrowing when listed, the code when rented; the comment at `market.go:1178-1179` counts on
cancel paths while paused, which an English auction with a bid and a rented item
do not have; a comment at `auction.go:480` reads as if a Dutch auction could not
be cancelled once started, the code lets the seller cancel it until it is sold;
`README.md:331` says every entrypoint emits an event, while `setFee`,
`setFeeRecipient`, `setMinOffer`, `setMinBidIncrement` and `setAntiSnipe` emit
none and `init` announces neither of the native tokens it puts on the whitelist.

What the log and the queries do not tell, though nothing says they should (the
`Told` operators and responses leave the same things out): `bid_placed` does not
carry an end that was put off, `auction_created` not the payment token;
`getAuction` of an auction that ended without a sale still shows the refunded
bidder; `swapProposed` has the contracts but not the items and amounts,
`bundle_listed` the number of items only, `rentalListed` neither amount nor
price, `royaltySplitsSet` only a count, `payment_token_added` not the decoder;
neither `getOffer` nor `offer_made` says what is in escrow. A swap with a top-up
in a native asset can be proposed and never accepted (a documented limitation;
in the model `Pay` cannot happen).

## Not modelled, and the plan

Not modelled on purpose:

* the JSON codec (`types_tinyjson.go`, generated), decimal parsing and formatting
  of amounts, character checks, the decoding of raw balances: pure functions of
  one input, for which tests are the better tool;
* the SDK and the runtime, which are the chain's interface, and the test doubles;
* the seed of a bucket's draw and its odds: a draw may find any unit;
* `unmap` and the DEX swap beyond their place in a sale: the contracts are not in
  the repository, and a call that fails undoes the sale;
* callbacks from the contract of an exchange or of `unmap`, of a native asset, and in
  the middle of a bucket purchase; purchases of listings and bundles inside swaps,
  mint-spot and token sales and the other way round, which share no record, only
  the balances;
* a pause or a removed payment token that is never taken back, under which an
  auction with a bid (`auction.go:348`, `:386`) and a rented item have no way out:
  the liveness properties exclude both by their premises;
* deposits made in a callback into offers and auctions. Their money stays in the
  market for good reason, and an outer measured deposit in the same token would
  credit it a second time (`internal.go:1348`); the contract relies on the owner
  to whitelist no token that lets a third party do this, and so do the modules;
* `height + blocks` in `rent` near 2^64: it takes a term of nearly 2^64 blocks,
  offered by the owner and asked for by the renter, whose loss it is.

What would come next: a sale of any kind inside one of any other kind, over one
pool; `Market`, auctions, offers and rentals over one pool and one
custody, the composition in which their balance invariants add up, and callbacks
into it.
