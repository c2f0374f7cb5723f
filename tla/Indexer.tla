------------------------------- MODULE Indexer -------------------------------
(***************************************************************************)
(* The market as it is seen from outside: through its read-only queries,   *)
(* which answer from the state, and through its events, from which an      *)
(* indexer keeps books of its own.  Here are the settings, the listings    *)
(* and the bundles, each step with the events it logs.                     *)
(*                                                                         *)
(* setFee, setFeeRecipient, setMinBidIncrement, setAntiSnipeBlocks and     *)
(* setMinOffer log nothing; an indexer has to ask for those.               *)
(***************************************************************************)
EXTENDS Bundles, Events

CONSTANT
  MaxOnOffer         \* bound: listings, bundles and what Moved counts

VARIABLE
  books              \* the indexer's: what the events have told so far

ASSUME IndexerAssumption == MaxOnOffer \in Nat

-----------------------------------------------------------------------------
(* The queries. *)

GetInfo ==
  [owner |-> cfg.owner, feeBps |-> cfg.feeBps, feeRecipient |-> cfg.feeRecipient,
   paused |-> cfg.paused, minOffer |-> cfg.minOffer,
   minBidIncrementBps |-> cfg.minBidInc, antiSnipeBlocks |-> cfg.antiSnipe]

InfoResponse ==
  [owner : Accounts, feeBps : 0 .. 10000, feeRecipient : Accounts,
   paused : BOOLEAN, minOffer : Nat, minBidIncrementBps : 100 .. 10000,
   antiSnipeBlocks : Nat]

GetOwner == cfg.owner

GetPendingOwner == cfg.pendingOwner

IsPaused == cfg.paused

GetMinOffer == cfg.minOffer

IsPaymentTokenAllowed(t) == PaymentTokenAllowed(t)

IsCollectionDenied(c) == ~CollectionAllowed(c)

GetRoyalty(c) ==
  [royaltyBps |-> RoyaltyBps(c), royaltyRecipient |-> cfg.royalty[c].rcpt]

(* Which of the two ways the royalty was set in cannot be told. *)
GetRoyaltySplits(c) == ResolveRoyaltySplits(c)

GetEffectiveFee(c) == EffectiveFeeBps(c)

ListingFound(id) == Listing(id).s # NoAccount

(* The royalty is the sum of the splits, also for the listing's. *)
GetListing(id) ==
  LET l == Listing(id) IN
  [seller |-> l.s, item |-> l.item, amount |-> l.a, pricePerUnit |-> l.p,
   paymentToken |-> l.pt, active |-> l.act, expirationBlock |-> l.exp,
   feeBps |-> l.fb, royaltyBps |-> TotalBps(l.rs), startBlock |-> l.sb]

ListingResponse ==
  [seller : Accounts, item : Items, amount : Nat, pricePerUnit : Nat,
   paymentToken : Tokens, active : BOOLEAN, expirationBlock : Nat,
   feeBps : 0 .. 10000, royaltyBps : 0 .. 5000, startBlock : Nat]

BundleFound(id) == Bundle(id).s # NoAccount

(* Unlike a listing's, a bundle's fee and royalty are not told. *)
GetBundle(id) ==
  LET b == Bundle(id) IN
  [seller |-> b.s, nftContract |-> b.nc, items |-> b.its, paymentToken |-> b.pt,
   price |-> b.p, active |-> b.act, expirationBlock |-> b.exp]

BundleResponse ==
  [seller : Accounts, nftContract : Collections, items : Seq(BundleItem),
   paymentToken : Tokens, price : Nat, active : BOOLEAN, expirationBlock : Nat]

-----------------------------------------------------------------------------
(* The indexer. *)

NoEntry == [known |-> FALSE]

(* The whitelist init fills in is not among its events. *)
BooksAfterInit(e) ==
  [owner |-> e.owner, pendingOwner |-> NoAccount, paused |-> FALSE,
   tokens |-> NativeTokens, denied |-> {},
   fees |-> [c \in Collections |-> NoFee],
   royalties |-> [c \in Collections |-> [bps |-> 0, to |-> NoAccount, count |-> 0]],
   listings |-> [id \in ListingIds |-> NoEntry],
   bundles |-> [id \in BundleIds |-> NoEntry]]

(* royaltySplitsSet tells how many share, not how much. *)
Unknown == -1

SettingsTold(b, e) ==
  CASE e.type = "ownerTransferInitiated" -> [b EXCEPT !.pendingOwner = e.pendingOwner]
    [] e.type = "ownerChange" -> [b EXCEPT !.owner = e.newOwner, !.pendingOwner = NoAccount]
    [] e.type = "ownerTransferCancelled" -> [b EXCEPT !.pendingOwner = NoAccount]
    [] e.type = "paused" -> [b EXCEPT !.paused = TRUE]
    [] e.type = "unpaused" -> [b EXCEPT !.paused = FALSE]
    [] e.type = "payment_token_added" -> [b EXCEPT !.tokens = @ \cup {e.token}]
    [] e.type = "payment_token_removed" -> [b EXCEPT !.tokens = @ \ {e.token}]
    [] e.type = "collectionDenied" -> [b EXCEPT !.denied = @ \cup {e.nftContract}]
    [] e.type = "collectionAllowed" -> [b EXCEPT !.denied = @ \ {e.nftContract}]
    [] e.type = "collectionFeeSet" -> [b EXCEPT !.fees[e.nftContract] = e.feeBps]
    [] e.type = "collectionFeeCleared" -> [b EXCEPT !.fees[e.nftContract] = NoFee]
    [] e.type = "royalty_set" ->
         [b EXCEPT !.royalties[e.nftContract] =
            [bps |-> e.royaltyBps, to |-> e.royaltyRecipient,
             count |-> IF e.royaltyBps = 0 THEN 0 ELSE 1]]
    [] e.type = "royaltySplitsSet" ->
         [b EXCEPT !.royalties[e.nftContract] =
            [bps |-> Unknown, to |-> NoAccount, count |-> e.count]]
    [] OTHER -> b

(* A listing that has sold its last unit is over without an event of its   *)
(* own.                                                                    *)
ListingsTold(b, e) ==
  CASE e.type = "listed" ->
         [b EXCEPT !.listings[e.listingId] =
            [known |-> TRUE, seller |-> e.seller, item |-> e.item, amount |-> e.amount,
             pricePerUnit |-> e.pricePerUnit, paymentToken |-> e.paymentToken,
             expirationBlock |-> e.expirationBlock, active |-> TRUE,
             taken |-> 0, left |-> 0]]
    [] e.type = "delisted" -> [b EXCEPT !.listings[e.listingId].active = FALSE]
    [] e.type = "listing_updated" ->
         [b EXCEPT !.listings[e.listingId].pricePerUnit = e.newPrice]
    [] e.type = "bought" ->
         LET remaining == b.listings[e.listingId].amount - e.amount IN
         [b EXCEPT !.listings[e.listingId].amount = remaining,
                   !.listings[e.listingId].active = @ /\ remaining # 0,
                   !.listings[e.listingId].taken = @ + e.totalPrice,
                   !.listings[e.listingId].left =
                     @ + e.totalPrice - e.fee - e.royalty]
    [] OTHER -> b

(* A bundle's items, payment token and expiration are not told. *)
BundlesTold(b, e) ==
  CASE e.type = "bundle_listed" ->
         [b EXCEPT !.bundles[e.bundleId] =
            [known |-> TRUE, seller |-> e.seller, nftContract |-> e.nftContract,
             count |-> e.count, price |-> e.price, active |-> TRUE]]
    [] e.type \in {"bundle_delisted", "bundle_bought"} ->
         [b EXCEPT !.bundles[e.bundleId].active = FALSE]
    [] OTHER -> b

Told(b, e) == SettingsTold(ListingsTold(BundlesTold(b, e), e), e)

(* The events of a step, in the order in which they are logged. *)
Log(events) == books' = FoldLeft(Told, books, events)

Silent == UNCHANGED books

-----------------------------------------------------------------------------
(* Every entrypoint with what it logs. *)

(* The owner's entrypoints, and the collections' own. *)
Govern ==
  \/ \E f \in FeeChoices : SetFee(f) /\ Silent
  \/ \E x \in FeeRecipientChoices : SetFeeRecipient(x) /\ Silent
  \/ \E v \in MinBidIncChoices : SetMinBidIncrement(v) /\ Silent
  \/ \E v \in AntiSnipeChoices : SetAntiSnipeBlocks(v) /\ Silent
  \/ \E v \in MinOfferChoices : SetMinOffer(v) /\ Silent
  \/ \E cf \in CollectionFeeChoices :
       /\ SetCollectionFee(cf[1], cf[2])
       /\ Log(<<IF cf[2] = NoFee THEN CollectionFeeCleared(cf[1])
                ELSE CollectionFeeSet(cf[1], cf[2])>>)
  \/ \E cr \in RoyaltyChoices :
       /\ SetRoyalty(cr[1], cr[2])
       /\ Log(<<RoyaltySet(cr[1], cr[2].bps, cr[2].to)>>)
  \/ \E cs \in SplitChoices :
       /\ SetRoyaltySplits(cs[1], cs[2])
       /\ Log(<<RoyaltySplitsSet(cs[1], Len(cs[2]))>>)
  \/ \E p \in PauseChoices :
       /\ SetPaused(p)
       /\ Log(<<IF p THEN Paused(cfg.owner) ELSE Unpaused(cfg.owner)>>)
  \/ \E td \in AddTokenChoices :
       /\ AddPaymentToken(td[1], td[2])
       /\ Log(<<PaymentToken("payment_token_added", td[1])>>)
  \/ \E t \in RemoveTokenChoices :
       RemovePaymentToken(t) /\ Log(<<PaymentToken("payment_token_removed", t)>>)
  \/ \E c \in DenyChoices : DenyCollection(c) /\ Log(<<CollectionDenied(c, cfg.owner)>>)
  \/ \E c \in AllowChoices :
       AllowCollection(c) /\ Log(<<CollectionAllowedAgain(c, cfg.owner)>>)
  \/ \E x \in OwnerChoices :
       ChangeOwner(x) /\ Log(<<OwnerTransferInitiated(cfg.owner, x)>>)
  \/ AcceptOwnership /\ Log(<<OwnerChange(cfg.owner, cfg.pendingOwner)>>)
  \/ CancelOwnershipTransfer /\ Log(<<OwnerTransferCancelled(cfg.owner)>>)

(* One event per listing, also in a batch. *)
ListedAll(s, offered) ==
  [k \in DOMAIN offered |->
     LET o == offered[k] IN
     Listed(nextListingId + k - 1, s, o.item, o.n, o.p, o.pt, o.exp)]

(* The event of a purchase tells what was credited for it; a sweep's event *)
(* sums up what the first pass found.                                      *)
PurchaseEvents(f) ==
  LET bought == Bought(f.id, f.by, f.n, f.got, FeeOf(f.got, f.fb), RoyaltyOf(f.got, f.rs))
      swept_up == Swept(f.by, Len(f.orders), f.bill.total, f.pt)
  IN IF f.sweep /\ Len(f.todo) = 1 THEN <<bought, swept_up>> ELSE <<bought>>

(* The purchases in progress go on. *)
Purchases ==
  \/ NextOrder /\ Silent
  \/ \E arrived \in 0 .. (IF Idle THEN 0 ELSE Top.ask) : TakePayment(arrived) /\ Silent
  \/ GiveUnits /\ Silent
  \/ FinishOrder /\ Log(PurchaseEvents(Top))

Trade ==
  \/ \E s \in Accounts, offered \in ListsOf(Offered) :
       BatchList(s, offered) /\ Log(ListedAll(s, offered))
  \/ \E id \in ListingIds : Delist(id) /\ Log(<<Delisted(id, Listing(id).s)>>)
  \/ \E id \in ListingIds, p \in UnitPrices :
       UpdateListing(id, p) /\ Log(<<ListingUpdated(id, p)>>)
  \/ \E x \in Accounts, orders \in ListsOf(Orders) : BatchBuy(x, orders) /\ Silent
  \/ \E x \in Accounts, c \in Collections, ids \in ListsOf(ListingIds), budget \in Budgets :
       Sweep(x, c, ids, budget) /\ Silent
  \/ Purchases
  \/ \E ix \in Allowances : SetApproval(ix[1], ix[2]) /\ Silent
  \/ \E ixy \in OutsideTrades : TransferOutside(ixy[1], ixy[2], ixy[3]) /\ Silent

TradeInBundles ==
  \/ \E s \in Accounts, nc \in Collections, its \in Contents, p \in BundlePrices,
        t \in Tokens, exp \in BundleExpirations :
       /\ ListBundle(s, nc, its, p, t, exp)
       /\ Log(<<BundleListed(nextBundleId, s, nc, Len(its), p)>>)
  \/ \E id \in BundleIds : DelistBundle(id) /\ Log(<<BundleDelisted(id, Bundle(id).s)>>)
  \/ \E x \in Accounts, id \in BundleIds : BuyBundle(x, id) /\ Silent
  \/ GiveItem /\ Silent
  \/ FinishBundle /\ Log(<<LET f == Top IN
       BundleBought(f.id, f.by, f.got, FeeOf(f.got, f.fb), RoyaltyOf(f.got, f.rs))>>)

IndexerInit ==
  /\ BundleInit
  /\ books = BooksAfterInit(InitMagiMarket(cfg.owner, cfg.feeBps, cfg.feeRecipient))

(* How many settings are not as on the first day, how many tokens are not  *)
(* on the whitelist, and how many approvals have been withdrawn.           *)
Moved ==
  Cardinality({f \in DOMAIN cfg \ {"allowed", "decoder"} :
                 cfg[f] # InitialConfig(0, Deployer)[f]})
    + Cardinality({t \in Tokens : ~PaymentTokenAllowed(t)})
    + Cardinality((Items \X Accounts) \ approved)

(* bound: the more of these have moved, the less is on offer *)
Room == nextListingId + nextBundleId + Moved <= MaxOnOffer

IndexerNext ==
  /\ \/ Idle /\ Tick /\ Silent /\ UNCHANGED <<listingVars, bundleVars>>
     \/ Idle /\ Govern /\ UNCHANGED <<height, listingVars, bundleVars>>
     \/ Trade /\ BesidesBundles
     \/ TradeInBundles
  /\ Room'

IndexerSpec == IndexerInit /\ [][IndexerNext]_<<allVars, books>>

-----------------------------------------------------------------------------
(* What the queries answer, when there is anything to answer. *)
AnswersOK ==
  /\ BundleTypeOK
  /\ GetInfo \in InfoResponse
  /\ \A id \in ListingIds : ListingFound(id) => GetListing(id) \in ListingResponse
  /\ \A id \in BundleIds : BundleFound(id) => GetBundle(id) \in BundleResponse

SettingsAgree ==
  /\ GetInfo.owner = books.owner /\ GetInfo.paused = books.paused
  /\ GetOwner = GetInfo.owner /\ IsPaused = GetInfo.paused
  /\ GetMinOffer = GetInfo.minOffer
  /\ GetPendingOwner = books.pendingOwner
  /\ \A t \in Tokens : IsPaymentTokenAllowed(t) <=> t \in books.tokens
  /\ \A c \in Collections :
       LET r == books.royalties[c] IN
       /\ IsCollectionDenied(c) <=> c \in books.denied
       /\ GetEffectiveFee(c) = (IF books.fees[c] = NoFee THEN GetInfo.feeBps ELSE books.fees[c])
       /\ Len(GetRoyaltySplits(c)) = r.count
       /\ r.bps # Unknown => GetRoyalty(c) = [royaltyBps |-> r.bps, royaltyRecipient |-> r.to]

(* Units that are bought and not yet logged. *)
UnloggedUnits(op, id) ==
  LET mine(k) == k \in Unlogged(op, id)
      units(k) == calls[k].n
  IN SumOver(calls, mine, units)

(* A listing in its last purchases is over for the queries, but not yet    *)
(* for the log.                                                            *)
ListingAgrees(id) ==
  LET told == books.listings[id] IN
  /\ told.known <=> ListingFound(id)
  /\ told.known =>
       LET shown == GetListing(id) IN
       /\ \A f \in {"seller", "item", "pricePerUnit", "paymentToken",
                     "expirationBlock"} : told[f] = shown[f]
       /\ told.amount = shown.amount + UnloggedUnits("listing", id)
       /\ told.active <=>
            shown.active \/ (shown.amount = 0 /\ UnloggedUnits("listing", id) > 0)
       /\ told.taken = received[id] /\ told.left = proceeds[id]

BundleAgrees(id) ==
  LET told == books.bundles[id] IN
  /\ told.known <=> BundleFound(id)
  /\ told.known =>
       LET shown == GetBundle(id) IN
       /\ \A f \in {"seller", "nftContract", "price"} : told[f] = shown[f]
       /\ told.active <=> shown.active \/ UnloggedUnits("bundle", id) > 0
       /\ told.count = Len(shown.items)

(* The two ways to look at the market agree: an indexer that only ever     *)
(* reads the events has the owner and the candidate who may take over,     *)
(* the whitelist, bans, fees and royalties, every listing and bundle, what *)
(* buyers paid for it and what was left for its seller, exactly as the     *)
(* queries answer and the money moved, but for the purchases in progress   *)
(* (the emit calls at the end of the entrypoints, one per item in batches  *)
(* and sweeps, after all that a contract called in between has done).      *)
ViewsAgree ==
  /\ SettingsAgree
  /\ \A id \in ListingIds : ListingAgrees(id)
  /\ \A id \in BundleIds : BundleAgrees(id)
=============================================================================
