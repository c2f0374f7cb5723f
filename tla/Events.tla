------------------------------- MODULE Events -------------------------------
(***************************************************************************)
(* What the contract tells the outside world: one record per call of an    *)
(* emit function, which logs it as JSON together with the id of the        *)
(* transaction.  Money is logged as a decimal string.  The events of a     *)
(* transaction that aborts are dropped with everything else it did.        *)
(***************************************************************************)

(* The settings. *)

InitMagiMarket(owner, feeBps, feeRecipient) ==
  [type |-> "init_magi_market", owner |-> owner, feeBps |-> feeBps,
   feeRecipient |-> feeRecipient]

OwnerTransferInitiated(owner, pending) ==
  [type |-> "ownerTransferInitiated", currentOwner |-> owner, pendingOwner |-> pending]

OwnerChange(previous, owner) ==
  [type |-> "ownerChange", previousOwner |-> previous, newOwner |-> owner]

OwnerTransferCancelled(by) == [type |-> "ownerTransferCancelled", by |-> by]

Paused(by) == [type |-> "paused", by |-> by]

Unpaused(by) == [type |-> "unpaused", by |-> by]

RoyaltySet(c, bps, recipient) ==
  [type |-> "royalty_set", nftContract |-> c, royaltyBps |-> bps,
   royaltyRecipient |-> recipient]

RoyaltySplitsSet(c, count) ==
  [type |-> "royaltySplitsSet", nftContract |-> c, count |-> count]

CollectionFeeSet(c, bps) ==
  [type |-> "collectionFeeSet", nftContract |-> c, feeBps |-> bps]

CollectionFeeCleared(c) == [type |-> "collectionFeeCleared", nftContract |-> c]

CollectionDenied(c, by) == [type |-> "collectionDenied", nftContract |-> c, by |-> by]

CollectionAllowedAgain(c, by) == [type |-> "collectionAllowed", nftContract |-> c, by |-> by]

(* `type` is payment_token_added or payment_token_removed. *)
PaymentToken(type, t) == [type |-> type, token |-> t]

EmergencyWithdrawn(t, amount, to) ==
  [type |-> "emergency_withdraw", contract |-> t, amount |-> amount, to |-> to]

-----------------------------------------------------------------------------
(* Listings and bundles. *)

Listed(id, s, i, n, p, t, exp) ==
  [type |-> "listed", listingId |-> id, seller |-> s, item |-> i, amount |-> n,
   pricePerUnit |-> p, paymentToken |-> t, expirationBlock |-> exp]

Delisted(id, s) == [type |-> "delisted", listingId |-> id, seller |-> s]

ListingUpdated(id, p) == [type |-> "listing_updated", listingId |-> id, newPrice |-> p]

Bought(id, x, n, total, fee, royalty) ==
  [type |-> "bought", listingId |-> id, buyer |-> x, amount |-> n,
   totalPrice |-> total, fee |-> fee, royalty |-> royalty]

Swept(x, count, total, t) ==
  [type |-> "swept", buyer |-> x, count |-> count, total |-> total, paymentToken |-> t]

BundleListed(id, s, c, count, p) ==
  [type |-> "bundle_listed", bundleId |-> id, seller |-> s, nftContract |-> c,
   count |-> count, price |-> p]

BundleBought(id, x, total, fee, royalty) ==
  [type |-> "bundle_bought", bundleId |-> id, buyer |-> x, totalPrice |-> total,
   fee |-> fee, royalty |-> royalty]

BundleDelisted(id, s) == [type |-> "bundle_delisted", bundleId |-> id, seller |-> s]

-----------------------------------------------------------------------------
(* Offers; `wants` stands for tokenId and isCollection. *)

OfferMade(id, b, c, wants, n, p, t, exp) ==
  [type |-> "offer_made", offerId |-> id, buyer |-> b, nftContract |-> c,
   wants |-> wants, amount |-> n, pricePerUnit |-> p, paymentToken |-> t,
   expirationBlock |-> exp]

OfferCancelled(id, b) == [type |-> "offer_cancelled", offerId |-> id, buyer |-> b]

OfferAccepted(id, s, b, n, total, fee, royalty, i) ==
  [type |-> "offer_accepted", offerId |-> id, seller |-> s, buyer |-> b,
   amount |-> n, totalPrice |-> total, fee |-> fee, royalty |-> royalty, item |-> i]

-----------------------------------------------------------------------------
(* Auctions. *)

AuctionCreated(id, s, i, n, type, startPrice, endPrice, startBlock, endBlock) ==
  [type |-> "auction_created", auctionId |-> id, seller |-> s, item |-> i,
   amount |-> n, auctionType |-> type, startPrice |-> startPrice,
   endPrice |-> endPrice, startBlock |-> startBlock, endBlock |-> endBlock]

BidPlaced(id, x, amount) ==
  [type |-> "bid_placed", auctionId |-> id, bidder |-> x, bidAmount |-> amount]

AuctionSettled(id, winner, price, fee, royalty) ==
  [type |-> "auction_settled", auctionId |-> id, winner |-> winner,
   finalPrice |-> price, fee |-> fee, royalty |-> royalty]

AuctionCancelled(id, s) == [type |-> "auction_cancelled", auctionId |-> id, seller |-> s]

-----------------------------------------------------------------------------
(* Swaps, mint spots and token sales. *)

SwapProposed(id, x, offered, wanted) ==
  [type |-> "swapProposed", swapId |-> id, proposer |-> x, offeredNft |-> offered,
   wantedNft |-> wanted]

SwapAccepted(id, x, y) ==
  [type |-> "swapAccepted", swapId |-> id, proposer |-> x, acceptor |-> y]

SwapCancelled(id, by) == [type |-> "swapCancelled", swapId |-> id, by |-> by]

MintSpotsListed(id, s, i, max) ==
  [type |-> "mint_spots_listed", listingId |-> id, lister |-> s, item |-> i,
   maxSpots |-> max]

MintSpotBought(id, x, n, received, fee) ==
  [type |-> "mint_spot_bought", listingId |-> id, buyer |-> x, amount |-> n,
   received |-> received, fee |-> fee]

MintSpotsDelisted(id, s) ==
  [type |-> "mint_spots_delisted", listingId |-> id, lister |-> s]

(* The events of token sales are put together by hand, all by one helper. *)
TokenListed(id, s, token, n, t, p, exp) ==
  [type |-> "token_listed", listingId |-> id, seller |-> s, tokenContract |-> token,
   amount |-> n, paymentToken |-> t, pricePerUnit |-> p, expirationBlock |-> exp]

TokenBought(id, x, n, total, fee) ==
  [type |-> "token_bought", listingId |-> id, buyer |-> x, amount |-> n,
   totalPrice |-> total, fee |-> fee]

TokenDelisted(id, s) == [type |-> "token_delisted", listingId |-> id, seller |-> s]

-----------------------------------------------------------------------------
(* Rentals. *)

RentalListed(id, o, i) == [type |-> "rentalListed", rentalId |-> id, owner |-> o, item |-> i]

Rented(id, x, until) ==
  [type |-> "rented", rentalId |-> id, renter |-> x, until |-> until]

(* endRental and returnRental say the same. *)
RentalEnded(id, by) == [type |-> "rentalEnded", rentalId |-> id, by |-> by]

RentalDelisted(id, o) == [type |-> "rentalDelisted", rentalId |-> id, owner |-> o]

-----------------------------------------------------------------------------
(* Buckets; `entries` tells item, units and stack of each. *)

BucketListed(id, s, c, t, single, pack, draws, exp, feeBps, royaltyBps, entries, units) ==
  [type |-> "bucket_listed", bucketId |-> id, seller |-> s, nftContract |-> c,
   paymentToken |-> t, pricePerDraw |-> single, pricePerPack |-> pack,
   packDraws |-> draws, expirationBlock |-> exp, feeBps |-> feeBps,
   royaltyBps |-> royaltyBps, entries |-> entries, units |-> units]

BucketRestocked(id, s, entries, total, units) ==
  [type |-> "bucket_restocked", bucketId |-> id, seller |-> s, entries |-> entries,
   totalEntries |-> total, unitsAdded |-> units]

BucketDraw(id, x, i, stack, index) ==
  [type |-> "bucket_draw", bucketId |-> id, buyer |-> x, item |-> i, stack |-> stack,
   drawIndex |-> index]

BucketPurchase(id, x, mode, draws, t, paid, fee, royalty, left) ==
  [type |-> "bucket_purchase", bucketId |-> id, buyer |-> x, mode |-> mode,
   draws |-> draws, paymentToken |-> t, paid |-> paid, fee |-> fee,
   royalty |-> royalty, unitsLeft |-> left]

BucketEntryDropped(id, i, stack, units) ==
  [type |-> "bucket_entry_dropped", bucketId |-> id, item |-> i, stack |-> stack,
   units |-> units]

BucketSoldOut(id, s) == [type |-> "bucket_sold_out", bucketId |-> id, seller |-> s]

BucketDelisted(id, s) == [type |-> "bucket_delisted", bucketId |-> id, seller |-> s]
=============================================================================
