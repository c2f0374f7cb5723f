----------------------------- MODULE AuctionLog -----------------------------
(***************************************************************************)
(* Auctions as they are seen from outside: through getAuction, which       *)
(* answers from the record, and through the events, from which somebody    *)
(* keeps books of every auction.                                           *)
(***************************************************************************)
EXTENDS Auction, Events

VARIABLE
  books              \* what the events have told so far

-----------------------------------------------------------------------------
AuctionFound(id) == Sale(id).s # NoAccount

(* A bid that was refunded when the auction was settled without a sale is  *)
(* still shown.                                                            *)
GetAuction(id) ==
  LET au == Sale(id) IN
  [seller |-> au.s, item |-> au.item, amount |-> au.a, paymentToken |-> au.pt,
   auctionType |-> au.at, startPrice |-> au.sp, endPrice |-> au.ep,
   startBlock |-> au.sb, endBlock |-> au.eb, highBidder |-> au.hb,
   highBid |-> au.ha, active |-> au.act, settled |-> au.stl, feeBps |-> au.fb,
   royaltyBps |-> TotalBps(au.rs)]

AuctionResponse ==
  [seller : Accounts, item : Items, amount : Nat \ {0}, paymentToken : Tokens,
   auctionType : {"english", "dutch"}, startPrice : Nat \ {0}, endPrice : Nat,
   startBlock : Nat, endBlock : Nat, highBidder : Accounts \cup {NoAccount},
   highBid : Nat, active : BOOLEAN, settled : BOOLEAN, feeBps : 0 .. 10000,
   royaltyBps : 0 .. 5000]

-----------------------------------------------------------------------------
NoEntry == [known |-> FALSE]

(* The payment token is not told, nor an end that was put off.             *)
Told(b, e) ==
  CASE e.type = "auction_created" ->
         [b EXCEPT !.auctions[e.auctionId] =
            [known |-> TRUE, seller |-> e.seller, item |-> e.item, amount |-> e.amount,
             auctionType |-> e.auctionType, startPrice |-> e.startPrice,
             endPrice |-> e.endPrice, startBlock |-> e.startBlock,
             endBlock |-> e.endBlock, open |-> TRUE, bidder |-> NoAccount, bid |-> 0,
             winner |-> NoAccount, price |-> 0]]
    [] e.type = "bid_placed" ->
         [b EXCEPT !.auctions[e.auctionId].bidder = e.bidder,
                   !.auctions[e.auctionId].bid = e.bidAmount]
    [] e.type = "auction_settled" ->
         [b EXCEPT !.auctions[e.auctionId].open = FALSE,
                   !.auctions[e.auctionId].winner = e.winner,
                   !.auctions[e.auctionId].price = e.finalPrice]
    [] e.type = "auction_cancelled" -> [b EXCEPT !.auctions[e.auctionId].open = FALSE]
    [] e.type = "emergency_withdraw" -> [b EXCEPT !.withdrawn[e.contract] = @ + e.amount]

(* A step logs one event, or two in this order. *)
Log(e) == books' = Told(books, e)

LogBoth(e, f) == books' = Told(Told(books, e), f)

Silent == UNCHANGED books

-----------------------------------------------------------------------------
(* What the entrypoints log. *)

Created(s, i, n, kind, sp, ep, sb, eb) ==
  AuctionCreated(nextAuctionId, s, i, n, kind, sp, IF kind = "dutch" THEN ep ELSE 0,
                 IF sb = 0 THEN height ELSE sb, eb)

SoldTo(id, x, paid) ==
  AuctionSettled(id, x, paid, FeeOf(paid, Sale(id).fb), RoyaltyOf(paid, Sale(id).rs))

(* Mutant of NoSale: logged like a sale to the refunded bidder. *)
NoSaleToBidder(id) == SoldTo(id, Sale(id).hb, Sale(id).ha)

(* Also when a bid was standing and the collection is denied. *)
NoSale(id) == AuctionSettled(id, NoAccount, 0, 0, 0)

(* A Dutch auction's one bid settles it. *)
Bid(id, x, bid, arrived) ==
  LET au == Sale(id)
      price == DutchPrice(au.sp, au.ep, au.sb, au.eb, height) * au.a
      received == EscrowIn(au.pt, price, arrived)
  IN
  \/ /\ PlaceBidEnglish(id, x, bid, arrived)
     /\ Log(BidPlaced(id, x, EscrowIn(au.pt, bid, arrived)))
  \/ /\ PlaceBidDutch(id, x, bid, arrived)
     /\ LogBoth(BidPlaced(id, x, received), SoldTo(id, x, received))

Settle(id) ==
  \/ SettleNoSale(id) /\ Log(NoSale(id))
  \/ SettleSale(id) /\ Log(SoldTo(id, Sale(id).hb, Sale(id).ha))

LogInit ==
  /\ Init
  /\ books = [auctions |-> [id \in AuctionIds |-> NoEntry],
              withdrawn |-> [t \in Tokens |-> 0]]

(* Auction's Next, each step with what it logs. *)
LogNext ==
  \/ Environment /\ Silent
  \/ \E s \in Accounts, i \in Items, n \in LotSizes, t \in Tokens,
        kind \in AuctionTypes, sp \in StartPrices, ep \in EndPrices,
        sb \in StartBlocks, eb \in EndBlocks :
       /\ CreateAuction(s, i, n, t, kind, sp, ep, sb, eb)
       /\ Log(Created(s, i, n, kind, sp, ep, sb, eb))
  \/ \E id \in AuctionIds, x \in Accounts, bid \in Bids :
       \E arrived \in 0 .. bid : Bid(id, x, bid, arrived)
  \/ \E id \in AuctionIds : Settle(id)
  \/ \E id \in AuctionIds :
       CancelAuction(id) /\ Log(AuctionCancelled(id, Sale(id).s))
  \/ \E ixy \in OutsideTrades : TransferOutside(ixy[1], ixy[2], ixy[3]) /\ Silent

-----------------------------------------------------------------------------
(* Of an open auction log and query tell the same, but that the log does   *)
(* not know of a later end.  Once it is over the log tells who has the lot *)
(* and for how much, while the query may still show a bidder who got the   *)
(* bid back (the events of placeBid's two branches, settleAuction's three  *)
(* and cancelAuction).                                                     *)
LogTellsAuctions ==
  \A id \in AuctionIds :
    LET told == books.auctions[id]
        shown == GetAuction(id)
    IN
    /\ told.known <=> AuctionFound(id)
    /\ told.known =>
         /\ shown \in AuctionResponse
         /\ \A f \in {"seller", "item", "amount", "auctionType", "startPrice",
                       "endPrice", "startBlock"} : told[f] = shown[f]
         /\ told.endBlock <= shown.endBlock
         /\ told.bidder = shown.highBidder /\ told.bid = shown.highBid
         /\ told.open <=> shown.active /\ ~shown.settled
         /\ proceeds[id] = told.price
         /\ lotAt[id] = (IF told.open THEN Market
                         ELSE IF told.winner = NoAccount THEN told.seller ELSE told.winner)
=============================================================================
