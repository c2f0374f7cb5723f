------------------------------ MODULE Auction -------------------------------
(***************************************************************************)
(* English and Dutch auctions.  The lot is escrowed with the market while  *)
(* the auction is active.  An English auction also escrows the standing    *)
(* bid and returns the one it replaces; anybody may settle it once its     *)
(* last block has passed.  A Dutch auction is sold to the first bid that   *)
(* meets the current price, in one transaction.                            *)
(*                                                                         *)
(* A lot is `amount` units of an item, an item being one token id of an    *)
(* NFT contract.  Which account receives which part of a payout is left    *)
(* out: what leaves the market's balance is counted in `proceeds`.         *)
(***************************************************************************)
EXTENDS Custody, FcnSum

CONSTANTS
  MaxAuctions,       \* bound: auctions created in a behaviour
  StartPrices, EndPrices, StartBlocks, EndBlocks,  \* createAuction's arguments
  AuctionTypes,      \* "english", "dutch"
  Bids               \* placeBid's arguments

VARIABLES
  auctions,          \* au|<id>|... of every auction
  nextAuctionId,     \* nxt_auc
  lotAt,             \* history: where each auction's lot is
  stake,             \* history: what each account paid in and did not get back
  proceeds           \* history: what each auction paid out

auctionVars == <<auctions, nextAuctionId, pool, nft, lotAt, stake, proceeds>>
vars == <<marketVars, auctionVars>>

AuctionIds == 0 .. MaxAuctions - 1

AuctionRecord ==
  [s : Accounts \cup {NoAccount}, item : Items, a : Nat, pt : Tokens,
   at : {"english", "dutch"}, sp : Nat, ep : Nat, sb : Nat, eb : Nat,
   act : BOOLEAN, stl : BOOLEAN, fb : Nat, rs : Seq(Split),
   hb : Accounts \cup {NoAccount}, ha : Nat]

ASSUME AuctionAssumption ==
  /\ MaxAuctions \in Nat
  /\ StartPrices \subseteq Nat /\ EndPrices \subseteq Nat
  /\ StartBlocks \subseteq Nat /\ EndBlocks \subseteq Nat /\ Bids \subseteq Nat
  /\ AuctionTypes \subseteq {"english", "dutch"}

-----------------------------------------------------------------------------
(* Mutant of DutchPrice: the discount is rounded up instead of down. *)
DutchPriceRoundedDown(sp, ep, sb, eb, now) ==
  IF now <= sb THEN sp
  ELSE IF now >= eb THEN ep
  ELSE sp - ((sp - ep) * (now - sb) + eb - sb - 1) \div (eb - sb)

(* The price of a running Dutch auction falls from sp at its first block   *)
(* to ep at its last, rounded in the seller's favour.                      *)
DutchPrice(sp, ep, sb, eb, now) ==
  IF now <= sb THEN sp
  ELSE IF now >= eb THEN ep
  ELSE sp - ((sp - ep) * (now - sb)) \div (eb - sb)

Nobody == [x \in Accounts |-> 0]

Only(x, v) == [y \in Accounts |-> IF y = x THEN v ELSE 0]

Sale(id) == auctions[id]

HasBid(id) == Sale(id).hb # NoAccount /\ Sale(id).ha # 0

(* isAuctionActive and not isAuctionSettled. *)
IsOpen(id) == Sale(id).act /\ ~Sale(id).stl

-----------------------------------------------------------------------------
(* Everything createAuction does but one check. *)
OpenAuction(s, i, n, t, kind, sp, ep, sb, eb) ==
  LET first == IF sb = 0 THEN height ELSE sb
      c == CollectionOf[i]
  IN
  /\ ~cfg.paused
  /\ n > 0 /\ sp > 0
  /\ eb > height
  /\ PaymentTokenAllowed(t)
  /\ kind = "dutch" => ep < sp /\ first < eb
  /\ i \notin Soulbound
  /\ CollectionAllowed(c)
  /\ CanMove(i, s, n)
  /\ nextAuctionId < MaxAuctions
  /\ auctions' = [auctions EXCEPT ![nextAuctionId] =
       [s |-> s, item |-> i, a |-> n, pt |-> t, at |-> kind,
        sp |-> sp, ep |-> IF kind = "dutch" THEN ep ELSE 0,
        sb |-> first, eb |-> eb, act |-> TRUE, stl |-> FALSE,
        fb |-> EffectiveFeeBps(c), rs |-> ResolveRoyaltySplits(c),
        hb |-> NoAccount, ha |-> 0]]
  /\ nextAuctionId' = nextAuctionId + 1
  /\ nft' = Move(i, s, Market, n)
  /\ lotAt' = [lotAt EXCEPT ![nextAuctionId] = Market]
  /\ UNCHANGED <<marketVars, pool, stake, proceeds>>

(* Mutant of CreateAuction: fee and royalty are not checked together. *)
CreateAuctionUnchecked(s, i, n, t, kind, sp, ep, sb, eb) ==
  OpenAuction(s, i, n, t, kind, sp, ep, sb, eb)

CreateAuction(s, i, n, t, kind, sp, ep, sb, eb) ==
  /\ EffectiveFeeBps(CollectionOf[i]) + RoyaltyBps(CollectionOf[i]) <= 10000
  /\ OpenAuction(s, i, n, t, kind, sp, ep, sb, eb)

(* What placeBid requires of either kind of auction. *)
BidAccepted(id, x) ==
  /\ ~cfg.paused
  /\ IsOpen(id)
  /\ Sale(id).sb <= height /\ height <= Sale(id).eb
  /\ x # Sale(id).s
  /\ PaymentTokenAllowed(Sale(id).pt)
  /\ CollectionAllowed(CollectionOf[Sale(id).item])

(* The checks on the nominal amount of an English bid. *)
BidHighEnough(id, bid) ==
  LET au == Sale(id) IN
  /\ bid > 0
  /\ bid >= au.sp * au.a
  /\ au.ha # 0 => /\ bid > au.ha
                  /\ bid >= au.ha + MulBpsDiv(au.ha, EffectiveMinBidInc)

(* Mutant of ExtendedEnd: one block short. *)
ExtendedEndShort(eb) ==
  IF cfg.antiSnipe > 0 /\ eb - height < cfg.antiSnipe - 1
  THEN (height + cfg.antiSnipe - 1) % Word
  ELSE eb

(* A bid in the last antiSnipe blocks puts the end off; the sum of the two *)
(* uint64 numbers wraps.                                                   *)
ExtendedEnd(eb) ==
  IF cfg.antiSnipe > 0 /\ eb - height < cfg.antiSnipe
  THEN (height + cfg.antiSnipe) % Word
  ELSE eb

(* Mutant of Refund: the replaced bid is not returned. *)
RefundForgotten(id) == 0

(* What goes back to the standing bidder when the bid is replaced or void. *)
Refund(id) == IF HasBid(id) THEN Sale(id).ha ELSE 0

(* The new bid comes in before the old one goes out, and what is stored,   *)
(* and later paid out, is what came in rather than what was offered.       *)
ReplaceBid(id, x, received, arrived) ==
  LET au == Sale(id) IN
  /\ pool[au.pt] + arrived >= Refund(id)
  /\ auctions' = [auctions EXCEPT ![id].hb = x, ![id].ha = received,
                                  ![id].eb = ExtendedEnd(au.eb)]
  /\ pool' = [pool EXCEPT ![au.pt] = @ + arrived - Refund(id)]
  /\ stake' = [stake EXCEPT ![id] =
       [y \in Accounts |->
          (IF y = au.hb THEN @[y] - Refund(id) ELSE @[y])
            + (IF y = x THEN received ELSE 0)]]
  /\ UNCHANGED <<marketVars, nextAuctionId, nft, lotAt, proceeds>>

(* Mutant of RefundCovered: no second comparison. *)
RefundNotCompared(id, received) == TRUE

(* The comparison with the standing bid is repeated on what came in. *)
RefundCovered(id, received) == Sale(id).ha # 0 => received > Sale(id).ha

PlaceBidEnglish(id, x, bid, arrived) ==
  LET received == EscrowIn(Sale(id).pt, bid, arrived) IN
  /\ Sale(id).at = "english"
  /\ BidAccepted(id, x)
  /\ BidHighEnough(id, bid)
  /\ arrived \in Arrivals(Sale(id).pt, bid)
  /\ ~EscrowAborts(Sale(id).pt, arrived)
  /\ RefundCovered(id, received)
  /\ ReplaceBid(id, x, received, arrived)

(* The buyer declares at most `bid` and pays the current price. *)
PlaceBidDutch(id, x, bid, arrived) ==
  LET au == Sale(id)
      price == DutchPrice(au.sp, au.ep, au.sb, au.eb, height) * au.a
      received == EscrowIn(au.pt, price, arrived)
  IN
  /\ au.at = "dutch"
  /\ BidAccepted(id, x)
  /\ bid >= price
  /\ arrived \in Arrivals(au.pt, price)
  /\ ~EscrowAborts(au.pt, arrived)
  /\ received >= price
  /\ CanMove(au.item, Market, au.a)
  /\ Payable(received, au.fb, au.rs)
  /\ pool[au.pt] + arrived >= received
  /\ auctions' = [auctions EXCEPT ![id].hb = x, ![id].ha = received,
                                  ![id].stl = TRUE, ![id].act = FALSE]
  /\ pool' = [pool EXCEPT ![au.pt] = @ + arrived - received]
  /\ nft' = Move(au.item, Market, x, au.a)
  /\ lotAt' = [lotAt EXCEPT ![id] = x]
  /\ stake' = [stake EXCEPT ![id][x] = @ + received]
  /\ proceeds' = [proceeds EXCEPT ![id] = @ + received]
  /\ UNCHANGED <<marketVars, nextAuctionId>>

PlaceBid(id, x, bid, arrived) ==
  PlaceBidEnglish(id, x, bid, arrived) \/ PlaceBidDutch(id, x, bid, arrived)

(* What settleAuction requires; who calls it does not matter. *)
CanSettle(id) ==
  /\ ~cfg.paused
  /\ IsOpen(id)
  /\ Sale(id).at = "english"
  /\ height > Sale(id).eb
  /\ PaymentTokenAllowed(Sale(id).pt)
  /\ CanMove(Sale(id).item, Market, Sale(id).a)

(* Mutant of IsVoid: a denied collection is not treated as unsold. *)
IsVoidOnlyUnsold(id) ==
  ~HasBid(id) /\ CollectionAllowed(CollectionOf[Sale(id).item])

(* An ended auction comes to nothing without a bid, or when the collection *)
(* was denied in the meantime.                                             *)
IsVoid(id) == ~CollectionAllowed(CollectionOf[Sale(id).item]) \/ ~HasBid(id)

Closed(id) == [auctions EXCEPT ![id].stl = TRUE, ![id].act = FALSE]

(* No sale: the lot goes back to the seller, a standing bid to its bidder. *)
SettleNoSale(id) ==
  LET au == Sale(id) IN
  /\ CanSettle(id)
  /\ IsVoid(id)
  /\ pool[au.pt] >= Refund(id)
  /\ auctions' = Closed(id)
  /\ nft' = Move(au.item, Market, au.s, au.a)
  /\ pool' = [pool EXCEPT ![au.pt] = @ - Refund(id)]
  /\ lotAt' = [lotAt EXCEPT ![id] = au.s]
  /\ stake' = [stake EXCEPT ![id] =
       [y \in Accounts |-> IF y = au.hb THEN @[y] - Refund(id) ELSE @[y]]]
  /\ UNCHANGED <<marketVars, nextAuctionId, proceeds>>

(* The lot goes to the winner; fee, royalties and the rest go out. *)
SettleSale(id) ==
  LET au == Sale(id) IN
  /\ CanSettle(id)
  /\ CollectionAllowed(CollectionOf[au.item]) /\ HasBid(id)
  /\ Payable(au.ha, au.fb, au.rs)
  /\ pool[au.pt] >= au.ha
  /\ auctions' = Closed(id)
  /\ nft' = Move(au.item, Market, au.hb, au.a)
  /\ pool' = [pool EXCEPT ![au.pt] = @ - au.ha]
  /\ lotAt' = [lotAt EXCEPT ![id] = au.hb]
  /\ proceeds' = [proceeds EXCEPT ![id] = @ + au.ha]
  /\ UNCHANGED <<marketVars, nextAuctionId, stake>>

SettleAuction(id) == SettleNoSale(id) \/ SettleSale(id)

(* Mutant of CanCancel: an auction somebody bid on can be cancelled. *)
CanCancelWithBid(id) == IsOpen(id)

(* Mutant of CanCancel: an auction that is over can be cancelled again. *)
CanCancelAgain(id) == Sale(id).s # NoAccount /\ ~HasBid(id)

CanCancel(id) ==
  /\ IsOpen(id)
  /\ Sale(id).at = "english" => Sale(id).hb = NoAccount

(* Signed by the seller; works while the contract is paused. *)
CancelAuction(id) ==
  LET au == Sale(id) IN
  /\ CanCancel(id)
  /\ CanMove(au.item, Market, au.a)
  /\ auctions' = [auctions EXCEPT ![id].act = FALSE]
  /\ nft' = Move(au.item, Market, au.s, au.a)
  /\ lotAt' = [lotAt EXCEPT ![id] = au.s]
  /\ UNCHANGED <<marketVars, nextAuctionId, pool, stake, proceeds>>

(* Holders trade an item without the market. *)
TransferOutside(i, x, y) ==
  /\ i \notin Soulbound
  /\ x # y
  /\ \E n \in LotSizes :
       /\ CanMove(i, x, n)
       /\ nft' = Move(i, x, y, n)
  /\ UNCHANGED <<marketVars, auctions, nextAuctionId, pool, lotAt, stake, proceeds>>

-----------------------------------------------------------------------------
NoRecord ==
  [s |-> NoAccount, item |-> CHOOSE i \in Items : TRUE, a |-> 0,
   pt |-> CHOOSE t \in Tokens : TRUE, at |-> "english", sp |-> 0, ep |-> 0,
   sb |-> 0, eb |-> 0, act |-> FALSE, stl |-> FALSE, fb |-> 0, rs |-> <<>>,
   hb |-> NoAccount, ha |-> 0]

Init ==
  /\ MarketInit
  /\ auctions = [id \in AuctionIds |-> NoRecord]
  /\ nextAuctionId = 0
  /\ pool = [t \in Tokens |-> 0]
  /\ nft = [i \in Items |-> [x \in Holders |-> IF x = Market THEN 0 ELSE MintedTo[i][x]]]
  /\ lotAt = [id \in AuctionIds |-> NoAccount]
  /\ stake = [id \in AuctionIds |-> Nobody]
  /\ proceeds = [id \in AuctionIds |-> 0]

Environment == (Tick \/ Configure) /\ UNCHANGED auctionVars

Next ==
  \/ Environment
  \/ \E s \in Accounts, i \in Items, n \in LotSizes, t \in Tokens,
        kind \in AuctionTypes, sp \in StartPrices, ep \in EndPrices,
        sb \in StartBlocks, eb \in EndBlocks :
       CreateAuction(s, i, n, t, kind, sp, ep, sb, eb)
  \/ \E id \in AuctionIds, x \in Accounts, bid \in Bids :
       \E arrived \in 0 .. bid : PlaceBid(id, x, bid, arrived)
  \/ \E id \in AuctionIds : SettleAuction(id)
  \/ \E id \in AuctionIds : CancelAuction(id)
  \/ \E ixy \in OutsideTrades : TransferOutside(ixy[1], ixy[2], ixy[3])

Spec == Init /\ [][Next]_vars

(* Blocks keep coming, and somebody with an interest in the outcome (the   *)
(* seller, the winner) sooner or later submits settleAuction once it would *)
(* go through.  Nothing else is assumed: nobody has to bid, cancel, lift a *)
(* ban or end a pause.                                                     *)
FairSpec ==
  /\ Spec
  /\ WF_vars(Tick /\ UNCHANGED auctionVars)
  /\ \A id \in AuctionIds : WF_vars(SettleAuction(id))

-----------------------------------------------------------------------------
TypeOK ==
  /\ MarketTypeOK
  /\ auctions \in [AuctionIds -> AuctionRecord]
  /\ nextAuctionId \in 0 .. MaxAuctions
  /\ pool \in [Tokens -> Nat]
  /\ nft \in [Items -> [Holders -> Nat]]
  /\ lotAt \in [AuctionIds -> Holders \cup {NoAccount}]
  /\ stake \in [AuctionIds -> [Accounts -> Nat]]
  /\ proceeds \in [AuctionIds -> Nat]

(* The bid an auction holds in escrow in token t, 0 once it is over. *)
EscrowedBid(id, t) ==
  IF IsOpen(id) /\ Sale(id).pt = t THEN Sale(id).ha ELSE 0

EscrowedUnits(id, i) ==
  IF IsOpen(id) /\ Sale(id).item = i THEN Sale(id).a ELSE 0

(* The market's balance of every payment token is exactly the sum of the   *)
(* standing bids in it: no bid is refunded or paid out twice, none from    *)
(* another auction's escrow, and none is left behind (placeBid,            *)
(* settleAuction, and escrowIn for tokens that deliver less than asked).   *)
BidsBacked ==
  \A t \in Tokens :
    pool[t] = Total([id \in AuctionIds |-> EscrowedBid(id, t)])

(* The market holds exactly the units of the auctions that are open, so    *)
(* that each of several auctions of one item can be settled or cancelled.  *)
LotsHeld ==
  \A i \in Items :
    nft[i][Market] = Total([id \in AuctionIds |-> EscrowedUnits(id, i)])

Untouched(id) ==
  /\ ~Sale(id).act /\ ~Sale(id).stl /\ Sale(id).s = NoAccount
  /\ lotAt[id] = NoAccount /\ stake[id] = Nobody /\ proceeds[id] = 0

Running(id) ==
  /\ IsOpen(id) /\ lotAt[id] = Market /\ proceeds[id] = 0
  /\ Sale(id).s \in Accounts
  /\ \/ Sale(id).hb = NoAccount /\ Sale(id).ha = 0 /\ stake[id] = Nobody
     \/ /\ Sale(id).at = "english" /\ Sale(id).hb \in Accounts \ {Sale(id).s}
        /\ Sale(id).ha > 0 /\ stake[id] = Only(Sale(id).hb, Sale(id).ha)

Sold(id) ==
  /\ ~IsOpen(id) /\ Sale(id).s \in Accounts
  /\ Sale(id).hb \in Accounts \ {Sale(id).s} /\ lotAt[id] = Sale(id).hb
  /\ stake[id] = Only(Sale(id).hb, Sale(id).ha) /\ proceeds[id] = Sale(id).ha

Returned(id) ==
  /\ ~IsOpen(id) /\ Sale(id).s \in Accounts
  /\ lotAt[id] = Sale(id).s /\ stake[id] = Nobody /\ proceeds[id] = 0

(* Every auction is in one of four situations in which the record, the lot *)
(* and everybody's money agree.  In particular whoever was outbid has      *)
(* everything back, and the lot leaves for a bidder exactly when that      *)
(* bidder's money leaves for the seller's side (placeBid, settleAuction    *)
(* with its three branches, cancelAuction).                                *)
LotFollowsMoney ==
  \A id \in AuctionIds :
    IF id >= nextAuctionId THEN Untouched(id)
    ELSE Running(id) \/ Sold(id) \/ Returned(id)

(* Nothing settleAuction or cancelAuction needs is ever missing while an   *)
(* auction is open: its lot is with the market, its bid is in the market's *)
(* balance, and the bid can be cut into fee, royalties and the seller's    *)
(* part under the terms locked at creation, whatever happened to the fee   *)
(* and royalty settings since.  Their own checks of these never fire.      *)
NothingMissing ==
  \A id \in AuctionIds :
    IsOpen(id) =>
      /\ CanMove(Sale(id).item, Market, Sale(id).a)
      /\ pool[Sale(id).pt] >= Sale(id).ha
      /\ Payable(Sale(id).ha, Sale(id).fb, Sale(id).rs)

(* The price asked for a unit of Dutch auction id in block now. *)
AskedAt(id, now) ==
  DutchPrice(Sale(id).sp, Sale(id).ep, Sale(id).sb, Sale(id).eb, now)

(* The discount the straight line from start to end price allows.          *)
WithinDiscount(id, now) ==
  LET au == Sale(id) IN
  (au.sp - AskedAt(id, now)) * (au.eb - au.sb) <= (au.sp - au.ep) * (now - au.sb)

(* The price of a Dutch auction starts at sp, ends at ep, never rises from *)
(* one block to the next and rounding never takes it below the line the    *)
(* seller was promised; so a lot that a bidder has was paid for in full,   *)
(* at a unit price between the two (getDutchAuctionCurrentPriceBig and its *)
(* use in placeBid).                                                       *)
DutchPriceFalls ==
  \A id \in 0 .. nextAuctionId - 1 :
    Sale(id).at = "dutch" =>
      /\ AskedAt(id, Sale(id).sb) = Sale(id).sp
      /\ AskedAt(id, Sale(id).eb) = Sale(id).ep
      /\ \A now \in Sale(id).sb .. Sale(id).eb :
           /\ AskedAt(id, now) \in Sale(id).ep .. Sale(id).sp
           /\ AskedAt(id, now + 1) <= AskedAt(id, now)
           /\ WithinDiscount(id, now)
      /\ lotAt[id] \notin {Market, Sale(id).s} =>
           proceeds[id] \in Sale(id).ep * Sale(id).a .. Sale(id).sp * Sale(id).a

(* An accepted bid never brings the end of an auction forward and leaves   *)
(* the others at least antiSnipe blocks to answer it.                      *)
BidLeavesTime ==
  [][\A id \in AuctionIds :
       IsOpen(id) /\ Sale(id).at = "english" /\ Sale(id)'.ha # Sale(id).ha =>
         /\ Sale(id)'.eb >= Sale(id).eb
         /\ Sale(id)'.eb >= height + cfg.antiSnipe]_vars

(* Seen through its lot and its money, an auction is a sale under escrow. *)
SaleView ==
  INSTANCE AtomicSale WITH
    Sales <- AuctionIds,
    seller <- [id \in AuctionIds |-> Sale(id).s]

SaleSpec == SaleView!Spec
=============================================================================
