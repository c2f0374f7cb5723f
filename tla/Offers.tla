------------------------------- MODULE Offers -------------------------------
(***************************************************************************)
(* Offers to buy.  A buyer escrows the price of some units of one item, or *)
(* of any item of a collection, with the market; holders sell into the     *)
(* offer, in parts if they like, until it is filled, cancelled or expired. *)
(* What was escrowed and not spent goes back when the offer is cancelled,  *)
(* by the buyer at any time and by anybody once it has expired.            *)
(***************************************************************************)
EXTENDS Approvals, FcnSum, Events

CONSTANTS
  MaxOffers,         \* bound: offers made in a behaviour
  UnitPrices, Amounts, Expirations,   \* makeOffer's arguments
  AcceptAmounts      \* acceptOffer's argument, 0 for all that is left

VARIABLES
  offers,            \* of|<id>|... of every offer
  nextOfferId,       \* nxt_ofr
  paidIn,            \* history: what each offer brought in
  delivered,         \* history: units each offer's buyer received
  refunded,          \* history: what each offer's buyer got back
  books              \* what the events have told of every offer

history == <<paidIn, delivered, refunded>>
offerVars == <<offers, nextOfferId, approved, pool, nft, history>>
vars == <<marketVars, offerVars, books>>

OfferIds == 0 .. MaxOffers - 1

(* `wants` stands for ti, or for every item of nc when col is set. *)
OfferRecord ==
  [b : Accounts \cup {NoAccount}, nc : Collections, wants : SUBSET Items,
   a : Nat, p : Nat, pt : Tokens, act : BOOLEAN, exp : Nat, fb : Nat,
   rs : Seq(Split), esc : Nat]

ASSUME OfferAssumption ==
  /\ MaxOffers \in Nat /\ UnitPrices \subseteq Nat /\ Amounts \subseteq Nat
  /\ Expirations \subseteq Nat /\ AcceptAmounts \subseteq Nat

-----------------------------------------------------------------------------
Offer(id) == offers[id]

ItemsOf(c) == {i \in Items : CollectionOf[i] = c}

(* Several offers of a buyer may want the same item. *)
MakeOffer(b, c, wants, n, p, t, exp, arrived) ==
  LET received == EscrowIn(t, p * n, arrived) IN
  /\ ~cfg.paused
  /\ CollectionAllowed(c)
  /\ EffectiveFeeBps(c) + RoyaltyBps(c) <= 10000
  /\ p > 0 /\ n > 0
  /\ PaymentTokenAllowed(t)
  /\ p * n >= cfg.minOffer
  /\ arrived \in Arrivals(t, p * n)
  /\ ~EscrowAborts(t, arrived)
  /\ nextOfferId < MaxOffers
  /\ offers' = [offers EXCEPT ![nextOfferId] =
       [b |-> b, nc |-> c, wants |-> wants, a |-> n, p |-> p, pt |-> t,
        act |-> TRUE, exp |-> exp, fb |-> EffectiveFeeBps(c),
        rs |-> ResolveRoyaltySplits(c), esc |-> received]]
  /\ nextOfferId' = nextOfferId + 1
  /\ pool' = [pool EXCEPT ![t] = @ + arrived]
  /\ paidIn' = [paidIn EXCEPT ![nextOfferId] = arrived]
  /\ UNCHANGED <<marketVars, approved, nft, delivered, refunded>>

(* The buyer can always withdraw an offer, others once it has expired. *)
Withdrawable(id, x) ==
  Offer(id).act /\ (IsExpired(Offer(id).exp) \/ x = Offer(id).b)

(* Mutant of CancelOffer: stopped by a pause. *)
CancelOfferUnlessPaused(id, x) ==
  LET o == Offer(id) IN
  /\ ~cfg.paused
  /\ Withdrawable(id, x)
  /\ pool[o.pt] >= o.esc
  /\ offers' = [offers EXCEPT ![id].act = FALSE, ![id].esc = 0]
  /\ pool' = [pool EXCEPT ![o.pt] = @ - o.esc]
  /\ refunded' = [refunded EXCEPT ![id] = @ + o.esc]
  /\ UNCHANGED <<marketVars, nextOfferId, approved, nft, paidIn, delivered>>

(* Works while the contract is paused, whatever has become of the payment  *)
(* token and the collection.                                               *)
CancelOffer(id, x) ==
  LET o == Offer(id) IN
  /\ Withdrawable(id, x)
  /\ pool[o.pt] >= o.esc
  /\ offers' = [offers EXCEPT ![id].act = FALSE, ![id].esc = 0]
  /\ pool' = [pool EXCEPT ![o.pt] = @ - o.esc]
  /\ refunded' = [refunded EXCEPT ![id] = @ + o.esc]
  /\ UNCHANGED <<marketVars, nextOfferId, approved, nft, paidIn, delivered>>

Requested(id, n) == IF n = 0 THEN Offer(id).a ELSE n

(* Mutant of CanAccept: what was escrowed is not looked at. *)
CanAcceptUnbacked(id, s, i, n) ==
  LET o == Offer(id) IN
  /\ ~cfg.paused
  /\ o.act /\ ~IsExpired(o.exp)
  /\ i \in o.wants
  /\ s # o.b
  /\ CollectionAllowed(o.nc)
  /\ PaymentTokenAllowed(o.pt)
  /\ n <= o.a
  /\ CanPull(i, s)
  /\ CanMove(i, s, n)

(* What acceptOffer and acceptCollectionOffer require of seller s.  A      *)
(* token that delivered less than the price leaves an offer that can only  *)
(* be filled in part.                                                      *)
CanAccept(id, s, i, n) ==
  LET o == Offer(id) IN
  /\ ~cfg.paused
  /\ o.act /\ ~IsExpired(o.exp)
  /\ i \in o.wants
  /\ s # o.b
  /\ CollectionAllowed(o.nc)
  /\ PaymentTokenAllowed(o.pt)
  /\ n <= o.a
  /\ CanPull(i, s)
  /\ CanMove(i, s, n)
  /\ o.p * n <= o.esc

(* Mutant of Filled: what was spent stays in escrow. *)
FilledKeepingEscrow(id, n) ==
  LET left == Offer(id).a - n IN
  [offers EXCEPT ![id].act = (left # 0),
                 ![id].a = IF left = 0 THEN @ ELSE left]

(* An offer that is filled keeps its amount and is no longer active. *)
Filled(id, n) ==
  LET left == Offer(id).a - n IN
  [offers EXCEPT ![id].esc = @ - Offer(id).p * n,
                 ![id].act = (left # 0),
                 ![id].a = IF left = 0 THEN @ ELSE left]

(* s sells n units of i into the offer, all that is left of it if n is 0.  *)
(* The NFT contract moves soulbound items only for the owner of the        *)
(* collection, who does not trade here.                                    *)
AcceptOffer(id, s, i, requested) ==
  LET o == Offer(id)
      n == Requested(id, requested)
  IN
  /\ CanAccept(id, s, i, n)
  /\ i \notin Soulbound
  /\ Payable(o.p * n, o.fb, o.rs)
  /\ pool[o.pt] >= o.p * n
  /\ offers' = Filled(id, n)
  /\ nft' = Move(i, s, o.b, n)
  /\ Pulled(i, s)
  /\ pool' = [pool EXCEPT ![o.pt] = @ - o.p * n]
  /\ delivered' = [delivered EXCEPT ![id] = @ + n]
  /\ UNCHANGED <<marketVars, nextOfferId, paidIn, refunded>>

SetApproval(i, x) ==
  /\ FlipApproval(i, x)
  /\ UNCHANGED <<marketVars, offers, nextOfferId, pool, nft, history>>

(* Holders trade an item without the market. *)
TransferOutside(i, x, y) ==
  /\ i \notin Soulbound
  /\ x # y
  /\ \E n \in LotSizes : CanMove(i, x, n) /\ nft' = Move(i, x, y, n)
  /\ UNCHANGED <<marketVars, offers, nextOfferId, approved, pool, history>>

-----------------------------------------------------------------------------
(* The query, and the books of somebody who reads the events. *)

OfferFound(id) == Offer(id).b # NoAccount

(* What is in escrow is not told. *)
GetOffer(id) ==
  LET o == Offer(id) IN
  [buyer |-> o.b, nftContract |-> o.nc, wants |-> o.wants, amount |-> o.a,
   pricePerUnit |-> o.p, paymentToken |-> o.pt, active |-> o.act,
   expirationBlock |-> o.exp, feeBps |-> o.fb, royaltyBps |-> TotalBps(o.rs)]

OfferResponse ==
  [buyer : Accounts, nftContract : Collections, wants : SUBSET Items,
   amount : Nat \ {0}, pricePerUnit : Nat \ {0}, paymentToken : Tokens,
   active : BOOLEAN, expirationBlock : Nat, feeBps : 0 .. 10000,
   royaltyBps : 0 .. 5000]

NoEntry == [known |-> FALSE]

Told(b, e) ==
  CASE e.type = "offer_made" ->
         [b EXCEPT ![e.offerId] =
            [known |-> TRUE, buyer |-> e.buyer, nftContract |-> e.nftContract,
             wants |-> e.wants, amount |-> e.amount, pricePerUnit |-> e.pricePerUnit,
             paymentToken |-> e.paymentToken, expirationBlock |-> e.expirationBlock,
             open |-> TRUE, taken |-> 0, spent |-> 0]]
    [] e.type = "offer_cancelled" -> [b EXCEPT ![e.offerId].open = FALSE]
    [] e.type = "offer_accepted" ->
         [b EXCEPT ![e.offerId].taken = @ + e.amount,
                   ![e.offerId].spent = @ + e.totalPrice]

Log(e) == books' = Told(books, e)

Silent == UNCHANGED books

(* What acceptOffer logs, of what it was going to pay. *)
Accepted(id, s, i, n) ==
  LET o == Offer(id)
      total == o.p * n
  IN OfferAccepted(id, s, o.b, n, total, FeeOf(total, o.fb), RoyaltyOf(total, o.rs), i)

-----------------------------------------------------------------------------
NoOffer ==
  [b |-> NoAccount, nc |-> CHOOSE c \in Collections : TRUE, wants |-> {},
   a |-> 0, p |-> 0, pt |-> CHOOSE t \in Tokens : TRUE, act |-> FALSE,
   exp |-> 0, fb |-> 0, rs |-> <<>>, esc |-> 0]

Init ==
  /\ MarketInit
  /\ offers = [id \in OfferIds |-> NoOffer]
  /\ nextOfferId = 0
  /\ ApprovalInit
  /\ pool = [t \in Tokens |-> 0]
  /\ nft = [i \in Items |-> [x \in Holders |-> IF x = Market THEN 0 ELSE MintedTo[i][x]]]
  /\ paidIn = [id \in OfferIds |-> 0]
  /\ delivered = [id \in OfferIds |-> 0]
  /\ refunded = [id \in OfferIds |-> 0]
  /\ books = [id \in OfferIds |-> NoEntry]

Environment == (Tick \/ Configure) /\ UNCHANGED offerVars

(* The buyer is named, whoever cancels. *)
Cancel(id, x) == CancelOffer(id, x) /\ Log(OfferCancelled(id, Offer(id).b))

Next ==
  \/ Environment /\ Silent
  \/ \E b \in Accounts, c \in Collections, n \in Amounts, p \in UnitPrices,
        t \in Tokens, exp \in Expirations :
       \E wants \in {{i} : i \in ItemsOf(c)} \cup {ItemsOf(c)},
          arrived \in 0 .. p * n :
         /\ MakeOffer(b, c, wants, n, p, t, exp, arrived)
         /\ Log(OfferMade(nextOfferId, b, c, wants, n, p, t, exp))
  \/ \E id \in OfferIds, x \in Accounts : Cancel(id, x)
  \/ \E id \in OfferIds, s \in Accounts, i \in Items, n \in AcceptAmounts :
       AcceptOffer(id, s, i, n) /\ Log(Accepted(id, s, i, Requested(id, n)))
  \/ \E ix \in Allowances : SetApproval(ix[1], ix[2]) /\ Silent
  \/ \E ixy \in OutsideTrades : TransferOutside(ixy[1], ixy[2], ixy[3]) /\ Silent

Spec == Init /\ [][Next]_vars

(* Blocks keep coming, and somebody (the buyer, as a rule) sooner or later *)
(* submits cancelOffer for an offer that has expired.                      *)
FairSpec ==
  /\ Spec
  /\ WF_vars(Tick /\ UNCHANGED <<offerVars, books>>)
  /\ \A id \in OfferIds :
       WF_vars(IsExpired(Offer(id).exp) /\ \E x \in Accounts : Cancel(id, x))

-----------------------------------------------------------------------------
TypeOK ==
  /\ MarketTypeOK
  /\ offers \in [OfferIds -> OfferRecord]
  /\ nextOfferId \in 0 .. MaxOffers
  /\ approved \subseteq Items \X Accounts
  /\ pool \in [Tokens -> Nat]
  /\ nft \in [Items -> [Holders -> Nat]]
  /\ paidIn \in [OfferIds -> Nat] /\ delivered \in [OfferIds -> Nat]
  /\ refunded \in [OfferIds -> Nat]
  /\ \A id \in OfferIds : OfferFound(id) => GetOffer(id) \in OfferResponse

EscrowedIn(id, t) == IF Offer(id).pt = t THEN Offer(id).esc ELSE 0

(* The market's balance of every payment token is exactly what the offers  *)
(* in it still have in escrow: no offer is filled or refunded out of       *)
(* another's money, whatever arrived when it was made (makeOffer,          *)
(* acceptOffer, cancelOffer).  And the price of however many units are     *)
(* accepted can be cut by the fee and the royalties locked when the offer  *)
(* was made, whatever happened to the settings since: the payout is never  *)
(* what stops a sale.                                                      *)
EscrowBacked ==
  /\ \A t \in Tokens : pool[t] = Total([id \in OfferIds |-> EscrowedIn(id, t)])
  /\ \A id \in OfferIds :
       \A n \in 0 .. Offer(id).a : Payable(Offer(id).p * n, Offer(id).fb, Offer(id).rs)

(* What the log tells of an offer is what the query shows: a filled offer  *)
(* is over without an event of its own, and the query keeps its last       *)
(* amount.                                                                 *)
OfferTold(id) ==
  LET told == books[id]
      shown == GetOffer(id)
  IN
  /\ told.known <=> OfferFound(id)
  /\ told.known =>
       /\ \A f \in {"buyer", "nftContract", "wants", "pricePerUnit", "paymentToken",
                     "expirationBlock"} : told[f] = shown[f]
       /\ told.taken = delivered[id] /\ told.spent = shown.pricePerUnit * told.taken
       /\ shown.active <=> told.open /\ told.taken # told.amount
       /\ shown.active => shown.amount = told.amount - told.taken

(* Everything a buyer paid in is still in escrow, was spent at the price   *)
(* of the offer on units that reached the buyer, or came back; an offer    *)
(* that is over has nothing left in escrow that nobody could ask for; and  *)
(* what is in escrow never exceeds what can still be spent.  Log and query *)
(* tell of it truly.                                                       *)
BuyersAccount ==
  \A id \in OfferIds :
    LET o == Offer(id) IN
    /\ paidIn[id] = o.esc + o.p * delivered[id] + refunded[id]
    /\ ~o.act => o.esc = 0
    /\ o.act => o.esc <= o.p * o.a
    /\ OfferTold(id)

(* An offer with an expiration comes to an end with nothing left in        *)
(* escrow, also when the contract is paused for good, the collection       *)
(* denied or the payment token taken off the whitelist.                    *)
ExpiredOffersEnd ==
  \A id \in OfferIds :
    (Offer(id).act /\ IsExpired(Offer(id).exp)) ~> (~Offer(id).act /\ Offer(id).esc = 0)
=============================================================================
