------------------------------ MODULE Listings ------------------------------
(***************************************************************************)
(* Fixed-price listings.  The seller keeps the units and the market moves  *)
(* them at the moment of the sale, so everything checked when a listing is *)
(* made may have changed when it is bought: the units may be gone, the     *)
(* approval withdrawn, the price another one.  Several purchases can go in *)
(* one transaction, as a batch or as a sweep of a collection under one     *)
(* budget; then either all of them happen or none.                         *)
(*                                                                         *)
(* Each purchase of a transaction calls the token contract, the NFT        *)
(* contract and the token contract again, and reads its listing only when  *)
(* the ones before it are through.  A contract that is called may list,    *)
(* delist, reprice and buy in the meantime.                                *)
(***************************************************************************)
EXTENDS Calls, SequencesExt

CONSTANTS
  MaxListings,       \* bound: listings made in a behaviour
  MaxOrders,         \* bound: listings made or bought in one transaction
                     \* (20 in a batch, any number in a sweep)
  Offered,           \* list's arguments
  UnitPrices,        \* updateListing's arguments
  Orders,            \* buy's arguments
  Budgets            \* sweep's maxTotal

VARIABLES
  listings,          \* ls|<id>|... of every listing
  nextListingId,     \* nxt_lst
  listed,            \* history: units each listing was made for
  sold,              \* history: units that went to buyers
  received,          \* history: what buyers' payments brought in
  proceeds,          \* history: what was left for the seller
  swept              \* history: the bill of the last sweep

history == <<listed, sold, received, proceeds, swept>>
listingVars == <<listings, nextListingId, calls, approved, pool, nft, history>>
vars == <<marketVars, listingVars>>

ListingIds == 0 .. MaxListings - 1

(* How the seller is paid: in the payment token, withdrawn to another      *)
(* chain, or swapped at an exchange.  Each is one call that takes the      *)
(* seller's part out of the market's balance; a call that fails, as an     *)
(* exchange does below the price asked for, takes the sale with it.        *)
Payouts == {"transfer", "unmap", "dex"}

ListingRecord ==
  [s : Accounts \cup {NoAccount}, item : Items, a : Nat, p : Nat, pt : Tokens,
   act : BOOLEAN, exp : Nat, sb : Nat, pm : Payouts, fb : Nat, rs : Seq(Split)]

Offering ==
  [item : Items, n : Nat, p : Nat, pt : Tokens, exp : Nat, sb : Nat, pm : Payouts]

NoCap == -1          \* MaxTotalPrice is not given

Whole == -1          \* all that is left when the order's turn comes

Order == [id : ListingIds, n : Nat \cup {Whole}, cap : Nat \cup {NoCap}]

(* A sweep's budget, the total of its first pass, and history: what it has *)
(* asked for so far, and whether a listing that it had yet to buy has been *)
(* made dearer since the first pass.                                       *)
Bill == [budget : Nat, total : Nat, cost : [Tokens -> Nat], raised : BOOLEAN]

(* The local variables of a purchase: its caller, the listing or bundle    *)
(* being bought and the number of units, the token and what is asked for,  *)
(* the NFT contract, the locked terms, the balance read before the         *)
(* payment, what was credited, the calls still to make, with "next" at the *)
(* end if another listing is to come, the orders, and how many of them (or *)
(* of a bundle's items) have had their turn.                               *)
Frame ==
  [op : {"listing", "bundle"}, id : Nat, by : Accounts, payer : Accounts, n : Nat,
   pt : Tokens, ask : Nat, asset : Contracts, back : Contracts, fb : Nat,
   rs : Seq(Split), before : Nat, got : Nat, todo : Seq(Stages \cup {"next"}),
   orders : Seq(Order), at : Nat, sweep : BOOLEAN, bill : Bill]

ASSUME ListingAssumption ==
  /\ MaxListings \in Nat /\ MaxOrders \in Nat
  /\ Offered \subseteq Offering /\ UnitPrices \subseteq Nat
  /\ Orders \subseteq Order /\ Budgets \subseteq Nat

-----------------------------------------------------------------------------
Listing(id) == listings[id]

(* Between two orders no contract is called that could call back. *)
MayCall(x) == MayEnter(x) /\ (~Idle => Head(Top.todo) # "next")

(* What doList records.  Nothing is put in escrow. *)
NewListing(s, o) ==
  LET c == CollectionOf[o.item] IN
  [s |-> s, item |-> o.item, a |-> o.n, p |-> o.p, pt |-> o.pt, act |-> TRUE,
   exp |-> o.exp, sb |-> o.sb, pm |-> o.pm, fb |-> EffectiveFeeBps(c),
   rs |-> ResolveRoyaltySplits(c)]

TermsFit(c) == EffectiveFeeBps(c) + RoyaltyBps(c) <= 10000

(* There is no contract of a native asset to call at the time of a sale.   *)
PayoutFits(o) == o.pm # "transfer" => o.pt \notin NativeTokens

(* What doList requires.  The same units may be listed any number of times. *)
MayList(s, o) ==
  /\ ~cfg.paused
  /\ o.n > 0 /\ o.p > 0
  /\ PaymentTokenAllowed(o.pt)
  /\ CollectionAllowed(CollectionOf[o.item])
  /\ CanOffer(s, o.item, o.n)
  /\ TermsFit(CollectionOf[o.item])
  /\ PayoutFits(o)

(* list, and batchList with several listings of one seller: one that is    *)
(* refused takes the others with it.                                       *)
BatchList(s, offered) ==
  LET first == nextListingId
      next == nextListingId + Len(offered)
      new(id) == offered[id - first + 1]
  IN
  /\ MayCall(s)
  /\ \A k \in DOMAIN offered : MayList(s, offered[k])
  /\ next <= MaxListings
  /\ listings' = [id \in ListingIds |->
       IF id \in first .. next - 1 THEN NewListing(s, new(id)) ELSE listings[id]]
  /\ nextListingId' = next
  /\ listed' = [id \in ListingIds |->
       IF id \in first .. next - 1 THEN new(id).n ELSE listed[id]]
  /\ UNCHANGED <<marketVars, calls, approved, pool, nft, sold, received, proceeds,
                 swept>>

(* Works while the contract is paused. *)
Delist(id) ==
  /\ MayCall(Listing(id).s)
  /\ Listing(id).act
  /\ listings' = [listings EXCEPT ![id].act = FALSE]
  /\ UNCHANGED <<marketVars, nextListingId, calls, approved, pool, nft, history>>

(* Mutant of Repriced: the terms of the day come with the new price. *)
RepricedAndRelocked(id, p) ==
  LET c == CollectionOf[Listing(id).item] IN
  [listings EXCEPT ![id].p = p, ![id].fb = EffectiveFeeBps(c),
                   ![id].rs = ResolveRoyaltySplits(c)]

Repriced(id, p) == [listings EXCEPT ![id].p = p]

(* f has yet to buy the listing. *)
StillToBuy(f, id) == \E k \in DOMAIN f.orders : k > f.at /\ f.orders[k].id = id

(* The price counts from now on, also for purchases in progress. *)
UpdateListing(id, p) ==
  LET dearer(f) == f.sweep /\ p > Listing(id).p /\ StillToBuy(f, id) IN
  /\ MayCall(Listing(id).s)
  /\ ~cfg.paused
  /\ Listing(id).act /\ ~IsExpired(Listing(id).exp)
  /\ p > 0
  /\ listings' = Repriced(id, p)
  /\ calls' = [k \in DOMAIN calls |->
       [calls[k] EXCEPT !.bill.raised = @ \/ dearer(calls[k])]]
  /\ UNCHANGED <<marketVars, nextListingId, approved, pool, nft, history>>

-----------------------------------------------------------------------------
(* Purchases.  One transaction buys a list of orders, one after the other. *)

(* The purchases in progress of one listing or bundle. *)
Unlogged(op, id) ==
  {k \in DOMAIN calls : /\ calls[k].op = op /\ calls[k].id = id
                        /\ "payout" \in ToSet(calls[k].todo)}

(* Units of a listing that are not on offer any more, nor delivered yet. *)
InFlight(id) ==
  LET mine(k) == k \in Unlogged("listing", id) /\ "deliver" \in ToSet(calls[k].todo)
      units(k) == calls[k].n
  IN SumOver(calls, mine, units)

Units(o) == IF o.n = Whole THEN Listing(o.id).a ELSE o.n

Cost(o) == Listing(o.id).p * Units(o)

(* What doBuy checks before it takes the payment. *)
Orderable(x, o) ==
  LET l == Listing(o.id) IN
  /\ l.act /\ ~IsExpired(l.exp)
  /\ l.sb # 0 => height >= l.sb
  /\ Units(o) > 0 /\ Units(o) <= l.a
  /\ x # l.s
  /\ PaymentTokenAllowed(l.pt)
  /\ CollectionAllowed(CollectionOf[l.item])
  /\ o.cap # NoCap => Cost(o) <= o.cap

(* Mutant of Remaining: the units of purchases in progress are still       *)
(* there, as they are when the amount is written after the calls.          *)
RemainingLate(o) == Listing(o.id).a + InFlight(o.id) - Units(o)

Remaining(o) == Listing(o.id).a - Units(o)

(* doBuy's local variables, all read before it calls anybody. *)
Buying(f, o) ==
  LET l == Listing(o.id)
      c == CollectionOf[l.item]
      then == IF f.at + 1 < Len(f.orders) THEN <<"next">> ELSE <<>>
  IN [f EXCEPT !.id = o.id, !.n = Units(o), !.pt = l.pt, !.ask = Cost(o),
               !.asset = c, !.back = c, !.fb = l.fb, !.rs = l.rs,
               !.before = pool[l.pt], !.got = 0, !.at = @ + 1,
               !.bill.cost[l.pt] = IF f.sweep THEN @ + Cost(o) ELSE @,
               !.todo = <<"pay", "deliver", "payout">> \o then]

(* doBuy down to its writes: the amount left, and the listing closed when  *)
(* nothing is left.                                                        *)
NextOrder ==
  LET f == Top
      o == f.orders[f.at + 1]
  IN
  /\ InProgress("listing", "next")
  /\ Orderable(f.by, o)
  /\ listings' = [listings EXCEPT ![o.id].a = Remaining(o),
                                  ![o.id].act = @ /\ Remaining(o) # 0]
  /\ calls' = Append(Outer, Buying(f, o))
  /\ UNCHANGED <<marketVars, nextListingId, approved, pool, nft, history>>

(* Also of a bundle. *)
TakePayment(arrived) ==
  /\ Pay(arrived)
  /\ UNCHANGED <<marketVars, listings, nextListingId, approved, nft, history>>

(* The units move; the NFT contract refuses what it would refuse anybody. *)
GiveUnits ==
  LET f == Top
      l == Listing(f.id)
  IN
  /\ InProgress("listing", "deliver")
  /\ HandTo(l.item, l.s, f.by, f.n)
  /\ Returned(f)
  /\ sold' = [sold EXCEPT ![f.id] = @ + f.n]
  /\ UNCHANGED <<marketVars, listings, nextListingId, pool, listed, received,
                 proceeds, swept>>

(* Mutant of SellerPart: the parts of the others are rounded up. *)
SellerPartRoundedAway(f, total) ==
  total - FeeOf(total + 9999, f.fb) - RoyaltyOf(total + 9999, f.rs)

SellerPart(f, total) == total - FeeOf(total, f.fb) - RoyaltyOf(total, f.rs)

(* Fee, royalties and the seller's part of one order are paid. *)
FinishOrder ==
  LET f == Top IN
  /\ InProgress("listing", "payout") /\ PayOut
  /\ received' = [received EXCEPT ![f.id] = @ + f.got]
  /\ proceeds' = [proceeds EXCEPT ![f.id] = @ + SellerPart(f, f.got)]
  /\ swept' = IF f.sweep /\ Len(f.todo) = 1 THEN f.bill ELSE swept
  /\ UNCHANGED <<marketVars, listings, nextListingId, approved, nft, listed, sold>>

-----------------------------------------------------------------------------
NoBill ==
  [budget |-> 0, total |-> 0, cost |-> [t \in Tokens |-> 0], raised |-> FALSE]

(* A purchase at its beginning. *)
Started(x, orders) ==
  LET l == Listing(orders[1].id)
      c == CollectionOf[l.item]
  IN [op |-> "listing", id |-> orders[1].id, by |-> x, payer |-> x, n |-> 0,
      pt |-> l.pt, ask |-> 0, asset |-> c, back |-> c, fb |-> l.fb, rs |-> l.rs,
      before |-> 0, got |-> 0, todo |-> <<"next">>, orders |-> orders, at |-> 0,
      sweep |-> FALSE, bill |-> NoBill]

Begin(f) ==
  /\ MayCall(f.by)
  /\ ~cfg.paused
  /\ Enter(f)
  /\ UNCHANGED <<marketVars, listings, nextListingId, approved, pool, nft, history>>

(* buy, and batchBuy with several orders. *)
BatchBuy(x, orders) == Begin(Started(x, orders))

(* Sweep turns every listing named into an order for all that is left. *)
WholeListings(ids) ==
  [k \in DOMAIN ids |-> [id |-> ids[k], n |-> Whole, cap |-> NoCap]]

SweepTotal(ids) ==
  LET all(k) == TRUE
      cost(k) == Cost(WholeListings(ids)[k])
  IN SumOver(ids, all, cost)

(* Mutant of FirstPass: prices in different tokens are added up. *)
FirstPassAnyToken(c, ids, budget) ==
  /\ \A k \in DOMAIN ids :
       /\ Listing(ids[k]).act /\ ~IsExpired(Listing(ids[k]).exp)
       /\ CollectionOf[Listing(ids[k]).item] = c
  /\ SweepTotal(ids) <= budget

(* All listings are in one payment token, the one the buyer names or that  *)
(* of the first listing, and together within the budget.                   *)
FirstPass(c, ids, budget) ==
  /\ \A k \in DOMAIN ids :
       /\ Listing(ids[k]).act /\ ~IsExpired(Listing(ids[k]).exp)
       /\ CollectionOf[Listing(ids[k]).item] = c
       /\ Listing(ids[k]).pt = Listing(ids[1]).pt
  /\ SweepTotal(ids) <= budget

(* The budget is looked at in the first pass only; the second one buys at  *)
(* whatever the prices are when each listing's turn comes.                 *)
Sweep(x, c, ids, budget) ==
  /\ FirstPass(c, ids, budget)
  /\ Begin([Started(x, WholeListings(ids)) EXCEPT
              !.sweep = TRUE,
              !.bill.budget = budget, !.bill.total = SweepTotal(ids)])

-----------------------------------------------------------------------------
SetApproval(i, x) ==
  /\ MayCall(x)
  /\ FlipApproval(i, x)
  /\ UNCHANGED <<marketVars, listings, nextListingId, calls, pool, nft, history>>

(* Holders trade an item without the market. *)
TransferOutside(i, x, y) ==
  /\ MayCall(x)
  /\ MayMoveFrom(i, x)
  /\ x # y
  /\ \E n \in LotSizes : CanMove(i, x, n) /\ nft' = Move(i, x, y, n)
  /\ UNCHANGED <<marketVars, listings, nextListingId, calls, approved, pool, history>>

NoListing ==
  [s |-> NoAccount, item |-> CHOOSE i \in Items : TRUE, a |-> 0, p |-> 0,
   pt |-> CHOOSE t \in Tokens : TRUE, act |-> FALSE, exp |-> 0, sb |-> 0,
   pm |-> "transfer", fb |-> 0, rs |-> <<>>]

Init ==
  /\ MarketInit
  /\ listings = [id \in ListingIds |-> NoListing]
  /\ nextListingId = 0
  /\ calls = <<>>
  /\ ApprovalInit
  /\ pool = [t \in Tokens |-> 0]
  /\ nft = [i \in Items |-> [x \in Holders |-> IF x = Market THEN 0 ELSE MintedTo[i][x]]]
  /\ listed = [id \in ListingIds |-> 0]
  /\ sold = [id \in ListingIds |-> 0]
  /\ received = [id \in ListingIds |-> 0]
  /\ proceeds = [id \in ListingIds |-> 0]
  /\ swept = NoBill

ListsOf(S) == UNION {[1 .. k -> S] : k \in 1 .. MaxOrders}

-----------------------------------------------------------------------------
TypeOK ==
  /\ MarketTypeOK
  /\ listings \in [ListingIds -> ListingRecord]
  /\ nextListingId \in 0 .. MaxListings
  /\ calls \in Seq(Frame) /\ Len(calls) <= MaxDepth
  /\ approved \subseteq Items \X Accounts
  /\ pool \in [Tokens -> Nat]
  /\ nft \in [Items -> [Holders -> Nat]]
  /\ listed \in [ListingIds -> Nat] /\ sold \in [ListingIds -> Nat]
  /\ received \in [ListingIds -> Nat] /\ proceeds \in [ListingIds -> Nat]
  /\ swept \in Bill

(* No listing ever sells more units than the seller put up, however often  *)
(* one batch or sweep names it and however purchases of it are nested: it  *)
(* still offers what is neither delivered nor about to be, and with        *)
(* nothing left it is off (doBuy writes the amount left before the payment *)
(* is taken, and the next order reads it).                                 *)
SoldWithinListed ==
  \A id \in ListingIds :
    /\ sold[id] + InFlight(id) + Listing(id).a = listed[id]
    /\ Listing(id).a = 0 => ~Listing(id).act

(* What the comparison with the budget is worth: a sweep spends one        *)
(* payment token only, and more of it than the budget only if a seller     *)
(* whose listing was still to come raised its price between the two        *)
(* passes, from a contract that the sweep had called.  Partial purchases   *)
(* and delistings in those calls, and a listing named twice, never make a  *)
(* sweep dearer (sweep's two passes, doBuy's read of price and amount).    *)
SweepDearerOnlyByRaise ==
  /\ Cardinality({t \in Tokens : swept.cost[t] > 0}) <= 1
  /\ ~swept.raised => \A t \in Tokens : swept.cost[t] <= swept.budget

(* What a seller has got, over all sales of a listing, is at least the     *)
(* share of the payments that the locked fee and royalties leave.          *)
SellersShare ==
  \A id \in ListingIds :
    LET l == Listing(id) IN
    proceeds[id] * BpsDenominator
      >= received[id] * (BpsDenominator - l.fb - TotalBps(l.rs))

(* Payments pass through: the market's balance of a token is what the      *)
(* purchases in progress have taken in and not yet paid out, nothing once  *)
(* they are through, however they are nested and whatever a measured       *)
(* transfer of each brought in (escrowIn's balance delta in doBuy).        *)
PaymentsPass ==
  \A t \in Tokens :
    LET holds(k) ==
          /\ calls[k].pt = t
          /\ "pay" \notin ToSet(calls[k].todo)
          /\ "payout" \in ToSet(calls[k].todo)
        got(k) == calls[k].got
    IN pool[t] = SumOver(calls, holds, got)

(* What a seller agreed to at listing stands: only the price changes after *)
(* it, and only while the listing is on, in a step that moves no unit and  *)
(* no payment, though it may come in the middle of a purchase; the amount  *)
(* only goes down, and a listing that is over never comes back.  What a    *)
(* purchase in progress distributes its payment by are those same terms.   *)
TermsStand ==
  [][/\ \A id \in 0 .. nextListingId - 1 :
          LET l == listings[id]
              m == listings'[id]
          IN
          /\ <<m.s, m.item, m.pt, m.exp, m.sb, m.pm, m.fb, m.rs>>
               = <<l.s, l.item, l.pt, l.exp, l.sb, l.pm, l.fb, l.rs>>
          /\ m.a <= l.a /\ (m.act => l.act)
          /\ m.p # l.p => l.act /\ <<pool, nft>>' = <<pool, nft>>
     /\ \A k \in DOMAIN calls :
          LET f == calls[k] IN
          f.op = "listing" /\ f.at > 0 =>
            <<f.pt, f.fb, f.rs>> = <<Listing(f.id).pt, Listing(f.id).fb, Listing(f.id).rs>>]_vars
=============================================================================
