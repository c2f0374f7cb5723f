------------------------------ MODULE Bundles -------------------------------
(***************************************************************************)
(* Bundles: several units of items of one collection for one price, all or *)
(* nothing.  As with listings the seller keeps the units until the sale.   *)
(* The items of a bundle are looked at one by one when it is listed, so a  *)
(* bundle can name more of an item than its seller has; it then cannot be  *)
(* bought until the seller has got hold of the rest.                       *)
(*                                                                         *)
(* Bundles are sold next to listings, which may offer the same units.      *)
(***************************************************************************)
EXTENDS Listings

CONSTANTS
  MaxBundles,        \* bound: bundles listed in a behaviour
  MaxBundleItems,    \* 20
  Contents,          \* listBundle's items
  BundlePrices, BundleExpirations   \* listBundle's price and expiration

VARIABLES
  bundles,           \* bnd|<id>|... of every bundle
  nextBundleId,      \* nxt_bnd
  elsewhere,         \* history: units an account got otherwise than in bundles
  buyers             \* history: who bought each bundle, in order

bundleVars == <<bundles, nextBundleId, elsewhere, buyers>>
allVars == <<vars, bundleVars>>

BundleIds == 0 .. MaxBundles - 1

BundleItem == [item : Items, n : Nat]

BundleRecord ==
  [s : Accounts \cup {NoAccount}, nc : Collections, its : Seq(BundleItem), p : Nat,
   pt : Tokens, act : BOOLEAN, exp : Nat, fb : Nat, rs : Seq(Split)]

ASSUME BundleAssumption ==
  /\ MaxBundles \in Nat /\ MaxBundleItems \in Nat
  /\ Contents \subseteq Seq(BundleItem)
  /\ BundlePrices \subseteq Nat /\ BundleExpirations \subseteq Nat

-----------------------------------------------------------------------------
Bundle(id) == bundles[id]

ListBundle(s, nc, its, p, t, exp) ==
  /\ MayCall(s)
  /\ ~cfg.paused
  /\ Len(its) \in 1 .. MaxBundleItems
  /\ p > 0
  /\ PaymentTokenAllowed(t)
  /\ CollectionAllowed(nc)
  /\ \A k \in DOMAIN its :
       /\ CollectionOf[its[k].item] = nc
       /\ its[k].n > 0
       /\ CanOffer(s, its[k].item, its[k].n)
  /\ TermsFit(nc)
  /\ nextBundleId < MaxBundles
  /\ bundles' = [bundles EXCEPT ![nextBundleId] =
       [s |-> s, nc |-> nc, its |-> its, p |-> p, pt |-> t, act |-> TRUE,
        exp |-> exp, fb |-> EffectiveFeeBps(nc), rs |-> ResolveRoyaltySplits(nc)]]
  /\ nextBundleId' = nextBundleId + 1
  /\ UNCHANGED <<marketVars, listingVars, elsewhere, buyers>>

(* Works while the contract is paused. *)
DelistBundle(id) ==
  /\ MayCall(Bundle(id).s)
  /\ Bundle(id).act
  /\ bundles' = [bundles EXCEPT ![id].act = FALSE]
  /\ UNCHANGED <<marketVars, listingVars, nextBundleId, elsewhere, buyers>>

(* The bundle is off before anything else happens. *)
Closed(id) == [bundles EXCEPT ![id].act = FALSE]

(* Mutant of BundleCalls: an item named twice is handed over once. *)
BundleCallsOnce(b) ==
  LET named == {b.its[k].item : k \in DOMAIN b.its} IN
  <<"pay">> \o [k \in 1 .. Cardinality(named) |-> "deliver"] \o <<"payout">>

(* One call for every item the bundle names. *)
BundleCalls(b) ==
  <<"pay">> \o [k \in 1 .. Len(b.its) |-> "deliver"] \o <<"payout">>

(* buyBundle down to its one write; the calls follow. *)
BuyBundle(x, id) ==
  LET b == Bundle(id) IN
  /\ MayCall(x)
  /\ ~cfg.paused
  /\ b.act /\ ~IsExpired(b.exp)
  /\ CollectionAllowed(b.nc)
  /\ x # b.s
  /\ PaymentTokenAllowed(b.pt)
  /\ bundles' = Closed(id)
  /\ Enter([op |-> "bundle", id |-> id, by |-> x, payer |-> x, n |-> 1,
            pt |-> b.pt, ask |-> b.p, asset |-> b.nc, back |-> b.nc, fb |-> b.fb,
            rs |-> b.rs, before |-> pool[b.pt], got |-> 0, todo |-> BundleCalls(b),
            orders |-> <<>>, at |-> 0, sweep |-> FALSE, bill |-> NoBill])
  /\ buyers' = [buyers EXCEPT ![id] = Append(@, x)]
  /\ UNCHANGED <<marketVars, listings, nextListingId, approved, pool, nft, history,
                 nextBundleId, elsewhere>>

(* The next item moves. *)
GiveItem ==
  LET f == Top
      b == Bundle(f.id)
      it == b.its[f.at + 1]
  IN
  /\ InProgress("bundle", "deliver")
  /\ HandTo(it.item, b.s, f.by, it.n)
  /\ Returned([f EXCEPT !.at = @ + 1])
  /\ UNCHANGED <<marketVars, listings, nextListingId, pool, history, bundleVars>>

(* Fee, royalties and the seller's part are paid when all items are there. *)
FinishBundle ==
  /\ InProgress("bundle", "payout") /\ PayOut
  /\ UNCHANGED <<marketVars, listings, nextListingId, approved, nft, history,
                 bundleVars>>

-----------------------------------------------------------------------------
(* What happens apart from bundles: trade in listings, and the rest. *)
BesidesBundles ==
  /\ elsewhere' = [i \in Items |-> [x \in Accounts |->
       elsewhere[i][x] + nft'[i][x] - nft[i][x]]]
  /\ UNCHANGED <<bundles, nextBundleId, buyers>>

NoBundle ==
  [s |-> NoAccount, nc |-> CHOOSE c \in Collections : TRUE, its |-> <<>>, p |-> 0,
   pt |-> CHOOSE t \in Tokens : TRUE, act |-> FALSE, exp |-> 0, fb |-> 0,
   rs |-> <<>>]

BundleInit ==
  /\ Init
  /\ bundles = [id \in BundleIds |-> NoBundle]
  /\ nextBundleId = 0
  /\ elsewhere = [i \in Items |-> [x \in Accounts |-> 0]]
  /\ buyers = [id \in BundleIds |-> <<>>]

-----------------------------------------------------------------------------
BundleTypeOK ==
  /\ TypeOK
  /\ bundles \in [BundleIds -> BundleRecord]
  /\ nextBundleId \in 0 .. MaxBundles
  /\ elsewhere \in [Items -> [Accounts -> Int]]
  /\ buyers \in [BundleIds -> Seq(Accounts)]

(* Units of an item in a bundle, however many times the bundle names it. *)
UnitsOf(id, i) ==
  LET its == Bundle(id).its
      wanted(k) == its[k].item = i
      amount(k) == its[k].n
  IN SumOver(its, wanted, amount)

(* Units of i that x got from bundles, less those x sold in bundles. *)
FromBundles(i, x) ==
  Total([id \in BundleIds |-> IF \E k \in DOMAIN buyers[id] : buyers[id][k] = x THEN UnitsOf(id, i) ELSE 0])
  - Total([id \in BundleIds |-> IF x = Bundle(id).s /\ buyers[id] # <<>>
                                THEN UnitsOf(id, i) ELSE 0])

(* A bundle is bought once at most, whole: between transactions what every *)
(* account has is what it had at first, what it traded otherwise, and for  *)
(* every bundle bought or sold each unit the bundle names, also when it    *)
(* names an item twice, its units are on offer in listings, or a purchase  *)
(* runs inside another one (buyBundle's transfers, and the flag it takes   *)
(* down first).                                                            *)
BundlesWhole ==
  /\ \A id \in BundleIds : Len(buyers[id]) <= 1
  /\ Idle =>
       \A i \in Items, x \in Accounts :
         nft[i][x] = MintedTo[i][x] + elsewhere[i][x] + FromBundles(i, x)

(* The fee and royalties locked in a listing or a bundle can be paid out   *)
(* of the price of any number of the listing's units, and of whatever part *)
(* of the bundle's price arrives.                                          *)
TermsPayable ==
  /\ \A id \in ListingIds :
       \A n \in 0 .. Listing(id).a :
         Payable(Listing(id).p * n, Listing(id).fb, Listing(id).rs)
  /\ \A id \in BundleIds :
       \A got \in 0 .. Bundle(id).p :
         Payable(got, Bundle(id).fb, Bundle(id).rs)

(* Whatever the settings and the price of a listing have become, sellers   *)
(* get what the terms locked at listing promise: the payout is never what  *)
(* stops a sale, and however many purchases a listing is sold in, rounding *)
(* never goes against its seller (feeAndRoyaltyOf in doBuy and buyBundle,  *)
(* the check against 100% in doList and listBundle).                       *)
TermsHonoured == TermsPayable /\ SellersShare
=============================================================================
