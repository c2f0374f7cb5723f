----------------------------- MODULE MintSpots ------------------------------
(***************************************************************************)
(* Primary sales: the owner of a collection lists spots of an edition, and *)
(* the market mints them to buyers under the right the owner has granted   *)
(* it, an operator approval without a limit or an allowance that every     *)
(* mint uses up.  Several listings may count on the same right and the     *)
(* same edition.                                                           *)
(***************************************************************************)
EXTENDS Calls

CONSTANTS
  MaxSpotListings,   \* bound: listings of spots made in a behaviour
  SpotPrices, SpotCaps, SpotExpirations, SpotStarts,   \* listMintSpots' arguments
  SpotAmounts,       \* buyMintSpot's amount
  EditionSize,       \* maxSupply of every item, 0 where no edition is defined
  MintRight,         \* the market's allowance for every item, or Unlimited
  Unlimited

VARIABLES
  spots,             \* msp|<id>|... of every listing
  nextSpotId,        \* nxt_msp
  mintRight,         \* what is left of the allowances
  minted             \* history: <<listing, account>> -> spots minted

spotVars == <<spots, nextSpotId, mintRight, minted>>

SpotIds == 0 .. MaxSpotListings - 1

SpotRecord ==
  [s : Accounts \cup {NoAccount}, item : Items, pt : Tokens, p : Nat, ms : Nat,
   sold : Nat, act : BOOLEAN, exp : Nat, sb : Nat, fb : Nat]

ASSUME SpotAssumption ==
  /\ MaxSpotListings \in Nat
  /\ SpotPrices \subseteq Nat
  /\ SpotCaps \subseteq 0 .. Word - 1 /\ SpotAmounts \subseteq 0 .. Word - 1
  /\ SpotExpirations \subseteq Nat /\ SpotStarts \subseteq Nat
  /\ EditionSize \in [Items -> 0 .. Word - 1]
  /\ MintRight \in [Items -> Nat \cup {Unlimited}]

-----------------------------------------------------------------------------
SpotListing(id) == spots[id]

MintedBy(id) == Total([x \in Accounts |-> minted[<<id, x>>]])

MintedOf(i) ==
  Total([id \in SpotIds |-> IF SpotListing(id).item = i THEN MintedBy(id) ELSE 0])

(* With an allowance the listing names a cap that the allowance covers     *)
(* today.                                                                  *)
RightCovers(i, ms) ==
  mintRight[i] # Unlimited => ms > 0 /\ ms <= mintRight[i]

(* Only fee, no royalty: the owner of the collection sells. *)
ListMintSpots(x, i, t, p, ms, exp, start) ==
  LET c == CollectionOf[i] IN
  /\ MayEnter(x)
  /\ ~cfg.paused
  /\ p > 0
  /\ PaymentTokenAllowed(t)
  /\ CollectionAllowed(c)
  /\ CollectionOwner[c] = x
  /\ RightCovers(i, ms)
  /\ EditionSize[i] # 0
  /\ EffectiveFeeBps(c) <= 10000
  /\ nextSpotId < MaxSpotListings
  /\ spots' = [spots EXCEPT ![nextSpotId] =
       [s |-> x, item |-> i, pt |-> t, p |-> p, ms |-> ms, sold |-> 0,
        act |-> TRUE, exp |-> exp, sb |-> start, fb |-> EffectiveFeeBps(c)]]
  /\ nextSpotId' = nextSpotId + 1
  /\ UNCHANGED <<marketVars, calls, approved, pool, nft, mintRight, minted>>

(* Mutant of WithinCap: the sum of two numbers of Word values wraps. *)
WithinCapWrapping(l, n) == l.ms # 0 => (l.sold + n) % Word <= l.ms

(* No more than the listing still has; 0 is no cap. *)
WithinCap(l, n) == l.ms # 0 => n <= l.ms - l.sold

(* The number sold is written, and the listing closed when it reaches the  *)
(* cap, before any call is made.                                           *)
SpotsTaken(id, n) ==
  LET l == SpotListing(id)
      newSold == (l.sold + n) % Word
  IN [spots EXCEPT ![id].sold = newSold,
                   ![id].act = @ /\ ~(l.ms # 0 /\ newSold = l.ms)]

(* The payment token's place on the whitelist is not looked at again. *)
BuyMintSpot(x, id, n) ==
  LET l == SpotListing(id) IN
  /\ ~cfg.paused
  /\ l.act /\ ~IsExpired(l.exp)
  /\ l.sb # 0 => height >= l.sb
  /\ CollectionAllowed(CollectionOf[l.item])
  /\ n > 0
  /\ x # l.s
  /\ WithinCap(l, n)
  /\ spots' = SpotsTaken(id, n)
  /\ Enter([op |-> "spot", id |-> id, by |-> x, payer |-> x, n |-> n,
            pt |-> l.pt, ask |-> l.p * n, asset |-> CollectionOf[l.item],
            back |-> CollectionOf[l.item], fb |-> l.fb, rs |-> <<>>,
            before |-> pool[l.pt], got |-> 0,
            todo |-> <<"pay", "deliver", "payout">>])
  /\ UNCHANGED <<marketVars, approved, pool, nft, nextSpotId, mintRight, minted>>

(* The delegated mint: the NFT contract holds to its edition and to the    *)
(* right it has granted.                                                   *)
Mint ==
  LET f == Top
      i == SpotListing(f.id).item
  IN
  /\ InProgress("spot", "deliver")
  /\ MintedOf(i) + f.n <= EditionSize[i]
  /\ mintRight[i] # Unlimited => mintRight[i] >= f.n
  /\ mintRight' = IF mintRight[i] = Unlimited THEN mintRight
                  ELSE [mintRight EXCEPT ![i] = @ - f.n]
  /\ nft' = [nft EXCEPT ![i][f.by] = @ + f.n]
  /\ minted' = [minted EXCEPT ![<<f.id, f.by>>] = @ + f.n]
  /\ Returned(f)
  /\ UNCHANGED <<marketVars, approved, pool, spots, nextSpotId>>

(* Works while the contract is paused. *)
DelistMintSpots(x, id) ==
  LET l == SpotListing(id) IN
  /\ MayEnter(x)
  /\ l.act
  /\ x = l.s
  /\ spots' = [spots EXCEPT ![id].act = FALSE]
  /\ UNCHANGED <<marketVars, calls, approved, pool, nft, nextSpotId, mintRight, minted>>

NoSpots ==
  [s |-> NoAccount, item |-> CHOOSE i \in Items : TRUE,
   pt |-> CHOOSE t \in Tokens : TRUE, p |-> 0, ms |-> 0, sold |-> 0,
   act |-> FALSE, exp |-> 0, sb |-> 0, fb |-> 0]

SpotInit ==
  /\ spots = [id \in SpotIds |-> NoSpots]
  /\ nextSpotId = 0
  /\ mintRight = MintRight
  /\ minted = [ix \in SpotIds \X Accounts |-> 0]

SpotTypeOK ==
  /\ spots \in [SpotIds -> SpotRecord]
  /\ nextSpotId \in 0 .. MaxSpotListings
  /\ mintRight \in [Items -> Nat \cup {Unlimited}]
  /\ minted \in [SpotIds \X Accounts -> Nat]
=============================================================================
