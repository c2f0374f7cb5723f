------------------------------- MODULE Sales --------------------------------
(***************************************************************************)
(* Swaps, mint spots and token sales in one market, whose purchases may    *)
(* run inside one another: a token contract that the market asks for a     *)
(* payment calls back and buys, proposes or cancels something itself.      *)
(***************************************************************************)
EXTENDS Swaps, MintSpots, TokenSales, Events, SequencesExt

CONSTANT
  MaxOffers          \* bound: swaps and listings of both kinds together

VARIABLES
  outside,           \* history: units an account got without the market
  books              \* what the events have told of every swap and listing

saleVars == <<swapVars, spotVars, tokenVars>>
vars == <<marketVars, calls, approved, pool, nft, outside, saleVars, books>>

(* The local variables of a sale in progress: what is sold, who called and *)
(* who pays, the number of units, the payment token and what is asked for, *)
(* the asset's contract at each stage, the locked terms, the balance read  *)
(* before the payment, what was credited, and the calls still to make.     *)
Frame ==
  [op : {"swap", "spot", "token"}, id : Nat, by : Accounts, payer : Accounts,
   n : Nat, pt : Tokens, ask : Nat, asset : Contracts, back : Contracts,
   fb : Nat, rs : Seq(Split), before : Nat, got : Nat, todo : Seq(Stages)]

ASSUME SaleAssumption == MaxOffers \in Nat

-----------------------------------------------------------------------------
(* The queries. *)

(* The locked terms are not told. *)
GetSwap(id) ==
  LET w == Swap(id) IN
  [proposer |-> w.p, offered |-> w.oi, offeredAmount |-> w.oa, wanted |-> w.wi,
   wantedAmount |-> w.wa, topUp |-> w.tu, topUpToken |-> w.tt, active |-> w.act,
   expirationBlock |-> w.exp]

SwapResponse ==
  [proposer : Accounts, offered : Items, offeredAmount : Nat \ {0}, wanted : Items,
   wantedAmount : Nat \ {0}, topUp : Nat, topUpToken : Tokens, active : BOOLEAN,
   expirationBlock : Nat]

GetMintSpotListing(id) ==
  LET l == SpotListing(id) IN
  [lister |-> l.s, item |-> l.item, paymentToken |-> l.pt, pricePerSpot |-> l.p,
   maxSpots |-> l.ms, sold |-> l.sold, active |-> l.act, expirationBlock |-> l.exp,
   startBlock |-> l.sb, feeBps |-> l.fb]

MintSpotListingResponse ==
  [lister : Accounts, item : Items, paymentToken : Tokens, pricePerSpot : Nat \ {0},
   maxSpots : 0 .. Word - 1, sold : 0 .. Word - 1, active : BOOLEAN,
   expirationBlock : Nat, startBlock : Nat, feeBps : 0 .. 10000]

GetTokenListing(id) ==
  LET l == TokenListing(id) IN
  [seller |-> l.s, tokenContract |-> l.tc, amount |-> l.a, pricePerUnit |-> l.p,
   paymentToken |-> l.pt, active |-> l.act, expirationBlock |-> l.exp,
   startBlock |-> l.sb, feeBps |-> l.fb]

TokenListingResponse ==
  [seller : Accounts, tokenContract : Tokens, amount : Nat, pricePerUnit : Nat \ {0},
   paymentToken : Tokens, active : BOOLEAN, expirationBlock : Nat,
   startBlock : Nat, feeBps : 0 .. 10000]

-----------------------------------------------------------------------------
(* The books of somebody who reads the events. *)

NoEntry == [known |-> FALSE]

SaleBooks ==
  [swaps |-> [id \in SwapIds |-> NoEntry], spots |-> [id \in SpotIds |-> NoEntry],
   tokens |-> [id \in TokenListingIds |-> NoEntry]]

Told(b, e) ==
  CASE e.type = "swapProposed" ->
         [b EXCEPT !.swaps[e.swapId] =
            [known |-> TRUE, proposer |-> e.proposer, offeredNft |-> e.offeredNft,
             wantedNft |-> e.wantedNft, open |-> TRUE, acceptor |-> NoAccount]]
    [] e.type = "swapAccepted" ->
         [b EXCEPT !.swaps[e.swapId].open = FALSE, !.swaps[e.swapId].acceptor = e.acceptor]
    [] e.type = "swapCancelled" -> [b EXCEPT !.swaps[e.swapId].open = FALSE]
    [] e.type = "mint_spots_listed" ->
         [b EXCEPT !.spots[e.listingId] =
            [known |-> TRUE, lister |-> e.lister, item |-> e.item,
             maxSpots |-> e.maxSpots, taken |-> 0, open |-> TRUE]]
    [] e.type = "mint_spot_bought" -> [b EXCEPT !.spots[e.listingId].taken = @ + e.amount]
    [] e.type = "mint_spots_delisted" -> [b EXCEPT !.spots[e.listingId].open = FALSE]
    [] e.type = "token_listed" ->
         [b EXCEPT !.tokens[e.listingId] =
            [known |-> TRUE, seller |-> e.seller, tokenContract |-> e.tokenContract,
             pricePerUnit |-> e.pricePerUnit, paymentToken |-> e.paymentToken,
             expirationBlock |-> e.expirationBlock, amount |-> e.amount, open |-> TRUE]]
    [] e.type = "token_bought" -> [b EXCEPT !.tokens[e.listingId].amount = @ - e.amount]
    [] e.type = "token_delisted" -> [b EXCEPT !.tokens[e.listingId].open = FALSE]

Log(e) == books' = Told(books, e)

Silent == UNCHANGED books

(* A purchase is logged when its last call has come back. *)
LogSale(f) ==
  LET fee == FeeOf(f.got, f.fb) IN
  CASE f.op = "swap" -> Log(SwapAccepted(f.id, Swap(f.id).p, f.by))
    [] f.op = "spot" -> Log(MintSpotBought(f.id, f.by, f.n, f.got, fee))
    [] f.op = "token" -> Log(TokenBought(f.id, f.by, f.n, f.got, fee))

LogIfLast == IF Len(Top.todo) = 1 THEN LogSale(Top) ELSE Silent

-----------------------------------------------------------------------------
(* What each component's steps leave alone. *)
OfSwaps == UNCHANGED <<spotVars, tokenVars, outside>>
OfSpots == UNCHANGED <<swapVars, tokenVars, outside>>
OfTokens == UNCHANGED <<swapVars, spotVars, outside>>

(* Between transactions. *)
Environment ==
  /\ Idle
  /\ Tick \/ Configure
  /\ UNCHANGED <<calls, approved, pool, nft, outside, saleVars, books>>

(* Holders trade an item without the market. *)
TransferOutside(i, x, y) ==
  /\ Idle
  /\ MayMoveFrom(i, x)
  /\ x # y
  /\ \E n \in LotSizes :
       /\ CanMove(i, x, n)
       /\ nft' = Move(i, x, y, n)
       /\ outside' = [outside EXCEPT ![<<i, x>>] = @ - n, ![<<i, y>>] = @ + n]
  /\ UNCHANGED <<marketVars, calls, approved, pool, saleVars, books>>

SetApproval(i, x) ==
  /\ Idle
  /\ FlipApproval(i, x)
  /\ UNCHANGED <<marketVars, calls, pool, nft, outside, saleVars, books>>

(* A payment arrives or is distributed, in whichever sale is innermost. *)
MoneyMoves ==
  /\ \/ PayOut /\ LogIfLast
     \/ \E arrived \in 0 .. (IF Idle THEN 0 ELSE Top.ask) : Pay(arrived) /\ Silent
  /\ UNCHANGED <<marketVars, approved, nft, outside, saleVars>>

SwapStep ==
  /\ OfSwaps
  /\ \/ \E x \in Accounts, side \in Sides, topUp \in TopUps, exp \in SwapExpirations :
          /\ ProposeSwap(x, side, topUp[1], topUp[2], exp)
          /\ Log(SwapProposed(nextSwapId, x, CollectionOf[side.oi], CollectionOf[side.wi]))
     \/ \E x \in Accounts, id \in SwapIds :
          \/ AcceptSwap(x, id) /\ Silent
          \/ CancelSwap(x, id) /\ Log(SwapCancelled(id, x))
     \/ GiveOffered /\ LogIfLast
     \/ GiveWanted /\ LogIfLast

SpotStep ==
  /\ OfSpots
  /\ \/ \E x \in Accounts, i \in Items, t \in Tokens, p \in SpotPrices,
           ms \in SpotCaps, exp \in SpotExpirations, start \in SpotStarts :
          /\ ListMintSpots(x, i, t, p, ms, exp, start)
          /\ Log(MintSpotsListed(nextSpotId, x, i, ms))
     \/ \E x \in Accounts, id \in SpotIds :
          \/ DelistMintSpots(x, id) /\ Log(MintSpotsDelisted(id, x))
          \/ \E n \in SpotAmounts : BuyMintSpot(x, id, n) /\ Silent
     \/ Mint /\ LogIfLast

TokenStep ==
  /\ OfTokens
  /\ \/ \E x \in Accounts, tc \in Tokens, t \in Tokens, a \in TokenAmounts,
           p \in TokenPrices, exp \in TokenExpirations, start \in TokenStarts :
          /\ ListToken(x, tc, a, p, t, exp, start)
          /\ Log(TokenListed(nextTokenListingId, x, tc, a, t, p, exp))
     \/ \E x \in Accounts, id \in TokenListingIds :
          \/ DelistToken(x, id) /\ Log(TokenDelisted(id, x))
          \/ \E n \in TokenAmounts : BuyToken(x, id, n) /\ Silent
     \/ \E arriving \in TokenAmounts \cup {0} : HandCoins(arriving) /\ LogIfLast
     \/ \E txy \in TokenTrades : TradeTokens(txy[1], txy[2], txy[3]) /\ Silent

Init ==
  /\ MarketInit
  /\ ApprovalInit
  /\ calls = <<>>
  /\ pool = [t \in Tokens |-> 0]
  /\ nft = [i \in Items |-> [x \in Holders |-> IF x = Market THEN 0 ELSE MintedTo[i][x]]]
  /\ outside = [ix \in Items \X Accounts |-> 0]
  /\ SwapInit /\ SpotInit /\ TokenSaleInit
  /\ books = SaleBooks

Next ==
  /\ \/ Environment
     \/ MoneyMoves
     \/ SwapStep
     \/ SpotStep
     \/ TokenStep
     \/ \E ix \in Allowances : SetApproval(ix[1], ix[2])
     \/ \E ixy \in OutsideTrades : TransferOutside(ixy[1], ixy[2], ixy[3])
  /\ nextSwapId' + nextSpotId' + nextTokenListingId' <= MaxOffers

Spec == Init /\ [][Next]_vars

-----------------------------------------------------------------------------
SalesTypeOK ==
  /\ MarketTypeOK
  /\ calls \in Seq(Frame) /\ Len(calls) <= MaxDepth
  /\ approved \subseteq Items \X Accounts
  /\ pool \in [Tokens -> Nat]
  /\ nft \in [Items -> [Holders -> Nat]]
  /\ outside \in [Items \X Accounts -> Int]
  /\ SwapTypeOK /\ SpotTypeOK /\ TokenSaleTypeOK
  /\ \A id \in 0 .. nextSwapId - 1 : GetSwap(id) \in SwapResponse
  /\ \A id \in 0 .. nextSpotId - 1 : GetMintSpotListing(id) \in MintSpotListingResponse
  /\ \A id \in 0 .. nextTokenListingId - 1 : GetTokenListing(id) \in TokenListingResponse

(* The market keeps nothing of these sales: its balance of a token is what *)
(* the purchases in progress have taken in and not yet paid out, however   *)
(* they are nested, whether a payment was measured or taken at its face    *)
(* value (escrowIn's balance delta, and the payouts of acceptSwap,         *)
(* buyMintSpot and buyToken).                                              *)
NothingKept ==
  \A t \in Tokens :
    LET holds(k) ==
          /\ calls[k].pt = t
          /\ "pay" \notin ToSet(calls[k].todo)
          /\ "payout" \in ToSet(calls[k].todo)
        got(k) == calls[k].got
    IN pool[t] = SumOver(calls, holds, got)

(* What x got of i in accepted swaps, and what x gave. *)
Bartered(i, x) ==
  LET sideOf(id, party, item, n) == IF party = x /\ item = i THEN n ELSE 0
      net(id) ==
        LET w == Swap(id)
            y == acceptors[id][1]
        IN [in  |-> sideOf(id, y, w.oi, w.oa) + sideOf(id, w.p, w.wi, w.wa),
            out |-> sideOf(id, w.p, w.oi, w.oa) + sideOf(id, y, w.wi, w.wa)]
      done == {id \in SwapIds : acceptors[id] # <<>>}
  IN Total([id \in done |-> net(id).in]) - Total([id \in done |-> net(id).out])

SpotsOf(i, x) ==
  Total([id \in SpotIds |-> IF SpotListing(id).item = i THEN minted[<<id, x>>] ELSE 0])

(* The purchases of one listing or swap that are not logged yet. *)
Unlogged(op, id) == {k \in DOMAIN calls : calls[k].op = op /\ calls[k].id = id}

UnloggedUnits(op, id) ==
  LET mine(k) == k \in Unlogged(op, id)
      units(k) == calls[k].n
  IN SumOver(calls, mine, units)

(* What the log tells of a swap: it is open as long as it is shown to be,  *)
(* but for an acceptance that is not complete, and it names the one party  *)
(* who has accepted it.                                                    *)
SwapTold(id) ==
  LET told == books.swaps[id]
      shown == GetSwap(id)
  IN
  /\ told.known <=> id < nextSwapId
  /\ told.known =>
       /\ told.proposer = shown.proposer
       /\ told.offeredNft = CollectionOf[shown.offered]
       /\ told.wantedNft = CollectionOf[shown.wanted]
       /\ shown.active <=> told.open /\ Unlogged("swap", id) = {}
       /\ Unlogged("swap", id) = {} =>
            acceptors[id] = IF told.acceptor = NoAccount THEN <<>> ELSE <<told.acceptor>>

(* A swap is accepted once at most, and then both legs happen: between     *)
(* transactions what every account has of every item is what it had at     *)
(* first, what it traded elsewhere, the spots it bought and each leg of    *)
(* each swap it was a party to, once.  The same units may be on offer in   *)
(* several swaps, and a swap may be accepted from inside another one       *)
(* (acceptSwap takes the swap off first and moves the units last).  Log    *)
(* and query tell of it truly.                                             *)
BarterWhole ==
  /\ \A id \in SwapIds : Len(acceptors[id]) <= 1 /\ SwapTold(id)
  /\ Idle =>
       \A i \in Items, x \in Accounts :
         nft[i][x] = MintedTo[i][x] + outside[<<i, x>>] + SpotsOf(i, x)
                       + Bartered(i, x)

(* Units of a listing that are paid for or about to be. *)
InFlight(op, id) ==
  LET mine(k) == k \in Unlogged(op, id) /\ "deliver" \in ToSet(calls[k].todo)
      units(k) == calls[k].n
  IN SumOver(calls, mine, units)

(* What a query shows as sold is what the log has told of and what is yet  *)
(* to be logged, modulo Word: without a cap, purchases that wait for their *)
(* mint may ask for more than a number of Word values holds.               *)
SpotsTold(id) ==
  LET told == books.spots[id]
      shown == GetMintSpotListing(id)
  IN
  /\ told.known <=> id < nextSpotId
  /\ told.known =>
       /\ told.lister = shown.lister /\ told.item = shown.item
       /\ told.maxSpots = shown.maxSpots
       /\ shown.sold = (told.taken + UnloggedUnits("spot", id)) % Word
       /\ shown.active <=>
            told.open /\ ~(shown.maxSpots # 0 /\ shown.sold = shown.maxSpots)

CoinsTold(id) ==
  LET told == books.tokens[id]
      shown == GetTokenListing(id)
  IN
  /\ told.known <=> id < nextTokenListingId
  /\ told.known =>
       /\ \A f \in {"seller", "tokenContract", "pricePerUnit", "paymentToken",
                     "expirationBlock"} : told[f] = shown[f]
       /\ told.amount = shown.amount + UnloggedUnits("token", id)
       /\ shown.active <=> told.open /\ shown.amount # 0

(* What a listing says is sold is what was delivered or is being           *)
(* delivered: of mint spots never more than the cap, of coins never more   *)
(* than were offered; and at that point the listing is closed.  Purchases  *)
(* of one listing may run inside one another, spots of two listings count  *)
(* on one allowance, and a cap is compared without overflow (buyMintSpot   *)
(* and buyToken write before they call).  Log and query tell of it truly.  *)
SoldIsDelivered ==
  /\ \A id \in SpotIds :
       LET l == SpotListing(id)
           units == MintedBy(id) + InFlight("spot", id)
       IN
       /\ l.sold = units % Word
       /\ l.ms # 0 => units <= l.ms /\ (units = l.ms => ~l.act)
       /\ SpotsTold(id)
  /\ \A i \in Items : MintedOf(i) <= EditionSize[i]
  /\ \A id \in TokenListingIds :
       LET l == TokenListing(id) IN
       /\ l.a + sent[id] + InFlight("token", id) = offered[id]
       /\ l.a = 0 => ~l.act
       /\ CoinsTold(id)
=============================================================================
