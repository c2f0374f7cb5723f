----------------------------- MODULE TokenSales -----------------------------
(***************************************************************************)
(* Fixed-price sales of an amount of a token contract's coins, paid for in *)
(* another token.  The seller keeps the coins, and the market moves them   *)
(* from seller to buyer under an allowance that is not looked at before:   *)
(* if it is missing the transfer fails.  Tokens carry no royalty and no    *)
(* collection fee.                                                         *)
(***************************************************************************)
EXTENDS Calls

CONSTANTS
  MaxTokenListings,  \* bound: listings made in a behaviour
  TokenAmounts,      \* amounts listed and bought
  TokenPrices, TokenExpirations, TokenStarts,   \* listToken's other arguments
  CoinsAtFirst,      \* initial holdings: token -> account -> coins
  TokenTrades        \* transfers <<token, from, to>> made without the market

VARIABLES
  tokenListings,     \* tl|<id>|... of every listing
  nextTokenListingId,\* nxt_tl
  coins,             \* holdings of accounts in the token contracts
  offered,           \* history: the amount of each listing
  sent               \* history: coins that left the seller for a listing

tokenVars == <<tokenListings, nextTokenListingId, coins, offered, sent>>

TokenListingIds == 0 .. MaxTokenListings - 1

TokenListingRecord ==
  [s : Accounts \cup {NoAccount}, tc : Tokens, a : Nat, p : Nat, pt : Tokens,
   act : BOOLEAN, exp : Nat, sb : Nat, fb : Nat]

ASSUME TokenSaleAssumption ==
  /\ MaxTokenListings \in Nat
  /\ TokenAmounts \subseteq Nat /\ TokenPrices \subseteq Nat
  /\ TokenExpirations \subseteq Nat /\ TokenStarts \subseteq Nat
  /\ CoinsAtFirst \in [Tokens -> [Accounts -> Nat]]
  /\ TokenTrades \subseteq Tokens \X Accounts \X Accounts

-----------------------------------------------------------------------------
TokenListing(id) == tokenListings[id]

(* The global fee, whatever the denylist says of collections' fees. *)
ListToken(x, tc, a, p, t, exp, start) ==
  /\ MayEnter(x)
  /\ ~cfg.paused
  /\ tc # t
  /\ a > 0 /\ p > 0
  /\ PaymentTokenAllowed(t)
  /\ CollectionAllowed(tc)
  /\ coins[tc][x] >= a
  /\ cfg.feeBps <= 10000
  /\ nextTokenListingId < MaxTokenListings
  /\ tokenListings' = [tokenListings EXCEPT ![nextTokenListingId] =
       [s |-> x, tc |-> tc, a |-> a, p |-> p, pt |-> t, act |-> TRUE,
        exp |-> exp, sb |-> start, fb |-> cfg.feeBps]]
  /\ nextTokenListingId' = nextTokenListingId + 1
  /\ offered' = [offered EXCEPT ![nextTokenListingId] = a]
  /\ UNCHANGED <<marketVars, calls, approved, pool, nft, coins, sent>>

(* The amount left is written, and the listing closed when nothing is      *)
(* left, before any call is made.                                          *)
TokensTaken(id, n) ==
  [tokenListings EXCEPT ![id].a = @ - n,
                        ![id].act = @ /\ TokenListing(id).a # n]

BuyToken(x, id, n) ==
  LET l == TokenListing(id) IN
  /\ ~cfg.paused
  /\ l.act /\ ~IsExpired(l.exp)
  /\ l.sb # 0 => height >= l.sb
  /\ n > 0 /\ n <= l.a
  /\ x # l.s
  /\ PaymentTokenAllowed(l.pt)
  /\ CollectionAllowed(l.tc)
  /\ tokenListings' = TokensTaken(id, n)
  /\ Enter([op |-> "token", id |-> id, by |-> x, payer |-> x, n |-> n,
            pt |-> l.pt, ask |-> l.p * n, asset |-> l.tc, back |-> l.tc,
            fb |-> l.fb, rs |-> <<>>, before |-> pool[l.pt], got |-> 0,
            todo |-> <<"pay", "deliver", "payout">>])
  /\ UNCHANGED <<marketVars, approved, pool, nft, nextTokenListingId, coins,
                 offered, sent>>

(* The coins move; a deducting token's buyer gets less.  Native assets can *)
(* only be drawn from the caller, who is not the seller.                   *)
HandCoins(arriving) ==
  LET f == Top
      l == TokenListing(f.id)
  IN
  /\ InProgress("token", "deliver")
  /\ l.tc \notin NativeTokens
  /\ coins[l.tc][l.s] >= f.n
  /\ arriving \in Arrivals(l.tc, f.n)
  /\ coins' = [coins EXCEPT ![l.tc][l.s] = @ - f.n, ![l.tc][f.by] = @ + arriving]
  /\ sent' = [sent EXCEPT ![f.id] = @ + f.n]
  /\ Returned(f)
  /\ UNCHANGED <<marketVars, approved, pool, nft, tokenListings,
                 nextTokenListingId, offered>>

(* Works while the contract is paused. *)
DelistToken(x, id) ==
  LET l == TokenListing(id) IN
  /\ MayEnter(x)
  /\ l.act
  /\ x = l.s
  /\ tokenListings' = [tokenListings EXCEPT ![id].act = FALSE]
  /\ UNCHANGED <<marketVars, calls, approved, pool, nft, nextTokenListingId,
                 coins, offered, sent>>

(* Coins change hands without the market. *)
TradeTokens(t, x, y) ==
  /\ Idle
  /\ x # y
  /\ \E n \in LotSizes :
       /\ coins[t][x] >= n
       /\ coins' = [coins EXCEPT ![t][x] = @ - n, ![t][y] = @ + n]
  /\ UNCHANGED <<marketVars, calls, approved, pool, nft, tokenListings,
                 nextTokenListingId, offered, sent>>

NoTokenListing ==
  LET token == CHOOSE t \in Tokens : TRUE IN
  [s |-> NoAccount, tc |-> token, a |-> 0, p |-> 0, pt |-> token, act |-> FALSE,
   exp |-> 0, sb |-> 0, fb |-> 0]

TokenSaleInit ==
  /\ tokenListings = [id \in TokenListingIds |-> NoTokenListing]
  /\ nextTokenListingId = 0
  /\ coins = CoinsAtFirst
  /\ offered = [id \in TokenListingIds |-> 0]
  /\ sent = [id \in TokenListingIds |-> 0]

TokenSaleTypeOK ==
  /\ tokenListings \in [TokenListingIds -> TokenListingRecord]
  /\ nextTokenListingId \in 0 .. MaxTokenListings
  /\ coins \in [Tokens -> [Accounts -> Nat]]
  /\ offered \in [TokenListingIds -> Nat] /\ sent \in [TokenListingIds -> Nat]
=============================================================================
