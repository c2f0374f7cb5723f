------------------------------ MODULE Custody -------------------------------
(***************************************************************************)
(* What the market holds for others: its balance of every payment token,   *)
(* and its balances in the NFT contracts.  An item is one token id of an   *)
(* NFT contract, of which accounts hold units.  The NFT contracts are      *)
(* outside this repository; they are modelled by what the market relies    *)
(* on: a transfer moves exactly the units asked for or aborts the          *)
(* transaction.                                                            *)
(***************************************************************************)
EXTENDS MarketState

CONSTANTS
  Market,            \* the market contract's own account
  Items,             \* pairs of NFT contract and token id
  CollectionOf,      \* the NFT contract of an item
  Soulbound,         \* items that cannot be transferred on
  MintedTo,          \* initial holdings: item -> account -> units
  OutsideTrades,     \* transfers <<item, from, to>> made without the market
  LotSizes,          \* numbers of units transferred at once
  Word               \* block numbers wrap at this value: 2^64

VARIABLES
  pool,              \* the market's balance of every payment token
  nft                \* balances in the NFT contracts, the market's included

Holders == Accounts \cup {Market}

ASSUME CustodyAssumption ==
  /\ Market \notin Accounts /\ Market # NoAccount
  /\ Items # {} /\ Tokens # {}
  /\ CollectionOf \in [Items -> Collections]
  /\ Soulbound \subseteq Items
  /\ MintedTo \in [Items -> [Accounts -> Nat]]
  /\ OutsideTrades \subseteq Items \X Accounts \X Accounts
  /\ LotSizes \subseteq Nat
  /\ Word \in Nat \ {0}

CanMove(i, from, n) == nft[i][from] >= n

(* Units of an item change hands; the NFT contract refuses an overdraft. *)
Move(i, from, to, n) == [nft EXCEPT ![i][from] = @ - n, ![i][to] = @ + n]
=============================================================================
