----------------------------- MODULE MCIndexer -----------------------------
(***************************************************************************)
(* Small instance of Indexer for TLC: two listings of two items, or two    *)
(* bundles, or one of each, of items of one collection, one of them        *)
(* soulbound, in an exact and in a deducting payment token; listed and     *)
(* bought alone, in batches of two and in sweeps of two, the same listing  *)
(* twice included; bundles that may name an item twice; prices and         *)
(* settings that change.  The account `vault` is the contract of the       *)
(* deducting token and of the collection: a purchase is interrupted when   *)
(* units move and, paid in that token, when money moves, and `vault` may   *)
(* then trade away the units it has on offer.                              *)
(***************************************************************************)
EXTENDS Indexer

CONSTANTS alice, vault, punks, punk7, punk8, hive, mapped

MCCollectionOf == [i \in Items |-> punks]

MCCollectionOwner == [c \in Collections |-> vault]

MCMintedTo == [i \in Items |-> [x \in Accounts |->
     IF (i = punk7 /\ x = alice) \/ (i = punk8 /\ x = vault) THEN 2 ELSE 0]]

MCRoyaltyChoices == {<<punks, [to |-> alice, bps |-> 5000]>>}

MCSplitChoices ==
  {<<punks, <<[to |-> alice, bps |-> 2500], [to |-> vault, bps |-> 2500]>>>>}

MCCollectionFeeChoices == {<<punks, 7500>>, <<punks, NoFee>>}

MCAddTokenChoices == {<<mapped, "utxo">>}

MCOutsideTrades == {<<punk8, vault, alice>>}

MCCallbackAccount ==
  [c \in Contracts |-> IF c \in {mapped, punks} THEN vault ELSE NoAccount]

MCOffered ==
  {[item |-> punk7, n |-> 2, p |-> 1, pt |-> mapped, exp |-> 1, sb |-> 0,
    pm |-> "transfer"],
   [item |-> punk8, n |-> 1, p |-> 1, pt |-> mapped, exp |-> 0, sb |-> 0,
    pm |-> "unmap"],
   [item |-> punk8, n |-> 1, p |-> 1, pt |-> hive, exp |-> 0, sb |-> 1,
    pm |-> "transfer"],
   [item |-> punk7, n |-> 1, p |-> 1, pt |-> hive, exp |-> 0, sb |-> 0,
    pm |-> "dex"]}

MCOrders ==
  [id : {0}, n : {1}, cap : {NoCap}] \cup [id : {1}, n : {2}, cap : {3}]

Of(i, n) == [item |-> i, n |-> n]

MCContents ==
  {<<Of(punk7, 1), Of(punk8, 1)>>, <<Of(punk7, 1), Of(punk7, 1)>>}

MCAllowances == {<<punk7, alice>>}
=============================================================================
