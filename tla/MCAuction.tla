----------------------------- MODULE MCAuction ------------------------------
(***************************************************************************)
(* Small instances of Auction for TLC.                                     *)
(*                                                                         *)
(* auction: two auctions of the same item, so that one can be paid out of  *)
(* the other's escrow if the books are wrong, an exact and a deducting     *)
(* payment token, and every configuration entrypoint an auction reads.     *)
(*                                                                         *)
(* auction_wrap: one English auction; with a short word and a large        *)
(* anti-snipe window the sum of the two wraps.                             *)
(***************************************************************************)
EXTENDS Auction

CONSTANTS alice, bob, carol, punks, punk7, hive, mapped

MCCollectionOf == [i \in Items |-> punks]

(* Alice can auction the same item twice. *)
MCMintedTo == [i \in Items |-> [x \in Accounts |-> IF x = alice THEN 2 ELSE 0]]

MCRoyaltyChoices == {<<punks, [to |-> carol, bps |-> 5000]>>}

MCSplitChoices ==
  {<<punks, <<[to |-> carol, bps |-> 2500], [to |-> bob, bps |-> 1000]>>>>}

MCCollectionFeeChoices == {<<punks, 10000>>, <<punks, NoFee>>}

MCAddTokenChoices == {<<mapped, "utxo">>}

MCOutsideTrades == {<<punk7, bob, alice>>}
=============================================================================
