----------------------------- MODULE MCOffers ------------------------------
(***************************************************************************)
(* Small instance of Offers for TLC: two offers of up to two units, for    *)
(* one item or for a collection of two, in an exact and in a deducting     *)
(* payment token, under changing fees and royalties, approvals that come   *)
(* and go, and a contract that may be paused for good.                     *)
(***************************************************************************)
EXTENDS Offers

CONSTANTS alice, bob, punks, punk7, punk8, hive, mapped

MCCollectionOf == [i \in Items |-> punks]

MCMintedTo == [i \in Items |-> [x \in Accounts |-> IF x = alice THEN 1 ELSE 0]]

MCRoyaltyChoices == {<<punks, [to |-> alice, bps |-> 5000]>>}

MCCollectionFeeChoices == {<<punks, 10000>>}

MCAddTokenChoices == {<<mapped, "utxo">>}

MCOutsideTrades == {<<punk7, bob, alice>>}

MCAllowances == {<<punk7, alice>>}
=============================================================================
