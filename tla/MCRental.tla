----------------------------- MODULE MCRental -------------------------------
(***************************************************************************)
(* Small instances of Rental for TLC: alice lists the two units of one     *)
(* item she has in two rentals, under changing fees and royalties, and     *)
(* anybody rents them; the contract is paused and resumed, the collection  *)
(* denied and the approval withdrawn.                                      *)
(*                                                                         *)
(* rental_wipe: two rentals and nothing else going on.                     *)
(***************************************************************************)
EXTENDS Rental

CONSTANTS alice, bob, carol, punks, punk7, hive, mapped

MCCollectionOf == [i \in Items |-> punks]

MCMintedTo == [i \in Items |-> [x \in Accounts |-> IF x = alice THEN 2 ELSE 0]]

MCRoyaltyChoices == {<<punks, [to |-> carol, bps |-> 5000]>>}

MCBlockRanges == {<<1, 2>>}

MCOutsideTrades == {<<punk7, alice, bob>>}

MCAddTokenChoices == {<<mapped, "utxo">>}

MCAllowances == {<<punk7, alice>>}
=============================================================================
