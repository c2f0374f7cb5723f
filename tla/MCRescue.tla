----------------------------- MODULE MCRescue -------------------------------
(***************************************************************************)
(* Small instances of Rescue for TLC: one English auction, its end put off *)
(* by bids, or a Dutch one, in a token that is on the whitelist from the   *)
(* start; a token that is never on it; and every order of pausing,         *)
(* denying, removing and adding again, sending and withdrawing.            *)
(***************************************************************************)
EXTENDS Rescue

CONSTANTS alice, bob, carol, punks, punk7, hive, dust

MCCollectionOf == [i \in Items |-> punks]

MCMintedTo == [i \in Items |-> [x \in Accounts |-> IF x = alice THEN 1 ELSE 0]]

MCAddTokenChoices == {<<hive, "">>}
=============================================================================
