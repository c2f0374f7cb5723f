------------------------------ MODULE MCSales -------------------------------
(***************************************************************************)
(* Small instances of Sales for TLC.  The account `vault` is the contract  *)
(* of the token `mapped`, which delivers less than asked and calls the     *)
(* market back; it also trades like anybody else.                          *)
(***************************************************************************)
EXTENDS Sales

CONSTANTS alice, vault, punks, punk7, punk8, hive, mapped

MCCollectionOf == [i \in Items |-> punks]

MCCollectionOwner == [c \in Collections |-> alice]

MCMintedTo ==
  [i \in Items |-> [x \in Accounts |->
     IF (i = punk7 /\ x = alice) \/ (i = punk8 /\ x = vault) THEN 2 ELSE 0]]

MCCoinsAtFirst ==
  [t \in Tokens |-> [x \in Accounts |-> IF t = mapped /\ x = alice THEN 2 ELSE 0]]

MCCallbackAccount ==
  [c \in Contracts |-> IF c = mapped THEN vault ELSE NoAccount]

MCEditionSize == [i \in Items |-> IF i = punk8 THEN 4 ELSE 1]

MCMintRight == [i \in Items |-> IF i = punk8 THEN 4 ELSE Unlimited]

For(i, n, j, m) == [oi |-> i, oa |-> n, wi |-> j, wa |-> m]

MCSides == {For(punk7, 1, punk8, 2), For(punk8, 1, punk7, 1)}

MCTopUps == {<<0, hive>>, <<2, mapped>>, <<1, hive>>}

MCAddTokenChoices == {<<mapped, "utxo">>}

MCCollectionFeeChoices == {<<punks, 5000>>}

MCRoyaltyChoices == {<<punks, [to |-> alice, bps |-> 5000]>>}

MCAllowances == {<<punk7, alice>>}

MCOutsideTrades == {<<punk7, alice, vault>>}

MCTokenTrades == {<<mapped, alice, vault>>}
=============================================================================
