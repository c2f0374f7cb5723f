----------------------------- MODULE MCBuckets ------------------------------
(***************************************************************************)
(* Small instance of Buckets for TLC: one bucket with two stacks and two   *)
(* slots to a chunk, sold by the unit and in packs, restocked into either  *)
(* stack, while the seller sells items elsewhere and withdraws approvals.  *)
(***************************************************************************)
EXTENDS Buckets

CONSTANTS alice, bob, punks, punk7, punk8, punk9, hive

MCCollectionOf == [i \in Items |-> punks]

MCCollectionOwner == [c \in Collections |-> alice]

MCMintedTo == [i \in Items |-> [x \in Accounts |-> IF x = alice THEN 2 ELSE 0]]

MCOutsideTrades == {<<punk7, alice, bob>>, <<punk8, alice, bob>>}

Of(i, n, k) == [item |-> i, u |-> n, stack |-> k]

MCStocks ==
  {<<Of(punk7, 2, 0), Of(punk8, 1, 0)>>, <<Of(punk7, 1, 0)>>,
   <<Of(punk9, 2, 0)>>, <<Of(punk9, 1, 1)>>}

MCPackOffers == {[pp |-> 2, pd |-> <<2, 1>>], [pp |-> 2, pd |-> <<3>>]}

MCAllowances == {<<i, alice>> : i \in Items}
=============================================================================
