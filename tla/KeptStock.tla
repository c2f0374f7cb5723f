------------------------------ MODULE KeptStock -----------------------------
(***************************************************************************)
(* Sales of units that stay with the seller until the moment of the sale:  *)
(* listings, bundles and buckets.  The market looks at the seller's units  *)
(* and at its own authority over them when they are offered, and can only  *)
(* try to move them when they are bought.                                  *)
(***************************************************************************)
EXTENDS Approvals, FcnSum

CONSTANT
  CollectionOwner    \* owner() of every NFT contract

ASSUME CollectionOwnerAssumption == CollectionOwner \in [Collections -> Accounts]

(* Soulbound items move only from the owner of their collection. *)
MayMoveFrom(i, s) == i \in Soulbound => s = CollectionOwner[CollectionOf[i]]

(* What is looked at before s may offer n units of i. *)
CanOffer(s, i, n) == MayMoveFrom(i, s) /\ CanPull(i, s) /\ CanMove(i, s, n)

(* The sum of amount(k) over those positions k of a list that `wanted`     *)
(* picks.                                                                  *)
SumOver(list, wanted(_), amount(_)) ==
  Total([k \in DOMAIN list |-> IF wanted(k) THEN amount(k) ELSE 0])

(* n units of i go from `from` to `to`. *)
HandTo(i, from, to, n) ==
  /\ CanOffer(from, i, n)
  /\ nft' = Move(i, from, to, n)
  /\ Pulled(i, from)

(* Buyer x gets units[<<i, s>>] units of every item i from every seller s. *)
(* The NFT contracts refuse what they would refuse anybody; allowances may *)
(* be used up.  No seller is the buyer.                                    *)
HandOver(x, units) ==
  LET moved == {is \in Items \X Accounts : units[is] > 0}
      arriving(i) == Total([s \in Accounts |-> units[<<i, s>>]])
  IN
  /\ \A is \in moved : CanOffer(is[2], is[1], units[is])
  /\ nft' = [i \in Items |-> [y \in Holders |->
       IF y = x THEN nft[i][y] + arriving(i)
       ELSE IF y = Market THEN nft[i][y]
       ELSE nft[i][y] - units[<<i, y>>]]]
  /\ \E spent \in SUBSET (moved \cap Allowances) :
       approved' = approved \ spent
=============================================================================
