----------------------------- MODULE Approvals ------------------------------
(***************************************************************************)
(* The approvals under which the market moves units that it does not hold. *)
(* They live in the NFT contracts: an account makes the market an operator *)
(* for all its units, or grants an allowance for some units of one item,   *)
(* which a transfer uses up, and it can take either back whenever it       *)
(* likes.  What an entrypoint found approved earlier may be gone later.    *)
(***************************************************************************)
EXTENDS Custody

CONSTANT
  Allowances         \* items and accounts that grant allowances for them and
                     \* revoke them; for all other units their holders have
                     \* made the market an operator for good

VARIABLE
  approved           \* items and accounts whose units the market may move

ASSUME ApprovalAssumption == Allowances \subseteq Items \X Accounts

ApprovalInit == approved = Items \X Accounts

(* x has approved the market, as an operator or for the units in question. *)
CanPull(i, x) == <<i, x>> \in approved

(* The market has moved units of x. *)
Pulled(i, x) ==
  approved' \in {approved} \cup {approved \ {ix} : ix \in Allowances \cap {<<i, x>>}}

(* x grants or revokes. *)
FlipApproval(i, x) ==
  approved' = IF CanPull(i, x) THEN approved \ {<<i, x>>}
              ELSE approved \cup {<<i, x>>}
=============================================================================
