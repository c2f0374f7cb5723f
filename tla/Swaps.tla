------------------------------- MODULE Swaps --------------------------------
(***************************************************************************)
(* Swaps: one account offers units of an item for units of another, with   *)
(* an optional top-up that it pays in money on acceptance.  Nothing is put *)
(* in escrow; both parties keep their units until the swap is accepted.    *)
(* Fee and royalties, which apply to the top-up only, are locked when the  *)
(* swap is proposed.                                                       *)
(***************************************************************************)
EXTENDS Calls

CONSTANTS
  MaxSwaps,          \* bound: swaps proposed in a behaviour
  Sides,             \* offered and wanted items and amounts of proposeSwap
  TopUps,            \* pairs of topUp and topUpToken
  SwapExpirations

VARIABLES
  swaps,             \* sw|<id>|... of every swap
  nextSwapId,        \* nxt_sw
  acceptors,         \* history: who accepted each swap, in order
  charged            \* history: the terms each top-up was distributed by

swapVars == <<swaps, nextSwapId, acceptors, charged>>

SwapIds == 0 .. MaxSwaps - 1

SwapRecord ==
  [p : Accounts \cup {NoAccount}, oi : Items, oa : Nat, wi : Items, wa : Nat,
   tu : Nat, tt : Tokens, act : BOOLEAN, exp : Nat,
   fb : Nat, rb : Nat, rr : Accounts \cup {NoAccount}, rs : Seq(Split)]

Terms == [fb : Nat, rs : Seq(Split)]

ASSUME SwapAssumption ==
  /\ MaxSwaps \in Nat
  /\ Sides \subseteq [oi : Items, oa : Nat, wi : Items, wa : Nat]
  /\ TopUps \subseteq Nat \X Tokens /\ SwapExpirations \subseteq Nat

-----------------------------------------------------------------------------
Swap(id) == swaps[id]

(* Only the offered side is looked at: the wanted item may be anything,    *)
(* and whether the offered units are soulbound is left to their contract.  *)
ProposeSwap(x, side, tu, tt, exp) ==
  LET c == CollectionOf[side.oi] IN
  /\ MayEnter(x)
  /\ ~cfg.paused
  /\ side.oa > 0 /\ side.wa > 0
  /\ CollectionAllowed(c)
  /\ CanPull(side.oi, x) /\ CanMove(side.oi, x, side.oa)
  /\ tu > 0 => PaymentTokenAllowed(tt)
  /\ EffectiveFeeBps(c) + RoyaltyBps(c) <= 10000
  /\ nextSwapId < MaxSwaps
  /\ swaps' = [swaps EXCEPT ![nextSwapId] =
       [p |-> x, oi |-> side.oi, oa |-> side.oa, wi |-> side.wi, wa |-> side.wa,
        tu |-> tu, tt |-> tt, act |-> TRUE, exp |-> exp,
        fb |-> EffectiveFeeBps(c), rb |-> RoyaltyBps(c), rr |-> cfg.royalty[c].rcpt,
        rs |-> ResolveRoyaltySplits(c)]]
  /\ nextSwapId' = nextSwapId + 1
  /\ UNCHANGED <<marketVars, calls, approved, pool, nft, acceptors, charged>>

(* The snapshot, or the single recipient of a swap without one. *)
LockedSplits(w) ==
  IF w.rs = <<>> /\ w.rb > 0 /\ w.rr # NoAccount
  THEN <<[to |-> w.rr, bps |-> w.rb]>> ELSE w.rs

(* How acceptSwap recognises a swap proposed before terms were locked. *)
LooksUnlocked(w) == w.rs = <<>> /\ w.fb = 0 /\ w.rb = 0 /\ w.rr = NoAccount

(* The terms the top-up is distributed by. *)
SwapTerms(w) ==
  LET c == CollectionOf[w.oi] IN
  IF LooksUnlocked(w)
  THEN [fb |-> EffectiveFeeBps(c), rs |-> ResolveRoyaltySplits(c)]
  ELSE [fb |-> w.fb, rs |-> LockedSplits(w)]

(* Mutant of Accepted: the swap stays open. *)
AcceptedAgain(id) == swaps

(* The swap is off before any call is made. *)
Accepted(id) == [swaps EXCEPT ![id].act = FALSE]

(* Without a top-up no money moves. *)
SwapCalls(w) ==
  (IF w.tu > 0 THEN <<"pay", "payout">> ELSE <<>>) \o <<"deliver", "return">>

(* The checks of acceptSwap and its one write; the calls follow. *)
AcceptSwap(x, id) ==
  LET w == Swap(id)
      terms == SwapTerms(w)
  IN
  /\ ~cfg.paused
  /\ w.act /\ ~IsExpired(w.exp)
  /\ x # w.p
  /\ CollectionAllowed(CollectionOf[w.oi]) /\ CollectionAllowed(CollectionOf[w.wi])
  /\ CanPull(w.oi, w.p) /\ CanMove(w.oi, w.p, w.oa)
  /\ CanPull(w.wi, x) /\ CanMove(w.wi, x, w.wa)
  /\ swaps' = Accepted(id)
  /\ Enter([op |-> "swap", id |-> id, by |-> x, payer |-> w.p, n |-> 1,
            pt |-> w.tt, ask |-> w.tu, asset |-> CollectionOf[w.oi],
            back |-> CollectionOf[w.wi], fb |-> terms.fb, rs |-> terms.rs,
            before |-> pool[w.tt], got |-> 0, todo |-> SwapCalls(w)])
  /\ acceptors' = [acceptors EXCEPT ![id] = Append(@, x)]
  /\ charged' = [charged EXCEPT ![id] = terms]
  /\ UNCHANGED <<marketVars, approved, pool, nft, nextSwapId>>

(* One leg of the barter; the NFT contract refuses what it would refuse    *)
(* anybody.                                                                *)
Barter(i, from, to, n) ==
  /\ HandTo(i, from, to, n)
  /\ Returned(Top)
  /\ UNCHANGED <<marketVars, pool, swapVars>>

GiveOffered ==
  LET w == Swap(Top.id) IN
  InProgress("swap", "deliver") /\ Barter(w.oi, w.p, Top.by, w.oa)

GiveWanted ==
  LET w == Swap(Top.id) IN
  InProgress("swap", "return") /\ Barter(w.wi, Top.by, w.p, w.wa)

(* By its proposer at any time, paused or not; by anybody once expired. *)
CancelSwap(x, id) ==
  LET w == Swap(id) IN
  /\ MayEnter(x)
  /\ w.act
  /\ IsExpired(w.exp) \/ x = w.p
  /\ swaps' = [swaps EXCEPT ![id].act = FALSE]
  /\ UNCHANGED <<marketVars, calls, approved, pool, nft, nextSwapId, acceptors, charged>>

NoSwap ==
  LET item == CHOOSE i \in Items : TRUE IN
  [p |-> NoAccount, oi |-> item, oa |-> 0, wi |-> item, wa |-> 0, tu |-> 0,
   tt |-> CHOOSE t \in Tokens : TRUE, act |-> FALSE, exp |-> 0, fb |-> 0, rb |-> 0,
   rr |-> NoAccount, rs |-> <<>>]

SwapInit ==
  /\ swaps = [id \in SwapIds |-> NoSwap]
  /\ nextSwapId = 0
  /\ acceptors = [id \in SwapIds |-> <<>>]
  /\ charged = [id \in SwapIds |-> [fb |-> 0, rs |-> <<>>]]

SwapTypeOK ==
  /\ swaps \in [SwapIds -> SwapRecord]
  /\ nextSwapId \in 0 .. MaxSwaps
  /\ acceptors \in [SwapIds -> Seq(Accounts)]
  /\ charged \in [SwapIds -> Terms]

-----------------------------------------------------------------------------
(* market.go:1953-1956: fee and royalties are locked "so a later           *)
(* admin/owner change cannot retroactively shift payouts": the top-up of   *)
(* an accepted swap is distributed by the terms of its proposal.           *)
SwapTermsStand ==
  \A id \in SwapIds :
    LET w == Swap(id) IN
    acceptors[id] # <<>> /\ w.tu > 0
      => charged[id] = [fb |-> w.fb, rs |-> LockedSplits(w)]
=============================================================================
