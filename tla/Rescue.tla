------------------------------- MODULE Rescue -------------------------------
(***************************************************************************)
(* Auctions together with the money nobody accounts for: payment tokens    *)
(* that somebody sends straight to the market's account, and               *)
(* emergencyWithdraw, with which the owner takes such money out while the  *)
(* contract is paused.  The contract keeps no record of what is escrowed,  *)
(* so the withdrawal looks only at the whitelist.  A withdrawal can take   *)
(* what an auction needs to be settled, so the promise that auctions end   *)
(* is stated here as well.                                                 *)
(***************************************************************************)
EXTENDS AuctionLog

CONSTANTS
  StrayAmounts,      \* amounts sent to the market by mistake
  WithdrawAmounts,   \* emergencyWithdraw's argument
  MaxStray           \* bound: money of one token sent by mistake

VARIABLES
  sent,              \* history: what was sent by mistake
  everRemoved        \* history: tokens that were ever taken off the whitelist

rescueVars == <<sent, everRemoved>>
allVars == <<vars, books, rescueVars>>

ASSUME RescueAssumption ==
  StrayAmounts \subseteq Nat /\ WithdrawAmounts \subseteq Nat /\ MaxStray \in Nat

-----------------------------------------------------------------------------
(* A transfer to the market's account that no entrypoint asked for. *)
SendStray(t, v) ==
  /\ sent[t] + v <= MaxStray
  /\ pool' = [pool EXCEPT ![t] = @ + v]
  /\ sent' = [sent EXCEPT ![t] = @ + v]
  /\ Silent
  /\ UNCHANGED <<marketVars, auctions, nextAuctionId, nft, lotAt, stake,
                 proceeds, everRemoved>>

(* Mutant of EmergencyWithdraw: any token may be withdrawn. *)
EmergencyWithdrawAnyToken(t, v) ==
  /\ cfg.paused
  /\ pool[t] >= v
  /\ pool' = [pool EXCEPT ![t] = @ - v]
  /\ Log(EmergencyWithdrawn(t, v, cfg.owner))
  /\ UNCHANGED <<marketVars, auctions, nextAuctionId, nft, lotAt, stake,
                 proceeds, rescueVars>>

(* Signed by the owner; NFTs are refused altogether. *)
EmergencyWithdraw(t, v) ==
  /\ cfg.paused
  /\ ~PaymentTokenAllowed(t)
  /\ pool[t] >= v
  /\ pool' = [pool EXCEPT ![t] = @ - v]
  /\ Log(EmergencyWithdrawn(t, v, cfg.owner))
  /\ UNCHANGED <<marketVars, auctions, nextAuctionId, nft, lotAt, stake,
                 proceeds, rescueVars>>

(* A step of the auctions or of the configuration. *)
MarketStep ==
  /\ LogNext
  /\ everRemoved' = everRemoved \cup (cfg.allowed \ cfg'.allowed)
  /\ UNCHANGED sent

RescueInit ==
  /\ LogInit
  /\ sent = [t \in Tokens |-> 0]
  /\ everRemoved = {}

RescueNext ==
  \/ MarketStep
  \/ \E t \in Tokens, v \in StrayAmounts : SendStray(t, v)
  \/ \E t \in Tokens, v \in WithdrawAmounts : EmergencyWithdraw(t, v)

RescueSpec == RescueInit /\ [][RescueNext]_allVars

(* As in Auction: blocks keep coming, and somebody settles what can be     *)
(* settled.                                                                *)
FairRescueSpec ==
  /\ RescueSpec
  /\ WF_allVars(Tick /\ UNCHANGED <<auctionVars, books, rescueVars>>)
  /\ \A id \in AuctionIds : WF_allVars(Settle(id) /\ UNCHANGED rescueVars)

-----------------------------------------------------------------------------
Escrowed(t) == Total([id \in AuctionIds |-> EscrowedBid(id, t)])

(* As long as a token has never been taken off the whitelist, the market's *)
(* balance of it is what is escrowed plus what was sent by mistake and     *)
(* not, by the log, withdrawn; and no more was withdrawn than was sent by  *)
(* mistake: stray money neither pays for a bid nor hides a missing one,    *)
(* and emergencyWithdraw takes nothing else.                               *)
WhitelistProtects ==
  \A t \in Tokens \ everRemoved :
    /\ books.withdrawn[t] <= sent[t]
    /\ pool[t] = Escrowed(t) + sent[t] - books.withdrawn[t]

(* An English auction ends, whoever bids and whatever is withdrawn: its    *)
(* last block can only be put off by higher and higher bids, and then      *)
(* anybody can settle it.  The lot and the standing bid come out even if   *)
(* the collection is denied for good, as long as the contract does not     *)
(* stay paused and its payment token is never taken off the whitelist:     *)
(* once it was, putting it back does not bring the money back that was     *)
(* withdrawn in between (settleAuction, emergencyWithdraw).                *)
AuctionsEnd ==
  \A id \in AuctionIds :
    (<>[](~cfg.paused) /\ [](Sale(id).pt \notin everRemoved))
      => ((IsOpen(id) /\ Sale(id).at = "english") ~> ~IsOpen(id))

(* market.go:1182-1186 on emergencyWithdraw: what backs escrows stays, and *)
(* only dust can be withdrawn.                                             *)
OnlyDustWithdrawn == \A t \in Tokens : pool[t] >= Escrowed(t)
=============================================================================
