---------------------------- MODULE MarketState -----------------------------
(***************************************************************************)
(* The contract state every entrypoint shares: block height, ownership,    *)
(* the pause switch, fees, royalties, the payment-token whitelist with its *)
(* balance decoders, the collection denylist and the auction and offer     *)
(* settings, with one action per entrypoint that writes it.                *)
(*                                                                         *)
(* Each entrypoint is one transaction: it either runs to its end or aborts *)
(* and leaves no trace, so it is one step whose guard is the conjunction   *)
(* of the conditions it would abort on.  Who signs a transaction matters   *)
(* only as far as a guard looks at it; the configuration entrypoints are   *)
(* signed by whoever holds the owner role when they run.                   *)
(*                                                                         *)
(* The ...Choices constants hold the arguments the owner and the           *)
(* collection owners may pass.  A model that wants a setting fixed leaves  *)
(* its set empty.                                                          *)
(***************************************************************************)
EXTENDS Payout

CONSTANTS
  Accounts,          \* accounts that sign transactions
  NoAccount,         \* the empty string where an account is expected
  Deployer,          \* the account that runs init
  Collections,       \* NFT contracts
  Tokens,            \* payment tokens
  NativeTokens,      \* hive and hbd
  Deducting,         \* tokens that may deliver less than the amount sent
  MaxHeight,         \* bound: the last block of a behaviour
  PauseChoices,      \* the values pause and unpause may set
  OwnerChoices, FeeRecipientChoices, FeeChoices, CollectionFeeChoices,
  RoyaltyChoices, SplitChoices, AddTokenChoices, RemoveTokenChoices,
  DenyChoices, AllowChoices, MinBidIncChoices, AntiSnipeChoices, MinOfferChoices

VARIABLES
  height,            \* block.height
  cfg                \* the configuration keys of the contract's state

marketVars == <<height, cfg>>

NoFee == -1          \* cfee|<nft> is absent

DecoderNames == {"", "magi_token", "utxo", "native"}

Split == [to : Accounts \cup {NoAccount}, bps : Nat]

Royalty == [bps : Nat, rcpt : Accounts \cup {NoAccount}, splits : Seq(Split)]

Config ==
  [owner : Accounts, pendingOwner : Accounts \cup {NoAccount}, paused : BOOLEAN,
   feeBps : Nat, feeRecipient : Accounts,
   collectionFee : [Collections -> Nat \cup {NoFee}],
   royalty : [Collections -> Royalty],
   allowed : SUBSET Tokens, decoder : [Tokens -> DecoderNames],
   denied : SUBSET Collections,
   minBidInc : Nat, antiSnipe : Nat, minOffer : Nat]

ASSUME AccountAssumption == NoAccount \notin Accounts /\ Deployer \in Accounts
ASSUME TokenAssumption ==
  NativeTokens \subseteq Tokens /\ Deducting \subseteq Tokens \ NativeTokens
ASSUME ChoiceAssumption ==
  /\ MaxHeight \in Nat
  /\ PauseChoices \subseteq BOOLEAN
  /\ OwnerChoices \subseteq Accounts /\ FeeRecipientChoices \subseteq Accounts
  /\ FeeChoices \subseteq Nat
  /\ CollectionFeeChoices \subseteq Collections \X (Nat \cup {NoFee})
  /\ RoyaltyChoices \subseteq Collections \X Split
  /\ SplitChoices \subseteq Collections \X Seq(Split)
  /\ RemoveTokenChoices \subseteq Tokens
  /\ DenyChoices \subseteq Collections /\ AllowChoices \subseteq Collections
  /\ MinBidIncChoices \subseteq Nat /\ AntiSnipeChoices \subseteq Nat
  /\ MinOfferChoices \subseteq Nat

(* The owner describes tokens truthfully: one that withholds part of a     *)
(* transfer is never bound to the magi_token decoder, whose deposits the   *)
(* contract credits at face value without looking at its balance.          *)
ASSUME DecoderAssumption ==
  /\ AddTokenChoices \subseteq Tokens \X DecoderNames
  /\ \A t \in Deducting : <<t, "magi_token">> \notin AddTokenChoices

-----------------------------------------------------------------------------
(* Reading the configuration. *)

(* Mutant of EffectiveFeeBps: an absent override is not replaced. *)
EffectiveFeeBpsOverride(c) == cfg.collectionFee[c]

(* The collection's own fee if it has one, else the global fee. *)
EffectiveFeeBps(c) ==
  IF cfg.collectionFee[c] = NoFee THEN cfg.feeBps ELSE cfg.collectionFee[c]

RoyaltyBps(c) == cfg.royalty[c].bps

(* The split list if there is one, else the single legacy recipient. *)
ResolveRoyaltySplits(c) ==
  LET r == cfg.royalty[c] IN
  IF r.splits # <<>> THEN r.splits
  ELSE IF r.bps > 0 THEN <<[to |-> r.rcpt, bps |-> r.bps]>>
  ELSE <<>>

EffectiveMinBidInc == IF cfg.minBidInc = 0 THEN 100 ELSE cfg.minBidInc

IsExpired(expiration) == expiration # 0 /\ height > expiration

PaymentTokenAllowed(t) == t \in cfg.allowed

CollectionAllowed(c) == c \notin cfg.denied

(* What a transfer of `requested` may bring into the market's balance. *)
Arrivals(t, requested) == IF t \in Deducting THEN 0 .. requested ELSE {requested}

(* Deposits of these tokens are credited without measuring the balance. *)
CreditsFaceValue(t) == t \in NativeTokens \/ cfg.decoder[t] = "magi_token"

(* escrowIn: what is credited for a transfer of which `arrived` came in.   *)
(* A measured deposit of nothing aborts.                                   *)
EscrowIn(t, requested, arrived) ==
  IF CreditsFaceValue(t) THEN requested ELSE arrived

EscrowAborts(t, arrived) == ~CreditsFaceValue(t) /\ arrived = 0

-----------------------------------------------------------------------------
(* init takes the fee and its recipient, and seeds the whitelist with the  *)
(* native assets and the bid increment with its 1% floor.                  *)
InitialConfig(f, x) ==
  [owner |-> Deployer, pendingOwner |-> NoAccount, paused |-> FALSE,
   feeBps |-> f, feeRecipient |-> x,
   collectionFee |-> [c \in Collections |-> NoFee],
   royalty |-> [c \in Collections |->
                  [bps |-> 0, rcpt |-> NoAccount, splits |-> <<>>]],
   allowed |-> NativeTokens, decoder |-> [t \in Tokens |-> ""],
   denied |-> {},
   minBidInc |-> 100, antiSnipe |-> 0, minOffer |-> 0]

MarketInit ==
  /\ height = 1
  /\ \E f \in {0} \cup FeeChoices, x \in {Deployer} \cup FeeRecipientChoices :
       /\ f <= 10000
       /\ cfg = InitialConfig(f, x)

(* The chain produces the next block. *)
Tick ==
  /\ height < MaxHeight
  /\ height' = height + 1
  /\ UNCHANGED cfg

SetFee(f) ==
  /\ f <= 10000
  /\ cfg' = [cfg EXCEPT !.feeBps = f]

SetFeeRecipient(x) == cfg' = [cfg EXCEPT !.feeRecipient = x]

(* setCollectionFee, or clearCollectionFee when f is NoFee. *)
SetCollectionFee(c, f) ==
  /\ f # NoFee => f <= 10000
  /\ cfg' = [cfg EXCEPT !.collectionFee[c] = f]

(* As SetRoyalty, but the old split list survives and keeps winning. *)
SetRoyaltyKeepingSplits(c, r) ==
  /\ r.bps <= 5000
  /\ r.bps > 0 => r.to # NoAccount
  /\ cfg' = [cfg EXCEPT !.royalty[c].bps = r.bps, !.royalty[c].rcpt = r.to]

(* A single recipient replaces whatever was configured, a split list       *)
(* included.  Signed by the owner of the collection's own contract.        *)
SetRoyalty(c, r) ==
  /\ r.bps <= 5000
  /\ r.bps > 0 => r.to # NoAccount
  /\ cfg' = [cfg EXCEPT !.royalty[c] =
                [bps |-> r.bps, rcpt |-> r.to, splits |-> <<>>]]

SetRoyaltySplits(c, splits) ==
  /\ Len(splits) \in 1 .. MaxRoyaltySplits
  /\ \A i \in 1 .. Len(splits) :
        splits[i].bps \in 1 .. 5000 /\ splits[i].to # NoAccount
  /\ TotalBps(splits) <= 5000
  /\ cfg' = [cfg EXCEPT !.royalty[c] =
                [bps |-> TotalBps(splits), rcpt |-> splits[1].to, splits |-> splits]]

(* pause and unpause, each of which aborts when there is nothing to do. *)
SetPaused(b) ==
  /\ cfg.paused # b
  /\ cfg' = [cfg EXCEPT !.paused = b]

(* An empty decoder argument leaves an existing binding in place. *)
AddPaymentToken(t, d) ==
  cfg' = [cfg EXCEPT !.allowed = @ \cup {t},
                     !.decoder[t] = IF d = "" THEN @ ELSE d]

RemovePaymentToken(t) ==
  cfg' = [cfg EXCEPT !.allowed = @ \ {t}, !.decoder[t] = ""]

DenyCollection(c) == cfg' = [cfg EXCEPT !.denied = @ \cup {c}]

AllowCollection(c) == cfg' = [cfg EXCEPT !.denied = @ \ {c}]

SetMinBidIncrement(v) ==
  /\ v \in 100 .. 10000
  /\ cfg' = [cfg EXCEPT !.minBidInc = v]

(* No bound is placed on the argument. *)
SetAntiSnipeBlocks(v) == cfg' = [cfg EXCEPT !.antiSnipe = v]

SetMinOffer(v) == cfg' = [cfg EXCEPT !.minOffer = v]

(* Mutant of ChangeOwner: the first candidate stays. *)
ChangeOwnerOnce(x) ==
  cfg' = [cfg EXCEPT !.pendingOwner = IF @ = NoAccount THEN x ELSE @]

(* Ownership moves in two steps; proposing again replaces the candidate. *)
ChangeOwner(x) == cfg' = [cfg EXCEPT !.pendingOwner = x]

AcceptOwnership ==
  /\ cfg.pendingOwner # NoAccount
  /\ cfg' = [cfg EXCEPT !.owner = cfg.pendingOwner, !.pendingOwner = NoAccount]

CancelOwnershipTransfer ==
  /\ cfg.pendingOwner # NoAccount
  /\ cfg' = [cfg EXCEPT !.pendingOwner = NoAccount]

(* One configuration entrypoint runs. *)
Configure ==
  /\ UNCHANGED height
  /\ \/ \E f \in FeeChoices : SetFee(f)
     \/ \E x \in FeeRecipientChoices : SetFeeRecipient(x)
     \/ \E cf \in CollectionFeeChoices : SetCollectionFee(cf[1], cf[2])
     \/ \E cr \in RoyaltyChoices : SetRoyalty(cr[1], cr[2])
     \/ \E cs \in SplitChoices : SetRoyaltySplits(cs[1], cs[2])
     \/ \E b \in PauseChoices : SetPaused(b)
     \/ \E td \in AddTokenChoices : AddPaymentToken(td[1], td[2])
     \/ \E t \in RemoveTokenChoices : RemovePaymentToken(t)
     \/ \E c \in DenyChoices : DenyCollection(c)
     \/ \E c \in AllowChoices : AllowCollection(c)
     \/ \E v \in MinBidIncChoices : SetMinBidIncrement(v)
     \/ \E v \in AntiSnipeChoices : SetAntiSnipeBlocks(v)
     \/ \E v \in MinOfferChoices : SetMinOffer(v)
     \/ \E x \in OwnerChoices : ChangeOwner(x)
     \/ AcceptOwnership
     \/ CancelOwnershipTransfer

-----------------------------------------------------------------------------
MarketTypeOK == height \in Nat /\ cfg \in Config

(* The royalty a sale is checked against (the legacy basis points) is the  *)
(* sum of the splits it will pay.  The two are stored under different keys *)
(* and written by two entrypoints in any order; were they to drift, a sale *)
(* that passed the 100% check could not be paid out.                       *)
RoyaltyViewsAgree ==
  \A c \in Collections :
    /\ RoyaltyBps(c) = TotalBps(ResolveRoyaltySplits(c))
    /\ Len(ResolveRoyaltySplits(c)) <= MaxRoyaltySplits

(* Deposits credited at face value arrive in full. *)
DecodersTruthful == \A t \in Deducting : cfg.decoder[t] # "magi_token"
=============================================================================
