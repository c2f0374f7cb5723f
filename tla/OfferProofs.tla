----------------------------- MODULE OfferProofs ----------------------------
(***************************************************************************)
(* The safety properties of Offers, proved for any number of accounts,     *)
(* items, tokens and offers, any royalties and any configuration.          *)
(***************************************************************************)
EXTENDS Offers, MarketProofs

(* What a reader of the events has written down about an offer. *)
OfferEntry ==
  [known : {TRUE}, buyer : Accounts, nftContract : Collections, wants : SUBSET Items,
   amount : Nat, pricePerUnit : Nat, paymentToken : Tokens, expirationBlock : Nat,
   open : BOOLEAN, taken : Nat, spent : Nat]

(* The typing, without what it says of the query. *)
Typed ==
  /\ offers \in [OfferIds -> OfferRecord]
  /\ nextOfferId \in 0 .. MaxOffers
  /\ approved \subseteq Items \X Accounts
  /\ pool \in [Tokens -> Nat]
  /\ nft \in [Items -> [Holders -> Nat]]
  /\ paidIn \in [OfferIds -> Nat] /\ delivered \in [OfferIds -> Nat]
  /\ refunded \in [OfferIds -> Nat]
  /\ books \in [OfferIds -> {NoEntry} \cup OfferEntry]

(* Nothing is recorded under an id that has not been given out. *)
Unmade(id) ==
  /\ offers[id] = NoOffer /\ books[id] = NoEntry
  /\ paidIn[id] = 0 /\ delivered[id] = 0 /\ refunded[id] = 0

(* What makeOffer checks and no later step undoes.  Royalties that are     *)
(* within 100% take the agreement of their two views.                      *)
SoundTerms(o) ==
  /\ o.b \in Accounts /\ o.a > 0 /\ o.p > 0
  /\ o.fb + TotalBps(o.rs) <= BpsDenominator
  /\ TotalBps(o.rs) <= 5000

(* Where the money of an offer is, of which `in` came in, `out` units were *)
(* delivered for and `back` went back.                                     *)
Settled(o, in, out, back) ==
  /\ in = o.esc + o.p * out + back
  /\ ~o.act => o.esc = 0
  /\ o.act => o.esc <= o.p * o.a

(* What was written down of an offer is what the query shows of it.        *)
WrittenDown(o, e, out) ==
  /\ e.buyer = o.b /\ e.nftContract = o.nc /\ e.wants = o.wants
  /\ e.pricePerUnit = o.p /\ e.paymentToken = o.pt /\ e.expirationBlock = o.exp
  /\ e.taken = out /\ e.spent = o.p * e.taken
  /\ o.act <=> e.open /\ e.taken # e.amount
  /\ o.act => o.a = e.amount - e.taken

Made(id) ==
  /\ books[id] \in OfferEntry
  /\ SoundTerms(Offer(id))
  /\ Settled(Offer(id), paidIn[id], delivered[id], refunded[id])
  /\ WrittenDown(Offer(id), books[id], delivered[id])

Situation(id) == IF id >= nextOfferId THEN Unmade(id) ELSE Made(id)

(* The balance of every payment token is what the offers have in escrow.   *)
PoolBacked ==
  \A t \in Tokens : pool[t] = Total([id \in OfferIds |-> EscrowedIn(id, t)])

(* None of the parts is inductive alone: that a refund leaves a balance    *)
(* takes PoolBacked, that what is over holds nothing takes the bound on    *)
(* the escrow of an offer that is not, and both take truthful decoders.    *)
OfferInv ==
  MarketInv /\ Typed /\ PoolBacked /\ \A id \in OfferIds : Situation(id)

-----------------------------------------------------------------------------
(* Multiplication of prices distributes over units.                        *)
LEMMA PriceOfUnits ==
  ASSUME NEW p \in Nat, NEW m \in Nat, NEW n \in Nat
  PROVE  /\ p * m \in Nat
         /\ p * (m + n) = p * m + p * n
         /\ n <= m => p * (m - n) = p * m - p * n
BY Z3

(* An offer that has not been made is worth nothing and nobody's. *)
LEMMA NoOfferIsEmpty ==
  /\ NoOffer.b = NoAccount /\ NoOffer.act = FALSE /\ NoOffer.p = 0
  /\ NoOffer.esc = 0 /\ NoOffer.fb = 0 /\ NoOffer.rs = <<>>
BY DEF NoOffer

(* There are finitely many offers. *)
LEMMA OfferIdsFinite == IsFiniteSet(OfferIds)
BY FS_Interval, OfferAssumption DEF OfferIds

(* What an offer holds of a token. *)
HeldOf(o, t) == IF o.pt = t THEN o.esc ELSE 0

LEMMA EscrowedType ==
  ASSUME Typed, NEW t
  PROVE  [id \in OfferIds |-> EscrowedIn(id, t)] \in [OfferIds -> Nat]
<1>1. ASSUME NEW id \in OfferIds
      PROVE  EscrowedIn(id, t) \in Nat
  BY DEF Typed, OfferRecord, EscrowedIn, Offer
<1> QED
  BY <1>1

(* An offer that is made is typed. *)
LEMMA OfferOf ==
  ASSUME OfferInv, NEW id \in OfferIds
  PROVE  /\ Situation(id) /\ Offer(id) \in OfferRecord
         /\ id \in Nat /\ nextOfferId \in Nat
         /\ paidIn[id] \in Nat /\ delivered[id] \in Nat /\ refunded[id] \in Nat
BY OfferAssumption DEF OfferInv, Typed, Offer, OfferIds

(* Only an offer that has been made is active, and the balance covers it.  *)
LEMMA ActiveIsMade ==
  ASSUME OfferInv, NEW id \in OfferIds, Offer(id).act
  PROVE  Made(id) /\ id < nextOfferId /\ pool[Offer(id).pt] >= Offer(id).esc
<1>1. Made(id) /\ id < nextOfferId
  <2>1. ~Unmade(id)
    BY NoOfferIsEmpty DEF Unmade, Offer
  <2> QED
    BY <2>1, OfferOf DEF Situation
<1> DEFINE t == Offer(id).pt
           f == [j \in OfferIds |-> EscrowedIn(j, t)]
<1>2. t \in Tokens
  BY OfferOf DEF OfferRecord
<1>3. f \in [OfferIds -> Nat]
  BY EscrowedType DEF OfferInv
<1>4. f[id] = Offer(id).esc
  BY DEF EscrowedIn
<1>5. pool[t] = Total(f)
  BY <1>2 DEF OfferInv, PoolBacked
<1>6. f[id] <= Total(f)
  <2> HIDE DEF f
  <2> QED
    BY <1>3, OfferIdsFinite, TotalBound
<1>7. Total(f) \in Nat /\ f[id] \in Nat
  <2> HIDE DEF f
  <2> QED
    BY <1>3, OfferIdsFinite, TotalType
<1> QED
  BY <1>1, <1>4, <1>5, <1>6, <1>7

(* Record, history and entry of an offer become these.                     *)
Becomes(id, o, e, in, out, back) ==
  /\ offers' = [offers EXCEPT ![id] = o] /\ books' = [books EXCEPT ![id] = e]
  /\ paidIn' = [paidIn EXCEPT ![id] = in]
  /\ delivered' = [delivered EXCEPT ![id] = out]
  /\ refunded' = [refunded EXCEPT ![id] = back]

(* A record, an entry and a history that fit together.                     *)
Consistent(o, e, in, out, back) ==
  /\ o \in OfferRecord /\ e \in OfferEntry /\ in \in Nat /\ out \in Nat /\ back \in Nat
  /\ SoundTerms(o) /\ Settled(o, in, out, back) /\ WrittenDown(o, e, out)

(* The balances follow what the offer holds.                               *)
BalanceFollows(id, o) ==
  /\ pool' \in [Tokens -> Nat]
  /\ \A t \in Tokens : pool'[t] = pool[t] - EscrowedIn(id, t) + HeldOf(o, t)

(* The offer is one that has been made, or the next one.                   *)
Numbered(id) ==
  /\ nextOfferId' \in 0 .. MaxOffers /\ id < nextOfferId'
  /\ nextOfferId' = nextOfferId \/ (id = nextOfferId /\ nextOfferId' = id + 1)

(* What the NFT contracts keep is typed.                                   *)
UnitsTyped == approved \subseteq Items \X Accounts /\ nft \in [Items -> [Holders -> Nat]]

(* One offer's record changes from a state of the books to another, and    *)
(* the balances follow what it has in escrow.                              *)
LEMMA OneOffer ==
  ASSUME OfferInv, MarketInv', NEW id \in OfferIds, NEW o, NEW e, NEW in, NEW out, NEW back,
         Consistent(o, e, in, out, back), Becomes(id, o, e, in, out, back),
         BalanceFollows(id, o), Numbered(id), UnitsTyped'
  PROVE  OfferInv'
<1>1. Typed
  BY DEF OfferInv
<1>2. Typed'
  BY <1>1 DEF Typed, Consistent, Becomes, BalanceFollows, Numbered, UnitsTyped
<1>3. /\ offers'[id] = o /\ books'[id] = e
      /\ paidIn'[id] = in /\ delivered'[id] = out /\ refunded'[id] = back
  BY <1>1 DEF Typed, Becomes
<1>4. \A j \in OfferIds \ {id} :
        /\ offers'[j] = offers[j] /\ books'[j] = books[j] /\ paidIn'[j] = paidIn[j]
        /\ delivered'[j] = delivered[j] /\ refunded'[j] = refunded[j]
  BY <1>1 DEF Typed, Becomes
<1>5. ASSUME NEW j \in OfferIds
      PROVE  Situation(j)'
  <2>1. CASE j = id
    <3>1. Made(id)'
      BY <1>3 DEF Made, Offer, Consistent
    <3>2. id \in Nat /\ nextOfferId' \in Nat /\ id < nextOfferId'
      BY OfferAssumption DEF OfferIds, Numbered
    <3> QED
      BY <2>1, <3>1, <3>2 DEF Situation
  <2>2. CASE j # id
    <3>1. Situation(j) /\ j \in Nat /\ id \in Nat /\ nextOfferId \in Nat
      BY OfferOf
    <3>2. j >= nextOfferId' <=> j >= nextOfferId
      BY <2>2, <3>1 DEF Numbered
    <3>3. (Unmade(j) => Unmade(j)') /\ (Made(j) => Made(j)')
      BY <1>4, <2>2 DEF Unmade, Made, Offer
    <3> QED
      BY <3>1, <3>2, <3>3 DEF Situation
  <2> QED
    BY <2>1, <2>2
<1>6. ASSUME NEW t \in Tokens
      PROVE  pool'[t] = Total([j \in OfferIds |-> EscrowedIn(j, t)])'
  <2> DEFINE f == [j \in OfferIds |-> EscrowedIn(j, t)]
             g == [j \in OfferIds |-> EscrowedIn(j, t)']
  <2>1. f \in [OfferIds -> Nat]
    BY <1>1, EscrowedType
  <2>2. g \in [OfferIds -> Nat]
    <3>1. ASSUME NEW j \in OfferIds
          PROVE  EscrowedIn(j, t)' \in Nat
      BY <1>2 DEF Typed, OfferRecord, EscrowedIn, Offer
    <3> QED
      BY <3>1
  <2>3. \A j \in OfferIds \ {id} : g[j] = f[j]
    BY <1>4 DEF EscrowedIn, Offer
  <2>4. f[id] = EscrowedIn(id, t) /\ g[id] = HeldOf(o, t)
    BY <1>3 DEF EscrowedIn, HeldOf, Offer
  <2>5. Total(g) = Total(f) - f[id] + g[id]
    <3> HIDE DEF f, g
    <3> QED
      BY <2>1, <2>2, <2>3, OfferIdsFinite, TotalUpdate
  <2>6. pool[t] = Total(f)
    BY DEF OfferInv, PoolBacked
  <2>7. pool'[t] = pool[t] - EscrowedIn(id, t) + HeldOf(o, t)
    BY DEF BalanceFollows
  <2> QED
    BY <2>4, <2>5, <2>6, <2>7
<1>7. PoolBacked'
  BY <1>6 DEF PoolBacked
<1> QED
  BY <1>2, <1>5, <1>7 DEF OfferInv

(* A step that leaves the offers, the money and the books alone. *)
LEMMA OffersLeftAlone ==
  ASSUME OfferInv, MarketInv',
         UNCHANGED <<offers, nextOfferId, pool, paidIn, delivered, refunded, books>>,
         UnitsTyped'
  PROVE  OfferInv'
<1>1. Typed'
  BY DEF OfferInv, Typed, UnitsTyped
<1>2. PoolBacked'
  BY DEF OfferInv, PoolBacked, EscrowedIn, Offer
<1>3. \A id \in OfferIds : Situation(id)'
  BY DEF OfferInv, Situation, Unmade, Made, Offer
<1> QED
  BY <1>1, <1>2, <1>3 DEF OfferInv

-----------------------------------------------------------------------------
(* makeOffer puts what arrived into escrow, at most the price.             *)
LEMMA MakeOfferKeeps ==
  ASSUME OfferInv, NEW b \in Accounts, NEW c \in Collections, NEW n \in Nat,
         NEW p \in Nat, NEW t \in Tokens, NEW exp \in Nat, NEW wants \in SUBSET Items,
         NEW arrived \in Nat, MakeOffer(b, c, wants, n, p, t, exp, arrived),
         Log(OfferMade(nextOfferId, b, c, wants, n, p, t, exp))
  PROVE  OfferInv'
<1> DEFINE received == EscrowIn(t, p * n, arrived)
           fb == EffectiveFeeBps(c)
           rs == ResolveRoyaltySplits(c)
           o == [b |-> b, nc |-> c, wants |-> wants, a |-> n, p |-> p, pt |-> t,
                 act |-> TRUE, exp |-> exp, fb |-> fb, rs |-> rs, esc |-> received]
           e == [known |-> TRUE, buyer |-> b, nftContract |-> c, wants |-> wants,
                 amount |-> n, pricePerUnit |-> p, paymentToken |-> t,
                 expirationBlock |-> exp, open |-> TRUE, taken |-> 0, spent |-> 0]
<1>1. PICK id \in OfferIds : id = nextOfferId
  BY OfferAssumption DEF OfferInv, Typed, OfferIds, MakeOffer
<1>2. /\ fb + RoyaltyBps(c) <= 10000
      /\ p > 0 /\ n > 0
      /\ arrived \in Arrivals(t, p * n)
      /\ id < MaxOffers
      /\ offers' = [offers EXCEPT ![id] = o]
      /\ nextOfferId' = id + 1
      /\ pool' = [pool EXCEPT ![t] = @ + arrived]
      /\ paidIn' = [paidIn EXCEPT ![id] = arrived]
      /\ UNCHANGED <<marketVars, approved, nft, delivered, refunded>>
  BY <1>1 DEF MakeOffer
<1>3. books' = [books EXCEPT ![id] = e]
  BY <1>1 DEF Log, Told, OfferMade
<1>4. received = arrived /\ p * n \in Nat /\ arrived <= p * n
  <2>1. DecodersTruthful
    BY DEF OfferInv, MarketInv
  <2>2. p * n \in Nat
    BY PriceOfUnits
  <2>3. arrived <= p * n
    BY <1>2, <2>2 DEF Arrivals
  <2> QED
    BY <1>2, <2>1, <2>2, <2>3, DepositCredited
<1>5. /\ fb \in Nat /\ rs \in Seq(Split)
      /\ fb + TotalBps(rs) <= BpsDenominator /\ TotalBps(rs) <= 5000
  BY <1>2, LockedTerms DEF OfferInv
<1>6. Unmade(id)
  BY <1>1, OfferOf DEF Situation
<1>7. Typed
  BY DEF OfferInv
<1> HIDE DEF received, fb, rs
<1>8. o \in OfferRecord
  BY <1>4, <1>5 DEF OfferRecord
<1>9. e \in OfferEntry
  BY DEF OfferEntry
<1>10. SoundTerms(o)
  BY <1>2, <1>5 DEF SoundTerms
<1>11. Settled(o, arrived, 0, 0)
  <2>1. p * 0 = 0
    BY Z3
  <2>2. o.esc = arrived /\ o.act = TRUE /\ o.p = p /\ o.a = n
    BY <1>4
  <2> HIDE DEF o
  <2> QED
    BY <1>4, <2>1, <2>2 DEF Settled
<1>12. WrittenDown(o, e, 0)
  <2>1. p * 0 = 0
    BY Z3
  <2> QED
    BY <1>2, <2>1 DEF WrittenDown
<1>13. delivered' = [delivered EXCEPT ![id] = 0] /\ refunded' = [refunded EXCEPT ![id] = 0]
  BY <1>2, <1>6, <1>7 DEF Typed, Unmade
<1>14. o.pt = t /\ o.esc = arrived
  BY <1>4
<1>15. \A u \in Tokens : EscrowedIn(id, u) = 0
  BY <1>6, NoOfferIsEmpty DEF EscrowedIn, Unmade, Offer
<1>16. Consistent(o, e, arrived, 0, 0)
  BY <1>8, <1>9, <1>10, <1>11, <1>12 DEF Consistent
<1> HIDE DEF o, e
<1>17. BalanceFollows(id, o)
  BY <1>2, <1>7, <1>14, <1>15 DEF Typed, HeldOf, BalanceFollows
<1>18. MarketInv'
  BY <1>2, UnchangedMarketInv DEF OfferInv
<1>19. Numbered(id)
  BY <1>1, <1>2, OfferAssumption DEF OfferIds, Numbered
<1>20. UnitsTyped'
  BY <1>2, <1>7 DEF Typed, UnitsTyped
<1>21. Becomes(id, o, e, arrived, 0, 0)
  <2>1. offers' = [offers EXCEPT ![id] = o] /\ paidIn' = [paidIn EXCEPT ![id] = arrived]
    BY <1>2
  <2> QED
    BY <1>3, <1>13, <2>1, Zenon DEF Becomes
<1> QED
  BY <1>16, <1>17, <1>18, <1>19, <1>20, <1>21, OneOffer

(* cancelOffer gives back what is left in escrow.                          *)
LEMMA CancelKeeps ==
  ASSUME OfferInv, NEW id \in OfferIds, NEW x \in Accounts, Cancel(id, x)
  PROVE  OfferInv'
<1> DEFINE was == offers[id]
           o == [was EXCEPT !.act = FALSE, !.esc = 0]
           said == books[id]
           e == [said EXCEPT !.open = FALSE]
           back == refunded[id] + was.esc
<1>1. /\ was.act
      /\ pool[was.pt] >= was.esc
      /\ offers' = [offers EXCEPT ![id] = o]
      /\ pool' = [pool EXCEPT ![was.pt] = @ - was.esc]
      /\ refunded' = [refunded EXCEPT ![id] = back]
      /\ UNCHANGED <<marketVars, nextOfferId, approved, nft, paidIn, delivered>>
  BY DEF Cancel, CancelOffer, Withdrawable, Offer
<1>2. books' = [books EXCEPT ![id] = e]
  BY DEF Cancel, Log, Told, OfferCancelled
<1>3. /\ said \in OfferEntry /\ SoundTerms(was)
      /\ Settled(was, paidIn[id], delivered[id], refunded[id])
      /\ WrittenDown(was, said, delivered[id])
      /\ id < nextOfferId
  BY <1>1, ActiveIsMade DEF Offer, Made
<1>4. was \in OfferRecord /\ paidIn[id] \in Nat /\ delivered[id] \in Nat /\ refunded[id] \in Nat
  BY OfferOf DEF Offer
<1>5. Typed
  BY DEF OfferInv
<1> HIDE DEF was, said
<1>6. /\ o \in OfferRecord /\ o.act = FALSE /\ o.esc = 0
      /\ o.b = was.b /\ o.nc = was.nc /\ o.wants = was.wants /\ o.a = was.a /\ o.p = was.p
      /\ o.pt = was.pt /\ o.exp = was.exp /\ o.fb = was.fb /\ o.rs = was.rs
  BY <1>4 DEF OfferRecord
<1>7. /\ e \in OfferEntry /\ e.open = FALSE
      /\ e.buyer = said.buyer /\ e.nftContract = said.nftContract
      /\ e.wants = said.wants /\ e.amount = said.amount
      /\ e.pricePerUnit = said.pricePerUnit /\ e.paymentToken = said.paymentToken
      /\ e.expirationBlock = said.expirationBlock
      /\ e.taken = said.taken /\ e.spent = said.spent
  BY <1>3 DEF OfferEntry
<1>8. was.esc \in Nat /\ was.p \in Nat /\ was.pt \in Tokens
  BY <1>4 DEF OfferRecord
<1> HIDE DEF o, e
<1>9. SoundTerms(o)
  BY <1>3, <1>6 DEF SoundTerms
<1>10. Settled(o, paidIn[id], delivered[id], back)
  <2>1. was.p * delivered[id] \in Nat
    BY <1>4, <1>8, PriceOfUnits
  <2> QED
    BY <1>3, <1>4, <1>6, <1>8, <2>1 DEF Settled
<1>11. WrittenDown(o, e, delivered[id])
  BY <1>3, <1>6, <1>7 DEF WrittenDown
<1>12. \A u \in Tokens : EscrowedIn(id, u) = HeldOf(was, u)
  BY DEF EscrowedIn, HeldOf, Offer, was
<1>13. BalanceFollows(id, o)
  BY <1>1, <1>5, <1>6, <1>8, <1>12 DEF Typed, HeldOf, BalanceFollows
<1>14. MarketInv'
  BY <1>1, UnchangedMarketInv DEF OfferInv
<1>15. Becomes(id, o, e, paidIn[id], delivered[id], back)
  BY <1>1, <1>2, <1>5 DEF Typed, Becomes
<1>16. Consistent(o, e, paidIn[id], delivered[id], back)
  BY <1>4, <1>6, <1>7, <1>8, <1>9, <1>10, <1>11 DEF Consistent
<1>17. Numbered(id) /\ UnitsTyped'
  BY <1>1, <1>3, <1>5 DEF Typed, Numbered, UnitsTyped
<1> QED
  BY <1>13, <1>14, <1>15, <1>16, <1>17, OneOffer


(* acceptOffer spends the price of the units it delivers.                  *)
LEMMA AcceptOfferKeeps ==
  ASSUME OfferInv, NEW id \in OfferIds, NEW s \in Accounts, NEW i \in Items,
         NEW requested \in Nat, AcceptOffer(id, s, i, requested),
         Log(Accepted(id, s, i, Requested(id, requested)))
  PROVE  OfferInv'
<1> DEFINE was == offers[id]
           n == Requested(id, requested)
           left == was.a - n
           rest == was.esc - was.p * n
           more == left # 0
           shown == IF left = 0 THEN was.a ELSE left
           o == [was EXCEPT !.esc = rest, !.act = more, !.a = shown]
           said == books[id]
           taken == said.taken + n
           spent == said.spent + was.p * n
           e == [said EXCEPT !.taken = taken, !.spent = spent]
           out == delivered[id] + n
<1>1. /\ was.act /\ s # was.b
      /\ n <= was.a /\ was.p * n <= was.esc
      /\ CanMove(i, s, n)
      /\ pool[was.pt] >= was.p * n
      /\ offers' = [offers EXCEPT ![id] = o]
      /\ nft' = Move(i, s, was.b, n)
      /\ Pulled(i, s)
      /\ pool' = [pool EXCEPT ![was.pt] = @ - was.p * n]
      /\ delivered' = [delivered EXCEPT ![id] = out]
      /\ UNCHANGED <<marketVars, nextOfferId, paidIn, refunded>>
  BY DEF AcceptOffer, CanAccept, Filled, Offer
<1>2. books' = [books EXCEPT ![id] = e]
  BY DEF Log, Told, Accepted, OfferAccepted, Offer
<1>3. /\ said \in OfferEntry /\ SoundTerms(was)
      /\ Settled(was, paidIn[id], delivered[id], refunded[id])
      /\ WrittenDown(was, said, delivered[id])
      /\ id < nextOfferId
  BY <1>1, ActiveIsMade DEF Offer, Made
<1>4. /\ was \in OfferRecord
      /\ paidIn[id] \in Nat /\ delivered[id] \in Nat /\ refunded[id] \in Nat
  BY OfferOf DEF Offer
<1>5. Typed
  BY DEF OfferInv
<1>6. n \in Nat /\ n > 0
  BY <1>3, <1>4 DEF Requested, SoundTerms, OfferRecord, Offer
<1> HIDE DEF was, said, n, left
<1>7. /\ was.esc \in Nat /\ was.p \in Nat /\ was.pt \in Tokens /\ was.a \in Nat
      /\ was.b \in Accounts
  BY <1>3, <1>4 DEF OfferRecord, SoundTerms
<1>8. left \in Nat /\ left = was.a - n /\ left < was.a
  BY <1>1, <1>6, <1>7 DEF left
<1> DEFINE cost == was.p * n
           before == was.p * delivered[id]
           most == was.p * was.a
<1>9. /\ cost \in Nat /\ before \in Nat /\ most \in Nat
      /\ was.p * out = before + cost
      /\ was.p * left = most - cost
  <2>1. cost \in Nat /\ before \in Nat /\ most \in Nat
    BY <1>4, <1>6, <1>7, PriceOfUnits
  <2>2. was.p * out = before + cost
    BY <1>4, <1>6, <1>7, PriceOfUnits
  <2>3. n <= was.a
    BY <1>1
  <2>4. was.p * (was.a - n) = most - cost
    BY <1>6, <1>7, <2>3, PriceOfUnits
  <2> QED
    BY <1>8, <2>1, <2>2, <2>4
<1>10. cost <= was.esc /\ cost <= pool[was.pt]
  <2>1. pool[was.pt] \in Nat
    BY <1>5, <1>7 DEF Typed
  <2> QED
    BY <1>1, <2>1
<1> HIDE DEF cost, before, most
<1>11. /\ o \in OfferRecord /\ o.act = (left # 0) /\ o.esc = was.esc - cost
       /\ o.a = (IF left = 0 THEN was.a ELSE left)
       /\ o.b = was.b /\ o.nc = was.nc /\ o.wants = was.wants /\ o.p = was.p
       /\ o.pt = was.pt /\ o.exp = was.exp /\ o.fb = was.fb /\ o.rs = was.rs
  <2>1. rest \in Nat /\ rest = was.esc - cost
    BY <1>7, <1>9, <1>10 DEF cost
  <2>2. more \in BOOLEAN /\ more = (left # 0)
    OBVIOUS
  <2>3. shown \in Nat /\ shown = (IF left = 0 THEN was.a ELSE left)
    BY <1>7, <1>8
  <2> HIDE DEF rest, more, shown
  <2>4. o \in OfferRecord
    BY <1>4, <2>1, <2>2, <2>3 DEF OfferRecord
  <2>5. /\ o.act = more /\ o.esc = rest /\ o.a = shown
        /\ o.b = was.b /\ o.nc = was.nc /\ o.wants = was.wants /\ o.p = was.p
        /\ o.pt = was.pt /\ o.exp = was.exp /\ o.fb = was.fb /\ o.rs = was.rs
    BY <1>4 DEF OfferRecord
  <2> QED
    BY <2>1, <2>2, <2>3, <2>4, <2>5
<1>12. /\ e \in OfferEntry /\ e.open = said.open
       /\ e.buyer = said.buyer /\ e.nftContract = said.nftContract
       /\ e.wants = said.wants /\ e.amount = said.amount
       /\ e.pricePerUnit = said.pricePerUnit /\ e.paymentToken = said.paymentToken
       /\ e.expirationBlock = said.expirationBlock
       /\ e.taken = said.taken + n /\ e.spent = said.spent + cost
       /\ said.amount \in Nat /\ said.taken \in Nat /\ said.spent \in Nat
  <2>1. said.amount \in Nat /\ said.taken \in Nat /\ said.spent \in Nat
    BY <1>3 DEF OfferEntry
  <2>2. taken \in Nat /\ spent \in Nat /\ taken = said.taken + n /\ spent = said.spent + cost
    BY <1>6, <1>9, <2>1 DEF cost
  <2> HIDE DEF taken, spent
  <2>3. e \in OfferEntry
    BY <1>3, <2>2 DEF OfferEntry
  <2>4. /\ e.open = said.open /\ e.taken = taken /\ e.spent = spent
        /\ e.buyer = said.buyer /\ e.nftContract = said.nftContract
        /\ e.wants = said.wants /\ e.amount = said.amount
        /\ e.pricePerUnit = said.pricePerUnit /\ e.paymentToken = said.paymentToken
        /\ e.expirationBlock = said.expirationBlock
    BY <1>3 DEF OfferEntry
  <2> QED
    BY <2>1, <2>2, <2>3, <2>4
<1>13. out \in Nat /\ out = delivered[id] + n
  BY <1>4, <1>6
<1> HIDE DEF o, e, out
<1>14. SoundTerms(o)
  BY <1>3, <1>7, <1>8, <1>11 DEF SoundTerms
<1>15. Settled(o, paidIn[id], out, refunded[id])
  <2>1. paidIn[id] = was.esc + before + refunded[id] /\ was.esc <= most
    BY <1>1, <1>3 DEF Settled, before, most, was
  <2>2. paidIn[id] = o.esc + o.p * out + refunded[id]
    BY <1>4, <1>7, <1>9, <1>11, <2>1
  <2>3. CASE left = 0
    <3>1. was.p * left = 0
      BY <1>7, <2>3, Z3
    <3>2. o.esc = 0
      BY <1>7, <1>9, <1>10, <1>11, <2>1, <3>1
    <3> QED
      BY <1>11, <2>2, <2>3, <3>2 DEF Settled
  <2>4. CASE left # 0
    <3>1. o.esc <= o.p * o.a
      BY <1>7, <1>9, <1>10, <1>11, <2>1, <2>4
    <3> QED
      BY <1>11, <2>2, <2>4, <3>1 DEF Settled
  <2> QED
    BY <2>3, <2>4
<1>16. WrittenDown(o, e, out)
  <2>1. /\ said.taken = delivered[id] /\ said.spent = was.p * delivered[id]
        /\ said.open /\ said.taken # said.amount
        /\ was.a = said.amount - said.taken
    BY <1>1, <1>3 DEF WrittenDown, was
  <2>2. e.taken = out /\ e.spent = o.p * e.taken
    BY <1>9, <1>11, <1>12, <1>13, <2>1 DEF before
  <2>3. left = e.amount - e.taken
    BY <1>6, <1>7, <1>8, <1>12, <2>1
  <2>4. (o.act <=> e.open /\ e.taken # e.amount) /\ (o.act => o.a = e.amount - e.taken)
    <3>1. e.open
      BY <1>12, <2>1
    <3>2. e.amount \in Nat /\ e.taken \in Nat
      BY <1>12, <1>13, <2>2
    <3>3. left = 0 <=> e.taken = e.amount
      BY <2>3, <3>2
    <3>4. (o.act <=> left # 0) /\ (left # 0 => o.a = left)
      BY <1>11
    <3> QED
      BY <2>3, <3>1, <3>3, <3>4
  <2>5. /\ said.buyer = was.b /\ said.nftContract = was.nc /\ said.wants = was.wants
        /\ said.pricePerUnit = was.p /\ said.paymentToken = was.pt
        /\ said.expirationBlock = was.exp
    BY <1>3 DEF WrittenDown
  <2> QED
    BY <1>11, <1>12, <2>2, <2>4, <2>5 DEF WrittenDown
<1>17. \A u \in Tokens : EscrowedIn(id, u) = HeldOf(was, u)
  BY DEF EscrowedIn, HeldOf, Offer, was
<1>18. pool' = [pool EXCEPT ![was.pt] = @ - cost]
  BY <1>1 DEF cost
<1>19. BalanceFollows(id, o)
  BY <1>5, <1>7, <1>9, <1>10, <1>11, <1>17, <1>18 DEF Typed, HeldOf, BalanceFollows
<1>20. MarketInv'
  BY <1>1, UnchangedMarketInv DEF OfferInv
<1>21. Becomes(id, o, e, paidIn[id], out, refunded[id])
  <2>1. /\ offers' = [offers EXCEPT ![id] = o]
        /\ delivered' = [delivered EXCEPT ![id] = out]
        /\ UNCHANGED <<paidIn, refunded>>
    BY <1>1
  <2> QED
    BY <1>2, <1>5, <2>1 DEF Typed, Becomes
<1>22. Consistent(o, e, paidIn[id], out, refunded[id])
  BY <1>4, <1>11, <1>12, <1>13, <1>14, <1>15, <1>16 DEF Consistent
<1>23. Numbered(id)
  BY <1>1, <1>3, <1>5 DEF Typed, Numbered
<1>24. UnitsTyped'
  <2>1. nft' \in [Items -> [Holders -> Nat]]
    BY <1>1, <1>5, <1>6, <1>7, MoveBalances DEF Typed, Holders
  <2>2. approved' \subseteq Items \X Accounts
    BY <1>1, <1>5 DEF Typed, Pulled
  <2> QED
    BY <2>1, <2>2 DEF UnitsTyped
<1> QED
  BY <1>19, <1>20, <1>21, <1>22, <1>23, <1>24, OneOffer

(* Granting or revoking an approval touches no offer.                      *)
LEMMA SetApprovalKeeps ==
  ASSUME OfferInv, NEW ix \in Allowances, SetApproval(ix[1], ix[2]), Silent
  PROVE  OfferInv'
<1>1. ix[1] \in Items /\ ix[2] \in Accounts
  BY ApprovalAssumption
<1>2. UnitsTyped'
  BY <1>1 DEF SetApproval, FlipApproval, UnitsTyped, OfferInv, Typed
<1>3. MarketInv'
  BY UnchangedMarketInv DEF OfferInv, SetApproval
<1> QED
  BY <1>2, <1>3, OffersLeftAlone DEF SetApproval, Silent, history

(* Neither does a trade outside the market. *)
LEMMA TransferOutsideKeeps ==
  ASSUME OfferInv, NEW ixy \in OutsideTrades, TransferOutside(ixy[1], ixy[2], ixy[3]), Silent
  PROVE  OfferInv'
<1> DEFINE i == ixy[1]
           x == ixy[2]
           y == ixy[3]
<1>1. i \in Items /\ x \in Holders /\ y \in Holders
  BY CustodyAssumption DEF Holders
<1>2. PICK n \in LotSizes : x # y /\ CanMove(i, x, n) /\ nft' = Move(i, x, y, n)
  BY DEF TransferOutside
<1>3. n \in Nat
  BY CustodyAssumption
<1> HIDE DEF i, x, y
<1>4. nft' \in [Items -> [Holders -> Nat]]
  BY <1>1, <1>2, <1>3, MoveBalances DEF OfferInv, Typed
<1>5. UnitsTyped'
  BY <1>4 DEF TransferOutside, UnitsTyped, OfferInv, Typed
<1>6. MarketInv'
  BY UnchangedMarketInv DEF OfferInv, TransferOutside
<1> QED
  BY <1>5, <1>6, OffersLeftAlone DEF TransferOutside, Silent, history

(* Blocks and settings touch no offer either.                              *)
LEMMA EnvironmentKeeps ==
  ASSUME OfferInv, (Environment /\ Silent) \/ UNCHANGED vars
  PROVE  OfferInv'
<1>1. MarketInv'
  BY TickInv, ConfigureInv, UnchangedMarketInv DEF Environment, OfferInv, vars
<1>2. UNCHANGED <<offerVars, books>>
  BY DEF Environment, Silent, vars
<1>3. UnitsTyped'
  BY <1>2 DEF offerVars, UnitsTyped, OfferInv, Typed
<1> QED
  BY <1>1, <1>2, <1>3, OffersLeftAlone DEF offerVars, history

-----------------------------------------------------------------------------
(* Before anything has happened nothing is recorded of any offer.          *)
LEMMA InitOffers ==
  ASSUME Init
  PROVE  OfferInv
<1>1. MarketInv
  BY MarketInitInv DEF Init
<1>2. NoOffer \in OfferRecord /\ NoOffer.esc = 0
  <2>1. \E c \in Collections : TRUE
    BY CustodyAssumption
  <2>2. \E t \in Tokens : TRUE
    BY CustodyAssumption
  <2> DEFINE c == CHOOSE c \in Collections : TRUE
             t == CHOOSE t \in Tokens : TRUE
  <2>3. c \in Collections /\ t \in Tokens
    BY <2>1, <2>2
  <2> HIDE DEF c, t
  <2>4. NoOffer = [b |-> NoAccount, nc |-> c, wants |-> {}, a |-> 0, p |-> 0, pt |-> t,
                   act |-> FALSE, exp |-> 0, fb |-> 0, rs |-> <<>>, esc |-> 0]
    BY DEF NoOffer, c, t
  <2> QED
    BY <2>3, <2>4 DEF OfferRecord
<1>3. Typed
  <2>1. ASSUME NEW i \in Items, NEW x \in Holders
        PROVE  (IF x = Market THEN 0 ELSE MintedTo[i][x]) \in Nat
    BY CustodyAssumption DEF Holders
  <2>2. nextOfferId \in 0 .. MaxOffers
    BY OfferAssumption DEF Init
  <2>3. approved \subseteq Items \X Accounts
    BY DEF Init, ApprovalInit
  <2> HIDE DEF NoOffer
  <2> QED
    BY <1>2, <2>1, <2>2, <2>3 DEF Init, Typed
<1>4. ASSUME NEW id \in OfferIds
      PROVE  Situation(id)
  <2>1. id >= 0
    BY OfferAssumption DEF OfferIds
  <2>2. Unmade(id)
    BY DEF Init, Unmade
  <2> QED
    BY <2>1, <2>2 DEF Init, Situation
<1>5. PoolBacked
  <2> SUFFICES ASSUME NEW t \in Tokens
               PROVE  pool[t] = Total([id \in OfferIds |-> EscrowedIn(id, t)])
    BY DEF PoolBacked
  <2>1. \A id \in OfferIds : EscrowedIn(id, t) = 0
    BY <1>2 DEF Init, EscrowedIn, Offer
  <2>2. [id \in OfferIds |-> EscrowedIn(id, t)] = [id \in OfferIds |-> 0]
    BY <2>1
  <2>3. Total([id \in OfferIds |-> 0]) = 0
    BY TotalZero
  <2> QED
    BY <2>2, <2>3 DEF Init
<1> QED
  BY <1>1, <1>3, <1>4, <1>5 DEF OfferInv

(* Every step keeps the invariant.                                         *)
LEMMA StepOffers ==
  ASSUME OfferInv, [Next]_vars
  PROVE  OfferInv'
<1>1. CASE (Environment /\ Silent) \/ UNCHANGED vars
  BY <1>1, EnvironmentKeeps
<1>2. ASSUME NEW b \in Accounts, NEW c \in Collections, NEW n \in Amounts,
             NEW p \in UnitPrices, NEW t \in Tokens, NEW exp \in Expirations,
             NEW wants \in {{i} : i \in ItemsOf(c)} \cup {ItemsOf(c)},
             NEW arrived \in 0 .. p * n,
             MakeOffer(b, c, wants, n, p, t, exp, arrived),
             Log(OfferMade(nextOfferId, b, c, wants, n, p, t, exp))
      PROVE  OfferInv'
  <2>1. n \in Nat /\ p \in Nat /\ exp \in Nat /\ arrived \in Nat
    BY OfferAssumption
  <2>2. wants \in SUBSET Items
    BY DEF ItemsOf
  <2> QED
    BY <1>2, <2>1, <2>2, MakeOfferKeeps
<1>3. ASSUME NEW id \in OfferIds, NEW x \in Accounts, Cancel(id, x)
      PROVE  OfferInv'
  BY <1>3, CancelKeeps
<1>4. ASSUME NEW id \in OfferIds, NEW s \in Accounts, NEW i \in Items,
             NEW n \in AcceptAmounts, AcceptOffer(id, s, i, n),
             Log(Accepted(id, s, i, Requested(id, n)))
      PROVE  OfferInv'
  <2>1. n \in Nat
    BY OfferAssumption
  <2> QED
    BY <1>4, <2>1, AcceptOfferKeeps
<1>5. ASSUME NEW ix \in Allowances, SetApproval(ix[1], ix[2]), Silent
      PROVE  OfferInv'
  BY <1>5, SetApprovalKeeps
<1>6. ASSUME NEW ixy \in OutsideTrades, TransferOutside(ixy[1], ixy[2], ixy[3]), Silent
      PROVE  OfferInv'
  BY <1>6, TransferOutsideKeeps
<1> QED
  BY <1>1, <1>2, <1>3, <1>4, <1>5, <1>6 DEF Next

(* The invariant on which the theorems below rest.                         *)
THEOREM OffersInvariant == Spec => []OfferInv
<1>1. Init => OfferInv
  BY InitOffers
<1>2. OfferInv /\ [Next]_vars => OfferInv'
  BY StepOffers
<1> QED
  BY <1>1, <1>2, PTL DEF Spec

-----------------------------------------------------------------------------
(* A made offer has a buyer, an unmade one has none.                       *)
LEMMA FoundIsMade ==
  ASSUME OfferInv, NEW id \in OfferIds
  PROVE  IF OfferFound(id) THEN Made(id) ELSE Unmade(id)
<1>1. CASE id >= nextOfferId
  <2>1. Unmade(id)
    BY <1>1, OfferOf DEF Situation
  <2>2. ~OfferFound(id)
    BY <2>1, NoOfferIsEmpty DEF Unmade, OfferFound, Offer
  <2> QED
    BY <2>1, <2>2
<1>2. CASE ~(id >= nextOfferId)
  <2>1. Made(id)
    BY <1>2, OfferOf DEF Situation
  <2>2. OfferFound(id)
    BY <2>1, AccountAssumption DEF Made, SoundTerms, OfferFound
  <2> QED
    BY <2>1, <2>2
<1> QED
  BY <1>1, <1>2

(* The invariant implies the typing.                                       *)
LEMMA InvTypes ==
  ASSUME OfferInv
  PROVE  TypeOK
<1>1. ASSUME NEW id \in OfferIds, OfferFound(id)
      PROVE  GetOffer(id) \in OfferResponse
  <2>1. Made(id)
    BY <1>1, FoundIsMade
  <2>2. /\ Offer(id).b \in Accounts /\ Offer(id).a > 0 /\ Offer(id).p > 0
        /\ Offer(id).fb + TotalBps(Offer(id).rs) <= 10000 /\ TotalBps(Offer(id).rs) <= 5000
    BY <2>1 DEF Made, SoundTerms, BpsDenominator
  <2>3. Offer(id) \in OfferRecord
    BY OfferOf
  <2>4. Offer(id).rs \in Seq(Split) /\ Offer(id).fb \in Nat
    BY <2>3 DEF OfferRecord
  <2>5. TotalBps(Offer(id).rs) \in Nat
    BY <2>4, TotalBpsOfSplits
  <2>6. Offer(id).fb \in 0 .. 10000 /\ TotalBps(Offer(id).rs) \in 0 .. 5000
    <3> DEFINE f == Offer(id).fb
               r == TotalBps(Offer(id).rs)
    <3>1. f \in Nat /\ r \in Nat /\ f + r <= 10000 /\ r <= 5000
      BY <2>2, <2>4, <2>5
    <3> HIDE DEF f, r
    <3>2. f \in 0 .. 10000 /\ r \in 0 .. 5000
      BY <3>1
    <3> QED
      BY <3>2 DEF f, r
  <2> QED
    BY <2>2, <2>3, <2>6 DEF GetOffer, OfferResponse, OfferRecord
<1> QED
  BY <1>1 DEF OfferInv, MarketInv, Typed, TypeOK

(* The invariant implies that the escrow is backed and payable.            *)
LEMMA InvBacks ==
  ASSUME OfferInv
  PROVE  EscrowBacked
<1>1. ASSUME NEW id \in OfferIds, NEW n \in 0 .. Offer(id).a
      PROVE  Payable(Offer(id).p * n, Offer(id).fb, Offer(id).rs)
  <2>1. /\ Offer(id).p \in Nat /\ Offer(id).a \in Nat /\ Offer(id).fb \in Nat
        /\ Offer(id).rs \in Seq(Split)
    BY OfferOf DEF OfferRecord
  <2>2. Offer(id).p * n \in Nat
    BY <2>1, PriceOfUnits
  <2>3. Offer(id).fb + TotalBps(Offer(id).rs) <= BpsDenominator
    <3>1. CASE OfferFound(id)
      BY <3>1, FoundIsMade DEF Made, SoundTerms
    <3>2. CASE ~OfferFound(id)
      <4>1. Offer(id).fb = 0 /\ Offer(id).rs = <<>>
        BY <3>2, FoundIsMade, NoOfferIsEmpty DEF Unmade, Offer
      <4> QED
        BY <4>1, NoSplitsNoBps DEF BpsDenominator
    <3> QED
      BY <3>1, <3>2
  <2> QED
    BY <2>1, <2>2, <2>3, TermsPay
<1> QED
  BY <1>1 DEF OfferInv, PoolBacked, EscrowBacked

(* The invariant implies the account of every buyer.                       *)
LEMMA InvAccounts ==
  ASSUME OfferInv
  PROVE  BuyersAccount
<1> SUFFICES ASSUME NEW id \in OfferIds
             PROVE  /\ paidIn[id] = Offer(id).esc + Offer(id).p * delivered[id] + refunded[id]
                    /\ ~Offer(id).act => Offer(id).esc = 0
                    /\ Offer(id).act => Offer(id).esc <= Offer(id).p * Offer(id).a
                    /\ OfferTold(id)
  BY DEF BuyersAccount
<1>1. CASE OfferFound(id)
  <2>1. /\ books[id] \in OfferEntry
        /\ Settled(Offer(id), paidIn[id], delivered[id], refunded[id])
        /\ WrittenDown(Offer(id), books[id], delivered[id])
    BY <1>1, FoundIsMade DEF Made
  <2>2. books[id].known = TRUE
    BY <2>1 DEF OfferEntry
  <2>3. OfferTold(id)
    BY <1>1, <2>1, <2>2 DEF OfferTold, GetOffer, WrittenDown
  <2> QED
    BY <2>1, <2>3 DEF Settled
<1>2. CASE ~OfferFound(id)
  <2>1. Unmade(id)
    BY <1>2, FoundIsMade
  <2>2. /\ Offer(id).esc = 0 /\ Offer(id).act = FALSE /\ Offer(id).p = 0
        /\ paidIn[id] = 0 /\ delivered[id] = 0 /\ refunded[id] = 0
    BY <2>1, NoOfferIsEmpty DEF Unmade, Offer
  <2>3. books[id].known = FALSE
    BY <2>1 DEF Unmade, NoEntry
  <2>4. OfferTold(id)
    BY <1>2, <2>3 DEF OfferTold
  <2> QED
    BY <2>2, <2>4
<1> QED
  BY <1>1, <1>2

(* Offers stay typed, and the query shows of every offer that was made a   *)
(* fee within 100% and royalties within half of the price (makeOffer,      *)
(* acceptOffer, cancelOffer, getOffer).                                    *)
THEOREM OffersTyped == Spec => []TypeOK
BY OffersInvariant, InvTypes, PTL

(* The market's balance of every token is exactly what the offers have in  *)
(* escrow, and every offer can be paid out, in whatever parts: the terms   *)
(* that makeOffer checked once stand for every later acceptance.           *)
THEOREM EscrowStaysBacked == Spec => []EscrowBacked
BY OffersInvariant, InvBacks, PTL

(* No buyer's money is lost: what was paid in is in escrow, was spent at   *)
(* the price of the offer on units the buyer received, or came back, and   *)
(* the events tell of the offer what the query shows.                      *)
THEOREM BuyersAreAccounted == Spec => []BuyersAccount
BY OffersInvariant, InvAccounts, PTL

(* The money for a refund is there: an offer its buyer withdraws, or that  *)
(* anybody withdraws after it expired, is never stopped by the balance,    *)
(* paused or not (cancelOffer).                                            *)
RefundThere == \A id \in OfferIds : Offer(id).act => pool[Offer(id).pt] >= Offer(id).esc

(* Whoever may withdraw an offer gets its escrow back.                     *)
THEOREM RefundsAreThere == Spec => []RefundThere
<1>1. OfferInv => RefundThere
  BY ActiveIsMade DEF RefundThere
<1> QED
  BY <1>1, OffersInvariant, PTL
=============================================================================
