----------------------------- MODULE RentalProofs ---------------------------
(***************************************************************************)
(* The safety properties of Rental, proved for any number of accounts,     *)
(* items, tokens and rentals, any royalties and any configuration.         *)
(***************************************************************************)
EXTENDS Rental, MarketProofs

(* What a reader of the events has written down about a rental. *)
RentalEntry ==
  [known : {TRUE}, owner : Accounts, item : Items, open : BOOLEAN,
   renter : Accounts \cup {NoAccount}, until : Nat]

(* What the market and the NFT contracts keep besides the rentals. *)
RestTyped ==
  /\ ract \in [Items -> [Accounts -> Nat]]
  /\ approved \subseteq Items \X Accounts
  /\ nft \in [Items -> [Holders -> Nat]]
  /\ overlapped \subseteq Items \X Accounts

(* The typing, without what it says of the queries. *)
Typed ==
  /\ rentals \in [RentalIds -> RentalRecord]
  /\ nextRentalId \in 0 .. MaxRentals
  /\ pool \in [Tokens -> Nat]
  /\ books \in [RentalIds -> {NoEntry} \cup RentalEntry]
  /\ RestTyped

(* Nothing is recorded under an id that has not been given out. *)
Unlisted(id) == rentals[id] = NoRental /\ books[id] = NoEntry

(* What listRental checks and no later step undoes, and that a rental is   *)
(* rented out exactly while it names a renter.                             *)
SoundRental(r) ==
  /\ r.o \in Accounts /\ r.amt > 0 /\ r.ppb > 0 /\ r.minb > 0 /\ r.minb <= r.maxb
  /\ r.fb + TotalBps(r.rs) <= BpsDenominator
  /\ IF r.rented THEN r.rby \in Accounts ELSE r.rby = NoAccount

(* What was written down of a rental is what the query shows of it.        *)
WrittenDown(r, e) ==
  /\ e.owner = r.o /\ e.item = r.item /\ e.open = r.act /\ e.renter = r.rby
  /\ r.rented => e.until = r.until

OnRecord(id) ==
  books[id] \in RentalEntry /\ SoundRental(Rental(id)) /\ WrittenDown(Rental(id), books[id])

Situation(id) == IF id >= nextRentalId THEN Unlisted(id) ELSE OnRecord(id)

RentalInv ==
  MarketInv /\ Typed /\ RentedUnitsHeld /\ \A id \in RentalIds : Situation(id)

(* AttestationKept speaks of rentals whose term runs; an expired one that  *)
(* was not ended can wipe the slot of another, so that there is none takes *)
(* the same of every rental that is still rented out.                      *)
RentersAttested ==
  \A id \in RentalIds :
    LET r == Rental(id) IN
    r.rented /\ <<r.item, r.rby>> \notin overlapped =>
      /\ ract[r.item][r.rby] = r.until
      /\ \A other \in RentalIds \ {id} :
           ~(Rental(other).rented /\ Rental(other).item = r.item
               /\ Rental(other).rby = r.rby)

-----------------------------------------------------------------------------
(* A rental that has not been listed is nobody's and not rented out.       *)
LEMMA NoRentalIsEmpty ==
  /\ NoRental.o = NoAccount /\ NoRental.act = FALSE /\ NoRental.rented = FALSE
  /\ NoRental.fb = 0 /\ NoRental.rs = <<>>
BY DEF NoRental

(* There are finitely many rentals. *)
LEMMA RentalIdsFinite == IsFiniteSet(RentalIds)
BY FS_Interval, RentalAssumption DEF RentalIds

(* The units of an item that a rental has in the market's hands.           *)
UnitsOf(r, i) == IF r.rented /\ r.item = i THEN r.amt ELSE 0

LEMMA RentedUnitsType ==
  ASSUME Typed, NEW i
  PROVE  [id \in RentalIds |-> RentedUnits(id, i)] \in [RentalIds -> Nat]
<1>1. ASSUME NEW id \in RentalIds
      PROVE  RentedUnits(id, i) \in Nat
  BY DEF Typed, RentalRecord, RentedUnits, Rental
<1> QED
  BY <1>1

(* A rental is typed and in its situation.                                 *)
LEMMA RentalOf ==
  ASSUME RentalInv, NEW id \in RentalIds
  PROVE  /\ Situation(id) /\ Rental(id) \in RentalRecord
         /\ id \in Nat /\ nextRentalId \in Nat
BY RentalAssumption DEF RentalInv, Typed, Rental, RentalIds

(* Only a rental that has been listed is active or rented out, and what is *)
(* rented out the market holds.                                            *)
LEMMA ActiveIsListed ==
  ASSUME RentalInv, NEW id \in RentalIds, Rental(id).act \/ Rental(id).rented
  PROVE  OnRecord(id) /\ id < nextRentalId
<1>1. ~Unlisted(id)
  BY NoRentalIsEmpty DEF Unlisted, Rental
<1> QED
  BY <1>1, RentalOf DEF Situation

LEMMA RentedIsHeld ==
  ASSUME RentalInv, NEW id \in RentalIds, Rental(id).rented
  PROVE  CanMove(Rental(id).item, Market, Rental(id).amt)
<1> DEFINE i == Rental(id).item
           f == [j \in RentalIds |-> RentedUnits(j, i)]
<1>1. i \in Items
  BY RentalOf DEF RentalRecord
<1>2. f \in [RentalIds -> Nat]
  BY RentedUnitsType DEF RentalInv
<1>3. f[id] = Rental(id).amt
  BY DEF RentedUnits
<1>4. nft[i][Market] = Total(f)
  BY <1>1 DEF RentalInv, RentedUnitsHeld
<1>5. f[id] <= Total(f) /\ Total(f) \in Nat /\ f[id] \in Nat
  <2> HIDE DEF f
  <2> QED
    BY <1>2, RentalIdsFinite, TotalBound, TotalType
<1> QED
  BY <1>3, <1>4, <1>5 DEF CanMove

(* Record and entry of a rental become these. *)
Becomes(id, r, e) ==
  rentals' = [rentals EXCEPT ![id] = r] /\ books' = [books EXCEPT ![id] = e]

(* A record and an entry that fit together.                                *)
Consistent(r, e) ==
  r \in RentalRecord /\ e \in RentalEntry /\ SoundRental(r) /\ WrittenDown(r, e)

(* The market's holdings follow what is rented out, and its balance stays. *)
HoldingsFollow(id, r) ==
  /\ pool' = pool
  /\ \A i \in Items : nft'[i][Market] = nft[i][Market] - RentedUnits(id, i) + UnitsOf(r, i)

(* The rental is one that has been listed, or the next one.                *)
Numbered(id) ==
  /\ nextRentalId' \in 0 .. MaxRentals /\ id < nextRentalId'
  /\ nextRentalId' = nextRentalId \/ (id = nextRentalId /\ nextRentalId' = id + 1)

(* One rental's record changes, and the units follow. *)
LEMMA OneRental ==
  ASSUME RentalInv, MarketInv', RestTyped', NEW id \in RentalIds, NEW r, NEW e,
         Consistent(r, e), Becomes(id, r, e), HoldingsFollow(id, r), Numbered(id)
  PROVE  RentalInv'
<1>1. Typed
  BY DEF RentalInv
<1>2. Typed'
  BY <1>1 DEF Typed, Consistent, Becomes, HoldingsFollow, Numbered
<1>3. rentals'[id] = r /\ books'[id] = e
  BY <1>1 DEF Typed, Becomes
<1>4. \A j \in RentalIds \ {id} : rentals'[j] = rentals[j] /\ books'[j] = books[j]
  BY <1>1 DEF Typed, Becomes
<1>5. ASSUME NEW j \in RentalIds
      PROVE  Situation(j)'
  <2>1. CASE j = id
    <3>1. OnRecord(id)'
      BY <1>3 DEF OnRecord, Rental, Consistent
    <3>2. id \in Nat /\ nextRentalId' \in Nat /\ id < nextRentalId'
      BY RentalAssumption DEF RentalIds, Numbered
    <3> QED
      BY <2>1, <3>1, <3>2 DEF Situation
  <2>2. CASE j # id
    <3>1. Situation(j) /\ j \in Nat /\ id \in Nat /\ nextRentalId \in Nat
      BY RentalOf
    <3>2. j >= nextRentalId' <=> j >= nextRentalId
      BY <2>2, <3>1 DEF Numbered
    <3>3. (Unlisted(j) => Unlisted(j)') /\ (OnRecord(j) => OnRecord(j)')
      BY <1>4, <2>2 DEF Unlisted, OnRecord, Rental
    <3> QED
      BY <3>1, <3>2, <3>3 DEF Situation
  <2> QED
    BY <2>1, <2>2
<1>6. ASSUME NEW i \in Items
      PROVE  nft'[i][Market] = Total([j \in RentalIds |-> RentedUnits(j, i)])'
  <2> DEFINE f == [j \in RentalIds |-> RentedUnits(j, i)]
             g == [j \in RentalIds |-> RentedUnits(j, i)']
  <2>1. f \in [RentalIds -> Nat]
    BY <1>1, RentedUnitsType
  <2>2. g \in [RentalIds -> Nat]
    <3>1. ASSUME NEW j \in RentalIds
          PROVE  RentedUnits(j, i)' \in Nat
      BY <1>2 DEF Typed, RentalRecord, RentedUnits, Rental
    <3> QED
      BY <3>1
  <2>3. \A j \in RentalIds \ {id} : g[j] = f[j]
    BY <1>4 DEF RentedUnits, Rental
  <2>4. f[id] = RentedUnits(id, i) /\ g[id] = UnitsOf(r, i)
    BY <1>3 DEF RentedUnits, UnitsOf, Rental
  <2>5. Total(g) = Total(f) - f[id] + g[id]
    <3> HIDE DEF f, g
    <3> QED
      BY <2>1, <2>2, <2>3, RentalIdsFinite, TotalUpdate
  <2>6. nft[i][Market] = Total(f)
    BY DEF RentalInv, RentedUnitsHeld
  <2>7. nft'[i][Market] = nft[i][Market] - RentedUnits(id, i) + UnitsOf(r, i)
    BY DEF HoldingsFollow
  <2> QED
    BY <2>4, <2>5, <2>6, <2>7
<1>7. RentedUnitsHeld'
  BY <1>6 DEF RentedUnitsHeld, RentalInv, HoldingsFollow
<1> QED
  BY <1>2, <1>5, <1>7 DEF RentalInv

(* A step that leaves the rentals, the money and the books alone, and the  *)
(* market's units.                                                         *)
LEMMA RentalsLeftAlone ==
  ASSUME RentalInv, MarketInv', RestTyped',
         UNCHANGED <<rentals, nextRentalId, pool, books>>,
         \A i \in Items : nft'[i][Market] = nft[i][Market]
  PROVE  RentalInv'
<1>1. Typed'
  BY DEF RentalInv, Typed
<1>2. RentedUnitsHeld'
  BY DEF RentalInv, RentedUnitsHeld, RentedUnits, Rental
<1>3. \A id \in RentalIds : Situation(id)'
  BY DEF RentalInv, Situation, Unlisted, OnRecord, Rental
<1> QED
  BY <1>1, <1>2, <1>3 DEF RentalInv

-----------------------------------------------------------------------------
(* listRental takes nothing into custody.                                  *)
LEMMA ListRentalKeeps ==
  ASSUME RentalInv, NEW o \in Accounts, NEW i \in Items, NEW n \in Nat, NEW t \in Tokens,
         NEW ppb \in Nat, NEW minb \in Nat, NEW maxb \in Nat,
         ListRental(o, i, n, t, ppb, minb, maxb), Log(RentalListed(nextRentalId, o, i))
  PROVE  RentalInv'
<1> DEFINE c == CollectionOf[i]
           fb == EffectiveFeeBps(c)
           rs == ResolveRoyaltySplits(c)
           r == [o |-> o, item |-> i, amt |-> n, pt |-> t, ppb |-> ppb,
                 minb |-> minb, maxb |-> maxb, act |-> TRUE, rented |-> FALSE,
                 rby |-> NoAccount, until |-> 0, fb |-> fb, rs |-> rs]
           e == [known |-> TRUE, owner |-> o, item |-> i, open |-> TRUE,
                 renter |-> NoAccount, until |-> 0]
<1>1. PICK id \in RentalIds : id = nextRentalId
  BY RentalAssumption DEF RentalInv, Typed, RentalIds, ListRental, OpenRental
<1>2. /\ n > 0 /\ ppb > 0 /\ minb > 0 /\ minb <= maxb
      /\ fb + RoyaltyBps(c) <= 10000
      /\ id < MaxRentals
      /\ rentals' = [rentals EXCEPT ![id] = r]
      /\ nextRentalId' = id + 1
      /\ UNCHANGED <<marketVars, ract, approved, pool, nft, overlapped>>
  BY <1>1 DEF ListRental, OpenRental
<1>3. books' = [books EXCEPT ![id] = e]
  BY <1>1 DEF Log, Told, RentalListed
<1>4. c \in Collections
  BY CustodyAssumption
<1> HIDE DEF c
<1>5. fb \in Nat /\ rs \in Seq(Split) /\ fb + TotalBps(rs) <= BpsDenominator
  BY <1>2, <1>4, LockedTerms DEF RentalInv
<1>6. Unlisted(id)
  BY <1>1, RentalOf DEF Situation
<1>7. Typed
  BY DEF RentalInv
<1> HIDE DEF fb, rs
<1>8. r \in RentalRecord /\ r.rented = FALSE
  BY <1>5 DEF RentalRecord
<1>9. e \in RentalEntry
  BY DEF RentalEntry
<1>10. Consistent(r, e)
  BY <1>2, <1>5, <1>8, <1>9 DEF Consistent, SoundRental, WrittenDown
<1>11. Becomes(id, r, e)
  BY <1>2, <1>3 DEF Becomes
<1> HIDE DEF r, e
<1>12. HoldingsFollow(id, r)
  <2>1. \A j \in Items : RentedUnits(id, j) = 0 /\ UnitsOf(r, j) = 0
    BY <1>6, <1>8, NoRentalIsEmpty DEF RentedUnits, UnitsOf, Unlisted, Rental
  <2>2. \A j \in Items : nft[j][Market] \in Nat
    BY <1>7 DEF Typed, RestTyped, Holders
  <2> QED
    BY <1>2, <2>1, <2>2 DEF HoldingsFollow
<1>13. Numbered(id)
  BY <1>1, <1>2, RentalAssumption DEF RentalIds, Numbered
<1>14. RestTyped'
  BY <1>2, <1>7 DEF Typed, RestTyped
<1>15. MarketInv'
  BY <1>2, UnchangedMarketInv DEF RentalInv
<1> QED
  BY <1>10, <1>11, <1>12, <1>13, <1>14, <1>15, OneRental

(* rent takes the units into custody and passes all that came in on.       *)
LEMMA RentKeeps ==
  ASSUME RentalInv, NEW id \in RentalIds, NEW x \in Accounts, NEW blocks \in Nat,
         NEW arrived \in Nat, Rent(id, x, blocks, arrived),
         Log(Rented(id, x, (height + blocks) % Word))
  PROVE  RentalInv'
<1> DEFINE was == rentals[id]
           until == (height + blocks) % Word
           received == EscrowIn(was.pt, was.ppb * blocks, arrived)
           r == [was EXCEPT !.rby = x, !.until = until, !.rented = TRUE]
           said == books[id]
           e == [said EXCEPT !.renter = x, !.until = until]
<1>1. /\ was.act /\ ~was.rented /\ x # was.o
      /\ arrived \in Arrivals(was.pt, was.ppb * blocks)
      /\ CanMove(was.item, was.o, was.amt)
      /\ rentals' = [rentals EXCEPT ![id] = r]
      /\ ract' = [ract EXCEPT ![was.item][x] = until]
      /\ pool' = [pool EXCEPT ![was.pt] = @ + arrived - received]
      /\ nft' = Move(was.item, was.o, Market, was.amt)
      /\ Pulled(was.item, was.o)
      /\ overlapped' \in {overlapped, overlapped \cup {<<was.item, x>>}}
      /\ UNCHANGED <<marketVars, nextRentalId>>
  BY DEF Rent, CanRent, Rental
<1>2. books' = [books EXCEPT ![id] = e]
  BY DEF Log, Told, Rented
<1>3. /\ said \in RentalEntry /\ SoundRental(was) /\ WrittenDown(was, said)
      /\ id < nextRentalId
  BY <1>1, ActiveIsListed DEF Rental, OnRecord
<1>4. was \in RentalRecord
  BY RentalOf DEF Rental
<1>5. Typed /\ RestTyped
  BY DEF RentalInv, Typed
<1>6. until \in Nat
  <2>1. height \in Nat
    BY DEF RentalInv, MarketInv, MarketTypeOK
  <2> QED
    BY <2>1, CustodyAssumption
<1>7. received = arrived
  BY <1>1, <1>4, DepositCredited DEF RentalInv, MarketInv, RentalRecord
<1> HIDE DEF was, said, until, received
<1>8. was.o \in Accounts /\ was.item \in Items /\ was.amt \in Nat /\ was.pt \in Tokens
  BY <1>3, <1>4 DEF SoundRental, RentalRecord
<1>9. /\ r \in RentalRecord /\ r.rby = x /\ r.until = until /\ r.rented = TRUE
      /\ r.o = was.o /\ r.item = was.item /\ r.amt = was.amt /\ r.pt = was.pt
      /\ r.ppb = was.ppb /\ r.minb = was.minb /\ r.maxb = was.maxb
      /\ r.act = was.act /\ r.fb = was.fb /\ r.rs = was.rs
  BY <1>4, <1>6 DEF RentalRecord
<1>10. /\ e \in RentalEntry /\ e.renter = x /\ e.until = until
       /\ e.owner = said.owner /\ e.item = said.item /\ e.open = said.open
  BY <1>3, <1>6 DEF RentalEntry
<1> HIDE DEF r, e
<1>11. Consistent(r, e)
  BY <1>3, <1>9, <1>10 DEF Consistent, SoundRental, WrittenDown
<1>12. Becomes(id, r, e)
  BY <1>1, <1>2 DEF Becomes
<1>13. was.o \in Holders /\ Market \in Holders /\ was.o # Market
  BY <1>8, CustodyAssumption DEF Holders
<1>14. /\ nft' \in [Items -> [Holders -> Nat]]
       /\ \A j \in Items \ {was.item} : nft'[j] = nft[j]
       /\ nft'[was.item][Market] = nft[was.item][Market] + was.amt
  BY <1>1, <1>5, <1>8, <1>13, MoveBalances DEF RestTyped
<1>15. HoldingsFollow(id, r)
  <2>1. pool' = pool
    BY <1>1, <1>5, <1>7, <1>8 DEF Typed
  <2>2. ASSUME NEW j \in Items
        PROVE  nft'[j][Market] = nft[j][Market] - RentedUnits(id, j) + UnitsOf(r, j)
    <3>1. RentedUnits(id, j) = 0
      BY <1>1 DEF RentedUnits, Rental, was
    <3>2. nft[j][Market] \in Nat
      BY <1>5, <1>13 DEF RestTyped
    <3> QED
      BY <1>8, <1>9, <1>14, <3>1, <3>2 DEF UnitsOf
  <2> QED
    BY <2>1, <2>2 DEF HoldingsFollow
<1>16. Numbered(id)
  BY <1>1, <1>3, <1>5 DEF Typed, Numbered
<1>17. RestTyped'
  <2>1. ract' \in [Items -> [Accounts -> Nat]]
    BY <1>1, <1>5, <1>6, <1>8 DEF RestTyped
  <2>2. approved' \subseteq Items \X Accounts
    BY <1>1, <1>5 DEF RestTyped, Pulled
  <2>3. overlapped' \subseteq Items \X Accounts
    BY <1>1, <1>5, <1>8 DEF RestTyped
  <2> QED
    BY <1>14, <2>1, <2>2, <2>3 DEF RestTyped
<1>18. MarketInv'
  BY <1>1, UnchangedMarketInv DEF RentalInv
<1> QED
  BY <1>11, <1>12, <1>15, <1>16, <1>17, <1>18, OneRental

(* Ending a rental gives the units back, on time or early.                 *)
LEMMA HandbackKeeps ==
  ASSUME RentalInv, NEW id \in RentalIds, Rental(id).rented, Handback(id),
         books' = [books EXCEPT ![id].renter = NoAccount]
  PROVE  RentalInv'
<1> DEFINE was == rentals[id]
           r == [was EXCEPT !.rented = FALSE, !.rby = NoAccount]
           said == books[id]
           e == [said EXCEPT !.renter = NoAccount]
<1>1. /\ was.rented
      /\ CanMove(was.item, Market, was.amt)
      /\ rentals' = [rentals EXCEPT ![id] = r]
      /\ ract' = [ract EXCEPT ![was.item][was.rby] = 0]
      /\ nft' = Move(was.item, Market, was.o, was.amt)
      /\ UNCHANGED <<marketVars, nextRentalId, approved, pool, overlapped>>
  BY DEF Handback, ReturnTo, Rental
<1>2. books' = [books EXCEPT ![id] = e]
  OBVIOUS
<1>3. /\ said \in RentalEntry /\ SoundRental(was) /\ WrittenDown(was, said)
      /\ id < nextRentalId
  BY <1>1, ActiveIsListed DEF Rental, OnRecord
<1>4. was \in RentalRecord
  BY RentalOf DEF Rental
<1>5. Typed /\ RestTyped
  BY DEF RentalInv, Typed
<1> HIDE DEF was, said
<1>6. /\ was.o \in Accounts /\ was.item \in Items /\ was.amt \in Nat
      /\ was.rby \in Accounts
  BY <1>1, <1>3, <1>4 DEF SoundRental, RentalRecord
<1>7. /\ r \in RentalRecord /\ r.rby = NoAccount /\ r.rented = FALSE
      /\ r.o = was.o /\ r.item = was.item /\ r.amt = was.amt /\ r.pt = was.pt
      /\ r.ppb = was.ppb /\ r.minb = was.minb /\ r.maxb = was.maxb /\ r.until = was.until
      /\ r.act = was.act /\ r.fb = was.fb /\ r.rs = was.rs
  BY <1>4 DEF RentalRecord
<1>8. /\ e \in RentalEntry /\ e.renter = NoAccount
      /\ e.owner = said.owner /\ e.item = said.item /\ e.open = said.open
  BY <1>3 DEF RentalEntry
<1> HIDE DEF r, e
<1>9. Consistent(r, e)
  BY <1>3, <1>7, <1>8 DEF Consistent, SoundRental, WrittenDown
<1>10. Becomes(id, r, e)
  BY <1>1, <1>2 DEF Becomes
<1>11. was.o \in Holders /\ Market \in Holders /\ was.o # Market
  BY <1>6, CustodyAssumption DEF Holders
<1>12. /\ nft' \in [Items -> [Holders -> Nat]]
       /\ \A j \in Items \ {was.item} : nft'[j] = nft[j]
       /\ nft'[was.item][Market] = nft[was.item][Market] - was.amt
  BY <1>1, <1>5, <1>6, <1>11, MoveBalances DEF RestTyped
<1>13. HoldingsFollow(id, r)
  <2>1. ASSUME NEW j \in Items
        PROVE  nft'[j][Market] = nft[j][Market] - RentedUnits(id, j) + UnitsOf(r, j)
    <3>1. RentedUnits(id, j) = IF j = was.item THEN was.amt ELSE 0
      BY <1>1 DEF RentedUnits, Rental, was
    <3>2. nft[j][Market] \in Nat
      BY <1>5, <1>11 DEF RestTyped
    <3> QED
      BY <1>6, <1>7, <1>12, <3>1, <3>2 DEF UnitsOf
  <2> QED
    BY <1>1, <2>1 DEF HoldingsFollow
<1>14. Numbered(id)
  BY <1>1, <1>3, <1>5 DEF Typed, Numbered
<1>15. RestTyped'
  <2>1. ract' \in [Items -> [Accounts -> Nat]]
    BY <1>1, <1>5, <1>6 DEF RestTyped
  <2> QED
    BY <1>1, <1>5, <1>12, <2>1 DEF RestTyped
<1>16. MarketInv'
  BY <1>1, UnchangedMarketInv DEF RentalInv
<1> QED
  BY <1>9, <1>10, <1>13, <1>14, <1>15, <1>16, OneRental

(* delistRental has nothing to give back.                                  *)
LEMMA DelistRentalKeeps ==
  ASSUME RentalInv, NEW id \in RentalIds, DelistRental(id),
         Log(RentalDelisted(id, Rental(id).o))
  PROVE  RentalInv'
<1> DEFINE was == rentals[id]
           r == [was EXCEPT !.act = FALSE]
           said == books[id]
           e == [said EXCEPT !.open = FALSE]
<1>1. /\ was.act /\ ~was.rented
      /\ rentals' = [rentals EXCEPT ![id] = r]
      /\ UNCHANGED <<marketVars, nextRentalId, ract, approved, pool, nft, overlapped>>
  BY DEF DelistRental, Rental
<1>2. books' = [books EXCEPT ![id] = e]
  BY DEF Log, Told, RentalDelisted
<1>3. /\ said \in RentalEntry /\ SoundRental(was) /\ WrittenDown(was, said)
      /\ id < nextRentalId
  BY <1>1, ActiveIsListed DEF Rental, OnRecord
<1>4. was \in RentalRecord
  BY RentalOf DEF Rental
<1>5. Typed /\ RestTyped
  BY DEF RentalInv, Typed
<1> HIDE DEF was, said
<1>6. /\ r \in RentalRecord /\ r.act = FALSE /\ r.rented = was.rented /\ r.rby = was.rby
      /\ r.o = was.o /\ r.item = was.item /\ r.amt = was.amt /\ r.pt = was.pt
      /\ r.ppb = was.ppb /\ r.minb = was.minb /\ r.maxb = was.maxb /\ r.until = was.until
      /\ r.fb = was.fb /\ r.rs = was.rs
  BY <1>4 DEF RentalRecord
<1>7. /\ e \in RentalEntry /\ e.open = FALSE /\ e.renter = said.renter
      /\ e.owner = said.owner /\ e.item = said.item /\ e.until = said.until
  BY <1>3 DEF RentalEntry
<1> HIDE DEF r, e
<1>8. Consistent(r, e)
  BY <1>3, <1>6, <1>7 DEF Consistent, SoundRental, WrittenDown
<1>9. Becomes(id, r, e)
  BY <1>1, <1>2 DEF Becomes
<1>10. HoldingsFollow(id, r)
  <2>1. \A j \in Items : RentedUnits(id, j) = 0 /\ UnitsOf(r, j) = 0
    BY <1>1, <1>6 DEF RentedUnits, UnitsOf, Rental, was
  <2>2. \A j \in Items : nft[j][Market] \in Nat
    BY <1>5 DEF RestTyped, Holders
  <2> QED
    BY <1>1, <2>1, <2>2 DEF HoldingsFollow
<1>11. Numbered(id)
  BY <1>1, <1>3, <1>5 DEF Typed, Numbered
<1>12. RestTyped'
  BY <1>1, <1>5 DEF RestTyped
<1>13. MarketInv'
  BY <1>1, UnchangedMarketInv DEF RentalInv
<1> QED
  BY <1>8, <1>9, <1>10, <1>11, <1>12, <1>13, OneRental

(* Granting or revoking an approval touches no rental.                     *)
LEMMA SetApprovalKeeps ==
  ASSUME RentalInv, NEW ix \in Allowances, SetApproval(ix[1], ix[2]), Silent
  PROVE  RentalInv'
<1>1. ix[1] \in Items /\ ix[2] \in Accounts
  BY ApprovalAssumption
<1>2. RestTyped'
  BY <1>1 DEF SetApproval, FlipApproval, RentalInv, Typed, RestTyped
<1>3. MarketInv'
  BY UnchangedMarketInv DEF RentalInv, SetApproval
<1> QED
  BY <1>2, <1>3, RentalsLeftAlone DEF SetApproval, Silent

(* A trade outside the market moves none of the market's units.            *)
LEMMA TransferOutsideKeeps ==
  ASSUME RentalInv, NEW ixy \in OutsideTrades, TransferOutside(ixy[1], ixy[2], ixy[3]), Silent
  PROVE  RentalInv'
<1> DEFINE i == ixy[1]
           x == ixy[2]
           y == ixy[3]
<1>1. /\ i \in Items /\ x \in Holders /\ y \in Holders /\ Market \in Holders
      /\ x # Market /\ y # Market
  BY CustodyAssumption DEF Holders
<1>2. PICK n \in LotSizes : x # y /\ CanMove(i, x, n) /\ nft' = Move(i, x, y, n)
  BY DEF TransferOutside
<1>3. n \in Nat
  BY CustodyAssumption
<1> HIDE DEF i, x, y
<1>4. nft \in [Items -> [Holders -> Nat]]
  BY DEF RentalInv, Typed, RestTyped
<1>5. /\ nft' \in [Items -> [Holders -> Nat]]
      /\ \A j \in Items \ {i} : nft'[j] = nft[j]
      /\ nft'[i][Market] = nft[i][Market]
  BY <1>1, <1>2, <1>3, <1>4, MoveBalances
<1>6. RestTyped'
  BY <1>5 DEF TransferOutside, RentalInv, Typed, RestTyped
<1>7. MarketInv'
  BY UnchangedMarketInv DEF RentalInv, TransferOutside
<1>8. \A j \in Items : nft'[j][Market] = nft[j][Market]
  BY <1>5
<1> QED
  BY <1>6, <1>7, <1>8, RentalsLeftAlone DEF TransferOutside, Silent

(* Blocks and settings touch no rental either.                             *)
LEMMA EnvironmentKeeps ==
  ASSUME RentalInv, (Environment /\ Silent) \/ UNCHANGED vars
  PROVE  RentalInv'
<1>1. MarketInv'
  BY TickInv, ConfigureInv, UnchangedMarketInv DEF Environment, RentalInv, vars
<1>2. UNCHANGED <<rentalVars, books>>
  BY DEF Environment, Silent, vars
<1>3. RestTyped'
  BY <1>2 DEF rentalVars, RentalInv, Typed, RestTyped
<1> QED
  BY <1>1, <1>2, <1>3, RentalsLeftAlone DEF rentalVars

-----------------------------------------------------------------------------
(* Before anything has happened nothing is recorded of any rental.         *)
LEMMA InitRentals ==
  ASSUME Init
  PROVE  RentalInv
<1>1. MarketInv
  BY MarketInitInv DEF Init
<1>2. NoRental \in RentalRecord
  <2>1. \E i \in Items : TRUE
    BY CustodyAssumption
  <2>2. \E t \in Tokens : TRUE
    BY CustodyAssumption
  <2> DEFINE i == CHOOSE i \in Items : TRUE
             t == CHOOSE t \in Tokens : TRUE
  <2>3. i \in Items /\ t \in Tokens
    BY <2>1, <2>2
  <2> HIDE DEF i, t
  <2>4. NoRental = [o |-> NoAccount, item |-> i, amt |-> 0, pt |-> t, ppb |-> 0,
                    minb |-> 0, maxb |-> 0, act |-> FALSE, rented |-> FALSE,
                    rby |-> NoAccount, until |-> 0, fb |-> 0, rs |-> <<>>]
    BY DEF NoRental, i, t
  <2> QED
    BY <2>3, <2>4 DEF RentalRecord
<1>3. Typed
  <2>1. ASSUME NEW i \in Items, NEW x \in Holders
        PROVE  (IF x = Market THEN 0 ELSE MintedTo[i][x]) \in Nat
    BY CustodyAssumption DEF Holders
  <2>2. nextRentalId \in 0 .. MaxRentals
    BY RentalAssumption DEF Init
  <2>3. approved \subseteq Items \X Accounts
    BY DEF Init, ApprovalInit
  <2>4. RestTyped
    BY <2>1, <2>3 DEF Init, RestTyped
  <2> QED
    BY <1>2, <2>2, <2>4 DEF Init, Typed
<1>4. ASSUME NEW id \in RentalIds
      PROVE  Situation(id)
  <2>1. id >= 0
    BY RentalAssumption DEF RentalIds
  <2>2. Unlisted(id)
    BY DEF Init, Unlisted
  <2> QED
    BY <2>1, <2>2 DEF Init, Situation
<1>5. RentedUnitsHeld
  <2>1. ASSUME NEW i \in Items
        PROVE  nft[i][Market] = Total([id \in RentalIds |-> RentedUnits(id, i)])
    <3>1. \A id \in RentalIds : RentedUnits(id, i) = 0
      BY NoRentalIsEmpty DEF Init, RentedUnits, Rental
    <3>2. [id \in RentalIds |-> RentedUnits(id, i)] = [id \in RentalIds |-> 0]
      BY <3>1
    <3>3. Total([id \in RentalIds |-> 0]) = 0
      BY TotalZero
    <3> QED
      BY <3>2, <3>3 DEF Init, Holders
  <2> QED
    BY <2>1 DEF Init, RentedUnitsHeld
<1> QED
  BY <1>1, <1>3, <1>4, <1>5 DEF RentalInv

(* What ending a rental logs. *)
LEMMA EndedIsTold ==
  ASSUME NEW id, NEW by, Log(RentalEnded(id, by))
  PROVE  books' = [books EXCEPT ![id].renter = NoAccount]
BY DEF Log, Told, RentalEnded

(* The kinds of steps, with their arguments typed. *)
Listing ==
  \E o \in Accounts, i \in Items, n \in Nat, t \in Tokens, ppb \in Nat, minb \in Nat,
     maxb \in Nat :
    /\ ListRental(o, i, n, t, ppb, minb, maxb)
    /\ Log(RentalListed(nextRentalId, o, i))

Renting ==
  \E id \in RentalIds, x \in Accounts, blocks \in Nat, arrived \in Nat :
    /\ Rent(id, x, blocks, arrived)
    /\ Log(Rented(id, x, (height + blocks) % Word))

Ending ==
  \E id \in RentalIds :
    /\ Rental(id).rented /\ Handback(id)
    /\ books' = [books EXCEPT ![id].renter = NoAccount]

Delisting ==
  \E id \in RentalIds : DelistRental(id) /\ Log(RentalDelisted(id, Rental(id).o))

(* Steps that leave every rental alone. *)
Elsewhere ==
  \/ Environment /\ Silent
  \/ UNCHANGED vars
  \/ \E ix \in Allowances : SetApproval(ix[1], ix[2]) /\ Silent
  \/ \E ixy \in OutsideTrades : TransferOutside(ixy[1], ixy[2], ixy[3]) /\ Silent

(* Every step is of one of these kinds.                                    *)
LEMMA KindsOfSteps ==
  ASSUME RentalInv, [Next]_vars
  PROVE  Listing \/ Renting \/ Ending \/ Delisting \/ Elsewhere
<1>1. ASSUME NEW o \in Accounts, NEW i \in Items, NEW n \in LotSizes, NEW t \in Tokens,
             NEW ppb \in PricesPerBlock, NEW range \in BlockRanges,
             ListRental(o, i, n, t, ppb, range[1], range[2]),
             Log(RentalListed(nextRentalId, o, i))
      PROVE  Listing
  <2>1. n \in Nat /\ ppb \in Nat /\ range[1] \in Nat /\ range[2] \in Nat
    BY RentalAssumption, CustodyAssumption
  <2> QED
    BY <1>1, <2>1 DEF Listing
<1>2. ASSUME NEW id \in RentalIds, NEW x \in Accounts, NEW blocks \in RentBlocks,
             NEW arrived \in 0 .. Rental(id).ppb * blocks,
             Rent(id, x, blocks, arrived), Log(Rented(id, x, (height + blocks) % Word))
      PROVE  Renting
  <2>1. blocks \in Nat /\ arrived \in Nat
    BY RentalAssumption
  <2> QED
    BY <1>2, <2>1 DEF Renting
<1>3. ASSUME NEW id \in RentalIds, End(id)
      PROVE  Ending
  BY <1>3, EndedIsTold DEF End, EndRental, Ending
<1>4. ASSUME NEW id \in RentalIds, EndRentalEarly(id),
             Log(RentalEnded(id, Rental(id).rby))
      PROVE  Ending
  BY <1>4, EndedIsTold DEF EndRentalEarly, Ending
<1>5. ASSUME NEW id \in RentalIds, DelistRental(id), Log(RentalDelisted(id, Rental(id).o))
      PROVE  Delisting
  BY <1>5 DEF Delisting
<1>6. CASE Elsewhere
  BY <1>6
<1> QED
  BY <1>1, <1>2, <1>3, <1>4, <1>5, <1>6 DEF Next, Elsewhere

(* Every step keeps the invariant.                                         *)
LEMMA StepRentals ==
  ASSUME RentalInv, [Next]_vars
  PROVE  RentalInv'
<1>1. Listing => RentalInv'
  BY ListRentalKeeps DEF Listing
<1>2. Renting => RentalInv'
  BY RentKeeps DEF Renting
<1>3. Ending => RentalInv'
  BY HandbackKeeps DEF Ending
<1>4. Delisting => RentalInv'
  BY DelistRentalKeeps DEF Delisting
<1>5. Elsewhere => RentalInv'
  BY EnvironmentKeeps, SetApprovalKeeps, TransferOutsideKeeps DEF Elsewhere
<1> QED
  BY <1>1, <1>2, <1>3, <1>4, <1>5, KindsOfSteps

(* The invariant on which the theorems below rest.                         *)
THEOREM RentalsInvariant == Spec => []RentalInv
<1>1. Init => RentalInv
  BY InitRentals
<1>2. RentalInv /\ [Next]_vars => RentalInv'
  BY StepRentals
<1> QED
  BY <1>1, <1>2, PTL DEF Spec

-----------------------------------------------------------------------------
(* Attestations. *)

Attested == AttestationTruthful /\ RentersAttested

(* A step that changes neither the slots nor any rental that is rented     *)
(* out, while blocks may pass.                                             *)
LEMMA SlotsLeftAlone ==
  ASSUME RentalInv, Attested, height' \in Nat, height' >= height, UNCHANGED <<ract, overlapped>>,
         \A id \in RentalIds :
           /\ rentals'[id].rented <=> rentals[id].rented
           /\ rentals[id].rented => /\ rentals'[id].item = rentals[id].item
                                    /\ rentals'[id].rby = rentals[id].rby
                                    /\ rentals'[id].until = rentals[id].until
  PROVE  Attested'
<1>1. RentersAttested'
  BY DEF Attested, RentersAttested, Rental
<1>2. ASSUME NEW i \in Items, NEW x \in Accounts, GetActiveRentalOf(i, x)'.active
      PROVE  \E id \in RentalIds :
               /\ Live(id)' /\ Rental(id)'.item = i /\ Rental(id)'.rby = x
               /\ Rental(id)'.until = GetActiveRentalOf(i, x)'.until
  <2>1. ract[i][x] \in Nat /\ height \in Nat
    BY DEF RentalInv, Typed, RestTyped, MarketInv, MarketTypeOK
  <2>2. ract[i][x] # 0 /\ height' < ract[i][x] /\ GetActiveRentalOf(i, x)'.until = ract[i][x]
    BY <1>2 DEF GetActiveRentalOf
  <2>3. height < ract[i][x]
    BY <2>1, <2>2
  <2>4. PICK id \in RentalIds :
          Live(id) /\ Rental(id).item = i /\ Rental(id).rby = x /\ Rental(id).until = ract[i][x]
    BY <2>2, <2>3 DEF Attested, AttestationTruthful, GetActiveRentalOf
  <2> QED
    BY <2>2, <2>4 DEF Live, Rental
<1> QED
  BY <1>1, <1>2 DEF Attested, AttestationTruthful

(* Renting puts the new renter in a slot that nobody who still rents the   *)
(* item lawfully is in.                                                    *)
LEMMA RentAttests ==
  ASSUME RentalInv, RentalInv', Attested, NEW id \in RentalIds, NEW x \in Accounts,
         NEW blocks \in Nat, NEW arrived \in Nat, Rent(id, x, blocks, arrived)
  PROVE  Attested'
<1> DEFINE was == rentals[id]
           i == was.item
           until == (height + blocks) % Word
           r == [was EXCEPT !.rby = x, !.until = until, !.rented = TRUE]
<1>1. /\ ~was.rented /\ AttestationFree(i, x)
      /\ rentals' = [rentals EXCEPT ![id] = r]
      /\ ract' = [ract EXCEPT ![i][x] = until]
      /\ overlapped' = IF HoldsExpired(i, x) THEN overlapped \cup {<<i, x>>} ELSE overlapped
      /\ height' = height
  BY DEF Rent, CanRent, Rental, marketVars
<1>2. /\ rentals \in [RentalIds -> RentalRecord] /\ ract \in [Items -> [Accounts -> Nat]]
      /\ height \in Nat /\ was \in RentalRecord
  BY DEF RentalInv, Typed, RestTyped, MarketInv, MarketTypeOK
<1>3. i \in Items
  BY <1>2 DEF RentalRecord
<1>4. r.rby = x /\ r.until = until /\ r.rented = TRUE /\ r.item = i
  BY <1>2 DEF RentalRecord
<1> HIDE DEF was, until, r, i
<1>5. rentals'[id] = r /\ \A j \in RentalIds \ {id} : rentals'[j] = rentals[j]
  BY <1>1, <1>2
<1>6. /\ ract'[i][x] = until
      /\ \A j \in Items, y \in Accounts : j # i \/ y # x => ract'[j][y] = ract[j][y]
  BY <1>1, <1>2, <1>3
<1>7. ASSUME NEW d \in RentalIds, rentals[d].rented, rentals[d].item = i, rentals[d].rby = x
      PROVE  <<i, x>> \in overlapped'
  <2>1. CASE height >= rentals[d].until
    <3>1. HoldsExpired(i, x)
      BY <1>7, <2>1 DEF HoldsExpired, Rental
    <3> QED
      BY <1>1, <3>1
  <2>2. CASE ~(height >= rentals[d].until)
    <3>1. rentals[d].until \in Nat
      BY <1>2 DEF RentalRecord
    <3>2. ract[i][x] # rentals[d].until
      BY <1>1, <1>2, <2>2, <3>1 DEF AttestationFree
    <3>3. <<i, x>> \in overlapped
      BY <1>7, <3>2 DEF Attested, RentersAttested, Rental
    <3> QED
      BY <1>1, <3>3
  <2> QED
    BY <2>1, <2>2
<1>8. ASSUME NEW d \in RentalIds, rentals'[d].rented,
             <<rentals'[d].item, rentals'[d].rby>> \notin overlapped'
      PROVE  /\ ract'[rentals'[d].item][rentals'[d].rby] = rentals'[d].until
             /\ \A other \in RentalIds \ {d} :
                  ~(rentals'[other].rented /\ rentals'[other].item = rentals'[d].item
                      /\ rentals'[other].rby = rentals'[d].rby)
  <2>1. CASE d = id
    BY <1>4, <1>5, <1>6, <1>7, <1>8, <2>1
  <2>2. CASE d # id
    <3>1. rentals'[d] = rentals[d]
      BY <1>5, <2>2
    <3> DEFINE j == rentals[d].item
               y == rentals[d].rby
    <3>2. <<j, y>> \notin overlapped
      BY <1>1, <1>8, <3>1
    <3>3. /\ ract[j][y] = rentals[d].until
          /\ \A other \in RentalIds \ {d} :
               ~(rentals[other].rented /\ rentals[other].item = j /\ rentals[other].rby = y)
      BY <1>8, <3>1, <3>2 DEF Attested, RentersAttested, Rental
    <3>4. j # i \/ y # x
      BY <1>7, <1>8, <3>1
    <3>5. j \in Items /\ y \in Accounts
      <4>1. OnRecord(d)
        BY <1>8, <3>1, ActiveIsListed DEF Rental
      <4> QED
        BY <1>2, <1>8, <3>1, <4>1 DEF OnRecord, SoundRental, Rental, RentalRecord
    <3>6. ract'[j][y] = rentals[d].until
      BY <1>6, <3>3, <3>4, <3>5
    <3> HIDE DEF j, y
    <3>7. ASSUME NEW other \in RentalIds \ {d}
          PROVE  ~(rentals'[other].rented /\ rentals'[other].item = j
                     /\ rentals'[other].rby = y)
      BY <1>4, <1>5, <3>3, <3>4
    <3> QED
      BY <3>1, <3>6, <3>7 DEF j, y
  <2> QED
    BY <2>1, <2>2
<1>9. RentersAttested'
  BY <1>8 DEF RentersAttested, Rental
<1>10. ASSUME NEW j \in Items, NEW y \in Accounts, GetActiveRentalOf(j, y)'.active
       PROVE  \E d \in RentalIds :
                /\ Live(d)' /\ Rental(d)'.item = j /\ Rental(d)'.rby = y
                /\ Rental(d)'.until = GetActiveRentalOf(j, y)'.until
  <2>1. /\ ract'[j][y] # 0 /\ height < ract'[j][y]
        /\ GetActiveRentalOf(j, y)'.until = ract'[j][y]
    BY <1>1, <1>10 DEF GetActiveRentalOf
  <2>2. CASE j = i /\ y = x
    <3>1. Live(id)'
      BY <1>1, <1>4, <1>5, <1>6, <2>1, <2>2 DEF Live, Rental
    <3> QED
      BY <1>4, <1>5, <1>6, <2>1, <2>2, <3>1 DEF Rental
  <2>3. CASE j # i \/ y # x
    <3>1. ract'[j][y] = ract[j][y]
      BY <1>6, <2>3
    <3>2. PICK d \in RentalIds :
            Live(d) /\ Rental(d).item = j /\ Rental(d).rby = y /\ Rental(d).until = ract[j][y]
      BY <2>1, <3>1 DEF Attested, AttestationTruthful, GetActiveRentalOf
    <3>3. d # id
      BY <1>1, <3>2 DEF Live, Rental, was
    <3> QED
      BY <1>1, <1>5, <2>1, <3>1, <3>2, <3>3 DEF Live, Rental
  <2> QED
    BY <2>2, <2>3
<1> QED
  BY <1>9, <1>10 DEF Attested, AttestationTruthful

(* Ending a rental empties a slot that no other rental is entitled to.     *)
LEMMA HandbackAttests ==
  ASSUME RentalInv, Attested, NEW id \in RentalIds, Rental(id).rented, Handback(id)
  PROVE  Attested'
<1> DEFINE was == rentals[id]
           i == was.item
           x == was.rby
           r == [was EXCEPT !.rented = FALSE, !.rby = NoAccount]
<1>1. /\ was.rented
      /\ rentals' = [rentals EXCEPT ![id] = r]
      /\ ract' = [ract EXCEPT ![i][x] = 0]
      /\ overlapped' = overlapped /\ height' = height
  BY DEF Handback, Rental, marketVars
<1>2. /\ rentals \in [RentalIds -> RentalRecord] /\ ract \in [Items -> [Accounts -> Nat]]
      /\ was \in RentalRecord
  BY DEF RentalInv, Typed, RestTyped
<1>3. i \in Items /\ x \in Accounts
  <2>1. OnRecord(id)
    BY <1>1, ActiveIsListed DEF Rental
  <2> QED
    BY <1>1, <1>2, <2>1 DEF OnRecord, SoundRental, Rental, RentalRecord
<1>4. r.rented = FALSE
  BY <1>2 DEF RentalRecord
<1> HIDE DEF was, r, i, x
<1>5. rentals'[id] = r /\ \A j \in RentalIds \ {id} : rentals'[j] = rentals[j]
  BY <1>1, <1>2
<1>6. /\ ract'[i][x] = 0
      /\ \A j \in Items, y \in Accounts : j # i \/ y # x => ract'[j][y] = ract[j][y]
  BY <1>1, <1>2, <1>3
<1>7. ASSUME NEW d \in RentalIds, rentals'[d].rented,
             <<rentals'[d].item, rentals'[d].rby>> \notin overlapped'
      PROVE  /\ ract'[rentals'[d].item][rentals'[d].rby] = rentals'[d].until
             /\ \A other \in RentalIds \ {d} :
                  ~(rentals'[other].rented /\ rentals'[other].item = rentals'[d].item
                      /\ rentals'[other].rby = rentals'[d].rby)
  <2>1. d # id /\ rentals'[d] = rentals[d]
    BY <1>4, <1>5, <1>7
  <2> DEFINE j == rentals[d].item
             y == rentals[d].rby
  <2>2. /\ ract[j][y] = rentals[d].until
        /\ \A other \in RentalIds \ {d} :
             ~(rentals[other].rented /\ rentals[other].item = j /\ rentals[other].rby = y)
    BY <1>1, <1>7, <2>1 DEF Attested, RentersAttested, Rental
  <2>3. j # i \/ y # x
    BY <1>1, <2>1, <2>2 DEF was, i, x
  <2>4. j \in Items /\ y \in Accounts
    <3>1. OnRecord(d)
      BY <1>7, <2>1, ActiveIsListed DEF Rental
    <3> QED
      BY <1>2, <1>7, <2>1, <3>1 DEF OnRecord, SoundRental, Rental, RentalRecord
  <2>5. ract'[j][y] = rentals[d].until
    BY <1>6, <2>2, <2>3, <2>4
  <2> HIDE DEF j, y
  <2>6. ASSUME NEW other \in RentalIds \ {d}
        PROVE  ~(rentals'[other].rented /\ rentals'[other].item = j /\ rentals'[other].rby = y)
    BY <1>4, <1>5, <2>2
  <2> QED
    BY <2>1, <2>5, <2>6 DEF j, y
<1>8. RentersAttested'
  BY <1>7 DEF RentersAttested, Rental
<1>9. ASSUME NEW j \in Items, NEW y \in Accounts, GetActiveRentalOf(j, y)'.active
      PROVE  \E d \in RentalIds :
               /\ Live(d)' /\ Rental(d)'.item = j /\ Rental(d)'.rby = y
               /\ Rental(d)'.until = GetActiveRentalOf(j, y)'.until
  <2>1. /\ ract'[j][y] # 0 /\ height < ract'[j][y]
        /\ GetActiveRentalOf(j, y)'.until = ract'[j][y]
    BY <1>1, <1>9 DEF GetActiveRentalOf
  <2>2. j # i \/ y # x
    BY <1>6, <2>1
  <2>3. ract'[j][y] = ract[j][y]
    BY <1>6, <2>2
  <2>4. PICK d \in RentalIds :
          Live(d) /\ Rental(d).item = j /\ Rental(d).rby = y /\ Rental(d).until = ract[j][y]
    BY <2>1, <2>3 DEF Attested, AttestationTruthful, GetActiveRentalOf
  <2>5. d # id
    BY <2>2, <2>4 DEF Rental, was, i, x
  <2> QED
    BY <1>1, <1>5, <2>1, <2>3, <2>4, <2>5 DEF Live, Rental
<1> QED
  BY <1>8, <1>9 DEF Attested, AttestationTruthful

(* Every step keeps the attestations.                                      *)
LEMMA StepAttested ==
  ASSUME RentalInv, RentalInv', Attested, [Next]_vars
  PROVE  Attested'
<1>1. /\ rentals \in [RentalIds -> RentalRecord] /\ height \in Nat /\ height' \in Nat
      /\ nextRentalId \in Nat
  BY RentalAssumption DEF RentalInv, Typed, MarketInv, MarketTypeOK
<1>2. CASE Listing
  <2>1. PICK o \in Accounts, i \in Items, n \in Nat, t \in Tokens, ppb \in Nat,
             minb \in Nat, maxb \in Nat : ListRental(o, i, n, t, ppb, minb, maxb)
    BY <1>2 DEF Listing
  <2>2. PICK r : /\ r.rented = FALSE
                 /\ rentals' = [rentals EXCEPT ![nextRentalId] = r]
    <3> DEFINE new == [o |-> o, item |-> i, amt |-> n, pt |-> t, ppb |-> ppb,
                       minb |-> minb, maxb |-> maxb, act |-> TRUE, rented |-> FALSE,
                       rby |-> NoAccount, until |-> 0,
                       fb |-> EffectiveFeeBps(CollectionOf[i]),
                       rs |-> ResolveRoyaltySplits(CollectionOf[i])]
    <3>1. new.rented = FALSE
      OBVIOUS
    <3>2. rentals' = [rentals EXCEPT ![nextRentalId] = new]
      BY <2>1 DEF ListRental, OpenRental
    <3> HIDE DEF new
    <3> QED
      BY <3>1, <3>2
  <2>3. UNCHANGED <<marketVars, ract, overlapped>>
    BY <2>1 DEF ListRental, OpenRental
  <2>4. ASSUME NEW id \in RentalIds
        PROVE  /\ rentals'[id].rented <=> rentals[id].rented
               /\ rentals[id].rented => rentals'[id] = rentals[id]
    <3>1. id = nextRentalId => ~rentals[id].rented
      BY <1>1, RentalOf, NoRentalIsEmpty DEF Situation, Unlisted
    <3> QED
      BY <1>1, <2>2, <3>1
  <2> QED
    BY <1>1, <2>3, <2>4, SlotsLeftAlone DEF marketVars
<1>3. CASE Renting
  BY <1>3, RentAttests DEF Renting
<1>4. CASE Ending
  BY <1>4, HandbackAttests DEF Ending
<1>5. CASE Delisting
  <2>1. PICK id \in RentalIds : DelistRental(id)
    BY <1>5 DEF Delisting
  <2> DEFINE r == [rentals[id] EXCEPT !.act = FALSE]
  <2>2. rentals' = [rentals EXCEPT ![id] = r] /\ UNCHANGED <<marketVars, ract, overlapped>>
    BY <2>1 DEF DelistRental
  <2>3. /\ r.rented = rentals[id].rented /\ r.item = rentals[id].item
        /\ r.rby = rentals[id].rby /\ r.until = rentals[id].until
    BY <1>1 DEF RentalRecord
  <2> HIDE DEF r
  <2>4. ASSUME NEW j \in RentalIds
        PROVE  /\ rentals'[j].rented = rentals[j].rented /\ rentals'[j].item = rentals[j].item
               /\ rentals'[j].rby = rentals[j].rby /\ rentals'[j].until = rentals[j].until
    BY <1>1, <2>2, <2>3
  <2> QED
    BY <1>1, <2>2, <2>4, SlotsLeftAlone DEF marketVars
<1>6. CASE Elsewhere
  <2>1. UNCHANGED <<rentals, ract, overlapped>>
    BY <1>6 DEF Elsewhere, Environment, rentalVars, vars, SetApproval, TransferOutside
  <2>2. height' >= height
    <3>1. height' = height \/ height' = height + 1
      BY <1>6
      DEF Elsewhere, Environment, Tick, Configure, vars, marketVars, SetApproval,
          TransferOutside
    <3> QED
      BY <1>1, <3>1
  <2> QED
    BY <1>1, <2>1, <2>2, SlotsLeftAlone
<1> QED
  BY <1>2, <1>3, <1>4, <1>5, <1>6, KindsOfSteps

(* Nobody is attested before anything has happened.                        *)
LEMMA InitAttested ==
  ASSUME Init
  PROVE  Attested
<1>1. \A i \in Items, x \in Accounts : ~GetActiveRentalOf(i, x).active
  BY DEF Init, GetActiveRentalOf
<1>2. \A id \in RentalIds : ~Rental(id).rented
  BY NoRentalIsEmpty DEF Init, Rental
<1> QED
  BY <1>1, <1>2 DEF Attested, AttestationTruthful, RentersAttested

(* The attestations are an invariant, given that of the rentals.           *)
THEOREM AttestationsInvariant == Spec => []Attested
<1>1. Init => Attested
  BY InitAttested
<1>2. RentalInv /\ RentalInv' /\ Attested /\ [Next]_vars => Attested'
  BY StepAttested
<1> QED
  BY <1>1, <1>2, RentalsInvariant, PTL DEF Spec

-----------------------------------------------------------------------------
(* What the invariants say of the properties. *)

(* A listed rental has an owner, an unlisted one has none.                 *)
LEMMA FoundIsListed ==
  ASSUME RentalInv, NEW id \in RentalIds
  PROVE  IF RentalFound(id) THEN OnRecord(id) ELSE Unlisted(id)
<1>1. CASE id >= nextRentalId
  <2>1. Unlisted(id)
    BY <1>1, RentalOf DEF Situation
  <2>2. ~RentalFound(id)
    BY <2>1, NoRentalIsEmpty DEF Unlisted, RentalFound, Rental
  <2> QED
    BY <2>1, <2>2
<1>2. CASE ~(id >= nextRentalId)
  <2>1. OnRecord(id)
    BY <1>2, RentalOf DEF Situation
  <2>2. RentalFound(id)
    BY <2>1, AccountAssumption DEF OnRecord, SoundRental, RentalFound
  <2> QED
    BY <2>1, <2>2
<1> QED
  BY <1>1, <1>2

(* The invariant implies the typing.                                       *)
LEMMA InvTypes ==
  ASSUME RentalInv
  PROVE  TypeOK
<1>1. Typed /\ RestTyped /\ MarketTypeOK
  BY DEF RentalInv, Typed, MarketInv
<1>2. ASSUME NEW id \in RentalIds, RentalFound(id)
      PROVE  GetRental(id) \in RentalResponse
  <2>1. SoundRental(Rental(id)) /\ Rental(id) \in RentalRecord
    BY <1>2, FoundIsListed, RentalOf DEF OnRecord
  <2> DEFINE r == Rental(id)
  <2>2. /\ r.o \in Accounts /\ r.item \in Items /\ r.amt \in Nat \ {0} /\ r.pt \in Tokens
        /\ r.ppb \in Nat \ {0} /\ r.minb \in Nat \ {0} /\ r.act \in BOOLEAN
        /\ r.rby \in Accounts \cup {NoAccount} /\ r.until \in Nat /\ r.rented \in BOOLEAN
    BY <2>1 DEF SoundRental, RentalRecord
  <2>3. r.maxb \in Nat \ {0}
    BY <2>1 DEF SoundRental, RentalRecord
  <2> QED
    BY <2>2, <2>3 DEF GetRental, RentalResponse
<1>3. ASSUME NEW i \in Items, NEW x \in Accounts
      PROVE  GetActiveRentalOf(i, x) \in ActiveRentalResponse
  <2>1. ract[i][x] \in Nat
    BY <1>1 DEF RestTyped
  <2> QED
    BY <2>1 DEF GetActiveRentalOf, ActiveRentalResponse
<1> QED
  BY <1>1, <1>2, <1>3 DEF TypeOK, Typed, RestTyped

(* The invariants imply that renters are attested and the log is true.     *)
LEMMA InvKeeps ==
  ASSUME RentalInv, Attested
  PROVE  AttestationKept
<1>1. ASSUME NEW id \in RentalIds
      PROVE  RentalTold(id)
  <2>1. CASE RentalFound(id)
    <3>1. books[id] \in RentalEntry /\ SoundRental(Rental(id)) /\ WrittenDown(Rental(id), books[id])
      BY <2>1, FoundIsListed DEF OnRecord
    <3>2. books[id].known = TRUE
      BY <3>1 DEF RentalEntry
    <3>3. Rental(id).rented <=> Rental(id).rby # NoAccount
      BY <3>1, AccountAssumption DEF SoundRental
    <3> QED
      BY <2>1, <3>1, <3>2, <3>3 DEF RentalTold, GetRental, WrittenDown
  <2>2. CASE ~RentalFound(id)
    <3>1. books[id].known = FALSE
      BY <2>2, FoundIsListed DEF Unlisted, NoEntry
    <3> QED
      BY <2>2, <3>1 DEF RentalTold
  <2> QED
    BY <2>1, <2>2
<1>2. ASSUME NEW id \in RentalIds, Live(id),
             <<Rental(id).item, Rental(id).rby>> \notin overlapped
      PROVE  /\ ract[Rental(id).item][Rental(id).rby] = Rental(id).until
             /\ \A other \in RentalIds \ {id} :
                  ~(Live(other) /\ Rental(other).item = Rental(id).item
                      /\ Rental(other).rby = Rental(id).rby)
  BY <1>2 DEF Attested, RentersAttested, Live
<1> QED
  BY <1>1, <1>2 DEF AttestationKept

(* The invariant implies that every rent can be passed on.                 *)
LEMMA InvPays ==
  ASSUME RentalInv
  PROVE  LockedTermsPayable
<1> SUFFICES ASSUME NEW id \in RentalIds, NEW paid \in 1 .. Rental(id).ppb * Rental(id).maxb
             PROVE  Payable(paid, Rental(id).fb, Rental(id).rs)
  BY DEF LockedTermsPayable
<1>1. Rental(id).fb \in Nat /\ Rental(id).rs \in Seq(Split) /\ paid \in Nat
  <2>1. Rental(id).ppb * Rental(id).maxb \in Nat
    BY RentalOf DEF RentalRecord
  <2> QED
    BY <2>1, RentalOf DEF RentalRecord
<1>2. Rental(id).fb + TotalBps(Rental(id).rs) <= BpsDenominator
  <2>1. CASE RentalFound(id)
    BY <2>1, FoundIsListed DEF OnRecord, SoundRental
  <2>2. CASE ~RentalFound(id)
    <3>1. Rental(id).fb = 0 /\ Rental(id).rs = <<>>
      BY <2>2, FoundIsListed, NoRentalIsEmpty DEF Unlisted, Rental
    <3> QED
      BY <3>1, NoSplitsNoBps DEF BpsDenominator
  <2> QED
    BY <2>1, <2>2
<1> QED
  BY <1>1, <1>2, TermsPay

(* Rentals stay typed, and so do the answers to getRental and              *)
(* getActiveRentalOf.                                                      *)
THEOREM RentalsTyped == Spec => []TypeOK
BY RentalsInvariant, InvTypes, PTL

(* The market holds exactly the units that are rented out and keeps none   *)
(* of the rent.                                                            *)
THEOREM RentedUnitsStayHeld == Spec => []RentedUnitsHeld
<1>1. RentalInv => RentedUnitsHeld
  BY DEF RentalInv
<1> QED
  BY <1>1, RentalsInvariant, PTL

(* Whoever getActiveRentalOf calls an active renter rents the item, until  *)
(* the block it says.                                                      *)
THEOREM AttestationsAreTrue == Spec => []AttestationTruthful
<1>1. Attested => AttestationTruthful
  BY DEF Attested
<1> QED
  BY <1>1, AttestationsInvariant, PTL

(* Every renter is attested for the whole term, unless it rented the item  *)
(* again while an expired rental of it was waiting to be ended; the log    *)
(* tells of every rental what the query shows.                             *)
THEOREM AttestationsAreKept == Spec => []AttestationKept
BY RentalsInvariant, AttestationsInvariant, InvKeeps, PTL

(* Rent can be passed on under the terms a rental was listed with, for     *)
(* every number of blocks and whatever became of the settings.             *)
THEOREM RentIsPayable == Spec => []LockedTermsPayable
BY RentalsInvariant, InvPays, PTL

(* The units of a rental are there when it is ended: the transfer back to  *)
(* the owner is never what stops endRental or endRentalEarly.              *)
UnitsThere ==
  \A id \in RentalIds :
    Rental(id).rented => CanMove(Rental(id).item, Market, Rental(id).amt)

THEOREM RentalsCanEnd == Spec => []UnitsThere
<1>1. RentalInv => UnitsThere
  BY RentedIsHeld DEF UnitsThere
<1> QED
  BY <1>1, RentalsInvariant, PTL

-----------------------------------------------------------------------------
(* Title: what an account holds and has lent out together. *)

Title(i, x) == nft[i][x] + Total([id \in RentalIds |-> LentBy(id, i, x)])

(* What a rental has lent out on behalf of x. *)
LentOf(r, i, x) == IF r.o = x THEN UnitsOf(r, i) ELSE 0

(* When what one rental has lent out replaces what its owner holds, or the *)
(* other way round, no title changes.                                      *)
LEMMA TitlesBalance ==
  ASSUME RentalInv, RentalInv', NEW id \in RentalIds, NEW r,
         rentals' = [rentals EXCEPT ![id] = r],
         \A i \in Items, x \in Accounts :
           nft'[i][x] + LentOf(r, i, x) = nft[i][x] + LentBy(id, i, x)
  PROVE  \A i \in Items, x \in Accounts : Title(i, x)' = Title(i, x)
<1> SUFFICES ASSUME NEW i \in Items, NEW x \in Accounts
             PROVE  Title(i, x)' = Title(i, x)
  OBVIOUS
<1> DEFINE f == [j \in RentalIds |-> LentBy(j, i, x)]
           g == [j \in RentalIds |-> LentBy(j, i, x)']
<1>1. /\ rentals \in [RentalIds -> RentalRecord] /\ rentals' \in [RentalIds -> RentalRecord]
      /\ nft[i][x] \in Nat /\ nft'[i][x] \in Nat
  BY DEF RentalInv, Typed, RestTyped, Holders
<1>2. f \in [RentalIds -> Nat]
  <2>1. ASSUME NEW j \in RentalIds
        PROVE  LentBy(j, i, x) \in Nat
    BY <1>1 DEF LentBy, RentedUnits, Rental, RentalRecord
  <2> QED
    BY <2>1
<1>3. g \in [RentalIds -> Nat]
  <2>1. ASSUME NEW j \in RentalIds
        PROVE  LentBy(j, i, x)' \in Nat
    BY <1>1 DEF LentBy, RentedUnits, Rental, RentalRecord
  <2> QED
    BY <2>1
<1>4. rentals'[id] = r /\ \A j \in RentalIds \ {id} : rentals'[j] = rentals[j]
  BY <1>1
<1>5. \A j \in RentalIds \ {id} : g[j] = f[j]
  BY <1>4 DEF LentBy, RentedUnits, Rental
<1>6. f[id] = LentBy(id, i, x) /\ g[id] = LentOf(r, i, x)
  BY <1>4 DEF LentBy, LentOf, RentedUnits, UnitsOf, Rental
<1>7. Total(g) = Total(f) - f[id] + g[id] /\ Total(f) \in Nat
  <2> HIDE DEF f, g
  <2> QED
    BY <1>2, <1>3, <1>5, RentalIdsFinite, TotalUpdate, TotalType
<1>8. nft'[i][x] + g[id] = nft[i][x] + f[id] /\ f[id] \in Nat /\ g[id] \in Nat
  BY <1>2, <1>3, <1>6
<1> HIDE DEF f, g
<1>9. nft'[i][x] + Total(g) = nft[i][x] + Total(f)
  BY <1>1, <1>7, <1>8
<1> QED
  BY <1>9 DEF Title, f, g

(* rent moves an owner's units into the market's hands.                    *)
LEMMA RentKeepsTitle ==
  ASSUME RentalInv, RentalInv', NEW id \in RentalIds, NEW y \in Accounts,
         NEW blocks \in Nat, NEW arrived \in Nat, Rent(id, y, blocks, arrived)
  PROVE  \A i \in Items, x \in Accounts : Title(i, x)' = Title(i, x)
<1> DEFINE was == rentals[id]
           until == (height + blocks) % Word
           r == [was EXCEPT !.rby = y, !.until = until, !.rented = TRUE]
<1>1. /\ was.act /\ ~was.rented
      /\ CanMove(was.item, was.o, was.amt)
      /\ rentals' = [rentals EXCEPT ![id] = r]
      /\ nft' = Move(was.item, was.o, Market, was.amt)
  BY DEF Rent, CanRent, Rental
<1>2. was \in RentalRecord /\ nft \in [Items -> [Holders -> Nat]]
  BY DEF RentalInv, Typed, RestTyped
<1>3. SoundRental(was)
  BY <1>1, ActiveIsListed DEF OnRecord, Rental
<1>4. r.o = was.o /\ r.item = was.item /\ r.amt = was.amt /\ r.rented = TRUE
  BY <1>2 DEF RentalRecord
<1> HIDE DEF was, r
<1>5. /\ was.o \in Accounts /\ was.item \in Items /\ was.amt \in Nat
      /\ was.o \in Holders /\ Market \in Holders /\ was.o # Market
  BY <1>2, <1>3, CustodyAssumption DEF SoundRental, RentalRecord, Holders
<1>6. /\ \A j \in Items \ {was.item} : nft'[j] = nft[j]
      /\ \A z \in Holders :
           nft'[was.item][z] = IF z = was.o THEN nft[was.item][z] - was.amt
                               ELSE IF z = Market THEN nft[was.item][z] + was.amt
                               ELSE nft[was.item][z]
  BY <1>1, <1>2, <1>5, MoveBalances
<1>7. ASSUME NEW i \in Items, NEW x \in Accounts
      PROVE  nft'[i][x] + LentOf(r, i, x) = nft[i][x] + LentBy(id, i, x)
  <2>1. x \in Holders /\ x # Market /\ nft[i][x] \in Nat
    BY <1>2, CustodyAssumption DEF Holders
  <2>2. LentBy(id, i, x) = 0
    BY <1>1 DEF LentBy, RentedUnits, Rental, was
  <2>3. LentOf(r, i, x) = IF was.o = x /\ was.item = i THEN was.amt ELSE 0
    BY <1>4 DEF LentOf, UnitsOf
  <2> QED
    BY <1>5, <1>6, <2>1, <2>2, <2>3
<1> QED
  BY <1>1, <1>7, TitlesBalance

(* Ending a rental moves them back to the owner.                           *)
LEMMA HandbackKeepsTitle ==
  ASSUME RentalInv, RentalInv', NEW id \in RentalIds, Rental(id).rented, Handback(id)
  PROVE  \A i \in Items, x \in Accounts : Title(i, x)' = Title(i, x)
<1> DEFINE was == rentals[id]
           r == [was EXCEPT !.rented = FALSE, !.rby = NoAccount]
<1>1. /\ was.rented
      /\ CanMove(was.item, Market, was.amt)
      /\ rentals' = [rentals EXCEPT ![id] = r]
      /\ nft' = Move(was.item, Market, was.o, was.amt)
  BY DEF Handback, ReturnTo, Rental
<1>2. was \in RentalRecord /\ nft \in [Items -> [Holders -> Nat]]
  BY DEF RentalInv, Typed, RestTyped
<1>3. SoundRental(was)
  BY <1>1, ActiveIsListed DEF OnRecord, Rental
<1>4. r.o = was.o /\ r.rented = FALSE
  BY <1>2 DEF RentalRecord
<1> HIDE DEF was, r
<1>5. /\ was.o \in Accounts /\ was.item \in Items /\ was.amt \in Nat
      /\ was.o \in Holders /\ Market \in Holders /\ was.o # Market
  BY <1>2, <1>3, CustodyAssumption DEF SoundRental, RentalRecord, Holders
<1>6. /\ \A j \in Items \ {was.item} : nft'[j] = nft[j]
      /\ \A z \in Holders :
           nft'[was.item][z] = IF z = Market THEN nft[was.item][z] - was.amt
                               ELSE IF z = was.o THEN nft[was.item][z] + was.amt
                               ELSE nft[was.item][z]
  BY <1>1, <1>2, <1>5, MoveBalances
<1>7. ASSUME NEW i \in Items, NEW x \in Accounts
      PROVE  nft'[i][x] + LentOf(r, i, x) = nft[i][x] + LentBy(id, i, x)
  <2>1. x \in Holders /\ x # Market /\ nft[i][x] \in Nat
    BY <1>2, CustodyAssumption DEF Holders
  <2>2. LentBy(id, i, x) = IF was.o = x /\ was.item = i THEN was.amt ELSE 0
    BY <1>1 DEF LentBy, RentedUnits, Rental, was
  <2>3. LentOf(r, i, x) = 0
    BY <1>4 DEF LentOf, UnitsOf
  <2> QED
    BY <1>5, <1>6, <2>1, <2>2, <2>3
<1> QED
  BY <1>1, <1>7, TitlesBalance

(* A rental that was not rented out and is not, with units that stay.      *)
LEMMA IdleKeepsTitle ==
  ASSUME RentalInv, RentalInv', NEW id \in RentalIds, NEW r,
         rentals' = [rentals EXCEPT ![id] = r], UNCHANGED nft,
         rentals[id].rented = FALSE, r.rented = FALSE
  PROVE  \A i \in Items, x \in Accounts : Title(i, x)' = Title(i, x)
<1>1. \A i \in Items, x \in Accounts : LentBy(id, i, x) = 0 /\ LentOf(r, i, x) = 0
  BY DEF LentBy, LentOf, RentedUnits, UnitsOf, Rental
<1>2. \A i \in Items, x \in Accounts :
        nft'[i][x] + LentOf(r, i, x) = nft[i][x] + LentBy(id, i, x)
  BY <1>1
<1> QED
  BY <1>2, TitlesBalance

(* No step that touches a rental changes anybody's title.                  *)
LEMMA StepKeepsTitle ==
  ASSUME RentalInv, RentalInv', [Next]_vars, rentals' # rentals
  PROVE  \A i \in Items, x \in Accounts : Title(i, x)' = Title(i, x)
<1>1. rentals \in [RentalIds -> RentalRecord] /\ nextRentalId \in Nat
  BY RentalAssumption DEF RentalInv, Typed
<1>2. CASE Listing
  <2>1. PICK o \in Accounts, i \in Items, n \in Nat, t \in Tokens, ppb \in Nat,
             minb \in Nat, maxb \in Nat : ListRental(o, i, n, t, ppb, minb, maxb)
    BY <1>2 DEF Listing
  <2>2. PICK id \in RentalIds : id = nextRentalId
    BY <1>1, <2>1, RentalAssumption DEF RentalIds, ListRental, OpenRental
  <2>3. PICK r : r.rented = FALSE /\ rentals' = [rentals EXCEPT ![id] = r]
    <3> DEFINE new == [o |-> o, item |-> i, amt |-> n, pt |-> t, ppb |-> ppb,
                       minb |-> minb, maxb |-> maxb, act |-> TRUE, rented |-> FALSE,
                       rby |-> NoAccount, until |-> 0,
                       fb |-> EffectiveFeeBps(CollectionOf[i]),
                       rs |-> ResolveRoyaltySplits(CollectionOf[i])]
    <3>1. new.rented = FALSE
      OBVIOUS
    <3>2. rentals' = [rentals EXCEPT ![id] = new]
      BY <2>1, <2>2 DEF ListRental, OpenRental
    <3> HIDE DEF new
    <3> QED
      BY <3>1, <3>2
  <2>4. UNCHANGED nft
    BY <2>1 DEF ListRental, OpenRental
  <2>5. rentals[id].rented = FALSE
    BY <1>1, <2>2, RentalOf, NoRentalIsEmpty DEF Situation, Unlisted
  <2> QED
    BY <2>3, <2>4, <2>5, IdleKeepsTitle
<1>3. CASE Renting
  BY <1>3, RentKeepsTitle DEF Renting
<1>4. CASE Ending
  BY <1>4, HandbackKeepsTitle DEF Ending
<1>5. CASE Delisting
  <2>1. PICK id \in RentalIds : DelistRental(id)
    BY <1>5 DEF Delisting
  <2> DEFINE r == [rentals[id] EXCEPT !.act = FALSE]
  <2>2. rentals' = [rentals EXCEPT ![id] = r] /\ ~rentals[id].rented /\ UNCHANGED nft
    BY <2>1 DEF DelistRental, Rental
  <2>3. r.rented = FALSE /\ rentals[id].rented = FALSE
    BY <1>1, <2>2 DEF RentalRecord
  <2> HIDE DEF r
  <2> QED
    BY <2>2, <2>3, IdleKeepsTitle
<1>6. CASE Elsewhere
  BY <1>6 DEF Elsewhere, Environment, rentalVars, vars, SetApproval, TransferOutside
<1> QED
  BY <1>2, <1>3, <1>4, <1>5, <1>6, KindsOfSteps

(* Renting and ending a rental never changes what an account holds and has *)
(* lent out together: no step takes an owner's units for good, and none    *)
(* gives a renter any.                                                     *)
THEOREM TitleIsKept == Spec => OwnersKeepTitle
<1>1. RentalInv /\ RentalInv' /\ [Next]_vars
        => [rentals' # rentals =>
              \A i \in Items, x \in Accounts :
                LET held == nft[i][x] + Total([id \in RentalIds |-> LentBy(id, i, x)])
                IN held' = held]_vars
  BY StepKeepsTitle DEF Title
<1> QED
  BY <1>1, RentalsInvariant, PTL DEF Spec, OwnersKeepTitle
=============================================================================
