------------------------------- MODULE Rental -------------------------------
(***************************************************************************)
(* NFT rentals.  Listing escrows nothing: the owner only approves the      *)
(* market at the NFT contract.  rent takes the units from the owner into   *)
(* the market's custody for a number of blocks, passes the rent on at      *)
(* once, and records for the renter, under one key per item and account,   *)
(* until when the rental runs; getActiveRentalOf answers other contracts   *)
(* from that key.  When the term is over anybody may end the rental, and   *)
(* the renter may end it at any time; the units then go back to the owner. *)
(***************************************************************************)
EXTENDS Approvals, FcnSum, Events

CONSTANTS
  MaxRentals,        \* bound: rentals listed in a behaviour
  PricesPerBlock, BlockRanges,   \* listRental's arguments
  RentBlocks         \* rent's argument

VARIABLES
  rentals,           \* rnt|<id>|... of every rental
  nextRentalId,      \* nxt_rnt
  ract,              \* ract|<nft>|<token id>|<account>, 0 when absent
  overlapped,        \* history: items and renters that rented again before
                     \* an expired rental of theirs had been ended
  books              \* what the events have told of every rental

rentalVars == <<rentals, nextRentalId, ract, approved, pool, nft, overlapped>>
vars == <<marketVars, rentalVars, books>>

RentalIds == 0 .. MaxRentals - 1

RentalRecord ==
  [o : Accounts \cup {NoAccount}, item : Items, amt : Nat, pt : Tokens,
   ppb : Nat, minb : Nat, maxb : Nat, act : BOOLEAN, rented : BOOLEAN,
   rby : Accounts \cup {NoAccount}, until : Nat, fb : Nat, rs : Seq(Split)]

ASSUME RentalAssumption ==
  /\ MaxRentals \in Nat
  /\ PricesPerBlock \subseteq Nat /\ BlockRanges \subseteq Nat \X Nat
  /\ RentBlocks \subseteq Nat

-----------------------------------------------------------------------------
Rental(id) == rentals[id]

(* Everything listRental does but one check. *)
OpenRental(o, i, n, t, ppb, minb, maxb) ==
  LET c == CollectionOf[i] IN
  /\ ~cfg.paused
  /\ n > 0 /\ ppb > 0
  /\ minb > 0 /\ minb <= maxb
  /\ PaymentTokenAllowed(t)
  /\ CollectionAllowed(c)
  /\ i \notin Soulbound
  /\ CanPull(i, o)
  /\ CanMove(i, o, n)
  /\ nextRentalId < MaxRentals
  /\ rentals' = [rentals EXCEPT ![nextRentalId] =
       [o |-> o, item |-> i, amt |-> n, pt |-> t, ppb |-> ppb,
        minb |-> minb, maxb |-> maxb, act |-> TRUE, rented |-> FALSE,
        rby |-> NoAccount, until |-> 0,
        fb |-> EffectiveFeeBps(c), rs |-> ResolveRoyaltySplits(c)]]
  /\ nextRentalId' = nextRentalId + 1
  /\ UNCHANGED <<marketVars, ract, approved, pool, nft, overlapped>>

(* Mutant of ListRental: fee and royalty are not checked together. *)
ListRentalUnchecked(o, i, n, t, ppb, minb, maxb) ==
  OpenRental(o, i, n, t, ppb, minb, maxb)

ListRental(o, i, n, t, ppb, minb, maxb) ==
  /\ EffectiveFeeBps(CollectionOf[i]) + RoyaltyBps(CollectionOf[i]) <= 10000
  /\ OpenRental(o, i, n, t, ppb, minb, maxb)

(* Mutant of AttestationFree: never looked at. *)
AttestationIgnored(i, x) == TRUE

(* The slot of x holds no attestation, or one that has expired. *)
AttestationFree(i, x) == ract[i][x] = 0 \/ height >= ract[i][x]

(* What rent requires. *)
CanRent(id, x, blocks) ==
  LET r == Rental(id) IN
  /\ ~cfg.paused
  /\ r.act /\ ~r.rented
  /\ r.minb <= blocks /\ blocks <= r.maxb
  /\ CollectionAllowed(CollectionOf[r.item])
  /\ x # r.o
  /\ PaymentTokenAllowed(r.pt)
  /\ AttestationFree(r.item, x)

(* x has a rental of item i that is over and that nobody has ended yet. *)
HoldsExpired(i, x) ==
  \E id \in RentalIds :
    /\ Rental(id).rented /\ Rental(id).item = i /\ Rental(id).rby = x
    /\ height >= Rental(id).until

(* The rent is `arrived` and leaves in the same transaction. *)
Rent(id, x, blocks, arrived) ==
  LET r == Rental(id)
      cost == r.ppb * blocks
      until == (height + blocks) % Word
      received == EscrowIn(r.pt, cost, arrived)
  IN
  /\ CanRent(id, x, blocks)
  /\ height + blocks <= MaxHeight                 \* bound
  /\ arrived \in Arrivals(r.pt, cost)
  /\ ~EscrowAborts(r.pt, arrived)
  /\ CanPull(r.item, r.o)
  /\ CanMove(r.item, r.o, r.amt)
  /\ Payable(received, r.fb, r.rs)
  /\ pool[r.pt] + arrived >= received
  /\ rentals' = [rentals EXCEPT ![id].rby = x, ![id].until = until,
                                ![id].rented = TRUE]
  /\ ract' = [ract EXCEPT ![r.item][x] = until]
  /\ pool' = [pool EXCEPT ![r.pt] = @ + arrived - received]
  /\ nft' = Move(r.item, r.o, Market, r.amt)
  /\ Pulled(r.item, r.o)
  /\ overlapped' = IF HoldsExpired(r.item, x)
                   THEN overlapped \cup {<<r.item, x>>} ELSE overlapped
  /\ UNCHANGED <<marketVars, nextRentalId>>

(* Mutant of ReturnTo: the units stay with whoever rented them. *)
ReturnToRenter(id) == Rental(id).rby

ReturnTo(id) == Rental(id).o

(* Mutant of Handback: the rental stays marked as rented out. *)
HandbackStillRented(id) ==
  LET r == Rental(id) IN
  /\ CanMove(r.item, Market, r.amt)
  /\ ract' = [ract EXCEPT ![r.item][r.rby] = 0]
  /\ nft' = Move(r.item, Market, ReturnTo(id), r.amt)
  /\ UNCHANGED <<marketVars, rentals, nextRentalId, approved, pool, overlapped>>

(* Mutant of Handback: the attestation is left in place. *)
HandbackKeepingAttestation(id) ==
  LET r == Rental(id) IN
  /\ CanMove(r.item, Market, r.amt)
  /\ rentals' = [rentals EXCEPT ![id].rented = FALSE, ![id].rby = NoAccount]
  /\ ract' = ract
  /\ nft' = Move(r.item, Market, ReturnTo(id), r.amt)
  /\ UNCHANGED <<marketVars, nextRentalId, approved, pool, overlapped>>

(* The units go back and the renter's key is deleted, whichever of the     *)
(* renter's rentals of the item it belongs to.                             *)
Handback(id) ==
  LET r == Rental(id) IN
  /\ CanMove(r.item, Market, r.amt)
  /\ rentals' = [rentals EXCEPT ![id].rented = FALSE, ![id].rby = NoAccount]
  /\ ract' = [ract EXCEPT ![r.item][r.rby] = 0]
  /\ nft' = Move(r.item, Market, ReturnTo(id), r.amt)
  /\ UNCHANGED <<marketVars, nextRentalId, approved, pool, overlapped>>

(* Mutant of TermOver: the term never ends. *)
TermNeverOver(id) == FALSE

TermOver(id) == height >= Rental(id).until

(* Signed by anybody. *)
EndRental(id) ==
  /\ ~cfg.paused
  /\ Rental(id).rented
  /\ TermOver(id)
  /\ Handback(id)

(* Signed by the renter. *)
EndRentalEarly(id) ==
  /\ ~cfg.paused
  /\ Rental(id).rented
  /\ Handback(id)

(* Signed by the owner; works while the contract is paused. *)
DelistRental(id) ==
  /\ Rental(id).act /\ ~Rental(id).rented
  /\ rentals' = [rentals EXCEPT ![id].act = FALSE]
  /\ UNCHANGED <<marketVars, nextRentalId, ract, approved, pool, nft, overlapped>>

(* Owners grant and revoke approval at the NFT contract. *)
SetApproval(i, x) ==
  /\ FlipApproval(i, x)
  /\ UNCHANGED <<marketVars, rentals, nextRentalId, ract, pool, nft, overlapped>>

(* Holders trade an item without the market. *)
TransferOutside(i, x, y) ==
  /\ i \notin Soulbound
  /\ x # y
  /\ \E n \in LotSizes :
       /\ CanMove(i, x, n)
       /\ nft' = Move(i, x, y, n)
  /\ UNCHANGED <<marketVars, rentals, nextRentalId, ract, approved, pool, overlapped>>

-----------------------------------------------------------------------------
(* The queries, and the books of somebody who reads the events. *)

RentalFound(id) == Rental(id).o # NoAccount

(* `until` is not cleared when the rental ends. *)
GetRental(id) ==
  LET r == Rental(id) IN
  [owner |-> r.o, item |-> r.item, amount |-> r.amt, paymentToken |-> r.pt,
   pricePerBlock |-> r.ppb, minBlocks |-> r.minb, maxBlocks |-> r.maxb,
   active |-> r.act, renter |-> r.rby, until |-> r.until, rented |-> r.rented]

RentalResponse ==
  [owner : Accounts, item : Items, amount : Nat \ {0}, paymentToken : Tokens,
   pricePerBlock : Nat \ {0}, minBlocks : Nat \ {0}, maxBlocks : Nat \ {0},
   active : BOOLEAN, renter : Accounts \cup {NoAccount}, until : Nat,
   rented : BOOLEAN]

(* What another contract is told about x. *)
GetActiveRentalOf(i, x) ==
  IF ract[i][x] # 0 /\ height < ract[i][x]
  THEN [active |-> TRUE, until |-> ract[i][x]]
  ELSE [active |-> FALSE, until |-> 0]

ActiveRentalResponse == [active : BOOLEAN, until : Nat]

NoEntry == [known |-> FALSE]

(* The amount, the payment token and the price are not told. *)
Told(b, e) ==
  CASE e.type = "rentalListed" ->
         [b EXCEPT ![e.rentalId] =
            [known |-> TRUE, owner |-> e.owner, item |-> e.item, open |-> TRUE,
             renter |-> NoAccount, until |-> 0]]
    [] e.type = "rented" ->
         [b EXCEPT ![e.rentalId].renter = e.renter, ![e.rentalId].until = e.until]
    [] e.type = "rentalEnded" -> [b EXCEPT ![e.rentalId].renter = NoAccount]
    [] e.type = "rentalDelisted" -> [b EXCEPT ![e.rentalId].open = FALSE]

Log(e) == books' = Told(books, e)

Silent == UNCHANGED books

-----------------------------------------------------------------------------
NoRental ==
  [o |-> NoAccount, item |-> CHOOSE i \in Items : TRUE, amt |-> 0,
   pt |-> CHOOSE t \in Tokens : TRUE, ppb |-> 0, minb |-> 0, maxb |-> 0,
   act |-> FALSE, rented |-> FALSE, rby |-> NoAccount, until |-> 0,
   fb |-> 0, rs |-> <<>>]

Init ==
  /\ MarketInit
  /\ rentals = [id \in RentalIds |-> NoRental]
  /\ nextRentalId = 0
  /\ ract = [i \in Items |-> [x \in Accounts |-> 0]]
  /\ ApprovalInit
  /\ pool = [t \in Tokens |-> 0]
  /\ nft = [i \in Items |-> [x \in Holders |-> IF x = Market THEN 0 ELSE MintedTo[i][x]]]
  /\ overlapped = {}
  /\ books = [id \in RentalIds |-> NoEntry]

Environment == (Tick \/ Configure) /\ UNCHANGED rentalVars

(* Whoever calls endRental is named. *)
End(id) == \E by \in Accounts : EndRental(id) /\ Log(RentalEnded(id, by))

Next ==
  \/ Environment /\ Silent
  \/ \E o \in Accounts, i \in Items, n \in LotSizes, t \in Tokens,
        ppb \in PricesPerBlock, range \in BlockRanges :
       /\ ListRental(o, i, n, t, ppb, range[1], range[2])
       /\ Log(RentalListed(nextRentalId, o, i))
  \/ \E id \in RentalIds, x \in Accounts, blocks \in RentBlocks :
       \E arrived \in 0 .. Rental(id).ppb * blocks :
         /\ Rent(id, x, blocks, arrived)
         /\ Log(Rented(id, x, (height + blocks) % Word))
  \/ \E id \in RentalIds : End(id)
  \/ \E id \in RentalIds : EndRentalEarly(id) /\ Log(RentalEnded(id, Rental(id).rby))
  \/ \E id \in RentalIds : DelistRental(id) /\ Log(RentalDelisted(id, Rental(id).o))
  \/ \E ix \in Allowances : SetApproval(ix[1], ix[2]) /\ Silent
  \/ \E ixy \in OutsideTrades : TransferOutside(ixy[1], ixy[2], ixy[3]) /\ Silent

Spec == Init /\ [][Next]_vars

(* Blocks keep coming, and somebody (the owner, as a rule) sooner or later *)
(* submits endRental once it would go through.                             *)
FairSpec ==
  /\ Spec
  /\ WF_vars(Tick /\ UNCHANGED <<rentalVars, books>>)
  /\ \A id \in RentalIds : WF_vars(End(id))

-----------------------------------------------------------------------------
TypeOK ==
  /\ MarketTypeOK
  /\ rentals \in [RentalIds -> RentalRecord]
  /\ nextRentalId \in 0 .. MaxRentals
  /\ ract \in [Items -> [Accounts -> Nat]]
  /\ approved \subseteq Items \X Accounts
  /\ pool \in [Tokens -> Nat]
  /\ nft \in [Items -> [Holders -> Nat]]
  /\ overlapped \subseteq Items \X Accounts
  /\ \A id \in RentalIds : RentalFound(id) => GetRental(id) \in RentalResponse
  /\ \A i \in Items, x \in Accounts : GetActiveRentalOf(i, x) \in ActiveRentalResponse

RentedUnits(id, i) ==
  IF Rental(id).rented /\ Rental(id).item = i THEN Rental(id).amt ELSE 0

LentBy(id, i, x) == IF Rental(id).o = x THEN RentedUnits(id, i) ELSE 0

(* The market holds exactly the units that are rented out, so that every   *)
(* rental can be ended, and no rent stays behind in its balance (rent,     *)
(* endRental, endRentalEarly, in any order over rentals of one item).      *)
RentedUnitsHeld ==
  /\ \A i \in Items :
       nft[i][Market] = Total([id \in RentalIds |-> RentedUnits(id, i)])
  /\ \A t \in Tokens : pool[t] = 0

Live(id) == Rental(id).rented /\ height < Rental(id).until

(* Whoever the market calls an active renter of an item does rent it, and  *)
(* until the block it says: a rental that was ended early, or one whose    *)
(* slot was taken over by a later rental, is not reported any more.        *)
AttestationTruthful ==
  \A i \in Items, x \in Accounts :
    LET told == GetActiveRentalOf(i, x) IN
    told.active =>
      \E id \in RentalIds :
        /\ Live(id) /\ Rental(id).item = i /\ Rental(id).rby = x
        /\ Rental(id).until = told.until

(* Log and query agree on a rental, its renter and its term. *)
RentalTold(id) ==
  LET told == books[id]
      shown == GetRental(id)
  IN
  /\ told.known <=> RentalFound(id)
  /\ told.known =>
       /\ told.owner = shown.owner /\ told.item = shown.item
       /\ told.open = shown.active
       /\ told.renter = shown.renter
       /\ shown.rented <=> told.renter # NoAccount
       /\ shown.rented => told.until = shown.until

(* An account that never rented an item again while an expired rental of   *)
(* it was waiting to be ended is reported as its renter for as long as it  *)
(* rents it, and rents it only once at a time.  The log tells of every     *)
(* rental.                                                                 *)
AttestationKept ==
  \A id \in RentalIds :
    LET r == Rental(id) IN
    /\ RentalTold(id)
    /\ Live(id) /\ <<r.item, r.rby>> \notin overlapped =>
         /\ ract[r.item][r.rby] = r.until
         /\ \A other \in RentalIds \ {id} :
              ~(Live(other) /\ Rental(other).item = r.item /\ Rental(other).rby = r.rby)

(* market.go:2385-2390 on rent: ending one rental does not wipe the proof  *)
(* of another that is still running.                                       *)
AttestationSurvives ==
  \A id \in RentalIds :
    Live(id) => GetActiveRentalOf(Rental(id).item, Rental(id).rby).active

(* The fee and the royalties locked when a rental was listed never exceed  *)
(* the rent that comes in, whatever happened to the settings since: the    *)
(* payout in rent is never what makes it abort.                            *)
LockedTermsPayable ==
  \A id \in RentalIds :
    \A paid \in 1 .. Rental(id).ppb * Rental(id).maxb :
      Payable(paid, Rental(id).fb, Rental(id).rs)

(* Renting and ending a rental never changes what an account holds and has *)
(* lent out together: the units leave the owner and come back to the owner *)
(* and nobody else, also when the owner lists an item twice.               *)
OwnersKeepTitle ==
  [][rentals' # rentals =>
       \A i \in Items, x \in Accounts :
         LET held == nft[i][x] + Total([id \in RentalIds |-> LentBy(id, i, x)])
         IN held' = held]_vars

(* A rental comes to an end even if the renter does nothing and the        *)
(* collection is denied, as long as the contract does not stay paused.     *)
RentalsEnd ==
  \A id \in RentalIds :
    <>[](~cfg.paused) => (Rental(id).rented ~> ~Rental(id).rented)
=============================================================================
