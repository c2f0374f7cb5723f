----------------------------- MODULE SoldProofs -----------------------------
(***************************************************************************)
(* Proofs about what swaps, mint spots and token sales deliver when their  *)
(* purchases run inside one another: what a listing says is sold is        *)
(* delivered or about to be, a swap is accepted once and both of its legs  *)
(* happen, and the log tells all of it truly.                              *)
(***************************************************************************)
EXTENDS SalesProofs

-----------------------------------------------------------------------------
(* The units of the purchases in progress.                                 *)

(* What the purchases of a swap or listing have yet to log. *)
Units(op, id) == Weighed(UnloggedWeight(op, id), calls)

(* What they have yet to deliver. *)
Pending(op, id) == Weighed(FlightWeight(op, id), calls)

(* How many of the units of f are those of a swap or listing. *)
UnitsIn(f, op, id) == IF f.op = op /\ f.id = id THEN f.n ELSE 0

(* Both are numbers, and zero when no frame is about the swap or listing.  *)
LEMMA UnitsType ==
  ASSUME calls \in Seq(Frame), NEW op, NEW id
  PROVE  Units(op, id) \in Nat /\ Pending(op, id) \in Nat
BY UnloggedType, FlightType, WeighedType DEF Units, Pending

(* The calls left after the next one has come back deliver what is left to *)
(* deliver, less what the next one delivers.                               *)
LEMMA StageLeft ==
  ASSUME NEW todo \in SwapTodos \cup SaleTodos
  PROVE  /\ Len(todo) = 1 => "deliver" \notin ToSet(todo) /\ Head(todo) # "deliver"
         /\ Len(todo) # 1 =>
              ("deliver" \in ToSet(Tail(todo))
                 <=> "deliver" \in ToSet(todo) /\ Head(todo) # "deliver")
         /\ Head(todo) = "deliver" => "deliver" \in ToSet(todo)
<1>1. CASE todo \in SwapTodos
  <2>1. CASE Len(todo) = 1
    BY <1>1, <2>1, SwapStages
  <2>2. CASE Len(todo) # 1
    <3>1. Head(todo) # "return" /\ Tail(todo) \in SwapTodos
      BY <1>1, <2>2, SwapStages
    <3>2. "deliver" \in ToSet(Tail(todo)) <=> Head(Tail(todo)) # "return"
      BY <3>1, SwapStages
    <3>3. "deliver" \in ToSet(todo)
      BY <1>1, <3>1, SwapStages
    <3>4. Head(Tail(todo)) = "return" <=> Head(todo) = "deliver"
      BY <1>1, <3>1, SwapStages DEF Stages
    <3> QED
      BY <2>2, <3>2, <3>3, <3>4
  <2> QED
    BY <2>1, <2>2
<1>2. CASE todo \in SaleTodos
  <2>1. CASE Len(todo) = 1
    BY <1>2, <2>1, SaleStages
  <2>2. CASE Len(todo) # 1
    <3>1. Head(todo) # "payout" /\ Tail(todo) \in SaleTodos
      BY <1>2, <2>2, SaleStages
    <3>2. "deliver" \in ToSet(Tail(todo)) <=> Head(Tail(todo)) # "payout"
      BY <3>1, SaleStages
    <3>3. "deliver" \in ToSet(todo)
      BY <1>2, <3>1, SaleStages
    <3>4. Head(Tail(todo)) = "payout" <=> Head(todo) = "deliver"
      BY <1>2, <3>1, SaleStages DEF Stages
    <3> QED
      BY <2>2, <3>2, <3>3, <3>4
  <2> QED
    BY <2>1, <2>2
<1> QED
  BY <1>1, <1>2

(* A purchase that starts adds its units. *)
LEMMA UnitsEnter ==
  ASSUME calls \in Seq(Frame), NEW g \in Frame, Enter(g),
         g.todo \in SwapTodos \cup SaleTodos, Len(g.todo) # 1, NEW op, NEW id
  PROVE  /\ Units(op, id)' = Units(op, id) + UnitsIn(g, op, id)
         /\ "deliver" \in ToSet(g.todo) =>
              Pending(op, id)' = Pending(op, id) + UnitsIn(g, op, id)
<1>1. calls' = Append(calls, g)
  BY DEF Enter
<1>2. Units(op, id)' = Units(op, id) + UnloggedWeight(op, id)[g]
  BY <1>1, UnloggedType, WeighedPush DEF Units
<1>3. Pending(op, id)' = Pending(op, id) + FlightWeight(op, id)[g]
  BY <1>1, FlightType, WeighedPush DEF Pending
<1>4. UnloggedWeight(op, id)[g] = UnitsIn(g, op, id)
  BY DEF UnloggedWeight, UnitsIn
<1>5. "deliver" \in ToSet(g.todo) => FlightWeight(op, id)[g] = UnitsIn(g, op, id)
  BY DEF FlightWeight, UnitsIn
<1> QED
  BY <1>2, <1>3, <1>4, <1>5

(* A call that comes back takes off the stack the units it delivers, and   *)
(* the last one all that are to be logged.                                 *)
LEMMA UnitsReturn ==
  ASSUME calls \in Seq(Frame), Len(calls) <= MaxDepth, ~Idle, Top \in Frame,
         Top.todo \in SwapTodos \cup SaleTodos, Top.todo # <<>>,
         NEW g \in Frame, Returned(g), NEW op, NEW id,
         g.op = Top.op, g.id = Top.id, g.n = Top.n, g.todo = Top.todo
  PROVE  /\ Units(op, id)'
              = Units(op, id) - (IF Len(Top.todo) = 1 THEN UnitsIn(Top, op, id) ELSE 0)
         /\ Pending(op, id)'
              = Pending(op, id)
                  - (IF Head(Top.todo) = "deliver" THEN UnitsIn(Top, op, id) ELSE 0)
<1>1. g.todo # <<>>
  OBVIOUS
<1> DEFINE u == Weighed(UnloggedWeight(op, id), Outer)
           p == Weighed(FlightWeight(op, id), Outer)
           n == UnitsIn(Top, op, id)
<1>2. /\ After(g).op = Top.op /\ After(g).id = Top.id /\ After(g).n = Top.n
      /\ After(g).todo = Tail(Top.todo)
  BY AfterFields
<1>3. After(g) \in Frame
  BY <1>1, AfterType
<1>4. n \in Nat
  BY DEF UnitsIn, Frame
<1>5. /\ u \in Nat /\ Units(op, id) = u + UnloggedWeight(op, id)[Top]
      /\ Units(op, id)' = u + (IF Len(g.todo) = 1 THEN 0
                               ELSE UnloggedWeight(op, id)[After(g)])
  BY <1>1, UnloggedType, WeighedAfter DEF Units
<1>6. /\ p \in Nat /\ Pending(op, id) = p + FlightWeight(op, id)[Top]
      /\ Pending(op, id)' = p + (IF Len(g.todo) = 1 THEN 0
                                 ELSE FlightWeight(op, id)[After(g)])
  BY <1>1, FlightType, WeighedAfter DEF Pending
<1>7. UnloggedWeight(op, id)[Top] = n /\ UnloggedWeight(op, id)[After(g)] = n
  BY <1>2, <1>3 DEF UnloggedWeight, UnitsIn
<1>8. /\ FlightWeight(op, id)[Top] = IF "deliver" \in ToSet(Top.todo) THEN n ELSE 0
      /\ FlightWeight(op, id)[After(g)]
           = IF "deliver" \in ToSet(Tail(Top.todo)) THEN n ELSE 0
  BY <1>2, <1>3 DEF FlightWeight, UnitsIn
<1> HIDE DEF u, p, n
<1>9. Units(op, id)' = Units(op, id) - (IF Len(Top.todo) = 1 THEN n ELSE 0)
  BY <1>4, <1>5, <1>7
<1>10. Pending(op, id)' = Pending(op, id) - (IF Head(Top.todo) = "deliver" THEN n ELSE 0)
  BY <1>4, <1>6, <1>8, StageLeft
<1> QED
  BY <1>9, <1>10 DEF n

(* Steps that make no call leave the units alone. *)
LEMMA UnitsStay ==
  ASSUME calls' = calls, NEW op, NEW id
  PROVE  Units(op, id)' = Units(op, id) /\ Pending(op, id)' = Pending(op, id)
BY DEF Units, Pending

(* No purchase is of a listing that is not known yet. *)
LEMMA NoUnits ==
  ASSUME calls \in Seq(Frame), NEW op, NEW id,
         \A k \in DOMAIN calls : calls[k].op # op \/ calls[k].id # id
  PROVE  Units(op, id) = 0 /\ Pending(op, id) = 0
<1>1. \A k \in DOMAIN calls : calls[k] \in Frame
  OBVIOUS
<1>2. \A k \in DOMAIN calls : UnloggedWeight(op, id)[calls[k]] = 0
  BY <1>1 DEF UnloggedWeight
<1>3. \A k \in DOMAIN calls : FlightWeight(op, id)[calls[k]] = 0
  BY <1>1 DEF FlightWeight
<1>4. UnloggedWeight(op, id) \in [Frame -> Nat] /\ FlightWeight(op, id) \in [Frame -> Nat]
  BY UnloggedType, FlightType
<1> HIDE DEF UnloggedWeight, FlightWeight
<1> QED
  BY <1>2, <1>3, <1>4, WeighedZero DEF Units, Pending

-----------------------------------------------------------------------------
(* The books kept from the log.                                            *)

(* What the log tells of a swap, a listing of spots and a token listing. *)
SwapEntry ==
  [known : {TRUE}, proposer : Accounts, offeredNft : Collections,
   wantedNft : Collections, open : BOOLEAN, acceptor : Accounts \cup {NoAccount}]

(* The same of a listing of spots. *)
SpotEntry ==
  [known : {TRUE}, lister : Accounts, item : Items, maxSpots : Nat, taken : Nat,
   open : BOOLEAN]

(* The same of a token listing. *)
TokenEntry ==
  [known : {TRUE}, seller : Accounts, tokenContract : Tokens, pricePerUnit : Nat,
   paymentToken : Tokens, expirationBlock : Nat, amount : Int, open : BOOLEAN]

(* The three ledgers of somebody who reads the log. *)
SwapBook == [SwapIds -> SwapEntry \cup {NoEntry}]

(* The same for spots. *)
SpotBook == [SpotIds -> SpotEntry \cup {NoEntry}]

(* The same for token listings. *)
TokenBook == [TokenListingIds -> TokenEntry \cup {NoEntry}]

(* The books hold one entry of the right kind for everything known. *)
BooksTypeOK ==
  books \in [swaps : SwapBook, spots : SpotBook, tokens : TokenBook]

(* No entry is that of something known. *)
LEMMA NoEntryUnknown ==
  /\ NoEntry.known = FALSE
  /\ \A e \in SwapEntry \cup {NoEntry} : e.known => e \in SwapEntry
  /\ \A e \in SpotEntry \cup {NoEntry} : e.known => e \in SpotEntry
  /\ \A e \in TokenEntry \cup {NoEntry} : e.known => e \in TokenEntry
BY DEF NoEntry

(* An entry of the swaps written, and nothing else. *)
SwapsRewritten(id, e) ==
  /\ books'.spots = books.spots /\ books'.tokens = books.tokens
  /\ books'.swaps[id] = e
  /\ \A j \in SwapIds \ {id} : books'.swaps[j] = books.swaps[j]

(* An entry of the spots written, and nothing else. *)
SpotsRewritten(id, e) ==
  /\ books'.swaps = books.swaps /\ books'.tokens = books.tokens
  /\ books'.spots[id] = e
  /\ \A j \in SpotIds \ {id} : books'.spots[j] = books.spots[j]

(* An entry of the token listings written, and nothing else. *)
TokensRewritten(id, e) ==
  /\ books'.swaps = books.swaps /\ books'.spots = books.spots
  /\ books'.tokens[id] = e
  /\ \A j \in TokenListingIds \ {id} : books'.tokens[j] = books.tokens[j]

(* The books keep their type when an entry is written. *)
LEMMA WriteSwapEntry ==
  ASSUME BooksTypeOK, NEW id \in SwapIds, NEW e \in SwapEntry,
         books' = [books EXCEPT !.swaps = [books.swaps EXCEPT ![id] = e]]
  PROVE  BooksTypeOK' /\ SwapsRewritten(id, e)
<1> DEFINE f == [books.swaps EXCEPT ![id] = e]
<1>1. /\ books.swaps \in SwapBook /\ books.spots \in SpotBook
      /\ books.tokens \in TokenBook
  BY DEF BooksTypeOK
<1>2. f \in SwapBook /\ f[id] = e /\ \A j \in SwapIds \ {id} : f[j] = books.swaps[j]
  BY <1>1 DEF SwapBook
<1> HIDE DEF f
<1>3. books' = [books EXCEPT !.swaps = f]
  BY DEF f
<1>4. books'.swaps = f /\ books'.spots = books.spots /\ books'.tokens = books.tokens
  BY <1>3 DEF BooksTypeOK
<1>5. books' \in [swaps : SwapBook, spots : SpotBook, tokens : TokenBook]
  BY <1>1, <1>2, <1>3 DEF BooksTypeOK
<1> QED
  BY <1>2, <1>4, <1>5 DEF BooksTypeOK, SwapsRewritten

(* The same for spots. *)
LEMMA WriteSpotEntry ==
  ASSUME BooksTypeOK, NEW id \in SpotIds, NEW e \in SpotEntry,
         books' = [books EXCEPT !.spots = [books.spots EXCEPT ![id] = e]]
  PROVE  BooksTypeOK' /\ SpotsRewritten(id, e)
<1> DEFINE f == [books.spots EXCEPT ![id] = e]
<1>1. /\ books.swaps \in SwapBook /\ books.spots \in SpotBook
      /\ books.tokens \in TokenBook
  BY DEF BooksTypeOK
<1>2. f \in SpotBook /\ f[id] = e /\ \A j \in SpotIds \ {id} : f[j] = books.spots[j]
  BY <1>1 DEF SpotBook
<1> HIDE DEF f
<1>3. books' = [books EXCEPT !.spots = f]
  BY DEF f
<1>4. books'.spots = f /\ books'.swaps = books.swaps /\ books'.tokens = books.tokens
  BY <1>3 DEF BooksTypeOK
<1>5. books' \in [swaps : SwapBook, spots : SpotBook, tokens : TokenBook]
  BY <1>1, <1>2, <1>3 DEF BooksTypeOK
<1> QED
  BY <1>2, <1>4, <1>5 DEF BooksTypeOK, SpotsRewritten

(* The same for token listings. *)
LEMMA WriteTokenEntry ==
  ASSUME BooksTypeOK, NEW id \in TokenListingIds, NEW e \in TokenEntry,
         books' = [books EXCEPT !.tokens = [books.tokens EXCEPT ![id] = e]]
  PROVE  BooksTypeOK' /\ TokensRewritten(id, e)
<1> DEFINE f == [books.tokens EXCEPT ![id] = e]
<1>1. /\ books.swaps \in SwapBook /\ books.spots \in SpotBook
      /\ books.tokens \in TokenBook
  BY DEF BooksTypeOK
<1>2. f \in TokenBook /\ f[id] = e
      /\ \A j \in TokenListingIds \ {id} : f[j] = books.tokens[j]
  BY <1>1 DEF TokenBook
<1> HIDE DEF f
<1>3. books' = [books EXCEPT !.tokens = f]
  BY DEF f
<1>4. books'.tokens = f /\ books'.swaps = books.swaps /\ books'.spots = books.spots
  BY <1>3 DEF BooksTypeOK
<1>5. books' \in [swaps : SwapBook, spots : SpotBook, tokens : TokenBook]
  BY <1>1, <1>2, <1>3 DEF BooksTypeOK
<1> QED
  BY <1>2, <1>4, <1>5 DEF BooksTypeOK, TokensRewritten

(* A token listing is told of with its terms (listToken's event). *)
LEMMA TellTokenListed ==
  ASSUME BooksTypeOK, NEW id \in TokenListingIds, NEW s \in Accounts,
         NEW tc \in Tokens, NEW n \in Nat, NEW t \in Tokens, NEW p \in Nat,
         NEW exp \in Nat, Log(TokenListed(id, s, tc, n, t, p, exp))
  PROVE  /\ BooksTypeOK'
         /\ TokensRewritten(id,
              [known |-> TRUE, seller |-> s, tokenContract |-> tc, pricePerUnit |-> p,
               paymentToken |-> t, expirationBlock |-> exp, amount |-> n, open |-> TRUE])
<1> DEFINE e == [known |-> TRUE, seller |-> s, tokenContract |-> tc, pricePerUnit |-> p,
                 paymentToken |-> t, expirationBlock |-> exp, amount |-> n, open |-> TRUE]
<1>1. books' = [books EXCEPT !.tokens[id] = e]
  BY DEF Log, Told, TokenListed
<1>2. e \in TokenEntry
  BY DEF TokenEntry
<1> HIDE DEF e
<1>3. books' = [books EXCEPT !.tokens = [books.tokens EXCEPT ![id] = e]]
  BY <1>1, Zenon
<1>4. BooksTypeOK' /\ TokensRewritten(id, e)
  BY <1>2, <1>3, WriteTokenEntry
<1> QED
  BY <1>4 DEF e

(* The amount bought is told (buyToken's event). *)
LEMMA TellTokenBought ==
  ASSUME BooksTypeOK, NEW id \in TokenListingIds, books.tokens[id].known,
         NEW x, NEW n \in Nat, NEW p, NEW f, Log(TokenBought(id, x, n, p, f))
  PROVE  /\ BooksTypeOK'
         /\ TokensRewritten(id, [books.tokens[id] EXCEPT !.amount = @ - n])
<1> DEFINE e == [books.tokens[id] EXCEPT !.amount = @ - n]
<1>1. books' = [books EXCEPT !.tokens[id].amount = @ - n]
  BY DEF Log, Told, TokenBought
<1>2. books.tokens[id] \in TokenEntry
  BY NoEntryUnknown DEF BooksTypeOK, TokenBook
<1>3. e \in TokenEntry
  <2> DEFINE r == books.tokens[id]
             v == r.amount - n
  <2>1. e = [r EXCEPT !.amount = v]
    OBVIOUS
  <2>2. r \in TokenEntry
    BY <1>2
  <2> HIDE DEF e, r
  <2>3. r.amount \in Int
    BY <2>2 DEF TokenEntry
  <2>4. v \in Int
    BY <2>3
  <2> HIDE DEF v
  <2> QED
    BY <2>1, <2>2, <2>4 DEF TokenEntry
<1>4. books' = [books EXCEPT !.tokens = [books.tokens EXCEPT ![id] = e]]
  BY <1>1, Zenon
<1> HIDE DEF e
<1>5. BooksTypeOK' /\ TokensRewritten(id, e)
  BY <1>3, <1>4, WriteTokenEntry
<1> QED
  BY <1>5 DEF e

(* A listing taken off is told of (delistToken's event). *)
LEMMA TellTokenDelisted ==
  ASSUME BooksTypeOK, NEW id \in TokenListingIds, books.tokens[id].known,
         NEW s, Log(TokenDelisted(id, s))
  PROVE  /\ BooksTypeOK'
         /\ TokensRewritten(id, [books.tokens[id] EXCEPT !.open = FALSE])
<1> DEFINE e == [books.tokens[id] EXCEPT !.open = FALSE]
<1>1. books' = [books EXCEPT !.tokens[id].open = FALSE]
  BY DEF Log, Told, TokenDelisted
<1>2. books.tokens[id] \in TokenEntry
  BY NoEntryUnknown DEF BooksTypeOK, TokenBook
<1>3. e \in TokenEntry
  BY <1>2 DEF TokenEntry
<1>4. books' = [books EXCEPT !.tokens = [books.tokens EXCEPT ![id] = e]]
  BY <1>1, Zenon
<1> HIDE DEF e
<1>5. BooksTypeOK' /\ TokensRewritten(id, e)
  BY <1>3, <1>4, WriteTokenEntry
<1> QED
  BY <1>5 DEF e

(* A listing of spots is told of with its cap (listMintSpots' event). *)
LEMMA TellSpotsListed ==
  ASSUME BooksTypeOK, NEW id \in SpotIds, NEW s \in Accounts, NEW i \in Items,
         NEW ms \in Nat, Log(MintSpotsListed(id, s, i, ms))
  PROVE  /\ BooksTypeOK'
         /\ SpotsRewritten(id, [known |-> TRUE, lister |-> s, item |-> i,
                                maxSpots |-> ms, taken |-> 0, open |-> TRUE])
<1> DEFINE e == [known |-> TRUE, lister |-> s, item |-> i, maxSpots |-> ms,
                 taken |-> 0, open |-> TRUE]
<1>1. books' = [books EXCEPT !.spots[id] = e]
  BY DEF Log, Told, MintSpotsListed
<1>2. e \in SpotEntry
  BY DEF SpotEntry
<1> HIDE DEF e
<1>3. books' = [books EXCEPT !.spots = [books.spots EXCEPT ![id] = e]]
  BY <1>1, Zenon
<1>4. BooksTypeOK' /\ SpotsRewritten(id, e)
  BY <1>2, <1>3, WriteSpotEntry
<1> QED
  BY <1>4 DEF e

(* The spots bought are told (buyMintSpot's event). *)
LEMMA TellSpotBought ==
  ASSUME BooksTypeOK, NEW id \in SpotIds, books.spots[id].known,
         NEW x, NEW n \in Nat, NEW p, NEW f, Log(MintSpotBought(id, x, n, p, f))
  PROVE  /\ BooksTypeOK'
         /\ SpotsRewritten(id, [books.spots[id] EXCEPT !.taken = @ + n])
<1> DEFINE e == [books.spots[id] EXCEPT !.taken = @ + n]
<1>1. books' = [books EXCEPT !.spots[id].taken = @ + n]
  BY DEF Log, Told, MintSpotBought
<1>2. books.spots[id] \in SpotEntry
  BY NoEntryUnknown DEF BooksTypeOK, SpotBook
<1>3. e \in SpotEntry
  <2> DEFINE r == books.spots[id]
             v == r.taken + n
  <2>1. e = [r EXCEPT !.taken = v]
    OBVIOUS
  <2>2. r \in SpotEntry
    BY <1>2
  <2> HIDE DEF e, r
  <2>3. r.taken \in Nat
    BY <2>2 DEF SpotEntry
  <2>4. v \in Nat
    BY <2>3
  <2> HIDE DEF v
  <2> QED
    BY <2>1, <2>2, <2>4 DEF SpotEntry
<1>4. books' = [books EXCEPT !.spots = [books.spots EXCEPT ![id] = e]]
  BY <1>1, Zenon
<1> HIDE DEF e
<1>5. BooksTypeOK' /\ SpotsRewritten(id, e)
  BY <1>3, <1>4, WriteSpotEntry
<1> QED
  BY <1>5 DEF e

(* A listing taken off is told of (delistMintSpots' event). *)
LEMMA TellSpotsDelisted ==
  ASSUME BooksTypeOK, NEW id \in SpotIds, books.spots[id].known,
         NEW s, Log(MintSpotsDelisted(id, s))
  PROVE  /\ BooksTypeOK'
         /\ SpotsRewritten(id, [books.spots[id] EXCEPT !.open = FALSE])
<1> DEFINE e == [books.spots[id] EXCEPT !.open = FALSE]
<1>1. books' = [books EXCEPT !.spots[id].open = FALSE]
  BY DEF Log, Told, MintSpotsDelisted
<1>2. books.spots[id] \in SpotEntry
  BY NoEntryUnknown DEF BooksTypeOK, SpotBook
<1>3. e \in SpotEntry
  BY <1>2 DEF SpotEntry
<1>4. books' = [books EXCEPT !.spots = [books.spots EXCEPT ![id] = e]]
  BY <1>1, Zenon
<1> HIDE DEF e
<1>5. BooksTypeOK' /\ SpotsRewritten(id, e)
  BY <1>3, <1>4, WriteSpotEntry
<1> QED
  BY <1>5 DEF e

(* A swap is told of as proposed (proposeSwap's event). *)
LEMMA TellSwapProposed ==
  ASSUME BooksTypeOK, NEW id \in SwapIds, NEW x \in Accounts,
         NEW c \in Collections, NEW d \in Collections, Log(SwapProposed(id, x, c, d))
  PROVE  /\ BooksTypeOK'
         /\ SwapsRewritten(id, [known |-> TRUE, proposer |-> x, offeredNft |-> c,
                                wantedNft |-> d, open |-> TRUE, acceptor |-> NoAccount])
<1> DEFINE e == [known |-> TRUE, proposer |-> x, offeredNft |-> c, wantedNft |-> d,
                 open |-> TRUE, acceptor |-> NoAccount]
<1>1. books' = [books EXCEPT !.swaps[id] = e]
  BY DEF Log, Told, SwapProposed
<1>2. e \in SwapEntry
  BY DEF SwapEntry
<1> HIDE DEF e
<1>3. books' = [books EXCEPT !.swaps = [books.swaps EXCEPT ![id] = e]]
  BY <1>1, Zenon
<1>4. BooksTypeOK' /\ SwapsRewritten(id, e)
  BY <1>2, <1>3, WriteSwapEntry
<1> QED
  BY <1>4 DEF e

(* A swap accepted is told of with its acceptor (acceptSwap's event). *)
LEMMA TellSwapAccepted ==
  ASSUME BooksTypeOK, NEW id \in SwapIds, books.swaps[id].known,
         NEW x, NEW y \in Accounts, Log(SwapAccepted(id, x, y))
  PROVE  /\ BooksTypeOK'
         /\ SwapsRewritten(id, [books.swaps[id] EXCEPT !.open = FALSE, !.acceptor = y])
<1> DEFINE e == [books.swaps[id] EXCEPT !.open = FALSE, !.acceptor = y]
<1>1. books' = [books EXCEPT !.swaps[id].open = FALSE, !.swaps[id].acceptor = y]
  BY DEF Log, Told, SwapAccepted
<1>2. books.swaps[id] \in SwapEntry
  BY NoEntryUnknown DEF BooksTypeOK, SwapBook
<1>3. e \in SwapEntry
  BY <1>2 DEF SwapEntry
<1>4. books' = [books EXCEPT !.swaps = [books.swaps EXCEPT ![id] = e]]
  <2> DEFINE r == books.swaps[id]
             r1 == [r EXCEPT !.open = FALSE]
             f1 == [books.swaps EXCEPT ![id] = r1]
             b1 == [books EXCEPT !.swaps = f1]
  <2>1. books \in [swaps : SwapBook, spots : SpotBook, tokens : TokenBook]
    BY DEF BooksTypeOK
  <2>2. r1 \in SwapEntry
    BY <1>2 DEF SwapEntry
  <2>3. f1 \in SwapBook /\ f1[id] = r1
    <3> HIDE DEF r1
    <3> QED
      BY <2>1, <2>2 DEF SwapBook
  <2>4. b1.swaps = f1
    <3> HIDE DEF f1
    <3> QED
      BY <2>1
  <2>5. books' = [b1 EXCEPT !.swaps = [b1.swaps EXCEPT ![id] =
                     [b1.swaps[id] EXCEPT !.acceptor = y]]]
    BY <1>1, Zenon
  <2>6. [r1 EXCEPT !.acceptor = y] = e
    BY <1>2 DEF SwapEntry
  <2>7. books' = [b1 EXCEPT !.swaps = [f1 EXCEPT ![id] = e]]
    BY <2>3, <2>4, <2>5, <2>6, Zenon
  <2>8. [f1 EXCEPT ![id] = e] = [books.swaps EXCEPT ![id] = e]
    BY Zenon
  <2> QED
    BY <2>7, <2>8, Zenon
<1> HIDE DEF e
<1>5. BooksTypeOK' /\ SwapsRewritten(id, e)
  BY <1>3, <1>4, WriteSwapEntry
<1> QED
  BY <1>5 DEF e

(* A swap cancelled is told of (cancelSwap's event). *)
LEMMA TellSwapCancelled ==
  ASSUME BooksTypeOK, NEW id \in SwapIds, books.swaps[id].known,
         NEW x, Log(SwapCancelled(id, x))
  PROVE  /\ BooksTypeOK'
         /\ SwapsRewritten(id, [books.swaps[id] EXCEPT !.open = FALSE])
<1> DEFINE e == [books.swaps[id] EXCEPT !.open = FALSE]
<1>1. books' = [books EXCEPT !.swaps[id].open = FALSE]
  BY DEF Log, Told, SwapCancelled
<1>2. books.swaps[id] \in SwapEntry
  BY NoEntryUnknown DEF BooksTypeOK, SwapBook
<1>3. e \in SwapEntry
  BY <1>2 DEF SwapEntry
<1>4. books' = [books EXCEPT !.swaps = [books.swaps EXCEPT ![id] = e]]
  BY <1>1, Zenon
<1> HIDE DEF e
<1>5. BooksTypeOK' /\ SwapsRewritten(id, e)
  BY <1>3, <1>4, WriteSwapEntry
<1> QED
  BY <1>5 DEF e

-----------------------------------------------------------------------------
(* Token sales.                                                            *)

(* What the record of a token listing, its entry in the books, the amount  *)
(* offered and sent, and the units of purchases in progress say of one     *)
(* another.                                                                *)
CoinsAgree(l, e, off, snt, u, p, known) ==
  /\ l.a + snt + p = off
  /\ l.a = 0 => ~l.act
  /\ e.known <=> known
  /\ known =>
       /\ e.seller = l.s /\ e.tokenContract = l.tc /\ e.pricePerUnit = l.p
       /\ e.paymentToken = l.pt /\ e.expirationBlock = l.exp
       /\ e.amount = l.a + u
       /\ l.act <=> e.open /\ l.a # 0
  /\ ~known => l.a = 0 /\ off = 0 /\ snt = 0

(* Of one listing. *)
CoinsAt(id) ==
  CoinsAgree(TokenListing(id), books.tokens[id], offered[id], sent[id],
             Units("token", id), Pending("token", id), id < nextTokenListingId)

(* Of all. *)
CoinsOK == \A id \in TokenListingIds : CoinsAt(id)

(* A listing of which nothing changes agrees as before. *)
LEMMA CoinsAtStay ==
  ASSUME NEW id \in TokenListingIds, CoinsAt(id),
         tokenListings'[id] = tokenListings[id], books'.tokens[id] = books.tokens[id],
         offered'[id] = offered[id], sent'[id] = sent[id],
         (id < nextTokenListingId') <=> (id < nextTokenListingId),
         Units("token", id)' = Units("token", id),
         Pending("token", id)' = Pending("token", id)
  PROVE  CoinsAt(id)'
<1>1. CoinsAt(id)' <=> CoinsAgree(tokenListings'[id], books'.tokens[id], offered'[id],
                          sent'[id], Units("token", id)', Pending("token", id)',
                          id < nextTokenListingId')
  BY DEF CoinsAt, TokenListing
<1>2. CoinsAt(id) <=> CoinsAgree(tokenListings[id], books.tokens[id], offered[id],
                          sent[id], Units("token", id), Pending("token", id),
                          id < nextTokenListingId)
  BY DEF CoinsAt, TokenListing
<1> QED
  BY <1>1, <1>2 DEF CoinsAgree

(* Steps that are none of the token sales' business.                       *)
LEMMA CoinsStay ==
  ASSUME CoinsOK, UNCHANGED <<tokenListings, nextTokenListingId, offered, sent>>,
         books'.tokens = books.tokens,
         \A id : /\ Units("token", id)' = Units("token", id)
                 /\ Pending("token", id)' = Pending("token", id)
  PROVE  CoinsOK'
<1> SUFFICES ASSUME NEW id \in TokenListingIds
             PROVE  CoinsAt(id)'
  BY DEF CoinsOK
<1>1. CoinsAt(id)
  BY DEF CoinsOK
<1>2. /\ Units("token", id)' = Units("token", id)
      /\ Pending("token", id)' = Pending("token", id)
  OBVIOUS
<1>3. /\ tokenListings'[id] = tokenListings[id] /\ books'.tokens[id] = books.tokens[id]
      /\ offered'[id] = offered[id] /\ sent'[id] = sent[id]
      /\ (id < nextTokenListingId') <=> (id < nextTokenListingId)
  OBVIOUS
<1> QED
  BY <1>1, <1>2, <1>3, CoinsAtStay

(* What the record of one listing says when it is new. *)
LEMMA CoinsNew ==
  ASSUME NEW l, NEW e, NEW a \in Nat, a > 0, l.a = a, l.act = TRUE,
         e.known = TRUE, e.seller = l.s, e.tokenContract = l.tc,
         e.pricePerUnit = l.p, e.paymentToken = l.pt, e.expirationBlock = l.exp,
         e.amount = a, e.open = TRUE
  PROVE  CoinsAgree(l, e, a, 0, 0, 0, TRUE)
BY DEF CoinsAgree

(* No purchase is of a listing yet to be made. *)
LEMMA NoTokenUnits ==
  ASSUME CoreOK, NEW id, id >= nextTokenListingId, id \in Nat
  PROVE  Units("token", id) = 0 /\ Pending("token", id) = 0
<1>1. calls \in Seq(Frame) /\ FramesOK /\ nextTokenListingId \in Nat
  BY TokenSaleAssumption DEF CoreOK, CallsTyped, StackOK, TokensTyped, TokenSaleTypeOK
<1>2. ASSUME NEW k \in DOMAIN calls
      PROVE  calls[k].op # "token" \/ calls[k].id # id
  <2>1. calls[k] \in Frame
    BY <1>1
  <2>2. calls[k].id \in Nat
    BY <2>1 DEF Frame
  <2>3. FitsNow(calls[k])
    BY <1>1 DEF FramesOK
  <2>4. calls[k].op = "token" => calls[k].id < nextTokenListingId
    BY <2>3 DEF FitsNow, FrameFits
  <2> QED
    BY <1>1, <2>2, <2>4
<1> QED
  BY <1>1, <1>2, NoUnits

(* A new listing agrees with its event. *)
LEMMA ListTokenCoins ==
  ASSUME CoreOK, BooksTypeOK, CoinsOK, NEW x \in Accounts, NEW tc \in Tokens,
         NEW t \in Tokens, NEW a \in TokenAmounts, NEW p \in TokenPrices,
         NEW exp \in TokenExpirations, NEW start \in TokenStarts,
         ListToken(x, tc, a, p, t, exp, start),
         Log(TokenListed(nextTokenListingId, x, tc, a, t, p, exp)), UNCHANGED calls
  PROVE  /\ BooksTypeOK' /\ CoinsOK'
         /\ books'.swaps = books.swaps /\ books'.spots = books.spots
<1>0. PICK n : n = nextTokenListingId
  OBVIOUS
<1> DEFINE l == [s |-> x, tc |-> tc, a |-> a, p |-> p, pt |-> t, act |-> TRUE,
                 exp |-> exp, sb |-> start, fb |-> cfg.feeBps]
           e == [known |-> TRUE, seller |-> x, tokenContract |-> tc, pricePerUnit |-> p,
                 paymentToken |-> t, expirationBlock |-> exp, amount |-> a, open |-> TRUE]
<1>1. TokenSaleTypeOK
  BY DEF CoreOK, TokensTyped
<1>2. /\ a > 0 /\ nextTokenListingId < MaxTokenListings
      /\ tokenListings' = [tokenListings EXCEPT ![n] = l]
      /\ nextTokenListingId' = n + 1
      /\ offered' = [offered EXCEPT ![n] = a] /\ sent' = sent
  BY <1>0 DEF ListToken
<1>3. n \in TokenListingIds /\ n \in Nat /\ a \in Nat /\ p \in Nat /\ exp \in Nat
  BY <1>0, <1>1, <1>2, TokenSaleAssumption DEF TokenSaleTypeOK, TokenListingIds
<1>4. BooksTypeOK' /\ TokensRewritten(n, e)
  BY <1>0, <1>3, TellTokenListed
<1>5. /\ l.a = a /\ l.act = TRUE /\ e.known = TRUE /\ e.seller = l.s
      /\ e.tokenContract = l.tc /\ e.pricePerUnit = l.p /\ e.paymentToken = l.pt
      /\ e.expirationBlock = l.exp /\ e.amount = a /\ e.open = TRUE
  BY Zenon
<1> HIDE DEF l, e
<1>6. CoinsAgree(l, e, a, 0, 0, 0, TRUE)
  BY <1>2, <1>3, <1>5, CoinsNew
<1>7. CoinsAt(n)'
  <2>1. Units("token", n) = 0 /\ Pending("token", n) = 0
    BY <1>0, <1>3, NoTokenUnits
  <2>2. Units("token", n)' = 0 /\ Pending("token", n)' = 0
    BY <2>1, UnitsStay
  <2>3. CoinsAt(n)
    BY <1>3 DEF CoinsOK
  <2>4. ~(n < nextTokenListingId)
    BY <1>0, <1>3
  <2>5. sent[n] = 0
    BY <2>3, <2>4 DEF CoinsAt, CoinsAgree
  <2>6. /\ tokenListings'[n] = l /\ offered'[n] = a /\ sent'[n] = 0
        /\ books'.tokens[n] = e
    BY <1>1, <1>2, <1>3, <1>4, <2>5 DEF TokenSaleTypeOK, TokensRewritten
  <2>7. (n < nextTokenListingId') = TRUE
    BY <1>2, <1>3
  <2>8. CoinsAt(n)' <=> CoinsAgree(tokenListings'[n], books'.tokens[n], offered'[n],
                          sent'[n], Units("token", n)', Pending("token", n)',
                          n < nextTokenListingId')
    BY DEF CoinsAt, TokenListing
  <2> QED
    BY <1>6, <2>2, <2>6, <2>7, <2>8
<1>8. ASSUME NEW id \in TokenListingIds, id # n
      PROVE  CoinsAt(id)'
  <2>1. CoinsAt(id)
    BY DEF CoinsOK
  <2>2. /\ tokenListings'[id] = tokenListings[id] /\ offered'[id] = offered[id]
        /\ sent'[id] = sent[id] /\ books'.tokens[id] = books.tokens[id]
    BY <1>1, <1>2, <1>4, <1>8 DEF TokenSaleTypeOK, TokensRewritten
  <2>3. id \in Nat
    BY TokenSaleAssumption DEF TokenListingIds
  <2>4. (id < nextTokenListingId') <=> (id < nextTokenListingId)
    BY <1>0, <1>2, <1>3, <1>8, <2>3
  <2>5. /\ Units("token", id)' = Units("token", id)
        /\ Pending("token", id)' = Pending("token", id)
    BY UnitsStay
  <2> QED
    BY <2>1, <2>2, <2>4, <2>5, CoinsAtStay
<1>9. CoinsOK'
  BY <1>7, <1>8 DEF CoinsOK
<1>10. books'.swaps = books.swaps /\ books'.spots = books.spots
  BY <1>4 DEF TokensRewritten
<1> QED
  BY <1>4, <1>9, <1>10

(* What a purchase of n coins changes, as it starts. *)
LEMMA CoinsTake ==
  ASSUME NEW l \in TokenListingRecord, NEW k \in TokenListingRecord, NEW e, NEW off,
         NEW snt \in Nat, NEW u \in Nat, NEW p \in Nat, NEW n \in Nat,
         CoinsAgree(l, e, off, snt, u, p, TRUE), n > 0, n <= l.a,
         k.s = l.s, k.tc = l.tc, k.p = l.p, k.pt = l.pt, k.exp = l.exp,
         k.a = l.a - n, k.act <=> l.act /\ l.a # n
  PROVE  CoinsAgree(k, e, off, snt, u + n, p + n, TRUE)
<1>1. l.a \in Nat /\ k.a \in Nat
  BY DEF TokenListingRecord
<1>2. /\ l.a + snt + p = off
      /\ l.a = 0 => ~l.act
      /\ e.known <=> TRUE
      /\ e.seller = l.s /\ e.tokenContract = l.tc /\ e.pricePerUnit = l.p
      /\ e.paymentToken = l.pt /\ e.expirationBlock = l.exp
      /\ e.amount = l.a + u /\ (l.act <=> e.open /\ l.a # 0)
  BY DEF CoinsAgree
<1>3. k.a + snt + (p + n) = off /\ e.amount = k.a + (u + n)
  BY <1>1, <1>2
<1>4. k.a = 0 <=> l.a = n
  BY <1>1
<1>5. l.a # 0
  BY <1>1
<1>6. (k.a = 0 => ~k.act) /\ (k.act <=> e.open /\ k.a # 0)
  BY <1>2, <1>4, <1>5
<1> QED
  BY <1>2, <1>3, <1>6 DEF CoinsAgree

(* A purchase that starts takes its coins off the listing. *)
LEMMA BuyTokenCoins ==
  ASSUME CoreOK, BooksTypeOK, CoinsOK, OpenTokensOK, NEW x \in Accounts,
         NEW id \in TokenListingIds, NEW n \in TokenAmounts, BuyToken(x, id, n), Silent
  PROVE  /\ CoinsOK'
         /\ \A op, j : op # "token" =>
              Units(op, j)' = Units(op, j) /\ Pending(op, j)' = Pending(op, j)
<1> DEFINE l == TokenListing(id)
           g == [op |-> "token", id |-> id, by |-> x, payer |-> x, n |-> n,
                 pt |-> l.pt, ask |-> l.p * n, asset |-> l.tc, back |-> l.tc,
                 fb |-> l.fb, rs |-> <<>>, before |-> pool[l.pt], got |-> 0,
                 todo |-> <<"pay", "deliver", "payout">>]
           k == [l EXCEPT !.a = l.a - n, !.act = l.act /\ l.a # n]
<1>1. TokenSaleTypeOK /\ calls \in Seq(Frame) /\ pool \in [Tokens -> Nat]
  BY DEF CoreOK, TokensTyped, CallsTyped, GoodsTyped
<1>2. /\ l.act /\ n > 0 /\ n <= l.a /\ tokenListings' = TokensTaken(id, n) /\ Enter(g)
      /\ UNCHANGED <<nextTokenListingId, offered, sent>>
  BY DEF BuyToken
<1>3. /\ id \in Nat /\ n \in Nat /\ l \in TokenListingRecord /\ id < nextTokenListingId
      /\ nextTokenListingId \in Nat
  BY <1>1, <1>2, TokenSaleAssumption
     DEF TokenSaleTypeOK, TokenListing, TokenListingIds, OpenTokensOK
<1>4. tokenListings' = [tokenListings EXCEPT ![id] = k]
  BY <1>2, Zenon DEF TokensTaken, TokenListing
<1>5. g \in Frame
  <2>1. /\ l.pt \in Tokens /\ l.tc \in Tokens /\ l.fb \in Nat /\ l.p \in Nat
    BY <1>3 DEF TokenListingRecord
  <2>2. l.p * n \in Nat
    <3> DEFINE q == l.p
    <3>1. q \in Nat
      BY <2>1
    <3> HIDE DEF q
    <3>2. q * n \in Nat
      BY <1>3, <3>1
    <3> QED
      BY <3>2 DEF q
  <2>3. pool[l.pt] \in Nat
    BY <1>1, <2>1
  <2>4. <<>> \in Seq(Split) /\ <<"pay", "deliver", "payout">> \in Seq(Stages)
    BY DEF Stages
  <2>5. l.tc \in Contracts
    BY <2>1 DEF Contracts
  <2> DEFINE ask == l.p * n
             before == pool[l.pt]
             todo == <<"pay", "deliver", "payout">>
  <2>6. ask \in Nat /\ before \in Nat /\ todo \in Seq(Stages)
    BY <2>2, <2>3, <2>4
  <2> HIDE DEF ask, before, todo, l
  <2>7. [op |-> "token", id |-> id, by |-> x, payer |-> x, n |-> n,
         pt |-> l.pt, ask |-> ask, asset |-> l.tc, back |-> l.tc,
         fb |-> l.fb, rs |-> <<>>, before |-> before, got |-> 0, todo |-> todo] \in Frame
    BY <1>3, <2>1, <2>4, <2>5, <2>6 DEF Frame
  <2> QED
    BY <2>7 DEF ask, before, todo
<1>6. /\ g.op = "token" /\ g.id = id /\ g.n = n
      /\ g.todo = <<"pay", "deliver", "payout">>
  BY Zenon
<1> HIDE DEF g
<1>7. /\ g.todo \in SwapTodos \cup SaleTodos /\ Len(g.todo) # 1
      /\ "deliver" \in ToSet(g.todo)
  <2>1. g.todo \in SaleTodos
    BY <1>6 DEF SaleTodos
  <2>2. Head(g.todo) = "pay"
    BY <1>6
  <2> QED
    BY <2>1, <2>2, SaleStages
<1>8. \A op, j : /\ Units(op, j)' = Units(op, j) + UnitsIn(g, op, j)
                 /\ Pending(op, j)' = Pending(op, j) + UnitsIn(g, op, j)
  BY <1>1, <1>2, <1>5, <1>7, UnitsEnter
<1>9. \A op, j : op # "token" \/ j # id => UnitsIn(g, op, j) = 0
  BY <1>6 DEF UnitsIn
<1>10. \A op, j : Units(op, j) \in Nat /\ Pending(op, j) \in Nat
  BY <1>1, UnitsType
<1>11. \A op, j : op # "token" \/ j # id =>
         Units(op, j)' = Units(op, j) /\ Pending(op, j)' = Pending(op, j)
  BY <1>8, <1>9, <1>10
<1>12. books'.tokens = books.tokens
  BY DEF Silent
<1>13. CoinsAt(id)'
  <2>1. UnitsIn(g, "token", id) = n
    BY <1>6 DEF UnitsIn
  <2>2. /\ Units("token", id)' = Units("token", id) + n
        /\ Pending("token", id)' = Pending("token", id) + n
    BY <1>8, <2>1
  <2>3. /\ k \in TokenListingRecord /\ k.s = l.s /\ k.tc = l.tc /\ k.p = l.p
        /\ k.pt = l.pt /\ k.exp = l.exp /\ k.a = l.a - n
        /\ k.act <=> l.act /\ l.a # n
    <3> DEFINE b == l.a - n
               c == l.act /\ l.a # n
    <3>1. b \in Nat /\ c \in BOOLEAN /\ l \in TokenListingRecord
      BY <1>2, <1>3 DEF TokenListingRecord
    <3>2. k = [l EXCEPT !.a = b, !.act = c]
      BY Zenon
    <3> HIDE DEF b, c, k, l
    <3>3. /\ k \in TokenListingRecord /\ k.s = l.s /\ k.tc = l.tc /\ k.p = l.p
          /\ k.pt = l.pt /\ k.exp = l.exp /\ k.a = b /\ k.act = c
      BY <3>1, <3>2 DEF TokenListingRecord
    <3> QED
      BY <3>3 DEF b, c
  <2>4. CoinsAgree(l, books.tokens[id], offered[id], sent[id],
                   Units("token", id), Pending("token", id), TRUE)
    BY <1>3 DEF CoinsOK, CoinsAt
  <2>5. sent[id] \in Nat
    BY <1>1 DEF TokenSaleTypeOK
  <2>6. tokenListings'[id] = k /\ offered'[id] = offered[id] /\ sent'[id] = sent[id]
    BY <1>1, <1>2, <1>4 DEF TokenSaleTypeOK
  <2>7. (id < nextTokenListingId') = TRUE
    BY <1>2, <1>3
  <2>8. CoinsAt(id)' <=> CoinsAgree(tokenListings'[id], books'.tokens[id], offered'[id],
                           sent'[id], Units("token", id)', Pending("token", id)',
                           id < nextTokenListingId')
    BY DEF CoinsAt, TokenListing
  <2> HIDE DEF k, l
  <2>9. CoinsAgree(k, books.tokens[id], offered[id], sent[id],
                   Units("token", id) + n, Pending("token", id) + n, TRUE)
    BY <1>2, <1>3, <1>10, <2>3, <2>4, <2>5, CoinsTake
  <2> QED
    BY <1>12, <2>2, <2>6, <2>7, <2>8, <2>9
<1>14. ASSUME NEW j \in TokenListingIds, j # id
       PROVE  CoinsAt(j)'
  <2>1. CoinsAt(j)
    BY DEF CoinsOK
  <2>2. /\ tokenListings'[j] = tokenListings[j] /\ offered'[j] = offered[j]
        /\ sent'[j] = sent[j] /\ books'.tokens[j] = books.tokens[j]
        /\ (j < nextTokenListingId') <=> (j < nextTokenListingId)
    BY <1>1, <1>2, <1>4, <1>12, <1>14 DEF TokenSaleTypeOK
  <2>3. /\ Units("token", j)' = Units("token", j)
        /\ Pending("token", j)' = Pending("token", j)
    BY <1>11, <1>14
  <2> QED
    BY <2>1, <2>2, <2>3, CoinsAtStay
<1>15. CoinsOK'
  BY <1>13, <1>14 DEF CoinsOK
<1> QED
  BY <1>11, <1>15

(* A call of the innermost purchase that comes back changes its own units  *)
(* only.                                                                   *)
LEMMA TopReturns ==
  ASSUME CoreOK, ~Idle, NEW g \in Frame, Returned(g), g.op = Top.op, g.id = Top.id,
         g.n = Top.n, g.todo = Top.todo, NEW op, NEW id
  PROVE  /\ op # Top.op \/ id # Top.id =>
              Units(op, id)' = Units(op, id) /\ Pending(op, id)' = Pending(op, id)
         /\ op = Top.op /\ id = Top.id =>
              /\ Units(op, id)' = Units(op, id) - (IF Len(Top.todo) = 1 THEN Top.n ELSE 0)
              /\ Pending(op, id)' = Pending(op, id)
                   - (IF Head(Top.todo) = "deliver" THEN Top.n ELSE 0)
<1>1. calls \in Seq(Frame) /\ Len(calls) <= MaxDepth /\ SwapTypeOK
  BY DEF CoreOK, CallsTyped, SwapsTyped
<1>2. Top \in Frame /\ FitsNow(Top) /\ Top.todo # <<>>
  BY TopFits
<1>3. Top.op \in {"swap", "spot", "token"}
  BY <1>2 DEF Frame
<1>4. Top.todo \in SwapTodos \cup SaleTodos
  BY <1>1, <1>2, <1>3, FitsHasTodo
<1>5. /\ Units(op, id)'
           = Units(op, id) - (IF Len(Top.todo) = 1 THEN UnitsIn(Top, op, id) ELSE 0)
      /\ Pending(op, id)'
           = Pending(op, id)
               - (IF Head(Top.todo) = "deliver" THEN UnitsIn(Top, op, id) ELSE 0)
  BY <1>1, <1>2, <1>4, UnitsReturn
<1>6. Units(op, id) \in Nat /\ Pending(op, id) \in Nat
  BY <1>1, UnitsType
<1>7. UnitsIn(Top, op, id) = IF op = Top.op /\ id = Top.id THEN Top.n ELSE 0
  BY DEF UnitsIn
<1> QED
  BY <1>5, <1>6, <1>7

(* Coins handed over are sent and not pending any more. *)
LEMMA HandCoinsCoins ==
  ASSUME CoreOK, BooksTypeOK, CoinsOK, NEW arriving, HandCoins(arriving), LogIfLast
  PROVE  /\ CoinsOK' /\ UNCHANGED books
         /\ \A op, j : op # "token" =>
              Units(op, j)' = Units(op, j) /\ Pending(op, j)' = Pending(op, j)
<1>1. /\ ~Idle /\ Top.op = "token" /\ Head(Top.todo) = "deliver" /\ Returned(Top)
      /\ sent' = [sent EXCEPT ![Top.id] = @ + Top.n]
      /\ UNCHANGED <<tokenListings, nextTokenListingId, offered>>
  BY DEF HandCoins, InProgress
<1>2. /\ Top.id \in TokenListingIds /\ Top.id < nextTokenListingId
      /\ Top.todo \in SaleTodos /\ Top.n \in Nat \ {0}
  BY <1>1, TopToken
<1>3. Top \in Frame /\ TokenSaleTypeOK
  BY <1>1, TopFits DEF CoreOK, TokensTyped
<1>4. Len(Top.todo) # 1
  BY <1>1, <1>2, SaleStages
<1>5. UNCHANGED books
  BY <1>4 DEF LogIfLast, Silent
<1>6. \A op, j : op # "token" \/ j # Top.id =>
        Units(op, j)' = Units(op, j) /\ Pending(op, j)' = Pending(op, j)
  BY <1>1, <1>3, TopReturns
<1>7. PICK id : id = Top.id
  OBVIOUS
<1>8. PICK n : n = Top.n
  OBVIOUS
<1>9. id \in TokenListingIds /\ id < nextTokenListingId /\ n \in Nat
  BY <1>2, <1>7, <1>8
<1>10. /\ Units("token", id)' = Units("token", id) - 0
       /\ Pending("token", id)' = Pending("token", id) - n
  BY <1>1, <1>3, <1>4, <1>7, <1>8, TopReturns
<1>11. calls \in Seq(Frame)
  BY DEF CoreOK, CallsTyped
<1>12. Units("token", id) \in Nat /\ Pending("token", id) \in Nat
  BY <1>11, UnitsType
<1>13. sent' = [sent EXCEPT ![id] = sent[id] + n]
  BY <1>1, <1>7, <1>8
<1>14. CoinsAt(id)'
  <2>1. CoinsAgree(tokenListings[id], books.tokens[id], offered[id], sent[id],
                   Units("token", id), Pending("token", id), id < nextTokenListingId)
    BY <1>9 DEF CoinsOK, CoinsAt, TokenListing
  <2>2. sent[id] \in Nat /\ sent'[id] = sent[id] + n
    BY <1>3, <1>9, <1>13 DEF TokenSaleTypeOK
  <2>3. Units("token", id)' = Units("token", id)
    BY <1>10, <1>12
  <2>4. tokenListings[id].a \in Nat
    BY <1>3, <1>9 DEF TokenSaleTypeOK, TokenListingRecord
  <2>5. tokenListings[id].a + (sent[id] + n) + (Pending("token", id) - n) = offered[id]
    BY <1>9, <1>12, <2>1, <2>2, <2>4 DEF CoinsAgree
  <2>6. CoinsAgree(tokenListings[id], books.tokens[id], offered[id], sent[id] + n,
                   Units("token", id), Pending("token", id) - n,
                   id < nextTokenListingId)
    BY <1>9, <2>1, <2>5 DEF CoinsAgree
  <2>7. CoinsAt(id)' <=> CoinsAgree(tokenListings'[id], books'.tokens[id], offered'[id],
                           sent'[id], Units("token", id)', Pending("token", id)',
                           id < nextTokenListingId')
    BY DEF CoinsAt, TokenListing
  <2> QED
    BY <1>1, <1>5, <1>10, <2>2, <2>3, <2>6, <2>7
<1>15. ASSUME NEW j \in TokenListingIds, j # id
       PROVE  CoinsAt(j)'
  <2>1. CoinsAt(j)
    BY DEF CoinsOK
  <2>2. /\ tokenListings'[j] = tokenListings[j] /\ offered'[j] = offered[j]
        /\ sent'[j] = sent[j] /\ books'.tokens[j] = books.tokens[j]
        /\ (j < nextTokenListingId') <=> (j < nextTokenListingId)
    BY <1>1, <1>3, <1>5, <1>13, <1>15 DEF TokenSaleTypeOK
  <2>3. /\ Units("token", j)' = Units("token", j)
        /\ Pending("token", j)' = Pending("token", j)
    BY <1>6, <1>7, <1>15
  <2> QED
    BY <2>1, <2>2, <2>3, CoinsAtStay
<1>16. CoinsOK'
  BY <1>14, <1>15 DEF CoinsOK
<1> QED
  BY <1>5, <1>6, <1>16

(* A listing taken off is closed in the record and in the books. *)
LEMMA DelistTokenCoins ==
  ASSUME CoreOK, BooksTypeOK, CoinsOK, OpenTokensOK, NEW x \in Accounts,
         NEW id \in TokenListingIds, DelistToken(x, id), Log(TokenDelisted(id, x))
  PROVE  /\ BooksTypeOK' /\ CoinsOK'
         /\ books'.swaps = books.swaps /\ books'.spots = books.spots
<1> DEFINE l == TokenListing(id)
           k == [l EXCEPT !.act = FALSE]
           e == books.tokens[id]
           d == [e EXCEPT !.open = FALSE]
<1>1. TokenSaleTypeOK
  BY DEF CoreOK, TokensTyped
<1>2. /\ l.act /\ tokenListings' = [tokenListings EXCEPT ![id].act = FALSE]
      /\ UNCHANGED <<calls, nextTokenListingId, offered, sent>>
  BY DEF DelistToken
<1>3. l \in TokenListingRecord /\ id < nextTokenListingId
  BY <1>1, <1>2 DEF TokenSaleTypeOK, TokenListing, OpenTokensOK
<1>4. tokenListings' = [tokenListings EXCEPT ![id] = k]
  BY <1>2, Zenon DEF TokenListing
<1>5. CoinsAgree(l, e, offered[id], sent[id], Units("token", id),
                 Pending("token", id), TRUE)
  BY <1>3 DEF CoinsOK, CoinsAt
<1>6. e.known
  BY <1>5 DEF CoinsAgree
<1>7. BooksTypeOK' /\ TokensRewritten(id, d)
  BY <1>6, TellTokenDelisted
<1>8. e \in TokenEntry
  BY <1>6, NoEntryUnknown DEF BooksTypeOK, TokenBook
<1>9. /\ k.s = l.s /\ k.tc = l.tc /\ k.p = l.p /\ k.pt = l.pt /\ k.exp = l.exp
      /\ k.a = l.a /\ k.act = FALSE
  BY <1>3 DEF TokenListingRecord
<1>10. /\ d.known = e.known /\ d.seller = e.seller /\ d.tokenContract = e.tokenContract
       /\ d.pricePerUnit = e.pricePerUnit /\ d.paymentToken = e.paymentToken
       /\ d.expirationBlock = e.expirationBlock /\ d.amount = e.amount /\ d.open = FALSE
  BY <1>8 DEF TokenEntry
<1>11. tokenListings'[id] = k
  BY <1>1, <1>4 DEF TokenSaleTypeOK
<1> HIDE DEF l, k, e, d
<1>12. CoinsAgree(k, d, offered[id], sent[id], Units("token", id),
                  Pending("token", id), TRUE)
  BY <1>5, <1>9, <1>10 DEF CoinsAgree
<1>13. \A op, j : Units(op, j)' = Units(op, j) /\ Pending(op, j)' = Pending(op, j)
  BY <1>2, UnitsStay
<1>14. CoinsAt(id)'
  <2>1. CoinsAt(id)' <=> CoinsAgree(tokenListings'[id], books'.tokens[id], offered'[id],
                           sent'[id], Units("token", id)', Pending("token", id)',
                           id < nextTokenListingId')
    BY DEF CoinsAt, TokenListing
  <2>2. (id < nextTokenListingId') = TRUE
    BY <1>2, <1>3
  <2>3. books'.tokens[id] = d
    BY <1>7 DEF TokensRewritten
  <2> QED
    BY <1>2, <1>11, <1>12, <1>13, <2>1, <2>2, <2>3
<1>15. ASSUME NEW j \in TokenListingIds, j # id
       PROVE  CoinsAt(j)'
  <2>1. CoinsAt(j)
    BY DEF CoinsOK
  <2>2. /\ tokenListings'[j] = tokenListings[j] /\ offered'[j] = offered[j]
        /\ sent'[j] = sent[j] /\ books'.tokens[j] = books.tokens[j]
        /\ (j < nextTokenListingId') <=> (j < nextTokenListingId)
    BY <1>1, <1>2, <1>4, <1>7, <1>15 DEF TokenSaleTypeOK, TokensRewritten
  <2> QED
    BY <1>13, <2>1, <2>2, CoinsAtStay
<1>16. CoinsOK'
  BY <1>14, <1>15 DEF CoinsOK
<1>17. books'.swaps = books.swaps /\ books'.spots = books.spots
  BY <1>7 DEF TokensRewritten
<1> QED
  BY <1>7, <1>16, <1>17

(* A purchase that is complete is logged with its units. *)
LEMMA PayOutCoins ==
  ASSUME CoreOK, BooksTypeOK, CoinsOK, Top.op = "token", PayOut, LogIfLast,
         UNCHANGED tokenVars
  PROVE  /\ BooksTypeOK' /\ CoinsOK'
         /\ books'.swaps = books.swaps /\ books'.spots = books.spots
         /\ \A op, j : op # "token" =>
              Units(op, j)' = Units(op, j) /\ Pending(op, j)' = Pending(op, j)
<1>1. ~Idle /\ Head(Top.todo) = "payout" /\ Returned(Top)
  BY DEF PayOut
<1>2. /\ Top.id \in TokenListingIds /\ Top.id < nextTokenListingId
      /\ Top.todo \in SaleTodos /\ Top.n \in Nat \ {0}
  BY <1>1, TopToken
<1>3. Top \in Frame /\ TokenSaleTypeOK
  BY <1>1, TopFits DEF CoreOK, TokensTyped
<1>4. Len(Top.todo) = 1
  BY <1>1, <1>2, SaleStages
<1>5. \A op, j : op # "token" \/ j # Top.id =>
        Units(op, j)' = Units(op, j) /\ Pending(op, j)' = Pending(op, j)
  BY <1>1, <1>3, TopReturns
<1>6. PICK id : id = Top.id
  OBVIOUS
<1>7. PICK n : n = Top.n
  OBVIOUS
<1>8. id \in TokenListingIds /\ id < nextTokenListingId /\ n \in Nat
  BY <1>2, <1>6, <1>7
<1>9. /\ Units("token", id)' = Units("token", id) - n
      /\ Pending("token", id)' = Pending("token", id) - 0
  BY <1>1, <1>3, <1>4, <1>6, <1>7, TopReturns
<1>10. Units("token", id) \in Nat /\ Pending("token", id) \in Nat
  <2>1. calls \in Seq(Frame)
    BY DEF CoreOK, CallsTyped
  <2> QED
    BY <2>1, UnitsType
<1> DEFINE l == tokenListings[id]
           e == books.tokens[id]
           d == [e EXCEPT !.amount = @ - n]
<1>11. CoinsAgree(l, e, offered[id], sent[id], Units("token", id),
                  Pending("token", id), TRUE)
  BY <1>8 DEF CoinsOK, CoinsAt, TokenListing
<1>12. e.known
  BY <1>11 DEF CoinsAgree
<1>13. BooksTypeOK' /\ TokensRewritten(id, d)
  <2>1. LogSale(Top)
    BY <1>4 DEF LogIfLast
  <2>2. Log(TokenBought(Top.id, Top.by, Top.n, Top.got, FeeOf(Top.got, Top.fb)))
    BY <2>1 DEF LogSale
  <2>3. \E y, p, f : Log(TokenBought(id, y, n, p, f))
    BY <1>6, <1>7, <2>2
  <2> QED
    BY <1>8, <1>12, <2>3, TellTokenBought
<1>14. /\ d.known = e.known /\ d.seller = e.seller /\ d.tokenContract = e.tokenContract
       /\ d.pricePerUnit = e.pricePerUnit /\ d.paymentToken = e.paymentToken
       /\ d.expirationBlock = e.expirationBlock /\ d.amount = e.amount - n
       /\ d.open = e.open
  <2>1. e \in TokenEntry
    BY <1>8, <1>12, NoEntryUnknown DEF BooksTypeOK, TokenBook
  <2> HIDE DEF e
  <2> QED
    BY <2>1 DEF TokenEntry
<1>15. l.a \in Nat
  BY <1>3, <1>8 DEF TokenSaleTypeOK, TokenListingRecord
<1> HIDE DEF l, e, d
<1>16. CoinsAgree(l, d, offered[id], sent[id], Units("token", id) - n,
                  Pending("token", id), TRUE)
  <2> DEFINE u == Units("token", id)
  <2>1. d.amount = l.a + (u - n)
    <3>1. e.amount = l.a + u
      BY <1>11 DEF CoinsAgree
    <3>2. u \in Nat /\ d.amount = e.amount - n
      BY <1>10, <1>14
    <3> HIDE DEF u
    <3> QED
      BY <1>8, <1>15, <3>1, <3>2
  <2> QED
    BY <1>11, <1>14, <2>1 DEF CoinsAgree
<1>17. CoinsAt(id)'
  <2>1. CoinsAt(id)' <=> CoinsAgree(tokenListings'[id], books'.tokens[id], offered'[id],
                           sent'[id], Units("token", id)', Pending("token", id)',
                           id < nextTokenListingId')
    BY DEF CoinsAt, TokenListing
  <2>2. (id < nextTokenListingId') = TRUE
    BY <1>8 DEF tokenVars
  <2>3. books'.tokens[id] = d
    BY <1>13 DEF TokensRewritten
  <2>4. Pending("token", id)' = Pending("token", id)
    BY <1>9, <1>10
  <2>5. tokenListings'[id] = l /\ offered'[id] = offered[id] /\ sent'[id] = sent[id]
    BY DEF tokenVars, l
  <2> QED
    BY <1>9, <1>16, <2>1, <2>2, <2>3, <2>4, <2>5
<1>18. ASSUME NEW j \in TokenListingIds, j # id
       PROVE  CoinsAt(j)'
  <2>1. CoinsAt(j)
    BY DEF CoinsOK
  <2>2. /\ tokenListings'[j] = tokenListings[j] /\ offered'[j] = offered[j]
        /\ sent'[j] = sent[j] /\ books'.tokens[j] = books.tokens[j]
        /\ (j < nextTokenListingId') <=> (j < nextTokenListingId)
    BY <1>13, <1>18 DEF tokenVars, TokensRewritten
  <2>3. /\ Units("token", j)' = Units("token", j)
        /\ Pending("token", j)' = Pending("token", j)
    BY <1>5, <1>6, <1>18
  <2> QED
    BY <2>1, <2>2, <2>3, CoinsAtStay
<1>19. CoinsOK'
  BY <1>17, <1>18 DEF CoinsOK
<1>20. books'.swaps = books.swaps /\ books'.spots = books.spots
  BY <1>13 DEF TokensRewritten
<1> QED
  BY <1>5, <1>13, <1>19, <1>20

-----------------------------------------------------------------------------
(* Mint spots: what is minted.                                             *)

(* The sum of a function that is zero but for finitely many arguments      *)
(* follows a change at one of them.                                        *)
LEMMA SupportUpdate ==
  ASSUME NEW S, NEW f \in [S -> Nat], NEW g \in [S -> Nat], NEW T \in SUBSET S,
         IsFiniteSet(T), \A x \in S \ T : f[x] = 0,
         NEW y \in S, \A x \in S \ {y} : g[x] = f[x]
  PROVE  /\ Total(f) \in Nat /\ Total(g) \in Nat
         /\ Total(g) = Total(f) - f[y] + g[y]
<1> DEFINE R == T \cup {y}
           a == [x \in R |-> f[x]]
           b == [x \in R |-> g[x]]
<1>1. IsFiniteSet(R) /\ R \in SUBSET S /\ y \in R
  <2>1. IsFiniteSet(R)
    BY FS_AddElement
  <2> QED
    BY <2>1
<1>2. (\A x \in S \ R : f[x] = 0) /\ (\A x \in S \ R : g[x] = 0)
  OBVIOUS
<1>3. a \in [R -> Nat] /\ b \in [R -> Nat]
  BY <1>1
<1>4. a[y] = f[y] /\ b[y] = g[y] /\ \A x \in R \ {y} : b[x] = a[x]
  BY <1>1
<1>5. Total(f) = Total(a) /\ Total(g) = Total(b)
  BY <1>1, <1>2, TotalSupport
<1> HIDE DEF R, a, b
<1>6. Total(a) \in Nat /\ Total(b) \in Nat
  BY <1>1, <1>3, TotalType
<1>7. Total(b) = Total(a) - a[y] + b[y]
  BY <1>1, <1>3, <1>4, TotalUpdate
<1> QED
  BY <1>4, <1>5, <1>6, <1>7

(* Only finitely many accounts have spots of a listing. *)
FewMinted(id) ==
  \E T \in SUBSET Accounts :
    IsFiniteSet(T) /\ \A x \in Accounts \ T : minted[<<id, x>>] = 0

(* The spots of a listing minted are a number. *)
LEMMA MintedType ==
  ASSUME SpotTypeOK, NEW id \in SpotIds, FewMinted(id)
  PROVE  MintedBy(id) \in Nat
<1> DEFINE f == [x \in Accounts |-> minted[<<id, x>>]]
<1>1. PICK T \in SUBSET Accounts :
        IsFiniteSet(T) /\ \A x \in Accounts \ T : minted[<<id, x>>] = 0
  BY DEF FewMinted
<1>2. f \in [Accounts -> Nat]
  BY DEF SpotTypeOK
<1>3. \A x \in Accounts \ T : f[x] = 0
  BY <1>1
<1>4. Total(f) = Total([x \in T |-> f[x]])
  BY <1>2, <1>3, TotalSupport
<1>5. [x \in T |-> f[x]] \in [T -> Nat]
  BY <1>2
<1>6. Total([x \in T |-> f[x]]) \in Nat
  <2> HIDE DEF f
  <2> QED
    BY <1>1, <1>5, TotalType
<1> QED
  BY <1>4, <1>6 DEF MintedBy

(* A mint adds to what is minted of its listing, and to that only. *)
LEMMA MintedGrows ==
  ASSUME SpotTypeOK, NEW id \in SpotIds, NEW y \in Accounts, NEW n \in Nat,
         minted' = [minted EXCEPT ![<<id, y>>] = @ + n], FewMinted(id)
  PROVE  /\ MintedBy(id) \in Nat /\ MintedBy(id)' = MintedBy(id) + n /\ FewMinted(id)'
         /\ \A j \in SpotIds \ {id} :
              MintedBy(j)' = MintedBy(j) /\ (FewMinted(j) => FewMinted(j)')
<1> DEFINE f == [x \in Accounts |-> minted[<<id, x>>]]
           g == [x \in Accounts |-> minted'[<<id, x>>]]
<1>1. /\ minted \in [SpotIds \X Accounts -> Nat]
      /\ <<id, y>> \in SpotIds \X Accounts
  BY DEF SpotTypeOK
<1>2. minted[<<id, y>>] \in Nat
  BY <1>1
<1>3. /\ minted'[<<id, y>>] = minted[<<id, y>>] + n
      /\ \A p \in SpotIds \X Accounts : p # <<id, y>> => minted'[p] = minted[p]
  BY <1>1
<1>4. minted' \in [SpotIds \X Accounts -> Nat]
  <2>1. minted[<<id, y>>] + n \in Nat
    BY <1>2
  <2> QED
    BY <1>1, <2>1
<1>5. \A x \in Accounts \ {y} : minted'[<<id, x>>] = minted[<<id, x>>]
  BY <1>3
<1>6. \A j \in SpotIds \ {id}, x \in Accounts : minted'[<<j, x>>] = minted[<<j, x>>]
  BY <1>3
<1>7. PICK T \in SUBSET Accounts :
        IsFiniteSet(T) /\ \A x \in Accounts \ T : minted[<<id, x>>] = 0
  BY DEF FewMinted
<1>8. FewMinted(id)'
  <2>1. IsFiniteSet(T \cup {y}) /\ T \cup {y} \in SUBSET Accounts
    BY <1>7, FS_AddElement
  <2>2. \A x \in Accounts \ (T \cup {y}) : minted'[<<id, x>>] = 0
    BY <1>5, <1>7
  <2> QED
    BY <2>1, <2>2 DEF FewMinted
<1>9. f \in [Accounts -> Nat] /\ g \in [Accounts -> Nat]
  BY <1>1, <1>4
<1>10. /\ f[y] = minted[<<id, y>>] /\ g[y] = minted[<<id, y>>] + n
       /\ \A x \in Accounts \ T : f[x] = 0
       /\ \A x \in Accounts \ {y} : g[x] = f[x]
  BY <1>3, <1>5, <1>7
<1> HIDE DEF f, g
<1>11. Total(f) \in Nat /\ Total(g) = Total(f) - f[y] + g[y]
  BY <1>7, <1>9, <1>10, SupportUpdate
<1>12. Total(g) = Total(f) + n
  BY <1>2, <1>10, <1>11
<1>13. MintedBy(id) = Total(f) /\ MintedBy(id)' = Total(g)
  BY DEF MintedBy, f, g
<1>14. ASSUME NEW j \in SpotIds \ {id}
       PROVE  MintedBy(j)' = MintedBy(j) /\ (FewMinted(j) => FewMinted(j)')
  <2>1. [x \in Accounts |-> minted'[<<j, x>>]] = [x \in Accounts |-> minted[<<j, x>>]]
    BY <1>6
  <2>2. MintedBy(j)' = MintedBy(j)
    BY <2>1 DEF MintedBy
  <2>3. FewMinted(j) => FewMinted(j)'
    BY <1>6 DEF FewMinted
  <2> QED
    BY <2>2, <2>3
<1> QED
  BY <1>8, <1>11, <1>12, <1>13, <1>14

(* No spots of a listing minted: they sum up to none. *)
LEMMA MintedNone ==
  ASSUME NEW id, \A x \in Accounts : minted[<<id, x>>] = 0
  PROVE  MintedBy(id) = 0 /\ FewMinted(id)
<1>1. [x \in Accounts |-> minted[<<id, x>>]] = [x \in Accounts |-> 0]
  OBVIOUS
<1>2. MintedBy(id) = 0
  BY <1>1, TotalZero DEF MintedBy
<1>3. FewMinted(id)
  BY FS_EmptySet DEF FewMinted
<1> QED
  BY <1>2, <1>3

(* The spots of an item minted are those of all its listings. *)
EditionsOK == \A i \in Items : MintedOf(i) <= EditionSize[i]

(* When nothing is minted, and only a listing of which nothing is minted   *)
(* is written, every item has as many spots as before.                     *)
LEMMA EditionsStay ==
  ASSUME EditionsOK, UNCHANGED minted, NEW id,
         \A j \in SpotIds \ {id} : spots'[j].item = spots[j].item,
         MintedBy(id) = 0 \/ spots'[id].item = spots[id].item
  PROVE  EditionsOK'
<1> SUFFICES ASSUME NEW i \in Items
             PROVE  (MintedOf(i) <= EditionSize[i])'
  BY DEF EditionsOK
<1>1. \A j : MintedBy(j)' = MintedBy(j)
  BY DEF MintedBy
<1> DEFINE f == [j \in SpotIds |-> IF SpotListing(j).item = i THEN MintedBy(j) ELSE 0]
           g == [j \in SpotIds |-> IF SpotListing(j)'.item = i THEN MintedBy(j)' ELSE 0]
<1>2. ASSUME NEW j \in SpotIds
      PROVE  f[j] = g[j]
  <2>1. CASE j # id
    BY <1>1, <2>1 DEF SpotListing
  <2>2. CASE j = id
    BY <1>1, <2>2 DEF SpotListing
  <2> QED
    BY <2>1, <2>2
<1>3. f = g
  <2>1. DOMAIN f = SpotIds /\ DOMAIN g = SpotIds
    OBVIOUS
  <2>2. f = [j \in SpotIds |-> f[j]] /\ g = [j \in SpotIds |-> g[j]]
    BY Zenon
  <2> HIDE DEF f, g
  <2>3. [j \in SpotIds |-> f[j]] = [j \in SpotIds |-> g[j]]
    BY <1>2
  <2> QED
    BY <2>2, <2>3, Zenon
<1>4. MintedOf(i) = Total(f) /\ MintedOf(i)' = Total(g)
  BY DEF MintedOf
<1>5. MintedOf(i) <= EditionSize[i]
  BY DEF EditionsOK
<1> HIDE DEF f, g
<1> QED
  BY <1>3, <1>4, <1>5

(* A mint that its contract lets through keeps every edition. *)
LEMMA EditionsMint ==
  ASSUME SpotTypeOK, EditionsOK, \A j \in SpotIds : FewMinted(j), UNCHANGED spots,
         NEW id \in SpotIds, NEW y \in Accounts, NEW n \in Nat,
         minted' = [minted EXCEPT ![<<id, y>>] = @ + n],
         MintedOf(SpotListing(id).item) + n <= EditionSize[SpotListing(id).item]
  PROVE  EditionsOK'
<1> SUFFICES ASSUME NEW i \in Items
             PROVE  (MintedOf(i) <= EditionSize[i])'
  BY DEF EditionsOK
<1> DEFINE f == [j \in SpotIds |-> IF spots[j].item = i THEN MintedBy(j) ELSE 0]
           g == [j \in SpotIds |-> IF spots[j].item = i THEN MintedBy(j)' ELSE 0]
<1>1. /\ MintedBy(id)' = MintedBy(id) + n
      /\ \A j \in SpotIds \ {id} : MintedBy(j)' = MintedBy(j)
  BY MintedGrows
<1>2. \A j \in SpotIds : MintedBy(j) \in Nat
  BY MintedType
<1>3. f \in [SpotIds -> Nat] /\ g \in [SpotIds -> Nat]
  <2>1. \A j \in SpotIds : MintedBy(j)' \in Nat
    BY <1>1, <1>2
  <2> QED
    BY <1>2, <2>1
<1>4. \A j \in SpotIds \ {id} : g[j] = f[j]
  BY <1>1
<1>5. /\ f[id] = IF spots[id].item = i THEN MintedBy(id) ELSE 0
      /\ g[id] = IF spots[id].item = i THEN MintedBy(id) + n ELSE 0
  BY <1>1
<1>6. MintedOf(i) = Total(f) /\ MintedOf(i)' = Total(g)
  BY DEF MintedOf, SpotListing
<1>7. IsFiniteSet(SpotIds)
  BY SpotAssumption, FS_Interval DEF SpotIds
<1> HIDE DEF f, g
<1>8. Total(f) \in Nat /\ Total(g) = Total(f) - f[id] + g[id]
  BY <1>3, <1>4, <1>7, TotalType, TotalUpdate
<1>9. MintedBy(id) \in Nat
  BY <1>2
<1>10. CASE spots[id].item = i
  <2>1. Total(g) = Total(f) + n
    BY <1>5, <1>8, <1>9, <1>10
  <2> QED
    BY <1>6, <1>10, <2>1 DEF SpotListing
<1>11. CASE spots[id].item # i
  <2>1. Total(g) = Total(f)
    BY <1>5, <1>8, <1>11
  <2> QED
    BY <1>6, <2>1 DEF EditionsOK
<1> QED
  BY <1>10, <1>11

-----------------------------------------------------------------------------
(* Mint spots: what listings say is sold.                                  *)

(* What the record of a listing, its entry in the books, the units minted  *)
(* or about to be and those not logged yet say of one another.             *)
SpotsAgree(l, e, units, u, known) ==
  /\ l.sold = units % Word
  /\ l.ms # 0 => units <= l.ms /\ (units = l.ms => ~l.act)
  /\ e.known <=> known
  /\ known =>
       /\ e.lister = l.s /\ e.item = l.item /\ e.maxSpots = l.ms
       /\ e.taken + u = units
       /\ l.act <=> e.open /\ ~(l.ms # 0 /\ l.sold = l.ms)

(* Of one listing; nothing is minted of one that is not known. *)
SpotsAt(id) ==
  /\ FewMinted(id)
  /\ id >= nextSpotId => \A x \in Accounts : minted[<<id, x>>] = 0
  /\ SpotsAgree(SpotListing(id), books.spots[id], MintedBy(id) + Pending("spot", id),
                Units("spot", id), id < nextSpotId)

(* Of all, and every item within its edition. *)
SpotsOK == EditionsOK /\ \A id \in SpotIds : SpotsAt(id)

(* A listing of which nothing changes agrees as before. *)
LEMMA SpotsAtStay ==
  ASSUME NEW id \in SpotIds, SpotsAt(id),
         spots'[id] = spots[id], books'.spots[id] = books.spots[id],
         MintedBy(id)' = MintedBy(id), FewMinted(id)',
         \A x \in Accounts : minted'[<<id, x>>] = minted[<<id, x>>],
         (id >= nextSpotId') <=> (id >= nextSpotId),
         (id < nextSpotId') <=> (id < nextSpotId),
         Units("spot", id)' = Units("spot", id),
         Pending("spot", id)' = Pending("spot", id)
  PROVE  SpotsAt(id)'
<1>1. SpotsAgree(SpotListing(id), books.spots[id], MintedBy(id) + Pending("spot", id),
                 Units("spot", id), id < nextSpotId)'
        <=> SpotsAgree(spots'[id], books'.spots[id],
                 MintedBy(id)' + Pending("spot", id)', Units("spot", id)',
                 id < nextSpotId')
  BY DEF SpotListing
<1>2. SpotsAgree(spots[id], books.spots[id], MintedBy(id) + Pending("spot", id),
                 Units("spot", id), id < nextSpotId)
  BY DEF SpotsAt, SpotListing
<1>3. SpotsAgree(spots'[id], books'.spots[id], MintedBy(id)' + Pending("spot", id)',
                 Units("spot", id)', id < nextSpotId')
  BY <1>2 DEF SpotsAgree
<1>4. (id >= nextSpotId => \A x \in Accounts : minted[<<id, x>>] = 0)'
  BY DEF SpotsAt
<1> QED
  BY <1>1, <1>3, <1>4 DEF SpotsAt

(* Steps that are none of the spots' business. *)
LEMMA SpotsStay ==
  ASSUME SpotsOK, UNCHANGED spotVars, books'.spots = books.spots,
         \A id : /\ Units("spot", id)' = Units("spot", id)
                 /\ Pending("spot", id)' = Pending("spot", id)
  PROVE  SpotsOK'
<1>1. UNCHANGED <<spots, nextSpotId, minted>>
  BY DEF spotVars
<1>2. ASSUME NEW id \in SpotIds
      PROVE  SpotsAt(id)'
  <2>1. SpotsAt(id)
    BY DEF SpotsOK
  <2>2. MintedBy(id)' = MintedBy(id)
    BY <1>1 DEF MintedBy
  <2>3. FewMinted(id)'
    BY <1>1, <2>1 DEF SpotsAt, FewMinted
  <2>4. /\ spots'[id] = spots[id] /\ books'.spots[id] = books.spots[id]
        /\ \A x \in Accounts : minted'[<<id, x>>] = minted[<<id, x>>]
        /\ (id >= nextSpotId') <=> (id >= nextSpotId)
        /\ (id < nextSpotId') <=> (id < nextSpotId)
    BY <1>1
  <2>5. /\ Units("spot", id)' = Units("spot", id)
        /\ Pending("spot", id)' = Pending("spot", id)
    OBVIOUS
  <2> QED
    BY <2>1, <2>2, <2>3, <2>4, <2>5, SpotsAtStay
<1>3. EditionsOK'
  <2>1. EditionsOK
    BY DEF SpotsOK
  <2>2. PICK id : id = 0
    OBVIOUS
  <2>3. /\ \A j \in SpotIds \ {id} : spots'[j].item = spots[j].item
        /\ spots'[id].item = spots[id].item
    BY <1>1
  <2> QED
    BY <1>1, <2>1, <2>3, EditionsStay
<1> QED
  BY <1>2, <1>3 DEF SpotsOK

(* No purchase is of a listing yet to be made. *)
LEMMA NoSpotUnits ==
  ASSUME CoreOK, NEW id, id >= nextSpotId, id \in Nat
  PROVE  Units("spot", id) = 0 /\ Pending("spot", id) = 0
<1>1. calls \in Seq(Frame) /\ FramesOK /\ nextSpotId \in Nat
  BY SpotAssumption DEF CoreOK, CallsTyped, StackOK, SpotsTyped, SpotTypeOK
<1>2. ASSUME NEW k \in DOMAIN calls
      PROVE  calls[k].op # "spot" \/ calls[k].id # id
  <2>1. calls[k] \in Frame
    BY <1>1
  <2>2. calls[k].id \in Nat
    BY <2>1 DEF Frame
  <2>3. FitsNow(calls[k])
    BY <1>1 DEF FramesOK
  <2>4. calls[k].op = "spot" => calls[k].id < nextSpotId
    BY <2>3 DEF FitsNow, FrameFits
  <2> QED
    BY <1>1, <2>2, <2>4
<1> QED
  BY <1>1, <1>2, NoUnits

(* A new listing has sold nothing. *)
LEMMA SpotsNew ==
  ASSUME NEW l, NEW e, l.sold = 0, l.act = TRUE, l.ms \in Nat, e.known = TRUE,
         e.lister = l.s, e.item = l.item, e.maxSpots = l.ms, e.taken = 0, e.open = TRUE
  PROVE  SpotsAgree(l, e, 0, 0, TRUE)
<1>1. 0 % Word = 0
  BY CustodyAssumption
<1>2. l.ms # 0 => 0 <= l.ms /\ ~(0 = l.ms)
  OBVIOUS
<1>3. e.taken + 0 = 0
  OBVIOUS
<1> QED
  BY <1>1, <1>2, <1>3 DEF SpotsAgree

(* A new listing agrees with its event. *)
LEMMA ListMintSpotsSold ==
  ASSUME CoreOK, BooksTypeOK, SpotsOK, NEW x \in Accounts, NEW i \in Items,
         NEW t \in Tokens, NEW p \in SpotPrices, NEW ms \in SpotCaps,
         NEW exp \in SpotExpirations, NEW start \in SpotStarts,
         ListMintSpots(x, i, t, p, ms, exp, start),
         Log(MintSpotsListed(nextSpotId, x, i, ms))
  PROVE  /\ BooksTypeOK' /\ SpotsOK'
         /\ books'.swaps = books.swaps /\ books'.tokens = books.tokens
<1>0. PICK n : n = nextSpotId
  OBVIOUS
<1> DEFINE fee == EffectiveFeeBps(CollectionOf[i])
           l == [s |-> x, item |-> i, pt |-> t, p |-> p, ms |-> ms, sold |-> 0,
                 act |-> TRUE, exp |-> exp, sb |-> start, fb |-> fee]
           e == [known |-> TRUE, lister |-> x, item |-> i, maxSpots |-> ms,
                 taken |-> 0, open |-> TRUE]
<1>1. SpotTypeOK
  BY DEF CoreOK, SpotsTyped
<1>2. /\ nextSpotId < MaxSpotListings /\ nextSpotId' = n + 1
      /\ spots' = [spots EXCEPT ![n] = l]
      /\ UNCHANGED <<calls, minted>>
  BY <1>0 DEF ListMintSpots
<1>3. n \in SpotIds /\ n \in Nat /\ ms \in Nat
  BY <1>0, <1>1, <1>2, SpotAssumption, CustodyAssumption DEF SpotTypeOK, SpotIds
<1>4. BooksTypeOK' /\ SpotsRewritten(n, e)
  BY <1>0, <1>3, TellSpotsListed
<1>5. /\ l.sold = 0 /\ l.act = TRUE /\ l.ms = ms /\ e.known = TRUE /\ e.lister = l.s
      /\ e.item = l.item /\ e.maxSpots = l.ms /\ e.taken = 0 /\ e.open = TRUE
  BY Zenon
<1> HIDE DEF l, e, fee
<1>6. SpotsAgree(l, e, 0, 0, TRUE)
  BY <1>3, <1>5, SpotsNew
<1>7. \A op, j : Units(op, j)' = Units(op, j) /\ Pending(op, j)' = Pending(op, j)
  BY <1>2, UnitsStay
<1>8. \A j : MintedBy(j)' = MintedBy(j) /\ (FewMinted(j) => FewMinted(j)')
  BY <1>2 DEF MintedBy, FewMinted
<1>9. SpotsAt(n)
  BY <1>3 DEF SpotsOK
<1>10. /\ \A y \in Accounts : minted[<<n, y>>] = 0
       /\ MintedBy(n) = 0 /\ FewMinted(n)
  <2>1. n >= nextSpotId
    BY <1>0, <1>3
  <2>2. \A y \in Accounts : minted[<<n, y>>] = 0
    BY <1>9, <2>1 DEF SpotsAt
  <2> QED
    BY <2>2, MintedNone
<1>11. SpotsAt(n)'
  <2>1. Units("spot", n)' = 0 /\ Pending("spot", n)' = 0
    BY <1>0, <1>3, <1>7, NoSpotUnits
  <2>2. spots'[n] = l /\ books'.spots[n] = e
    BY <1>1, <1>2, <1>3, <1>4 DEF SpotTypeOK, SpotsRewritten
  <2>3. (n < nextSpotId') = TRUE /\ ~(n >= nextSpotId')
    BY <1>2, <1>3
  <2>4. SpotsAgree(SpotListing(n), books.spots[n], MintedBy(n) + Pending("spot", n),
                   Units("spot", n), n < nextSpotId)'
          <=> SpotsAgree(spots'[n], books'.spots[n],
                   MintedBy(n)' + Pending("spot", n)', Units("spot", n)',
                   n < nextSpotId')
    BY DEF SpotListing
  <2>5. MintedBy(n)' + Pending("spot", n)' = 0
    BY <1>8, <1>10, <2>1
  <2>6. FewMinted(n)'
    BY <1>8, <1>10
  <2> QED
    BY <1>6, <2>1, <2>2, <2>3, <2>4, <2>5, <2>6 DEF SpotsAt
<1>12. ASSUME NEW id \in SpotIds, id # n
       PROVE  SpotsAt(id)'
  <2>1. SpotsAt(id)
    BY DEF SpotsOK
  <2>2. spots'[id] = spots[id] /\ books'.spots[id] = books.spots[id]
    BY <1>1, <1>2, <1>4, <1>12 DEF SpotTypeOK, SpotsRewritten
  <2>3. id \in Nat
    BY SpotAssumption DEF SpotIds
  <2>4. /\ (id >= nextSpotId') <=> (id >= nextSpotId)
        /\ (id < nextSpotId') <=> (id < nextSpotId)
    BY <1>0, <1>2, <1>3, <1>12, <2>3
  <2>5. MintedBy(id)' = MintedBy(id) /\ FewMinted(id)'
    BY <1>8, <2>1 DEF SpotsAt
  <2>6. \A y \in Accounts : minted'[<<id, y>>] = minted[<<id, y>>]
    BY <1>2
  <2> QED
    BY <1>7, <2>1, <2>2, <2>4, <2>5, <2>6, SpotsAtStay
<1>13. EditionsOK'
  <2>1. \A j \in SpotIds \ {n} : spots'[j].item = spots[j].item
    BY <1>1, <1>2 DEF SpotTypeOK
  <2>2. EditionsOK
    BY DEF SpotsOK
  <2> QED
    BY <1>2, <1>10, <2>1, <2>2, EditionsStay
<1>14. SpotsOK'
  BY <1>11, <1>12, <1>13 DEF SpotsOK
<1>15. books'.swaps = books.swaps /\ books'.tokens = books.tokens
  BY <1>4 DEF SpotsRewritten
<1> QED
  BY <1>4, <1>14, <1>15

(* A number of Word values that is added to counts on.                     *)
LEMMA WordSum ==
  ASSUME NEW a \in Nat, NEW n \in Nat
  PROVE  ((a % Word) + n) % Word = (a + n) % Word
<1>1. Word \in Nat \ {0}
  BY CustodyAssumption
<1> DEFINE q == a \div Word
           r == a % Word
           s == (r + n) \div Word
           t == (r + n) % Word
<1>2. q \in Nat /\ r \in 0 .. Word - 1 /\ a = Word * q + r
  BY <1>1
<1> HIDE DEF q, r
<1>3. s \in Nat /\ t \in 0 .. Word - 1 /\ r + n = Word * s + t
  BY <1>1, <1>2
<1> HIDE DEF s, t
<1>4. a + n = Word * (q + s) + t
  BY <1>1, <1>2, <1>3
<1>5. (Word * (q + s) + t) % Word = t
  <2> DEFINE k == q + s
  <2>1. k \in Nat
    BY <1>2, <1>3
  <2> HIDE DEF k
  <2>2. (Word * k + t) % Word = t
    BY <1>1, <1>3, <2>1
  <2> QED
    BY <2>2 DEF k
<1> QED
  BY <1>4, <1>5 DEF r, t

(* A number below Word is its own value. *)
LEMMA WordSmall ==
  ASSUME NEW a \in Nat, a < Word
  PROVE  a % Word = a
<1>1. Word \in Nat \ {0}
  BY CustodyAssumption
<1>2. PICK k : k = 0
  OBVIOUS
<1>3. (Word * k + a) % Word = a
  BY <1>1, <1>2
<1>4. Word * k = 0
  BY <1>1, <1>2
<1> QED
  BY <1>3, <1>4

(* What a purchase of n spots changes, as it starts. *)
LEMMA SpotsTake ==
  ASSUME NEW l, NEW k, NEW e, NEW units \in Nat, NEW u \in Nat, NEW n \in Nat,
         l.ms \in 0 .. Word - 1, SpotsAgree(l, e, units, u, TRUE), n > 0,
         WithinCap(l, n), e.taken \in Nat,
         k.s = l.s, k.item = l.item, k.ms = l.ms,
         k.sold = (l.sold + n) % Word,
         k.act <=> l.act /\ ~(l.ms # 0 /\ k.sold = l.ms)
  PROVE  SpotsAgree(k, e, units + n, u + n, TRUE)
<1>1. /\ l.sold = units % Word
      /\ l.ms # 0 => units <= l.ms /\ (units = l.ms => ~l.act)
      /\ e.known <=> TRUE
      /\ e.lister = l.s /\ e.item = l.item /\ e.maxSpots = l.ms
      /\ e.taken + u = units
      /\ l.act <=> e.open /\ ~(l.ms # 0 /\ l.sold = l.ms)
  BY DEF SpotsAgree
<1>2. k.sold = (units + n) % Word
  <2>1. (l.sold + n) % Word = ((units % Word) + n) % Word
    BY <1>1
  <2> QED
    BY <2>1, WordSum
<1>3. e.taken + (u + n) = units + n
  BY <1>1
<1>4. Word \in Nat \ {0}
  BY CustodyAssumption
<1>5. ASSUME l.ms # 0
      PROVE  units + n <= l.ms /\ k.sold = units + n /\ l.sold = units
  <2>1. units <= l.ms /\ units < Word
    BY <1>1, <1>4, <1>5
  <2>2. l.sold = units
    BY <1>1, <2>1, WordSmall
  <2>3. n <= l.ms - units
    BY <1>5, <2>2 DEF WithinCap
  <2>4. units + n <= l.ms /\ units + n < Word /\ units + n \in Nat
    BY <1>4, <2>3
  <2>5. (units + n) % Word = units + n
    <3> DEFINE m == units + n
    <3>1. m \in Nat /\ m < Word
      BY <2>4
    <3> HIDE DEF m
    <3>2. m % Word = m
      BY <3>1, WordSmall
    <3> QED
      BY <3>2 DEF m
  <2> QED
    BY <1>2, <2>2, <2>4, <2>5
<1>6. k.ms # 0 => units + n <= k.ms /\ (units + n = k.ms => ~k.act)
  BY <1>5
<1>7. k.act <=> e.open /\ ~(k.ms # 0 /\ k.sold = k.ms)
  <2>1. CASE l.ms = 0
    BY <1>1, <2>1
  <2>2. CASE l.ms # 0
    <3>1. l.sold # l.ms
      BY <1>5, <2>2
    <3> QED
      BY <1>1, <3>1
  <2> QED
    BY <2>1, <2>2
<1> QED
  BY <1>1, <1>2, <1>3, <1>6, <1>7 DEF SpotsAgree

(* A purchase that starts takes its spots off the listing. *)
LEMMA BuyMintSpotSold ==
  ASSUME CoreOK, BooksTypeOK, SpotsOK, OpenSpotsOK, NEW x \in Accounts,
         NEW id \in SpotIds, NEW n \in SpotAmounts, BuyMintSpot(x, id, n), Silent
  PROVE  /\ SpotsOK'
         /\ \A op, j : op # "spot" =>
              Units(op, j)' = Units(op, j) /\ Pending(op, j)' = Pending(op, j)
<1> DEFINE l == SpotListing(id)
           g == [op |-> "spot", id |-> id, by |-> x, payer |-> x, n |-> n,
                 pt |-> l.pt, ask |-> l.p * n, asset |-> CollectionOf[l.item],
                 back |-> CollectionOf[l.item], fb |-> l.fb, rs |-> <<>>,
                 before |-> pool[l.pt], got |-> 0,
                 todo |-> <<"pay", "deliver", "payout">>]
           sold == (l.sold + n) % Word
           act == l.act /\ ~(l.ms # 0 /\ sold = l.ms)
           k == [l EXCEPT !.sold = sold, !.act = act]
           e == books.spots[id]
           units == MintedBy(id) + Pending("spot", id)
           u == Units("spot", id)
<1>1. SpotTypeOK /\ SpotsTyped /\ calls \in Seq(Frame) /\ pool \in [Tokens -> Nat]
  BY DEF CoreOK, SpotsTyped, CallsTyped, GoodsTyped
<1>2. /\ l.act /\ n > 0 /\ WithinCap(l, n) /\ spots' = SpotsTaken(id, n) /\ Enter(g)
      /\ UNCHANGED <<nextSpotId, minted>>
  BY DEF BuyMintSpot
<1>3. /\ id \in Nat /\ n \in Nat /\ l \in SpotRecord /\ SpotAnswers(l)
      /\ id < nextSpotId /\ nextSpotId \in Nat
  <2>1. id < nextSpotId
    BY <1>2 DEF OpenSpotsOK
  <2>2. l \in SpotRecord /\ SpotAnswers(l)
    BY <1>1, <2>1, KnownSpots
  <2> QED
    BY <1>1, <2>1, <2>2, SpotAssumption, CustodyAssumption DEF SpotTypeOK, SpotIds
<1>4. /\ l.item \in Items /\ l.pt \in Tokens /\ l.p \in Nat /\ l.fb \in Nat
      /\ l.sold \in Nat /\ l.ms \in 0 .. Word - 1 /\ l.act \in BOOLEAN
  BY <1>3 DEF SpotRecord, SpotAnswers
<1>5. spots' = [spots EXCEPT ![id] = k]
  BY <1>1, <1>2 DEF SpotsTaken, SpotListing, SpotTypeOK
<1>6. g \in Frame
  <2>1. CollectionOf[l.item] \in Contracts
    BY <1>4, CustodyAssumption DEF Contracts
  <2>2. <<"pay", "deliver", "payout">> \in Seq(Stages)
    BY TodosType DEF SaleTodos
  <2>3. l.p * n \in Nat /\ pool[l.pt] \in Nat
    BY <1>1, <1>3, <1>4
  <2>4. <<>> \in Seq(Split)
    OBVIOUS
  <2> HIDE DEF l
  <2> QED
    BY <1>3, <1>4, <2>1, <2>2, <2>3, <2>4 DEF Frame
<1>7. /\ g.op = "spot" /\ g.id = id /\ g.n = n
      /\ g.todo = <<"pay", "deliver", "payout">>
  BY Zenon
<1> HIDE DEF g
<1>8. /\ g.todo \in SwapTodos \cup SaleTodos /\ Len(g.todo) # 1
      /\ "deliver" \in ToSet(g.todo)
  <2>1. g.todo \in SaleTodos
    BY <1>7 DEF SaleTodos
  <2>2. Head(g.todo) = "pay"
    BY <1>7
  <2> QED
    BY <2>1, <2>2, SaleStages
<1>9. \A op, j : /\ Units(op, j)' = Units(op, j) + UnitsIn(g, op, j)
                 /\ Pending(op, j)' = Pending(op, j) + UnitsIn(g, op, j)
  BY <1>1, <1>2, <1>6, <1>8, UnitsEnter
<1>10. \A op, j : op # "spot" \/ j # id => UnitsIn(g, op, j) = 0
  BY <1>7 DEF UnitsIn
<1>11. \A op, j : Units(op, j) \in Nat /\ Pending(op, j) \in Nat
  BY <1>1, UnitsType
<1>12. \A op, j : op # "spot" \/ j # id =>
         Units(op, j)' = Units(op, j) /\ Pending(op, j)' = Pending(op, j)
  BY <1>9, <1>10, <1>11
<1>13. books'.spots = books.spots
  BY DEF Silent
<1>14. \A j : MintedBy(j)' = MintedBy(j) /\ (FewMinted(j) => FewMinted(j)')
  BY <1>2 DEF MintedBy, FewMinted
<1>15. k.s = l.s /\ k.item = l.item /\ k.ms = l.ms /\ k.sold = sold /\ k.act = act
  <2> HIDE DEF l, sold, act
  <2> QED
    BY <1>3 DEF SpotRecord
<1>16. spots'[id] = k
  BY <1>1, <1>5 DEF SpotTypeOK
<1>17. SpotsAt(id)
  BY DEF SpotsOK
<1>18. SpotsAt(id)'
  <2>1. UnitsIn(g, "spot", id) = n
    BY <1>7 DEF UnitsIn
  <2>2. /\ Units("spot", id)' = u + n
        /\ Pending("spot", id)' = Pending("spot", id) + n
    BY <1>9, <2>1
  <2>3. MintedBy(id) \in Nat
    BY <1>1, <1>17, MintedType DEF SpotsAt
  <2>4. units \in Nat /\ u \in Nat /\ MintedBy(id)' + Pending("spot", id)' = units + n
    BY <1>3, <1>11, <1>14, <2>2, <2>3
  <2>5. SpotsAgree(l, e, units, u, TRUE)
    BY <1>3, <1>17 DEF SpotsAt
  <2>6. e.taken \in Nat
    <3>1. e.known
      BY <2>5 DEF SpotsAgree
    <3>2. e \in SpotEntry
      BY <3>1, NoEntryUnknown DEF BooksTypeOK, SpotBook
    <3> QED
      BY <3>2 DEF SpotEntry
  <2>7. k.act <=> l.act /\ ~(l.ms # 0 /\ k.sold = l.ms)
    BY <1>15
  <2>8. (id < nextSpotId') = TRUE /\ ~(id >= nextSpotId')
    BY <1>2, <1>3
  <2>9. SpotsAgree(SpotListing(id), books.spots[id], MintedBy(id) + Pending("spot", id),
                   Units("spot", id), id < nextSpotId)'
          <=> SpotsAgree(spots'[id], books'.spots[id],
                   MintedBy(id)' + Pending("spot", id)', Units("spot", id)',
                   id < nextSpotId')
    BY DEF SpotListing
  <2>10. k.sold = (l.sold + n) % Word
    BY <1>15
  <2> HIDE DEF l, k, e, sold, act, units, u
  <2>11. SpotsAgree(k, e, units + n, u + n, TRUE)
    BY <1>2, <1>3, <1>4, <1>15, <2>4, <2>5, <2>6, <2>7, <2>10, SpotsTake
  <2>12. books'.spots[id] = e
    BY <1>13 DEF e
  <2>13. FewMinted(id)'
    BY <1>14, <1>17 DEF SpotsAt
  <2> QED
    BY <1>16, <2>2, <2>4, <2>8, <2>9, <2>11, <2>12, <2>13 DEF SpotsAt
<1>19. ASSUME NEW j \in SpotIds, j # id
       PROVE  SpotsAt(j)'
  <2>1. SpotsAt(j)
    BY DEF SpotsOK
  <2>2. /\ spots'[j] = spots[j] /\ books'.spots[j] = books.spots[j]
        /\ \A y \in Accounts : minted'[<<j, y>>] = minted[<<j, y>>]
        /\ (j >= nextSpotId') <=> (j >= nextSpotId)
        /\ (j < nextSpotId') <=> (j < nextSpotId)
    BY <1>1, <1>2, <1>5, <1>13, <1>19 DEF SpotTypeOK
  <2>3. MintedBy(j)' = MintedBy(j) /\ FewMinted(j)'
    BY <1>14, <2>1 DEF SpotsAt
  <2>4. /\ Units("spot", j)' = Units("spot", j)
        /\ Pending("spot", j)' = Pending("spot", j)
    BY <1>12, <1>19
  <2> QED
    BY <2>1, <2>2, <2>3, <2>4, SpotsAtStay
<1>20. EditionsOK'
  <2>1. \A j \in SpotIds \ {id} : spots'[j].item = spots[j].item
    BY <1>1, <1>5 DEF SpotTypeOK
  <2>2. spots'[id].item = spots[id].item
    BY <1>15, <1>16 DEF SpotListing
  <2>3. EditionsOK
    BY DEF SpotsOK
  <2> QED
    BY <1>2, <2>1, <2>2, <2>3, EditionsStay
<1>21. SpotsOK'
  BY <1>18, <1>19, <1>20 DEF SpotsOK
<1> QED
  BY <1>12, <1>21

(* Spots minted are delivered and not pending any more. *)
LEMMA MintSold ==
  ASSUME CoreOK, BooksTypeOK, SpotsOK, Mint, LogIfLast
  PROVE  /\ SpotsOK' /\ UNCHANGED books
         /\ \A op, j : op # "spot" =>
              Units(op, j)' = Units(op, j) /\ Pending(op, j)' = Pending(op, j)
<1>1. /\ ~Idle /\ Top.op = "spot" /\ Head(Top.todo) = "deliver" /\ Returned(Top)
      /\ MintedOf(SpotListing(Top.id).item) + Top.n <= EditionSize[SpotListing(Top.id).item]
      /\ minted' = [minted EXCEPT ![<<Top.id, Top.by>>] = @ + Top.n]
      /\ UNCHANGED <<spots, nextSpotId>>
  BY DEF Mint, InProgress
<1>2. /\ Top.id \in SpotIds /\ Top.id < nextSpotId
      /\ Top.todo \in SaleTodos /\ Top.n \in Nat \ {0} /\ Top.by \in Accounts
  BY <1>1, TopSpot
<1>3. Top \in Frame /\ SpotTypeOK /\ nextSpotId \in Nat
  BY <1>1, TopFits, SpotAssumption DEF CoreOK, SpotsTyped, SpotTypeOK
<1>4. Len(Top.todo) # 1
  BY <1>1, <1>2, SaleStages
<1>5. UNCHANGED books
  BY <1>4 DEF LogIfLast, Silent
<1>6. \A op, j : op # "spot" \/ j # Top.id =>
        Units(op, j)' = Units(op, j) /\ Pending(op, j)' = Pending(op, j)
  BY <1>1, <1>3, TopReturns
<1>7. PICK id : id = Top.id
  OBVIOUS
<1>8. PICK n : n = Top.n
  OBVIOUS
<1>9. PICK y : y = Top.by
  OBVIOUS
<1>10. /\ id \in SpotIds /\ id < nextSpotId /\ n \in Nat /\ y \in Accounts /\ id \in Nat
       /\ minted' = [minted EXCEPT ![<<id, y>>] = @ + n]
       /\ MintedOf(SpotListing(id).item) + n <= EditionSize[SpotListing(id).item]
  BY <1>1, <1>2, <1>7, <1>8, <1>9, SpotAssumption DEF SpotIds
<1>11. /\ Units("spot", id)' = Units("spot", id) - 0
       /\ Pending("spot", id)' = Pending("spot", id) - n
  BY <1>1, <1>3, <1>4, <1>7, <1>8, TopReturns
<1>12. calls \in Seq(Frame)
  BY DEF CoreOK, CallsTyped
<1>13. Units("spot", id) \in Nat /\ Pending("spot", id) \in Nat
  BY <1>12, UnitsType
<1>14. \A j \in SpotIds : FewMinted(j)
  BY DEF SpotsOK, SpotsAt
<1>15. /\ MintedBy(id) \in Nat /\ MintedBy(id)' = MintedBy(id) + n /\ FewMinted(id)'
       /\ \A j \in SpotIds \ {id} :
            MintedBy(j)' = MintedBy(j) /\ (FewMinted(j) => FewMinted(j)')
  BY <1>3, <1>10, <1>14, MintedGrows
<1>16. SpotsAt(id)'
  <2>1. Units("spot", id)' = Units("spot", id)
    BY <1>11, <1>13
  <2>2. MintedBy(id)' + Pending("spot", id)' = MintedBy(id) + Pending("spot", id)
    BY <1>10, <1>11, <1>13, <1>15
  <2>3. SpotsAgree(spots[id], books.spots[id], MintedBy(id) + Pending("spot", id),
                   Units("spot", id), id < nextSpotId)
    BY <1>10 DEF SpotsOK, SpotsAt, SpotListing
  <2>4. SpotsAgree(SpotListing(id), books.spots[id], MintedBy(id) + Pending("spot", id),
                   Units("spot", id), id < nextSpotId)'
          <=> SpotsAgree(spots'[id], books'.spots[id],
                   MintedBy(id)' + Pending("spot", id)', Units("spot", id)',
                   id < nextSpotId')
    BY DEF SpotListing
  <2>5. ~(id >= nextSpotId')
    BY <1>1, <1>3, <1>10
  <2> QED
    BY <1>1, <1>5, <1>15, <2>1, <2>2, <2>3, <2>4, <2>5 DEF SpotsAt
<1>17. ASSUME NEW j \in SpotIds, j # id
       PROVE  SpotsAt(j)'
  <2>1. SpotsAt(j)
    BY DEF SpotsOK
  <2>2. \A z \in Accounts : minted'[<<j, z>>] = minted[<<j, z>>]
    BY <1>3, <1>10, <1>17 DEF SpotTypeOK
  <2>3. /\ spots'[j] = spots[j] /\ books'.spots[j] = books.spots[j]
        /\ (j >= nextSpotId') <=> (j >= nextSpotId)
        /\ (j < nextSpotId') <=> (j < nextSpotId)
    BY <1>1, <1>5
  <2>4. MintedBy(j)' = MintedBy(j) /\ FewMinted(j)'
    BY <1>14, <1>15, <1>17
  <2>5. /\ Units("spot", j)' = Units("spot", j)
        /\ Pending("spot", j)' = Pending("spot", j)
    BY <1>6, <1>7, <1>17
  <2> QED
    BY <2>1, <2>2, <2>3, <2>4, <2>5, SpotsAtStay
<1>18. EditionsOK'
  <2>1. EditionsOK
    BY DEF SpotsOK
  <2>2. UNCHANGED spots
    BY <1>1
  <2> QED
    BY <1>3, <1>10, <1>14, <2>1, <2>2, EditionsMint
<1>19. SpotsOK'
  BY <1>16, <1>17, <1>18 DEF SpotsOK
<1> QED
  BY <1>5, <1>6, <1>19

(* A listing taken off is closed in the record and in the books. *)
LEMMA DelistMintSpotsSold ==
  ASSUME CoreOK, BooksTypeOK, SpotsOK, OpenSpotsOK, NEW x \in Accounts,
         NEW id \in SpotIds, DelistMintSpots(x, id), Log(MintSpotsDelisted(id, x))
  PROVE  /\ BooksTypeOK' /\ SpotsOK'
         /\ books'.swaps = books.swaps /\ books'.tokens = books.tokens
<1> DEFINE l == SpotListing(id)
           k == [l EXCEPT !.act = FALSE]
           e == books.spots[id]
           d == [e EXCEPT !.open = FALSE]
           units == MintedBy(id) + Pending("spot", id)
           u == Units("spot", id)
<1>1. SpotTypeOK
  BY DEF CoreOK, SpotsTyped
<1>2. /\ l.act /\ spots' = [spots EXCEPT ![id].act = FALSE]
      /\ UNCHANGED <<calls, nextSpotId, minted>>
  BY DEF DelistMintSpots
<1>3. l \in SpotRecord /\ id < nextSpotId /\ id \in Nat /\ nextSpotId \in Nat
  BY <1>1, <1>2, SpotAssumption DEF SpotTypeOK, SpotListing, OpenSpotsOK, SpotIds
<1>4. spots' = [spots EXCEPT ![id] = k]
  BY <1>2, Zenon DEF SpotListing
<1>5. SpotsAt(id) /\ SpotsAgree(l, e, units, u, TRUE)
  BY <1>3 DEF SpotsOK, SpotsAt
<1>6. e.known
  BY <1>5 DEF SpotsAgree
<1>7. BooksTypeOK' /\ SpotsRewritten(id, d)
  BY <1>6, TellSpotsDelisted
<1>8. e \in SpotEntry
  BY <1>6, NoEntryUnknown DEF BooksTypeOK, SpotBook
<1>9. k.s = l.s /\ k.item = l.item /\ k.ms = l.ms /\ k.sold = l.sold /\ k.act = FALSE
  BY <1>3 DEF SpotRecord
<1>10. /\ d.known = e.known /\ d.lister = e.lister /\ d.item = e.item
       /\ d.maxSpots = e.maxSpots /\ d.taken = e.taken /\ d.open = FALSE
  BY <1>8 DEF SpotEntry
<1>11. spots'[id] = k
  BY <1>1, <1>4 DEF SpotTypeOK
<1>12. \A op, j : Units(op, j)' = Units(op, j) /\ Pending(op, j)' = Pending(op, j)
  BY <1>2, UnitsStay
<1>13. \A j : MintedBy(j)' = MintedBy(j) /\ (FewMinted(j) => FewMinted(j)')
  BY <1>2 DEF MintedBy, FewMinted
<1>14. k.item = spots[id].item
  BY <1>9 DEF SpotListing
<1> HIDE DEF l, k, e, d
<1>15. SpotsAgree(k, d, units, u, TRUE)
  BY <1>5, <1>9, <1>10 DEF SpotsAgree
<1>16. SpotsAt(id)'
  <2>1. SpotsAgree(SpotListing(id), books.spots[id], MintedBy(id) + Pending("spot", id),
                   Units("spot", id), id < nextSpotId)'
          <=> SpotsAgree(spots'[id], books'.spots[id],
                   MintedBy(id)' + Pending("spot", id)', Units("spot", id)',
                   id < nextSpotId')
    BY DEF SpotListing
  <2>2. (id < nextSpotId') = TRUE /\ ~(id >= nextSpotId')
    BY <1>2, <1>3
  <2>3. books'.spots[id] = d
    BY <1>7 DEF SpotsRewritten
  <2>4. FewMinted(id)'
    BY <1>5, <1>13 DEF SpotsAt
  <2>5. MintedBy(id)' + Pending("spot", id)' = units /\ Units("spot", id)' = u
    BY <1>12, <1>13
  <2> QED
    BY <1>11, <1>15, <2>1, <2>2, <2>3, <2>4, <2>5 DEF SpotsAt
<1>17. ASSUME NEW j \in SpotIds, j # id
       PROVE  SpotsAt(j)'
  <2>1. SpotsAt(j)
    BY DEF SpotsOK
  <2>2. /\ spots'[j] = spots[j] /\ books'.spots[j] = books.spots[j]
        /\ \A y \in Accounts : minted'[<<j, y>>] = minted[<<j, y>>]
        /\ (j >= nextSpotId') <=> (j >= nextSpotId)
        /\ (j < nextSpotId') <=> (j < nextSpotId)
    BY <1>1, <1>2, <1>4, <1>7, <1>17 DEF SpotTypeOK, SpotsRewritten
  <2>3. MintedBy(j)' = MintedBy(j) /\ FewMinted(j)'
    BY <1>13, <2>1 DEF SpotsAt
  <2> QED
    BY <1>12, <2>1, <2>2, <2>3, SpotsAtStay
<1>18. EditionsOK'
  <2>1. \A j \in SpotIds \ {id} : spots'[j].item = spots[j].item
    BY <1>1, <1>4 DEF SpotTypeOK
  <2>2. spots'[id].item = spots[id].item
    BY <1>11, <1>14
  <2>3. EditionsOK
    BY DEF SpotsOK
  <2> QED
    BY <1>2, <2>1, <2>2, <2>3, EditionsStay
<1>19. SpotsOK'
  BY <1>16, <1>17, <1>18 DEF SpotsOK
<1>20. books'.swaps = books.swaps /\ books'.tokens = books.tokens
  BY <1>7 DEF SpotsRewritten
<1> QED
  BY <1>7, <1>19, <1>20

(* A purchase that is complete is logged with its units. *)
LEMMA PayOutSold ==
  ASSUME CoreOK, BooksTypeOK, SpotsOK, Top.op = "spot", PayOut, LogIfLast,
         UNCHANGED spotVars
  PROVE  /\ BooksTypeOK' /\ SpotsOK'
         /\ books'.swaps = books.swaps /\ books'.tokens = books.tokens
         /\ \A op, j : op # "spot" =>
              Units(op, j)' = Units(op, j) /\ Pending(op, j)' = Pending(op, j)
<1>1. ~Idle /\ Head(Top.todo) = "payout" /\ Returned(Top)
  BY DEF PayOut
<1>2. /\ Top.id \in SpotIds /\ Top.id < nextSpotId
      /\ Top.todo \in SaleTodos /\ Top.n \in Nat \ {0}
  BY <1>1, TopSpot
<1>3. Top \in Frame /\ SpotTypeOK /\ nextSpotId \in Nat
  BY <1>1, TopFits, SpotAssumption DEF CoreOK, SpotsTyped, SpotTypeOK
<1>4. Len(Top.todo) = 1
  BY <1>1, <1>2, SaleStages
<1>5. \A op, j : op # "spot" \/ j # Top.id =>
        Units(op, j)' = Units(op, j) /\ Pending(op, j)' = Pending(op, j)
  BY <1>1, <1>3, TopReturns
<1>6. PICK id : id = Top.id
  OBVIOUS
<1>7. PICK n : n = Top.n
  OBVIOUS
<1>8. id \in SpotIds /\ id < nextSpotId /\ n \in Nat /\ id \in Nat
  BY <1>2, <1>6, <1>7, SpotAssumption DEF SpotIds
<1>9. /\ Units("spot", id)' = Units("spot", id) - n
      /\ Pending("spot", id)' = Pending("spot", id) - 0
  BY <1>1, <1>3, <1>4, <1>6, <1>7, TopReturns
<1>10. Units("spot", id) \in Nat /\ Pending("spot", id) \in Nat
  <2>1. calls \in Seq(Frame)
    BY DEF CoreOK, CallsTyped
  <2> QED
    BY <2>1, UnitsType
<1> DEFINE l == spots[id]
           e == books.spots[id]
           d == [e EXCEPT !.taken = @ + n]
           units == MintedBy(id) + Pending("spot", id)
           u == Units("spot", id)
<1>11. SpotsAt(id) /\ SpotsAgree(l, e, units, u, TRUE)
  BY <1>8 DEF SpotsOK, SpotsAt, SpotListing
<1>12. e.known
  BY <1>11 DEF SpotsAgree
<1>13. BooksTypeOK' /\ SpotsRewritten(id, d)
  <2>1. LogSale(Top)
    BY <1>4 DEF LogIfLast
  <2>2. Log(MintSpotBought(Top.id, Top.by, Top.n, Top.got, FeeOf(Top.got, Top.fb)))
    BY <2>1 DEF LogSale
  <2>3. \E y, p, f : Log(MintSpotBought(id, y, n, p, f))
    BY <1>6, <1>7, <2>2
  <2> QED
    BY <1>8, <1>12, <2>3, TellSpotBought
<1>14. /\ d.known = e.known /\ d.lister = e.lister /\ d.item = e.item
       /\ d.maxSpots = e.maxSpots /\ d.taken = e.taken + n /\ d.open = e.open
       /\ e.taken \in Nat
  <2>1. e \in SpotEntry
    BY <1>8, <1>12, NoEntryUnknown DEF BooksTypeOK, SpotBook
  <2> HIDE DEF e
  <2> QED
    BY <2>1 DEF SpotEntry
<1>15. UNCHANGED <<spots, nextSpotId, minted>>
  BY DEF spotVars
<1>16. \A j : MintedBy(j)' = MintedBy(j) /\ (FewMinted(j) => FewMinted(j)')
  BY <1>15 DEF MintedBy, FewMinted
<1> HIDE DEF l, e, d
<1>17. SpotsAgree(l, d, units, u - n, TRUE)
  <2>1. d.taken + (u - n) = e.taken + u
    <3>1. u \in Nat
      BY <1>10
    <3> HIDE DEF u
    <3> QED
      BY <1>8, <1>14, <3>1
  <2>2. e.taken + u = units
    BY <1>11 DEF SpotsAgree
  <2> HIDE DEF units, u
  <2> QED
    BY <1>11, <1>14, <2>1, <2>2 DEF SpotsAgree
<1>18. SpotsAt(id)'
  <2>1. SpotsAgree(SpotListing(id), books.spots[id], MintedBy(id) + Pending("spot", id),
                   Units("spot", id), id < nextSpotId)'
          <=> SpotsAgree(spots'[id], books'.spots[id],
                   MintedBy(id)' + Pending("spot", id)', Units("spot", id)',
                   id < nextSpotId')
    BY DEF SpotListing
  <2>2. (id < nextSpotId') = TRUE /\ ~(id >= nextSpotId')
    BY <1>3, <1>8, <1>15
  <2>3. books'.spots[id] = d
    BY <1>13 DEF SpotsRewritten
  <2>4. Pending("spot", id)' = Pending("spot", id)
    BY <1>9, <1>10
  <2>5. FewMinted(id)'
    BY <1>11, <1>16 DEF SpotsAt
  <2>6. MintedBy(id)' + Pending("spot", id)' = units /\ Units("spot", id)' = u - n
    BY <1>9, <1>16, <2>4
  <2>7. spots'[id] = l
    BY <1>15 DEF l
  <2> QED
    BY <1>17, <2>1, <2>2, <2>3, <2>5, <2>6, <2>7 DEF SpotsAt
<1>19. ASSUME NEW j \in SpotIds, j # id
       PROVE  SpotsAt(j)'
  <2>1. SpotsAt(j)
    BY DEF SpotsOK
  <2>2. /\ spots'[j] = spots[j] /\ books'.spots[j] = books.spots[j]
        /\ \A y \in Accounts : minted'[<<j, y>>] = minted[<<j, y>>]
        /\ (j >= nextSpotId') <=> (j >= nextSpotId)
        /\ (j < nextSpotId') <=> (j < nextSpotId)
    BY <1>13, <1>15, <1>19 DEF SpotsRewritten
  <2>3. MintedBy(j)' = MintedBy(j) /\ FewMinted(j)'
    BY <1>16, <2>1 DEF SpotsAt
  <2>4. /\ Units("spot", j)' = Units("spot", j)
        /\ Pending("spot", j)' = Pending("spot", j)
    BY <1>5, <1>6, <1>19
  <2> QED
    BY <2>1, <2>2, <2>3, <2>4, SpotsAtStay
<1>20. EditionsOK'
  <2>1. EditionsOK
    BY DEF SpotsOK
  <2>2. /\ \A j \in SpotIds \ {id} : spots'[j].item = spots[j].item
        /\ spots'[id].item = spots[id].item
    BY <1>15
  <2> QED
    BY <1>15, <2>1, <2>2, EditionsStay
<1>21. SpotsOK'
  BY <1>18, <1>19, <1>20 DEF SpotsOK
<1>22. books'.swaps = books.swaps /\ books'.tokens = books.tokens
  BY <1>13 DEF SpotsRewritten
<1> QED
  BY <1>5, <1>13, <1>21, <1>22

-----------------------------------------------------------------------------
(* Swaps: accepted once, and the log tells of it.                          *)

(* What the record of a swap, its entry in the books, those who accepted   *)
(* it and its acceptances in progress say of one another.                  *)
SwapAgrees(w, e, acc, u, known) ==
  /\ Len(acc) <= 1 /\ u <= Len(acc)
  /\ e.known <=> known
  /\ known =>
       /\ e.proposer = w.p /\ e.offeredNft = CollectionOf[w.oi]
       /\ e.wantedNft = CollectionOf[w.wi]
       /\ w.act <=> e.open /\ u = 0
       /\ u = 0 => acc = IF e.acceptor = NoAccount THEN <<>> ELSE <<e.acceptor>>
  /\ ~known => acc = <<>>

(* Of one swap. *)
SwapAt(id) ==
  SwapAgrees(Swap(id), books.swaps[id], acceptors[id], Units("swap", id),
             id < nextSwapId)

(* Of all. *)
SwapsOK == \A id \in SwapIds : SwapAt(id)

(* A swap of which nothing changes agrees as before. *)
LEMMA SwapAtStay ==
  ASSUME NEW id \in SwapIds, SwapAt(id),
         swaps'[id] = swaps[id], books'.swaps[id] = books.swaps[id],
         acceptors'[id] = acceptors[id],
         (id < nextSwapId') <=> (id < nextSwapId),
         Units("swap", id)' = Units("swap", id)
  PROVE  SwapAt(id)'
<1>1. SwapAt(id)' <=> SwapAgrees(swaps'[id], books'.swaps[id], acceptors'[id],
                         Units("swap", id)', id < nextSwapId')
  BY DEF SwapAt, Swap
<1>2. SwapAt(id) <=> SwapAgrees(swaps[id], books.swaps[id], acceptors[id],
                         Units("swap", id), id < nextSwapId)
  BY DEF SwapAt, Swap
<1> QED
  BY <1>1, <1>2 DEF SwapAgrees

(* Steps that are none of the swaps' business. *)
LEMMA SwapsStay ==
  ASSUME SwapsOK, UNCHANGED swapVars, books'.swaps = books.swaps,
         \A id : Units("swap", id)' = Units("swap", id)
  PROVE  SwapsOK'
<1> SUFFICES ASSUME NEW id \in SwapIds
             PROVE  SwapAt(id)'
  BY DEF SwapsOK
<1>1. UNCHANGED <<swaps, nextSwapId, acceptors>>
  BY DEF swapVars
<1>2. SwapAt(id)
  BY DEF SwapsOK
<1>3. Units("swap", id)' = Units("swap", id)
  OBVIOUS
<1>4. /\ swaps'[id] = swaps[id] /\ books'.swaps[id] = books.swaps[id]
      /\ acceptors'[id] = acceptors[id]
      /\ (id < nextSwapId') <=> (id < nextSwapId)
  BY <1>1
<1> QED
  BY <1>2, <1>3, <1>4, SwapAtStay

(* No acceptance is of a swap yet to be proposed. *)
LEMMA NoSwapUnits ==
  ASSUME CoreOK, NEW id, id >= nextSwapId, id \in Nat
  PROVE  Units("swap", id) = 0 /\ Pending("swap", id) = 0
<1>1. calls \in Seq(Frame) /\ FramesOK /\ nextSwapId \in Nat
  BY SwapAssumption DEF CoreOK, CallsTyped, StackOK, SwapsTyped, SwapTypeOK
<1>2. ASSUME NEW k \in DOMAIN calls
      PROVE  calls[k].op # "swap" \/ calls[k].id # id
  <2>1. calls[k] \in Frame
    BY <1>1
  <2>2. calls[k].id \in Nat
    BY <2>1 DEF Frame
  <2>3. FitsNow(calls[k])
    BY <1>1 DEF FramesOK
  <2>4. calls[k].op = "swap" => calls[k].id < nextSwapId
    BY <2>3 DEF FitsNow, FrameFits
  <2> QED
    BY <1>1, <2>2, <2>4
<1> QED
  BY <1>1, <1>2, NoUnits

(* A new swap agrees with its event. *)
LEMMA ProposeSwapTold ==
  ASSUME CoreOK, BooksTypeOK, SwapsOK, NEW x \in Accounts, NEW side \in Sides,
         NEW topUp \in TopUps, NEW exp \in SwapExpirations,
         ProposeSwap(x, side, topUp[1], topUp[2], exp),
         Log(SwapProposed(nextSwapId, x, CollectionOf[side.oi], CollectionOf[side.wi]))
  PROVE  /\ BooksTypeOK' /\ SwapsOK'
         /\ books'.spots = books.spots /\ books'.tokens = books.tokens
<1>0. PICK n : n = nextSwapId
  OBVIOUS
<1> DEFINE c == CollectionOf[side.oi]
           d == CollectionOf[side.wi]
           fb == EffectiveFeeBps(c)
           rb == RoyaltyBps(c)
           rr == cfg.royalty[c].rcpt
           rs == ResolveRoyaltySplits(c)
           tu == topUp[1]
           tt == topUp[2]
           w == [p |-> x, oi |-> side.oi, oa |-> side.oa, wi |-> side.wi,
                 wa |-> side.wa, tu |-> tu, tt |-> tt, act |-> TRUE, exp |-> exp,
                 fb |-> fb, rb |-> rb, rr |-> rr, rs |-> rs]
           e == [known |-> TRUE, proposer |-> x, offeredNft |-> c, wantedNft |-> d,
                 open |-> TRUE, acceptor |-> NoAccount]
<1>1. SwapTypeOK
  BY DEF CoreOK, SwapsTyped
<1>2. /\ nextSwapId < MaxSwaps /\ swaps' = [swaps EXCEPT ![n] = w]
      /\ nextSwapId' = n + 1 /\ UNCHANGED <<calls, acceptors>>
  BY <1>0 DEF ProposeSwap
<1>3. n \in SwapIds /\ n \in Nat
  BY <1>0, <1>1, <1>2, SwapAssumption DEF SwapTypeOK, SwapIds
<1>4. c \in Collections /\ d \in Collections
  BY SwapAssumption, CustodyAssumption
<1>5. /\ w.p = x /\ w.oi = side.oi /\ w.wi = side.wi /\ w.act = TRUE
      /\ e.known = TRUE /\ e.proposer = x /\ e.offeredNft = c /\ e.wantedNft = d
      /\ e.open = TRUE /\ e.acceptor = NoAccount
  BY Zenon
<1>6. BooksTypeOK' /\ SwapsRewritten(n, e)
  <2> HIDE DEF w, fb, rb, rr, rs, tu, tt
  <2> QED
    BY <1>0, <1>3, <1>4, TellSwapProposed
<1>7. e.offeredNft = CollectionOf[w.oi] /\ e.wantedNft = CollectionOf[w.wi]
  BY <1>5
<1> HIDE DEF w, e, c, d, fb, rb, rr, rs, tu, tt
<1>8. SwapAgrees(w, e, <<>>, 0, TRUE)
  BY <1>5, <1>7 DEF SwapAgrees
<1>9. \A op, j : Units(op, j)' = Units(op, j) /\ Pending(op, j)' = Pending(op, j)
  BY <1>2, UnitsStay
<1>10. SwapAt(n)'
  <2>1. Units("swap", n)' = 0
    BY <1>0, <1>3, <1>9, NoSwapUnits
  <2>2. ~(n < nextSwapId) /\ SwapAt(n)
    BY <1>0, <1>3 DEF SwapsOK
  <2>3. acceptors'[n] = <<>>
    BY <1>2, <2>2 DEF SwapAt, SwapAgrees
  <2>4. swaps'[n] = w /\ books'.swaps[n] = e
    BY <1>1, <1>2, <1>3, <1>6 DEF SwapTypeOK, SwapsRewritten
  <2>5. (n < nextSwapId') = TRUE
    BY <1>2, <1>3
  <2>6. SwapAt(n)' <=> SwapAgrees(swaps'[n], books'.swaps[n], acceptors'[n],
                          Units("swap", n)', n < nextSwapId')
    BY DEF SwapAt, Swap
  <2> QED
    BY <1>8, <2>1, <2>3, <2>4, <2>5, <2>6
<1>11. ASSUME NEW id \in SwapIds, id # n
       PROVE  SwapAt(id)'
  <2>1. SwapAt(id)
    BY DEF SwapsOK
  <2>2. /\ swaps'[id] = swaps[id] /\ books'.swaps[id] = books.swaps[id]
        /\ acceptors'[id] = acceptors[id]
    BY <1>1, <1>2, <1>6, <1>11 DEF SwapTypeOK, SwapsRewritten
  <2>3. id \in Nat
    BY SwapAssumption DEF SwapIds
  <2>4. (id < nextSwapId') <=> (id < nextSwapId)
    BY <1>0, <1>2, <1>3, <1>11, <2>3
  <2> QED
    BY <1>9, <2>1, <2>2, <2>4, SwapAtStay
<1>12. SwapsOK'
  BY <1>10, <1>11 DEF SwapsOK
<1>13. books'.spots = books.spots /\ books'.tokens = books.tokens
  BY <1>6 DEF SwapsRewritten
<1> QED
  BY <1>6, <1>12, <1>13

(* The purchase that an acceptance puts on the stack has both legs ahead.  *)
LEMMA AcceptFrame ==
  ASSUME MarketInv, CoreOK, OpenSwapsOK, NEW x \in Accounts, NEW id \in SwapIds,
         AcceptSwap(x, id)
  PROVE  \E g \in Frame :
           /\ Enter(g) /\ g.op = "swap" /\ g.id = id /\ g.by = x /\ g.n = 1
           /\ g.todo \in SwapTodos /\ Len(g.todo) # 1
           /\ "deliver" \in ToSet(g.todo) /\ "return" \in ToSet(g.todo)
<1> DEFINE w == Swap(id)
           terms == SwapTerms(w)
           todo == SwapCalls(w)
           g == [op |-> "swap", id |-> id, by |-> x, payer |-> w.p, n |-> 1,
                 pt |-> w.tt, ask |-> w.tu, asset |-> CollectionOf[w.oi],
                 back |-> CollectionOf[w.wi], fb |-> terms.fb, rs |-> terms.rs,
                 before |-> pool[w.tt], got |-> 0, todo |-> todo]
<1>1. SwapTypeOK /\ pool \in [Tokens -> Nat] /\ MarketTypeOK
  BY DEF CoreOK, SwapsTyped, GoodsTyped, MarketInv
<1>2. w.act /\ Enter(g)
  BY DEF AcceptSwap
<1>3. w \in SwapRecord /\ id < nextSwapId /\ id \in Nat
  BY <1>1, <1>2, SwapAssumption DEF SwapTypeOK, Swap, OpenSwapsOK, SwapIds
<1>4. SwapAnswers(w)
  <2>1. id \in 0 .. nextSwapId - 1
    BY <1>1, <1>3, SwapAssumption DEF SwapTypeOK
  <2>2. AnswerOf(w) \in SwapResponse
    BY <2>1 DEF CoreOK, SwapsTyped, GetSwap, AnswerOf
  <2> HIDE DEF w
  <2> QED
    BY <1>3, <2>2, SwapAnswered
<1>5. /\ w.p \in Accounts /\ w.tu \in Nat /\ w.tt \in Tokens
      /\ w.oi \in Items /\ w.wi \in Items
  BY <1>3, <1>4 DEF SwapRecord, SwapAnswers
<1>6. terms \in Terms
  <2> HIDE DEF w
  <2> QED
    BY <1>1, <1>3, SwapTermsType
<1>7. CollectionOf[w.oi] \in Contracts /\ CollectionOf[w.wi] \in Contracts
  BY <1>5, CustodyAssumption DEF Contracts
<1>8. /\ todo \in SwapTodos /\ todo \in Seq(Stages)
      /\ Head(todo) \in {"pay", "deliver"}
  <2>1. todo \in SwapTodos
    BY SwapCallsType
  <2>2. Head(todo) \in {"pay", "deliver"}
    <3>1. CASE w.tu > 0
      BY <3>1 DEF SwapCalls
    <3>2. CASE ~(w.tu > 0)
      BY <3>2 DEF SwapCalls
    <3> QED
      BY <3>1, <3>2
  <2> QED
    BY <2>1, <2>2, TodosType
<1>9. terms.fb \in Nat /\ terms.rs \in Seq(Split) /\ pool[w.tt] \in Nat
  BY <1>1, <1>5, <1>6 DEF Terms
<1>10. g \in Frame
  <2> HIDE DEF w, terms, todo
  <2> QED
    BY <1>3, <1>5, <1>7, <1>8, <1>9 DEF Frame
<1>11. g.op = "swap" /\ g.id = id /\ g.by = x /\ g.n = 1 /\ g.todo = todo
  BY Zenon
<1> HIDE DEF g, w, terms, todo
<1>12. Len(todo) # 1 /\ "deliver" \in ToSet(todo) /\ "return" \in ToSet(todo)
  BY <1>8, SwapStages
<1> QED
  BY <1>2, <1>8, <1>10, <1>11, <1>12

(* An acceptance takes the swap off. *)
LEMMA AcceptSwapTold ==
  ASSUME MarketInv, CoreOK, BooksTypeOK, SwapsOK, OpenSwapsOK, NEW x \in Accounts,
         NEW id \in SwapIds, AcceptSwap(x, id), Silent
  PROVE  /\ SwapsOK'
         /\ \A op, j : op # "swap" =>
              Units(op, j)' = Units(op, j) /\ Pending(op, j)' = Pending(op, j)
<1> DEFINE w == Swap(id)
           off == [w EXCEPT !.act = FALSE]
           e == books.swaps[id]
<1>1. SwapTypeOK /\ calls \in Seq(Frame)
  BY DEF CoreOK, SwapsTyped, CallsTyped
<1>2. /\ w.act /\ swaps' = Accepted(id)
      /\ acceptors' = [acceptors EXCEPT ![id] = Append(@, x)]
      /\ nextSwapId' = nextSwapId
  BY DEF AcceptSwap
<1>3. acceptors[id] = <<>> /\ id < nextSwapId /\ w \in SwapRecord
  BY <1>1, <1>2 DEF OpenSwapsOK, SwapTypeOK, Swap
<1>4. swaps' = [swaps EXCEPT ![id] = off]
  BY <1>1, <1>2 DEF Accepted, Swap, SwapTypeOK
<1>5. acceptors'[id] = <<x>> /\ \A j \in SwapIds \ {id} : acceptors'[j] = acceptors[j]
  <2>1. Append(<<>>, x) = <<x>>
    OBVIOUS
  <2> QED
    BY <1>1, <1>2, <1>3, <2>1 DEF SwapTypeOK
<1>6. off.p = w.p /\ off.oi = w.oi /\ off.wi = w.wi /\ off.act = FALSE
  <2> HIDE DEF w
  <2> QED
    BY <1>3 DEF SwapRecord
<1>7. PICK g \in Frame :
        /\ Enter(g) /\ g.op = "swap" /\ g.id = id /\ g.by = x /\ g.n = 1
        /\ g.todo \in SwapTodos /\ Len(g.todo) # 1
        /\ "deliver" \in ToSet(g.todo) /\ "return" \in ToSet(g.todo)
  BY AcceptFrame
<1>8. \A op, j : /\ Units(op, j)' = Units(op, j) + UnitsIn(g, op, j)
                 /\ Pending(op, j)' = Pending(op, j) + UnitsIn(g, op, j)
  BY <1>1, <1>7, UnitsEnter
<1>9. \A op, j : op # "swap" \/ j # id => UnitsIn(g, op, j) = 0
  BY <1>7 DEF UnitsIn
<1>10. \A op, j : Units(op, j) \in Nat /\ Pending(op, j) \in Nat
  BY <1>1, UnitsType
<1>11. \A op, j : op # "swap" \/ j # id =>
         Units(op, j)' = Units(op, j) /\ Pending(op, j)' = Pending(op, j)
  BY <1>8, <1>9, <1>10
<1>12. books' = books
  BY DEF Silent
<1>13. SwapAt(id)'
  <2>1. SwapAgrees(w, e, <<>>, Units("swap", id), TRUE)
    BY <1>3 DEF SwapsOK, SwapAt
  <2>2. Units("swap", id) = 0
    BY <1>10, <2>1 DEF SwapAgrees
  <2>3. UnitsIn(g, "swap", id) = 1
    BY <1>7 DEF UnitsIn
  <2>4. Units("swap", id)' = 1
    BY <1>8, <2>2, <2>3
  <2>5. swaps'[id] = off
    BY <1>1, <1>4 DEF SwapTypeOK
  <2>6. (id < nextSwapId') = TRUE
    BY <1>2, <1>3
  <2>7. SwapAt(id)' <=> SwapAgrees(swaps'[id], books'.swaps[id], acceptors'[id],
                          Units("swap", id)', id < nextSwapId')
    BY DEF SwapAt, Swap
  <2>8. Len(<<x>>) = 1
    OBVIOUS
  <2> HIDE DEF w, off
  <2>9. SwapAgrees(off, e, <<x>>, 1, TRUE)
    BY <1>6, <2>1, <2>8 DEF SwapAgrees
  <2> QED
    BY <1>5, <1>12, <2>4, <2>5, <2>6, <2>7, <2>9
<1>14. ASSUME NEW j \in SwapIds, j # id
       PROVE  SwapAt(j)'
  <2>1. SwapAt(j)
    BY DEF SwapsOK
  <2>2. /\ swaps'[j] = swaps[j] /\ books'.swaps[j] = books.swaps[j]
        /\ acceptors'[j] = acceptors[j]
        /\ (j < nextSwapId') <=> (j < nextSwapId)
    BY <1>1, <1>2, <1>4, <1>5, <1>12, <1>14 DEF SwapTypeOK
  <2>3. Units("swap", j)' = Units("swap", j)
    BY <1>11, <1>14
  <2> QED
    BY <2>1, <2>2, <2>3, SwapAtStay
<1>15. SwapsOK'
  BY <1>13, <1>14 DEF SwapsOK
<1> QED
  BY <1>11, <1>15

(* A swap cancelled is closed in the record and in the books. *)
LEMMA CancelSwapTold ==
  ASSUME CoreOK, BooksTypeOK, SwapsOK, OpenSwapsOK, NEW x \in Accounts,
         NEW id \in SwapIds, CancelSwap(x, id), Log(SwapCancelled(id, x))
  PROVE  /\ BooksTypeOK' /\ SwapsOK'
         /\ books'.spots = books.spots /\ books'.tokens = books.tokens
<1> DEFINE w == Swap(id)
           off == [w EXCEPT !.act = FALSE]
           e == books.swaps[id]
           d == [e EXCEPT !.open = FALSE]
<1>1. SwapTypeOK
  BY DEF CoreOK, SwapsTyped
<1>2. /\ w.act /\ swaps' = [swaps EXCEPT ![id].act = FALSE]
      /\ UNCHANGED <<calls, nextSwapId, acceptors>>
  BY DEF CancelSwap
<1>3. id < nextSwapId /\ w \in SwapRecord
  BY <1>1, <1>2 DEF OpenSwapsOK, SwapTypeOK, Swap
<1>4. swaps' = [swaps EXCEPT ![id] = off]
  BY <1>1, <1>2 DEF Swap, SwapTypeOK
<1>5. SwapAgrees(w, e, acceptors[id], Units("swap", id), TRUE)
  BY <1>3 DEF SwapsOK, SwapAt
<1>6. e.known
  BY <1>5 DEF SwapAgrees
<1>7. BooksTypeOK' /\ SwapsRewritten(id, d)
  BY <1>6, TellSwapCancelled
<1>8. off.p = w.p /\ off.oi = w.oi /\ off.wi = w.wi /\ off.act = FALSE
  <2> HIDE DEF w
  <2> QED
    BY <1>3 DEF SwapRecord
<1>9. /\ d.known = e.known /\ d.proposer = e.proposer /\ d.offeredNft = e.offeredNft
      /\ d.wantedNft = e.wantedNft /\ d.acceptor = e.acceptor /\ d.open = FALSE
  <2>1. e \in SwapEntry
    BY <1>6, NoEntryUnknown DEF BooksTypeOK, SwapBook
  <2> HIDE DEF e
  <2> QED
    BY <2>1 DEF SwapEntry
<1>10. swaps'[id] = off
  BY <1>1, <1>4 DEF SwapTypeOK
<1>11. \A op, j : Units(op, j)' = Units(op, j)
  BY <1>2, UnitsStay
<1> HIDE DEF w, off, e, d
<1>12. SwapAgrees(off, d, acceptors[id], Units("swap", id), TRUE)
  BY <1>5, <1>8, <1>9 DEF SwapAgrees
<1>13. SwapAt(id)'
  <2>1. SwapAt(id)' <=> SwapAgrees(swaps'[id], books'.swaps[id], acceptors'[id],
                          Units("swap", id)', id < nextSwapId')
    BY DEF SwapAt, Swap
  <2>2. (id < nextSwapId') = TRUE
    BY <1>2, <1>3
  <2>3. books'.swaps[id] = d
    BY <1>7 DEF SwapsRewritten
  <2> QED
    BY <1>2, <1>10, <1>11, <1>12, <2>1, <2>2, <2>3
<1>14. ASSUME NEW j \in SwapIds, j # id
       PROVE  SwapAt(j)'
  <2>1. SwapAt(j)
    BY DEF SwapsOK
  <2>2. /\ swaps'[j] = swaps[j] /\ books'.swaps[j] = books.swaps[j]
        /\ acceptors'[j] = acceptors[j]
        /\ (j < nextSwapId') <=> (j < nextSwapId)
    BY <1>1, <1>2, <1>4, <1>7, <1>14 DEF SwapTypeOK, SwapsRewritten
  <2> QED
    BY <1>11, <2>1, <2>2, SwapAtStay
<1>15. SwapsOK'
  BY <1>13, <1>14 DEF SwapsOK
<1>16. books'.spots = books.spots /\ books'.tokens = books.tokens
  BY <1>7 DEF SwapsRewritten
<1> QED
  BY <1>7, <1>15, <1>16

(* The return leg completes the acceptance, which is then logged. *)
LEMMA GiveWantedTold ==
  ASSUME CoreOK, BooksTypeOK, SwapsOK, GiveWanted, LogIfLast
  PROVE  /\ BooksTypeOK' /\ SwapsOK'
         /\ books'.spots = books.spots /\ books'.tokens = books.tokens
         /\ \A op, j : op # "swap" =>
              Units(op, j)' = Units(op, j) /\ Pending(op, j)' = Pending(op, j)
<1>1. /\ ~Idle /\ Top.op = "swap" /\ Head(Top.todo) = "return" /\ Returned(Top)
      /\ UNCHANGED <<swaps, nextSwapId, acceptors>>
  BY DEF GiveWanted, InProgress, Barter, HandTo, swapVars
<1>2. /\ Top.id \in SwapIds /\ Top.id < nextSwapId
      /\ Top.todo \in SwapTodos /\ Top.n = 1
      /\ Top.by \in Accounts /\ acceptors[Top.id] = <<Top.by>>
  BY <1>1, TopSwap
<1>3. Top \in Frame
  BY <1>1, TopFits
<1>4. Len(Top.todo) = 1
  BY <1>1, <1>2, SwapStages
<1>5. \A op, j : op # "swap" \/ j # Top.id =>
        Units(op, j)' = Units(op, j) /\ Pending(op, j)' = Pending(op, j)
  BY <1>1, <1>3, TopReturns
<1>6. PICK id : id = Top.id
  OBVIOUS
<1>7. PICK y : y = Top.by
  OBVIOUS
<1>8. id \in SwapIds /\ id < nextSwapId /\ y \in Accounts /\ acceptors[id] = <<y>>
  BY <1>2, <1>6, <1>7
<1>9. Units("swap", id)' = Units("swap", id) - 1
  BY <1>1, <1>2, <1>3, <1>4, <1>6, TopReturns
<1> DEFINE w == swaps[id]
           e == books.swaps[id]
           d == [e EXCEPT !.open = FALSE, !.acceptor = y]
<1>10. SwapAgrees(w, e, <<y>>, Units("swap", id), TRUE)
  BY <1>8 DEF SwapsOK, SwapAt, Swap
<1>11. Units("swap", id) = 1 /\ Units("swap", id)' = 0
  <2>1. calls \in Seq(Frame) /\ CoreOK
    BY DEF CoreOK, CallsTyped
  <2>2. Units("swap", id) \in Nat
    BY <2>1, UnitsType
  <2>3. Len(<<y>>) = 1
    OBVIOUS
  <2>4. Units("swap", id) <= 1
    BY <1>10, <2>3 DEF SwapAgrees
  <2>5. Units("swap", id) >= 1
    <3>1. UnloggedWeight("swap", id)[Top] = 1
      BY <1>1, <1>2, <1>3, <1>6 DEF UnloggedWeight
    <3>2. /\ Weighed(UnloggedWeight("swap", id), Outer) \in Nat
          /\ Weighed(UnloggedWeight("swap", id), calls)
               = Weighed(UnloggedWeight("swap", id), Outer)
                   + UnloggedWeight("swap", id)[Top]
      <4>1. Len(calls) <= MaxDepth /\ Top.todo # <<>>
        BY <1>1, TopFits DEF CoreOK, CallsTyped
      <4>2. UnloggedWeight("swap", id) \in [Frame -> Nat]
        BY UnloggedType
      <4> QED
        BY <1>1, <1>3, <2>1, <4>1, <4>2, WeighedAfter
    <3> QED
      BY <3>1, <3>2 DEF Units
  <2> QED
    BY <1>9, <2>2, <2>4, <2>5
<1>12. e.known
  BY <1>10 DEF SwapAgrees
<1>13. BooksTypeOK' /\ SwapsRewritten(id, d)
  <2>1. LogSale(Top)
    BY <1>4 DEF LogIfLast
  <2>2. Log(SwapAccepted(Top.id, Swap(Top.id).p, Top.by))
    BY <1>1, <2>1 DEF LogSale
  <2>3. \E p : Log(SwapAccepted(id, p, y))
    BY <1>6, <1>7, <2>2
  <2> QED
    BY <1>8, <1>12, <2>3, TellSwapAccepted
<1>14. /\ d.known = e.known /\ d.proposer = e.proposer /\ d.offeredNft = e.offeredNft
       /\ d.wantedNft = e.wantedNft /\ d.acceptor = y /\ d.open = FALSE
  <2>1. e \in SwapEntry
    BY <1>8, <1>12, NoEntryUnknown DEF BooksTypeOK, SwapBook
  <2> HIDE DEF e
  <2> QED
    BY <2>1 DEF SwapEntry
<1> HIDE DEF w, e, d
<1>15. SwapAgrees(w, d, <<y>>, 0, TRUE)
  <2>1. y # NoAccount
    BY <1>8, AccountAssumption
  <2>2. w.act = FALSE \/ ~w.act
    BY <1>10, <1>11 DEF SwapAgrees
  <2>3. Len(<<y>>) = 1
    OBVIOUS
  <2> QED
    BY <1>10, <1>11, <1>14, <2>1, <2>2, <2>3 DEF SwapAgrees
<1>16. SwapAt(id)'
  <2>1. SwapAt(id)' <=> SwapAgrees(swaps'[id], books'.swaps[id], acceptors'[id],
                          Units("swap", id)', id < nextSwapId')
    BY DEF SwapAt, Swap
  <2>2. (id < nextSwapId') = TRUE
    BY <1>1, <1>8
  <2>3. books'.swaps[id] = d
    BY <1>13 DEF SwapsRewritten
  <2>4. swaps'[id] = w /\ acceptors'[id] = <<y>>
    BY <1>1, <1>8 DEF w
  <2> QED
    BY <1>11, <1>15, <2>1, <2>2, <2>3, <2>4
<1>17. ASSUME NEW j \in SwapIds, j # id
       PROVE  SwapAt(j)'
  <2>1. SwapAt(j)
    BY DEF SwapsOK
  <2>2. /\ swaps'[j] = swaps[j] /\ books'.swaps[j] = books.swaps[j]
        /\ acceptors'[j] = acceptors[j]
        /\ (j < nextSwapId') <=> (j < nextSwapId)
    BY <1>1, <1>13, <1>17 DEF SwapsRewritten
  <2>3. Units("swap", j)' = Units("swap", j)
    BY <1>5, <1>6, <1>17
  <2> QED
    BY <2>1, <2>2, <2>3, SwapAtStay
<1>18. SwapsOK'
  BY <1>16, <1>17 DEF SwapsOK
<1>19. books'.spots = books.spots /\ books'.tokens = books.tokens
  BY <1>13 DEF SwapsRewritten
<1> QED
  BY <1>5, <1>13, <1>18, <1>19

(* A call of an acceptance that is neither its payment nor its last leaves *)
(* the log silent and the units to be logged as they are.                  *)
LEMMA EarlierCall ==
  ASSUME CoreOK, ~Idle, Head(Top.todo) # "deliver" \/ Top.op = "swap",
         Len(Top.todo) # 1, NEW g \in Frame, Returned(g), g.op = Top.op,
         g.id = Top.id, g.n = Top.n, g.todo = Top.todo
  PROVE  /\ \A id : Units("swap", id)' = Units("swap", id)
         /\ \A op, id : op # "swap" =>
              Units(op, id)' = Units(op, id) /\ Pending(op, id)' = Pending(op, id)
<1>1. calls \in Seq(Frame)
  BY DEF CoreOK, CallsTyped
<1>2. Top \in Frame /\ Top.n \in Nat
  BY TopFits DEF Frame
<1>3. ASSUME NEW op, NEW id
      PROVE  /\ Units(op, id)' = Units(op, id)
             /\ op # "swap" => Pending(op, id)' = Pending(op, id)
  <2>1. Units(op, id) \in Nat /\ Pending(op, id) \in Nat
    BY <1>1, UnitsType
  <2>2. CASE op # Top.op \/ id # Top.id
    BY <2>2, TopReturns
  <2>3. CASE op = Top.op /\ id = Top.id
    <3>1. /\ Units(op, id)' = Units(op, id) - 0
          /\ Head(Top.todo) # "deliver" => Pending(op, id)' = Pending(op, id) - 0
      BY <2>3, TopReturns
    <3> QED
      BY <2>1, <2>3, <3>1
  <2> QED
    BY <2>2, <2>3
<1> QED
  BY <1>3

-----------------------------------------------------------------------------
(* Every step keeps the three ledgers.                                     *)

(* What the records, the books and the purchases in progress say of one    *)
(* another.                                                                *)
TellsOK == BooksTypeOK /\ SwapsOK /\ SpotsOK /\ CoinsOK

(* Steps that touch none of them. *)
LEMMA QuietTells ==
  ASSUME TellsOK, UNCHANGED <<calls, saleVars, books>>
  PROVE  TellsOK'
<1>1. UNCHANGED calls /\ UNCHANGED books
      /\ UNCHANGED <<swapVars, spotVars, tokenVars>>
  BY DEF saleVars
<1>2. \A op, id : Units(op, id)' = Units(op, id) /\ Pending(op, id)' = Pending(op, id)
  BY <1>1, UnitsStay
<1>3. BooksTypeOK'
  BY <1>1 DEF TellsOK, BooksTypeOK
<1>4. SwapsOK' /\ SpotsOK'
  BY <1>1, <1>2, SwapsStay, SpotsStay DEF TellsOK
<1>5. CoinsOK'
  <2>1. UNCHANGED <<tokenListings, nextTokenListingId, offered, sent>>
    BY <1>1 DEF tokenVars
  <2> QED
    BY <1>1, <1>2, <2>1, CoinsStay DEF TellsOK
<1> QED
  BY <1>3, <1>4, <1>5 DEF TellsOK

(* A call that is not logged and moves no units of a sale. *)
LEMMA SilentCall ==
  ASSUME TellsOK, UNCHANGED <<saleVars, books>>,
         \A id : Units("swap", id)' = Units("swap", id),
         \A op, id : op # "swap" =>
           Units(op, id)' = Units(op, id) /\ Pending(op, id)' = Pending(op, id)
  PROVE  TellsOK'
<1>1. UNCHANGED books /\ UNCHANGED <<swapVars, spotVars, tokenVars>>
  BY DEF saleVars
<1>2. BooksTypeOK'
  BY <1>1 DEF TellsOK, BooksTypeOK
<1>3. \A id : /\ Units("spot", id)' = Units("spot", id)
              /\ Pending("spot", id)' = Pending("spot", id)
              /\ Units("token", id)' = Units("token", id)
              /\ Pending("token", id)' = Pending("token", id)
  OBVIOUS
<1>4. SwapsOK' /\ SpotsOK'
  BY <1>1, <1>3, SwapsStay, SpotsStay DEF TellsOK
<1>5. CoinsOK'
  <2>1. UNCHANGED <<tokenListings, nextTokenListingId, offered, sent>>
    BY <1>1 DEF tokenVars
  <2> QED
    BY <1>1, <1>3, <2>1, CoinsStay DEF TellsOK
<1> QED
  BY <1>2, <1>4, <1>5 DEF TellsOK

(* The first call of every purchase with money, and a distribution that is *)
(* not the last call, are not logged.                                      *)
LEMMA StageNotLast ==
  ASSUME CoreOK, ~Idle
  PROVE  /\ Head(Top.todo) = "pay" => Len(Top.todo) # 1
         /\ Head(Top.todo) = "payout" /\ Top.op = "swap" => Len(Top.todo) # 1
         /\ Top.op \in {"swap", "spot", "token"}
<1>1. Top \in Frame /\ FitsNow(Top) /\ SwapTypeOK
  BY TopFits DEF CoreOK, SwapsTyped
<1>2. Top.op \in {"swap", "spot", "token"}
  BY <1>1 DEF Frame
<1>3. CASE Top.op = "swap"
  <2>1. Top.todo \in SwapTodos
    BY <1>1, <1>3, FitsHasTodo
  <2> QED
    BY <1>2, <2>1, SwapStages
<1>4. CASE Top.op # "swap"
  <2>1. Top.todo \in SaleTodos
    BY <1>1, <1>2, <1>4, FitsHasTodo
  <2> QED
    BY <1>2, <1>4, <2>1, SaleStages
<1> QED
  BY <1>3, <1>4

(* A payment that arrives is not logged yet. *)
LEMMA PayTells ==
  ASSUME MarketInv, CoreOK, TellsOK, NEW arrived, Pay(arrived), Silent,
         UNCHANGED saleVars
  PROVE  TellsOK'
<1> DEFINE g == [Top EXCEPT !.got = Credited(Top, arrived)]
<1>1. ~Idle /\ Head(Top.todo) = "pay" /\ Returned(g)
  BY DEF Pay
<1>2. Top \in Frame /\ Credited(Top, arrived) \in Nat
  BY <1>1, TopFits, PaymentMeasured
<1>3. /\ g \in Frame /\ g.op = Top.op /\ g.id = Top.id /\ g.n = Top.n
      /\ g.todo = Top.todo
  <2> DEFINE c == Credited(Top, arrived)
             f == Top
  <2>1. c \in Nat /\ f \in Frame
    BY <1>2
  <2> HIDE DEF c, f
  <2>2. /\ [f EXCEPT !.got = c] \in Frame
        /\ [f EXCEPT !.got = c].op = f.op /\ [f EXCEPT !.got = c].id = f.id
        /\ [f EXCEPT !.got = c].n = f.n /\ [f EXCEPT !.got = c].todo = f.todo
    BY <2>1 DEF Frame
  <2> QED
    BY <2>2 DEF c, f
<1> HIDE DEF g
<1>4. Len(Top.todo) # 1 /\ Head(Top.todo) # "deliver"
  BY <1>1, StageNotLast
<1>5. /\ \A id : Units("swap", id)' = Units("swap", id)
      /\ \A op, id : op # "swap" =>
           Units(op, id)' = Units(op, id) /\ Pending(op, id)' = Pending(op, id)
  BY <1>1, <1>3, <1>4, EarlierCall
<1>6. UNCHANGED <<saleVars, books>>
  BY DEF Silent
<1> QED
  BY <1>5, <1>6, SilentCall

(* A distribution completes the sale of spots or coins, which is logged. *)
LEMMA PayOutTells ==
  ASSUME CoreOK, TellsOK, PayOut, LogIfLast, UNCHANGED saleVars
  PROVE  TellsOK'
<1>1. ~Idle /\ Head(Top.todo) = "payout" /\ Returned(Top)
  BY DEF PayOut
<1>2. Top.op \in {"swap", "spot", "token"} /\ Top \in Frame
  BY <1>1, StageNotLast, TopFits
<1>3. UNCHANGED swapVars /\ UNCHANGED spotVars /\ UNCHANGED tokenVars
  BY DEF saleVars
<1>4. UNCHANGED <<tokenListings, nextTokenListingId, offered, sent>>
  BY <1>3 DEF tokenVars
<1>5. CASE Top.op = "swap"
  <2>1. Len(Top.todo) # 1
    BY <1>1, <1>5, StageNotLast
  <2>2. /\ \A id : Units("swap", id)' = Units("swap", id)
        /\ \A op, id : op # "swap" =>
             Units(op, id)' = Units(op, id) /\ Pending(op, id)' = Pending(op, id)
    BY <1>1, <1>2, <1>5, <2>1, EarlierCall
  <2>3. UNCHANGED <<saleVars, books>>
    BY <2>1 DEF LogIfLast, Silent
  <2> QED
    BY <2>2, <2>3, SilentCall
<1>6. CASE Top.op = "spot"
  <2>1. /\ BooksTypeOK' /\ SpotsOK'
        /\ books'.swaps = books.swaps /\ books'.tokens = books.tokens
        /\ \A op, j : op # "spot" =>
             Units(op, j)' = Units(op, j) /\ Pending(op, j)' = Pending(op, j)
    BY <1>3, <1>6, PayOutSold DEF TellsOK
  <2>2. SwapsOK'
    <3>1. \A id : Units("swap", id)' = Units("swap", id)
      BY <2>1
    <3> QED
      BY <1>3, <2>1, <3>1, SwapsStay DEF TellsOK
  <2>3. CoinsOK'
    <3>1. \A id : /\ Units("token", id)' = Units("token", id)
                  /\ Pending("token", id)' = Pending("token", id)
      BY <2>1
    <3> QED
      BY <1>4, <2>1, <3>1, CoinsStay DEF TellsOK
  <2> QED
    BY <2>1, <2>2, <2>3 DEF TellsOK
<1>7. CASE Top.op = "token"
  <2>1. /\ BooksTypeOK' /\ CoinsOK'
        /\ books'.swaps = books.swaps /\ books'.spots = books.spots
        /\ \A op, j : op # "token" =>
             Units(op, j)' = Units(op, j) /\ Pending(op, j)' = Pending(op, j)
    BY <1>3, <1>7, PayOutCoins DEF TellsOK
  <2>2. SwapsOK'
    <3>1. \A id : Units("swap", id)' = Units("swap", id)
      BY <2>1
    <3> QED
      BY <1>3, <2>1, <3>1, SwapsStay DEF TellsOK
  <2>3. SpotsOK'
    <3>1. \A id : /\ Units("spot", id)' = Units("spot", id)
                  /\ Pending("spot", id)' = Pending("spot", id)
      BY <2>1
    <3> QED
      BY <1>3, <2>1, <3>1, SpotsStay DEF TellsOK
  <2> QED
    BY <2>1, <2>2, <2>3 DEF TellsOK
<1> QED
  BY <1>2, <1>5, <1>6, <1>7

(* Every step of the swaps. *)
LEMMA SwapStepTells ==
  ASSUME MarketInv, CoreOK, OpenOK, TellsOK, SwapStep
  PROVE  TellsOK'
<1>1. UNCHANGED spotVars /\ UNCHANGED tokenVars
  BY DEF SwapStep, OfSwaps
<1>2. UNCHANGED <<tokenListings, nextTokenListingId, offered, sent>>
  BY <1>1 DEF tokenVars
<1>3. BooksTypeOK /\ SwapsOK /\ SpotsOK /\ CoinsOK /\ OpenSwapsOK
  BY DEF TellsOK, OpenOK
<1>4. ASSUME BooksTypeOK', SwapsOK', books'.spots = books.spots,
             books'.tokens = books.tokens,
             \A op, j : op # "swap" =>
               Units(op, j)' = Units(op, j) /\ Pending(op, j)' = Pending(op, j)
      PROVE  TellsOK'
  <2>1. \A id : /\ Units("spot", id)' = Units("spot", id)
                /\ Pending("spot", id)' = Pending("spot", id)
                /\ Units("token", id)' = Units("token", id)
                /\ Pending("token", id)' = Pending("token", id)
    BY <1>4
  <2>2. SpotsOK'
    BY <1>1, <1>3, <1>4, <2>1, SpotsStay
  <2>3. CoinsOK'
    BY <1>2, <1>3, <1>4, <2>1, CoinsStay
  <2> QED
    BY <1>4, <2>2, <2>3 DEF TellsOK
<1>5. ASSUME NEW x \in Accounts, NEW side \in Sides, NEW topUp \in TopUps,
             NEW exp \in SwapExpirations,
             ProposeSwap(x, side, topUp[1], topUp[2], exp),
             Log(SwapProposed(nextSwapId, x, CollectionOf[side.oi],
                              CollectionOf[side.wi]))
      PROVE  TellsOK'
  <2>1. /\ BooksTypeOK' /\ SwapsOK'
        /\ books'.spots = books.spots /\ books'.tokens = books.tokens
    BY <1>3, <1>5, ProposeSwapTold
  <2>2. calls' = calls
    BY <1>5 DEF ProposeSwap
  <2>3. \A op, j : Units(op, j)' = Units(op, j) /\ Pending(op, j)' = Pending(op, j)
    BY <2>2, UnitsStay
  <2> QED
    BY <1>4, <2>1, <2>3
<1>6. ASSUME NEW x \in Accounts, NEW id \in SwapIds, AcceptSwap(x, id), Silent
      PROVE  TellsOK'
  <2>1. /\ SwapsOK'
        /\ \A op, j : op # "swap" =>
             Units(op, j)' = Units(op, j) /\ Pending(op, j)' = Pending(op, j)
    BY <1>3, <1>6, AcceptSwapTold
  <2>2. books' = books
    BY <1>6 DEF Silent
  <2>3. BooksTypeOK'
    BY <1>3, <2>2 DEF BooksTypeOK
  <2> QED
    BY <1>4, <2>1, <2>2, <2>3
<1>7. ASSUME NEW x \in Accounts, NEW id \in SwapIds, CancelSwap(x, id),
             Log(SwapCancelled(id, x))
      PROVE  TellsOK'
  <2>1. /\ BooksTypeOK' /\ SwapsOK'
        /\ books'.spots = books.spots /\ books'.tokens = books.tokens
    BY <1>3, <1>7, CancelSwapTold
  <2>2. calls' = calls
    BY <1>7 DEF CancelSwap
  <2>3. \A op, j : Units(op, j)' = Units(op, j) /\ Pending(op, j)' = Pending(op, j)
    BY <2>2, UnitsStay
  <2> QED
    BY <1>4, <2>1, <2>3
<1>8. ASSUME GiveOffered, LogIfLast
      PROVE  TellsOK'
  <2>1. /\ ~Idle /\ Top.op = "swap" /\ Head(Top.todo) = "deliver" /\ Returned(Top)
        /\ UNCHANGED swapVars
    BY <1>8 DEF GiveOffered, InProgress, Barter, HandTo
  <2>2. Top \in Frame /\ Top.todo \in SwapTodos
    BY <2>1, TopFits, TopSwap
  <2>3. Len(Top.todo) # 1
    BY <2>1, <2>2, SwapStages
  <2>4. /\ \A id : Units("swap", id)' = Units("swap", id)
        /\ \A op, id : op # "swap" =>
             Units(op, id)' = Units(op, id) /\ Pending(op, id)' = Pending(op, id)
    BY <2>1, <2>2, <2>3, EarlierCall
  <2>5. UNCHANGED <<saleVars, books>>
    BY <1>1, <1>8, <2>1, <2>3 DEF LogIfLast, Silent, saleVars
  <2> QED
    BY <2>4, <2>5, SilentCall
<1>9. ASSUME GiveWanted, LogIfLast
      PROVE  TellsOK'
  BY <1>3, <1>4, <1>9, GiveWantedTold
<1> QED
  BY <1>5, <1>6, <1>7, <1>8, <1>9 DEF SwapStep

(* Every step of the mint spots. *)
LEMMA SpotStepTells ==
  ASSUME CoreOK, OpenOK, TellsOK, SpotStep
  PROVE  TellsOK'
<1>1. UNCHANGED swapVars /\ UNCHANGED tokenVars
  BY DEF SpotStep, OfSpots
<1>2. UNCHANGED <<tokenListings, nextTokenListingId, offered, sent>>
  BY <1>1 DEF tokenVars
<1>3. BooksTypeOK /\ SwapsOK /\ SpotsOK /\ CoinsOK /\ OpenSpotsOK
  BY DEF TellsOK, OpenOK
<1>4. ASSUME BooksTypeOK', SpotsOK', books'.swaps = books.swaps,
             books'.tokens = books.tokens,
             \A op, j : op # "spot" =>
               Units(op, j)' = Units(op, j) /\ Pending(op, j)' = Pending(op, j)
      PROVE  TellsOK'
  <2>1. \A id : /\ Units("swap", id)' = Units("swap", id)
                /\ Units("token", id)' = Units("token", id)
                /\ Pending("token", id)' = Pending("token", id)
    BY <1>4
  <2>2. SwapsOK'
    BY <1>1, <1>3, <1>4, <2>1, SwapsStay
  <2>3. CoinsOK'
    BY <1>2, <1>3, <1>4, <2>1, CoinsStay
  <2> QED
    BY <1>4, <2>2, <2>3 DEF TellsOK
<1>5. ASSUME NEW x \in Accounts, NEW i \in Items, NEW t \in Tokens,
             NEW p \in SpotPrices, NEW ms \in SpotCaps, NEW exp \in SpotExpirations,
             NEW start \in SpotStarts, ListMintSpots(x, i, t, p, ms, exp, start),
             Log(MintSpotsListed(nextSpotId, x, i, ms))
      PROVE  TellsOK'
  <2>1. /\ BooksTypeOK' /\ SpotsOK'
        /\ books'.swaps = books.swaps /\ books'.tokens = books.tokens
    BY <1>3, <1>5, ListMintSpotsSold
  <2>2. calls' = calls
    BY <1>5 DEF ListMintSpots
  <2>3. \A op, j : Units(op, j)' = Units(op, j) /\ Pending(op, j)' = Pending(op, j)
    BY <2>2, UnitsStay
  <2> QED
    BY <1>4, <2>1, <2>3
<1>6. ASSUME NEW x \in Accounts, NEW id \in SpotIds, DelistMintSpots(x, id),
             Log(MintSpotsDelisted(id, x))
      PROVE  TellsOK'
  <2>1. /\ BooksTypeOK' /\ SpotsOK'
        /\ books'.swaps = books.swaps /\ books'.tokens = books.tokens
    BY <1>3, <1>6, DelistMintSpotsSold
  <2>2. calls' = calls
    BY <1>6 DEF DelistMintSpots
  <2>3. \A op, j : Units(op, j)' = Units(op, j) /\ Pending(op, j)' = Pending(op, j)
    BY <2>2, UnitsStay
  <2> QED
    BY <1>4, <2>1, <2>3
<1>7. ASSUME NEW x \in Accounts, NEW id \in SpotIds, NEW n \in SpotAmounts,
             BuyMintSpot(x, id, n), Silent
      PROVE  TellsOK'
  <2>1. /\ SpotsOK'
        /\ \A op, j : op # "spot" =>
             Units(op, j)' = Units(op, j) /\ Pending(op, j)' = Pending(op, j)
    BY <1>3, <1>7, BuyMintSpotSold
  <2>2. books' = books
    BY <1>7 DEF Silent
  <2>3. BooksTypeOK'
    BY <1>3, <2>2 DEF BooksTypeOK
  <2> QED
    BY <1>4, <2>1, <2>2, <2>3
<1>8. ASSUME Mint, LogIfLast
      PROVE  TellsOK'
  <2>1. /\ SpotsOK' /\ UNCHANGED books
        /\ \A op, j : op # "spot" =>
             Units(op, j)' = Units(op, j) /\ Pending(op, j)' = Pending(op, j)
    BY <1>3, <1>8, MintSold
  <2>2. BooksTypeOK'
    BY <1>3, <2>1 DEF BooksTypeOK
  <2> QED
    BY <1>4, <2>1, <2>2
<1> QED
  BY <1>5, <1>6, <1>7, <1>8 DEF SpotStep

(* Every step of the token sales. *)
LEMMA TokenStepTells ==
  ASSUME CoreOK, OpenOK, TellsOK, TokenStep
  PROVE  TellsOK'
<1>1. UNCHANGED swapVars /\ UNCHANGED spotVars
  BY DEF TokenStep, OfTokens
<1>2. BooksTypeOK /\ SwapsOK /\ SpotsOK /\ CoinsOK /\ OpenTokensOK
  BY DEF TellsOK, OpenOK
<1>3. ASSUME BooksTypeOK', CoinsOK', books'.swaps = books.swaps,
             books'.spots = books.spots,
             \A op, j : op # "token" =>
               Units(op, j)' = Units(op, j) /\ Pending(op, j)' = Pending(op, j)
      PROVE  TellsOK'
  <2>1. \A id : /\ Units("swap", id)' = Units("swap", id)
                /\ Units("spot", id)' = Units("spot", id)
                /\ Pending("spot", id)' = Pending("spot", id)
    BY <1>3
  <2>2. SwapsOK'
    BY <1>1, <1>2, <1>3, <2>1, SwapsStay
  <2>3. SpotsOK'
    BY <1>1, <1>2, <1>3, <2>1, SpotsStay
  <2> QED
    BY <1>3, <2>2, <2>3 DEF TellsOK
<1>4. ASSUME NEW x \in Accounts, NEW tc \in Tokens, NEW t \in Tokens,
             NEW a \in TokenAmounts, NEW p \in TokenPrices,
             NEW exp \in TokenExpirations, NEW start \in TokenStarts,
             ListToken(x, tc, a, p, t, exp, start),
             Log(TokenListed(nextTokenListingId, x, tc, a, t, p, exp))
      PROVE  TellsOK'
  <2>1. calls' = calls
    BY <1>4 DEF ListToken
  <2>2. /\ BooksTypeOK' /\ CoinsOK'
        /\ books'.swaps = books.swaps /\ books'.spots = books.spots
    BY <1>2, <1>4, <2>1, ListTokenCoins
  <2>3. \A op, j : Units(op, j)' = Units(op, j) /\ Pending(op, j)' = Pending(op, j)
    BY <2>1, UnitsStay
  <2> QED
    BY <1>3, <2>2, <2>3
<1>5. ASSUME NEW x \in Accounts, NEW id \in TokenListingIds, DelistToken(x, id),
             Log(TokenDelisted(id, x))
      PROVE  TellsOK'
  <2>1. /\ BooksTypeOK' /\ CoinsOK'
        /\ books'.swaps = books.swaps /\ books'.spots = books.spots
    BY <1>2, <1>5, DelistTokenCoins
  <2>2. calls' = calls
    BY <1>5 DEF DelistToken
  <2>3. \A op, j : Units(op, j)' = Units(op, j) /\ Pending(op, j)' = Pending(op, j)
    BY <2>2, UnitsStay
  <2> QED
    BY <1>3, <2>1, <2>3
<1>6. ASSUME NEW x \in Accounts, NEW id \in TokenListingIds, NEW n \in TokenAmounts,
             BuyToken(x, id, n), Silent
      PROVE  TellsOK'
  <2>1. /\ CoinsOK'
        /\ \A op, j : op # "token" =>
             Units(op, j)' = Units(op, j) /\ Pending(op, j)' = Pending(op, j)
    BY <1>2, <1>6, BuyTokenCoins
  <2>2. books' = books
    BY <1>6 DEF Silent
  <2>3. BooksTypeOK'
    BY <1>2, <2>2 DEF BooksTypeOK
  <2> QED
    BY <1>3, <2>1, <2>2, <2>3
<1>7. ASSUME NEW arriving, HandCoins(arriving), LogIfLast
      PROVE  TellsOK'
  <2>1. /\ CoinsOK' /\ UNCHANGED books
        /\ \A op, j : op # "token" =>
             Units(op, j)' = Units(op, j) /\ Pending(op, j)' = Pending(op, j)
    BY <1>2, <1>7, HandCoinsCoins
  <2>2. BooksTypeOK'
    BY <1>2, <2>1 DEF BooksTypeOK
  <2> QED
    BY <1>3, <2>1, <2>2
<1>8. ASSUME NEW txy \in TokenTrades, TradeTokens(txy[1], txy[2], txy[3]), Silent
      PROVE  TellsOK'
  <2>1. /\ calls' = calls /\ UNCHANGED books
        /\ UNCHANGED <<tokenListings, nextTokenListingId, offered, sent>>
    BY <1>8 DEF TradeTokens, Silent
  <2>2. \A op, j : Units(op, j)' = Units(op, j) /\ Pending(op, j)' = Pending(op, j)
    BY <2>1, UnitsStay
  <2>3. CoinsOK' /\ BooksTypeOK'
    BY <1>2, <2>1, <2>2, CoinsStay DEF BooksTypeOK
  <2> QED
    BY <1>3, <2>1, <2>2, <2>3
<1> QED
  BY <1>4, <1>5, <1>6, <1>7, <1>8 DEF TokenStep

(* Every step. *)
LEMMA TellsStep ==
  ASSUME CoreInv, TellsOK, [Next]_vars
  PROVE  TellsOK'
<1>1. MarketInv /\ CoreOK /\ OpenOK
  BY DEF CoreInv
<1>2. CASE Environment
  BY <1>2, QuietTells DEF Environment
<1>3. CASE MoneyMoves
  <2>1. UNCHANGED saleVars
    BY <1>3 DEF MoneyMoves
  <2>2. CASE PayOut /\ LogIfLast
    BY <1>1, <2>1, <2>2, PayOutTells
  <2>3. CASE \E arrived \in 0 .. (IF Idle THEN 0 ELSE Top.ask) : Pay(arrived) /\ Silent
    BY <1>1, <2>1, <2>3, PayTells
  <2> QED
    BY <1>3, <2>2, <2>3 DEF MoneyMoves
<1>4. CASE SwapStep
  BY <1>1, <1>4, SwapStepTells
<1>5. CASE SpotStep
  BY <1>1, <1>5, SpotStepTells
<1>6. CASE TokenStep
  BY <1>1, <1>6, TokenStepTells
<1>7. CASE \E ix \in Allowances : SetApproval(ix[1], ix[2])
  BY <1>7, QuietTells DEF SetApproval
<1>8. CASE \E ixy \in OutsideTrades : TransferOutside(ixy[1], ixy[2], ixy[3])
  BY <1>8, QuietTells DEF TransferOutside
<1>9. CASE UNCHANGED vars
  BY <1>9, QuietTells DEF vars
<1> QED
  BY <1>2, <1>3, <1>4, <1>5, <1>6, <1>7, <1>8, <1>9 DEF Next

(* At first nothing is known, nothing is sold and nothing is told. *)
LEMMA TellsAtFirst == Init => TellsOK
<1> SUFFICES ASSUME Init
             PROVE  TellsOK
  OBVIOUS
<1>1. CoreOK
  BY CoreAtFirst DEF CoreInv
<1>2. /\ swaps = [id \in SwapIds |-> NoSwap] /\ nextSwapId = 0
      /\ acceptors = [id \in SwapIds |-> <<>>]
  BY DEF Init, SwapInit
<1>3. /\ spots = [id \in SpotIds |-> NoSpots] /\ nextSpotId = 0
      /\ minted = [ix \in SpotIds \X Accounts |-> 0]
  BY DEF Init, SpotInit
<1>4. /\ tokenListings = [id \in TokenListingIds |-> NoTokenListing]
      /\ nextTokenListingId = 0
      /\ offered = [id \in TokenListingIds |-> 0]
      /\ sent = [id \in TokenListingIds |-> 0]
  BY DEF Init, TokenSaleInit
<1>5. /\ books = [swaps |-> [id \in SwapIds |-> NoEntry],
                  spots |-> [id \in SpotIds |-> NoEntry],
                  tokens |-> [id \in TokenListingIds |-> NoEntry]]
      /\ NoEntry.known = FALSE
  BY NoEntryUnknown DEF Init, SaleBooks
<1>6. BooksTypeOK
  BY <1>5 DEF BooksTypeOK, SwapBook, SpotBook, TokenBook
<1>7. SwapsOK
  <2> SUFFICES ASSUME NEW id \in SwapIds
               PROVE  SwapAt(id)
    BY DEF SwapsOK
  <2>1. id \in Nat /\ id >= nextSwapId /\ ~(id < nextSwapId)
    BY <1>2, SwapAssumption DEF SwapIds
  <2>2. Units("swap", id) = 0
    BY <1>1, <2>1, NoSwapUnits
  <2>3. acceptors[id] = <<>> /\ books.swaps[id] = NoEntry
    BY <1>2, <1>5
  <2>4. Len(acceptors[id]) = 0
    BY <2>3
  <2> QED
    BY <1>5, <2>1, <2>2, <2>3, <2>4 DEF SwapAt, SwapAgrees
<1>8. ASSUME NEW id \in SpotIds
      PROVE  SpotsAt(id) /\ MintedBy(id) = 0
  <2>1. id \in Nat /\ id >= nextSpotId /\ ~(id < nextSpotId)
    BY <1>3, SpotAssumption DEF SpotIds
  <2>2. Pending("spot", id) = 0
    BY <1>1, <2>1, NoSpotUnits
  <2>3. \A x \in Accounts : minted[<<id, x>>] = 0
    BY <1>3
  <2>4. MintedBy(id) = 0 /\ FewMinted(id)
    BY <2>3, MintedNone
  <2>5. SpotListing(id).sold = 0 /\ SpotListing(id).ms = 0 /\ books.spots[id] = NoEntry
    BY <1>3, <1>5 DEF SpotListing, NoSpots
  <2>6. 0 % Word = 0 /\ 0 + 0 = 0
    BY CustodyAssumption
  <2> QED
    BY <1>5, <2>1, <2>2, <2>3, <2>4, <2>5, <2>6 DEF SpotsAt, SpotsAgree
<1>9. EditionsOK
  <2> SUFFICES ASSUME NEW i \in Items
               PROVE  MintedOf(i) <= EditionSize[i]
    BY DEF EditionsOK
  <2>1. [id \in SpotIds |-> IF SpotListing(id).item = i THEN MintedBy(id) ELSE 0]
          = [id \in SpotIds |-> 0]
    BY <1>8
  <2>2. MintedOf(i) = 0
    BY <2>1, TotalZero DEF MintedOf
  <2>3. EditionSize[i] \in 0 .. Word - 1 /\ Word \in Nat
    BY SpotAssumption, CustodyAssumption
  <2> QED
    BY <2>2, <2>3
<1>10. CoinsOK
  <2> SUFFICES ASSUME NEW id \in TokenListingIds
               PROVE  CoinsAt(id)
    BY DEF CoinsOK
  <2>1. id \in Nat /\ id >= nextTokenListingId /\ ~(id < nextTokenListingId)
    BY <1>4, TokenSaleAssumption DEF TokenListingIds
  <2>2. Pending("token", id) = 0
    BY <1>1, <2>1, NoTokenUnits
  <2>3. /\ TokenListing(id).a = 0 /\ TokenListing(id).act = FALSE
        /\ offered[id] = 0 /\ sent[id] = 0 /\ books.tokens[id] = NoEntry
    BY <1>4, <1>5 DEF TokenListing, NoTokenListing
  <2> QED
    BY <1>5, <2>1, <2>2, <2>3 DEF CoinsAt, CoinsAgree
<1> QED
  BY <1>6, <1>7, <1>8, <1>9, <1>10 DEF TellsOK, SpotsOK

-----------------------------------------------------------------------------
(* Records, books and purchases in progress agree in every state.          *)
THEOREM TellsInvariant == Spec => [](CoreInv /\ TellsOK)
<1>1. Init => CoreInv /\ TellsOK
  BY CoreAtFirst, TellsAtFirst
<1>2. CoreInv /\ TellsOK /\ [Next]_vars => (CoreInv /\ TellsOK)'
  BY CoreStep, TellsStep
<1> QED
  BY <1>1, <1>2, PTL DEF Spec

(* What is shown and told of spots, from the invariant. *)
LEMMA SpotsShown ==
  ASSUME CoreOK, SpotsOK, NEW id \in SpotIds
  PROVE  LET l == SpotListing(id)
             units == MintedBy(id) + InFlight("spot", id)
         IN
         /\ l.sold = units % Word
         /\ l.ms # 0 => units <= l.ms /\ (units = l.ms => ~l.act)
         /\ SpotsTold(id)
<1> DEFINE l == SpotListing(id)
           e == books.spots[id]
           units == MintedBy(id) + Pending("spot", id)
           u == Units("spot", id)
           known == (id < nextSpotId) = TRUE
           shown == GetMintSpotListing(id)
<1>1. SpotsAgree(l, e, units, u, known)
  BY DEF SpotsOK, SpotsAt
<1>2. InFlight("spot", id) = Pending("spot", id) /\ UnloggedUnits("spot", id) = u
  BY SumsWeigh DEF CoreOK, CallsTyped, Units, Pending
<1>3. /\ shown.lister = l.s /\ shown.item = l.item /\ shown.maxSpots = l.ms
      /\ shown.sold = l.sold /\ shown.active = l.act
  BY DEF GetMintSpotListing
<1> HIDE DEF l, e, units, u, shown, known
<1>4. /\ l.sold = units % Word
      /\ l.ms # 0 => units <= l.ms /\ (units = l.ms => ~l.act)
  BY <1>1 DEF SpotsAgree
<1>5. /\ e.known <=> known
      /\ known =>
           /\ e.lister = shown.lister /\ e.item = shown.item
           /\ e.maxSpots = shown.maxSpots
           /\ shown.sold = (e.taken + u) % Word
           /\ shown.active <=> e.open /\ ~(shown.maxSpots # 0 /\ shown.sold = shown.maxSpots)
  BY <1>1, <1>3 DEF SpotsAgree
<1>6. SpotsTold(id)
  BY <1>2, <1>5 DEF SpotsTold, e, shown, known
<1> QED
  BY <1>2, <1>4, <1>6 DEF l, units

(* What is shown and told of coins, from the invariant. *)
LEMMA CoinsShown ==
  ASSUME CoreOK, CoinsOK, NEW id \in TokenListingIds
  PROVE  LET l == TokenListing(id) IN
         /\ l.a + sent[id] + InFlight("token", id) = offered[id]
         /\ l.a = 0 => ~l.act
         /\ CoinsTold(id)
<1> DEFINE l == TokenListing(id)
           e == books.tokens[id]
           p == Pending("token", id)
           u == Units("token", id)
           known == (id < nextTokenListingId) = TRUE
           shown == GetTokenListing(id)
<1>1. CoinsAgree(l, e, offered[id], sent[id], u, p, known)
  BY DEF CoinsOK, CoinsAt
<1>2. InFlight("token", id) = p /\ UnloggedUnits("token", id) = u
  BY SumsWeigh DEF CoreOK, CallsTyped, Units, Pending
<1>3. /\ shown.seller = l.s /\ shown.tokenContract = l.tc /\ shown.pricePerUnit = l.p
      /\ shown.paymentToken = l.pt /\ shown.expirationBlock = l.exp
      /\ shown.amount = l.a /\ shown.active = l.act
  BY DEF GetTokenListing
<1> HIDE DEF l, e, p, u, shown, known
<1>4. l.a + sent[id] + p = offered[id] /\ (l.a = 0 => ~l.act)
  BY <1>1 DEF CoinsAgree
<1>5. /\ e.known <=> known
      /\ known =>
           /\ e.seller = shown.seller /\ e.tokenContract = shown.tokenContract
           /\ e.pricePerUnit = shown.pricePerUnit
           /\ e.paymentToken = shown.paymentToken
           /\ e.expirationBlock = shown.expirationBlock
           /\ e.amount = shown.amount + u
           /\ shown.active <=> e.open /\ shown.amount # 0
  BY <1>1, <1>3 DEF CoinsAgree
<1>6. known => \A f \in {"seller", "tokenContract", "pricePerUnit", "paymentToken",
                          "expirationBlock"} : e[f] = shown[f]
  BY <1>5
<1>7. CoinsTold(id)
  BY <1>2, <1>5, <1>6 DEF CoinsTold, e, shown, known
<1> QED
  BY <1>2, <1>4, <1>7 DEF l, p

(* What a listing says is sold is what was delivered or is being           *)
(* delivered, within its cap and its edition, closed when it is all gone,  *)
(* and told truly by log and query: however the purchases of one listing,  *)
(* or of listings that count on one allowance, run inside one another      *)
(* (buyMintSpot and buyToken write before they call).                      *)
THEOREM SoldIsDeliveredAlways == Spec => []SoldIsDelivered
<1>1. CoreInv /\ TellsOK => SoldIsDelivered
  <2> SUFFICES ASSUME CoreInv, TellsOK
               PROVE  SoldIsDelivered
    OBVIOUS
  <2>1. CoreOK /\ SpotsOK /\ CoinsOK
    BY DEF CoreInv, TellsOK
  <2>2. \A i \in Items : MintedOf(i) <= EditionSize[i]
    BY <2>1 DEF SpotsOK, EditionsOK
  <2>3. ASSUME NEW id \in SpotIds
        PROVE  LET l == SpotListing(id)
                   units == MintedBy(id) + InFlight("spot", id)
               IN
               /\ l.sold = units % Word
               /\ l.ms # 0 => units <= l.ms /\ (units = l.ms => ~l.act)
               /\ SpotsTold(id)
    BY <2>1, SpotsShown
  <2>4. ASSUME NEW id \in TokenListingIds
        PROVE  LET l == TokenListing(id) IN
               /\ l.a + sent[id] + InFlight("token", id) = offered[id]
               /\ l.a = 0 => ~l.act
               /\ CoinsTold(id)
    BY <2>1, CoinsShown
  <2> QED
    BY <2>2, <2>3, <2>4, Zenon DEF SoldIsDelivered
<1> QED
  BY <1>1, TellsInvariant, PTL

-----------------------------------------------------------------------------
(* The ledger of the items.                                                *)

(* What x gets of i when n units of item go to party. *)
Part(party, item, n, i, x) == IF party = x /\ item = i THEN n ELSE 0

(* What x gets of i in swap w that y accepts, and what x gives. *)
LegsIn(w, y, i, x) == Part(y, w.oi, w.oa, i, x) + Part(w.p, w.wi, w.wa, i, x)

(* The same for what x gives. *)
LegsOut(w, y, i, x) == Part(w.p, w.oi, w.oa, i, x) + Part(y, w.wi, w.wa, i, x)

(* What of it is yet to come when the calls todo remain. *)
DueIn(w, y, todo, i, x) ==
  (IF "deliver" \in ToSet(todo) THEN Part(y, w.oi, w.oa, i, x) ELSE 0)
  + (IF "return" \in ToSet(todo) THEN Part(w.p, w.wi, w.wa, i, x) ELSE 0)

(* The same for what x gives. *)
DueOut(w, y, todo, i, x) ==
  (IF "deliver" \in ToSet(todo) THEN Part(w.p, w.oi, w.oa, i, x) ELSE 0)
  + (IF "return" \in ToSet(todo) THEN Part(y, w.wi, w.wa, i, x) ELSE 0)

(* What the acceptances in progress have yet to bring x. *)
InWeight(sw, i, x) ==
  [f \in Frame |-> IF f.op = "swap" /\ f.id \in SwapIds
                   THEN DueIn(sw[f.id], f.by, f.todo, i, x) ELSE 0]

(* What they have yet to take from x. *)
OutWeight(sw, i, x) ==
  [f \in Frame |-> IF f.op = "swap" /\ f.id \in SwapIds
                   THEN DueOut(sw[f.id], f.by, f.todo, i, x) ELSE 0]

(* The difference. *)
Due(i, x) ==
  Weighed(InWeight(swaps, i, x), calls) - Weighed(OutWeight(swaps, i, x), calls)

(* What x got of i in each of the swaps accepted. *)
GotIn(sw, acc, i, x) ==
  [id \in SwapIds |-> IF acc[id] # <<>> THEN LegsIn(sw[id], acc[id][1], i, x) ELSE 0]

(* What x gave. *)
GaveIn(sw, acc, i, x) ==
  [id \in SwapIds |-> IF acc[id] # <<>> THEN LegsOut(sw[id], acc[id][1], i, x) ELSE 0]

(* What x has of i and has yet to get from acceptances in progress is what *)
(* it had at first, traded elsewhere, was minted and bartered.             *)
LedgerAt(i, x) ==
  nft[i][x] + Due(i, x)
    = MintedTo[i][x] + outside[<<i, x>>] + SpotsOf(i, x) + Bartered(i, x)

(* Of every item and account. *)
LedgerOK == \A i \in Items, x \in Accounts : LedgerAt(i, x)

(* A part is a number. *)
LEMMA PartType ==
  ASSUME NEW party, NEW item, NEW n \in Nat, NEW i, NEW x
  PROVE  Part(party, item, n, i, x) \in Nat
BY DEF Part

(* The legs of a swap are numbers. *)
LEMMA LegsType ==
  ASSUME NEW w \in SwapRecord, NEW y, NEW i, NEW x, NEW todo
  PROVE  /\ LegsIn(w, y, i, x) \in Nat /\ LegsOut(w, y, i, x) \in Nat
         /\ DueIn(w, y, todo, i, x) \in Nat /\ DueOut(w, y, todo, i, x) \in Nat
<1> DEFINE a == Part(y, w.oi, w.oa, i, x)
           b == Part(w.p, w.wi, w.wa, i, x)
           c == Part(w.p, w.oi, w.oa, i, x)
           d == Part(y, w.wi, w.wa, i, x)
<1>1. w.oa \in Nat /\ w.wa \in Nat
  BY DEF SwapRecord
<1>2. a \in Nat /\ b \in Nat /\ c \in Nat /\ d \in Nat
  BY <1>1, PartType
<1>3. /\ LegsIn(w, y, i, x) = a + b /\ LegsOut(w, y, i, x) = c + d
      /\ DueIn(w, y, todo, i, x) = (IF "deliver" \in ToSet(todo) THEN a ELSE 0)
                                   + (IF "return" \in ToSet(todo) THEN b ELSE 0)
      /\ DueOut(w, y, todo, i, x) = (IF "deliver" \in ToSet(todo) THEN c ELSE 0)
                                    + (IF "return" \in ToSet(todo) THEN d ELSE 0)
  BY DEF LegsIn, LegsOut, DueIn, DueOut
<1> HIDE DEF a, b, c, d
<1> QED
  BY <1>2, <1>3

(* The weights are numbers. *)
LEMMA DueWeights ==
  ASSUME NEW sw \in [SwapIds -> SwapRecord], NEW i, NEW x
  PROVE  InWeight(sw, i, x) \in [Frame -> Nat] /\ OutWeight(sw, i, x) \in [Frame -> Nat]
<1>1. ASSUME NEW f \in Frame
      PROVE  /\ (IF f.op = "swap" /\ f.id \in SwapIds
                 THEN DueIn(sw[f.id], f.by, f.todo, i, x) ELSE 0) \in Nat
             /\ (IF f.op = "swap" /\ f.id \in SwapIds
                 THEN DueOut(sw[f.id], f.by, f.todo, i, x) ELSE 0) \in Nat
  <2>1. CASE f.op = "swap" /\ f.id \in SwapIds
    <3>1. sw[f.id] \in SwapRecord
      BY <2>1
    <3> QED
      BY <2>1, <3>1, LegsType
  <2>2. CASE ~(f.op = "swap" /\ f.id \in SwapIds)
    BY <2>2
  <2> QED
    BY <2>1, <2>2
<1> QED
  BY <1>1 DEF InWeight, OutWeight

(* What one purchase weighs. *)
LEMMA WeightOf ==
  ASSUME NEW sw, NEW f \in Frame, NEW i, NEW x
  PROVE  /\ f.op # "swap" => InWeight(sw, i, x)[f] = 0 /\ OutWeight(sw, i, x)[f] = 0
         /\ f.op = "swap" /\ f.id \in SwapIds =>
              /\ InWeight(sw, i, x)[f] = DueIn(sw[f.id], f.by, f.todo, i, x)
              /\ OutWeight(sw, i, x)[f] = DueOut(sw[f.id], f.by, f.todo, i, x)
BY DEF InWeight, OutWeight

(* What x got of i in the swaps accepted less what x gave. *)
Net(sw, acc, i, x) ==
  LET done == {id \in SwapIds : acc[id] # <<>>} IN
  Total([id \in done |-> LegsIn(sw[id], acc[id][1], i, x)])
    - Total([id \in done |-> LegsOut(sw[id], acc[id][1], i, x)])

(* This is what was bartered. *)
LEMMA BarteredIsNet ==
  ASSUME NEW i, NEW x
  PROVE  /\ Bartered(i, x) = Net(swaps, acceptors, i, x)
         /\ Bartered(i, x)' = Net(swaps', acceptors', i, x)
BY DEF Bartered, Net, LegsIn, LegsOut, Part, Swap

(* It is the difference of two sums over all swaps. *)
LEMMA NetSums ==
  ASSUME NEW sw \in [SwapIds -> SwapRecord], NEW acc, NEW i, NEW x
  PROVE  /\ GotIn(sw, acc, i, x) \in [SwapIds -> Nat]
         /\ GaveIn(sw, acc, i, x) \in [SwapIds -> Nat]
         /\ Total(GotIn(sw, acc, i, x)) \in Nat
         /\ Total(GaveIn(sw, acc, i, x)) \in Nat
         /\ Net(sw, acc, i, x) = Total(GotIn(sw, acc, i, x))
                                 - Total(GaveIn(sw, acc, i, x))
         /\ IsFiniteSet(SwapIds)
<1> DEFINE got == GotIn(sw, acc, i, x)
           gave == GaveIn(sw, acc, i, x)
           done == {id \in SwapIds : acc[id] # <<>>}
<1>1. ASSUME NEW id \in SwapIds
      PROVE  /\ (IF acc[id] # <<>>
                 THEN LegsIn(sw[id], acc[id][1], i, x) ELSE 0) \in Nat
             /\ (IF acc[id] # <<>>
                 THEN LegsOut(sw[id], acc[id][1], i, x) ELSE 0) \in Nat
  <2>1. sw[id] \in SwapRecord
    OBVIOUS
  <2> QED
    BY <2>1, LegsType
<1>2. got \in [SwapIds -> Nat] /\ gave \in [SwapIds -> Nat]
  BY <1>1 DEF GotIn, GaveIn
<1>3. /\ \A id \in SwapIds \ done : got[id] = 0 /\ gave[id] = 0
      /\ done \in SUBSET SwapIds
  BY DEF GotIn, GaveIn
<1>4. IsFiniteSet(SwapIds)
  BY SwapAssumption, FS_Interval DEF SwapIds
<1>5. /\ [id \in done |-> got[id]] = [id \in done |-> LegsIn(sw[id], acc[id][1], i, x)]
      /\ [id \in done |-> gave[id]] = [id \in done |-> LegsOut(sw[id], acc[id][1], i, x)]
  BY DEF GotIn, GaveIn
<1>6. Net(sw, acc, i, x) = Total([id \in done |-> LegsIn(sw[id], acc[id][1], i, x)])
                          - Total([id \in done |-> LegsOut(sw[id], acc[id][1], i, x)])
  BY DEF Net
<1> HIDE DEF got, gave, done
<1>7. /\ Total(got) = Total([id \in done |-> got[id]])
      /\ Total(gave) = Total([id \in done |-> gave[id]])
  BY <1>2, <1>3, TotalSupport
<1>8. Total(got) \in Nat /\ Total(gave) \in Nat
  BY <1>2, <1>4, TotalType
<1> QED
  BY <1>2, <1>4, <1>5, <1>6, <1>7, <1>8 DEF got, gave

(* Two records of a swap that differ at most in being open. *)
SameLegs(v, w) ==
  v.p = w.p /\ v.oi = w.oi /\ v.oa = w.oa /\ v.wi = w.wi /\ v.wa = w.wa

(* They have the same legs. *)
LEMMA LegsSame ==
  ASSUME NEW v, NEW w, SameLegs(v, w), NEW y, NEW todo, NEW i, NEW x
  PROVE  /\ LegsIn(v, y, i, x) = LegsIn(w, y, i, x)
         /\ LegsOut(v, y, i, x) = LegsOut(w, y, i, x)
         /\ DueIn(v, y, todo, i, x) = DueIn(w, y, todo, i, x)
         /\ DueOut(v, y, todo, i, x) = DueOut(w, y, todo, i, x)
BY DEF SameLegs, LegsIn, LegsOut, DueIn, DueOut

(* The swaps in progress are known. *)
LEMMA SwapsInProgress ==
  ASSUME CoreOK
  PROVE  /\ calls \in Seq(Frame)
         /\ \A k \in DOMAIN calls :
              /\ calls[k] \in Frame
              /\ calls[k].op = "swap" => calls[k].id \in SwapIds /\ calls[k].id < nextSwapId
<1>1. calls \in Seq(Frame) /\ FramesOK /\ SwapTypeOK
  BY DEF CoreOK, CallsTyped, StackOK, SwapsTyped
<1>2. ASSUME NEW k \in DOMAIN calls
      PROVE  /\ calls[k] \in Frame
             /\ calls[k].op = "swap" => calls[k].id \in SwapIds /\ calls[k].id < nextSwapId
  <2>1. calls[k] \in Frame
    BY <1>1
  <2>2. calls[k].id \in Nat
    BY <2>1 DEF Frame
  <2>3. calls[k].op = "swap" => calls[k].id < nextSwapId
    BY <1>1 DEF FramesOK, FitsNow, FrameFits
  <2>4. nextSwapId \in Nat /\ nextSwapId <= MaxSwaps /\ MaxSwaps \in Nat
    BY <1>1, SwapAssumption DEF SwapTypeOK
  <2> QED
    BY <2>1, <2>2, <2>3, <2>4 DEF SwapIds
<1> QED
  BY <1>1, <1>2

(* As long as the swaps in progress keep their legs, what is due stays. *)
LEMMA DueWeighsSame ==
  ASSUME CoreOK, \A k \in DOMAIN calls :
                   calls[k].op = "swap" => SameLegs(swaps'[calls[k].id], swaps[calls[k].id]),
         NEW i, NEW x
  PROVE  /\ Weighed(InWeight(swaps', i, x), calls) = Weighed(InWeight(swaps, i, x), calls)
         /\ Weighed(OutWeight(swaps', i, x), calls) = Weighed(OutWeight(swaps, i, x), calls)
<1>1. PICK sw : sw = swaps'
  OBVIOUS
<1>2. calls \in Seq(Frame)
  BY SwapsInProgress
<1>3. ASSUME NEW k \in DOMAIN calls
      PROVE  /\ InWeight(sw, i, x)[calls[k]] = InWeight(swaps, i, x)[calls[k]]
             /\ OutWeight(sw, i, x)[calls[k]] = OutWeight(swaps, i, x)[calls[k]]
  <2>1. PICK f : f = calls[k]
    OBVIOUS
  <2>2. f \in Frame /\ (f.op = "swap" => f.id \in SwapIds)
    BY <2>1, SwapsInProgress
  <2>3. f.op = "swap" => SameLegs(sw[f.id], swaps[f.id])
    BY <1>1, <2>1
  <2>4. f.op = "swap" =>
          /\ DueIn(sw[f.id], f.by, f.todo, i, x) = DueIn(swaps[f.id], f.by, f.todo, i, x)
          /\ DueOut(sw[f.id], f.by, f.todo, i, x) = DueOut(swaps[f.id], f.by, f.todo, i, x)
    BY <2>3, LegsSame
  <2>5. /\ InWeight(sw, i, x)[f] = InWeight(swaps, i, x)[f]
        /\ OutWeight(sw, i, x)[f] = OutWeight(swaps, i, x)[f]
    BY <2>2, <2>4 DEF InWeight, OutWeight
  <2> QED
    BY <2>1, <2>5
<1>4. /\ Weighed(InWeight(sw, i, x), calls) = Weighed(InWeight(swaps, i, x), calls)
      /\ Weighed(OutWeight(sw, i, x), calls) = Weighed(OutWeight(swaps, i, x), calls)
  BY <1>2, <1>3, WeighedSame
<1> QED
  BY <1>1, <1>4

(* No call is made. *)
LEMMA DueStays ==
  ASSUME CoreOK, calls' = calls,
         \A k \in DOMAIN calls :
           calls[k].op = "swap" => SameLegs(swaps'[calls[k].id], swaps[calls[k].id]),
         NEW i, NEW x
  PROVE  Due(i, x)' = Due(i, x)
BY DueWeighsSame DEF Due

(* What is due is a number. *)
LEMMA DueType ==
  ASSUME CoreOK, NEW i, NEW x
  PROVE  /\ Weighed(InWeight(swaps, i, x), calls) \in Nat
         /\ Weighed(OutWeight(swaps, i, x), calls) \in Nat
         /\ Due(i, x) \in Int
<1>1. swaps \in [SwapIds -> SwapRecord] /\ calls \in Seq(Frame)
  BY DEF CoreOK, SwapsTyped, SwapTypeOK, CallsTyped
<1>2. /\ Weighed(InWeight(swaps, i, x), calls) \in Nat
      /\ Weighed(OutWeight(swaps, i, x), calls) \in Nat
  BY <1>1, DueWeights, WeighedType
<1> QED
  BY <1>2 DEF Due

(* A purchase begins: what its legs bring is due as well. *)
LEMMA DueEnters ==
  ASSUME CoreOK, CoreOK', NEW f \in Frame, Enter(f),
         \A k \in DOMAIN calls :
           calls[k].op = "swap" => SameLegs(swaps'[calls[k].id], swaps[calls[k].id]),
         NEW i, NEW x
  PROVE  Due(i, x)' = Due(i, x) + InWeight(swaps', i, x)[f] - OutWeight(swaps', i, x)[f]
<1> DEFINE a == Weighed(InWeight(swaps, i, x), calls)
           b == Weighed(OutWeight(swaps, i, x), calls)
<1>1. a \in Nat /\ b \in Nat
  BY DueType
<1>2. PICK sw : sw = swaps'
  OBVIOUS
<1>3. sw \in [SwapIds -> SwapRecord] /\ calls \in Seq(Frame)
  BY <1>2 DEF CoreOK, SwapsTyped, SwapTypeOK, CallsTyped
<1>4. calls' = Append(calls, f)
  BY DEF Enter
<1>5. InWeight(sw, i, x) \in [Frame -> Nat] /\ OutWeight(sw, i, x) \in [Frame -> Nat]
  BY <1>3, DueWeights
<1>6. Weighed(InWeight(sw, i, x), calls) = a /\ Weighed(OutWeight(sw, i, x), calls) = b
  BY <1>2, DueWeighsSame
<1>7. /\ Weighed(InWeight(sw, i, x), Append(calls, f))
           = Weighed(InWeight(sw, i, x), calls) + InWeight(sw, i, x)[f]
      /\ Weighed(OutWeight(sw, i, x), Append(calls, f))
           = Weighed(OutWeight(sw, i, x), calls) + OutWeight(sw, i, x)[f]
  BY <1>3, <1>5, WeighedPush
<1>8. InWeight(sw, i, x)[f] \in Nat /\ OutWeight(sw, i, x)[f] \in Nat
  BY <1>5
<1>9. /\ Due(i, x)' = Weighed(InWeight(sw, i, x), Append(calls, f))
                      - Weighed(OutWeight(sw, i, x), Append(calls, f))
      /\ Due(i, x) = a - b
  BY <1>2, <1>4 DEF Due
<1> HIDE DEF a, b
<1>10. Due(i, x)' = Due(i, x) + InWeight(sw, i, x)[f] - OutWeight(sw, i, x)[f]
  BY <1>1, <1>6, <1>7, <1>8, <1>9
<1> QED
  BY <1>2, <1>10

(* A call comes back: what the purchase weighed is replaced by what it     *)
(* weighs then, if it goes on.                                             *)
LEMMA DueReturns ==
  ASSUME CoreOK, ~Idle, NEW f \in Frame, f.todo # <<>>, Returned(f), swaps' = swaps,
         NEW i, NEW x
  PROVE  Due(i, x)' =
           Due(i, x) - InWeight(swaps, i, x)[Top] + OutWeight(swaps, i, x)[Top]
             + (IF Len(f.todo) = 1 THEN 0
                ELSE InWeight(swaps, i, x)[After(f)] - OutWeight(swaps, i, x)[After(f)])
<1> DEFINE V == InWeight(swaps, i, x)
           W == OutWeight(swaps, i, x)
           over == (Len(f.todo) = 1) = TRUE
<1>1. /\ swaps \in [SwapIds -> SwapRecord]
      /\ calls \in Seq(Frame) /\ Len(calls) <= MaxDepth
  BY DEF CoreOK, SwapsTyped, SwapTypeOK, CallsTyped
<1>2. V \in [Frame -> Nat] /\ W \in [Frame -> Nat]
  BY <1>1, DueWeights
<1>3. Top \in Frame /\ After(f) \in Frame
  BY TopFits, AfterType
<1>4. /\ Due(i, x) = Weighed(V, calls) - Weighed(W, calls)
      /\ Due(i, x)' = Weighed(V, calls') - Weighed(W, calls')
  BY DEF Due
<1> HIDE DEF V, W
<1>5. /\ V[Top] \in Nat /\ W[Top] \in Nat
      /\ V[After(f)] \in Nat /\ W[After(f)] \in Nat
  BY <1>2, <1>3
<1>6. /\ Weighed(V, Outer) \in Nat
      /\ Weighed(V, calls) = Weighed(V, Outer) + V[Top]
      /\ Weighed(V, calls') = Weighed(V, Outer) + (IF over THEN 0 ELSE V[After(f)])
  BY <1>1, <1>2, WeighedAfter
<1>7. /\ Weighed(W, Outer) \in Nat
      /\ Weighed(W, calls) = Weighed(W, Outer) + W[Top]
      /\ Weighed(W, calls') = Weighed(W, Outer) + (IF over THEN 0 ELSE W[After(f)])
  BY <1>1, <1>2, WeighedAfter
<1> DEFINE d == Due(i, x)
           e == Due(i, x)'
           va == V[After(f)]
           wa == W[After(f)]
           vt == V[Top]
           wt == W[Top]
<1>8. e = d - vt + wt + (IF over THEN 0 ELSE va - wa)
  <2> HIDE DEF d, e, va, wa, vt, wt, over
  <2> QED
    BY <1>4, <1>5, <1>6, <1>7 DEF d, e, va, wa, vt, wt
<1> QED
  BY <1>8 DEF V, W, over

(* A call of a purchase that moves no item of a swap. *)
LEMMA DueKept ==
  ASSUME CoreOK, ~Idle, NEW f \in Frame, f.todo = Top.todo, f.op = Top.op,
         f.id = Top.id, f.by = Top.by, Returned(f), swaps' = swaps,
         Top.op # "swap" \/ Head(Top.todo) \in {"pay", "payout"}, NEW i, NEW x
  PROVE  Due(i, x)' = Due(i, x)
<1> DEFINE V == InWeight(swaps, i, x)
           W == OutWeight(swaps, i, x)
<1>1. Top \in Frame /\ Top.todo # <<>>
  BY TopFits
<1>2. After(f) \in Frame
  BY <1>1, AfterType
<1>3. /\ After(f).op = Top.op /\ After(f).id = Top.id /\ After(f).by = Top.by
      /\ After(f).todo = Tail(Top.todo)
  BY AfterFields
<1>4. swaps \in [SwapIds -> SwapRecord]
  BY DEF CoreOK, SwapsTyped, SwapTypeOK
<1>5. V \in [Frame -> Nat] /\ W \in [Frame -> Nat]
  BY <1>4, DueWeights
<1>6. Due(i, x) \in Int
  BY DueType
<1>7. Due(i, x)' =
        Due(i, x) - V[Top] + W[Top]
          + (IF Len(f.todo) = 1 THEN 0 ELSE V[After(f)] - W[After(f)])
  BY <1>1, DueReturns
<1>8. CASE Top.op # "swap"
  <2>1. V[Top] = 0 /\ W[Top] = 0 /\ V[After(f)] = 0 /\ W[After(f)] = 0
    BY <1>1, <1>2, <1>3, <1>8, WeightOf
  <2> HIDE DEF V, W
  <2> QED
    BY <1>6, <1>7, <2>1
<1>9. CASE Top.op = "swap"
  <2>1. Top.id \in SwapIds /\ Top.todo \in SwapTodos
    BY <1>9, TopSwap
  <2>2. Head(Top.todo) \in {"pay", "payout"}
    BY <1>9
  <2>3. /\ Len(Top.todo) # 1 /\ Tail(Top.todo) \in SwapTodos
        /\ Head(Tail(Top.todo)) # "return"
        /\ "deliver" \in ToSet(Top.todo) /\ "return" \in ToSet(Top.todo)
    BY <2>1, <2>2, SwapStages
  <2>4. "deliver" \in ToSet(Tail(Top.todo)) /\ "return" \in ToSet(Tail(Top.todo))
    BY <2>3, SwapStages
  <2>5. \A w, y : /\ DueIn(w, y, Tail(Top.todo), i, x) = DueIn(w, y, Top.todo, i, x)
                  /\ DueOut(w, y, Tail(Top.todo), i, x) = DueOut(w, y, Top.todo, i, x)
    BY <2>3, <2>4 DEF DueIn, DueOut
  <2>6. V[After(f)] = V[Top] /\ W[After(f)] = W[Top]
    <3>1. /\ V[Top] = DueIn(swaps[Top.id], Top.by, Top.todo, i, x)
          /\ W[Top] = DueOut(swaps[Top.id], Top.by, Top.todo, i, x)
      BY <1>1, <1>9, <2>1 DEF InWeight, OutWeight
    <3>2. /\ V[After(f)] = DueIn(swaps[Top.id], Top.by, Tail(Top.todo), i, x)
          /\ W[After(f)] = DueOut(swaps[Top.id], Top.by, Tail(Top.todo), i, x)
      <4> HIDE DEF V, W
      <4>1. PICK g : g = After(f)
        OBVIOUS
      <4>2. /\ g \in Frame /\ g.op = "swap" /\ g.id = Top.id /\ g.by = Top.by
            /\ g.todo = Tail(Top.todo)
        BY <1>2, <1>3, <1>9, <4>1
      <4>3. /\ V[g] = DueIn(swaps[g.id], g.by, g.todo, i, x)
            /\ W[g] = DueOut(swaps[g.id], g.by, g.todo, i, x)
        BY <2>1, <4>2, WeightOf DEF V, W
      <4> QED
        BY <4>1, <4>2, <4>3
    <3> QED
      BY <2>5, <3>1, <3>2
  <2>7. V[Top] \in Nat /\ W[Top] \in Nat
    BY <1>1, <1>5
  <2> HIDE DEF V, W
  <2> QED
    BY <1>6, <1>7, <2>3, <2>6, <2>7
<1> QED
  BY <1>8, <1>9

(* What was bartered stays while the swaps accepted keep their legs. *)
LEMMA BarteredStays ==
  ASSUME acceptors' = acceptors,
         \A id \in SwapIds : acceptors[id] # <<>> => SameLegs(swaps'[id], swaps[id]),
         NEW i, NEW x
  PROVE  Bartered(i, x)' = Bartered(i, x)
<1> DEFINE done == {id \in SwapIds : acceptors[id] # <<>>}
<1>1. PICK sw : sw = swaps'
  OBVIOUS
<1>2. ASSUME NEW id \in done
      PROVE  /\ LegsIn(sw[id], acceptors[id][1], i, x)
                  = LegsIn(swaps[id], acceptors[id][1], i, x)
             /\ LegsOut(sw[id], acceptors[id][1], i, x)
                  = LegsOut(swaps[id], acceptors[id][1], i, x)
  BY <1>1 DEF SameLegs, LegsIn, LegsOut
<1>3. /\ [id \in done |-> LegsIn(sw[id], acceptors[id][1], i, x)]
           = [id \in done |-> LegsIn(swaps[id], acceptors[id][1], i, x)]
      /\ [id \in done |-> LegsOut(sw[id], acceptors[id][1], i, x)]
           = [id \in done |-> LegsOut(swaps[id], acceptors[id][1], i, x)]
  <2> HIDE DEF done
  <2> QED
    BY <1>2
<1>4. Net(sw, acceptors, i, x) = Net(swaps, acceptors, i, x)
  BY <1>3 DEF Net
<1>5. Bartered(i, x)' = Net(swaps', acceptors', i, x)
  BY BarteredIsNet
<1> QED
  BY <1>1, <1>4, <1>5, BarteredIsNet

(* An acceptance adds its legs. *)
LEMMA NetGrows ==
  ASSUME NEW sw \in [SwapIds -> SwapRecord], NEW tw \in [SwapIds -> SwapRecord],
         NEW acc, NEW bcc, NEW id \in SwapIds, NEW y,
         acc[id] = <<>>, bcc[id] # <<>>, bcc[id][1] = y, SameLegs(tw[id], sw[id]),
         \A j \in SwapIds \ {id} : tw[j] = sw[j] /\ bcc[j] = acc[j], NEW i, NEW x
  PROVE  /\ Net(sw, acc, i, x) \in Int
         /\ Net(tw, bcc, i, x) = Net(sw, acc, i, x) + LegsIn(sw[id], y, i, x)
                                   - LegsOut(sw[id], y, i, x)
<1> DEFINE f == GotIn(sw, acc, i, x)
           g == GaveIn(sw, acc, i, x)
           h == GotIn(tw, bcc, i, x)
           k == GaveIn(tw, bcc, i, x)
           a == LegsIn(sw[id], y, i, x)
           b == LegsOut(sw[id], y, i, x)
<1>1. /\ f \in [SwapIds -> Nat] /\ g \in [SwapIds -> Nat]
      /\ Total(f) \in Nat /\ Total(g) \in Nat
      /\ Net(sw, acc, i, x) = Total(f) - Total(g) /\ IsFiniteSet(SwapIds)
  BY NetSums
<1>2. /\ h \in [SwapIds -> Nat] /\ k \in [SwapIds -> Nat]
      /\ Total(h) \in Nat /\ Total(k) \in Nat
      /\ Net(tw, bcc, i, x) = Total(h) - Total(k)
  BY NetSums
<1>3. a \in Nat /\ b \in Nat
  BY LegsType
<1>4. f[id] = 0 /\ g[id] = 0
  BY DEF GotIn, GaveIn
<1>5. h[id] = a /\ k[id] = b
  <2>1. /\ h[id] = LegsIn(tw[id], y, i, x)
        /\ k[id] = LegsOut(tw[id], y, i, x)
    BY DEF GotIn, GaveIn
  <2>2. LegsIn(tw[id], y, i, x) = a /\ LegsOut(tw[id], y, i, x) = b
    BY DEF SameLegs, LegsIn, LegsOut
  <2> QED
    BY <2>1, <2>2
<1>6. \A j \in SwapIds \ {id} : h[j] = f[j] /\ k[j] = g[j]
  BY DEF GotIn, GaveIn
<1> HIDE DEF f, g, h, k, a, b
<1>7. Total(h) = Total(f) + a
  <2>1. \A j \in SwapIds \ {id} : h[j] = f[j]
    BY <1>6
  <2>2. IsFiniteSet(SwapIds) /\ f \in [SwapIds -> Nat] /\ h \in [SwapIds -> Nat]
    BY <1>1, <1>2
  <2>3. f[id] = 0 /\ h[id] = a /\ a \in Nat
    BY <1>3, <1>4, <1>5
  <2> QED
    BY <2>1, <2>2, <2>3, TotalAdds
<1>8. Total(k) = Total(g) + b
  <2>1. \A j \in SwapIds \ {id} : k[j] = g[j]
    BY <1>6
  <2>2. IsFiniteSet(SwapIds) /\ g \in [SwapIds -> Nat] /\ k \in [SwapIds -> Nat]
    BY <1>1, <1>2
  <2>3. g[id] = 0 /\ k[id] = b /\ b \in Nat
    BY <1>3, <1>4, <1>5
  <2> QED
    BY <2>1, <2>2, <2>3, TotalAdds
<1>9. Net(sw, acc, i, x) \in Int /\ Net(tw, bcc, i, x) = Net(sw, acc, i, x) + a - b
  BY <1>1, <1>2, <1>3, <1>7, <1>8
<1> QED
  BY <1>9 DEF a, b

(* The spots of i that x bought, by listing. *)
SpotsIn(sp, mi, i, x) ==
  [id \in SpotIds |-> IF sp[id].item = i THEN mi[<<id, x>>] ELSE 0]

(* They sum up to the spots of i that x bought. *)
LEMMA SpotsSum ==
  ASSUME NEW i, NEW x
  PROVE  /\ SpotsOf(i, x) = Total(SpotsIn(spots, minted, i, x))
         /\ SpotsOf(i, x)' = Total(SpotsIn(spots', minted', i, x))
         /\ IsFiniteSet(SpotIds)
<1>1. /\ SpotsOf(i, x) = Total(SpotsIn(spots, minted, i, x))
      /\ SpotsOf(i, x)' = Total(SpotsIn(spots', minted', i, x))
  BY DEF SpotsOf, SpotsIn, SpotListing
<1>2. IsFiniteSet(SpotIds)
  BY SpotAssumption, FS_Interval DEF SpotIds
<1> QED
  BY <1>1, <1>2

(* That is a number. *)
LEMMA SpotsType ==
  ASSUME CoreOK, NEW i, NEW x \in Accounts
  PROVE  SpotsIn(spots, minted, i, x) \in [SpotIds -> Nat] /\ SpotsOf(i, x) \in Nat
<1>1. minted \in [SpotIds \X Accounts -> Nat]
  BY DEF CoreOK, SpotsTyped, SpotTypeOK
<1>2. SpotsIn(spots, minted, i, x) \in [SpotIds -> Nat]
  BY <1>1 DEF SpotsIn
<1>3. IsFiniteSet(SpotIds)
  BY SpotsSum
<1>4. Total(SpotsIn(spots, minted, i, x)) \in Nat
  BY <1>2, <1>3, TotalType
<1> QED
  BY <1>2, <1>4, SpotsSum

(* Nothing is minted, and no listing of which something is changes its     *)
(* item.                                                                   *)
LEMMA SpotsKept ==
  ASSUME minted' = minted, NEW i, NEW x,
         \A j \in SpotIds : minted[<<j, x>>] = 0 \/ spots'[j].item = spots[j].item
  PROVE  SpotsOf(i, x)' = SpotsOf(i, x)
<1>1. PICK sp : sp = spots'
  OBVIOUS
<1>2. SpotsIn(sp, minted, i, x) = SpotsIn(spots, minted, i, x)
  BY <1>1 DEF SpotsIn
<1>3. SpotsOf(i, x)' = Total(SpotsIn(spots', minted', i, x))
  BY SpotsSum
<1> QED
  BY <1>1, <1>2, <1>3, SpotsSum

(* The terms of the ledger are numbers. *)
LEMMA LedgerTypes ==
  ASSUME CoreOK, NEW i \in Items, NEW x \in Accounts
  PROVE  /\ nft[i][x] \in Int /\ Due(i, x) \in Int /\ MintedTo[i][x] \in Int
         /\ outside[<<i, x>>] \in Int /\ SpotsOf(i, x) \in Int /\ Bartered(i, x) \in Int
<1>1. nft[i][x] \in Int /\ outside[<<i, x>>] \in Int
  BY DEF CoreOK, GoodsTyped, Holders
<1>2. MintedTo[i][x] \in Int
  BY CustodyAssumption
<1>3. Due(i, x) \in Int /\ SpotsOf(i, x) \in Int
  BY DueType, SpotsType
<1>4. swaps \in [SwapIds -> SwapRecord]
  BY DEF CoreOK, SwapsTyped, SwapTypeOK
<1>5. /\ Total(GotIn(swaps, acceptors, i, x)) \in Nat
      /\ Total(GaveIn(swaps, acceptors, i, x)) \in Nat
      /\ Net(swaps, acceptors, i, x) = Total(GotIn(swaps, acceptors, i, x))
                                       - Total(GaveIn(swaps, acceptors, i, x))
  BY <1>4, NetSums
<1>6. Net(swaps, acceptors, i, x) \in Int
  BY <1>5
<1>7. Bartered(i, x) \in Int
  BY <1>6, BarteredIsNet
<1> QED
  BY <1>1, <1>2, <1>3, <1>7

(* An equation to which equals are added. *)
LEMMA BothSides ==
  ASSUME NEW a \in Int, NEW d \in Int, NEW m \in Int, NEW o \in Int, NEW s \in Int,
         NEW b \in Int, a + d = m + o + s + b,
         NEW da \in Int, NEW dd \in Int, NEW do \in Int, NEW ds \in Int, NEW db \in Int,
         da + dd = do + ds + db
  PROVE  (a + da) + (d + dd) = m + (o + do) + (s + ds) + (b + db)
OBVIOUS

(* What moves on one side of the ledger moves on the other. *)
LEMMA LedgerMoves ==
  ASSUME CoreOK, NEW i \in Items, NEW x \in Accounts, LedgerAt(i, x),
         NEW da \in Int, NEW dd \in Int, NEW do \in Int, NEW ds \in Int, NEW db \in Int,
         nft'[i][x] = nft[i][x] + da, Due(i, x)' = Due(i, x) + dd,
         outside'[<<i, x>>] = outside[<<i, x>>] + do,
         SpotsOf(i, x)' = SpotsOf(i, x) + ds, Bartered(i, x)' = Bartered(i, x) + db,
         da + dd = do + ds + db
  PROVE  LedgerAt(i, x)'
<1> DEFINE a == nft[i][x]
           d == Due(i, x)
           m == MintedTo[i][x]
           o == outside[<<i, x>>]
           s == SpotsOf(i, x)
           b == Bartered(i, x)
<1>1. a \in Int /\ d \in Int /\ m \in Int /\ o \in Int /\ s \in Int /\ b \in Int
  BY LedgerTypes
<1>2. a + d = m + o + s + b
  BY DEF LedgerAt
<1>3. LedgerAt(i, x)' <=> nft'[i][x] + Due(i, x)' = MintedTo[i][x] + outside'[<<i, x>>]
                                               + SpotsOf(i, x)' + Bartered(i, x)'
  BY DEF LedgerAt
<1>4. /\ nft'[i][x] = a + da /\ Due(i, x)' = d + dd /\ MintedTo[i][x] = m
      /\ outside'[<<i, x>>] = o + do /\ SpotsOf(i, x)' = s + ds
      /\ Bartered(i, x)' = b + db
  OBVIOUS
<1> HIDE DEF a, d, m, o, s, b
<1>5. (a + da) + (d + dd) = m + (o + do) + (s + ds) + (b + db)
  BY <1>1, <1>2, BothSides
<1> QED
  BY <1>3, <1>4, <1>5, Zenon

(* A step that moves no item and accepts no swap. *)
LEMMA LedgerStays ==
  ASSUME CoreOK, LedgerOK, UNCHANGED <<nft, outside, acceptors, minted>>,
         \A id \in SwapIds : acceptors[id] # <<>> => SameLegs(swaps'[id], swaps[id]),
         \A j \in SpotIds : \/ \A x \in Accounts : minted[<<j, x>>] = 0
                            \/ spots'[j].item = spots[j].item,
         \A i, x : Due(i, x)' = Due(i, x)
  PROVE  LedgerOK'
<1> SUFFICES ASSUME NEW i \in Items, NEW x \in Accounts
             PROVE  LedgerAt(i, x)'
  BY DEF LedgerOK
<1>1. LedgerAt(i, x)
  BY DEF LedgerOK
<1>2. Bartered(i, x)' = Bartered(i, x)
  BY BarteredStays
<1>3. SpotsOf(i, x)' = SpotsOf(i, x)
  <2>1. \A j \in SpotIds : minted[<<j, x>>] = 0 \/ spots'[j].item = spots[j].item
    OBVIOUS
  <2> QED
    BY <2>1, SpotsKept
<1>4. Due(i, x)' = Due(i, x)
  OBVIOUS
<1>5. LedgerAt(i, x)' <=> nft'[i][x] + Due(i, x)' = MintedTo[i][x] + outside'[<<i, x>>]
                                               + SpotsOf(i, x)' + Bartered(i, x)'
  BY DEF LedgerAt
<1>6. nft'[i][x] = nft[i][x] /\ outside'[<<i, x>>] = outside[<<i, x>>]
  OBVIOUS
<1> QED
  BY <1>1, <1>2, <1>3, <1>4, <1>5, <1>6 DEF LedgerAt

(* Swaps as they were have the legs they had. *)
LEMMA SwapsSame ==
  swaps' = swaps => \A id : SameLegs(swaps'[id], swaps[id])
BY DEF SameLegs

(* Steps that are none of the items' business and make no call. *)
LEMMA LedgerQuiet ==
  ASSUME CoreOK, LedgerOK, UNCHANGED <<calls, nft, outside, swapVars, minted>>,
         \A j \in SpotIds : \/ \A x \in Accounts : minted[<<j, x>>] = 0
                            \/ spots'[j].item = spots[j].item
  PROVE  LedgerOK'
<1>1. UNCHANGED <<calls, nft, outside, swaps, acceptors, minted>>
  BY DEF swapVars
<1>2. \A id : SameLegs(swaps'[id], swaps[id])
  BY <1>1, SwapsSame
<1>3. \A i, x : Due(i, x)' = Due(i, x)
  BY <1>1, <1>2, DueStays
<1> QED
  BY <1>1, <1>2, <1>3, LedgerStays

(* Swaps closed keep their legs. *)
LEMMA ClosedLegs ==
  ASSUME SwapTypeOK, NEW id \in SwapIds, swaps' = [swaps EXCEPT ![id].act = FALSE]
  PROVE  \A j \in SwapIds : SameLegs(swaps'[j], swaps[j])
<1>1. ASSUME NEW j \in SwapIds
      PROVE  SameLegs(swaps'[j], swaps[j])
  <2>1. CASE j # id
    <3>1. swaps'[j] = swaps[j]
      BY <2>1 DEF SwapTypeOK
    <3> QED
      BY <3>1 DEF SameLegs
  <2>2. CASE j = id
    <3> DEFINE w == swaps[id]
               v == [w EXCEPT !.act = FALSE]
    <3>1. swaps'[j] = v
      BY <2>2 DEF SwapTypeOK
    <3>2. w \in SwapRecord
      BY DEF SwapTypeOK
    <3>3. SameLegs(v, w)
      <4> HIDE DEF w
      <4> QED
        BY <3>2 DEF SameLegs, SwapRecord
    <3> QED
      BY <2>2, <3>1, <3>3
  <2> QED
    BY <2>1, <2>2
<1> QED
  BY <1>1

(* What begins is a purchase. *)
LEMMA EnteredFrame ==
  ASSUME CoreOK, CoreOK', NEW f, Enter(f)
  PROVE  f \in Frame
<1>1. calls \in Seq(Frame)
  BY DEF CoreOK, CallsTyped
<1>2. calls' = Append(calls, f)
  BY DEF Enter
<1>3. Append(calls, f) \in Seq(Frame)
  BY <1>2 DEF CoreOK, CallsTyped
<1>4. Len(calls) + 1 \in DOMAIN Append(calls, f) /\ Append(calls, f)[Len(calls) + 1] = f
  BY <1>1
<1>5. PICK cs : cs = Append(calls, f)
  OBVIOUS
<1>6. PICK n : n = Len(calls) + 1
  OBVIOUS
<1>7. cs \in Seq(Frame) /\ n \in DOMAIN cs /\ cs[n] = f
  BY <1>3, <1>4, <1>5, <1>6
<1>8. cs[n] \in Frame
  BY <1>7
<1> QED
  BY <1>7, <1>8

(* A purchase of something else than a swap begins. *)
LEMMA OtherEnters ==
  ASSUME CoreOK, CoreOK', NEW f, Enter(f), f.op # "swap", swaps' = swaps, NEW i, NEW x
  PROVE  Due(i, x)' = Due(i, x)
<1>1. f \in Frame
  BY EnteredFrame
<1>2. PICK sw : sw = swaps'
  OBVIOUS
<1>3. InWeight(sw, i, x)[f] = 0 /\ OutWeight(sw, i, x)[f] = 0
  BY <1>1, WeightOf
<1>4. Due(i, x)' = Due(i, x) + InWeight(swaps', i, x)[f] - OutWeight(swaps', i, x)[f]
  BY <1>1, SwapsSame, DueEnters
<1>5. Due(i, x) \in Int
  BY DueType
<1>6. Due(i, x)' = Due(i, x) + 0 - 0
  BY <1>2, <1>3, <1>4
<1> QED
  BY <1>5, <1>6

(* What a transfer moves. *)
LEMMA MovedPart ==
  ASSUME NEW v \in Int, NEW n \in Nat, NEW from, NEW to, from # to, NEW item,
         NEW i, NEW x
  PROVE  (IF i # item THEN v ELSE IF x = from THEN v - n
          ELSE IF x = to THEN v + n ELSE v)
           = v + (Part(to, item, n, i, x) - Part(from, item, n, i, x))
BY DEF Part

(* The offered leg: it was due, and it happens. *)
LEMMA GiveOfferedLedger ==
  ASSUME CoreOK, LedgerOK, GiveOffered, OfSwaps
  PROVE  LedgerOK'
<1> SUFFICES ASSUME NEW i \in Items, NEW x \in Accounts
             PROVE  LedgerAt(i, x)'
  BY DEF LedgerOK
<1> DEFINE w == Swap(Top.id)
           y == Top.by
           to == Part(y, w.oi, w.oa, i, x)
           fro == Part(w.p, w.oi, w.oa, i, x)
           in == Part(w.p, w.wi, w.wa, i, x)
           out == Part(y, w.wi, w.wa, i, x)
           V == InWeight(swaps, i, x)
           W == OutWeight(swaps, i, x)
<1>1. /\ ~Idle /\ Top.op = "swap" /\ Head(Top.todo) = "deliver" /\ Returned(Top)
      /\ Barter(w.oi, w.p, y, w.oa) /\ UNCHANGED swapVars
  BY DEF GiveOffered, InProgress, Barter, HandTo
<1>2. UNCHANGED <<swaps, acceptors, spots, minted, outside>>
  BY <1>1 DEF swapVars, OfSwaps, spotVars
<1>3. /\ Top.id \in SwapIds /\ Top.todo \in SwapTodos /\ y \in Accounts
      /\ w \in SwapRecord /\ w.p \in Accounts /\ y # w.p
  BY <1>1, TopSwap DEF SwapAnswers
<1>4. w.oi \in Items /\ w.oa \in Nat /\ w.wa \in Nat
  BY <1>3 DEF SwapRecord
<1>5. to \in Nat /\ fro \in Nat /\ in \in Nat /\ out \in Nat
  BY <1>4, PartType
<1>6. nft'[i][x] = IF i # w.oi THEN nft[i][x]
                   ELSE IF x = w.p THEN nft[i][x] - w.oa
                   ELSE IF x = y THEN nft[i][x] + w.oa ELSE nft[i][x]
  BY <1>1, <1>3, <1>4, BarterCore
<1>7. nft[i][x] \in Int /\ Due(i, x) \in Int
  BY LedgerTypes
<1>8. nft'[i][x] = nft[i][x] + (to - fro)
  BY <1>3, <1>4, <1>6, <1>7, MovedPart
<1>9. /\ Len(Top.todo) # 1 /\ Tail(Top.todo) \in SwapTodos
      /\ Head(Tail(Top.todo)) = "return"
      /\ "deliver" \in ToSet(Top.todo) /\ "return" \in ToSet(Top.todo)
  BY <1>1, <1>3, SwapStages
<1>10. "deliver" \notin ToSet(Tail(Top.todo)) /\ "return" \in ToSet(Tail(Top.todo))
  BY <1>9, SwapStages
<1>11. Top \in Frame /\ Top.todo # <<>>
  BY <1>1, TopFits
<1>12. V[Top] = to + in /\ W[Top] = fro + out
  BY <1>1, <1>3, <1>9, <1>11 DEF InWeight, OutWeight, DueIn, DueOut, Swap
<1>13. PICK g : g = After(Top)
  OBVIOUS
<1>14. /\ g \in Frame /\ g.op = "swap" /\ g.id = Top.id /\ g.by = y
       /\ g.todo = Tail(Top.todo)
  BY <1>1, <1>11, <1>13, AfterType, AfterFields
<1>15. /\ V[g] = DueIn(Swap(g.id), g.by, g.todo, i, x)
       /\ W[g] = DueOut(Swap(g.id), g.by, g.todo, i, x)
  BY <1>3, <1>14 DEF InWeight, OutWeight, Swap
<1>16. V[g] = 0 + in /\ W[g] = 0 + out
  BY <1>10, <1>14, <1>15 DEF DueIn, DueOut
<1>17. Due(i, x)' = Due(i, x) - V[Top] + W[Top]
                      + (IF Len(Top.todo) = 1 THEN 0 ELSE V[After(Top)] - W[After(Top)])
  BY <1>1, <1>2, <1>11, DueReturns
<1>18. Due(i, x)' = Due(i, x) + (fro - to)
  <2> HIDE DEF V, W, to, fro, in, out
  <2>1. Due(i, x)' = Due(i, x) - V[Top] + W[Top] + (V[g] - W[g])
    BY <1>9, <1>13, <1>17
  <2> QED
    BY <1>5, <1>7, <1>12, <1>16, <2>1
<1>19. SpotsOf(i, x)' = SpotsOf(i, x) /\ Bartered(i, x)' = Bartered(i, x)
  BY <1>2, SpotsKept, BarteredStays, SwapsSame
<1>20. SpotsOf(i, x) \in Int /\ Bartered(i, x) \in Int /\ outside[<<i, x>>] \in Int
  BY LedgerTypes
<1>21. LedgerAt(i, x)
  BY DEF LedgerOK
<1>22. /\ SpotsOf(i, x)' = SpotsOf(i, x) + 0 /\ Bartered(i, x)' = Bartered(i, x) + 0
       /\ outside'[<<i, x>>] = outside[<<i, x>>] + 0
  BY <1>2, <1>19, <1>20
<1> HIDE DEF to, fro
<1>23. /\ to - fro \in Int /\ fro - to \in Int /\ 0 \in Int
       /\ (to - fro) + (fro - to) = 0 + 0 + 0
  BY <1>5
<1> QED
  BY <1>8, <1>18, <1>21, <1>22, <1>23, LedgerMoves

(* The return leg: the last one due. *)
LEMMA GiveWantedLedger ==
  ASSUME CoreOK, LedgerOK, GiveWanted, OfSwaps
  PROVE  LedgerOK'
<1> SUFFICES ASSUME NEW i \in Items, NEW x \in Accounts
             PROVE  LedgerAt(i, x)'
  BY DEF LedgerOK
<1> DEFINE w == Swap(Top.id)
           y == Top.by
           to == Part(w.p, w.wi, w.wa, i, x)
           fro == Part(y, w.wi, w.wa, i, x)
           V == InWeight(swaps, i, x)
           W == OutWeight(swaps, i, x)
<1>1. /\ ~Idle /\ Top.op = "swap" /\ Head(Top.todo) = "return" /\ Returned(Top)
      /\ Barter(w.wi, y, w.p, w.wa) /\ UNCHANGED swapVars
  BY DEF GiveWanted, InProgress, Barter, HandTo
<1>2. UNCHANGED <<swaps, acceptors, spots, minted, outside>>
  BY <1>1 DEF swapVars, OfSwaps, spotVars
<1>3. /\ Top.id \in SwapIds /\ Top.todo \in SwapTodos /\ y \in Accounts
      /\ w \in SwapRecord /\ w.p \in Accounts /\ y # w.p
  BY <1>1, TopSwap DEF SwapAnswers
<1>4. w.wi \in Items /\ w.wa \in Nat
  BY <1>3 DEF SwapRecord
<1>5. to \in Nat /\ fro \in Nat
  BY <1>4, PartType
<1>6. nft'[i][x] = IF i # w.wi THEN nft[i][x]
                   ELSE IF x = y THEN nft[i][x] - w.wa
                   ELSE IF x = w.p THEN nft[i][x] + w.wa ELSE nft[i][x]
  BY <1>1, <1>3, <1>4, BarterCore
<1>7. nft[i][x] \in Int /\ Due(i, x) \in Int
  BY LedgerTypes
<1>8. nft'[i][x] = nft[i][x] + (to - fro)
  BY <1>3, <1>4, <1>6, <1>7, MovedPart
<1>9. /\ Len(Top.todo) = 1
      /\ "deliver" \notin ToSet(Top.todo) /\ "return" \in ToSet(Top.todo)
  BY <1>1, <1>3, SwapStages
<1>10. Top \in Frame /\ Top.todo # <<>>
  BY <1>1, TopFits
<1>11. V[Top] = 0 + to /\ W[Top] = 0 + fro
  BY <1>1, <1>3, <1>9, <1>10 DEF InWeight, OutWeight, DueIn, DueOut, Swap
<1>12. Due(i, x)' = Due(i, x) - V[Top] + W[Top]
                      + (IF Len(Top.todo) = 1 THEN 0 ELSE V[After(Top)] - W[After(Top)])
  BY <1>1, <1>2, <1>10, DueReturns
<1>13. Due(i, x)' = Due(i, x) + (fro - to)
  <2> HIDE DEF V, W, to, fro
  <2>1. Due(i, x)' = Due(i, x) - V[Top] + W[Top] + 0
    BY <1>9, <1>12
  <2> QED
    BY <1>5, <1>7, <1>11, <2>1
<1>14. SpotsOf(i, x)' = SpotsOf(i, x) /\ Bartered(i, x)' = Bartered(i, x)
  BY <1>2, SpotsKept, BarteredStays, SwapsSame
<1>15. SpotsOf(i, x) \in Int /\ Bartered(i, x) \in Int /\ outside[<<i, x>>] \in Int
  BY LedgerTypes
<1>16. LedgerAt(i, x)
  BY DEF LedgerOK
<1>17. /\ SpotsOf(i, x)' = SpotsOf(i, x) + 0 /\ Bartered(i, x)' = Bartered(i, x) + 0
       /\ outside'[<<i, x>>] = outside[<<i, x>>] + 0
  BY <1>2, <1>14, <1>15
<1> HIDE DEF to, fro
<1>18. /\ to - fro \in Int /\ fro - to \in Int /\ 0 \in Int
       /\ (to - fro) + (fro - to) = 0 + 0 + 0
  BY <1>5
<1> QED
  BY <1>8, <1>13, <1>16, <1>17, <1>18, LedgerMoves

(* An acceptance: both legs are due, and are counted as bartered. *)
LEMMA AcceptSwapLedger ==
  ASSUME MarketInv, CoreOK, CoreOK', LedgerOK, OpenSwapsOK, NEW y \in Accounts,
         NEW id \in SwapIds, AcceptSwap(y, id), OfSwaps
  PROVE  LedgerOK'
<1>1. /\ Swap(id).act /\ swaps' = [swaps EXCEPT ![id].act = FALSE]
      /\ acceptors' = [acceptors EXCEPT ![id] = Append(@, y)]
      /\ nft' = nft
  BY DEF AcceptSwap, Accepted
<1>2. UNCHANGED <<nft, spots, minted, outside>>
  BY <1>1 DEF OfSwaps, spotVars
<1>3. /\ SwapTypeOK /\ swaps \in [SwapIds -> SwapRecord]
      /\ swaps' \in [SwapIds -> SwapRecord]
  BY DEF CoreOK, SwapsTyped, SwapTypeOK
<1>4. acceptors[id] = <<>>
  BY <1>1 DEF OpenSwapsOK
<1>5. acceptors'[id] = <<y>> /\ \A j \in SwapIds \ {id} : acceptors'[j] = acceptors[j]
  <2>1. Append(<<>>, y) = <<y>>
    OBVIOUS
  <2> QED
    BY <1>1, <1>3, <1>4, <2>1 DEF SwapTypeOK
<1>6. /\ \A j \in SwapIds : SameLegs(swaps'[j], swaps[j])
      /\ \A j \in SwapIds \ {id} : swaps'[j] = swaps[j]
  BY <1>1, <1>3, ClosedLegs DEF SwapTypeOK
<1>7. PICK g \in Frame :
        /\ Enter(g) /\ g.op = "swap" /\ g.id = id /\ g.by = y
        /\ "deliver" \in ToSet(g.todo) /\ "return" \in ToSet(g.todo)
  BY AcceptFrame
<1>8. \A k \in DOMAIN calls :
        calls[k].op = "swap" => SameLegs(swaps'[calls[k].id], swaps[calls[k].id])
  BY <1>6, SwapsInProgress
<1>9. PICK sw : sw = swaps'
  OBVIOUS
<1>10. PICK acc : acc = acceptors'
  OBVIOUS
<1>11. /\ sw \in [SwapIds -> SwapRecord] /\ SameLegs(sw[id], swaps[id])
       /\ \A j \in SwapIds \ {id} : sw[j] = swaps[j] /\ acc[j] = acceptors[j]
  BY <1>3, <1>5, <1>6, <1>9, <1>10
<1>12. acc[id] # <<>> /\ acc[id][1] = y
  BY <1>5, <1>10
<1> SUFFICES ASSUME NEW i \in Items, NEW x \in Accounts
             PROVE  LedgerAt(i, x)'
  BY DEF LedgerOK
<1> DEFINE a == LegsIn(swaps[id], y, i, x)
           b == LegsOut(swaps[id], y, i, x)
<1>13. a \in Nat /\ b \in Nat
  BY <1>3, LegsType
<1>14. InWeight(sw, i, x)[g] = a /\ OutWeight(sw, i, x)[g] = b
  <2>1. /\ InWeight(sw, i, x)[g] = DueIn(sw[id], y, g.todo, i, x)
        /\ OutWeight(sw, i, x)[g] = DueOut(sw[id], y, g.todo, i, x)
    BY <1>7 DEF InWeight, OutWeight
  <2>2. /\ DueIn(sw[id], y, g.todo, i, x) = LegsIn(sw[id], y, i, x)
        /\ DueOut(sw[id], y, g.todo, i, x) = LegsOut(sw[id], y, i, x)
    BY <1>7 DEF DueIn, DueOut, LegsIn, LegsOut
  <2>3. LegsIn(sw[id], y, i, x) = a /\ LegsOut(sw[id], y, i, x) = b
    BY <1>11 DEF SameLegs, LegsIn, LegsOut
  <2> QED
    BY <2>1, <2>2, <2>3
<1>15. Due(i, x)' = Due(i, x) + InWeight(swaps', i, x)[g] - OutWeight(swaps', i, x)[g]
  BY <1>7, <1>8, DueEnters
<1>16. Net(sw, acc, i, x) = Net(swaps, acceptors, i, x) + a - b
  BY <1>3, <1>4, <1>11, <1>12, NetGrows
<1>17. Bartered(i, x)' = Net(sw, acc, i, x) /\ Bartered(i, x) = Net(swaps, acceptors, i, x)
  BY <1>9, <1>10, BarteredIsNet
<1>18. /\ nft[i][x] \in Int /\ Due(i, x) \in Int /\ SpotsOf(i, x) \in Int
       /\ Bartered(i, x) \in Int /\ outside[<<i, x>>] \in Int
  BY LedgerTypes
<1>19. SpotsOf(i, x)' = SpotsOf(i, x)
  BY <1>2, SpotsKept
<1> HIDE DEF a, b
<1>20. Due(i, x)' = Due(i, x) + (a - b)
  <2>1. Due(i, x)' = Due(i, x) + a - b
    BY <1>9, <1>14, <1>15
  <2> QED
    BY <1>13, <1>18, <2>1
<1>21. Bartered(i, x)' = Bartered(i, x) + (a - b)
  <2>1. Bartered(i, x)' = Bartered(i, x) + a - b
    BY <1>16, <1>17
  <2> QED
    BY <1>13, <1>18, <2>1
<1>22. LedgerAt(i, x)
  BY DEF LedgerOK
<1>23. /\ nft'[i][x] = nft[i][x] + 0 /\ SpotsOf(i, x)' = SpotsOf(i, x) + 0
       /\ outside'[<<i, x>>] = outside[<<i, x>>] + 0
  BY <1>2, <1>18, <1>19
<1>24. a - b \in Int /\ 0 \in Int /\ 0 + (a - b) = 0 + 0 + (a - b)
  BY <1>13
<1> QED
  BY <1>20, <1>21, <1>22, <1>23, <1>24, LedgerMoves

(* A mint: the spots of the buyer grow by the units it gets. *)
LEMMA MintLedger ==
  ASSUME CoreOK, CoreOK', LedgerOK, Mint, OfSpots
  PROVE  LedgerOK'
<1> SUFFICES ASSUME NEW i \in Items, NEW x \in Accounts
             PROVE  LedgerAt(i, x)'
  BY DEF LedgerOK
<1>1. PICK id, y, n : id = Top.id /\ y = Top.by /\ n = Top.n
  OBVIOUS
<1>2. PICK mi : mi = minted'
  OBVIOUS
<1>3. /\ ~Idle /\ Top.op = "spot" /\ Returned(Top)
      /\ mi = [minted EXCEPT ![<<id, y>>] = @ + n] /\ UNCHANGED spots
  BY <1>1, <1>2 DEF Mint, InProgress
<1>4. UNCHANGED <<spots, swaps, acceptors, outside>>
  BY <1>3 DEF OfSpots, swapVars
<1>5. id \in SpotIds /\ n \in Nat /\ y \in Accounts
  BY <1>1, <1>3, TopSpot
<1>6. minted \in [SpotIds \X Accounts -> Nat] /\ mi \in [SpotIds \X Accounts -> Nat]
  BY <1>2 DEF CoreOK, SpotsTyped, SpotTypeOK
<1> DEFINE item == spots[id].item
           e == IF i = item /\ x = y THEN n ELSE 0
           f == SpotsIn(spots, minted, i, x)
           g == SpotsIn(spots, mi, i, x)
<1>7. e \in Nat
  BY <1>5
<1>8. nft'[i][x] = nft[i][x] + e
  <2>1. nft'[i][x] = IF i = item /\ x = y THEN nft[i][x] + n ELSE nft[i][x]
    BY <1>1, MintCore DEF SpotListing
  <2>2. nft[i][x] \in Int
    BY LedgerTypes
  <2> QED
    BY <1>5, <2>1, <2>2
<1>9. SpotsOf(i, x)' = SpotsOf(i, x) + e
  <2>1. f \in [SpotIds -> Nat]
    BY SpotsType
  <2>2. g \in [SpotIds -> Nat]
    BY <1>6 DEF SpotsIn
  <2>3. mi[<<id, x>>] = minted[<<id, x>>] + (IF x = y THEN n ELSE 0)
    <3>1. <<id, x>> \in SpotIds \X Accounts /\ <<id, y>> \in SpotIds \X Accounts
      BY <1>5
    <3>2. minted[<<id, x>>] \in Nat
      BY <1>6, <3>1
    <3>3. CASE x = y
      BY <1>3, <1>6, <3>1, <3>3
    <3>4. CASE x # y
      <4>1. <<id, x>> # <<id, y>>
        BY <3>4
      <4>2. mi[<<id, x>>] = minted[<<id, x>>]
        BY <1>3, <1>6, <3>1, <4>1
      <4> QED
        BY <3>2, <3>4, <4>2
    <3> QED
      BY <3>3, <3>4
  <2>4. f[id] = (IF i = item THEN minted[<<id, x>>] ELSE 0)
        /\ g[id] = (IF i = item THEN mi[<<id, x>>] ELSE 0)
    BY <1>5 DEF SpotsIn
  <2>5. \A j \in SpotIds \ {id} : g[j] = f[j]
    <3>1. ASSUME NEW j \in SpotIds \ {id}
          PROVE  mi[<<j, x>>] = minted[<<j, x>>]
      <4>1. <<j, x>> # <<id, y>> /\ <<j, x>> \in SpotIds \X Accounts
        OBVIOUS
      <4> QED
        BY <1>3, <1>6, <4>1
    <3> QED
      BY <3>1 DEF SpotsIn
  <2>6. IsFiniteSet(SpotIds) /\ SpotsOf(i, x) = Total(f) /\ SpotsOf(i, x) \in Nat
    BY SpotsSum, SpotsType
  <2>7. SpotsOf(i, x)' = Total(g)
    <3>1. SpotsOf(i, x)' = Total(SpotsIn(spots', minted', i, x))
      BY SpotsSum
    <3> QED
      BY <1>2, <1>4, <3>1
  <2>8. minted[<<id, x>>] \in Nat
    BY <1>5, <1>6
  <2> DEFINE had == minted[<<id, x>>]
             has == mi[<<id, x>>]
  <2>9. /\ f[id] = (IF i = item THEN had ELSE 0)
        /\ g[id] = (IF i = item THEN has ELSE 0)
        /\ has = had + (IF x = y THEN n ELSE 0) /\ had \in Nat
    BY <2>3, <2>4, <2>8
  <2> HIDE DEF f, g, had, has
  <2>10. g[id] = f[id] + e /\ f[id] \in Nat
    BY <1>5, <2>9
  <2>11. Total(g) = Total(f) - f[id] + g[id]
    BY <1>5, <2>1, <2>2, <2>5, <2>6, TotalUpdate
  <2> HIDE DEF e
  <2> QED
    BY <1>7, <2>6, <2>7, <2>10, <2>11
<1>10. Due(i, x)' = Due(i, x)
  <2>1. Top \in Frame
    BY <1>3, TopFits
  <2>2. Top.op # "swap"
    BY <1>3
  <2> QED
    BY <1>3, <1>4, <2>1, <2>2, DueKept
<1>11. Bartered(i, x)' = Bartered(i, x)
  BY <1>4, BarteredStays, SwapsSame
<1>12. /\ Due(i, x) \in Int /\ Bartered(i, x) \in Int /\ outside[<<i, x>>] \in Int
  BY LedgerTypes
<1>13. LedgerAt(i, x)
  BY DEF LedgerOK
<1>14. /\ Due(i, x)' = Due(i, x) + 0 /\ Bartered(i, x)' = Bartered(i, x) + 0
       /\ outside'[<<i, x>>] = outside[<<i, x>>] + 0
  BY <1>4, <1>10, <1>11, <1>12
<1> HIDE DEF e
<1>15. e \in Int /\ 0 \in Int /\ e + 0 = 0 + e + 0
  BY <1>7
<1> QED
  BY <1>8, <1>9, <1>13, <1>14, <1>15, LedgerMoves

(* A trade outside the market. *)
LEMMA TransferOutsideLedger ==
  ASSUME CoreOK, CoreOK', LedgerOK, NEW ixy \in OutsideTrades,
         TransferOutside(ixy[1], ixy[2], ixy[3])
  PROVE  LedgerOK'
<1> SUFFICES ASSUME NEW i \in Items, NEW x \in Accounts
             PROVE  LedgerAt(i, x)'
  BY DEF LedgerOK
<1>1. UNCHANGED <<calls, saleVars>>
  BY DEF TransferOutside
<1>2. UNCHANGED <<calls, swaps, acceptors, spots, minted>>
  BY <1>1 DEF saleVars, swapVars, spotVars
<1>3. nft'[i][x] - outside'[<<i, x>>] = nft[i][x] - outside[<<i, x>>]
  BY TransferOutsideCore
<1>4. PICK a : a = nft'[i][x]
  OBVIOUS
<1>5. PICK o : o = outside'[<<i, x>>]
  OBVIOUS
<1>6. a \in Int /\ o \in Int
  BY <1>4, <1>5 DEF CoreOK, GoodsTyped, Holders
<1>7. /\ nft[i][x] \in Int /\ outside[<<i, x>>] \in Int
      /\ Due(i, x) \in Int /\ Bartered(i, x) \in Int /\ SpotsOf(i, x) \in Int
  BY LedgerTypes
<1> DEFINE was == nft[i][x]
           had == outside[<<i, x>>]
<1>8. a - o = was - had /\ was \in Int /\ had \in Int
  BY <1>3, <1>4, <1>5, <1>7
<1>9. /\ Bartered(i, x)' = Bartered(i, x) /\ SpotsOf(i, x)' = SpotsOf(i, x)
      /\ Due(i, x)' = Due(i, x)
  BY <1>2, BarteredStays, SpotsKept, DueStays, SwapsSame
<1>10. /\ Bartered(i, x)' = Bartered(i, x) + 0 /\ SpotsOf(i, x)' = SpotsOf(i, x) + 0
       /\ Due(i, x)' = Due(i, x) + 0
  BY <1>7, <1>9
<1>11. LedgerAt(i, x)
  BY DEF LedgerOK
<1>12. PICK d : d = a - was
  OBVIOUS
<1>13. /\ nft'[i][x] = nft[i][x] + d /\ outside'[<<i, x>>] = outside[<<i, x>>] + d
       /\ d \in Int /\ 0 \in Int /\ d + 0 = d + 0 + 0
  <2> HIDE DEF was, had
  <2>1. a = was + d /\ o = had + d /\ d \in Int /\ 0 \in Int /\ d + 0 = d + 0 + 0
    BY <1>6, <1>8, <1>12
  <2> QED
    BY <1>4, <1>5, <2>1 DEF was, had
<1> QED
  BY <1>10, <1>11, <1>13, LedgerMoves

(* A proposal is of a swap nobody has accepted. *)
LEMMA ProposeSwapLedger ==
  ASSUME CoreOK, LedgerOK, OpenSwapsOK, NEW x, NEW side, NEW tu, NEW tt, NEW exp,
         ProposeSwap(x, side, tu, tt, exp), OfSwaps
  PROVE  LedgerOK'
<1>1. SwapTypeOK
  BY DEF CoreOK, SwapsTyped
<1>2. /\ \A j \in SwapIds \ {nextSwapId} : swaps'[j] = swaps[j]
      /\ UNCHANGED <<calls, nft, acceptors>>
  BY <1>1 DEF ProposeSwap, SwapTypeOK
<1>3. UNCHANGED <<nft, outside, acceptors, minted, spots>>
  BY <1>2 DEF OfSwaps, spotVars
<1>4. \A j \in SwapIds : j # nextSwapId => SameLegs(swaps'[j], swaps[j])
  BY <1>2 DEF SameLegs
<1>5. nextSwapId \in Nat
  BY <1>1, SwapAssumption DEF SwapTypeOK
<1>6. \A id \in SwapIds : acceptors[id] # <<>> => SameLegs(swaps'[id], swaps[id])
  BY <1>4, <1>5 DEF OpenSwapsOK
<1>7. \A k \in DOMAIN calls :
        calls[k].op = "swap" => SameLegs(swaps'[calls[k].id], swaps[calls[k].id])
  BY <1>4, <1>5, SwapsInProgress
<1>8. \A i, y : Due(i, y)' = Due(i, y)
  BY <1>2, <1>7, DueStays
<1> QED
  BY <1>3, <1>6, <1>8, LedgerStays

(* A swap cancelled keeps its legs. *)
LEMMA CancelSwapLedger ==
  ASSUME CoreOK, LedgerOK, NEW x, NEW id \in SwapIds, CancelSwap(x, id), OfSwaps
  PROVE  LedgerOK'
<1>1. SwapTypeOK
  BY DEF CoreOK, SwapsTyped
<1>2. /\ swaps' = [swaps EXCEPT ![id].act = FALSE]
      /\ UNCHANGED <<calls, nft, acceptors>>
  BY DEF CancelSwap
<1>3. UNCHANGED <<nft, outside, acceptors, minted, spots>>
  BY <1>2 DEF OfSwaps, spotVars
<1>4. \A j \in SwapIds : SameLegs(swaps'[j], swaps[j])
  BY <1>1, <1>2, ClosedLegs
<1>5. \A k \in DOMAIN calls :
        calls[k].op = "swap" => SameLegs(swaps'[calls[k].id], swaps[calls[k].id])
  BY <1>4, SwapsInProgress
<1>6. \A i, y : Due(i, y)' = Due(i, y)
  BY <1>2, <1>5, DueStays
<1> QED
  BY <1>3, <1>4, <1>6, LedgerStays

(* A payment and its distribution move no item. *)
LEMMA MoneyLedger ==
  ASSUME MarketInv, CoreOK, LedgerOK, MoneyMoves
  PROVE  LedgerOK'
<1>1. UNCHANGED <<nft, outside, saleVars>>
  BY DEF MoneyMoves
<1>2. UNCHANGED <<nft, outside, swaps, acceptors, minted, spots>>
  BY <1>1 DEF saleVars, swapVars, spotVars
<1>3. ASSUME NEW i, NEW x
      PROVE  Due(i, x)' = Due(i, x)
  <2>1. CASE PayOut
    <3>1. ~Idle /\ Head(Top.todo) = "payout" /\ Returned(Top)
      BY <2>1 DEF PayOut
    <3>2. Top \in Frame
      BY <3>1, TopFits
    <3> QED
      BY <1>2, <3>1, <3>2, DueKept
  <2>2. CASE \E arrived \in 0 .. (IF Idle THEN 0 ELSE Top.ask) : Pay(arrived)
    <3>1. PICK arrived : Pay(arrived)
      BY <2>2
    <3> DEFINE n == Credited(Top, arrived)
               g == [Top EXCEPT !.got = n]
    <3>2. ~Idle /\ Head(Top.todo) = "pay" /\ Returned(g)
      BY <3>1 DEF Pay
    <3>3. Top \in Frame
      BY <3>2, TopFits
    <3>4. n \in Nat
      BY <3>1, PaymentMeasured
    <3> HIDE DEF n
    <3>5. g \in Frame /\ g.todo = Top.todo /\ g.op = Top.op /\ g.id = Top.id
          /\ g.by = Top.by
      BY <3>3, <3>4 DEF Frame
    <3> HIDE DEF g
    <3> QED
      BY <1>2, <3>2, <3>5, DueKept
  <2> QED
    BY <2>1, <2>2 DEF MoneyMoves
<1>4. \A id \in SwapIds : acceptors[id] # <<>> => SameLegs(swaps'[id], swaps[id])
  BY <1>2, SwapsSame
<1> QED
  BY <1>2, <1>3, <1>4, LedgerStays

(* The steps of swaps. *)
LEMMA SwapStepLedger ==
  ASSUME CoreInv, CoreInv', LedgerOK, SwapStep
  PROVE  LedgerOK'
<1>1. MarketInv /\ CoreOK /\ CoreOK' /\ OpenSwapsOK /\ OfSwaps
  BY DEF CoreInv, OpenOK, SwapStep
<1>2. ASSUME NEW x \in Accounts, NEW side \in Sides, NEW topUp \in TopUps,
             NEW exp \in SwapExpirations,
             ProposeSwap(x, side, topUp[1], topUp[2], exp)
      PROVE  LedgerOK'
  BY <1>1, <1>2, ProposeSwapLedger
<1>3. ASSUME NEW x \in Accounts, NEW id \in SwapIds, AcceptSwap(x, id)
      PROVE  LedgerOK'
  BY <1>1, <1>3, AcceptSwapLedger
<1>4. ASSUME NEW x \in Accounts, NEW id \in SwapIds, CancelSwap(x, id)
      PROVE  LedgerOK'
  BY <1>1, <1>4, CancelSwapLedger
<1>5. ASSUME GiveOffered
      PROVE  LedgerOK'
  BY <1>1, <1>5, GiveOfferedLedger
<1>6. ASSUME GiveWanted
      PROVE  LedgerOK'
  BY <1>1, <1>6, GiveWantedLedger
<1> QED
  BY <1>2, <1>3, <1>4, <1>5, <1>6 DEF SwapStep

(* The steps of mint spots: a listing written has the item it had, unless  *)
(* nothing was minted of it yet.                                           *)
LEMMA SpotStepLedger ==
  ASSUME CoreInv, CoreInv', LedgerOK, SpotsOK, SpotStep
  PROVE  LedgerOK'
<1>1. CoreOK /\ CoreOK' /\ OfSpots /\ SpotTypeOK
  BY DEF CoreInv, CoreOK, SpotsTyped, SpotStep
<1>2. UNCHANGED <<swapVars, outside>>
  BY <1>1 DEF OfSpots
<1>3. ASSUME NEW x \in Accounts, NEW i \in Items, NEW t \in Tokens,
             NEW p \in SpotPrices, NEW ms \in SpotCaps, NEW exp \in SpotExpirations,
             NEW start \in SpotStarts, ListMintSpots(x, i, t, p, ms, exp, start)
      PROVE  LedgerOK'
  <2>1. UNCHANGED <<calls, nft, minted>>
    BY <1>3 DEF ListMintSpots
  <2>2. \A j \in SpotIds \ {nextSpotId} : spots'[j] = spots[j]
    BY <1>1, <1>3 DEF ListMintSpots, SpotTypeOK
  <2>3. nextSpotId \in Nat
    BY <1>1, SpotAssumption DEF SpotTypeOK
  <2>4. nextSpotId \in SpotIds => \A y \in Accounts : minted[<<nextSpotId, y>>] = 0
    BY <2>3 DEF SpotsOK, SpotsAt
  <2>5. \A j \in SpotIds : \/ \A y \in Accounts : minted[<<j, y>>] = 0
                           \/ spots'[j].item = spots[j].item
    BY <2>2, <2>4
  <2> QED
    BY <1>1, <1>2, <2>1, <2>5, LedgerQuiet
<1>4. ASSUME NEW x \in Accounts, NEW id \in SpotIds, NEW n \in SpotAmounts,
             BuyMintSpot(x, id, n)
      PROVE  LedgerOK'
  <2>1. UNCHANGED <<nft, minted>> /\ spots' = SpotsTaken(id, n)
        /\ \E f : f.op = "spot" /\ Enter(f)
    BY <1>4 DEF BuyMintSpot
  <2>2. \A j \in SpotIds : spots'[j].item = spots[j].item
    BY <1>1, <2>1 DEF SpotsTaken, SpotTypeOK, SpotRecord
  <2>3. UNCHANGED <<swaps, acceptors>>
    BY <1>2 DEF swapVars
  <2>4. \A i, y : Due(i, y)' = Due(i, y)
    BY <1>1, <2>1, <2>3, OtherEnters
  <2>5. \A j \in SwapIds : acceptors[j] # <<>> => SameLegs(swaps'[j], swaps[j])
    BY <2>3, SwapsSame
  <2> QED
    BY <1>1, <1>2, <2>1, <2>2, <2>3, <2>4, <2>5, LedgerStays
<1>5. ASSUME NEW x \in Accounts, NEW id \in SpotIds, DelistMintSpots(x, id)
      PROVE  LedgerOK'
  <2>1. UNCHANGED <<calls, nft, minted>> /\ spots' = [spots EXCEPT ![id].act = FALSE]
    BY <1>5 DEF DelistMintSpots
  <2>2. \A j \in SpotIds : spots'[j].item = spots[j].item
    BY <1>1, <2>1 DEF SpotTypeOK, SpotRecord
  <2> QED
    BY <1>1, <1>2, <2>1, <2>2, LedgerQuiet
<1>6. ASSUME Mint
      PROVE  LedgerOK'
  BY <1>1, <1>6, MintLedger
<1> QED
  BY <1>3, <1>4, <1>5, <1>6 DEF SpotStep

(* Token sales move no item. *)
LEMMA TokenStepLedger ==
  ASSUME CoreInv, CoreInv', LedgerOK, TokenStep
  PROVE  LedgerOK'
<1>1. CoreOK /\ CoreOK'
  BY DEF CoreInv
<1>2. UNCHANGED <<swapVars, spotVars, outside>>
  BY DEF TokenStep, OfTokens
<1>3. UNCHANGED <<swaps, acceptors, spots, minted, outside>>
  BY <1>2 DEF swapVars, spotVars
<1>4. nft' = nft
  <2>1. ASSUME NEW x, NEW tc, NEW t, NEW a, NEW p, NEW exp, NEW start,
               ListToken(x, tc, a, p, t, exp, start)
        PROVE  nft' = nft
    BY <2>1 DEF ListToken
  <2>2. ASSUME NEW x, NEW id, DelistToken(x, id)
        PROVE  nft' = nft
    BY <2>2 DEF DelistToken
  <2>3. ASSUME NEW x, NEW id, NEW n, BuyToken(x, id, n)
        PROVE  nft' = nft
    BY <2>3 DEF BuyToken
  <2>4. ASSUME NEW arriving, HandCoins(arriving)
        PROVE  nft' = nft
    BY <2>4 DEF HandCoins
  <2>5. ASSUME NEW t, NEW x, NEW z, TradeTokens(t, x, z)
        PROVE  nft' = nft
    BY <2>5 DEF TradeTokens
  <2> QED
    BY <2>1, <2>2, <2>3, <2>4, <2>5 DEF TokenStep
<1>5. ASSUME NEW i, NEW y
      PROVE  Due(i, y)' = Due(i, y)
  <2>1. CASE calls' = calls
    BY <1>1, <1>3, <2>1, DueStays, SwapsSame
  <2>2. CASE \E f : f.op = "token" /\ Enter(f)
    BY <1>1, <1>3, <2>2, OtherEnters
  <2>3. CASE InProgress("token", "deliver") /\ Returned(Top)
    <3>1. ~Idle /\ Top.op = "token" /\ Returned(Top)
      BY <2>3 DEF InProgress
    <3>2. Top \in Frame
      BY <1>1, <3>1, TopFits
    <3> QED
      BY <1>1, <1>3, <3>1, <3>2, DueKept
  <2>4. \/ calls' = calls
        \/ \E f : f.op = "token" /\ Enter(f)
        \/ InProgress("token", "deliver") /\ Returned(Top)
    <3>1. ASSUME NEW x, NEW tc, NEW t, NEW a, NEW p, NEW exp, NEW start,
                 ListToken(x, tc, a, p, t, exp, start)
          PROVE  calls' = calls
      BY <3>1 DEF ListToken
    <3>2. ASSUME NEW x, NEW id, DelistToken(x, id)
          PROVE  calls' = calls
      BY <3>2 DEF DelistToken
    <3>3. ASSUME NEW x, NEW id, NEW n, BuyToken(x, id, n)
          PROVE  \E f : f.op = "token" /\ Enter(f)
      BY <3>3 DEF BuyToken
    <3>4. ASSUME NEW arriving, HandCoins(arriving)
          PROVE  InProgress("token", "deliver") /\ Returned(Top)
      BY <3>4 DEF HandCoins
    <3>5. ASSUME NEW t, NEW x, NEW z, TradeTokens(t, x, z)
          PROVE  calls' = calls
      BY <3>5 DEF TradeTokens
    <3> QED
      BY <3>1, <3>2, <3>3, <3>4, <3>5 DEF TokenStep
  <2> QED
    BY <2>1, <2>2, <2>3, <2>4
<1>6. \A j \in SwapIds : acceptors[j] # <<>> => SameLegs(swaps'[j], swaps[j])
  BY <1>3, SwapsSame
<1> QED
  BY <1>1, <1>3, <1>4, <1>5, <1>6, LedgerStays

(* Every step keeps the ledger. *)
LEMMA LedgerStep ==
  ASSUME CoreInv, TellsOK, LedgerOK, [Next]_vars
  PROVE  LedgerOK'
<1>1. MarketInv /\ CoreOK /\ SpotsOK /\ CoreInv' /\ CoreOK'
  BY CoreStep DEF CoreInv, TellsOK
<1>2. ASSUME UNCHANGED <<calls, nft, outside, saleVars>>
      PROVE  LedgerOK'
  <2>1. UNCHANGED <<calls, nft, outside, swapVars, minted, spots>>
    BY <1>2 DEF saleVars, spotVars
  <2> QED
    BY <1>1, <2>1, LedgerQuiet
<1>3. CASE Environment
  BY <1>2, <1>3 DEF Environment
<1>4. CASE MoneyMoves
  BY <1>1, <1>4, MoneyLedger
<1>5. CASE SwapStep
  BY <1>1, <1>5, SwapStepLedger
<1>6. CASE SpotStep
  BY <1>1, <1>6, SpotStepLedger
<1>7. CASE TokenStep
  BY <1>1, <1>7, TokenStepLedger
<1>8. CASE \E ix \in Allowances : SetApproval(ix[1], ix[2])
  BY <1>2, <1>8 DEF SetApproval
<1>9. CASE \E ixy \in OutsideTrades : TransferOutside(ixy[1], ixy[2], ixy[3])
  BY <1>1, <1>9, TransferOutsideLedger
<1>10. CASE UNCHANGED vars
  BY <1>2, <1>10 DEF vars
<1> QED
  BY <1>3, <1>4, <1>5, <1>6, <1>7, <1>8, <1>9, <1>10 DEF Next

(* At first every account has what it had at first. *)
LEMMA LedgerAtFirst == Init => LedgerOK
<1> SUFFICES ASSUME Init, NEW i \in Items, NEW x \in Accounts
             PROVE  LedgerAt(i, x)
  BY DEF LedgerOK
<1>1. CoreOK
  BY CoreAtFirst DEF CoreInv
<1>2. /\ swaps = [id \in SwapIds |-> NoSwap] /\ calls = <<>>
      /\ acceptors = [id \in SwapIds |-> <<>>]
      /\ minted = [ix \in SpotIds \X Accounts |-> 0]
      /\ outside = [ix \in Items \X Accounts |-> 0]
      /\ nft = [j \in Items |-> [y \in Holders |-> IF y = Market THEN 0 ELSE MintedTo[j][y]]]
  BY DEF Init, SwapInit, SpotInit
<1>3. nft[i][x] = MintedTo[i][x] /\ outside[<<i, x>>] = 0
  BY <1>2, CustodyAssumption DEF Holders
<1>4. Due(i, x) = 0
  <2>1. /\ Weighed(InWeight(swaps, i, x), <<>>) = 0
        /\ Weighed(OutWeight(swaps, i, x), <<>>) = 0
    BY WeighedNone
  <2> QED
    BY <1>2, <2>1 DEF Due
<1>5. SpotsOf(i, x) = 0
  <2>1. SpotsIn(spots, minted, i, x) = [id \in SpotIds |-> 0]
    BY <1>2 DEF SpotsIn
  <2>2. Total(SpotsIn(spots, minted, i, x)) = 0
    BY <2>1, TotalZero
  <2> QED
    BY <2>2, SpotsSum
<1>6. Bartered(i, x) = 0
  <2>1. swaps \in [SwapIds -> SwapRecord]
    BY <1>1 DEF CoreOK, SwapsTyped, SwapTypeOK
  <2>2. /\ GotIn(swaps, acceptors, i, x) = [id \in SwapIds |-> 0]
        /\ GaveIn(swaps, acceptors, i, x) = [id \in SwapIds |-> 0]
    BY <1>2 DEF GotIn, GaveIn
  <2>3. /\ Total(GotIn(swaps, acceptors, i, x)) = 0
        /\ Total(GaveIn(swaps, acceptors, i, x)) = 0
    BY <2>2, TotalZero
  <2>4. Net(swaps, acceptors, i, x) = Total(GotIn(swaps, acceptors, i, x))
                                      - Total(GaveIn(swaps, acceptors, i, x))
    BY <2>1, NetSums
  <2>5. Net(swaps, acceptors, i, x) = 0
    BY <2>3, <2>4
  <2> QED
    BY <2>5, BarteredIsNet
<1>7. MintedTo[i][x] \in Int
  BY CustodyAssumption
<1> QED
  BY <1>3, <1>4, <1>5, <1>6, <1>7 DEF LedgerAt

(* The whole invariant holds in every state: the terms and the purchases   *)
(* in progress are well formed, records, books and log agree on them, and  *)
(* at every moment, between any two calls of acceptSwap or buyMintSpot     *)
(* too, the units each account has of an item and the legs still to come   *)
(* for it make up what it had, traded, bought and bartered.                *)
THEOREM SalesInvariant == Spec => [](CoreInv /\ TellsOK /\ LedgerOK)
<1>1. Init => CoreInv /\ TellsOK /\ LedgerOK
  BY CoreAtFirst, TellsAtFirst, LedgerAtFirst
<1>2. CoreInv /\ TellsOK /\ LedgerOK /\ [Next]_vars => (CoreInv /\ TellsOK /\ LedgerOK)'
  BY CoreStep, TellsStep, LedgerStep
<1> QED
  BY <1>1, <1>2, PTL DEF Spec

(* What is shown and told of a swap, from the invariant. *)
LEMMA SwapShown ==
  ASSUME CoreOK, SwapsOK, NEW id \in SwapIds
  PROVE  Len(acceptors[id]) <= 1 /\ SwapTold(id)
<1> DEFINE w == Swap(id)
           e == books.swaps[id]
           acc == acceptors[id]
           u == Units("swap", id)
           known == (id < nextSwapId) = TRUE
           shown == GetSwap(id)
           none == (Unlogged("swap", id) = {}) = TRUE
<1>1. SwapAgrees(w, e, acc, u, known)
  BY DEF SwapsOK, SwapAt
<1>2. /\ shown.proposer = w.p /\ shown.offered = w.oi /\ shown.wanted = w.wi
      /\ shown.active = w.act
  BY DEF GetSwap
<1>3. u = 0 <=> none
  <2> DEFINE W == UnloggedWeight("swap", id)
  <2>1. calls \in Seq(Frame) /\ FramesOK
    BY DEF CoreOK, CallsTyped, StackOK
  <2>2. W \in [Frame -> Nat]
    BY UnloggedType
  <2>3. ASSUME NEW k \in DOMAIN calls
        PROVE  W[calls[k]] = 0 <=> k \notin Unlogged("swap", id)
    <3>1. calls[k] \in Frame
      BY <2>1
    <3>2. calls[k].n > 0
      BY <2>1 DEF FramesOK, FitsNow, FrameFits
    <3>3. calls[k].n # 0
      BY <3>2
    <3>4. W[calls[k]] = IF calls[k].op = "swap" /\ calls[k].id = id THEN calls[k].n ELSE 0
      BY <3>1 DEF UnloggedWeight
    <3> QED
      BY <3>3, <3>4 DEF Unlogged
  <2>4. u = Weighed(W, calls)
    BY DEF Units
  <2> HIDE DEF W, u
  <2>5. Weighed(W, calls) = 0 <=> \A k \in DOMAIN calls : W[calls[k]] = 0
    BY <2>1, <2>2, WeighedZero
  <2>6. none <=> \A k \in DOMAIN calls : k \notin Unlogged("swap", id)
    BY DEF Unlogged
  <2> QED
    BY <2>3, <2>4, <2>5, <2>6
<1> HIDE DEF w, e, acc, u, shown, none, known
<1>4. Len(acc) <= 1
  BY <1>1 DEF SwapAgrees
<1>5. /\ e.known <=> known
      /\ known =>
           /\ e.proposer = shown.proposer
           /\ e.offeredNft = CollectionOf[shown.offered]
           /\ e.wantedNft = CollectionOf[shown.wanted]
           /\ shown.active <=> e.open /\ none
           /\ none => acc = IF e.acceptor = NoAccount THEN <<>> ELSE <<e.acceptor>>
  BY <1>1, <1>2, <1>3 DEF SwapAgrees
<1>6. SwapTold(id)
  BY <1>5 DEF SwapTold, e, acc, shown, none, known
<1> QED
  BY <1>4, <1>6 DEF acc

(* A swap is accepted once at most, and then both legs happen: between     *)
(* transactions what every account has of every item is what it had at     *)
(* first, what it traded elsewhere, the spots it bought and each leg of    *)
(* each swap it was a party to, once, though the same units may be on      *)
(* offer in several swaps and a swap may be accepted from inside another   *)
(* one (acceptSwap takes the swap off first and moves the units last); and *)
(* log and query tell of every swap truly.                                 *)
THEOREM BarterIsWhole == Spec => []BarterWhole
<1>1. CoreInv /\ TellsOK /\ LedgerOK => BarterWhole
  <2> SUFFICES ASSUME CoreInv, TellsOK, LedgerOK
               PROVE  BarterWhole
    OBVIOUS
  <2>1. CoreOK /\ SwapsOK
    BY DEF CoreInv, TellsOK
  <2>2. \A id \in SwapIds : Len(acceptors[id]) <= 1 /\ SwapTold(id)
    BY <2>1, SwapShown
  <2>3. ASSUME Idle, NEW i \in Items, NEW x \in Accounts
        PROVE  nft[i][x] = MintedTo[i][x] + outside[<<i, x>>] + SpotsOf(i, x)
                             + Bartered(i, x)
    <3>1. calls = <<>>
      BY <2>3 DEF Idle
    <3>2. Due(i, x) = 0
      <4>1. /\ Weighed(InWeight(swaps, i, x), <<>>) = 0
            /\ Weighed(OutWeight(swaps, i, x), <<>>) = 0
        BY WeighedNone
      <4> QED
        BY <3>1, <4>1 DEF Due
    <3>3. nft[i][x] + Due(i, x) = MintedTo[i][x] + outside[<<i, x>>] + SpotsOf(i, x)
                                    + Bartered(i, x)
      BY DEF LedgerOK, LedgerAt
    <3>4. nft[i][x] \in Int
      BY <2>1, LedgerTypes
    <3> QED
      BY <3>2, <3>3, <3>4
  <2> QED
    BY <2>2, <2>3 DEF BarterWhole
<1> QED
  BY <1>1, SalesInvariant, PTL
=============================================================================
