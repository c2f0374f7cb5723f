--------------------------- MODULE ListingProofs ----------------------------
(***************************************************************************)
(* Proofs about listings and bundles in one market, where every call of a  *)
(* purchase to a token or item contract may call back and start another    *)
(* purchase: what is sold is within what was put up, the terms agreed at   *)
(* listing stand and can be paid out, sellers get their share, the money   *)
(* passes through, sweeps spend more than their budget only when a price   *)
(* was raised under them, and bundles are bought whole and once.  And      *)
(* about the log: every step of the market tells what it changes, so that  *)
(* the books an indexer keeps from the events alone are what the queries   *)
(* answer, but for the purchases in progress.                              *)
(*                                                                         *)
(* The argument is about the stack of purchases.  The invariant has three  *)
(* parts, each kept by every step: CoreOK (every frame fits the listing or *)
(* bundle it is about, and the market holds what the frames have taken in  *)
(* and not paid out), ListingsOK (sold, on the way and left add up to what *)
(* was listed, for every listing) and BundlesOK (every unit is traced).    *)
(* What a stack of frames amounts to is the sum of a weight over its       *)
(* frames; the lemmas of MarketProofs say how such sums change when a      *)
(* frame is pushed, replaced or popped.                                    *)
(***************************************************************************)
EXTENDS Indexer, MarketProofs

-----------------------------------------------------------------------------
(* The purchases in progress.                                              *)

(* What a purchase has taken in of t and not paid out. *)
HeldWeight(t) ==
  [f \in Frame |->
     IF /\ f.pt = t
        /\ "pay" \notin ToSet(f.todo)
        /\ "payout" \in ToSet(f.todo)
     THEN f.got ELSE 0]

(* The units it is about, as long as it is not paid out. *)
UnloggedWeight(op, id) ==
  [f \in Frame |->
     IF f.op = op /\ f.id = id /\ "payout" \in ToSet(f.todo) THEN f.n ELSE 0]

(* Those that it has yet to deliver. *)
FlightWeight(id) ==
  [f \in Frame |->
     IF /\ f.op = "listing" /\ f.id = id
        /\ "payout" \in ToSet(f.todo) /\ "deliver" \in ToSet(f.todo)
     THEN f.n ELSE 0]

(* The calls the purchase of an order has still to make: the stages of     *)
(* doBuy, and whether another order follows.                               *)
OrderTodos ==
  {<<"next">>,
   <<"pay", "deliver", "payout">>, <<"deliver", "payout">>, <<"payout">>,
   <<"pay", "deliver", "payout", "next">>, <<"deliver", "payout", "next">>,
   <<"payout", "next">>}

(* Those of a bundle of which m items have yet to move, before and after   *)
(* the payment.                                                            *)
GiveThenPay(m) == [k \in 1 .. m + 1 |-> IF k = m + 1 THEN "payout" ELSE "deliver"]

PayThenGive(m) ==
  [k \in 1 .. m + 2 |-> IF k = 1 THEN "pay" ELSE IF k = m + 2 THEN "payout" ELSE "deliver"]

(* What the orders after the first `at` cost, of listings L, when each is  *)
(* for all there is of its listing.                                        *)
Coming(orders, at, L) ==
  [k \in DOMAIN orders |->
     IF k > at THEN L[orders[k].id].p * L[orders[k].id].a ELSE 0]

ToCome(orders, at, L) == Total(Coming(orders, at, L))

(* A purchase of known listings at one of its calls; n listings have been  *)
(* made.                                                                   *)
OrderFits(f, L, n) ==
  /\ f.id \in ListingIds
  /\ f.todo \in OrderTodos
  /\ "next" \in ToSet(f.todo) => f.at < Len(f.orders)
  /\ f.at = 0 => f.todo = <<"next">>
  /\ f.at > 0 =>
       /\ f.id < n /\ f.by # L[f.id].s
       /\ f.pt = L[f.id].pt /\ f.fb = L[f.id].fb /\ f.rs = L[f.id].rs

(* A sweep spends one token.  Unless a price was raised under it, what it  *)
(* has spent and what it would have to spend now are within its budget.    *)
SweepFits(f, L, n) ==
  LET t == L[f.orders[1].id].pt IN
  /\ f.orders # <<>>
  /\ \A k \in DOMAIN f.orders :
       /\ f.orders[k].id < n /\ f.orders[k].n = Whole
       /\ L[f.orders[k].id].pt = t
  /\ \A u \in Tokens \ {t} : f.bill.cost[u] = 0
  /\ ~f.bill.raised => f.bill.cost[t] + ToCome(f.orders, f.at, L) <= f.bill.budget

(* A purchase of one of the m known bundles, whose only buyer it is. *)
BundleFits(f, B, m, who) ==
  LET items == Len(B[f.id].its) IN
  /\ f.id < m /\ f.n = 1 /\ ~f.sweep
  /\ who[f.id] = <<f.by>> /\ f.by # B[f.id].s
  /\ f.at <= items
  /\ \/ f.at = 0 /\ f.todo = PayThenGive(items)
     \/ f.todo = GiveThenPay(items - f.at)

FrameFits(f, L, n, B, m, who) ==
  /\ f.op = "listing" => OrderFits(f, L, n) /\ (f.sweep => SweepFits(f, L, n))
  /\ f.op = "bundle" => BundleFits(f, B, m, who)

(* A frame fits in this state. *)
FitsNow(f) == FrameFits(f, listings, nextListingId, bundles, nextBundleId, buyers)

(* The same in the next state. *)
FitsNext(f) == FrameFits(f, listings', nextListingId', bundles', nextBundleId', buyers')

CallsTyped == calls \in Seq(Frame) /\ Len(calls) <= MaxDepth

(* Every purchase in progress fits what it is about. *)
FramesOK == \A k \in DOMAIN calls : FitsNow(calls[k])

(* A purchase that waits for its payment has read a balance that is what   *)
(* the purchases around it hold.                                           *)
BalancesRead ==
  \A k \in DOMAIN calls :
    Head(calls[k].todo) = "pay" =>
      calls[k].before = Weighed(HeldWeight(calls[k].pt), SubSeq(calls, 1, k - 1))

(* The market holds what the purchases in progress have taken in and not   *)
(* paid out.                                                               *)
HoldingsOK == \A t \in Tokens : pool[t] = Weighed(HeldWeight(t), calls)

StackOK == CallsTyped /\ FramesOK /\ BalancesRead /\ HoldingsOK

ListingsTyped ==
  /\ listings \in [ListingIds -> ListingRecord]
  /\ nextListingId \in 0 .. MaxListings

BundlesTyped ==
  /\ bundles \in [BundleIds -> BundleRecord]
  /\ nextBundleId \in 0 .. MaxBundles
  /\ buyers \in [BundleIds -> Seq(Accounts)]

-----------------------------------------------------------------------------
(* Weights are numbers. *)
LEMMA HeldType ==
  ASSUME NEW t
  PROVE  HeldWeight(t) \in [Frame -> Nat]
BY DEF HeldWeight, Frame

(* The units a frame has yet to log are a number. *)
LEMMA UnloggedType ==
  ASSUME NEW op, NEW id
  PROVE  UnloggedWeight(op, id) \in [Frame -> Nat]
BY DEF UnloggedWeight, Frame

(* So are those it has yet to deliver. *)
LEMMA FlightType ==
  ASSUME NEW id
  PROVE  FlightWeight(id) \in [Frame -> Nat]
BY DEF FlightWeight, Frame

(* The sums of the properties are weights. *)
LEMMA SumsWeigh ==
  ASSUME calls \in Seq(Frame)
  PROVE  /\ HoldingsOK <=> PaymentsPass
         /\ \A op, id : UnloggedUnits(op, id) = Weighed(UnloggedWeight(op, id), calls)
         /\ \A id : InFlight(id) = Weighed(FlightWeight(id), calls)
<1>1. \A k \in DOMAIN calls : calls[k] \in Frame
  OBVIOUS
<1>2. ASSUME NEW t \in Tokens
      PROVE  Weighed(HeldWeight(t), calls)
               = Total([k \in DOMAIN calls |->
                   IF /\ calls[k].pt = t
                      /\ "pay" \notin ToSet(calls[k].todo)
                      /\ "payout" \in ToSet(calls[k].todo)
                   THEN calls[k].got ELSE 0])
  BY <1>1 DEF Weighed, HeldWeight
<1>3. HoldingsOK <=> PaymentsPass
  BY <1>2 DEF HoldingsOK, PaymentsPass, SumOver
<1>4. ASSUME NEW op, NEW id
      PROVE  UnloggedUnits(op, id) = Weighed(UnloggedWeight(op, id), calls)
  <2> DEFINE f == [k \in DOMAIN calls |->
                     IF k \in Unlogged(op, id) THEN calls[k].n ELSE 0]
             w == [k \in DOMAIN calls |-> UnloggedWeight(op, id)[calls[k]]]
  <2>1. f = w
    BY <1>1 DEF UnloggedWeight, Unlogged
  <2> HIDE DEF f, w
  <2>2. UnloggedUnits(op, id) = Total(f)
    BY DEF UnloggedUnits, SumOver, f
  <2>3. Weighed(UnloggedWeight(op, id), calls) = Total(w)
    BY DEF Weighed, w
  <2> QED
    BY <2>1, <2>2, <2>3
<1>5. ASSUME NEW id
      PROVE  InFlight(id) = Weighed(FlightWeight(id), calls)
  <2> DEFINE f == [k \in DOMAIN calls |->
                     IF k \in Unlogged("listing", id) /\ "deliver" \in ToSet(calls[k].todo)
                     THEN calls[k].n ELSE 0]
             w == [k \in DOMAIN calls |-> FlightWeight(id)[calls[k]]]
  <2>1. f = w
    BY <1>1 DEF FlightWeight, Unlogged
  <2> HIDE DEF f, w
  <2>2. InFlight(id) = Total(f)
    BY DEF InFlight, SumOver, f
  <2>3. Weighed(FlightWeight(id), calls) = Total(w)
    BY DEF Weighed, w
  <2> QED
    BY <2>1, <2>2, <2>3
<1> QED
  BY <1>3, <1>4, <1>5

-----------------------------------------------------------------------------
(* The stack.                                                              *)

(* The innermost purchase and the ones around it make up the stack. *)
LEMMA StackSplit ==
  ASSUME calls \in Seq(Frame), ~Idle
  PROVE  /\ Top \in Frame /\ Outer \in Seq(Frame)
         /\ calls = Append(Outer, Top)
         /\ Len(calls) \in Nat \ {0} /\ Len(Outer) = Len(calls) - 1
         /\ \A k \in DOMAIN Outer : k \in DOMAIN calls /\ Outer[k] = calls[k]
         /\ Len(calls) \in DOMAIN calls
<1> DEFINE n == Len(calls)
<1>1. n \in Nat /\ n # 0 /\ DOMAIN calls = 1 .. n
  BY DEF Idle
<1>2. n \in 1 .. n
  BY <1>1
<1>3. Top \in Frame
  BY <1>1, <1>2 DEF Top
<1>4. /\ Outer \in Seq(Frame) /\ Len(Outer) = n - 1
      /\ \A k \in 1 .. n - 1 : Outer[k] = calls[k]
  <2>1. \A k \in 1 .. n - 1 : calls[k] \in Frame
    BY <1>1
  <2> HIDE DEF n
  <2>2. /\ SubSeq(calls, 1, n - 1) \in Seq(Frame)
        /\ Len(SubSeq(calls, 1, n - 1)) = n - 1
        /\ \A k \in 1 .. n - 1 : SubSeq(calls, 1, n - 1)[k] = calls[k]
    <3>1. /\ SubSeq(calls, 1, n - 1) \in Seq(Frame)
          /\ Len(SubSeq(calls, 1, n - 1)) = IF 1 <= n - 1 THEN n - 1 - 1 + 1 ELSE 0
          /\ \A k \in 1 .. n - 1 - 1 + 1 : SubSeq(calls, 1, n - 1)[k] = calls[1 + k - 1]
      <4>1. 1 \in Int /\ n - 1 \in Int
        BY <1>1
      <4> QED
        BY <2>1, <4>1, SubSeqProperties
    <3>2. n - 1 - 1 + 1 = n - 1 /\ (~(1 <= n - 1) => n - 1 = 0)
      BY <1>1
    <3>3. \A k \in 1 .. n - 1 : 1 + k - 1 = k
      BY <1>1
    <3> QED
      BY <3>1, <3>2, <3>3
  <2> QED
    BY <2>2 DEF Outer, n
<1>5. calls = Append(Outer, Top)
  <2> DEFINE new == Append(Outer, Top)
  <2>1. /\ new \in Seq(Frame) /\ Len(new) = Len(Outer) + 1
        /\ new[Len(Outer) + 1] = Top
        /\ \A k \in 1 .. Len(Outer) : new[k] = Outer[k]
    <3> HIDE DEF n
    <3> QED
      BY <1>3, <1>4
  <2> HIDE DEF new
  <2>2. Len(new) = n /\ calls[n] = Top
    <3>1. calls[n] = Top
      BY DEF Top
    <3> HIDE DEF n
    <3> QED
      BY <1>1, <1>4, <2>1, <3>1
  <2>3. ASSUME NEW k \in 1 .. n
        PROVE  calls[k] = new[k]
    <3> HIDE DEF n
    <3>1. CASE k = n
      BY <1>1, <1>4, <2>1, <2>2, <3>1
    <3>2. CASE k # n
      <4>1. k \in 1 .. n - 1 /\ k \in 1 .. Len(Outer)
        BY <1>1, <1>4, <3>2
      <4> QED
        BY <1>4, <2>1, <4>1
    <3> QED
      BY <3>1, <3>2
  <2> QED
    BY <2>1, <2>2, <2>3, SeqEqual DEF n
<1>6. DOMAIN Outer = 1 .. n - 1
  BY <1>4
<1> QED
  BY <1>1, <1>2, <1>3, <1>4, <1>5, <1>6

(* A purchase starts inside the others. *)
LEMMA StackGrows ==
  ASSUME CallsTyped, NEW g \in Frame, Len(calls) < MaxDepth, calls' = Append(calls, g)
  PROVE  /\ CallsTyped'
         /\ \A k \in DOMAIN calls : k \in DOMAIN calls' /\ calls'[k] = calls[k]
         /\ \A k \in DOMAIN calls' :
              \/ k \in DOMAIN calls
              \/ k = Len(calls) + 1 /\ calls'[k] = g
         /\ \A k \in DOMAIN calls' : SubSeq(calls', 1, k - 1) = SubSeq(calls, 1, k - 1)
         /\ SubSeq(calls, 1, Len(calls)) = calls
<1> DEFINE n == Len(calls)
           new == Append(calls, g)
<1>1. calls \in Seq(Frame) /\ n \in Nat /\ DOMAIN calls = 1 .. n /\ n < MaxDepth
  BY DEF CallsTyped
<1>2. /\ new \in Seq(Frame) /\ Len(new) = n + 1 /\ DOMAIN new = 1 .. n + 1
      /\ new[n + 1] = g /\ \A j \in 1 .. n : new[j] = calls[j]
  BY <1>1
<1>3. calls' = new
  OBVIOUS
<1> HIDE DEF new
<1>4. CallsTyped'
  <2> HIDE DEF n
  <2>1. n + 1 <= MaxDepth
    BY <1>1, CallAssumption
  <2> QED
    BY <1>1, <1>2, <1>3, <2>1 DEF CallsTyped
<1>5. ASSUME NEW k \in DOMAIN calls'
      PROVE  SubSeq(calls', 1, k - 1) = SubSeq(calls, 1, k - 1)
  <2> DEFINE m == k - 1
  <2> HIDE DEF n
  <2>1. k \in 1 .. n + 1
    BY <1>2, <1>3
  <2>2. m \in Nat /\ m <= n /\ m <= n + 1 /\ \A j \in 1 .. m : j \in 1 .. n
    BY <1>1, <2>1
  <2>3. \A j \in 1 .. m : new[j] = calls[j]
    BY <1>2, <2>2
  <2> HIDE DEF m
  <2>4. SubSeq(new, 1, m) = SubSeq(calls, 1, m)
    BY <1>1, <1>2, <2>2, <2>3, SamePrefix DEF n
  <2> QED
    BY <1>3, <2>4 DEF m
<1>6. SubSeq(calls, 1, n) = calls
  BY <1>1, SubSeqFull
<1> HIDE DEF n
<1>7. \A k \in DOMAIN calls' : k \in DOMAIN calls \/ (k = n + 1 /\ calls'[k] = g)
  BY <1>1, <1>2, <1>3
<1>8. \A k \in DOMAIN calls : k \in DOMAIN calls' /\ calls'[k] = calls[k]
  BY <1>1, <1>2, <1>3
<1> QED
  BY <1>4, <1>5, <1>6, <1>7, <1>8 DEF n

(* The innermost purchase goes on, as h, or is over. *)
LEMMA StackTurns ==
  ASSUME CallsTyped, ~Idle, NEW h \in Frame, NEW on \in BOOLEAN,
         calls' = IF on THEN Append(Outer, h) ELSE Outer
  PROVE  /\ CallsTyped'
         /\ \A k \in DOMAIN Outer : /\ k \in DOMAIN calls /\ k \in DOMAIN calls'
                                    /\ calls'[k] = calls[k]
         /\ \A k \in DOMAIN calls' :
              \/ k \in DOMAIN Outer
              \/ on /\ k = Len(calls) /\ calls'[k] = h
         /\ \A k \in DOMAIN calls' : SubSeq(calls', 1, k - 1) = SubSeq(calls, 1, k - 1)
<1> DEFINE n == Len(Outer)
           new == Append(Outer, h)
<1>1. calls \in Seq(Frame) /\ Len(calls) <= MaxDepth
  BY DEF CallsTyped
<1>2. /\ Outer \in Seq(Frame) /\ Len(calls) = n + 1 /\ n \in Nat /\ DOMAIN Outer = 1 .. n
      /\ \A k \in 1 .. n : k \in DOMAIN calls /\ Outer[k] = calls[k]
  BY <1>1, StackSplit
<1>3. /\ new \in Seq(Frame) /\ Len(new) = n + 1 /\ DOMAIN new = 1 .. n + 1
      /\ new[n + 1] = h /\ \A j \in 1 .. n : new[j] = Outer[j]
  BY <1>2
<1>4. calls' = IF on THEN new ELSE Outer
  OBVIOUS
<1> HIDE DEF new
<1>5. /\ calls' \in Seq(Frame) /\ DOMAIN calls' = 1 .. Len(calls')
      /\ Len(calls') = IF on THEN n + 1 ELSE n
  BY <1>2, <1>3, <1>4
<1>6. \A j \in 1 .. n : j \in DOMAIN calls' /\ calls'[j] = calls[j]
  <2> HIDE DEF n
  <2> QED
    BY <1>2, <1>3, <1>4
<1>7. ASSUME NEW k \in DOMAIN calls'
      PROVE  k \in 1 .. n + 1 /\ (k \in DOMAIN Outer \/ (on /\ k = n + 1 /\ calls'[k] = h))
  <2> HIDE DEF n
  <2>1. CASE on
    <3>1. calls' = new /\ k \in 1 .. n + 1
      BY <1>3, <1>4, <2>1
    <3>2. k \in 1 .. n \/ k = n + 1
      BY <1>2, <3>1
    <3> QED
      BY <1>2, <1>3, <2>1, <3>1, <3>2
  <2>2. CASE ~on
    BY <1>2, <1>4, <2>2
  <2> QED
    BY <2>1, <2>2
<1>8. ASSUME NEW k \in DOMAIN calls'
      PROVE  SubSeq(calls', 1, k - 1) = SubSeq(calls, 1, k - 1)
  <2> DEFINE m == k - 1
  <2>1. k \in 1 .. n + 1 /\ k <= Len(calls')
    BY <1>5, <1>7
  <2> HIDE DEF n
  <2>2. /\ m \in Nat /\ m <= Len(calls) /\ m <= Len(calls')
        /\ \A j \in 1 .. m : j \in 1 .. n
    BY <1>2, <1>5, <2>1
  <2>3. \A j \in 1 .. m : calls'[j] = calls[j]
    BY <1>6, <2>2
  <2> HIDE DEF m
  <2>4. SubSeq(calls', 1, m) = SubSeq(calls, 1, m)
    BY <1>1, <1>5, <2>2, <2>3, SamePrefix
  <2> QED
    BY <2>4 DEF m
<1>9. CallsTyped'
  <2> HIDE DEF n
  <2>1. Len(calls') <= MaxDepth
    BY <1>1, <1>2, <1>5, CallAssumption
  <2> QED
    BY <1>5, <2>1 DEF CallsTyped
<1> HIDE DEF n
<1>10. \A k \in DOMAIN calls' : k \in DOMAIN Outer \/ (on /\ k = Len(calls) /\ calls'[k] = h)
  BY <1>2, <1>7
<1> QED
  BY <1>2, <1>6, <1>8, <1>9, <1>10

(* What the stack weighs then. *)
LEMMA TurnWeighs ==
  ASSUME CallsTyped, ~Idle, NEW h \in Frame, NEW on \in BOOLEAN,
         calls' = (IF on THEN Append(Outer, h) ELSE Outer), NEW V \in [Frame -> Nat]
  PROVE  /\ Weighed(V, Outer) \in Nat
         /\ Weighed(V, calls) = Weighed(V, Outer) + V[Top]
         /\ Weighed(V, calls') = Weighed(V, Outer) + (IF on THEN V[h] ELSE 0)
<1>1. /\ Outer \in Seq(Frame) /\ Top \in Frame /\ calls = Append(Outer, Top)
  BY StackSplit DEF CallsTyped
<1>2. Weighed(V, Outer) \in Nat
  BY <1>1, WeighedType
<1>3. Weighed(V, calls) = Weighed(V, Outer) + V[Top]
  BY <1>1, WeighedPush
<1>4. CASE on
  <2>1. calls' = Append(Outer, h)
    BY <1>4
  <2>2. Weighed(V, calls') = Weighed(V, Outer) + V[h]
    BY <1>1, <2>1, WeighedPush
  <2> QED
    BY <1>2, <1>3, <1>4, <2>2
<1>5. CASE ~on
  <2>1. calls' = Outer
    BY <1>5
  <2> QED
    BY <1>2, <1>3, <1>5, <2>1
<1> QED
  BY <1>4, <1>5

(* A frame once its call has come back. *)
After(f) == [f EXCEPT !.todo = Tail(f.todo)]

(* The purchase after a call is the same one at its next stage. *)
LEMMA AfterFields ==
  ASSUME NEW f \in Frame, f.todo # <<>>
  PROVE  /\ After(f) \in Frame
         /\ After(f).op = f.op /\ After(f).id = f.id /\ After(f).by = f.by
         /\ After(f).n = f.n /\ After(f).pt = f.pt /\ After(f).got = f.got
         /\ After(f).fb = f.fb /\ After(f).rs = f.rs /\ After(f).at = f.at
         /\ After(f).orders = f.orders /\ After(f).sweep = f.sweep
         /\ After(f).bill = f.bill
         /\ After(f).todo = Tail(f.todo)
<1>1. f.todo \in Seq(Stages \cup {"next"})
  BY DEF Frame
<1>2. Tail(f.todo) \in Seq(Stages \cup {"next"})
  BY <1>1
<1> QED
  BY <1>2 DEF After, Frame

(* A call comes back: the purchase goes on or is over. *)
LEMMA ReturnTurns ==
  ASSUME NEW f \in Frame, f.todo # <<>>, Returned(f)
  PROVE  calls' = IF Len(f.todo) # 1 THEN Append(Outer, After(f)) ELSE Outer
BY DEF Returned, After

-----------------------------------------------------------------------------
(* The stages of a purchase.                                               *)

(* The stages of an order. *)
LEMMA OrderStages ==
  ASSUME NEW todo \in OrderTodos
  PROVE  /\ todo # <<>> /\ Head(todo) \in {"pay", "deliver", "payout", "next"}
         /\ Head(todo) = "next" => todo = <<"next">>
         /\ Head(todo) # "next" /\ Len(todo) # 1 => Tail(todo) \in OrderTodos
         /\ Head(todo) \in {"pay", "deliver"} => Len(todo) # 1
         /\ Head(todo) = "pay" => Head(Tail(todo)) = "deliver"
         /\ Head(todo) = "deliver" => Head(Tail(todo)) = "payout"
         /\ Head(todo) = "payout" /\ Len(todo) # 1 => Tail(todo) = <<"next">>
         /\ "pay" \in ToSet(todo) <=> Head(todo) = "pay"
         /\ "deliver" \in ToSet(todo) <=> Head(todo) \in {"pay", "deliver"}
         /\ "payout" \in ToSet(todo) <=> Head(todo) # "next"
         /\ Len(todo) # 1 /\ Head(todo) # "next" /\ "next" \in ToSet(Tail(todo))
              => "next" \in ToSet(todo)
         /\ Head(todo) = "payout" /\ Len(todo) = 1 => "next" \notin ToSet(todo)
<1>1. CASE todo = <<"next">>
  <2>1. ToSet(todo) = {"next"}
    BY <1>1 DEF ToSet
  <2> QED
    BY <1>1, <2>1
<1>2. CASE todo = <<"pay", "deliver", "payout">>
  <2>1. ToSet(todo) = {"pay", "deliver", "payout"} /\ Tail(todo) = <<"deliver", "payout">>
        /\ ToSet(Tail(todo)) = {"deliver", "payout"}
    BY <1>2 DEF ToSet
  <2> QED
    BY <1>2, <2>1 DEF OrderTodos
<1>3. CASE todo = <<"deliver", "payout">>
  <2>1. ToSet(todo) = {"deliver", "payout"} /\ Tail(todo) = <<"payout">>
        /\ ToSet(Tail(todo)) = {"payout"}
    BY <1>3 DEF ToSet
  <2> QED
    BY <1>3, <2>1 DEF OrderTodos
<1>4. CASE todo = <<"payout">>
  <2>1. ToSet(todo) = {"payout"}
    BY <1>4 DEF ToSet
  <2> QED
    BY <1>4, <2>1
<1>5. CASE todo = <<"pay", "deliver", "payout", "next">>
  <2>1. ToSet(todo) = {"pay", "deliver", "payout", "next"}
        /\ Tail(todo) = <<"deliver", "payout", "next">>
    BY <1>5 DEF ToSet
  <2> QED
    BY <1>5, <2>1 DEF OrderTodos
<1>6. CASE todo = <<"deliver", "payout", "next">>
  <2>1. ToSet(todo) = {"deliver", "payout", "next"} /\ Tail(todo) = <<"payout", "next">>
    BY <1>6 DEF ToSet
  <2> QED
    BY <1>6, <2>1 DEF OrderTodos
<1>7. CASE todo = <<"payout", "next">>
  <2>1. ToSet(todo) = {"payout", "next"} /\ Tail(todo) = <<"next">>
    BY <1>7 DEF ToSet
  <2> QED
    BY <1>7, <2>1 DEF OrderTodos
<1> QED
  BY <1>1, <1>2, <1>3, <1>4, <1>5, <1>6, <1>7 DEF OrderTodos

(* The calls a bundle of m items makes. *)
LEMMA BundleCallsListed ==
  ASSUME NEW b, NEW m \in Nat, Len(b.its) = m
  PROVE  BundleCalls(b) = PayThenGive(m)
<1> DEFINE mid == [k \in 1 .. m |-> "deliver"]
           a == <<"pay">>
           z == <<"payout">>
           all == (a \o mid) \o z
           S == {"pay", "deliver", "payout"}
<1>1. mid \in Seq(S) /\ Len(mid) = m /\ \A k \in 1 .. m : mid[k] = "deliver"
  OBVIOUS
<1>2. a \in Seq(S) /\ Len(a) = 1 /\ a[1] = "pay" /\ z \in Seq(S) /\ Len(z) = 1 /\ z[1] = "payout"
  OBVIOUS
<1> HIDE DEF mid, a, z
<1>3. /\ a \o mid \in Seq(S) /\ Len(a \o mid) = m + 1
      /\ (a \o mid)[1] = "pay" /\ \A k \in 2 .. m + 1 : (a \o mid)[k] = "deliver"
  <2>1. /\ a \o mid \in Seq(S) /\ Len(a \o mid) = 1 + m
        /\ \A k \in 1 .. Len(a) + Len(mid) :
             (a \o mid)[k] = IF k <= Len(a) THEN a[k] ELSE mid[k - Len(a)]
    BY <1>1, <1>2, ConcatProperties
  <2>2. 1 \in 1 .. Len(a) + Len(mid) /\ 1 <= Len(a)
    BY <1>1, <1>2
  <2>3. ASSUME NEW k \in 2 .. m + 1
        PROVE  (a \o mid)[k] = "deliver"
    <3>1. k \in 1 .. Len(a) + Len(mid) /\ ~(k <= Len(a)) /\ k - Len(a) \in 1 .. m
      BY <1>1, <1>2
    <3> QED
      BY <1>1, <2>1, <3>1
  <2> QED
    BY <1>2, <2>1, <2>2, <2>3
<1> DEFINE am == a \o mid
<1>4. am \in Seq(S) /\ Len(am) = m + 1 /\ am[1] = "pay" /\ \A k \in 2 .. m + 1 : am[k] = "deliver"
  BY <1>3
<1> HIDE DEF am
<1>5. /\ am \o z \in Seq(S) /\ Len(am \o z) = m + 2
      /\ \A k \in 1 .. m + 2 : (am \o z)[k] = IF k <= m + 1 THEN am[k] ELSE z[k - (m + 1)]
  <2>1. /\ am \o z \in Seq(S) /\ Len(am \o z) = Len(am) + Len(z)
        /\ \A k \in 1 .. Len(am) + Len(z) :
             (am \o z)[k] = IF k <= Len(am) THEN am[k] ELSE z[k - Len(am)]
    BY <1>2, <1>4, ConcatProperties
  <2>2. Len(am) + Len(z) = m + 2
    BY <1>2, <1>4
  <2> QED
    BY <1>4, <2>1, <2>2
<1>6. PayThenGive(m) \in Seq(S) /\ Len(PayThenGive(m)) = m + 2
  BY DEF PayThenGive
<1>7. ASSUME NEW k \in 1 .. m + 2
      PROVE  (am \o z)[k] = PayThenGive(m)[k]
  <2>1. CASE k = 1
    BY <1>4, <1>5, <2>1 DEF PayThenGive
  <2>2. CASE k = m + 2
    <3>1. k - (m + 1) = 1 /\ ~(k <= m + 1) /\ k # 1
      BY <2>2
    <3> QED
      BY <1>2, <1>5, <2>2, <3>1 DEF PayThenGive
  <2>3. CASE k # 1 /\ k # m + 2
    <3>1. k \in 2 .. m + 1 /\ k <= m + 1
      BY <2>3
    <3> QED
      BY <1>4, <1>5, <2>3, <3>1 DEF PayThenGive
  <2> QED
    BY <2>1, <2>2, <2>3
<1>8. am \o z = PayThenGive(m)
  BY <1>5, <1>6, <1>7, SeqEqual
<1> QED
  BY <1>8 DEF BundleCalls, am, a, z, mid

(* The stages of a bundle. *)
LEMMA BundleStages ==
  ASSUME NEW m \in Nat
  PROVE  /\ PayThenGive(m) \in Seq(Stages) /\ GiveThenPay(m) \in Seq(Stages)
         /\ Len(PayThenGive(m)) = m + 2 /\ Len(GiveThenPay(m)) = m + 1
         /\ Head(PayThenGive(m)) = "pay"
         /\ Tail(PayThenGive(m)) = GiveThenPay(m)
         /\ Head(GiveThenPay(m)) = IF m = 0 THEN "payout" ELSE "deliver"
         /\ m > 0 => Tail(GiveThenPay(m)) = GiveThenPay(m - 1)
         /\ "payout" \in ToSet(PayThenGive(m)) /\ "payout" \in ToSet(GiveThenPay(m))
         /\ "pay" \in ToSet(PayThenGive(m)) /\ "pay" \notin ToSet(GiveThenPay(m))
<1> DEFINE p == PayThenGive(m)
           g == GiveThenPay(m)
<1>1. /\ p \in Seq(Stages) /\ Len(p) = m + 2 /\ DOMAIN p = 1 .. m + 2
      /\ p[1] = "pay" /\ p[m + 2] = "payout" /\ \A k \in 2 .. m + 1 : p[k] = "deliver"
  BY DEF PayThenGive, Stages
<1>2. /\ g \in Seq(Stages) /\ Len(g) = m + 1 /\ DOMAIN g = 1 .. m + 1
      /\ g[m + 1] = "payout" /\ \A k \in 1 .. m : g[k] = "deliver"
  BY DEF GiveThenPay, Stages
<1>3. Tail(p) = g
  <2>1. /\ Tail(p) \in Seq(Stages) /\ Len(Tail(p)) = m + 1
        /\ \A k \in 1 .. m + 1 : Tail(p)[k] = p[k + 1]
    <3> HIDE DEF p
    <3> QED
      BY <1>1
  <2>2. \A k \in 1 .. m + 1 : p[k + 1] = g[k]
    <3> HIDE DEF p, g
    <3> QED
      BY <1>1, <1>2
  <2> HIDE DEF p, g
  <2> QED
    BY <1>2, <2>1, <2>2, SeqEqual
<1>4. m > 0 => Tail(g) = GiveThenPay(m - 1)
  <2> SUFFICES ASSUME m > 0
               PROVE  Tail(g) = GiveThenPay(m - 1)
    OBVIOUS
  <2> DEFINE h == GiveThenPay(m - 1)
  <2>1. /\ h \in Seq(Stages) /\ Len(h) = m
        /\ h[m] = "payout" /\ \A k \in 1 .. m - 1 : h[k] = "deliver"
    BY DEF GiveThenPay, Stages
  <2> HIDE DEF h, g
  <2>2. /\ Tail(g) \in Seq(Stages) /\ Len(Tail(g)) = m
        /\ \A k \in 1 .. m : Tail(g)[k] = g[k + 1]
    BY <1>2
  <2>3. \A k \in 1 .. m : g[k + 1] = h[k]
    BY <1>2, <2>1
  <2>4. Tail(g) = h
    BY <2>1, <2>2, <2>3, SeqEqual
  <2> QED
    BY <2>4 DEF h
<1>5. Head(p) = "pay" /\ Head(g) = IF m = 0 THEN "payout" ELSE "deliver"
  <2> HIDE DEF p, g
  <2> QED
    BY <1>1, <1>2
<1>6. "payout" \in ToSet(p) /\ "pay" \in ToSet(p) /\ "payout" \in ToSet(g)
  <2> HIDE DEF p, g
  <2> QED
    BY <1>1, <1>2 DEF ToSet
<1>7. "pay" \notin ToSet(g)
  <2>1. \A k \in 1 .. m + 1 : g[k] # "pay"
    BY DEF GiveThenPay
  <2> HIDE DEF g
  <2> QED
    BY <1>2, <2>1 DEF ToSet
<1> QED
  BY <1>1, <1>2, <1>3, <1>4, <1>5, <1>6, <1>7

-----------------------------------------------------------------------------
(* What holds of a purchase that fits.                                     *)

(* Nothing comes after the only call. *)
LEMMA NothingAfter ==
  ASSUME NEW S, NEW s \in Seq(S), Len(s) = 1
  PROVE  ToSet(Tail(s)) = {}
<1> DEFINE u == Tail(s)
<1>1. u \in Seq(S) /\ Len(u) = 0
  OBVIOUS
<1> HIDE DEF u
<1>2. DOMAIN u = 1 .. 0
  BY <1>1
<1>3. ToSet(u) = {}
  BY <1>2 DEF ToSet
<1> QED
  BY <1>3 DEF u

(* The stages of a frame. *)
LEMMA FrameStages ==
  ASSUME BundlesTyped, NEW f \in Frame, FitsNow(f)
  PROVE  /\ f.todo # <<>> /\ Head(f.todo) \in {"pay", "deliver", "payout", "next"}
         /\ Head(f.todo) = "next" => f.op = "listing" /\ f.todo = <<"next">>
         /\ Head(f.todo) \in {"pay", "deliver"} =>
              /\ Len(f.todo) # 1 /\ Head(Tail(f.todo)) \in {"deliver", "payout"}
              /\ "payout" \in ToSet(Tail(f.todo)) /\ "pay" \notin ToSet(Tail(f.todo))
         /\ Head(f.todo) = "payout" => "payout" \notin ToSet(Tail(f.todo))
         /\ Head(f.todo) = "payout" /\ Len(f.todo) # 1 => Head(Tail(f.todo)) = "next"
         /\ "payout" \in ToSet(f.todo) <=> Head(f.todo) # "next"
         /\ "pay" \in ToSet(f.todo) <=> Head(f.todo) = "pay"
         /\ f.op = "listing" =>
              /\ "deliver" \in ToSet(f.todo) <=> Head(f.todo) \in {"pay", "deliver"}
              /\ Head(f.todo) = "pay" => "deliver" \in ToSet(Tail(f.todo))
              /\ Head(f.todo) = "deliver" => "deliver" \notin ToSet(Tail(f.todo))
<1> DEFINE todo == f.todo
<1>1. f.op \in {"listing", "bundle"} /\ f.id \in Nat /\ f.at \in Nat
  BY DEF Frame
<1>2. CASE f.op = "listing"
  <2>1. todo \in OrderTodos
    BY <1>2 DEF FitsNow, FrameFits, OrderFits
  <2> HIDE DEF todo
  <2>2. Len(todo) = 1 => ToSet(Tail(todo)) = {}
    <3>1. todo \in Seq(Stages \cup {"next"})
      BY DEF todo, Frame
    <3> QED
      BY <3>1, NothingAfter
  <2>3. ToSet(<<"next">>) = {"next"}
    BY DEF ToSet
  <2>4. CASE Head(todo) = "next"
    <3>1. todo = <<"next">>
      BY <2>1, <2>4, OrderStages
    <3>2. /\ todo # <<>> /\ "payout" \notin ToSet(todo) /\ "pay" \notin ToSet(todo)
          /\ "deliver" \notin ToSet(todo)
      BY <2>1, <2>4, OrderStages
    <3> QED
      BY <1>2, <2>4, <3>1, <3>2 DEF todo
  <2>5. CASE Head(todo) = "pay"
    <3>1. Len(todo) # 1 /\ Tail(todo) \in OrderTodos /\ Head(Tail(todo)) = "deliver"
      BY <2>1, <2>5, OrderStages
    <3> QED
      BY <2>1, <2>5, <3>1, OrderStages DEF todo
  <2>6. CASE Head(todo) = "deliver"
    <3>1. Len(todo) # 1 /\ Tail(todo) \in OrderTodos /\ Head(Tail(todo)) = "payout"
      BY <2>1, <2>6, OrderStages
    <3> QED
      BY <2>1, <2>6, <3>1, OrderStages DEF todo
  <2>7. CASE Head(todo) = "payout"
    <3>1. Len(todo) # 1 => Tail(todo) = <<"next">>
      BY <2>1, <2>7, OrderStages
    <3>2. "payout" \notin ToSet(Tail(todo))
      <4>1. CASE Len(todo) = 1
        BY <2>2, <4>1
      <4>2. CASE Len(todo) # 1
        <5>1. ToSet(Tail(todo)) = {"next"}
          BY <2>3, <3>1, <4>2, Zenon
        <5> QED
          BY <5>1
      <4> QED
        BY <4>1, <4>2
    <3>3. /\ todo # <<>> /\ "payout" \in ToSet(todo) /\ "pay" \notin ToSet(todo)
          /\ "deliver" \notin ToSet(todo)
      BY <2>1, <2>7, OrderStages
    <3>4. Len(todo) # 1 => Head(Tail(todo)) = "next"
      <4>1. Head(<<"next">>) = "next"
        OBVIOUS
      <4> QED
        BY <3>1, <4>1
    <3> QED
      BY <2>7, <3>2, <3>3, <3>4 DEF todo
  <2>8. Head(todo) \in {"pay", "deliver", "payout", "next"}
    BY <2>1, OrderStages
  <2> QED
    BY <2>4, <2>5, <2>6, <2>7, <2>8
<1>3. CASE f.op = "bundle"
  <2> DEFINE items == Len(bundles[f.id].its)
             m == items - f.at
  <2>1. f.id < nextBundleId /\ f.at <= items
        /\ (todo = PayThenGive(items) \/ todo = GiveThenPay(m))
    BY <1>3 DEF FitsNow, FrameFits, BundleFits
  <2>2. f.id \in BundleIds
    BY <1>1, <2>1, BundleAssumption DEF BundlesTyped, BundleIds
  <2>3. items \in Nat
    BY <2>2 DEF BundlesTyped, BundleRecord
  <2>4. m \in Nat
    <3> HIDE DEF items
    <3> QED
      BY <1>1, <2>1, <2>3
  <2> HIDE DEF m, items, todo
  <2>5. CASE todo = PayThenGive(items)
    <3>1. Len(PayThenGive(items)) # 1
      <4>1. Len(PayThenGive(items)) = items + 2
        BY <2>3, BundleStages
      <4> QED
        BY <2>3, <4>1
    <3>2. Head(GiveThenPay(items)) \in {"deliver", "payout"}
      BY <2>3, BundleStages
    <3>3. PayThenGive(items) # <<>>
      <4>1. Len(PayThenGive(items)) # 0
        BY <2>3, BundleStages
      <4> QED
        BY <4>1
    <3> QED
      BY <1>3, <2>3, <2>5, <3>1, <3>2, <3>3, BundleStages DEF todo
  <2>6. CASE todo = GiveThenPay(m) /\ m = 0
    <3>1. Len(todo) = 1 /\ Head(todo) = "payout" /\ todo \in Seq(Stages)
      <4>1. /\ Len(GiveThenPay(m)) = m + 1 /\ GiveThenPay(m) \in Seq(Stages)
            /\ Head(GiveThenPay(m)) = IF m = 0 THEN "payout" ELSE "deliver"
        BY <2>4, BundleStages
      <4> QED
        BY <2>6, <4>1
    <3>2. ToSet(Tail(todo)) = {}
      BY <3>1, NothingAfter
    <3>3. todo # <<>>
      BY <3>1
    <3>4. "payout" \in ToSet(todo) /\ "pay" \notin ToSet(todo)
      BY <2>4, <2>6, BundleStages
    <3> QED
      BY <1>3, <3>1, <3>2, <3>3, <3>4 DEF todo
  <2>7. CASE todo = GiveThenPay(m) /\ m # 0
    <3> DEFINE q == m - 1
    <3>1. q \in Nat /\ m > 0
      BY <2>4, <2>7
    <3>2. Len(todo) = m + 1 /\ Head(todo) = "deliver" /\ Tail(todo) = GiveThenPay(q)
      BY <2>4, <2>7, <3>1, BundleStages
    <3> HIDE DEF q
    <3>3. todo # <<>> /\ Len(todo) # 1
      BY <2>4, <2>7, <3>2
    <3>4. "payout" \in ToSet(todo) /\ "pay" \notin ToSet(todo)
      BY <2>4, <2>7, BundleStages
    <3>5. /\ "payout" \in ToSet(Tail(todo)) /\ "pay" \notin ToSet(Tail(todo))
          /\ Head(Tail(todo)) \in {"deliver", "payout"}
      BY <3>1, <3>2, BundleStages
    <3> QED
      BY <1>3, <3>2, <3>3, <3>4, <3>5 DEF todo
  <2> QED
    BY <2>1, <2>5, <2>6, <2>7
<1> QED
  BY <1>1, <1>2, <1>3

(* What a frame weighs before and after each of its calls. *)
LEMMA WeightAtStage ==
  ASSUME BundlesTyped, NEW f \in Frame, FitsNow(f), NEW t, NEW op, NEW id
  PROVE  /\ HeldWeight(t)[f] =
              IF f.pt = t /\ Head(f.todo) \in {"deliver", "payout"} THEN f.got ELSE 0
         /\ UnloggedWeight(op, id)[f] =
              IF f.op = op /\ f.id = id /\ Head(f.todo) # "next" THEN f.n ELSE 0
         /\ FlightWeight(id)[f] =
              IF f.op = "listing" /\ f.id = id /\ Head(f.todo) \in {"pay", "deliver"}
              THEN f.n ELSE 0
         /\ Head(f.todo) \in {"pay", "deliver"} =>
              /\ HeldWeight(t)[After(f)] = IF f.pt = t THEN f.got ELSE 0
              /\ UnloggedWeight(op, id)[After(f)] = UnloggedWeight(op, id)[f]
         /\ Head(f.todo) = "payout" =>
              /\ HeldWeight(t)[After(f)] = 0 /\ UnloggedWeight(op, id)[After(f)] = 0
              /\ FlightWeight(id)[After(f)] = 0
         /\ Head(f.todo) = "pay" => FlightWeight(id)[After(f)] = FlightWeight(id)[f]
         /\ Head(f.todo) = "deliver" => FlightWeight(id)[After(f)] = 0
<1> DEFINE g == After(f)
<1>1. f.todo # <<>>
  BY FrameStages
<1>2. /\ g \in Frame /\ g.op = f.op /\ g.id = f.id /\ g.n = f.n /\ g.pt = f.pt
      /\ g.got = f.got /\ g.todo = Tail(f.todo)
  BY <1>1, AfterFields
<1> HIDE DEF g
<1>3. \A h \in Frame :
        /\ HeldWeight(t)[h] = IF /\ h.pt = t /\ "pay" \notin ToSet(h.todo)
                                 /\ "payout" \in ToSet(h.todo)
                              THEN h.got ELSE 0
        /\ UnloggedWeight(op, id)[h] =
             IF h.op = op /\ h.id = id /\ "payout" \in ToSet(h.todo) THEN h.n ELSE 0
        /\ FlightWeight(id)[h] =
             IF /\ h.op = "listing" /\ h.id = id
                /\ "payout" \in ToSet(h.todo) /\ "deliver" \in ToSet(h.todo)
             THEN h.n ELSE 0
  BY DEF HeldWeight, UnloggedWeight, FlightWeight
<1>4. Head(f.todo) \in {"pay", "deliver", "payout", "next"}
  BY FrameStages
<1>5. CASE Head(f.todo) = "pay"
  BY <1>2, <1>3, <1>5, FrameStages DEF g
<1>6. CASE Head(f.todo) = "deliver"
  BY <1>2, <1>3, <1>6, FrameStages DEF g
<1>7. CASE Head(f.todo) = "payout"
  BY <1>2, <1>3, <1>7, FrameStages DEF g
<1>8. CASE Head(f.todo) = "next"
  BY <1>2, <1>3, <1>8, FrameStages DEF g
<1> QED
  BY <1>4, <1>5, <1>6, <1>7, <1>8

(* A frame that fits is about a listing or a bundle there is. *)
LEMMA FitsIds ==
  ASSUME BundlesTyped, NEW f \in Frame, FitsNow(f)
  PROVE  /\ f.op \in {"listing", "bundle"}
         /\ f.op = "listing" => f.id \in ListingIds
         /\ f.op = "bundle" => f.id \in BundleIds
<1>1. f.op \in {"listing", "bundle"} /\ f.id \in Nat
  BY DEF Frame
<1>2. f.op = "bundle" => f.id \in BundleIds
  BY <1>1, BundleAssumption DEF BundlesTyped, BundleIds, FitsNow, FrameFits, BundleFits
<1> QED
  BY <1>1, <1>2 DEF FitsNow, FrameFits, OrderFits

(* The purchase of an order fits at its next stage. *)
LEMMA OrderFitsAfter ==
  ASSUME NEW f \in Frame, NEW g \in Frame, NEW L, NEW n,
         f.op = "listing", OrderFits(f, L, n), f.sweep => SweepFits(f, L, n),
         Len(f.todo) # 1, Head(f.todo) # "next",
         g = After(f)
  PROVE  g.op = "listing" /\ OrderFits(g, L, n) /\ (g.sweep => SweepFits(g, L, n))
<1>1. f.todo \in OrderTodos
  BY DEF OrderFits
<1>2. /\ Tail(f.todo) \in OrderTodos /\ f.todo # <<>>
      /\ "next" \in ToSet(Tail(f.todo)) => "next" \in ToSet(f.todo)
  BY <1>1, OrderStages
<1>3. /\ g.op = f.op /\ g.id = f.id /\ g.by = f.by /\ g.n = f.n /\ g.pt = f.pt
      /\ g.fb = f.fb /\ g.rs = f.rs /\ g.at = f.at /\ g.orders = f.orders
      /\ g.sweep = f.sweep /\ g.bill = f.bill /\ g.todo = Tail(f.todo)
  BY <1>2, AfterFields
<1>4. f.at # 0 /\ f.at \in Nat
  <2>1. f.at = 0 => f.todo = <<"next">>
    BY DEF OrderFits
  <2> QED
    BY <2>1 DEF Frame
<1>5. OrderFits(g, L, n)
  BY <1>2, <1>3, <1>4 DEF OrderFits
<1>6. g.sweep => SweepFits(g, L, n)
  BY <1>3 DEF SweepFits
<1> QED
  BY <1>3, <1>5, <1>6

-----------------------------------------------------------------------------
(* What is to come of a sweep.                                             *)

(* The cost of every order that is still to come. *)
LEMMA ComingCosts ==
  ASSUME NEW L \in [ListingIds -> ListingRecord], NEW orders \in Seq(Order), NEW at \in Nat
  PROVE  /\ Coming(orders, at, L) \in [1 .. Len(orders) -> Nat]
         /\ IsFiniteSet(1 .. Len(orders))
         /\ ToCome(orders, at, L) \in Nat
         /\ DOMAIN orders = 1 .. Len(orders) /\ Len(orders) \in Nat
<1>1. DOMAIN orders = 1 .. Len(orders) /\ Len(orders) \in Nat
  OBVIOUS
<1>2. IsFiniteSet(1 .. Len(orders))
  BY <1>1, FS_Interval
<1>3. ASSUME NEW k \in 1 .. Len(orders)
      PROVE  L[orders[k].id].p * L[orders[k].id].a \in Nat
  <2> DEFINE p == L[orders[k].id].p
             a == L[orders[k].id].a
  <2>1. orders[k] \in Order
    OBVIOUS
  <2>2. orders[k].id \in ListingIds
    BY <2>1 DEF Order
  <2>3. L[orders[k].id] \in ListingRecord
    BY <2>2
  <2>4. p \in Nat /\ a \in Nat
    BY <2>3 DEF ListingRecord
  <2> HIDE DEF p, a
  <2>5. p * a \in Nat
    BY <2>4
  <2> QED
    BY <2>5 DEF p, a
<1>4. Coming(orders, at, L) \in [1 .. Len(orders) -> Nat]
  BY <1>1, <1>3 DEF Coming
<1>5. ToCome(orders, at, L) \in Nat
  BY <1>2, <1>4, TotalType DEF ToCome
<1> QED
  BY <1>1, <1>2, <1>4, <1>5

(* When no listing still to come gets dearer, all of them together do not. *)
LEMMA ToComeFalls ==
  ASSUME NEW L \in [ListingIds -> ListingRecord], NEW M \in [ListingIds -> ListingRecord],
         NEW orders \in Seq(Order), NEW at \in Nat,
         \A k \in DOMAIN orders :
           k > at => M[orders[k].id].p * M[orders[k].id].a
                       <= L[orders[k].id].p * L[orders[k].id].a
  PROVE  /\ ToCome(orders, at, L) \in Nat /\ ToCome(orders, at, M) \in Nat
         /\ ToCome(orders, at, M) <= ToCome(orders, at, L)
<1> DEFINE c == Coming(orders, at, L)
           d == Coming(orders, at, M)
           S == 1 .. Len(orders)
<1>1. /\ c \in [S -> Nat] /\ IsFiniteSet(S) /\ ToCome(orders, at, L) = Total(c)
      /\ Total(c) \in Nat /\ DOMAIN orders = S
  BY ComingCosts DEF ToCome
<1>2. d \in [S -> Nat] /\ ToCome(orders, at, M) = Total(d) /\ Total(d) \in Nat
  BY ComingCosts DEF ToCome
<1>3. \A k \in S : d[k] <= c[k]
  <2> SUFFICES ASSUME NEW k \in S
               PROVE  d[k] <= c[k]
    OBVIOUS
  <2>1. CASE k > at
    BY <1>1, <2>1 DEF Coming
  <2>2. CASE ~(k > at)
    BY <1>1, <2>2 DEF Coming
  <2> QED
    BY <2>1, <2>2
<1> HIDE DEF c, d, S
<1>4. \A k \in S : 1 * c[k] >= 1 * d[k]
  BY <1>1, <1>2, <1>3
<1>5. 1 * Total(c) >= 1 * Total(d)
  BY <1>1, <1>2, <1>4, TotalCompare
<1> QED
  BY <1>1, <1>2, <1>5

(* What all there is of the k-th order's listing costs. *)
CostAt(orders, k, L) == L[orders[k].id].p * L[orders[k].id].a

(* And when the next order has had its turn, what it cost is not to come   *)
(* any more.                                                               *)
LEMMA ToComeNext ==
  ASSUME NEW L \in [ListingIds -> ListingRecord], NEW orders \in Seq(Order), NEW at \in Nat,
         at < Len(orders)
  PROVE  /\ ToCome(orders, at, L) \in Nat /\ ToCome(orders, at + 1, L) \in Nat
         /\ CostAt(orders, at + 1, L) \in Nat
         /\ ToCome(orders, at, L) = ToCome(orders, at + 1, L) + CostAt(orders, at + 1, L)
<1> DEFINE cost == CostAt(orders, at + 1, L)
           c == Coming(orders, at, L)
           d == Coming(orders, at + 1, L)
           S == 1 .. Len(orders)
<1>1. /\ c \in [S -> Nat] /\ IsFiniteSet(S) /\ ToCome(orders, at, L) = Total(c)
      /\ Total(c) \in Nat /\ DOMAIN orders = S /\ Len(orders) \in Nat
  BY ComingCosts DEF ToCome
<1>2. d \in [S -> Nat] /\ ToCome(orders, at + 1, L) = Total(d) /\ Total(d) \in Nat
  <2>1. at + 1 \in Nat
    OBVIOUS
  <2> QED
    BY <2>1, ComingCosts DEF ToCome
<1>3. at + 1 \in S
  BY <1>1
<1>4. c[at + 1] = cost /\ d[at + 1] = 0
  <2>1. at + 1 > at /\ ~(at + 1 > at + 1)
    OBVIOUS
  <2> QED
    BY <1>1, <1>3, <2>1 DEF Coming, CostAt
<1>5. \A k \in S \ {at + 1} : c[k] = d[k]
  <2> SUFFICES ASSUME NEW k \in S \ {at + 1}
               PROVE  c[k] = d[k]
    OBVIOUS
  <2>1. k > at <=> k > at + 1
    BY <1>1
  <2> QED
    BY <1>1, <2>1 DEF Coming
<1> HIDE DEF c, d, S, cost
<1>6. cost \in Nat
  BY <1>1, <1>3, <1>4
<1>7. Total(d) \in Nat /\ Total(c) = Total(d) + cost
  <2>1. /\ c \in [S -> Nat] /\ d \in [S -> Nat] /\ IsFiniteSet(S) /\ at + 1 \in S
        /\ c[at + 1] = cost /\ d[at + 1] = 0
        /\ \A k \in S \ {at + 1} : c[k] = d[k]
    BY <1>1, <1>2, <1>3, <1>4, <1>5, <1>6
  <2> QED
    BY <1>6, <2>1, TotalAdds
<1> QED
  BY <1>1, <1>2, <1>6, <1>7 DEF cost

-----------------------------------------------------------------------------
(* Steps and the stack.                                                    *)

GoodsTyped ==
  /\ approved \subseteq Items \X Accounts
  /\ pool \in [Tokens -> Nat]
  /\ nft \in [Items -> [Holders -> Nat]]

(* What the stack rests on. *)
CoreOK == MarketInv /\ ListingsTyped /\ BundlesTyped /\ GoodsTyped /\ StackOK

(* Listings and bundles are added, their terms stay, and a bundle that was *)
(* bought is not bought again.                                             *)
Growing ==
  /\ nextListingId' \in Nat /\ nextListingId' >= nextListingId
  /\ nextBundleId' \in Nat /\ nextBundleId' >= nextBundleId
  /\ \A id \in ListingIds :
       id < nextListingId =>
         /\ listings'[id].s = listings[id].s /\ listings'[id].pt = listings[id].pt
         /\ listings'[id].fb = listings[id].fb /\ listings'[id].rs = listings[id].rs
  /\ \A id \in BundleIds :
       id < nextBundleId =>
         bundles'[id].s = bundles[id].s /\ bundles'[id].its = bundles[id].its
  /\ \A id \in BundleIds : buyers[id] # <<>> => buyers'[id] = buyers[id]

(* No listing gets dearer. *)
CostsFall ==
  \A id \in ListingIds :
    id < nextListingId => listings'[id].p * listings'[id].a <= listings[id].p * listings[id].a

(* What is to come of a sweep does not get dearer. *)
FallsFor(f) ==
  f.op = "listing" /\ f.sweep /\ ~f.bill.raised =>
    ToCome(f.orders, f.at, listings') <= ToCome(f.orders, f.at, listings)

(* Numbers of the listings and of the bundles made. *)
LEMMA CountsType ==
  ASSUME ListingsTyped, BundlesTyped
  PROVE  /\ nextListingId \in Nat /\ nextBundleId \in Nat
         /\ \A id \in Nat : id < nextBundleId => id \in BundleIds
<1>1. nextListingId \in Nat /\ nextBundleId \in Nat
  BY DEF ListingsTyped, BundlesTyped
<1>2. nextBundleId <= MaxBundles /\ MaxBundles \in Nat
  BY BundleAssumption DEF BundlesTyped
<1> QED
  BY <1>1, <1>2 DEF BundleIds

(* The parts of a frame that a sweep uses. *)
LEMMA FrameParts ==
  ASSUME NEW f \in Frame
  PROVE  /\ f.orders \in Seq(Order) /\ f.at \in Nat /\ f.id \in Nat /\ f.n \in Nat
         /\ f.pt \in Tokens /\ f.got \in Nat /\ f.by \in Accounts
         /\ f.sweep \in BOOLEAN /\ f.bill \in Bill
         /\ f.bill.budget \in Nat /\ f.bill.cost \in [Tokens -> Nat]
         /\ f.bill.raised \in BOOLEAN /\ f.bill.total \in Nat
         /\ f.fb \in Nat /\ f.rs \in Seq(Split) /\ f.ask \in Nat
BY DEF Frame, Bill

(* The listings a sweep names are known. *)
LEMMA SweepKnows ==
  ASSUME NEW f \in Frame, NEW L \in [ListingIds -> ListingRecord], NEW n, SweepFits(f, L, n)
  PROVE  /\ \A k \in DOMAIN f.orders :
              f.orders[k].id \in ListingIds /\ f.orders[k].id < n
         /\ 1 \in DOMAIN f.orders
         /\ L[f.orders[1].id].pt \in Tokens
<1>1. f.orders \in Seq(Order) /\ f.orders # <<>>
  BY FrameParts DEF SweepFits
<1>2. 1 \in DOMAIN f.orders
  BY <1>1
<1>3. \A k \in DOMAIN f.orders : f.orders[k] \in Order
  BY <1>1
<1>4. \A k \in DOMAIN f.orders : f.orders[k].id \in ListingIds /\ f.orders[k].id < n
  BY <1>3 DEF SweepFits, Order
<1>5. L[f.orders[1].id] \in ListingRecord
  BY <1>2, <1>4
<1> QED
  BY <1>2, <1>4, <1>5 DEF ListingRecord

(* A purchase still fits when listings and bundles are added. *)
LEMMA FitsGrow ==
  ASSUME ListingsTyped, BundlesTyped, ListingsTyped', BundlesTyped', Growing,
         NEW f \in Frame, FitsNow(f), FallsFor(f)
  PROVE  FitsNext(f)
<1> DEFINE n == nextListingId
           n2 == nextListingId'
<1>1. /\ n \in Nat /\ n2 \in Nat /\ n2 >= n /\ nextBundleId \in Nat
      /\ nextBundleId' \in Nat /\ nextBundleId' >= nextBundleId
  BY CountsType DEF Growing
<1>2. /\ listings \in [ListingIds -> ListingRecord]
      /\ listings' \in [ListingIds -> ListingRecord]
  BY DEF ListingsTyped
<1>3. f.id \in Nat /\ f.orders \in Seq(Order) /\ f.at \in Nat
  BY FrameParts
<1>4. ASSUME NEW id \in ListingIds, id < n
      PROVE  /\ id < n2
             /\ listings'[id].s = listings[id].s /\ listings'[id].pt = listings[id].pt
             /\ listings'[id].fb = listings[id].fb /\ listings'[id].rs = listings[id].rs
  <2>1. id \in Nat
    BY ListingAssumption DEF ListingIds
  <2> HIDE DEF n2
  <2> QED
    BY <1>1, <1>4, <2>1 DEF Growing
<1> HIDE DEF n, n2
<1>5. ASSUME f.op = "listing"
      PROVE  OrderFits(f, listings', n2)
  <2>1. OrderFits(f, listings, n)
    BY <1>5 DEF FitsNow, FrameFits, n
  <2> QED
    BY <1>4, <2>1 DEF OrderFits
<1>6. ASSUME f.op = "listing", f.sweep
      PROVE  SweepFits(f, listings', n2)
  <2>1. SweepFits(f, listings, n)
    BY <1>6 DEF FitsNow, FrameFits, n
  <2> DEFINE t == listings[f.orders[1].id].pt
             c == f.bill.cost[t]
             b == f.bill.budget
  <2>2. /\ \A k \in DOMAIN f.orders : f.orders[k].id \in ListingIds /\ f.orders[k].id < n
        /\ 1 \in DOMAIN f.orders /\ t \in Tokens
    BY <1>2, <2>1, SweepKnows
  <2>3. listings'[f.orders[1].id].pt = t
    BY <1>4, <2>2
  <2>4. \A k \in DOMAIN f.orders :
          /\ f.orders[k].id < n2 /\ f.orders[k].n = Whole
          /\ listings'[f.orders[k].id].pt = t
    BY <1>4, <2>1, <2>2 DEF SweepFits
  <2>5. /\ f.orders # <<>>
        /\ \A u \in Tokens \ {t} : f.bill.cost[u] = 0
        /\ ~f.bill.raised => c + ToCome(f.orders, f.at, listings) <= b
    BY <2>1 DEF SweepFits
  <2>6. ASSUME ~f.bill.raised
        PROVE  c + ToCome(f.orders, f.at, listings') <= b
    <3> DEFINE x == ToCome(f.orders, f.at, listings)
               y == ToCome(f.orders, f.at, listings')
    <3>1. x \in Nat /\ y \in Nat
      BY <1>2, <1>3, ComingCosts
    <3>2. y <= x
      BY <1>6, <2>6 DEF FallsFor
    <3>3. c \in Nat /\ b \in Nat /\ c + x <= b
      BY <2>2, <2>5, <2>6, FrameParts
    <3> HIDE DEF x, y, c, b
    <3>4. c + y <= b
      BY <3>1, <3>2, <3>3
    <3> QED
      BY <3>4 DEF y
  <2> HIDE DEF t
  <2> QED
    BY <2>3, <2>4, <2>5, <2>6 DEF SweepFits
<1>7. ASSUME f.op = "bundle"
      PROVE  BundleFits(f, bundles', nextBundleId', buyers')
  <2>1. BundleFits(f, bundles, nextBundleId, buyers)
    BY <1>7 DEF FitsNow, FrameFits
  <2>2. f.id \in BundleIds /\ f.id < nextBundleId
    BY <1>3, <2>1, CountsType DEF BundleFits
  <2>3. bundles'[f.id].s = bundles[f.id].s /\ bundles'[f.id].its = bundles[f.id].its
    BY <2>2 DEF Growing
  <2>4. buyers[f.id] # <<>>
    <3>1. buyers[f.id] = <<f.by>>
      BY <2>1 DEF BundleFits
    <3> QED
      BY <3>1
  <2>5. buyers'[f.id] = buyers[f.id]
    BY <2>2, <2>4 DEF Growing
  <2>6. f.id < nextBundleId'
    BY <1>1, <1>3, <2>2
  <2> QED
    BY <2>1, <2>3, <2>5, <2>6 DEF BundleFits
<1> QED
  BY <1>5, <1>6, <1>7 DEF FitsNext, FrameFits, n2

(* What is to come of a sweep of listings that do not get dearer. *)
LEMMA SweepsFall ==
  ASSUME ListingsTyped, ListingsTyped', CostsFall, NEW f \in Frame, FitsNow(f)
  PROVE  FallsFor(f)
<1> SUFFICES ASSUME f.op = "listing", f.sweep
             PROVE  ToCome(f.orders, f.at, listings') <= ToCome(f.orders, f.at, listings)
  BY DEF FallsFor
<1>1. /\ listings \in [ListingIds -> ListingRecord]
      /\ listings' \in [ListingIds -> ListingRecord]
  BY DEF ListingsTyped
<1>2. SweepFits(f, listings, nextListingId)
  BY DEF FitsNow, FrameFits
<1>3. \A k \in DOMAIN f.orders :
        listings'[f.orders[k].id].p * listings'[f.orders[k].id].a
          <= listings[f.orders[k].id].p * listings[f.orders[k].id].a
  BY <1>1, <1>2, SweepKnows DEF CostsFall
<1>4. f.orders \in Seq(Order) /\ f.at \in Nat
  BY FrameParts
<1> QED
  BY <1>1, <1>3, <1>4, ToComeFalls

(* A step that makes no call leaves the stack alone. *)
LEMMA StackStays ==
  ASSUME CoreOK, ListingsTyped', BundlesTyped', Growing, CostsFall, UNCHANGED <<calls, pool>>
  PROVE  StackOK'
<1>1. CallsTyped /\ FramesOK /\ BalancesRead /\ HoldingsOK /\ ListingsTyped /\ BundlesTyped
  BY DEF CoreOK, StackOK
<1>2. calls' = calls /\ pool' = pool
  OBVIOUS
<1>3. CallsTyped'
  BY <1>1, <1>2 DEF CallsTyped
<1>4. ASSUME NEW k \in DOMAIN calls
      PROVE  FitsNext(calls[k])
  <2>1. calls[k] \in Frame /\ FitsNow(calls[k])
    BY <1>1, <1>4 DEF FramesOK, CallsTyped
  <2> QED
    BY <1>1, <2>1, FitsGrow, SweepsFall
<1>5. FramesOK'
  BY <1>2, <1>4 DEF FramesOK, FitsNow, FitsNext
<1>6. BalancesRead'
  BY <1>1, <1>2 DEF BalancesRead
<1>7. HoldingsOK'
  BY <1>1, <1>2 DEF HoldingsOK
<1> QED
  BY <1>3, <1>5, <1>6, <1>7 DEF StackOK

(* A purchase that starts holds nothing, and if its payment is next it has *)
(* read the balance.                                                       *)
LEMMA StackEnters ==
  ASSUME CoreOK, ListingsTyped', BundlesTyped', Growing, CostsFall, pool' = pool,
         NEW g \in Frame, Enter(g), FitsNext(g), \A t : HeldWeight(t)[g] = 0,
         Head(g.todo) = "pay" => g.before = pool[g.pt]
  PROVE  StackOK'
<1>1. CallsTyped /\ FramesOK /\ BalancesRead /\ HoldingsOK /\ ListingsTyped /\ BundlesTyped
  BY DEF CoreOK, StackOK
<1>2. calls' = Append(calls, g) /\ Len(calls) < MaxDepth /\ calls \in Seq(Frame)
  BY <1>1 DEF Enter, CallsTyped
<1>3. /\ CallsTyped'
      /\ \A k \in DOMAIN calls : k \in DOMAIN calls' /\ calls'[k] = calls[k]
      /\ \A k \in DOMAIN calls' :
           \/ k \in DOMAIN calls
           \/ k = Len(calls) + 1 /\ calls'[k] = g
      /\ \A k \in DOMAIN calls' : SubSeq(calls', 1, k - 1) = SubSeq(calls, 1, k - 1)
      /\ SubSeq(calls, 1, Len(calls)) = calls
  BY <1>1, <1>2, StackGrows
<1>4. ASSUME NEW k \in DOMAIN calls
      PROVE  FitsNext(calls[k])
  <2>1. calls[k] \in Frame /\ FitsNow(calls[k])
    BY <1>1, <1>4 DEF FramesOK, CallsTyped
  <2> QED
    BY <1>1, <2>1, FitsGrow, SweepsFall
<1>5. FramesOK'
  <2>1. \A k \in DOMAIN calls' : FitsNext(calls'[k])
    BY <1>3, <1>4
  <2> QED
    BY <2>1 DEF FramesOK, FitsNow, FitsNext
<1>6. ASSUME NEW k \in DOMAIN calls', Head(calls'[k].todo) = "pay"
      PROVE  calls'[k].before = Weighed(HeldWeight(calls'[k].pt), SubSeq(calls', 1, k - 1))
  <2>1. CASE k \in DOMAIN calls
    BY <1>1, <1>3, <1>6, <2>1 DEF BalancesRead
  <2>2. CASE k \notin DOMAIN calls
    <3>1. k = Len(calls) + 1 /\ calls'[k] = g
      BY <1>3, <2>2
    <3>2. k - 1 = Len(calls)
      BY <1>2, <3>1
    <3>3. g.before = Weighed(HeldWeight(g.pt), calls)
      <4>1. g.pt \in Tokens
        BY FrameParts
      <4> QED
        BY <1>1, <1>6, <3>1, <4>1 DEF HoldingsOK
    <3> QED
      BY <1>3, <3>1, <3>2, <3>3
  <2> QED
    BY <2>1, <2>2
<1>7. ASSUME NEW t \in Tokens
      PROVE  pool'[t] = Weighed(HeldWeight(t), calls')
  <2>1. Weighed(HeldWeight(t), calls') = Weighed(HeldWeight(t), calls) + HeldWeight(t)[g]
    BY <1>2, HeldType, WeighedPush
  <2>2. Weighed(HeldWeight(t), calls) \in Nat
    BY <1>2, HeldType, WeighedType
  <2> QED
    BY <1>1, <2>1, <2>2 DEF HoldingsOK
<1>8. BalancesRead'
  BY <1>6 DEF BalancesRead
<1>9. HoldingsOK'
  BY <1>7 DEF HoldingsOK
<1> QED
  BY <1>3, <1>5, <1>8, <1>9 DEF StackOK

(* The innermost purchase. *)
LEMMA TopFits ==
  ASSUME CoreOK, ~Idle
  PROVE  /\ Top \in Frame /\ FitsNow(Top) /\ Top.todo # <<>>
         /\ Len(calls) \in DOMAIN calls /\ Outer \in Seq(Frame)
         /\ calls = Append(Outer, Top)
         /\ Head(Top.todo) = "pay" =>
              Top.before = Weighed(HeldWeight(Top.pt), Outer)
<1>1. calls \in Seq(Frame) /\ BundlesTyped /\ FramesOK /\ BalancesRead
  BY DEF CoreOK, StackOK, CallsTyped
<1>2. /\ Top \in Frame /\ Len(calls) \in DOMAIN calls /\ Outer \in Seq(Frame)
      /\ calls = Append(Outer, Top)
  BY <1>1, StackSplit
<1>3. FitsNow(Top)
  BY <1>1, <1>2 DEF FramesOK, Top
<1>4. Top.todo # <<>>
  BY <1>1, <1>2, <1>3, FrameStages
<1>5. Head(Top.todo) = "pay" => Top.before = Weighed(HeldWeight(Top.pt), Outer)
  BY <1>1, <1>2 DEF BalancesRead, Top, Outer
<1> QED
  BY <1>2, <1>3, <1>4, <1>5

(* The innermost purchase goes on while the balance changes by what it     *)
(* holds; if its payment is next it has read the balance of the others.    *)
LEMMA StackGoesOn ==
  ASSUME CoreOK, ListingsTyped', BundlesTyped', Growing, CostsFall, ~Idle,
         NEW h \in Frame, NEW on \in BOOLEAN,
         calls' = (IF on THEN Append(Outer, h) ELSE Outer),
         on => FitsNext(h),
         on /\ Head(h.todo) = "pay" => h.before = Weighed(HeldWeight(h.pt), Outer),
         \A t \in Tokens :
           pool'[t] = pool[t] - HeldWeight(t)[Top] + (IF on THEN HeldWeight(t)[h] ELSE 0)
  PROVE  StackOK'
<1>1. CallsTyped /\ FramesOK /\ BalancesRead /\ HoldingsOK /\ ListingsTyped /\ BundlesTyped
  BY DEF CoreOK, StackOK
<1>2. /\ CallsTyped'
      /\ \A k \in DOMAIN Outer : /\ k \in DOMAIN calls /\ k \in DOMAIN calls'
                                 /\ calls'[k] = calls[k]
      /\ \A k \in DOMAIN calls' :
           \/ k \in DOMAIN Outer
           \/ on /\ k = Len(calls) /\ calls'[k] = h
      /\ \A k \in DOMAIN calls' : SubSeq(calls', 1, k - 1) = SubSeq(calls, 1, k - 1)
  BY <1>1, StackTurns
<1>3. ASSUME NEW k \in DOMAIN Outer
      PROVE  FitsNext(calls[k])
  <2>1. calls[k] \in Frame /\ FitsNow(calls[k])
    BY <1>1, <1>2, <1>3 DEF FramesOK, CallsTyped
  <2> QED
    BY <1>1, <2>1, FitsGrow, SweepsFall
<1>4. FramesOK'
  <2>1. \A k \in DOMAIN calls' : FitsNext(calls'[k])
    BY <1>2, <1>3
  <2> QED
    BY <2>1 DEF FramesOK, FitsNow, FitsNext
<1>5. ASSUME NEW k \in DOMAIN calls', Head(calls'[k].todo) = "pay"
      PROVE  calls'[k].before = Weighed(HeldWeight(calls'[k].pt), SubSeq(calls', 1, k - 1))
  <2>1. CASE k \in DOMAIN Outer
    BY <1>1, <1>2, <1>5, <2>1 DEF BalancesRead
  <2>2. CASE k \notin DOMAIN Outer
    <3>1. on /\ k = Len(calls) /\ calls'[k] = h
      BY <1>2, <2>2
    <3>2. SubSeq(calls', 1, k - 1) = Outer
      BY <1>2, <3>1 DEF Outer
    <3> QED
      BY <1>5, <3>1, <3>2
  <2> QED
    BY <2>1, <2>2
<1>6. ASSUME NEW t \in Tokens
      PROVE  pool'[t] = Weighed(HeldWeight(t), calls')
  <2> DEFINE V == HeldWeight(t)
             o == Weighed(V, Outer)
             vt == V[Top]
             vh == IF on THEN V[h] ELSE 0
  <2>1. V \in [Frame -> Nat]
    BY HeldType
  <2>2. o \in Nat /\ Weighed(V, calls) = o + vt /\ Weighed(V, calls') = o + vh
    <3> HIDE DEF V
    <3> QED
      BY <1>1, <2>1, TurnWeighs
  <2>3. Top \in Frame
    BY TopFits
  <2>4. vt \in Nat /\ vh \in Nat
    <3> HIDE DEF V
    <3> QED
      BY <2>1, <2>3
  <2>5. pool'[t] = pool[t] - vt + vh /\ pool[t] = o + vt
    BY <1>1, <2>2 DEF HoldingsOK
  <2> HIDE DEF V, o, vt, vh
  <2>6. pool'[t] = Weighed(V, calls')
    BY <2>2, <2>4, <2>5
  <2> QED
    BY <2>6 DEF V
<1>7. BalancesRead'
  BY <1>5 DEF BalancesRead
<1>8. HoldingsOK'
  BY <1>6 DEF HoldingsOK
<1> QED
  BY <1>2, <1>4, <1>7, <1>8 DEF StackOK

-----------------------------------------------------------------------------
(* Prices that go up under a sweep.                                        *)

(* A frame whose bill notes it. *)
Raise(f, r) == [f EXCEPT !.bill.raised = @ \/ r]

(* Nothing else about it changes. *)
LEMMA RaiseFields ==
  ASSUME NEW f \in Frame, NEW r \in BOOLEAN
  PROVE  /\ Raise(f, r) \in Frame
         /\ Raise(f, r).op = f.op /\ Raise(f, r).id = f.id /\ Raise(f, r).by = f.by
         /\ Raise(f, r).n = f.n /\ Raise(f, r).pt = f.pt /\ Raise(f, r).fb = f.fb
         /\ Raise(f, r).rs = f.rs /\ Raise(f, r).got = f.got /\ Raise(f, r).todo = f.todo
         /\ Raise(f, r).before = f.before /\ Raise(f, r).orders = f.orders
         /\ Raise(f, r).at = f.at /\ Raise(f, r).sweep = f.sweep
         /\ Raise(f, r).bill.budget = f.bill.budget /\ Raise(f, r).bill.cost = f.bill.cost
         /\ Raise(f, r).bill.raised = (f.bill.raised \/ r)
<1> DEFINE b == [f.bill EXCEPT !.raised = @ \/ r]
<1>1. f.bill \in Bill
  BY DEF Frame
<1>2. /\ b \in Bill /\ b.budget = f.bill.budget /\ b.cost = f.bill.cost
      /\ b.raised = (f.bill.raised \/ r)
  BY <1>1 DEF Bill
<1>3. Raise(f, r) = [f EXCEPT !.bill = b]
  BY DEF Raise
<1> HIDE DEF b
<1> QED
  BY <1>2, <1>3 DEF Frame

(* It fits as well as before. *)
LEMMA RaiseFits ==
  ASSUME NEW f \in Frame, NEW r \in BOOLEAN, FitsNow(f)
  PROVE  FitsNow(Raise(f, r))
<1> DEFINE g == Raise(f, r)
<1>1. /\ g.op = f.op /\ g.id = f.id /\ g.by = f.by
      /\ g.n = f.n /\ g.pt = f.pt /\ g.fb = f.fb
      /\ g.rs = f.rs /\ g.todo = f.todo /\ g.orders = f.orders
      /\ g.at = f.at /\ g.sweep = f.sweep
      /\ g.bill.budget = f.bill.budget /\ g.bill.cost = f.bill.cost
      /\ g.bill.raised = (f.bill.raised \/ r)
  BY RaiseFields
<1> HIDE DEF g
<1>2. ASSUME g.op = "listing"
      PROVE  OrderFits(g, listings, nextListingId)
  BY <1>1, <1>2 DEF FitsNow, FrameFits, OrderFits
<1>3. ASSUME g.op = "listing", g.sweep
      PROVE  SweepFits(g, listings, nextListingId)
  <2>1. SweepFits(f, listings, nextListingId)
    BY <1>1, <1>3 DEF FitsNow, FrameFits
  <2> QED
    BY <1>1, <2>1 DEF SweepFits
<1>4. ASSUME g.op = "bundle"
      PROVE  BundleFits(g, bundles, nextBundleId, buyers)
  BY <1>1, <1>4 DEF FitsNow, FrameFits, BundleFits
<1> QED
  BY <1>2, <1>3, <1>4 DEF FitsNow, FrameFits, g

(* Frames that weigh the same one by one weigh the same together. *)
LEMMA WeighedAlike ==
  ASSUME NEW V, NEW cs, NEW ds, DOMAIN cs = DOMAIN ds, \A k \in DOMAIN cs : V[cs[k]] = V[ds[k]]
  PROVE  Weighed(V, cs) = Weighed(V, ds)
<1>1. [k \in DOMAIN cs |-> V[cs[k]]] = [k \in DOMAIN ds |-> V[ds[k]]]
  OBVIOUS
<1> QED
  BY <1>1 DEF Weighed

(* The stack with such notes. *)
LEMMA StackRaised ==
  ASSUME CallsTyped, NEW D \in [DOMAIN calls -> BOOLEAN],
         calls' = [k \in DOMAIN calls |-> Raise(calls[k], D[k])]
  PROVE  /\ CallsTyped' /\ DOMAIN calls' = DOMAIN calls
         /\ \A k \in DOMAIN calls :
              calls[k] \in Frame /\ calls'[k] = Raise(calls[k], D[k])
<1>1. calls \in Seq(Frame) /\ DOMAIN calls = 1 .. Len(calls) /\ Len(calls) \in Nat
  BY DEF CallsTyped
<1>2. ASSUME NEW k \in DOMAIN calls
      PROVE  calls[k] \in Frame /\ D[k] \in BOOLEAN /\ Raise(calls[k], D[k]) \in Frame
  BY <1>1, RaiseFields
<1> DEFINE n == Len(calls)
           new == [k \in DOMAIN calls |-> Raise(calls[k], D[k])]
<1>3. new \in [1 .. n -> Frame] /\ n \in Nat
  BY <1>1, <1>2
<1> HIDE DEF new
<1>4. new \in Seq(Frame) /\ Len(new) = n
  <2> HIDE DEF n
  <2> QED
    BY <1>3
<1>5. CallsTyped'
  BY <1>4 DEF CallsTyped, new
<1> QED
  BY <1>2, <1>5

(* Weights that the notes do not bear on stay, also those of the outer     *)
(* frames.                                                                 *)
LEMMA RaisedWeighs ==
  ASSUME CallsTyped, NEW D \in [DOMAIN calls -> BOOLEAN],
         calls' = [k \in DOMAIN calls |-> Raise(calls[k], D[k])],
         NEW V, \A f \in Frame, r \in BOOLEAN : V[Raise(f, r)] = V[f]
  PROVE  /\ Weighed(V, calls') = Weighed(V, calls)
         /\ \A k \in DOMAIN calls :
              Weighed(V, SubSeq(calls', 1, k - 1)) = Weighed(V, SubSeq(calls, 1, k - 1))
<1>1. /\ calls' \in Seq(Frame) /\ DOMAIN calls' = DOMAIN calls
      /\ \A k \in DOMAIN calls : calls[k] \in Frame /\ calls'[k] = Raise(calls[k], D[k])
  BY StackRaised DEF CallsTyped
<1>2. \A k \in DOMAIN calls : V[calls'[k]] = V[calls[k]]
  BY <1>1
<1>3. Weighed(V, calls') = Weighed(V, calls)
  BY <1>1, <1>2, WeighedAlike
<1>4. ASSUME NEW k \in DOMAIN calls
      PROVE  Weighed(V, SubSeq(calls', 1, k - 1)) = Weighed(V, SubSeq(calls, 1, k - 1))
  <2> DEFINE m == k - 1
             cs == SubSeq(calls', 1, m)
             ds == SubSeq(calls, 1, m)
  <2>1. /\ calls \in Seq(Frame) /\ DOMAIN calls = 1 .. Len(calls) /\ Len(calls) \in Nat
        /\ Len(calls') = Len(calls)
    BY <1>1 DEF CallsTyped
  <2>2. m \in Nat /\ \A j \in 1 .. m : j \in DOMAIN calls /\ j \in DOMAIN calls'
    BY <1>1, <2>1
  <2> HIDE DEF m
  <2>3. DOMAIN cs = 1 .. m /\ DOMAIN ds = 1 .. m
    BY <2>1, <2>2
  <2>4. \A j \in 1 .. m : cs[j] = calls'[j] /\ ds[j] = calls[j]
    BY <2>1, <2>2
  <2> HIDE DEF cs, ds
  <2>5. \A j \in DOMAIN cs : V[cs[j]] = V[ds[j]]
    BY <1>2, <2>2, <2>3, <2>4
  <2>6. Weighed(V, cs) = Weighed(V, ds)
    BY <2>3, <2>5, WeighedAlike
  <2> QED
    BY <2>6 DEF cs, ds, m
<1> QED
  BY <1>3, <1>4

(* The weights in use are such. *)
LEMMA RaiseWeightless ==
  ASSUME NEW f \in Frame, NEW r \in BOOLEAN
  PROVE  /\ \A t : HeldWeight(t)[Raise(f, r)] = HeldWeight(t)[f]
         /\ \A op, id : UnloggedWeight(op, id)[Raise(f, r)] = UnloggedWeight(op, id)[f]
         /\ \A id : FlightWeight(id)[Raise(f, r)] = FlightWeight(id)[f]
<1> DEFINE g == Raise(f, r)
<1>1. /\ g \in Frame /\ g.op = f.op /\ g.id = f.id
      /\ g.n = f.n /\ g.pt = f.pt /\ g.got = f.got /\ g.todo = f.todo
  BY RaiseFields
<1> HIDE DEF g
<1>2. \A t : HeldWeight(t)[g] = HeldWeight(t)[f]
  BY <1>1 DEF HeldWeight
<1>3. \A op, id : UnloggedWeight(op, id)[g] = UnloggedWeight(op, id)[f]
  BY <1>1 DEF UnloggedWeight
<1>4. \A id : FlightWeight(id)[g] = FlightWeight(id)[f]
  BY <1>1 DEF FlightWeight
<1> QED
  BY <1>2, <1>3, <1>4 DEF g

(* A price goes up or down while purchases are in progress. *)
LEMMA StackNoted ==
  ASSUME CoreOK, ListingsTyped', BundlesTyped', Growing, pool' = pool,
         NEW D \in [DOMAIN calls -> BOOLEAN],
         calls' = [k \in DOMAIN calls |-> Raise(calls[k], D[k])],
         \A k \in DOMAIN calls : FitsNow(calls[k]) => FallsFor(Raise(calls[k], D[k]))
  PROVE  StackOK'
<1>1. CallsTyped /\ FramesOK /\ BalancesRead /\ HoldingsOK /\ ListingsTyped /\ BundlesTyped
  BY DEF CoreOK, StackOK
<1>2. /\ CallsTyped' /\ DOMAIN calls' = DOMAIN calls
      /\ \A k \in DOMAIN calls :
           calls[k] \in Frame /\ calls'[k] = Raise(calls[k], D[k])
  BY <1>1, StackRaised
<1>3. ASSUME NEW k \in DOMAIN calls
      PROVE  FitsNext(calls'[k])
  <2> DEFINE f == calls[k]
             g == Raise(f, D[k])
  <2>1. f \in Frame /\ D[k] \in BOOLEAN /\ FitsNow(f) /\ FallsFor(g)
    BY <1>1, <1>2, <1>3 DEF FramesOK
  <2> HIDE DEF f
  <2>2. g \in Frame /\ FitsNow(g)
    BY <2>1, RaiseFields, RaiseFits
  <2> HIDE DEF g
  <2>3. FitsNext(g)
    BY <1>1, <2>1, <2>2, FitsGrow
  <2> QED
    BY <1>2, <2>3 DEF f, g
<1>4. FramesOK'
  BY <1>2, <1>3 DEF FramesOK, FitsNow, FitsNext
<1>5. \A t : /\ Weighed(HeldWeight(t), calls') = Weighed(HeldWeight(t), calls)
             /\ \A k \in DOMAIN calls :
                  Weighed(HeldWeight(t), SubSeq(calls', 1, k - 1))
                    = Weighed(HeldWeight(t), SubSeq(calls, 1, k - 1))
  <2> SUFFICES ASSUME NEW t
               PROVE  /\ Weighed(HeldWeight(t), calls') = Weighed(HeldWeight(t), calls)
                      /\ \A k \in DOMAIN calls :
                           Weighed(HeldWeight(t), SubSeq(calls', 1, k - 1))
                             = Weighed(HeldWeight(t), SubSeq(calls, 1, k - 1))
    OBVIOUS
  <2> DEFINE V == HeldWeight(t)
  <2>1. \A f \in Frame, r \in BOOLEAN : V[Raise(f, r)] = V[f]
    BY RaiseWeightless
  <2> HIDE DEF V
  <2>2. /\ Weighed(V, calls') = Weighed(V, calls)
        /\ \A k \in DOMAIN calls :
             Weighed(V, SubSeq(calls', 1, k - 1)) = Weighed(V, SubSeq(calls, 1, k - 1))
    BY <1>1, <2>1, RaisedWeighs
  <2> QED
    BY <2>2 DEF V
<1>6. ASSUME NEW k \in DOMAIN calls', Head(calls'[k].todo) = "pay"
      PROVE  calls'[k].before = Weighed(HeldWeight(calls'[k].pt), SubSeq(calls', 1, k - 1))
  <2>1. k \in DOMAIN calls /\ calls[k] \in Frame /\ D[k] \in BOOLEAN
    BY <1>2
  <2>2. calls'[k].todo = calls[k].todo /\ calls'[k].pt = calls[k].pt
        /\ calls'[k].before = calls[k].before
    BY <1>2, <2>1, RaiseFields
  <2> QED
    BY <1>1, <1>5, <1>6, <2>1, <2>2 DEF BalancesRead
<1>7. BalancesRead'
  BY <1>6 DEF BalancesRead
<1>8. HoldingsOK'
  BY <1>1, <1>5 DEF HoldingsOK
<1> QED
  BY <1>2, <1>4, <1>7, <1>8 DEF StackOK

-----------------------------------------------------------------------------
(* Payments.                                                               *)

(* A payment was measured from the balance that the purchases around it    *)
(* hold, so what is credited is what arrived.                              *)
LEMMA PaymentMeasured ==
  ASSUME CoreOK, NEW arrived, Pay(arrived)
  PROVE  arrived \in Nat /\ Credited(Top, arrived) = arrived
<1> DEFINE f == Top
           now == pool[f.pt]
<1>1. BundlesTyped /\ pool \in [Tokens -> Nat] /\ HoldingsOK /\ DecodersTruthful
  BY DEF CoreOK, StackOK, GoodsTyped, MarketInv
<1>2. ~Idle /\ Head(f.todo) = "pay" /\ arrived \in Arrivals(f.pt, f.ask)
  BY DEF Pay
<1>3. /\ f \in Frame /\ FitsNow(f) /\ Outer \in Seq(Frame) /\ calls = Append(Outer, f)
      /\ f.before = Weighed(HeldWeight(f.pt), Outer)
  BY <1>2, TopFits
<1>4. f.pt \in Tokens /\ f.ask \in Nat
  BY <1>3, FrameParts
<1>5. now \in Nat /\ arrived \in Nat
  BY <1>1, <1>2, <1>4 DEF Arrivals
<1>6. f.before = now
  <2> DEFINE V == HeldWeight(f.pt)
  <2>1. V \in [Frame -> Nat] /\ V[f] = 0
    BY <1>1, <1>2, <1>3, HeldType, WeightAtStage
  <2>2. now = Weighed(V, calls) /\ f.before = Weighed(V, Outer)
    BY <1>1, <1>3, <1>4 DEF HoldingsOK
  <2> HIDE DEF V
  <2>3. Weighed(V, calls) = Weighed(V, Outer) + V[f] /\ Weighed(V, Outer) \in Nat
    BY <1>3, <2>1, WeighedPush, WeighedType
  <2> QED
    BY <2>1, <2>2, <2>3
<1>7. now + arrived - f.before = arrived
  BY <1>5, <1>6
<1>8. Credited(f, arrived) = EscrowIn(f.pt, f.ask, arrived)
  BY <1>7 DEF Credited
<1> QED
  BY <1>1, <1>2, <1>4, <1>5, <1>8, DepositCredited

(* The purchase once it is paid for. *)
PaidFrame(f, arrived) == [f EXCEPT !.got = Credited(f, arrived)]

(* Only what was credited is new. *)
LEMMA PaidFields ==
  ASSUME NEW f \in Frame, NEW arrived, Credited(f, arrived) \in Nat
  PROVE  /\ PaidFrame(f, arrived) \in Frame
         /\ PaidFrame(f, arrived).op = f.op /\ PaidFrame(f, arrived).id = f.id
         /\ PaidFrame(f, arrived).by = f.by /\ PaidFrame(f, arrived).n = f.n
         /\ PaidFrame(f, arrived).pt = f.pt /\ PaidFrame(f, arrived).fb = f.fb
         /\ PaidFrame(f, arrived).rs = f.rs /\ PaidFrame(f, arrived).todo = f.todo
         /\ PaidFrame(f, arrived).orders = f.orders /\ PaidFrame(f, arrived).at = f.at
         /\ PaidFrame(f, arrived).sweep = f.sweep /\ PaidFrame(f, arrived).bill = f.bill
         /\ PaidFrame(f, arrived).got = Credited(f, arrived)
BY DEF PaidFrame, Frame

(* It fits as well as before. *)
LEMMA PaidFits ==
  ASSUME NEW f \in Frame, NEW arrived, Credited(f, arrived) \in Nat, FitsNow(f)
  PROVE  FitsNow(PaidFrame(f, arrived))
<1> DEFINE g == PaidFrame(f, arrived)
<1>1. /\ g.op = f.op /\ g.id = f.id /\ g.by = f.by /\ g.n = f.n /\ g.pt = f.pt /\ g.fb = f.fb
      /\ g.rs = f.rs /\ g.todo = f.todo /\ g.orders = f.orders
      /\ g.at = f.at /\ g.sweep = f.sweep /\ g.bill = f.bill
  BY PaidFields
<1> HIDE DEF g
<1>2. FitsNow(f) = FitsNow(g)
  BY <1>1 DEF FitsNow, FrameFits, OrderFits, SweepFits, BundleFits
<1> QED
  BY <1>2 DEF g

(* Nothing is listed, made or bought. *)
LEMMA NothingGrows ==
  ASSUME ListingsTyped, BundlesTyped,
         UNCHANGED <<listings, nextListingId, bundles, nextBundleId, buyers>>
  PROVE  /\ ListingsTyped' /\ BundlesTyped' /\ Growing /\ CostsFall
<1>1. ListingsTyped' /\ BundlesTyped'
  BY DEF ListingsTyped, BundlesTyped
<1>2. Growing
  BY CountsType DEF Growing
<1>3. ASSUME NEW id \in ListingIds
      PROVE  listings'[id].p * listings'[id].a <= listings[id].p * listings[id].a
  <2> DEFINE p == listings[id].p
             a == listings[id].a
  <2>1. listings[id] \in ListingRecord
    BY DEF ListingsTyped
  <2>2. p \in Nat /\ a \in Nat
    BY <2>1 DEF ListingRecord
  <2>3. listings'[id].p = p /\ listings'[id].a = a
    OBVIOUS
  <2> HIDE DEF p, a
  <2>4. p * a <= p * a
    <3>1. p * a \in Nat
      BY <2>2
    <3> QED
      BY <3>1
  <2> QED
    BY <2>3, <2>4 DEF p, a
<1> QED
  BY <1>1, <1>2, <1>3 DEF CostsFall

(* The next stage of a purchase that fits, when it is not a move of a      *)
(* bundle's items.                                                         *)
LEMMA FitsAfter ==
  ASSUME BundlesTyped, NEW f \in Frame, FitsNow(f), Len(f.todo) # 1, Head(f.todo) # "next",
         f.op = "bundle" => Head(f.todo) # "deliver"
  PROVE  FitsNow(After(f))
<1> DEFINE g == After(f)
<1>1. f.todo # <<>> /\ f.op \in {"listing", "bundle"}
  BY FrameStages, FitsIds
<1>2. /\ g \in Frame /\ g.op = f.op /\ g.id = f.id /\ g.by = f.by /\ g.n = f.n
      /\ g.pt = f.pt /\ g.fb = f.fb /\ g.rs = f.rs /\ g.at = f.at /\ g.orders = f.orders
      /\ g.sweep = f.sweep /\ g.bill = f.bill /\ g.todo = Tail(f.todo)
  BY <1>1, AfterFields
<1>3. CASE f.op = "listing"
  <2>1. OrderFits(f, listings, nextListingId)
        /\ (f.sweep => SweepFits(f, listings, nextListingId))
    BY <1>3 DEF FitsNow, FrameFits
  <2>2. g \in Frame /\ g = After(f)
    BY <1>2
  <2> HIDE DEF g
  <2>3. /\ g.op = "listing" /\ OrderFits(g, listings, nextListingId)
        /\ (g.sweep => SweepFits(g, listings, nextListingId))
    BY <1>3, <2>1, <2>2, OrderFitsAfter
  <2> QED
    BY <2>2, <2>3 DEF FitsNow, FrameFits
<1>4. CASE f.op = "bundle"
  <2> HIDE DEF g
  <2> DEFINE items == Len(bundles[f.id].its)
             m == items - f.at
  <2>1. BundleFits(f, bundles, nextBundleId, buyers)
    BY <1>4 DEF FitsNow, FrameFits
  <2>2. /\ f.at <= items
        /\ (f.at = 0 /\ f.todo = PayThenGive(items)) \/ f.todo = GiveThenPay(m)
    BY <2>1 DEF BundleFits
  <2>3. items \in Nat /\ f.at \in Nat
    <3>1. f.id \in BundleIds /\ f.at \in Nat
      BY <1>4, FitsIds, FrameParts
    <3> QED
      BY <3>1 DEF BundlesTyped, BundleRecord
  <2>4. m \in Nat
    <3> HIDE DEF items
    <3> QED
      BY <2>2, <2>3
  <2> HIDE DEF items, m
  <2>5. f.todo # GiveThenPay(m)
    <3>1. Head(f.todo) # "deliver"
      BY <1>4
    <3>2. CASE m = 0
      <4>1. Len(GiveThenPay(m)) = m + 1
        BY <2>4, BundleStages
      <4> QED
        BY <3>2, <4>1
    <3>3. CASE m # 0
      <4>1. Head(GiveThenPay(m)) = "deliver"
        BY <2>4, <3>3, BundleStages
      <4> QED
        BY <3>1, <4>1
    <3> QED
      BY <3>2, <3>3
  <2>6. f.at = 0 /\ f.todo = PayThenGive(items)
    BY <2>2, <2>5
  <2>7. g.todo = GiveThenPay(items) /\ g.at = 0
    BY <1>2, <2>3, <2>6, BundleStages
  <2>8. g.todo = GiveThenPay(items - g.at)
    <3>1. items - 0 = items
      BY <2>3
    <3> QED
      BY <2>7, <3>1
  <2>9. BundleFits(g, bundles, nextBundleId, buyers)
    BY <1>2, <2>1, <2>8 DEF BundleFits, items
  <2> QED
    BY <1>2, <1>4, <2>9 DEF FitsNow, FrameFits, g
<1> QED
  BY <1>1, <1>3, <1>4

-----------------------------------------------------------------------------
(* The steps of the purchases in progress, with what they change in the    *)
(* weights.                                                                *)

FlightsSame ==
  \A id : Weighed(FlightWeight(id), calls') = Weighed(FlightWeight(id), calls)

UnloggedSame ==
  \A op, id : Weighed(UnloggedWeight(op, id), calls') = Weighed(UnloggedWeight(op, id), calls)

(* What a step leaves alone besides the stack and the holdings. *)
OffersSame == UNCHANGED <<listings, nextListingId, bundles, nextBundleId, buyers>>

(* The core of an invariant when only stack and holdings change. *)
LEMMA CoreFromStack ==
  ASSUME CoreOK, OffersSame, UNCHANGED marketVars, GoodsTyped', StackOK'
  PROVE  CoreOK'
<1>1. ListingsTyped' /\ BundlesTyped'
  BY NothingGrows DEF CoreOK, OffersSame
<1>2. MarketInv'
  BY UnchangedMarketInv DEF CoreOK
<1> QED
  BY <1>1, <1>2 DEF CoreOK

(* The units of a kept item move. *)
LEMMA HandToMoves ==
  ASSUME GoodsTyped, NEW i \in Items, NEW from, NEW to \in Accounts, NEW n \in Nat,
         HandTo(i, from, to, n), from # to
  PROVE  /\ from \in Accounts /\ approved' \subseteq Items \X Accounts
         /\ nft' \in [Items -> [Holders -> Nat]]
         /\ \A j \in Items \ {i} : nft'[j] = nft[j]
         /\ \A z \in Holders :
              nft'[i][z] = IF z = from THEN nft[i][z] - n
                           ELSE IF z = to THEN nft[i][z] + n ELSE nft[i][z]
<1>1. CanMove(i, from, n) /\ <<i, from>> \in approved /\ nft' = Move(i, from, to, n)
  BY DEF HandTo, CanOffer, CanPull
<1>2. from \in Accounts
  BY <1>1 DEF GoodsTyped
<1>3. approved' \subseteq Items \X Accounts
  BY DEF HandTo, Pulled, GoodsTyped
<1>4. from \in Holders /\ to \in Holders
  BY <1>2 DEF Holders
<1> QED
  BY <1>1, <1>2, <1>3, <1>4, MoveBalances DEF GoodsTyped

(* The innermost purchase turns into h; w0 and w1 are what it weighed and  *)
(* weighs.                                                                 *)
LEMMA TurnKeepsWeight ==
  ASSUME CoreOK, ~Idle, NEW h \in Frame, NEW on \in BOOLEAN,
         calls' = (IF on THEN Append(Outer, h) ELSE Outer), NEW V \in [Frame -> Nat],
         NEW w \in Nat, V[Top] = (IF on THEN V[h] ELSE 0) + w
  PROVE  /\ Weighed(V, calls) \in Nat /\ Weighed(V, calls') \in Nat
         /\ Weighed(V, calls) = Weighed(V, calls') + w
<1>1. CallsTyped
  BY DEF CoreOK, StackOK
<1> DEFINE o == Weighed(V, Outer)
           vt == V[Top]
           vh == IF on THEN V[h] ELSE 0
<1>2. o \in Nat /\ Weighed(V, calls) = o + vt /\ Weighed(V, calls') = o + vh
  BY <1>1, TurnWeighs
<1>3. vh \in Nat /\ vt = vh + w
  OBVIOUS
<1> HIDE DEF o, vt, vh
<1> QED
  BY <1>2, <1>3

(* The payment of the innermost purchase arrives and is held. *)
LEMMA TakePaymentCore ==
  ASSUME CoreOK, NEW arrived, TakePayment(arrived), OffersSame
  PROVE  CoreOK' /\ FlightsSame /\ UnloggedSame
<1> DEFINE f == Top
           g == PaidFrame(f, arrived)
           h == After(g)
<1>1. /\ Pay(arrived) /\ UNCHANGED marketVars /\ approved' = approved /\ nft' = nft
  BY DEF TakePayment
<1>2. /\ ~Idle /\ Head(f.todo) = "pay" /\ Returned(g)
      /\ pool' = [pool EXCEPT ![f.pt] = @ + arrived]
  BY <1>1 DEF Pay, PaidFrame
<1>3. /\ f \in Frame /\ FitsNow(f) /\ Outer \in Seq(Frame)
  BY <1>2, TopFits
<1>4. /\ ListingsTyped /\ BundlesTyped /\ pool \in [Tokens -> Nat]
      /\ ListingsTyped' /\ BundlesTyped' /\ Growing /\ CostsFall
  BY NothingGrows DEF CoreOK, OffersSame, GoodsTyped
<1>5. f.pt \in Tokens /\ arrived \in Nat /\ Credited(f, arrived) = arrived
  BY <1>1, <1>3, FrameParts, PaymentMeasured
<1> HIDE DEF f
<1>6. /\ g \in Frame /\ FitsNow(g) /\ g.todo = f.todo /\ g.op = f.op /\ g.id = f.id
      /\ g.n = f.n /\ g.pt = f.pt /\ g.got = arrived
  BY <1>3, <1>5, PaidFields, PaidFits
<1> HIDE DEF g
<1>7. g.todo # <<>> /\ Len(g.todo) # 1 /\ Head(g.todo) = "pay"
  BY <1>2, <1>4, <1>6, FrameStages
<1>8. h \in Frame /\ FitsNow(h) /\ h.todo = Tail(g.todo)
  BY <1>4, <1>6, <1>7, AfterFields, FitsAfter
<1>9. Head(h.todo) # "pay"
  BY <1>4, <1>6, <1>7, <1>8, FrameStages
<1>10. FitsNext(h)
  <2> HIDE DEF h
  <2> QED
    BY <1>4, <1>8, FitsGrow, SweepsFall
<1>11. calls' = IF TRUE THEN Append(Outer, h) ELSE Outer
  BY <1>2, <1>6, <1>7, ReturnTurns
<1>12. ASSUME NEW t \in Tokens
       PROVE  pool'[t] = pool[t] - HeldWeight(t)[f] + (IF TRUE THEN HeldWeight(t)[h] ELSE 0)
  <2>1. HeldWeight(t)[f] = 0
    BY <1>2, <1>3, <1>4, WeightAtStage
  <2>2. HeldWeight(t)[h] = IF g.pt = t THEN g.got ELSE 0
    BY <1>4, <1>6, <1>7, WeightAtStage
  <2>3. pool'[t] = IF t = f.pt THEN pool[t] + arrived ELSE pool[t]
    BY <1>2, <1>4, <1>5
  <2>4. pool[t] \in Nat
    BY <1>4
  <2> HIDE DEF h
  <2> QED
    BY <1>5, <1>6, <2>1, <2>2, <2>3, <2>4
<1> HIDE DEF h
<1>13. StackOK'
  <2> DEFINE on == TRUE
  <2>1. /\ on \in BOOLEAN /\ calls' = (IF on THEN Append(Outer, h) ELSE Outer)
        /\ (on => FitsNext(h))
        /\ (on /\ Head(h.todo) = "pay" => h.before = Weighed(HeldWeight(h.pt), Outer))
        /\ \A t \in Tokens :
             pool'[t] = pool[t] - HeldWeight(t)[f] + (IF on THEN HeldWeight(t)[h] ELSE 0)
    BY <1>9, <1>10, <1>11, <1>12
  <2> HIDE DEF on
  <2> QED
    BY <1>2, <1>4, <1>8, <2>1, StackGoesOn DEF f
<1>14. GoodsTyped'
  <2>1. pool[f.pt] + arrived \in Nat
    BY <1>4, <1>5
  <2>2. pool' \in [Tokens -> Nat]
    BY <1>2, <1>4, <1>5, <2>1
  <2> QED
    BY <1>1, <2>2 DEF CoreOK, GoodsTyped
<1>15. CoreOK'
  BY <1>1, <1>13, <1>14, CoreFromStack
<1>16. FlightsSame
  <2> SUFFICES ASSUME NEW id
               PROVE  Weighed(FlightWeight(id), calls') = Weighed(FlightWeight(id), calls)
    BY DEF FlightsSame
  <2> DEFINE V == FlightWeight(id)
  <2>1. V \in [Frame -> Nat] /\ V[f] = V[h]
    <3>1. V[h] = V[g]
      BY <1>4, <1>6, <1>7, WeightAtStage DEF h
    <3>2. V[g] = IF g.op = "listing" /\ g.id = id THEN g.n ELSE 0
      BY <1>4, <1>6, <1>7, WeightAtStage
    <3>3. V[f] = IF f.op = "listing" /\ f.id = id THEN f.n ELSE 0
      BY <1>2, <1>3, <1>4, WeightAtStage
    <3> QED
      BY <1>6, <3>1, <3>2, <3>3, FlightType
  <2> HIDE DEF V
  <2>2. V[f] = (IF TRUE THEN V[h] ELSE 0) + 0
    BY <1>8, <2>1
  <2>3. Weighed(V, calls) = Weighed(V, calls') + 0 /\ Weighed(V, calls') \in Nat
    BY <1>2, <1>8, <1>11, <2>1, <2>2, TurnKeepsWeight DEF f
  <2> QED
    BY <2>3 DEF V
<1>17. UnloggedSame
  <2> SUFFICES ASSUME NEW op, NEW id
               PROVE  Weighed(UnloggedWeight(op, id), calls')
                        = Weighed(UnloggedWeight(op, id), calls)
    BY DEF UnloggedSame
  <2> DEFINE V == UnloggedWeight(op, id)
  <2>1. V \in [Frame -> Nat] /\ V[f] = V[h]
    <3>1. V[h] = V[g] /\ V[g] = V[f]
      BY <1>2, <1>3, <1>4, <1>6, <1>7, WeightAtStage DEF h
    <3> QED
      BY <3>1, UnloggedType
  <2> HIDE DEF V
  <2>2. V[f] = (IF TRUE THEN V[h] ELSE 0) + 0
    BY <1>8, <2>1
  <2>3. Weighed(V, calls) = Weighed(V, calls') + 0 /\ Weighed(V, calls') \in Nat
    BY <1>2, <1>8, <1>11, <2>1, <2>2, TurnKeepsWeight DEF f
  <2> QED
    BY <2>3 DEF V
<1> QED
  BY <1>15, <1>16, <1>17

(* The units of an order are delivered. *)
LEMMA GiveUnitsCore ==
  ASSUME CoreOK, GiveUnits, OffersSame
  PROVE  /\ CoreOK' /\ UnloggedSame
         /\ Top.op = "listing" /\ Top.id \in ListingIds /\ Top.id < nextListingId
         /\ Top.n \in Nat
         /\ \A id :
              /\ Weighed(FlightWeight(id), calls) \in Nat
              /\ Weighed(FlightWeight(id), calls') \in Nat
              /\ Weighed(FlightWeight(id), calls)
                   = Weighed(FlightWeight(id), calls') + (IF id = Top.id THEN Top.n ELSE 0)
<1> DEFINE f == Top
           h == After(f)
           l == listings[f.id]
<1>1. /\ ~Idle /\ f.op = "listing" /\ Head(f.todo) = "deliver" /\ Returned(f)
      /\ HandTo(l.item, l.s, f.by, f.n) /\ UNCHANGED marketVars /\ pool' = pool
  BY DEF GiveUnits, InProgress, Listing
<1>2. f \in Frame /\ FitsNow(f) /\ Outer \in Seq(Frame)
  BY <1>1, TopFits
<1>3. /\ ListingsTyped /\ BundlesTyped /\ pool \in [Tokens -> Nat] /\ GoodsTyped
      /\ ListingsTyped' /\ BundlesTyped' /\ Growing /\ CostsFall
  BY NothingGrows DEF CoreOK, OffersSame, GoodsTyped
<1>4. f.id \in ListingIds /\ f.n \in Nat /\ f.by \in Accounts
  BY <1>1, <1>2, <1>3, FrameParts, FitsIds
<1>5. OrderFits(f, listings, nextListingId)
  BY <1>1, <1>2 DEF FitsNow, FrameFits
<1> HIDE DEF f
<1>6. f.todo # <<>> /\ Len(f.todo) # 1 /\ f.at # 0
  <2>1. f.todo # <<>> /\ Len(f.todo) # 1
    BY <1>1, <1>2, <1>3, FrameStages
  <2>2. Head(<<"next">>) = "next"
    OBVIOUS
  <2> QED
    BY <1>1, <1>5, <2>1, <2>2 DEF OrderFits
<1>7. f.id < nextListingId /\ f.by # l.s
  <2>1. f.at \in Nat
    BY <1>2, FrameParts
  <2> QED
    BY <1>5, <1>6, <2>1 DEF OrderFits
<1>8. h \in Frame /\ FitsNow(h) /\ h.todo = Tail(f.todo) /\ Head(h.todo) # "pay"
  <2>1. h \in Frame /\ h.todo = Tail(f.todo) /\ FitsNow(h)
    BY <1>1, <1>2, <1>3, <1>6, AfterFields, FitsAfter
  <2>2. Head(Tail(f.todo)) \in {"deliver", "payout"}
    BY <1>1, <1>2, <1>3, FrameStages
  <2> QED
    BY <2>1, <2>2
<1>9. FitsNext(h)
  <2> HIDE DEF h
  <2> QED
    BY <1>3, <1>8, FitsGrow, SweepsFall
<1>10. calls' = IF TRUE THEN Append(Outer, h) ELSE Outer
  BY <1>1, <1>2, <1>6, ReturnTurns
<1>11. ASSUME NEW t
       PROVE  HeldWeight(t)[f] = HeldWeight(t)[h]
  BY <1>1, <1>2, <1>3, WeightAtStage
<1>12. ASSUME NEW op, NEW id
       PROVE  UnloggedWeight(op, id)[f] = UnloggedWeight(op, id)[h]
  BY <1>1, <1>2, <1>3, WeightAtStage
<1>13. ASSUME NEW id
       PROVE  /\ FlightWeight(id)[f] = (IF id = f.id THEN f.n ELSE 0)
              /\ FlightWeight(id)[h] = 0
  BY <1>1, <1>2, <1>3, WeightAtStage
<1> HIDE DEF h
<1>14. StackOK'
  <2> DEFINE on == TRUE
  <2>1. \A t \in Tokens :
          pool'[t] = pool[t] - HeldWeight(t)[f] + (IF on THEN HeldWeight(t)[h] ELSE 0)
    <3> SUFFICES ASSUME NEW t \in Tokens
                 PROVE  pool'[t] = pool[t] - HeldWeight(t)[f] + HeldWeight(t)[h]
      OBVIOUS
    <3>1. pool[t] \in Nat /\ HeldWeight(t)[f] \in Nat
      BY <1>2, <1>3, HeldType
    <3> QED
      BY <1>1, <1>11, <3>1
  <2>2. /\ on \in BOOLEAN /\ calls' = (IF on THEN Append(Outer, h) ELSE Outer)
        /\ (on => FitsNext(h))
        /\ (on /\ Head(h.todo) = "pay" => h.before = Weighed(HeldWeight(h.pt), Outer))
    BY <1>8, <1>9, <1>10
  <2> HIDE DEF on
  <2> QED
    BY <1>1, <1>3, <1>8, <2>1, <2>2, StackGoesOn DEF f
<1>15. GoodsTyped'
  <2>1. l.item \in Items
    <3>1. l \in ListingRecord
      BY <1>3, <1>4 DEF ListingsTyped
    <3> QED
      BY <3>1 DEF ListingRecord
  <2>2. approved' \subseteq Items \X Accounts /\ nft' \in [Items -> [Holders -> Nat]]
    <3> DEFINE i == l.item
               s == l.s
               y == f.by
               n == f.n
    <3>1. i \in Items /\ y \in Accounts /\ n \in Nat /\ HandTo(i, s, y, n) /\ s # y
      BY <1>1, <1>4, <1>7, <2>1
    <3> HIDE DEF i, s, y, n
    <3> QED
      BY <1>3, <3>1, HandToMoves
  <2> QED
    BY <1>1, <1>3, <2>2 DEF GoodsTyped
<1>16. CoreOK'
  BY <1>1, <1>14, <1>15, CoreFromStack
<1>17. UnloggedSame
  <2> SUFFICES ASSUME NEW op, NEW id
               PROVE  Weighed(UnloggedWeight(op, id), calls')
                        = Weighed(UnloggedWeight(op, id), calls)
    BY DEF UnloggedSame
  <2> DEFINE V == UnloggedWeight(op, id)
  <2>1. V \in [Frame -> Nat] /\ V[f] = V[h]
    BY <1>12, UnloggedType
  <2> HIDE DEF V
  <2>2. V[f] = (IF TRUE THEN V[h] ELSE 0) + 0
    BY <1>8, <2>1
  <2>3. Weighed(V, calls) = Weighed(V, calls') + 0 /\ Weighed(V, calls') \in Nat
    BY <1>1, <1>8, <1>10, <2>1, <2>2, TurnKeepsWeight DEF f
  <2> QED
    BY <2>3 DEF V
<1>18. ASSUME NEW id
       PROVE  /\ Weighed(FlightWeight(id), calls) \in Nat
              /\ Weighed(FlightWeight(id), calls') \in Nat
              /\ Weighed(FlightWeight(id), calls)
                   = Weighed(FlightWeight(id), calls') + (IF id = f.id THEN f.n ELSE 0)
  <2> DEFINE V == FlightWeight(id)
             w == IF id = f.id THEN f.n ELSE 0
  <2>1. V \in [Frame -> Nat] /\ V[f] = w /\ V[h] = 0 /\ w \in Nat
    BY <1>4, <1>13, FlightType
  <2> HIDE DEF V, w
  <2>2. V[f] = (IF TRUE THEN V[h] ELSE 0) + w
    BY <2>1
  <2>3. /\ Weighed(V, calls) \in Nat /\ Weighed(V, calls') \in Nat
        /\ Weighed(V, calls) = Weighed(V, calls') + w
    BY <1>1, <1>8, <1>10, <2>1, <2>2, TurnKeepsWeight DEF f
  <2> QED
    BY <2>3 DEF V, w
<1> QED
  BY <1>1, <1>4, <1>7, <1>16, <1>17, <1>18 DEF f

(* What a purchase held leaves the market, and it is not in progress any   *)
(* more, whether or not another order follows.                             *)
LEMMA PayOutCore ==
  ASSUME CoreOK, PayOut, OffersSame, UNCHANGED <<marketVars, approved, nft>>
  PROVE  /\ CoreOK' /\ FlightsSame
         /\ Top \in Frame /\ FitsNow(Top)
         /\ \A op, id :
              /\ Weighed(UnloggedWeight(op, id), calls) \in Nat
              /\ Weighed(UnloggedWeight(op, id), calls') \in Nat
              /\ Weighed(UnloggedWeight(op, id), calls)
                   = Weighed(UnloggedWeight(op, id), calls')
                       + (IF op = Top.op /\ id = Top.id THEN Top.n ELSE 0)
<1> DEFINE f == Top
           h == After(f)
           on == Len(f.todo) # 1
<1>1. /\ ~Idle /\ Head(f.todo) = "payout" /\ Returned(f)
      /\ pool[f.pt] >= f.got /\ pool' = [pool EXCEPT ![f.pt] = @ - f.got]
  BY DEF PayOut
<1>2. f \in Frame /\ FitsNow(f) /\ Outer \in Seq(Frame)
  BY <1>1, TopFits
<1>3. /\ ListingsTyped /\ BundlesTyped /\ pool \in [Tokens -> Nat] /\ GoodsTyped
      /\ ListingsTyped' /\ BundlesTyped' /\ Growing /\ CostsFall
  BY NothingGrows DEF CoreOK, OffersSame, GoodsTyped
<1>4. f.pt \in Tokens /\ f.got \in Nat /\ f.n \in Nat
  BY <1>2, FrameParts
<1> HIDE DEF f
<1>5. f.todo # <<>>
  BY <1>2, <1>3, FrameStages
<1>6. h \in Frame /\ h.todo = Tail(f.todo)
  BY <1>2, <1>5, AfterFields
<1>7. ASSUME on
      PROVE  Head(h.todo) # "pay" /\ FitsNext(h)
  <2>1. Head(h.todo) = "next"
    BY <1>1, <1>2, <1>3, <1>6, <1>7, FrameStages
  <2>2. FitsNow(h)
    BY <1>1, <1>2, <1>3, <1>7, FitsAfter
  <2> HIDE DEF h
  <2>3. FitsNext(h)
    BY <1>3, <1>6, <2>2, FitsGrow, SweepsFall
  <2> QED
    BY <2>1, <2>3
<1>8. calls' = IF on THEN Append(Outer, h) ELSE Outer
  BY <1>1, <1>2, <1>5, ReturnTurns
<1>9. ASSUME NEW t
      PROVE  HeldWeight(t)[f] = (IF f.pt = t THEN f.got ELSE 0) /\ HeldWeight(t)[h] = 0
  BY <1>1, <1>2, <1>3, WeightAtStage
<1>10. ASSUME NEW op, NEW id
       PROVE  /\ UnloggedWeight(op, id)[f] = (IF op = f.op /\ id = f.id THEN f.n ELSE 0)
              /\ UnloggedWeight(op, id)[h] = 0
  BY <1>1, <1>2, <1>3, WeightAtStage
<1>11. ASSUME NEW id
       PROVE  FlightWeight(id)[f] = 0 /\ FlightWeight(id)[h] = 0
  BY <1>1, <1>2, <1>3, WeightAtStage
<1>12. on \in BOOLEAN
  OBVIOUS
<1> HIDE DEF h, on
<1>13. StackOK'
  <2>1. \A t \in Tokens :
          pool'[t] = pool[t] - HeldWeight(t)[f] + (IF on THEN HeldWeight(t)[h] ELSE 0)
    <3> SUFFICES ASSUME NEW t \in Tokens
                 PROVE  pool'[t] = pool[t] - HeldWeight(t)[f]
                                     + (IF on THEN HeldWeight(t)[h] ELSE 0)
      OBVIOUS
    <3>1. pool[t] \in Nat /\ pool'[t] = IF t = f.pt THEN pool[t] - f.got ELSE pool[t]
      BY <1>1, <1>3, <1>4
    <3> QED
      BY <1>4, <1>9, <3>1
  <2> QED
    BY <1>1, <1>3, <1>6, <1>7, <1>8, <1>12, <2>1, StackGoesOn DEF f
<1>14. GoodsTyped'
  <2>1. pool[f.pt] - f.got \in Nat
    BY <1>1, <1>3, <1>4
  <2>2. pool' \in [Tokens -> Nat]
    BY <1>1, <1>3, <1>4, <2>1
  <2> QED
    BY <2>2 DEF CoreOK, GoodsTyped
<1>15. CoreOK'
  BY <1>13, <1>14, CoreFromStack
<1>16. FlightsSame
  <2> SUFFICES ASSUME NEW id
               PROVE  Weighed(FlightWeight(id), calls') = Weighed(FlightWeight(id), calls)
    BY DEF FlightsSame
  <2> DEFINE V == FlightWeight(id)
  <2>1. V \in [Frame -> Nat] /\ V[f] = 0 /\ V[h] = 0
    BY <1>11, FlightType
  <2> HIDE DEF V
  <2>2. V[f] = (IF on THEN V[h] ELSE 0) + 0
    BY <1>6, <2>1
  <2>3. Weighed(V, calls) = Weighed(V, calls') + 0 /\ Weighed(V, calls') \in Nat
    BY <1>1, <1>6, <1>8, <1>12, <2>1, <2>2, TurnKeepsWeight DEF f
  <2> QED
    BY <2>3 DEF V
<1>17. ASSUME NEW op, NEW id
       PROVE  /\ Weighed(UnloggedWeight(op, id), calls) \in Nat
              /\ Weighed(UnloggedWeight(op, id), calls') \in Nat
              /\ Weighed(UnloggedWeight(op, id), calls)
                   = Weighed(UnloggedWeight(op, id), calls')
                       + (IF op = f.op /\ id = f.id THEN f.n ELSE 0)
  <2> DEFINE V == UnloggedWeight(op, id)
             w == IF op = f.op /\ id = f.id THEN f.n ELSE 0
  <2>1. V \in [Frame -> Nat] /\ V[f] = w /\ V[h] = 0 /\ w \in Nat
    BY <1>4, <1>10, UnloggedType
  <2> HIDE DEF V, w
  <2>2. V[f] = (IF on THEN V[h] ELSE 0) + w
    BY <2>1
  <2>3. /\ Weighed(V, calls) \in Nat /\ Weighed(V, calls') \in Nat
        /\ Weighed(V, calls) = Weighed(V, calls') + w
    BY <1>1, <1>6, <1>8, <1>12, <2>1, <2>2, TurnKeepsWeight DEF f
  <2> QED
    BY <2>3 DEF V, w
<1> QED
  BY <1>2, <1>15, <1>16, <1>17 DEF f

(* A purchase of a bundle when one more item has had its turn. *)
Onward(f) == [f EXCEPT !.at = @ + 1]

(* Nothing else about it changes. *)
LEMMA OnwardFields ==
  ASSUME NEW f \in Frame
  PROVE  /\ Onward(f) \in Frame /\ Onward(f).op = f.op /\ Onward(f).id = f.id
         /\ Onward(f).by = f.by /\ Onward(f).n = f.n /\ Onward(f).pt = f.pt
         /\ Onward(f).got = f.got /\ Onward(f).todo = f.todo /\ Onward(f).at = f.at + 1
         /\ Onward(f).sweep = f.sweep /\ Onward(f).bill = f.bill
         /\ Onward(f).orders = f.orders /\ Onward(f).fb = f.fb /\ Onward(f).rs = f.rs
<1> DEFINE a == f.at + 1
<1>1. a \in Nat
  BY DEF Frame
<1>2. Onward(f) = [f EXCEPT !.at = a]
  BY DEF Onward, Frame
<1> HIDE DEF a
<1>3. /\ [f EXCEPT !.at = a] \in Frame /\ [f EXCEPT !.at = a].op = f.op
      /\ [f EXCEPT !.at = a].id = f.id /\ [f EXCEPT !.at = a].by = f.by
      /\ [f EXCEPT !.at = a].n = f.n /\ [f EXCEPT !.at = a].pt = f.pt
      /\ [f EXCEPT !.at = a].got = f.got /\ [f EXCEPT !.at = a].todo = f.todo
      /\ [f EXCEPT !.at = a].at = a /\ [f EXCEPT !.at = a].sweep = f.sweep
      /\ [f EXCEPT !.at = a].bill = f.bill /\ [f EXCEPT !.at = a].orders = f.orders
      /\ [f EXCEPT !.at = a].fb = f.fb /\ [f EXCEPT !.at = a].rs = f.rs
  BY <1>1 DEF Frame
<1> QED
  BY <1>2, <1>3 DEF a

(* The next item of a bundle is delivered. *)
LEMMA GiveItemCore ==
  ASSUME CoreOK, GiveItem, OffersSame
  PROVE  /\ CoreOK' /\ FlightsSame /\ UnloggedSame
         /\ ~Idle /\ Top \in Frame /\ BundleFits(Top, bundles, nextBundleId, buyers)
         /\ Top.id \in BundleIds /\ Top.at < Len(bundles[Top.id].its)
         /\ \E h \in Frame :
              /\ calls' = Append(Outer, h)
              /\ h.op = "bundle" /\ h.id = Top.id /\ h.by = Top.by /\ h.at = Top.at + 1
<1> DEFINE f == Top
           g == Onward(f)
           h == After(g)
           b == bundles[f.id]
           it == b.its[f.at + 1]
           items == Len(b.its)
           m == items - f.at
           m2 == items - (f.at + 1)
<1>1. /\ ~Idle /\ f.op = "bundle" /\ Head(f.todo) = "deliver" /\ Returned(g)
      /\ HandTo(it.item, b.s, f.by, it.n) /\ UNCHANGED marketVars /\ pool' = pool
  BY DEF GiveItem, InProgress, Bundle, Onward
<1>2. f \in Frame /\ FitsNow(f) /\ Outer \in Seq(Frame)
  BY <1>1, TopFits
<1>3. /\ ListingsTyped /\ BundlesTyped /\ pool \in [Tokens -> Nat] /\ GoodsTyped
      /\ ListingsTyped' /\ BundlesTyped' /\ Growing /\ CostsFall
  BY NothingGrows DEF CoreOK, OffersSame, GoodsTyped
<1>4. f.id \in BundleIds /\ f.by \in Accounts /\ f.at \in Nat
  BY <1>1, <1>2, <1>3, FrameParts, FitsIds
<1>5. BundleFits(f, bundles, nextBundleId, buyers)
  BY <1>1, <1>2 DEF FitsNow, FrameFits
<1>6. /\ g \in Frame /\ g.op = f.op /\ g.id = f.id /\ g.by = f.by /\ g.n = f.n
      /\ g.pt = f.pt /\ g.got = f.got /\ g.todo = f.todo /\ g.at = f.at + 1
      /\ g.sweep = f.sweep /\ g.bill = f.bill /\ g.orders = f.orders
      /\ g.fb = f.fb /\ g.rs = f.rs
  BY <1>2, OnwardFields
<1> HIDE DEF f, g
<1>7. b \in BundleRecord /\ items \in Nat
  BY <1>3, <1>4 DEF BundlesTyped, BundleRecord
<1>8. /\ m \in Nat /\ m # 0 /\ m2 \in Nat /\ m2 = m - 1 /\ f.at < items
      /\ f.todo = GiveThenPay(m)
  <2>1. f.at <= items /\ (f.todo = PayThenGive(items) \/ f.todo = GiveThenPay(m))
    BY <1>5 DEF BundleFits
  <2>2. m \in Nat
    <3> HIDE DEF items
    <3> QED
      BY <1>4, <1>7, <2>1
  <2>3. f.todo = GiveThenPay(m) /\ m # 0
    <3>1. Head(PayThenGive(items)) = "pay"
      BY <1>7, BundleStages
    <3>2. Head(GiveThenPay(m)) = IF m = 0 THEN "payout" ELSE "deliver"
      BY <2>2, BundleStages
    <3> HIDE DEF items, m
    <3> QED
      BY <1>1, <2>1, <3>1, <3>2
  <2>4. f.at < items /\ m2 \in Nat /\ m2 = m - 1
    <3>1. items - f.at # 0
      BY <2>3
    <3> HIDE DEF items
    <3> QED
      BY <1>4, <1>7, <2>1, <3>1
  <2> QED
    BY <2>2, <2>3, <2>4
<1> HIDE DEF b, items, m, m2
<1>9. g.todo # <<>> /\ Len(g.todo) # 1
  BY <1>1, <1>2, <1>3, <1>6, FrameStages
<1>10. /\ h \in Frame /\ h.todo = Tail(g.todo) /\ h.op = f.op /\ h.id = f.id /\ h.by = f.by
       /\ h.n = f.n /\ h.at = f.at + 1 /\ h.sweep = f.sweep
  BY <1>6, <1>9, AfterFields
<1>11. h.todo = GiveThenPay(m2)
  <2>1. m > 0 /\ Tail(GiveThenPay(m)) = GiveThenPay(m - 1)
    BY <1>8, BundleStages
  <2> QED
    BY <1>6, <1>8, <1>10, <2>1
<1>12. BundleFits(h, bundles, nextBundleId, buyers)
  <2>1. f.at + 1 <= items
    BY <1>4, <1>7, <1>8
  <2> HIDE DEF h
  <2> QED
    BY <1>5, <1>10, <1>11, <2>1 DEF BundleFits, b, items, m2
<1>13. FitsNow(h)
  <2> HIDE DEF h
  <2> QED
    BY <1>1, <1>10, <1>12 DEF FitsNow, FrameFits
<1>14. FitsNext(h)
  <2> HIDE DEF h
  <2> QED
    BY <1>3, <1>10, <1>13, FitsGrow, SweepsFall
<1>15. Head(h.todo) # "pay"
  BY <1>8, <1>11, BundleStages
<1>16. calls' = IF TRUE THEN Append(Outer, h) ELSE Outer
  BY <1>1, <1>6, <1>9, ReturnTurns
<1>17. ASSUME NEW t, NEW op, NEW id
       PROVE  /\ HeldWeight(t)[h] = HeldWeight(t)[f]
              /\ UnloggedWeight(op, id)[h] = UnloggedWeight(op, id)[f]
              /\ FlightWeight(id)[h] = FlightWeight(id)[f]
  <2>1. h.pt = f.pt /\ h.got = f.got
    BY <1>6, <1>9, AfterFields
  <2> HIDE DEF h
  <2>2. Head(h.todo) \in {"deliver", "payout"}
    BY <1>8, <1>11, BundleStages
  <2>3. Head(h.todo) # "next" /\ h.op # "listing"
    BY <1>1, <1>10, <2>2
  <2>4. HeldWeight(t)[h] = (IF h.pt = t THEN h.got ELSE 0)
    BY <1>3, <1>10, <1>13, <2>2, WeightAtStage
  <2>5. UnloggedWeight(op, id)[h] = (IF h.op = op /\ h.id = id THEN h.n ELSE 0)
    <3>1. h \in Frame /\ FitsNow(h) /\ BundlesTyped
      BY <1>3, <1>10, <1>13
    <3>2. UnloggedWeight(op, id)[h] =
            IF h.op = op /\ h.id = id /\ Head(h.todo) # "next" THEN h.n ELSE 0
      BY <3>1, WeightAtStage
    <3> QED
      BY <2>3, <3>2
  <2>6. FlightWeight(id)[h] = 0
    BY <1>3, <1>10, <1>13, <2>3, WeightAtStage
  <2>7. HeldWeight(t)[f] = (IF f.pt = t THEN f.got ELSE 0)
    BY <1>1, <1>2, <1>3, WeightAtStage
  <2>8. UnloggedWeight(op, id)[f] = (IF f.op = op /\ f.id = id THEN f.n ELSE 0)
    BY <1>1, <1>2, <1>3, WeightAtStage
  <2>9. FlightWeight(id)[f] = 0
    BY <1>1, <1>2, <1>3, WeightAtStage
  <2> QED
    BY <1>10, <2>1, <2>4, <2>5, <2>6, <2>7, <2>8, <2>9
<1> HIDE DEF h
<1>18. StackOK'
  <2> DEFINE on == TRUE
  <2>1. \A t \in Tokens :
          pool'[t] = pool[t] - HeldWeight(t)[f] + (IF on THEN HeldWeight(t)[h] ELSE 0)
    <3> SUFFICES ASSUME NEW t \in Tokens
                 PROVE  pool'[t] = pool[t] - HeldWeight(t)[f] + HeldWeight(t)[h]
      OBVIOUS
    <3>1. pool[t] \in Nat /\ HeldWeight(t)[f] \in Nat
      BY <1>2, <1>3, HeldType
    <3> QED
      BY <1>1, <1>17, <3>1
  <2>2. /\ on \in BOOLEAN /\ calls' = (IF on THEN Append(Outer, h) ELSE Outer)
        /\ (on => FitsNext(h))
        /\ (on /\ Head(h.todo) = "pay" => h.before = Weighed(HeldWeight(h.pt), Outer))
    BY <1>14, <1>15, <1>16
  <2> HIDE DEF on
  <2> QED
    BY <1>1, <1>3, <1>10, <2>1, <2>2, StackGoesOn DEF f
<1>19. GoodsTyped'
  <2>1. it \in BundleItem
    <3>1. b.its \in Seq(BundleItem) /\ f.at + 1 \in 1 .. Len(b.its)
      BY <1>4, <1>7, <1>8 DEF BundleRecord, items
    <3> QED
      BY <3>1
  <2>2. b.s # f.by
    BY <1>5 DEF BundleFits, b
  <2>3. approved' \subseteq Items \X Accounts /\ nft' \in [Items -> [Holders -> Nat]]
    <3> DEFINE i == it.item
               s == b.s
               y == f.by
               n == it.n
    <3>1. i \in Items /\ y \in Accounts /\ n \in Nat /\ HandTo(i, s, y, n) /\ s # y
      BY <1>1, <1>4, <2>1, <2>2 DEF BundleItem
    <3> HIDE DEF i, s, y, n
    <3> QED
      BY <1>3, <3>1, HandToMoves
  <2> QED
    BY <1>1, <1>3, <2>3 DEF GoodsTyped
<1>20. CoreOK'
  BY <1>1, <1>18, <1>19, CoreFromStack
<1>21. FlightsSame
  <2> SUFFICES ASSUME NEW id
               PROVE  Weighed(FlightWeight(id), calls') = Weighed(FlightWeight(id), calls)
    BY DEF FlightsSame
  <2> DEFINE V == FlightWeight(id)
  <2>1. V \in [Frame -> Nat] /\ V[f] = V[h]
    BY <1>17, FlightType
  <2> HIDE DEF V
  <2>2. V[f] = (IF TRUE THEN V[h] ELSE 0) + 0
    BY <1>10, <2>1
  <2>3. Weighed(V, calls) = Weighed(V, calls') + 0 /\ Weighed(V, calls') \in Nat
    BY <1>1, <1>10, <1>16, <2>1, <2>2, TurnKeepsWeight DEF f
  <2> QED
    BY <2>3 DEF V
<1>22. UnloggedSame
  <2> SUFFICES ASSUME NEW op, NEW id
               PROVE  Weighed(UnloggedWeight(op, id), calls')
                        = Weighed(UnloggedWeight(op, id), calls)
    BY DEF UnloggedSame
  <2> DEFINE V == UnloggedWeight(op, id)
  <2>1. V \in [Frame -> Nat] /\ V[f] = V[h]
    BY <1>17, UnloggedType
  <2> HIDE DEF V
  <2>2. V[f] = (IF TRUE THEN V[h] ELSE 0) + 0
    BY <1>10, <2>1
  <2>3. Weighed(V, calls) = Weighed(V, calls') + 0 /\ Weighed(V, calls') \in Nat
    BY <1>1, <1>10, <1>16, <2>1, <2>2, TurnKeepsWeight DEF f
  <2> QED
    BY <2>3 DEF V
<1>23. \E x \in Frame :
         /\ calls' = Append(Outer, x)
         /\ x.op = "bundle" /\ x.id = f.id /\ x.by = f.by /\ x.at = f.at + 1
  BY <1>1, <1>10, <1>16
<1>24. f.at < Len(bundles[f.id].its)
  BY <1>8 DEF items, b
<1> QED
  BY <1>1, <1>2, <1>4, <1>5, <1>20, <1>21, <1>22, <1>23, <1>24 DEF f

-----------------------------------------------------------------------------
(* Purchases begin, and orders have their turn.                            *)

(* Only a listing that was made is on. *)
ListedActive == \A id \in ListingIds : listings[id].act => id < nextListingId

(* Only a bundle that was listed and not bought is on. *)
BundledActive ==
  \A id \in BundleIds : bundles[id].act => id < nextBundleId /\ buyers[id] = <<>>

(* A frame that is new on the stack, or turns up in the place of one that  *)
(* weighed nothing, adds its weight.                                       *)
LEMMA TurnAddsWeight ==
  ASSUME CoreOK, ~Idle, NEW h \in Frame, calls' = Append(Outer, h),
         NEW V \in [Frame -> Nat], V[Top] = 0
  PROVE  /\ Weighed(V, calls) \in Nat /\ Weighed(V, calls') \in Nat
         /\ Weighed(V, calls') = Weighed(V, calls) + V[h]
<1> DEFINE on == TRUE
<1>1. CallsTyped /\ on \in BOOLEAN /\ calls' = (IF on THEN Append(Outer, h) ELSE Outer)
  BY DEF CoreOK, StackOK
<1>2. /\ Weighed(V, Outer) \in Nat
      /\ Weighed(V, calls) = Weighed(V, Outer) + V[Top]
      /\ Weighed(V, calls') = Weighed(V, Outer) + (IF on THEN V[h] ELSE 0)
  <2> HIDE DEF on
  <2> QED
    BY <1>1, TurnWeighs
<1>3. V[h] \in Nat
  OBVIOUS
<1> QED
  BY <1>2, <1>3

(* The same for a purchase that enters. *)
LEMMA EntersAddsWeight ==
  ASSUME CoreOK, NEW g \in Frame, calls' = Append(calls, g), NEW V \in [Frame -> Nat]
  PROVE  /\ Weighed(V, calls) \in Nat /\ Weighed(V, calls') \in Nat
         /\ Weighed(V, calls') = Weighed(V, calls) + V[g]
<1>1. calls \in Seq(Frame)
  BY DEF CoreOK, StackOK, CallsTyped
<1>2. Weighed(V, calls) \in Nat /\ V[g] \in Nat
  BY <1>1, WeighedType
<1>3. Weighed(V, calls') = Weighed(V, calls) + V[g]
  BY <1>1, WeighedPush
<1> QED
  BY <1>2, <1>3

(* What an order asks for. *)
LEMMA OrderAsks ==
  ASSUME ListingsTyped, NEW x, NEW o \in Order, Orderable(x, o)
  PROVE  /\ o.id \in ListingIds /\ listings[o.id] \in ListingRecord
         /\ Units(o) \in Nat /\ Units(o) > 0 /\ Units(o) <= listings[o.id].a
         /\ listings[o.id].a \in Nat /\ listings[o.id].p \in Nat
         /\ Remaining(o) = listings[o.id].a - Units(o) /\ Remaining(o) \in Nat
         /\ Cost(o) \in Nat /\ Cost(o) = listings[o.id].p * Units(o)
         /\ x # listings[o.id].s /\ listings[o.id].act
         /\ o.n = Whole => Units(o) = listings[o.id].a
<1> DEFINE l == listings[o.id]
<1>1. o.id \in ListingIds /\ o.n \in Nat \cup {Whole}
  BY DEF Order
<1>2. l \in ListingRecord
  BY <1>1 DEF ListingsTyped
<1>3. l.a \in Nat /\ l.p \in Nat
  BY <1>2 DEF ListingRecord
<1>4. Units(o) > 0 /\ Units(o) <= l.a /\ x # l.s /\ l.act
  BY DEF Orderable, Listing
<1> DEFINE u == Units(o)
           a == l.a
           p == l.p
<1>5. u = IF o.n = Whole THEN a ELSE o.n
  BY DEF Units, Listing
<1>6. Remaining(o) = a - u /\ Cost(o) = p * u
  BY DEF Remaining, Cost, Listing
<1>7. u \in Nat
  <2> HIDE DEF a, u
  <2> QED
    BY <1>1, <1>3, <1>5 DEF a
<1>8. a - u \in Nat /\ p * u \in Nat
  <2>1. a \in Nat /\ p \in Nat /\ u <= a
    BY <1>3, <1>4
  <2> HIDE DEF a, u, p
  <2> QED
    BY <1>7, <2>1
<1> QED
  BY <1>1, <1>2, <1>3, <1>4, <1>5, <1>6, <1>7, <1>8

(* A bill with one more item on it, when s. *)
Charged(b, t, c, s) == [b EXCEPT !.cost[t] = IF s THEN @ + c ELSE @]

(* Only the total of that token grows. *)
LEMMA BillGrows ==
  ASSUME NEW b \in Bill, NEW t \in Tokens, NEW c \in Nat, NEW s \in BOOLEAN
  PROVE  /\ Charged(b, t, c, s) \in Bill
         /\ Charged(b, t, c, s).budget = b.budget
         /\ Charged(b, t, c, s).raised = b.raised
         /\ Charged(b, t, c, s).cost[t] = b.cost[t] + (IF s THEN c ELSE 0)
         /\ \A u \in Tokens \ {t} : Charged(b, t, c, s).cost[u] = b.cost[u]
<1>1. b.cost \in [Tokens -> Nat]
  BY DEF Bill
<1> DEFINE v == b.cost[t] + (IF s THEN c ELSE 0)
           cost == [b.cost EXCEPT ![t] = v]
<1>2. v \in Nat /\ v = IF s THEN b.cost[t] + c ELSE b.cost[t]
  BY <1>1
<1>3. Charged(b, t, c, s) = [b EXCEPT !.cost = cost]
  BY <1>1, <1>2 DEF Charged
<1> HIDE DEF v
<1>4. cost \in [Tokens -> Nat] /\ cost[t] = v /\ \A u \in Tokens \ {t} : cost[u] = b.cost[u]
  BY <1>1, <1>2
<1> HIDE DEF cost
<1>5. /\ [b EXCEPT !.cost = cost] \in Bill
      /\ [b EXCEPT !.cost = cost].budget = b.budget
      /\ [b EXCEPT !.cost = cost].raised = b.raised
      /\ [b EXCEPT !.cost = cost].cost = cost
  BY <1>4 DEF Bill
<1> QED
  BY <1>3, <1>4, <1>5 DEF v

(* The calls of an order, with one to come after it and without.           *)
LEMMA OrderCalls ==
  ASSUME NEW more \in BOOLEAN,
         NEW todo, todo = <<"pay", "deliver", "payout">> \o (IF more THEN <<"next">> ELSE <<>>)
  PROVE  /\ todo = IF more THEN <<"pay", "deliver", "payout", "next">>
                   ELSE <<"pay", "deliver", "payout">>
         /\ todo \in Seq(Stages \cup {"next"})
<1> DEFINE S == Stages \cup {"next"}
           a == <<"pay", "deliver", "payout">>
           long == <<"pay", "deliver", "payout", "next">>
<1>1. a \in Seq(S) /\ long \in Seq(S) /\ <<"next">> \in Seq(S) /\ <<>> \in Seq(S)
  <2>1. {"pay", "deliver", "payout", "next"} \subseteq S
    BY DEF Stages
  <2> HIDE DEF S
  <2> QED
    BY <2>1
<1>2. CASE more
  <2>1. todo = a \o <<"next">>
    BY <1>2
  <2>2. a \o <<"next">> = long
    <3> DEFINE z == <<"next">>
               c == a \o z
    <3>1. Len(a) = 3 /\ Len(z) = 1 /\ Len(long) = 4
      OBVIOUS
    <3>2. c \in Seq(S) /\ Len(c) = Len(a) + Len(z)
          /\ \A k \in 1 .. Len(a) + Len(z) :
               c[k] = IF k <= Len(a) THEN a[k] ELSE z[k - Len(a)]
      <4> HIDE DEF S, a, z
      <4> QED
        BY <1>1, ConcatProperties DEF z
    <3>3. /\ a[1] = "pay" /\ a[2] = "deliver" /\ a[3] = "payout" /\ z[1] = "next"
          /\ long[1] = "pay" /\ long[2] = "deliver" /\ long[3] = "payout"
          /\ long[4] = "next"
      OBVIOUS
    <3> HIDE DEF S, a, z, long, c
    <3>4. Len(c) = 4
      BY <3>1, <3>2
    <3>5. ASSUME NEW k \in 1 .. 4
          PROVE  c[k] = long[k]
      <4>1. k = 1 \/ k = 2 \/ k = 3 \/ k = 4
        OBVIOUS
      <4>2. c[k] = IF k <= 3 THEN a[k] ELSE z[k - 3]
        BY <3>1, <3>2
      <4>3. CASE k = 4
        <5>1. k - 3 = 1 /\ ~(k <= 3)
          BY <4>3
        <5> QED
          BY <3>3, <4>2, <4>3, <5>1
      <4>4. CASE k # 4
        <5>1. k <= 3
          BY <4>1, <4>4
        <5> QED
          BY <3>3, <4>1, <4>2, <4>4, <5>1
      <4> QED
        BY <4>3, <4>4
    <3>6. c = long
      BY <1>1, <3>1, <3>2, <3>4, <3>5, SeqEqual
    <3> QED
      BY <3>6 DEF c, z
  <2>3. todo = long
    BY <2>1, <2>2
  <2> HIDE DEF long, S, a
  <2> QED
    BY <1>1, <1>2, <2>3 DEF long, S
<1>3. CASE ~more
  <2>1. todo = a \o <<>>
    BY <1>3
  <2>2. a \o <<>> = a
    OBVIOUS
  <2>3. todo = a
    BY <2>1, <2>2
  <2> HIDE DEF long, S, a
  <2> QED
    BY <1>1, <1>3, <2>3 DEF a, S
<1> QED
  BY <1>2, <1>3

(* The frame of an order that has its turn. *)
LEMMA BuyingFields ==
  ASSUME ListingsTyped, pool \in [Tokens -> Nat], NEW f \in Frame, NEW o \in Order,
         f.op = "listing", f.at < Len(f.orders), Orderable(f.by, o)
  PROVE  /\ Buying(f, o) \in Frame
         /\ Buying(f, o).op = "listing" /\ Buying(f, o).id = o.id /\ Buying(f, o).by = f.by
         /\ Buying(f, o).n = Units(o) /\ Buying(f, o).pt = listings[o.id].pt
         /\ Buying(f, o).fb = listings[o.id].fb /\ Buying(f, o).rs = listings[o.id].rs
         /\ Buying(f, o).before = pool[listings[o.id].pt]
         /\ Buying(f, o).orders = f.orders /\ Buying(f, o).at = f.at + 1
         /\ Buying(f, o).sweep = f.sweep
         /\ Buying(f, o).bill = Charged(f.bill, listings[o.id].pt, Cost(o), f.sweep)
         /\ Buying(f, o).todo
              = IF f.at + 1 < Len(f.orders) THEN <<"pay", "deliver", "payout", "next">>
                ELSE <<"pay", "deliver", "payout">>
<1> DEFINE l == listings[o.id]
           c == CollectionOf[l.item]
           then == IF f.at + 1 < Len(f.orders) THEN <<"next">> ELSE <<>>
           todo == <<"pay", "deliver", "payout">> \o then
           at1 == f.at + 1
           u == Units(o)
           ask == Cost(o)
           before == pool[l.pt]
           b == Charged(f.bill, l.pt, ask, f.sweep)
<1>1. /\ l \in ListingRecord /\ u \in Nat /\ ask \in Nat /\ o.id \in Nat
  BY OrderAsks, ListingAssumption DEF ListingIds
<1>2. /\ l.pt \in Tokens /\ l.item \in Items /\ l.fb \in Nat /\ l.rs \in Seq(Split)
  BY <1>1 DEF ListingRecord
<1>3. c \in Contracts /\ before \in Nat /\ at1 \in Nat
  BY <1>2, CustodyAssumption, FrameParts DEF Contracts
<1>4. /\ todo = IF f.at + 1 < Len(f.orders) THEN <<"pay", "deliver", "payout", "next">>
                ELSE <<"pay", "deliver", "payout">>
      /\ todo \in Seq(Stages \cup {"next"})
  <2> DEFINE more == f.at + 1 < Len(f.orders)
  <2>1. more \in BOOLEAN
    OBVIOUS
  <2>2. todo = <<"pay", "deliver", "payout">> \o (IF more THEN <<"next">> ELSE <<>>)
    OBVIOUS
  <2> HIDE DEF todo, more
  <2>3. /\ todo = IF more THEN <<"pay", "deliver", "payout", "next">>
                  ELSE <<"pay", "deliver", "payout">>
        /\ todo \in Seq(Stages \cup {"next"})
    BY <2>1, <2>2, OrderCalls
  <2> QED
    BY <2>3 DEF more
<1>6. b \in Bill
  BY <1>1, <1>2, FrameParts, BillGrows
<1>7. Buying(f, o) =
        [f EXCEPT !.id = o.id, !.n = u, !.pt = l.pt, !.ask = ask,
                  !.asset = c, !.back = c, !.fb = l.fb, !.rs = l.rs,
                  !.before = before, !.got = 0, !.at = at1, !.bill = b, !.todo = todo]
  BY DEF Buying, Listing, Frame, Charged
<1> DEFINE h == [f EXCEPT !.id = o.id, !.n = u, !.pt = l.pt, !.ask = ask,
                  !.asset = c, !.back = c, !.fb = l.fb, !.rs = l.rs,
                  !.before = before, !.got = 0, !.at = at1, !.bill = b, !.todo = todo]
<1>8. /\ h \in Frame /\ h.op = f.op /\ h.id = o.id /\ h.by = f.by /\ h.n = u
      /\ h.pt = l.pt /\ h.fb = l.fb /\ h.rs = l.rs /\ h.before = before
      /\ h.orders = f.orders /\ h.at = at1 /\ h.sweep = f.sweep /\ h.bill = b
      /\ h.todo = todo
  <2> HIDE DEF l, c, todo, at1, u, ask, before, b
  <2> QED
    BY <1>1, <1>2, <1>3, <1>4, <1>6 DEF Frame
<1> HIDE DEF h
<1>9. Buying(f, o) = h
  BY <1>7 DEF h
<1> QED
  BY <1>4, <1>8, <1>9

(* The listing has fewer units afterwards, and is off without any. *)
LEMMA OrderTaken ==
  ASSUME ListingsTyped, ListedActive, NEW x, NEW o \in Order, Orderable(x, o),
         UNCHANGED <<nextListingId, bundles, nextBundleId, buyers>>, BundlesTyped,
         listings' = [listings EXCEPT ![o.id].a = Remaining(o),
                                      ![o.id].act = @ /\ Remaining(o) # 0]
  PROVE  /\ ListingsTyped' /\ BundlesTyped' /\ Growing /\ CostsFall
         /\ o.id < nextListingId
         /\ \A id \in ListingIds \ {o.id} : listings'[id] = listings[id]
         /\ listings'[o.id] = [listings[o.id] EXCEPT !.a = Remaining(o),
                                                     !.act = @ /\ Remaining(o) # 0]
<1> DEFINE l == listings[o.id]
           rest == Remaining(o)
           m == [l EXCEPT !.a = rest, !.act = @ /\ rest # 0]
<1>1. /\ o.id \in ListingIds /\ l \in ListingRecord /\ rest \in Nat /\ rest = l.a - Units(o)
      /\ Units(o) \in Nat /\ l.act /\ l.a \in Nat /\ l.p \in Nat
  BY OrderAsks
<1>2. o.id < nextListingId
  BY <1>1 DEF ListedActive
<1> HIDE DEF rest
<1>3. /\ m \in ListingRecord /\ m.s = l.s /\ m.pt = l.pt /\ m.fb = l.fb /\ m.rs = l.rs
      /\ m.p = l.p /\ m.a = rest
  BY <1>1 DEF ListingRecord
<1>4. listings' = [listings EXCEPT ![o.id] = m]
  BY <1>1 DEF ListingsTyped, rest, ListingRecord
<1> HIDE DEF m
<1>5. /\ listings' \in [ListingIds -> ListingRecord] /\ listings'[o.id] = m
      /\ \A id \in ListingIds \ {o.id} : listings'[id] = listings[id]
  BY <1>1, <1>3, <1>4 DEF ListingsTyped
<1>6. ListingsTyped' /\ BundlesTyped'
  BY <1>5 DEF ListingsTyped, BundlesTyped
<1>7. Growing
  <2>1. nextListingId' \in Nat /\ nextBundleId' \in Nat
        /\ nextListingId' >= nextListingId /\ nextBundleId' >= nextBundleId
    BY CountsType
  <2>2. \A id \in ListingIds :
          /\ listings'[id].s = listings[id].s /\ listings'[id].pt = listings[id].pt
          /\ listings'[id].fb = listings[id].fb /\ listings'[id].rs = listings[id].rs
    BY <1>3, <1>5
  <2> QED
    BY <2>1, <2>2 DEF Growing
<1>8. ASSUME NEW id \in ListingIds
      PROVE  listings'[id].p * listings'[id].a <= listings[id].p * listings[id].a
  <2> DEFINE p == listings[id].p
             a == listings[id].a
             a2 == listings'[id].a
  <2>1. listings[id] \in ListingRecord /\ listings'[id] \in ListingRecord
    BY <1>5 DEF ListingsTyped
  <2>2. p \in Nat /\ a \in Nat /\ a2 \in Nat
    BY <2>1 DEF ListingRecord
  <2>3. listings'[id].p = p /\ a2 <= a
    <3>1. CASE id = o.id
      <4>1. rest <= l.a
        <5> DEFINE la == l.a
                   u == Units(o)
        <5>1. rest = la - u /\ la \in Nat /\ u \in Nat
          BY <1>1
        <5> HIDE DEF la, u
        <5> QED
          BY <5>1 DEF la
      <4> QED
        BY <1>3, <1>5, <3>1, <4>1
    <3>2. CASE id # o.id
      <4>1. a <= a
        BY <2>2
      <4> QED
        BY <1>5, <3>2, <4>1
    <3> QED
      BY <3>1, <3>2
  <2> HIDE DEF p, a, a2
  <2>4. p * a2 <= p * a
    BY <2>2, <2>3, ProductOrdered
  <2> QED
    BY <2>3, <2>4 DEF p, a, a2
<1> QED
  BY <1>2, <1>5, <1>6, <1>7, <1>8 DEF CostsFall, m, rest

(* The order whose turn it is. *)
Ordered == Top.orders[Top.at + 1]

(* A sweep's frame with its next order taken is still a sweep's frame: what *)
(* the order costs has been one of the costs to come.                       *)
LEMMA SweepTakes ==
  ASSUME ListingsTyped, NEW f \in Frame, NEW h \in Frame, NEW o \in Order,
         SweepFits(f, listings, nextListingId), f.at < Len(f.orders),
         o = f.orders[f.at + 1], Orderable(f.by, o), f.sweep,
         h.orders = f.orders, h.at = f.at + 1,
         h.bill = Charged(f.bill, listings[o.id].pt, Cost(o), f.sweep)
  PROVE  SweepFits(h, listings, nextListingId)
<1> DEFINE t == listings[f.orders[1].id].pt
           at == f.at
           L == listings
           cost == Cost(o)
           b == Charged(f.bill, t, cost, f.sweep)
<1>1. /\ f.orders # <<>>
      /\ \A k \in DOMAIN f.orders :
           /\ f.orders[k].id < nextListingId /\ f.orders[k].n = Whole
           /\ L[f.orders[k].id].pt = t
      /\ \A u \in Tokens \ {t} : f.bill.cost[u] = 0
      /\ ~f.bill.raised => f.bill.cost[t] + ToCome(f.orders, at, L) <= f.bill.budget
  BY DEF SweepFits
<1>2. /\ f.orders \in Seq(Order) /\ at \in Nat /\ f.bill \in Bill
      /\ f.bill.cost \in [Tokens -> Nat] /\ f.bill.budget \in Nat
  BY FrameParts
<1>3. at + 1 \in DOMAIN f.orders
  BY <1>2
<1>4. o.n = Whole /\ L[o.id].pt = t
  BY <1>1, <1>3
<1>5. /\ cost \in Nat /\ cost = CostAt(f.orders, at + 1, L)
  BY <1>4, OrderAsks DEF CostAt
<1>6. t \in Tokens /\ cost \in Nat /\ f.sweep \in BOOLEAN
  BY <1>5, SweepKnows, FrameParts DEF ListingsTyped
<1>7. h.bill = b
  BY <1>4
<1> HIDE DEF cost, t
<1>8. /\ b \in Bill /\ b.budget = f.bill.budget /\ b.raised = f.bill.raised
      /\ b.cost[t] = f.bill.cost[t] + (IF f.sweep THEN cost ELSE 0)
      /\ \A u \in Tokens \ {t} : b.cost[u] = f.bill.cost[u]
  <2> DEFINE c == f.bill
             y == f.sweep
  <2>1. c \in Bill /\ t \in Tokens /\ cost \in Nat /\ y \in BOOLEAN /\ b = Charged(c, t, cost, y)
    BY <1>2, <1>6
  <2> HIDE DEF b, c, y
  <2>2. /\ b \in Bill /\ b.budget = c.budget /\ b.raised = c.raised
        /\ b.cost[t] = c.cost[t] + (IF y THEN cost ELSE 0)
        /\ \A u \in Tokens \ {t} : b.cost[u] = c.cost[u]
    BY <2>1, BillGrows
  <2> QED
    BY <2>2 DEF c, y
<1> HIDE DEF b
<1>9. /\ ToCome(f.orders, at, L) \in Nat /\ ToCome(f.orders, at + 1, L) \in Nat
      /\ ToCome(f.orders, at, L) = ToCome(f.orders, at + 1, L) + cost
  BY <1>2, <1>5, ToComeNext DEF ListingsTyped
<1>10. ~h.bill.raised => h.bill.cost[t] + ToCome(h.orders, h.at, L) <= h.bill.budget
  <2> DEFINE c == f.bill.cost[t]
             g == f.bill.budget
             x == ToCome(f.orders, at, L)
             y == ToCome(f.orders, at + 1, L)
  <2>1. /\ c \in Nat /\ g \in Nat /\ x \in Nat /\ y \in Nat /\ x = y + cost
        /\ ~f.bill.raised => c + x <= g
    BY <1>1, <1>2, <1>6, <1>9
  <2>2. h.bill.cost[t] = c + cost /\ h.bill.budget = g /\ h.bill.raised = f.bill.raised
    BY <1>7, <1>8
  <2>3. ToCome(h.orders, h.at, L) = y
    OBVIOUS
  <2> HIDE DEF c, g, x, y
  <2>4. ~f.bill.raised => c + cost + y <= g
    BY <1>6, <2>1
  <2> QED
    BY <2>2, <2>3, <2>4
<1>11. \A u \in Tokens \ {t} : h.bill.cost[u] = 0
  BY <1>1, <1>7, <1>8
<1> QED
  BY <1>1, <1>10, <1>11 DEF SweepFits, t

(* The next order has its turn. *)
LEMMA NextOrderCore ==
  ASSUME CoreOK, ListedActive, NextOrder, UNCHANGED <<bundles, nextBundleId, buyers>>
  PROVE  /\ CoreOK'
         /\ Ordered \in Order /\ Orderable(Top.by, Ordered)
         /\ \A id :
              /\ Weighed(FlightWeight(id), calls) \in Nat
              /\ Weighed(FlightWeight(id), calls') \in Nat
              /\ Weighed(FlightWeight(id), calls')
                   = Weighed(FlightWeight(id), calls)
                       + (IF id = Ordered.id THEN Units(Ordered) ELSE 0)
         /\ \A op, id :
              /\ Weighed(UnloggedWeight(op, id), calls) \in Nat
              /\ Weighed(UnloggedWeight(op, id), calls') \in Nat
              /\ Weighed(UnloggedWeight(op, id), calls')
                   = Weighed(UnloggedWeight(op, id), calls)
                       + (IF op = "listing" /\ id = Ordered.id THEN Units(Ordered) ELSE 0)
<1> DEFINE f == Top
           o == f.orders[f.at + 1]
           h == Buying(f, o)
           b == Charged(f.bill, listings[o.id].pt, Cost(o), f.sweep)
<1>1. /\ ~Idle /\ f.op = "listing" /\ Head(f.todo) = "next" /\ Orderable(f.by, o)
      /\ listings' = [listings EXCEPT ![o.id].a = Remaining(o),
                                      ![o.id].act = @ /\ Remaining(o) # 0]
      /\ calls' = Append(Outer, h)
      /\ UNCHANGED <<marketVars, nextListingId, approved, pool, nft>>
  BY DEF NextOrder, InProgress
<1>2. f \in Frame /\ FitsNow(f) /\ Outer \in Seq(Frame)
  BY <1>1, TopFits
<1>3. /\ ListingsTyped /\ BundlesTyped /\ pool \in [Tokens -> Nat] /\ GoodsTyped
  BY DEF CoreOK, GoodsTyped
<1>4. /\ OrderFits(f, listings, nextListingId)
      /\ f.sweep => SweepFits(f, listings, nextListingId)
  BY <1>1, <1>2 DEF FitsNow, FrameFits
<1>5. f.orders \in Seq(Order) /\ f.at \in Nat /\ f.sweep \in BOOLEAN
  BY <1>2, FrameParts
<1>6. f.at < Len(f.orders)
  <2>1. f.todo = <<"next">>
    BY <1>1, <1>2, <1>3, FrameStages
  <2>2. "next" \in ToSet(<<"next">>)
    BY DEF ToSet
  <2> QED
    BY <1>4, <2>1, <2>2 DEF OrderFits
<1>7. o \in Order
  BY <1>5, <1>6
<1> HIDE DEF f
<1>8. /\ ListingsTyped' /\ BundlesTyped' /\ Growing /\ CostsFall /\ o.id < nextListingId
  <2> HIDE DEF o
  <2> QED
    BY <1>1, <1>3, <1>7, OrderTaken
<1>9. /\ o.id \in ListingIds /\ Units(o) \in Nat /\ f.by # listings[o.id].s
      /\ listings[o.id] \in ListingRecord
  <2> HIDE DEF o
  <2> QED
    BY <1>1, <1>3, <1>7, OrderAsks
<1> HIDE DEF o
<1>10. /\ h \in Frame
       /\ h.op = "listing" /\ h.id = o.id /\ h.by = f.by
       /\ h.n = Units(o) /\ h.pt = listings[o.id].pt
       /\ h.fb = listings[o.id].fb /\ h.rs = listings[o.id].rs
       /\ h.before = pool[listings[o.id].pt]
       /\ h.orders = f.orders /\ h.at = f.at + 1
       /\ h.sweep = f.sweep /\ h.bill = b
       /\ h.todo = IF f.at + 1 < Len(f.orders) THEN <<"pay", "deliver", "payout", "next">>
                   ELSE <<"pay", "deliver", "payout">>
  BY <1>1, <1>2, <1>3, <1>6, <1>7, BuyingFields
<1> HIDE DEF h
<1>11. h.todo \in OrderTodos /\ Head(h.todo) = "pay"
       /\ ("next" \in ToSet(h.todo) => h.at < Len(h.orders))
  <2>1. CASE f.at + 1 < Len(f.orders)
    <3>1. /\ h.todo = <<"pay", "deliver", "payout", "next">> /\ h.at < Len(h.orders)
      BY <1>10, <2>1
    <3>2. Head(<<"pay", "deliver", "payout", "next">>) = "pay"
      OBVIOUS
    <3> QED
      BY <3>1, <3>2 DEF OrderTodos
  <2>2. CASE ~(f.at + 1 < Len(f.orders))
    <3>1. /\ h.todo = <<"pay", "deliver", "payout">>
      BY <1>10, <2>2
    <3>2. Head(<<"pay", "deliver", "payout">>) = "pay"
      OBVIOUS
    <3>3. "next" \notin ToSet(<<"pay", "deliver", "payout">>)
      BY DEF ToSet
    <3> QED
      BY <3>1, <3>2, <3>3 DEF OrderTodos
  <2> QED
    BY <2>1, <2>2
<1>12. OrderFits(h, listings, nextListingId)
  <2>1. h.at # 0
    BY <1>5, <1>10
  <2> QED
    BY <1>8, <1>9, <1>10, <1>11, <2>1 DEF OrderFits
<1>13. h.sweep => SweepFits(h, listings, nextListingId)
  BY <1>1, <1>2, <1>3, <1>4, <1>6, <1>7, <1>10, SweepTakes DEF o
<1>14. FitsNow(h)
  BY <1>10, <1>12, <1>13 DEF FitsNow, FrameFits
<1>15. FitsNext(h)
  BY <1>3, <1>8, <1>10, <1>14, FitsGrow, SweepsFall
<1>16. ASSUME NEW t
       PROVE  HeldWeight(t)[f] = 0 /\ HeldWeight(t)[h] = 0
  <2>1. HeldWeight(t)[f] = 0
    BY <1>1, <1>2, <1>3, WeightAtStage
  <2>2. HeldWeight(t)[h] = 0
    BY <1>3, <1>10, <1>11, <1>14, WeightAtStage
  <2> QED
    BY <2>1, <2>2
<1>17. ASSUME NEW op, NEW id
       PROVE  /\ UnloggedWeight(op, id)[f] = 0
              /\ UnloggedWeight(op, id)[h]
                   = IF op = "listing" /\ id = o.id THEN Units(o) ELSE 0
  <2>1. UnloggedWeight(op, id)[f] = 0
    <3>1. UnloggedWeight(op, id)[f] =
            IF f.op = op /\ f.id = id /\ Head(f.todo) # "next" THEN f.n ELSE 0
      BY <1>2, <1>3, WeightAtStage
    <3> QED
      BY <1>1, <3>1
  <2>2. UnloggedWeight(op, id)[h] =
          IF h.op = op /\ h.id = id /\ Head(h.todo) # "next" THEN h.n ELSE 0
    BY <1>3, <1>10, <1>14, WeightAtStage
  <2> QED
    BY <1>10, <1>11, <2>1, <2>2
<1>18. ASSUME NEW id
       PROVE  /\ FlightWeight(id)[f] = 0
              /\ FlightWeight(id)[h] = IF id = o.id THEN Units(o) ELSE 0
  <2>1. FlightWeight(id)[f] = 0
    BY <1>1, <1>2, <1>3, WeightAtStage
  <2>2. FlightWeight(id)[h] =
          IF h.op = "listing" /\ h.id = id /\ Head(h.todo) \in {"pay", "deliver"}
          THEN h.n ELSE 0
    BY <1>3, <1>10, <1>14, WeightAtStage
  <2> QED
    BY <1>10, <1>11, <2>1, <2>2
<1>19. h.pt \in Tokens
  BY <1>10, FrameParts
<1>20. h.before = Weighed(HeldWeight(h.pt), Outer)
  <2> DEFINE on == TRUE
             V == HeldWeight(h.pt)
  <2>1. /\ on \in BOOLEAN /\ calls' = (IF on THEN Append(Outer, h) ELSE Outer)
        /\ V \in [Frame -> Nat] /\ CallsTyped /\ V[f] = 0
    BY <1>1, <1>16, HeldType DEF CoreOK, StackOK
  <2>2. pool[h.pt] = Weighed(V, calls)
    BY <1>19 DEF CoreOK, StackOK, HoldingsOK
  <2> HIDE DEF on, V
  <2>3. Weighed(V, Outer) \in Nat /\ Weighed(V, calls) = Weighed(V, Outer) + V[Top]
    BY <1>1, <1>10, <2>1, TurnWeighs
  <2> QED
    BY <1>10, <2>1, <2>2, <2>3 DEF V, f
<1>21. StackOK'
  <2> DEFINE on == TRUE
  <2>1. \A t \in Tokens :
          pool'[t] = pool[t] - HeldWeight(t)[f] + (IF on THEN HeldWeight(t)[h] ELSE 0)
    <3> SUFFICES ASSUME NEW t \in Tokens
                 PROVE  pool'[t] = pool[t] - HeldWeight(t)[f] + HeldWeight(t)[h]
      OBVIOUS
    <3>1. pool[t] \in Nat
      BY <1>3
    <3> QED
      BY <1>1, <1>16, <3>1
  <2>2. /\ on \in BOOLEAN /\ calls' = (IF on THEN Append(Outer, h) ELSE Outer)
        /\ (on => FitsNext(h))
        /\ (on /\ Head(h.todo) = "pay" => h.before = Weighed(HeldWeight(h.pt), Outer))
    BY <1>1, <1>15, <1>20
  <2> HIDE DEF on
  <2> QED
    BY <1>1, <1>8, <1>10, <2>1, <2>2, StackGoesOn DEF f
<1>22. CoreOK'
  <2>1. MarketInv' /\ GoodsTyped'
    BY <1>1, <1>3, UnchangedMarketInv DEF CoreOK, GoodsTyped
  <2> QED
    BY <1>8, <1>21, <2>1 DEF CoreOK
<1>23. ASSUME NEW id
       PROVE  /\ Weighed(FlightWeight(id), calls) \in Nat
              /\ Weighed(FlightWeight(id), calls') \in Nat
              /\ Weighed(FlightWeight(id), calls')
                   = Weighed(FlightWeight(id), calls) + (IF id = o.id THEN Units(o) ELSE 0)
  <2> DEFINE V == FlightWeight(id)
  <2>1. V \in [Frame -> Nat] /\ V[f] = 0 /\ V[h] = IF id = o.id THEN Units(o) ELSE 0
    BY <1>18, FlightType
  <2> HIDE DEF V
  <2>2. /\ Weighed(V, calls) \in Nat /\ Weighed(V, calls') \in Nat
        /\ Weighed(V, calls') = Weighed(V, calls) + V[h]
    BY <1>1, <1>10, <2>1, TurnAddsWeight DEF f
  <2> QED
    BY <2>1, <2>2 DEF V
<1>24. ASSUME NEW op, NEW id
       PROVE  /\ Weighed(UnloggedWeight(op, id), calls) \in Nat
              /\ Weighed(UnloggedWeight(op, id), calls') \in Nat
              /\ Weighed(UnloggedWeight(op, id), calls')
                   = Weighed(UnloggedWeight(op, id), calls)
                       + (IF op = "listing" /\ id = o.id THEN Units(o) ELSE 0)
  <2> DEFINE V == UnloggedWeight(op, id)
  <2>1. /\ V \in [Frame -> Nat] /\ V[f] = 0
        /\ V[h] = IF op = "listing" /\ id = o.id THEN Units(o) ELSE 0
    BY <1>17, UnloggedType
  <2> HIDE DEF V
  <2>2. /\ Weighed(V, calls) \in Nat /\ Weighed(V, calls') \in Nat
        /\ Weighed(V, calls') = Weighed(V, calls) + V[h]
    BY <1>1, <1>10, <2>1, TurnAddsWeight DEF f
  <2> QED
    BY <2>1, <2>2 DEF V
<1>25. Ordered = o /\ Top.by = f.by
  BY DEF Ordered, o, f
<1> QED
  BY <1>1, <1>7, <1>22, <1>23, <1>24, <1>25

(* A list of arguments is a sequence. *)
LEMMA ListsAreSeqs ==
  ASSUME NEW S, NEW list \in ListsOf(S)
  PROVE  /\ list \in Seq(S) /\ Len(list) \in 1 .. MaxOrders /\ Len(list) \in Nat
         /\ DOMAIN list = 1 .. Len(list) /\ list # <<>>
<1>1. PICK n \in 1 .. MaxOrders : list \in [1 .. n -> S]
  BY DEF ListsOf
<1>2. n \in Nat /\ n >= 1
  BY <1>1, ListingAssumption
<1>3. list \in Seq(S) /\ DOMAIN list = 1 .. n
  BY <1>1, <1>2, SeqDef
<1>4. DOMAIN list = 1 .. Len(list) /\ Len(list) \in Nat
  BY <1>3, LenProperties
<1>5. Len(list) = n
  <2> DEFINE m == Len(list)
  <2>1. 1 .. m = 1 .. n /\ m \in Nat
    BY <1>3, <1>4
  <2> HIDE DEF m
  <2>2. m = n
    BY <1>2, <2>1
  <2> QED
    BY <2>2 DEF m
<1>6. list # <<>>
  BY <1>2, <1>3, <1>5
<1> QED
  BY <1>1, <1>3, <1>4, <1>5, <1>6

(* A step that only puts a purchase of known listings on the stack. *)
LEMMA BeginCore ==
  ASSUME CoreOK, OffersSame, NEW g \in Frame, Begin(g),
         g.op = "listing", g.todo = <<"next">>, FitsNow(g)
  PROVE  CoreOK' /\ FlightsSame /\ UnloggedSame
<1>1. /\ Enter(g) /\ UNCHANGED marketVars
      /\ approved' = approved /\ pool' = pool /\ nft' = nft
  BY DEF Begin
<1>2. /\ ListingsTyped /\ BundlesTyped /\ GoodsTyped
      /\ ListingsTyped' /\ BundlesTyped' /\ Growing /\ CostsFall
  BY NothingGrows DEF CoreOK, OffersSame
<1>3. FitsNext(g)
  BY <1>2, FitsGrow, SweepsFall
<1>4. Head(g.todo) = "next"
  <2>1. Head(<<"next">>) = "next"
    OBVIOUS
  <2> QED
    BY <2>1
<1>5. ASSUME NEW t
      PROVE  HeldWeight(t)[g] = 0
  BY <1>2, <1>4, WeightAtStage
<1>6. ASSUME NEW op, NEW id
      PROVE  UnloggedWeight(op, id)[g] = 0
  <2>1. UnloggedWeight(op, id)[g] =
          IF g.op = op /\ g.id = id /\ Head(g.todo) # "next" THEN g.n ELSE 0
    BY <1>2, WeightAtStage
  <2> QED
    BY <1>4, <2>1
<1>7. ASSUME NEW id
      PROVE  FlightWeight(id)[g] = 0
  <2>1. FlightWeight(id)[g] =
          IF g.op = "listing" /\ g.id = id /\ Head(g.todo) \in {"pay", "deliver"}
          THEN g.n ELSE 0
    BY <1>2, WeightAtStage
  <2> QED
    BY <1>4, <2>1
<1>8. StackOK'
  BY <1>1, <1>2, <1>3, <1>4, <1>5, StackEnters
<1>9. CoreOK'
  <2>1. GoodsTyped'
    BY <1>1, <1>2 DEF GoodsTyped
  <2> QED
    BY <1>1, <1>8, <2>1, CoreFromStack
<1>10. calls' = Append(calls, g)
  BY <1>1 DEF Enter
<1>11. FlightsSame
  <2> SUFFICES ASSUME NEW id
               PROVE  Weighed(FlightWeight(id), calls') = Weighed(FlightWeight(id), calls)
    BY DEF FlightsSame
  <2> DEFINE V == FlightWeight(id)
  <2>1. V \in [Frame -> Nat] /\ V[g] = 0
    BY <1>7, FlightType
  <2> HIDE DEF V
  <2>2. Weighed(V, calls) \in Nat /\ Weighed(V, calls') = Weighed(V, calls) + V[g]
    BY <1>10, <2>1, EntersAddsWeight
  <2> QED
    BY <2>1, <2>2 DEF V
<1>12. UnloggedSame
  <2> SUFFICES ASSUME NEW op, NEW id
               PROVE  Weighed(UnloggedWeight(op, id), calls')
                        = Weighed(UnloggedWeight(op, id), calls)
    BY DEF UnloggedSame
  <2> DEFINE V == UnloggedWeight(op, id)
  <2>1. V \in [Frame -> Nat] /\ V[g] = 0
    BY <1>6, UnloggedType
  <2> HIDE DEF V
  <2>2. Weighed(V, calls) \in Nat /\ Weighed(V, calls') = Weighed(V, calls) + V[g]
    BY <1>10, <2>1, EntersAddsWeight
  <2> QED
    BY <2>1, <2>2 DEF V
<1> QED
  BY <1>9, <1>11, <1>12

(* An empty bill. *)
LEMMA NoBillType ==
  NoBill \in Bill /\ ~NoBill.raised /\ NoBill.cost = [t \in Tokens |-> 0]
BY DEF NoBill, Bill

(* The frame of a purchase at its beginning. *)
LEMMA StartedFields ==
  ASSUME ListingsTyped, NEW x \in Accounts, NEW orders \in Seq(Order), orders # <<>>
  PROVE  /\ Started(x, orders) \in Frame
         /\ Started(x, orders).op = "listing" /\ Started(x, orders).id = orders[1].id
         /\ Started(x, orders).by = x /\ Started(x, orders).todo = <<"next">>
         /\ Started(x, orders).orders = orders /\ Started(x, orders).at = 0
         /\ Started(x, orders).sweep = FALSE /\ Started(x, orders).bill = NoBill
         /\ orders[1].id \in ListingIds
<1> DEFINE l == listings[orders[1].id]
           c == CollectionOf[l.item]
           todo == <<"next">>
           id == orders[1].id
<1>1. 1 \in DOMAIN orders /\ orders[1] \in Order
  <2>1. Len(orders) \in Nat /\ Len(orders) # 0
    OBVIOUS
  <2> QED
    BY <2>1
<1>2. id \in ListingIds /\ id \in Nat
  BY <1>1, ListingAssumption DEF Order, ListingIds
<1>3. l \in ListingRecord
  BY <1>2 DEF ListingsTyped
<1>4. l.pt \in Tokens /\ l.item \in Items /\ l.fb \in Nat /\ l.rs \in Seq(Split)
  BY <1>3 DEF ListingRecord
<1>5. c \in Contracts
  BY <1>4, CustodyAssumption DEF Contracts
<1>6. todo \in Seq(Stages \cup {"next"})
  OBVIOUS
<1>7. Started(x, orders) =
        [op |-> "listing", id |-> id, by |-> x, payer |-> x, n |-> 0,
         pt |-> l.pt, ask |-> 0, asset |-> c, back |-> c, fb |-> l.fb, rs |-> l.rs,
         before |-> 0, got |-> 0, todo |-> todo, orders |-> orders, at |-> 0,
         sweep |-> FALSE, bill |-> NoBill]
  BY DEF Started, Listing
<1> HIDE DEF c, todo, id, l
<1>8. Started(x, orders) \in Frame
  BY <1>2, <1>4, <1>5, <1>6, <1>7, NoBillType DEF Frame
<1> QED
  BY <1>2, <1>7, <1>8 DEF todo, id

(* buy and batchBuy. *)
LEMMA BatchBuyCore ==
  ASSUME CoreOK, NEW x \in Accounts, NEW orders \in ListsOf(Orders),
         BatchBuy(x, orders), OffersSame
  PROVE  CoreOK' /\ FlightsSame /\ UnloggedSame
<1> DEFINE g == Started(x, orders)
<1>1. orders \in Seq(Order) /\ orders # <<>> /\ Len(orders) \in Nat /\ Len(orders) # 0
  <2>1. orders \in ListsOf(Order)
    BY ListingAssumption DEF ListsOf
  <2> QED
    BY <2>1, ListsAreSeqs
<1>2. ListingsTyped
  BY DEF CoreOK
<1>3. /\ g \in Frame /\ g.op = "listing" /\ g.id = orders[1].id /\ g.todo = <<"next">>
      /\ g.orders = orders /\ g.at = 0 /\ ~g.sweep /\ g.id \in ListingIds
  BY <1>1, <1>2, StartedFields
<1>4. Begin(g)
  BY DEF BatchBuy
<1> HIDE DEF g
<1>5. FitsNow(g)
  <2>1. g.at < Len(g.orders)
    BY <1>1, <1>3
  <2>2. OrderFits(g, listings, nextListingId)
    BY <1>3, <2>1 DEF OrderFits, OrderTodos
  <2> QED
    BY <1>3, <2>2 DEF FitsNow, FrameFits
<1> QED
  BY <1>3, <1>4, <1>5, BeginCore

(* What the first pass adds up is what the orders of the sweep cost. *)
LEMMA FirstPassTotal ==
  ASSUME ListingsTyped, NEW ids \in Seq(ListingIds)
  PROVE  /\ WholeListings(ids) \in Seq(Order) /\ DOMAIN WholeListings(ids) = DOMAIN ids
         /\ Len(WholeListings(ids)) = Len(ids)
         /\ \A k \in DOMAIN ids :
              WholeListings(ids)[k].id = ids[k] /\ WholeListings(ids)[k].n = Whole
         /\ SweepTotal(ids) \in Nat
         /\ SweepTotal(ids) = ToCome(WholeListings(ids), 0, listings)
<1> DEFINE orders == WholeListings(ids)
           n == Len(ids)
<1>1. n \in Nat /\ DOMAIN ids = 1 .. n /\ \A k \in 1 .. n : ids[k] \in ListingIds
  OBVIOUS
<1>2. orders = [k \in 1 .. n |-> [id |-> ids[k], n |-> Whole, cap |-> NoCap]]
  BY <1>1 DEF WholeListings
<1>3. \A k \in 1 .. n : [id |-> ids[k], n |-> Whole, cap |-> NoCap] \in Order
  BY <1>1 DEF Order
<1> HIDE DEF orders, n
<1>4. orders \in [1 .. n -> Order] /\ DOMAIN orders = 1 .. n
  BY <1>2, <1>3
<1>5. orders \in Seq(Order)
  BY <1>1, <1>4, SeqDef
<1>6. Len(orders) = n
  <2> DEFINE m == Len(orders)
  <2>1. DOMAIN orders = 1 .. m /\ m \in Nat
    BY <1>5, LenProperties
  <2>2. 1 .. m = 1 .. n
    BY <1>4, <2>1
  <2> HIDE DEF m
  <2>3. m = n
    BY <1>1, <2>1, <2>2
  <2> QED
    BY <2>3 DEF m
<1>7. \A k \in 1 .. n : orders[k].id = ids[k] /\ orders[k].n = Whole
  BY <1>2
<1>8. ASSUME NEW k \in 1 .. n
      PROVE  Cost(orders[k]) = listings[orders[k].id].p * listings[orders[k].id].a
  BY <1>7 DEF Cost, Units, Listing
<1>9. SweepTotal(ids) = ToCome(orders, 0, listings)
  <2> DEFINE f == [k \in DOMAIN ids |-> IF TRUE THEN Cost(orders[k]) ELSE 0]
             c == Coming(orders, 0, listings)
  <2>1. SweepTotal(ids) = Total(f)
    BY DEF SweepTotal, SumOver, orders
  <2>2. ToCome(orders, 0, listings) = Total(c)
    BY DEF ToCome
  <2>3. f = c
    <3>1. \A k \in 1 .. n : k > 0
      BY <1>1
    <3> QED
      BY <1>1, <1>4, <1>8, <3>1 DEF Coming
  <2> HIDE DEF f, c
  <2> QED
    BY <2>1, <2>2, <2>3
<1>10. SweepTotal(ids) \in Nat
  <2>1. 0 \in Nat
    OBVIOUS
  <2>2. ToCome(orders, 0, listings) \in Nat
    BY <1>5, <2>1, ComingCosts DEF ListingsTyped
  <2> QED
    BY <1>9, <2>2
<1> QED
  BY <1>1, <1>4, <1>5, <1>6, <1>7, <1>9, <1>10 DEF orders, n

(* A purchase turned into a sweep. *)
Sweeping(f, budget, total) ==
  [f EXCEPT !.sweep = TRUE, !.bill.budget = budget, !.bill.total = total]

(* It is as it was otherwise. *)
LEMMA SweepingFields ==
  ASSUME NEW f \in Frame, NEW budget \in Nat, NEW total \in Nat
  PROVE  /\ Sweeping(f, budget, total) \in Frame
         /\ Sweeping(f, budget, total).op = f.op /\ Sweeping(f, budget, total).id = f.id
         /\ Sweeping(f, budget, total).todo = f.todo
         /\ Sweeping(f, budget, total).orders = f.orders
         /\ Sweeping(f, budget, total).at = f.at
         /\ Sweeping(f, budget, total).sweep = TRUE
         /\ Sweeping(f, budget, total).bill.budget = budget
         /\ Sweeping(f, budget, total).bill.cost = f.bill.cost
         /\ Sweeping(f, budget, total).bill.raised = f.bill.raised
<1> DEFINE b == [f.bill EXCEPT !.budget = budget, !.total = total]
<1>1. f.bill \in Bill
  BY FrameParts
<1>2. /\ b \in Bill /\ b.budget = budget /\ b.cost = f.bill.cost
      /\ b.raised = f.bill.raised
  BY <1>1 DEF Bill
<1>3. Sweeping(f, budget, total) = [f EXCEPT !.sweep = TRUE, !.bill = b]
  BY <1>1 DEF Sweeping, Frame, Bill
<1> HIDE DEF b
<1> DEFINE g == [f EXCEPT !.sweep = TRUE, !.bill = b]
<1>4. /\ g \in Frame /\ g.op = f.op /\ g.id = f.id /\ g.todo = f.todo
      /\ g.orders = f.orders /\ g.at = f.at /\ g.sweep = TRUE /\ g.bill = b
  BY <1>2 DEF Frame
<1> HIDE DEF g
<1>5. Sweeping(f, budget, total) = g
  BY <1>3 DEF g
<1> QED
  BY <1>2, <1>4, <1>5

(* sweep. *)
LEMMA SweepCore ==
  ASSUME CoreOK, ListedActive, NEW x \in Accounts, NEW c, NEW ids \in ListsOf(ListingIds),
         NEW budget \in Budgets, Sweep(x, c, ids, budget), OffersSame
  PROVE  CoreOK' /\ FlightsSame /\ UnloggedSame
<1> DEFINE orders == WholeListings(ids)
           f == Started(x, orders)
           g == Sweeping(f, budget, SweepTotal(ids))
           t == listings[orders[1].id].pt
<1>1. /\ ids \in Seq(ListingIds) /\ Len(ids) \in Nat /\ DOMAIN ids = 1 .. Len(ids)
      /\ Len(ids) \in 1 .. MaxOrders
  BY ListsAreSeqs
<1>2. ListingsTyped /\ budget \in Nat
  BY ListingAssumption DEF CoreOK
<1>3. /\ orders \in Seq(Order) /\ DOMAIN orders = DOMAIN ids /\ Len(orders) = Len(ids)
      /\ \A k \in DOMAIN ids : orders[k].id = ids[k] /\ orders[k].n = Whole
      /\ SweepTotal(ids) \in Nat /\ SweepTotal(ids) = ToCome(orders, 0, listings)
  BY <1>1, <1>2, FirstPassTotal
<1>4. /\ \A k \in DOMAIN ids : listings[ids[k]].act /\ listings[ids[k]].pt = listings[ids[1]].pt
      /\ SweepTotal(ids) <= budget /\ Begin(g)
  BY DEF Sweep, FirstPass, Listing, Sweeping
<1> HIDE DEF orders
<1>5. orders # <<>> /\ Len(orders) >= 1 /\ 1 \in DOMAIN ids
  <2>1. Len(ids) >= 1 /\ Len(ids) \in Nat
    BY <1>1, ListingAssumption
  <2> QED
    BY <1>1, <1>3, <2>1
<1>6. /\ f \in Frame /\ f.op = "listing" /\ f.id = orders[1].id /\ f.todo = <<"next">>
      /\ f.orders = orders /\ f.at = 0 /\ f.bill = NoBill /\ f.id \in ListingIds
  BY <1>2, <1>3, <1>5, StartedFields
<1> HIDE DEF f
<1>7. /\ g \in Frame /\ g.op = "listing" /\ g.id = f.id /\ g.todo = <<"next">>
      /\ g.orders = orders /\ g.at = 0 /\ g.sweep /\ g.id \in ListingIds
      /\ g.bill.budget = budget /\ g.bill.cost = [u \in Tokens |-> 0]
  <2> DEFINE total == SweepTotal(ids)
  <2>1. total \in Nat /\ g = Sweeping(f, budget, total)
    BY <1>3
  <2> HIDE DEF total, g
  <2>2. /\ g \in Frame /\ g.op = f.op /\ g.id = f.id /\ g.todo = f.todo
        /\ g.orders = f.orders /\ g.at = f.at /\ g.sweep = TRUE
        /\ g.bill.budget = budget /\ g.bill.cost = f.bill.cost
    <3> DEFINE e == Sweeping(f, budget, total)
    <3>1. budget \in Nat /\ f \in Frame /\ total \in Nat
      BY <1>2, <1>6, <2>1
    <3>2. /\ e \in Frame /\ e.op = f.op /\ e.id = f.id /\ e.todo = f.todo
          /\ e.orders = f.orders /\ e.at = f.at /\ e.sweep = TRUE
      BY <3>1, SweepingFields
    <3>3. e.bill.budget = budget /\ e.bill.cost = f.bill.cost
      BY <3>1, SweepingFields
    <3> HIDE DEF e
    <3>4. g = e
      BY <2>1 DEF e
    <3> QED
      BY <3>2, <3>3, <3>4
  <2> QED
    BY <1>6, <2>2, NoBillType
<1> HIDE DEF g
<1>8. OrderFits(g, listings, nextListingId)
  <2>1. g.at < Len(g.orders)
    BY <1>5, <1>7
  <2> QED
    BY <1>7, <2>1 DEF OrderFits, OrderTodos
<1>9. SweepFits(g, listings, nextListingId)
  <2>1. ASSUME NEW k \in DOMAIN orders
        PROVE  /\ orders[k].id < nextListingId /\ orders[k].n = Whole
               /\ listings[orders[k].id].pt = t
    <3>1. ids[k] \in ListingIds /\ orders[k].id = ids[k] /\ orders[k].n = Whole
      BY <1>1, <1>3
    <3>2. orders[1].id = ids[1]
      BY <1>3, <1>5
    <3> QED
      BY <1>3, <1>4, <3>1, <3>2 DEF ListedActive
  <2>2. t \in Tokens
    <3>1. listings[orders[1].id] \in ListingRecord
      BY <1>2, <1>6 DEF ListingsTyped
    <3> QED
      BY <3>1 DEF ListingRecord
  <2>3. g.bill.cost[t] = 0 /\ \A u \in Tokens \ {t} : g.bill.cost[u] = 0
    BY <1>7, <2>2
  <2> DEFINE z == ToCome(orders, 0, listings)
  <2>4. ToCome(g.orders, g.at, listings) = z /\ z \in Nat /\ z <= budget
    BY <1>3, <1>4, <1>7
  <2> HIDE DEF z
  <2>5. g.bill.cost[t] + ToCome(g.orders, g.at, listings) <= g.bill.budget
    BY <1>7, <2>3, <2>4
  <2> QED
    BY <1>5, <1>7, <2>1, <2>3, <2>5 DEF SweepFits
<1>10. FitsNow(g)
  BY <1>7, <1>8, <1>9 DEF FitsNow, FrameFits
<1> QED
  BY <1>4, <1>7, <1>10, BeginCore

(* A bundle when it is taken off. *)
LEMMA ClosedBundle ==
  ASSUME BundlesTyped, NEW id \in BundleIds, bundles' = Closed(id)
  PROVE  /\ bundles' \in [BundleIds -> BundleRecord]
         /\ ~bundles'[id].act
         /\ \A j \in BundleIds \ {id} : bundles'[j] = bundles[j]
         /\ \A j \in BundleIds :
              /\ bundles'[j].its = bundles[j].its /\ bundles'[j].s = bundles[j].s
              /\ bundles'[j].fb = bundles[j].fb /\ bundles'[j].rs = bundles[j].rs
              /\ bundles'[j].nc = bundles[j].nc /\ bundles'[j].p = bundles[j].p
<1> DEFINE b == bundles[id]
           b2 == [b EXCEPT !.act = FALSE]
<1>1. bundles \in [BundleIds -> BundleRecord] /\ b \in BundleRecord
  BY DEF BundlesTyped
<1>2. bundles' = [bundles EXCEPT ![id] = b2]
  BY DEF Closed
<1>3. /\ b2 \in BundleRecord /\ ~b2.act /\ b2.nc = b.nc /\ b2.p = b.p
      /\ b2.its = b.its /\ b2.s = b.s /\ b2.fb = b.fb /\ b2.rs = b.rs
  BY <1>1 DEF BundleRecord
<1> HIDE DEF b2
<1>4. /\ bundles' \in [BundleIds -> BundleRecord] /\ bundles'[id] = b2
      /\ \A j \in BundleIds \ {id} : bundles'[j] = bundles[j]
  BY <1>1, <1>2, <1>3
<1> QED
  BY <1>3, <1>4

(* buyBundle. *)
LEMMA BuyBundleCore ==
  ASSUME CoreOK, BundledActive, NEW x \in Accounts, NEW id \in BundleIds, BuyBundle(x, id)
  PROVE  /\ CoreOK' /\ FlightsSame
         /\ buyers[id] = <<>> /\ buyers' = [buyers EXCEPT ![id] = <<x>>]
         /\ calls \in Seq(Frame)
         /\ \E g \in Frame : /\ calls' = Append(calls, g) /\ g.op = "bundle"
                             /\ g.id = id /\ g.by = x /\ g.at = 0
         /\ \A op, j :
              /\ Weighed(UnloggedWeight(op, j), calls) \in Nat
              /\ Weighed(UnloggedWeight(op, j), calls') \in Nat
              /\ Weighed(UnloggedWeight(op, j), calls')
                   = Weighed(UnloggedWeight(op, j), calls)
                       + (IF op = "bundle" /\ j = id THEN 1 ELSE 0)
<1> DEFINE b == bundles[id]
           m == Len(b.its)
           todo == BundleCalls(b)
           before == pool[b.pt]
           g == [op |-> "bundle", id |-> id, by |-> x, payer |-> x, n |-> 1,
                 pt |-> b.pt, ask |-> b.p, asset |-> b.nc, back |-> b.nc, fb |-> b.fb,
                 rs |-> b.rs, before |-> before, got |-> 0, todo |-> todo,
                 orders |-> <<>>, at |-> 0, sweep |-> FALSE, bill |-> NoBill]
<1>1. /\ b.act /\ x # b.s /\ bundles' = Closed(id) /\ Enter(g)
      /\ buyers' = [buyers EXCEPT ![id] = Append(@, x)]
      /\ UNCHANGED <<marketVars, listings, nextListingId, approved, pool, nft,
                     nextBundleId>>
  BY DEF BuyBundle, Bundle
<1>2. ListingsTyped /\ BundlesTyped /\ GoodsTyped /\ b \in BundleRecord
  BY DEF CoreOK, BundlesTyped
<1>3. id < nextBundleId /\ buyers[id] = <<>>
  BY <1>1 DEF BundledActive
<1>4. /\ b.pt \in Tokens /\ b.p \in Nat /\ b.nc \in Collections /\ b.fb \in Nat
      /\ b.rs \in Seq(Split) /\ b.its \in Seq(BundleItem) /\ m \in Nat
  <2>1. b.its \in Seq(BundleItem)
    BY <1>2 DEF BundleRecord
  <2> QED
    BY <1>2, <2>1 DEF BundleRecord
<1>5. todo = PayThenGive(m)
  BY <1>4, BundleCallsListed
<1>6. todo \in Seq(Stages \cup {"next"})
  <2>1. PayThenGive(m) \in Seq(Stages)
    BY <1>4, BundleStages
  <2>2. \A s \in Seq(Stages) : s \in Seq(Stages \cup {"next"})
    OBVIOUS
  <2> QED
    BY <1>5, <2>1, <2>2
<1>7. before \in Nat /\ id \in Nat /\ b.nc \in Contracts
  BY <1>2, <1>4, BundleAssumption DEF GoodsTyped, BundleIds, Contracts
<1>8. <<>> \in Seq(Order)
  OBVIOUS
<1>9. /\ g \in Frame /\ g.op = "bundle" /\ g.id = id /\ g.by = x /\ g.n = 1 /\ g.at = 0
      /\ ~g.sweep /\ g.todo = todo /\ g.pt = b.pt /\ g.before = before
  <2> HIDE DEF todo, before, b
  <2> QED
    BY <1>4, <1>6, <1>7, <1>8, NoBillType DEF Frame
<1> HIDE DEF g
<1>10. calls' = Append(calls, g) /\ calls \in Seq(Frame)
  BY <1>1 DEF Enter, CoreOK, StackOK, CallsTyped
<1>11. /\ buyers' = [buyers EXCEPT ![id] = <<x>>] /\ buyers'[id] = <<x>>
       /\ \A j \in BundleIds \ {id} : buyers'[j] = buyers[j]
       /\ buyers' \in [BundleIds -> Seq(Accounts)]
  <2>1. Append(<<>>, x) = <<x>> /\ <<x>> \in Seq(Accounts)
    OBVIOUS
  <2> QED
    BY <1>1, <1>2, <1>3, <2>1 DEF BundlesTyped
<1>12. /\ bundles' \in [BundleIds -> BundleRecord]
       /\ \A j \in BundleIds :
            bundles'[j].its = bundles[j].its /\ bundles'[j].s = bundles[j].s
  BY <1>1, <1>2, ClosedBundle
<1>13. ListingsTyped' /\ BundlesTyped'
  <2>1. ListingsTyped'
    BY <1>1, <1>2 DEF ListingsTyped
  <2>2. BundlesTyped'
    BY <1>1, <1>2, <1>11, <1>12 DEF BundlesTyped
  <2> QED
    BY <2>1, <2>2
<1>14. nextListingId \in Nat /\ nextBundleId \in Nat
  BY <1>2, CountsType
<1>15. Growing
  <2>1. \A j \in BundleIds : buyers[j] # <<>> => buyers'[j] = buyers[j]
    BY <1>3, <1>11
  <2> QED
    BY <1>1, <1>12, <1>14, <2>1 DEF Growing
<1>16. CostsFall
  <2> SUFFICES ASSUME NEW j \in ListingIds
               PROVE  listings'[j].p * listings'[j].a <= listings[j].p * listings[j].a
    BY DEF CostsFall
  <2> DEFINE p == listings[j].p
             a == listings[j].a
  <2>1. listings[j] \in ListingRecord
    BY <1>2 DEF ListingsTyped
  <2>2. p \in Nat /\ a \in Nat
    BY <2>1 DEF ListingRecord
  <2>3. listings'[j].p = p /\ listings'[j].a = a
    BY <1>1
  <2> HIDE DEF p, a
  <2>4. a <= a
    BY <2>2
  <2>5. p * a <= p * a
    BY <2>2, <2>4, ProductOrdered
  <2> QED
    BY <2>3, <2>5 DEF p, a
<1>17. FitsNext(g)
  <2> DEFINE m2 == Len(bundles'[g.id].its)
  <2>1. bundles'[g.id].its = b.its /\ bundles'[g.id].s = b.s
    BY <1>9, <1>12
  <2>2. m2 = m
    BY <2>1
  <2>3. g.at <= m2
    BY <1>4, <1>9, <2>2
  <2>4. g.todo = PayThenGive(m2)
    BY <1>5, <1>9, <2>2
  <2>5. g.by # bundles'[g.id].s
    BY <1>1, <1>9, <2>1
  <2>6. g.id < nextBundleId' /\ g.n = 1 /\ ~g.sweep /\ buyers'[g.id] = <<g.by>>
    BY <1>1, <1>3, <1>9, <1>11
  <2>7. BundleFits(g, bundles', nextBundleId', buyers')
    BY <1>9, <2>3, <2>4, <2>5, <2>6 DEF BundleFits
  <2> QED
    BY <1>9, <2>7 DEF FitsNext, FrameFits
<1>18. /\ "pay" \in ToSet(g.todo) /\ "payout" \in ToSet(g.todo) /\ Head(g.todo) = "pay"
  <2> HIDE DEF m, todo
  <2>1. /\ "pay" \in ToSet(PayThenGive(m)) /\ "payout" \in ToSet(PayThenGive(m))
        /\ Head(PayThenGive(m)) = "pay"
    BY <1>4, BundleStages
  <2> QED
    BY <1>5, <1>9, <2>1
<1>19. /\ \A t : HeldWeight(t)[g] = 0
       /\ \A j : FlightWeight(j)[g] = 0
       /\ \A op, j : UnloggedWeight(op, j)[g] = IF op = "bundle" /\ j = id THEN 1 ELSE 0
  BY <1>9, <1>18 DEF HeldWeight, FlightWeight, UnloggedWeight
<1>20. StackOK'
  <2>1. pool' = pool /\ (Head(g.todo) = "pay" => g.before = pool[g.pt])
    BY <1>1, <1>9
  <2> QED
    BY <1>1, <1>9, <1>13, <1>15, <1>16, <1>17, <1>19, <2>1, StackEnters
<1>21. CoreOK'
  <2>1. MarketInv' /\ GoodsTyped'
    BY <1>1, <1>2, UnchangedMarketInv DEF CoreOK, GoodsTyped
  <2> QED
    BY <1>13, <1>20, <2>1 DEF CoreOK
<1>22. FlightsSame
  <2> SUFFICES ASSUME NEW j
               PROVE  Weighed(FlightWeight(j), calls') = Weighed(FlightWeight(j), calls)
    BY DEF FlightsSame
  <2> DEFINE V == FlightWeight(j)
  <2>1. V \in [Frame -> Nat] /\ V[g] = 0
    BY <1>19, FlightType
  <2> HIDE DEF V
  <2>2. Weighed(V, calls) \in Nat /\ Weighed(V, calls') = Weighed(V, calls) + V[g]
    BY <1>9, <1>10, <2>1, EntersAddsWeight
  <2> QED
    BY <2>1, <2>2 DEF V
<1>23. ASSUME NEW op, NEW j
       PROVE  /\ Weighed(UnloggedWeight(op, j), calls) \in Nat
              /\ Weighed(UnloggedWeight(op, j), calls') \in Nat
              /\ Weighed(UnloggedWeight(op, j), calls')
                   = Weighed(UnloggedWeight(op, j), calls)
                       + (IF op = "bundle" /\ j = id THEN 1 ELSE 0)
  <2> DEFINE V == UnloggedWeight(op, j)
  <2>1. V \in [Frame -> Nat] /\ V[g] = IF op = "bundle" /\ j = id THEN 1 ELSE 0
    BY <1>19, UnloggedType
  <2> HIDE DEF V
  <2>2. /\ Weighed(V, calls) \in Nat /\ Weighed(V, calls') \in Nat
        /\ Weighed(V, calls') = Weighed(V, calls) + V[g]
    BY <1>9, <1>10, <2>1, EntersAddsWeight
  <2> QED
    BY <2>1, <2>2 DEF V
<1> QED
  BY <1>3, <1>9, <1>10, <1>11, <1>21, <1>22, <1>23

(* A step in which no purchase goes on, and nothing changes hands. *)
LEMMA OffersCore ==
  ASSUME CoreOK, MarketInv', ListingsTyped', BundlesTyped', GoodsTyped', Growing, CostsFall,
         UNCHANGED <<calls, pool>>
  PROVE  CoreOK' /\ FlightsSame /\ UnloggedSame
<1>1. StackOK'
  BY StackStays
<1>2. FlightsSame /\ UnloggedSame
  BY DEF FlightsSame, UnloggedSame
<1> QED
  BY <1>1, <1>2 DEF CoreOK

(* One where offers stay as they are, too. *)
LEMMA QuietCore ==
  ASSUME CoreOK, MarketInv', GoodsTyped', OffersSame, UNCHANGED <<calls, pool>>
  PROVE  CoreOK' /\ FlightsSame /\ UnloggedSame
BY OffersCore, NothingGrows DEF CoreOK, OffersSame

(* updateListing is noted in the sweeps that have yet to buy the listing;  *)
(* for the others nothing gets dearer.                                     *)
LEMMA UpdateListingCore ==
  ASSUME CoreOK, NEW id \in ListingIds, NEW p \in UnitPrices, UpdateListing(id, p),
         ListingsTyped', BundlesTyped', Growing, listings'[id].p = p,
         listings'[id].a = listings[id].a,
         \A j \in ListingIds \ {id} : listings'[j] = listings[j]
  PROVE  CoreOK' /\ FlightsSame /\ UnloggedSame
<1> DEFINE dearer(f) == f.sweep /\ p > Listing(id).p /\ StillToBuy(f, id)
           D == [k \in DOMAIN calls |-> dearer(calls[k])]
<1>1. /\ UNCHANGED <<marketVars, approved, pool, nft>>
      /\ calls' = [k \in DOMAIN calls |->
           [calls[k] EXCEPT !.bill.raised = @ \/ dearer(calls[k])]]
  BY DEF UpdateListing
<1>2. calls' = [k \in DOMAIN calls |-> Raise(calls[k], D[k])]
  BY <1>1 DEF Raise
<1>3. /\ ListingsTyped /\ BundlesTyped /\ GoodsTyped /\ CallsTyped
      /\ \A k \in DOMAIN calls : calls[k] \in Frame
  BY DEF CoreOK, StackOK, CallsTyped
<1>4. D \in [DOMAIN calls -> BOOLEAN]
  <2>1. ASSUME NEW k \in DOMAIN calls
        PROVE  dearer(calls[k]) \in BOOLEAN
    <3>1. calls[k].sweep \in BOOLEAN
      BY <1>3, FrameParts
    <3> QED
      BY <3>1
  <2> HIDE DEF dearer
  <2> QED
    BY <2>1
<1>5. ASSUME NEW k \in DOMAIN calls, FitsNow(calls[k])
      PROVE  FallsFor(Raise(calls[k], D[k]))
  <2> DEFINE f == calls[k]
             d == D[k]
             g == Raise(f, d)
  <2>1. f \in Frame /\ d \in BOOLEAN
    BY <1>3, <1>4
  <2>2. d = dearer(f)
    OBVIOUS
  <2> HIDE DEF f, d, D
  <2>3. /\ g.orders = f.orders /\ g.at = f.at /\ g.sweep = f.sweep
        /\ g.bill.raised = (f.bill.raised \/ d)
    BY <2>1, RaiseFields
  <2> HIDE DEF g
  <2> SUFFICES ASSUME g.sweep, ~g.bill.raised
               PROVE  ToCome(g.orders, g.at, listings') <= ToCome(g.orders, g.at, listings)
    BY DEF FallsFor, f, g, d
  <2>4. f.sweep /\ ~d
    BY <2>3
  <2>5. f.orders \in Seq(Order) /\ f.at \in Nat
    BY <2>1, FrameParts
  <2>6. ASSUME NEW i \in DOMAIN f.orders, i > f.at
        PROVE  listings'[f.orders[i].id].p * listings'[f.orders[i].id].a
                 <= listings[f.orders[i].id].p * listings[f.orders[i].id].a
    <3> DEFINE j == f.orders[i].id
               p1 == listings[j].p
               a1 == listings[j].a
               p2 == listings'[j].p
               a2 == listings'[j].a
    <3>1. j \in ListingIds
      <4>1. f.orders[i] \in Order
        BY <2>5
      <4> QED
        BY <4>1 DEF Order
    <3>2. listings[j] \in ListingRecord /\ listings'[j] \in ListingRecord
      BY <1>3, <3>1 DEF ListingsTyped
    <3>3. p1 \in Nat /\ a1 \in Nat /\ p2 \in Nat /\ a2 \in Nat
      BY <3>2 DEF ListingRecord
    <3>4. a2 = a1
      BY <3>1
    <3>5. p2 <= p1
      <4>1. CASE j = id
        <5>1. StillToBuy(f, id)
          BY <2>6, <4>1 DEF StillToBuy
        <5>2. ~(p > Listing(id).p)
          BY <2>2, <2>4, <5>1
        <5>3. p2 = p /\ p1 = Listing(id).p
          BY <4>1 DEF Listing
        <5> HIDE DEF p1, p2, j
        <5>4. ~(p2 > p1)
          BY <5>2, <5>3
        <5> QED
          BY <3>3, <5>4
      <4>2. CASE j # id
        <5>1. p2 = p1
          BY <3>1, <4>2
        <5> HIDE DEF p1, p2, j
        <5> QED
          BY <3>3, <5>1
      <4> QED
        BY <4>1, <4>2
    <3> HIDE DEF p1, p2, a1, a2
    <3>6. a1 * p2 <= a1 * p1
      BY <3>3, <3>5, ProductOrdered
    <3>7. a1 * p2 = p2 * a1 /\ a1 * p1 = p1 * a1
      BY <3>3
    <3>8. p2 * a2 <= p1 * a1
      BY <3>4, <3>6, <3>7
    <3> QED
      BY <3>8 DEF p1, p2, a1, a2
  <2> DEFINE L == listings
             M == listings'
  <2>7. L \in [ListingIds -> ListingRecord] /\ M \in [ListingIds -> ListingRecord]
    BY <1>3 DEF ListingsTyped
  <2>8. \A i \in DOMAIN f.orders :
          i > f.at => M[f.orders[i].id].p * M[f.orders[i].id].a
                        <= L[f.orders[i].id].p * L[f.orders[i].id].a
    BY <2>6
  <2> HIDE DEF L, M
  <2>9. ToCome(f.orders, f.at, M) <= ToCome(f.orders, f.at, L)
    BY <2>5, <2>7, <2>8, ToComeFalls
  <2> QED
    BY <2>3, <2>9 DEF L, M
<1> HIDE DEF D
<1>6. StackOK'
  BY <1>1, <1>2, <1>4, <1>5, StackNoted
<1>7. CoreOK'
  <2>1. MarketInv' /\ GoodsTyped'
    BY <1>1, <1>3, UnchangedMarketInv DEF CoreOK, GoodsTyped
  <2> QED
    BY <1>6, <2>1 DEF CoreOK
<1>8. FlightsSame
  <2> SUFFICES ASSUME NEW j
               PROVE  Weighed(FlightWeight(j), calls') = Weighed(FlightWeight(j), calls)
    BY DEF FlightsSame
  <2> DEFINE V == FlightWeight(j)
  <2>1. \A f \in Frame, r \in BOOLEAN : V[Raise(f, r)] = V[f]
    BY RaiseWeightless
  <2> HIDE DEF V
  <2>2. Weighed(V, calls') = Weighed(V, calls)
    BY <1>2, <1>3, <1>4, <2>1, RaisedWeighs
  <2> QED
    BY <2>2 DEF V
<1>9. UnloggedSame
  <2> SUFFICES ASSUME NEW op, NEW j
               PROVE  Weighed(UnloggedWeight(op, j), calls')
                        = Weighed(UnloggedWeight(op, j), calls)
    BY DEF UnloggedSame
  <2> DEFINE V == UnloggedWeight(op, j)
  <2>1. \A f \in Frame, r \in BOOLEAN : V[Raise(f, r)] = V[f]
    BY RaiseWeightless
  <2> HIDE DEF V
  <2>2. Weighed(V, calls') = Weighed(V, calls)
    BY <1>2, <1>3, <1>4, <2>1, RaisedWeighs
  <2> QED
    BY <2>2 DEF V
<1> QED
  BY <1>7, <1>8, <1>9

-----------------------------------------------------------------------------
(* Listings, and what was bought of them.                                  *)

(* Fee and royalties of together at most 100%, royalties of at most 50%.   *)
FairTerms(fb, rs) ==
  fb + TotalBps(rs) <= BpsDenominator /\ TotalBps(rs) <= 5000

(* The basis points of a payment that are the seller's. *)
ShareOf(fb, rs) == BpsDenominator - fb - TotalBps(rs)

(* What is true of a listing of which m units were put up, n were handed   *)
(* over and u are bought but still to be handed over, r came in and q was  *)
(* left for the seller.                                                    *)
GoodListing(l, m, n, u, r, q, made) ==
  /\ FairTerms(l.fb, l.rs)
  /\ n + u + l.a = m
  /\ l.a = 0 => ~l.act
  /\ q * BpsDenominator >= r * ShareOf(l.fb, l.rs)
  /\ ~made => l.s = NoAccount /\ ~l.act /\ n = 0 /\ u = 0 /\ r = 0 /\ q = 0

ListingGood(id) ==
  GoodListing(Listing(id), listed[id], sold[id], Weighed(FlightWeight(id), calls),
              received[id], proceeds[id], id < nextListingId)

HistoryTyped ==
  /\ listed \in [ListingIds -> Nat] /\ sold \in [ListingIds -> Nat]
  /\ received \in [ListingIds -> Nat] /\ proceeds \in [ListingIds -> Nat]
  /\ swept \in Bill

(* A bill in one token, within the budget unless a price was raised. *)
BillFits(b) ==
  \E p : /\ \A t \in Tokens \ {p} : b.cost[t] = 0
         /\ ~b.raised => \A t \in Tokens : b.cost[t] <= b.budget

ListingsOK ==
  HistoryTyped /\ (\A id \in ListingIds : ListingGood(id)) /\ BillFits(swept)

(* Only a listing that was made is on. *)
LEMMA GoodListingsActive ==
  ASSUME ListingsOK
  PROVE  ListedActive
BY DEF ListingsOK, ListingGood, GoodListing, ListedActive, Listing

(* A share of fair terms is a natural number, and so are the parts.        *)
LEMMA ShareType ==
  ASSUME NEW fb \in Nat, NEW rs \in Seq(Split), FairTerms(fb, rs)
  PROVE  ShareOf(fb, rs) \in Nat /\ fb <= 10000 /\ TotalBps(rs) \in 0 .. 5000
<1> DEFINE tb == TotalBps(rs)
<1>1. tb \in Nat
  BY TotalBpsOfSplits
<1>2. fb + tb <= 10000 /\ tb <= 5000 /\ ShareOf(fb, rs) = 10000 - fb - tb
  BY DEF FairTerms, ShareOf, BpsDenominator
<1> HIDE DEF tb
<1>3. ShareOf(fb, rs) \in Nat /\ fb <= 10000 /\ tb \in 0 .. 5000
  BY <1>1, <1>2
<1> QED
  BY <1>3 DEF tb

(* The seller's part of one payment. *)
LEMMA PartOfSeller ==
  ASSUME NEW f, NEW fb \in Nat, NEW rs \in Seq(Split), f.fb = fb, f.rs = rs,
         FairTerms(fb, rs), NEW got \in Nat
  PROVE  /\ SellerPart(f, got) \in Nat
         /\ BpsDenominator * SellerPart(f, got) >= ShareOf(fb, rs) * got
<1>1. fb + TotalBps(rs) <= BpsDenominator
  BY DEF FairTerms
<1>2. SellerPart(f, got) = got - FeeOf(got, fb) - RoyaltyOf(got, rs)
  BY DEF SellerPart
<1>3. \A k \in 1 .. MaxRoyaltySplits : SplitBps(rs, k) \in Nat
  BY SplitBpsType DEF MaxRoyaltySplits
<1>4. /\ got - FeeOf(got, fb) - RoyaltyOf(got, rs) \in Nat
      /\ BpsDenominator * (got - FeeOf(got, fb) - RoyaltyOf(got, rs))
           >= (BpsDenominator - fb - TotalBps(rs)) * got
  BY <1>1, <1>3, SellersPart
<1> QED
  BY <1>2, <1>4 DEF ShareOf

(* What TermsStand says of one listing before and after a step. *)
Stands(l, m) ==
  /\ <<m.s, m.item, m.pt, m.exp, m.sb, m.pm, m.fb, m.rs>>
       = <<l.s, l.item, l.pt, l.exp, l.sb, l.pm, l.fb, l.rs>>
  /\ m.a <= l.a /\ (m.act => l.act)

(* What it says of the listings in a step. *)
TermsStood ==
  \A id \in 0 .. nextListingId - 1 :
    LET l == listings[id]
        m == listings'[id]
    IN
    /\ <<m.s, m.item, m.pt, m.exp, m.sb, m.pm, m.fb, m.rs>>
         = <<l.s, l.item, l.pt, l.exp, l.sb, l.pm, l.fb, l.rs>>
    /\ m.a <= l.a /\ (m.act => l.act)
    /\ m.p # l.p => l.act /\ <<pool, nft>>' = <<pool, nft>>

(* What it says of the purchases in progress. *)
FramesStood ==
  \A k \in DOMAIN calls :
    LET f == calls[k] IN
    f.op = "listing" /\ f.at > 0 =>
      <<f.pt, f.fb, f.rs>> = <<Listing(f.id).pt, Listing(f.id).fb, Listing(f.id).rs>>

(* A purchase goes by the terms of its listing. *)
LEMMA FramesStand ==
  ASSUME CoreOK
  PROVE  FramesStood
BY DEF CoreOK, StackOK, FramesOK, FitsNow, FrameFits, OrderFits, FramesStood, Listing

(* A listing stands when nothing happens to it. *)
LEMMA StandsStill ==
  ASSUME NEW l \in ListingRecord
  PROVE  Stands(l, l)
<1> DEFINE a == l.a
<1>1. a \in Nat
  BY DEF ListingRecord
<1> HIDE DEF a
<1>2. a <= a
  BY <1>1
<1> QED
  BY <1>2 DEF Stands, a

(* What holds for every listing holds for those that have been made. *)
LEMMA AllStood ==
  ASSUME ListingsTyped,
         \A id \in ListingIds : id < nextListingId =>
           /\ Stands(listings[id], listings'[id])
           /\ listings'[id].p # listings[id].p =>
                listings[id].act /\ <<pool, nft>>' = <<pool, nft>>
  PROVE  TermsStood
<1>1. \A id \in 0 .. nextListingId - 1 : id \in ListingIds /\ id < nextListingId
  BY ListingAssumption DEF ListingsTyped, ListingIds
<1> QED
  BY <1>1 DEF TermsStood, Stands

(* A step that leaves listings and their history alone. *)
LEMMA QuietListings ==
  ASSUME CoreOK, ListingsOK, UNCHANGED <<listings, nextListingId, history>>, FlightsSame
  PROVE  ListingsOK' /\ TermsStood
<1>1. /\ listings' = listings /\ nextListingId' = nextListingId /\ listed' = listed
      /\ sold' = sold /\ received' = received /\ proceeds' = proceeds /\ swept' = swept
  BY DEF history
<1>2. ASSUME NEW id \in ListingIds
      PROVE  ListingGood(id)'
  <2>1. Weighed(FlightWeight(id), calls') = Weighed(FlightWeight(id), calls)
    BY DEF FlightsSame
  <2>2. Weighed(FlightWeight(id), calls)' = Weighed(FlightWeight(id), calls')
    BY DEF Weighed, FlightWeight
  <2> QED
    BY <1>1, <2>1, <2>2 DEF ListingsOK, ListingGood, Listing
<1>3. HistoryTyped' /\ BillFits(swept)'
  BY <1>1 DEF ListingsOK, HistoryTyped, BillFits
<1>4. TermsStood
  <2>1. ListingsTyped
    BY DEF CoreOK
  <2>2. \A id \in ListingIds : Stands(listings[id], listings[id])
    BY <2>1, StandsStill DEF ListingsTyped
  <2> QED
    BY <1>1, <2>1, <2>2, AllStood
<1> QED
  BY <1>2, <1>3, <1>4 DEF ListingsOK

(* A step that changes one listing, its price or whether it is on. *)
LEMMA OneListing ==
  ASSUME ListingsTyped, NEW id \in ListingIds, NEW p \in Nat, NEW on \in BOOLEAN,
         listings' = [listings EXCEPT ![id] = [@ EXCEPT !.p = p, !.act = on]],
         nextListingId' = nextListingId,
         UNCHANGED <<pool, nft>>,
         on => listings[id].act, p # listings[id].p => listings[id].act
  PROVE  /\ ListingsTyped' /\ TermsStood
         /\ listings'[id] \in ListingRecord
         /\ listings'[id].p = p /\ listings'[id].act = on
         /\ listings'[id].a = listings[id].a
         /\ Stands(listings[id], listings'[id])
         /\ \A j \in ListingIds \ {id} : listings'[j] = listings[j]
<1> DEFINE l == listings[id]
           l2 == [l EXCEPT !.p = p, !.act = on]
<1>1. l \in ListingRecord /\ listings \in [ListingIds -> ListingRecord]
  BY DEF ListingsTyped
<1>2. /\ l2 \in ListingRecord
      /\ l2.s = l.s /\ l2.item = l.item /\ l2.pt = l.pt /\ l2.exp = l.exp /\ l2.sb = l.sb
      /\ l2.pm = l.pm /\ l2.fb = l.fb /\ l2.rs = l.rs /\ l2.a = l.a
      /\ l2.p = p /\ l2.act = on
  BY <1>1 DEF ListingRecord
<1>3. listings' = [listings EXCEPT ![id] = l2]
  OBVIOUS
<1>4. Stands(l, l)
  BY <1>1, StandsStill
<1>5. (on => l.act) /\ (p # l.p => l.act)
  OBVIOUS
<1> HIDE DEF l, l2
<1>6. /\ listings' \in [ListingIds -> ListingRecord] /\ listings'[id] = l2
      /\ \A j \in ListingIds \ {id} : listings'[j] = listings[j]
  BY <1>1, <1>2, <1>3
<1>7. Stands(l, l2)
  BY <1>2, <1>4, <1>5 DEF Stands
<1>8. ListingsTyped'
  BY <1>6 DEF ListingsTyped
<1>9. TermsStood
  <2> SUFFICES ASSUME NEW j \in ListingIds
               PROVE  /\ Stands(listings[j], listings'[j])
                      /\ listings'[j].p # listings[j].p =>
                           listings[j].act /\ <<pool, nft>>' = <<pool, nft>>
    BY AllStood
  <2>1. CASE j # id
    BY <1>1, <1>6, <2>1, StandsStill
  <2>2. CASE j = id
    BY <1>2, <1>5, <1>6, <1>7, <2>2 DEF l
  <2> QED
    BY <2>1, <2>2
<1> QED
  BY <1>2, <1>6, <1>7, <1>8, <1>9 DEF l

(* The invariant of the listings then. *)
LEMMA OneListingGood ==
  ASSUME ListingsTyped, ListingsOK, NEW id \in ListingIds,
         UNCHANGED <<nextListingId, history>>, FlightsSame,
         listings'[id].a = listings[id].a, Stands(listings[id], listings'[id]),
         \A j \in ListingIds \ {id} : listings'[j] = listings[j]
  PROVE  ListingsOK'
<1>1. /\ nextListingId' = nextListingId /\ listed' = listed
      /\ sold' = sold /\ received' = received /\ proceeds' = proceeds /\ swept' = swept
  BY DEF history
<1>2. ASSUME NEW j \in ListingIds
      PROVE  ListingGood(j)'
  <2> DEFINE u == Weighed(FlightWeight(j), calls)
  <2>1. u' = u
    <3>1. Weighed(FlightWeight(j), calls)' = Weighed(FlightWeight(j), calls')
      BY DEF Weighed, FlightWeight
    <3> QED
      BY <3>1 DEF FlightsSame
  <2>2. GoodListing(listings[j], listed[j], sold[j], u, received[j], proceeds[j],
                    j < nextListingId)
    BY DEF ListingsOK, ListingGood, Listing
  <2> HIDE DEF u
  <2>3. GoodListing(listings'[j], listed[j], sold[j], u, received[j], proceeds[j],
                    j < nextListingId)
    <3>1. CASE j # id
      BY <2>2, <3>1
    <3>2. CASE j = id
      BY <2>2, <3>2 DEF GoodListing, Stands
    <3> QED
      BY <3>1, <3>2
  <2> QED
    BY <1>1, <2>1, <2>3 DEF ListingGood, Listing, u
<1>3. HistoryTyped' /\ BillFits(swept)'
  BY <1>1 DEF ListingsOK, HistoryTyped, BillFits
<1> QED
  BY <1>2, <1>3 DEF ListingsOK

-----------------------------------------------------------------------------
(* Offers: list, delist, updateListing.                                    *)

(* Bundles stay as they are. *)
BundlesSame == UNCHANGED <<bundles, nextBundleId, buyers>>

(* Listings whose terms stand grow only in number. *)
LEMMA StoodGrows ==
  ASSUME ListingsTyped, BundlesTyped, BundlesSame,
         nextListingId' \in Nat, nextListingId' >= nextListingId,
         \A id \in ListingIds : id < nextListingId => Stands(listings[id], listings'[id])
  PROVE  Growing /\ BundlesTyped'
<1>1. nextBundleId \in Nat
  BY CountsType
<1>2. Growing
  BY <1>1 DEF Growing, Stands, BundlesSame
<1> QED
  BY <1>2 DEF BundlesTyped, BundlesSame

(* A product of natural numbers is not more than itself. *)
LEMMA CostOfListing ==
  ASSUME NEW l \in ListingRecord
  PROVE  l.p * l.a \in Nat /\ l.p * l.a <= l.p * l.a
<1> DEFINE p == l.p
           a == l.a
<1>1. p \in Nat /\ a \in Nat
  BY DEF ListingRecord
<1> HIDE DEF p, a
<1>2. p * a \in Nat
  BY <1>1
<1>3. p * a <= p * a
  BY <1>2
<1> QED
  BY <1>2, <1>3 DEF p, a

(* delist. *)
LEMMA DelistKeeps ==
  ASSUME CoreOK, ListingsOK, NEW id \in ListingIds, Delist(id), BundlesSame
  PROVE  CoreOK' /\ FlightsSame /\ UnloggedSame /\ ListingsOK' /\ TermsStood
<1> DEFINE p == listings[id].p
<1>1. /\ ListingsTyped /\ BundlesTyped /\ GoodsTyped /\ MarketInv
      /\ listings \in [ListingIds -> ListingRecord] /\ listings[id] \in ListingRecord
  BY DEF CoreOK, ListingsTyped
<1>2. p \in Nat
  BY <1>1 DEF ListingRecord
<1>3. [listings[id] EXCEPT !.act = FALSE] = [listings[id] EXCEPT !.p = p, !.act = FALSE]
  BY <1>1 DEF ListingRecord
<1>4. listings' = [listings EXCEPT ![id] = [@ EXCEPT !.p = p, !.act = FALSE]]
  BY <1>3 DEF Delist
<1>5. UNCHANGED <<marketVars, nextListingId, calls, approved, pool, nft, history>>
  BY DEF Delist
<1> HIDE DEF p
<1>6. /\ ListingsTyped' /\ TermsStood
      /\ listings'[id].p = p /\ listings'[id].a = listings[id].a
      /\ Stands(listings[id], listings'[id])
      /\ \A j \in ListingIds \ {id} : listings'[j] = listings[j]
  BY <1>1, <1>2, <1>4, <1>5, OneListing DEF p
<1>7. \A j \in ListingIds : Stands(listings[j], listings'[j])
  BY <1>1, <1>6, StandsStill
<1>8. nextListingId' \in Nat /\ nextListingId' >= nextListingId
  BY <1>1, <1>5, CountsType
<1>9. Growing /\ BundlesTyped'
  BY <1>1, <1>7, <1>8, StoodGrows
<1>10. CostsFall
  <2> SUFFICES ASSUME NEW j \in ListingIds
               PROVE  listings'[j].p * listings'[j].a <= listings[j].p * listings[j].a
    BY DEF CostsFall
  <2>1. listings'[j].p = listings[j].p /\ listings'[j].a = listings[j].a
    BY <1>6 DEF p
  <2>2. listings[j].p * listings[j].a <= listings[j].p * listings[j].a
    BY <1>1, CostOfListing
  <2> QED
    BY <2>1, <2>2
<1>11. MarketInv' /\ GoodsTyped'
  BY <1>1, <1>5, UnchangedMarketInv DEF GoodsTyped
<1>12. CoreOK' /\ FlightsSame /\ UnloggedSame
  BY <1>5, <1>6, <1>9, <1>10, <1>11, OffersCore
<1> QED
  BY <1>1, <1>5, <1>6, <1>12, OneListingGood

(* updateListing. *)
LEMMA UpdateListingKeeps ==
  ASSUME CoreOK, ListingsOK, NEW id \in ListingIds, NEW p \in UnitPrices,
         UpdateListing(id, p), BundlesSame
  PROVE  CoreOK' /\ FlightsSame /\ UnloggedSame /\ ListingsOK' /\ TermsStood
<1>1. /\ ListingsTyped /\ BundlesTyped
      /\ listings \in [ListingIds -> ListingRecord] /\ listings[id] \in ListingRecord
  BY DEF CoreOK, ListingsTyped
<1>2. p \in Nat
  BY ListingAssumption
<1>3. listings[id].act
  BY DEF UpdateListing, Listing
<1>4. [listings[id] EXCEPT !.p = p] = [listings[id] EXCEPT !.p = p, !.act = TRUE]
  BY <1>1, <1>3 DEF ListingRecord
<1>5. listings' = [listings EXCEPT ![id] = [@ EXCEPT !.p = p, !.act = TRUE]]
  BY <1>4 DEF UpdateListing, Repriced
<1>6. UNCHANGED <<marketVars, nextListingId, approved, pool, nft, history>>
  BY DEF UpdateListing
<1>7. /\ ListingsTyped' /\ TermsStood
      /\ listings'[id].p = p /\ listings'[id].a = listings[id].a
      /\ Stands(listings[id], listings'[id])
      /\ \A j \in ListingIds \ {id} : listings'[j] = listings[j]
  BY <1>1, <1>2, <1>3, <1>5, <1>6, OneListing
<1>8. \A j \in ListingIds : Stands(listings[j], listings'[j])
  BY <1>1, <1>7, StandsStill
<1>9. nextListingId' \in Nat /\ nextListingId' >= nextListingId
  BY <1>1, <1>6, CountsType
<1>10. Growing /\ BundlesTyped'
  BY <1>1, <1>8, <1>9, StoodGrows
<1>11. CoreOK' /\ FlightsSame /\ UnloggedSame
  BY <1>7, <1>10, UpdateListingCore
<1> QED
  BY <1>1, <1>6, <1>7, <1>11, OneListingGood

(* The terms of the day are locked in the form they are paid in. *)
LEMMA DayTerms ==
  ASSUME MarketInv, NEW c \in Collections, TermsFit(c)
  PROVE  /\ EffectiveFeeBps(c) \in Nat /\ ResolveRoyaltySplits(c) \in Seq(Split)
         /\ FairTerms(EffectiveFeeBps(c), ResolveRoyaltySplits(c))
BY LockedTerms DEF TermsFit, FairTerms

(* A listing when it is made. *)
LEMMA NewListingGood ==
  ASSUME MarketInv, NEW s \in Accounts, NEW o \in Offering, MayList(s, o),
         NEW l, l = NewListing(s, o)
  PROVE  l \in ListingRecord /\ GoodListing(l, o.n, 0, 0, 0, 0, TRUE)
<1> DEFINE c == CollectionOf[o.item]
           fb == EffectiveFeeBps(c)
           rs == ResolveRoyaltySplits(c)
<1>1. /\ o.item \in Items /\ o.n \in Nat /\ o.p \in Nat /\ o.pt \in Tokens
      /\ o.exp \in Nat /\ o.sb \in Nat /\ o.pm \in Payouts
  BY DEF Offering
<1>2. c \in Collections
  BY <1>1, CustodyAssumption
<1>3. TermsFit(c) /\ o.n > 0
  BY DEF MayList
<1>4. fb \in Nat /\ rs \in Seq(Split) /\ FairTerms(fb, rs)
  <2> HIDE DEF c
  <2> QED
    BY <1>2, <1>3, DayTerms
<1>5. l = [s |-> s, item |-> o.item, a |-> o.n, p |-> o.p, pt |-> o.pt, act |-> TRUE,
           exp |-> o.exp, sb |-> o.sb, pm |-> o.pm, fb |-> fb, rs |-> rs]
  BY DEF NewListing
<1> HIDE DEF fb, rs
<1>6. /\ l \in ListingRecord /\ l.fb = fb /\ l.rs = rs /\ l.a = o.n
  BY <1>1, <1>4, <1>5 DEF ListingRecord
<1>7. ShareOf(fb, rs) \in Nat
  BY <1>4, ShareType
<1>8. 0 * BpsDenominator >= 0 * ShareOf(fb, rs)
  BY <1>7 DEF BpsDenominator
<1>9. 0 + 0 + l.a = o.n /\ l.a # 0
  BY <1>1, <1>3, <1>6
<1> QED
  BY <1>4, <1>6, <1>8, <1>9 DEF GoodListing

(* list and batchList. *)
LEMMA BatchListKeeps ==
  ASSUME CoreOK, ListingsOK, NEW s \in Accounts, NEW offered \in ListsOf(Offered),
         BatchList(s, offered), BundlesSame
  PROVE  CoreOK' /\ FlightsSame /\ UnloggedSame /\ ListingsOK' /\ TermsStood
<1> DEFINE first == nextListingId
           next == nextListingId + Len(offered)
           new(id) == offered[id - first + 1]
           fresh(id) == id \in first .. next - 1
           n == Len(offered)
<1>1. offered \in Seq(Offered) /\ n \in Nat /\ DOMAIN offered = 1 .. n
  BY ListsAreSeqs
<1>2. \A k \in 1 .. n : offered[k] \in Offering
  BY <1>1, ListingAssumption
<1>3. /\ MarketInv /\ ListingsTyped /\ BundlesTyped /\ GoodsTyped
      /\ listings \in [ListingIds -> ListingRecord] /\ nextListingId \in 0 .. MaxListings
      /\ listed \in [ListingIds -> Nat] /\ sold \in [ListingIds -> Nat]
      /\ received \in [ListingIds -> Nat] /\ proceeds \in [ListingIds -> Nat]
  BY DEF CoreOK, ListingsOK, ListingsTyped, HistoryTyped
<1>4. /\ first \in Nat /\ next = first + n /\ next <= MaxListings
      /\ nextListingId' = next
  BY <1>1, <1>3, ListingAssumption DEF BatchList
<1>5. /\ listings' = [id \in ListingIds |->
            IF fresh(id) THEN NewListing(s, new(id)) ELSE listings[id]]
      /\ listed' = [id \in ListingIds |-> IF fresh(id) THEN new(id).n ELSE listed[id]]
  BY DEF BatchList
<1>6. /\ sold' = sold /\ received' = received /\ proceeds' = proceeds /\ swept' = swept
      /\ approved' = approved /\ pool' = pool /\ nft' = nft /\ UNCHANGED marketVars
      /\ calls' = calls
  BY DEF BatchList
<1>7. ASSUME NEW id \in ListingIds, fresh(id)
      PROVE  /\ new(id) \in Offering /\ MayList(s, new(id))
             /\ id \in Nat /\ id >= first /\ id < next
  <2>1. id \in Nat /\ id >= first /\ id < next
    BY <1>3, <1>4, <1>7, ListingAssumption DEF ListingIds
  <2>2. id - first + 1 \in 1 .. n
    BY <1>1, <1>4, <2>1
  <2>3. \A k \in DOMAIN offered : MayList(s, offered[k])
    BY DEF BatchList
  <2> QED
    BY <1>1, <1>2, <2>1, <2>2, <2>3
<1>8. MarketInv' /\ GoodsTyped'
  BY <1>3, <1>6, UnchangedMarketInv DEF GoodsTyped
<1>9. ASSUME NEW id \in ListingIds
      PROVE  /\ listings'[id] \in ListingRecord /\ listed'[id] \in Nat
             /\ ListingGood(id)'
             /\ id < nextListingId => listings'[id] = listings[id]
  <2> DEFINE u == Weighed(FlightWeight(id), calls)
  <2>1. id \in Nat
    BY ListingAssumption DEF ListingIds
  <2>2. u' = u
    BY <1>6 DEF Weighed, FlightWeight
  <2>3. GoodListing(listings[id], listed[id], sold[id], u, received[id], proceeds[id],
                    id < nextListingId)
    BY DEF ListingsOK, ListingGood, Listing
  <2>4. CASE fresh(id)
    <3> DEFINE o == new(id)
               l == listings'[id]
    <3>1. o \in Offering /\ MayList(s, o) /\ id >= first /\ id < next
      BY <1>7, <2>4
    <3>2. l = NewListing(s, o) /\ listed'[id] = o.n
      BY <1>5, <2>4
    <3> HIDE DEF o, l, next, u
    <3>3. l \in ListingRecord /\ GoodListing(l, o.n, 0, 0, 0, 0, TRUE)
      BY <1>3, <3>1, <3>2, NewListingGood
    <3>4. ~(id < first)
      BY <1>4, <2>1, <3>1
    <3>5. sold[id] = 0 /\ received[id] = 0 /\ proceeds[id] = 0 /\ u = 0
      BY <2>3, <3>4 DEF GoodListing
    <3>6. (id < nextListingId') = TRUE
      BY <1>4, <3>1
    <3>7. GoodListing(l, listed'[id], sold'[id], u, received'[id], proceeds'[id],
                      id < nextListingId')
      BY <1>6, <3>2, <3>3, <3>5, <3>6
    <3>8. o.n \in Nat
      BY <3>1 DEF Offering
    <3> QED
      BY <2>2, <3>2, <3>3, <3>4, <3>7, <3>8 DEF ListingGood, Listing, l, u
  <2>5. CASE ~fresh(id)
    <3>1. listings'[id] = listings[id] /\ listed'[id] = listed[id]
      BY <1>5, <2>5
    <3> DEFINE before == id < nextListingId
               after == id < nextListingId'
    <3>2. before = after
      BY <1>1, <1>3, <1>4, <2>1, <2>5
    <3> HIDE DEF before, after, u
    <3>3. GoodListing(listings[id], listed[id], sold[id], u, received[id], proceeds[id],
                      before)
      BY <2>3 DEF before
    <3>4. GoodListing(listings'[id], listed'[id], sold'[id], u, received'[id],
                      proceeds'[id], after)
      BY <1>6, <3>1, <3>2, <3>3
    <3> QED
      BY <1>3, <2>2, <3>1, <3>4 DEF ListingGood, Listing, after, u
  <2> QED
    BY <2>4, <2>5
<1>10. listings' \in [ListingIds -> ListingRecord] /\ listed' \in [ListingIds -> Nat]
  <2>1. /\ listings' = [id \in ListingIds |-> listings'[id]]
        /\ listed' = [id \in ListingIds |-> listed'[id]]
    BY <1>5
  <2> QED
    BY <1>9, <2>1
<1>11. nextListingId' \in 0 .. MaxListings /\ nextListingId' >= nextListingId
  BY <1>1, <1>4, ListingAssumption
<1> HIDE DEF fresh, new, next, first
<1>12. ListingsTyped' /\ HistoryTyped'
  BY <1>6, <1>10, <1>11 DEF ListingsTyped, ListingsOK, HistoryTyped
<1>13. BillFits(swept)'
  BY <1>6 DEF ListingsOK, BillFits
<1>14. ListingsOK'
  BY <1>9, <1>12, <1>13 DEF ListingsOK
<1>15. \A id \in ListingIds : id < nextListingId =>
         listings'[id] = listings[id] /\ Stands(listings[id], listings'[id])
  BY <1>3, <1>9, StandsStill
<1>16. TermsStood
  BY <1>3, <1>15, AllStood
<1>17. nextListingId' \in Nat
  BY <1>11, ListingAssumption
<1>18. Growing /\ BundlesTyped'
  BY <1>3, <1>11, <1>15, <1>17, StoodGrows
<1>19. CostsFall
  <2> SUFFICES ASSUME NEW j \in ListingIds, j < nextListingId
               PROVE  listings'[j].p * listings'[j].a <= listings[j].p * listings[j].a
    BY DEF CostsFall
  <2>1. listings'[j] = listings[j]
    BY <1>15
  <2>2. listings[j].p * listings[j].a <= listings[j].p * listings[j].a
    BY <1>3, CostOfListing
  <2> QED
    BY <2>1, <2>2
<1>20. CoreOK' /\ FlightsSame /\ UnloggedSame
  BY <1>6, <1>8, <1>12, <1>18, <1>19, OffersCore
<1> QED
  BY <1>14, <1>16, <1>20

-----------------------------------------------------------------------------
(* Purchases of listings.                                                  *)

(* The next order has its turn: what it takes off the listing is on its    *)
(* way.                                                                    *)
LEMMA NextOrderKeeps ==
  ASSUME CoreOK, ListingsOK, NextOrder, BundlesSame
  PROVE  /\ CoreOK' /\ ListingsOK' /\ TermsStood
         /\ Ordered \in Order /\ Orderable(Top.by, Ordered)
         /\ listings'[Ordered.id] = [listings[Ordered.id] EXCEPT
              !.a = Remaining(Ordered), !.act = @ /\ Remaining(Ordered) # 0]
         /\ \A j \in ListingIds \ {Ordered.id} : listings'[j] = listings[j]
         /\ \A op, j :
              /\ Weighed(UnloggedWeight(op, j), calls) \in Nat
              /\ Weighed(UnloggedWeight(op, j), calls') \in Nat
              /\ Weighed(UnloggedWeight(op, j), calls')
                   = Weighed(UnloggedWeight(op, j), calls)
                       + (IF op = "listing" /\ j = Ordered.id THEN Units(Ordered) ELSE 0)
<1> DEFINE o == Ordered
           id == o.id
           l == listings[id]
           u == Units(o)
           l2 == [l EXCEPT !.a = Remaining(o), !.act = @ /\ Remaining(o) # 0]
<1>1. ListedActive /\ ListingsTyped /\ BundlesTyped
  BY GoodListingsActive DEF CoreOK
<1>2. /\ CoreOK' /\ o \in Order /\ Orderable(Top.by, o)
      /\ \A j : /\ Weighed(FlightWeight(j), calls) \in Nat
                /\ Weighed(FlightWeight(j), calls') \in Nat
                /\ Weighed(FlightWeight(j), calls')
                     = Weighed(FlightWeight(j), calls) + (IF j = id THEN u ELSE 0)
      /\ \A op, j :
              /\ Weighed(UnloggedWeight(op, j), calls) \in Nat
              /\ Weighed(UnloggedWeight(op, j), calls') \in Nat
              /\ Weighed(UnloggedWeight(op, j), calls')
                   = Weighed(UnloggedWeight(op, j), calls)
                       + (IF op = "listing" /\ j = id THEN u ELSE 0)
  BY <1>1, NextOrderCore DEF BundlesSame
<1>3. /\ id \in ListingIds /\ l \in ListingRecord /\ u \in Nat /\ u > 0
      /\ l.a \in Nat /\ Remaining(o) \in Nat /\ Remaining(o) = l.a - u /\ l.act
  BY <1>1, <1>2, OrderAsks
<1>4. /\ listings' = [listings EXCEPT ![id].a = Remaining(o),
                                      ![id].act = @ /\ Remaining(o) # 0]
      /\ UNCHANGED <<marketVars, nextListingId, approved, pool, nft, history>>
  BY DEF NextOrder, Ordered
<1>5. /\ \A j \in ListingIds \ {id} : listings'[j] = listings[j]
      /\ listings'[id] = l2 /\ id < nextListingId
  BY <1>1, <1>2, <1>4, OrderTaken DEF BundlesSame
<1>6. /\ nextListingId' = nextListingId /\ listed' = listed
      /\ sold' = sold /\ received' = received /\ proceeds' = proceeds /\ swept' = swept
      /\ pool' = pool /\ nft' = nft
  BY <1>4 DEF history
<1>7. /\ l2.s = l.s /\ l2.item = l.item /\ l2.pt = l.pt /\ l2.exp = l.exp /\ l2.sb = l.sb
      /\ l2.pm = l.pm /\ l2.fb = l.fb /\ l2.rs = l.rs /\ l2.p = l.p
      /\ l2.a = Remaining(o) /\ l2.act = (l.act /\ Remaining(o) # 0)
  BY <1>3 DEF ListingRecord
<1>8. Stands(l, l2)
  <2> DEFINE a == l.a
             b == Remaining(o)
  <2>1. a \in Nat /\ b = a - u
    BY <1>3
  <2> HIDE DEF a, b, l, l2, u
  <2>2. b <= a
    BY <1>3, <2>1
  <2> QED
    BY <1>7, <2>2 DEF Stands, a, b
<1> HIDE DEF l2
<1>9. TermsStood
  <2>1. \A j \in ListingIds \ {id} : Stands(listings[j], listings'[j])
    BY <1>1, <1>5, StandsStill DEF ListingsTyped
  <2>2. \A j \in ListingIds : Stands(listings[j], listings'[j])
                              /\ listings'[j].p = listings[j].p
    BY <1>3, <1>5, <1>7, <1>8, <2>1
  <2> QED
    BY <1>1, <2>2, AllStood
<1>10. ASSUME NEW j \in ListingIds
       PROVE  ListingGood(j)'
  <2> DEFINE w == Weighed(FlightWeight(j), calls)
             v == Weighed(FlightWeight(j), calls')
  <2>1. w' = v
    BY DEF Weighed, FlightWeight
  <2>2. GoodListing(listings[j], listed[j], sold[j], w, received[j], proceeds[j],
                    j < nextListingId)
    BY DEF ListingsOK, ListingGood, Listing
  <2>3. w \in Nat /\ v \in Nat /\ v = w + (IF j = id THEN u ELSE 0)
    BY <1>2
  <2>4. listed[j] \in Nat /\ sold[j] \in Nat
    BY DEF ListingsOK, HistoryTyped
  <2> HIDE DEF w, v
  <2>5. GoodListing(listings'[j], listed[j], sold[j], v, received[j], proceeds[j],
                    j < nextListingId)
    <3>1. CASE j # id
      <4>1. v = w
        BY <2>3, <3>1
      <4> QED
        BY <1>5, <2>2, <3>1, <4>1
    <3>2. CASE j = id
      <4> DEFINE m == listed[j]
                 n == sold[j]
                 r == received[j]
                 q == proceeds[j]
                 a == l.a
                 b == Remaining(o)
                 made == j < nextListingId
      <4>1. GoodListing(l, m, n, w, r, q, made)
        BY <2>2, <3>2
      <4>2. n + w + a = m /\ made
        BY <1>5, <3>2, <4>1 DEF GoodListing
      <4>3. v = w + u /\ b = a - u /\ a \in Nat /\ m \in Nat /\ n \in Nat
        BY <1>3, <2>3, <2>4, <3>2
      <4>4. FairTerms(l.fb, l.rs) /\ q * BpsDenominator >= r * ShareOf(l.fb, l.rs)
        BY <4>1 DEF GoodListing
      <4> HIDE DEF m, n, a, b, u, l, r, q, made
      <4>5. n + v + b = m
        BY <1>3, <2>3, <4>2, <4>3
      <4>6. l2.a = b /\ (b = 0 => ~l2.act) /\ l2.fb = l.fb /\ l2.rs = l.rs
        BY <1>7 DEF b
      <4>7. GoodListing(l2, m, n, v, r, q, made)
        BY <4>2, <4>4, <4>5, <4>6 DEF GoodListing
      <4> QED
        BY <1>5, <3>2, <4>7 DEF m, n, r, q, made
    <3> QED
      BY <3>1, <3>2
  <2> QED
    BY <1>6, <2>1, <2>5 DEF ListingGood, Listing, w
<1>11. HistoryTyped' /\ BillFits(swept)'
  BY <1>6 DEF ListingsOK, HistoryTyped, BillFits
<1>12. ListingsOK'
  BY <1>10, <1>11 DEF ListingsOK
<1> QED
  BY <1>2, <1>5, <1>9, <1>12 DEF l2

(* The units of an order move: they count as sold. *)
LEMMA GiveUnitsKeeps ==
  ASSUME CoreOK, ListingsOK, GiveUnits, BundlesSame
  PROVE  CoreOK' /\ UnloggedSame /\ ListingsOK' /\ TermsStood
<1> DEFINE id == Top.id
           n == Top.n
<1>1. UNCHANGED <<marketVars, listings, nextListingId, pool, listed, received, proceeds, swept>>
      /\ sold' = [sold EXCEPT ![id] = @ + n]
  BY DEF GiveUnits
<1>2. OffersSame
  BY <1>1 DEF OffersSame, BundlesSame
<1>3. /\ CoreOK' /\ UnloggedSame /\ id \in ListingIds /\ id < nextListingId /\ n \in Nat
      /\ \A j :
              /\ Weighed(FlightWeight(j), calls) \in Nat
              /\ Weighed(FlightWeight(j), calls') \in Nat
              /\ Weighed(FlightWeight(j), calls)
                   = Weighed(FlightWeight(j), calls') + (IF j = id THEN n ELSE 0)
  BY <1>2, GiveUnitsCore
<1>4. sold \in [ListingIds -> Nat] /\ ListingsTyped
  BY DEF ListingsOK, HistoryTyped, CoreOK
<1> HIDE DEF id, n
<1>5. /\ sold' \in [ListingIds -> Nat] /\ sold'[id] = sold[id] + n
      /\ \A j \in ListingIds \ {id} : sold'[j] = sold[j]
  BY <1>1, <1>3, <1>4
<1>6. ASSUME NEW j \in ListingIds
      PROVE  ListingGood(j)'
  <2> DEFINE w == Weighed(FlightWeight(j), calls)
             v == Weighed(FlightWeight(j), calls')
             l == listings[j]
             m == listed[j]
             k == sold[j]
             r == received[j]
             q == proceeds[j]
             made == j < nextListingId
  <2>1. w' = v
    BY DEF Weighed, FlightWeight
  <2>2. GoodListing(l, m, k, w, r, q, made)
    BY DEF ListingsOK, ListingGood, Listing
  <2>3. w \in Nat /\ v \in Nat /\ w = v + (IF j = id THEN n ELSE 0)
    BY <1>3
  <2>4. k \in Nat /\ m \in Nat /\ l.a \in Nat
    BY <1>4 DEF ListingsOK, HistoryTyped, ListingsTyped, ListingRecord
  <2>5. j = id => made
    BY <1>3
  <2>6. sold'[j] = k + (IF j = id THEN n ELSE 0) /\ n \in Nat
    BY <1>3, <1>5, <2>4
  <2> HIDE DEF w, v, l, m, k, r, q, made
  <2>7. sold'[j] + v + l.a = k + w + l.a
    <3>1. CASE j = id
      <4> DEFINE a == l.a
      <4>1. a \in Nat /\ sold'[j] = k + n /\ w = v + n
        BY <2>3, <2>4, <2>6, <3>1
      <4> HIDE DEF a
      <4>2. sold'[j] + v + a = k + w + a
        BY <2>3, <2>4, <2>6, <4>1
      <4> QED
        BY <4>2 DEF a
    <3>2. CASE j # id
      BY <2>3, <2>4, <2>6, <3>2
    <3> QED
      BY <3>1, <3>2
  <2>8. ~made => sold'[j] = 0 /\ v = 0
    <3>1. ~made => k = 0 /\ w = 0 /\ j # id
      BY <2>2, <2>5 DEF GoodListing
    <3> QED
      BY <2>3, <2>4, <2>6, <3>1
  <2>9. GoodListing(l, m, sold'[j], v, r, q, made)
    <3>1. k + w + l.a = m
      BY <2>2 DEF GoodListing
    <3>2. sold'[j] + v + l.a = m
      BY <2>7, <3>1
    <3> QED
      BY <2>2, <2>8, <3>2 DEF GoodListing
  <2> QED
    BY <1>1, <2>1, <2>9 DEF ListingGood, Listing, w, l, m, r, q, made
<1>7. HistoryTyped' /\ BillFits(swept)'
  BY <1>1, <1>5 DEF ListingsOK, HistoryTyped, BillFits
<1>8. TermsStood
  <2>1. \A j \in ListingIds : Stands(listings[j], listings[j])
    BY <1>4, StandsStill DEF ListingsTyped
  <2>2. listings' = listings
    BY <1>1
  <2> QED
    BY <1>4, <2>1, <2>2, AllStood
<1> QED
  BY <1>3, <1>6, <1>7, <1>8 DEF ListingsOK

(* The bill of a sweep that fits, when nothing is left to buy. *)
LEMMA SweepBill ==
  ASSUME ListingsTyped, NEW f \in Frame, SweepFits(f, listings, nextListingId)
  PROVE  BillFits(f.bill)
<1> DEFINE t == listings[f.orders[1].id].pt
           c == ToCome(f.orders, f.at, listings)
           b == f.bill
           spent == b.cost[t]
<1>1. /\ f.orders \in Seq(Order) /\ f.at \in Nat
      /\ b.budget \in Nat /\ b.cost \in [Tokens -> Nat]
  BY FrameParts
<1>2. listings \in [ListingIds -> ListingRecord]
  BY DEF ListingsTyped
<1>3. c \in Nat
  BY <1>1, <1>2, ComingCosts
<1>4. t \in Tokens
  BY <1>2, SweepKnows
<1>5. spent \in Nat
  BY <1>1, <1>4
<1>6. /\ \A u \in Tokens \ {t} : b.cost[u] = 0
      /\ ~b.raised => spent + c <= b.budget
  BY DEF SweepFits
<1> HIDE DEF c, b, spent, t
<1>7. ~b.raised => spent <= b.budget
  BY <1>1, <1>3, <1>5, <1>6
<1>8. ~b.raised => \A u \in Tokens : b.cost[u] <= b.budget
  BY <1>1, <1>6, <1>7 DEF spent
<1> QED
  BY <1>6, <1>8 DEF BillFits, b

(* What is true of a listing when a payment for it is divided. *)
LEMMA GoodAfterPayout ==
  ASSUME NEW l \in ListingRecord, NEW m, NEW n, NEW u, NEW r \in Nat, NEW q \in Nat,
         GoodListing(l, m, n, u, r, q, TRUE), NEW r1 \in Nat, NEW q1 \in Nat,
         BpsDenominator * q1 >= ShareOf(l.fb, l.rs) * r1
  PROVE  GoodListing(l, m, n, u, r + r1, q + q1, TRUE)
<1> DEFINE share == ShareOf(l.fb, l.rs)
           v == r * share
           w == share * r1
<1>1. l.fb \in Nat /\ l.rs \in Seq(Split)
  BY DEF ListingRecord
<1>2. share \in Nat
  BY <1>1, ShareType DEF GoodListing
<1>3. q * 10000 >= v /\ 10000 * q1 >= w
  BY DEF GoodListing, BpsDenominator
<1> HIDE DEF share
<1>4. (r + r1) * share = v + w /\ v \in Nat /\ w \in Nat
  BY <1>2
<1> HIDE DEF v, w
<1>5. (q + q1) * 10000 >= v + w
  BY <1>3, <1>4
<1>6. (q + q1) * BpsDenominator >= (r + r1) * share
  BY <1>4, <1>5 DEF BpsDenominator
<1> QED
  BY <1>6 DEF GoodListing, share

(* What a purchase being paid out is about. *)
LEMMA PaidOutListing ==
  ASSUME CoreOK, FinishOrder, Top \in Frame, FitsNow(Top)
  PROVE  /\ Top.op = "listing" /\ Top.id \in ListingIds /\ Top.id < nextListingId
         /\ Top.fb = listings[Top.id].fb /\ Top.rs = listings[Top.id].rs
         /\ Top.pt = listings[Top.id].pt
         /\ Top.got \in Nat
         /\ Top.sweep => SweepFits(Top, listings, nextListingId)
<1> DEFINE f == Top
<1>1. f.op = "listing" /\ Head(f.todo) = "payout"
  BY DEF FinishOrder, InProgress
<1>2. OrderFits(f, listings, nextListingId)
      /\ (f.sweep => SweepFits(f, listings, nextListingId))
  BY <1>1 DEF FitsNow, FrameFits
<1>3. f.got \in Nat
  BY FrameParts
<1> HIDE DEF f
<1>4. Head(<<"next">>) = "next"
  OBVIOUS
<1>5. f.at # 0
  BY <1>1, <1>2, <1>4 DEF OrderFits
<1>6. f.at > 0
  <2>1. f.at \in Nat
    BY FrameParts DEF f
  <2> QED
    BY <1>5, <2>1
<1> QED
  BY <1>1, <1>2, <1>3, <1>6 DEF OrderFits, f

(* The payment of an order is divided. *)
LEMMA FinishOrderKeeps ==
  ASSUME CoreOK, ListingsOK, FinishOrder, BundlesSame
  PROVE  /\ CoreOK' /\ FlightsSame /\ ListingsOK' /\ TermsStood
         /\ Top \in Frame /\ FitsNow(Top) /\ Top.id < nextListingId
         /\ Top.id \in ListingIds /\ Top.op = "listing"
         /\ received' = [received EXCEPT ![Top.id] = @ + Top.got]
         /\ proceeds' = [proceeds EXCEPT ![Top.id] = @ + SellerPart(Top, Top.got)]
         /\ UNCHANGED <<marketVars, listings, nextListingId>>
         /\ \A op, j :
              /\ Weighed(UnloggedWeight(op, j), calls) \in Nat
              /\ Weighed(UnloggedWeight(op, j), calls') \in Nat
              /\ Weighed(UnloggedWeight(op, j), calls)
                   = Weighed(UnloggedWeight(op, j), calls')
                       + (IF op = "listing" /\ j = Top.id THEN Top.n ELSE 0)
<1> DEFINE f == Top
           id == f.id
           got == f.got
           part == SellerPart(f, got)
<1>1. /\ PayOut
      /\ received' = [received EXCEPT ![id] = @ + got]
      /\ proceeds' = [proceeds EXCEPT ![id] = @ + part]
      /\ swept' = IF f.sweep /\ Len(f.todo) = 1 THEN f.bill ELSE swept
      /\ UNCHANGED <<marketVars, listings, nextListingId, approved, nft, listed, sold>>
  BY DEF FinishOrder
<1>2. OffersSame
  BY <1>1 DEF OffersSame, BundlesSame
<1>3. /\ CoreOK' /\ FlightsSame /\ f \in Frame /\ FitsNow(f)
      /\ \A op, j :
              /\ Weighed(UnloggedWeight(op, j), calls) \in Nat
              /\ Weighed(UnloggedWeight(op, j), calls') \in Nat
              /\ Weighed(UnloggedWeight(op, j), calls)
                   = Weighed(UnloggedWeight(op, j), calls')
                       + (IF op = f.op /\ j = f.id THEN f.n ELSE 0)
  BY <1>1, <1>2, PayOutCore
<1>4. /\ f.op = "listing" /\ id \in ListingIds /\ id < nextListingId
      /\ f.fb = listings[id].fb /\ f.rs = listings[id].rs
      /\ got \in Nat
      /\ f.sweep => SweepFits(f, listings, nextListingId)
  BY <1>3, PaidOutListing
<1>5. /\ ListingsTyped /\ listings[id] \in ListingRecord
      /\ received \in [ListingIds -> Nat] /\ proceeds \in [ListingIds -> Nat]
  BY <1>4 DEF ListingsOK, HistoryTyped, CoreOK, ListingsTyped
<1>6. ListingGood(id)
  BY <1>4 DEF ListingsOK
<1>7. part \in Nat /\ BpsDenominator * part >= ShareOf(listings[id].fb, listings[id].rs) * got
  <2> DEFINE fb == listings[id].fb
             rs == listings[id].rs
  <2>1. FairTerms(fb, rs)
    BY <1>6 DEF ListingGood, GoodListing, Listing
  <2>2. fb \in Nat /\ rs \in Seq(Split) /\ f.fb = fb /\ f.rs = rs
    BY <1>4, <1>5 DEF ListingRecord
  <2> HIDE DEF fb, rs, f, id
  <2>3. /\ SellerPart(f, got) \in Nat
        /\ BpsDenominator * SellerPart(f, got) >= ShareOf(fb, rs) * got
    BY <1>4, <2>1, <2>2, PartOfSeller DEF id
  <2> QED
    BY <2>3 DEF fb, rs
<1> HIDE DEF f, id, got, part
<1>8. /\ received' \in [ListingIds -> Nat] /\ proceeds' \in [ListingIds -> Nat]
      /\ received'[id] = received[id] + got /\ proceeds'[id] = proceeds[id] + part
      /\ \A j \in ListingIds \ {id} :
           received'[j] = received[j] /\ proceeds'[j] = proceeds[j]
  BY <1>1, <1>4, <1>5, <1>7
<1>9. ASSUME NEW j \in ListingIds
      PROVE  ListingGood(j)'
  <2> DEFINE w == Weighed(FlightWeight(j), calls)
             l == listings[j]
             m == listed[j]
             k == sold[j]
             made == j < nextListingId
  <2>1. w' = w
    <3>1. Weighed(FlightWeight(j), calls)' = Weighed(FlightWeight(j), calls')
      BY DEF Weighed, FlightWeight
    <3> QED
      BY <1>3, <3>1 DEF FlightsSame
  <2>2. GoodListing(l, m, k, w, received[j], proceeds[j], made)
    BY DEF ListingsOK, ListingGood, Listing
  <2>3. l \in ListingRecord /\ received[j] \in Nat /\ proceeds[j] \in Nat
    BY <1>5 DEF ListingsTyped
  <2> HIDE DEF w, l, m, k
  <2>4. GoodListing(l, m, k, w, received'[j], proceeds'[j], made)
    <3>1. CASE j = id
      <4>1. made = TRUE
        BY <1>4, <3>1
      <4>2. BpsDenominator * part >= ShareOf(l.fb, l.rs) * got
        BY <1>7, <3>1 DEF l
      <4> HIDE DEF made
      <4>3. GoodListing(l, m, k, w, received[j], proceeds[j], TRUE)
        BY <2>2, <4>1
      <4>4. GoodListing(l, m, k, w, received[j] + got, proceeds[j] + part, TRUE)
        BY <1>4, <1>7, <2>3, <4>2, <4>3, GoodAfterPayout
      <4> QED
        BY <1>8, <3>1, <4>1, <4>4
    <3>2. CASE j # id
      BY <1>8, <2>2, <3>2
    <3> QED
      BY <3>1, <3>2
  <2> QED
    BY <1>1, <2>1, <2>4 DEF ListingGood, Listing, w, l, m, k
<1>10. swept' \in Bill /\ BillFits(swept')
  <2>1. CASE f.sweep /\ Len(f.todo) = 1
    <3>1. f.bill \in Bill
      BY <1>3, FrameParts
    <3>2. BillFits(f.bill)
      BY <1>3, <1>4, <1>5, <2>1, SweepBill
    <3> QED
      BY <1>1, <2>1, <3>1, <3>2
  <2>2. CASE ~(f.sweep /\ Len(f.todo) = 1)
    BY <1>1, <2>2 DEF ListingsOK, HistoryTyped
  <2> QED
    BY <2>1, <2>2
<1>11. HistoryTyped' /\ BillFits(swept)'
  BY <1>1, <1>8, <1>10 DEF ListingsOK, HistoryTyped, BillFits
<1>12. TermsStood
  <2>1. \A j \in ListingIds : Stands(listings[j], listings[j])
    BY <1>5, StandsStill DEF ListingsTyped
  <2>2. listings' = listings
    BY <1>1
  <2> QED
    BY <1>5, <2>1, <2>2, AllStood
<1>13. ListingsOK'
  BY <1>9, <1>11 DEF ListingsOK
<1> QED
  BY <1>1, <1>3, <1>4, <1>12, <1>13 DEF f, id, got, part

(* The other stages of a purchase, and its beginning. *)
LEMMA PurchaseKeeps ==
  ASSUME CoreOK, ListingsOK, BundlesSame,
         \/ \E arrived : TakePayment(arrived)
         \/ \E x \in Accounts, orders \in ListsOf(Orders) : BatchBuy(x, orders)
         \/ \E x \in Accounts, c \in Collections, ids \in ListsOf(ListingIds),
               budget \in Budgets : Sweep(x, c, ids, budget)
  PROVE  CoreOK' /\ FlightsSame /\ UnloggedSame /\ ListingsOK' /\ TermsStood
<1>1. UNCHANGED <<marketVars, listings, nextListingId, history, nft>>
  BY DEF TakePayment, BatchBuy, Sweep, Begin
<1>2. OffersSame /\ ListedActive
  BY <1>1, GoodListingsActive DEF OffersSame, BundlesSame
<1>3. CoreOK' /\ FlightsSame /\ UnloggedSame
  BY <1>2, TakePaymentCore, BatchBuyCore, SweepCore
<1> QED
  BY <1>1, <1>3, QuietListings

(* Approvals and trade outside the market. *)
LEMMA OutsideKeeps ==
  ASSUME CoreOK, ListingsOK, BundlesSame,
         \/ \E ix \in Allowances : SetApproval(ix[1], ix[2])
         \/ \E ixy \in OutsideTrades : TransferOutside(ixy[1], ixy[2], ixy[3])
  PROVE  CoreOK' /\ FlightsSame /\ UnloggedSame /\ ListingsOK' /\ TermsStood
<1>1. UNCHANGED <<marketVars, listings, nextListingId, calls, pool, history>>
  BY DEF SetApproval, TransferOutside
<1>2. MarketInv'
  BY <1>1, UnchangedMarketInv DEF CoreOK
<1>3. nft \in [Items -> [Holders -> Nat]] /\ approved \subseteq Items \X Accounts
      /\ pool \in [Tokens -> Nat]
  BY DEF CoreOK, GoodsTyped
<1>4. nft' \in [Items -> [Holders -> Nat]] /\ approved' \subseteq Items \X Accounts
  <2>1. ASSUME NEW ix \in Allowances, SetApproval(ix[1], ix[2])
        PROVE  nft' = nft /\ approved' \subseteq Items \X Accounts
    BY <1>3, <2>1, ApprovalAssumption DEF SetApproval, FlipApproval
  <2>2. ASSUME NEW ixy \in OutsideTrades, TransferOutside(ixy[1], ixy[2], ixy[3])
        PROVE  nft' \in [Items -> [Holders -> Nat]] /\ approved' = approved
    <3>1. ixy[1] \in Items /\ ixy[2] \in Holders /\ ixy[3] \in Holders
      BY CustodyAssumption DEF Holders
    <3>2. PICK n \in LotSizes :
            CanMove(ixy[1], ixy[2], n) /\ nft' = Move(ixy[1], ixy[2], ixy[3], n)
      BY <2>2 DEF TransferOutside
    <3>3. n \in Nat /\ ixy[2] # ixy[3] /\ approved' = approved
      BY <2>2, CustodyAssumption DEF TransferOutside
    <3> QED
      BY <1>3, <3>1, <3>2, <3>3, MoveBalances
  <2> QED
    BY <1>3, <2>1, <2>2
<1>5. GoodsTyped'
  BY <1>1, <1>3, <1>4 DEF GoodsTyped
<1>6. OffersSame
  BY <1>1 DEF OffersSame, BundlesSame
<1>7. CoreOK' /\ FlightsSame /\ UnloggedSame
  BY <1>1, <1>2, <1>5, <1>6, QuietCore
<1> QED
  BY <1>1, <1>7, QuietListings

(* Blocks and governance. *)
LEMMA BetweenKeeps ==
  ASSUME CoreOK, ListingsOK, MarketInv', UNCHANGED <<listingVars, bundleVars>>
  PROVE  CoreOK' /\ FlightsSame /\ UnloggedSame /\ ListingsOK' /\ TermsStood
<1>1. /\ UNCHANGED <<listings, nextListingId, calls, pool, history>>
      /\ approved' = approved /\ nft' = nft
      /\ UNCHANGED <<bundles, nextBundleId, buyers>>
  BY DEF listingVars, bundleVars
<1>2. GoodsTyped' /\ OffersSame
  BY <1>1 DEF CoreOK, GoodsTyped, OffersSame
<1>3. CoreOK' /\ FlightsSame /\ UnloggedSame
  BY <1>1, <1>2, QuietCore
<1> QED
  BY <1>1, <1>3, QuietListings

-----------------------------------------------------------------------------
(* What the purchases of bundles in progress owe.                          *)

(* The units of i that bundle purchase f has yet to hand over; B are the   *)
(* bundles.                                                                *)
StillOwed(B, f, i) ==
  Total([k \in DOMAIN B[f.id].its |->
    IF k > f.at /\ B[f.id].its[k].item = i THEN B[f.id].its[k].n ELSE 0])

(* Those that go to x, and those that x gives. *)
ComesTo(B, i, x) ==
  [f \in Frame |->
     IF f.op = "bundle" /\ f.id \in BundleIds /\ f.by = x THEN StillOwed(B, f, i) ELSE 0]

GoesFrom(B, i, x) ==
  [f \in Frame |->
     IF f.op = "bundle" /\ f.id \in BundleIds /\ B[f.id].s = x
     THEN StillOwed(B, f, i) ELSE 0]

(* A weight that only tells bundle purchases apart, by whom they are for   *)
(* and how far they are.                                                   *)
Tagging(V) ==
  /\ V \in [Frame -> Nat]
  /\ \A f \in Frame : f.op = "listing" => V[f] = 0
  /\ \A f, g \in Frame :
       f.op = g.op /\ f.id = g.id /\ f.by = g.by /\ f.at = g.at => V[f] = V[g]

(* Nothing that bundle purchases owe changes. *)
TagsSame == \A V : Tagging(V) => Weighed(V, calls') = Weighed(V, calls)

(* The items of a bundle. *)
LEMMA ItemsOf ==
  ASSUME NEW B \in [BundleIds -> BundleRecord], NEW id \in BundleIds
  PROVE  /\ B[id].its \in Seq(BundleItem) /\ Len(B[id].its) \in Nat
         /\ DOMAIN B[id].its = 1 .. Len(B[id].its) /\ IsFiniteSet(DOMAIN B[id].its)
         /\ \A k \in DOMAIN B[id].its :
              B[id].its[k].item \in Items /\ B[id].its[k].n \in Nat
<1> DEFINE its == B[id].its
<1>1. its \in Seq(BundleItem)
  <2>1. B[id] \in BundleRecord
    OBVIOUS
  <2> QED
    BY <2>1 DEF BundleRecord
<1> HIDE DEF its
<1>2. Len(its) \in Nat /\ DOMAIN its = 1 .. Len(its)
  BY <1>1
<1>3. IsFiniteSet(DOMAIN its)
  BY <1>2, FS_Interval
<1>4. \A k \in DOMAIN its : its[k].item \in Items /\ its[k].n \in Nat
  <2>1. \A k \in DOMAIN its : its[k] \in BundleItem
    BY <1>1, <1>2
  <2> QED
    BY <2>1 DEF BundleItem
<1> QED
  BY <1>1, <1>2, <1>3, <1>4 DEF its

(* They are numbers. *)
LEMMA OwedType ==
  ASSUME NEW B \in [BundleIds -> BundleRecord], NEW i,
         NEW f \in Frame, f.id \in BundleIds
  PROVE  StillOwed(B, f, i) \in Nat
<1> DEFINE its == B[f.id].its
           w == [k \in DOMAIN its |-> IF k > f.at /\ its[k].item = i THEN its[k].n ELSE 0]
<1>1. IsFiniteSet(DOMAIN its) /\ \A k \in DOMAIN its : its[k].n \in Nat
  BY ItemsOf
<1> HIDE DEF its
<1>2. w \in [DOMAIN its -> Nat]
  BY <1>1
<1> HIDE DEF w
<1>3. Total(w) \in Nat
  BY <1>1, <1>2, TotalType
<1> QED
  BY <1>3 DEF StillOwed, w, its

(* The two weights tell bundle purchases apart as they may. *)
LEMMA OwedTags ==
  ASSUME BundlesTyped, NEW i, NEW x
  PROVE  Tagging(ComesTo(bundles, i, x)) /\ Tagging(GoesFrom(bundles, i, x))
<1>1. bundles \in [BundleIds -> BundleRecord]
  BY DEF BundlesTyped
<1>2. \A f \in Frame : f.id \in BundleIds => StillOwed(bundles, f, i) \in Nat
  BY <1>1, OwedType
<1>3. ASSUME NEW f \in Frame, NEW g \in Frame, f.id = g.id, f.at = g.at
      PROVE  StillOwed(bundles, f, i) = StillOwed(bundles, g, i)
  BY <1>3 DEF StillOwed
<1> DEFINE C == ComesTo(bundles, i, x)
           G == GoesFrom(bundles, i, x)
<1>4. /\ C \in [Frame -> Nat] /\ G \in [Frame -> Nat]
      /\ \A f \in Frame :
           /\ C[f] = IF f.op = "bundle" /\ f.id \in BundleIds /\ f.by = x
                     THEN StillOwed(bundles, f, i) ELSE 0
           /\ G[f] = IF f.op = "bundle" /\ f.id \in BundleIds /\ bundles[f.id].s = x
                     THEN StillOwed(bundles, f, i) ELSE 0
  BY <1>2 DEF ComesTo, GoesFrom
<1> HIDE DEF C, G
<1>5. Tagging(C)
  BY <1>3, <1>4 DEF Tagging
<1>6. Tagging(G)
  BY <1>3, <1>4 DEF Tagging
<1> QED
  BY <1>5, <1>6 DEF C, G

(* At first a purchase owes the whole bundle. *)
LEMMA OwedAtFirst ==
  ASSUME BundlesTyped, NEW i, NEW f \in Frame, f.id \in BundleIds, f.at = 0
  PROVE  StillOwed(bundles, f, i) = UnitsOf(f.id, i)
<1> DEFINE its == bundles[f.id].its
           v == [k \in DOMAIN its |-> IF k > f.at /\ its[k].item = i THEN its[k].n ELSE 0]
           w == [k \in DOMAIN its |-> IF its[k].item = i THEN its[k].n ELSE 0]
<1>1. \A k \in DOMAIN its : k > f.at
  <2>1. DOMAIN its = 1 .. Len(its) /\ Len(its) \in Nat
    BY ItemsOf DEF BundlesTyped
  <2> QED
    BY <2>1
<1>2. v = w
  <2> HIDE DEF its
  <2> QED
    BY <1>1
<1>3. StillOwed(bundles, f, i) = Total(v) /\ UnitsOf(f.id, i) = Total(w)
  BY DEF StillOwed, UnitsOf, SumOver, Bundle
<1> QED
  BY <1>2, <1>3

(* In the end it owes nothing. *)
LEMMA OwedAtLast ==
  ASSUME BundlesTyped, NEW i, NEW f \in Frame, f.id \in BundleIds,
         f.at = Len(bundles[f.id].its)
  PROVE  StillOwed(bundles, f, i) = 0
<1> DEFINE its == bundles[f.id].its
           v == [k \in DOMAIN its |-> IF k > f.at /\ its[k].item = i THEN its[k].n ELSE 0]
<1>1. DOMAIN its = 1 .. Len(its) /\ Len(its) \in Nat
  BY ItemsOf DEF BundlesTyped
<1>2. \A k \in DOMAIN its : ~(k > f.at)
  <2> HIDE DEF its
  <2> QED
    BY <1>1 DEF its
<1>3. v = [k \in DOMAIN its |-> 0]
  <2> HIDE DEF its
  <2> QED
    BY <1>2
<1>4. StillOwed(bundles, f, i) = Total(v)
  BY DEF StillOwed
<1> HIDE DEF v
<1> QED
  BY <1>3, <1>4, TotalZero

(* And with every item it owes that much less. *)
LEMMA OwedNext ==
  ASSUME BundlesTyped, NEW i, NEW f \in Frame, NEW g \in Frame, f.id \in BundleIds,
         f.at < Len(bundles[f.id].its), g.id = f.id, g.at = f.at + 1
  PROVE  /\ bundles[f.id].its[f.at + 1].item \in Items
         /\ bundles[f.id].its[f.at + 1].n \in Nat
         /\ StillOwed(bundles, f, i)
              = StillOwed(bundles, g, i)
                  + (IF bundles[f.id].its[f.at + 1].item = i
                     THEN bundles[f.id].its[f.at + 1].n ELSE 0)
<1> DEFINE its == bundles[f.id].its
           S == DOMAIN its
           at == f.at
           v == [k \in S |-> IF k > at /\ its[k].item = i THEN its[k].n ELSE 0]
           w == [k \in S |-> IF k > at + 1 /\ its[k].item = i THEN its[k].n ELSE 0]
           n == IF its[at + 1].item = i THEN its[at + 1].n ELSE 0
<1>1. /\ S = 1 .. Len(its) /\ Len(its) \in Nat /\ IsFiniteSet(S)
      /\ \A k \in S : its[k].item \in Items /\ its[k].n \in Nat
  BY ItemsOf DEF BundlesTyped
<1>2. at \in Nat
  BY FrameParts
<1>3. StillOwed(bundles, f, i) = Total(v) /\ StillOwed(bundles, g, i) = Total(w)
  BY DEF StillOwed
<1>4. at < Len(its)
  OBVIOUS
<1> HIDE DEF its, at
<1>5. at + 1 \in S
  BY <1>1, <1>2, <1>4
<1> HIDE DEF S
<1>6. v \in [S -> Nat] /\ w \in [S -> Nat] /\ n \in Nat
  BY <1>1, <1>5
<1>7. w[at + 1] = 0 /\ v[at + 1] = n
  BY <1>2, <1>5
<1>8. \A k \in S \ {at + 1} : v[k] = w[k]
  <2>1. ASSUME NEW k \in S \ {at + 1}
        PROVE  k > at <=> k > at + 1
    <3>1. k \in Nat
      BY <1>1 DEF S
    <3> QED
      BY <1>2, <3>1
  <2> QED
    BY <2>1
<1> HIDE DEF v, w, n
<1>9. Total(v) = Total(w) + n
  <2> DEFINE y == at + 1
  <2>1. IsFiniteSet(S) /\ y \in S /\ w[y] = 0 /\ v[y] = n
    BY <1>1, <1>5, <1>7
  <2>2. \A k \in S \ {y} : v[k] = w[k]
    BY <1>8
  <2> HIDE DEF y
  <2> QED
    BY <1>6, <2>1, <2>2, TotalAdds
<1> QED
  BY <1>1, <1>3, <1>5, <1>9 DEF n, its, at

(* What is owed does not hang on the bundles that are not being bought.    *)
LEMMA OwedStays ==
  ASSUME CoreOK, NEW B \in [BundleIds -> BundleRecord], NEW i, NEW x,
         \A id \in BundleIds :
           id < nextBundleId => B[id].its = bundles[id].its /\ B[id].s = bundles[id].s
  PROVE  /\ Weighed(ComesTo(B, i, x), calls) = Weighed(ComesTo(bundles, i, x), calls)
         /\ Weighed(GoesFrom(B, i, x), calls) = Weighed(GoesFrom(bundles, i, x), calls)
<1>1. calls \in Seq(Frame) /\ FramesOK
  BY DEF CoreOK, StackOK, CallsTyped
<1>2. ASSUME NEW k \in DOMAIN calls
      PROVE  /\ ComesTo(B, i, x)[calls[k]] = ComesTo(bundles, i, x)[calls[k]]
             /\ GoesFrom(B, i, x)[calls[k]] = GoesFrom(bundles, i, x)[calls[k]]
  <2> DEFINE f == calls[k]
  <2>1. f \in Frame /\ FitsNow(f)
    BY <1>1 DEF FramesOK
  <2>2. f.op = "bundle" => f.id < nextBundleId
    BY <2>1 DEF FitsNow, FrameFits, BundleFits
  <2> HIDE DEF f
  <2>3. f.op = "bundle" /\ f.id \in BundleIds =>
          /\ StillOwed(B, f, i) = StillOwed(bundles, f, i)
          /\ B[f.id].s = bundles[f.id].s
    BY <2>2 DEF StillOwed
  <2>4. /\ ComesTo(B, i, x)[f] = ComesTo(bundles, i, x)[f]
        /\ GoesFrom(B, i, x)[f] = GoesFrom(bundles, i, x)[f]
    BY <2>1, <2>3 DEF ComesTo, GoesFrom
  <2> QED
    BY <2>4 DEF f
<1> DEFINE C == ComesTo(B, i, x)
           C2 == ComesTo(bundles, i, x)
           G == GoesFrom(B, i, x)
           G2 == GoesFrom(bundles, i, x)
<1>3. \A k \in DOMAIN calls : C[calls[k]] = C2[calls[k]] /\ G[calls[k]] = G2[calls[k]]
  BY <1>2
<1> HIDE DEF C, C2, G, G2
<1>4. Weighed(C, calls) = Weighed(C2, calls) /\ Weighed(G, calls) = Weighed(G2, calls)
  BY <1>1, <1>3, WeighedSame
<1> QED
  BY <1>4 DEF C, C2, G, G2

-----------------------------------------------------------------------------
(* The steps in which purchases of bundles owe what they owed.             *)

(* The stack stays. *)
LEMMA TagsStay ==
  ASSUME calls' = calls
  PROVE  TagsSame
BY DEF TagsSame

(* The innermost purchase goes on, or a purchase of a listing ends.        *)
LEMMA TagsTurn ==
  ASSUME CoreOK, ~Idle, NEW h \in Frame, NEW on \in BOOLEAN,
         calls' = (IF on THEN Append(Outer, h) ELSE Outer),
         \/ Top.op = "listing" /\ h.op = "listing"
         \/ on /\ h.op = Top.op /\ h.id = Top.id /\ h.by = Top.by /\ h.at = Top.at
  PROVE  TagsSame
<1> SUFFICES ASSUME NEW V, Tagging(V)
             PROVE  Weighed(V, calls') = Weighed(V, calls)
  BY DEF TagsSame
<1>1. Top \in Frame /\ V \in [Frame -> Nat]
  BY TopFits DEF Tagging
<1>2. V[Top] = (IF on THEN V[h] ELSE 0) + 0
  <2>1. V[Top] \in Nat
    BY <1>1
  <2>2. V[Top] = IF on THEN V[h] ELSE 0
    BY <1>1 DEF Tagging
  <2> QED
    BY <2>1, <2>2
<1>3. Weighed(V, calls) = Weighed(V, calls') + 0 /\ Weighed(V, calls') \in Nat
  BY <1>1, <1>2, TurnKeepsWeight
<1> QED
  BY <1>3

(* A purchase of a listing starts. *)
LEMMA TagsEnter ==
  ASSUME CoreOK, NEW g \in Frame, g.op = "listing", calls' = Append(calls, g)
  PROVE  TagsSame
<1> SUFFICES ASSUME NEW V, Tagging(V)
             PROVE  Weighed(V, calls') = Weighed(V, calls)
  BY DEF TagsSame
<1>1. V \in [Frame -> Nat] /\ V[g] = 0
  BY DEF Tagging
<1>2. Weighed(V, calls) \in Nat /\ Weighed(V, calls') = Weighed(V, calls) + V[g]
  BY <1>1, EntersAddsWeight
<1> QED
  BY <1>1, <1>2

(* Prices that go up under a sweep. *)
LEMMA TagsNoted ==
  ASSUME CoreOK, NEW D \in [DOMAIN calls -> BOOLEAN],
         calls' = [k \in DOMAIN calls |-> Raise(calls[k], D[k])]
  PROVE  TagsSame
<1> SUFFICES ASSUME NEW V, Tagging(V)
             PROVE  Weighed(V, calls') = Weighed(V, calls)
  BY DEF TagsSame
<1>1. CallsTyped
  BY DEF CoreOK, StackOK
<1>2. ASSUME NEW f \in Frame, NEW r \in BOOLEAN
      PROVE  V[Raise(f, r)] = V[f]
  <2> DEFINE g == Raise(f, r)
  <2>1. g \in Frame /\ g.op = f.op /\ g.id = f.id /\ g.by = f.by /\ g.at = f.at
    BY RaiseFields
  <2> HIDE DEF g
  <2>2. V[g] = V[f]
    BY <2>1 DEF Tagging
  <2> QED
    BY <2>2 DEF g
<1> QED
  BY <1>1, <1>2, RaisedWeighs

(* The innermost purchase has made a call: it goes on, or it was one of a  *)
(* listing.                                                                *)
LEMMA TagsReturn ==
  ASSUME CoreOK, ~Idle, NEW f \in Frame, f.todo # <<>>, Returned(f),
         f.op = Top.op, f.id = Top.id, f.by = Top.by, f.at = Top.at,
         Top.op = "listing" \/ Len(f.todo) # 1
  PROVE  TagsSame
<1> DEFINE h == After(f)
           on == Len(f.todo) # 1
<1>1. h \in Frame /\ h.op = f.op /\ h.id = f.id /\ h.by = f.by /\ h.at = f.at
  BY AfterFields
<1>2. calls' = (IF on THEN Append(Outer, h) ELSE Outer)
  BY ReturnTurns
<1>3. on \in BOOLEAN
  OBVIOUS
<1>4. \/ Top.op = "listing" /\ h.op = "listing"
      \/ on /\ h.op = Top.op /\ h.id = Top.id /\ h.by = Top.by /\ h.at = Top.at
  BY <1>1
<1> HIDE DEF h, on
<1> QED
  BY <1>1, <1>2, <1>3, <1>4, TagsTurn

(* A payment arrives. *)
LEMMA TakePaymentTags ==
  ASSUME CoreOK, NEW arrived, TakePayment(arrived)
  PROVE  TagsSame
<1> DEFINE f == Top
           g == PaidFrame(f, arrived)
<1>1. /\ Pay(arrived) /\ ~Idle /\ Head(f.todo) = "pay" /\ Returned(g)
  BY DEF TakePayment, Pay, PaidFrame
<1>2. f \in Frame /\ FitsNow(f) /\ BundlesTyped
  BY <1>1, TopFits DEF CoreOK
<1>3. arrived \in Nat /\ Credited(f, arrived) = arrived
  BY <1>1, PaymentMeasured
<1>4. f.todo # <<>> /\ Len(f.todo) # 1
  BY <1>1, <1>2, FrameStages
<1>5. /\ g \in Frame /\ g.todo = f.todo /\ g.op = f.op /\ g.id = f.id /\ g.by = f.by
      /\ g.at = f.at
  BY <1>2, <1>3, PaidFields
<1> HIDE DEF g
<1> QED
  BY <1>1, <1>4, <1>5, TagsReturn

(* The units of an order move, or its payment is divided. *)
LEMMA OrderTags ==
  ASSUME CoreOK, GiveUnits \/ FinishOrder
  PROVE  TagsSame
<1>1. ~Idle /\ Top.op = "listing" /\ Returned(Top)
  BY DEF GiveUnits, FinishOrder, InProgress, PayOut
<1>2. Top \in Frame /\ Top.todo # <<>>
  BY <1>1, TopFits
<1> QED
  BY <1>1, <1>2, TagsReturn

(* An order has its turn. *)
LEMMA NextOrderTags ==
  ASSUME CoreOK, NextOrder, Ordered \in Order
  PROVE  TagsSame
<1> DEFINE f == Top
           o == Ordered
           h == Buying(f, o)
           on == TRUE
<1>1. /\ ~Idle /\ f.op = "listing" /\ Head(f.todo) = "next" /\ Orderable(f.by, o)
      /\ calls' = Append(Outer, h)
  BY DEF NextOrder, InProgress, Ordered
<1>2. f \in Frame /\ FitsNow(f)
  BY <1>1, TopFits
<1>3. ListingsTyped /\ BundlesTyped /\ pool \in [Tokens -> Nat]
  BY DEF CoreOK, GoodsTyped
<1>4. OrderFits(f, listings, nextListingId)
  BY <1>1, <1>2 DEF FitsNow, FrameFits
<1>5. f.at < Len(f.orders)
  <2>1. f.todo = <<"next">>
    BY <1>1, <1>2, <1>3, FrameStages
  <2>2. "next" \in ToSet(<<"next">>)
    BY DEF ToSet
  <2> QED
    BY <1>4, <2>1, <2>2 DEF OrderFits
<1>6. h \in Frame /\ h.op = "listing"
  <2> HIDE DEF f, o
  <2>1. o \in Order
    BY DEF o
  <2> QED
    BY <1>1, <1>2, <1>3, <1>5, <2>1, BuyingFields
<1>7. on \in BOOLEAN /\ calls' = (IF on THEN Append(Outer, h) ELSE Outer)
  BY <1>1
<1> HIDE DEF h, on
<1> QED
  BY <1>1, <1>6, <1>7, TagsTurn

(* A purchase of listings begins. *)
LEMMA BeginTags ==
  ASSUME CoreOK,
         \/ \E x \in Accounts, orders \in ListsOf(Orders) : BatchBuy(x, orders)
         \/ \E x \in Accounts, c \in Collections, ids \in ListsOf(ListingIds),
               budget \in Budgets : Sweep(x, c, ids, budget)
  PROVE  TagsSame
<1>1. ListingsTyped
  BY DEF CoreOK
<1>2. ASSUME NEW x \in Accounts, NEW orders \in ListsOf(Orders), BatchBuy(x, orders)
      PROVE  TagsSame
  <2> DEFINE g == Started(x, orders)
  <2>1. orders \in Seq(Order) /\ orders # <<>>
    <3>1. orders \in Seq(Orders) /\ orders # <<>>
      BY ListsAreSeqs
    <3> QED
      BY <3>1, ListingAssumption
  <2>2. g \in Frame /\ g.op = "listing"
    BY <1>1, <2>1, StartedFields
  <2>3. calls' = Append(calls, g)
    BY <1>2 DEF BatchBuy, Begin, Enter
  <2> HIDE DEF g
  <2> QED
    BY <2>2, <2>3, TagsEnter
<1>3. ASSUME NEW x \in Accounts, NEW c \in Collections, NEW ids \in ListsOf(ListingIds),
             NEW budget \in Budgets, Sweep(x, c, ids, budget)
      PROVE  TagsSame
  <2> DEFINE orders == WholeListings(ids)
             f == Started(x, orders)
             total == SweepTotal(ids)
             g == Sweeping(f, budget, total)
  <2>1. ids \in Seq(ListingIds) /\ ids # <<>> /\ budget \in Nat
    BY ListsAreSeqs, ListingAssumption
  <2>2. orders \in Seq(Order) /\ Len(orders) = Len(ids) /\ total \in Nat
    BY <1>1, <2>1, FirstPassTotal
  <2>3. orders # <<>>
    BY <2>1, <2>2
  <2>4. calls' = Append(calls, g)
    BY <1>3 DEF Sweep, Begin, Enter, Sweeping
  <2> HIDE DEF orders, total
  <2>5. f \in Frame /\ f.op = "listing"
    BY <1>1, <2>2, <2>3, StartedFields
  <2> HIDE DEF f
  <2>6. g \in Frame /\ g.op = "listing"
    BY <2>1, <2>2, <2>5, SweepingFields
  <2> HIDE DEF g
  <2> QED
    BY <2>4, <2>6, TagsEnter
<1> QED
  BY <1>2, <1>3

(* A price is changed. *)
LEMMA UpdateListingTags ==
  ASSUME CoreOK, NEW id \in ListingIds, NEW p \in UnitPrices, UpdateListing(id, p)
  PROVE  TagsSame
<1> DEFINE dearer(f) == f.sweep /\ p > Listing(id).p /\ StillToBuy(f, id)
           D == [k \in DOMAIN calls |-> dearer(calls[k])]
<1>1. calls' = [k \in DOMAIN calls |->
           [calls[k] EXCEPT !.bill.raised = @ \/ dearer(calls[k])]]
  BY DEF UpdateListing
<1>2. calls' = [k \in DOMAIN calls |-> Raise(calls[k], D[k])]
  BY <1>1 DEF Raise
<1>3. \A k \in DOMAIN calls : calls[k] \in Frame
  BY DEF CoreOK, StackOK, CallsTyped
<1>4. D \in [DOMAIN calls -> BOOLEAN]
  <2>1. ASSUME NEW k \in DOMAIN calls
        PROVE  dearer(calls[k]) \in BOOLEAN
    <3>1. calls[k].sweep \in BOOLEAN
      BY <1>3, FrameParts
    <3> QED
      BY <3>1
  <2> HIDE DEF dearer
  <2> QED
    BY <2>1
<1> HIDE DEF D
<1> QED
  BY <1>2, <1>4, TagsNoted

-----------------------------------------------------------------------------
(* Bundles, and who bought them.                                           *)

(* What is true of a bundle, its buyers and u purchases of it in progress. *)
GoodBundle(b, bought, u, made) ==
  /\ FairTerms(b.fb, b.rs)
  /\ u <= Len(bought) /\ Len(bought) <= 1
  /\ b.act => bought = <<>> /\ b.s # NoAccount
  /\ ~made => ~b.act /\ bought = <<>> /\ b.s = NoAccount

BundleGood(id) ==
  GoodBundle(Bundle(id), buyers[id], Weighed(UnloggedWeight("bundle", id), calls),
             id < nextBundleId)

ElsewhereTyped == elsewhere \in [Items -> [Accounts -> Int]]

(* What every account has and is owed, and where it came from. *)
UnitsTraced ==
  \A i \in Items, x \in Accounts :
    nft[i][x] + Weighed(ComesTo(bundles, i, x), calls)
      = MintedTo[i][x] + elsewhere[i][x] + FromBundles(i, x)
          + Weighed(GoesFrom(bundles, i, x), calls)

BundlesOK == ElsewhereTyped /\ (\A id \in BundleIds : BundleGood(id)) /\ UnitsTraced

(* Only a bundle that was listed and not bought is on. *)
LEMMA GoodBundlesActive ==
  ASSUME BundlesOK
  PROVE  BundledActive
BY DEF BundlesOK, BundleGood, GoodBundle, BundledActive, Bundle

(* The units of an item in a bundle are a natural number. *)
LEMMA UnitsOfType ==
  ASSUME BundlesTyped, NEW id \in BundleIds, NEW i
  PROVE  UnitsOf(id, i) \in Nat
<1> DEFINE its == bundles[id].its
           f == [k \in DOMAIN its |-> IF its[k].item = i THEN its[k].n ELSE 0]
<1>1. IsFiniteSet(DOMAIN its) /\ \A k \in DOMAIN its : its[k].n \in Nat
  BY ItemsOf DEF BundlesTyped
<1> HIDE DEF its
<1>2. f \in [DOMAIN its -> Nat]
  BY <1>1
<1>3. UnitsOf(id, i) = Total(f)
  BY DEF UnitsOf, SumOver, Bundle, its
<1> HIDE DEF f
<1> QED
  BY <1>1, <1>2, <1>3, TotalType

(* The two sums of FromBundles. *)
BoughtBy(id, x) == \E k \in DOMAIN buyers[id] : buyers[id][k] = x

Got(i, x) == [id \in BundleIds |-> IF BoughtBy(id, x) THEN UnitsOf(id, i) ELSE 0]

Gave(i, x) ==
  [id \in BundleIds |-> IF x = Bundle(id).s /\ buyers[id] # <<>> THEN UnitsOf(id, i) ELSE 0]

(* They are natural numbers, and FromBundles is their difference. *)
LEMMA FromBundlesType ==
  ASSUME BundlesTyped, NEW i, NEW x
  PROVE  /\ Got(i, x) \in [BundleIds -> Nat] /\ Gave(i, x) \in [BundleIds -> Nat]
         /\ Total(Got(i, x)) \in Nat /\ Total(Gave(i, x)) \in Nat
         /\ FromBundles(i, x) = Total(Got(i, x)) - Total(Gave(i, x))
<1>1. Got(i, x) \in [BundleIds -> Nat] /\ Gave(i, x) \in [BundleIds -> Nat]
  BY UnitsOfType DEF Got, Gave
<1>2. IsFiniteSet(BundleIds)
  BY FS_Interval, BundleAssumption DEF BundleIds
<1>3. Total(Got(i, x)) \in Nat /\ Total(Gave(i, x)) \in Nat
  BY <1>1, <1>2, TotalType
<1>4. FromBundles(i, x) = Total(Got(i, x)) - Total(Gave(i, x))
  BY DEF FromBundles, Got, Gave, BoughtBy
<1> QED
  BY <1>1, <1>3, <1>4

(* Nobody gets or gives anything in a step without a buyer that leaves the *)
(* contents of bundles that have been bought as they are.                  *)
LEMMA FromBundlesStays ==
  ASSUME BundlesTyped, buyers' = buyers, NEW i, NEW x,
         \A id \in BundleIds :
           buyers[id] # <<>> => /\ bundles'[id].its = bundles[id].its
                               /\ bundles'[id].s = bundles[id].s
  PROVE  FromBundles(i, x)' = FromBundles(i, x)
<1>1. ASSUME NEW id \in BundleIds, buyers[id] # <<>>
      PROVE  UnitsOf(id, i)' = UnitsOf(id, i) /\ Bundle(id)'.s = Bundle(id).s
  BY <1>1 DEF UnitsOf, SumOver, Bundle
<1>2. ASSUME NEW id \in BundleIds, buyers[id] = <<>>
      PROVE  ~BoughtBy(id, x)
  BY <1>2 DEF BoughtBy
<1>3. Got(i, x)' = Got(i, x)
  <2>1. ASSUME NEW id \in BundleIds
        PROVE  BoughtBy(id, x)' = BoughtBy(id, x)
    BY DEF BoughtBy
  <2>2. ASSUME NEW id \in BundleIds
        PROVE  (IF BoughtBy(id, x) THEN UnitsOf(id, i) ELSE 0)'
                 = IF BoughtBy(id, x) THEN UnitsOf(id, i) ELSE 0
    BY <1>1, <1>2, <2>1
  <2> QED
    BY <2>2 DEF Got
<1>4. Gave(i, x)' = Gave(i, x)
  <2>1. ASSUME NEW id \in BundleIds
        PROVE  (IF x = Bundle(id).s /\ buyers[id] # <<>> THEN UnitsOf(id, i) ELSE 0)'
                 = IF x = Bundle(id).s /\ buyers[id] # <<>> THEN UnitsOf(id, i) ELSE 0
    BY <1>1
  <2> QED
    BY <2>1 DEF Gave
<1>5. FromBundles(i, x)' = Total(Got(i, x))' - Total(Gave(i, x))'
  BY DEF FromBundles, Got, Gave, BoughtBy
<1>6. FromBundles(i, x) = Total(Got(i, x)) - Total(Gave(i, x))
  BY DEF FromBundles, Got, Gave, BoughtBy
<1> QED
  BY <1>3, <1>4, <1>5, <1>6

(* What the purchases in progress of bundles owe to x, and owe for x. *)
Due(i, x) == Weighed(ComesTo(bundles, i, x), calls)

DueFrom(i, x) == Weighed(GoesFrom(bundles, i, x), calls)

(* They are numbers. *)
LEMMA DueType ==
  ASSUME CoreOK, NEW i, NEW x
  PROVE  Due(i, x) \in Nat /\ DueFrom(i, x) \in Nat
<1>1. calls \in Seq(Frame) /\ BundlesTyped
  BY DEF CoreOK, StackOK, CallsTyped
<1>2. ComesTo(bundles, i, x) \in [Frame -> Nat] /\ GoesFrom(bundles, i, x) \in [Frame -> Nat]
  BY <1>1, OwedTags DEF Tagging
<1> QED
  BY <1>1, <1>2, WeighedType DEF Due, DueFrom

(* After a step. *)
LEMMA DueNext ==
  ASSUME NEW i, NEW x
  PROVE  /\ Due(i, x)' = Weighed(ComesTo(bundles', i, x), calls')
         /\ DueFrom(i, x)' = Weighed(GoesFrom(bundles', i, x), calls')
BY DEF Due, DueFrom, Weighed, ComesTo, GoesFrom, StillOwed

(* The units of UnitsTraced. *)
LEMMA TracedAs ==
  UnitsTraced <=>
    \A i \in Items, x \in Accounts :
      nft[i][x] + Due(i, x)
        = MintedTo[i][x] + elsewhere[i][x] + FromBundles(i, x) + DueFrom(i, x)
BY DEF UnitsTraced, Due, DueFrom

(* What is not sold in bundles goes by. *)
LEMMA QuietBundles ==
  ASSUME BundlesOK, CoreOK, CoreOK', BundlesSame, TagsSame,
         \A id : Weighed(UnloggedWeight("bundle", id), calls')
                   = Weighed(UnloggedWeight("bundle", id), calls),
         \/ elsewhere' = elsewhere /\ nft' = nft
         \/ BesidesBundles
  PROVE  BundlesOK'
<1>1. nft \in [Items -> [Holders -> Nat]] /\ nft' \in [Items -> [Holders -> Nat]]
  BY DEF CoreOK, GoodsTyped
<1>2. elsewhere \in [Items -> [Accounts -> Int]] /\ BundlesTyped
  BY DEF BundlesOK, ElsewhereTyped, CoreOK
<1>3. /\ elsewhere' \in [Items -> [Accounts -> Int]]
      /\ \A i \in Items, x \in Accounts :
           elsewhere'[i][x] = elsewhere[i][x] + nft'[i][x] - nft[i][x]
  <2>1. CASE elsewhere' = elsewhere /\ nft' = nft
    <3>1. \A i \in Items, x \in Accounts : nft[i][x] \in Nat /\ elsewhere[i][x] \in Int
      BY <1>1, <1>2 DEF Holders
    <3> QED
      BY <1>2, <2>1, <3>1
  <2>2. CASE BesidesBundles
    <3>1. elsewhere' = [i \in Items |-> [x \in Accounts |->
            elsewhere[i][x] + nft'[i][x] - nft[i][x]]]
      BY <2>2 DEF BesidesBundles
    <3>2. \A i \in Items, x \in Accounts :
            elsewhere[i][x] + nft'[i][x] - nft[i][x] \in Int
      BY <1>1, <1>2 DEF Holders
    <3> QED
      BY <3>1, <3>2
  <2> QED
    BY <2>1, <2>2
<1>4. ElsewhereTyped'
  BY <1>3 DEF ElsewhereTyped
<1>5. bundles' = bundles /\ nextBundleId' = nextBundleId /\ buyers' = buyers
  BY DEF BundlesSame
<1>6. ASSUME NEW id \in BundleIds
      PROVE  BundleGood(id)'
  <2> DEFINE u == Weighed(UnloggedWeight("bundle", id), calls)
  <2>1. u' = u
    <3>1. u' = Weighed(UnloggedWeight("bundle", id), calls')
      BY DEF Weighed, UnloggedWeight
    <3> QED
      BY <3>1
  <2>2. GoodBundle(bundles[id], buyers[id], u, id < nextBundleId)
    BY DEF BundlesOK, BundleGood, Bundle
  <2> HIDE DEF u
  <2> QED
    BY <1>5, <2>1, <2>2 DEF BundleGood, Bundle, u
<1>7. ASSUME NEW i \in Items, NEW x \in Accounts
      PROVE  nft'[i][x] + Due(i, x)'
               = MintedTo[i][x] + elsewhere'[i][x] + FromBundles(i, x)' + DueFrom(i, x)'
  <2> DEFINE m == MintedTo[i][x]
             a == nft[i][x]
             b == nft'[i][x]
             e == elsewhere[i][x]
             f == FromBundles(i, x)
             p == Due(i, x)
             q == DueFrom(i, x)
  <2>1. a + p = m + e + f + q /\ elsewhere'[i][x] = e + b - a
    BY <1>3, TracedAs DEF BundlesOK
  <2>2. a \in Nat /\ b \in Nat /\ m \in Nat /\ e \in Int
    BY <1>1, <1>2, CustodyAssumption DEF Holders
  <2>3. f \in Int /\ p \in Nat /\ q \in Nat
    BY <1>2, FromBundlesType, DueType
  <2>4. FromBundles(i, x)' = f
    BY <1>2, <1>5, FromBundlesStays
  <2>5. Due(i, x)' = p /\ DueFrom(i, x)' = q
    <3>1. /\ Weighed(ComesTo(bundles, i, x), calls') = p
          /\ Weighed(GoesFrom(bundles, i, x), calls') = q
      BY <1>2, OwedTags DEF TagsSame, Due, DueFrom
    <3>2. Due(i, x)' = Weighed(ComesTo(bundles', i, x), calls')
      BY DueNext
    <3>3. DueFrom(i, x)' = Weighed(GoesFrom(bundles', i, x), calls')
      BY DueNext
    <3> HIDE DEF p, q
    <3> QED
      BY <1>5, <3>1, <3>2, <3>3
  <2>6. b + p = m + (e + b - a) + f + q
    <3> HIDE DEF m, a, b, e, f, p, q
    <3> QED
      BY <2>1, <2>2, <2>3
  <2> HIDE DEF f, p, q
  <2> QED
    BY <2>1, <2>4, <2>5, <2>6
<1>8. UnitsTraced'
  BY <1>7 DEF UnitsTraced, Due, DueFrom
<1> QED
  BY <1>4, <1>6, <1>8 DEF BundlesOK

(* A bundle that is not on offer yet, or no longer, changes nobody's units. *)
LEMMA OffMarket ==
  ASSUME CoreOK, ListingsOK, BundlesOK, BundlesTyped', nextBundleId' >= nextBundleId,
         UNCHANGED <<marketVars, listingVars, elsewhere, buyers>>,
         \A id \in BundleIds :
           GoodBundle(bundles'[id], buyers[id], Weighed(UnloggedWeight("bundle", id), calls),
                      id < nextBundleId'),
         \A id \in BundleIds :
           id < nextBundleId => /\ bundles'[id].its = bundles[id].its
                                /\ bundles'[id].s = bundles[id].s
  PROVE  CoreOK' /\ FlightsSame /\ UnloggedSame /\ ListingsOK' /\ BundlesOK' /\ TermsStood
<1>1. /\ UNCHANGED <<listings, nextListingId, history>>
      /\ calls' = calls /\ pool' = pool /\ nft' = nft /\ approved' = approved
      /\ elsewhere' = elsewhere /\ buyers' = buyers
  BY DEF listingVars
<1>2. ListingsTyped /\ BundlesTyped /\ GoodsTyped /\ MarketInv
  BY DEF CoreOK
<1>3. MarketInv' /\ ListingsTyped' /\ GoodsTyped'
  BY <1>1, <1>2, UnchangedMarketInv DEF ListingsTyped, GoodsTyped
<1>4. Growing /\ CostsFall
  <2>1. nextListingId \in Nat /\ nextBundleId' \in Nat
    BY <1>2, CountsType, BundleAssumption DEF BundlesTyped
  <2>2. Growing
    BY <1>1, <2>1 DEF Growing
  <2>3. \A j \in ListingIds : listings[j] \in ListingRecord
    BY <1>2 DEF ListingsTyped
  <2>4. listings' = listings
    BY <1>1
  <2>5. CostsFall
    BY <2>3, <2>4, CostOfListing DEF CostsFall
  <2> QED
    BY <2>2, <2>5
<1>5. CoreOK' /\ FlightsSame /\ UnloggedSame
  BY <1>1, <1>3, <1>4, OffersCore
<1>6. ListingsOK' /\ TermsStood
  BY <1>1, <1>5, QuietListings
<1>7. \A id \in BundleIds :
        buyers[id] # <<>> => /\ bundles'[id].its = bundles[id].its
                            /\ bundles'[id].s = bundles[id].s
  BY DEF BundlesOK, BundleGood, GoodBundle
<1>8. ASSUME NEW i \in Items, NEW x \in Accounts
      PROVE  nft'[i][x] + Due(i, x)'
               = MintedTo[i][x] + elsewhere'[i][x] + FromBundles(i, x)' + DueFrom(i, x)'
  <2> DEFINE B == bundles'
  <2>1. FromBundles(i, x)' = FromBundles(i, x)
    BY <1>1, <1>2, <1>7, FromBundlesStays
  <2>2. B \in [BundleIds -> BundleRecord]
    BY DEF BundlesTyped
  <2>3. \A id \in BundleIds :
          id < nextBundleId => B[id].its = bundles[id].its /\ B[id].s = bundles[id].s
    OBVIOUS
  <2>4. Due(i, x)' = Weighed(ComesTo(B, i, x), calls)
    <3>1. Due(i, x)' = Weighed(ComesTo(bundles', i, x), calls')
      BY DueNext
    <3> QED
      BY <1>1, <3>1
  <2>5. DueFrom(i, x)' = Weighed(GoesFrom(B, i, x), calls)
    <3>1. DueFrom(i, x)' = Weighed(GoesFrom(bundles', i, x), calls')
      BY DueNext
    <3> QED
      BY <1>1, <3>1
  <2> HIDE DEF B
  <2>6. /\ Weighed(ComesTo(B, i, x), calls) = Due(i, x)
        /\ Weighed(GoesFrom(B, i, x), calls) = DueFrom(i, x)
    BY <2>2, <2>3, OwedStays DEF Due, DueFrom
  <2>7. nft[i][x] + Due(i, x)
          = MintedTo[i][x] + elsewhere[i][x] + FromBundles(i, x) + DueFrom(i, x)
    BY TracedAs DEF BundlesOK
  <2> QED
    BY <1>1, <2>1, <2>4, <2>5, <2>6, <2>7
<1>9. UnitsTraced'
  BY <1>8 DEF UnitsTraced, Due, DueFrom
<1>10. ASSUME NEW id \in BundleIds
       PROVE  BundleGood(id)'
  <2> DEFINE u == Weighed(UnloggedWeight("bundle", id), calls)
  <2>1. u' = u
    BY <1>1 DEF Weighed, UnloggedWeight
  <2>2. GoodBundle(bundles'[id], buyers[id], u, id < nextBundleId')
    OBVIOUS
  <2> HIDE DEF u
  <2> QED
    BY <1>1, <2>1, <2>2 DEF BundleGood, Bundle, u
<1>11. ElsewhereTyped'
  BY <1>1 DEF BundlesOK, ElsewhereTyped
<1> QED
  BY <1>5, <1>6, <1>9, <1>10, <1>11 DEF BundlesOK

(* listBundle. *)
LEMMA ListBundleKeeps ==
  ASSUME CoreOK, ListingsOK, BundlesOK, NEW s \in Accounts, NEW nc \in Collections,
         NEW its \in Contents, NEW p \in BundlePrices, NEW t \in Tokens,
         NEW exp \in BundleExpirations, ListBundle(s, nc, its, p, t, exp)
  PROVE  CoreOK' /\ FlightsSame /\ UnloggedSame /\ ListingsOK' /\ BundlesOK' /\ TermsStood
<1> DEFINE fb == EffectiveFeeBps(nc)
           rs == ResolveRoyaltySplits(nc)
           new == nextBundleId
           b == [s |-> s, nc |-> nc, its |-> its, p |-> p, pt |-> t, act |-> TRUE,
                 exp |-> exp, fb |-> fb, rs |-> rs]
<1>1. /\ bundles' = [bundles EXCEPT ![new] = b]
      /\ new < MaxBundles /\ nextBundleId' = new + 1 /\ TermsFit(nc)
      /\ elsewhere' = elsewhere /\ buyers' = buyers
      /\ UNCHANGED <<marketVars, listingVars>>
  BY DEF ListBundle
<1>2. MarketInv /\ BundlesTyped
  BY DEF CoreOK
<1>3. fb \in Nat /\ rs \in Seq(Split) /\ FairTerms(fb, rs)
  BY <1>1, <1>2, DayTerms
<1> HIDE DEF fb, rs
<1>4. b \in BundleRecord /\ b.s = s /\ b.act = TRUE /\ b.fb = fb /\ b.rs = rs
  BY <1>3, BundleAssumption DEF BundleRecord
<1>5. new \in Nat /\ new \in BundleIds
  BY <1>1, <1>2, BundleAssumption DEF BundlesTyped, BundleIds
<1> HIDE DEF b, new
<1>6. /\ bundles' \in [BundleIds -> BundleRecord] /\ bundles'[new] = b
      /\ \A id \in BundleIds \ {new} : bundles'[id] = bundles[id]
  BY <1>1, <1>2, <1>4, <1>5 DEF BundlesTyped
<1>7. nextBundleId' \in 0 .. MaxBundles /\ nextBundleId' >= nextBundleId
  BY <1>1, <1>5, BundleAssumption DEF new
<1>8. BundlesTyped'
  BY <1>1, <1>2, <1>6, <1>7 DEF BundlesTyped
<1>9. \A id \in BundleIds : id \in Nat
  BY BundleAssumption DEF BundleIds
<1>10. ~(new < nextBundleId)
  BY <1>5 DEF new
<1>11. ASSUME NEW id \in BundleIds
       PROVE  /\ GoodBundle(bundles'[id], buyers[id],
                            Weighed(UnloggedWeight("bundle", id), calls), id < nextBundleId')
              /\ id < nextBundleId => /\ bundles'[id].its = bundles[id].its
                                      /\ bundles'[id].s = bundles[id].s
  <2> DEFINE u == Weighed(UnloggedWeight("bundle", id), calls)
  <2>1. GoodBundle(bundles[id], buyers[id], u, id < nextBundleId)
    BY DEF BundlesOK, BundleGood, Bundle
  <2> HIDE DEF u
  <2>2. CASE id = new
    <3>1. id < nextBundleId' /\ ~(id < nextBundleId)
      BY <1>1, <1>5, <1>10, <2>2
    <3>2. buyers[id] = <<>> /\ u <= Len(buyers[id])
      BY <2>1, <3>1 DEF GoodBundle
    <3>3. GoodBundle(b, buyers[id], u, id < nextBundleId')
      BY <1>3, <1>4, <2>1, <3>1, <3>2, AccountAssumption DEF GoodBundle
    <3> QED
      BY <1>6, <2>2, <3>1, <3>3 DEF u
  <2>3. CASE id # new
    <3>1. (id < nextBundleId') = (id < nextBundleId)
      BY <1>1, <1>5, <1>9, <2>3 DEF new
    <3>2. bundles'[id] = bundles[id]
      BY <1>6, <2>3
    <3> QED
      BY <2>1, <3>1, <3>2 DEF u
  <2> QED
    BY <2>2, <2>3
<1> QED
  BY <1>1, <1>7, <1>8, <1>11, OffMarket

(* delistBundle. *)
LEMMA DelistBundleKeeps ==
  ASSUME CoreOK, ListingsOK, BundlesOK, NEW id \in BundleIds, DelistBundle(id)
  PROVE  CoreOK' /\ FlightsSame /\ UnloggedSame /\ ListingsOK' /\ BundlesOK' /\ TermsStood
<1>1. /\ bundles' = Closed(id) /\ nextBundleId' = nextBundleId
      /\ elsewhere' = elsewhere /\ buyers' = buyers
      /\ UNCHANGED <<marketVars, listingVars>>
  BY DEF DelistBundle, Closed
<1>2. BundlesTyped
  BY DEF CoreOK
<1>3. /\ bundles' \in [BundleIds -> BundleRecord]
      /\ ~bundles'[id].act
      /\ \A j \in BundleIds \ {id} : bundles'[j] = bundles[j]
      /\ \A j \in BundleIds :
           /\ bundles'[j].its = bundles[j].its /\ bundles'[j].s = bundles[j].s
           /\ bundles'[j].fb = bundles[j].fb /\ bundles'[j].rs = bundles[j].rs
  BY <1>1, <1>2, ClosedBundle
<1>4. BundlesTyped' /\ nextBundleId' >= nextBundleId
  BY <1>1, <1>2, <1>3, CountsType DEF BundlesTyped
<1>5. ASSUME NEW j \in BundleIds
      PROVE  GoodBundle(bundles'[j], buyers[j],
                        Weighed(UnloggedWeight("bundle", j), calls), j < nextBundleId')
  <2> DEFINE u == Weighed(UnloggedWeight("bundle", j), calls)
  <2>1. GoodBundle(bundles[j], buyers[j], u, j < nextBundleId)
    BY DEF BundlesOK, BundleGood, Bundle
  <2> HIDE DEF u
  <2>2. GoodBundle(bundles'[j], buyers[j], u, j < nextBundleId')
    BY <1>1, <1>3, <2>1 DEF GoodBundle
  <2> QED
    BY <2>2 DEF u
<1> QED
  BY <1>1, <1>3, <1>4, <1>5, OffMarket

(* A bundle bought counts for its buyer and against its seller. *)
LEMMA BoughtCounts ==
  ASSUME BundlesTyped, NEW id \in BundleIds, buyers[id] = <<>>, bundles' = Closed(id),
         NEW x \in Accounts, buyers' = [buyers EXCEPT ![id] = <<x>>],
         NEW i \in Items, NEW y \in Accounts
  PROVE  FromBundles(i, y)' = FromBundles(i, y)
           + (IF y = x THEN UnitsOf(id, i) ELSE 0)
           - (IF y = Bundle(id).s THEN UnitsOf(id, i) ELSE 0)
<1> DEFINE u == UnitsOf(id, i)
           got == Got(i, y)
           gave == Gave(i, y)
           got2 == Got(i, y)'
           gave2 == Gave(i, y)'
           in == IF y = x THEN u ELSE 0
           out == IF y = Bundle(id).s THEN u ELSE 0
<1>1. /\ got \in [BundleIds -> Nat] /\ gave \in [BundleIds -> Nat]
      /\ Total(got) \in Nat /\ Total(gave) \in Nat
      /\ FromBundles(i, y) = Total(got) - Total(gave)
  BY FromBundlesType
<1>2. FromBundles(i, y)' = Total(got2) - Total(gave2)
  BY DEF FromBundles, Got, Gave, BoughtBy
<1>3. \A j \in BundleIds :
        bundles'[j].its = bundles[j].its /\ bundles'[j].s = bundles[j].s
  BY ClosedBundle
<1>4. ASSUME NEW j \in BundleIds
      PROVE  UnitsOf(j, i)' = UnitsOf(j, i) /\ UnitsOf(j, i) \in Nat
             /\ Bundle(j)'.s = Bundle(j).s
  BY <1>3, UnitsOfType DEF UnitsOf, SumOver, Bundle
<1>5. buyers'[id] = <<x>> /\ \A j \in BundleIds \ {id} : buyers'[j] = buyers[j]
  BY DEF BundlesTyped
<1>6. (BoughtBy(id, y)' <=> y = x) /\ ~BoughtBy(id, y)
  BY <1>5 DEF BoughtBy
<1>7. ASSUME NEW j \in BundleIds \ {id}
      PROVE  BoughtBy(j, y)' = BoughtBy(j, y)
  BY <1>5 DEF BoughtBy
<1>8. /\ got2 \in [BundleIds -> Nat] /\ got2[id] = in /\ got[id] = 0
      /\ \A j \in BundleIds \ {id} : got2[j] = got[j]
  <2>1. got2 = [j \in BundleIds |-> IF BoughtBy(j, y)' THEN UnitsOf(j, i) ELSE 0]
    BY <1>4 DEF Got
  <2>2. got = [j \in BundleIds |-> IF BoughtBy(j, y) THEN UnitsOf(j, i) ELSE 0]
    BY DEF Got
  <2> HIDE DEF got, got2
  <2> QED
    BY <1>4, <1>6, <1>7, <2>1, <2>2
<1>9. /\ gave2 \in [BundleIds -> Nat] /\ gave2[id] = out /\ gave[id] = 0
      /\ \A j \in BundleIds \ {id} : gave2[j] = gave[j]
  <2>1. gave2 = [j \in BundleIds |->
                   IF y = Bundle(j).s /\ buyers'[j] # <<>> THEN UnitsOf(j, i) ELSE 0]
    BY <1>4 DEF Gave
  <2>2. gave = [j \in BundleIds |->
                  IF y = Bundle(j).s /\ buyers[j] # <<>> THEN UnitsOf(j, i) ELSE 0]
    BY DEF Gave
  <2>3. buyers'[id] # <<>>
    BY <1>5
  <2> HIDE DEF gave, gave2
  <2> QED
    BY <1>4, <1>5, <2>1, <2>2, <2>3
<1>10. IsFiniteSet(BundleIds)
  BY FS_Interval, BundleAssumption DEF BundleIds
<1>11. in \in Nat /\ out \in Nat
  BY <1>4
<1> HIDE DEF got, gave, got2, gave2, in, out
<1>12. Total(got2) = Total(got) - 0 + in
  BY <1>1, <1>8, <1>10, TotalUpdate
<1>13. Total(gave2) = Total(gave) - 0 + out
  BY <1>1, <1>9, <1>10, TotalUpdate
<1>14. FromBundles(i, y)' = FromBundles(i, y) + in - out
  BY <1>1, <1>2, <1>11, <1>12, <1>13
<1> QED
  BY <1>14 DEF in, out

(* buyBundle. *)
LEMMA BuyBundleKeeps ==
  ASSUME CoreOK, ListingsOK, BundlesOK, NEW x \in Accounts, NEW id \in BundleIds,
         BuyBundle(x, id)
  PROVE  /\ CoreOK' /\ FlightsSame /\ ListingsOK' /\ BundlesOK' /\ TermsStood
         /\ bundles' = Closed(id) /\ bundles[id].act
         /\ \A op, j :
              /\ Weighed(UnloggedWeight(op, j), calls) \in Nat
              /\ Weighed(UnloggedWeight(op, j), calls') \in Nat
              /\ Weighed(UnloggedWeight(op, j), calls')
                   = Weighed(UnloggedWeight(op, j), calls)
                       + (IF op = "bundle" /\ j = id THEN 1 ELSE 0)
<1>1. /\ UNCHANGED <<listings, nextListingId, nft, history, nextBundleId, elsewhere>>
      /\ bundles[id].act /\ bundles' = Closed(id) /\ x # bundles[id].s
  BY DEF BuyBundle, Bundle
<1>2. BundledActive /\ BundlesTyped
  BY GoodBundlesActive DEF CoreOK
<1>3. /\ CoreOK' /\ FlightsSame
      /\ buyers[id] = <<>> /\ buyers' = [buyers EXCEPT ![id] = <<x>>]
      /\ calls \in Seq(Frame)
      /\ \A op, j :
           /\ Weighed(UnloggedWeight(op, j), calls) \in Nat
           /\ Weighed(UnloggedWeight(op, j), calls') \in Nat
           /\ Weighed(UnloggedWeight(op, j), calls')
                = Weighed(UnloggedWeight(op, j), calls)
                    + (IF op = "bundle" /\ j = id THEN 1 ELSE 0)
  BY <1>2, BuyBundleCore
<1>4. PICK g \in Frame : /\ calls' = Append(calls, g) /\ g.op = "bundle"
                         /\ g.id = id /\ g.by = x /\ g.at = 0
  BY <1>2, BuyBundleCore
<1>5. ListingsOK' /\ TermsStood
  BY <1>1, <1>3, QuietListings
<1>6. /\ ~bundles'[id].act
      /\ \A j \in BundleIds \ {id} : bundles'[j] = bundles[j]
      /\ \A j \in BundleIds :
           /\ bundles'[j].its = bundles[j].its /\ bundles'[j].s = bundles[j].s
           /\ bundles'[j].fb = bundles[j].fb /\ bundles'[j].rs = bundles[j].rs
  BY <1>1, <1>2, ClosedBundle
<1>7. /\ buyers'[id] = <<x>> /\ \A j \in BundleIds \ {id} : buyers'[j] = buyers[j]
  BY <1>2, <1>3 DEF BundlesTyped
<1>8. ASSUME NEW j \in BundleIds
      PROVE  BundleGood(j)'
  <2> DEFINE u == Weighed(UnloggedWeight("bundle", j), calls)
             u2 == Weighed(UnloggedWeight("bundle", j), calls')
  <2>1. GoodBundle(bundles[j], buyers[j], u, j < nextBundleId)
    BY DEF BundlesOK, BundleGood, Bundle
  <2>2. u' = u2
    BY DEF Weighed, UnloggedWeight
  <2>3. u \in Nat /\ u2 = u + (IF j = id THEN 1 ELSE 0)
    BY <1>3
  <2> HIDE DEF u, u2
  <2>4. GoodBundle(bundles'[j], buyers'[j], u2, j < nextBundleId)
    <3>1. CASE j = id
      <4>1. u = 0
        BY <1>3, <2>1, <2>3, <3>1 DEF GoodBundle
      <4>2. u2 <= Len(<<x>>) /\ Len(<<x>>) <= 1
        BY <2>3, <3>1, <4>1
      <4>3. j < nextBundleId
        BY <1>1, <1>2, <3>1 DEF BundledActive
      <4> QED
        BY <1>6, <1>7, <2>1, <3>1, <4>2, <4>3 DEF GoodBundle
    <3>2. CASE j # id
      <4>1. u2 = u
        BY <2>3, <3>2
      <4> QED
        BY <1>6, <1>7, <2>1, <3>2, <4>1 DEF GoodBundle
    <3> QED
      BY <3>1, <3>2
  <2>5. GoodBundle(bundles'[j], buyers'[j], u', j < nextBundleId')
    BY <1>1, <2>2, <2>4
  <2> QED
    BY <2>5 DEF BundleGood, Bundle, u
<1>9. ASSUME NEW i \in Items, NEW y \in Accounts
      PROVE  nft'[i][y] + Due(i, y)'
               = MintedTo[i][y] + elsewhere'[i][y] + FromBundles(i, y)' + DueFrom(i, y)'
  <2> DEFINE u == UnitsOf(id, i)
             in == IF y = x THEN u ELSE 0
             out == IF y = Bundle(id).s THEN u ELSE 0
             C == ComesTo(bundles, i, y)
             G == GoesFrom(bundles, i, y)
  <2>1. u \in Nat
    BY <1>2, UnitsOfType
  <2>2. FromBundles(i, y)' = FromBundles(i, y) + in - out
    <3> HIDE DEF u, in, out
    <3>1. buyers[id] = <<>> /\ bundles' = Closed(id) /\ buyers' = [buyers EXCEPT ![id] = <<x>>]
      BY <1>1, <1>3
    <3>2. FromBundles(i, y)' = FromBundles(i, y)
            + (IF y = x THEN UnitsOf(id, i) ELSE 0)
            - (IF y = Bundle(id).s THEN UnitsOf(id, i) ELSE 0)
      BY <1>2, <3>1, BoughtCounts
    <3> QED
      BY <3>2 DEF u, in, out
  <2>3. StillOwed(bundles, g, i) = u
    BY <1>2, <1>4, OwedAtFirst
  <2> HIDE DEF u
  <2>4. C[g] = in /\ G[g] = out
    BY <1>4, <2>3 DEF ComesTo, GoesFrom, Bundle
  <2>5. ASSUME NEW f \in Frame, f.id \in BundleIds
        PROVE  StillOwed(bundles', f, i) = StillOwed(bundles, f, i)
    BY <1>6, <2>5 DEF StillOwed
  <2>6. ComesTo(bundles', i, y) = C
    BY <2>5 DEF ComesTo
  <2>7. GoesFrom(bundles', i, y) = G
    BY <1>6, <2>5 DEF GoesFrom
  <2>8. C \in [Frame -> Nat] /\ G \in [Frame -> Nat]
    BY <1>2, OwedTags DEF Tagging
  <2>9. Due(i, y)' = Weighed(C, calls') /\ DueFrom(i, y)' = Weighed(G, calls')
    <3>1. Due(i, y)' = Weighed(ComesTo(bundles', i, y), calls')
      BY DueNext
    <3>2. DueFrom(i, y)' = Weighed(GoesFrom(bundles', i, y), calls')
      BY DueNext
    <3> QED
      BY <2>6, <2>7, <3>1, <3>2
  <2>10. Due(i, y) = Weighed(C, calls) /\ DueFrom(i, y) = Weighed(G, calls)
    BY DEF Due, DueFrom
  <2> HIDE DEF C, G
  <2>11. Due(i, y)' = Due(i, y) + in
    BY <1>3, <1>4, <2>4, <2>8, <2>9, <2>10, WeighedPush
  <2>12. DueFrom(i, y)' = DueFrom(i, y) + out
    BY <1>3, <1>4, <2>4, <2>8, <2>9, <2>10, WeighedPush
  <2>13. nft[i][y] + Due(i, y)
           = MintedTo[i][y] + elsewhere[i][y] + FromBundles(i, y) + DueFrom(i, y)
    BY TracedAs DEF BundlesOK
  <2> DEFINE m == MintedTo[i][y]
             a == nft[i][y]
             e == elsewhere[i][y]
             b == FromBundles(i, y)
             p == Due(i, y)
             q == DueFrom(i, y)
  <2>14. a \in Nat /\ m \in Nat /\ e \in Int
    BY CustodyAssumption DEF CoreOK, GoodsTyped, Holders, BundlesOK, ElsewhereTyped
  <2>15. b \in Int /\ p \in Nat /\ q \in Nat
    BY <1>2, FromBundlesType, DueType
  <2>16. in \in Nat /\ out \in Nat
    BY <2>1
  <2>17. nft'[i][y] = a /\ elsewhere'[i][y] = e
    BY <1>1
  <2>18. a + (p + in) = m + e + (b + in - out) + (q + out)
    <3> HIDE DEF m, a, e, b, p, q, in, out
    <3> QED
      BY <2>13, <2>14, <2>15, <2>16 DEF m, a, e, b, p, q
  <2> HIDE DEF in, out, b, p, q
  <2>19. /\ FromBundles(i, y)' = b + in - out
         /\ Due(i, y)' = p + in /\ DueFrom(i, y)' = q + out
    BY <2>2, <2>11, <2>12 DEF b, p, q
  <2> QED
    BY <2>17, <2>18, <2>19
<1>10. UnitsTraced'
  BY <1>9 DEF UnitsTraced, Due, DueFrom
<1>11. ElsewhereTyped'
  BY <1>1 DEF BundlesOK, ElsewhereTyped
<1> QED
  BY <1>1, <1>3, <1>5, <1>8, <1>10, <1>11 DEF BundlesOK

(* A number after something came in and something went out. *)
Shifted(a, in, out) == a + in - out

(* What an account has of an item when n units of j go from s to x. *)
LEMMA HandToShifts ==
  ASSUME GoodsTyped, NEW j \in Items, NEW s, NEW x \in Accounts, NEW n \in Nat,
         HandTo(j, s, x, n), s # x, NEW i \in Items, NEW y \in Accounts
  PROVE  nft'[i][y] = Shifted(nft[i][y], IF j = i /\ y = x THEN n ELSE 0,
                              IF j = i /\ y = s THEN n ELSE 0)
<1>1. /\ \A k \in Items \ {j} : nft'[k] = nft[k]
      /\ \A z \in Holders :
           nft'[j][z] = IF z = s THEN nft[j][z] - n
                        ELSE IF z = x THEN nft[j][z] + n ELSE nft[j][z]
  <2>1. CanMove(j, s, n) /\ <<j, s>> \in approved /\ nft' = Move(j, s, x, n)
    BY DEF HandTo, CanOffer, CanPull
  <2>2. s \in Holders /\ x \in Holders
    BY <2>1 DEF GoodsTyped, Holders
  <2> QED
    BY <2>1, <2>2, MoveBalances DEF GoodsTyped
<1>2. y \in Holders /\ nft[i][y] \in Nat
  BY DEF Holders, GoodsTyped
<1> DEFINE a == nft[i][y]
           v == nft'[i][y]
<1>3. CASE i = j
  <2>1. v = IF y = s THEN a - n ELSE IF y = x THEN a + n ELSE a
    BY <1>1, <1>2, <1>3
  <2>2. a \in Nat
    BY <1>2
  <2> HIDE DEF a, v
  <2>3. v = a + (IF y = x THEN n ELSE 0) - (IF y = s THEN n ELSE 0)
    BY <2>1, <2>2
  <2> QED
    BY <1>3, <2>3 DEF Shifted, a, v
<1>4. CASE i # j
  <2>1. v = a /\ a \in Nat
    BY <1>1, <1>2, <1>4
  <2> HIDE DEF a, v
  <2>2. v = a + 0 - 0
    BY <2>1
  <2> QED
    BY <1>4, <2>2 DEF Shifted, a, v
<1> QED
  BY <1>3, <1>4

(* The next item of a bundle moves. *)
LEMMA GiveItemKeeps ==
  ASSUME CoreOK, ListingsOK, BundlesOK, GiveItem
  PROVE  CoreOK' /\ FlightsSame /\ UnloggedSame /\ ListingsOK' /\ BundlesOK' /\ TermsStood
<1> DEFINE f == Top
           b == bundles[f.id]
           it == b.its[f.at + 1]
           j == it.item
           n == it.n
           s == b.s
           x == f.by
<1>1. /\ UNCHANGED <<listings, nextListingId, history>>
      /\ bundles' = bundles /\ nextBundleId' = nextBundleId
      /\ elsewhere' = elsewhere /\ buyers' = buyers
      /\ HandTo(j, s, x, n)
  BY DEF GiveItem, bundleVars, Bundle
<1>2. OffersSame
  BY <1>1 DEF OffersSame
<1>3. /\ CoreOK' /\ FlightsSame /\ UnloggedSame
      /\ ~Idle /\ f \in Frame /\ BundleFits(f, bundles, nextBundleId, buyers)
      /\ f.id \in BundleIds /\ f.at < Len(bundles[f.id].its)
  BY <1>2, GiveItemCore
<1>4. PICK h \in Frame :
        /\ calls' = Append(Outer, h)
        /\ h.op = "bundle" /\ h.id = f.id /\ h.by = f.by /\ h.at = f.at + 1
  BY <1>2, GiveItemCore
<1>5. ListingsOK' /\ TermsStood
  BY <1>1, <1>3, QuietListings
<1>6. BundlesTyped /\ GoodsTyped
  BY DEF CoreOK
<1>7. f.op = "bundle" /\ x # s /\ x \in Accounts
  BY <1>3, FrameParts DEF GiveItem, InProgress, BundleFits
<1>8. j \in Items /\ n \in Nat
      /\ \A i : StillOwed(bundles, f, i)
                  = StillOwed(bundles, h, i) + (IF j = i THEN n ELSE 0)
  <2> HIDE DEF f
  <2> QED
    BY <1>3, <1>4, <1>6, OwedNext
<1> HIDE DEF f, j, n, s, x
<1>9. ASSUME NEW i \in Items, NEW y \in Accounts
      PROVE  nft'[i][y] = Shifted(nft[i][y], IF j = i /\ y = x THEN n ELSE 0,
                                  IF j = i /\ y = s THEN n ELSE 0)
  <2>1. /\ j \in Items /\ x \in Accounts /\ n \in Nat /\ s # x
        /\ HandTo(j, s, x, n) /\ GoodsTyped
    BY <1>1, <1>6, <1>7, <1>8
  <2> QED
    BY <2>1, HandToShifts
<1>10. ASSUME NEW i \in Items, NEW y \in Accounts
       PROVE  nft'[i][y] + Due(i, y)'
                = MintedTo[i][y] + elsewhere'[i][y] + FromBundles(i, y)' + DueFrom(i, y)'
  <2> DEFINE in == IF j = i /\ y = x THEN n ELSE 0
             out == IF j = i /\ y = s THEN n ELSE 0
             C == ComesTo(bundles, i, y)
             G == GoesFrom(bundles, i, y)
             m == MintedTo[i][y]
             a == nft[i][y]
             e == elsewhere[i][y]
             v == FromBundles(i, y)
             p == Due(i, y)
             q == DueFrom(i, y)
             c == Weighed(C, calls')
             g == Weighed(G, calls')
             on == TRUE
  <2>1. in \in Nat /\ out \in Nat
    BY <1>8
  <2>2. StillOwed(bundles, f, i) \in Nat /\ StillOwed(bundles, h, i) \in Nat
    BY <1>3, <1>4, <1>6, OwedType DEF BundlesTyped
  <2>3. C[f] = C[h] + in /\ G[f] = G[h] + out
    <3>1. /\ C[f] = IF f.op = "bundle" /\ f.id \in BundleIds /\ f.by = y
                    THEN StillOwed(bundles, f, i) ELSE 0
          /\ C[h] = IF h.op = "bundle" /\ h.id \in BundleIds /\ h.by = y
                    THEN StillOwed(bundles, h, i) ELSE 0
      BY <1>3, <1>4 DEF ComesTo
    <3>2. /\ G[f] = IF f.op = "bundle" /\ f.id \in BundleIds /\ bundles[f.id].s = y
                    THEN StillOwed(bundles, f, i) ELSE 0
          /\ G[h] = IF h.op = "bundle" /\ h.id \in BundleIds /\ bundles[h.id].s = y
                    THEN StillOwed(bundles, h, i) ELSE 0
      BY <1>3, <1>4 DEF GoesFrom
    <3>3. f.by = x /\ bundles[f.id].s = s
      BY DEF x, s
    <3> HIDE DEF C, G
    <3>4. C[f] = C[h] + in
      BY <1>3, <1>4, <1>7, <1>8, <2>2, <3>1, <3>3
    <3>5. G[f] = G[h] + out
      BY <1>3, <1>4, <1>7, <1>8, <2>2, <3>2, <3>3
    <3> QED
      BY <3>4, <3>5
  <2>4. C \in [Frame -> Nat] /\ G \in [Frame -> Nat]
    BY <1>6, OwedTags DEF Tagging
  <2>5. Due(i, y)' = c /\ DueFrom(i, y)' = g
    <3>1. Due(i, y)' = Weighed(ComesTo(bundles', i, y), calls')
      BY DueNext
    <3>2. DueFrom(i, y)' = Weighed(GoesFrom(bundles', i, y), calls')
      BY DueNext
    <3> QED
      BY <1>1, <3>1, <3>2
  <2>6. p = Weighed(C, calls) /\ q = Weighed(G, calls)
    BY DEF Due, DueFrom
  <2>7. on \in BOOLEAN /\ calls' = (IF on THEN Append(Outer, h) ELSE Outer)
    BY <1>4
  <2>8. C[f] = (IF on THEN C[h] ELSE 0) + in /\ G[f] = (IF on THEN G[h] ELSE 0) + out
    BY <2>3
  <2> HIDE DEF C, G, on, in, out
  <2>9. p = c + in /\ c \in Nat
    <3>1. /\ Weighed(C, calls') \in Nat
          /\ Weighed(C, calls) = Weighed(C, calls') + in
      BY <1>3, <1>4, <2>1, <2>4, <2>7, <2>8, TurnKeepsWeight DEF f
    <3> HIDE DEF p
    <3> QED
      BY <2>6, <3>1
  <2>10. q = g + out /\ g \in Nat
    <3>1. /\ Weighed(G, calls') \in Nat
          /\ Weighed(G, calls) = Weighed(G, calls') + out
      BY <1>3, <1>4, <2>1, <2>4, <2>7, <2>8, TurnKeepsWeight DEF f
    <3> HIDE DEF q
    <3> QED
      BY <2>6, <3>1
  <2>11. v' = v
    BY <1>1, <1>6, FromBundlesStays
  <2>12. a + p = m + e + v + q
    BY TracedAs DEF BundlesOK
  <2>13. a \in Nat /\ m \in Nat /\ e \in Int /\ v \in Int
    <3>1. a \in Nat /\ m \in Nat /\ e \in Int
      BY <1>6, CustodyAssumption DEF GoodsTyped, Holders, BundlesOK, ElsewhereTyped
    <3>2. v \in Int
      BY <1>6, FromBundlesType
    <3> QED
      BY <3>1, <3>2
  <2>14. nft'[i][y] = Shifted(a, in, out)
    BY <1>9 DEF in, out
  <2>15. Shifted(a, in, out) + c = m + e + v + g
    <3> HIDE DEF a, m, e, v, p, q, c, g
    <3> QED
      BY <2>1, <2>9, <2>10, <2>12, <2>13 DEF Shifted
  <2>16. elsewhere'[i][y] = e
    BY <1>1
  <2> HIDE DEF v, c, g
  <2>17. FromBundles(i, y)' = v
    BY <2>11 DEF v
  <2> QED
    BY <2>5, <2>14, <2>15, <2>16, <2>17
<1>11. UnitsTraced'
  BY <1>10 DEF UnitsTraced, Due, DueFrom
<1>12. ASSUME NEW id \in BundleIds
       PROVE  BundleGood(id)'
  <2> DEFINE u == Weighed(UnloggedWeight("bundle", id), calls)
  <2>1. u' = u
    <3>1. u' = Weighed(UnloggedWeight("bundle", id), calls')
      BY DEF Weighed, UnloggedWeight
    <3> QED
      BY <1>3, <3>1 DEF UnloggedSame
  <2>2. GoodBundle(bundles[id], buyers[id], u, id < nextBundleId)
    BY DEF BundlesOK, BundleGood, Bundle
  <2> HIDE DEF u
  <2> QED
    BY <1>1, <2>1, <2>2 DEF BundleGood, Bundle, u
<1>13. ElsewhereTyped'
  BY <1>1 DEF BundlesOK, ElsewhereTyped
<1> QED
  BY <1>3, <1>5, <1>11, <1>12, <1>13 DEF BundlesOK

(* The payment of a bundle is divided: all its items have moved. *)
LEMMA FinishBundleKeeps ==
  ASSUME CoreOK, ListingsOK, BundlesOK, FinishBundle
  PROVE  /\ CoreOK' /\ FlightsSame /\ ListingsOK' /\ BundlesOK' /\ TermsStood
         /\ Top \in Frame /\ BundleFits(Top, bundles, nextBundleId, buyers)
         /\ Top.op = "bundle" /\ Top.id \in BundleIds
         /\ \A op, j :
              /\ Weighed(UnloggedWeight(op, j), calls) \in Nat
              /\ Weighed(UnloggedWeight(op, j), calls') \in Nat
              /\ Weighed(UnloggedWeight(op, j), calls)
                   = Weighed(UnloggedWeight(op, j), calls')
                       + (IF op = "bundle" /\ j = Top.id THEN 1 ELSE 0)
<1> DEFINE f == Top
           items == Len(bundles[f.id].its)
<1>1. /\ PayOut /\ f.op = "bundle" /\ ~Idle /\ Head(f.todo) = "payout" /\ Returned(f)
      /\ UNCHANGED <<marketVars, listings, nextListingId, approved, nft, history>>
      /\ bundles' = bundles /\ nextBundleId' = nextBundleId
      /\ elsewhere' = elsewhere /\ buyers' = buyers
  BY DEF FinishBundle, InProgress, PayOut, bundleVars
<1>2. OffersSame
  BY <1>1 DEF OffersSame
<1>3. /\ CoreOK' /\ FlightsSame /\ f \in Frame /\ FitsNow(f)
      /\ \A op, j :
           /\ Weighed(UnloggedWeight(op, j), calls) \in Nat
           /\ Weighed(UnloggedWeight(op, j), calls') \in Nat
           /\ Weighed(UnloggedWeight(op, j), calls)
                = Weighed(UnloggedWeight(op, j), calls')
                    + (IF op = f.op /\ j = f.id THEN f.n ELSE 0)
  BY <1>1, <1>2, PayOutCore
<1>4. BundleFits(f, bundles, nextBundleId, buyers)
  BY <1>1, <1>3 DEF FitsNow, FrameFits
<1>5. BundlesTyped /\ ListingsTyped /\ GoodsTyped
  BY DEF CoreOK
<1>6. f.id \in BundleIds /\ f.at \in Nat /\ f.n = 1
  BY <1>1, <1>3, <1>4, <1>5, FrameParts, FitsIds DEF BundleFits
<1>7. ListingsOK' /\ TermsStood
  BY <1>1, <1>3, QuietListings
<1>8. items \in Nat
  BY <1>5, <1>6, ItemsOf DEF BundlesTyped
<1> HIDE DEF f
<1>9. f.at = items /\ Len(f.todo) = 1
  <2>1. f.at <= items /\ (f.todo = PayThenGive(items) \/ f.todo = GiveThenPay(items - f.at))
    BY <1>4 DEF BundleFits
  <2>2. Head(PayThenGive(items)) = "pay"
    BY <1>8, BundleStages
  <2>3. items - f.at \in Nat
    <3> HIDE DEF items
    <3> QED
      BY <1>6, <1>8, <2>1
  <2> DEFINE m == items - f.at
  <2>4. Head(GiveThenPay(m)) = (IF m = 0 THEN "payout" ELSE "deliver")
        /\ Len(GiveThenPay(m)) = m + 1
    BY <2>3, BundleStages
  <2>5. f.todo = GiveThenPay(m)
    BY <1>1, <2>1, <2>2
  <2>6. m = 0
    <3> HIDE DEF m
    <3> QED
      BY <1>1, <2>4, <2>5
  <2>7. Len(f.todo) = 1
    <3> HIDE DEF m
    <3> QED
      BY <2>4, <2>5, <2>6
  <2> HIDE DEF items
  <2> QED
    BY <1>6, <1>8, <2>6, <2>7
<1>10. calls' = Outer
  BY <1>1, <1>9 DEF Returned
<1>11. ASSUME NEW i \in Items, NEW y \in Accounts
       PROVE  nft'[i][y] + Due(i, y)'
                = MintedTo[i][y] + elsewhere'[i][y] + FromBundles(i, y)' + DueFrom(i, y)'
  <2> DEFINE C == ComesTo(bundles, i, y)
             G == GoesFrom(bundles, i, y)
             on == FALSE
  <2>1. StillOwed(bundles, f, i) = 0
    BY <1>3, <1>5, <1>6, <1>9, OwedAtLast
  <2>2. C[f] = 0 /\ G[f] = 0
    BY <1>3, <2>1 DEF ComesTo, GoesFrom
  <2>3. C \in [Frame -> Nat] /\ G \in [Frame -> Nat]
    BY <1>5, OwedTags DEF Tagging
  <2>4. Due(i, y)' = Weighed(C, calls') /\ DueFrom(i, y)' = Weighed(G, calls')
    <3>1. Due(i, y)' = Weighed(ComesTo(bundles', i, y), calls')
      BY DueNext
    <3>2. DueFrom(i, y)' = Weighed(GoesFrom(bundles', i, y), calls')
      BY DueNext
    <3> QED
      BY <1>1, <3>1, <3>2
  <2>5. Due(i, y) = Weighed(C, calls) /\ DueFrom(i, y) = Weighed(G, calls)
    BY DEF Due, DueFrom
  <2> HIDE DEF C, G
  <2>6. /\ on \in BOOLEAN /\ calls' = (IF on THEN Append(Outer, f) ELSE Outer)
        /\ C[f] = (IF on THEN C[f] ELSE 0) + 0
        /\ G[f] = (IF on THEN G[f] ELSE 0) + 0
    BY <1>10, <2>2
  <2> HIDE DEF on
  <2>7. Weighed(C, calls') \in Nat /\ Weighed(C, calls) = Weighed(C, calls') + 0
    BY <1>1, <1>3, <2>3, <2>6, TurnKeepsWeight DEF f
  <2>8. Weighed(G, calls') \in Nat /\ Weighed(G, calls) = Weighed(G, calls') + 0
    BY <1>1, <1>3, <2>3, <2>6, TurnKeepsWeight DEF f
  <2>9. Due(i, y)' = Due(i, y) /\ DueFrom(i, y)' = DueFrom(i, y)
    BY <2>4, <2>5, <2>7, <2>8
  <2>10. FromBundles(i, y)' = FromBundles(i, y)
    BY <1>1, <1>5, FromBundlesStays
  <2>11. nft[i][y] + Due(i, y)
           = MintedTo[i][y] + elsewhere[i][y] + FromBundles(i, y) + DueFrom(i, y)
    BY TracedAs DEF BundlesOK
  <2> QED
    BY <1>1, <2>9, <2>10, <2>11
<1>12. UnitsTraced'
  BY <1>11 DEF UnitsTraced, Due, DueFrom
<1>13. ASSUME NEW id \in BundleIds
       PROVE  BundleGood(id)'
  <2> DEFINE u == Weighed(UnloggedWeight("bundle", id), calls)
             u2 == Weighed(UnloggedWeight("bundle", id), calls')
             w == IF "bundle" = f.op /\ id = f.id THEN f.n ELSE 0
  <2>1. u' = u2
    BY DEF Weighed, UnloggedWeight
  <2>2. GoodBundle(bundles[id], buyers[id], u, id < nextBundleId)
    BY DEF BundlesOK, BundleGood, Bundle
  <2>3. u2 \in Nat /\ u = u2 + w /\ w \in Nat
    BY <1>3, <1>6
  <2>4. Len(buyers[id]) \in Nat
    <3>1. buyers[id] \in Seq(Accounts)
      BY <1>5 DEF BundlesTyped
    <3> QED
      BY <3>1
  <2> HIDE DEF u, u2, w
  <2>5. u2 <= Len(buyers[id])
    <3>1. u <= Len(buyers[id])
      BY <2>2 DEF GoodBundle
    <3> QED
      BY <2>3, <2>4, <3>1
  <2>6. GoodBundle(bundles[id], buyers[id], u2, id < nextBundleId)
    BY <2>2, <2>5 DEF GoodBundle
  <2> QED
    BY <1>1, <2>1, <2>6 DEF BundleGood, Bundle, u
<1>14. ElsewhereTyped'
  BY <1>1 DEF BundlesOK, ElsewhereTyped
<1> QED
  BY <1>1, <1>3, <1>4, <1>6, <1>7, <1>12, <1>13, <1>14 DEF BundlesOK, f

-----------------------------------------------------------------------------
(* The first state, and what a step of the whole can be.                   *)

(* The records that stand for a listing or a bundle not yet made. *)
LEMMA NoListingIsEmpty ==
  NoListing \in ListingRecord /\ GoodListing(NoListing, 0, 0, 0, 0, 0, FALSE)
<1> DEFINE i == CHOOSE i \in Items : TRUE
           t == CHOOSE t \in Tokens : TRUE
<1>1. i \in Items /\ t \in Tokens
  BY CustodyAssumption
<1>2. /\ NoListing.fb = 0 /\ NoListing.rs = <<>> /\ NoListing.a = 0
      /\ NoListing.s = NoAccount /\ ~NoListing.act
  BY DEF NoListing
<1>3. NoListing \in ListingRecord
  BY <1>1 DEF NoListing, ListingRecord, Payouts
<1>4. FairTerms(0, <<>>) /\ 0 * BpsDenominator >= 0 * ShareOf(0, <<>>)
  BY NoSplitsNoBps DEF FairTerms, ShareOf, BpsDenominator
<1> QED
  BY <1>2, <1>3, <1>4 DEF GoodListing

(* The same for bundles. *)
LEMMA NoBundleIsEmpty ==
  NoBundle \in BundleRecord /\ GoodBundle(NoBundle, <<>>, 0, FALSE)
<1> DEFINE c == CHOOSE c \in Collections : TRUE
           t == CHOOSE t \in Tokens : TRUE
<1>1. c \in Collections /\ t \in Tokens
  BY CustodyAssumption
<1>2. /\ NoBundle.fb = 0 /\ NoBundle.rs = <<>> /\ NoBundle.s = NoAccount
      /\ ~NoBundle.act
  BY DEF NoBundle
<1>3. NoBundle \in BundleRecord
  BY <1>1 DEF NoBundle, BundleRecord
<1>4. FairTerms(0, <<>>) /\ 0 <= Len(<<>>) /\ Len(<<>>) <= 1
  BY NoSplitsNoBps DEF FairTerms, BpsDenominator
<1> QED
  BY <1>2, <1>3, <1>4 DEF GoodBundle

(* Nothing is in progress at first, and nothing is held. *)
LEMMA CoreAtFirst ==
  ASSUME BundleInit
  PROVE  CoreOK
<1>1. /\ listings = [id \in ListingIds |-> NoListing] /\ nextListingId = 0
      /\ bundles = [id \in BundleIds |-> NoBundle] /\ nextBundleId = 0
      /\ buyers = [id \in BundleIds |-> <<>>]
      /\ pool = [t \in Tokens |-> 0] /\ calls = <<>>
      /\ approved = Items \X Accounts
  BY DEF BundleInit, Init, ApprovalInit
<1>2. MarketInv
  BY MarketInitInv DEF BundleInit, Init
<1>3. GoodsTyped
  <2>1. nft \in [Items -> [Holders -> Nat]]
    BY CustodyAssumption DEF BundleInit, Init, Holders
  <2> QED
    BY <1>1, <2>1, ApprovalAssumption DEF GoodsTyped
<1>4. ListingsTyped /\ BundlesTyped
  BY <1>1, NoListingIsEmpty, NoBundleIsEmpty, ListingAssumption, BundleAssumption
     DEF ListingsTyped, BundlesTyped
<1>5. CallsTyped
  BY <1>1, CallAssumption DEF CallsTyped
<1>6. FramesOK /\ BalancesRead
  BY <1>1 DEF FramesOK, BalancesRead
<1>7. HoldingsOK
  BY <1>1, WeighedNone DEF HoldingsOK
<1> QED
  BY <1>2, <1>3, <1>4, <1>5, <1>6, <1>7 DEF CoreOK, StackOK

(* No listings, no payments, no sweep: the invariant holds at first.       *)
LEMMA ListingsAtFirst ==
  ASSUME Init
  PROVE  ListingsOK
<1>1. /\ listings = [id \in ListingIds |-> NoListing]
      /\ listed = [id \in ListingIds |-> 0] /\ sold = [id \in ListingIds |-> 0]
      /\ received = [id \in ListingIds |-> 0] /\ proceeds = [id \in ListingIds |-> 0]
      /\ nextListingId = 0 /\ calls = <<>> /\ swept = NoBill
  BY DEF Init
<1>2. HistoryTyped
  BY <1>1, NoBillType DEF HistoryTyped
<1>3. ASSUME NEW id \in ListingIds
      PROVE  ListingGood(id)
  <2>1. (id < nextListingId) = FALSE
    BY <1>1, ListingAssumption DEF ListingIds
  <2>2. Weighed(FlightWeight(id), calls) = 0
    BY <1>1, WeighedNone
  <2> QED
    BY <1>1, <2>1, <2>2, NoListingIsEmpty DEF ListingGood, Listing
<1>4. BillFits(swept)
  <2>1. NoBill.budget = 0 /\ \A t \in Tokens : NoBill.cost[t] = 0
    BY DEF NoBill
  <2>2. \A t \in Tokens : NoBill.cost[t] <= NoBill.budget
    BY <2>1
  <2> QED
    BY <1>1, <2>1, <2>2 DEF BillFits
<1> QED
  BY <1>2, <1>3, <1>4 DEF ListingsOK

(* So it does without bundles. *)
LEMMA BundlesAtFirst ==
  ASSUME BundleInit
  PROVE  BundlesOK
<1>1. /\ bundles = [id \in BundleIds |-> NoBundle] /\ nextBundleId = 0
      /\ elsewhere = [i \in Items |-> [x \in Accounts |-> 0]]
      /\ buyers = [id \in BundleIds |-> <<>>] /\ calls = <<>>
  BY DEF BundleInit, Init
<1>2. BundlesTyped
  BY CoreAtFirst DEF CoreOK
<1>3. ASSUME NEW id \in BundleIds
      PROVE  BundleGood(id)
  <2>1. (id < nextBundleId) = FALSE
    BY <1>1, BundleAssumption DEF BundleIds
  <2>2. Weighed(UnloggedWeight("bundle", id), calls) = 0
    BY <1>1, WeighedNone
  <2> QED
    BY <1>1, <2>1, <2>2, NoBundleIsEmpty DEF BundleGood, Bundle
<1>4. ASSUME NEW i \in Items, NEW x \in Accounts
      PROVE  nft[i][x] + Due(i, x)
               = MintedTo[i][x] + elsewhere[i][x] + FromBundles(i, x) + DueFrom(i, x)
  <2>1. Got(i, x) = [id \in BundleIds |-> 0] /\ Gave(i, x) = [id \in BundleIds |-> 0]
    BY <1>1 DEF Got, Gave, BoughtBy
  <2>2. Total(Got(i, x)) = 0 /\ Total(Gave(i, x)) = 0
    BY <2>1, TotalZero
  <2>3. FromBundles(i, x) = 0
    BY <1>2, <2>2, FromBundlesType
  <2>4. nft[i][x] = MintedTo[i][x]
    BY CustodyAssumption DEF BundleInit, Init, Holders
  <2>5. MintedTo[i][x] \in Nat
    BY CustodyAssumption
  <2>6. Due(i, x) = 0 /\ DueFrom(i, x) = 0
    BY <1>1, WeighedNone DEF Due, DueFrom
  <2> QED
    BY <1>1, <2>3, <2>4, <2>5, <2>6
<1>5. ElsewhereTyped
  BY <1>1 DEF ElsewhereTyped
<1> QED
  BY <1>3, <1>4, <1>5, TracedAs DEF BundlesOK

-----------------------------------------------------------------------------
(* The invariant of the market as a whole.                                 *)
IndexerInv == CoreOK /\ ListingsOK /\ BundlesOK /\ SettingsBounded

(* And so for the market as a whole. *)
LEMMA IndexerAtFirst == IndexerInit => IndexerInv
<1> SUFFICES ASSUME IndexerInit
             PROVE  IndexerInv
  OBVIOUS
<1>1. BundleInit /\ Init /\ MarketInit
  BY DEF IndexerInit, BundleInit, Init
<1> QED
  BY <1>1, CoreAtFirst, ListingsAtFirst, BundlesAtFirst, SettingsBoundedAtFirst
     DEF IndexerInv

(* What every step does, besides what it does to bundles. *)
Kept == CoreOK' /\ ListingsOK' /\ TermsStood /\ UNCHANGED marketVars

(* No purchase of a bundle is logged. *)
BundlesUnlogged ==
  \A id : Weighed(UnloggedWeight("bundle", id), calls')
            = Weighed(UnloggedWeight("bundle", id), calls)

(* The clock and the settings. *)
LEMMA SettingsKeep ==
  ASSUME IndexerInv, MarketInv', SettingsBounded', UNCHANGED <<listingVars, bundleVars>>
  PROVE  IndexerInv' /\ TermsStood
<1>1. /\ calls' = calls /\ nft' = nft
      /\ bundles' = bundles /\ nextBundleId' = nextBundleId
      /\ elsewhere' = elsewhere /\ buyers' = buyers
  BY DEF listingVars, bundleVars
<1>2. CoreOK' /\ UnloggedSame /\ ListingsOK' /\ TermsStood
  BY BetweenKeeps DEF IndexerInv
<1>3. BundlesOK'
  <2>1. BundlesSame /\ TagsSame
    BY <1>1, TagsStay DEF BundlesSame
  <2>2. BundlesUnlogged
    BY <1>2 DEF BundlesUnlogged, UnloggedSame
  <2> QED
    BY <1>1, <1>2, <2>1, <2>2, QuietBundles DEF IndexerInv, BundlesUnlogged
<1> QED
  BY <1>2, <1>3 DEF IndexerInv

(* The settings are written by the entrypoints of MarketState alone. *)
LEMMA GovernConfigures ==
  ASSUME Govern, height' = height
  PROVE  Configure
BY DEF Govern, Configure

(* Settings that are not touched stay within bounds. *)
LEMMA SameSettings ==
  ASSUME SettingsBounded, UNCHANGED marketVars
  PROVE  SettingsBounded'
BY DEF SettingsBounded, marketVars

(* The purchases of listings, from the beginning to the end. *)
LEMMA PurchasesKeep ==
  ASSUME CoreOK, ListingsOK, BundlesSame,
         \/ \E x \in Accounts, orders \in ListsOf(Orders) : BatchBuy(x, orders)
         \/ \E x \in Accounts, c \in Collections, ids \in ListsOf(ListingIds),
               budget \in Budgets : Sweep(x, c, ids, budget)
         \/ Purchases
  PROVE  Kept /\ TagsSame /\ BundlesUnlogged
<1>1. ASSUME \/ \E x \in Accounts, orders \in ListsOf(Orders) : BatchBuy(x, orders)
             \/ \E x \in Accounts, c \in Collections, ids \in ListsOf(ListingIds),
                   budget \in Budgets : Sweep(x, c, ids, budget)
      PROVE  Kept /\ TagsSame /\ BundlesUnlogged
  <2>1. CoreOK' /\ UnloggedSame /\ ListingsOK' /\ TermsStood
    BY <1>1, PurchaseKeeps
  <2>2. TagsSame
    BY <1>1, BeginTags
  <2>3. UNCHANGED marketVars
    BY <1>1 DEF BatchBuy, Sweep, Begin
  <2> QED
    BY <2>1, <2>2, <2>3 DEF Kept, BundlesUnlogged, UnloggedSame
<1>2. ASSUME NextOrder
      PROVE  Kept /\ TagsSame /\ BundlesUnlogged
  <2>1. /\ CoreOK' /\ ListingsOK' /\ TermsStood /\ Ordered \in Order
        /\ \A op, j :
             /\ Weighed(UnloggedWeight(op, j), calls) \in Nat
             /\ Weighed(UnloggedWeight(op, j), calls')
                  = Weighed(UnloggedWeight(op, j), calls)
                      + (IF op = "listing" /\ j = Ordered.id THEN Units(Ordered) ELSE 0)
    BY <1>2, NextOrderKeeps
  <2>2. TagsSame
    BY <1>2, <2>1, NextOrderTags
  <2>3. BundlesUnlogged
    BY <2>1 DEF BundlesUnlogged
  <2>4. UNCHANGED marketVars
    BY <1>2 DEF NextOrder
  <2> QED
    BY <2>1, <2>2, <2>3, <2>4 DEF Kept
<1>3. ASSUME NEW arrived, TakePayment(arrived)
      PROVE  Kept /\ TagsSame /\ BundlesUnlogged
  <2>1. CoreOK' /\ UnloggedSame /\ ListingsOK' /\ TermsStood
    BY <1>3, PurchaseKeeps
  <2>2. TagsSame
    BY <1>3, TakePaymentTags
  <2>3. UNCHANGED marketVars
    BY <1>3 DEF TakePayment
  <2> QED
    BY <2>1, <2>2, <2>3 DEF Kept, BundlesUnlogged, UnloggedSame
<1>4. ASSUME GiveUnits
      PROVE  Kept /\ TagsSame /\ BundlesUnlogged
  <2>1. CoreOK' /\ UnloggedSame /\ ListingsOK' /\ TermsStood
    BY <1>4, GiveUnitsKeeps
  <2>2. TagsSame
    BY <1>4, OrderTags
  <2>3. UNCHANGED marketVars
    BY <1>4 DEF GiveUnits
  <2> QED
    BY <2>1, <2>2, <2>3 DEF Kept, BundlesUnlogged, UnloggedSame
<1>5. ASSUME FinishOrder
      PROVE  Kept /\ TagsSame /\ BundlesUnlogged
  <2>1. /\ CoreOK' /\ ListingsOK' /\ TermsStood /\ UNCHANGED marketVars
        /\ \A op, j :
              /\ Weighed(UnloggedWeight(op, j), calls') \in Nat
              /\ Weighed(UnloggedWeight(op, j), calls)
                   = Weighed(UnloggedWeight(op, j), calls')
                       + (IF op = "listing" /\ j = Top.id THEN Top.n ELSE 0)
    BY <1>5, FinishOrderKeeps
  <2>2. TagsSame
    BY <1>5, OrderTags
  <2>3. BundlesUnlogged
    BY <2>1 DEF BundlesUnlogged
  <2> QED
    BY <2>1, <2>2, <2>3 DEF Kept
<1> QED
  BY <1>1, <1>2, <1>3, <1>4, <1>5 DEF Purchases

(* Trade in listings, approvals, and trade outside the market. *)
LEMMA TradeKeeps ==
  ASSUME CoreOK, ListingsOK, Trade, BundlesSame
  PROVE  Kept /\ TagsSame /\ BundlesUnlogged
<1>1. ASSUME NEW s \in Accounts, NEW offered \in ListsOf(Offered), BatchList(s, offered)
      PROVE  Kept /\ TagsSame /\ BundlesUnlogged
  BY <1>1, BatchListKeeps, TagsStay DEF BatchList, Kept, BundlesUnlogged, UnloggedSame
<1>2. ASSUME NEW id \in ListingIds, Delist(id)
      PROVE  Kept /\ TagsSame /\ BundlesUnlogged
  BY <1>2, DelistKeeps, TagsStay DEF Delist, Kept, BundlesUnlogged, UnloggedSame
<1>3. ASSUME NEW id \in ListingIds, NEW p \in UnitPrices, UpdateListing(id, p)
      PROVE  Kept /\ TagsSame /\ BundlesUnlogged
  BY <1>3, UpdateListingKeeps, UpdateListingTags
     DEF UpdateListing, Kept, BundlesUnlogged, UnloggedSame
<1>4. ASSUME \/ \E x \in Accounts, orders \in ListsOf(Orders) : BatchBuy(x, orders)
             \/ \E x \in Accounts, c \in Collections, ids \in ListsOf(ListingIds),
                   budget \in Budgets : Sweep(x, c, ids, budget)
             \/ Purchases
      PROVE  Kept /\ TagsSame /\ BundlesUnlogged
  BY <1>4, PurchasesKeep
<1>5. ASSUME \/ \E ix \in Allowances : SetApproval(ix[1], ix[2])
             \/ \E ixy \in OutsideTrades : TransferOutside(ixy[1], ixy[2], ixy[3])
      PROVE  Kept /\ TagsSame /\ BundlesUnlogged
  <2>1. UNCHANGED marketVars /\ calls' = calls
    BY <1>5 DEF SetApproval, TransferOutside
  <2>2. CoreOK' /\ UnloggedSame /\ ListingsOK' /\ TermsStood
    BY <1>5, OutsideKeeps
  <2> QED
    BY <2>1, <2>2, TagsStay DEF Kept, BundlesUnlogged, UnloggedSame
<1> QED
  BY <1>1, <1>2, <1>3, <1>4, <1>5 DEF Trade

(* Trade in bundles. *)
LEMMA TradeInBundlesKeeps ==
  ASSUME CoreOK, ListingsOK, BundlesOK, TradeInBundles
  PROVE  Kept /\ BundlesOK'
<1>1. ASSUME NEW s \in Accounts, NEW nc \in Collections, NEW its \in Contents,
             NEW p \in BundlePrices, NEW t \in Tokens, NEW exp \in BundleExpirations,
             ListBundle(s, nc, its, p, t, exp)
      PROVE  Kept /\ BundlesOK'
  BY <1>1, ListBundleKeeps DEF ListBundle, Kept
<1>2. ASSUME NEW id \in BundleIds, DelistBundle(id)
      PROVE  Kept /\ BundlesOK'
  BY <1>2, DelistBundleKeeps DEF DelistBundle, Kept
<1>3. ASSUME NEW x \in Accounts, NEW id \in BundleIds, BuyBundle(x, id)
      PROVE  Kept /\ BundlesOK'
  <2>1. UNCHANGED marketVars
    BY <1>3 DEF BuyBundle
  <2> QED
    BY <1>3, <2>1, BuyBundleKeeps DEF Kept
<1>4. ASSUME GiveItem
      PROVE  Kept /\ BundlesOK'
  <2>1. UNCHANGED marketVars
    BY <1>4 DEF GiveItem
  <2> QED
    BY <1>4, <2>1, GiveItemKeeps DEF Kept
<1>5. ASSUME FinishBundle
      PROVE  Kept /\ BundlesOK'
  <2>1. UNCHANGED marketVars
    BY <1>5 DEF FinishBundle
  <2> QED
    BY <1>5, <2>1, FinishBundleKeeps DEF Kept
<1> QED
  BY <1>1, <1>2, <1>3, <1>4, <1>5 DEF TradeInBundles

(* Every step of the market keeps its invariant and lets terms stand.      *)
LEMMA IndexerStep ==
  ASSUME IndexerInv, [IndexerNext]_<<allVars, books>>
  PROVE  IndexerInv' /\ TermsStood
<1>1. CoreOK /\ ListingsOK /\ BundlesOK /\ SettingsBounded /\ MarketInv
  BY DEF IndexerInv, CoreOK
<1>2. CASE Tick /\ UNCHANGED <<listingVars, bundleVars>>
  <2>1. MarketInv' /\ cfg' = cfg
    BY <1>1, <1>2, TickInv DEF Tick
  <2>2. SettingsBounded'
    BY <1>1, <2>1 DEF SettingsBounded
  <2> QED
    BY <1>2, <2>1, <2>2, SettingsKeep
<1>3. CASE Govern /\ UNCHANGED <<height, listingVars, bundleVars>>
  <2>1. Configure
    BY <1>3, GovernConfigures
  <2>2. MarketInv' /\ SettingsBounded'
    BY <1>1, <2>1, ConfigureInv, SettingsStayBounded
  <2> QED
    BY <1>3, <2>2, SettingsKeep
<1>4. CASE Trade /\ BesidesBundles
  <2>1. BundlesSame
    BY <1>4 DEF BesidesBundles, BundlesSame
  <2>2. Kept /\ TagsSame /\ BundlesUnlogged
    BY <1>1, <1>4, <2>1, TradeKeeps
  <2>3. BundlesOK'
    BY <1>1, <1>4, <2>1, <2>2, QuietBundles DEF Kept, BundlesUnlogged
  <2> QED
    BY <1>1, <2>2, <2>3, SameSettings DEF IndexerInv, Kept
<1>5. CASE TradeInBundles
  <2>1. Kept /\ BundlesOK'
    BY <1>1, <1>5, TradeInBundlesKeeps
  <2> QED
    BY <1>1, <2>1, SameSettings DEF IndexerInv, Kept
<1>6. CASE UNCHANGED <<allVars, books>>
  <2>1. UNCHANGED marketVars /\ UNCHANGED <<listingVars, bundleVars>>
    BY <1>6 DEF allVars, vars
  <2>2. MarketInv' /\ SettingsBounded'
    BY <1>1, <2>1, UnchangedMarketInv, SameSettings
  <2> QED
    BY <2>1, <2>2, SettingsKeep
<1> QED
  BY <1>2, <1>3, <1>4, <1>5, <1>6 DEF IndexerNext

(* The listings, bundles, settings and the purchases in progress stay in   *)
(* order, whatever is called in whatever order.                            *)
THEOREM IndexerInvariant == IndexerSpec => []IndexerInv
<1>1. IndexerInit => IndexerInv
  BY IndexerAtFirst
<1>2. IndexerInv /\ [IndexerNext]_<<allVars, books>> => IndexerInv'
  BY IndexerStep
<1> QED
  BY <1>1, <1>2, PTL DEF IndexerSpec

-----------------------------------------------------------------------------
(* What the invariant says of the properties that the runs check.          *)
LEMMA InvShares ==
  ASSUME IndexerInv
  PROVE  SoldWithinListed /\ SellersShare
<1>1. calls \in Seq(Frame) /\ ListingsTyped /\ ListingsOK
  BY DEF IndexerInv, CoreOK, StackOK, CallsTyped
<1>2. ASSUME NEW id \in ListingIds
      PROVE  /\ sold[id] + InFlight(id) + Listing(id).a = listed[id]
             /\ Listing(id).a = 0 => ~Listing(id).act
             /\ proceeds[id] * BpsDenominator
                  >= received[id] * (BpsDenominator - Listing(id).fb - TotalBps(Listing(id).rs))
  <2>1. InFlight(id) = Weighed(FlightWeight(id), calls)
    BY <1>1, SumsWeigh
  <2>2. ListingGood(id)
    BY <1>1 DEF ListingsOK
  <2> QED
    BY <2>1, <2>2 DEF ListingGood, GoodListing, ShareOf
<1> QED
  BY <1>2 DEF SoldWithinListed, SellersShare

(* A bill in one token is in at most one token. *)
LEMMA InvSwept ==
  ASSUME IndexerInv
  PROVE  SweepDearerOnlyByRaise
<1> DEFINE spent == {t \in Tokens : swept.cost[t] > 0}
<1>1. PICK p : /\ \A t \in Tokens \ {p} : swept.cost[t] = 0
               /\ ~swept.raised => \A t \in Tokens : swept.cost[t] <= swept.budget
  BY DEF IndexerInv, ListingsOK, BillFits
<1>2. spent \subseteq {p}
  <2>1. ASSUME NEW t \in Tokens, t # p, swept.cost[t] > 0
        PROVE  FALSE
    <3>1. swept.cost[t] = 0
      BY <1>1, <2>1
    <3> QED
      BY <2>1, <3>1
  <2> QED
    BY <2>1
<1>3. IsFiniteSet({p}) /\ Cardinality({p}) = 1
  BY FS_Singleton
<1> HIDE DEF spent
<1>4. Cardinality(spent) <= 1
  BY <1>2, <1>3, FS_Subset
<1> QED
  BY <1>1, <1>4 DEF SweepDearerOnlyByRaise, spent

(* What is in the market is on its way to sellers. *)
LEMMA InvPasses ==
  ASSUME IndexerInv
  PROVE  PaymentsPass
BY SumsWeigh DEF IndexerInv, CoreOK, StackOK, CallsTyped

(* The price of some units is a natural number. *)
LEMMA UnitsCost ==
  ASSUME NEW p \in Nat, NEW a \in Nat, NEW n \in 0 .. a
  PROVE  p * n \in Nat
<1>1. n \in Nat
  OBVIOUS
<1> QED
  BY <1>1

(* Fair terms can be paid out of any payment. *)
LEMMA InvPays ==
  ASSUME IndexerInv
  PROVE  TermsPayable
<1>1. ASSUME NEW id \in ListingIds, NEW n \in 0 .. Listing(id).a
      PROVE  Payable(Listing(id).p * n, Listing(id).fb, Listing(id).rs)
  <2> DEFINE l == Listing(id)
             p == l.p
             a == l.a
             fb == l.fb
             rs == l.rs
  <2>1. l \in ListingRecord /\ FairTerms(fb, rs)
    BY DEF IndexerInv, CoreOK, ListingsTyped, ListingsOK, ListingGood, GoodListing, Listing
  <2>2. p \in Nat /\ a \in Nat /\ fb \in Nat /\ rs \in Seq(Split)
    BY <2>1 DEF ListingRecord
  <2>3. fb + TotalBps(rs) <= BpsDenominator
    BY <2>1 DEF FairTerms
  <2>4. p * n \in Nat
    <3>1. n \in 0 .. a
      BY <1>1
    <3> HIDE DEF p, a
    <3> QED
      BY <2>2, <3>1, UnitsCost
  <2> HIDE DEF p, fb, rs
  <2>5. Payable(p * n, fb, rs)
    BY <2>2, <2>3, <2>4, TermsPay
  <2> QED
    BY <2>5 DEF p, fb, rs
<1>2. ASSUME NEW id \in BundleIds, NEW got \in 0 .. Bundle(id).p
      PROVE  Payable(got, Bundle(id).fb, Bundle(id).rs)
  <2> DEFINE b == Bundle(id)
             p == b.p
             fb == b.fb
             rs == b.rs
  <2>1. b \in BundleRecord /\ FairTerms(fb, rs)
    BY DEF IndexerInv, CoreOK, BundlesTyped, BundlesOK, BundleGood, GoodBundle, Bundle
  <2>2. p \in Nat /\ fb \in Nat /\ rs \in Seq(Split)
    BY <2>1 DEF BundleRecord
  <2>3. fb + TotalBps(rs) <= BpsDenominator
    BY <2>1 DEF FairTerms
  <2>4. got \in Nat
    BY <1>2, <2>2
  <2> HIDE DEF fb, rs
  <2>5. Payable(got, fb, rs)
    BY <2>2, <2>3, <2>4, TermsPay
  <2> QED
    BY <2>5 DEF fb, rs
<1> QED
  BY <1>1, <1>2 DEF TermsPayable

(* Units traced to where they came from make bundles whole. *)
LEMMA InvWhole ==
  ASSUME IndexerInv
  PROVE  BundlesWhole
<1>1. CoreOK /\ BundlesOK /\ GoodsTyped
  BY DEF IndexerInv, CoreOK
<1>2. ASSUME NEW id \in BundleIds
      PROVE  Len(buyers[id]) <= 1
  BY <1>1 DEF BundlesOK, BundleGood, GoodBundle
<1>3. ASSUME Idle, NEW i \in Items, NEW x \in Accounts
      PROVE  nft[i][x] = MintedTo[i][x] + elsewhere[i][x] + FromBundles(i, x)
  <2>1. Due(i, x) = 0 /\ DueFrom(i, x) = 0
    BY <1>3, WeighedNone DEF Due, DueFrom, Idle
  <2>2. nft[i][x] + Due(i, x)
          = MintedTo[i][x] + elsewhere[i][x] + FromBundles(i, x) + DueFrom(i, x)
    BY <1>1, TracedAs DEF BundlesOK
  <2>3. nft[i][x] \in Nat /\ MintedTo[i][x] \in Nat /\ elsewhere[i][x] \in Int
    BY <1>1, CustodyAssumption DEF GoodsTyped, Holders, BundlesOK, ElsewhereTyped
  <2>4. FromBundles(i, x) \in Int
    <3>1. BundlesTyped
      BY <1>1 DEF CoreOK
    <3>2. /\ Total(Got(i, x)) \in Nat /\ Total(Gave(i, x)) \in Nat
          /\ FromBundles(i, x) = Total(Got(i, x)) - Total(Gave(i, x))
      BY <3>1, FromBundlesType
    <3> QED
      BY <3>2
  <2> QED
    BY <2>1, <2>2, <2>3, <2>4
<1> QED
  BY <1>2, <1>3 DEF BundlesWhole

(* Well-typed records within bounds make well-typed answers. *)
LEMMA InvAnswers ==
  ASSUME IndexerInv
  PROVE  AnswersOK
<1>1. /\ CoreOK /\ ListingsOK /\ BundlesOK /\ SettingsBounded
      /\ ListingsTyped /\ BundlesTyped /\ cfg \in Config /\ MarketTypeOK
  BY DEF IndexerInv, CoreOK, MarketInv, MarketTypeOK
<1>2. BundleTypeOK
  <2>1. calls \in Seq(Frame) /\ Len(calls) <= MaxDepth /\ GoodsTyped
    BY <1>1 DEF CoreOK, StackOK, CallsTyped
  <2>2. TypeOK
    BY <1>1, <2>1 DEF TypeOK, ListingsTyped, GoodsTyped, ListingsOK, HistoryTyped
  <2> QED
    BY <1>1, <2>2 DEF BundleTypeOK, BundlesTyped, BundlesOK, ElsewhereTyped
<1>3. GetInfo \in InfoResponse
  BY <1>1 DEF GetInfo, InfoResponse, Config, SettingsBounded
<1>4. ASSUME NEW id \in ListingIds, ListingFound(id)
      PROVE  GetListing(id) \in ListingResponse
  <2> DEFINE l == Listing(id)
             fb == l.fb
             tb == TotalBps(l.rs)
  <2>1. l \in ListingRecord /\ FairTerms(l.fb, l.rs) /\ l.s # NoAccount
    BY <1>1, <1>4 DEF ListingsOK, ListingsTyped, ListingGood, GoodListing, Listing, ListingFound
  <2>2. fb \in Nat /\ l.rs \in Seq(Split)
    BY <2>1 DEF ListingRecord
  <2>3. fb <= 10000 /\ tb \in 0 .. 5000
    BY <2>1, <2>2, ShareType
  <2> HIDE DEF fb
  <2>4. fb \in 0 .. 10000
    BY <2>2, <2>3
  <2> HIDE DEF tb
  <2>5. GetListing(id) =
          [seller |-> l.s, item |-> l.item, amount |-> l.a, pricePerUnit |-> l.p,
           paymentToken |-> l.pt, active |-> l.act, expirationBlock |-> l.exp,
           feeBps |-> fb, royaltyBps |-> tb, startBlock |-> l.sb]
    BY DEF GetListing, fb, tb
  <2>6. /\ l.s \in Accounts /\ l.item \in Items /\ l.a \in Nat /\ l.p \in Nat
        /\ l.pt \in Tokens /\ l.act \in BOOLEAN /\ l.exp \in Nat /\ l.sb \in Nat
    BY <2>1 DEF ListingRecord
  <2> HIDE DEF l
  <2> QED
    BY <2>3, <2>4, <2>5, <2>6 DEF ListingResponse
<1>5. ASSUME NEW id \in BundleIds, BundleFound(id)
      PROVE  GetBundle(id) \in BundleResponse
  <2>1. bundles[id] \in BundleRecord /\ bundles[id].s # NoAccount
    BY <1>1, <1>5 DEF BundlesTyped, BundleFound, Bundle
  <2> QED
    BY <2>1 DEF BundleRecord, GetBundle, BundleResponse, Bundle
<1> QED
  BY <1>2, <1>3, <1>4, <1>5 DEF AnswersOK

-----------------------------------------------------------------------------
(* No listing ever sells more units than its seller put up, in whatever    *)
(* batches and sweeps it is named and however purchases of it are nested,  *)
(* and it is off when it is sold out (doBuy, batchBuy, sweep).             *)
THEOREM NeverOversold == IndexerSpec => []SoldWithinListed
<1>1. IndexerInv => SoldWithinListed
  BY InvShares
<1> QED
  BY <1>1, IndexerInvariant, PTL

(* A sweep spends one payment token.  Its second pass reads prices and     *)
(* amounts again, with no limit and after calls to other contracts, so it  *)
(* can go over its budget, but only if somebody raised the price of a      *)
(* listing still to come in one of those calls; everything else that can   *)
(* happen there leaves it within the budget (the two passes of sweep).     *)
THEOREM SweepsKeepToBudgetUnlessRaised == IndexerSpec => []SweepDearerOnlyByRaise
<1>1. IndexerInv => SweepDearerOnlyByRaise
  BY InvSwept
<1> QED
  BY <1>1, IndexerInvariant, PTL

(* The fee and royalties locked in a listing or a bundle can be paid out   *)
(* of any payment for it, and over all sales of a listing its seller gets  *)
(* at least the share they leave: however many parts the payments come in  *)
(* and however many recipients there are, rounding is in the seller's      *)
(* favour (feeAndRoyaltyOf, and the check against 100% in doList and       *)
(* listBundle).                                                            *)
THEOREM TermsAreHonoured == IndexerSpec => []TermsHonoured
<1>1. IndexerInv => TermsHonoured
  BY InvShares, InvPays DEF TermsHonoured
<1> QED
  BY <1>1, IndexerInvariant, PTL

(* The market holds of every token what the purchases in progress have     *)
(* taken in and not yet paid out, however deep they are nested and         *)
(* whatever arrives of a payment, and nothing when all are through         *)
(* (escrowIn and the payouts of doBuy and buyBundle).                      *)
THEOREM PaymentsPassThrough == IndexerSpec => []PaymentsPass
<1>1. IndexerInv => PaymentsPass
  BY InvPasses
<1> QED
  BY <1>1, IndexerInvariant, PTL

(* The terms a listing was made with stand in every step, and every        *)
(* purchase in progress goes by them; a price changes only in a step that  *)
(* moves nothing, amounts only go down, and what is over stays over        *)
(* (doBuy, updateListing, delist).                                         *)
THEOREM ListingTermsStand == IndexerSpec => TermsStand
<1>1. IndexerInv /\ [IndexerNext]_<<allVars, books>> => [TermsStood /\ FramesStood]_vars
  BY IndexerStep, FramesStand DEF IndexerInv
<1> QED
  <2>1. TermsStand <=> [][TermsStood /\ FramesStood]_vars
    BY PTL DEF TermsStand, TermsStood, FramesStood
  <2> QED
    BY <1>1, <2>1, IndexerInvariant, PTL DEF IndexerSpec

(* A bundle is bought at most once and whole: between transactions every   *)
(* account's units are those it had at first, those it traded otherwise,   *)
(* and exactly the contents of the bundles it bought less those it sold,   *)
(* also when purchases were nested (buyBundle).                            *)
THEOREM BundlesStayWhole == IndexerSpec => []BundlesWhole
<1>1. IndexerInv => BundlesWhole
  BY InvWhole
<1> QED
  BY <1>1, IndexerInvariant, PTL

(* The queries about settings, listings and bundles answer within the      *)
(* ranges of their response types (getInfo, getListing, getBundle).        *)
THEOREM QueriesAnswer == IndexerSpec => []AnswersOK
<1>1. IndexerInv => AnswersOK
  BY InvAnswers
<1> QED
  BY <1>1, IndexerInvariant, PTL

-----------------------------------------------------------------------------
(* The log: what an indexer that reads only the events knows.              *)

(* Units that are bought and not yet paid out: what the log has not told.  *)
UnloggedOf(op, id) == Weighed(UnloggedWeight(op, id), calls)

(* On offer, or in its last purchases. *)
StillOn(act, a, u) == act \/ (a = 0 /\ u > 0)

(* What the log has told of a listing, a bundle and a royalty, and of the  *)
(* market as a whole, as far as it can be read off the state; u units are  *)
(* bought and not yet told.                                                *)
ListingEntry(l, u, taken, left) ==
  [known |-> TRUE, seller |-> l.s, item |-> l.item, amount |-> l.a + u,
   pricePerUnit |-> l.p, paymentToken |-> l.pt, expirationBlock |-> l.exp,
   active |-> StillOn(l.act, l.a, u), taken |-> taken, left |-> left]

ListingsShown ==
  [id \in ListingIds |->
     IF id < nextListingId
     THEN ListingEntry(Listing(id), UnloggedOf("listing", id), received[id], proceeds[id])
     ELSE NoEntry]

BundleEntry(b, u) ==
  [known |-> TRUE, seller |-> b.s, nftContract |-> b.nc, count |-> Len(b.its),
   price |-> b.p, active |-> b.act \/ u > 0]

BundlesShown ==
  [id \in BundleIds |->
     IF id < nextBundleId THEN BundleEntry(Bundle(id), UnloggedOf("bundle", id))
     ELSE NoEntry]

RoyaltyEntry(r) ==
  IF r.splits = <<>> THEN [bps |-> r.bps, to |-> r.rcpt, count |-> IF r.bps = 0 THEN 0 ELSE 1]
  ELSE [bps |-> Unknown, to |-> NoAccount, count |-> Len(r.splits)]

BooksShown ==
  [owner |-> cfg.owner, pendingOwner |-> cfg.pendingOwner, paused |-> cfg.paused,
   tokens |-> cfg.allowed, denied |-> cfg.denied, fees |-> cfg.collectionFee,
   royalties |-> [c \in Collections |-> RoyaltyEntry(cfg.royalty[c])],
   listings |-> ListingsShown, bundles |-> BundlesShown]

(* What was listed has a seller. *)
SellersKnown ==
  /\ \A id \in ListingIds : id < nextListingId => Listing(id).s # NoAccount
  /\ \A id \in BundleIds : id < nextBundleId => Bundle(id).s # NoAccount

LogIsState == books = BooksShown /\ SellersKnown

(* What is unlogged after a step. *)
LEMMA UnloggedNext ==
  ASSUME NEW op, NEW id
  PROVE  UnloggedOf(op, id)' = Weighed(UnloggedWeight(op, id), calls')
BY DEF UnloggedOf, Weighed, UnloggedWeight

(* It is a number. *)
LEMMA UnloggedOfType ==
  ASSUME CoreOK, NEW op, NEW id
  PROVE  UnloggedOf(op, id) \in Nat
<1>1. calls \in Seq(Frame)
  BY DEF CoreOK, StackOK, CallsTyped
<1> QED
  BY <1>1, UnloggedType, WeighedType DEF UnloggedOf

(* Nothing is bought of a listing that was never made. *)
LEMMA NothingUnlogged ==
  ASSUME CoreOK, NEW id \in ListingIds, ~(id < nextListingId)
  PROVE  UnloggedOf("listing", id) = 0
<1> DEFINE W == UnloggedWeight("listing", id)
<1>1. calls \in Seq(Frame) /\ FramesOK
  BY DEF CoreOK, StackOK, CallsTyped
<1>2. ASSUME NEW k \in DOMAIN calls
      PROVE  W[calls[k]] = 0
  <2> DEFINE f == calls[k]
  <2>1. f \in Frame /\ FitsNow(f)
    BY <1>1 DEF FramesOK
  <2> HIDE DEF f
  <2>2. ASSUME f.op = "listing", f.id = id
        PROVE  "payout" \notin ToSet(f.todo)
    <3>1. OrderFits(f, listings, nextListingId) /\ f.at \in Nat
      BY <2>1, <2>2 DEF FitsNow, FrameFits, Frame
    <3>2. f.at = 0
      BY <2>2, <3>1 DEF OrderFits
    <3>3. f.todo = <<"next">>
      BY <3>1, <3>2 DEF OrderFits
    <3>4. ToSet(<<"next">>) = {"next"}
      BY DEF ToSet
    <3> QED
      BY <3>3, <3>4
  <2> QED
    BY <2>1, <2>2 DEF UnloggedWeight, f
<1>3. W \in [Frame -> Nat]
  BY UnloggedType
<1> HIDE DEF W
<1>4. Weighed(W, calls) = 0
  BY <1>1, <1>2, <1>3, WeighedZero
<1> QED
  BY <1>4 DEF UnloggedOf, W

(* Nor of a bundle that is on, or was never made. *)
LEMMA NoneUnlogged ==
  ASSUME CoreOK, BundlesOK, NEW id \in BundleIds
  PROVE  /\ UnloggedOf("bundle", id) \in {0, 1}
         /\ Bundle(id).act \/ ~(id < nextBundleId) => UnloggedOf("bundle", id) = 0
         /\ Bundle(id).act => id < nextBundleId
<1> DEFINE u == UnloggedOf("bundle", id)
           n == Len(buyers[id])
<1>1. u \in Nat
  BY UnloggedOfType
<1>2. /\ u <= n /\ n <= 1
      /\ Bundle(id).act \/ ~(id < nextBundleId) => buyers[id] = <<>>
      /\ Bundle(id).act => id < nextBundleId
  BY DEF BundlesOK, BundleGood, GoodBundle, UnloggedOf
<1>3. buyers[id] \in Seq(Accounts)
  BY DEF CoreOK, BundlesTyped
<1>4. n \in Nat /\ (buyers[id] = <<>> => n = 0)
  BY <1>3
<1> HIDE DEF u, n
<1>5. u \in {0, 1} /\ (n = 0 => u = 0)
  BY <1>1, <1>2, <1>4
<1> QED
  BY <1>2, <1>4, <1>5 DEF u

-----------------------------------------------------------------------------
(* Telling a list of events, one after the other. *)

ToldAll(b, es) == FoldLeft(Told, b, es)

(* The last of some positions among the first m, when it is the m-th. *)
LEMMA LastOfThese ==
  ASSUME NEW m \in Nat, NEW s \in SUBSET (1 .. m), m \in s
  PROVE  Max(s) = m
<1>1. \A y \in s : m >= y
  OBVIOUS
<1>2. \A x \in s : (\A y \in s : x >= y) => x = m
  BY <1>1
<1> QED
  BY <1>1, <1>2 DEF Max

(* What telling the events at every set of positions comes to, the last    *)
(* event last: this is how FoldLeft is defined.                            *)
TellsAll(g, b, es, m) ==
  g = [s \in SUBSET (1 .. m) |->
         IF s = {} THEN b ELSE Told(g[s \ {Max(s)}], es[Max(s)])]

(* There is such a function. *)
LEMMA TellingExists ==
  ASSUME NEW b, NEW es, NEW n \in Nat
  PROVE  \E g : TellsAll(g, b, es, n)
<1> DEFINE A == {m \in 0 .. n : \E g : TellsAll(g, b, es, m)}
<1>1. 0 \in A
  <2> DEFINE g == [s \in SUBSET (1 .. 0) |-> b]
  <2>1. \A s \in SUBSET (1 .. 0) : s = {}
    OBVIOUS
  <2>2. TellsAll(g, b, es, 0)
    BY <2>1 DEF TellsAll
  <2> QED
    BY <2>2
<1>2. ASSUME NEW k \in 1 .. n, k - 1 \in A
      PROVE  k \in A
  <2>1. PICK g : TellsAll(g, b, es, k - 1)
    BY <1>2
  <2> DEFINE h == [s \in SUBSET (1 .. k) |->
                     IF k \in s THEN Told(g[s \ {k}], es[k]) ELSE g[s]]
             value(s) == IF s = {} THEN b ELSE Told(h[s \ {Max(s)}], es[Max(s)])
  <2>2. ASSUME NEW s \in SUBSET (1 .. (k - 1))
        PROVE  /\ g[s] = IF s = {} THEN b ELSE Told(g[s \ {Max(s)}], es[Max(s)])
               /\ h[s] = g[s]
    <3>1. s \in SUBSET (1 .. k) /\ k \notin s
      OBVIOUS
    <3>2. g[s] = IF s = {} THEN b ELSE Told(g[s \ {Max(s)}], es[Max(s)])
      BY <2>1 DEF TellsAll
    <3> QED
      BY <3>1, <3>2
  <2>3. ASSUME NEW s \in SUBSET (1 .. k)
        PROVE  h[s] = value(s)
    <3>1. CASE k \in s
      <4>1. Max(s) = k /\ s # {}
        BY <3>1, LastOfThese
      <4>2. s \ {k} \in SUBSET (1 .. (k - 1))
        OBVIOUS
      <4>3. h[s \ {k}] = g[s \ {k}]
        BY <2>2, <4>2
      <4>4. h[s] = Told(g[s \ {k}], es[k])
        BY <3>1
      <4> HIDE DEF h
      <4> QED
        BY <4>1, <4>3, <4>4
    <3>2. CASE k \notin s
      <4>1. s \in SUBSET (1 .. (k - 1))
        BY <3>2
      <4>2. h[s \ {Max(s)}] = g[s \ {Max(s)}]
        <5>1. s \ {Max(s)} \in SUBSET (1 .. (k - 1))
          BY <4>1
        <5> QED
          BY <2>2, <5>1
      <4>3. /\ g[s] = IF s = {} THEN b ELSE Told(g[s \ {Max(s)}], es[Max(s)])
            /\ h[s] = g[s]
        BY <2>2, <4>1
      <4> HIDE DEF h
      <4> QED
        BY <4>2, <4>3
    <3> QED
      BY <3>1, <3>2
  <2>4. h = [s \in SUBSET (1 .. k) |-> h[s]]
    OBVIOUS
  <2> HIDE DEF h
  <2>5. TellsAll(h, b, es, k)
    BY <2>3, <2>4 DEF TellsAll
  <2> QED
    BY <2>5
<1> HIDE DEF A
<1>3. n \in A
  <2>1. 0 .. n \subseteq A
    BY <1>1, <1>2, UpTo
  <2> QED
    BY <2>1
<1> QED
  BY <1>3 DEF A

(* Telling the events one by one, from the first on. *)
LEMMA ToldInTurn ==
  ASSUME NEW b, NEW n \in Nat, NEW es, DOMAIN es = 1 .. n, NEW f, f[0] = b,
         \A m \in 1 .. n : f[m] = Told(f[m - 1], es[m])
  PROVE  ToldAll(b, es) = f[n]
<1> DEFINE it == CHOOSE g : TellsAll(g, b, es, n)
<1>1. TellsAll(it, b, es, n)
  BY TellingExists
<1>2. ToldAll(b, es) = it[1 .. n]
  BY DEF ToldAll, FoldLeft, MapThenFoldSet, TellsAll
<1> HIDE DEF it
<1>3. ASSUME NEW s \in SUBSET (1 .. n)
      PROVE  it[s] = IF s = {} THEN b ELSE Told(it[s \ {Max(s)}], es[Max(s)])
  BY <1>1 DEF TellsAll
<1> DEFINE A == {m \in 0 .. n : it[1 .. m] = f[m]}
<1>4. 0 \in A
  <2>1. 1 .. 0 = {} /\ {} \in SUBSET (1 .. n) /\ 0 \in 0 .. n
    OBVIOUS
  <2>2. it[{}] = b
    BY <1>3, <2>1
  <2> QED
    BY <2>1, <2>2
<1>5. ASSUME NEW m \in 1 .. n, m - 1 \in A
      PROVE  m \in A
  <2>1. Max(1 .. m) = m /\ (1 .. m) \ {m} = 1 .. (m - 1) /\ 1 .. m # {}
    <3>1. m \in Nat \ {0}
      OBVIOUS
    <3> QED
      BY <3>1, LastOfFirst
  <2> DEFINE s == 1 .. m
  <2>2. s \in SUBSET (1 .. n)
    OBVIOUS
  <2> HIDE DEF s
  <2>3. it[s] = IF s = {} THEN b ELSE Told(it[s \ {Max(s)}], es[Max(s)])
    BY <1>3, <2>2
  <2>4. it[1 .. m] = Told(it[1 .. (m - 1)], es[m])
    BY <2>1, <2>3 DEF s
  <2>5. it[1 .. (m - 1)] = f[m - 1]
    BY <1>5
  <2> QED
    BY <2>4, <2>5
<1> HIDE DEF A
<1>6. n \in A
  <2>1. 0 .. n \subseteq A
    BY <1>4, <1>5, UpTo
  <2> QED
    BY <2>1
<1> QED
  BY <1>2, <1>6 DEF A

(* An event on its own. *)
LEMMA ToldOnce ==
  ASSUME NEW b, NEW e
  PROVE  ToldAll(b, <<e>>) = Told(b, e)
<1>1. SUFFICES ASSUME NEW es, DOMAIN es = 1 .. 1, NEW c, c = Told(b, es[1])
               PROVE  ToldAll(b, es) = c
  <2>1. DOMAIN <<e>> = 1 .. 1 /\ <<e>>[1] = e
    OBVIOUS
  <2> QED
    BY <1>1, <2>1
<1> DEFINE f == [m \in 0 .. 1 |-> IF m = 0 THEN b ELSE c]
<1>2. /\ f[0] = b /\ f[1] = c
      /\ \A m \in 1 .. 1 : f[m] = Told(f[m - 1], es[m])
  BY <1>1
<1> HIDE DEF f
<1> DEFINE n == 1
<1>3. n \in Nat /\ DOMAIN es = 1 .. n /\ \A m \in 1 .. n : f[m] = Told(f[m - 1], es[m])
  BY <1>1, <1>2
<1> HIDE DEF n
<1>4. ToldAll(b, es) = f[n]
  BY <1>2, <1>3, ToldInTurn
<1> QED
  BY <1>2, <1>4 DEF n

-----------------------------------------------------------------------------
(* What one event tells. *)

TradeEvents ==
  {"listed", "delisted", "listing_updated", "bought",
   "bundle_listed", "bundle_delisted", "bundle_bought"}

(* Only events of trade say something about listings and bundles. *)
LEMMA SettingTold ==
  ASSUME NEW b, NEW e, e.type \notin TradeEvents
  PROVE  ToldAll(b, <<e>>) = SettingsTold(b, e)
<1>1. BundlesTold(b, e) = b
  BY DEF BundlesTold, TradeEvents
<1>2. ListingsTold(b, e) = b
  BY DEF ListingsTold, TradeEvents
<1>3. Told(b, e) = SettingsTold(b, e)
  BY <1>1, <1>2 DEF Told
<1> QED
  BY <1>3, ToldOnce

(* And those say nothing about settings. *)
LEMMA ListingTold ==
  ASSUME NEW b, NEW e, e.type \in {"listed", "delisted", "listing_updated", "bought"}
  PROVE  Told(b, e) = ListingsTold(b, e)
<1>1. BundlesTold(b, e) = b
  BY DEF BundlesTold
<1> DEFINE c == ListingsTold(b, e)
<1> HIDE DEF c
<1>2. SettingsTold(c, e) = c
  BY DEF SettingsTold
<1> QED
  BY <1>1, <1>2 DEF Told, c

(* Nor do those about bundles. *)
LEMMA BundleTold ==
  ASSUME NEW b, NEW e, e.type \in {"bundle_listed", "bundle_delisted", "bundle_bought"}
  PROVE  ToldAll(b, <<e>>) = BundlesTold(b, e)
<1> DEFINE c == BundlesTold(b, e)
<1> HIDE DEF c
<1>1. ListingsTold(c, e) = c
  BY DEF ListingsTold
<1>2. SettingsTold(c, e) = c
  BY DEF SettingsTold
<1>3. Told(b, e) = c
  BY <1>1, <1>2 DEF Told, c
<1> QED
  BY <1>3, ToldOnce DEF c

(* What a sweep sums up an indexer has heard before. *)
LEMMA SweptTold ==
  ASSUME NEW b, NEW e, e.type = "swept"
  PROVE  Told(b, e) = b
<1>1. BundlesTold(b, e) = b /\ ListingsTold(b, e) = b /\ SettingsTold(b, e) = b
  BY DEF BundlesTold, ListingsTold, SettingsTold
<1> QED
  BY <1>1 DEF Told

-----------------------------------------------------------------------------
(* The settings. *)

(* The books of settings c. *)
BooksOf(c) ==
  [owner |-> c.owner, pendingOwner |-> c.pendingOwner, paused |-> c.paused,
   tokens |-> c.allowed, denied |-> c.denied, fees |-> c.collectionFee,
   royalties |-> [d \in Collections |-> RoyaltyEntry(c.royalty[d])],
   listings |-> ListingsShown, bundles |-> BundlesShown]

(* Nothing else changes with the settings. *)
LEMMA SettingsShown ==
  ASSUME UNCHANGED <<listingVars, bundleVars>>, SellersKnown
  PROVE  BooksShown' = BooksOf(cfg') /\ SellersKnown'
<1>1. /\ listings' = listings /\ nextListingId' = nextListingId
      /\ received' = received /\ proceeds' = proceeds
      /\ bundles' = bundles /\ nextBundleId' = nextBundleId /\ calls' = calls
  BY DEF listingVars, bundleVars, history
<1>2. \A op, id : UnloggedOf(op, id)' = UnloggedOf(op, id)
  BY <1>1, UnloggedNext DEF UnloggedOf
<1>3. ListingsShown' = ListingsShown /\ BundlesShown' = BundlesShown
  BY <1>1, <1>2 DEF ListingsShown, Listing, BundlesShown, Bundle
<1>4. SellersKnown'
  BY <1>1 DEF SellersKnown, Listing, Bundle
<1> QED
  BY <1>3, <1>4 DEF BooksShown, BooksOf

(* setRoyaltySplits. *)
LEMMA SplitsLogged ==
  ASSUME cfg \in Config, books = BooksOf(cfg), NEW c \in Collections,
         NEW splits \in Seq(Split), SetRoyaltySplits(c, splits),
         Log(<<RoyaltySplitsSet(c, Len(splits))>>)
  PROVE  books' = BooksOf(cfg')
<1> DEFINE L == ListingsShown
           B == BundlesShown
           ry == [d \in Collections |-> RoyaltyEntry(cfg.royalty[d])]
<1>0. BooksOf(cfg) = [owner |-> cfg.owner, pendingOwner |-> cfg.pendingOwner,
         paused |-> cfg.paused, tokens |-> cfg.allowed, denied |-> cfg.denied,
         fees |-> cfg.collectionFee, royalties |-> ry, listings |-> L, bundles |-> B]
  BY DEF BooksOf
<1> HIDE DEF L, B
<1> DEFINE e == RoyaltySplitsSet(c, Len(splits))
           r == [bps |-> TotalBps(splits), rcpt |-> splits[1].to, splits |-> splits]
           entry == [bps |-> Unknown, to |-> NoAccount, count |-> Len(splits)]
<1>1. r.splits # <<>>
  BY DEF SetRoyaltySplits
<1>2. /\ e.type = "royaltySplitsSet" /\ e.nftContract = c
      /\ e.count = Len(splits)
  BY DEF RoyaltySplitsSet
<1>3. books' = SettingsTold(books, e)
  <2> HIDE DEF e
  <2> QED
    BY <1>2, SettingTold DEF Log, ToldAll, e, TradeEvents
<1> HIDE DEF e
<1>4. books' = [books EXCEPT !.royalties[c] = entry]
  BY <1>2, <1>3 DEF SettingsTold
<1>5. RoyaltyEntry(r) = entry
  BY <1>1 DEF RoyaltyEntry
<1>6. cfg' = [cfg EXCEPT !.royalty[c] = r]
  BY DEF SetRoyaltySplits
<1> HIDE DEF r, entry
<1>7. /\ cfg'.owner = cfg.owner /\ cfg'.pendingOwner = cfg.pendingOwner
      /\ cfg'.paused = cfg.paused /\ cfg'.allowed = cfg.allowed
      /\ cfg'.denied = cfg.denied /\ cfg'.collectionFee = cfg.collectionFee
      /\ cfg'.royalty = [cfg.royalty EXCEPT ![c] = r]
  BY <1>6 DEF Config
<1>8. books' = [books EXCEPT !.royalties = [ry EXCEPT ![c] = entry]]
  BY <1>0, <1>4
<1>9. [ry EXCEPT ![c] = entry] = [d \in Collections |-> RoyaltyEntry(cfg'.royalty[d])]
  <2>1. cfg.royalty \in [Collections -> Royalty]
    BY DEF Config
  <2>2. \A d \in Collections : cfg'.royalty[d] = IF d = c THEN r ELSE cfg.royalty[d]
    BY <1>7, <2>1
  <2> QED
    BY <1>5, <2>2
<1> HIDE DEF ry
<1> QED
  BY <1>0, <1>7, <1>8, <1>9 DEF BooksOf, L, B

(* Every entrypoint of the owner and of a collection's, and what it logs.  *)
LEMMA GovernLogged ==
  ASSUME cfg \in Config, books = BooksOf(cfg), Govern
  PROVE  books' = BooksOf(cfg')
<1> DEFINE L == ListingsShown
           B == BundlesShown
           ry == [d \in Collections |-> RoyaltyEntry(cfg.royalty[d])]
<1>0. BooksOf(cfg) = [owner |-> cfg.owner, pendingOwner |-> cfg.pendingOwner,
         paused |-> cfg.paused, tokens |-> cfg.allowed, denied |-> cfg.denied,
         fees |-> cfg.collectionFee, royalties |-> ry, listings |-> L, bundles |-> B]
  BY DEF BooksOf
<1>1. ASSUME \/ \E f \in FeeChoices : SetFee(f) /\ Silent
             \/ \E x \in FeeRecipientChoices : SetFeeRecipient(x) /\ Silent
             \/ \E v \in MinBidIncChoices : SetMinBidIncrement(v) /\ Silent
             \/ \E v \in AntiSnipeChoices : SetAntiSnipeBlocks(v) /\ Silent
             \/ \E v \in MinOfferChoices : SetMinOffer(v) /\ Silent
      PROVE  books' = BooksOf(cfg')
  <2>1. /\ books' = books /\ cfg'.owner = cfg.owner /\ cfg'.pendingOwner = cfg.pendingOwner
        /\ cfg'.paused = cfg.paused /\ cfg'.allowed = cfg.allowed /\ cfg'.denied = cfg.denied
        /\ cfg'.collectionFee = cfg.collectionFee /\ cfg'.royalty = cfg.royalty
    BY <1>1 DEF Silent, SetFee, SetFeeRecipient, SetMinBidIncrement, SetAntiSnipeBlocks,
                SetMinOffer, Config
  <2> QED
    BY <2>1 DEF BooksOf
<1> HIDE DEF L, B
<1>2. ASSUME NEW cf \in CollectionFeeChoices, SetCollectionFee(cf[1], cf[2]),
             Log(<<IF cf[2] = NoFee THEN CollectionFeeCleared(cf[1])
                   ELSE CollectionFeeSet(cf[1], cf[2])>>)
      PROVE  books' = BooksOf(cfg')
  <2> DEFINE e == IF cf[2] = NoFee THEN CollectionFeeCleared(cf[1])
                  ELSE CollectionFeeSet(cf[1], cf[2])
  <2>1. /\ e.nftContract = cf[1]
        /\ \/ e.type = "collectionFeeCleared" /\ cf[2] = NoFee
           \/ e.type = "collectionFeeSet" /\ e.feeBps = cf[2]
    BY DEF CollectionFeeCleared, CollectionFeeSet
  <2> HIDE DEF e
  <2>2. books' = SettingsTold(books, e)
    BY <1>2, <2>1, SettingTold DEF Log, ToldAll, e, TradeEvents
  <2>3. books' = [books EXCEPT !.fees[cf[1]] = cf[2]]
    BY <2>1, <2>2 DEF SettingsTold
  <2>4. cfg' = [cfg EXCEPT !.collectionFee[cf[1]] = cf[2]]
    BY <1>2 DEF SetCollectionFee
  <2>5. books' = [books EXCEPT !.fees = [cfg.collectionFee EXCEPT ![cf[1]] = cf[2]]]
    BY <1>0, <2>3
  <2>6. /\ cfg'.collectionFee = [cfg.collectionFee EXCEPT ![cf[1]] = cf[2]]
        /\ cfg'.owner = cfg.owner /\ cfg'.pendingOwner = cfg.pendingOwner
        /\ cfg'.paused = cfg.paused /\ cfg'.allowed = cfg.allowed /\ cfg'.denied = cfg.denied
        /\ cfg'.royalty = cfg.royalty
    BY <2>4 DEF Config
  <2> QED
    BY <1>0, <2>5, <2>6 DEF BooksOf, L, B
<1>3. ASSUME NEW p \in PauseChoices, SetPaused(p),
             Log(<<IF p THEN Paused(cfg.owner) ELSE Unpaused(cfg.owner)>>)
      PROVE  books' = BooksOf(cfg')
  <2> DEFINE e == IF p THEN Paused(cfg.owner) ELSE Unpaused(cfg.owner)
  <2>1. (p = TRUE /\ e.type = "paused") \/ (p = FALSE /\ e.type = "unpaused")
    BY ChoiceAssumption DEF Paused, Unpaused
  <2> HIDE DEF e
  <2>2. books' = SettingsTold(books, e)
    BY <1>3, <2>1, SettingTold DEF Log, ToldAll, e, TradeEvents
  <2>3. books' = [books EXCEPT !.paused = p]
    BY <1>0, <2>1, <2>2 DEF SettingsTold
  <2>4. /\ cfg'.owner = cfg.owner /\ cfg'.pendingOwner = cfg.pendingOwner
        /\ cfg'.paused = p /\ cfg'.allowed = cfg.allowed
        /\ cfg'.denied = cfg.denied /\ cfg'.collectionFee = cfg.collectionFee
        /\ cfg'.royalty = cfg.royalty
    BY <1>3 DEF SetPaused, Config
  <2> QED
    BY <1>0, <2>3, <2>4 DEF BooksOf, L, B
<1>4. ASSUME NEW td \in AddTokenChoices, AddPaymentToken(td[1], td[2]),
             Log(<<PaymentToken("payment_token_added", td[1])>>)
      PROVE  books' = BooksOf(cfg')
  <2> DEFINE e == PaymentToken("payment_token_added", td[1])
  <2>1. e.type = "payment_token_added" /\ e.token = td[1]
    BY DEF PaymentToken
  <2> HIDE DEF e
  <2>2. books' = SettingsTold(books, e)
    BY <1>4, <2>1, SettingTold DEF Log, ToldAll, e, TradeEvents
  <2>3. books' = [books EXCEPT !.tokens = cfg.allowed \cup {td[1]}]
    BY <1>0, <2>1, <2>2 DEF SettingsTold
  <2>4. /\ cfg'.owner = cfg.owner /\ cfg'.pendingOwner = cfg.pendingOwner
        /\ cfg'.paused = cfg.paused /\ cfg'.allowed = cfg.allowed \cup {td[1]}
        /\ cfg'.denied = cfg.denied /\ cfg'.collectionFee = cfg.collectionFee
        /\ cfg'.royalty = cfg.royalty
    BY <1>4 DEF AddPaymentToken, Config
  <2> QED
    BY <1>0, <2>3, <2>4 DEF BooksOf, L, B
<1>5. ASSUME NEW t \in RemoveTokenChoices, RemovePaymentToken(t),
             Log(<<PaymentToken("payment_token_removed", t)>>)
      PROVE  books' = BooksOf(cfg')
  <2> DEFINE e == PaymentToken("payment_token_removed", t)
  <2>1. e.type = "payment_token_removed" /\ e.token = t
    BY DEF PaymentToken
  <2> HIDE DEF e
  <2>2. books' = SettingsTold(books, e)
    BY <1>5, <2>1, SettingTold DEF Log, ToldAll, e, TradeEvents
  <2>3. books' = [books EXCEPT !.tokens = cfg.allowed \ {t}]
    BY <1>0, <2>1, <2>2 DEF SettingsTold
  <2>4. /\ cfg'.owner = cfg.owner /\ cfg'.pendingOwner = cfg.pendingOwner
        /\ cfg'.paused = cfg.paused /\ cfg'.allowed = cfg.allowed \ {t}
        /\ cfg'.denied = cfg.denied /\ cfg'.collectionFee = cfg.collectionFee
        /\ cfg'.royalty = cfg.royalty
    BY <1>5 DEF RemovePaymentToken, Config
  <2> QED
    BY <1>0, <2>3, <2>4 DEF BooksOf, L, B
<1>6. ASSUME NEW c \in DenyChoices, DenyCollection(c),
             Log(<<CollectionDenied(c, cfg.owner)>>)
      PROVE  books' = BooksOf(cfg')
  <2> DEFINE e == CollectionDenied(c, cfg.owner)
  <2>1. e.type = "collectionDenied" /\ e.nftContract = c
    BY DEF CollectionDenied
  <2> HIDE DEF e
  <2>2. books' = SettingsTold(books, e)
    BY <1>6, <2>1, SettingTold DEF Log, ToldAll, e, TradeEvents
  <2>3. books' = [books EXCEPT !.denied = cfg.denied \cup {c}]
    BY <1>0, <2>1, <2>2 DEF SettingsTold
  <2>4. /\ cfg'.owner = cfg.owner /\ cfg'.pendingOwner = cfg.pendingOwner
        /\ cfg'.paused = cfg.paused /\ cfg'.allowed = cfg.allowed
        /\ cfg'.denied = cfg.denied \cup {c}
        /\ cfg'.collectionFee = cfg.collectionFee /\ cfg'.royalty = cfg.royalty
    BY <1>6 DEF DenyCollection, Config
  <2> QED
    BY <1>0, <2>3, <2>4 DEF BooksOf, L, B
<1>7. ASSUME NEW c \in AllowChoices, AllowCollection(c),
             Log(<<CollectionAllowedAgain(c, cfg.owner)>>)
      PROVE  books' = BooksOf(cfg')
  <2> DEFINE e == CollectionAllowedAgain(c, cfg.owner)
  <2>1. e.type = "collectionAllowed" /\ e.nftContract = c
    BY DEF CollectionAllowedAgain
  <2> HIDE DEF e
  <2>2. books' = SettingsTold(books, e)
    BY <1>7, <2>1, SettingTold DEF Log, ToldAll, e, TradeEvents
  <2>3. books' = [books EXCEPT !.denied = cfg.denied \ {c}]
    <3>1. books' = [books EXCEPT !.denied = books.denied \ {c}]
      BY <2>1, <2>2 DEF SettingsTold
    <3>2. books.denied = cfg.denied
      BY <1>0
    <3> QED
      BY <3>1, <3>2
  <2>4. /\ cfg'.owner = cfg.owner /\ cfg'.pendingOwner = cfg.pendingOwner
        /\ cfg'.paused = cfg.paused /\ cfg'.allowed = cfg.allowed
        /\ cfg'.denied = cfg.denied \ {c}
        /\ cfg'.collectionFee = cfg.collectionFee /\ cfg'.royalty = cfg.royalty
    BY <1>7 DEF AllowCollection, Config
  <2> QED
    BY <1>0, <2>3, <2>4 DEF BooksOf, L, B
<1>8. ASSUME NEW x \in OwnerChoices, ChangeOwner(x),
             Log(<<OwnerTransferInitiated(cfg.owner, x)>>)
      PROVE  books' = BooksOf(cfg')
  <2> DEFINE e == OwnerTransferInitiated(cfg.owner, x)
  <2>1. e.type = "ownerTransferInitiated" /\ e.pendingOwner = x
    BY DEF OwnerTransferInitiated
  <2> HIDE DEF e
  <2>2. books' = SettingsTold(books, e)
    BY <1>8, <2>1, SettingTold DEF Log, ToldAll, e, TradeEvents
  <2>3. books' = [books EXCEPT !.pendingOwner = x]
    BY <1>0, <2>1, <2>2 DEF SettingsTold
  <2>4. /\ cfg'.owner = cfg.owner /\ cfg'.pendingOwner = x
        /\ cfg'.paused = cfg.paused /\ cfg'.allowed = cfg.allowed
        /\ cfg'.denied = cfg.denied /\ cfg'.collectionFee = cfg.collectionFee
        /\ cfg'.royalty = cfg.royalty
    BY <1>8 DEF ChangeOwner, Config
  <2> QED
    BY <1>0, <2>3, <2>4 DEF BooksOf, L, B
<1>9. ASSUME AcceptOwnership, Log(<<OwnerChange(cfg.owner, cfg.pendingOwner)>>)
      PROVE  books' = BooksOf(cfg')
  <2> DEFINE e == OwnerChange(cfg.owner, cfg.pendingOwner)
  <2>1. e.type = "ownerChange" /\ e.newOwner = cfg.pendingOwner
    BY DEF OwnerChange
  <2> HIDE DEF e
  <2>2. books' = SettingsTold(books, e)
    BY <1>9, <2>1, SettingTold DEF Log, ToldAll, e, TradeEvents
  <2>3. books' = [books EXCEPT !.owner = cfg.pendingOwner, !.pendingOwner = NoAccount]
    BY <1>0, <2>1, <2>2 DEF SettingsTold
  <2>4. /\ cfg'.owner = cfg.pendingOwner /\ cfg'.pendingOwner = NoAccount
        /\ cfg'.paused = cfg.paused /\ cfg'.allowed = cfg.allowed
        /\ cfg'.denied = cfg.denied /\ cfg'.collectionFee = cfg.collectionFee
        /\ cfg'.royalty = cfg.royalty
    BY <1>9 DEF AcceptOwnership, Config
  <2> QED
    BY <1>0, <2>3, <2>4 DEF BooksOf, L, B
<1>10. ASSUME CancelOwnershipTransfer, Log(<<OwnerTransferCancelled(cfg.owner)>>)
      PROVE  books' = BooksOf(cfg')
  <2> DEFINE e == OwnerTransferCancelled(cfg.owner)
  <2>1. e.type = "ownerTransferCancelled"
    BY DEF OwnerTransferCancelled
  <2> HIDE DEF e
  <2>2. books' = SettingsTold(books, e)
    BY <1>10, <2>1, SettingTold DEF Log, ToldAll, e, TradeEvents
  <2>3. books' = [books EXCEPT !.pendingOwner = NoAccount]
    BY <1>0, <2>1, <2>2 DEF SettingsTold
  <2>4. /\ cfg'.owner = cfg.owner /\ cfg'.pendingOwner = NoAccount
        /\ cfg'.paused = cfg.paused /\ cfg'.allowed = cfg.allowed
        /\ cfg'.denied = cfg.denied /\ cfg'.collectionFee = cfg.collectionFee
        /\ cfg'.royalty = cfg.royalty
    BY <1>10 DEF CancelOwnershipTransfer, Config
  <2> QED
    BY <1>0, <2>3, <2>4 DEF BooksOf, L, B
<1>11. ASSUME NEW cr \in RoyaltyChoices, SetRoyalty(cr[1], cr[2]),
             NEW c, c = cr[1], Log(<<RoyaltySet(c, cr[2].bps, cr[2].to)>>)
      PROVE  books' = BooksOf(cfg')
  <2> DEFINE e == RoyaltySet(c, cr[2].bps, cr[2].to)
             r == [bps |-> cr[2].bps, rcpt |-> cr[2].to, splits |-> <<>>]
             entry == [bps |-> cr[2].bps, to |-> cr[2].to,
                       count |-> IF cr[2].bps = 0 THEN 0 ELSE 1]
  <2>1. r.splits = <<>>
    OBVIOUS
  <2>2. /\ e.type = "royalty_set" /\ e.nftContract = c
        /\ e.royaltyBps = cr[2].bps /\ e.royaltyRecipient = cr[2].to
    BY DEF RoyaltySet
  <2>3. books' = SettingsTold(books, e)
    <3> HIDE DEF e
    <3> QED
      BY <1>11, <2>2, SettingTold DEF Log, ToldAll, e, TradeEvents
  <2> HIDE DEF e
  <2>4. books' = [books EXCEPT !.royalties[c] = entry]
    BY <2>2, <2>3 DEF SettingsTold
  <2>5. RoyaltyEntry(r) = entry
    BY <2>1 DEF RoyaltyEntry
  <2>6. cfg' = [cfg EXCEPT !.royalty[c] = r]
    BY <1>11 DEF SetRoyalty
  <2> HIDE DEF r, entry
  <2>7. /\ cfg'.owner = cfg.owner /\ cfg'.pendingOwner = cfg.pendingOwner
        /\ cfg'.paused = cfg.paused /\ cfg'.allowed = cfg.allowed
        /\ cfg'.denied = cfg.denied /\ cfg'.collectionFee = cfg.collectionFee
        /\ cfg'.royalty = [cfg.royalty EXCEPT ![c] = r]
    BY <2>6 DEF Config
  <2>8. books' = [books EXCEPT !.royalties = [ry EXCEPT ![c] = entry]]
    BY <1>0, <2>4
  <2>9. [ry EXCEPT ![c] = entry] = [d \in Collections |-> RoyaltyEntry(cfg'.royalty[d])]
    <3>1. cfg.royalty \in [Collections -> Royalty]
      BY DEF Config
    <3>2. \A d \in Collections : cfg'.royalty[d] = IF d = c THEN r ELSE cfg.royalty[d]
      BY <2>7, <3>1
    <3> QED
      BY <2>5, <3>2
  <2> HIDE DEF ry
  <2> QED
    BY <1>0, <2>7, <2>8, <2>9 DEF BooksOf, L, B
<1>12. ASSUME NEW cs \in SplitChoices, SetRoyaltySplits(cs[1], cs[2]),
             Log(<<RoyaltySplitsSet(cs[1], Len(cs[2]))>>)
      PROVE  books' = BooksOf(cfg')
  <2>1. cs[1] \in Collections /\ cs[2] \in Seq(Split)
    BY ChoiceAssumption
  <2> QED
    BY <1>12, <2>1, SplitsLogged
<1> QED
  BY <1>1, <1>2, <1>3, <1>4, <1>5, <1>6, <1>7, <1>8, <1>9, <1>10, <1>11, <1>12 DEF Govern

-----------------------------------------------------------------------------
(* What the events of trade tell.                                          *)

(* The books with listings L, otherwise as the state shows. *)
ShownWith(L) ==
  [owner |-> cfg.owner, pendingOwner |-> cfg.pendingOwner, paused |-> cfg.paused,
   tokens |-> cfg.allowed, denied |-> cfg.denied, fees |-> cfg.collectionFee,
   royalties |-> [c \in Collections |-> RoyaltyEntry(cfg.royalty[c])],
   listings |-> L, bundles |-> BundlesShown]

(* Only listings change when settings and bundles do not. *)
LEMMA OnlyListings ==
  ASSUME cfg' = cfg, bundles' = bundles, nextBundleId' = nextBundleId, BundlesUnlogged
  PROVE  BooksShown = ShownWith(ListingsShown) /\ BooksShown' = ShownWith(ListingsShown')
<1>1. \A id : UnloggedOf("bundle", id)' = UnloggedOf("bundle", id)
  BY UnloggedNext DEF BundlesUnlogged, UnloggedOf
<1>2. BundlesShown' = BundlesShown
  BY <1>1 DEF BundlesShown, Bundle
<1> QED
  BY <1>2 DEF BooksShown, ShownWith

(* Listings can be replaced without touching the rest. *)
LEMMA ListingsReplaced ==
  ASSUME NEW L, NEW M
  PROVE  [ShownWith(L) EXCEPT !.listings = M] = ShownWith(M) /\ ShownWith(L).listings = L
<1> DEFINE ry == [c \in Collections |-> RoyaltyEntry(cfg.royalty[c])]
<1>1. \A N : ShownWith(N) =
        [owner |-> cfg.owner, pendingOwner |-> cfg.pendingOwner, paused |-> cfg.paused,
         tokens |-> cfg.allowed, denied |-> cfg.denied, fees |-> cfg.collectionFee,
         royalties |-> ry, listings |-> N, bundles |-> BundlesShown]
  BY DEF ShownWith
<1> HIDE DEF ry
<1> QED
  BY <1>1

(* What an entry consists of. *)
EntryFields ==
  {"known", "seller", "item", "amount", "pricePerUnit", "paymentToken",
   "expirationBlock", "active", "taken", "left"}

IsEntry(y, s, i, a, p, t, x, on, taken, left) ==
  /\ y = [f \in EntryFields |-> y[f]]
  /\ y.known = TRUE /\ y.seller = s /\ y.item = i /\ y.amount = a /\ y.pricePerUnit = p
  /\ y.paymentToken = t /\ y.expirationBlock = x /\ y.active = on
  /\ y.taken = taken /\ y.left = left

(* Entries with the same fields are the same. *)
LEMMA SameEntry ==
  ASSUME NEW y, NEW z, NEW s, NEW i, NEW a, NEW p, NEW t, NEW x, NEW on,
         NEW taken, NEW left,
         IsEntry(y, s, i, a, p, t, x, on, taken, left),
         IsEntry(z, s, i, a, p, t, x, on, taken, left)
  PROVE  y = z
<1>1. \A f \in EntryFields : y[f] = z[f]
  BY DEF IsEntry, EntryFields
<1> QED
  BY <1>1 DEF IsEntry

(* The entry of a listing. *)
LEMMA EntryOf ==
  ASSUME NEW l, NEW u, NEW taken, NEW left
  PROVE  IsEntry(ListingEntry(l, u, taken, left), l.s, l.item, l.a + u, l.p, l.pt, l.exp,
                 StillOn(l.act, l.a, u), taken, left)
BY DEF ListingEntry, IsEntry, EntryFields

(* An entry with the fields that a purchase changes. *)
LEMMA EntrySold ==
  ASSUME NEW y, NEW s, NEW i, NEW a, NEW p, NEW t, NEW x, NEW on, NEW taken, NEW left,
         IsEntry(y, s, i, a, p, t, x, on, taken, left),
         NEW v1, NEW v2, NEW v3, NEW v4
  PROVE  IsEntry([y EXCEPT !.amount = v1, !.active = v2, !.taken = v3, !.left = v4],
                 s, i, v1, p, t, x, v2, v3, v4)
BY DEF IsEntry, EntryFields

(* The event of a purchase tells of units that are not on offer any more.  *)
LEMMA BoughtTold ==
  ASSUME NEW id \in ListingIds, NEW L, L = [j \in ListingIds |-> L[j]],
         NEW l \in ListingRecord, l.a = 0 => ~l.act, NEW u \in Nat, NEW n \in 0 .. u,
         NEW t, NEW q, L[id] = ListingEntry(l, u, t, q),
         NEW x, NEW total, NEW fee, NEW royalty
  PROVE  Told(ShownWith(L), Bought(id, x, n, total, fee, royalty))
           = ShownWith([L EXCEPT ![id] =
               ListingEntry(l, u - n, t + total, q + total - fee - royalty)])
<1> DEFINE e == Bought(id, x, n, total, fee, royalty)
           b == ShownWith(L)
           y == ListingEntry(l, u, t, q)
           a == l.a
           act == l.act
           rest == a + u - n
           on == StillOn(act, a, u) /\ a + u - n # 0
           came == t + total
           kept == q + total - fee - royalty
           z == [y EXCEPT !.amount = rest, !.active = on, !.taken = came, !.left = kept]
           M == [L EXCEPT ![id] = z]
<1>1. /\ e.type = "bought" /\ e.listingId = id /\ e.amount = n
      /\ e.totalPrice = total /\ e.fee = fee /\ e.royalty = royalty
  BY DEF Bought
<1> HIDE DEF e
<1>2. Told(b, e) = ListingsTold(b, e)
  BY <1>1, ListingTold
<1>3. b.listings = L /\ b.listings[id] = y
  BY DEF ShownWith
<1>4. /\ y.amount = a + u /\ y.active = StillOn(act, a, u) /\ y.taken = t /\ y.left = q
  BY DEF ListingEntry
<1>5. z = ListingEntry(l, u - n, came, kept)
  <2>1. a \in Nat /\ act \in BOOLEAN /\ (a = 0 => ~act)
    BY DEF ListingRecord
  <2> DEFINE on2 == StillOn(act, a, u - n)
  <2>2. a + (u - n) = rest
    <3> HIDE DEF a
    <3> QED
      BY <2>1
  <2>3. on = on2
    <3>1. (a + u - n # 0) <=> (a # 0 \/ u - n > 0)
      <4> HIDE DEF a
      <4> QED
        BY <2>1
    <3>2. u - n > 0 => u > 0
      OBVIOUS
    <3>3. on <=> on2
      <4> HIDE DEF a, act
      <4> QED
        BY <2>1, <3>1, <3>2 DEF StillOn
    <3>4. on \in BOOLEAN /\ on2 \in BOOLEAN
      BY DEF StillOn
    <3> HIDE DEF on, on2
    <3> QED
      BY <3>3, <3>4
  <2>4. IsEntry(y, l.s, l.item, a + u, l.p, l.pt, l.exp, StillOn(act, a, u), t, q)
    BY EntryOf
  <2>5. IsEntry(ListingEntry(l, u - n, came, kept), l.s, l.item, a + (u - n), l.p, l.pt,
                l.exp, on2, came, kept)
    BY EntryOf
  <2> HIDE DEF rest, on, on2, came, kept
  <2>6. IsEntry(z, l.s, l.item, rest, l.p, l.pt, l.exp, on, came, kept)
    <3> HIDE DEF y
    <3> QED
      BY <2>4, EntrySold
  <2>7. IsEntry(ListingEntry(l, u - n, came, kept), l.s, l.item, rest, l.p, l.pt, l.exp,
                on, came, kept)
    BY <2>2, <2>3, <2>5
  <2> HIDE DEF z
  <2> QED
    BY <2>6, <2>7, SameEntry
<1>6. ListingsTold(b, e) =
        [b EXCEPT !.listings[id].amount = rest, !.listings[id].active = on,
                  !.listings[id].taken = came, !.listings[id].left = kept]
  <2> HIDE DEF b, y
  <2>1. ListingsTold(b, e) =
          [b EXCEPT !.listings[id].amount = b.listings[id].amount - n,
                    !.listings[id].active =
                       b.listings[id].active /\ b.listings[id].amount - n # 0,
                    !.listings[id].taken = b.listings[id].taken + total,
                    !.listings[id].left = b.listings[id].left + total - fee - royalty]
    BY <1>1 DEF ListingsTold
  <2> DEFINE w == b.listings[id]
             v1 == w.amount - n
             v2 == w.active /\ w.amount - n # 0
             v3 == w.taken + total
             v4 == w.left + total - fee - royalty
             m == a + u
  <2>2. w.amount = m /\ w.taken = t /\ w.left = q
    BY <1>3, <1>4
  <2>3. v1 = rest /\ m - n = rest /\ v3 = came /\ v4 = kept
    <3>1. m - n = rest
      <4>1. a \in Nat
        BY DEF ListingRecord
      <4> HIDE DEF a
      <4> QED
        BY <4>1
    <3> HIDE DEF w, m, rest
    <3> QED
      BY <2>2, <3>1
  <2>4. v2 = on
    <3> DEFINE so == StillOn(act, a, u)
               was == w.active
               left == w.amount - n # 0
    <3>1. was = so /\ so \in BOOLEAN
      BY <1>3, <1>4 DEF StillOn
    <3>2. left = (a + u - n # 0)
      <4>1. m - n = a + u - n
        BY <2>3 DEF rest
      <4> HIDE DEF w, m
      <4> QED
        BY <2>2, <4>1
    <3> DEFINE left2 == a + u - n # 0
    <3>3. left = left2
      BY <3>2
    <3> HIDE DEF so, was, left, left2
    <3>4. (was /\ left) = (so /\ left2)
      BY <3>1, <3>3
    <3> QED
      BY <3>4 DEF so, was, left, left2
  <2>5. ListingsTold(b, e) =
          [b EXCEPT !.listings[id].amount = v1, !.listings[id].active = v2,
                    !.listings[id].taken = v3, !.listings[id].left = v4]
    BY <2>1
  <2> HIDE DEF v1, v2, v3, v4, rest, on, came, kept
  <2> QED
    BY <2>3, <2>4, <2>5
<1> HIDE DEF rest, on, came, kept
<1>7. [b EXCEPT !.listings[id].amount = rest, !.listings[id].active = on,
                !.listings[id].taken = came, !.listings[id].left = kept]
        = [b EXCEPT !.listings = M]
  <2>1. b = [f \in DOMAIN b |-> b[f]] /\ "listings" \in DOMAIN b
    BY DEF ShownWith
  <2>2. L[id] = y
    OBVIOUS
  <2> HIDE DEF y
  <2>3. M = [L EXCEPT ![id] = [L[id] EXCEPT !.amount = rest, !.active = on,
                                            !.taken = came, !.left = kept]]
    BY <2>2
  <2> HIDE DEF M, b
  <2>4. [b EXCEPT !.listings[id].amount = rest, !.listings[id].active = on,
                  !.listings[id].taken = came, !.listings[id].left = kept]
         = [b EXCEPT !.listings = [L EXCEPT ![id] =
               [L[id] EXCEPT !.amount = rest, !.active = on, !.taken = came, !.left = kept]]]
    BY <1>3, <2>1
  <2> QED
    BY <2>3, <2>4
<1>8. [b EXCEPT !.listings = M] = ShownWith(M)
  <2> HIDE DEF M
  <2> QED
    BY ListingsReplaced
<1> HIDE DEF b, z
<1>9. M = [L EXCEPT ![id] = ListingEntry(l, u - n, came, kept)]
  BY <1>5
<1> HIDE DEF M
<1> QED
  BY <1>2, <1>6, <1>7, <1>8, <1>9 DEF e, b, came, kept

(* Events told in turn that lead from the listings before a step to those  *)
(* after it keep the books as the state shows.                             *)
LEMMA LoggedInTurn ==
  ASSUME books = BooksShown, cfg' = cfg, bundles' = bundles, nextBundleId' = nextBundleId,
         BundlesUnlogged, NEW n \in Nat, NEW es, DOMAIN es = 1 .. n, NEW f,
         f[0] = ShownWith(ListingsShown), f[n] = ShownWith(ListingsShown'),
         \A m \in 1 .. n : f[m] = Told(f[m - 1], es[m]), Log(es)
  PROVE  books' = BooksShown'
<1>1. BooksShown = ShownWith(ListingsShown) /\ BooksShown' = ShownWith(ListingsShown')
  BY OnlyListings
<1>2. f[0] = books
  BY <1>1
<1>3. ToldAll(books, es) = f[n]
  BY <1>2, ToldInTurn
<1>4. books' = ToldAll(books, es)
  BY DEF Log, ToldAll
<1> QED
  BY <1>1, <1>3, <1>4

(* An event on its own that is about listings. *)
LEMMA LoggedOnce ==
  ASSUME books = BooksShown, cfg' = cfg, bundles' = bundles, nextBundleId' = nextBundleId,
         BundlesUnlogged,
         NEW e, e.type \in {"listed", "delisted", "listing_updated", "bought"},
         ListingsTold(ShownWith(ListingsShown), e) = ShownWith(ListingsShown'), Log(<<e>>)
  PROVE  books' = BooksShown'
<1>1. BooksShown = ShownWith(ListingsShown) /\ BooksShown' = ShownWith(ListingsShown')
  BY OnlyListings
<1>2. books' = ToldAll(books, <<e>>)
  BY DEF Log, ToldAll
<1>3. books' = Told(books, e)
  BY <1>2, ToldOnce
<1> QED
  BY <1>1, <1>3, ListingTold

(* What is told of a listing that was made. *)
LEMMA ShownListing ==
  ASSUME CoreOK, ListingsOK, NEW id \in ListingIds, Listing(id).act \/ id < nextListingId
  PROVE  /\ id < nextListingId /\ Listing(id) \in ListingRecord
         /\ Listing(id).a = 0 => ~Listing(id).act
         /\ ListingsShown[id] = ListingEntry(Listing(id), UnloggedOf("listing", id),
                                             received[id], proceeds[id])
         /\ ListingsShown = [j \in ListingIds |-> ListingsShown[j]]
<1>1. /\ id < nextListingId /\ Listing(id) \in ListingRecord
      /\ Listing(id).a = 0 => ~Listing(id).act
  BY DEF ListingsOK, CoreOK, ListingsTyped, ListingGood, GoodListing, Listing
<1> QED
  BY <1>1 DEF ListingsShown

(* A step that changes what is told of one listing. *)
LEMMA OneShown ==
  ASSUME NEW id \in ListingIds, id < nextListingId, nextListingId' = nextListingId,
         \A j \in ListingIds \ {id} :
           /\ listings'[j] = listings[j]
           /\ received'[j] = received[j] /\ proceeds'[j] = proceeds[j]
           /\ UnloggedOf("listing", j)' = UnloggedOf("listing", j)
  PROVE  ListingsShown' = [ListingsShown EXCEPT ![id] =
           ListingEntry(listings'[id], UnloggedOf("listing", id)', received'[id],
                        proceeds'[id])]
BY DEF ListingsShown, Listing

-----------------------------------------------------------------------------
(* Every entrypoint about listings, and what it logs.                      *)

(* delist. *)
LEMMA DelistLogged ==
  ASSUME CoreOK, ListingsOK, books = BooksShown, BundlesSame,
         NEW id \in ListingIds, Delist(id), Log(<<Delisted(id, Listing(id).s)>>)
  PROVE  books' = BooksShown'
<1> DEFINE l == Listing(id)
           l2 == [l EXCEPT !.act = FALSE]
           L == ListingsShown
           M == ListingsShown'
           b == ShownWith(L)
           e == Delisted(id, l.s)
           y == L[id]
           z == [y EXCEPT !.active = FALSE]
           u == UnloggedOf("listing", id)
           t == received[id]
           q == proceeds[id]
<1>1. /\ l \in ListingRecord /\ id < nextListingId /\ (l.a = 0 => ~l.act) /\ l.act
      /\ y = ListingEntry(l, u, t, q) /\ L = [j \in ListingIds |-> L[j]]
  BY ShownListing DEF Delist
<1>2. /\ cfg' = cfg /\ nextListingId' = nextListingId /\ received' = received
      /\ proceeds' = proceeds /\ calls' = calls
      /\ bundles' = bundles /\ nextBundleId' = nextBundleId
  BY DEF Delist, marketVars, history, BundlesSame
<1>3. /\ listings'[id] = l2 /\ \A j \in ListingIds \ {id} : listings'[j] = listings[j]
  BY DEF Delist, Listing, CoreOK, ListingsTyped
<1>0. /\ \A j : UnloggedOf("listing", j)' = UnloggedOf("listing", j)
      /\ BundlesUnlogged
  BY <1>2, UnloggedNext DEF UnloggedOf, BundlesUnlogged
<1>4. M = [L EXCEPT ![id] = ListingEntry(l2, u, t, q)]
  BY <1>0, <1>1, <1>2, <1>3, OneShown
<1>5. z = ListingEntry(l2, u, t, q)
  <2> DEFINE was == StillOn(l.act, l.a, u)
             amount == l.a + u
  <2>1. IsEntry(y, l.s, l.item, amount, l.p, l.pt, l.exp, was, t, q)
    BY <1>1, EntryOf
  <2>2. IsEntry(ListingEntry(l2, u, t, q), l2.s, l2.item, l2.a + u, l2.p, l2.pt, l2.exp,
                StillOn(l2.act, l2.a, u), t, q)
    BY EntryOf
  <2>3. /\ l2.s = l.s /\ l2.item = l.item /\ l2.a = l.a /\ l2.p = l.p /\ l2.pt = l.pt
        /\ l2.exp = l.exp /\ l2.act = FALSE
    BY <1>1 DEF ListingRecord
  <2>4. StillOn(l2.act, l2.a, u) = FALSE
    <3>1. l2.a # 0
      BY <1>1, <2>3
    <3>2. ~StillOn(l2.act, l2.a, u)
      BY <2>3, <3>1 DEF StillOn
    <3>3. StillOn(l2.act, l2.a, u) \in BOOLEAN
      BY DEF StillOn
    <3> QED
      BY <3>2, <3>3
  <2> HIDE DEF was
  <2>5. l2.a + u = amount
    BY <2>3
  <2> HIDE DEF l, l2, y, u, t, q, amount
  <2>6. IsEntry(z, l.s, l.item, amount, l.p, l.pt, l.exp, FALSE, t, q)
    BY <2>1 DEF IsEntry, EntryFields
  <2> HIDE DEF z
  <2>7. IsEntry(ListingEntry(l2, u, t, q), l.s, l.item, amount, l.p, l.pt, l.exp, FALSE, t, q)
    BY <2>2, <2>3, <2>4, <2>5
  <2> QED
    BY <2>6, <2>7, SameEntry
<1>6. e.type = "delisted" /\ e.listingId = id /\ Log(<<e>>)
  BY DEF Delisted
<1>7. /\ b.listings = L /\ b = [f \in DOMAIN b |-> b[f]] /\ "listings" \in DOMAIN b
      /\ [b EXCEPT !.listings = M] = ShownWith(M)
  <2> HIDE DEF L, M
  <2> QED
    BY ListingsReplaced DEF ShownWith
<1> HIDE DEF e, L, M, l, l2, u, t, q
<1>8. ListingsTold(b, e) = [b EXCEPT !.listings[id].active = FALSE]
  BY <1>6 DEF ListingsTold
<1>9. M = [L EXCEPT ![id] = [L[id] EXCEPT !.active = FALSE]]
  BY <1>4, <1>5
<1>10. ListingsTold(b, e) = ShownWith(M)
  <2> HIDE DEF b
  <2>1. [b EXCEPT !.listings[id].active = FALSE]
          = [b EXCEPT !.listings = [L EXCEPT ![id] = [L[id] EXCEPT !.active = FALSE]]]
    BY <1>7
  <2> QED
    BY <1>7, <1>8, <1>9, <2>1
<1> QED
  BY <1>0, <1>2, <1>6, <1>10, LoggedOnce DEF L, M, b

(* updateListing. *)
LEMMA UpdateListingLogged ==
  ASSUME CoreOK, ListingsOK, books = BooksShown, BundlesSame, UnloggedSame,
         NEW id \in ListingIds, NEW p, UpdateListing(id, p), Log(<<ListingUpdated(id, p)>>)
  PROVE  books' = BooksShown'
<1> DEFINE l == Listing(id)
           l2 == [l EXCEPT !.p = p]
           L == ListingsShown
           M == ListingsShown'
           b == ShownWith(L)
           e == ListingUpdated(id, p)
           y == L[id]
           z == [y EXCEPT !.pricePerUnit = p]
           u == UnloggedOf("listing", id)
           t == received[id]
           q == proceeds[id]
<1>1. /\ l \in ListingRecord /\ id < nextListingId
      /\ y = ListingEntry(l, u, t, q) /\ L = [j \in ListingIds |-> L[j]]
  BY ShownListing DEF UpdateListing
<1>2. /\ cfg' = cfg /\ nextListingId' = nextListingId /\ received' = received
      /\ proceeds' = proceeds /\ bundles' = bundles /\ nextBundleId' = nextBundleId
  BY DEF UpdateListing, marketVars, history, BundlesSame
<1>3. /\ listings'[id] = l2 /\ \A j \in ListingIds \ {id} : listings'[j] = listings[j]
  BY DEF UpdateListing, Repriced, Listing, CoreOK, ListingsTyped
<1>0. /\ \A j : UnloggedOf("listing", j)' = UnloggedOf("listing", j)
      /\ BundlesUnlogged
  BY UnloggedNext DEF UnloggedOf, UnloggedSame, BundlesUnlogged
<1>4. M = [L EXCEPT ![id] = ListingEntry(l2, u, t, q)]
  BY <1>0, <1>1, <1>2, <1>3, OneShown
<1>5. z = ListingEntry(l2, u, t, q)
  <2> DEFINE on == StillOn(l.act, l.a, u)
             amount == l.a + u
  <2>1. IsEntry(y, l.s, l.item, amount, l.p, l.pt, l.exp, on, t, q)
    BY <1>1, EntryOf
  <2>2. IsEntry(ListingEntry(l2, u, t, q), l2.s, l2.item, l2.a + u, l2.p, l2.pt, l2.exp,
                StillOn(l2.act, l2.a, u), t, q)
    BY EntryOf
  <2>3. /\ l2.s = l.s /\ l2.item = l.item /\ l2.a = l.a /\ l2.p = p /\ l2.pt = l.pt
        /\ l2.exp = l.exp /\ l2.act = l.act
    BY <1>1 DEF ListingRecord
  <2>4. StillOn(l2.act, l2.a, u) = on /\ l2.a + u = amount
    <3> HIDE DEF l, l2, u
    <3> QED
      BY <2>3 DEF StillOn
  <2> HIDE DEF l, l2, y, u, t, q, on, amount
  <2>5. IsEntry(z, l.s, l.item, amount, p, l.pt, l.exp, on, t, q)
    BY <2>1 DEF IsEntry, EntryFields
  <2> HIDE DEF z
  <2>6. IsEntry(ListingEntry(l2, u, t, q), l.s, l.item, amount, p, l.pt, l.exp, on, t, q)
    BY <2>2, <2>3, <2>4
  <2> QED
    BY <2>5, <2>6, SameEntry
<1>6. e.type = "listing_updated" /\ e.listingId = id /\ e.newPrice = p /\ Log(<<e>>)
  BY DEF ListingUpdated
<1>7. /\ b.listings = L /\ b = [f \in DOMAIN b |-> b[f]] /\ "listings" \in DOMAIN b
      /\ [b EXCEPT !.listings = M] = ShownWith(M)
  <2> HIDE DEF L, M
  <2> QED
    BY ListingsReplaced DEF ShownWith
<1> HIDE DEF e, L, M, l, l2, u, t, q
<1>8. ListingsTold(b, e) = [b EXCEPT !.listings[id].pricePerUnit = p]
  BY <1>6 DEF ListingsTold
<1>9. M = [L EXCEPT ![id] = [L[id] EXCEPT !.pricePerUnit = p]]
  BY <1>4, <1>5
<1>10. ListingsTold(b, e) = ShownWith(M)
  <2> HIDE DEF b
  <2>1. [b EXCEPT !.listings[id].pricePerUnit = p]
          = [b EXCEPT !.listings = [L EXCEPT ![id] = [L[id] EXCEPT !.pricePerUnit = p]]]
    BY <1>7
  <2> QED
    BY <1>7, <1>8, <1>9, <2>1
<1> QED
  BY <1>0, <1>2, <1>6, <1>10, LoggedOnce DEF L, M, b

(* The event of a listing's first day. *)
LEMMA ListedTold ==
  ASSUME NEW id \in ListingIds, NEW L, NEW s \in Accounts, NEW o \in Offering
  PROVE  Told(ShownWith(L), Listed(id, s, o.item, o.n, o.p, o.pt, o.exp))
           = ShownWith([L EXCEPT ![id] = ListingEntry(NewListing(s, o), 0, 0, 0)])
<1> DEFINE e == Listed(id, s, o.item, o.n, o.p, o.pt, o.exp)
           b == ShownWith(L)
           l == NewListing(s, o)
           y == [known |-> TRUE, seller |-> e.seller, item |-> e.item, amount |-> e.amount,
                 pricePerUnit |-> e.pricePerUnit, paymentToken |-> e.paymentToken,
                 expirationBlock |-> e.expirationBlock, active |-> TRUE,
                 taken |-> 0, left |-> 0]
           M == [L EXCEPT ![id] = y]
<1>1. /\ e.type = "listed" /\ e.listingId = id /\ e.seller = s /\ e.item = o.item
      /\ e.amount = o.n /\ e.pricePerUnit = o.p /\ e.paymentToken = o.pt
      /\ e.expirationBlock = o.exp
  BY DEF Listed
<1> HIDE DEF e
<1>2. y = ListingEntry(l, 0, 0, 0)
  <2>1. IsEntry(y, s, o.item, o.n, o.p, o.pt, o.exp, TRUE, 0, 0)
    BY <1>1 DEF IsEntry, EntryFields
  <2>2. IsEntry(ListingEntry(l, 0, 0, 0), l.s, l.item, l.a + 0, l.p, l.pt, l.exp,
                StillOn(l.act, l.a, 0), 0, 0)
    BY EntryOf
  <2>3. /\ l.s = s /\ l.item = o.item /\ l.a = o.n /\ l.p = o.p /\ l.pt = o.pt
        /\ l.exp = o.exp /\ l.act = TRUE
    BY DEF NewListing
  <2>4. l.a + 0 = o.n /\ StillOn(l.act, l.a, 0) = TRUE
    <3>1. o.n \in Nat
      BY DEF Offering
    <3> HIDE DEF l
    <3> QED
      BY <2>3, <3>1 DEF StillOn
  <2> HIDE DEF y, l
  <2>5. IsEntry(ListingEntry(l, 0, 0, 0), s, o.item, o.n, o.p, o.pt, o.exp, TRUE, 0, 0)
    BY <2>2, <2>3, <2>4
  <2> QED
    BY <2>1, <2>5, SameEntry
<1>3. Told(b, e) = ListingsTold(b, e)
  BY <1>1, ListingTold
<1>4. ListingsTold(b, e) = [b EXCEPT !.listings[id] = y]
  <2> HIDE DEF b
  <2> QED
    BY <1>1 DEF ListingsTold
<1>5. b.listings = L /\ [b EXCEPT !.listings = M] = ShownWith(M)
  <2> HIDE DEF M
  <2> QED
    BY ListingsReplaced
<1> HIDE DEF b, y, l
<1>6. [b EXCEPT !.listings[id] = y] = [b EXCEPT !.listings = M]
  BY <1>5
<1> QED
  BY <1>2, <1>3, <1>4, <1>5, <1>6 DEF e, b, l

(* The listings as they are shown once the first m of a batch are told. *)
ListedUpTo(made, first, m) ==
  [id \in ListingIds |->
     IF id < first + m
     THEN ListingEntry(made[id], UnloggedOf("listing", id), received[id], proceeds[id])
     ELSE NoEntry]

(* list and batchList. *)
LEMMA BatchListLogged ==
  ASSUME CoreOK, ListingsOK, books = BooksShown, BundlesSame,
         NEW s \in Accounts, NEW offered \in ListsOf(Offered),
         BatchList(s, offered), Log(ListedAll(s, offered))
  PROVE  books' = BooksShown' /\ \A id \in ListingIds :
           nextListingId <= id /\ id < nextListingId' => listings'[id].s = s
<1> DEFINE first == nextListingId
           next == nextListingId + Len(offered)
           new(id) == offered[id - first + 1]
           fresh(id) == id \in first .. next - 1
           es == ListedAll(s, offered)
           made == listings'
           L(m) == ListedUpTo(made, first, m)
<1>1. PICK n \in 1 .. MaxOrders : offered \in [1 .. n -> Offered]
  BY DEF ListsOf
<1>2. n \in Nat /\ Len(offered) = n
  <2>1. n \in Nat
    BY <1>1, ListingAssumption
  <2>2. offered \in Seq(Offered)
    BY <1>1, <2>1, SeqDef
  <2> DEFINE m == Len(offered)
  <2>3. 1 .. m = 1 .. n /\ m \in Nat
    BY <1>1, <2>2, LenProperties
  <2> HIDE DEF m
  <2>4. m = n
    BY <2>1, <2>3
  <2> QED
    BY <2>1, <2>4 DEF m
<1>3. first \in Nat /\ MaxListings \in Nat
  BY ListingAssumption DEF CoreOK, ListingsTyped
<1>4. next = first + n /\ next <= MaxListings /\ nextListingId' = first + n
  BY <1>2 DEF BatchList
<1>5. made = [id \in ListingIds |->
                IF fresh(id) THEN NewListing(s, new(id)) ELSE listings[id]]
  BY DEF BatchList
<1>6. /\ cfg' = cfg /\ received' = received /\ proceeds' = proceeds /\ calls' = calls
      /\ bundles' = bundles /\ nextBundleId' = nextBundleId
  BY DEF BatchList, marketVars, BundlesSame
<1>0. /\ \A j : UnloggedOf("listing", j)' = UnloggedOf("listing", j)
      /\ BundlesUnlogged
  BY <1>6, UnloggedNext DEF UnloggedOf, BundlesUnlogged
<1>7. ASSUME NEW id \in ListingIds
      PROVE  id \in Nat /\ (id < first => made[id] = listings[id])
  BY <1>3, <1>5, ListingAssumption DEF ListingIds
<1>8. ASSUME NEW id \in ListingIds, id >= first, id < first + n
      PROVE  listings'[id].s = s
  <2>1. fresh(id)
    BY <1>3, <1>4, <1>2, <1>7, <1>8
  <2>2. made[id] = NewListing(s, new(id))
    BY <1>5, <2>1
  <2> QED
    BY <2>2 DEF NewListing, Listing
<1>9. ASSUME NEW m \in 1 .. n
      PROVE  ShownWith(L(m)) = Told(ShownWith(L(m - 1)), es[m])
  <2> DEFINE id == first + m - 1
             o == offered[m]
  <2>1. id \in ListingIds /\ id \in Nat /\ fresh(id) /\ id - first + 1 = m
    BY <1>2, <1>3, <1>4 DEF ListingIds
  <2>2. o \in Offering
    BY <1>1, ListingAssumption
  <2>3. es[m] = Listed(id, s, o.item, o.n, o.p, o.pt, o.exp)
    BY <1>1 DEF ListedAll
  <2>4. made[id] = NewListing(s, o)
    BY <1>5, <2>1
  <2>5. received[id] = 0 /\ proceeds[id] = 0 /\ UnloggedOf("listing", id) = 0
    <3>1. ~(id < nextListingId)
      BY <1>3
    <3> HIDE DEF id
    <3> QED
      BY <2>1, <3>1, NothingUnlogged DEF ListingsOK, ListingGood, GoodListing
  <2> DEFINE A == L(m - 1)
             y == ListingEntry(NewListing(s, o), 0, 0, 0)
  <2>6. L(m) = [A EXCEPT ![id] = y]
    <3>1. L(m) = [j \in ListingIds |-> L(m)[j]] /\ A = [j \in ListingIds |-> A[j]]
      BY DEF ListedUpTo
    <3>2. L(m)[id] = y
      BY <1>3, <2>1, <2>4, <2>5 DEF ListedUpTo
    <3>3. ASSUME NEW j \in ListingIds \ {id}
          PROVE  L(m)[j] = A[j]
      <4>1. (j < first + m) = (j < first + (m - 1))
        BY <1>3, <1>7
      <4> QED
        BY <4>1 DEF ListedUpTo
    <3> HIDE DEF L, y, id
    <3> QED
      BY <2>1, <3>1, <3>2, <3>3
  <2> HIDE DEF L, id, o
  <2>7. Told(ShownWith(A), Listed(id, s, o.item, o.n, o.p, o.pt, o.exp))
          = ShownWith([A EXCEPT ![id] = y])
    BY <2>1, <2>2, ListedTold
  <2> QED
    BY <2>3, <2>6, <2>7
<1>10. L(0) = ListingsShown
  <2>1. first + 0 = first
    BY <1>3
  <2> HIDE DEF made
  <2> QED
    BY <1>7, <2>1 DEF ListedUpTo, ListingsShown, Listing
<1>11. L(n) = ListingsShown'
  BY <1>0, <1>4, <1>6 DEF ListedUpTo, ListingsShown, Listing
<1> DEFINE f == [m \in 0 .. n |-> ShownWith(L(m))]
<1> HIDE DEF L
<1>12. f[0] = ShownWith(ListingsShown) /\ f[n] = ShownWith(ListingsShown')
  BY <1>2, <1>10, <1>11
<1>13. \A m \in 1 .. n : f[m] = Told(f[m - 1], es[m])
  <2>1. \A m \in 1 .. n : f[m] = ShownWith(L(m)) /\ f[m - 1] = ShownWith(L(m - 1))
    OBVIOUS
  <2> HIDE DEF f
  <2> QED
    BY <1>9, <2>1
<1>14. DOMAIN es = 1 .. n /\ Log(es)
  BY <1>1 DEF ListedAll
<1> HIDE DEF f, es
<1>15. books' = BooksShown'
  BY <1>0, <1>2, <1>6, <1>12, <1>13, <1>14, LoggedInTurn
<1> QED
  BY <1>4, <1>8, <1>15

(* What is told of a listing does not depend on whether its units are on   *)
(* offer or on their way.                                                  *)
LEMMA SameShown ==
  ASSUME NEW l, NEW m, NEW u, NEW v, NEW t, NEW q,
         m.s = l.s, m.item = l.item, m.p = l.p, m.pt = l.pt, m.exp = l.exp,
         m.a + v = l.a + u, StillOn(m.act, m.a, v) <=> StillOn(l.act, l.a, u)
  PROVE  ListingEntry(m, v, t, q) = ListingEntry(l, u, t, q)
<1> DEFINE on == StillOn(l.act, l.a, u)
           on2 == StillOn(m.act, m.a, v)
           a == l.a + u
           b == m.a + v
<1>1. on2 = on /\ b = a
  <2>1. on \in BOOLEAN /\ on2 \in BOOLEAN
    BY DEF StillOn
  <2>2. (on2 <=> on) /\ b = a
    OBVIOUS
  <2> HIDE DEF on, on2, a, b
  <2> QED
    BY <2>1, <2>2
<1>2. /\ IsEntry(ListingEntry(l, u, t, q), l.s, l.item, a, l.p, l.pt, l.exp, on, t, q)
      /\ IsEntry(ListingEntry(m, v, t, q), m.s, m.item, b, m.p, m.pt, m.exp, on2, t, q)
  BY EntryOf
<1> HIDE DEF on, on2, a, b
<1>3. IsEntry(ListingEntry(m, v, t, q), l.s, l.item, a, l.p, l.pt, l.exp, on, t, q)
  BY <1>1, <1>2
<1> QED
  BY <1>2, <1>3, SameEntry

(* Without a change of what is shown there is nothing to log. *)
LEMMA NothingShown ==
  ASSUME cfg' = cfg, nextListingId' = nextListingId, listings' = listings,
         received' = received, proceeds' = proceeds, UnloggedSame,
         bundles' = bundles, nextBundleId' = nextBundleId
  PROVE  BooksShown' = BooksShown
<1>1. \A op, id : UnloggedOf(op, id)' = UnloggedOf(op, id)
  BY UnloggedNext DEF UnloggedOf, UnloggedSame
<1>2. ListingsShown' = ListingsShown
  BY <1>1 DEF ListingsShown, Listing
<1>3. BundlesUnlogged
  BY DEF BundlesUnlogged, UnloggedSame
<1> QED
  BY <1>2, <1>3, OnlyListings

(* An order takes units off a listing that the log still has on offer. *)
LEMMA NextOrderLogged ==
  ASSUME CoreOK, ListingsOK, books = BooksShown, NextOrder, BundlesSame, Silent
  PROVE  books' = BooksShown'
<1> DEFINE o == Ordered
<1>0. PICK id : id = o.id
  OBVIOUS
<1> DEFINE l == listings[id]
           m == listings'[id]
           n == Units(o)
           u == UnloggedOf("listing", id)
           v == UnloggedOf("listing", id)'
           t == received[id]
           q == proceeds[id]
           L == ListingsShown
           M == ListingsShown'
<1>1. /\ o \in Order /\ Orderable(Top.by, o)
      /\ m = [l EXCEPT !.a = Remaining(o), !.act = @ /\ Remaining(o) # 0]
      /\ \A j \in ListingIds \ {id} : listings'[j] = listings[j]
      /\ \A op, j :
           /\ Weighed(UnloggedWeight(op, j), calls) \in Nat
           /\ Weighed(UnloggedWeight(op, j), calls') \in Nat
           /\ Weighed(UnloggedWeight(op, j), calls')
                = Weighed(UnloggedWeight(op, j), calls)
                    + (IF op = "listing" /\ j = id THEN n ELSE 0)
  BY <1>0, NextOrderKeeps
<1>2. /\ cfg' = cfg /\ nextListingId' = nextListingId /\ received' = received
      /\ proceeds' = proceeds /\ books' = books
      /\ bundles' = bundles /\ nextBundleId' = nextBundleId
  BY DEF NextOrder, marketVars, history, BundlesSame, Silent
<1>3. /\ id \in ListingIds /\ l.act /\ n > 0 /\ n <= l.a /\ Listing(id) = l
      /\ Remaining(o) = l.a - n
  BY <1>0, <1>1 DEF Order, Orderable, Listing, Remaining
<1>4. l \in ListingRecord /\ id < nextListingId /\ L[id] = ListingEntry(l, u, t, q)
  BY <1>3, ShownListing
<1>5. n \in Nat
  <2>1. o.n \in Nat \/ o.n = Whole
    BY <1>1 DEF Order
  <2>2. l.a \in Nat
    BY <1>4 DEF ListingRecord
  <2> QED
    BY <1>0, <1>3, <2>1, <2>2 DEF Units, Whole
<1>6. u \in Nat /\ v = u + n
  BY <1>1, UnloggedNext DEF UnloggedOf
<1>7. ASSUME NEW op, NEW j, op # "listing" \/ j # id
      PROVE  UnloggedOf(op, j)' = UnloggedOf(op, j)
  <2> DEFINE w == Weighed(UnloggedWeight(op, j), calls)
             w2 == Weighed(UnloggedWeight(op, j), calls')
  <2>1. w \in Nat /\ w2 = w + 0
    BY <1>1, <1>7
  <2>2. UnloggedOf(op, j)' = w2 /\ UnloggedOf(op, j) = w
    BY UnloggedNext DEF UnloggedOf
  <2> HIDE DEF w, w2
  <2> QED
    BY <2>1, <2>2
<1>8. ListingEntry(m, v, t, q) = ListingEntry(l, u, t, q)
  <2> DEFINE a == l.a
             rest == l.a - n
             act == l.act
             b == m.a
             act2 == m.act
  <2>1. a \in Nat /\ act = TRUE /\ n <= a /\ n > 0
    BY <1>3, <1>4 DEF ListingRecord
  <2>2. /\ m.s = l.s /\ m.item = l.item /\ m.p = l.p /\ m.pt = l.pt /\ m.exp = l.exp
        /\ b = rest /\ act2 = (act /\ rest # 0)
    BY <1>1, <1>3, <1>4 DEF ListingRecord
  <2>3. b = a - n
    BY <2>2
  <2>4. act2 <=> a - n # 0
    <3> HIDE DEF act2, act
    <3> QED
      BY <2>1, <2>2
  <2> HIDE DEF u, v, n, a, b, act, act2
  <2>5. b + v = a + u
    BY <1>5, <1>6, <2>1, <2>3
  <2>6. StillOn(act2, b, v) <=> StillOn(act, a, u)
    <3>1. StillOn(act, a, u)
      BY <2>1 DEF StillOn
    <3>2. CASE a - n = 0
      <4>1. b = 0 /\ v > 0
        BY <1>5, <1>6, <2>1, <2>3, <3>2
      <4> QED
        BY <3>1, <4>1 DEF StillOn
    <3>3. CASE a - n # 0
      <4>1. act2
        BY <2>4, <3>3
      <4> QED
        BY <3>1, <4>1 DEF StillOn
    <3> QED
      BY <3>2, <3>3
  <2> HIDE DEF l, m, t, q
  <2> QED
    BY <2>2, <2>5, <2>6, SameShown DEF a, b, act, act2
<1> HIDE DEF o, l, m, n, u, v, t, q
<1>9. M = [L EXCEPT ![id] = ListingEntry(m, v, received'[id], proceeds'[id])]
  <2>1. \A j \in ListingIds \ {id} :
          /\ listings'[j] = listings[j]
          /\ received'[j] = received[j] /\ proceeds'[j] = proceeds[j]
          /\ UnloggedOf("listing", j)' = UnloggedOf("listing", j)
    BY <1>1, <1>2, <1>7
  <2> HIDE DEF L, M
  <2> QED
    BY <1>2, <1>3, <1>4, <2>1, OneShown DEF L, M, m, v
<1>10. M = L
  <2>1. ListingEntry(m, v, received'[id], proceeds'[id]) = L[id]
    BY <1>2, <1>4, <1>8 DEF t, q
  <2>2. L = [j \in ListingIds |-> L[j]]
    BY DEF ListingsShown
  <2> HIDE DEF L, M
  <2> QED
    BY <1>3, <1>9, <2>1, <2>2
<1>11. BundlesUnlogged
  BY <1>7, UnloggedNext DEF BundlesUnlogged, UnloggedOf
<1>12. BooksShown = ShownWith(L) /\ BooksShown' = ShownWith(M)
  BY <1>2, <1>11, OnlyListings
<1> HIDE DEF L, M
<1> QED
  BY <1>2, <1>10, <1>12

(* The events of a purchase, the last of a sweep included. *)
LEMMA FinishOrderLogged ==
  ASSUME CoreOK, ListingsOK, books = BooksShown, FinishOrder, BundlesSame,
         Log(PurchaseEvents(Top))
  PROVE  books' = BooksShown'
<1> DEFINE f == Top
<1>0. PICK id : id = f.id
  OBVIOUS
<1> DEFINE n == f.n
           l == listings[id]
           u == UnloggedOf("listing", id)
           v == UnloggedOf("listing", id)'
           t == received[id]
           q == proceeds[id]
           fee == FeeOf(f.got, f.fb)
           royalty == RoyaltyOf(f.got, f.rs)
           kept == q + f.got - fee - royalty
           e == Bought(id, f.by, n, f.got, fee, royalty)
           last == Swept(f.by, Len(f.orders), f.bill.total, f.pt)
           es == PurchaseEvents(f)
           L == ListingsShown
           M == ListingsShown'
<1>1. /\ f \in Frame /\ id < nextListingId /\ id \in ListingIds /\ f.op = "listing"
      /\ received' = [received EXCEPT ![id] = @ + f.got]
      /\ proceeds' = [proceeds EXCEPT ![id] = @ + SellerPart(f, f.got)]
      /\ UNCHANGED <<marketVars, listings, nextListingId>>
      /\ \A op, j :
           /\ Weighed(UnloggedWeight(op, j), calls) \in Nat
           /\ Weighed(UnloggedWeight(op, j), calls') \in Nat
           /\ Weighed(UnloggedWeight(op, j), calls)
                = Weighed(UnloggedWeight(op, j), calls')
                    + (IF op = "listing" /\ j = id THEN n ELSE 0)
  BY <1>0, FinishOrderKeeps
<1>2. /\ cfg' = cfg /\ bundles' = bundles /\ nextBundleId' = nextBundleId
      /\ listings' = listings /\ nextListingId' = nextListingId
  BY <1>1 DEF marketVars, BundlesSame
<1>3. /\ received \in [ListingIds -> Nat] /\ proceeds \in [ListingIds -> Nat]
  BY DEF ListingsOK, HistoryTyped
<1>4. /\ received'[id] = t + f.got /\ proceeds'[id] = kept
      /\ \A j \in ListingIds \ {id} :
           received'[j] = received[j] /\ proceeds'[j] = proceeds[j]
  BY <1>1, <1>3 DEF SellerPart
<1>5. n \in Nat
  BY <1>1 DEF Frame
<1>6. u \in Nat /\ v \in Nat /\ u = v + n
  BY <1>1, UnloggedNext DEF UnloggedOf
<1>7. ASSUME NEW op, NEW j, op # "listing" \/ j # id
      PROVE  UnloggedOf(op, j)' = UnloggedOf(op, j)
  <2> DEFINE w == Weighed(UnloggedWeight(op, j), calls)
             w2 == Weighed(UnloggedWeight(op, j), calls')
  <2>1. w2 \in Nat /\ w = w2 + 0
    BY <1>1, <1>7
  <2>2. UnloggedOf(op, j)' = w2 /\ UnloggedOf(op, j) = w
    BY UnloggedNext DEF UnloggedOf
  <2> HIDE DEF w, w2
  <2> QED
    BY <2>1, <2>2
<1>8. /\ l \in ListingRecord /\ (l.a = 0 => ~l.act) /\ L[id] = ListingEntry(l, u, t, q)
      /\ L = [j \in ListingIds |-> L[j]]
  BY <1>1, ShownListing DEF Listing
<1> HIDE DEF n, u, v, kept, fee, royalty, t, q
<1>9. M = [L EXCEPT ![id] = ListingEntry(l, v, t + f.got, kept)]
  <2>1. \A j \in ListingIds \ {id} :
          /\ listings'[j] = listings[j]
          /\ received'[j] = received[j] /\ proceeds'[j] = proceeds[j]
          /\ UnloggedOf("listing", j)' = UnloggedOf("listing", j)
    BY <1>2, <1>4, <1>7
  <2>2. M = [L EXCEPT ![id] = ListingEntry(listings'[id], UnloggedOf("listing", id)',
                                          received'[id], proceeds'[id])]
    BY <1>1, <1>2, <2>1, OneShown
  <2> HIDE DEF L, M
  <2> QED
    BY <1>2, <1>4, <2>2 DEF v
<1>10. n \in 0 .. u /\ u - n = v
  BY <1>5, <1>6
<1>11. Told(ShownWith(L), e) = ShownWith(M)
  <2>1. Told(ShownWith(L), e)
          = ShownWith([L EXCEPT ![id] = ListingEntry(l, u - n, t + f.got, kept)])
    <3> HIDE DEF L, l
    <3> QED
      BY <1>1, <1>6, <1>8, <1>10, BoughtTold DEF kept
  <2> HIDE DEF L, M, l
  <2> QED
    BY <1>9, <1>10, <2>1
<1>12. Told(ShownWith(M), last) = ShownWith(M)
  <2>1. last.type = "swept"
    BY DEF Swept
  <2> HIDE DEF last, M
  <2> QED
    BY <2>1, SweptTold
<1>13. es = <<e>> \/ es = <<e, last>>
  BY <1>0 DEF PurchaseEvents, fee, royalty, n
<1> HIDE DEF e, last, L, M
<1>14. PICK k \in {1, 2} : /\ DOMAIN es = 1 .. k /\ es[1] = e
                           /\ k = 2 => es[2] = last
  BY <1>13
<1> HIDE DEF es
<1> DEFINE g == [m \in 0 .. k |-> IF m = 0 THEN ShownWith(L) ELSE ShownWith(M)]
<1>15. k \in Nat /\ g[0] = ShownWith(L) /\ g[k] = ShownWith(M)
  BY <1>14
<1>16. ASSUME NEW m \in 1 .. k
       PROVE  g[m] = Told(g[m - 1], es[m])
  <2>1. CASE m = 1
    <3>1. g[1] = ShownWith(M) /\ g[1 - 1] = ShownWith(L)
      BY <1>14
    <3> HIDE DEF g
    <3> QED
      BY <1>11, <1>14, <2>1, <3>1
  <2>2. CASE m = 2 /\ k = 2
    <3>1. g[2] = ShownWith(M) /\ g[2 - 1] = ShownWith(M)
      BY <2>2
    <3> HIDE DEF g
    <3> QED
      BY <1>12, <1>14, <2>2, <3>1
  <2>3. m = 1 \/ (m = 2 /\ k = 2)
    <3> HIDE DEF g
    <3> QED
      BY <1>14
  <2> QED
    BY <2>1, <2>2, <2>3
<1> HIDE DEF g
<1>17. BundlesUnlogged
  BY <1>7, UnloggedNext DEF BundlesUnlogged, UnloggedOf
<1>18. Log(es)
  BY DEF es
<1> QED
  BY <1>2, <1>14, <1>15, <1>16, <1>17, <1>18, LoggedInTurn DEF L, M

-----------------------------------------------------------------------------
(* Bundles and the log.                                                    *)

(* The books with bundles B, otherwise as the state shows. *)
ShownBundles(B) ==
  [owner |-> cfg.owner, pendingOwner |-> cfg.pendingOwner, paused |-> cfg.paused,
   tokens |-> cfg.allowed, denied |-> cfg.denied, fees |-> cfg.collectionFee,
   royalties |-> [c \in Collections |-> RoyaltyEntry(cfg.royalty[c])],
   listings |-> ListingsShown, bundles |-> B]

(* A step of the bundles leaves what is told of listings alone. *)
ListingsUnlogged ==
  \A id : Weighed(UnloggedWeight("listing", id), calls')
            = Weighed(UnloggedWeight("listing", id), calls)

ListingsSame ==
  /\ cfg' = cfg /\ listings' = listings /\ nextListingId' = nextListingId
  /\ received' = received /\ proceeds' = proceeds /\ ListingsUnlogged

(* Only bundles change when settings and listings do not. *)
LEMMA OnlyBundles ==
  ASSUME ListingsSame
  PROVE  BooksShown = ShownBundles(BundlesShown) /\ BooksShown' = ShownBundles(BundlesShown')
<1>1. \A id : UnloggedOf("listing", id)' = UnloggedOf("listing", id)
  BY UnloggedNext DEF ListingsSame, ListingsUnlogged, UnloggedOf
<1>2. ListingsShown' = ListingsShown
  BY <1>1 DEF ListingsSame, ListingsShown, Listing
<1> QED
  BY <1>2 DEF ListingsSame, BooksShown, ShownBundles

(* Bundles can be replaced without touching the rest. *)
LEMMA BundlesReplaced ==
  ASSUME NEW B, NEW M
  PROVE  [ShownBundles(B) EXCEPT !.bundles = M] = ShownBundles(M) /\ ShownBundles(B).bundles = B
<1> DEFINE ry == [c \in Collections |-> RoyaltyEntry(cfg.royalty[c])]
<1>1. \A N : ShownBundles(N) =
        [owner |-> cfg.owner, pendingOwner |-> cfg.pendingOwner, paused |-> cfg.paused,
         tokens |-> cfg.allowed, denied |-> cfg.denied, fees |-> cfg.collectionFee,
         royalties |-> ry, listings |-> ListingsShown, bundles |-> N]
  BY DEF ShownBundles
<1> HIDE DEF ry
<1> QED
  BY <1>1

(* An event on its own that is about bundles. *)
LEMMA BundleLoggedOnce ==
  ASSUME books = BooksShown, ListingsSame,
         NEW e, e.type \in {"bundle_listed", "bundle_delisted", "bundle_bought"},
         BundlesTold(ShownBundles(BundlesShown), e) = ShownBundles(BundlesShown'), Log(<<e>>)
  PROVE  books' = BooksShown'
<1>1. BooksShown = ShownBundles(BundlesShown) /\ BooksShown' = ShownBundles(BundlesShown')
  BY OnlyBundles
<1>2. books' = ToldAll(books, <<e>>)
  BY DEF Log, ToldAll
<1>3. books' = BundlesTold(books, e)
  BY <1>2, BundleTold
<1> QED
  BY <1>1, <1>3

(* A step that changes what is told of one bundle. *)
LEMMA OneBundleShown ==
  ASSUME NEW id \in BundleIds, id < nextBundleId, nextBundleId' = nextBundleId,
         \A j \in BundleIds \ {id} :
           /\ bundles'[j] = bundles[j]
           /\ UnloggedOf("bundle", j)' = UnloggedOf("bundle", j)
  PROVE  BundlesShown' = [BundlesShown EXCEPT ![id] =
           BundleEntry(bundles'[id], UnloggedOf("bundle", id)')]
BY DEF BundlesShown, Bundle

(* The entry of a bundle that is over. *)
TurnedOff(y) == [y EXCEPT !.active = FALSE]

LEMMA EntryOver ==
  ASSUME NEW b, NEW c, NEW u, c.s = b.s, c.nc = b.nc, c.its = b.its, c.p = b.p, ~c.act
  PROVE  TurnedOff(BundleEntry(b, u)) = BundleEntry(c, 0)
<1> DEFINE on == b.act \/ u > 0
           off == c.act \/ 0 > 0
           many == Len(b.its)
           more == Len(c.its)
<1>1. off = FALSE /\ more = many
  BY SMT
<1>2. /\ BundleEntry(b, u) = [known |-> TRUE, seller |-> b.s, nftContract |-> b.nc,
                              count |-> many, price |-> b.p, active |-> on]
      /\ BundleEntry(c, 0) = [known |-> TRUE, seller |-> c.s, nftContract |-> c.nc,
                              count |-> more, price |-> c.p, active |-> off]
  BY DEF BundleEntry
<1> DEFINE y == BundleEntry(b, u)
           z == TurnedOff(y)
           r == BundleEntry(c, 0)
           F == {"known", "seller", "nftContract", "count", "price", "active"}
<1> HIDE DEF on, off, many, more
<1>3. y = [f \in F |-> y[f]] /\ r = [f \in F |-> r[f]]
  BY <1>2
<1>4. /\ y.known = r.known /\ y.seller = r.seller /\ y.nftContract = r.nftContract
      /\ y.count = r.count /\ y.price = r.price /\ r.active = FALSE
  <2>1. /\ y.known = TRUE /\ y.seller = b.s /\ y.nftContract = b.nc
        /\ y.count = many /\ y.price = b.p
    BY <1>2
  <2>2. /\ r.known = TRUE /\ r.seller = c.s /\ r.nftContract = c.nc
        /\ r.count = more /\ r.price = c.p /\ r.active = off
    BY <1>2
  <2> HIDE DEF y, r
  <2> QED
    BY <1>1, <2>1, <2>2
<1> HIDE DEF y, r
<1>5. /\ z = [f \in F |-> z[f]] /\ z.active = FALSE
      /\ \A f \in F \ {"active"} : z[f] = y[f]
  BY <1>3 DEF TurnedOff
<1> HIDE DEF z
<1>6. \A f \in F : z[f] = r[f]
  BY <1>4, <1>5
<1> HIDE DEF F
<1>7. z = r
  BY <1>3, <1>5, <1>6
<1> QED
  BY <1>7 DEF y, z, r

(* The event that a bundle is over. *)
LEMMA OverTold ==
  ASSUME NEW id \in BundleIds, NEW B, B = [j \in BundleIds |-> B[j]],
         NEW e, e.type \in {"bundle_delisted", "bundle_bought"}, e.bundleId = id
  PROVE  BundlesTold(ShownBundles(B), e)
           = ShownBundles([B EXCEPT ![id] = TurnedOff(B[id])])
<1> DEFINE b == ShownBundles(B)
           M == [B EXCEPT ![id] = TurnedOff(B[id])]
<1>1. /\ b.bundles = B /\ b = [f \in DOMAIN b |-> b[f]] /\ "bundles" \in DOMAIN b
      /\ [b EXCEPT !.bundles = M] = ShownBundles(M)
  <2> HIDE DEF M
  <2> QED
    BY BundlesReplaced DEF ShownBundles
<1> HIDE DEF b
<1>2. BundlesTold(b, e) = [b EXCEPT !.bundles[id].active = FALSE]
  BY DEF BundlesTold
<1>3. [b EXCEPT !.bundles[id].active = FALSE] = [b EXCEPT !.bundles = M]
  BY <1>1 DEF TurnedOff
<1> HIDE DEF M
<1> QED
  BY <1>1, <1>2, <1>3 DEF b, M

(* A bundle is taken off, or its sale is over. *)
LEMMA CloseBundleLogged ==
  ASSUME BundlesTyped, books = BooksShown, ListingsSame,
         NEW id \in BundleIds, id < nextBundleId, nextBundleId' = nextBundleId,
         NEW c, c = bundles'[id], ~c.act,
         c.s = bundles[id].s, c.nc = bundles[id].nc, c.its = bundles[id].its,
         c.p = bundles[id].p,
         UnloggedOf("bundle", id)' = 0,
         \A j \in BundleIds \ {id} :
           /\ bundles'[j] = bundles[j]
           /\ UnloggedOf("bundle", j)' = UnloggedOf("bundle", j),
         NEW e, e.type \in {"bundle_delisted", "bundle_bought"}, e.bundleId = id, Log(<<e>>)
  PROVE  books' = BooksShown'
<1> DEFINE B == BundlesShown
           M == BundlesShown'
           y == BundleEntry(bundles[id], UnloggedOf("bundle", id))
<1>1. B = [j \in BundleIds |-> B[j]] /\ B[id] = y
  BY DEF BundlesShown, Bundle
<1>2. M = [B EXCEPT ![id] = BundleEntry(c, 0)]
  BY OneBundleShown
<1>3. TurnedOff(y) = BundleEntry(c, 0)
  BY EntryOver
<1> HIDE DEF B, M, y
<1>4. BundlesTold(ShownBundles(B), e) = ShownBundles(M)
  BY <1>1, <1>2, <1>3, OverTold
<1> QED
  BY <1>4, BundleLoggedOnce DEF B, M

(* listBundle. *)
LEMMA ListBundleLogged ==
  ASSUME CoreOK, BundlesOK, books = BooksShown, ListingsSame, UnloggedSame,
         NEW s \in Accounts, NEW nc, NEW its, NEW p, NEW t, NEW exp,
         ListBundle(s, nc, its, p, t, exp),
         Log(<<BundleListed(nextBundleId, s, nc, Len(its), p)>>)
  PROVE  /\ books' = BooksShown'
         /\ nextBundleId' = nextBundleId + 1 /\ bundles'[nextBundleId].s = s
         /\ \A j \in BundleIds \ {nextBundleId} : bundles'[j] = bundles[j]
<1>0. PICK id : id = nextBundleId
  OBVIOUS
<1> DEFINE e == BundleListed(id, s, nc, Len(its), p)
           B == BundlesShown
           M == BundlesShown'
           b == ShownBundles(B)
           new == [s |-> s, nc |-> nc, its |-> its, p |-> p, pt |-> t, act |-> TRUE,
                   exp |-> exp, fb |-> EffectiveFeeBps(nc), rs |-> ResolveRoyaltySplits(nc)]
           y == [known |-> TRUE, seller |-> e.seller, nftContract |-> e.nftContract,
                 count |-> e.count, price |-> e.price, active |-> TRUE]
<1>1. /\ e.type = "bundle_listed" /\ e.bundleId = id /\ e.seller = s /\ e.nftContract = nc
      /\ e.count = Len(its) /\ e.price = p /\ Log(<<e>>)
  BY <1>0 DEF BundleListed
<1>2. id \in Nat /\ id < MaxBundles /\ id \in BundleIds
  BY <1>0, BundleAssumption DEF ListBundle, CoreOK, BundlesTyped, BundleIds
<1>3. nextBundleId' = id + 1
  BY <1>0 DEF ListBundle
<1>4. /\ bundles' = [j \in BundleIds |-> bundles'[j]] /\ bundles'[id] = new
      /\ \A j \in BundleIds \ {id} : bundles'[j] = bundles[j]
  <2>1. bundles' = [bundles EXCEPT ![id] = new]
    BY <1>0 DEF ListBundle
  <2> HIDE DEF new
  <2> QED
    BY <1>2, <2>1 DEF CoreOK, BundlesTyped
<1>5. /\ \A j : UnloggedOf("bundle", j)' = UnloggedOf("bundle", j)
      /\ UnloggedOf("bundle", id) = 0
  <2>1. ~(id < nextBundleId)
    BY <1>0, <1>2
  <2> QED
    BY <1>2, <2>1, NoneUnlogged, UnloggedNext DEF UnloggedSame, UnloggedOf
<1>6. BundleEntry(new, 0) = y
  <2> DEFINE on == TRUE \/ 0 > 0
  <2>1. BundleEntry(new, 0) = [known |-> TRUE, seller |-> s, nftContract |-> nc,
                               count |-> Len(its), price |-> p, active |-> on]
    BY DEF BundleEntry
  <2>2. on = TRUE
    OBVIOUS
  <2> HIDE DEF new, e, on
  <2> QED
    BY <1>1, <2>1, <2>2
<1>7. new.s = s
  OBVIOUS
<1> HIDE DEF e, new, y
<1>8. M = [B EXCEPT ![id] = y]
  <2>1. ASSUME NEW j \in BundleIds \ {id}
        PROVE  M[j] = B[j]
    <3>1. j \in Nat
      BY BundleAssumption DEF BundleIds
    <3>2. (j < id + 1) = (j < id)
      BY <1>2, <3>1
    <3> QED
      BY <1>0, <1>3, <1>4, <1>5, <3>2 DEF BundlesShown, Bundle
  <2>2. M[id] = y
    BY <1>2, <1>3, <1>4, <1>5, <1>6 DEF BundlesShown, Bundle
  <2>3. M = [j \in BundleIds |-> M[j]] /\ B = [j \in BundleIds |-> B[j]]
    BY DEF BundlesShown
  <2> HIDE DEF M, B
  <2> QED
    BY <1>2, <2>1, <2>2, <2>3
<1>9. b.bundles = B /\ [b EXCEPT !.bundles = M] = ShownBundles(M)
  <2> HIDE DEF M, B
  <2> QED
    BY BundlesReplaced
<1>10. BundlesTold(b, e) = [b EXCEPT !.bundles[id] = y]
  <2> HIDE DEF b
  <2> QED
    BY <1>1 DEF BundlesTold, y
<1>11. BundlesTold(b, e) = ShownBundles(M)
  <2> HIDE DEF b, B, M
  <2>1. [b EXCEPT !.bundles[id] = y] = [b EXCEPT !.bundles = [B EXCEPT ![id] = y]]
    BY <1>9
  <2> QED
    BY <1>8, <1>9, <1>10, <2>1
<1>12. books' = BooksShown'
  BY <1>1, <1>11, BundleLoggedOnce DEF b, B, M
<1> QED
  BY <1>0, <1>3, <1>4, <1>7, <1>12

(* A step that changes nothing of a bundle but that it is over. *)
BundlesStand ==
  /\ nextBundleId' = nextBundleId
  /\ \A j \in BundleIds : bundles'[j].s = bundles[j].s

(* delistBundle. *)
LEMMA DelistBundleLogged ==
  ASSUME CoreOK, BundlesOK, books = BooksShown, ListingsSame, UnloggedSame,
         NEW id \in BundleIds, DelistBundle(id),
         Log(<<BundleDelisted(id, Bundle(id).s)>>)
  PROVE  books' = BooksShown' /\ BundlesStand
<1> DEFINE e == BundleDelisted(id, Bundle(id).s)
<1>1. e.type \in {"bundle_delisted", "bundle_bought"} /\ e.bundleId = id /\ Log(<<e>>)
  BY DEF BundleDelisted
<1> HIDE DEF e
<1>2. bundles' = Closed(id) /\ nextBundleId' = nextBundleId /\ Bundle(id).act
  BY DEF DelistBundle, Closed
<1>3. BundlesTyped
  BY DEF CoreOK
<1>4. /\ ~bundles'[id].act
      /\ \A j \in BundleIds \ {id} : bundles'[j] = bundles[j]
      /\ \A j \in BundleIds :
           /\ bundles'[j].its = bundles[j].its /\ bundles'[j].s = bundles[j].s
           /\ bundles'[j].nc = bundles[j].nc /\ bundles'[j].p = bundles[j].p
  BY <1>2, <1>3, ClosedBundle
<1>5. /\ \A j : UnloggedOf("bundle", j)' = UnloggedOf("bundle", j)
      /\ UnloggedOf("bundle", id) = 0 /\ id < nextBundleId
  BY <1>2, NoneUnlogged, UnloggedNext DEF UnloggedSame, UnloggedOf
<1>6. UnloggedOf("bundle", id)' = 0
  BY <1>5
<1>7. PICK c : c = bundles'[id]
  OBVIOUS
<1>8. /\ ~c.act /\ c.s = bundles[id].s /\ c.nc = bundles[id].nc
      /\ c.its = bundles[id].its /\ c.p = bundles[id].p
  BY <1>4, <1>7
<1>9. \A j \in BundleIds \ {id} :
        /\ bundles'[j] = bundles[j]
        /\ UnloggedOf("bundle", j)' = UnloggedOf("bundle", j)
  BY <1>4, <1>5
<1>10. books' = BooksShown'
  BY <1>1, <1>2, <1>3, <1>5, <1>6, <1>7, <1>8, <1>9, CloseBundleLogged
<1> QED
  BY <1>2, <1>4, <1>10 DEF BundlesStand

(* buyBundle takes the bundle off, and logs it when the items are there.   *)
LEMMA BuyBundleLogged ==
  ASSUME CoreOK, ListingsOK, BundlesOK, books = BooksShown,
         NEW x \in Accounts, NEW id \in BundleIds, BuyBundle(x, id), Silent
  PROVE  /\ books' = BooksShown' /\ BundlesStand
         /\ listings' = listings /\ nextListingId' = nextListingId
<1>1. /\ bundles' = Closed(id) /\ bundles[id].act
      /\ \A op, j :
           /\ Weighed(UnloggedWeight(op, j), calls) \in Nat
           /\ Weighed(UnloggedWeight(op, j), calls') \in Nat
           /\ Weighed(UnloggedWeight(op, j), calls')
                = Weighed(UnloggedWeight(op, j), calls)
                    + (IF op = "bundle" /\ j = id THEN 1 ELSE 0)
  BY BuyBundleKeeps
<1>2. /\ cfg' = cfg /\ listings' = listings /\ nextListingId' = nextListingId
      /\ received' = received /\ proceeds' = proceeds /\ books' = books
      /\ nextBundleId' = nextBundleId
  BY DEF BuyBundle, marketVars, history, Silent
<1>3. ASSUME NEW op, NEW j, op # "bundle" \/ j # id
      PROVE  Weighed(UnloggedWeight(op, j), calls') = Weighed(UnloggedWeight(op, j), calls)
  <2> DEFINE w == Weighed(UnloggedWeight(op, j), calls)
             w2 == Weighed(UnloggedWeight(op, j), calls')
  <2>1. w \in Nat /\ w2 = w + 0
    BY <1>1, <1>3
  <2> HIDE DEF w, w2
  <2>2. w2 = w
    BY <2>1
  <2> QED
    BY <2>2 DEF w, w2
<1>4. ListingsSame
  BY <1>2, <1>3 DEF ListingsSame, ListingsUnlogged
<1>5. /\ \A j \in BundleIds \ {id} : bundles'[j] = bundles[j]
      /\ \A j \in BundleIds :
           /\ bundles'[j].its = bundles[j].its /\ bundles'[j].s = bundles[j].s
           /\ bundles'[j].nc = bundles[j].nc /\ bundles'[j].p = bundles[j].p
      /\ ~bundles'[id].act
  BY <1>1, ClosedBundle DEF CoreOK
<1>6. \A j \in BundleIds \ {id} :
        /\ bundles'[j] = bundles[j]
        /\ UnloggedOf("bundle", j)' = UnloggedOf("bundle", j)
  BY <1>3, <1>5, UnloggedNext DEF UnloggedOf
<1>7. Bundle(id).act /\ id < nextBundleId /\ UnloggedOf("bundle", id) = 0
  BY <1>1, NoneUnlogged DEF Bundle
<1>8. UnloggedOf("bundle", id)' = 1
  <2>1. UnloggedOf("bundle", id)' = UnloggedOf("bundle", id) + 1
    BY <1>1, UnloggedNext DEF UnloggedOf
  <2> QED
    BY <1>7, <2>1
<1> DEFINE B == BundlesShown
           M == BundlesShown'
<1>9. /\ B = [j \in BundleIds |-> B[j]]
      /\ B[id] = BundleEntry(bundles[id], 0)
  BY <1>7 DEF BundlesShown, Bundle
<1>10. M = [B EXCEPT ![id] = BundleEntry(bundles'[id], 1)]
  <2>1. M = [B EXCEPT ![id] = BundleEntry(bundles'[id], UnloggedOf("bundle", id)')]
    BY <1>2, <1>6, <1>7, OneBundleShown
  <2> HIDE DEF B, M
  <2> QED
    BY <1>8, <2>1
<1>11. BundleEntry(bundles'[id], 1) = BundleEntry(bundles[id], 0)
  <2>1. (bundles'[id].act \/ 1 > 0) = (bundles[id].act \/ 0 > 0)
    BY <1>1
  <2>2. /\ bundles'[id].its = bundles[id].its /\ bundles'[id].s = bundles[id].s
        /\ bundles'[id].nc = bundles[id].nc /\ bundles'[id].p = bundles[id].p
    BY <1>5
  <2> QED
    BY <2>1, <2>2 DEF BundleEntry
<1> HIDE DEF B, M
<1>12. M = B
  BY <1>9, <1>10, <1>11
<1>13. BooksShown = ShownBundles(B) /\ BooksShown' = ShownBundles(M)
  BY <1>4, OnlyBundles DEF B, M
<1> QED
  BY <1>2, <1>5, <1>12, <1>13 DEF BundlesStand

(* The event of a bundle's sale. *)
LEMMA FinishBundleLogged ==
  ASSUME CoreOK, ListingsOK, BundlesOK, books = BooksShown, FinishBundle,
         NEW e, e.type = "bundle_bought", e.bundleId = Top.id, Log(<<e>>)
  PROVE  /\ books' = BooksShown' /\ BundlesStand
         /\ listings' = listings /\ nextListingId' = nextListingId
<1>0. PICK id : id = Top.id
  OBVIOUS
<1>1. /\ Top \in Frame /\ BundleFits(Top, bundles, nextBundleId, buyers)
      /\ Top.op = "bundle" /\ id \in BundleIds
      /\ \A op, j :
           /\ Weighed(UnloggedWeight(op, j), calls) \in Nat
           /\ Weighed(UnloggedWeight(op, j), calls') \in Nat
           /\ Weighed(UnloggedWeight(op, j), calls)
                = Weighed(UnloggedWeight(op, j), calls')
                    + (IF op = "bundle" /\ j = id THEN 1 ELSE 0)
  BY <1>0, FinishBundleKeeps
<1>2. /\ cfg' = cfg /\ listings' = listings /\ nextListingId' = nextListingId
      /\ received' = received /\ proceeds' = proceeds
      /\ bundles' = bundles /\ nextBundleId' = nextBundleId
  BY DEF FinishBundle, marketVars, history, bundleVars
<1>3. ASSUME NEW op, NEW j, op # "bundle" \/ j # id
      PROVE  Weighed(UnloggedWeight(op, j), calls') = Weighed(UnloggedWeight(op, j), calls)
  <2> DEFINE w == Weighed(UnloggedWeight(op, j), calls)
             w2 == Weighed(UnloggedWeight(op, j), calls')
  <2>1. w2 \in Nat /\ w = w2 + 0
    BY <1>1, <1>3
  <2> HIDE DEF w, w2
  <2>2. w2 = w
    BY <2>1
  <2> QED
    BY <2>2 DEF w, w2
<1>4. ListingsSame
  BY <1>2, <1>3 DEF ListingsSame, ListingsUnlogged
<1>5. \A j \in BundleIds \ {id} :
        /\ bundles'[j] = bundles[j]
        /\ UnloggedOf("bundle", j)' = UnloggedOf("bundle", j)
  BY <1>2, <1>3, UnloggedNext DEF UnloggedOf
<1>6. id < nextBundleId /\ buyers[id] = <<Top.by>>
  BY <1>0, <1>1 DEF BundleFits
<1>7. ~bundles[id].act
  <2>1. buyers[id] # <<>>
    BY <1>6
  <2> QED
    BY <1>1, <2>1 DEF BundlesOK, BundleGood, GoodBundle, Bundle
<1>8. UnloggedOf("bundle", id)' = 0
  <2> DEFINE w == UnloggedOf("bundle", id)
             w2 == UnloggedOf("bundle", id)'
  <2>1. w = w2 + 1 /\ w2 \in Nat
    BY <1>1, UnloggedNext DEF UnloggedOf
  <2>2. w \in {0, 1}
    BY <1>1, NoneUnlogged
  <2> HIDE DEF w, w2
  <2>3. w2 = 0
    BY <2>1, <2>2
  <2> QED
    BY <2>3 DEF w2
<1>9. PICK c : c = bundles'[id]
  OBVIOUS
<1>10. /\ ~c.act /\ c.s = bundles[id].s /\ c.nc = bundles[id].nc
       /\ c.its = bundles[id].its /\ c.p = bundles[id].p
  BY <1>2, <1>7, <1>9
<1>11. books' = BooksShown'
  BY <1>0, <1>1, <1>2, <1>4, <1>5, <1>6, <1>8, <1>9, <1>10, CloseBundleLogged DEF CoreOK
<1> QED
  BY <1>2, <1>11 DEF BundlesStand

-----------------------------------------------------------------------------
(* Every step, and what it logs.                                           *)

(* Trade in listings, approvals, and trade outside the market. *)
LEMMA TradeLogged ==
  ASSUME CoreOK, ListingsOK, books = BooksShown, BundlesSame, Trade
  PROVE  books' = BooksShown' /\ \A id \in ListingIds :
           nextListingId <= id /\ id < nextListingId' => listings'[id].s \in Accounts
<1>0. ASSUME NEW id \in ListingIds
      PROVE  ~(nextListingId <= id /\ id < nextListingId)
  BY ListingAssumption DEF ListingIds, CoreOK, ListingsTyped
<1>1. ASSUME NEW s \in Accounts, NEW offered \in ListsOf(Offered),
             BatchList(s, offered), Log(ListedAll(s, offered))
      PROVE  books' = BooksShown' /\ \A id \in ListingIds :
               nextListingId <= id /\ id < nextListingId' => listings'[id].s \in Accounts
  BY <1>1, BatchListLogged
<1>2. ASSUME NEW id \in ListingIds, Delist(id), Log(<<Delisted(id, Listing(id).s)>>)
      PROVE  books' = BooksShown' /\ nextListingId' = nextListingId
  <2>1. UnloggedSame
    BY <1>2, DelistKeeps
  <2> QED
    BY <1>2, <2>1, DelistLogged DEF Delist
<1>3. ASSUME NEW id \in ListingIds, NEW p \in UnitPrices, UpdateListing(id, p),
             Log(<<ListingUpdated(id, p)>>)
      PROVE  books' = BooksShown' /\ nextListingId' = nextListingId
  <2>1. UnloggedSame
    BY <1>3, UpdateListingKeeps
  <2> QED
    BY <1>3, <2>1, UpdateListingLogged DEF UpdateListing
<1>4. ASSUME Silent,
             \/ \E arrived : TakePayment(arrived)
             \/ \E x \in Accounts, orders \in ListsOf(Orders) : BatchBuy(x, orders)
             \/ \E x \in Accounts, c \in Collections, ids \in ListsOf(ListingIds),
                   budget \in Budgets : Sweep(x, c, ids, budget)
      PROVE  books' = BooksShown' /\ nextListingId' = nextListingId
  <2>1. UnloggedSame
    BY <1>4, PurchaseKeeps
  <2>2. /\ cfg' = cfg /\ listings' = listings /\ nextListingId' = nextListingId
        /\ received' = received /\ proceeds' = proceeds /\ books' = books
        /\ bundles' = bundles /\ nextBundleId' = nextBundleId
    BY <1>4 DEF TakePayment, BatchBuy, Sweep, Begin, marketVars, history, Silent, BundlesSame
  <2> QED
    BY <2>1, <2>2, NothingShown
<1>5. ASSUME NextOrder, Silent
      PROVE  books' = BooksShown' /\ nextListingId' = nextListingId
  BY <1>5, NextOrderLogged DEF NextOrder
<1>6. ASSUME GiveUnits, Silent
      PROVE  books' = BooksShown' /\ nextListingId' = nextListingId
  <2>1. UnloggedSame
    BY <1>6, GiveUnitsKeeps
  <2>2. /\ cfg' = cfg /\ listings' = listings /\ nextListingId' = nextListingId
        /\ received' = received /\ proceeds' = proceeds /\ books' = books
        /\ bundles' = bundles /\ nextBundleId' = nextBundleId
    BY <1>6 DEF GiveUnits, marketVars, Silent, BundlesSame
  <2> QED
    BY <2>1, <2>2, NothingShown
<1>7. ASSUME FinishOrder, Log(PurchaseEvents(Top))
      PROVE  books' = BooksShown' /\ nextListingId' = nextListingId
  BY <1>7, FinishOrderLogged DEF FinishOrder
<1>8. ASSUME Silent,
             \/ \E ix \in Allowances : SetApproval(ix[1], ix[2])
             \/ \E ixy \in OutsideTrades : TransferOutside(ixy[1], ixy[2], ixy[3])
      PROVE  books' = BooksShown' /\ nextListingId' = nextListingId
  <2>1. UnloggedSame
    BY <1>8, OutsideKeeps
  <2>2. /\ cfg' = cfg /\ listings' = listings /\ nextListingId' = nextListingId
        /\ received' = received /\ proceeds' = proceeds /\ books' = books
        /\ bundles' = bundles /\ nextBundleId' = nextBundleId
    BY <1>8 DEF SetApproval, TransferOutside, Silent, marketVars, history, BundlesSame
  <2> QED
    BY <2>1, <2>2, NothingShown
<1>9. CASE Purchases
  BY <1>0, <1>4, <1>5, <1>6, <1>7, <1>9 DEF Purchases
<1> QED
  BY <1>0, <1>1, <1>2, <1>3, <1>4, <1>8, <1>9 DEF Trade

(* What was listed keeps its seller when listings do not change. *)
LEMMA SellersStand ==
  ASSUME SellersKnown, BundlesStand, listings' = listings,
         nextListingId' = nextListingId
  PROVE  SellersKnown'
BY DEF SellersKnown, BundlesStand, Listing, Bundle

(* Trade in bundles. *)
LEMMA TradeInBundlesLogged ==
  ASSUME CoreOK, ListingsOK, BundlesOK, LogIsState, TradeInBundles
  PROVE  LogIsState'
<1>1. books = BooksShown /\ SellersKnown /\ BundlesTyped
  BY DEF LogIsState, CoreOK
<1>2. ASSUME NEW s \in Accounts, NEW nc \in Collections, NEW its \in Contents,
             NEW p \in BundlePrices, NEW t \in Tokens, NEW exp \in BundleExpirations,
             ListBundle(s, nc, its, p, t, exp),
             Log(<<BundleListed(nextBundleId, s, nc, Len(its), p)>>)
      PROVE  LogIsState'
  <2>0. UnloggedSame
    BY <1>2, ListBundleKeeps
  <2>1. ListingsSame
    BY <1>2, <2>0 DEF ListBundle, marketVars, listingVars, history, ListingsSame,
                      ListingsUnlogged, UnloggedSame
  <2>2. /\ books' = BooksShown'
        /\ nextBundleId' = nextBundleId + 1 /\ bundles'[nextBundleId].s = s
        /\ \A j \in BundleIds \ {nextBundleId} : bundles'[j] = bundles[j]
    BY <1>1, <1>2, <2>0, <2>1, ListBundleLogged
  <2>3. nextBundleId \in Nat
    BY <1>1, BundleAssumption DEF BundlesTyped
  <2>4. ASSUME NEW j \in BundleIds, j < nextBundleId'
        PROVE  bundles'[j].s # NoAccount
    <3>1. j \in Nat
      BY BundleAssumption DEF BundleIds
    <3>2. CASE j = nextBundleId
      BY <2>2, <3>2, AccountAssumption
    <3>3. CASE j # nextBundleId
      <4>1. j < nextBundleId
        BY <2>2, <2>3, <2>4, <3>1, <3>3
      <4> QED
        BY <1>1, <2>2, <3>3, <4>1 DEF SellersKnown, Bundle
    <3> QED
      BY <3>2, <3>3
  <2>5. SellersKnown'
    BY <1>1, <2>1, <2>4 DEF SellersKnown, ListingsSame, Listing, Bundle
  <2> QED
    BY <2>2, <2>5 DEF LogIsState
<1>3. ASSUME NEW id \in BundleIds, DelistBundle(id),
             Log(<<BundleDelisted(id, Bundle(id).s)>>)
      PROVE  LogIsState'
  <2>1. UnloggedSame
    BY <1>3, DelistBundleKeeps
  <2>2. ListingsSame
    BY <1>3, <2>1 DEF DelistBundle, marketVars, listingVars, history, ListingsSame,
                      ListingsUnlogged, UnloggedSame
  <2>3. books' = BooksShown' /\ BundlesStand
    BY <1>1, <1>3, <2>1, <2>2, DelistBundleLogged
  <2>4. SellersKnown'
    BY <1>1, <2>2, <2>3, SellersStand DEF ListingsSame
  <2> QED
    BY <2>3, <2>4 DEF LogIsState
<1>4. ASSUME NEW x \in Accounts, NEW id \in BundleIds, BuyBundle(x, id), Silent
      PROVE  LogIsState'
  <2>1. /\ books' = BooksShown' /\ BundlesStand
        /\ listings' = listings /\ nextListingId' = nextListingId
    BY <1>1, <1>4, BuyBundleLogged
  <2>2. SellersKnown'
    BY <1>1, <2>1, SellersStand
  <2> QED
    BY <2>1, <2>2 DEF LogIsState
<1>5. ASSUME GiveItem, Silent
      PROVE  LogIsState'
  <2>1. UnloggedSame
    BY <1>5, GiveItemKeeps
  <2>2. /\ cfg' = cfg /\ listings' = listings /\ nextListingId' = nextListingId
        /\ received' = received /\ proceeds' = proceeds /\ books' = books
        /\ bundles' = bundles /\ nextBundleId' = nextBundleId
    BY <1>5 DEF GiveItem, marketVars, history, bundleVars, Silent
  <2>3. BooksShown' = BooksShown
    BY <2>1, <2>2, NothingShown
  <2>4. SellersKnown'
    BY <1>1, <2>2, SellersStand DEF BundlesStand
  <2> QED
    BY <1>1, <2>2, <2>3, <2>4 DEF LogIsState
<1>6. ASSUME FinishBundle,
             Log(<<LET f == Top IN
               BundleBought(f.id, f.by, f.got, FeeOf(f.got, f.fb), RoyaltyOf(f.got, f.rs))>>)
      PROVE  LogIsState'
  <2> DEFINE f == Top
  <2>1. PICK e : e = BundleBought(f.id, f.by, f.got, FeeOf(f.got, f.fb), RoyaltyOf(f.got, f.rs))
    OBVIOUS
  <2>2. e.type = "bundle_bought" /\ e.bundleId = Top.id
    BY <2>1 DEF BundleBought
  <2>3. Log(<<e>>)
    BY <1>6, <2>1
  <2>4. /\ books' = BooksShown' /\ BundlesStand
        /\ listings' = listings /\ nextListingId' = nextListingId
    BY <1>1, <1>6, <2>2, <2>3, FinishBundleLogged
  <2>5. SellersKnown'
    BY <1>1, <2>4, SellersStand
  <2> QED
    BY <2>4, <2>5 DEF LogIsState
<1> QED
  BY <1>2, <1>3, <1>4, <1>5, <1>6 DEF TradeInBundles

(* Nothing is listed at first, and init has told who is the owner. *)
LEMMA LogAtFirst == IndexerInit => LogIsState
<1> SUFFICES ASSUME IndexerInit
             PROVE  LogIsState
  OBVIOUS
<1>1. BundleInit /\ Init /\ MarketInit
  BY DEF IndexerInit, BundleInit, Init
<1>2. nextListingId = 0 /\ nextBundleId = 0
  BY <1>1 DEF Init, BundleInit
<1>3. /\ \A id \in ListingIds : (id < nextListingId) = FALSE
      /\ \A id \in BundleIds : (id < nextBundleId) = FALSE
  BY <1>2, ListingAssumption, BundleAssumption DEF ListingIds, BundleIds
<1> DEFINE e == InitMagiMarket(cfg.owner, cfg.feeBps, cfg.feeRecipient)
           none == [bps |-> 0, to |-> NoAccount, count |-> 0]
<1>4. ListingsShown = [id \in ListingIds |-> NoEntry]
  BY <1>3 DEF ListingsShown
<1>5. BundlesShown = [id \in BundleIds |-> NoEntry]
  BY <1>3 DEF BundlesShown
<1>6. /\ cfg.pendingOwner = NoAccount /\ cfg.paused = FALSE
      /\ cfg.collectionFee = [c \in Collections |-> NoFee]
      /\ cfg.royalty = [c \in Collections |->
                          [bps |-> 0, rcpt |-> NoAccount, splits |-> <<>>]]
      /\ cfg.allowed = NativeTokens /\ cfg.denied = {}
  <2> PICK f, x : cfg = InitialConfig(f, x)
    BY <1>1 DEF MarketInit
  <2> QED
    BY DEF InitialConfig
<1>7. ASSUME NEW c \in Collections
      PROVE  RoyaltyEntry(cfg.royalty[c]) = none
  BY <1>6 DEF RoyaltyEntry
<1>8. [c \in Collections |-> RoyaltyEntry(cfg.royalty[c])] = [c \in Collections |-> none]
  BY <1>7
<1>9. e.owner = cfg.owner
  BY DEF InitMagiMarket
<1>10. books = BooksAfterInit(e)
  BY DEF IndexerInit
<1> HIDE DEF e
<1>11. books = BooksShown
  BY <1>4, <1>5, <1>6, <1>8, <1>9, <1>10 DEF BooksAfterInit, BooksShown
<1> QED
  BY <1>3, <1>11 DEF LogIsState, SellersKnown

(* Every step logs what it changes, and nothing else. *)
LEMMA LogStep ==
  ASSUME IndexerInv, LogIsState, [IndexerNext]_<<allVars, books>>
  PROVE  LogIsState'
<1>1. /\ CoreOK /\ ListingsOK /\ BundlesOK /\ cfg \in Config
      /\ books = BooksShown /\ SellersKnown
  BY DEF IndexerInv, CoreOK, MarketInv, MarketTypeOK, LogIsState
<1>2. BooksShown = BooksOf(cfg)
  BY DEF BooksShown, BooksOf
<1>3. CASE Idle /\ Tick /\ Silent /\ UNCHANGED <<listingVars, bundleVars>>
  <2>1. cfg' = cfg /\ books' = books
    BY <1>3 DEF Tick, Silent
  <2>2. BooksShown' = BooksOf(cfg') /\ SellersKnown'
    BY <1>1, <1>3, SettingsShown
  <2>3. books' = BooksOf(cfg')
    BY <1>1, <1>2, <2>1
  <2> QED
    BY <2>2, <2>3 DEF LogIsState
<1>4. CASE Idle /\ Govern /\ UNCHANGED <<height, listingVars, bundleVars>>
  <2>1. BooksShown' = BooksOf(cfg') /\ SellersKnown'
    BY <1>1, <1>4, SettingsShown
  <2>2. books' = BooksOf(cfg')
    BY <1>1, <1>2, <1>4, GovernLogged
  <2> QED
    BY <2>1, <2>2 DEF LogIsState
<1>5. CASE Trade /\ BesidesBundles
  <2>1. BundlesSame /\ bundles' = bundles /\ nextBundleId' = nextBundleId
    BY <1>5 DEF BesidesBundles, BundlesSame
  <2>2. /\ books' = BooksShown'
        /\ \A id \in ListingIds :
             nextListingId <= id /\ id < nextListingId' => listings'[id].s \in Accounts
    BY <1>1, <1>5, <2>1, TradeLogged
  <2>3. TermsStood
    BY IndexerStep
  <2>4. ASSUME NEW id \in ListingIds, id < nextListingId'
        PROVE  listings'[id].s # NoAccount
    <3>1. id \in Nat /\ nextListingId \in Nat
      BY <1>1, ListingAssumption DEF ListingIds, CoreOK, ListingsTyped
    <3>2. CASE id < nextListingId
      <4>1. id \in 0 .. nextListingId - 1
        BY <3>1, <3>2
      <4>2. listings'[id].s = listings[id].s
        BY <2>3, <4>1 DEF TermsStood
      <4> QED
        BY <1>1, <3>2, <4>2 DEF SellersKnown, Listing
    <3>3. CASE nextListingId <= id
      BY <2>2, <2>4, <3>3, AccountAssumption
    <3> QED
      BY <3>1, <3>2, <3>3
  <2>5. SellersKnown'
    BY <1>1, <2>1, <2>4 DEF SellersKnown, Listing, Bundle
  <2> QED
    BY <2>2, <2>5 DEF LogIsState
<1>6. CASE TradeInBundles
  BY <1>1, <1>6, TradeInBundlesLogged
<1>7. CASE UNCHANGED <<allVars, books>>
  <2>1. cfg' = cfg /\ books' = books /\ UNCHANGED <<listingVars, bundleVars>>
    BY <1>7 DEF allVars, vars, marketVars
  <2>2. BooksShown' = BooksOf(cfg') /\ SellersKnown'
    BY <1>1, <2>1, SettingsShown
  <2>3. books' = BooksOf(cfg')
    BY <1>1, <1>2, <2>1
  <2> QED
    BY <2>2, <2>3 DEF LogIsState
<1> QED
  BY <1>3, <1>4, <1>5, <1>6, <1>7 DEF IndexerNext

-----------------------------------------------------------------------------
(* The queries of the settings answer what the books say. *)
LEMMA InvSettings ==
  ASSUME cfg \in Config, books = BooksShown
  PROVE  SettingsAgree
<1>1. /\ books.owner = cfg.owner /\ books.paused = cfg.paused
      /\ books.pendingOwner = cfg.pendingOwner /\ books.tokens = cfg.allowed
      /\ books.denied = cfg.denied /\ books.fees = cfg.collectionFee
      /\ books.royalties = [c \in Collections |-> RoyaltyEntry(cfg.royalty[c])]
  BY DEF BooksShown
<1>2. ASSUME NEW c \in Collections
      PROVE  LET r == books.royalties[c] IN
             /\ Len(GetRoyaltySplits(c)) = r.count
             /\ r.bps # Unknown =>
                  GetRoyalty(c) = [royaltyBps |-> r.bps, royaltyRecipient |-> r.to]
  <2> DEFINE r == cfg.royalty[c]
             n == r.bps
  <2>1. books.royalties[c] = RoyaltyEntry(r) /\ n \in Nat /\ r.splits \in Seq(Split)
    BY <1>1 DEF Config, Royalty
  <2>2. GetRoyaltySplits(c) = IF r.splits # <<>> THEN r.splits
                              ELSE IF n > 0 THEN <<[to |-> r.rcpt, bps |-> n]>> ELSE <<>>
    BY DEF GetRoyaltySplits, ResolveRoyaltySplits
  <2>3. GetRoyalty(c) = [royaltyBps |-> n, royaltyRecipient |-> r.rcpt]
    BY DEF GetRoyalty, RoyaltyBps
  <2> HIDE DEF r, n
  <2>4. CASE r.splits # <<>>
    <3>1. RoyaltyEntry(r).count = Len(r.splits) /\ RoyaltyEntry(r).bps = Unknown
      BY <2>4 DEF RoyaltyEntry
    <3> QED
      BY <2>1, <2>2, <2>4, <3>1
  <2>5. CASE r.splits = <<>>
    <3>1. /\ RoyaltyEntry(r).count = IF n = 0 THEN 0 ELSE 1
          /\ RoyaltyEntry(r).bps = n /\ RoyaltyEntry(r).to = r.rcpt
      BY <2>5 DEF RoyaltyEntry, n
    <3>2. Len(GetRoyaltySplits(c)) = IF n = 0 THEN 0 ELSE 1
      BY <2>1, <2>2, <2>5
    <3> QED
      BY <2>1, <2>3, <3>1, <3>2
  <2> QED
    BY <2>4, <2>5
<1>3. ASSUME NEW c \in Collections
      PROVE  /\ IsCollectionDenied(c) <=> c \in books.denied
             /\ GetEffectiveFee(c) = IF books.fees[c] = NoFee THEN GetInfo.feeBps
                                     ELSE books.fees[c]
  BY <1>1 DEF IsCollectionDenied, CollectionAllowed, GetEffectiveFee, EffectiveFeeBps, GetInfo
<1>4. \A t \in Tokens : IsPaymentTokenAllowed(t) <=> t \in books.tokens
  BY <1>1 DEF IsPaymentTokenAllowed, PaymentTokenAllowed
<1>5. /\ GetInfo.owner = books.owner /\ GetInfo.paused = books.paused
      /\ GetOwner = GetInfo.owner /\ IsPaused = GetInfo.paused
      /\ GetMinOffer = GetInfo.minOffer /\ GetPendingOwner = books.pendingOwner
  BY <1>1 DEF GetInfo, GetOwner, IsPaused, GetMinOffer, GetPendingOwner
<1> QED
  BY <1>2, <1>3, <1>4, <1>5 DEF SettingsAgree

(* The queries of a listing. *)
LEMMA InvListings ==
  ASSUME CoreOK, ListingsOK, LogIsState, NEW id \in ListingIds
  PROVE  ListingAgrees(id)
<1> DEFINE l == Listing(id)
           told == books.listings[id]
           u == UnloggedOf("listing", id)
           now == UnloggedUnits("listing", id)
<1>0. now = u
  BY SumsWeigh DEF UnloggedOf, CoreOK, StackOK, CallsTyped
<1>1. told = IF id < nextListingId THEN ListingEntry(l, u, received[id], proceeds[id])
             ELSE NoEntry
  BY DEF LogIsState, BooksShown, ListingsShown
<1> HIDE DEF u, now
<1>2. CASE id < nextListingId
  <2> DEFINE shown == GetListing(id)
             a == l.a
             on == StillOn(l.act, a, u)
  <2>1. l.s # NoAccount
    BY <1>2 DEF LogIsState, SellersKnown
  <2>2. /\ shown.seller = l.s /\ shown.item = l.item /\ shown.amount = a
        /\ shown.pricePerUnit = l.p /\ shown.paymentToken = l.pt
        /\ shown.expirationBlock = l.exp /\ shown.active = l.act
    BY DEF GetListing
  <2>3. /\ told.known = TRUE /\ told.seller = l.s /\ told.item = l.item
        /\ told.amount = a + u
        /\ told.pricePerUnit = l.p /\ told.paymentToken = l.pt
        /\ told.expirationBlock = l.exp /\ told.active = on
        /\ told.taken = received[id] /\ told.left = proceeds[id]
    BY <1>1, <1>2 DEF ListingEntry
  <2>4. on <=> l.act \/ (a = 0 /\ now > 0)
    BY <1>0 DEF StillOn
  <2> HIDE DEF shown, told, a, on
  <2>5. \A f \in {"seller", "item", "pricePerUnit", "paymentToken", "expirationBlock"} :
          told[f] = shown[f]
    BY <2>2, <2>3
  <2>6. told.amount = shown.amount + now
    BY <1>0, <2>2, <2>3
  <2>7. told.active <=> shown.active \/ (shown.amount = 0 /\ now > 0)
    BY <2>2, <2>3, <2>4
  <2> HIDE DEF l
  <2> QED
    BY <2>1, <2>3, <2>5, <2>6, <2>7 DEF ListingAgrees, ListingFound, told, shown, now, l
<1>3. CASE ~(id < nextListingId)
  <2>1. l.s = NoAccount
    BY <1>3 DEF ListingsOK, ListingGood, GoodListing
  <2>2. told.known = FALSE
    BY <1>1, <1>3 DEF NoEntry
  <2> QED
    BY <2>1, <2>2 DEF ListingAgrees, ListingFound
<1> QED
  BY <1>2, <1>3

(* The queries of a bundle. *)
LEMMA InvBundles ==
  ASSUME CoreOK, BundlesOK, LogIsState, NEW id \in BundleIds
  PROVE  BundleAgrees(id)
<1> DEFINE b == Bundle(id)
           told == books.bundles[id]
           u == UnloggedOf("bundle", id)
           now == UnloggedUnits("bundle", id)
<1>0. now = u
  BY SumsWeigh DEF UnloggedOf, CoreOK, StackOK, CallsTyped
<1>1. told = IF id < nextBundleId THEN BundleEntry(b, u) ELSE NoEntry
  BY DEF LogIsState, BooksShown, BundlesShown
<1> HIDE DEF u, now
<1>2. CASE id < nextBundleId
  <2> DEFINE shown == GetBundle(id)
             on == b.act \/ u > 0
  <2>1. b.s # NoAccount
    BY <1>2 DEF LogIsState, SellersKnown
  <2>2. /\ shown.seller = b.s /\ shown.nftContract = b.nc /\ shown.price = b.p
        /\ shown.active = b.act /\ shown.items = b.its
    BY DEF GetBundle
  <2>3. /\ told.known = TRUE /\ told.seller = b.s /\ told.nftContract = b.nc
        /\ told.price = b.p /\ told.active = on /\ told.count = Len(b.its)
    BY <1>1, <1>2 DEF BundleEntry
  <2>4. on <=> b.act \/ now > 0
    BY <1>0
  <2> HIDE DEF shown, told, on
  <2>5. \A f \in {"seller", "nftContract", "price"} : told[f] = shown[f]
    BY <2>2, <2>3
  <2>6. told.active <=> shown.active \/ now > 0
    BY <2>2, <2>3, <2>4
  <2>7. told.count = Len(shown.items)
    BY <2>2, <2>3
  <2> HIDE DEF b
  <2> QED
    BY <2>1, <2>3, <2>5, <2>6, <2>7 DEF BundleAgrees, BundleFound, told, shown, now, b
<1>3. CASE ~(id < nextBundleId)
  <2>1. b.s = NoAccount
    BY <1>3 DEF BundlesOK, BundleGood, GoodBundle
  <2>2. told.known = FALSE
    BY <1>1, <1>3 DEF NoEntry
  <2> QED
    BY <2>1, <2>2 DEF BundleAgrees, BundleFound
<1> QED
  BY <1>2, <1>3

-----------------------------------------------------------------------------
(* Books that are kept from the log alone are a function of the state,     *)
(* after any calls in any order: every entrypoint about settings, listings *)
(* and bundles logs all that it changes of what is told, in the order in   *)
(* which it happens (the emit calls at the end of the entrypoints).        *)
THEOREM LogTellsState == IndexerSpec => []LogIsState
<1>1. IndexerInit => LogIsState
  BY LogAtFirst
<1>2. IndexerInv /\ LogIsState /\ [IndexerNext]_<<allVars, books>> => LogIsState'
  BY LogStep
<1> QED
  BY <1>1, <1>2, IndexerInvariant, PTL DEF IndexerSpec

(* The two ways to look at the market agree: an indexer that only reads    *)
(* the events knows the owner, bans, fees and royalties, every listing and *)
(* bundle, what was paid and what was left for sellers, as the queries     *)
(* answer it (the emit calls; getInfo, getListing, getBundle and others).  *)
THEOREM EventsMatchQueries == IndexerSpec => []ViewsAgree
<1>1. IndexerInv /\ LogIsState => ViewsAgree
  <2> SUFFICES ASSUME IndexerInv, LogIsState
               PROVE  ViewsAgree
    OBVIOUS
  <2>1. CoreOK /\ ListingsOK /\ BundlesOK /\ cfg \in Config /\ books = BooksShown
    BY DEF IndexerInv, CoreOK, MarketInv, MarketTypeOK, LogIsState
  <2> QED
    BY <2>1, InvSettings, InvListings, InvBundles DEF ViewsAgree
<1> QED
  BY <1>1, IndexerInvariant, LogTellsState, PTL
=============================================================================
