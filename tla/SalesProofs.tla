---------------------------- MODULE SalesProofs -----------------------------
(***************************************************************************)
(* Proofs about swaps, mint spots and token sales whose purchases may run  *)
(* inside one another: every variable keeps its type, every query answers  *)
(* within the range of its response, and the market keeps nothing of the   *)
(* money that passes through it.                                           *)
(*                                                                         *)
(* What the purchases in progress hold is counted by weighing them: a      *)
(* weight gives every frame of the stack a number.  A call that comes back *)
(* changes the weight of the innermost frame only, and a purchase that     *)
(* starts adds the weight of its own.                                      *)
(***************************************************************************)
EXTENDS Sales, MarketProofs, SequenceTheorems

-----------------------------------------------------------------------------
(* Weights of the purchases in progress, and what holds of them.           *)

(* What a purchase has taken in of t and not paid out. *)
HeldWeight(t) ==
  [f \in Frame |->
     IF /\ f.pt = t
        /\ "pay" \notin ToSet(f.todo)
        /\ "payout" \in ToSet(f.todo)
     THEN f.got ELSE 0]

(* The units a purchase of this swap or listing is about, as long as it is *)
(* in progress.                                                            *)
UnloggedWeight(op, id) ==
  [f \in Frame |-> IF f.op = op /\ f.id = id THEN f.n ELSE 0]

(* The units such a purchase has yet to deliver. *)
FlightWeight(op, id) ==
  [f \in Frame |->
     IF f.op = op /\ f.id = id /\ "deliver" \in ToSet(f.todo) THEN f.n ELSE 0]

(* The calls an accepted swap has still to make, and those of a sale: the  *)
(* stages of acceptSwap, buyMintSpot and buyToken.                         *)
SwapTodos ==
  {<<"pay", "payout", "deliver", "return">>, <<"payout", "deliver", "return">>,
   <<"deliver", "return">>, <<"return">>}

SaleTodos ==
  {<<"pay", "deliver", "payout">>, <<"deliver", "payout">>, <<"payout">>}

(* A frame is that of a known swap or listing at one of its calls.         *)
FrameFits(f, sw, acc, n, m, l) ==
  /\ f.n > 0
  /\ f.op = "swap" =>
       /\ f.todo \in SwapTodos /\ f.n = 1
       /\ f.id < n
       /\ acc[f.id] = <<f.by>> /\ f.by # sw[f.id].p
  /\ f.op = "spot" => f.todo \in SaleTodos /\ f.id < m
  /\ f.op = "token" => f.todo \in SaleTodos /\ f.id < l

(* A frame fits in this state. *)
FitsNow(f) ==
  FrameFits(f, swaps, acceptors, nextSwapId, nextSpotId, nextTokenListingId)

(* The same in the next state. *)
FitsNext(f) ==
  FrameFits(f, swaps', acceptors', nextSwapId', nextSpotId', nextTokenListingId')

(* Every purchase in progress fits what it is about. *)
FramesOK == \A k \in DOMAIN calls : FitsNow(calls[k])

(* A purchase that waits for its payment has read a balance that is what   *)
(* the purchases around it hold.                                           *)
BalancesRead ==
  \A k \in DOMAIN calls :
    Head(calls[k].todo) = "pay" =>
      calls[k].before = Weighed(HeldWeight(calls[k].pt), SubSeq(calls, 1, k - 1))

(* The market holds what the purchases in progress have taken in and not   *)
(* paid out.                                                               *)
HoldingsOK == \A t \in Tokens : pool[t] = Weighed(HeldWeight(t), calls)

-----------------------------------------------------------------------------
(* The stack.                                                              *)

(* A frame once its call has come back. *)
After(f) == [f EXCEPT !.todo = Tail(f.todo)]

(* The innermost purchase and the ones around it make up the stack. *)
LEMMA StackSplit ==
  ASSUME calls \in Seq(Frame), ~Idle
  PROVE  /\ Top \in Frame /\ Outer \in Seq(Frame)
         /\ calls = Append(Outer, Top)
         /\ Len(calls) \in Nat \ {0} /\ Len(Outer) = Len(calls) - 1
         /\ \A k \in DOMAIN Outer : k \in DOMAIN calls /\ Outer[k] = calls[k]
         /\ Len(calls) \in DOMAIN calls
<1> DEFINE n == Len(calls)
<1>1. n \in Nat /\ n # 0 /\ DOMAIN calls = 1 .. n
  BY DEF Idle
<1>2. n \in 1 .. n
  BY <1>1
<1>3. Top \in Frame
  BY <1>1, <1>2 DEF Top
<1>4. /\ Outer \in Seq(Frame) /\ Len(Outer) = n - 1
      /\ \A k \in 1 .. n - 1 : Outer[k] = calls[k]
  <2>1. \A k \in 1 .. n - 1 : calls[k] \in Frame
    BY <1>1
  <2> HIDE DEF n
  <2>2. /\ SubSeq(calls, 1, n - 1) \in Seq(Frame)
        /\ Len(SubSeq(calls, 1, n - 1)) = n - 1
        /\ \A k \in 1 .. n - 1 : SubSeq(calls, 1, n - 1)[k] = calls[k]
    <3>1. /\ SubSeq(calls, 1, n - 1) \in Seq(Frame)
          /\ Len(SubSeq(calls, 1, n - 1)) = IF 1 <= n - 1 THEN n - 1 - 1 + 1 ELSE 0
          /\ \A k \in 1 .. n - 1 - 1 + 1 : SubSeq(calls, 1, n - 1)[k] = calls[1 + k - 1]
      <4>1. 1 \in Int /\ n - 1 \in Int
        BY <1>1
      <4> QED
        BY <2>1, <4>1, SubSeqProperties
    <3>2. n - 1 - 1 + 1 = n - 1 /\ (~(1 <= n - 1) => n - 1 = 0)
      BY <1>1
    <3>3. \A k \in 1 .. n - 1 : 1 + k - 1 = k
      BY <1>1
    <3> QED
      BY <3>1, <3>2, <3>3
  <2> QED
    BY <2>2 DEF Outer, n
<1>5. calls = Append(Outer, Top)
  <2> DEFINE new == Append(Outer, Top)
  <2>1. /\ new \in Seq(Frame) /\ Len(new) = Len(Outer) + 1
        /\ new[Len(Outer) + 1] = Top
        /\ \A k \in 1 .. Len(Outer) : new[k] = Outer[k]
    <3> HIDE DEF n
    <3> QED
      BY <1>3, <1>4
  <2> HIDE DEF new
  <2>2. Len(new) = n /\ calls[n] = Top
    <3>1. calls[n] = Top
      BY DEF Top
    <3> HIDE DEF n
    <3> QED
      BY <1>1, <1>4, <2>1, <3>1
  <2>3. ASSUME NEW k \in 1 .. n
        PROVE  calls[k] = new[k]
    <3> HIDE DEF n
    <3>1. CASE k = n
      BY <1>1, <1>4, <2>1, <2>2, <3>1
    <3>2. CASE k # n
      <4>1. k \in 1 .. n - 1 /\ k \in 1 .. Len(Outer)
        BY <1>1, <1>4, <3>2
      <4> QED
        BY <1>4, <2>1, <4>1
    <3> QED
      BY <3>1, <3>2
  <2> QED
    BY <2>1, <2>2, <2>3, SeqEqual DEF n
<1>6. DOMAIN Outer = 1 .. n - 1
  BY <1>4
<1> QED
  BY <1>1, <1>2, <1>3, <1>4, <1>5, <1>6

(* A call comes back: the purchase goes on or is over. *)
LEMMA AfterReturn ==
  ASSUME calls \in Seq(Frame), Len(calls) <= MaxDepth, ~Idle,
         NEW f \in Frame, f.todo # <<>>, Returned(f)
  PROVE  /\ calls' \in Seq(Frame) /\ Len(calls') <= MaxDepth
         /\ Len(f.todo) = 1 => calls' = Outer
         /\ Len(f.todo) # 1 => calls' = Append(Outer, After(f))
         /\ After(f) \in Frame
<1>1. /\ Outer \in Seq(Frame) /\ Len(calls) \in Nat \ {0}
      /\ Len(Outer) = Len(calls) - 1
  BY StackSplit
<1>2. f.todo \in Seq(Stages)
  BY DEF Frame
<1>3. Tail(f.todo) \in Seq(Stages)
  BY <1>2
<1>4. After(f) \in Frame
  BY <1>3 DEF After, Frame
<1>5. calls' = IF Len(f.todo) = 1 THEN Outer ELSE Append(Outer, After(f))
  BY DEF Returned, After
<1>6. Append(Outer, After(f)) \in Seq(Frame) /\ Len(Append(Outer, After(f))) = Len(calls)
  BY <1>1, <1>4
<1>7. Len(Outer) <= MaxDepth
  BY <1>1, CallAssumption
<1> QED
  BY <1>1, <1>4, <1>5, <1>6, <1>7

(* What the stack weighs then. *)
LEMMA WeighedAfter ==
  ASSUME calls \in Seq(Frame), Len(calls) <= MaxDepth, ~Idle,
         NEW f \in Frame, f.todo # <<>>, Returned(f),
         NEW V \in [Frame -> Nat]
  PROVE  /\ Weighed(V, Outer) \in Nat
         /\ Weighed(V, calls) = Weighed(V, Outer) + V[Top]
         /\ Weighed(V, calls') =
              Weighed(V, Outer) + (IF Len(f.todo) = 1 THEN 0 ELSE V[After(f)])
<1>1. /\ Outer \in Seq(Frame) /\ Top \in Frame
      /\ calls = Append(Outer, Top)
  BY StackSplit
<1>2. Weighed(V, Outer) \in Nat
  BY <1>1, WeighedType
<1>3. Weighed(V, calls) = Weighed(V, Outer) + V[Top]
  BY <1>1, WeighedPush
<1>4. Weighed(V, calls') =
        Weighed(V, Outer) + (IF Len(f.todo) = 1 THEN 0 ELSE V[After(f)])
  <2>1. CASE Len(f.todo) = 1
    <3>1. calls' = Outer
      BY <2>1, AfterReturn
    <3> QED
      BY <1>2, <2>1, <3>1
  <2>2. CASE Len(f.todo) # 1
    <3>1. calls' = Append(Outer, After(f)) /\ After(f) \in Frame
      BY <2>2, AfterReturn
    <3> QED
      BY <1>1, <2>2, <3>1, WeighedPush
  <2> QED
    BY <2>1, <2>2
<1> QED
  BY <1>2, <1>3, <1>4

(* The stages of an acceptance, of which the last is the return leg. *)
LEMMA SwapStages ==
  ASSUME NEW todo \in SwapTodos
  PROVE  /\ todo # <<>> /\ Head(todo) \in Stages
         /\ Len(todo) = 1 <=> Head(todo) = "return"
         /\ Head(todo) # "return" => Tail(todo) \in SwapTodos
         /\ Head(todo) = "pay" => Head(Tail(todo)) = "payout"
         /\ Head(todo) = "payout" => Head(Tail(todo)) = "deliver"
         /\ Head(todo) = "deliver" => Head(Tail(todo)) = "return"
         /\ "pay" \in ToSet(todo) <=> Head(todo) = "pay"
         /\ "payout" \in ToSet(todo) <=> Head(todo) \in {"pay", "payout"}
         /\ "deliver" \in ToSet(todo) <=> Head(todo) # "return"
         /\ "return" \in ToSet(todo)
<1>1. CASE todo = <<"pay", "payout", "deliver", "return">>
  <2>1. ToSet(todo) = {"pay", "payout", "deliver", "return"}
    BY <1>1 DEF ToSet
  <2> QED
    BY <1>1, <2>1 DEF SwapTodos, Stages
<1>2. CASE todo = <<"payout", "deliver", "return">>
  <2>1. ToSet(todo) = {"payout", "deliver", "return"}
    BY <1>2 DEF ToSet
  <2> QED
    BY <1>2, <2>1 DEF SwapTodos, Stages
<1>3. CASE todo = <<"deliver", "return">>
  <2>1. ToSet(todo) = {"deliver", "return"}
    BY <1>3 DEF ToSet
  <2> QED
    BY <1>3, <2>1 DEF SwapTodos, Stages
<1>4. CASE todo = <<"return">>
  <2>1. ToSet(todo) = {"return"}
    BY <1>4 DEF ToSet
  <2> QED
    BY <1>4, <2>1 DEF SwapTodos, Stages
<1> QED
  BY <1>1, <1>2, <1>3, <1>4 DEF SwapTodos

(* The stages of a purchase, of which the last is the payout. *)
LEMMA SaleStages ==
  ASSUME NEW todo \in SaleTodos
  PROVE  /\ todo # <<>> /\ Head(todo) \in Stages
         /\ Len(todo) = 1 <=> Head(todo) = "payout"
         /\ Head(todo) # "payout" => Tail(todo) \in SaleTodos
         /\ Head(todo) = "pay" => Head(Tail(todo)) = "deliver"
         /\ Head(todo) = "deliver" => Head(Tail(todo)) = "payout"
         /\ "pay" \in ToSet(todo) <=> Head(todo) = "pay"
         /\ "payout" \in ToSet(todo)
         /\ "deliver" \in ToSet(todo) <=> Head(todo) # "payout"
         /\ Head(todo) # "return"
<1>1. CASE todo = <<"pay", "deliver", "payout">>
  <2>1. ToSet(todo) = {"pay", "deliver", "payout"}
    BY <1>1 DEF ToSet
  <2> QED
    BY <1>1, <2>1 DEF SaleTodos, Stages
<1>2. CASE todo = <<"deliver", "payout">>
  <2>1. ToSet(todo) = {"deliver", "payout"}
    BY <1>2 DEF ToSet
  <2> QED
    BY <1>2, <2>1 DEF SaleTodos, Stages
<1>3. CASE todo = <<"payout">>
  <2>1. ToSet(todo) = {"payout"}
    BY <1>3 DEF ToSet
  <2> QED
    BY <1>3, <2>1 DEF SaleTodos, Stages
<1> QED
  BY <1>1, <1>2, <1>3 DEF SaleTodos

(* Weights are numbers. *)
LEMMA HeldType ==
  ASSUME NEW t
  PROVE  HeldWeight(t) \in [Frame -> Nat]
BY DEF HeldWeight, Frame

(* The units a frame has yet to log are a number. *)
LEMMA UnloggedType ==
  ASSUME NEW op, NEW id
  PROVE  UnloggedWeight(op, id) \in [Frame -> Nat]
BY DEF UnloggedWeight, Frame

(* So are those it has yet to deliver. *)
LEMMA FlightType ==
  ASSUME NEW op, NEW id
  PROVE  FlightWeight(op, id) \in [Frame -> Nat]
BY DEF FlightWeight, Frame

(* The sums of the properties are weights. *)
LEMMA SumsWeigh ==
  ASSUME calls \in Seq(Frame)
  PROVE  /\ HoldingsOK <=> NothingKept
         /\ \A op, id : UnloggedUnits(op, id) = Weighed(UnloggedWeight(op, id), calls)
         /\ \A op, id : InFlight(op, id) = Weighed(FlightWeight(op, id), calls)
<1>1. \A k \in DOMAIN calls : calls[k] \in Frame
  OBVIOUS
<1>2. ASSUME NEW t \in Tokens
      PROVE  Weighed(HeldWeight(t), calls)
               = Total([k \in DOMAIN calls |->
                   IF /\ calls[k].pt = t
                      /\ "pay" \notin ToSet(calls[k].todo)
                      /\ "payout" \in ToSet(calls[k].todo)
                   THEN calls[k].got ELSE 0])
  BY <1>1 DEF Weighed, HeldWeight
<1>3. HoldingsOK <=> NothingKept
  BY <1>2 DEF HoldingsOK, NothingKept, SumOver
<1>4. ASSUME NEW op, NEW id
      PROVE  UnloggedUnits(op, id) = Weighed(UnloggedWeight(op, id), calls)
  <2> DEFINE f == [k \in DOMAIN calls |->
                     IF k \in Unlogged(op, id) THEN calls[k].n ELSE 0]
             w == [k \in DOMAIN calls |-> UnloggedWeight(op, id)[calls[k]]]
  <2>1. f = w
    BY <1>1 DEF UnloggedWeight, Unlogged
  <2> HIDE DEF f, w
  <2>2. UnloggedUnits(op, id) = Total(f)
    BY DEF UnloggedUnits, SumOver, f
  <2>3. Weighed(UnloggedWeight(op, id), calls) = Total(w)
    BY DEF Weighed, w
  <2> QED
    BY <2>1, <2>2, <2>3
<1>5. ASSUME NEW op, NEW id
      PROVE  InFlight(op, id) = Weighed(FlightWeight(op, id), calls)
  <2> DEFINE f == [k \in DOMAIN calls |->
                     IF k \in Unlogged(op, id) /\ "deliver" \in ToSet(calls[k].todo)
                     THEN calls[k].n ELSE 0]
             w == [k \in DOMAIN calls |-> FlightWeight(op, id)[calls[k]]]
  <2>1. f = w
    BY <1>1 DEF FlightWeight, Unlogged
  <2> HIDE DEF f, w
  <2>2. InFlight(op, id) = Total(f)
    BY DEF InFlight, SumOver, f
  <2>3. Weighed(FlightWeight(op, id), calls) = Total(w)
    BY DEF Weighed, w
  <2> QED
    BY <2>1, <2>2, <2>3
<1> QED
  BY <1>3, <1>4, <1>5

(* The purchase after a call is the same one at its next stage. *)
LEMMA AfterFields ==
  ASSUME NEW f \in Frame
  PROVE  /\ After(f).op = f.op /\ After(f).id = f.id /\ After(f).by = f.by
         /\ After(f).n = f.n /\ After(f).pt = f.pt /\ After(f).got = f.got
         /\ After(f).todo = Tail(f.todo)
BY DEF After, Frame

(* A step that makes no call leaves the frames alone. *)
LEMMA FramesStay ==
  ASSUME calls \in Seq(Frame), FramesOK, calls' = calls,
         \A f \in Frame : FitsNow(f) => FitsNext(f)
  PROVE  FramesOK'
<1>1. \A k \in DOMAIN calls : calls[k] \in Frame
  OBVIOUS
<1>2. \A k \in DOMAIN calls' : FitsNext(calls'[k])
  BY <1>1 DEF FramesOK
<1> QED
  BY <1>2 DEF FramesOK, FitsNow, FitsNext

(* A purchase that starts is put on the stack with its own frame. *)
LEMMA FramesEnter ==
  ASSUME calls \in Seq(Frame), FramesOK,
         \A f \in Frame : FitsNow(f) => FitsNext(f),
         NEW g \in Frame, calls' = Append(calls, g), FitsNext(g)
  PROVE  FramesOK'
<1>1. ASSUME NEW k \in DOMAIN calls'
      PROVE  FitsNext(calls'[k])
  <2>1. CASE k \in DOMAIN calls
    <3>1. calls'[k] = calls[k] /\ calls[k] \in Frame
      BY <2>1
    <3> QED
      BY <2>1, <3>1 DEF FramesOK
  <2>2. CASE k \notin DOMAIN calls
    <3>1. calls'[k] = g
      BY <1>1, <2>2
    <3> QED
      BY <3>1
  <2> QED
    BY <2>1, <2>2
<1> QED
  BY <1>1 DEF FramesOK, FitsNow, FitsNext

(* A frame that fits has calls to make. *)
LEMMA FitsHasTodo ==
  ASSUME SwapTypeOK, NEW f \in Frame, FitsNow(f)
  PROVE  /\ f.todo # <<>> /\ f.n \in Nat \ {0}
         /\ f.op = "swap" => f.todo \in SwapTodos /\ f.id \in SwapIds
         /\ f.op = "spot" => f.todo \in SaleTodos
         /\ f.op = "token" => f.todo \in SaleTodos
<1>1. f.op \in {"swap", "spot", "token"} /\ f.n \in Nat /\ f.id \in Nat
  BY DEF Frame
<1>2. CASE f.op = "swap"
  <2>1. f.todo \in SwapTodos /\ f.id < nextSwapId
    BY <1>2 DEF FitsNow, FrameFits
  <2>2. f.id \in SwapIds
    BY <1>1, <2>1, SwapAssumption DEF SwapTypeOK, SwapIds
  <2> QED
    BY <1>1, <1>2, <2>1, <2>2, SwapStages DEF FitsNow, FrameFits
<1>3. CASE f.op # "swap"
  <2>1. f.todo \in SaleTodos
    BY <1>1, <1>3 DEF FitsNow, FrameFits
  <2> QED
    BY <1>1, <1>3, <2>1, SaleStages DEF FitsNow, FrameFits
<1> QED
  BY <1>2, <1>3

(* A purchase whose call came back fits at its next stage. *)
LEMMA FitsAfter ==
  ASSUME NEW f \in Frame, FitsNow(f), Len(f.todo) # 1
  PROVE  FitsNow(After(f))
<1>1. /\ After(f).op = f.op /\ After(f).id = f.id /\ After(f).by = f.by
      /\ After(f).n = f.n /\ After(f).todo = Tail(f.todo)
  BY AfterFields
<1>2. f.op \in {"swap", "spot", "token"}
  BY DEF Frame
<1>3. CASE f.op = "swap"
  <2>1. f.todo \in SwapTodos
    BY <1>3 DEF FitsNow, FrameFits
  <2>2. Tail(f.todo) \in SwapTodos
    BY <2>1, SwapStages
  <2> QED
    BY <1>1, <1>3, <2>2 DEF FitsNow, FrameFits
<1>4. CASE f.op # "swap"
  <2>1. f.todo \in SaleTodos
    BY <1>2, <1>4 DEF FitsNow, FrameFits
  <2>2. Tail(f.todo) \in SaleTodos
    BY <2>1, SaleStages
  <2> QED
    BY <1>1, <1>2, <1>4, <2>2 DEF FitsNow, FrameFits
<1> QED
  BY <1>3, <1>4

(* When a call comes back the frames around it are as they were. *)
LEMMA FramesReturn ==
  ASSUME calls \in Seq(Frame), Len(calls) <= MaxDepth, SwapTypeOK, FramesOK, ~Idle,
         \A f \in Frame : FitsNow(f) => FitsNext(f),
         NEW g \in Frame, FitsNow(g), Returned(g)
  PROVE  FramesOK'
<1>1. g.todo # <<>>
  BY FitsHasTodo
<1>2. /\ Len(g.todo) = 1 => calls' = Outer
      /\ Len(g.todo) # 1 => calls' = Append(Outer, After(g))
      /\ After(g) \in Frame
  BY <1>1, AfterReturn
<1>3. /\ Outer \in Seq(Frame)
      /\ \A k \in DOMAIN Outer : k \in DOMAIN calls /\ Outer[k] = calls[k]
  BY StackSplit
<1>4. ASSUME NEW k \in DOMAIN Outer
      PROVE  FitsNext(Outer[k])
  <2>1. Outer[k] \in Frame
    BY <1>3
  <2> QED
    BY <1>3, <2>1 DEF FramesOK
<1>5. CASE Len(g.todo) = 1
  <2>1. calls' = Outer
    BY <1>2, <1>5
  <2>2. \A k \in DOMAIN calls' : FitsNext(calls'[k])
    BY <1>4, <2>1
  <2> QED
    BY <2>2 DEF FramesOK, FitsNow, FitsNext
<1>6. CASE Len(g.todo) # 1
  <2> DEFINE h == After(g)
  <2>1. h \in Frame /\ FitsNext(h) /\ calls' = Append(Outer, h)
    BY <1>2, <1>6, FitsAfter
  <2> HIDE DEF h
  <2>2. ASSUME NEW k \in DOMAIN calls'
        PROVE  FitsNext(calls'[k])
    <3>1. CASE k \in DOMAIN Outer
      <4>1. calls'[k] = Outer[k]
        BY <1>3, <2>1, <3>1
      <4> QED
        BY <1>4, <3>1, <4>1
    <3>2. CASE k \notin DOMAIN Outer
      <4>1. calls'[k] = h
        BY <1>3, <2>1, <2>2, <3>2
      <4> QED
        BY <2>1, <4>1
    <3> QED
      BY <3>1, <3>2
  <2> QED
    BY <2>2 DEF FramesOK, FitsNow, FitsNext
<1> QED
  BY <1>5, <1>6

(* A step without calls or payments leaves the market's holdings alone. *)
LEMMA HoldsStay ==
  ASSUME BalancesRead, HoldingsOK, calls' = calls, pool' = pool
  PROVE  BalancesRead' /\ HoldingsOK'
<1>1. \A t \in Tokens : pool'[t] = Weighed(HeldWeight(t), calls')
  BY DEF HoldingsOK
<1>2. BalancesRead'
  BY DEF BalancesRead
<1> QED
  BY <1>1, <1>2 DEF HoldingsOK

(* A purchase that starts holds nothing and has read the balance. *)
LEMMA HoldsEnter ==
  ASSUME calls \in Seq(Frame), BalancesRead, HoldingsOK, pool' = pool,
         NEW g \in Frame, calls' = Append(calls, g), g.got = 0,
         g.before = pool[g.pt]
  PROVE  BalancesRead' /\ HoldingsOK'
<1>1. ASSUME NEW t \in Tokens
      PROVE  pool'[t] = Weighed(HeldWeight(t), calls')
  <2>1. HeldWeight(t)[g] = 0
    BY DEF HeldWeight
  <2>2. Weighed(HeldWeight(t), calls') = Weighed(HeldWeight(t), calls) + HeldWeight(t)[g]
    BY HeldType, WeighedPush
  <2>3. Weighed(HeldWeight(t), calls) \in Nat
    BY HeldType, WeighedType
  <2> QED
    BY <2>1, <2>2, <2>3 DEF HoldingsOK
<1>2. ASSUME NEW k \in DOMAIN calls', Head(calls'[k].todo) = "pay"
      PROVE  calls'[k].before
               = Weighed(HeldWeight(calls'[k].pt), SubSeq(calls', 1, k - 1))
  <2> DEFINE n == Len(calls)
             new == Append(calls, g)
  <2>1. n \in Nat /\ DOMAIN calls = 1 .. n /\ k \in 1 .. n + 1 /\ new \in Seq(Frame)
    BY <1>2
  <2>2. Len(new) = n + 1 /\ new[n + 1] = g /\ \A j \in 1 .. n : new[j] = calls[j]
    OBVIOUS
  <2> HIDE DEF n, new
  <2>3. SubSeq(new, 1, k - 1) = SubSeq(calls, 1, k - 1)
    <3> DEFINE m == k - 1
    <3>1. m \in Nat /\ m <= Len(calls) /\ m <= Len(new)
      BY <2>1, <2>2 DEF n
    <3>2. \A j \in 1 .. m : new[j] = calls[j]
      BY <2>1, <2>2
    <3> HIDE DEF m
    <3>3. SubSeq(new, 1, m) = SubSeq(calls, 1, m)
      BY <2>1, <3>1, <3>2, SamePrefix
    <3> QED
      BY <3>3 DEF m
  <2>4. calls' = new
    BY DEF new
  <2>5. CASE k = n + 1
    <3>1. SubSeq(calls, 1, n) = calls
      BY SubSeqFull DEF n
    <3>2. k - 1 = n /\ calls'[k] = g
      BY <2>1, <2>2, <2>4, <2>5
    <3>3. g.pt \in Tokens
      BY DEF Frame
    <3>4. g.before = Weighed(HeldWeight(g.pt), calls)
      BY <3>3 DEF HoldingsOK
    <3> QED
      BY <2>3, <2>4, <3>1, <3>2, <3>4
  <2>6. CASE k # n + 1
    <3>1. k \in 1 .. n
      BY <2>1, <2>6
    <3>2. calls'[k] = calls[k] /\ k \in DOMAIN calls
      BY <2>1, <2>2, <2>4, <3>1
    <3> QED
      BY <1>2, <2>3, <2>4, <3>2 DEF BalancesRead
  <2> QED
    BY <2>5, <2>6
<1>3. BalancesRead'
  BY <1>2 DEF BalancesRead
<1> QED
  BY <1>1, <1>3 DEF HoldingsOK

(* A frame that goes on no longer waits for its payment. *)
LEMMA PaidAfter ==
  ASSUME NEW f \in Frame, FitsNow(f), Len(f.todo) # 1
  PROVE  Head(After(f).todo) # "pay"
<1>1. After(f).todo = Tail(f.todo)
  BY AfterFields
<1>2. f.op \in {"swap", "spot", "token"}
  BY DEF Frame
<1>3. CASE f.op = "swap"
  <2>1. f.todo \in SwapTodos
    BY <1>3 DEF FitsNow, FrameFits
  <2>2. Head(f.todo) \in {"pay", "payout", "deliver"}
    BY <2>1, SwapStages DEF Stages
  <2> QED
    BY <1>1, <2>1, <2>2, SwapStages
<1>4. CASE f.op # "swap"
  <2>1. f.todo \in SaleTodos
    BY <1>2, <1>4 DEF FitsNow, FrameFits
  <2>2. Head(f.todo) \in {"pay", "deliver"}
    BY <2>1, SaleStages DEF Stages
  <2> QED
    BY <1>1, <2>1, <2>2, SaleStages
<1> QED
  BY <1>3, <1>4

(* A call that comes back changes what the innermost purchase holds. *)
LEMMA HoldsReturn ==
  ASSUME calls \in Seq(Frame), Len(calls) <= MaxDepth, ~Idle, SwapTypeOK,
         BalancesRead, HoldingsOK,
         NEW g \in Frame, FitsNow(g), Returned(g),
         \A t \in Tokens :
           pool'[t] = pool[t] - HeldWeight(t)[Top]
                        + (IF Len(g.todo) = 1 THEN 0 ELSE HeldWeight(t)[After(g)])
  PROVE  BalancesRead' /\ HoldingsOK'
<1>1. g.todo # <<>>
  BY FitsHasTodo
<1>2. ASSUME NEW t \in Tokens
      PROVE  pool'[t] = Weighed(HeldWeight(t), calls')
  <2> DEFINE V == HeldWeight(t)
             later == IF Len(g.todo) = 1 THEN 0 ELSE V[After(g)]
  <2>1. V \in [Frame -> Nat]
    BY HeldType
  <2>2. pool[t] = Weighed(V, calls) /\ pool'[t] = pool[t] - V[Top] + later
    BY DEF HoldingsOK
  <2>3. Top \in Frame /\ After(g) \in Frame
    BY <1>1, StackSplit, AfterReturn
  <2> HIDE DEF V
  <2>4. /\ Weighed(V, Outer) \in Nat
        /\ Weighed(V, calls) = Weighed(V, Outer) + V[Top]
        /\ Weighed(V, calls') = Weighed(V, Outer) + later
    BY <1>1, <2>1, WeighedAfter
  <2>5. V[Top] \in Nat /\ later \in Nat
    BY <2>1, <2>3
  <2> HIDE DEF later
  <2>6. pool'[t] = Weighed(V, calls')
    BY <2>2, <2>4, <2>5
  <2> QED
    BY <2>6 DEF V
<1>3. ASSUME NEW k \in DOMAIN calls', Head(calls'[k].todo) = "pay"
      PROVE  calls'[k].before
               = Weighed(HeldWeight(calls'[k].pt), SubSeq(calls', 1, k - 1))
  <2> DEFINE h == After(g)
  <2>1. /\ Outer \in Seq(Frame)
        /\ Len(calls) \in Nat \ {0} /\ Len(Outer) = Len(calls) - 1
        /\ \A j \in DOMAIN Outer : j \in DOMAIN calls /\ Outer[j] = calls[j]
    BY StackSplit
  <2>2. /\ calls' \in Seq(Frame)
        /\ Len(g.todo) = 1 => calls' = Outer
        /\ Len(g.todo) # 1 => calls' = Append(Outer, h)
        /\ h \in Frame
    BY <1>1, AfterReturn
  <2>3. Len(g.todo) # 1 => Head(h.todo) # "pay"
    BY PaidAfter
  <2> HIDE DEF h
  <2>4. k \in DOMAIN Outer /\ \A j \in DOMAIN Outer : calls'[j] = Outer[j]
    <3>1. CASE Len(g.todo) = 1
      BY <1>3, <2>2, <3>1
    <3>2. CASE Len(g.todo) # 1
      <4> DEFINE new == Append(Outer, h)
                 n == Len(Outer)
      <4>1. /\ DOMAIN new = 1 .. n + 1 /\ new[n + 1] = h /\ DOMAIN Outer = 1 .. n
            /\ n \in Nat /\ \A j \in 1 .. n : new[j] = Outer[j]
        BY <2>1, <2>2
      <4>2. calls' = new
        BY <2>2, <3>2
      <4> HIDE DEF new, n
      <4>3. k # n + 1
        BY <1>3, <2>3, <3>2, <4>1, <4>2
      <4>4. k \in 1 .. n
        BY <1>3, <4>1, <4>2, <4>3
      <4> QED
        BY <4>1, <4>2, <4>4
    <3> QED
      BY <3>1, <3>2
  <2>5. SubSeq(calls', 1, k - 1) = SubSeq(calls, 1, k - 1)
    <3> DEFINE m == k - 1
    <3>1. DOMAIN Outer = 1 .. Len(Outer) /\ Len(Outer) \in Nat
      BY <2>1
    <3>2. Len(calls') \in Nat /\ Len(calls') >= Len(Outer)
      <4>1. CASE Len(g.todo) = 1
        BY <2>2, <3>1, <4>1
      <4>2. CASE Len(g.todo) # 1
        <5>1. Len(Append(Outer, h)) = Len(Outer) + 1
          BY <2>1, <2>2
        <5> QED
          BY <2>2, <3>1, <4>2, <5>1
      <4> QED
        BY <4>1, <4>2
    <3>3. m \in Nat /\ m <= Len(calls) /\ m <= Len(calls')
      BY <2>1, <2>4, <3>1, <3>2
    <3>4. \A j \in 1 .. m : calls'[j] = calls[j]
      BY <2>1, <2>4, <3>1
    <3> HIDE DEF m
    <3>5. SubSeq(calls', 1, m) = SubSeq(calls, 1, m)
      BY <2>2, <3>3, <3>4, SamePrefix
    <3> QED
      BY <3>5 DEF m
  <2>6. k \in DOMAIN calls /\ calls'[k] = calls[k]
    BY <2>1, <2>4
  <2> QED
    BY <1>3, <2>5, <2>6 DEF BalancesRead
<1>4. BalancesRead'
  BY <1>3 DEF BalancesRead
<1> QED
  BY <1>2, <1>4 DEF HoldingsOK

-----------------------------------------------------------------------------
(* Types, frames and holdings, which every step preserves together.        *)

(* The parts of the type invariant: the stack, the goods, and each kind of *)
(* sale with the answers to its queries.                                   *)
CallsTyped == calls \in Seq(Frame) /\ Len(calls) <= MaxDepth

GoodsTyped ==
  /\ approved \subseteq Items \X Accounts
  /\ pool \in [Tokens -> Nat]
  /\ nft \in [Items -> [Holders -> Nat]]
  /\ outside \in [Items \X Accounts -> Int]

SwapsTyped ==
  SwapTypeOK /\ \A id \in 0 .. nextSwapId - 1 : GetSwap(id) \in SwapResponse

SpotsTyped ==
  /\ SpotTypeOK
  /\ \A id \in 0 .. nextSpotId - 1 :
       GetMintSpotListing(id) \in MintSpotListingResponse

TokensTyped ==
  /\ TokenSaleTypeOK
  /\ \A id \in 0 .. nextTokenListingId - 1 : GetTokenListing(id) \in TokenListingResponse

(* What holds of the purchases in progress. *)
StackOK == FramesOK /\ BalancesRead /\ HoldingsOK

CoreOK ==
  /\ CallsTyped /\ GoodsTyped
  /\ SwapsTyped /\ SpotsTyped /\ TokensTyped
  /\ StackOK

(* Steps that leave a kind of sale alone leave it typed. *)
LEMMA QuietSwaps == SwapsTyped /\ UNCHANGED swapVars => SwapsTyped'
BY DEF SwapsTyped, swapVars, SwapTypeOK, GetSwap, Swap

(* The same for mint spots. *)
LEMMA QuietSpots == SpotsTyped /\ UNCHANGED spotVars => SpotsTyped'
BY DEF SpotsTyped, spotVars, SpotTypeOK, GetMintSpotListing, SpotListing

(* The same for token listings. *)
LEMMA QuietTokens == TokensTyped /\ UNCHANGED tokenVars => TokensTyped'
BY DEF TokensTyped, tokenVars, TokenSaleTypeOK, GetTokenListing, TokenListing

(* Swaps and listings are added, proposers stay, and no accepted swap is   *)
(* accepted again.                                                         *)
Growing ==
  /\ nextSwapId' \in {nextSwapId, nextSwapId + 1}
  /\ nextSpotId' \in {nextSpotId, nextSpotId + 1}
  /\ nextTokenListingId' \in {nextTokenListingId, nextTokenListingId + 1}
  /\ \A id \in SwapIds : id < nextSwapId => swaps'[id].p = swaps[id].p
  /\ \A id \in SwapIds : acceptors[id] # <<>> => acceptors'[id] = acceptors[id]

(* A purchase in progress still fits when swaps and listings are added. *)
LEMMA FitsGrow ==
  ASSUME SwapTypeOK, SpotTypeOK, TokenSaleTypeOK, Growing
  PROVE  \A f \in Frame : FitsNow(f) => FitsNext(f)
<1> SUFFICES ASSUME NEW f \in Frame, FitsNow(f)
             PROVE  FitsNext(f)
  OBVIOUS
<1>1. f.id \in Nat /\ f.op \in {"swap", "spot", "token"}
  BY DEF Frame
<1>2. nextSwapId \in Nat /\ nextSpotId \in Nat /\ nextTokenListingId \in Nat
  BY DEF SwapTypeOK, SpotTypeOK, TokenSaleTypeOK
<1>3. /\ f.id < nextSwapId => f.id < nextSwapId'
      /\ f.id < nextSpotId => f.id < nextSpotId'
      /\ f.id < nextTokenListingId => f.id < nextTokenListingId'
  BY <1>1, <1>2 DEF Growing
<1>4. CASE f.op = "swap"
  <2>1. /\ f.todo \in SwapTodos /\ f.id < nextSwapId /\ f.id \in SwapIds
        /\ f.n > 0 /\ f.n = 1
    BY <1>4, FitsHasTodo DEF FitsNow, FrameFits
  <2>2. acceptors[f.id] = <<f.by>> /\ f.by # swaps[f.id].p
    BY <1>4 DEF FitsNow, FrameFits
  <2>3. acceptors[f.id] # <<>>
    BY <2>2
  <2>4. acceptors'[f.id] = <<f.by>> /\ swaps'[f.id].p = swaps[f.id].p
    BY <2>1, <2>2, <2>3 DEF Growing
  <2> QED
    BY <1>3, <1>4, <2>1, <2>2, <2>4 DEF FitsNext, FrameFits
<1>5. CASE f.op # "swap"
  BY <1>1, <1>3, <1>5 DEF FitsNow, FitsNext, FrameFits
<1> QED
  BY <1>4, <1>5

(* A call that is made next is a frame still. *)
LEMMA AfterType ==
  ASSUME NEW f \in Frame, f.todo # <<>>
  PROVE  After(f) \in Frame
<1>1. f.todo \in Seq(Stages)
  BY DEF Frame
<1>2. Tail(f.todo) \in Seq(Stages)
  BY <1>1
<1> QED
  BY <1>2 DEF After, Frame

(* What a frame holds before and after each of its calls. *)
LEMMA HeldAtStage ==
  ASSUME SwapTypeOK, NEW f \in Frame, FitsNow(f), NEW t
  PROVE  /\ Head(f.todo) = "pay" =>
              /\ HeldWeight(t)[f] = 0 /\ Len(f.todo) # 1
              /\ HeldWeight(t)[After(f)] = IF f.pt = t THEN f.got ELSE 0
         /\ Head(f.todo) = "payout" =>
              /\ HeldWeight(t)[f] = IF f.pt = t THEN f.got ELSE 0
              /\ Len(f.todo) # 1 => HeldWeight(t)[After(f)] = 0
         /\ Head(f.todo) \in {"deliver", "return"} =>
              HeldWeight(t)[f] = IF Len(f.todo) = 1 THEN 0 ELSE HeldWeight(t)[After(f)]
<1> DEFINE g == After(f)
<1>1. f.todo # <<>> /\ g \in Frame
  BY FitsHasTodo, AfterType
<1>2. g.pt = f.pt /\ g.got = f.got /\ g.todo = Tail(f.todo)
  BY AfterFields
<1> HIDE DEF g
<1>3. \A h \in Frame :
        HeldWeight(t)[h] = IF /\ h.pt = t /\ "pay" \notin ToSet(h.todo)
                              /\ "payout" \in ToSet(h.todo)
                           THEN h.got ELSE 0
  BY DEF HeldWeight
<1>4. f.op \in {"swap", "spot", "token"}
  BY DEF Frame
<1>5. CASE f.op = "swap"
  <2>1. f.todo \in SwapTodos
    BY <1>5 DEF FitsNow, FrameFits
  <2>2. Head(f.todo) # "return" => g.todo \in SwapTodos
    BY <1>2, <2>1, SwapStages
  <2>3. CASE Head(f.todo) = "pay"
    BY <1>1, <1>2, <1>3, <2>1, <2>2, <2>3, SwapStages DEF g
  <2>4. CASE Head(f.todo) = "payout"
    BY <1>1, <1>2, <1>3, <2>1, <2>2, <2>4, SwapStages DEF g
  <2>5. CASE Head(f.todo) = "deliver"
    BY <1>1, <1>2, <1>3, <2>1, <2>2, <2>5, SwapStages DEF g
  <2>6. CASE Head(f.todo) = "return"
    BY <1>1, <1>2, <1>3, <2>1, <2>2, <2>6, SwapStages DEF g
  <2> QED
    BY <2>1, <2>3, <2>4, <2>5, <2>6, SwapStages DEF Stages
<1>6. CASE f.op # "swap"
  <2>1. f.todo \in SaleTodos
    BY <1>4, <1>6 DEF FitsNow, FrameFits
  <2>2. Head(f.todo) # "payout" => g.todo \in SaleTodos
    BY <1>2, <2>1, SaleStages
  <2>3. CASE Head(f.todo) = "pay"
    BY <1>1, <1>2, <1>3, <2>1, <2>2, <2>3, SaleStages DEF g
  <2>4. CASE Head(f.todo) = "payout"
    BY <1>1, <1>2, <1>3, <2>1, <2>2, <2>4, SaleStages DEF g
  <2>5. CASE Head(f.todo) = "deliver"
    BY <1>1, <1>2, <1>3, <2>1, <2>2, <2>5, SaleStages DEF g
  <2> QED
    BY <2>1, <2>3, <2>4, <2>5, SaleStages DEF Stages
<1> QED
  BY <1>5, <1>6

(* A step that makes no payment and starts no purchase keeps the stack in  *)
(* order.                                                                  *)
LEMMA StackStays ==
  ASSUME CoreOK, calls' = calls, pool' = pool, Growing
  PROVE  CallsTyped' /\ StackOK'
<1>1. calls \in Seq(Frame) /\ SwapTypeOK /\ SpotTypeOK /\ TokenSaleTypeOK
  BY DEF CoreOK, CallsTyped, SwapsTyped, SpotsTyped, TokensTyped
<1>2. FramesOK /\ BalancesRead /\ HoldingsOK
  BY DEF CoreOK, StackOK
<1>3. \A f \in Frame : FitsNow(f) => FitsNext(f)
  BY <1>1, FitsGrow
<1>4. FramesOK'
  BY <1>1, <1>2, <1>3, FramesStay
<1>5. BalancesRead' /\ HoldingsOK'
  BY <1>2, HoldsStay
<1>6. CallsTyped'
  BY DEF CoreOK, CallsTyped
<1> QED
  BY <1>4, <1>5, <1>6 DEF StackOK

(* So does the start of a purchase: the balance it reads is what the       *)
(* purchases around it hold.                                               *)
LEMMA StackEnters ==
  ASSUME CoreOK, Growing, pool' = pool,
         NEW g \in Frame, Enter(g), FitsNext(g), g.got = 0, g.before = pool[g.pt]
  PROVE  CallsTyped' /\ StackOK'
<1>1. calls \in Seq(Frame) /\ SwapTypeOK /\ SpotTypeOK /\ TokenSaleTypeOK
  BY DEF CoreOK, CallsTyped, SwapsTyped, SpotsTyped, TokensTyped
<1>2. FramesOK /\ BalancesRead /\ HoldingsOK
  BY DEF CoreOK, StackOK
<1>3. \A f \in Frame : FitsNow(f) => FitsNext(f)
  BY <1>1, FitsGrow
<1>4. calls' = Append(calls, g) /\ Len(calls) < MaxDepth
  BY DEF Enter
<1>5. FramesOK'
  BY <1>1, <1>2, <1>3, <1>4, FramesEnter
<1>6. BalancesRead' /\ HoldingsOK'
  BY <1>1, <1>2, <1>4, HoldsEnter
<1>7. CallsTyped'
  <2>1. Append(calls, g) \in Seq(Frame) /\ Len(Append(calls, g)) = Len(calls) + 1
    BY <1>1
  <2>2. Len(calls) \in Nat
    BY <1>1
  <2> QED
    BY <1>4, <2>1, <2>2, CallAssumption DEF CallsTyped
<1> QED
  BY <1>5, <1>6, <1>7 DEF StackOK

(* The innermost purchase fits. *)
LEMMA TopFits ==
  ASSUME CoreOK, ~Idle
  PROVE  Top \in Frame /\ FitsNow(Top) /\ Top.todo # <<>> /\ Top.pt \in Tokens
<1>1. calls \in Seq(Frame) /\ SwapTypeOK /\ FramesOK
  BY DEF CoreOK, CallsTyped, SwapsTyped, StackOK
<1>2. Top \in Frame /\ Len(calls) \in DOMAIN calls
  BY <1>1, StackSplit
<1>3. FitsNow(Top)
  BY <1>1, <1>2 DEF FramesOK, Top
<1>4. Top.todo # <<>>
  BY <1>1, <1>2, <1>3, FitsHasTodo
<1>5. Top.pt \in Tokens
  BY <1>2 DEF Frame
<1> QED
  BY <1>2, <1>3, <1>4, <1>5

(* A frame goes on while the balance changes by what it holds.             *)
LEMMA StackGoesOn ==
  ASSUME CoreOK, Growing, ~Idle, NEW g \in Frame, FitsNow(g), Returned(g),
         \A t \in Tokens :
           pool'[t] = pool[t] - HeldWeight(t)[Top]
                        + (IF Len(g.todo) = 1 THEN 0 ELSE HeldWeight(t)[After(g)])
  PROVE  CallsTyped' /\ StackOK'
<1>1. /\ calls \in Seq(Frame) /\ Len(calls) <= MaxDepth
      /\ SwapTypeOK /\ SpotTypeOK /\ TokenSaleTypeOK
  BY DEF CoreOK, CallsTyped, SwapsTyped, SpotsTyped, TokensTyped
<1>2. FramesOK /\ BalancesRead /\ HoldingsOK
  BY DEF CoreOK, StackOK
<1>3. \A f \in Frame : FitsNow(f) => FitsNext(f)
  BY <1>1, FitsGrow
<1>4. FramesOK'
  BY <1>1, <1>2, <1>3, FramesReturn
<1>5. BalancesRead' /\ HoldingsOK'
  BY <1>1, <1>2, HoldsReturn
<1>6. g.todo # <<>>
  BY <1>1, FitsHasTodo
<1>7. CallsTyped'
  BY <1>1, <1>6, AfterReturn DEF CallsTyped
<1> QED
  BY <1>4, <1>5, <1>7 DEF StackOK

(* The assets' moves change nothing in what is held. *)
LEMMA StackDelivers ==
  ASSUME CoreOK, Growing, ~Idle, Head(Top.todo) \in {"deliver", "return"},
         Returned(Top), pool' = pool
  PROVE  CallsTyped' /\ StackOK'
<1> DEFINE f == Top
<1>1. f \in Frame /\ FitsNow(f)
  BY TopFits
<1>2. SwapTypeOK /\ pool \in [Tokens -> Nat]
  BY DEF CoreOK, SwapsTyped, GoodsTyped
<1>3. Head(f.todo) \in {"deliver", "return"} /\ Returned(f)
  OBVIOUS
<1>4. ASSUME NEW t \in Tokens
      PROVE  pool'[t] = pool[t] - HeldWeight(t)[Top]
                          + (IF Len(f.todo) = 1 THEN 0 ELSE HeldWeight(t)[After(f)])
  <2> DEFINE v == HeldWeight(t)[f]
             w == IF Len(f.todo) = 1 THEN 0 ELSE HeldWeight(t)[After(f)]
  <2>1. v = w
    <3> HIDE DEF f
    <3> QED
      BY <1>1, <1>2, <1>3, HeldAtStage
  <2>2. v \in Nat
    BY <1>1, HeldType
  <2>3. pool'[t] = pool[t] /\ pool[t] \in Nat
    BY <1>2
  <2> HIDE DEF v, w
  <2>4. pool'[t] = pool[t] - v + w
    BY <2>1, <2>2, <2>3
  <2> QED
    BY <2>4 DEF v, w
<1> HIDE DEF f
<1> QED
  BY <1>1, <1>3, <1>4, StackGoesOn

(* A step that makes no calls, moves no money and writes no swap or        *)
(* listing: a new block, a configuration entrypoint.                       *)
LEMMA SameGrows ==
  ASSUME SwapTypeOK, SpotTypeOK, TokenSaleTypeOK, UNCHANGED saleVars
  PROVE  Growing
BY DEF saleVars, swapVars, spotVars, tokenVars, Growing

(* A payment was measured from the balance that the purchases around it    *)
(* hold, so what is credited is what arrived.                              *)
LEMMA PaymentMeasured ==
  ASSUME MarketInv, CoreOK, NEW arrived, Pay(arrived)
  PROVE  arrived \in Nat /\ Credited(Top, arrived) = arrived
<1> DEFINE f == Top
           now == pool[f.pt]
<1>1. /\ calls \in Seq(Frame) /\ Len(calls) <= MaxDepth
      /\ SwapTypeOK
      /\ pool \in [Tokens -> Nat]
      /\ BalancesRead /\ HoldingsOK
  BY DEF CoreOK, CallsTyped, SwapsTyped, StackOK, GoodsTyped
<1>2. ~Idle /\ Head(f.todo) = "pay" /\ arrived \in Arrivals(f.pt, f.ask)
  BY DEF Pay
<1>3. f \in Frame /\ FitsNow(f) /\ f.pt \in Tokens /\ f.todo # <<>>
  BY <1>2, TopFits
<1>4. now \in Nat /\ f.ask \in Nat /\ arrived \in Nat
  <2>1. f.ask \in Nat
    BY <1>3 DEF Frame
  <2>2. arrived \in Nat
    BY <1>2, <2>1 DEF Arrivals
  <2> QED
    BY <1>1, <1>3, <2>1, <2>2
<1>5. f.before = now
  <2> DEFINE V == HeldWeight(f.pt)
  <2>1. V \in [Frame -> Nat] /\ V[f] = 0
    BY <1>1, <1>2, <1>3, HeldType, HeldAtStage
  <2>2. now = Weighed(V, calls)
    BY <1>1, <1>3 DEF HoldingsOK
  <2>3. f.before = Weighed(V, Outer)
    <3>1. Len(calls) \in DOMAIN calls
      BY <1>1, <1>2, StackSplit
    <3> QED
      BY <1>1, <1>2, <3>1 DEF BalancesRead, Top, Outer
  <2>4. calls = Append(Outer, f) /\ Outer \in Seq(Frame)
    BY <1>1, <1>2, StackSplit
  <2> HIDE DEF V
  <2>5. Weighed(V, calls) = Weighed(V, Outer) + V[f]
    BY <1>3, <2>1, <2>4, WeighedPush
  <2>6. Weighed(V, Outer) \in Nat
    BY <2>1, <2>4, WeighedType
  <2> QED
    BY <2>1, <2>2, <2>3, <2>5, <2>6
<1>6. Credited(f, arrived) = arrived
  <2>1. now + arrived - f.before = arrived
    BY <1>4, <1>5
  <2>2. Credited(f, arrived) = EscrowIn(f.pt, f.ask, arrived)
    BY <2>1 DEF Credited
  <2>3. DecodersTruthful
    BY DEF MarketInv
  <2> QED
    BY <1>2, <1>3, <2>2, <2>3, DepositCredited
<1> QED
  BY <1>4, <1>6

(* The payment arrives and is held. *)
LEMMA PayCore ==
  ASSUME MarketInv, CoreOK, NEW arrived, Pay(arrived), UNCHANGED <<saleVars, outside>>,
         UNCHANGED <<approved, nft>>
  PROVE  CoreOK'
<1> DEFINE f == Top
           g == [f EXCEPT !.got = Credited(f, arrived)]
<1>1. /\ calls \in Seq(Frame) /\ Len(calls) <= MaxDepth
      /\ SwapTypeOK /\ SpotTypeOK /\ TokenSaleTypeOK
      /\ pool \in [Tokens -> Nat]
  BY DEF CoreOK, CallsTyped, SwapsTyped, SpotsTyped, TokensTyped, GoodsTyped
<1>2. ~Idle /\ Head(f.todo) = "pay"
  BY DEF Pay
<1>3. f \in Frame /\ FitsNow(f) /\ f.pt \in Tokens /\ f.todo # <<>>
  BY <1>2, TopFits
<1>4. pool[f.pt] \in Nat /\ arrived \in Nat
  BY <1>1, <1>3, PaymentMeasured
<1>5. Credited(f, arrived) = arrived
  BY PaymentMeasured
<1>6. /\ Returned(g) /\ pool' = [pool EXCEPT ![f.pt] = @ + arrived]
  BY DEF Pay
<1>7. /\ g \in Frame /\ g.todo = f.todo /\ g.op = f.op /\ g.id = f.id /\ g.by = f.by
      /\ g.n = f.n /\ g.pt = f.pt /\ g.got = arrived
  <2> HIDE DEF f
  <2> QED
    BY <1>3, <1>4, <1>5 DEF Frame
<1> HIDE DEF g
<1>8. FitsNow(g)
  <2> HIDE DEF f
  <2> QED
    BY <1>3, <1>7 DEF FitsNow, FrameFits
<1>9. ASSUME NEW t \in Tokens
       PROVE  pool'[t] = pool[t] - HeldWeight(t)[Top]
                           + (IF Len(g.todo) = 1 THEN 0 ELSE HeldWeight(t)[After(g)])
  <2>1. HeldWeight(t)[Top] = 0
    BY <1>1, <1>2, <1>3, HeldAtStage
  <2>2. Len(g.todo) # 1 /\ HeldWeight(t)[After(g)] = IF g.pt = t THEN g.got ELSE 0
    BY <1>1, <1>2, <1>7, <1>8, HeldAtStage
  <2>3. pool'[t] = IF t = f.pt THEN pool[t] + arrived ELSE pool[t]
    BY <1>1, <1>3, <1>6
  <2>4. pool[t] \in Nat
    BY <1>1
  <2> HIDE DEF f
  <2> QED
    BY <1>4, <1>7, <2>1, <2>2, <2>3, <2>4
<1>10. Growing
  BY <1>1, SameGrows
<1>11. CallsTyped' /\ StackOK'
  BY <1>2, <1>6, <1>7, <1>8, <1>9, <1>10, StackGoesOn
<1>12. GoodsTyped'
  <2>1. pool' \in [Tokens -> Nat]
    <3>1. pool[f.pt] + arrived \in Nat
      BY <1>4
    <3> HIDE DEF f
    <3> QED
      BY <1>1, <1>3, <1>6, <3>1
  <2> QED
    BY <2>1 DEF CoreOK, GoodsTyped
<1>13. SwapsTyped' /\ SpotsTyped' /\ TokensTyped'
  BY QuietSwaps, QuietSpots, QuietTokens DEF CoreOK, saleVars
<1> QED
  BY <1>11, <1>12, <1>13 DEF CoreOK

(* Everything that was credited leaves the market. *)
LEMMA PayOutCore ==
  ASSUME MarketInv, CoreOK, PayOut, UNCHANGED <<saleVars, outside>>,
         UNCHANGED <<approved, nft>>
  PROVE  CoreOK'
<1> DEFINE f == Top
           now == pool[f.pt]
<1>1. /\ SwapTypeOK /\ SpotTypeOK /\ TokenSaleTypeOK
      /\ pool \in [Tokens -> Nat]
  BY DEF CoreOK, CallsTyped, SwapsTyped, SpotsTyped, TokensTyped, StackOK, GoodsTyped
<1>2. /\ ~Idle /\ Head(f.todo) = "payout" /\ now >= f.got
      /\ pool' = [pool EXCEPT ![f.pt] = @ - f.got] /\ Returned(f)
  BY DEF PayOut
<1>3. f \in Frame /\ FitsNow(f) /\ f.pt \in Tokens
  BY <1>2, TopFits
<1>4. now \in Nat /\ f.got \in Nat
  BY <1>1, <1>3 DEF Frame
<1>5. ASSUME NEW t \in Tokens
      PROVE  pool'[t] = pool[t] - HeldWeight(t)[Top]
                          + (IF Len(f.todo) = 1 THEN 0 ELSE HeldWeight(t)[After(f)])
  <2>1. /\ HeldWeight(t)[Top] = IF f.pt = t THEN f.got ELSE 0
        /\ Len(f.todo) # 1 => HeldWeight(t)[After(f)] = 0
    BY <1>1, <1>2, <1>3, HeldAtStage
  <2>2. pool'[t] = IF t = f.pt THEN pool[t] - f.got ELSE pool[t]
    BY <1>1, <1>2, <1>3
  <2>3. pool[t] \in Nat
    BY <1>1
  <2> HIDE DEF f
  <2> QED
    BY <1>4, <2>1, <2>2, <2>3
<1>6. Growing
  BY <1>1, SameGrows
<1>7. CallsTyped' /\ StackOK'
  BY <1>2, <1>3, <1>5, <1>6, StackGoesOn
<1>8. GoodsTyped'
  <2>1. pool' \in [Tokens -> Nat]
    <3>1. now - f.got \in Nat
      BY <1>2, <1>4
    <3> HIDE DEF f
    <3> QED
      BY <1>1, <1>2, <1>3, <3>1
  <2> QED
    BY <2>1 DEF CoreOK, GoodsTyped
<1>9. SwapsTyped' /\ SpotsTyped' /\ TokensTyped'
  BY QuietSwaps, QuietSpots, QuietTokens DEF CoreOK, saleVars
<1> QED
  BY <1>7, <1>8, <1>9 DEF CoreOK

-----------------------------------------------------------------------------
(* Swaps: types, frames and holdings.                                      *)

(* The terms of a proposed swap: both parties give something. *)
SwapAnswers(w) == w.p \in Accounts /\ w.oa > 0 /\ w.wa > 0

(* What getSwap answers of a swap. *)
AnswerOf(w) ==
  [proposer |-> w.p, offered |-> w.oi, offeredAmount |-> w.oa, wanted |-> w.wi,
   wantedAmount |-> w.wa, topUp |-> w.tu, topUpToken |-> w.tt, active |-> w.act,
   expirationBlock |-> w.exp]

(* It is within the range of the response type when the terms are in       *)
(* order.                                                                  *)
LEMMA SwapAnswered ==
  ASSUME NEW w \in SwapRecord
  PROVE  AnswerOf(w) \in SwapResponse <=> SwapAnswers(w)
<1>2. /\ w.p \in Accounts \cup {NoAccount} /\ w.oi \in Items /\ w.oa \in Nat
      /\ w.wi \in Items /\ w.wa \in Nat /\ w.tu \in Nat /\ w.tt \in Tokens
      /\ w.act \in BOOLEAN /\ w.exp \in Nat
  BY DEF SwapRecord
<1>4. w.oa \in Nat \ {0} <=> w.oa > 0
  BY <1>2
<1>5. w.wa \in Nat \ {0} <=> w.wa > 0
  BY <1>2
<1>6. AnswerOf(w) \in SwapResponse
        <=> w.p \in Accounts /\ w.oa \in Nat \ {0} /\ w.wa \in Nat \ {0}
  BY <1>2 DEF SwapResponse, AnswerOf
<1> QED
  BY <1>4, <1>5, <1>6 DEF SwapAnswers

(* One swap is written. *)
LEMMA SwapWritten ==
  ASSUME SwapsTyped, NEW id \in SwapIds, NEW w \in SwapRecord,
         swaps' = [swaps EXCEPT ![id] = w],
         nextSwapId' \in 0 .. MaxSwaps, nextSwapId' <= nextSwapId + 1,
         nextSwapId' > nextSwapId => id = nextSwapId,
         id < nextSwapId' => SwapAnswers(w),
         acceptors' \in [SwapIds -> Seq(Accounts)],
         charged' \in [SwapIds -> Terms]
  PROVE  SwapsTyped'
<1>1. SwapTypeOK
  BY DEF SwapsTyped
<1>2. SwapTypeOK'
  BY <1>1 DEF SwapTypeOK
<1>3. ASSUME NEW j \in 0 .. nextSwapId' - 1
      PROVE  AnswerOf(swaps'[j]) \in SwapResponse
  <2> DEFINE n == nextSwapId
             m == nextSwapId'
  <2>1. n \in Nat /\ m \in Nat /\ m <= MaxSwaps /\ m <= n + 1 /\ (m > n => id = n)
    BY <1>1, SwapAssumption DEF SwapTypeOK
  <2>2. j \in 0 .. m - 1
    OBVIOUS
  <2> HIDE DEF n, m
  <2>3. j \in SwapIds /\ j < m /\ j \in Nat
    BY <2>1, <2>2, SwapAssumption DEF SwapIds
  <2>4. swaps'[j] \in SwapRecord
    BY <1>2, <2>3 DEF SwapTypeOK
  <2>5. SwapAnswers(swaps'[j])
    <3>1. CASE j = id
      BY <1>1, <2>3, <3>1 DEF SwapTypeOK, m
    <3>2. CASE j # id
      <4>1. swaps'[j] = swaps[j]
        BY <1>1, <2>3, <3>2 DEF SwapTypeOK
      <4>2. j \in 0 .. n - 1
        BY <2>1, <2>3, <3>2
      <4>3. AnswerOf(swaps[j]) \in SwapResponse
        BY <4>2 DEF SwapsTyped, GetSwap, Swap, AnswerOf, n
      <4>4. swaps[j] \in SwapRecord
        BY <1>1, <2>3 DEF SwapTypeOK
      <4> QED
        BY <4>1, <4>3, <4>4, SwapAnswered
    <3> QED
      BY <3>1, <3>2
  <2> QED
    BY <2>4, <2>5, SwapAnswered
<1> QED
  BY <1>2, <1>3 DEF SwapsTyped, GetSwap, Swap, AnswerOf

(* Proposing a swap writes one under a new number. *)
LEMMA ProposeSwapCore ==
  ASSUME MarketInv, CoreOK, NEW x \in Accounts, NEW side \in Sides,
         NEW topUp \in TopUps, NEW exp \in SwapExpirations,
         ProposeSwap(x, side, topUp[1], topUp[2], exp), OfSwaps
  PROVE  CoreOK'
<1> DEFINE c == CollectionOf[side.oi]
           fb == EffectiveFeeBps(c)
           rb == RoyaltyBps(c)
           rr == cfg.royalty[c].rcpt
           rs == ResolveRoyaltySplits(c)
           tu == topUp[1]
           tt == topUp[2]
           w == [p |-> x, oi |-> side.oi, oa |-> side.oa, wi |-> side.wi,
                 wa |-> side.wa, tu |-> tu, tt |-> tt, act |-> TRUE, exp |-> exp,
                 fb |-> fb, rb |-> rb, rr |-> rr, rs |-> rs]
           n == nextSwapId
<1>1. SwapTypeOK /\ SpotTypeOK /\ TokenSaleTypeOK
  BY DEF CoreOK, SwapsTyped, SpotsTyped, TokensTyped
<1>2. /\ side.oi \in Items /\ side.oa \in Nat /\ side.wi \in Items /\ side.wa \in Nat
      /\ tu \in Nat /\ tt \in Tokens /\ exp \in Nat
  BY SwapAssumption
<1>3. c \in Collections /\ MarketTypeOK
  BY <1>2, CustodyAssumption DEF MarketInv
<1>4. fb \in Nat /\ rb \in Nat /\ rs \in Seq(Split)
  BY <1>3, ReadersType
<1>5. rr \in Accounts \cup {NoAccount}
  BY <1>3 DEF MarketTypeOK, Config, Royalty
<1>6. /\ side.oa > 0 /\ side.wa > 0
      /\ n < MaxSwaps
      /\ swaps' = [swaps EXCEPT ![n] = w]
      /\ nextSwapId' = n + 1
      /\ UNCHANGED <<marketVars, calls, approved, pool, nft, acceptors, charged>>
  BY DEF ProposeSwap
<1>7. w \in SwapRecord /\ SwapAnswers(w)
  <2> HIDE DEF c, fb, rb, rr, rs, tu, tt
  <2> QED
    BY <1>2, <1>4, <1>5, <1>6 DEF SwapRecord, SwapAnswers
<1> HIDE DEF w
<1>8. n \in Nat /\ n \in SwapIds /\ n + 1 \in 0 .. MaxSwaps
  BY <1>1, <1>6, SwapAssumption DEF SwapTypeOK, SwapIds
<1>9. SwapsTyped'
  <2>1. SwapsTyped
    BY DEF CoreOK
  <2>2. acceptors' \in [SwapIds -> Seq(Accounts)] /\ charged' \in [SwapIds -> Terms]
    BY <1>1, <1>6 DEF SwapTypeOK
  <2>3. nextSwapId' \in 0 .. MaxSwaps /\ nextSwapId' <= nextSwapId + 1
    BY <1>6, <1>8
  <2> QED
    BY <1>6, <1>7, <1>8, <2>1, <2>2, <2>3, SwapWritten
<1>10. Growing
  <2>1. \A id \in SwapIds : id < n => swaps'[id] = swaps[id]
    BY <1>1, <1>6, <1>8 DEF SwapTypeOK, SwapIds
  <2> QED
    BY <1>6, <2>1 DEF Growing, OfSwaps, spotVars, tokenVars
<1>11. CallsTyped' /\ StackOK'
  BY <1>6, <1>10, StackStays
<1>12. GoodsTyped' /\ SpotsTyped' /\ TokensTyped'
  BY <1>6, QuietSpots, QuietTokens DEF CoreOK, GoodsTyped, OfSwaps
<1> QED
  BY <1>9, <1>11, <1>12 DEF CoreOK

(* The terms of a top-up are well typed. *)
LEMMA SwapTermsType ==
  ASSUME MarketTypeOK, NEW w \in SwapRecord
  PROVE  SwapTerms(w) \in Terms
<1>1. /\ w.oi \in Items /\ w.fb \in Nat /\ w.rb \in Nat /\ w.rs \in Seq(Split)
      /\ w.rr \in Accounts \cup {NoAccount}
  BY DEF SwapRecord
<1>2. CollectionOf[w.oi] \in Collections
  BY <1>1, CustodyAssumption
<1>3. LockedSplits(w) \in Seq(Split)
  <2>1. [to |-> w.rr, bps |-> w.rb] \in Split
    BY <1>1 DEF Split
  <2> DEFINE sp == [to |-> w.rr, bps |-> w.rb]
  <2> HIDE DEF sp
  <2>2. <<sp>> \in Seq(Split)
    BY <2>1 DEF sp
  <2> QED
    BY <1>1, <2>2 DEF LockedSplits, sp
<1>4. /\ EffectiveFeeBps(CollectionOf[w.oi]) \in Nat
      /\ ResolveRoyaltySplits(CollectionOf[w.oi]) \in Seq(Split)
  BY <1>2, ReadersType
<1> QED
  BY <1>1, <1>3, <1>4 DEF SwapTerms, Terms

(* The calls of an acceptance, with and without a top-up. *)
LEMMA SwapCallsType ==
  ASSUME NEW w
  PROVE  SwapCalls(w) \in SwapTodos
<1>1. <<"pay", "payout">> \o <<"deliver", "return">>
        = <<"pay", "payout", "deliver", "return">>
  <2> DEFINE a == <<"pay", "payout">>
             b == <<"deliver", "return">>
             c == <<"pay", "payout", "deliver", "return">>
  <2>1. /\ a \in Seq(Stages) /\ Len(a) = 2 /\ a[1] = "pay" /\ a[2] = "payout"
        /\ b \in Seq(Stages) /\ Len(b) = 2 /\ b[1] = "deliver" /\ b[2] = "return"
    BY DEF Stages
  <2>2. /\ c \in Seq(Stages) /\ Len(c) = 4 /\ c[1] = "pay" /\ c[2] = "payout"
        /\ c[3] = "deliver" /\ c[4] = "return"
    BY DEF Stages
  <2> HIDE DEF a, b, c
  <2>3. /\ a \o b \in Seq(Stages) /\ Len(a \o b) = 4
        /\ \A k \in 1 .. 4 : (a \o b)[k] = IF k <= 2 THEN a[k] ELSE b[k - 2]
    <3>1. a \in Seq(Stages) /\ b \in Seq(Stages)
      BY <2>1
    <3> DEFINE m == Len(a)
               n == Len(b)
               d == a \o b
    <3>2. /\ d \in Seq(Stages) /\ Len(d) = m + n
          /\ \A k \in 1 .. m + n : d[k] = IF k <= m THEN a[k] ELSE b[k - m]
      BY <3>1, ConcatProperties, Zenon
    <3>3. m = 2 /\ n = 2
      BY <2>1
    <3> HIDE DEF m, n, d
    <3>4. m + n = 4
      BY <3>3
    <3>5. Len(d) = 4 /\ \A k \in 1 .. 4 : d[k] = IF k <= 2 THEN a[k] ELSE b[k - 2]
      BY <3>2, <3>3, <3>4
    <3> QED
      BY <3>2, <3>5 DEF d
  <2>4. \A k \in 1 .. 4 : (a \o b)[k] = c[k]
    BY <2>1, <2>2, <2>3
  <2>5. a \o b = c
    BY <2>2, <2>3, <2>4, SeqEqual
  <2> QED
    BY <2>5 DEF a, b, c
<1>2. <<>> \o <<"deliver", "return">> = <<"deliver", "return">>
  OBVIOUS
<1> QED
  BY <1>1, <1>2 DEF SwapCalls, SwapTodos

(* The stages left are sequences of stages. *)
LEMMA TodosType == SwapTodos \subseteq Seq(Stages) /\ SaleTodos \subseteq Seq(Stages)
BY DEF SwapTodos, SaleTodos, Stages

(* An acceptance takes the swap off and puts a purchase on the stack. *)
LEMMA AcceptSwapCore ==
  ASSUME MarketInv, CoreOK, NEW x \in Accounts, NEW id \in SwapIds,
         Swap(id).act => acceptors[id] = <<>> /\ id < nextSwapId,
         AcceptSwap(x, id), OfSwaps
  PROVE  CoreOK'
<1> DEFINE w == Swap(id)
           off == [w EXCEPT !.act = FALSE]
           terms == SwapTerms(w)
           g == [op |-> "swap", id |-> id, by |-> x, payer |-> w.p, n |-> 1,
                 pt |-> w.tt, ask |-> w.tu, asset |-> CollectionOf[w.oi],
                 back |-> CollectionOf[w.wi], fb |-> terms.fb, rs |-> terms.rs,
                 before |-> pool[w.tt], got |-> 0, todo |-> SwapCalls(w)]
<1>1. SwapTypeOK /\ SpotTypeOK /\ TokenSaleTypeOK /\ pool \in [Tokens -> Nat]
  BY DEF CoreOK, SwapsTyped, SpotsTyped, TokensTyped, GoodsTyped
<1>2. w \in SwapRecord
  BY <1>1 DEF SwapTypeOK, Swap
<1>3. /\ w.act /\ x # w.p
      /\ swaps' = Accepted(id)
      /\ Enter(g)
      /\ acceptors' = [acceptors EXCEPT ![id] = Append(@, x)]
      /\ charged' = [charged EXCEPT ![id] = terms]
      /\ UNCHANGED <<marketVars, approved, pool, nft, nextSwapId>>
  BY DEF AcceptSwap
<1>4. acceptors[id] = <<>> /\ id < nextSwapId /\ nextSwapId \in Nat
  BY <1>1, <1>3 DEF SwapTypeOK
<1>5. SwapAnswers(w)
  <2>1. id \in 0 .. nextSwapId - 1
    BY <1>4, SwapAssumption DEF SwapIds
  <2>2. AnswerOf(w) \in SwapResponse
    BY <2>1 DEF CoreOK, SwapsTyped, GetSwap, AnswerOf
  <2> HIDE DEF w
  <2> QED
    BY <1>2, <2>2, SwapAnswered
<1>6. MarketTypeOK
  BY DEF MarketInv
<1>7. terms \in Terms
  <2> HIDE DEF w
  <2> QED
    BY <1>2, <1>6, SwapTermsType
<1>8. swaps' = [swaps EXCEPT ![id] = off]
  BY <1>1, <1>3 DEF Accepted, Swap, SwapTypeOK
<1>9. off \in SwapRecord /\ SwapAnswers(off) /\ off.p = w.p
  <2> HIDE DEF w
  <2> QED
    BY <1>2, <1>5 DEF SwapRecord, SwapAnswers
<1>10. acceptors'[id] = <<x>> /\ acceptors' \in [SwapIds -> Seq(Accounts)]
  <2>1. Append(<<>>, x) = <<x>> /\ <<x>> \in Seq(Accounts)
    OBVIOUS
  <2> QED
    BY <1>1, <1>3, <1>4, <2>1 DEF SwapTypeOK
<1>11. SwapsTyped'
  <2>1. SwapsTyped
    BY DEF CoreOK
  <2>2. charged' \in [SwapIds -> Terms]
    <3> HIDE DEF terms
    <3> QED
      BY <1>1, <1>3, <1>7 DEF SwapTypeOK
  <2>3. nextSwapId' = nextSwapId /\ nextSwapId \in 0 .. MaxSwaps
    BY <1>1, <1>3 DEF SwapTypeOK
  <2>4. nextSwapId' <= nextSwapId + 1 /\ ~(nextSwapId' > nextSwapId)
    BY <1>4, <2>3
  <2> HIDE DEF off
  <2> QED
    BY <1>8, <1>9, <1>10, <2>1, <2>2, <2>3, <2>4, SwapWritten
<1>12. Growing
  <2>1. \A j \in SwapIds : swaps'[j].p = swaps[j].p
    <3> HIDE DEF off
    <3> QED
      BY <1>1, <1>8, <1>9 DEF SwapTypeOK, Swap
  <2>2. \A j \in SwapIds : acceptors[j] # <<>> => acceptors'[j] = acceptors[j]
    BY <1>1, <1>3, <1>4 DEF SwapTypeOK
  <2> QED
    BY <1>3, <2>1, <2>2 DEF Growing, OfSwaps, spotVars, tokenVars
<1>13. g \in Frame
  <2>1. /\ w.p \in Accounts /\ w.tu \in Nat /\ w.tt \in Tokens
        /\ w.oi \in Items /\ w.wi \in Items
    BY <1>2, <1>5 DEF SwapRecord, SwapAnswers
  <2>2. CollectionOf[w.oi] \in Contracts /\ CollectionOf[w.wi] \in Contracts
    BY <2>1, CustodyAssumption DEF Contracts
  <2>3. SwapCalls(w) \in Seq(Stages)
    BY SwapCallsType, TodosType
  <2>4. terms.fb \in Nat /\ terms.rs \in Seq(Split) /\ pool[w.tt] \in Nat
    BY <1>1, <1>7, <2>1 DEF Terms
  <2>5. id \in Nat
    BY DEF SwapIds
  <2> HIDE DEF w, terms
  <2> QED
    BY <2>1, <2>2, <2>3, <2>4, <2>5 DEF Frame
<1>14. /\ g.op = "swap" /\ g.id = id /\ g.by = x /\ g.n = 1 /\ g.pt = w.tt
       /\ g.before = pool[w.tt] /\ g.got = 0 /\ g.todo = SwapCalls(w)
  BY Zenon
<1> HIDE DEF g
<1>15. FitsNext(g)
  <2>1. swaps'[id].p = w.p
    BY <1>1, <1>8, <1>9 DEF SwapTypeOK
  <2>2. id < nextSwapId'
    BY <1>3, <1>4
  <2>3. SwapCalls(w) \in SwapTodos
    BY SwapCallsType
  <2>4. g.n > 0
    BY <1>14
  <2> HIDE DEF w
  <2> QED
    BY <1>3, <1>10, <1>14, <2>1, <2>2, <2>3, <2>4 DEF FitsNext, FrameFits
<1>16. CallsTyped' /\ StackOK'
  <2> HIDE DEF w
  <2> QED
    BY <1>3, <1>12, <1>13, <1>14, <1>15, StackEnters
<1>17. GoodsTyped' /\ SpotsTyped' /\ TokensTyped'
  <2> HIDE DEF w, terms
  <2> QED
    BY <1>3, QuietSpots, QuietTokens DEF CoreOK, GoodsTyped, OfSwaps
<1> QED
  BY <1>11, <1>16, <1>17 DEF CoreOK

(* Cancelling closes a swap. *)
LEMMA CancelSwapCore ==
  ASSUME CoreOK, NEW x \in Accounts, NEW id \in SwapIds, CancelSwap(x, id), OfSwaps
  PROVE  CoreOK'
<1> DEFINE w == Swap(id)
           off == [w EXCEPT !.act = FALSE]
<1>1. SwapTypeOK /\ SpotTypeOK /\ TokenSaleTypeOK /\ SwapsTyped
  BY DEF CoreOK, SwapsTyped, SpotsTyped, TokensTyped
<1>2. w \in SwapRecord
  BY <1>1 DEF SwapTypeOK, Swap
<1>3. /\ swaps' = [swaps EXCEPT ![id].act = FALSE]
      /\ UNCHANGED <<marketVars, calls, approved, pool, nft, nextSwapId, acceptors,
                     charged>>
  BY DEF CancelSwap
<1>4. swaps' = [swaps EXCEPT ![id] = off]
  BY <1>1, <1>3 DEF Swap, SwapTypeOK
<1>5. /\ off \in SwapRecord /\ off.p = w.p
      /\ SwapAnswers(w) => SwapAnswers(off)
  <2> HIDE DEF w
  <2> QED
    BY <1>2 DEF SwapRecord, SwapAnswers
<1>6. id < nextSwapId => SwapAnswers(w)
  <2>1. ASSUME id < nextSwapId
        PROVE  AnswerOf(w) \in SwapResponse
    <3>1. id \in 0 .. nextSwapId - 1
      BY <1>1, <2>1, SwapAssumption DEF SwapIds, SwapTypeOK
    <3> QED
      BY <1>1, <3>1 DEF SwapsTyped, GetSwap, AnswerOf
  <2> HIDE DEF w
  <2> QED
    BY <1>2, <2>1, SwapAnswered
<1>7. /\ nextSwapId' = nextSwapId /\ nextSwapId \in 0 .. MaxSwaps
      /\ acceptors' \in [SwapIds -> Seq(Accounts)] /\ charged' \in [SwapIds -> Terms]
  BY <1>1, <1>3 DEF SwapTypeOK
<1>8. nextSwapId' <= nextSwapId + 1 /\ ~(nextSwapId' > nextSwapId)
  BY <1>7, SwapAssumption
<1>9. SwapsTyped'
  <2> HIDE DEF off, w
  <2> QED
    BY <1>1, <1>4, <1>5, <1>6, <1>7, <1>8, SwapWritten
<1>10. Growing
  <2>1. \A j \in SwapIds : swaps'[j].p = swaps[j].p
    <3> HIDE DEF off
    <3> QED
      BY <1>1, <1>4, <1>5 DEF SwapTypeOK, Swap
  <2> QED
    BY <1>3, <2>1 DEF Growing, OfSwaps, spotVars, tokenVars
<1>11. CallsTyped' /\ StackOK'
  BY <1>3, <1>10, StackStays
<1>12. GoodsTyped' /\ SpotsTyped' /\ TokensTyped'
  BY <1>3, QuietSpots, QuietTokens DEF CoreOK, GoodsTyped, OfSwaps
<1> QED
  BY <1>9, <1>11, <1>12 DEF CoreOK

(* One leg of a barter moves units between the two parties. *)
LEMMA BarterCore ==
  ASSUME CoreOK, ~Idle, Head(Top.todo) \in {"deliver", "return"},
         NEW i \in Items, NEW from \in Accounts, NEW to \in Accounts, from # to,
         NEW n \in Nat, Barter(i, from, to, n), OfSwaps
  PROVE  /\ CoreOK'
         /\ \A j \in Items, y \in Accounts :
              nft'[j][y] = IF j # i THEN nft[j][y]
                           ELSE IF y = from THEN nft[j][y] - n
                           ELSE IF y = to THEN nft[j][y] + n ELSE nft[j][y]
<1>1. SwapTypeOK /\ SpotTypeOK /\ TokenSaleTypeOK /\ GoodsTyped
  BY DEF CoreOK, SwapsTyped, SpotsTyped, TokensTyped
<1>2. /\ CanMove(i, from, n) /\ nft' = Move(i, from, to, n)
      /\ Pulled(i, from) /\ Returned(Top)
      /\ UNCHANGED <<marketVars, pool, swapVars>>
  BY DEF Barter, HandTo, CanOffer
<1>3. Growing
  BY <1>1, <1>2, SameGrows DEF OfSwaps, saleVars
<1>4. CallsTyped' /\ StackOK'
  BY <1>2, <1>3, StackDelivers
<1>5. from \in Holders /\ to \in Holders
  BY DEF Holders
<1>6. /\ nft' \in [Items -> [Holders -> Nat]]
      /\ \A j \in Items \ {i} : nft'[j] = nft[j]
      /\ \A z \in Holders :
           nft'[i][z] = IF z = from THEN nft[i][z] - n
                        ELSE IF z = to THEN nft[i][z] + n ELSE nft[i][z]
  BY <1>1, <1>2, <1>5, MoveBalances DEF GoodsTyped
<1>7. approved' \subseteq Items \X Accounts
  BY <1>1, <1>2 DEF Pulled, GoodsTyped
<1>8. GoodsTyped'
  BY <1>1, <1>2, <1>6, <1>7 DEF GoodsTyped, OfSwaps
<1>9. SwapsTyped' /\ SpotsTyped' /\ TokensTyped'
  BY <1>2, QuietSwaps, QuietSpots, QuietTokens DEF CoreOK, OfSwaps
<1>10. CoreOK'
  BY <1>4, <1>8, <1>9 DEF CoreOK
<1>11. \A j \in Items, y \in Accounts :
         nft'[j][y] = IF j # i THEN nft[j][y]
                      ELSE IF y = from THEN nft[j][y] - n
                      ELSE IF y = to THEN nft[j][y] + n ELSE nft[j][y]
  BY <1>6 DEF Holders
<1> QED
  BY <1>10, <1>11

(* The parties and the legs of the swap that the innermost purchase is     *)
(* about.                                                                  *)
LEMMA TopSwap ==
  ASSUME CoreOK, ~Idle, Top.op = "swap"
  PROVE  /\ Top.id \in SwapIds /\ Top.id < nextSwapId
         /\ Top.todo \in SwapTodos /\ Top.n = 1
         /\ Top.by \in Accounts /\ acceptors[Top.id] = <<Top.by>>
         /\ Swap(Top.id) \in SwapRecord /\ SwapAnswers(Swap(Top.id))
         /\ Top.by # Swap(Top.id).p
<1> DEFINE f == Top
           w == Swap(f.id)
<1>1. SwapTypeOK /\ SwapsTyped
  BY DEF CoreOK, SwapsTyped
<1>2. f \in Frame /\ FitsNow(f)
  BY TopFits
<1>3. f.id \in SwapIds /\ f.todo \in SwapTodos /\ f.by \in Accounts
  BY <1>1, <1>2, FitsHasTodo DEF Frame
<1>4. /\ f.id < nextSwapId /\ f.n = 1 /\ acceptors[f.id] = <<f.by>>
      /\ f.by # w.p
  BY <1>2 DEF FitsNow, FrameFits, Swap
<1>5. w \in SwapRecord
  BY <1>1, <1>3 DEF SwapTypeOK, Swap
<1>6. f.id \in 0 .. nextSwapId - 1
  BY <1>1, <1>3, <1>4, SwapAssumption DEF SwapIds, SwapTypeOK
<1>7. AnswerOf(w) \in SwapResponse
  BY <1>1, <1>6 DEF SwapsTyped, GetSwap, AnswerOf
<1>8. SwapAnswers(w)
  <2> HIDE DEF w
  <2> QED
    BY <1>5, <1>7, SwapAnswered
<1> QED
  BY <1>3, <1>4, <1>5, <1>8

-----------------------------------------------------------------------------
(* Mint spots: types, frames and holdings.                                 *)

(* The terms of a listing of spots. *)
SpotAnswers(l) ==
  /\ l.s \in Accounts /\ l.p > 0
  /\ l.ms \in 0 .. Word - 1 /\ l.sold \in 0 .. Word - 1 /\ l.fb \in 0 .. 10000

(* What getMintSpotListing answers of a listing. *)
SpotAnswerOf(l) ==
  [lister |-> l.s, item |-> l.item, paymentToken |-> l.pt, pricePerSpot |-> l.p,
   maxSpots |-> l.ms, sold |-> l.sold, active |-> l.act, expirationBlock |-> l.exp,
   startBlock |-> l.sb, feeBps |-> l.fb]

(* It is within the range of the response type when the terms are in       *)
(* order.                                                                  *)
LEMMA SpotAnswered ==
  ASSUME NEW l \in SpotRecord
  PROVE  SpotAnswerOf(l) \in MintSpotListingResponse <=> SpotAnswers(l)
<1>1. /\ l.s \in Accounts \cup {NoAccount} /\ l.item \in Items /\ l.pt \in Tokens
      /\ l.p \in Nat /\ l.act \in BOOLEAN /\ l.exp \in Nat /\ l.sb \in Nat
  BY DEF SpotRecord
<1>2. l.p \in Nat \ {0} <=> l.p > 0
  BY <1>1
<1>3. SpotAnswerOf(l) \in MintSpotListingResponse
        <=> /\ l.s \in Accounts /\ l.p \in Nat \ {0}
            /\ l.ms \in 0 .. Word - 1 /\ l.sold \in 0 .. Word - 1 /\ l.fb \in 0 .. 10000
  BY <1>1 DEF MintSpotListingResponse, SpotAnswerOf
<1> QED
  BY <1>2, <1>3 DEF SpotAnswers

(* What listing a known listing of spots can be counted on. *)
LEMMA KnownSpots ==
  ASSUME SpotsTyped, NEW id \in SpotIds
  PROVE  /\ SpotListing(id) \in SpotRecord
         /\ id < nextSpotId => SpotAnswers(SpotListing(id))
<1> DEFINE l == SpotListing(id)
<1>1. SpotTypeOK
  BY DEF SpotsTyped
<1>2. l \in SpotRecord
  BY <1>1 DEF SpotTypeOK, SpotListing
<1>3. ASSUME id < nextSpotId
      PROVE  SpotAnswerOf(l) \in MintSpotListingResponse
  <2>1. id \in 0 .. nextSpotId - 1
    BY <1>1, <1>3, SpotAssumption DEF SpotIds, SpotTypeOK
  <2> QED
    BY <2>1 DEF SpotsTyped, GetMintSpotListing, SpotAnswerOf
<1> HIDE DEF l
<1>4. id < nextSpotId => SpotAnswers(l)
  BY <1>2, <1>3, SpotAnswered
<1> QED
  BY <1>2, <1>4 DEF l

(* One listing of spots is written. *)
LEMMA SpotWritten ==
  ASSUME SpotsTyped, NEW id \in SpotIds, NEW l \in SpotRecord,
         spots' = [spots EXCEPT ![id] = l],
         nextSpotId' \in 0 .. MaxSpotListings, nextSpotId' <= nextSpotId + 1,
         nextSpotId' > nextSpotId => id = nextSpotId,
         id < nextSpotId' => SpotAnswers(l),
         UNCHANGED <<mintRight, minted>>
  PROVE  SpotsTyped'
<1>1. SpotTypeOK
  BY DEF SpotsTyped
<1>2. SpotTypeOK'
  BY <1>1 DEF SpotTypeOK
<1>3. ASSUME NEW j \in 0 .. nextSpotId' - 1
      PROVE  SpotAnswerOf(spots'[j]) \in MintSpotListingResponse
  <2> DEFINE n == nextSpotId
             m == nextSpotId'
  <2>1. /\ n \in Nat /\ m \in Nat /\ m <= MaxSpotListings /\ m <= n + 1
        /\ m > n => id = n
    BY <1>1, SpotAssumption DEF SpotTypeOK
  <2>2. j \in 0 .. m - 1
    OBVIOUS
  <2> HIDE DEF n, m
  <2>3. j \in SpotIds /\ j < m /\ j \in Nat
    BY <2>1, <2>2, SpotAssumption DEF SpotIds
  <2>4. spots'[j] \in SpotRecord
    BY <1>2, <2>3 DEF SpotTypeOK
  <2>5. SpotAnswers(spots'[j])
    <3>1. CASE j = id
      BY <1>1, <2>3, <3>1 DEF SpotTypeOK, m
    <3>2. CASE j # id
      <4>1. spots'[j] = spots[j]
        BY <1>1, <2>3, <3>2 DEF SpotTypeOK
      <4>2. j < n
        BY <2>1, <2>3, <3>2
      <4> QED
        BY <2>3, <4>1, <4>2, KnownSpots DEF SpotListing, n
    <3> QED
      BY <3>1, <3>2
  <2> QED
    BY <2>4, <2>5, SpotAnswered
<1> QED
  BY <1>2, <1>3 DEF SpotsTyped, GetMintSpotListing, SpotListing, SpotAnswerOf

(* Listing spots writes a listing under a new number. *)
LEMMA ListMintSpotsCore ==
  ASSUME MarketInv, CoreOK, NEW x \in Accounts, NEW i \in Items, NEW t \in Tokens,
         NEW p \in SpotPrices, NEW ms \in SpotCaps, NEW exp \in SpotExpirations,
         NEW start \in SpotStarts, ListMintSpots(x, i, t, p, ms, exp, start), OfSpots
  PROVE  CoreOK'
<1> DEFINE c == CollectionOf[i]
           fb == EffectiveFeeBps(c)
           l == [s |-> x, item |-> i, pt |-> t, p |-> p, ms |-> ms, sold |-> 0,
                 act |-> TRUE, exp |-> exp, sb |-> start, fb |-> fb]
           n == nextSpotId
<1>1. SwapTypeOK /\ SpotTypeOK /\ TokenSaleTypeOK /\ SpotsTyped
  BY DEF CoreOK, SwapsTyped, SpotsTyped, TokensTyped
<1>2. p \in Nat /\ ms \in 0 .. Word - 1 /\ ms \in Nat /\ exp \in Nat /\ start \in Nat
  BY SpotAssumption, CustodyAssumption
<1>3. c \in Collections /\ MarketTypeOK
  BY CustodyAssumption DEF MarketInv
<1>4. fb \in Nat
  BY <1>3, ReadersType
<1>5. /\ p > 0 /\ fb <= 10000
      /\ n < MaxSpotListings
      /\ spots' = [spots EXCEPT ![n] = l]
      /\ nextSpotId' = n + 1
      /\ UNCHANGED <<marketVars, calls, approved, pool, nft, mintRight, minted>>
  BY DEF ListMintSpots
<1>6. fb \in 0 .. 10000 /\ 0 \in 0 .. Word - 1
  <2> HIDE DEF fb
  <2> QED
    BY <1>4, <1>5, CustodyAssumption
<1>7. l \in SpotRecord /\ SpotAnswers(l)
  <2> HIDE DEF fb
  <2> QED
    BY <1>2, <1>4, <1>5, <1>6 DEF SpotRecord, SpotAnswers
<1> HIDE DEF l
<1>8. n \in Nat /\ n \in SpotIds /\ n + 1 \in 0 .. MaxSpotListings
  BY <1>1, <1>5, SpotAssumption DEF SpotTypeOK, SpotIds
<1>9. SpotsTyped'
  <2>1. nextSpotId' \in 0 .. MaxSpotListings /\ nextSpotId' <= nextSpotId + 1
    BY <1>5, <1>8
  <2>2. nextSpotId' > nextSpotId => n = nextSpotId
    OBVIOUS
  <2>3. n < nextSpotId' => SpotAnswers(l)
    BY <1>7
  <2>4. UNCHANGED <<mintRight, minted>>
    BY <1>5
  <2>5. spots' = [spots EXCEPT ![n] = l]
    BY <1>5
  <2> HIDE DEF n
  <2> QED
    BY <1>1, <1>7, <1>8, <2>1, <2>2, <2>3, <2>4, <2>5, SpotWritten
<1>10. Growing
  BY <1>5 DEF Growing, OfSpots, swapVars, tokenVars
<1>11. CallsTyped' /\ StackOK'
  BY <1>5, <1>10, StackStays
<1>12. GoodsTyped' /\ SwapsTyped' /\ TokensTyped'
  BY <1>5, QuietSwaps, QuietTokens DEF CoreOK, GoodsTyped, OfSpots
<1> QED
  BY <1>9, <1>11, <1>12 DEF CoreOK

(* A number of Word values. *)
LEMMA WordType ==
  ASSUME NEW a \in Nat
  PROVE  a % Word \in 0 .. Word - 1
BY CustodyAssumption

(* Buying writes the number sold and puts a purchase on the stack. *)
LEMMA BuyMintSpotCore ==
  ASSUME MarketInv, CoreOK, NEW x \in Accounts, NEW id \in SpotIds,
         NEW n \in SpotAmounts, BuyMintSpot(x, id, n), OfSpots,
         SpotListing(id).act => id < nextSpotId
  PROVE  CoreOK'
<1> DEFINE l == SpotListing(id)
           sold == (l.sold + n) % Word
           act == l.act /\ ~(l.ms # 0 /\ sold = l.ms)
           new == [l EXCEPT !.sold = sold, !.act = act]
           g == [op |-> "spot", id |-> id, by |-> x, payer |-> x, n |-> n,
                 pt |-> l.pt, ask |-> l.p * n, asset |-> CollectionOf[l.item],
                 back |-> CollectionOf[l.item], fb |-> l.fb, rs |-> <<>>,
                 before |-> pool[l.pt], got |-> 0,
                 todo |-> <<"pay", "deliver", "payout">>]
<1>1. /\ SwapTypeOK /\ SpotTypeOK /\ TokenSaleTypeOK /\ SpotsTyped
      /\ pool \in [Tokens -> Nat]
  BY DEF CoreOK, SwapsTyped, SpotsTyped, TokensTyped, GoodsTyped
<1>2. /\ l.act /\ n > 0
      /\ spots' = SpotsTaken(id, n)
      /\ Enter(g)
      /\ UNCHANGED <<marketVars, approved, pool, nft, nextSpotId, mintRight, minted>>
  BY DEF BuyMintSpot
<1>3. l \in SpotRecord /\ SpotAnswers(l) /\ id < nextSpotId
  BY <1>1, <1>2, KnownSpots
<1>4. n \in Nat /\ id \in Nat
  BY SpotAssumption, CustodyAssumption DEF SpotIds
<1>5. /\ l.s \in Accounts /\ l.item \in Items /\ l.pt \in Tokens /\ l.p \in Nat
      /\ l.fb \in Nat /\ l.sold \in Nat /\ l.ms \in Nat /\ l.act \in BOOLEAN
  BY <1>3 DEF SpotRecord, SpotAnswers
<1>6. sold \in 0 .. Word - 1 /\ sold \in Nat
  <2>1. l.sold + n \in Nat
    BY <1>4, <1>5
  <2> HIDE DEF l
  <2>2. sold \in 0 .. Word - 1
    BY <2>1, WordType
  <2> QED
    BY <2>2
<1>7. act \in BOOLEAN
  OBVIOUS
<1>8. spots' = [spots EXCEPT ![id] = new]
  BY <1>1, <1>2 DEF SpotsTaken, SpotListing, SpotTypeOK
<1>9. new \in SpotRecord /\ SpotAnswers(new)
  <2> HIDE DEF l, sold, act
  <2>1. new \in SpotRecord
    BY <1>3, <1>6, <1>7 DEF SpotRecord
  <2>2. /\ new.s = l.s /\ new.p = l.p /\ new.ms = l.ms /\ new.fb = l.fb
        /\ new.sold = sold
    BY <1>3 DEF SpotRecord
  <2> HIDE DEF new
  <2> QED
    BY <1>3, <1>6, <2>1, <2>2 DEF SpotAnswers
<1> HIDE DEF new
<1>10. SpotsTyped'
  <2>1. nextSpotId' = nextSpotId /\ nextSpotId \in 0 .. MaxSpotListings
    BY <1>1, <1>2 DEF SpotTypeOK
  <2>2. nextSpotId' <= nextSpotId + 1 /\ ~(nextSpotId' > nextSpotId)
    BY <2>1, SpotAssumption
  <2> QED
    BY <1>1, <1>2, <1>8, <1>9, <2>1, <2>2, SpotWritten
<1>11. Growing
  BY <1>2 DEF Growing, OfSpots, swapVars, tokenVars
<1>12. g \in Frame
  <2>1. CollectionOf[l.item] \in Contracts
    BY <1>5, CustodyAssumption DEF Contracts
  <2>2. <<"pay", "deliver", "payout">> \in Seq(Stages)
    BY TodosType DEF SaleTodos
  <2>3. l.p * n \in Nat /\ pool[l.pt] \in Nat
    BY <1>1, <1>4, <1>5
  <2>4. <<>> \in Seq(Split)
    OBVIOUS
  <2> HIDE DEF l
  <2> QED
    BY <1>4, <1>5, <2>1, <2>2, <2>3, <2>4 DEF Frame
<1>13. /\ g.op = "spot" /\ g.id = id /\ g.by = x /\ g.n = n /\ g.pt = l.pt
       /\ g.before = pool[l.pt] /\ g.got = 0 /\ g.todo = <<"pay", "deliver", "payout">>
  BY Zenon
<1> HIDE DEF g
<1>14. FitsNext(g)
  <2>1. id < nextSpotId' /\ g.n > 0
    BY <1>2, <1>3, <1>13
  <2>2. g.todo \in SaleTodos
    BY <1>13 DEF SaleTodos
  <2> QED
    BY <1>13, <2>1, <2>2 DEF FitsNext, FrameFits
<1>15. CallsTyped' /\ StackOK'
  <2> HIDE DEF l
  <2> QED
    BY <1>2, <1>11, <1>12, <1>13, <1>14, StackEnters
<1>16. GoodsTyped' /\ SwapsTyped' /\ TokensTyped'
  BY <1>2, QuietSwaps, QuietTokens DEF CoreOK, GoodsTyped, OfSpots
<1> QED
  BY <1>10, <1>15, <1>16 DEF CoreOK

(* The listing that the innermost purchase is of. *)
LEMMA TopSpot ==
  ASSUME CoreOK, ~Idle, Top.op = "spot"
  PROVE  /\ Top.id \in SpotIds /\ Top.id < nextSpotId
         /\ Top.todo \in SaleTodos /\ Top.n \in Nat \ {0} /\ Top.by \in Accounts
         /\ SpotListing(Top.id) \in SpotRecord /\ SpotAnswers(SpotListing(Top.id))
<1> DEFINE f == Top
<1>1. SwapTypeOK /\ SpotTypeOK /\ SpotsTyped
  BY DEF CoreOK, SwapsTyped, SpotsTyped
<1>2. f \in Frame /\ FitsNow(f)
  BY TopFits
<1>3. f.n \in Nat \ {0} /\ f.todo \in SaleTodos
  BY <1>1, <1>2, FitsHasTodo
<1>4. f.id \in Nat /\ f.by \in Accounts
  BY <1>2 DEF Frame
<1>5. f.id < nextSpotId
  BY <1>2 DEF FitsNow, FrameFits
<1>6. f.id \in SpotIds
  <2> HIDE DEF f
  <2> QED
    BY <1>1, <1>4, <1>5, SpotAssumption DEF SpotIds, SpotTypeOK
<1> HIDE DEF f
<1>7. SpotListing(f.id) \in SpotRecord /\ SpotAnswers(SpotListing(f.id))
  BY <1>1, <1>5, <1>6, KnownSpots
<1> QED
  BY <1>3, <1>4, <1>5, <1>6, <1>7 DEF f

(* A mint gives the buyer units of the edition and uses up the allowance.  *)
LEMMA MintCore ==
  ASSUME CoreOK, Mint, OfSpots
  PROVE  /\ CoreOK'
         /\ \A j \in Items, y \in Accounts :
              nft'[j][y] = IF j = SpotListing(Top.id).item /\ y = Top.by
                           THEN nft[j][y] + Top.n ELSE nft[j][y]
<1> DEFINE f == Top
           i == SpotListing(f.id).item
           left == mintRight[i]
           had == nft[i][f.by]
           old == minted[<<f.id, f.by>>]
<1>1. /\ SwapTypeOK /\ SpotTypeOK /\ TokenSaleTypeOK /\ SpotsTyped /\ GoodsTyped
  BY DEF CoreOK, SwapsTyped, SpotsTyped, TokensTyped
<1>2. /\ ~Idle /\ f.op = "spot" /\ Head(f.todo) = "deliver"
      /\ left = Unlimited \/ left >= f.n
      /\ mintRight' = IF left = Unlimited THEN mintRight
                      ELSE [mintRight EXCEPT ![i] = left - f.n]
      /\ nft' = [nft EXCEPT ![i][f.by] = had + f.n]
      /\ minted' = [minted EXCEPT ![<<f.id, f.by>>] = old + f.n]
      /\ Returned(f)
      /\ UNCHANGED <<marketVars, approved, pool, spots, nextSpotId>>
  BY DEF Mint, InProgress
<1>3. f.id \in SpotIds /\ f.n \in Nat \ {0} /\ f.by \in Accounts /\ i \in Items
  BY <1>2, TopSpot DEF SpotRecord
<1>4. Growing
  BY <1>2 DEF Growing, OfSpots, swapVars, tokenVars
<1>5. CallsTyped' /\ StackOK'
  BY <1>2, <1>4, StackDelivers
<1> HIDE DEF f, i
<1>6. f.by \in Holders
  BY <1>3 DEF Holders
<1>7. had \in Nat /\ old \in Nat
  BY <1>1, <1>3, <1>6 DEF GoodsTyped, SpotTypeOK
<1>8. had + f.n \in Nat /\ old + f.n \in Nat
  <2> HIDE DEF had, old
  <2> QED
    BY <1>3, <1>7
<1>9. left # Unlimited => left - f.n \in Nat
  <2>1. left \in Nat \cup {Unlimited}
    BY <1>1, <1>3 DEF SpotTypeOK
  <2> HIDE DEF left
  <2> QED
    BY <1>2, <1>3, <2>1
<1> HIDE DEF had, old, left
<1>10. nft' \in [Items -> [Holders -> Nat]]
  BY <1>1, <1>2, <1>3, <1>6, <1>8 DEF GoodsTyped
<1>11. GoodsTyped'
  BY <1>1, <1>2, <1>10 DEF GoodsTyped, OfSpots
<1>12. minted' \in [SpotIds \X Accounts -> Nat]
  BY <1>1, <1>2, <1>3, <1>8 DEF SpotTypeOK
<1>13. mintRight' \in [Items -> Nat \cup {Unlimited}]
  BY <1>1, <1>2, <1>3, <1>9 DEF SpotTypeOK
<1>14. SpotsTyped'
  BY <1>1, <1>2, <1>12, <1>13 DEF SpotsTyped, SpotTypeOK, GetMintSpotListing, SpotListing
<1>15. SwapsTyped' /\ TokensTyped'
  BY QuietSwaps, QuietTokens DEF CoreOK, OfSpots
<1>16. CoreOK'
  BY <1>5, <1>11, <1>14, <1>15 DEF CoreOK
<1>17. \A j \in Items, y \in Accounts :
         nft'[j][y] = IF j = i /\ y = f.by THEN nft[j][y] + f.n ELSE nft[j][y]
  BY <1>1, <1>2, <1>3 DEF GoodsTyped, had, Holders
<1> QED
  BY <1>16, <1>17 DEF f, i

(* Delisting closes a listing of spots. *)
LEMMA DelistMintSpotsCore ==
  ASSUME CoreOK, NEW x \in Accounts, NEW id \in SpotIds, DelistMintSpots(x, id),
         OfSpots
  PROVE  CoreOK'
<1> DEFINE l == SpotListing(id)
           off == [l EXCEPT !.act = FALSE]
<1>1. SwapTypeOK /\ SpotTypeOK /\ TokenSaleTypeOK /\ SpotsTyped
  BY DEF CoreOK, SwapsTyped, SpotsTyped, TokensTyped
<1>2. /\ l \in SpotRecord
      /\ id < nextSpotId => SpotAnswers(l)
  BY <1>1, KnownSpots
<1>3. /\ spots' = [spots EXCEPT ![id].act = FALSE]
      /\ UNCHANGED <<marketVars, calls, approved, pool, nft, nextSpotId, mintRight,
                     minted>>
  BY DEF DelistMintSpots
<1>4. spots' = [spots EXCEPT ![id] = off]
  BY <1>1, <1>3 DEF SpotListing, SpotTypeOK
<1>5. off \in SpotRecord
  <2> HIDE DEF l
  <2> QED
    BY <1>2 DEF SpotRecord
<1>6. SpotAnswers(l) => SpotAnswers(off)
  <2> HIDE DEF l
  <2>1. off.s = l.s /\ off.p = l.p /\ off.ms = l.ms /\ off.fb = l.fb /\ off.sold = l.sold
    BY <1>2 DEF SpotRecord
  <2> HIDE DEF off
  <2> QED
    BY <2>1 DEF SpotAnswers
<1>7. /\ nextSpotId' = nextSpotId /\ nextSpotId \in 0 .. MaxSpotListings
      /\ UNCHANGED <<mintRight, minted>>
  BY <1>1, <1>3 DEF SpotTypeOK
<1>8. nextSpotId' <= nextSpotId + 1 /\ ~(nextSpotId' > nextSpotId)
  BY <1>7, SpotAssumption
<1>9. SpotsTyped'
  <2> HIDE DEF off, l
  <2>1. id < nextSpotId' => SpotAnswers(off)
    BY <1>2, <1>6, <1>7
  <2>2. nextSpotId' > nextSpotId => id = nextSpotId
    BY <1>8
  <2> QED
    BY <1>1, <1>4, <1>5, <1>7, <1>8, <2>1, <2>2, SpotWritten
<1>10. Growing
  BY <1>3 DEF Growing, OfSpots, swapVars, tokenVars
<1>11. CallsTyped' /\ StackOK'
  BY <1>3, <1>10, StackStays
<1>12. GoodsTyped' /\ SwapsTyped' /\ TokensTyped'
  BY <1>3, QuietSwaps, QuietTokens DEF CoreOK, GoodsTyped, OfSpots
<1> QED
  BY <1>9, <1>11, <1>12 DEF CoreOK

-----------------------------------------------------------------------------
(* Token sales: types, frames and holdings.                                *)

(* The terms of a token listing. *)
TokenAnswers(l) == l.s \in Accounts /\ l.p > 0 /\ l.fb \in 0 .. 10000

(* What getTokenListing answers of a listing. *)
TokenAnswerOf(l) ==
  [seller |-> l.s, tokenContract |-> l.tc, amount |-> l.a, pricePerUnit |-> l.p,
   paymentToken |-> l.pt, active |-> l.act, expirationBlock |-> l.exp,
   startBlock |-> l.sb, feeBps |-> l.fb]

(* A query of a known listing answers with its terms. *)
LEMMA TokenAnswered ==
  ASSUME NEW l \in TokenListingRecord
  PROVE  TokenAnswerOf(l) \in TokenListingResponse <=> TokenAnswers(l)
<1>1. /\ l.s \in Accounts \cup {NoAccount} /\ l.tc \in Tokens /\ l.pt \in Tokens
      /\ l.a \in Nat /\ l.p \in Nat /\ l.act \in BOOLEAN /\ l.exp \in Nat
      /\ l.sb \in Nat /\ l.fb \in Nat
  BY DEF TokenListingRecord
<1>2. l.p \in Nat \ {0} <=> l.p > 0
  BY <1>1
<1>3. TokenAnswerOf(l) \in TokenListingResponse
        <=> l.s \in Accounts /\ l.p \in Nat \ {0} /\ l.fb \in 0 .. 10000
  BY <1>1 DEF TokenListingResponse, TokenAnswerOf
<1> QED
  BY <1>2, <1>3 DEF TokenAnswers

(* What a known token listing can be counted on. *)
LEMMA KnownTokens ==
  ASSUME TokensTyped, NEW id \in TokenListingIds
  PROVE  /\ TokenListing(id) \in TokenListingRecord
         /\ id < nextTokenListingId => TokenAnswers(TokenListing(id))
<1> DEFINE l == TokenListing(id)
<1>1. TokenSaleTypeOK
  BY DEF TokensTyped
<1>2. l \in TokenListingRecord
  BY <1>1 DEF TokenSaleTypeOK, TokenListing
<1>3. ASSUME id < nextTokenListingId
      PROVE  TokenAnswerOf(l) \in TokenListingResponse
  <2>1. id \in 0 .. nextTokenListingId - 1
    BY <1>1, <1>3, TokenSaleAssumption DEF TokenListingIds, TokenSaleTypeOK
  <2> QED
    BY <2>1 DEF TokensTyped, GetTokenListing, TokenAnswerOf
<1> HIDE DEF l
<1>4. id < nextTokenListingId => TokenAnswers(l)
  BY <1>2, <1>3, TokenAnswered
<1> QED
  BY <1>2, <1>4 DEF l

(* One token listing is written. *)
LEMMA TokenWritten ==
  ASSUME TokensTyped, NEW id \in TokenListingIds, NEW l \in TokenListingRecord,
         tokenListings' = [tokenListings EXCEPT ![id] = l],
         nextTokenListingId' \in 0 .. MaxTokenListings,
         nextTokenListingId' <= nextTokenListingId + 1,
         nextTokenListingId' > nextTokenListingId => id = nextTokenListingId,
         id < nextTokenListingId' => TokenAnswers(l),
         offered' \in [TokenListingIds -> Nat], UNCHANGED <<coins, sent>>
  PROVE  TokensTyped'
<1>1. TokenSaleTypeOK
  BY DEF TokensTyped
<1>2. TokenSaleTypeOK'
  BY <1>1 DEF TokenSaleTypeOK
<1>3. ASSUME NEW j \in 0 .. nextTokenListingId' - 1
      PROVE  TokenAnswerOf(tokenListings'[j]) \in TokenListingResponse
  <2> DEFINE n == nextTokenListingId
             m == nextTokenListingId'
  <2>1. /\ n \in Nat /\ m \in Nat /\ m <= MaxTokenListings /\ m <= n + 1
        /\ m > n => id = n
    BY <1>1, TokenSaleAssumption DEF TokenSaleTypeOK
  <2>2. j \in 0 .. m - 1
    OBVIOUS
  <2> HIDE DEF n, m
  <2>3. j \in TokenListingIds /\ j < m /\ j \in Nat
    BY <2>1, <2>2, TokenSaleAssumption DEF TokenListingIds
  <2>4. tokenListings'[j] \in TokenListingRecord
    BY <1>2, <2>3 DEF TokenSaleTypeOK
  <2>5. TokenAnswers(tokenListings'[j])
    <3>1. CASE j = id
      BY <1>1, <2>3, <3>1 DEF TokenSaleTypeOK, m
    <3>2. CASE j # id
      <4>1. tokenListings'[j] = tokenListings[j]
        BY <1>1, <2>3, <3>2 DEF TokenSaleTypeOK
      <4>2. j < n
        BY <2>1, <2>3, <3>2
      <4> QED
        BY <2>3, <4>1, <4>2, KnownTokens DEF TokenListing, n
    <3> QED
      BY <3>1, <3>2
  <2> QED
    BY <2>4, <2>5, TokenAnswered
<1> QED
  BY <1>2, <1>3 DEF TokensTyped, GetTokenListing, TokenListing, TokenAnswerOf

(* Listing coins writes a listing under a new number. *)
LEMMA ListTokenCore ==
  ASSUME MarketInv, CoreOK, NEW x \in Accounts, NEW tc \in Tokens, NEW t \in Tokens,
         NEW a \in TokenAmounts, NEW p \in TokenPrices, NEW exp \in TokenExpirations,
         NEW start \in TokenStarts, ListToken(x, tc, a, p, t, exp, start), OfTokens
  PROVE  CoreOK'
<1> DEFINE fb == cfg.feeBps
           l == [s |-> x, tc |-> tc, a |-> a, p |-> p, pt |-> t, act |-> TRUE,
                 exp |-> exp, sb |-> start, fb |-> fb]
           n == nextTokenListingId
<1>1. SwapTypeOK /\ SpotTypeOK /\ TokenSaleTypeOK /\ TokensTyped
  BY DEF CoreOK, SwapsTyped, SpotsTyped, TokensTyped
<1>2. a \in Nat /\ p \in Nat /\ exp \in Nat /\ start \in Nat
  BY TokenSaleAssumption
<1>3. fb \in Nat
  BY DEF MarketInv, MarketTypeOK, Config
<1>4. /\ p > 0 /\ fb <= 10000
      /\ n < MaxTokenListings
      /\ tokenListings' = [tokenListings EXCEPT ![n] = l]
      /\ nextTokenListingId' = n + 1
      /\ offered' = [offered EXCEPT ![n] = a]
      /\ UNCHANGED <<marketVars, calls, approved, pool, nft, coins, sent>>
  BY DEF ListToken
<1>5. fb \in 0 .. 10000
  <2> HIDE DEF fb
  <2> QED
    BY <1>3, <1>4
<1>6. l \in TokenListingRecord /\ TokenAnswers(l)
  <2> HIDE DEF fb
  <2> QED
    BY <1>2, <1>3, <1>4, <1>5 DEF TokenListingRecord, TokenAnswers
<1> HIDE DEF l
<1>7. n \in Nat /\ n \in TokenListingIds /\ n + 1 \in 0 .. MaxTokenListings
  BY <1>1, <1>4, TokenSaleAssumption DEF TokenSaleTypeOK, TokenListingIds
<1>8. TokensTyped'
  <2>1. /\ nextTokenListingId' \in 0 .. MaxTokenListings
        /\ nextTokenListingId' <= nextTokenListingId + 1
    BY <1>4, <1>7
  <2>2. nextTokenListingId' > nextTokenListingId => n = nextTokenListingId
    OBVIOUS
  <2>3. n < nextTokenListingId' => TokenAnswers(l)
    BY <1>6
  <2>4. UNCHANGED <<coins, sent>>
    BY <1>4
  <2>5. tokenListings' = [tokenListings EXCEPT ![n] = l]
    BY <1>4
  <2>6. offered' \in [TokenListingIds -> Nat]
    <3>1. offered \in [TokenListingIds -> Nat]
      BY <1>1 DEF TokenSaleTypeOK
    <3>2. offered' = [offered EXCEPT ![n] = a]
      BY <1>4
    <3> HIDE DEF n
    <3> QED
      BY <1>2, <1>7, <3>1, <3>2
  <2>7. TokensTyped /\ n \in TokenListingIds /\ l \in TokenListingRecord
    BY <1>1, <1>6, <1>7
  <2> HIDE DEF n
  <2> QED
    BY <2>1, <2>2, <2>3, <2>4, <2>5, <2>6, <2>7, TokenWritten
<1>9. Growing
  BY <1>4 DEF Growing, OfTokens, swapVars, spotVars
<1>10. CallsTyped' /\ StackOK'
  BY <1>4, <1>9, StackStays
<1>11. GoodsTyped' /\ SwapsTyped' /\ SpotsTyped'
  BY <1>4, QuietSwaps, QuietSpots DEF CoreOK, GoodsTyped, OfTokens
<1> QED
  BY <1>8, <1>10, <1>11 DEF CoreOK

(* Buying writes the amount left and puts a purchase on the stack. *)
LEMMA BuyTokenCore ==
  ASSUME MarketInv, CoreOK, NEW x \in Accounts, NEW id \in TokenListingIds,
         NEW n \in TokenAmounts, BuyToken(x, id, n), OfTokens,
         TokenListing(id).act => id < nextTokenListingId
  PROVE  CoreOK'
<1> DEFINE l == TokenListing(id)
           left == l.a - n
           act == l.act /\ l.a # n
           new == [l EXCEPT !.a = left, !.act = act]
           g == [op |-> "token", id |-> id, by |-> x, payer |-> x, n |-> n,
                 pt |-> l.pt, ask |-> l.p * n, asset |-> l.tc, back |-> l.tc,
                 fb |-> l.fb, rs |-> <<>>, before |-> pool[l.pt], got |-> 0,
                 todo |-> <<"pay", "deliver", "payout">>]
<1>1. /\ SwapTypeOK /\ SpotTypeOK /\ TokenSaleTypeOK /\ TokensTyped
      /\ pool \in [Tokens -> Nat]
  BY DEF CoreOK, SwapsTyped, SpotsTyped, TokensTyped, GoodsTyped
<1>2. /\ l.act /\ n > 0 /\ n <= l.a
      /\ tokenListings' = TokensTaken(id, n)
      /\ Enter(g)
      /\ UNCHANGED <<marketVars, approved, pool, nft, nextTokenListingId, coins,
                     offered, sent>>
  BY DEF BuyToken
<1>3. l \in TokenListingRecord /\ TokenAnswers(l) /\ id < nextTokenListingId
  BY <1>1, <1>2, KnownTokens
<1>4. n \in Nat /\ id \in Nat
  BY TokenSaleAssumption DEF TokenListingIds
<1>5. /\ l.s \in Accounts /\ l.tc \in Tokens /\ l.pt \in Tokens /\ l.p \in Nat
      /\ l.fb \in Nat /\ l.a \in Nat /\ l.act \in BOOLEAN
  BY <1>3 DEF TokenListingRecord, TokenAnswers
<1>6. left \in Nat /\ act \in BOOLEAN
  <2> HIDE DEF l
  <2> QED
    BY <1>2, <1>4, <1>5
<1>7. tokenListings' = [tokenListings EXCEPT ![id] = new]
  BY <1>1, <1>2 DEF TokensTaken, TokenListing, TokenSaleTypeOK
<1>8. new \in TokenListingRecord /\ TokenAnswers(new)
  <2> HIDE DEF l, left, act
  <2>1. new \in TokenListingRecord
    BY <1>3, <1>6 DEF TokenListingRecord
  <2>2. new.s = l.s /\ new.p = l.p /\ new.fb = l.fb
    BY <1>3 DEF TokenListingRecord
  <2> HIDE DEF new
  <2> QED
    BY <1>3, <2>1, <2>2 DEF TokenAnswers
<1> HIDE DEF new
<1>9. TokensTyped'
  <2>1. /\ nextTokenListingId' = nextTokenListingId
        /\ nextTokenListingId \in 0 .. MaxTokenListings
        /\ offered' \in [TokenListingIds -> Nat] /\ UNCHANGED <<coins, sent>>
    BY <1>1, <1>2 DEF TokenSaleTypeOK
  <2>2. /\ nextTokenListingId' <= nextTokenListingId + 1
        /\ ~(nextTokenListingId' > nextTokenListingId)
    BY <2>1, TokenSaleAssumption
  <2> QED
    BY <1>1, <1>7, <1>8, <2>1, <2>2, TokenWritten
<1>10. Growing
  BY <1>2 DEF Growing, OfTokens, swapVars, spotVars
<1>11. g \in Frame
  <2>1. l.tc \in Contracts
    BY <1>5 DEF Contracts
  <2>2. <<"pay", "deliver", "payout">> \in Seq(Stages)
    BY TodosType DEF SaleTodos
  <2>3. l.p * n \in Nat /\ pool[l.pt] \in Nat
    BY <1>1, <1>4, <1>5
  <2>4. <<>> \in Seq(Split)
    OBVIOUS
  <2> HIDE DEF l
  <2> QED
    BY <1>4, <1>5, <2>1, <2>2, <2>3, <2>4 DEF Frame
<1>12. /\ g.op = "token" /\ g.id = id /\ g.by = x /\ g.n = n /\ g.pt = l.pt
       /\ g.before = pool[l.pt] /\ g.got = 0 /\ g.todo = <<"pay", "deliver", "payout">>
  BY Zenon
<1> HIDE DEF g
<1>13. FitsNext(g)
  <2>1. id < nextTokenListingId' /\ g.n > 0
    BY <1>2, <1>3, <1>12
  <2>2. g.todo \in SaleTodos
    BY <1>12 DEF SaleTodos
  <2> QED
    BY <1>12, <2>1, <2>2 DEF FitsNext, FrameFits
<1>14. CallsTyped' /\ StackOK'
  <2> HIDE DEF l
  <2> QED
    BY <1>2, <1>10, <1>11, <1>12, <1>13, StackEnters
<1>15. GoodsTyped' /\ SwapsTyped' /\ SpotsTyped'
  BY <1>2, QuietSwaps, QuietSpots DEF CoreOK, GoodsTyped, OfTokens
<1> QED
  BY <1>9, <1>14, <1>15 DEF CoreOK

(* The listing that the innermost purchase is of. *)
LEMMA TopToken ==
  ASSUME CoreOK, ~Idle, Top.op = "token"
  PROVE  /\ Top.id \in TokenListingIds /\ Top.id < nextTokenListingId
         /\ Top.todo \in SaleTodos /\ Top.n \in Nat \ {0} /\ Top.by \in Accounts
         /\ TokenListing(Top.id) \in TokenListingRecord
         /\ TokenAnswers(TokenListing(Top.id))
<1> DEFINE f == Top
<1>1. SwapTypeOK /\ TokenSaleTypeOK /\ TokensTyped
  BY DEF CoreOK, SwapsTyped, TokensTyped
<1>2. f \in Frame /\ FitsNow(f)
  BY TopFits
<1>3. f.n \in Nat \ {0} /\ f.todo \in SaleTodos
  BY <1>1, <1>2, FitsHasTodo
<1>4. f.id \in Nat /\ f.by \in Accounts
  BY <1>2 DEF Frame
<1>5. f.id < nextTokenListingId
  BY <1>2 DEF FitsNow, FrameFits
<1>6. f.id \in TokenListingIds
  <2> HIDE DEF f
  <2> QED
    BY <1>1, <1>4, <1>5, TokenSaleAssumption DEF TokenListingIds, TokenSaleTypeOK
<1> HIDE DEF f
<1>7. TokenListing(f.id) \in TokenListingRecord /\ TokenAnswers(TokenListing(f.id))
  BY <1>1, <1>5, <1>6, KnownTokens
<1> QED
  BY <1>3, <1>4, <1>5, <1>6, <1>7 DEF f

(* Coins that change hands stay numbers of coins. *)
LEMMA CoinsMove ==
  ASSUME coins \in [Tokens -> [Accounts -> Nat]], NEW a \in Tokens,
         NEW x \in Accounts, NEW y \in Accounts, NEW n \in Nat, NEW m \in Nat,
         coins[a][x] >= n,
         coins' = [coins EXCEPT ![a][x] = @ - n, ![a][y] = @ + m]
  PROVE  coins' \in [Tokens -> [Accounts -> Nat]]
<1> DEFINE mid == [coins[a] EXCEPT ![x] = @ - n]
           half == [coins EXCEPT ![a] = mid]
           new == [mid EXCEPT ![y] = coins[a][y] + m]
<1>1. /\ coins[a] \in [Accounts -> Nat] /\ coins[a][x] - n \in Nat
      /\ coins[a][y] + m \in Nat
  OBVIOUS
<1>2. mid \in [Accounts -> Nat] /\ new \in [Accounts -> Nat]
  BY <1>1
<1>3. half[a] = mid
  <2> HIDE DEF mid
  <2> QED
    OBVIOUS
<1>4. coins' = [half EXCEPT ![a] = new]
  BY <1>3
<1> HIDE DEF mid, new
<1> QED
  BY <1>2, <1>4

(* The coins of a purchase move. *)
LEMMA HandCoinsCore ==
  ASSUME CoreOK, NEW arriving, HandCoins(arriving), OfTokens
  PROVE  CoreOK'
<1> DEFINE f == Top
           l == TokenListing(f.id)
           had == sent[f.id]
<1>1. /\ SwapTypeOK /\ SpotTypeOK /\ TokenSaleTypeOK /\ TokensTyped
  BY DEF CoreOK, SwapsTyped, SpotsTyped, TokensTyped
<1>2. /\ ~Idle /\ f.op = "token" /\ Head(f.todo) = "deliver"
      /\ coins[l.tc][l.s] >= f.n
      /\ arriving \in Arrivals(l.tc, f.n)
      /\ coins' = [coins EXCEPT ![l.tc][l.s] = @ - f.n, ![l.tc][f.by] = @ + arriving]
      /\ sent' = [sent EXCEPT ![f.id] = had + f.n]
      /\ Returned(f)
      /\ UNCHANGED <<marketVars, approved, pool, nft, tokenListings,
                     nextTokenListingId, offered>>
  <2>1. coins' = [coins EXCEPT ![l.tc][l.s] = @ - f.n, ![l.tc][f.by] = @ + arriving]
    BY Zenon DEF HandCoins
  <2>2. sent' = [sent EXCEPT ![f.id] = had + f.n]
    BY Zenon DEF HandCoins
  <2>3. /\ ~Idle /\ f.op = "token" /\ Head(f.todo) = "deliver"
        /\ coins[l.tc][l.s] >= f.n
        /\ arriving \in Arrivals(l.tc, f.n)
        /\ Returned(f)
        /\ UNCHANGED <<marketVars, approved, pool, nft, tokenListings,
                       nextTokenListingId, offered>>
    BY DEF HandCoins, InProgress
  <2> QED
    BY <2>1, <2>2, <2>3
<1>3. /\ f.id \in TokenListingIds /\ f.n \in Nat \ {0} /\ f.by \in Accounts
      /\ l.tc \in Tokens /\ l.s \in Accounts
  <2>1. /\ f.id \in TokenListingIds /\ f.n \in Nat \ {0} /\ f.by \in Accounts
        /\ l \in TokenListingRecord /\ TokenAnswers(l)
    BY <1>2, TopToken
  <2> HIDE DEF f, l
  <2> QED
    BY <2>1 DEF TokenListingRecord, TokenAnswers
<1>4. Growing
  BY <1>2 DEF Growing, OfTokens, swapVars, spotVars
<1>5. CallsTyped' /\ StackOK'
  BY <1>2, <1>4, StackDelivers
<1> HIDE DEF f, l
<1>6. arriving \in Nat
  BY <1>2, <1>3 DEF Arrivals
<1>7. coins \in [Tokens -> [Accounts -> Nat]] /\ had \in Nat
  BY <1>1, <1>3 DEF TokenSaleTypeOK
<1>8. had + f.n \in Nat
  <2> HIDE DEF had
  <2> QED
    BY <1>3, <1>7
<1>9. coins' \in [Tokens -> [Accounts -> Nat]]
  BY <1>2, <1>3, <1>6, <1>7, CoinsMove
<1> HIDE DEF had
<1>10. sent' \in [TokenListingIds -> Nat]
  BY <1>1, <1>2, <1>3, <1>8 DEF TokenSaleTypeOK
<1>11. TokensTyped'
  BY <1>1, <1>2, <1>9, <1>10
     DEF TokensTyped, TokenSaleTypeOK, GetTokenListing, TokenListing
<1>12. GoodsTyped' /\ SwapsTyped' /\ SpotsTyped'
  BY <1>2, QuietSwaps, QuietSpots DEF CoreOK, GoodsTyped, OfTokens
<1> QED
  BY <1>5, <1>11, <1>12 DEF CoreOK

(* Delisting closes a token listing. *)
LEMMA DelistTokenCore ==
  ASSUME CoreOK, NEW x \in Accounts, NEW id \in TokenListingIds, DelistToken(x, id),
         OfTokens
  PROVE  CoreOK'
<1> DEFINE l == TokenListing(id)
           off == [l EXCEPT !.act = FALSE]
<1>1. SwapTypeOK /\ SpotTypeOK /\ TokenSaleTypeOK /\ TokensTyped
  BY DEF CoreOK, SwapsTyped, SpotsTyped, TokensTyped
<1>2. /\ l \in TokenListingRecord
      /\ id < nextTokenListingId => TokenAnswers(l)
  BY <1>1, KnownTokens
<1>3. /\ tokenListings' = [tokenListings EXCEPT ![id].act = FALSE]
      /\ UNCHANGED <<marketVars, calls, approved, pool, nft, nextTokenListingId, coins,
                     offered, sent>>
  BY DEF DelistToken
<1>4. tokenListings' = [tokenListings EXCEPT ![id] = off]
  BY <1>1, <1>3 DEF TokenListing, TokenSaleTypeOK
<1>5. off \in TokenListingRecord
  <2> HIDE DEF l
  <2> QED
    BY <1>2 DEF TokenListingRecord
<1>6. TokenAnswers(l) => TokenAnswers(off)
  <2> HIDE DEF l
  <2>1. off.s = l.s /\ off.p = l.p /\ off.fb = l.fb
    BY <1>2 DEF TokenListingRecord
  <2> HIDE DEF off
  <2> QED
    BY <2>1 DEF TokenAnswers
<1>7. /\ nextTokenListingId' = nextTokenListingId
      /\ nextTokenListingId \in 0 .. MaxTokenListings
      /\ UNCHANGED <<coins, sent>> /\ offered' \in [TokenListingIds -> Nat]
  BY <1>1, <1>3 DEF TokenSaleTypeOK
<1>8. /\ nextTokenListingId' <= nextTokenListingId + 1
      /\ ~(nextTokenListingId' > nextTokenListingId)
  BY <1>7, TokenSaleAssumption
<1>9. TokensTyped'
  <2> HIDE DEF off, l
  <2>1. id < nextTokenListingId' => TokenAnswers(off)
    BY <1>2, <1>6, <1>7
  <2>2. nextTokenListingId' > nextTokenListingId => id = nextTokenListingId
    BY <1>8
  <2> QED
    BY <1>1, <1>4, <1>5, <1>7, <1>8, <2>1, <2>2, TokenWritten
<1>10. Growing
  BY <1>3 DEF Growing, OfTokens, swapVars, spotVars
<1>11. CallsTyped' /\ StackOK'
  BY <1>3, <1>10, StackStays
<1>12. GoodsTyped' /\ SwapsTyped' /\ SpotsTyped'
  BY <1>3, QuietSwaps, QuietSpots DEF CoreOK, GoodsTyped, OfTokens
<1> QED
  BY <1>9, <1>11, <1>12 DEF CoreOK

(* Coins change hands without the market. *)
LEMMA TradeTokensCore ==
  ASSUME CoreOK, NEW txy \in TokenTrades, TradeTokens(txy[1], txy[2], txy[3]), OfTokens
  PROVE  CoreOK'
<1> DEFINE t == txy[1]
           x == txy[2]
           y == txy[3]
<1>1. t \in Tokens /\ x \in Accounts /\ y \in Accounts
  BY TokenSaleAssumption
<1>2. /\ SwapTypeOK /\ SpotTypeOK /\ TokenSaleTypeOK /\ TokensTyped
      /\ coins \in [Tokens -> [Accounts -> Nat]]
  BY DEF CoreOK, SwapsTyped, SpotsTyped, TokensTyped, TokenSaleTypeOK
<1>3. /\ \E n \in LotSizes :
           /\ coins[t][x] >= n
           /\ coins' = [coins EXCEPT ![t][x] = @ - n, ![t][y] = @ + n]
      /\ UNCHANGED <<marketVars, calls, approved, pool, nft, tokenListings,
                     nextTokenListingId, offered, sent>>
  BY DEF TradeTokens
<1> HIDE DEF t, x, y
<1>4. coins' \in [Tokens -> [Accounts -> Nat]]
  <2>1. PICK n \in LotSizes :
          /\ coins[t][x] >= n
          /\ coins' = [coins EXCEPT ![t][x] = @ - n, ![t][y] = @ + n]
    BY <1>3
  <2>2. n \in Nat
    BY CustodyAssumption
  <2> QED
    BY <1>1, <1>2, <2>1, <2>2, CoinsMove
<1>5. TokensTyped'
  BY <1>2, <1>3, <1>4 DEF TokensTyped, TokenSaleTypeOK, GetTokenListing, TokenListing
<1>6. Growing
  BY <1>3 DEF Growing, OfTokens, swapVars, spotVars
<1>7. CallsTyped' /\ StackOK'
  BY <1>3, <1>6, StackStays
<1>8. GoodsTyped' /\ SwapsTyped' /\ SpotsTyped'
  BY <1>3, QuietSwaps, QuietSpots DEF CoreOK, GoodsTyped, OfTokens
<1> QED
  BY <1>5, <1>7, <1>8 DEF CoreOK

-----------------------------------------------------------------------------
(* Everybody else: types, frames and holdings.                             *)

(* An approval is no call, no payment and no sale. *)
LEMMA SetApprovalCore ==
  ASSUME CoreOK, NEW ix \in Allowances, SetApproval(ix[1], ix[2])
  PROVE  CoreOK'
<1>1. SwapTypeOK /\ SpotTypeOK /\ TokenSaleTypeOK
  BY DEF CoreOK, SwapsTyped, SpotsTyped, TokensTyped
<1>2. UNCHANGED <<marketVars, calls, pool, nft, outside, saleVars, books>>
  BY DEF SetApproval
<1>3. CallsTyped' /\ StackOK'
  BY <1>1, <1>2, SameGrows, StackStays
<1>4. approved' \subseteq Items \X Accounts
  <2> DEFINE i == ix[1]
             x == ix[2]
  <2>1. <<i, x>> \in Items \X Accounts
    BY ApprovalAssumption
  <2>2. approved' = IF CanPull(i, x) THEN approved \ {<<i, x>>}
                    ELSE approved \cup {<<i, x>>}
    BY DEF SetApproval, FlipApproval
  <2>3. approved \subseteq Items \X Accounts
    BY DEF CoreOK, GoodsTyped
  <2> HIDE DEF i, x
  <2> QED
    BY <2>1, <2>2, <2>3
<1>5. GoodsTyped'
  BY <1>2, <1>4 DEF CoreOK, GoodsTyped
<1>6. SwapsTyped' /\ SpotsTyped' /\ TokensTyped'
  BY <1>2, QuietSwaps, QuietSpots, QuietTokens DEF CoreOK, saleVars
<1> QED
  BY <1>3, <1>5, <1>6 DEF CoreOK

(* Units that change hands without the market: what one has traded away    *)
(* the other has got.                                                      *)
LEMMA TransferOutsideCore ==
  ASSUME CoreOK, NEW ixy \in OutsideTrades, TransferOutside(ixy[1], ixy[2], ixy[3])
  PROVE  /\ CoreOK'
         /\ \A j \in Items, z \in Accounts :
              nft'[j][z] - outside'[<<j, z>>] = nft[j][z] - outside[<<j, z>>]
<1> DEFINE i == ixy[1]
           x == ixy[2]
           y == ixy[3]
<1>1. i \in Items /\ x \in Accounts /\ y \in Accounts
  BY CustodyAssumption
<1>2. /\ SwapTypeOK /\ SpotTypeOK /\ TokenSaleTypeOK
      /\ nft \in [Items -> [Holders -> Nat]]
      /\ outside \in [Items \X Accounts -> Int]
  BY DEF CoreOK, SwapsTyped, SpotsTyped, TokensTyped, GoodsTyped
<1>3. x # y /\ UNCHANGED <<marketVars, calls, approved, pool, saleVars, books>>
  BY DEF TransferOutside
<1>4. PICK n \in LotSizes :
        /\ CanMove(i, x, n)
        /\ nft' = Move(i, x, y, n)
        /\ outside' = [outside EXCEPT ![<<i, x>>] = @ - n, ![<<i, y>>] = @ + n]
  BY DEF TransferOutside
<1> HIDE DEF i, x, y
<1>5. n \in Nat /\ x \in Holders /\ y \in Holders
  BY <1>1, CustodyAssumption DEF Holders
<1>6. /\ nft' \in [Items -> [Holders -> Nat]]
      /\ \A j \in Items \ {i} : nft'[j] = nft[j]
      /\ \A z \in Holders :
           nft'[i][z] = IF z = x THEN nft[i][z] - n
                        ELSE IF z = y THEN nft[i][z] + n ELSE nft[i][z]
  BY <1>1, <1>2, <1>3, <1>4, <1>5, MoveBalances
<1>7. /\ outside' \in [Items \X Accounts -> Int]
      /\ \A j \in Items, z \in Accounts :
           outside'[<<j, z>>] =
             IF j # i THEN outside[<<j, z>>]
             ELSE IF z = x THEN outside[<<j, z>>] - n
             ELSE IF z = y THEN outside[<<j, z>>] + n ELSE outside[<<j, z>>]
  <2> DEFINE mid == [outside EXCEPT ![<<i, x>>] = @ - n]
  <2>1. <<i, x>> \in Items \X Accounts /\ <<i, y>> \in Items \X Accounts
    BY <1>1
  <2>2. <<i, x>> # <<i, y>>
    BY <1>3
  <2>3. mid \in [Items \X Accounts -> Int] /\ mid[<<i, y>>] = outside[<<i, y>>]
    BY <1>2, <1>5, <2>1, <2>2
  <2>4. outside' = [mid EXCEPT ![<<i, y>>] = outside[<<i, y>>] + n]
    BY <1>4, <2>3
  <2>5. outside[<<i, y>>] + n \in Int
    BY <1>2, <1>5, <2>1
  <2>6. outside' \in [Items \X Accounts -> Int]
    <3> HIDE DEF mid
    <3> QED
      BY <2>3, <2>4, <2>5
  <2>7. ASSUME NEW j \in Items, NEW z \in Accounts
        PROVE  outside'[<<j, z>>] =
                 IF j # i THEN outside[<<j, z>>]
                 ELSE IF z = x THEN outside[<<j, z>>] - n
                 ELSE IF z = y THEN outside[<<j, z>>] + n ELSE outside[<<j, z>>]
    <3>1. <<j, z>> \in Items \X Accounts
      OBVIOUS
    <3>2. mid[<<j, z>>] = IF j = i /\ z = x THEN outside[<<j, z>>] - n
                          ELSE outside[<<j, z>>]
      BY <1>2, <3>1
    <3>3. outside'[<<j, z>>] = IF j = i /\ z = y THEN outside[<<i, y>>] + n
                               ELSE mid[<<j, z>>]
      <4> HIDE DEF mid
      <4> QED
        BY <2>3, <2>4, <3>1
    <3> HIDE DEF mid
    <3> QED
      BY <1>3, <3>2, <3>3
  <2> QED
    BY <2>6, <2>7
<1>8. ASSUME NEW j \in Items, NEW z \in Accounts
      PROVE  nft'[j][z] - outside'[<<j, z>>] = nft[j][z] - outside[<<j, z>>]
  <2> DEFINE a == nft[j][z]
             b == outside[<<j, z>>]
  <2>1. z \in Holders /\ <<j, z>> \in Items \X Accounts
    BY DEF Holders
  <2>2. a \in Int /\ b \in Int
    BY <1>2, <2>1
  <2>3. nft'[j][z] = IF j # i THEN a ELSE IF z = x THEN a - n
                     ELSE IF z = y THEN a + n ELSE a
    BY <1>6, <2>1
  <2>4. outside'[<<j, z>>] = IF j # i THEN b ELSE IF z = x THEN b - n
                             ELSE IF z = y THEN b + n ELSE b
    BY <1>7
  <2> HIDE DEF a, b
  <2>5. nft'[j][z] - outside'[<<j, z>>] = a - b
    BY <1>5, <2>2, <2>3, <2>4
  <2> QED
    BY <2>5 DEF a, b
<1>9. GoodsTyped'
  BY <1>3, <1>6, <1>7 DEF CoreOK, GoodsTyped
<1>10. CallsTyped' /\ StackOK'
  BY <1>2, <1>3, SameGrows, StackStays
<1>11. SwapsTyped' /\ SpotsTyped' /\ TokensTyped'
  BY <1>3, QuietSwaps, QuietSpots, QuietTokens DEF CoreOK, saleVars
<1> QED
  BY <1>8, <1>9, <1>10, <1>11 DEF CoreOK

(* A block or a configuration entrypoint touches no sale. *)
LEMMA EnvironmentCore ==
  ASSUME CoreOK, Environment
  PROVE  CoreOK'
<1>1. SwapTypeOK /\ SpotTypeOK /\ TokenSaleTypeOK
  BY DEF CoreOK, SwapsTyped, SpotsTyped, TokensTyped
<1>2. UNCHANGED <<calls, approved, pool, nft, outside, saleVars, books>>
  BY DEF Environment
<1>3. CallsTyped' /\ StackOK'
  BY <1>1, <1>2, SameGrows, StackStays
<1>4. GoodsTyped'
  BY <1>2 DEF CoreOK, GoodsTyped
<1>5. SwapsTyped' /\ SpotsTyped' /\ TokensTyped'
  BY <1>2, QuietSwaps, QuietSpots, QuietTokens DEF CoreOK, saleVars
<1> QED
  BY <1>3, <1>4, <1>5 DEF CoreOK

-----------------------------------------------------------------------------
(* The core invariant.                                                     *)

(* An open swap is known and has not been accepted. *)
OpenSwapsOK ==
  \A id \in SwapIds :
    /\ Swap(id).act => acceptors[id] = <<>> /\ id < nextSwapId
    /\ id >= nextSwapId => acceptors[id] = <<>>

(* An open listing is known. *)
OpenSpotsOK == \A id \in SpotIds : SpotListing(id).act => id < nextSpotId

(* The same for token listings. *)
OpenTokensOK ==
  \A id \in TokenListingIds : TokenListing(id).act => id < nextTokenListingId

(* What is open is known, of every kind. *)
OpenOK == OpenSwapsOK /\ OpenSpotsOK /\ OpenTokensOK

(* The inductive invariant: the money settings, the types, the stack and   *)
(* what is open.                                                           *)
CoreInv == MarketInv /\ CoreOK /\ OpenOK

(* Steps that write no swap or listing leave them as open as they were. *)
LEMMA QuietOpenSwaps == OpenSwapsOK /\ UNCHANGED swapVars => OpenSwapsOK'
BY DEF OpenSwapsOK, swapVars, Swap

(* The same for mint spots. *)
LEMMA QuietOpenSpots ==
  OpenSpotsOK /\ UNCHANGED <<spots, nextSpotId>> => OpenSpotsOK'
BY DEF OpenSpotsOK, SpotListing

(* The same for token listings. *)
LEMMA QuietOpenTokens ==
  OpenTokensOK /\ UNCHANGED <<tokenListings, nextTokenListingId>> => OpenTokensOK'
BY DEF OpenTokensOK, TokenListing

(* What writes a swap opens the next one or closes one. *)
LEMMA ProposeSwapOpen ==
  ASSUME SwapTypeOK, OpenSwapsOK, NEW x, NEW side, NEW tu, NEW tt, NEW exp,
         ProposeSwap(x, side, tu, tt, exp)
  PROVE  OpenSwapsOK'
<1> DEFINE n == nextSwapId
<1>1. /\ n < MaxSwaps /\ nextSwapId' = n + 1 /\ acceptors' = acceptors
      /\ \A id \in SwapIds \ {n} : swaps'[id] = swaps[id]
  BY DEF ProposeSwap, SwapTypeOK
<1>2. n \in Nat
  BY SwapAssumption DEF SwapTypeOK
<1> HIDE DEF n
<1>3. ASSUME NEW id \in SwapIds
      PROVE  /\ swaps'[id].act => acceptors'[id] = <<>> /\ id < n + 1
             /\ id >= n + 1 => acceptors'[id] = <<>>
  <2>1. id \in Nat /\ acceptors'[id] = acceptors[id]
    BY <1>1 DEF SwapIds
  <2>2. /\ swaps[id].act => acceptors[id] = <<>> /\ id < n
        /\ id >= n => acceptors[id] = <<>>
    BY DEF OpenSwapsOK, Swap, n
  <2>3. CASE id = n
    BY <1>2, <2>1, <2>2, <2>3
  <2>4. CASE id # n
    <3>1. swaps'[id] = swaps[id]
      BY <1>1, <2>4
    <3> QED
      BY <1>2, <2>1, <2>2, <2>4, <3>1
  <2> QED
    BY <2>3, <2>4
<1> QED
  BY <1>1, <1>3 DEF OpenSwapsOK, Swap, n

(* An accepted swap is not open any more. *)
LEMMA AcceptSwapOpen ==
  ASSUME SwapTypeOK, OpenSwapsOK, NEW x, NEW id \in SwapIds, AcceptSwap(x, id)
  PROVE  OpenSwapsOK'
<1>1. /\ Swap(id).act /\ nextSwapId' = nextSwapId
      /\ swaps' = Accepted(id) /\ acceptors' = [acceptors EXCEPT ![id] = Append(@, x)]
  BY DEF AcceptSwap
<1>2. /\ \A j \in SwapIds \ {id} : swaps'[j] = swaps[j] /\ acceptors'[j] = acceptors[j]
      /\ swaps'[id].act = FALSE
  <2>1. Swap(id) \in SwapRecord
    BY DEF SwapTypeOK, Swap
  <2>2. swaps' = [swaps EXCEPT ![id] = [Swap(id) EXCEPT !.act = FALSE]]
    BY <1>1 DEF Accepted, Swap
  <2>3. [Swap(id) EXCEPT !.act = FALSE].act = FALSE
    BY <2>1 DEF SwapRecord
  <2> QED
    BY <1>1, <2>2, <2>3 DEF SwapTypeOK
<1>3. id < nextSwapId /\ nextSwapId \in Nat /\ id \in Nat
  BY <1>1, SwapAssumption DEF OpenSwapsOK, SwapTypeOK, SwapIds
<1>4. ~(id >= nextSwapId)
  BY <1>3
<1> QED
  BY <1>1, <1>2, <1>4 DEF OpenSwapsOK, Swap

(* Nor is a cancelled one. *)
LEMMA CancelSwapOpen ==
  ASSUME SwapTypeOK, OpenSwapsOK, NEW x, NEW id \in SwapIds, CancelSwap(x, id)
  PROVE  OpenSwapsOK'
<1>1. /\ nextSwapId' = nextSwapId /\ acceptors' = acceptors
      /\ swaps' = [swaps EXCEPT ![id].act = FALSE]
  BY DEF CancelSwap
<1>2. (\A j \in SwapIds \ {id} : swaps'[j] = swaps[j]) /\ swaps'[id].act = FALSE
  <2>1. Swap(id) \in SwapRecord
    BY DEF SwapTypeOK, Swap
  <2>2. swaps' = [swaps EXCEPT ![id] = [Swap(id) EXCEPT !.act = FALSE]]
    BY <1>1 DEF Swap
  <2>3. [Swap(id) EXCEPT !.act = FALSE].act = FALSE
    BY <2>1 DEF SwapRecord
  <2> QED
    BY <2>2, <2>3 DEF SwapTypeOK
<1> QED
  BY <1>1, <1>2 DEF OpenSwapsOK, Swap

(* What writes a listing opens the next one or leaves it as open at most. *)
LEMMA SpotsOpen ==
  ASSUME SpotTypeOK, OpenSpotsOK, NEW id, nextSpotId' \in {nextSpotId, nextSpotId + 1},
         \A j \in SpotIds \ {id} : spots'[j] = spots[j],
         \/ nextSpotId' = nextSpotId + 1 /\ id = nextSpotId
         \/ spots'[id].act => spots[id].act
  PROVE  OpenSpotsOK'
<1> DEFINE n == nextSpotId
           m == nextSpotId'
<1>1. n \in Nat /\ m \in {n, n + 1}
  BY SpotAssumption DEF SpotTypeOK
<1>2. ASSUME NEW j \in SpotIds, spots'[j].act
      PROVE  j < m
  <2>1. j \in Nat
    BY DEF SpotIds
  <2>2. spots[j].act => j < n
    BY DEF OpenSpotsOK, SpotListing
  <2>3. spots[j].act \/ (j = n /\ m = n + 1)
    BY <1>2
  <2> HIDE DEF n, m
  <2> QED
    BY <1>1, <2>1, <2>2, <2>3
<1> QED
  BY <1>2 DEF OpenSpotsOK, SpotListing

(* A token listing is opened only when it is added. *)
LEMMA TokensOpen ==
  ASSUME TokenSaleTypeOK, OpenTokensOK, NEW id,
         nextTokenListingId' \in {nextTokenListingId, nextTokenListingId + 1},
         \A j \in TokenListingIds \ {id} : tokenListings'[j] = tokenListings[j],
         \/ nextTokenListingId' = nextTokenListingId + 1 /\ id = nextTokenListingId
         \/ tokenListings'[id].act => tokenListings[id].act
  PROVE  OpenTokensOK'
<1> DEFINE n == nextTokenListingId
           m == nextTokenListingId'
<1>1. n \in Nat /\ m \in {n, n + 1}
  BY TokenSaleAssumption DEF TokenSaleTypeOK
<1>2. ASSUME NEW j \in TokenListingIds, tokenListings'[j].act
      PROVE  j < m
  <2>1. j \in Nat
    BY DEF TokenListingIds
  <2>2. tokenListings[j].act => j < n
    BY DEF OpenTokensOK, TokenListing
  <2>3. tokenListings[j].act \/ (j = n /\ m = n + 1)
    BY <1>2
  <2> HIDE DEF n, m
  <2> QED
    BY <1>1, <2>1, <2>2, <2>3
<1> QED
  BY <1>2 DEF OpenTokensOK, TokenListing

(* The legs of a swap are between its proposer and the account that        *)
(* accepted it.                                                            *)
LEMMA LegsCore ==
  ASSUME CoreOK, GiveOffered \/ GiveWanted, OfSwaps
  PROVE  CoreOK' /\ UNCHANGED <<marketVars, swapVars>>
<1> DEFINE f == Top
           w == Swap(f.id)
<1>1. CASE GiveOffered
  <2>1. /\ ~Idle /\ f.op = "swap" /\ Head(f.todo) = "deliver"
        /\ Barter(w.oi, w.p, f.by, w.oa)
    BY <1>1 DEF GiveOffered, InProgress
  <2>2. /\ w \in SwapRecord /\ w.p \in Accounts /\ f.by \in Accounts /\ f.by # w.p
    BY <2>1, TopSwap DEF SwapAnswers
  <2>3. w.oi \in Items /\ w.oa \in Nat
    BY <2>2 DEF SwapRecord
  <2> HIDE DEF w
  <2>4. CoreOK'
    BY <2>1, <2>2, <2>3, BarterCore
  <2> QED
    BY <2>1, <2>4 DEF Barter, HandTo
<1>2. CASE GiveWanted
  <2>1. /\ ~Idle /\ f.op = "swap" /\ Head(f.todo) = "return"
        /\ Barter(w.wi, f.by, w.p, w.wa)
    BY <1>2 DEF GiveWanted, InProgress
  <2>2. /\ w \in SwapRecord /\ w.p \in Accounts /\ f.by \in Accounts /\ f.by # w.p
    BY <2>1, TopSwap DEF SwapAnswers
  <2>3. w.wi \in Items /\ w.wa \in Nat
    BY <2>2 DEF SwapRecord
  <2> HIDE DEF w
  <2>4. CoreOK'
    BY <2>1, <2>2, <2>3, BarterCore
  <2> QED
    BY <2>1, <2>4 DEF Barter, HandTo
<1> QED
  BY <1>1, <1>2

(* The steps of swaps preserve the core invariant. *)
LEMMA SwapStepCore ==
  ASSUME CoreInv, SwapStep
  PROVE  CoreInv'
<1>1. /\ MarketInv /\ CoreOK /\ SwapTypeOK
      /\ OpenSwapsOK /\ OpenSpotsOK /\ OpenTokensOK
  BY DEF CoreInv, OpenOK, CoreOK, SwapsTyped
<1>2. OfSwaps
  BY DEF SwapStep
<1>3. OpenSpotsOK' /\ OpenTokensOK'
  BY <1>1, <1>2, QuietOpenSpots, QuietOpenTokens DEF OfSwaps, spotVars, tokenVars
<1>4. ASSUME NEW x \in Accounts, NEW side \in Sides, NEW topUp \in TopUps,
             NEW exp \in SwapExpirations,
             ProposeSwap(x, side, topUp[1], topUp[2], exp)
      PROVE  MarketInv' /\ CoreOK' /\ OpenSwapsOK'
  <2>1. UNCHANGED marketVars
    BY <1>4 DEF ProposeSwap
  <2> QED
    BY <1>1, <1>2, <1>4, <2>1, UnchangedMarketInv, ProposeSwapCore, ProposeSwapOpen
<1>5. ASSUME NEW x \in Accounts, NEW id \in SwapIds, AcceptSwap(x, id)
      PROVE  MarketInv' /\ CoreOK' /\ OpenSwapsOK'
  <2>1. UNCHANGED marketVars
    BY <1>5 DEF AcceptSwap
  <2>2. Swap(id).act => acceptors[id] = <<>> /\ id < nextSwapId
    BY <1>1 DEF OpenSwapsOK
  <2> QED
    BY <1>1, <1>2, <1>5, <2>1, <2>2, UnchangedMarketInv, AcceptSwapCore, AcceptSwapOpen
<1>6. ASSUME NEW x \in Accounts, NEW id \in SwapIds, CancelSwap(x, id)
      PROVE  MarketInv' /\ CoreOK' /\ OpenSwapsOK'
  <2>1. UNCHANGED marketVars
    BY <1>6 DEF CancelSwap
  <2> QED
    BY <1>1, <1>2, <1>6, <2>1, UnchangedMarketInv, CancelSwapCore, CancelSwapOpen
<1>7. ASSUME GiveOffered \/ GiveWanted
      PROVE  MarketInv' /\ CoreOK' /\ OpenSwapsOK'
  BY <1>1, <1>2, <1>7, LegsCore, UnchangedMarketInv, QuietOpenSwaps
<1>8. MarketInv' /\ CoreOK' /\ OpenSwapsOK'
  BY <1>4, <1>5, <1>6, <1>7 DEF SwapStep
<1> QED
  BY <1>3, <1>8 DEF CoreInv, OpenOK

(* So do those of mint spots. *)
LEMMA SpotStepCore ==
  ASSUME CoreInv, SpotStep
  PROVE  CoreInv'
<1>1. /\ MarketInv /\ CoreOK /\ SpotTypeOK
      /\ OpenSwapsOK /\ OpenSpotsOK /\ OpenTokensOK
  BY DEF CoreInv, OpenOK, CoreOK, SpotsTyped
<1>2. OfSpots
  BY DEF SpotStep
<1>3. OpenSwapsOK' /\ OpenTokensOK'
  BY <1>1, <1>2, QuietOpenSwaps, QuietOpenTokens DEF OfSpots, tokenVars
<1>4. ASSUME NEW x \in Accounts, NEW i \in Items, NEW t \in Tokens,
             NEW p \in SpotPrices, NEW ms \in SpotCaps, NEW exp \in SpotExpirations,
             NEW start \in SpotStarts, ListMintSpots(x, i, t, p, ms, exp, start)
      PROVE  MarketInv' /\ CoreOK' /\ OpenSpotsOK'
  <2>1. UNCHANGED marketVars
    BY <1>4 DEF ListMintSpots
  <2>2. /\ nextSpotId' = nextSpotId + 1
        /\ \A j \in SpotIds \ {nextSpotId} : spots'[j] = spots[j]
    BY <1>1, <1>4 DEF ListMintSpots, SpotTypeOK
  <2>3. OpenSpotsOK'
    BY <1>1, <2>2, SpotsOpen
  <2>4. CoreOK'
    BY <1>1, <1>2, <1>4, ListMintSpotsCore
  <2> QED
    BY <1>1, <2>1, <2>3, <2>4, UnchangedMarketInv
<1>5. ASSUME NEW x \in Accounts, NEW id \in SpotIds, NEW n \in SpotAmounts,
             BuyMintSpot(x, id, n)
      PROVE  MarketInv' /\ CoreOK' /\ OpenSpotsOK'
  <2>1. UNCHANGED marketVars /\ nextSpotId' = nextSpotId /\ spots[id].act
    BY <1>5 DEF BuyMintSpot, SpotListing
  <2>2. \A j \in SpotIds \ {id} : spots'[j] = spots[j]
    BY <1>1, <1>5 DEF BuyMintSpot, SpotsTaken, SpotTypeOK
  <2>3. OpenSpotsOK'
    BY <1>1, <2>1, <2>2, SpotsOpen
  <2>4. SpotListing(id).act => id < nextSpotId
    BY <1>1 DEF OpenSpotsOK
  <2>5. CoreOK'
    BY <1>1, <1>2, <1>5, <2>4, BuyMintSpotCore
  <2> QED
    BY <1>1, <2>1, <2>3, <2>5, UnchangedMarketInv
<1>6. ASSUME NEW x \in Accounts, NEW id \in SpotIds, DelistMintSpots(x, id)
      PROVE  MarketInv' /\ CoreOK' /\ OpenSpotsOK'
  <2>1. UNCHANGED marketVars /\ nextSpotId' = nextSpotId /\ spots[id].act
    BY <1>6 DEF DelistMintSpots, SpotListing
  <2>2. \A j \in SpotIds \ {id} : spots'[j] = spots[j]
    BY <1>1, <1>6 DEF DelistMintSpots, SpotTypeOK
  <2>3. OpenSpotsOK'
    BY <1>1, <2>1, <2>2, SpotsOpen
  <2>4. CoreOK'
    BY <1>1, <1>2, <1>6, DelistMintSpotsCore
  <2> QED
    BY <1>1, <2>1, <2>3, <2>4, UnchangedMarketInv
<1>7. ASSUME Mint
      PROVE  MarketInv' /\ CoreOK' /\ OpenSpotsOK'
  <2>1. UNCHANGED marketVars /\ UNCHANGED <<spots, nextSpotId>>
    BY <1>7 DEF Mint
  <2> QED
    BY <1>1, <1>2, <1>7, <2>1, UnchangedMarketInv, MintCore, QuietOpenSpots
<1>8. MarketInv' /\ CoreOK' /\ OpenSpotsOK'
  BY <1>4, <1>5, <1>6, <1>7 DEF SpotStep
<1> QED
  BY <1>3, <1>8 DEF CoreInv, OpenOK

(* So do those of token sales. *)
LEMMA TokenStepCore ==
  ASSUME CoreInv, TokenStep
  PROVE  CoreInv'
<1>1. /\ MarketInv /\ CoreOK /\ TokenSaleTypeOK
      /\ OpenSwapsOK /\ OpenSpotsOK /\ OpenTokensOK
  BY DEF CoreInv, OpenOK, CoreOK, TokensTyped
<1>2. OfTokens
  BY DEF TokenStep
<1>3. OpenSwapsOK' /\ OpenSpotsOK'
  BY <1>1, <1>2, QuietOpenSwaps, QuietOpenSpots DEF OfTokens, spotVars
<1>4. ASSUME NEW x \in Accounts, NEW tc \in Tokens, NEW t \in Tokens,
             NEW a \in TokenAmounts, NEW p \in TokenPrices,
             NEW exp \in TokenExpirations, NEW start \in TokenStarts,
             ListToken(x, tc, a, p, t, exp, start)
      PROVE  MarketInv' /\ CoreOK' /\ OpenTokensOK'
  <2>1. UNCHANGED marketVars
    BY <1>4 DEF ListToken
  <2>2. /\ nextTokenListingId' = nextTokenListingId + 1
        /\ \A j \in TokenListingIds \ {nextTokenListingId} :
             tokenListings'[j] = tokenListings[j]
    BY <1>1, <1>4 DEF ListToken, TokenSaleTypeOK
  <2>3. OpenTokensOK'
    BY <1>1, <2>2, TokensOpen
  <2>4. CoreOK'
    BY <1>1, <1>2, <1>4, ListTokenCore
  <2> QED
    BY <1>1, <2>1, <2>3, <2>4, UnchangedMarketInv
<1>5. ASSUME NEW x \in Accounts, NEW id \in TokenListingIds, NEW n \in TokenAmounts,
             BuyToken(x, id, n)
      PROVE  MarketInv' /\ CoreOK' /\ OpenTokensOK'
  <2>1. /\ UNCHANGED marketVars /\ nextTokenListingId' = nextTokenListingId
        /\ tokenListings[id].act
    BY <1>5 DEF BuyToken, TokenListing
  <2>2. \A j \in TokenListingIds \ {id} : tokenListings'[j] = tokenListings[j]
    BY <1>1, <1>5 DEF BuyToken, TokensTaken, TokenSaleTypeOK
  <2>3. OpenTokensOK'
    BY <1>1, <2>1, <2>2, TokensOpen
  <2>4. TokenListing(id).act => id < nextTokenListingId
    BY <1>1 DEF OpenTokensOK
  <2>5. CoreOK'
    BY <1>1, <1>2, <1>5, <2>4, BuyTokenCore
  <2> QED
    BY <1>1, <2>1, <2>3, <2>5, UnchangedMarketInv
<1>6. ASSUME NEW x \in Accounts, NEW id \in TokenListingIds, DelistToken(x, id)
      PROVE  MarketInv' /\ CoreOK' /\ OpenTokensOK'
  <2>1. /\ UNCHANGED marketVars /\ nextTokenListingId' = nextTokenListingId
        /\ tokenListings[id].act
    BY <1>6 DEF DelistToken, TokenListing
  <2>2. \A j \in TokenListingIds \ {id} : tokenListings'[j] = tokenListings[j]
    BY <1>1, <1>6 DEF DelistToken, TokenSaleTypeOK
  <2>3. OpenTokensOK'
    BY <1>1, <2>1, <2>2, TokensOpen
  <2>4. CoreOK'
    BY <1>1, <1>2, <1>6, DelistTokenCore
  <2> QED
    BY <1>1, <2>1, <2>3, <2>4, UnchangedMarketInv
<1>7. ASSUME NEW arriving, HandCoins(arriving)
      PROVE  MarketInv' /\ CoreOK' /\ OpenTokensOK'
  <2>1. UNCHANGED marketVars /\ UNCHANGED <<tokenListings, nextTokenListingId>>
    BY <1>7 DEF HandCoins
  <2> QED
    BY <1>1, <1>2, <1>7, <2>1, UnchangedMarketInv, HandCoinsCore, QuietOpenTokens
<1>8. ASSUME NEW txy \in TokenTrades, TradeTokens(txy[1], txy[2], txy[3])
      PROVE  MarketInv' /\ CoreOK' /\ OpenTokensOK'
  <2>1. UNCHANGED marketVars /\ UNCHANGED <<tokenListings, nextTokenListingId>>
    BY <1>8 DEF TradeTokens
  <2> QED
    BY <1>1, <1>2, <1>8, <2>1, UnchangedMarketInv, TradeTokensCore, QuietOpenTokens
<1>9. MarketInv' /\ CoreOK' /\ OpenTokensOK'
  BY <1>4, <1>5, <1>6, <1>7, <1>8 DEF TokenStep
<1> QED
  BY <1>3, <1>9 DEF CoreInv, OpenOK

(* Every step preserves the core invariant. *)
LEMMA CoreStep ==
  ASSUME CoreInv, [Next]_vars
  PROVE  CoreInv'
<1>1. MarketInv /\ CoreOK /\ OpenSwapsOK /\ OpenSpotsOK /\ OpenTokensOK
  BY DEF CoreInv, OpenOK
<1>2. SwapTypeOK /\ SpotTypeOK /\ TokenSaleTypeOK
  BY <1>1 DEF CoreOK, SwapsTyped, SpotsTyped, TokensTyped
<1>3. ASSUME UNCHANGED saleVars
      PROVE  OpenOK'
  BY <1>1, <1>3, QuietOpenSwaps, QuietOpenSpots, QuietOpenTokens
     DEF OpenOK, saleVars, spotVars, tokenVars
<1>4. CASE Environment
  <2>1. MarketInv'
    BY <1>1, <1>4, TickInv, ConfigureInv DEF Environment
  <2>2. UNCHANGED saleVars
    BY <1>4 DEF Environment
  <2> QED
    BY <1>1, <1>3, <1>4, <2>1, <2>2, EnvironmentCore DEF CoreInv
<1>5. CASE MoneyMoves
  <2>1. UNCHANGED marketVars /\ UNCHANGED <<approved, nft>>
        /\ UNCHANGED <<saleVars, outside>>
    BY <1>5 DEF MoneyMoves
  <2>2. MarketInv' /\ OpenOK'
    BY <1>1, <1>3, <2>1, UnchangedMarketInv
  <2>3. CASE PayOut
    BY <1>1, <2>1, <2>2, <2>3, PayOutCore DEF CoreInv
  <2>4. CASE \E arrived \in 0 .. (IF Idle THEN 0 ELSE Top.ask) : Pay(arrived) /\ Silent
    BY <1>1, <2>1, <2>2, <2>4, PayCore DEF CoreInv
  <2> QED
    BY <1>5, <2>3, <2>4 DEF MoneyMoves
<1>6. CASE SwapStep
  BY <1>6, SwapStepCore
<1>7. CASE SpotStep
  BY <1>7, SpotStepCore
<1>8. CASE TokenStep
  BY <1>8, TokenStepCore
<1>9. CASE \E ix \in Allowances : SetApproval(ix[1], ix[2])
  <2>1. UNCHANGED marketVars /\ UNCHANGED saleVars
    BY <1>9 DEF SetApproval
  <2> QED
    BY <1>1, <1>3, <1>9, <2>1, UnchangedMarketInv, SetApprovalCore DEF CoreInv
<1>10. CASE \E ixy \in OutsideTrades : TransferOutside(ixy[1], ixy[2], ixy[3])
  <2>1. UNCHANGED marketVars /\ UNCHANGED saleVars
    BY <1>10 DEF TransferOutside
  <2> QED
    BY <1>1, <1>3, <1>10, <2>1, UnchangedMarketInv, TransferOutsideCore DEF CoreInv
<1>11. CASE UNCHANGED vars
  <2>1. /\ UNCHANGED marketVars /\ UNCHANGED saleVars
        /\ UNCHANGED <<calls, approved, pool, nft, outside>>
    BY <1>11 DEF vars
  <2>2. CallsTyped' /\ StackOK'
    BY <1>1, <1>2, <2>1, SameGrows, StackStays
  <2>3. GoodsTyped'
    BY <1>1, <2>1 DEF CoreOK, GoodsTyped
  <2>4. SwapsTyped' /\ SpotsTyped' /\ TokensTyped'
    BY <1>1, <2>1, QuietSwaps, QuietSpots, QuietTokens DEF CoreOK, saleVars
  <2> QED
    BY <1>1, <1>3, <2>1, <2>2, <2>3, <2>4, UnchangedMarketInv DEF CoreInv, CoreOK
<1> QED
  BY <1>4, <1>5, <1>6, <1>7, <1>8, <1>9, <1>10, <1>11 DEF Next

(* Before anything is proposed or listed there is nothing to type or hold. *)
LEMMA CoreAtFirst == Init => CoreInv
<1> SUFFICES ASSUME Init
             PROVE  CoreInv
  OBVIOUS
<1> DEFINE item == CHOOSE i \in Items : TRUE
           token == CHOOSE t \in Tokens : TRUE
<1>1. item \in Items /\ token \in Tokens
  BY CustodyAssumption
<1>2. MarketInv
  BY MarketInitInv DEF Init
<1>3. CallsTyped /\ StackOK
  <2>1. calls = <<>> /\ pool = [t \in Tokens |-> 0]
    BY DEF Init
  <2>2. calls \in Seq(Frame) /\ Len(calls) = 0 /\ DOMAIN calls = {}
    BY <2>1
  <2>3. CallsTyped
    BY <2>2, CallAssumption DEF CallsTyped
  <2>4. FramesOK /\ BalancesRead
    BY <2>2 DEF FramesOK, BalancesRead
  <2>5. HoldingsOK
    BY <2>1, WeighedNone DEF HoldingsOK
  <2> QED
    BY <2>3, <2>4, <2>5 DEF StackOK
<1>4. GoodsTyped
  <2>1. approved = Items \X Accounts
    BY DEF Init, ApprovalInit
  <2>2. pool \in [Tokens -> Nat] /\ outside \in [Items \X Accounts -> Int]
    BY DEF Init
  <2>3. nft \in [Items -> [Holders -> Nat]]
    <3>1. ASSUME NEW i \in Items
          PROVE  [x \in Holders |-> IF x = Market THEN 0 ELSE MintedTo[i][x]]
                   \in [Holders -> Nat]
      <4>1. MintedTo[i] \in [Accounts -> Nat]
        BY CustodyAssumption
      <4> QED
        BY <4>1 DEF Holders
    <3> QED
      BY <3>1 DEF Init
  <2> QED
    BY <2>1, <2>2, <2>3 DEF GoodsTyped
<1>5. SwapsTyped /\ OpenSwapsOK
  <2>1. /\ swaps = [id \in SwapIds |-> NoSwap] /\ nextSwapId = 0
        /\ acceptors = [id \in SwapIds |-> <<>>]
        /\ charged = [id \in SwapIds |-> [fb |-> 0, rs |-> <<>>]]
    BY DEF Init, SwapInit
  <2>2. /\ NoSwap = [p |-> NoAccount, oi |-> item, oa |-> 0, wi |-> item, wa |-> 0,
                     tu |-> 0, tt |-> token, act |-> FALSE, exp |-> 0, fb |-> 0,
                     rb |-> 0, rr |-> NoAccount, rs |-> <<>>]
    BY DEF NoSwap
  <2> HIDE DEF item, token
  <2>3. NoSwap \in SwapRecord /\ NoSwap.act = FALSE
    BY <1>1, <2>2 DEF SwapRecord
  <2>4. [fb |-> 0, rs |-> <<>>] \in Terms
    BY DEF Terms
  <2>5. SwapTypeOK
    <3>1. nextSwapId \in 0 .. MaxSwaps
      BY <2>1, SwapAssumption
    <3>2. <<>> \in Seq(Accounts)
      OBVIOUS
    <3> QED
      BY <2>1, <2>3, <2>4, <3>1, <3>2 DEF SwapTypeOK
  <2>6. 0 .. nextSwapId - 1 = {}
    BY <2>1
  <2> QED
    BY <2>1, <2>3, <2>5, <2>6 DEF SwapsTyped, OpenSwapsOK, Swap
<1>6. SpotsTyped /\ OpenSpotsOK
  <2>1. /\ spots = [id \in SpotIds |-> NoSpots] /\ nextSpotId = 0
        /\ mintRight = MintRight /\ minted = [ix \in SpotIds \X Accounts |-> 0]
    BY DEF Init, SpotInit
  <2>2. NoSpots = [s |-> NoAccount, item |-> item, pt |-> token, p |-> 0, ms |-> 0,
                   sold |-> 0, act |-> FALSE, exp |-> 0, sb |-> 0, fb |-> 0]
    BY DEF NoSpots
  <2> HIDE DEF item, token
  <2>3. NoSpots \in SpotRecord /\ NoSpots.act = FALSE
    BY <1>1, <2>2 DEF SpotRecord
  <2>4. SpotTypeOK
    <3>1. nextSpotId \in 0 .. MaxSpotListings
      BY <2>1, SpotAssumption
    <3> QED
      BY <2>1, <2>3, <3>1, SpotAssumption DEF SpotTypeOK
  <2>5. 0 .. nextSpotId - 1 = {}
    BY <2>1
  <2> QED
    BY <2>1, <2>3, <2>4, <2>5 DEF SpotsTyped, OpenSpotsOK, SpotListing
<1>7. TokensTyped /\ OpenTokensOK
  <2>1. /\ tokenListings = [id \in TokenListingIds |-> NoTokenListing]
        /\ nextTokenListingId = 0 /\ coins = CoinsAtFirst
        /\ offered = [id \in TokenListingIds |-> 0]
        /\ sent = [id \in TokenListingIds |-> 0]
    BY DEF Init, TokenSaleInit
  <2>2. NoTokenListing = [s |-> NoAccount, tc |-> token, a |-> 0, p |-> 0, pt |-> token,
                          act |-> FALSE, exp |-> 0, sb |-> 0, fb |-> 0]
    BY DEF NoTokenListing
  <2> HIDE DEF item, token
  <2>3. NoTokenListing \in TokenListingRecord /\ NoTokenListing.act = FALSE
    BY <1>1, <2>2 DEF TokenListingRecord
  <2>4. TokenSaleTypeOK
    <3>1. nextTokenListingId \in 0 .. MaxTokenListings
      BY <2>1, TokenSaleAssumption
    <3> QED
      BY <2>1, <2>3, <3>1, TokenSaleAssumption DEF TokenSaleTypeOK
  <2>5. 0 .. nextTokenListingId - 1 = {}
    BY <2>1
  <2> QED
    BY <2>1, <2>3, <2>4, <2>5 DEF TokensTyped, OpenTokensOK, TokenListing
<1> QED
  BY <1>2, <1>3, <1>4, <1>5, <1>6, <1>7 DEF CoreInv, CoreOK, OpenOK

(* The core invariant holds in every state of the specification. *)
THEOREM CoreInvariant == Spec => []CoreInv
<1>1. Init => CoreInv
  BY CoreAtFirst
<1>2. CoreInv /\ [Next]_vars => CoreInv'
  BY CoreStep
<1> QED
  BY <1>1, <1>2, PTL DEF Spec

(* Every variable keeps its type, and every known swap and listing answers *)
(* a query within the range of its response type: terms are positive, fees *)
(* at most 100%, and numbers of spots fit their width (proposeSwap,        *)
(* listMintSpots, listToken and the queries).                              *)
THEOREM SalesTypesAreOK == Spec => []SalesTypeOK
<1>1. CoreInv => SalesTypeOK
  BY DEF CoreInv, MarketInv, CoreOK, CallsTyped, GoodsTyped, SwapsTyped, SpotsTyped,
         TokensTyped, SalesTypeOK
<1> QED
  BY <1>1, CoreInvariant, PTL

(* The market keeps nothing of these sales: at every moment its balance of *)
(* a token is what the purchases in progress have taken in and not yet     *)
(* paid out, however deep they are nested and whether a payment was        *)
(* measured or taken at its face value (escrowIn's balance delta and the   *)
(* payouts of acceptSwap, buyMintSpot and buyToken).                       *)
THEOREM NothingIsKept == Spec => []NothingKept
<1>1. CoreInv => NothingKept
  BY SumsWeigh DEF CoreInv, CoreOK, CallsTyped, StackOK
<1> QED
  BY <1>1, CoreInvariant, PTL
=============================================================================
