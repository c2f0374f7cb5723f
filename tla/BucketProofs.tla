---------------------------- MODULE BucketProofs ----------------------------
(***************************************************************************)
(* The safety properties of Buckets, proved for any number of buckets,     *)
(* stacks, slots and draws: the four levels of counters agree at every     *)
(* moment of a purchase, every draw finds one entry, what is drawn is held *)
(* by the seller, and every unit is accounted for.                         *)
(***************************************************************************)
EXTENDS Buckets, MarketProofs

-----------------------------------------------------------------------------
(* Chunks and slots.                                                       *)

(* Chunks are numbered from 1, in the order of their slots, one after the  *)
(* other.                                                                  *)
LEMMA ChunkNumbers ==
  ASSUME NEW i \in Nat \ {0}
  PROVE  /\ ChunkOf(i) \in Nat \ {0}
         /\ ChunkOf(1) = 1
         /\ ChunkOf(i + 1) \in {ChunkOf(i), ChunkOf(i) + 1}
<1> DEFINE c == BucketChunk
           p == (i - 1) \div c
           q == i \div c
<1>1. c \in Nat \ {0}
  BY BucketAssumption
<1>2. /\ p \in Nat /\ c * p <= i - 1 /\ i - 1 < c * p + c
      /\ q \in Nat /\ c * q <= i /\ i < c * q + c
  <2>1. i - 1 \in Nat
    OBVIOUS
  <2> HIDE DEF c
  <2> QED
    BY <1>1, <2>1, Division
<1>3. p <= q
  BY <1>1, DivisionOrdered
<1>4. q <= p + 1
  <2> SUFFICES ASSUME p + 2 <= q
               PROVE  FALSE
    BY <1>2
  <2> HIDE DEF p, q, c
  <2>1. c * (p + 2) <= c * q
    BY <1>1, <1>2, ProductOrdered
  <2>2. c * (p + 2) = c * p + c + c
    BY <1>1, <1>2, Z3
  <2>3. c * p \in Nat /\ c * q \in Nat
    BY <1>1, <1>2
  <2> QED
    BY <1>1, <1>2, <2>1, <2>2, <2>3
<1>5. 0 \div c = 0
  <2> DEFINE z == 0 \div c
  <2>1. z \in Nat /\ c * z <= 0
    BY <1>1, Division
  <2> HIDE DEF z, c
  <2>2. CASE z # 0
    <3>1. c * 1 <= c * z
      BY <1>1, <2>1, <2>2, ProductOrdered
    <3> QED
      BY <1>1, <2>1, <3>1
  <2> QED
    BY <2>2 DEF z, c
<1>6. ChunkOf(i) = p + 1 /\ ChunkOf(i + 1) = q + 1 /\ ChunkOf(1) = (0 \div c) + 1
  BY DEF ChunkOf
<1> HIDE DEF p, q, c
<1> QED
  BY <1>2, <1>3, <1>4, <1>5, <1>6

(* A later slot is in no earlier chunk. *)
LEMMA ChunksOrdered ==
  ASSUME NEW i \in Nat \ {0}, NEW l \in Nat \ {0}, i <= l
  PROVE  ChunkOf(i) <= ChunkOf(l)
<1>1. BucketChunk \in Nat \ {0}
  BY BucketAssumption
<1>2. i - 1 \in Nat /\ l - 1 \in Nat /\ i - 1 <= l - 1
  OBVIOUS
<1>3. (i - 1) \div BucketChunk <= (l - 1) \div BucketChunk
  BY <1>1, <1>2, DivisionOrdered
<1>4. (i - 1) \div BucketChunk \in Nat /\ (l - 1) \div BucketChunk \in Nat
  BY <1>1, <1>2, Division
<1> QED
  BY <1>3, <1>4 DEF ChunkOf

-----------------------------------------------------------------------------
(* What some of the slots of a stack hold.                                 *)

SlotUnits(sl, S) == Total([i \in S |-> sl[i].u])

(* A slot has an item and a number of units. *)
LEMMA SlotsType ==
  ASSUME NEW sl \in Seq(Entry)
  PROVE  /\ DOMAIN sl = 1 .. Len(sl) /\ Len(sl) \in Nat /\ IsFiniteSet(DOMAIN sl)
         /\ \A i \in DOMAIN sl : sl[i] \in Entry /\ sl[i].item \in Items /\ sl[i].u \in Nat
<1>1. DOMAIN sl = 1 .. Len(sl) /\ Len(sl) \in Nat
  OBVIOUS
<1>2. \A i \in DOMAIN sl : sl[i] \in Entry
  OBVIOUS
<1>3. \A e \in Entry : e.item \in Items /\ e.u \in Nat
  BY DEF Entry
<1> QED
  BY <1>1, <1>2, <1>3, FS_Interval

(* It is a number. *)
LEMMA SlotUnitsType ==
  ASSUME NEW sl \in Seq(Entry), NEW S \in SUBSET (DOMAIN sl)
  PROVE  IsFiniteSet(S) /\ SlotUnits(sl, S) \in Nat
<1>2. IsFiniteSet(S)
  BY SlotsType, FS_Subset
<1>3. [i \in S |-> sl[i].u] \in [S -> Nat]
  BY SlotsType
<1> QED
  BY <1>2, <1>3, TotalType DEF SlotUnits

(* Slots of two kinds. *)
LEMMA SlotUnitsUnion ==
  ASSUME NEW sl \in Seq(Entry), NEW A \in SUBSET (DOMAIN sl), NEW B \in SUBSET (DOMAIN sl),
         A \cap B = {}
  PROVE  SlotUnits(sl, A \cup B) = SlotUnits(sl, A) + SlotUnits(sl, B)
<1> DEFINE a == [i \in A |-> sl[i].u]
           b == [i \in B |-> sl[i].u]
           c == [i \in A \cup B |-> sl[i].u]
<1>1. DOMAIN a = A /\ DOMAIN b = B /\ DOMAIN c = A \cup B
  OBVIOUS
<1>2. a \in [DOMAIN a -> Nat] /\ b \in [DOMAIN b -> Nat]
  BY SlotsType
<1>3. (\A i \in A : c[i] = a[i]) /\ (\A i \in B : c[i] = b[i])
  OBVIOUS
<1>4. IsFiniteSet(A) /\ IsFiniteSet(B)
  BY SlotUnitsType
<1> HIDE DEF a, b, c
<1>5. Total(c) = Total(a) + Total(b)
  BY <1>1, <1>2, <1>3, <1>4, TotalUnion
<1> QED
  BY <1>5 DEF SlotUnits, a, b, c

(* One slot. *)
LEMMA SlotUnitsOne ==
  ASSUME NEW sl \in Seq(Entry), NEW i \in DOMAIN sl
  PROVE  SlotUnits(sl, {i}) = sl[i].u /\ sl[i].u \in Nat
<1> DEFINE f == [l \in {i} |-> sl[l].u]
<1>1. f \in [{i} -> Nat] /\ f[i] = sl[i].u
  BY SlotsType
<1> HIDE DEF f
<1>2. Total(f) = f[i]
  BY <1>1, TotalSingle
<1> QED
  BY <1>1, <1>2 DEF SlotUnits, f

(* No slots. *)
LEMMA SlotUnitsNone ==
  ASSUME NEW sl
  PROVE  SlotUnits(sl, {}) = 0
<1>1. [i \in {} |-> sl[i].u] = [i \in {} |-> 0]
  OBVIOUS
<1> QED
  BY <1>1, TotalZero DEF SlotUnits

(* A slot holds no more than the slots it is among. *)
LEMMA SlotWithin ==
  ASSUME NEW sl \in Seq(Entry), NEW S \in SUBSET (DOMAIN sl), NEW i \in S
  PROVE  sl[i].u <= SlotUnits(sl, S)
<1> DEFINE f == [l \in S |-> sl[l].u]
<1>1. f \in [S -> Nat] /\ f[i] = sl[i].u
  BY SlotsType
<1>2. IsFiniteSet(S)
  BY SlotUnitsType
<1> HIDE DEF f
<1>3. f[i] <= Total(f)
  BY <1>1, <1>2, TotalBound
<1> QED
  BY <1>1, <1>3 DEF SlotUnits, f

(* Units taken from a slot. *)
Reduced(sl, i, n) == [sl EXCEPT ![i].u = @ - n]

(* They are taken from the slots it is among, and from no others.          *)
LEMMA SlotUnitsTaken ==
  ASSUME NEW sl \in Seq(Entry), NEW i \in DOMAIN sl, NEW n \in Nat, n <= sl[i].u
  PROVE  /\ Reduced(sl, i, n) \in Seq(Entry)
         /\ DOMAIN Reduced(sl, i, n) = DOMAIN sl /\ Len(Reduced(sl, i, n)) = Len(sl)
         /\ \A l \in DOMAIN sl :
              /\ Reduced(sl, i, n)[l].item = sl[l].item
              /\ Reduced(sl, i, n)[l].u = IF l = i THEN sl[l].u - n ELSE sl[l].u
         /\ \A S \in SUBSET (DOMAIN sl) :
              SlotUnits(Reduced(sl, i, n), S)
                = IF i \in S THEN SlotUnits(sl, S) - n ELSE SlotUnits(sl, S)
<1> DEFINE e == [sl[i] EXCEPT !.u = sl[i].u - n]
           new == Reduced(sl, i, n)
<1>1. sl[i] \in Entry /\ e \in Entry /\ e.item = sl[i].item /\ e.u = sl[i].u - n
  <2>1. sl[i] \in Entry /\ sl[i].u \in Nat
    BY SlotsType
  <2> QED
    BY <2>1 DEF Entry
<1>2. new = [sl EXCEPT ![i] = e]
  BY DEF Reduced
<1>3. new \in Seq(Entry) /\ DOMAIN new = DOMAIN sl /\ Len(new) = Len(sl)
  <2> HIDE DEF e, new
  <2> QED
    BY <1>1, <1>2
<1>4. ASSUME NEW l \in DOMAIN sl
      PROVE  /\ new[l].item = sl[l].item
             /\ new[l].u = IF l = i THEN sl[l].u - n ELSE sl[l].u
  <2> HIDE DEF e, new
  <2>1. new[l] = IF l = i THEN e ELSE sl[l]
    BY <1>2
  <2> QED
    BY <1>1, <2>1
<1>5. ASSUME NEW S \in SUBSET (DOMAIN sl)
      PROVE  SlotUnits(new, S) = IF i \in S THEN SlotUnits(sl, S) - n ELSE SlotUnits(sl, S)
  <2> DEFINE f == [l \in S |-> sl[l].u]
             g == [l \in S |-> new[l].u]
  <2>1. IsFiniteSet(S)
    BY SlotUnitsType
  <2>2. f \in [S -> Nat] /\ g \in [S -> Nat]
    <3> HIDE DEF new
    <3> QED
      BY <1>3, SlotsType
  <2>3. \A l \in S : g[l] = IF l = i THEN f[l] - n ELSE f[l]
    <3> HIDE DEF new
    <3> QED
      BY <1>4
  <2>4. Total(f) \in Nat
    <3> HIDE DEF f, g
    <3> QED
      BY <2>1, <2>2, TotalType
  <2>5. CASE i \in S
    <3> HIDE DEF f, g
    <3>1. Total(g) = Total(f) - f[i] + g[i]
      BY <2>1, <2>2, <2>3, <2>5, TotalUpdate
    <3>2. g[i] = f[i] - n /\ f[i] \in Nat
      BY <2>2, <2>3, <2>5
    <3>3. Total(g) = Total(f) - n
      BY <2>4, <3>1, <3>2
    <3> QED
      BY <2>5, <3>3 DEF SlotUnits, f, g
  <2>6. CASE i \notin S
    <3>1. f = g
      <4> HIDE DEF new
      <4> QED
        BY <2>3, <2>6
    <3> QED
      BY <2>6, <3>1 DEF SlotUnits
  <2> QED
    BY <2>5, <2>6
<1> QED
  BY <1>3, <1>4, <1>5

(* A slot more. *)
LEMMA SlotUnitsAppended ==
  ASSUME NEW sl \in Seq(Entry), NEW e \in Entry
  PROVE  LET new == Append(sl, e)
             n == Len(sl) + 1 IN
         /\ new \in Seq(Entry) /\ Len(new) = n /\ DOMAIN new = DOMAIN sl \cup {n}
         /\ n \notin DOMAIN sl /\ n \in DOMAIN new /\ new[n] = e
         /\ \A i \in DOMAIN sl : new[i] = sl[i]
         /\ \A S \in SUBSET (DOMAIN sl) :
              /\ SlotUnits(new, S) = SlotUnits(sl, S)
              /\ SlotUnits(new, S \cup {n}) = SlotUnits(sl, S) + e.u
<1> DEFINE new == Append(sl, e)
           n == Len(sl) + 1
<1>1. /\ new \in Seq(Entry) /\ Len(new) = n /\ DOMAIN new = DOMAIN sl \cup {n}
      /\ n \notin DOMAIN sl /\ new[n] = e /\ n \in DOMAIN new
      /\ \A i \in DOMAIN sl : new[i] = sl[i]
  OBVIOUS
<1>2. ASSUME NEW S \in SUBSET (DOMAIN sl)
      PROVE  /\ SlotUnits(new, S) = SlotUnits(sl, S)
             /\ SlotUnits(new, S \cup {n}) = SlotUnits(sl, S) + e.u
  <2> HIDE DEF new, n
  <2>1. [i \in S |-> new[i].u] = [i \in S |-> sl[i].u]
    BY <1>1
  <2>2. SlotUnits(new, S) = SlotUnits(sl, S)
    BY <2>1 DEF SlotUnits
  <2>3. SlotUnits(new, S \cup {n}) = SlotUnits(new, S) + SlotUnits(new, {n})
    <3>1. S \in SUBSET (DOMAIN new) /\ {n} \in SUBSET (DOMAIN new) /\ S \cap {n} = {}
      BY <1>1
    <3> QED
      BY <1>1, <3>1, SlotUnitsUnion
  <2>4. SlotUnits(new, {n}) = e.u
    BY <1>1, SlotUnitsOne
  <2> QED
    BY <2>2, <2>3, <2>4
<1> QED
  BY <1>1, <1>2

-----------------------------------------------------------------------------
(* The counters of one stack.                                              *)

(* The slots of a chunk. *)
InChunk(sl, j) == {i \in DOMAIN sl : ChunkOf(i) = j}

(* The chunk sums and the sum of a stack are those of its slots, and there *)
(* is a sum for every chunk that has a slot.                               *)
StackOK(sl, ch, u) ==
  /\ sl \in Seq(Entry) /\ ch \in Seq(Nat) /\ u \in Nat
  /\ u = SlotUnits(sl, DOMAIN sl)
  /\ Len(ch) = IF Len(sl) = 0 THEN 0 ELSE ChunkOf(Len(sl))
  /\ \A j \in DOMAIN ch : ch[j] = SlotUnits(sl, InChunk(sl, j))

(* Every slot is in a chunk. *)
LEMMA ChunkThere ==
  ASSUME NEW sl, NEW ch, NEW u, StackOK(sl, ch, u), NEW i \in DOMAIN sl
  PROVE  ChunkOf(i) \in DOMAIN ch /\ ChunkOf(i) \in Nat \ {0}
<1>1. i \in Nat \ {0} /\ Len(sl) \in Nat \ {0} /\ i <= Len(sl) /\ Len(sl) # 0
  BY SlotsType DEF StackOK
<1>2. ChunkOf(i) <= ChunkOf(Len(sl)) /\ ChunkOf(i) \in Nat \ {0}
  BY <1>1, ChunksOrdered, ChunkNumbers
<1>3. Len(ch) = ChunkOf(Len(sl)) /\ DOMAIN ch = 1 .. Len(ch) /\ Len(ch) \in Nat
  BY <1>1 DEF StackOK
<1> QED
  BY <1>2, <1>3

(* Taking units from a slot, its chunk and the stack keeps them in step. *)
LEMMA StackTake ==
  ASSUME NEW sl, NEW ch, NEW u, StackOK(sl, ch, u), NEW i \in DOMAIN sl,
         NEW n \in Nat, n <= sl[i].u
  PROVE  StackOK(Reduced(sl, i, n), [ch EXCEPT ![ChunkOf(i)] = @ - n], u - n)
<1> DEFINE new == Reduced(sl, i, n)
           c == ChunkOf(i)
           less == [ch EXCEPT ![c] = @ - n]
<1>1. sl \in Seq(Entry) /\ ch \in Seq(Nat) /\ u \in Nat
  BY DEF StackOK
<1>2. /\ new \in Seq(Entry) /\ DOMAIN new = DOMAIN sl /\ Len(new) = Len(sl)
      /\ \A S \in SUBSET (DOMAIN sl) :
           SlotUnits(new, S) = IF i \in S THEN SlotUnits(sl, S) - n ELSE SlotUnits(sl, S)
  BY <1>1, SlotUnitsTaken
<1>3. c \in DOMAIN ch
  BY ChunkThere
<1>4. \A S \in SUBSET (DOMAIN sl) : i \in S => n <= SlotUnits(sl, S) /\ SlotUnits(sl, S) \in Nat
  <2> SUFFICES ASSUME NEW S \in SUBSET (DOMAIN sl), i \in S
               PROVE  n <= SlotUnits(sl, S) /\ SlotUnits(sl, S) \in Nat
    OBVIOUS
  <2>1. sl[i].u <= SlotUnits(sl, S) /\ SlotUnits(sl, S) \in Nat
    BY <1>1, SlotWithin, SlotUnitsType
  <2>2. sl[i].u \in Nat
    BY <1>1, SlotsType
  <2> QED
    BY <2>1, <2>2
<1>5. ASSUME NEW j
      PROVE  InChunk(new, j) = InChunk(sl, j) /\ InChunk(sl, j) \in SUBSET (DOMAIN sl)
  <2> HIDE DEF new
  <2> QED
    BY <1>2 DEF InChunk
<1>6. i \in InChunk(sl, c) /\ \A j : j # c => i \notin InChunk(sl, j)
  BY DEF InChunk
<1>7. ch[c] = SlotUnits(sl, InChunk(sl, c)) /\ ch[c] - n \in Nat
  <2>1. ch[c] = SlotUnits(sl, InChunk(sl, c))
    BY <1>3 DEF StackOK
  <2> QED
    BY <1>4, <1>5, <1>6, <2>1
<1>8. less \in Seq(Nat) /\ Len(less) = Len(ch) /\ DOMAIN less = DOMAIN ch
  <2> DEFINE v == ch[c] - n
  <2>1. less = [ch EXCEPT ![c] = v] /\ v \in Nat
    BY <1>7
  <2> HIDE DEF v, less, c
  <2> QED
    BY <1>1, <1>3, <2>1
<1>9. ASSUME NEW j \in DOMAIN ch
      PROVE  less[j] = SlotUnits(new, InChunk(new, j))
  <2>1. ch[j] = SlotUnits(sl, InChunk(sl, j))
    BY DEF StackOK
  <2>2. less[j] = IF j = c THEN ch[j] - n ELSE ch[j]
    BY <1>1
  <2> HIDE DEF new, less, c
  <2> QED
    BY <1>2, <1>5, <1>6, <2>1, <2>2
<1>10. u = SlotUnits(sl, DOMAIN sl) /\ u - n = SlotUnits(new, DOMAIN new) /\ u - n \in Nat
  <2>1. u = SlotUnits(sl, DOMAIN sl)
    BY DEF StackOK
  <2> HIDE DEF new
  <2> QED
    BY <1>2, <1>4, <2>1
<1>11. Len(ch) = IF Len(sl) = 0 THEN 0 ELSE ChunkOf(Len(sl))
  BY DEF StackOK
<1> HIDE DEF new, less, c
<1>12. StackOK(new, less, u - n)
  BY <1>2, <1>8, <1>9, <1>10, <1>11 DEF StackOK
<1> QED
  BY <1>12 DEF new, less, c

(* A slot more opens a chunk or adds to the last one. *)
LEMMA StackAppend ==
  ASSUME NEW sl, NEW ch, NEW u, StackOK(sl, ch, u), NEW e \in Entry
  PROVE  LET j == ChunkOf(Len(sl) + 1) IN
         StackOK(Append(sl, e),
                 IF j > Len(ch) THEN Append(ch, e.u) ELSE [ch EXCEPT ![j] = @ + e.u],
                 u + e.u)
<1> DEFINE new == Append(sl, e)
           n == Len(sl) + 1
           j == ChunkOf(n)
           more == IF j > Len(ch) THEN Append(ch, e.u) ELSE [ch EXCEPT ![j] = @ + e.u]
<1>1. sl \in Seq(Entry) /\ ch \in Seq(Nat) /\ u \in Nat /\ e.u \in Nat
  BY DEF StackOK, Entry
<1>2. /\ new \in Seq(Entry) /\ Len(new) = n /\ DOMAIN new = DOMAIN sl \cup {n}
      /\ n \notin DOMAIN sl /\ n \in DOMAIN new /\ new[n] = e
      /\ \A S \in SUBSET (DOMAIN sl) :
           /\ SlotUnits(new, S) = SlotUnits(sl, S)
           /\ SlotUnits(new, S \cup {n}) = SlotUnits(sl, S) + e.u
  BY <1>1, SlotUnitsAppended
<1>3. Len(sl) \in Nat /\ DOMAIN sl = 1 .. Len(sl) /\ n \in Nat \ {0}
  BY <1>1
<1>4. j \in Nat \ {0} /\ (j = Len(ch) + 1 \/ j = Len(ch)) /\ Len(ch) \in Nat
  <2>1. CASE Len(sl) = 0
    <3>1. Len(ch) = 0 /\ n = 1
      BY <2>1 DEF StackOK
    <3>2. j = 1
      BY <1>3, <3>1, ChunkNumbers
    <3> QED
      BY <3>1, <3>2
  <2>2. CASE Len(sl) # 0
    <3>1. Len(ch) = ChunkOf(Len(sl))
      BY <2>2 DEF StackOK
    <3>2. Len(sl) \in Nat \ {0}
      BY <1>3, <2>2
    <3>3. ChunkOf(Len(sl)) \in Nat \ {0}
          /\ ChunkOf(Len(sl) + 1) \in {ChunkOf(Len(sl)), ChunkOf(Len(sl)) + 1}
      BY <3>2, ChunkNumbers
    <3> QED
      BY <3>1, <3>3
  <2> QED
    BY <2>1, <2>2
<1>5. ASSUME NEW k
      PROVE  /\ InChunk(sl, k) \in SUBSET (DOMAIN sl)
             /\ InChunk(new, k) = IF k = j THEN InChunk(sl, k) \cup {n} ELSE InChunk(sl, k)
  <2> HIDE DEF new, n
  <2> QED
    BY <1>2 DEF InChunk
<1>6. ASSUME NEW k \in 1 .. Len(ch)
      PROVE  ch[k] = SlotUnits(sl, InChunk(sl, k))
  BY <1>1 DEF StackOK
<1>7. SlotUnits(sl, DOMAIN sl) = u /\ SlotUnits(new, DOMAIN new) = u + e.u
  <2>1. SlotUnits(sl, DOMAIN sl) = u
    BY DEF StackOK
  <2> HIDE DEF new, n
  <2> QED
    BY <1>2, <2>1
<1>8. CASE j = Len(ch) + 1
  <2>1. more = Append(ch, e.u)
    BY <1>4, <1>8
  <2>2. more \in Seq(Nat) /\ Len(more) = j /\ DOMAIN more = 1 .. j
        /\ more[j] = e.u /\ \A k \in 1 .. Len(ch) : more[k] = ch[k]
    <3> HIDE DEF more, j
    <3> QED
      BY <1>1, <1>4, <1>8, <2>1
  <2>3. InChunk(sl, j) = {}
    <3> SUFFICES ASSUME NEW i \in DOMAIN sl, ChunkOf(i) = j
                 PROVE  FALSE
      BY DEF InChunk
    <3>1. ChunkOf(i) \in DOMAIN ch
      BY ChunkThere
    <3> QED
      BY <1>1, <1>4, <1>8, <3>1
  <2>4. ASSUME NEW k \in DOMAIN more
        PROVE  more[k] = SlotUnits(new, InChunk(new, k))
    <3>1. CASE k = j
      <4>1. SlotUnits(new, InChunk(new, j)) = SlotUnits(sl, {}) + e.u
        <5> HIDE DEF new, n, more, j
        <5> QED
          BY <1>2, <1>5, <2>3
      <4> HIDE DEF new, n, more, j
      <4> QED
        BY <1>1, <2>2, <3>1, <4>1, SlotUnitsNone
    <3>2. CASE k # j
      <4>1. k \in 1 .. Len(ch)
        <5> HIDE DEF more, j
        <5> QED
          BY <1>4, <1>8, <2>2, <3>2
      <4>2. SlotUnits(new, InChunk(new, k)) = SlotUnits(sl, InChunk(sl, k))
        <5> HIDE DEF new, n, more, j
        <5> QED
          BY <1>2, <1>5, <3>2
      <4> HIDE DEF new, n, more, j
      <4> QED
        BY <1>6, <2>2, <4>1, <4>2
    <3> QED
      BY <3>1, <3>2
  <2>5. Len(new) # 0 /\ Len(more) = ChunkOf(Len(new))
    BY <1>2, <1>3, <2>2
  <2> HIDE DEF new, more, j, n
  <2>6. StackOK(new, more, u + e.u)
    BY <1>1, <1>2, <1>7, <2>2, <2>4, <2>5 DEF StackOK
  <2> QED
    BY <2>6 DEF new, more, j, n
<1>9. CASE j = Len(ch)
  <2> DEFINE v == ch[j] + e.u
  <2>1. more = [ch EXCEPT ![j] = v] /\ j \in DOMAIN ch /\ ch[j] \in Nat /\ v \in Nat
    BY <1>1, <1>4, <1>9
  <2>2. more \in Seq(Nat) /\ Len(more) = j /\ DOMAIN more = 1 .. Len(ch)
        /\ \A k \in 1 .. Len(ch) : more[k] = IF k = j THEN v ELSE ch[k]
    <3> HIDE DEF more, j, v
    <3> QED
      BY <1>1, <1>4, <1>9, <2>1
  <2>3. ASSUME NEW k \in 1 .. Len(ch)
        PROVE  more[k] = SlotUnits(new, InChunk(new, k))
    <3>1. SlotUnits(new, InChunk(new, k))
            = IF k = j THEN SlotUnits(sl, InChunk(sl, k)) + e.u
              ELSE SlotUnits(sl, InChunk(sl, k))
      <4> HIDE DEF new, n, more, j, v
      <4> QED
        BY <1>2, <1>5
    <3> HIDE DEF new, n, more, j
    <3> QED
      BY <1>6, <2>2, <3>1
  <2>4. Len(new) # 0 /\ Len(more) = ChunkOf(Len(new))
    BY <1>2, <1>3, <2>2
  <2> HIDE DEF new, more, j, n, v
  <2>5. StackOK(new, more, u + e.u)
    BY <1>1, <1>2, <1>7, <2>2, <2>3, <2>4 DEF StackOK
  <2> QED
    BY <2>5 DEF new, more, j, n
<1> QED
  BY <1>4, <1>8, <1>9

-----------------------------------------------------------------------------
(* Finding a unit.                                                         *)

(* The slots before one. *)
SlotsBefore(sl, i) == {l \in DOMAIN sl : l < i}

(* What they hold. *)
UnitsBefore(sl, i) == SlotUnits(sl, SlotsBefore(sl, i))

(* It grows by what the next slot holds, from nothing to everything.       *)
LEMMA UnitsBeforeGrows ==
  ASSUME NEW sl \in Seq(Entry)
  PROVE  /\ UnitsBefore(sl, 1) = 0
         /\ UnitsBefore(sl, Len(sl) + 1) = SlotUnits(sl, DOMAIN sl)
         /\ \A i \in Nat : UnitsBefore(sl, i) \in Nat
         /\ \A i \in DOMAIN sl : UnitsBefore(sl, i + 1) = UnitsBefore(sl, i) + sl[i].u
<1>1. DOMAIN sl = 1 .. Len(sl) /\ Len(sl) \in Nat
  BY SlotsType
<1>2. SlotsBefore(sl, 1) = {} /\ SlotsBefore(sl, Len(sl) + 1) = DOMAIN sl
  BY <1>1 DEF SlotsBefore
<1>3. ASSUME NEW i \in Nat
      PROVE  SlotsBefore(sl, i) \in SUBSET (DOMAIN sl) /\ UnitsBefore(sl, i) \in Nat
  <2>1. SlotsBefore(sl, i) \in SUBSET (DOMAIN sl)
    BY DEF SlotsBefore
  <2> QED
    BY <2>1, SlotUnitsType DEF UnitsBefore
<1>4. ASSUME NEW i \in DOMAIN sl
      PROVE  UnitsBefore(sl, i + 1) = UnitsBefore(sl, i) + sl[i].u
  <2>1. SlotsBefore(sl, i + 1) = SlotsBefore(sl, i) \cup {i}
        /\ SlotsBefore(sl, i) \cap {i} = {} /\ i \in Nat
    BY <1>1 DEF SlotsBefore
  <2>2. SlotsBefore(sl, i) \in SUBSET (DOMAIN sl) /\ {i} \in SUBSET (DOMAIN sl)
    BY <1>3, <2>1
  <2>3. SlotUnits(sl, SlotsBefore(sl, i) \cup {i})
          = SlotUnits(sl, SlotsBefore(sl, i)) + SlotUnits(sl, {i})
    BY <2>1, <2>2, SlotUnitsUnion
  <2> QED
    BY <2>1, <2>3, SlotUnitsOne DEF UnitsBefore
<1> QED
  BY <1>2, <1>3, <1>4, SlotUnitsNone DEF UnitsBefore

(* It never falls.                                                         *)
LEMMA UnitsBeforeOrdered ==
  ASSUME NEW sl \in Seq(Entry), NEW i \in DOMAIN sl, NEW l \in DOMAIN sl, i < l
  PROVE  UnitsBefore(sl, i) + sl[i].u <= UnitsBefore(sl, l)
<1> DEFINE S == SlotsBefore(sl, i + 1)
           T == SlotsBefore(sl, l) \ S
<1>1. DOMAIN sl = 1 .. Len(sl) /\ Len(sl) \in Nat
  BY SlotsType
<1>2. /\ S \in SUBSET (DOMAIN sl) /\ T \in SUBSET (DOMAIN sl) /\ S \cap T = {}
      /\ S \cup T = SlotsBefore(sl, l)
  BY <1>1 DEF SlotsBefore
<1>3. SlotUnits(sl, S \cup T) = SlotUnits(sl, S) + SlotUnits(sl, T)
  <2> HIDE DEF S, T
  <2> QED
    BY <1>2, SlotUnitsUnion
<1>4. SlotUnits(sl, S) \in Nat /\ SlotUnits(sl, T) \in Nat
  <2> HIDE DEF S, T
  <2> QED
    BY <1>2, SlotUnitsType
<1>5. SlotUnits(sl, S) = UnitsBefore(sl, i) + sl[i].u
  BY UnitsBeforeGrows DEF UnitsBefore
<1>6. UnitsBefore(sl, l) = SlotUnits(sl, S) + SlotUnits(sl, T)
  <2> HIDE DEF S, T
  <2> QED
    BY <1>2, <1>3 DEF UnitsBefore
<1> QED
  BY <1>4, <1>5, <1>6

(* Every unit of a stack is in one slot.                                   *)
LEMMA UnitInOneSlot ==
  ASSUME NEW sl \in Seq(Entry), NEW r \in Nat, r < SlotUnits(sl, DOMAIN sl)
  PROVE  \E i \in DOMAIN sl :
           {l \in DOMAIN sl : UnitsBefore(sl, l) <= r /\ r < UnitsBefore(sl, l) + sl[l].u} = {i}
<1> DEFINE n == Len(sl)
           A == {k \in 0 .. n : UnitsBefore(sl, k + 1) <= r}
           Here(l) == UnitsBefore(sl, l) <= r /\ r < UnitsBefore(sl, l) + sl[l].u
<1>1. DOMAIN sl = 1 .. n /\ n \in Nat
  BY SlotsType
<1>2. 0 \in A
  BY <1>1, UnitsBeforeGrows
<1>3. n \notin A
  <2>1. UnitsBefore(sl, n + 1) = SlotUnits(sl, DOMAIN sl)
    BY UnitsBeforeGrows
  <2>2. SlotUnits(sl, DOMAIN sl) \in Nat
    BY SlotUnitsType
  <2> QED
    BY <2>1, <2>2
<1>4. PICK k \in 1 .. n : k - 1 \in A /\ k \notin A
  <2>1. CASE \A k \in 1 .. n : k - 1 \in A => k \in A
    <3> HIDE DEF A
    <3>1. 0 .. n \subseteq A
      BY <1>1, <1>2, <2>1, UpTo
    <3> QED
      BY <1>1, <1>3, <3>1
  <2> QED
    BY <2>1
<1>5. Here(k)
  <2>1. UnitsBefore(sl, k) <= r /\ ~(UnitsBefore(sl, k + 1) <= r)
    BY <1>1, <1>4
  <2>2. UnitsBefore(sl, k + 1) = UnitsBefore(sl, k) + sl[k].u
    BY <1>1, UnitsBeforeGrows
  <2>3. UnitsBefore(sl, k) \in Nat /\ sl[k].u \in Nat
    BY <1>1, UnitsBeforeGrows, SlotsType
  <2> QED
    BY <2>1, <2>2, <2>3
<1>6. ASSUME NEW l \in DOMAIN sl, Here(l), l # k
      PROVE  FALSE
  <2>0. k \in DOMAIN sl /\ l \in Nat /\ k \in Nat
    BY <1>1
  <2>1. UnitsBefore(sl, k) \in Nat /\ sl[k].u \in Nat /\ UnitsBefore(sl, l) \in Nat
        /\ sl[l].u \in Nat
    BY <2>0, UnitsBeforeGrows, SlotsType
  <2>2. CASE l < k
    <3>1. UnitsBefore(sl, l) + sl[l].u <= UnitsBefore(sl, k)
      BY <2>0, <2>2, UnitsBeforeOrdered
    <3> QED
      BY <1>5, <1>6, <2>1, <3>1
  <2>3. CASE k < l
    <3>1. UnitsBefore(sl, k) + sl[k].u <= UnitsBefore(sl, l)
      BY <2>0, <2>3, UnitsBeforeOrdered
    <3> QED
      BY <1>5, <1>6, <2>1, <3>1
  <2> QED
    BY <1>6, <2>0, <2>2, <2>3
<1> HIDE DEF Here
<1>7. {l \in DOMAIN sl : Here(l)} = {k}
  BY <1>1, <1>5, <1>6
<1> QED
  BY <1>1, <1>7 DEF Here

(* The slots of the chunks before one. *)
EarlierChunks(sl, j) == {i \in DOMAIN sl : ChunkOf(i) < j}

(* The sums of the first chunks are those of their slots.                  *)
LEMMA ChunkSums ==
  ASSUME NEW sl, NEW ch, NEW u, StackOK(sl, ch, u), NEW m \in 0 .. Len(ch)
  PROVE  Total([l \in 1 .. m |-> ch[l]]) = SlotUnits(sl, EarlierChunks(sl, m + 1))
<1> DEFINE sum(k) == Total([l \in 1 .. k |-> ch[l]])
           A == {k \in 0 .. Len(ch) : sum(k) = SlotUnits(sl, EarlierChunks(sl, k + 1))}
<1>1. sl \in Seq(Entry) /\ ch \in Seq(Nat) /\ Len(ch) \in Nat
  BY DEF StackOK
<1>2. DOMAIN sl = 1 .. Len(sl) /\ Len(sl) \in Nat
  BY <1>1
<1>3. ASSUME NEW i \in DOMAIN sl
      PROVE  ChunkOf(i) \in Nat \ {0}
  BY ChunkThere
<1>4. 0 \in A
  <2>1. EarlierChunks(sl, 1) = {}
    BY <1>3 DEF EarlierChunks
  <2>2. [l \in 1 .. 0 |-> ch[l]] = [l \in {} |-> 0]
    OBVIOUS
  <2>3. sum(0) = 0
    BY <2>2, TotalZero
  <2>4. 0 \in 0 .. Len(ch) /\ 0 + 1 = 1
    BY <1>1
  <2>5. sum(0) = SlotUnits(sl, EarlierChunks(sl, 0 + 1))
    <3> HIDE DEF sum
    <3> QED
      BY <2>1, <2>3, <2>4, SlotUnitsNone
  <2> HIDE DEF sum
  <2> QED
    BY <2>4, <2>5
<1>5. ASSUME NEW k \in 1 .. Len(ch), k - 1 \in A
      PROVE  k \in A
  <2>1. sum(k) = sum(k - 1) + ch[k]
    <3> DEFINE g == [l \in 1 .. k |-> ch[l]]
    <3>1. k - 1 \in Nat /\ (k - 1) + 1 = k
      BY <1>1
    <3>2. g \in [1 .. (k - 1) + 1 -> Nat] /\ g[(k - 1) + 1] = ch[k]
      BY <1>1, <3>1
    <3>3. [l \in 1 .. k - 1 |-> g[l]] = [l \in 1 .. k - 1 |-> ch[l]]
      BY <1>1
    <3> HIDE DEF g
    <3>4. Total(g) = Total([l \in 1 .. k - 1 |-> g[l]]) + g[(k - 1) + 1]
      BY <3>1, <3>2, TotalGrows
    <3> QED
      BY <3>2, <3>3, <3>4 DEF g
  <2>2. /\ EarlierChunks(sl, k + 1) = EarlierChunks(sl, k) \cup InChunk(sl, k)
        /\ EarlierChunks(sl, k) \cap InChunk(sl, k) = {}
        /\ EarlierChunks(sl, k) \in SUBSET (DOMAIN sl)
        /\ InChunk(sl, k) \in SUBSET (DOMAIN sl)
    <3>1. k \in Nat
      BY <1>1
    <3> QED
      BY <1>3, <3>1 DEF EarlierChunks, InChunk
  <2>3. SlotUnits(sl, EarlierChunks(sl, k) \cup InChunk(sl, k))
          = SlotUnits(sl, EarlierChunks(sl, k)) + SlotUnits(sl, InChunk(sl, k))
    BY <1>1, <2>2, SlotUnitsUnion
  <2>4. ch[k] = SlotUnits(sl, InChunk(sl, k))
    BY <1>1 DEF StackOK
  <2>5. sum(k - 1) = SlotUnits(sl, EarlierChunks(sl, (k - 1) + 1)) /\ (k - 1) + 1 = k
    BY <1>1, <1>5
  <2> HIDE DEF sum
  <2>6. sum(k) = SlotUnits(sl, EarlierChunks(sl, k + 1))
    BY <2>1, <2>2, <2>3, <2>4, <2>5
  <2>7. k \in 0 .. Len(ch)
    BY <1>1
  <2> QED
    BY <2>6, <2>7
<1>6. 0 .. Len(ch) \subseteq A
  <2> HIDE DEF A
  <2> QED
    BY <1>1, <1>4, <1>5, UpTo
<1> QED
  BY <1>6

(* What the slots before one hold, counted by way of its chunk.            *)
LEMMA BeforeByChunk ==
  ASSUME NEW sl, NEW ch, NEW u, StackOK(sl, ch, u), NEW i \in DOMAIN sl
  PROVE  LET j == ChunkOf(i)
             earlier == Total([l \in 1 .. j - 1 |-> ch[l]])
             inChunk == SlotUnits(sl, {l \in InChunk(sl, j) : l < i}) IN
         /\ earlier \in Nat /\ inChunk \in Nat
         /\ UnitsBefore(sl, i) = earlier + inChunk
         /\ inChunk + sl[i].u <= ch[j]
<1> DEFINE j == ChunkOf(i)
           earlier == Total([l \in 1 .. j - 1 |-> ch[l]])
           E == EarlierChunks(sl, j)
           C == InChunk(sl, j)
           P == {l \in C : l < i}
           Q == C \ (P \cup {i})
<1>1. sl \in Seq(Entry) /\ ch \in Seq(Nat) /\ Len(ch) \in Nat
  BY DEF StackOK
<1>2. DOMAIN sl = 1 .. Len(sl) /\ Len(sl) \in Nat
  BY <1>1
<1>3. j \in DOMAIN ch /\ j \in 1 .. Len(ch) /\ j - 1 \in 0 .. Len(ch) /\ (j - 1) + 1 = j
  <2>1. j \in DOMAIN ch /\ j \in Nat
    BY ChunkThere
  <2> HIDE DEF j
  <2> QED
    BY <1>1, <2>1
<1>4. earlier = SlotUnits(sl, E)
  <2> HIDE DEF j
  <2>1. Total([l \in 1 .. j - 1 |-> ch[l]]) = SlotUnits(sl, EarlierChunks(sl, (j - 1) + 1))
    BY <1>3, ChunkSums
  <2> QED
    BY <1>3, <2>1
<1>5. /\ E \in SUBSET (DOMAIN sl) /\ C \in SUBSET (DOMAIN sl) /\ P \in SUBSET (DOMAIN sl)
      /\ Q \in SUBSET (DOMAIN sl) /\ {i} \in SUBSET (DOMAIN sl)
      /\ P \cup {i} \in SUBSET (DOMAIN sl)
      /\ P \cap {i} = {} /\ (P \cup {i}) \cap Q = {} /\ (P \cup {i}) \cup Q = C
      /\ E \cap P = {}
  <2>1. i \in C /\ i \in Nat /\ C \in SUBSET (DOMAIN sl) /\ E \in SUBSET (DOMAIN sl)
    BY <1>2 DEF InChunk, EarlierChunks
  <2>2. E \cap C = {}
    <3>1. j \in Nat
      BY ChunkThere
    <3> HIDE DEF j
    <3> QED
      BY <3>1 DEF InChunk, EarlierChunks
  <2> HIDE DEF E, C, j
  <2> QED
    BY <2>1, <2>2
<1>6. E \cup P = SlotsBefore(sl, i)
  <2>1. ASSUME NEW l \in DOMAIN sl
        PROVE  l \in E \cup P <=> l < i
    <3>1. l \in Nat \ {0} /\ i \in Nat \ {0} /\ ChunkOf(l) \in Nat /\ ChunkOf(i) \in Nat
      BY <1>2, ChunkThere
    <3>2. CASE l < i
      <4>1. ChunkOf(l) <= ChunkOf(i)
        BY <3>1, <3>2, ChunksOrdered
      <4> QED
        BY <3>1, <3>2, <4>1 DEF EarlierChunks, InChunk
    <3>3. CASE ~(l < i)
      <4>1. ChunkOf(i) <= ChunkOf(l)
        BY <3>1, <3>3, ChunksOrdered
      <4> QED
        BY <3>1, <3>3, <4>1 DEF EarlierChunks, InChunk
    <3> QED
      BY <3>2, <3>3
  <2> HIDE DEF E, P
  <2> QED
    BY <1>5, <2>1 DEF SlotsBefore
<1>7. ch[j] = SlotUnits(sl, C)
  BY <1>3 DEF StackOK
<1>8. /\ SlotUnits(sl, E) \in Nat /\ SlotUnits(sl, P) \in Nat /\ SlotUnits(sl, Q) \in Nat
      /\ SlotUnits(sl, E \cup P) = SlotUnits(sl, E) + SlotUnits(sl, P)
      /\ SlotUnits(sl, P \cup {i}) = SlotUnits(sl, P) + SlotUnits(sl, {i})
      /\ SlotUnits(sl, (P \cup {i}) \cup Q) = SlotUnits(sl, P \cup {i}) + SlotUnits(sl, Q)
      /\ SlotUnits(sl, {i}) = sl[i].u /\ sl[i].u \in Nat
  <2> HIDE DEF E, P, Q, C
  <2>1. SlotUnits(sl, E) \in Nat /\ SlotUnits(sl, P) \in Nat /\ SlotUnits(sl, Q) \in Nat
    BY <1>1, <1>5, SlotUnitsType
  <2>2. SlotUnits(sl, E \cup P) = SlotUnits(sl, E) + SlotUnits(sl, P)
    BY <1>1, <1>5, SlotUnitsUnion
  <2>3. SlotUnits(sl, P \cup {i}) = SlotUnits(sl, P) + SlotUnits(sl, {i})
    BY <1>1, <1>5, SlotUnitsUnion
  <2>4. SlotUnits(sl, (P \cup {i}) \cup Q) = SlotUnits(sl, P \cup {i}) + SlotUnits(sl, Q)
    BY <1>1, <1>5, SlotUnitsUnion
  <2>5. SlotUnits(sl, {i}) = sl[i].u /\ sl[i].u \in Nat
    BY <1>1, SlotUnitsOne
  <2> QED
    BY <2>1, <2>2, <2>3, <2>4, <2>5
<1>9. UnitsBefore(sl, i) = SlotUnits(sl, E \cup P)
  <2> HIDE DEF E, P
  <2> QED
    BY <1>6 DEF UnitsBefore
<1> DEFINE before == SlotUnits(sl, P)
           own == sl[i].u
           rest == SlotUnits(sl, Q)
           e == SlotUnits(sl, E)
           all == ch[j]
<1>10. all = (before + own) + rest /\ UnitsBefore(sl, i) = e + before
  <2> HIDE DEF E, P, Q, C
  <2> QED
    BY <1>5, <1>7, <1>8, <1>9
<1>11. e \in Nat /\ before \in Nat /\ own \in Nat /\ rest \in Nat /\ earlier = e
  BY <1>4, <1>8
<1>12. before + own <= all
  <2> HIDE DEF before, own, rest, e, all
  <2> QED
    BY <1>10, <1>11
<1> HIDE DEF earlier
<1>13. earlier \in Nat /\ before \in Nat /\ UnitsBefore(sl, i) = earlier + before
  BY <1>10, <1>11
<1> QED
  BY <1>12, <1>13 DEF earlier

(* The slot that is found by way of the chunk sums is the one the unit is  *)
(* in.                                                                     *)
LEMMA LocateFinds ==
  ASSUME NEW tb, NEW k, StackOK(tb.slots[k], tb.chunks[k], tb.units[k]), NEW r \in Nat
  PROVE  Locate(tb, k, r)
           = {i \in DOMAIN tb.slots[k] :
                /\ UnitsBefore(tb.slots[k], i) <= r
                /\ r < UnitsBefore(tb.slots[k], i) + tb.slots[k][i].u}
<1> DEFINE sl == tb.slots[k]
           ch == tb.chunks[k]
<1>1. sl \in Seq(Entry) /\ ch \in Seq(Nat)
  BY DEF StackOK
<1>2. ASSUME NEW i \in DOMAIN sl
      PROVE  LET j == ChunkOf(i)
                 before == ChunksBefore(tb, k, j)
                             + UnitsIn(tb, k, {l \in SlotsOfChunk(tb, k, j) : l < i})
             IN
             (/\ ChunksBefore(tb, k, j) <= r
              /\ r < ChunksBefore(tb, k, j) + tb.chunks[k][j]
              /\ before <= r /\ r < before + tb.slots[k][i].u)
             <=> (UnitsBefore(sl, i) <= r /\ r < UnitsBefore(sl, i) + sl[i].u)
  <2> DEFINE j == ChunkOf(i)
             earlier == ChunksBefore(tb, k, j)
             inChunk == UnitsIn(tb, k, {l \in SlotsOfChunk(tb, k, j) : l < i})
             own == sl[i].u
             all == ch[j]
             ub == UnitsBefore(sl, i)
  <2>1. earlier = Total([l \in 1 .. j - 1 |-> ch[l]])
        /\ inChunk = SlotUnits(sl, {l \in InChunk(sl, j) : l < i})
    BY DEF ChunksBefore, UnitsIn, SlotsOfChunk, SlotUnits, InChunk
  <2>2. earlier \in Nat /\ inChunk \in Nat /\ ub = earlier + inChunk /\ inChunk + own <= all
    BY <2>1, BeforeByChunk
  <2>3. own \in Nat /\ all \in Nat
    <3>1. j \in DOMAIN ch
      BY ChunkThere
    <3> QED
      BY <1>1, <3>1, SlotsType
  <2> HIDE DEF earlier, inChunk, own, all, ub
  <2>4. (/\ earlier <= r /\ r < earlier + all
         /\ earlier + inChunk <= r /\ r < earlier + inChunk + own)
        <=> (ub <= r /\ r < ub + own)
    BY <2>2, <2>3
  <2> QED
    BY <2>4 DEF earlier, inChunk, own, all, ub
<1> QED
  BY <1>2 DEF Locate

(* Exactly one slot is found for every unit there is, and it has units.    *)
LEMMA LocateOne ==
  ASSUME NEW tb, NEW k, StackOK(tb.slots[k], tb.chunks[k], tb.units[k]),
         NEW r \in 0 .. tb.units[k] - 1
  PROVE  \E i \in DOMAIN tb.slots[k] : Locate(tb, k, r) = {i}
<1> DEFINE sl == tb.slots[k]
<1>1. sl \in Seq(Entry) /\ tb.units[k] \in Nat /\ tb.units[k] = SlotUnits(sl, DOMAIN sl)
  BY DEF StackOK
<1>2. r \in Nat /\ r < SlotUnits(sl, DOMAIN sl)
  <2> HIDE DEF sl
  <2> QED
    BY <1>1
<1>3. \E i \in DOMAIN sl :
        {l \in DOMAIN sl : UnitsBefore(sl, l) <= r /\ r < UnitsBefore(sl, l) + sl[l].u} = {i}
  <2> HIDE DEF sl
  <2> QED
    BY <1>1, <1>2, UnitInOneSlot
<1> QED
  BY <1>2, <1>3, LocateFinds

(* Whatever is found is a slot with units.                                 *)
LEMMA LocatedHasUnits ==
  ASSUME NEW tb, NEW k, StackOK(tb.slots[k], tb.chunks[k], tb.units[k]),
         NEW r \in Nat, NEW i \in Locate(tb, k, r)
  PROVE  i \in DOMAIN tb.slots[k] /\ tb.slots[k][i] \in Entry /\ tb.slots[k][i].u \in Nat \ {0}
<1> DEFINE sl == tb.slots[k]
           before == UnitsBefore(sl, i)
           own == sl[i].u
<1>1. sl \in Seq(Entry)
  BY DEF StackOK
<1>2. i \in DOMAIN sl /\ before <= r /\ r < before + own
  BY LocateFinds
<1>3. own \in Nat /\ sl[i] \in Entry /\ i \in Nat
  BY <1>1, <1>2, SlotsType
<1>4. before \in Nat
  BY <1>1, <1>3, UnitsBeforeGrows
<1> HIDE DEF before, own
<1>5. own # 0
  BY <1>2, <1>3, <1>4
<1> QED
  BY <1>2, <1>3, <1>5 DEF own

-----------------------------------------------------------------------------
(* The counters of a bucket.                                               *)

TableOK(tb) ==
  /\ tb \in Table
  /\ tb.total = Total(tb.units)
  /\ \A k \in Stacks : StackOK(tb.slots[k], tb.chunks[k], tb.units[k])

(* There are finitely many stacks, the first of them 0. *)
LEMMA StacksFinite == IsFiniteSet(Stacks) /\ 0 \in Stacks
BY BucketAssumption, FS_Interval DEF Stacks

(* The parts of a table. *)
LEMMA TableParts ==
  ASSUME NEW tb, tb \in Table
  PROVE  /\ tb = [slots |-> tb.slots, chunks |-> tb.chunks, units |-> tb.units,
                  total |-> tb.total]
         /\ tb.slots \in [Stacks -> Seq(Entry)] /\ tb.chunks \in [Stacks -> Seq(Nat)]
         /\ tb.units \in [Stacks -> Nat] /\ tb.total \in Nat
BY DEF Table

(* A table is made of its parts. *)
LEMMA TableOf ==
  ASSUME NEW s \in [Stacks -> Seq(Entry)], NEW c \in [Stacks -> Seq(Nat)],
         NEW u \in [Stacks -> Nat], NEW t \in Nat
  PROVE  /\ [slots |-> s, chunks |-> c, units |-> u, total |-> t] \in Table
         /\ [slots |-> s, chunks |-> c, units |-> u, total |-> t].slots = s
         /\ [slots |-> s, chunks |-> c, units |-> u, total |-> t].chunks = c
         /\ [slots |-> s, chunks |-> c, units |-> u, total |-> t].units = u
         /\ [slots |-> s, chunks |-> c, units |-> u, total |-> t].total = t
BY DEF Table

(* Nothing is in an empty table. *)
LEMMA EmptyTableOK ==
  TableOK(EmptyTable) /\ EmptyTable.total = 0 /\ EmptyTable.units = NoUnits
  /\ \A k \in Stacks : EmptyTable.slots[k] = <<>>
<1> DEFINE s == [k \in Stacks |-> <<>>]
           c == [k \in Stacks |-> <<>>]
           u == [k \in Stacks |-> 0]
<1>1. s \in [Stacks -> Seq(Entry)] /\ c \in [Stacks -> Seq(Nat)] /\ u \in [Stacks -> Nat]
  OBVIOUS
<1>2. Total(u) = 0
  BY TotalZero
<1>3. \A k \in Stacks : s[k] = <<>> /\ c[k] = <<>> /\ u[k] = 0
  OBVIOUS
<1>4. StackOK(<<>>, <<>>, 0)
  <2>1. Len(<<>>) = 0 /\ DOMAIN <<>> = {} /\ <<>> \in Seq(Entry) /\ <<>> \in Seq(Nat)
    OBVIOUS
  <2>2. SlotUnits(<<>>, {}) = 0
    BY SlotUnitsNone
  <2> QED
    BY <2>1, <2>2 DEF StackOK
<1> HIDE DEF s, c, u
<1>5. EmptyTable = [slots |-> s, chunks |-> c, units |-> u, total |-> 0] /\ u = NoUnits
  BY DEF EmptyTable, NoUnits, s, c, u
<1>6. /\ EmptyTable \in Table /\ EmptyTable.slots = s /\ EmptyTable.chunks = c
      /\ EmptyTable.units = u /\ EmptyTable.total = 0
  BY <1>1, <1>5, TableOf
<1> QED
  BY <1>2, <1>3, <1>4, <1>5, <1>6 DEF TableOK

(* What a table is after units were taken from a slot. *)
LEMMA TakeParts ==
  ASSUME NEW tb \in Table, NEW k, NEW i, NEW n
  PROVE  Take(tb, k, i, n) =
           [slots |-> [tb.slots EXCEPT ![k] = Reduced(tb.slots[k], i, n)],
            chunks |-> [tb.chunks EXCEPT ![k] =
                          [tb.chunks[k] EXCEPT ![ChunkOf(i)] = @ - n]],
            units |-> [tb.units EXCEPT ![k] = tb.units[k] - n],
            total |-> tb.total - n]
<1> DEFINE a == tb.slots
           c == tb.chunks
           u == tb.units
           t == tb.total
           S == [a EXCEPT ![k] = Reduced(a[k], i, n)]
           C == [c EXCEPT ![k] = [c[k] EXCEPT ![ChunkOf(i)] = @ - n]]
           U == [u EXCEPT ![k] = u[k] - n]
           r1 == [tb EXCEPT !.slots = S]
           r2 == [r1 EXCEPT !.chunks = C]
           r3 == [r2 EXCEPT !.units = U]
           r4 == [r3 EXCEPT !.total = t - n]
<1>1. tb = [slots |-> a, chunks |-> c, units |-> u, total |-> t]
  BY TableParts
<1>2. r1 = [slots |-> S, chunks |-> c, units |-> u, total |-> t] /\ r1.chunks = c
  <2> HIDE DEF a, c, u, t, S
  <2> QED
    BY <1>1
<1>3. r2 = [slots |-> S, chunks |-> C, units |-> u, total |-> t] /\ r2.units = u
  <2> HIDE DEF a, c, u, t, S, C, r1
  <2> QED
    BY <1>2
<1>4. r3 = [slots |-> S, chunks |-> C, units |-> U, total |-> t]
  <2> HIDE DEF a, c, u, t, S, C, U, r2
  <2> QED
    BY <1>3
<1>5. r4 = [slots |-> S, chunks |-> C, units |-> U, total |-> t - n]
  <2> HIDE DEF a, c, u, t, S, C, U, r3
  <2> QED
    BY <1>4
<1>6. Take(tb, k, i, n) = r4
  <2> DEFINE q1 == [tb EXCEPT !.slots = S]
             q2 == [q1 EXCEPT !.chunks = [q1.chunks EXCEPT ![k] =
                      [q1.chunks[k] EXCEPT ![ChunkOf(i)] = c[k][ChunkOf(i)] - n]]]
             q3 == [q2 EXCEPT !.units = [q2.units EXCEPT ![k] = u[k] - n]]
             q4 == [q3 EXCEPT !.total = t - n]
  <2>1. Take(tb, k, i, n) = q4
    BY DEF Take, Reduced
  <2>2. q1 = r1 /\ q1.chunks = c
    BY <1>2
  <2>3. q2 = r2
    <3> HIDE DEF q1, r1, c
    <3> QED
      BY <2>2
  <2>4. q2.units = u
    BY <1>3, <2>3
  <2>5. q3 = r3
    <3> HIDE DEF q2, r2, u
    <3> QED
      BY <2>3, <2>4
  <2>6. q4 = r4
    <3> HIDE DEF q3, r3
    <3> QED
      BY <2>5
  <2> HIDE DEF q4, r4
  <2> QED
    BY <2>1, <2>6
<1> HIDE DEF r4
<1> QED
  BY <1>5, <1>6

(* Two tables with the same entries, of which units may be left or not.    *)
SameEntries(tb, new) ==
  \A k \in Stacks :
    /\ DOMAIN new.slots[k] = DOMAIN tb.slots[k] /\ Len(new.slots[k]) = Len(tb.slots[k])
    /\ \A i \in DOMAIN tb.slots[k] : new.slots[k][i].item = tb.slots[k][i].item

(* Taking units keeps the counters in step.                                *)
LEMMA TakeOK ==
  ASSUME NEW tb, TableOK(tb), NEW k \in Stacks, NEW i \in DOMAIN tb.slots[k],
         NEW n \in Nat, n <= tb.slots[k][i].u
  PROVE  /\ TableOK(Take(tb, k, i, n))
         /\ SameEntries(tb, Take(tb, k, i, n))
         /\ \A q \in Stacks :
              Take(tb, k, i, n).units[q] = IF q = k THEN tb.units[k] - n ELSE tb.units[q]
         /\ \A q \in Stacks : \A l \in DOMAIN tb.slots[q] :
              Take(tb, k, i, n).slots[q][l].u
                = IF q = k /\ l = i THEN tb.slots[k][i].u - n ELSE tb.slots[q][l].u
<1> DEFINE sl == Reduced(tb.slots[k], i, n)
           ch == [tb.chunks[k] EXCEPT ![ChunkOf(i)] = @ - n]
           un == tb.units[k] - n
           S == [tb.slots EXCEPT ![k] = sl]
           C == [tb.chunks EXCEPT ![k] = ch]
           U == [tb.units EXCEPT ![k] = un]
           t == tb.total - n
           new == Take(tb, k, i, n)
<1>1. tb \in Table /\ StackOK(tb.slots[k], tb.chunks[k], tb.units[k])
      /\ tb.slots[k] \in Seq(Entry)
  BY DEF TableOK, StackOK
<1>2. /\ tb.slots \in [Stacks -> Seq(Entry)] /\ tb.chunks \in [Stacks -> Seq(Nat)]
      /\ tb.units \in [Stacks -> Nat] /\ tb.total \in Nat
  BY <1>1, TableParts
<1>3. StackOK(sl, ch, un)
  BY <1>1, StackTake
<1>4. /\ sl \in Seq(Entry) /\ DOMAIN sl = DOMAIN tb.slots[k] /\ Len(sl) = Len(tb.slots[k])
      /\ \A l \in DOMAIN sl :
           /\ sl[l].item = tb.slots[k][l].item
           /\ sl[l].u = IF l = i THEN tb.slots[k][l].u - n ELSE tb.slots[k][l].u
  BY <1>1, SlotUnitsTaken
<1>5. new = [slots |-> S, chunks |-> C, units |-> U, total |-> t]
  BY <1>1, TakeParts
<1>6. ch \in Seq(Nat) /\ un \in Nat
  <2> HIDE DEF sl, ch, un
  <2> QED
    BY <1>3 DEF StackOK
<1>7. /\ S \in [Stacks -> Seq(Entry)] /\ C \in [Stacks -> Seq(Nat)] /\ U \in [Stacks -> Nat]
      /\ \A q \in Stacks : S[q] = IF q = k THEN sl ELSE tb.slots[q]
      /\ \A q \in Stacks : C[q] = IF q = k THEN ch ELSE tb.chunks[q]
      /\ \A q \in Stacks : U[q] = IF q = k THEN un ELSE tb.units[q]
  <2> HIDE DEF sl, ch, un
  <2> QED
    BY <1>2, <1>4, <1>6
<1>8. t = Total(U) /\ t \in Nat
  <2>1. tb.total = Total(tb.units) /\ tb.units[k] \in Nat
    BY <1>2 DEF TableOK
  <2>2. U[k] = tb.units[k] - n /\ \A q \in Stacks \ {k} : U[q] = tb.units[q]
    BY <1>7
  <2> HIDE DEF S, C, U, t
  <2>3. Total(U) = Total(tb.units) - tb.units[k] + U[k]
    <3>1. U \in [Stacks -> Nat] /\ tb.units \in [Stacks -> Nat] /\ IsFiniteSet(Stacks)
      BY <1>2, <1>7, StacksFinite
    <3>2. \A q \in Stacks \ {k} : U[q] = tb.units[q]
      BY <2>2
    <3> QED
      BY <3>1, <3>2, TotalUpdate
  <2>4. Total(U) \in Nat
    BY <1>7, StacksFinite, TotalType
  <2>5. Total(U) = tb.total - n
    BY <1>2, <2>1, <2>2, <2>3
  <2> QED
    BY <2>4, <2>5 DEF t
<1> HIDE DEF sl, ch, un, S, C, U, t, new
<1>9. /\ new \in Table /\ new.slots = S /\ new.chunks = C /\ new.units = U /\ new.total = t
  BY <1>5, <1>7, <1>8, TableOf
<1>10. TableOK(new)
  <2>1. ASSUME NEW q \in Stacks
        PROVE  StackOK(new.slots[q], new.chunks[q], new.units[q])
    <3>1. StackOK(tb.slots[q], tb.chunks[q], tb.units[q])
      BY DEF TableOK
    <3> QED
      BY <1>3, <1>7, <1>9, <3>1
  <2> QED
    BY <1>8, <1>9, <2>1 DEF TableOK
<1>11. SameEntries(tb, new)
  BY <1>4, <1>7, <1>9 DEF SameEntries
<1>12. \A q \in Stacks : new.units[q] = IF q = k THEN tb.units[k] - n ELSE tb.units[q]
  BY <1>7, <1>9 DEF un
<1>13. \A q \in Stacks : \A l \in DOMAIN tb.slots[q] :
         new.slots[q][l].u
           = IF q = k /\ l = i THEN tb.slots[k][i].u - n ELSE tb.slots[q][l].u
  BY <1>4, <1>7, <1>9
<1> QED
  BY <1>10, <1>11, <1>12, <1>13 DEF new

(* The four counts of a table agree. *)
LEMMA CountsOfTable ==
  ASSUME NEW tb, TableOK(tb)
  PROVE  /\ tb.total = Total(tb.units)
         /\ \A k \in Stacks :
              /\ tb.units[k] = UnitsIn(tb, k, DOMAIN tb.slots[k])
              /\ \A j \in DOMAIN tb.chunks[k] :
                   tb.chunks[k][j] = UnitsIn(tb, k, SlotsOfChunk(tb, k, j))
BY DEF TableOK, StackOK, UnitsIn, SlotUnits, SlotsOfChunk, InChunk

-----------------------------------------------------------------------------
(* Adding entries.                                                         *)

(* An item has one entry. *)
OneEntry(tb) ==
  \A k, q \in Stacks : \A i \in DOMAIN tb.slots[k], l \in DOMAIN tb.slots[q] :
    tb.slots[k][i].item = tb.slots[q][l].item => k = q /\ i = l

(* What a table is after an entry was added. *)
LEMMA AppendParts ==
  ASSUME NEW tb, TableOK(tb), NEW e \in StockedEntry, e.stack \in Stacks
  PROVE  /\ TableOK(AppendEntry(tb, e))
         /\ \A q \in Stacks :
              AppendEntry(tb, e).slots[q]
                = IF q = e.stack THEN Append(tb.slots[q], [item |-> e.item, u |-> e.u])
                  ELSE tb.slots[q]
         /\ \A q \in Stacks :
              AppendEntry(tb, e).units[q]
                = IF q = e.stack THEN tb.units[q] + e.u ELSE tb.units[q]
<1> DEFINE k == e.stack
           n == e.u
           en == [item |-> e.item, u |-> n]
           j == ChunkOf(Len(tb.slots[k]) + 1)
           sl == Append(tb.slots[k], en)
           ch == IF j > Len(tb.chunks[k]) THEN Append(tb.chunks[k], n)
                 ELSE [tb.chunks[k] EXCEPT ![j] = @ + n]
           un == tb.units[k] + n
           S == [tb.slots EXCEPT ![k] = sl]
           C == [tb.chunks EXCEPT ![k] = ch]
           U == [tb.units EXCEPT ![k] = un]
           t == tb.total + n
           new == AppendEntry(tb, e)
<1>1. tb \in Table /\ StackOK(tb.slots[k], tb.chunks[k], tb.units[k])
      /\ tb.slots[k] \in Seq(Entry)
  BY DEF TableOK, StackOK
<1>2. /\ tb.slots \in [Stacks -> Seq(Entry)] /\ tb.chunks \in [Stacks -> Seq(Nat)]
      /\ tb.units \in [Stacks -> Nat] /\ tb.total \in Nat
  BY <1>1, TableParts
<1>3. en \in Entry /\ en.u = n /\ n \in Nat
  BY DEF Entry, StockedEntry
<1>4. StackOK(sl, ch, un)
  <2> HIDE DEF en, k, n
  <2>1. StackOK(Append(tb.slots[k], en),
                IF j > Len(tb.chunks[k]) THEN Append(tb.chunks[k], en.u)
                ELSE [tb.chunks[k] EXCEPT ![j] = @ + en.u],
                tb.units[k] + en.u)
    BY <1>1, <1>3, StackAppend
  <2> QED
    BY <1>3, <2>1
<1>5. new = [slots |-> S, chunks |-> C, units |-> U, total |-> t]
  BY DEF AppendEntry
<1>6. sl \in Seq(Entry) /\ ch \in Seq(Nat) /\ un \in Nat
  <2> HIDE DEF sl, ch, un
  <2> QED
    BY <1>4 DEF StackOK
<1>7. /\ S \in [Stacks -> Seq(Entry)] /\ C \in [Stacks -> Seq(Nat)] /\ U \in [Stacks -> Nat]
      /\ \A q \in Stacks : S[q] = IF q = k THEN sl ELSE tb.slots[q]
      /\ \A q \in Stacks : C[q] = IF q = k THEN ch ELSE tb.chunks[q]
      /\ \A q \in Stacks : U[q] = IF q = k THEN un ELSE tb.units[q]
  <2> HIDE DEF sl, ch, un
  <2> QED
    BY <1>2, <1>6
<1>8. t = Total(U) /\ t \in Nat
  <2>1. tb.total = Total(tb.units) /\ tb.units[k] \in Nat
    BY <1>2 DEF TableOK
  <2>2. U[k] = tb.units[k] + n /\ \A q \in Stacks \ {k} : U[q] = tb.units[q]
    BY <1>7
  <2> HIDE DEF S, C, U, t, n
  <2>3. Total(U) = Total(tb.units) - tb.units[k] + U[k]
    <3>1. U \in [Stacks -> Nat] /\ tb.units \in [Stacks -> Nat] /\ IsFiniteSet(Stacks)
      BY <1>2, <1>7, StacksFinite
    <3>2. \A q \in Stacks \ {k} : U[q] = tb.units[q]
      BY <2>2
    <3> HIDE DEF k
    <3>3. k \in Stacks
      BY DEF k
    <3> QED
      BY <3>1, <3>2, <3>3, TotalUpdate
  <2>4. Total(U) \in Nat
    BY <1>7, StacksFinite, TotalType
  <2> HIDE DEF k
  <2>5. Total(U) = tb.total + n
    BY <1>2, <1>3, <2>1, <2>2, <2>3
  <2> QED
    BY <2>4, <2>5 DEF t
<1> HIDE DEF sl, ch, un, S, C, U, t, new
<1>9. /\ new \in Table /\ new.slots = S /\ new.chunks = C /\ new.units = U /\ new.total = t
  BY <1>5, <1>7, <1>8, TableOf
<1>10. TableOK(new)
  <2>1. ASSUME NEW q \in Stacks
        PROVE  StackOK(new.slots[q], new.chunks[q], new.units[q])
    <3>1. StackOK(tb.slots[q], tb.chunks[q], tb.units[q])
      BY DEF TableOK
    <3> QED
      BY <1>4, <1>7, <1>9, <3>1
  <2> QED
    BY <1>8, <1>9, <2>1 DEF TableOK
<1>11. \A q \in Stacks : new.slots[q] = IF q = k THEN sl ELSE tb.slots[q]
  BY <1>7, <1>9
<1>12. \A q \in Stacks : new.units[q] = IF q = k THEN un ELSE tb.units[q]
  BY <1>7, <1>9
<1> QED
  BY <1>10, <1>11, <1>12 DEF new, sl, un

(* An entry of an item that has none leaves one entry to every item. *)
LEMMA AppendOneEntry ==
  ASSUME NEW tb, TableOK(tb), OneEntry(tb), NEW e \in StockedEntry, e.stack \in Stacks,
         e.item \notin Stocked(tb)
  PROVE  OneEntry(AppendEntry(tb, e)) /\ Stocked(AppendEntry(tb, e)) = Stocked(tb) \cup {e.item}
<1> DEFINE p == e.stack
           en == [item |-> e.item, u |-> e.u]
           new == AppendEntry(tb, e)
           n == Len(tb.slots[p]) + 1
<1>1. tb.slots \in [Stacks -> Seq(Entry)] /\ tb.slots[p] \in Seq(Entry)
  BY TableParts DEF TableOK
<1>2. en \in Entry /\ en.item = e.item
  BY DEF Entry, StockedEntry
<1>3. \A q \in Stacks :
        new.slots[q] = IF q = p THEN Append(tb.slots[q], en) ELSE tb.slots[q]
  BY AppendParts
<1>4. /\ DOMAIN new.slots[p] = DOMAIN tb.slots[p] \cup {n} /\ n \notin DOMAIN tb.slots[p]
      /\ new.slots[p][n].item = e.item
      /\ \A i \in DOMAIN tb.slots[p] : new.slots[p][i] = tb.slots[p][i]
  <2> DEFINE sl == tb.slots[p]
  <2>1. new.slots[p] = Append(sl, en)
    BY <1>3
  <2>2. /\ DOMAIN Append(sl, en) = DOMAIN sl \cup {Len(sl) + 1}
        /\ Len(sl) + 1 \notin DOMAIN sl /\ Append(sl, en)[Len(sl) + 1] = en
        /\ \A i \in DOMAIN sl : Append(sl, en)[i] = sl[i]
    <3> HIDE DEF sl, en
    <3> QED
      BY <1>1, <1>2, SlotUnitsAppended DEF sl
  <2> QED
    BY <1>2, <2>1, <2>2
<1>5. \A q \in Stacks \ {p} : new.slots[q] = tb.slots[q]
  BY <1>3
<1>6. p \in Stacks
  OBVIOUS
<1>7. \A q \in Stacks : \A i \in DOMAIN tb.slots[q] : tb.slots[q][i].item # e.item
  BY DEF Stocked
<1> HIDE DEF new, p, en, n
<1>8. \A q \in Stacks : \A i \in DOMAIN new.slots[q] :
        \/ q = p /\ i = n /\ new.slots[q][i].item = e.item
        \/ i \in DOMAIN tb.slots[q] /\ new.slots[q][i].item = tb.slots[q][i].item
           /\ ~(q = p /\ i = n)
  BY <1>4, <1>5
<1>9. OneEntry(new)
  BY <1>7, <1>8 DEF OneEntry
<1>10. \A q \in Stacks : \A i \in DOMAIN tb.slots[q] :
         i \in DOMAIN new.slots[q] /\ new.slots[q][i].item = tb.slots[q][i].item
  BY <1>4, <1>5
<1>11. n \in DOMAIN new.slots[p]
  BY <1>4
<1>12. Stocked(new) = Stocked(tb) \cup {e.item}
  <2>1. ASSUME NEW x \in Stocked(new)
        PROVE  x \in Stocked(tb) \cup {e.item}
    BY <1>8 DEF Stocked
  <2>2. ASSUME NEW x \in Stocked(tb)
        PROVE  x \in Stocked(new)
    BY <1>10 DEF Stocked
  <2>3. e.item \in Stocked(new)
    BY <1>4, <1>6, <1>11 DEF Stocked
  <2> QED
    BY <2>1, <2>2, <2>3
<1> QED
  BY <1>9, <1>12 DEF new

(* Folding the entries into the table adds one after the other.            *)
LEMMA AppendSteps ==
  ASSUME NEW tb, TableOK(tb), NEW es \in Seq(StockedEntry),
         \A m \in DOMAIN es : es[m].stack \in Stacks
  PROVE  \E f : /\ f[0] = tb /\ f[Len(es)] = AppendBucketEntries(tb, es)
                /\ \A m \in 1 .. Len(es) : f[m] = AppendEntry(f[m - 1], es[m])
<1> DEFINE n == Len(es)
           R == {x \in Table : TableOK(x)}
           F == [mx \in (1 .. n) \X R |-> AppendEntry(mx[2], es[mx[1]])]
           Rec(it) == it = [s \in SUBSET (DOMAIN es) |->
                              IF s = {} THEN tb
                              ELSE AppendEntry(it[s \ {Max(s)}], es[Max(s)])]
           it == CHOOSE g : Rec(g)
           f == [m \in 0 .. n |-> it[1 .. m]]
<1>1. DOMAIN es = 1 .. n /\ n \in Nat
  OBVIOUS
<1>2. tb \in R
  BY DEF TableOK
<1>3. F \in [(1 .. n) \X R -> R]
  <2>1. ASSUME NEW m \in 1 .. n, NEW x \in R
        PROVE  AppendEntry(x, es[m]) \in R
    <3>1. es[m] \in StockedEntry /\ es[m].stack \in Stacks /\ TableOK(x)
      BY <1>1
    <3>2. TableOK(AppendEntry(x, es[m]))
      BY <3>1, AppendParts
    <3> QED
      BY <3>2 DEF TableOK
  <2> HIDE DEF R, n
  <2> QED
    BY <2>1
<1>4. \E g : Rec(g)
  <2> HIDE DEF R, F
  <2>1. PICK g : Folds(g, n, R, tb, F)
    <3> HIDE DEF n
    <3>1. n \in Nat /\ tb \in R /\ F \in [(1 .. n) \X R -> R]
      BY <1>1, <1>2, <1>3 DEF n
    <3> QED
      BY <3>1, FoldExists
  <2>2. ASSUME NEW s \in SUBSET (1 .. n), s # {}
        PROVE  F[<<Max(s), g[s \ {Max(s)}]>>] = AppendEntry(g[s \ {Max(s)}], es[Max(s)])
    <3>1. Max(s) \in 1 .. n /\ g[s \ {Max(s)}] \in R
      <4>1. Max(s) \in s
        BY <1>1, <2>2, LastOfSome
      <4>2. g \in [SUBSET (1 .. n) -> R]
        BY <2>1 DEF Folds
      <4> QED
        BY <4>1, <4>2
    <3> DEFINE x == g[s \ {Max(s)}]
               m == Max(s)
    <3>2. <<m, x>> \in (1 .. n) \X R
      BY <3>1
    <3> HIDE DEF x, m
    <3>3. F[<<m, x>>] = AppendEntry(x, es[m])
      BY <3>2 DEF F
    <3> QED
      BY <3>3 DEF x, m
  <2>3. g = [s \in SUBSET (1 .. n) |->
               IF s = {} THEN tb ELSE AppendEntry(g[s \ {Max(s)}], es[Max(s)])]
    BY <2>1, <2>2 DEF Folds
  <2>4. Rec(g)
    BY <1>1, <2>3
  <2> QED
    BY <2>4
<1>5. Rec(it)
  <2> HIDE DEF Rec
  <2> QED
    BY <1>4
<1>6. AppendBucketEntries(tb, es) = it[DOMAIN es]
  BY DEF AppendBucketEntries, FoldLeft, MapThenFoldSet
<1> HIDE DEF it
<1>7. it[{}] = tb
  <2>1. {} \in SUBSET (DOMAIN es)
    OBVIOUS
  <2> QED
    BY <1>5, <2>1
<1>8. ASSUME NEW m \in 1 .. n
      PROVE  it[1 .. m] = AppendEntry(it[1 .. (m - 1)], es[m])
  <2>1. Max(1 .. m) = m /\ (1 .. m) \ {m} = 1 .. (m - 1) /\ 1 .. m # {}
    BY <1>1, LastOfFirst
  <2>2. 1 .. m \in SUBSET (DOMAIN es)
    BY <1>1
  <2> DEFINE s == 1 .. m
  <2> HIDE DEF s
  <2>3. it[s] = IF s = {} THEN tb ELSE AppendEntry(it[s \ {Max(s)}], es[Max(s)])
    BY <1>5, <2>2 DEF s
  <2> QED
    BY <2>1, <2>3 DEF s
<1>9. f[0] = tb /\ f[n] = AppendBucketEntries(tb, es)
  <2>1. 1 .. 0 = {} /\ 0 \in 0 .. n /\ n \in 0 .. n
    BY <1>1
  <2> QED
    BY <1>1, <1>6, <1>7, <2>1
<1>10. \A m \in 1 .. n : f[m] = AppendEntry(f[m - 1], es[m])
  <2> SUFFICES ASSUME NEW m \in 1 .. n
               PROVE  f[m] = AppendEntry(f[m - 1], es[m])
    OBVIOUS
  <2>1. m \in 0 .. n /\ m - 1 \in 0 .. n
    BY <1>1
  <2>2. f[m] = it[1 .. m] /\ f[m - 1] = it[1 .. (m - 1)]
    BY <2>1
  <2> HIDE DEF f
  <2> QED
    BY <1>8, <2>2
<1> HIDE DEF f
<1> QED
  BY <1>9, <1>10

(* What the first entries put into a stack. *)
PutInto(es, k, m) == Total([l \in 1 .. m |-> IF es[l].stack = k THEN es[l].u ELSE 0])

(* It grows entry by entry. *)
LEMMA PutGrows ==
  ASSUME NEW es \in Seq(StockedEntry), NEW k \in Stacks
  PROVE  /\ PutInto(es, k, 0) = 0
         /\ PutInto(es, k, Len(es)) = UnitsByStack(es)[k]
         /\ \A m \in 0 .. Len(es) : PutInto(es, k, m) \in Nat
         /\ \A m \in 1 .. Len(es) :
              PutInto(es, k, m)
                = PutInto(es, k, m - 1) + (IF es[m].stack = k THEN es[m].u ELSE 0)
<1> DEFINE n == Len(es)
           val(l) == IF es[l].stack = k THEN es[l].u ELSE 0
<1>1. DOMAIN es = 1 .. n /\ n \in Nat
  OBVIOUS
<1>2. \A l \in 1 .. n : val(l) \in Nat
  <2>1. \A e \in StockedEntry : e.u \in Nat
    BY DEF StockedEntry
  <2>2. \A l \in 1 .. n : es[l] \in StockedEntry
    BY <1>1
  <2> QED
    BY <2>1, <2>2
<1>3. PutInto(es, k, 0) = 0
  <2>1. [l \in 1 .. 0 |-> val(l)] = [l \in {} |-> 0]
    OBVIOUS
  <2> QED
    BY <2>1, TotalZero DEF PutInto
<1>4. PutInto(es, k, n) = UnitsByStack(es)[k]
  BY <1>1 DEF PutInto, UnitsByStack, SumOver
<1>5. ASSUME NEW m \in 0 .. n
      PROVE  PutInto(es, k, m) \in Nat
  <2> DEFINE g == [l \in 1 .. m |-> val(l)]
  <2>1. m \in Nat /\ IsFiniteSet(1 .. m)
    BY <1>1, FS_Interval
  <2>2. g \in [1 .. m -> Nat]
    <3> HIDE DEF val
    <3> QED
      BY <1>1, <1>2, <2>1
  <2>3. Total(g) \in Nat
    <3> HIDE DEF g
    <3> QED
      BY <2>1, <2>2, TotalType
  <2> QED
    BY <2>3 DEF PutInto
<1>6. ASSUME NEW m \in 1 .. n
      PROVE  PutInto(es, k, m) = PutInto(es, k, m - 1) + val(m)
  <2> DEFINE p == m - 1
             g == [l \in 1 .. p + 1 |-> val(l)]
  <2>1. p \in Nat /\ p + 1 = m
    BY <1>1
  <2>2. g \in [1 .. p + 1 -> Nat] /\ g[p + 1] = val(m)
    <3> HIDE DEF val
    <3> QED
      BY <1>1, <1>2, <2>1
  <2>3. [l \in 1 .. p |-> g[l]] = [l \in 1 .. p |-> val(l)]
    <3> HIDE DEF val
    <3> QED
      BY <2>1
  <2> HIDE DEF g, p, val
  <2>4. Total(g) = Total([l \in 1 .. p |-> g[l]]) + g[p + 1]
    BY <2>1, <2>2, TotalGrows
  <2>5. Total(g) = PutInto(es, k, m) /\ Total([l \in 1 .. p |-> val(l)]) = PutInto(es, k, p)
    BY <2>1 DEF g, PutInto, val
  <2>6. PutInto(es, k, m) = PutInto(es, k, p) + val(m)
    BY <2>2, <2>3, <2>4, <2>5
  <2> QED
    BY <2>6 DEF p
<1> QED
  BY <1>1, <1>3, <1>4, <1>5, <1>6

(* The units that a list of entries puts into the stacks. *)
LEMMA UnitsByStackType ==
  ASSUME NEW es \in Seq(StockedEntry)
  PROVE  UnitsByStack(es) \in [Stacks -> Nat] /\ Total(UnitsByStack(es)) \in Nat
<1>1. \A k \in Stacks : UnitsByStack(es)[k] \in Nat
  <2> SUFFICES ASSUME NEW k \in Stacks
               PROVE  UnitsByStack(es)[k] \in Nat
    OBVIOUS
  <2>1. Len(es) \in 0 .. Len(es)
    OBVIOUS
  <2> QED
    BY <2>1, PutGrows
<1>2. UnitsByStack(es) = [k \in Stacks |-> UnitsByStack(es)[k]]
  BY DEF UnitsByStack
<1>3. UnitsByStack(es) \in [Stacks -> Nat]
  BY <1>1, <1>2
<1> QED
  BY <1>3, StacksFinite, TotalType

(* What assertEntriesStockable and the payload's form make sure of.        *)
Stockable(tb, es) ==
  /\ es \in Seq(StockedEntry)
  /\ \A m, l \in DOMAIN es : es[m].item = es[l].item => m = l
  /\ \A m \in DOMAIN es : es[m].stack \in Stacks /\ es[m].item \notin Stocked(tb)

(* Adding entries to a table keeps its counters in step and every item at  *)
(* one entry, and adds the units to their stacks.                          *)
LEMMA AppendOK ==
  ASSUME NEW tb, TableOK(tb), OneEntry(tb), NEW es, Stockable(tb, es)
  PROVE  LET new == AppendBucketEntries(tb, es) IN
         /\ TableOK(new) /\ OneEntry(new)
         /\ \A k \in Stacks : new.units[k] = tb.units[k] + UnitsByStack(es)[k]
         /\ new.total = tb.total + Total(UnitsByStack(es))
<1> DEFINE n == Len(es)
           new == AppendBucketEntries(tb, es)
<1>1. es \in Seq(StockedEntry) /\ DOMAIN es = 1 .. n /\ n \in Nat
  BY DEF Stockable
<1>2. ASSUME NEW m \in 1 .. n
      PROVE  es[m] \in StockedEntry /\ es[m].stack \in Stacks /\ es[m].item \notin Stocked(tb)
  BY <1>1 DEF Stockable
<1>3. PICK f : /\ f[0] = tb /\ f[n] = new
               /\ \A m \in 1 .. n : f[m] = AppendEntry(f[m - 1], es[m])
  <2>1. \A m \in DOMAIN es : es[m].stack \in Stacks
    BY DEF Stockable
  <2> QED
    BY <1>1, <2>1, AppendSteps
<1> DEFINE items(m) == {es[l].item : l \in 1 .. m}
           Good(m) == /\ TableOK(f[m]) /\ OneEntry(f[m])
                      /\ Stocked(f[m]) = Stocked(tb) \cup items(m)
                      /\ \A k \in Stacks : f[m].units[k] = tb.units[k] + PutInto(es, k, m)
           A == {m \in 0 .. n : Good(m)}
<1>4. \A k \in Stacks : tb.units[k] \in Nat
  BY TableParts DEF TableOK
<1>5. 0 \in A
  <2>1. items(0) = {}
    OBVIOUS
  <2>2. \A k \in Stacks : f[0].units[k] = tb.units[k] + PutInto(es, k, 0)
    BY <1>1, <1>3, <1>4, PutGrows
  <2>3. Good(0)
    BY <1>3, <2>1, <2>2
  <2>4. 0 \in 0 .. n
    BY <1>1
  <2> HIDE DEF Good
  <2> QED
    BY <2>3, <2>4
<1>6. ASSUME NEW m \in 1 .. n, m - 1 \in A
      PROVE  m \in A
  <2> DEFINE old == f[m - 1]
             e == es[m]
  <2>1. Good(m - 1) /\ m \in 0 .. n /\ m - 1 \in 0 .. n
    BY <1>1, <1>6
  <2>2. TableOK(old) /\ OneEntry(old) /\ Stocked(old) = Stocked(tb) \cup items(m - 1)
    BY <2>1
  <2>3. f[m] = AppendEntry(old, e) /\ e \in StockedEntry /\ e.stack \in Stacks
    BY <1>2, <1>3
  <2>4. e.item \notin Stocked(old)
    <3>1. e.item \notin Stocked(tb)
      BY <1>2
    <3>2. ASSUME NEW l \in 1 .. m - 1, es[l].item = e.item
          PROVE  FALSE
      <4>1. l \in DOMAIN es /\ m \in DOMAIN es /\ l # m
        BY <1>1
      <4> QED
        BY <3>2, <4>1 DEF Stockable
    <3> HIDE DEF old
    <3> QED
      BY <2>2, <3>1, <3>2
  <2>5. /\ TableOK(f[m])
        /\ \A q \in Stacks :
             f[m].units[q] = IF q = e.stack THEN old.units[q] + e.u ELSE old.units[q]
    <3> HIDE DEF old, e
    <3>1. TableOK(old) /\ e \in StockedEntry /\ e.stack \in Stacks
      BY <2>2, <2>3
    <3>2. /\ TableOK(AppendEntry(old, e))
          /\ \A q \in Stacks :
               AppendEntry(old, e).units[q]
                 = IF q = e.stack THEN old.units[q] + e.u ELSE old.units[q]
      BY <3>1, AppendParts
    <3> QED
      BY <2>3, <3>2
  <2>6. OneEntry(f[m]) /\ Stocked(f[m]) = Stocked(old) \cup {e.item}
    <3> HIDE DEF old, e
    <3> QED
      BY <2>2, <2>3, <2>4, AppendOneEntry
  <2>7. Stocked(f[m]) = Stocked(tb) \cup items(m)
    <3>1. 1 .. m = (1 .. m - 1) \cup {m}
      BY <1>1
    <3>2. items(m) = items(m - 1) \cup {e.item}
      BY <3>1
    <3> HIDE DEF items, old, e
    <3> QED
      BY <2>2, <2>6, <3>2
  <2>8. ASSUME NEW k \in Stacks
        PROVE  f[m].units[k] = tb.units[k] + PutInto(es, k, m)
    <3>1. f[m].units[k] = IF k = e.stack THEN old.units[k] + e.u ELSE old.units[k]
      BY <2>5
    <3>2. old.units[k] = tb.units[k] + PutInto(es, k, m - 1)
      BY <2>1
    <3>3. PutInto(es, k, m) = PutInto(es, k, m - 1) + (IF e.stack = k THEN e.u ELSE 0)
      BY <1>1, PutGrows
    <3>4. PutInto(es, k, m - 1) \in Nat /\ tb.units[k] \in Nat
      BY <1>1, <1>4, <2>1, PutGrows
    <3>5. e.u \in Nat
      BY <2>3 DEF StockedEntry
    <3> DEFINE a == tb.units[k]
               b == PutInto(es, k, m - 1)
               c == e.u
    <3> HIDE DEF old, e, a, b, c
    <3> QED
      BY <3>1, <3>2, <3>3, <3>4, <3>5 DEF a, b, c
  <2>9. Good(m)
    BY <2>5, <2>6, <2>7, <2>8
  <2> HIDE DEF Good
  <2> QED
    BY <2>1, <2>9
<1>7. Good(n)
  <2>1. 0 .. n \subseteq A
    <3> HIDE DEF A, n
    <3> QED
      BY <1>1, <1>5, <1>6, UpTo
  <2>2. n \in 0 .. n
    BY <1>1
  <2> HIDE DEF Good
  <2> QED
    BY <2>1, <2>2
<1>8. TableOK(new) /\ OneEntry(new)
  BY <1>3, <1>7
<1>9. ASSUME NEW k \in Stacks
      PROVE  new.units[k] = tb.units[k] + UnitsByStack(es)[k]
  <2>1. new.units[k] = tb.units[k] + PutInto(es, k, n)
    BY <1>3, <1>7
  <2> HIDE DEF new
  <2> QED
    BY <1>1, <2>1, PutGrows
<1>10. new.total = tb.total + Total(UnitsByStack(es))
  <2> DEFINE a == tb.units
             b == UnitsByStack(es)
  <2> HIDE DEF new, Good
  <2>1. new.total = Total(new.units) /\ new.units \in [Stacks -> Nat]
        /\ tb.total = Total(a) /\ a \in [Stacks -> Nat]
    BY <1>8, TableParts DEF TableOK
  <2>2. b \in [Stacks -> Nat]
    BY <1>1, UnitsByStackType
  <2>3. new.units = [k \in Stacks |-> a[k] + b[k]]
    BY <1>9, <2>1
  <2> HIDE DEF a, b
  <2>4. Total([k \in Stacks |-> a[k] + b[k]]) = Total(a) + Total(b)
    BY <2>1, <2>2, StacksFinite, TotalPlus
  <2> QED
    BY <2>1, <2>3, <2>4 DEF a, b
<1> HIDE DEF new
<1> QED
  BY <1>8, <1>9, <1>10 DEF new

-----------------------------------------------------------------------------
(* The plan of a purchase.                                                 *)

(* Lists put one after the other make a list that is as long as any.       *)
LEMMA Flattened ==
  ASSUME NEW X, NEW ss \in Seq(Seq(X))
  PROVE  /\ FlattenSeq(ss) \in Seq(X)
         /\ \A i \in DOMAIN ss : Len(ss[i]) <= Len(FlattenSeq(ss))
<1> DEFINE n == Len(ss)
           R == Seq(X)
           F == [mx \in (1 .. n) \X R |-> IF mx[1] = 1 THEN ss[mx[1]] ELSE mx[2] \o ss[mx[1]]]
           Rec(g) == g = [i \in 1 .. n |-> IF i = 1 THEN ss[i] ELSE g[i - 1] \o ss[i]]
           it == CHOOSE g : Rec(g)
<1>1. DOMAIN ss = 1 .. n /\ n \in Nat /\ <<>> \in R /\ \A i \in 1 .. n : ss[i] \in R
  OBVIOUS
<1>2. F \in [(1 .. n) \X R -> R]
  <2> SUFFICES ASSUME NEW m \in 1 .. n, NEW x \in R
               PROVE  (IF m = 1 THEN ss[m] ELSE x \o ss[m]) \in R
    OBVIOUS
  <2>1. ss[m] \in Seq(X) /\ x \in Seq(X)
    BY <1>1
  <2>2. x \o ss[m] \in Seq(X)
    BY <2>1
  <2> QED
    BY <2>1, <2>2
<1>3. \E g : Rec(g)
  <2> HIDE DEF R, F
  <2>1. PICK h : Folds(h, n, R, <<>>, F)
    <3> HIDE DEF n
    <3> QED
      BY <1>1, <1>2, FoldExists
  <2> DEFINE g == [i \in 1 .. n |-> h[1 .. i]]
  <2>2. ASSUME NEW i \in 1 .. n
        PROVE  g[i] = IF i = 1 THEN ss[i] ELSE g[i - 1] \o ss[i]
    <3>1. Max(1 .. i) = i /\ (1 .. i) \ {i} = 1 .. (i - 1) /\ 1 .. i # {}
      BY <1>1, LastOfFirst
    <3> DEFINE s == 1 .. i
               x == h[1 .. (i - 1)]
    <3>2. s \in SUBSET (1 .. n) /\ 1 .. (i - 1) \in SUBSET (1 .. n)
      BY <1>1
    <3> HIDE DEF s
    <3>3. h[s] = IF s = {} THEN <<>> ELSE F[<<Max(s), h[s \ {Max(s)}]>>]
      BY <2>1, <3>2 DEF Folds
    <3>4. h[s] = F[<<i, x>>]
      BY <3>1, <3>3 DEF s
    <3>5. x \in R
      BY <2>1, <3>2 DEF Folds
    <3> HIDE DEF x
    <3>6. <<i, x>> \in (1 .. n) \X R
      BY <3>5
    <3>7. F[<<i, x>>] = IF i = 1 THEN ss[i] ELSE x \o ss[i]
      BY <3>6 DEF F
    <3>8. i # 1 => i - 1 \in 1 .. n
      BY <1>1
    <3>9. g[i] = h[s] /\ (i # 1 => g[i - 1] = x)
      BY <3>8 DEF s, x
    <3> HIDE DEF g
    <3> QED
      BY <3>4, <3>7, <3>9
  <2>3. Rec(g)
    <3> DEFINE val(i) == IF i = 1 THEN ss[i] ELSE g[i - 1] \o ss[i]
    <3>1. g = [i \in 1 .. n |-> g[i]]
      OBVIOUS
    <3> HIDE DEF g
    <3>2. \A i \in 1 .. n : g[i] = val(i)
      BY <2>2
    <3> HIDE DEF val
    <3>3. g = [i \in 1 .. n |-> val(i)]
      BY <3>1, <3>2
    <3> QED
      BY <3>3 DEF val
  <2> QED
    BY <2>3
<1>4. Rec(it)
  <2> HIDE DEF Rec
  <2> QED
    BY <1>3
<1>5. n # 0 => FlattenSeq(ss) = it[n]
  BY DEF FlattenSeq
<1> HIDE DEF it
<1>6. ASSUME NEW m \in 1 .. n
      PROVE  it[m] = IF m = 1 THEN ss[m] ELSE it[m - 1] \o ss[m]
  BY <1>4
<1> DEFINE Good(m) == it[m] \in R /\ \A i \in 1 .. m : Len(ss[i]) <= Len(it[m])
           A == {m \in 0 .. n : m # 0 => Good(m)}
<1>7. ASSUME NEW m \in 1 .. n, m - 1 \in A
      PROVE  m \in A
  <2>1. CASE m = 1
    <3>1. it[m] = ss[1] /\ 1 .. m = {1}
      BY <1>6, <2>1
    <3>2. Good(m)
      BY <1>1, <2>1, <3>1
    <3> HIDE DEF Good
    <3> QED
      BY <1>1, <3>2
  <2>2. CASE m # 1
    <3> DEFINE x == it[m - 1]
               y == ss[m]
    <3>1. it[m] = x \o y
      BY <1>6, <2>2
    <3>2. m - 1 # 0 /\ m - 1 \in 0 .. n
      BY <1>1, <2>2
    <3>3. Good(m - 1)
      <4> HIDE DEF Good
      <4> QED
        BY <1>7, <3>2
    <3>4. x \in Seq(X) /\ \A i \in 1 .. m - 1 : Len(ss[i]) <= Len(x)
      BY <3>3
    <3>5. y \in Seq(X)
      BY <1>1
    <3> HIDE DEF x, y
    <3>6. x \o y \in Seq(X) /\ Len(x \o y) = Len(x) + Len(y) /\ Len(x) \in Nat /\ Len(y) \in Nat
      BY <3>4, <3>5
    <3>7. ASSUME NEW i \in 1 .. m
          PROVE  Len(ss[i]) <= Len(x \o y)
      <4>1. CASE i = m
        BY <3>6, <4>1 DEF y
      <4>2. CASE i # m
        <5>1. i \in 1 .. m - 1 /\ i \in 1 .. n
          BY <1>1, <4>2
        <5>2. Len(ss[i]) <= Len(x) /\ Len(ss[i]) \in Nat
          BY <1>1, <3>4, <5>1
        <5> QED
          BY <3>6, <5>2
      <4> QED
        BY <4>1, <4>2
    <3>8. Good(m)
      BY <3>1, <3>6, <3>7
    <3> HIDE DEF Good
    <3> QED
      BY <1>1, <3>8
  <2> QED
    BY <2>1, <2>2
<1>8. 0 .. n \subseteq A
  <2>1. 0 \in A
    BY <1>1
  <2> HIDE DEF A, n
  <2> QED
    BY <1>1, <1>7, <2>1, UpTo
<1>9. CASE n = 0
  <2>1. FlattenSeq(ss) = ss /\ ss = <<>> /\ DOMAIN ss = {}
    BY <1>1, <1>9 DEF FlattenSeq
  <2> QED
    BY <1>1, <2>1
<1>10. CASE n # 0
  <2>1. n \in 0 .. n
    BY <1>1
  <2>2. Good(n)
    <3> HIDE DEF Good
    <3> QED
      BY <1>8, <1>10, <2>1
  <2> QED
    BY <1>1, <1>5, <1>10, <2>2
<1> QED
  BY <1>9, <1>10

(* A list repeated is empty only if there is nothing to repeat.            *)
LEMMA RepeatedType ==
  ASSUME NEW X, NEW n \in Nat, NEW list \in Seq(X)
  PROVE  Repeated(n, list) \in Seq(X) /\ (n > 0 => Len(list) <= Len(Repeated(n, list)))
<1> DEFINE ss == [m \in 1 .. n |-> list]
<1>1. ss \in Seq(Seq(X)) /\ DOMAIN ss = 1 .. n
  OBVIOUS
<1>2. n > 0 => 1 \in DOMAIN ss /\ ss[1] = list
  OBVIOUS
<1> HIDE DEF ss
<1>3. FlattenSeq(ss) \in Seq(X) /\ \A i \in DOMAIN ss : Len(ss[i]) <= Len(FlattenSeq(ss))
  BY <1>1, Flattened
<1>4. Repeated(n, list) = FlattenSeq(ss)
  BY DEF Repeated, ss
<1> QED
  BY <1>2, <1>3, <1>4

(* What is known of the numbers of draws in a pack. *)
PackOK(pp, pd) ==
  pp > 0 => Len(pd) \in 1 .. MaxBucketStacks /\ \E j \in DOMAIN pd : pd[j] > 0

(* A pack that has draws has a stack that is drawn from. *)
LEMMA SomeDraws ==
  ASSUME NEW pd \in Seq(Nat), SumOf(pd) >= 1
  PROVE  \E j \in DOMAIN pd : pd[j] > 0
<1> SUFFICES ASSUME \A j \in DOMAIN pd : ~(pd[j] > 0)
             PROVE  FALSE
  OBVIOUS
<1>1. \A j \in DOMAIN pd : pd[j] = 0
  OBVIOUS
<1>2. [k \in DOMAIN pd |-> pd[k]] = [k \in DOMAIN pd |-> 0]
  BY <1>1
<1>3. SumOf(pd) = 0
  BY <1>2, TotalZero DEF SumOf
<1> QED
  BY <1>3

(* A purchase that is not refused draws something, and from the bucket's   *)
(* stacks.                                                                 *)
LEMMA PlanType ==
  ASSUME NEW b, b.pd \in Seq(Nat), PackOK(b.pp, b.pd), NEW mode \in Modes,
         NEW quantity \in Nat, quantity > 0, UnitPrice(b, mode) > 0
  PROVE  /\ Plan(b, mode, quantity) \in Seq(Stacks)
         /\ Len(Plan(b, mode, quantity)) >= 1
<1>1. CASE mode = "single"
  <2>1. <<0>> \in Seq(Stacks) /\ Len(<<0>>) = 1
    BY StacksFinite
  <2>2. /\ Repeated(quantity, <<0>>) \in Seq(Stacks)
        /\ (quantity > 0 => Len(<<0>>) <= Len(Repeated(quantity, <<0>>)))
    BY <2>1, RepeatedType
  <2> QED
    BY <1>1, <2>1, <2>2 DEF Plan
<1>2. CASE mode = "pack"
  <2> DEFINE pd == b.pd
             ss == [j \in DOMAIN pd |-> Repeated(pd[j], <<j - 1>>)]
             list == FlattenSeq(ss)
  <2>1. pd \in Seq(Nat) /\ Len(pd) \in 1 .. MaxBucketStacks /\ DOMAIN pd = 1 .. Len(pd)
    BY <1>2 DEF PackOK, UnitPrice, Modes
  <2>2. PICK p \in DOMAIN pd : pd[p] > 0
    BY <1>2 DEF PackOK, UnitPrice, Modes
  <2>3. ASSUME NEW j \in DOMAIN pd
        PROVE  /\ ss[j] \in Seq(Stacks)
               /\ pd[j] > 0 => Len(ss[j]) >= 1
    <3>1. j - 1 \in Stacks /\ pd[j] \in Nat
      BY <2>1, BucketAssumption DEF Stacks
    <3>2. <<j - 1>> \in Seq(Stacks) /\ Len(<<j - 1>>) = 1
      BY <3>1
    <3>3. /\ Repeated(pd[j], <<j - 1>>) \in Seq(Stacks)
          /\ (pd[j] > 0 => Len(<<j - 1>>) <= Len(Repeated(pd[j], <<j - 1>>)))
      BY <3>1, <3>2, RepeatedType
    <3>4. ss[j] = Repeated(pd[j], <<j - 1>>)
      OBVIOUS
    <3> HIDE DEF ss
    <3> QED
      BY <3>2, <3>3, <3>4
  <2>4. DOMAIN ss = DOMAIN pd
    OBVIOUS
  <2> HIDE DEF ss, pd
  <2>5. ss \in Seq(Seq(Stacks))
    <3> SUFFICES ss = [j \in 1 .. Len(pd) |-> ss[j]]
      BY <2>1, <2>3
    <3> QED
      BY <2>1, <2>4 DEF ss
  <2>6. list \in Seq(Stacks) /\ Len(ss[p]) <= Len(list)
    BY <2>2, <2>4, <2>5, Flattened
  <2>7. Len(ss[p]) >= 1 /\ Len(ss[p]) \in Nat
    BY <2>2, <2>3
  <2> HIDE DEF list
  <2>8. /\ Repeated(quantity, list) \in Seq(Stacks)
        /\ (quantity > 0 => Len(list) <= Len(Repeated(quantity, list)))
    BY <2>6, RepeatedType
  <2>9. Plan(b, mode, quantity) = Repeated(quantity, list)
    BY <1>2 DEF Plan, list, ss, pd
  <2>10. Len(list) >= 1 /\ Len(list) \in Nat /\ Len(Repeated(quantity, list)) \in Nat
    BY <2>6, <2>7, <2>8
  <2> QED
    BY <2>8, <2>9, <2>10
<1> QED
  BY <1>1, <1>2 DEF Modes

-----------------------------------------------------------------------------
(* What the events tell.                                                   *)

Book ==
  [open : BOOLEAN, added : [Stacks -> Nat], drawn : [Stacks -> Nat],
   dropped : [Stacks -> Nat], left : Nat]

Books == [BucketIds -> Book]

(* One book differs, and is made of these five parts. *)
Becomes(new, bks, id, o, a, d, p, n) ==
  /\ new \in Books
  /\ \A other \in BucketIds \ {id} : new[other] = bks[other]
  /\ new[id].open = o /\ new[id].added = a /\ new[id].drawn = d
  /\ new[id].dropped = p /\ new[id].left = n

(* A book has five parts. *)
LEMMA BookParts ==
  ASSUME NEW bks \in Books, NEW id \in BucketIds
  PROVE  /\ bks[id] \in Book
         /\ bks[id].open \in BOOLEAN /\ bks[id].added \in [Stacks -> Nat]
         /\ bks[id].drawn \in [Stacks -> Nat] /\ bks[id].dropped \in [Stacks -> Nat]
         /\ bks[id].left \in Nat
<1> DEFINE b == bks[id]
<1>1. b \in Book
  BY DEF Books
<1> HIDE DEF b
<1>2. /\ b.open \in BOOLEAN /\ b.added \in [Stacks -> Nat]
      /\ b.drawn \in [Stacks -> Nat] /\ b.dropped \in [Stacks -> Nat]
      /\ b.left \in Nat
  BY <1>1 DEF Book
<1> QED
  BY <1>1, <1>2 DEF b

LEMMA SameBooks ==
  ASSUME NEW bks \in Books, NEW id \in BucketIds
  PROVE  Becomes(bks, bks, id, bks[id].open, bks[id].added, bks[id].drawn,
                 bks[id].dropped, bks[id].left)
BY DEF Becomes

(* Another book for one bucket. *)
Rebook(bks, id, b) == [bks EXCEPT ![id] = b]

LEMMA RebookIs ==
  ASSUME NEW bks \in Books, NEW id \in BucketIds, NEW b \in Book
  PROVE  /\ Rebook(bks, id, b) \in Books /\ Rebook(bks, id, b)[id] = b
         /\ \A other \in BucketIds \ {id} : Rebook(bks, id, b)[other] = bks[other]
BY DEF Rebook, Books

(* One part of it is replaced. *)
SetOpen(bks, id, v) == [bks EXCEPT ![id].open = v]
SetAdded(bks, id, v) == [bks EXCEPT ![id].added = v]
SetDrawn(bks, id, v) == [bks EXCEPT ![id].drawn = v]
SetDropped(bks, id, v) == [bks EXCEPT ![id].dropped = v]
SetLeft(bks, id, v) == [bks EXCEPT ![id].left = v]

LEMMA OpenSet ==
  ASSUME NEW bks, NEW id \in BucketIds, NEW o, NEW a, NEW d, NEW p, NEW n, NEW new,
         Becomes(new, bks, id, o, a, d, p, n), NEW v, v \in BOOLEAN
  PROVE  Becomes(SetOpen(new, id, v), bks, id, v, a, d, p, n)
<1> DEFINE b == new[id]
           c == [b EXCEPT !.open = v]
<1>1. new \in Books /\ b \in Book
  BY DEF Becomes, Books
<1>2. SetOpen(new, id, v) = Rebook(new, id, c)
  BY DEF SetOpen, Rebook
<1>3. /\ b.open = o /\ b.added = a /\ b.drawn = d /\ b.dropped = p /\ b.left = n
      /\ \A other \in BucketIds \ {id} : new[other] = bks[other]
  BY DEF Becomes
<1> HIDE DEF b
<1>4. c \in Book /\ c.open = v /\ c.added = a /\ c.drawn = d /\ c.dropped = p /\ c.left = n
  BY <1>1, <1>3 DEF Book
<1> HIDE DEF c
<1> DEFINE w == Rebook(new, id, c)
<1>5. /\ w \in Books /\ w[id] = c
      /\ \A other \in BucketIds \ {id} : w[other] = new[other]
  BY <1>1, <1>4, RebookIs
<1> HIDE DEF w
<1>6. Becomes(w, bks, id, v, a, d, p, n)
  BY <1>3, <1>4, <1>5 DEF Becomes
<1> QED
  BY <1>2, <1>6 DEF w

LEMMA AddedSet ==
  ASSUME NEW bks, NEW id \in BucketIds, NEW o, NEW a, NEW d, NEW p, NEW n, NEW new,
         Becomes(new, bks, id, o, a, d, p, n), NEW v, v \in [Stacks -> Nat]
  PROVE  Becomes(SetAdded(new, id, v), bks, id, o, v, d, p, n)
<1> DEFINE b == new[id]
           c == [b EXCEPT !.added = v]
<1>1. new \in Books /\ b \in Book
  BY DEF Becomes, Books
<1>2. SetAdded(new, id, v) = Rebook(new, id, c)
  BY DEF SetAdded, Rebook
<1>3. /\ b.open = o /\ b.added = a /\ b.drawn = d /\ b.dropped = p /\ b.left = n
      /\ \A other \in BucketIds \ {id} : new[other] = bks[other]
  BY DEF Becomes
<1> HIDE DEF b
<1>4. c \in Book /\ c.open = o /\ c.added = v /\ c.drawn = d /\ c.dropped = p /\ c.left = n
  BY <1>1, <1>3 DEF Book
<1> HIDE DEF c
<1> DEFINE w == Rebook(new, id, c)
<1>5. /\ w \in Books /\ w[id] = c
      /\ \A other \in BucketIds \ {id} : w[other] = new[other]
  BY <1>1, <1>4, RebookIs
<1> HIDE DEF w
<1>6. Becomes(w, bks, id, o, v, d, p, n)
  BY <1>3, <1>4, <1>5 DEF Becomes
<1> QED
  BY <1>2, <1>6 DEF w

LEMMA DrawnSet ==
  ASSUME NEW bks, NEW id \in BucketIds, NEW o, NEW a, NEW d, NEW p, NEW n, NEW new,
         Becomes(new, bks, id, o, a, d, p, n), NEW v, v \in [Stacks -> Nat]
  PROVE  Becomes(SetDrawn(new, id, v), bks, id, o, a, v, p, n)
<1> DEFINE b == new[id]
           c == [b EXCEPT !.drawn = v]
<1>1. new \in Books /\ b \in Book
  BY DEF Becomes, Books
<1>2. SetDrawn(new, id, v) = Rebook(new, id, c)
  BY DEF SetDrawn, Rebook
<1>3. /\ b.open = o /\ b.added = a /\ b.drawn = d /\ b.dropped = p /\ b.left = n
      /\ \A other \in BucketIds \ {id} : new[other] = bks[other]
  BY DEF Becomes
<1> HIDE DEF b
<1>4. c \in Book /\ c.open = o /\ c.added = a /\ c.drawn = v /\ c.dropped = p /\ c.left = n
  BY <1>1, <1>3 DEF Book
<1> HIDE DEF c
<1> DEFINE w == Rebook(new, id, c)
<1>5. /\ w \in Books /\ w[id] = c
      /\ \A other \in BucketIds \ {id} : w[other] = new[other]
  BY <1>1, <1>4, RebookIs
<1> HIDE DEF w
<1>6. Becomes(w, bks, id, o, a, v, p, n)
  BY <1>3, <1>4, <1>5 DEF Becomes
<1> QED
  BY <1>2, <1>6 DEF w

LEMMA DroppedSet ==
  ASSUME NEW bks, NEW id \in BucketIds, NEW o, NEW a, NEW d, NEW p, NEW n, NEW new,
         Becomes(new, bks, id, o, a, d, p, n), NEW v, v \in [Stacks -> Nat]
  PROVE  Becomes(SetDropped(new, id, v), bks, id, o, a, d, v, n)
<1> DEFINE b == new[id]
           c == [b EXCEPT !.dropped = v]
<1>1. new \in Books /\ b \in Book
  BY DEF Becomes, Books
<1>2. SetDropped(new, id, v) = Rebook(new, id, c)
  BY DEF SetDropped, Rebook
<1>3. /\ b.open = o /\ b.added = a /\ b.drawn = d /\ b.dropped = p /\ b.left = n
      /\ \A other \in BucketIds \ {id} : new[other] = bks[other]
  BY DEF Becomes
<1> HIDE DEF b
<1>4. c \in Book /\ c.open = o /\ c.added = a /\ c.drawn = d /\ c.dropped = v /\ c.left = n
  BY <1>1, <1>3 DEF Book
<1> HIDE DEF c
<1> DEFINE w == Rebook(new, id, c)
<1>5. /\ w \in Books /\ w[id] = c
      /\ \A other \in BucketIds \ {id} : w[other] = new[other]
  BY <1>1, <1>4, RebookIs
<1> HIDE DEF w
<1>6. Becomes(w, bks, id, o, a, d, v, n)
  BY <1>3, <1>4, <1>5 DEF Becomes
<1> QED
  BY <1>2, <1>6 DEF w

LEMMA LeftSet ==
  ASSUME NEW bks, NEW id \in BucketIds, NEW o, NEW a, NEW d, NEW p, NEW n, NEW new,
         Becomes(new, bks, id, o, a, d, p, n), NEW v, v \in Nat
  PROVE  Becomes(SetLeft(new, id, v), bks, id, o, a, d, p, v)
<1> DEFINE b == new[id]
           c == [b EXCEPT !.left = v]
<1>1. new \in Books /\ b \in Book
  BY DEF Becomes, Books
<1>2. SetLeft(new, id, v) = Rebook(new, id, c)
  BY DEF SetLeft, Rebook
<1>3. /\ b.open = o /\ b.added = a /\ b.drawn = d /\ b.dropped = p /\ b.left = n
      /\ \A other \in BucketIds \ {id} : new[other] = bks[other]
  BY DEF Becomes
<1> HIDE DEF b
<1>4. c \in Book /\ c.open = o /\ c.added = a /\ c.drawn = d /\ c.dropped = p /\ c.left = v
  BY <1>1, <1>3 DEF Book
<1> HIDE DEF c
<1> DEFINE w == Rebook(new, id, c)
<1>5. /\ w \in Books /\ w[id] = c
      /\ \A other \in BucketIds \ {id} : w[other] = new[other]
  BY <1>1, <1>4, RebookIs
<1> HIDE DEF w
<1>6. Becomes(w, bks, id, o, a, d, p, v)
  BY <1>3, <1>4, <1>5 DEF Becomes
<1> QED
  BY <1>2, <1>6 DEF w

(* One more in one stack. *)
MoreIn(f, k, n) == [f EXCEPT ![k] = @ + n]

LEMMA MoreInType ==
  ASSUME NEW f \in [Stacks -> Nat], NEW k \in Stacks, NEW n \in Nat
  PROVE  /\ MoreIn(f, k, n) \in [Stacks -> Nat]
         /\ \A q \in Stacks : MoreIn(f, k, n)[q] = IF q = k THEN f[q] + n ELSE f[q]
BY DEF MoreIn

LEMMA PlusType ==
  ASSUME NEW f \in [Stacks -> Nat], NEW g \in [Stacks -> Nat]
  PROVE  /\ Plus(f, g) \in [Stacks -> Nat]
         /\ \A q \in Stacks : Plus(f, g)[q] = f[q] + g[q]
BY DEF Plus

(* What every event makes of a book. *)
LEMMA ToldListed ==
  ASSUME NEW bks \in Books, NEW id \in BucketIds, NEW e, e.bucketId = id,
         e.type = "bucket_listed", UnitsByStack(e.entries) \in [Stacks -> Nat],
         e.units \in Nat, NEW yes, yes = TRUE
  PROVE  Becomes(Told(bks, e), bks, id, yes, UnitsByStack(e.entries), bks[id].drawn,
                 bks[id].dropped, e.units)
<1> DEFINE v == UnitsByStack(e.entries)
           w == e.units
           a == bks[id].added
           d == bks[id].drawn
           p == bks[id].dropped
           n == bks[id].left
           s1 == SetOpen(bks, id, yes)
           s2 == SetLeft(s1, id, w)
           s3 == SetAdded(s2, id, v)
<1>1. Told(bks, e) = s3
  BY DEF Told, SetOpen, SetAdded, SetLeft
<1>2. Becomes(bks, bks, id, bks[id].open, a, d, p, n)
  BY SameBooks
<1> HIDE DEF v, w, a, d, p, n, s3
<1>3. Becomes(s1, bks, id, yes, a, d, p, n)
  BY <1>2, OpenSet
<1> HIDE DEF s1
<1>4. Becomes(s2, bks, id, yes, a, d, p, w)
  BY <1>3, LeftSet DEF w
<1> HIDE DEF s2
<1>5. Becomes(s3, bks, id, yes, v, d, p, w)
  BY <1>4, AddedSet DEF s3, v
<1> QED
  BY <1>1, <1>5 DEF v, w, d, p

LEMMA ToldRestocked ==
  ASSUME NEW bks \in Books, NEW id \in BucketIds, NEW e, e.bucketId = id,
         e.type = "bucket_restocked", UnitsByStack(e.entries) \in [Stacks -> Nat],
         e.unitsAdded \in Nat
  PROVE  Becomes(Told(bks, e), bks, id, bks[id].open,
                 Plus(bks[id].added, UnitsByStack(e.entries)), bks[id].drawn,
                 bks[id].dropped, bks[id].left + e.unitsAdded)
<1> DEFINE o == bks[id].open
           a == bks[id].added
           d == bks[id].drawn
           p == bks[id].dropped
           n == bks[id].left
           v == Plus(a, UnitsByStack(e.entries))
           w == n + e.unitsAdded
           s1 == SetLeft(bks, id, w)
           s2 == SetAdded(s1, id, v)
<1>1. Told(bks, e) = s2
  BY DEF Told, SetAdded, SetLeft
<1>2. Becomes(bks, bks, id, o, a, d, p, n)
  BY SameBooks
<1>3. a \in [Stacks -> Nat] /\ n \in Nat
  BY BookParts
<1> HIDE DEF o, a, d, p, n
<1>4. v \in [Stacks -> Nat] /\ w \in Nat
  BY <1>3, PlusType
<1> HIDE DEF v, w, s2
<1>5. Becomes(s1, bks, id, o, a, d, p, w)
  BY <1>2, <1>4, LeftSet
<1> HIDE DEF s1
<1>6. Becomes(s2, bks, id, o, v, d, p, w)
  BY <1>4, <1>5, AddedSet DEF s2
<1> QED
  BY <1>1, <1>6 DEF o, a, d, p, n, v, w

LEMMA ToldDraw ==
  ASSUME NEW bks \in Books, NEW id \in BucketIds, NEW e, e.bucketId = id,
         e.type = "bucket_draw", e.stack \in Stacks
  PROVE  Becomes(Told(bks, e), bks, id, bks[id].open, bks[id].added,
                 MoreIn(bks[id].drawn, e.stack, 1), bks[id].dropped, bks[id].left)
<1> DEFINE o == bks[id].open
           a == bks[id].added
           d == bks[id].drawn
           p == bks[id].dropped
           n == bks[id].left
           v == MoreIn(d, e.stack, 1)
           s1 == SetDrawn(bks, id, v)
<1>1. Told(bks, e) = s1
  BY DEF Told, SetDrawn, MoreIn
<1>2. Becomes(bks, bks, id, o, a, d, p, n)
  BY SameBooks
<1>3. d \in [Stacks -> Nat]
  BY BookParts
<1> HIDE DEF o, a, d, p, n
<1>4. v \in [Stacks -> Nat]
  BY <1>3, MoreInType
<1> HIDE DEF v, s1
<1>5. Becomes(s1, bks, id, o, a, v, p, n)
  BY <1>2, <1>4, DrawnSet DEF s1
<1> QED
  BY <1>1, <1>5 DEF o, a, d, p, n, v

LEMMA ToldDropped ==
  ASSUME NEW bks \in Books, NEW id \in BucketIds, NEW e, e.bucketId = id,
         e.type = "bucket_entry_dropped", e.stack \in Stacks, e.units \in Nat
  PROVE  Becomes(Told(bks, e), bks, id, bks[id].open, bks[id].added, bks[id].drawn,
                 MoreIn(bks[id].dropped, e.stack, e.units), bks[id].left)
<1> DEFINE o == bks[id].open
           a == bks[id].added
           d == bks[id].drawn
           p == bks[id].dropped
           n == bks[id].left
           v == MoreIn(p, e.stack, e.units)
           s1 == SetDropped(bks, id, v)
<1>1. Told(bks, e) = s1
  BY DEF Told, SetDropped, MoreIn
<1>2. Becomes(bks, bks, id, o, a, d, p, n)
  BY SameBooks
<1>3. p \in [Stacks -> Nat]
  BY BookParts
<1> HIDE DEF o, a, d, p, n
<1>4. v \in [Stacks -> Nat]
  BY <1>3, MoreInType
<1> HIDE DEF v, s1
<1>5. Becomes(s1, bks, id, o, a, d, v, n)
  BY <1>2, <1>4, DroppedSet DEF s1
<1> QED
  BY <1>1, <1>5 DEF o, a, d, p, n, v

LEMMA ToldPurchase ==
  ASSUME NEW bks \in Books, NEW id \in BucketIds, NEW e, e.bucketId = id,
         e.type = "bucket_purchase", e.unitsLeft \in Nat
  PROVE  Becomes(Told(bks, e), bks, id, bks[id].open, bks[id].added, bks[id].drawn,
                 bks[id].dropped, e.unitsLeft)
<1> DEFINE o == bks[id].open
           a == bks[id].added
           d == bks[id].drawn
           p == bks[id].dropped
           n == bks[id].left
           v == e.unitsLeft
           s1 == SetLeft(bks, id, v)
<1>1. Told(bks, e) = s1
  BY DEF Told, SetLeft
<1>2. Becomes(bks, bks, id, o, a, d, p, n)
  BY SameBooks
<1> HIDE DEF o, a, d, p, n, s1
<1>3. Becomes(s1, bks, id, o, a, d, p, v)
  BY <1>2, LeftSet DEF s1
<1> QED
  BY <1>1, <1>3 DEF o, a, d, p

LEMMA ToldClosed ==
  ASSUME NEW bks \in Books, NEW id \in BucketIds, NEW e, e.bucketId = id,
         e.type \in {"bucket_sold_out", "bucket_delisted"}, NEW no, no = FALSE
  PROVE  Becomes(Told(bks, e), bks, id, no, bks[id].added, bks[id].drawn,
                 bks[id].dropped, bks[id].left)
<1> DEFINE o == bks[id].open
           a == bks[id].added
           d == bks[id].drawn
           p == bks[id].dropped
           n == bks[id].left
           s1 == SetOpen(bks, id, no)
<1>1. Told(bks, e) = s1
  BY DEF Told, SetOpen
<1>2. Becomes(bks, bks, id, o, a, d, p, n)
  BY SameBooks
<1> HIDE DEF o, a, d, p, n, s1
<1>3. Becomes(s1, bks, id, no, a, d, p, n)
  BY <1>2, OpenSet DEF s1
<1> QED
  BY <1>1, <1>3 DEF a, d, p, n

-----------------------------------------------------------------------------
(* What a purchase has drawn.                                              *)

Drawn == [item : Items, stack : Stacks]

DrawnItems(list, x) == Cardinality({m \in DOMAIN list : list[m].item = x})

DrawnStack(list, k) == Cardinality({m \in DOMAIN list : list[m].stack = k})

(* They are numbers, 0 at first. *)
LEMMA DrawnType ==
  ASSUME NEW list \in Seq(Drawn), NEW x
  PROVE  DrawnItems(list, x) \in Nat /\ DrawnStack(list, x) \in Nat
<1>1. IsFiniteSet(DOMAIN list)
  <2>1. DOMAIN list = 1 .. Len(list) /\ Len(list) \in Nat
    OBVIOUS
  <2> QED
    BY <2>1, FS_Interval
<1>2. IsFiniteSet({m \in DOMAIN list : list[m].item = x})
      /\ IsFiniteSet({m \in DOMAIN list : list[m].stack = x})
  BY <1>1, FS_Subset
<1> QED
  BY <1>2, FS_CardinalityType DEF DrawnItems, DrawnStack

LEMMA NothingDrawn ==
  ASSUME NEW x
  PROVE  DrawnItems(<<>>, x) = 0 /\ DrawnStack(<<>>, x) = 0
<1>1. {m \in DOMAIN <<>> : <<>>[m].item = x} = {} /\ {m \in DOMAIN <<>> : <<>>[m].stack = x} = {}
  OBVIOUS
<1> QED
  BY <1>1, FS_EmptySet DEF DrawnItems, DrawnStack

(* Another draw counts for its item and its stack. *)
LEMMA DrawnMore ==
  ASSUME NEW list \in Seq(Drawn), NEW d \in Drawn, NEW x
  PROVE  /\ Append(list, d) \in Seq(Drawn)
         /\ DrawnItems(Append(list, d), x)
              = IF d.item = x THEN DrawnItems(list, x) + 1 ELSE DrawnItems(list, x)
         /\ DrawnStack(Append(list, d), x)
              = IF d.stack = x THEN DrawnStack(list, x) + 1 ELSE DrawnStack(list, x)
<1> DEFINE n == Len(list) + 1
           new == Append(list, d)
           A == {m \in DOMAIN list : list[m].item = x}
           B == {m \in DOMAIN list : list[m].stack = x}
<1>1. /\ new \in Seq(Drawn) /\ DOMAIN new = DOMAIN list \cup {n} /\ n \notin DOMAIN list
      /\ new[n] = d /\ \A m \in DOMAIN list : new[m] = list[m]
  OBVIOUS
<1>2. IsFiniteSet(A) /\ IsFiniteSet(B) /\ n \notin A /\ n \notin B
  <2>1. DOMAIN list = 1 .. Len(list) /\ Len(list) \in Nat
    OBVIOUS
  <2>2. IsFiniteSet(DOMAIN list)
    BY <2>1, FS_Interval
  <2> QED
    BY <1>1, <2>2, FS_Subset
<1>3. {m \in DOMAIN new : new[m].item = x} = IF d.item = x THEN A \cup {n} ELSE A
  <2> HIDE DEF n, new
  <2> QED
    BY <1>1
<1>4. {m \in DOMAIN new : new[m].stack = x} = IF d.stack = x THEN B \cup {n} ELSE B
  <2> HIDE DEF n, new
  <2> QED
    BY <1>1
<1> HIDE DEF A, B, n, new
<1>5. Cardinality(A \cup {n}) = Cardinality(A) + 1 /\ Cardinality(B \cup {n}) = Cardinality(B) + 1
  BY <1>2, FS_AddElement
<1> QED
  BY <1>1, <1>3, <1>4, <1>5 DEF DrawnItems, DrawnStack, A, B, new

-----------------------------------------------------------------------------
(* A purchase under way.                                                   *)

TxRecord ==
  [on : {TRUE}, buyer : Accounts, id : BucketIds, mode : Modes, price : Nat,
   plan : Seq(Stacks), drawn : Seq(Drawn), tries : Nat, table : Table,
   checked : SUBSET (Stacks \X Nat), books : Books, unannounced : [Stacks -> Nat]]

(* Of an item whose entry has been asked about the seller holds what was   *)
(* drawn and what the entry still counts; of any other nothing was drawn.  *)
Held(tb, checked, drawn, n, s) ==
  /\ \A k \in Stacks : \A i \in DOMAIN tb.slots[k] :
       LET e == tb.slots[k][i] IN
       /\ <<k, i>> \in checked => DrawnItems(drawn, e.item) + e.u <= n[e.item][s]
       /\ <<k, i>> \notin checked => DrawnItems(drawn, e.item) = 0
  /\ \A x \in Items : x \notin Stocked(tb) => DrawnItems(drawn, x) = 0

(* What the purchase took off the stored counters was drawn or dropped,    *)
(* and only what was dropped has been told so far.                         *)
Tally(t, b, bks) ==
  /\ \A other \in BucketIds \ {t.id} : t.books[other] = bks[other]
  /\ t.books[t.id].open = bks[t.id].open /\ t.books[t.id].added = bks[t.id].added
  /\ t.books[t.id].drawn = bks[t.id].drawn /\ t.books[t.id].left = bks[t.id].left
  /\ \A k \in Stacks :
       bks[t.id].dropped[k] + b.table.units[k]
         = t.table.units[k] + DrawnStack(t.drawn, k) + t.books[t.id].dropped[k]
             + t.unannounced[k]

TxOK(t, b, bks, n) ==
  /\ t \in TxRecord /\ Len(t.plan) >= 1
  /\ TableOK(t.table) /\ OneEntry(t.table)
  /\ Held(t.table, t.checked, t.drawn, n, b.s)
  /\ Tally(t, b, bks)
  /\ b.act = TRUE

(* One entry is asked about and drawn from, or dropped.                    *)
LEMMA HeldStep ==
  ASSUME NEW tb, OneEntry(tb), NEW checked, NEW drawn, NEW n, NEW s,
         Held(tb, checked, drawn, n, s),
         NEW k \in Stacks, NEW i \in DOMAIN tb.slots[k], NEW new, NEW more,
         SameEntries(tb, new),
         \A q \in Stacks : \A l \in DOMAIN tb.slots[q] :
           ~(q = k /\ l = i) => new.slots[q][l].u = tb.slots[q][l].u,
         \A x : x # tb.slots[k][i].item => DrawnItems(more, x) = DrawnItems(drawn, x),
         DrawnItems(more, tb.slots[k][i].item) + new.slots[k][i].u
           <= n[tb.slots[k][i].item][s]
  PROVE  Held(new, checked \cup {<<k, i>>}, more, n, s)
<1>1. ASSUME NEW q \in Stacks, NEW l \in DOMAIN new.slots[q]
      PROVE  LET e == new.slots[q][l] IN
             /\ <<q, l>> \in checked \cup {<<k, i>>} =>
                  DrawnItems(more, e.item) + e.u <= n[e.item][s]
             /\ <<q, l>> \notin checked \cup {<<k, i>>} => DrawnItems(more, e.item) = 0
  <2>1. l \in DOMAIN tb.slots[q] /\ new.slots[q][l].item = tb.slots[q][l].item
    BY DEF SameEntries
  <2>2. CASE q = k /\ l = i
    BY <2>1, <2>2
  <2>3. CASE ~(q = k /\ l = i)
    <3>1. tb.slots[q][l].item # tb.slots[k][i].item
      BY <2>1, <2>3 DEF OneEntry
    <3>2. new.slots[q][l].u = tb.slots[q][l].u
      BY <2>1, <2>3
    <3>3. DrawnItems(more, tb.slots[q][l].item) = DrawnItems(drawn, tb.slots[q][l].item)
      BY <3>1
    <3>4. <<q, l>> # <<k, i>>
      BY <2>3
    <3> DEFINE it == tb.slots[q][l].item
               u == tb.slots[q][l].u
    <3>5. /\ <<q, l>> \in checked => DrawnItems(drawn, it) + u <= n[it][s]
          /\ <<q, l>> \notin checked => DrawnItems(drawn, it) = 0
      BY <2>1 DEF Held
    <3> QED
      BY <2>1, <3>2, <3>3, <3>4, <3>5
  <2> QED
    BY <2>2, <2>3
<1>2. Stocked(new) = Stocked(tb)
  BY DEF SameEntries, Stocked
<1>3. tb.slots[k][i].item \in Stocked(tb)
  BY DEF Stocked
<1>4. \A x \in Items : x \notin Stocked(new) => DrawnItems(more, x) = 0
  BY <1>2, <1>3 DEF Held
<1> QED
  BY <1>1, <1>4 DEF Held

(* The same entries are one to every item. *)
LEMMA OneEntryStays ==
  ASSUME NEW tb, OneEntry(tb), NEW new, SameEntries(tb, new)
  PROVE  OneEntry(new)
BY DEF OneEntry, SameEntries

(* A purchase that has dropped an entry. *)
LEMMA TxDropped ==
  ASSUME NEW t \in TxRecord, NEW tb \in Table, NEW n \in Nat,
         NEW c \in SUBSET (Stacks \X Nat), NEW bks \in Books
  PROVE  LET new == [t EXCEPT !.table = tb, !.tries = n, !.checked = c, !.books = bks] IN
         /\ new \in TxRecord
         /\ new.table = tb /\ new.checked = c /\ new.books = bks
         /\ new.id = t.id /\ new.plan = t.plan /\ new.drawn = t.drawn
         /\ new.unannounced = t.unannounced
BY DEF TxRecord

(* A purchase that has drawn a unit. *)
LEMMA TxDrawn ==
  ASSUME NEW t \in TxRecord, NEW tb \in Table, NEW d \in Seq(Drawn), NEW n \in Nat,
         NEW c \in SUBSET (Stacks \X Nat), NEW un \in [Stacks -> Nat]
  PROVE  LET new == [t EXCEPT !.table = tb, !.drawn = d, !.tries = n, !.checked = c,
                              !.unannounced = un] IN
         /\ new \in TxRecord
         /\ new.table = tb /\ new.checked = c /\ new.drawn = d /\ new.unannounced = un
         /\ new.id = t.id /\ new.plan = t.plan /\ new.books = t.books
BY DEF TxRecord

(* The units of an entry that can still be had from the seller.            *)
LEMMA BackedUnitsType ==
  ASSUME NEW s \in Accounts, NEW e \in Entry, nft \in [Items -> [Holders -> Nat]]
  PROVE  /\ BackedUnits(s, e) \in Nat /\ BackedUnits(s, e) <= e.u
         /\ BackedUnits(s, e) <= nft[e.item][s] /\ nft[e.item][s] \in Nat
<1>1. nft[e.item][s] \in Nat /\ e.u \in Nat
  BY DEF Entry, Holders
<1> QED
  BY <1>1 DEF BackedUnits

(* An entry of u units is dropped. *)
Drops(t, new, k, u, x) ==
  /\ u <= t.table.units[k]
  /\ new.id = t.id /\ new.drawn = t.drawn /\ new.unannounced = t.unannounced
  /\ new.books = Told(t.books, BucketEntryDropped(t.id, x, k, u))
  /\ \A q \in Stacks :
       new.table.units[q] = IF q = k THEN t.table.units[k] - u ELSE t.table.units[q]

(* A unit is drawn, and some are dropped along with it without an event. *)
Draws(t, new, k, gone, d) ==
  /\ d \in Drawn /\ d.stack = k /\ gone + 1 <= t.table.units[k]
  /\ new.id = t.id /\ new.drawn = Append(t.drawn, d) /\ new.books = t.books
  /\ new.unannounced = MoreIn(t.unannounced, k, gone)
  /\ \A q \in Stacks :
       new.table.units[q] = IF q = k THEN t.table.units[k] - gone - 1
                            ELSE t.table.units[q]

(* The units counted, drawn and dropped for a stack are as many as before. *)
LEMMA DropTally ==
  ASSUME NEW t, NEW new, NEW b, NEW bks \in Books, Tally(t, b, bks), t \in TxRecord,
         NEW k \in Stacks, NEW u \in Nat, NEW x, Drops(t, new, k, u, x)
  PROVE  Tally(new, b, bks) /\ new.books \in Books
<1> DEFINE old == t.books
           id == t.id
           e == BucketEntryDropped(id, x, k, u)
           p == MoreIn(old[id].dropped, k, u)
<1> USE DEF Drops
<1>1. id \in BucketIds /\ old \in Books /\ t.table \in Table /\ t.drawn \in Seq(Drawn)
      /\ t.unannounced \in [Stacks -> Nat]
  BY DEF TxRecord
<1>2. old[id].dropped \in [Stacks -> Nat]
  <2> HIDE DEF old, id
  <2> QED
    BY <1>1, BookParts
<1>3. p \in [Stacks -> Nat] /\ \A q \in Stacks : p[q] = IF q = k THEN old[id].dropped[q] + u
                                                        ELSE old[id].dropped[q]
  <2> DEFINE f == old[id].dropped
  <2> HIDE DEF f
  <2>1. f \in [Stacks -> Nat]
    BY <1>2 DEF f
  <2>2. /\ MoreIn(f, k, u) \in [Stacks -> Nat]
        /\ \A q \in Stacks : MoreIn(f, k, u)[q] = IF q = k THEN f[q] + u ELSE f[q]
    BY <2>1, MoreInType
  <2> QED
    BY <2>2 DEF f
<1>4. Becomes(Told(old, e), old, id, old[id].open, old[id].added, old[id].drawn, p,
              old[id].left)
  <2>1. e.type = "bucket_entry_dropped" /\ e.bucketId = id /\ e.stack = k /\ e.units = u
    BY DEF BucketEntryDropped
  <2> HIDE DEF old, id, e
  <2>2. e.type = "bucket_entry_dropped" /\ e.bucketId = id /\ e.stack \in Stacks /\ e.units \in Nat
    BY <2>1
  <2>3. id \in BucketIds /\ old \in Books
    BY <1>1
  <2>4. Becomes(Told(old, e), old, id, old[id].open, old[id].added, old[id].drawn,
                MoreIn(old[id].dropped, e.stack, e.units), old[id].left)
    BY <2>2, <2>3, ToldDropped
  <2> QED
    BY <2>1, <2>4
<1>6. /\ new.books \in Books
      /\ \A other \in BucketIds \ {id} : new.books[other] = old[other]
      /\ new.books[id].open = old[id].open /\ new.books[id].added = old[id].added
      /\ new.books[id].drawn = old[id].drawn /\ new.books[id].left = old[id].left
      /\ new.books[id].dropped = p
  <2> DEFINE w == Told(old, e)
  <2>1. new.books = w
    OBVIOUS
  <2> HIDE DEF old, id, w
  <2>2. Becomes(w, old, id, old[id].open, old[id].added, old[id].drawn, p, old[id].left)
    BY <1>4 DEF w
  <2> HIDE DEF p
  <2> QED
    BY <2>1, <2>2 DEF Becomes
<1>7. ASSUME NEW q \in Stacks
      PROVE  bks[id].dropped[q] + b.table.units[q]
               = new.table.units[q] + DrawnStack(new.drawn, q) + new.books[id].dropped[q]
                   + new.unannounced[q]
  <2> DEFINE tu == t.table.units[q]
             nu == new.table.units[q]
             dr == DrawnStack(t.drawn, q)
             od == old[id].dropped[q]
             nd == new.books[id].dropped[q]
             un == t.unannounced[q]
             all == bks[id].dropped[q] + b.table.units[q]
  <2>1. all = tu + dr + od + un
    BY DEF Tally
  <2>2. tu \in Nat /\ dr \in Nat /\ od \in Nat /\ un \in Nat
    <3>1. dr \in Nat
      BY <1>1, DrawnType
    <3>2. tu \in Nat
      BY <1>1, TableParts
    <3> QED
      BY <1>1, <1>2, <3>1, <3>2
  <2>3. nd = IF q = k THEN od + u ELSE od
    BY <1>3, <1>6
  <2>4. nu = IF q = k THEN tu - u ELSE tu
    OBVIOUS
  <2>5. new.drawn = t.drawn /\ new.unannounced = t.unannounced
    OBVIOUS
  <2>6. all = nu + dr + nd + un
    <3> HIDE DEF tu, nu, dr, od, nd, un, all
    <3> QED
      BY <2>1, <2>2, <2>3, <2>4
  <2> QED
    BY <2>5, <2>6
<1>8. Tally(t, b, bks)
  OBVIOUS
<1> QED
  BY <1>6, <1>7, <1>8 DEF Tally

LEMMA DrawTally ==
  ASSUME NEW t, NEW new, NEW b, NEW bks, Tally(t, b, bks), t \in TxRecord,
         NEW k \in Stacks, NEW gone \in Nat, NEW d, Draws(t, new, k, gone, d)
  PROVE  Tally(new, b, bks)
<1> USE DEF Draws
<1>1. t.id \in BucketIds /\ t.books \in Books /\ t.table \in Table /\ t.drawn \in Seq(Drawn)
      /\ t.unannounced \in [Stacks -> Nat]
  BY DEF TxRecord
<1>2. ASSUME NEW q \in Stacks
      PROVE  bks[t.id].dropped[q] + b.table.units[q]
               = new.table.units[q] + DrawnStack(new.drawn, q) + t.books[t.id].dropped[q]
                   + new.unannounced[q]
  <2> DEFINE tu == t.table.units[q]
             nu == new.table.units[q]
             dr == DrawnStack(t.drawn, q)
             nr == DrawnStack(new.drawn, q)
             od == t.books[t.id].dropped[q]
             un == t.unannounced[q]
             nn == new.unannounced[q]
             all == bks[t.id].dropped[q] + b.table.units[q]
  <2>1. all = tu + dr + od + un
    BY DEF Tally
  <2>2. tu \in Nat /\ dr \in Nat /\ od \in Nat /\ un \in Nat
    <3>1. dr \in Nat
      BY <1>1, DrawnType
    <3>2. tu \in Nat
      BY <1>1, TableParts
    <3>3. od \in Nat
      BY <1>1, BookParts
    <3> QED
      BY <1>1, <3>1, <3>2, <3>3
  <2>3. nr = IF q = k THEN dr + 1 ELSE dr
    BY <1>1, DrawnMore
  <2>4. nu = IF q = k THEN tu - gone - 1 ELSE tu
    OBVIOUS
  <2>5. nn = IF q = k THEN un + gone ELSE un
    <3> DEFINE f == t.unannounced
    <3>1. f \in [Stacks -> Nat] /\ new.unannounced = MoreIn(f, k, gone)
      BY <1>1
    <3> HIDE DEF f
    <3>2. \A r \in Stacks : MoreIn(f, k, gone)[r] = IF r = k THEN f[r] + gone ELSE f[r]
      BY <3>1, MoreInType
    <3> QED
      BY <3>1, <3>2 DEF f
  <2> HIDE DEF tu, nu, dr, nr, od, un, nn, all
  <2>6. all = nu + nr + od + nn
    BY <2>1, <2>2, <2>3, <2>4, <2>5
  <2> QED
    BY <2>6 DEF all, nu, nr, od, nn
<1> QED
  BY <1>2 DEF Tally

-----------------------------------------------------------------------------
(* drawOne.                                                                *)

(* A purchase after it has dropped an entry, or drawn a unit of it.        *)
DroppedTx(t, k, i, m, bks) ==
  [t EXCEPT !.table = DropEntry(t.table, k, i), !.tries = m,
            !.checked = t.checked \cup {<<k, i>>}, !.books = bks]

DrawnTx(t, k, i, gone, d, m, un) ==
  [t EXCEPT !.table = Take(Take(t.table, k, i, gone), k, i, 1),
            !.drawn = Append(t.drawn, d), !.tries = m,
            !.checked = t.checked \cup {<<k, i>>}, !.unannounced = un]

(* A holding is a number. *)
LEMMA HoldingType ==
  ASSUME NEW n \in [Items -> [Holders -> Nat]], NEW x \in Items, NEW s \in Accounts
  PROVE  n[x][s] \in Nat
BY DEF Holders

(* What is replaced and what is left. *)
AfterDrop(new, t, k, i, bks) ==
  /\ new.table = Take(t.table, k, i, t.table.slots[k][i].u)
  /\ new.checked = t.checked \cup {<<k, i>>} /\ new.books = bks
  /\ new.id = t.id /\ new.plan = t.plan /\ new.drawn = t.drawn
  /\ new.unannounced = t.unannounced

AfterDraw(new, t, k, i, gone, d, un) ==
  /\ new.table = Take(Take(t.table, k, i, gone), k, i, 1)
  /\ new.checked = t.checked \cup {<<k, i>>} /\ new.drawn = Append(t.drawn, d)
  /\ new.id = t.id /\ new.plan = t.plan /\ new.books = t.books
  /\ new.unannounced = un

LEMMA DroppedFields ==
  ASSUME NEW t \in TxRecord, NEW k, NEW i, NEW m, NEW bks
  PROVE  AfterDrop(DroppedTx(t, k, i, m, bks), t, k, i, bks)
<1> DEFINE tb == DropEntry(t.table, k, i)
           c == t.checked \cup {<<k, i>>}
           new == [t EXCEPT !.table = tb, !.tries = m, !.checked = c, !.books = bks]
<1>1. tb = Take(t.table, k, i, t.table.slots[k][i].u)
  BY DEF DropEntry
<1>2. DroppedTx(t, k, i, m, bks) = new
  BY DEF DroppedTx
<1> HIDE DEF tb, c
<1>3. /\ new.table = tb /\ new.checked = c /\ new.books = bks
      /\ new.id = t.id /\ new.plan = t.plan /\ new.drawn = t.drawn
      /\ new.unannounced = t.unannounced
  BY DEF TxRecord
<1> HIDE DEF new
<1> QED
  BY <1>1, <1>2, <1>3 DEF c, AfterDrop

LEMMA DroppedType ==
  ASSUME NEW t \in TxRecord, NEW k, NEW i, NEW m \in Nat, NEW bks \in Books,
         Take(t.table, k, i, t.table.slots[k][i].u) \in Table,
         t.checked \cup {<<k, i>>} \in SUBSET (Stacks \X Nat)
  PROVE  DroppedTx(t, k, i, m, bks) \in TxRecord
<1> DEFINE tb == DropEntry(t.table, k, i)
           c == t.checked \cup {<<k, i>>}
           new == [t EXCEPT !.table = tb, !.tries = m, !.checked = c, !.books = bks]
<1>1. tb \in Table /\ c \in SUBSET (Stacks \X Nat)
  BY DEF DropEntry
<1>2. DroppedTx(t, k, i, m, bks) = new
  BY DEF DroppedTx
<1> HIDE DEF tb, c
<1>3. new \in TxRecord
  BY <1>1, TxDropped
<1> QED
  BY <1>2, <1>3

LEMMA DrawnFields ==
  ASSUME NEW t \in TxRecord, NEW k, NEW i, NEW gone, NEW d, NEW m, NEW un
  PROVE  AfterDraw(DrawnTx(t, k, i, gone, d, m, un), t, k, i, gone, d, un)
<1> DEFINE tb == Take(Take(t.table, k, i, gone), k, i, 1)
           c == t.checked \cup {<<k, i>>}
           dr == Append(t.drawn, d)
           new == [t EXCEPT !.table = tb, !.drawn = dr, !.tries = m, !.checked = c,
                            !.unannounced = un]
<1>1. DrawnTx(t, k, i, gone, d, m, un) = new
  BY DEF DrawnTx
<1> HIDE DEF tb, c, dr
<1>2. /\ new.table = tb /\ new.checked = c /\ new.drawn = dr
      /\ new.id = t.id /\ new.plan = t.plan /\ new.books = t.books
      /\ new.unannounced = un
  BY DEF TxRecord
<1> HIDE DEF new
<1> QED
  BY <1>1, <1>2 DEF tb, c, dr, AfterDraw

LEMMA DrawnTxType ==
  ASSUME NEW t \in TxRecord, NEW k, NEW i, NEW gone, NEW d, NEW m \in Nat,
         NEW un \in [Stacks -> Nat],
         Take(Take(t.table, k, i, gone), k, i, 1) \in Table,
         Append(t.drawn, d) \in Seq(Drawn),
         t.checked \cup {<<k, i>>} \in SUBSET (Stacks \X Nat)
  PROVE  DrawnTx(t, k, i, gone, d, m, un) \in TxRecord
<1> DEFINE tb == Take(Take(t.table, k, i, gone), k, i, 1)
           c == t.checked \cup {<<k, i>>}
           dr == Append(t.drawn, d)
           new == [t EXCEPT !.table = tb, !.drawn = dr, !.tries = m, !.checked = c,
                            !.unannounced = un]
<1>1. DrawnTx(t, k, i, gone, d, m, un) = new
  BY DEF DrawnTx
<1>2. tb \in Table /\ dr \in Seq(Drawn) /\ c \in SUBSET (Stacks \X Nat)
  OBVIOUS
<1> HIDE DEF tb, c, dr
<1>3. new \in TxRecord
  BY <1>2, TxDrawn
<1> QED
  BY <1>1, <1>3

(* A stale entry is dropped. *)
LEMMA DropKeeps ==
  ASSUME NEW t, NEW b, NEW bks \in Books, NEW n \in [Items -> [Holders -> Nat]],
         TxOK(t, b, bks, n), b.s \in Accounts, NEW k \in Stacks,
         NEW i \in DOMAIN t.table.slots[k], <<k, i>> \notin t.checked, NEW m \in Nat,
         NEW told, told = Told(t.books, BucketEntryDropped(t.id, t.table.slots[k][i].item, k,
                                                           t.table.slots[k][i].u))
  PROVE  /\ TxOK(DroppedTx(t, k, i, m, told), b, bks, n)
         /\ DroppedTx(t, k, i, m, told).id = t.id
<1> DEFINE tb == t.table
           x == tb.slots[k][i].item
           u == tb.slots[k][i].u
           tb2 == Take(tb, k, i, u)
           c2 == t.checked \cup {<<k, i>>}
           new == DroppedTx(t, k, i, m, told)
<1>1. /\ t \in TxRecord /\ Len(t.plan) >= 1 /\ TableOK(tb) /\ OneEntry(tb)
      /\ Held(tb, t.checked, t.drawn, n, b.s) /\ Tally(t, b, bks) /\ b.act = TRUE
  BY DEF TxOK
<1>2. tb \in Table /\ StackOK(tb.slots[k], tb.chunks[k], tb.units[k])
  BY <1>1 DEF TableOK
<1>3. u \in Nat /\ x \in Items /\ i \in Nat /\ <<k, i>> \in Stacks \X Nat
  <2> DEFINE sl == tb.slots[k]
  <2>1. sl \in Seq(Entry) /\ i \in DOMAIN sl
    BY <1>2 DEF StackOK
  <2> HIDE DEF sl
  <2>2. sl[i].item \in Items /\ sl[i].u \in Nat /\ DOMAIN sl = 1 .. Len(sl) /\ Len(sl) \in Nat
    BY <2>1, SlotsType
  <2> QED
    BY <2>1, <2>2 DEF sl
<1>4. t.checked \in SUBSET (Stacks \X Nat)
  BY <1>1 DEF TxRecord
<1>5. c2 \in SUBSET (Stacks \X Nat)
  BY <1>3, <1>4
<1>6. /\ TableOK(tb2) /\ SameEntries(tb, tb2)
      /\ \A q \in Stacks : tb2.units[q] = IF q = k THEN tb.units[k] - u ELSE tb.units[q]
      /\ \A q \in Stacks : \A l \in DOMAIN tb.slots[q] :
           tb2.slots[q][l].u = IF q = k /\ l = i THEN u - u ELSE tb.slots[q][l].u
  <2>1. TableOK(tb) /\ i \in DOMAIN tb.slots[k] /\ u = tb.slots[k][i].u /\ u \in Nat
    BY <1>1, <1>3
  <2> HIDE DEF u, tb, tb2
  <2>2. u <= tb.slots[k][i].u
    BY <2>1
  <2>3. /\ TableOK(tb2) /\ SameEntries(tb, tb2)
        /\ \A q \in Stacks : tb2.units[q] = IF q = k THEN tb.units[k] - u ELSE tb.units[q]
        /\ \A q \in Stacks : \A l \in DOMAIN tb.slots[q] :
             tb2.slots[q][l].u
               = IF q = k /\ l = i THEN tb.slots[k][i].u - u ELSE tb.slots[q][l].u
    BY <2>1, <2>2, TakeOK DEF tb2
  <2> QED
    BY <2>1, <2>3
<1>7. /\ new.table = tb2 /\ new.checked = c2 /\ new.books = told
      /\ new.id = t.id /\ new.plan = t.plan /\ new.drawn = t.drawn
      /\ new.unannounced = t.unannounced
  <2>1. t \in TxRecord
    BY <1>1
  <2> QED
    <3>1. AfterDrop(new, t, k, i, told)
      BY <2>1, DroppedFields
    <3> HIDE DEF new
    <3> QED
      BY <3>1 DEF AfterDrop
<1>8. Tally(new, b, bks) /\ told \in Books
  <2>1. u <= tb.units[k] /\ tb2.units[k] = tb.units[k] - u
    <3>1. tb2.units[k] \in Nat /\ tb.units[k] \in Nat
      BY <1>1, <1>6 DEF TableOK, StackOK
    <3>2. tb2.units[k] = tb.units[k] - u
      BY <1>6
    <3> QED
      BY <1>3, <3>1, <3>2
  <2> HIDE DEF new, tb, tb2, u, x
  <2>2. /\ Tally(t, b, bks) /\ t \in TxRecord /\ u \in Nat /\ u <= t.table.units[k]
        /\ new.id = t.id /\ new.drawn = t.drawn /\ new.unannounced = t.unannounced
    BY <1>1, <1>3, <1>7, <2>1 DEF tb
  <2>3. new.books = Told(t.books, BucketEntryDropped(t.id, x, k, u))
    BY <1>7 DEF x, u, tb
  <2>4. \A q \in Stacks :
          new.table.units[q] = IF q = k THEN t.table.units[k] - u ELSE t.table.units[q]
    BY <1>6, <1>7 DEF tb
  <2>5. Drops(t, new, k, u, x)
    BY <2>2, <2>3, <2>4 DEF Drops
  <2>6. Tally(new, b, bks) /\ new.books \in Books
    BY <2>2, <2>5, DropTally
  <2> QED
    BY <1>7, <2>6
<1>9. new \in TxRecord
  <2>1. tb2 \in Table
    BY <1>6 DEF TableOK
  <2>2. t \in TxRecord /\ told \in Books
    BY <1>1, <1>8
  <2> QED
    BY <1>5, <2>1, <2>2, DroppedType
<1>10. OneEntry(tb2)
  BY <1>1, <1>6, OneEntryStays
<1>11. Held(tb2, c2, t.drawn, n, b.s)
  <2>1. DrawnItems(t.drawn, x) = 0
    BY <1>1 DEF Held
  <2>2. tb2.slots[k][i].u = 0
    <3>1. tb2.slots[k][i].u = u - u
      BY <1>6
    <3> QED
      BY <1>3, <3>1
  <2>3. n[x][b.s] \in Nat
    BY <1>3, HoldingType
  <2>4. DrawnItems(t.drawn, x) + tb2.slots[k][i].u <= n[x][b.s]
    BY <2>1, <2>2, <2>3
  <2>5. \A q \in Stacks : \A l \in DOMAIN tb.slots[q] :
           ~(q = k /\ l = i) => tb2.slots[q][l].u = tb.slots[q][l].u
    BY <1>6
  <2>6. OneEntry(tb) /\ Held(tb, t.checked, t.drawn, n, b.s) /\ SameEntries(tb, tb2)
        /\ i \in DOMAIN tb.slots[k]
    BY <1>1, <1>6
  <2>7. DrawnItems(t.drawn, tb.slots[k][i].item) + tb2.slots[k][i].u
          <= n[tb.slots[k][i].item][b.s]
    BY <2>4
  <2> HIDE DEF tb, tb2
  <2> QED
    BY <2>5, <2>6, <2>7, HeldStep
<1> HIDE DEF new, tb, tb2, c2
<1>12. TxOK(new, b, bks, n) /\ new.id = t.id
  BY <1>1, <1>6, <1>7, <1>8, <1>9, <1>10, <1>11 DEF TxOK
<1> QED
  BY <1>12 DEF new

(* A unit of an entry is drawn, of which the seller holds that much.       *)
LEMMA DrawKeeps ==
  ASSUME NEW t, NEW b, NEW bks, NEW n \in [Items -> [Holders -> Nat]],
         TxOK(t, b, bks, n), b.s \in Accounts, NEW k \in Stacks,
         NEW i \in DOMAIN t.table.slots[k], NEW gone \in Nat, NEW m \in Nat,
         gone + 1 <= t.table.slots[k][i].u,
         NEW d, d = [item |-> t.table.slots[k][i].item, stack |-> k],
         NEW un, un = MoreIn(t.unannounced, k, gone),
         DrawnItems(t.drawn, d.item) + t.table.slots[k][i].u - gone <= n[d.item][b.s]
  PROVE  /\ TxOK(DrawnTx(t, k, i, gone, d, m, un), b, bks, n)
         /\ DrawnTx(t, k, i, gone, d, m, un).id = t.id
<1> DEFINE tb == t.table
           x == tb.slots[k][i].item
           u == tb.slots[k][i].u
           tb1 == Take(tb, k, i, gone)
           tb2 == Take(tb1, k, i, 1)
           c2 == t.checked \cup {<<k, i>>}
           more == Append(t.drawn, d)
           new == DrawnTx(t, k, i, gone, d, m, un)
<1>1. /\ t \in TxRecord /\ Len(t.plan) >= 1 /\ TableOK(tb) /\ OneEntry(tb)
      /\ Held(tb, t.checked, t.drawn, n, b.s) /\ Tally(t, b, bks) /\ b.act = TRUE
  BY DEF TxOK
<1>2. tb \in Table /\ StackOK(tb.slots[k], tb.chunks[k], tb.units[k])
  BY <1>1 DEF TableOK
<1>3. u \in Nat /\ x \in Items /\ i \in Nat /\ <<k, i>> \in Stacks \X Nat
  <2> DEFINE sl == tb.slots[k]
  <2>1. sl \in Seq(Entry) /\ i \in DOMAIN sl
    BY <1>2 DEF StackOK
  <2> HIDE DEF sl
  <2>2. sl[i].item \in Items /\ sl[i].u \in Nat /\ DOMAIN sl = 1 .. Len(sl) /\ Len(sl) \in Nat
    BY <2>1, SlotsType
  <2> QED
    BY <2>1, <2>2 DEF sl
<1>4. c2 \in SUBSET (Stacks \X Nat)
  <2>1. t.checked \in SUBSET (Stacks \X Nat)
    BY <1>1 DEF TxRecord
  <2> QED
    BY <1>3, <2>1
<1>5. d \in Drawn /\ d.item = x /\ d.stack = k /\ gone + 1 <= u
  BY <1>3 DEF Drawn
<1>6. t.drawn \in Seq(Drawn) /\ t.unannounced \in [Stacks -> Nat]
  BY <1>1 DEF TxRecord
<1>7. un \in [Stacks -> Nat]
  BY <1>6, MoreInType
<1>8. /\ TableOK(tb1) /\ SameEntries(tb, tb1)
      /\ \A q \in Stacks : tb1.units[q] = IF q = k THEN tb.units[k] - gone ELSE tb.units[q]
      /\ \A q \in Stacks : \A l \in DOMAIN tb.slots[q] :
           tb1.slots[q][l].u = IF q = k /\ l = i THEN u - gone ELSE tb.slots[q][l].u
  <2>1. TableOK(tb) /\ i \in DOMAIN tb.slots[k] /\ u = tb.slots[k][i].u /\ u \in Nat
    BY <1>1, <1>3
  <2>2. gone <= u
    <3> HIDE DEF u
    <3> QED
      BY <1>5, <2>1
  <2> HIDE DEF u, tb, tb1
  <2>3. gone <= tb.slots[k][i].u
    BY <2>1, <2>2
  <2>4. /\ TableOK(tb1) /\ SameEntries(tb, tb1)
        /\ \A q \in Stacks :
             tb1.units[q] = IF q = k THEN tb.units[k] - gone ELSE tb.units[q]
        /\ \A q \in Stacks : \A l \in DOMAIN tb.slots[q] :
             tb1.slots[q][l].u
               = IF q = k /\ l = i THEN tb.slots[k][i].u - gone ELSE tb.slots[q][l].u
    BY <2>1, <2>3, TakeOK DEF tb1
  <2> QED
    BY <2>1, <2>4
<1>9. i \in DOMAIN tb.slots[k] /\ i \in DOMAIN tb1.slots[k] /\ tb1.slots[k][i].u = u - gone
  <2> HIDE DEF tb1
  <2> QED
    BY <1>8 DEF SameEntries
<1>10. /\ TableOK(tb2) /\ SameEntries(tb1, tb2)
       /\ \A q \in Stacks :
            tb2.units[q] = IF q = k THEN tb1.units[k] - 1 ELSE tb1.units[q]
       /\ \A q \in Stacks : \A l \in DOMAIN tb1.slots[q] :
            tb2.slots[q][l].u = IF q = k /\ l = i THEN tb1.slots[k][i].u - 1
                                ELSE tb1.slots[q][l].u
  <2> HIDE DEF tb1, tb2, u, tb
  <2>1. TableOK(tb1) /\ i \in DOMAIN tb1.slots[k]
    BY <1>8, <1>9
  <2>2. 1 \in Nat /\ 1 <= tb1.slots[k][i].u
    BY <1>3, <1>5, <1>9
  <2> QED
    BY <2>1, <2>2, TakeOK DEF tb2
<1>11. /\ \A q \in Stacks :
            tb2.units[q] = IF q = k THEN tb.units[k] - gone - 1 ELSE tb.units[q]
       /\ \A q \in Stacks : \A l \in DOMAIN tb.slots[q] :
            tb2.slots[q][l].u = IF q = k /\ l = i THEN u - gone - 1 ELSE tb.slots[q][l].u
       /\ SameEntries(tb, tb2)
  <2> HIDE DEF tb, tb1, tb2, u
  <2>1. \A q \in Stacks :
            tb2.units[q] = IF q = k THEN tb.units[k] - gone - 1 ELSE tb.units[q]
    BY <1>8, <1>10
  <2>2. \A q \in Stacks : DOMAIN tb1.slots[q] = DOMAIN tb.slots[q]
    BY <1>8 DEF SameEntries
  <2>3. \A q \in Stacks : \A l \in DOMAIN tb.slots[q] :
            tb2.slots[q][l].u = IF q = k /\ l = i THEN u - gone - 1 ELSE tb.slots[q][l].u
    BY <1>8, <1>9, <1>10, <2>2
  <2>4. SameEntries(tb, tb2)
    BY <1>8, <1>10 DEF SameEntries
  <2> QED
    BY <2>1, <2>3, <2>4
<1>12. /\ new.table = tb2 /\ new.checked = c2 /\ new.books = t.books
       /\ new.id = t.id /\ new.plan = t.plan /\ new.drawn = more
       /\ new.unannounced = un
  <2>1. t \in TxRecord
    BY <1>1
  <2>2. AfterDraw(new, t, k, i, gone, d, un)
    BY <2>1, DrawnFields
  <2> HIDE DEF new
  <2> QED
    BY <2>2 DEF AfterDraw
<1>13. Tally(new, b, bks)
  <2>1. gone + 1 <= tb.units[k]
    <3>1. tb2.units[k] \in Nat /\ tb.units[k] \in Nat
      BY <1>1, <1>10 DEF TableOK, StackOK
    <3>2. tb2.units[k] = tb.units[k] - gone - 1
      BY <1>11
    <3> HIDE DEF tb, tb2
    <3> QED
      BY <3>1, <3>2
  <2> HIDE DEF new, tb2, u, x
  <2>2. /\ Tally(t, b, bks) /\ t \in TxRecord /\ d \in Drawn /\ d.stack = k
        /\ gone + 1 <= t.table.units[k] /\ new.books = t.books
        /\ new.id = t.id /\ new.drawn = Append(t.drawn, d)
        /\ new.unannounced = MoreIn(t.unannounced, k, gone)
    BY <1>1, <1>5, <1>12, <2>1
  <2>3. \A q \in Stacks :
          new.table.units[q] = IF q = k THEN t.table.units[k] - gone - 1
                               ELSE t.table.units[q]
    BY <1>11, <1>12
  <2>4. Draws(t, new, k, gone, d)
    BY <2>2, <2>3 DEF Draws
  <2> QED
    BY <2>2, <2>4, DrawTally
<1>14. \A y : DrawnItems(more, y) = IF d.item = y THEN DrawnItems(t.drawn, y) + 1
                                    ELSE DrawnItems(t.drawn, y)
  BY <1>5, <1>6, DrawnMore
<1>15. more \in Seq(Drawn)
  BY <1>5, <1>6
<1>16. new \in TxRecord
  <2>1. tb2 \in Table
    BY <1>10 DEF TableOK
  <2>2. t \in TxRecord
    BY <1>1
  <2> QED
    BY <1>4, <1>7, <1>15, <2>1, <2>2, DrawnTxType
<1>17. OneEntry(tb2)
  BY <1>1, <1>11, OneEntryStays
<1>18. Held(tb2, c2, more, n, b.s)
  <2>1. DrawnItems(t.drawn, x) \in Nat /\ DrawnItems(more, x) = DrawnItems(t.drawn, x) + 1
    BY <1>5, <1>6, <1>14, DrawnType
  <2>2. tb2.slots[k][i].u = u - gone - 1
    BY <1>11
  <2>3. n[x][b.s] \in Nat
    BY <1>3, HoldingType
  <2>4. DrawnItems(t.drawn, x) + u - gone <= n[x][b.s]
    BY <1>5
  <2>5. DrawnItems(more, x) + tb2.slots[k][i].u <= n[x][b.s]
    <3> DEFINE di == DrawnItems(t.drawn, x)
               dm == DrawnItems(more, x)
               h == n[x][b.s]
               left == tb2.slots[k][i].u
    <3> HIDE DEF di, dm, h, left, u, x
    <3>1. di \in Nat /\ dm = di + 1 /\ left = u - gone - 1 /\ h \in Nat
          /\ di + u - gone <= h
      BY <2>1, <2>2, <2>3, <2>4 DEF di, dm, h, left
    <3>2. dm + left <= h
      BY <1>3, <3>1
    <3> QED
      BY <3>2 DEF dm, h, left
  <2>6. \A q \in Stacks : \A l \in DOMAIN tb.slots[q] :
           ~(q = k /\ l = i) => tb2.slots[q][l].u = tb.slots[q][l].u
    BY <1>11
  <2>7. OneEntry(tb) /\ Held(tb, t.checked, t.drawn, n, b.s) /\ SameEntries(tb, tb2)
        /\ i \in DOMAIN tb.slots[k]
    BY <1>1, <1>11
  <2>8. DrawnItems(more, tb.slots[k][i].item) + tb2.slots[k][i].u
          <= n[tb.slots[k][i].item][b.s]
    BY <2>5
  <2>9. \A y : y # tb.slots[k][i].item => DrawnItems(more, y) = DrawnItems(t.drawn, y)
    BY <1>5, <1>14
  <2> HIDE DEF tb, tb2, more
  <2> QED
    BY <2>6, <2>7, <2>8, <2>9, HeldStep
<1> HIDE DEF new, tb, tb2, c2, more
<1>19. TxOK(new, b, bks, n) /\ new.id = t.id
  BY <1>1, <1>10, <1>12, <1>13, <1>16, <1>17, <1>18 DEF TxOK
<1> QED
  BY <1>19 DEF new

(* Draws are tried a number of times. *)
LEMMA TriesType ==
  ASSUME NEW tb, tb \in Table, NEW k \in Stacks
  PROVE  TriesFor(tb, k) \in Nat
<1>1. tb.slots[k] \in Seq(Entry)
  BY TableParts
<1>2. Len(tb.slots[k]) \in Nat
  BY <1>1
<1> QED
  BY <1>2, BucketAssumption DEF TriesFor

(* What a draw leaves of an entry it comes upon. *)
BackedOf(t, s, k, i) ==
  IF <<k, i>> \in t.checked THEN t.table.slots[k][i].u
  ELSE BackedUnits(s, t.table.slots[k][i])

(* It is backed by what the seller holds beyond what was drawn already.    *)
LEMMA BackedIs ==
  ASSUME nft \in [Items -> [Holders -> Nat]], NEW t, NEW b, NEW bks,
         TxOK(t, b, bks, nft), b.s \in Accounts, NEW k \in Stacks,
         NEW i \in DOMAIN t.table.slots[k], t.table.slots[k][i] \in Entry
  PROVE  LET e == t.table.slots[k][i]
             n == BackedOf(t, b.s, k, i) IN
         /\ n \in Nat /\ n <= e.u
         /\ DrawnItems(t.drawn, e.item) + n <= nft[e.item][b.s]
         /\ n = 0 /\ e.u > 0 => <<k, i>> \notin t.checked
<1> DEFINE e == t.table.slots[k][i]
           u == e.u
           x == e.item
           n == BackedOf(t, b.s, k, i)
           c == t.checked
<1>1. u \in Nat /\ x \in Items
  <2> HIDE DEF e
  <2>1. e \in Entry
    BY DEF e
  <2> QED
    BY <2>1 DEF Entry
<1>2. Held(t.table, c, t.drawn, nft, b.s) /\ t.drawn \in Seq(Drawn)
  BY DEF TxOK, TxRecord
<1>3. DrawnItems(t.drawn, x) \in Nat
  BY <1>2, DrawnType
<1>4. CASE <<k, i>> \in c
  <2>1. n = u
    BY <1>4 DEF BackedOf
  <2>2. DrawnItems(t.drawn, x) + u <= nft[x][b.s]
    BY <1>2, <1>4 DEF Held
  <2> HIDE DEF n, u, x, c
  <2>3. n \in Nat /\ n <= u /\ DrawnItems(t.drawn, x) + n <= nft[x][b.s]
        /\ (n = 0 /\ u > 0 => <<k, i>> \notin c)
    BY <1>1, <2>1, <2>2
  <2> QED
    BY <2>3 DEF n, u, x, c
<1>5. CASE <<k, i>> \notin c
  <2>1. n = BackedUnits(b.s, e)
    BY <1>5 DEF BackedOf
  <2>2. DrawnItems(t.drawn, x) = 0
    BY <1>2, <1>5 DEF Held
  <2>3. n \in Nat /\ n <= u /\ n <= nft[x][b.s] /\ nft[x][b.s] \in Nat
    <3> HIDE DEF n, e
    <3>1. e \in Entry /\ b.s \in Accounts
      BY DEF e
    <3> QED
      BY <2>1, <3>1, BackedUnitsType
  <2> HIDE DEF n, u, x, c
  <2>4. n \in Nat /\ n <= u /\ DrawnItems(t.drawn, x) + n <= nft[x][b.s]
        /\ (n = 0 /\ u > 0 => <<k, i>> \notin c)
    BY <1>5, <2>2, <2>3
  <2> QED
    BY <2>4 DEF n, u, x, c
<1> QED
  BY <1>4, <1>5

(* The next draw is from a stack of the bucket. *)
LEMMA NextStack ==
  ASSUME NEW t \in TxRecord, NEW drawn \in Seq(Drawn), Len(drawn) < Len(t.plan)
  PROVE  t.plan[Len(drawn) + 1] \in Stacks
<1>1. t.plan \in Seq(Stacks)
  BY DEF TxRecord
<1>2. Len(drawn) \in Nat /\ Len(t.plan) \in Nat
  BY <1>1
<1>3. Len(drawn) + 1 \in 1 .. Len(t.plan)
  BY <1>2
<1> QED
  BY <1>1, <1>3

(* The two outcomes of an attempt, as DrawOne tells them. *)
DropOutcome(t, k, i) ==
  LET e == t.table.slots[k][i] IN
  [t EXCEPT !.table = DropEntry(t.table, k, i),
            !.tries = @ - 1,
            !.checked = @ \cup {<<k, i>>},
            !.books = Told(@, BucketEntryDropped(t.id, e.item, k, e.u))]

DrawOutcome(t, k, i, backed) ==
  LET e == t.table.slots[k][i]
      pruned == Take(t.table, k, i, e.u - backed)
      after == Append(t.drawn, [item |-> e.item, stack |-> k])
  IN
  [t EXCEPT !.table = Take(pruned, k, i, 1),
            !.drawn = after,
            !.tries = IF Len(after) = Len(t.plan) THEN 0
                      ELSE TriesFor(t.table, t.plan[Len(after) + 1]),
            !.checked = @ \cup {<<k, i>>},
            !.unannounced[k] = @ + e.u - backed]

LEMMA DropOutcomeIs ==
  ASSUME NEW t \in TxRecord, NEW k, NEW i
  PROVE  DropOutcome(t, k, i)
           = DroppedTx(t, k, i, t.tries - 1,
                       Told(t.books, BucketEntryDropped(t.id, t.table.slots[k][i].item, k,
                                                        t.table.slots[k][i].u)))
BY DEF DropOutcome, DroppedTx

(* A part that is a function, changed at a place. *)
LEMMA PartChanged ==
  ASSUME NEW t \in TxRecord, NEW tb, NEW d, NEW m, NEW c, NEW k, NEW v
  PROVE  [t EXCEPT !.table = tb, !.drawn = d, !.tries = m, !.checked = c,
                   !.unannounced[k] = v]
           = [t EXCEPT !.table = tb, !.drawn = d, !.tries = m, !.checked = c,
                       !.unannounced = [t.unannounced EXCEPT ![k] = v]]
BY DEF TxRecord

LEMMA DrawOutcomeIs ==
  ASSUME NEW t \in TxRecord, NEW k \in Stacks, NEW i, NEW backed \in Nat,
         t.table.slots[k][i].u \in Nat, NEW d,
         d = [item |-> t.table.slots[k][i].item, stack |-> k]
  PROVE  DrawOutcome(t, k, i, backed)
           = DrawnTx(t, k, i, t.table.slots[k][i].u - backed, d,
                     IF Len(Append(t.drawn, d)) = Len(t.plan) THEN 0
                     ELSE TriesFor(t.table, t.plan[Len(Append(t.drawn, d)) + 1]),
                     MoreIn(t.unannounced, k, t.table.slots[k][i].u - backed))
<1> DEFINE u == t.table.slots[k][i].u
           tb == Take(Take(t.table, k, i, u - backed), k, i, 1)
           dr == Append(t.drawn, d)
           m == IF Len(dr) = Len(t.plan) THEN 0 ELSE TriesFor(t.table, t.plan[Len(dr) + 1])
           c == t.checked \cup {<<k, i>>}
           v == t.unannounced[k] + u - backed
<1>1. DrawOutcome(t, k, i, backed)
        = [t EXCEPT !.table = tb, !.drawn = dr, !.tries = m, !.checked = c,
                    !.unannounced[k] = v]
  BY DEF DrawOutcome
<1>2. v = t.unannounced[k] + (u - backed)
  <2>1. t.unannounced[k] \in Nat
    BY DEF TxRecord
  <2> QED
    BY <2>1
<1>3. MoreIn(t.unannounced, k, u - backed) = [t.unannounced EXCEPT ![k] = v]
  <2> HIDE DEF v, u
  <2> QED
    BY <1>2 DEF MoreIn
<1>4. [t EXCEPT !.table = tb, !.drawn = dr, !.tries = m, !.checked = c,
                !.unannounced[k] = v]
        = [t EXCEPT !.table = tb, !.drawn = dr, !.tries = m, !.checked = c,
                    !.unannounced = [t.unannounced EXCEPT ![k] = v]]
  <2> HIDE DEF v, tb, dr, m, c
  <2> QED
    BY PartChanged
<1>5. DrawnTx(t, k, i, u - backed, d, m, MoreIn(t.unannounced, k, u - backed))
        = [t EXCEPT !.table = tb, !.drawn = dr, !.tries = m, !.checked = c,
                    !.unannounced = MoreIn(t.unannounced, k, u - backed)]
  BY DEF DrawnTx
<1> HIDE DEF v, tb, dr, m, c
<1>6. DrawOutcome(t, k, i, backed)
        = DrawnTx(t, k, i, u - backed, d, m, MoreIn(t.unannounced, k, u - backed))
  BY <1>1, <1>3, <1>4, <1>5
<1> QED
  BY <1>6 DEF m, dr

(* One attempt leaves the purchase as it has to be.                        *)
LEMMA DrawOneKeeps ==
  ASSUME nft \in [Items -> [Holders -> Nat]], books \in Books,
         TxOK(tx, Bucket(tx.id), books, nft), Bucket(tx.id).s \in Accounts, DrawOne
  PROVE  TxOK(tx', Bucket(tx.id), books, nft) /\ tx'.id = tx.id
<1> DEFINE b == Bucket(tx.id)
           tb == tx.table
           k == DrawStack
           s == b.s
<1>1. /\ tx \in TxRecord /\ tb \in Table /\ tx.drawn \in Seq(Drawn) /\ TableOK(tb)
      /\ tx.unannounced \in [Stacks -> Nat] /\ tx.tries \in Nat /\ tx.tries > 0
      /\ Len(tx.drawn) < Len(tx.plan)
  BY DEF TxOK, TxRecord, DrawOne, Drawing
<1>2. k \in Stacks
  BY <1>1, NextStack DEF DrawStack
<1>0. PICK r \in 0 .. tb.units[k] - 1 : \E i \in Locate(tb, k, r) :
        tx' = IF BackedOf(tx, s, k, i) = 0 THEN DropOutcome(tx, k, i)
              ELSE DrawOutcome(tx, k, i, BackedOf(tx, s, k, i))
  BY DEF DrawOne, BackedOf, DropOutcome, DrawOutcome
<1>3. PICK i \in Locate(tb, k, r) :
        tx' = IF BackedOf(tx, s, k, i) = 0 THEN DropOutcome(tx, k, i)
              ELSE DrawOutcome(tx, k, i, BackedOf(tx, s, k, i))
  BY <1>0
<1> DEFINE e == tb.slots[k][i]
           backed == BackedOf(tx, s, k, i)
           d == [item |-> e.item, stack |-> k]
           gone == e.u - backed
           un == MoreIn(tx.unannounced, k, gone)
           after == Append(tx.drawn, d)
           m == IF Len(after) = Len(tx.plan) THEN 0
                ELSE TriesFor(tb, tx.plan[Len(after) + 1])
           told == Told(tx.books, BucketEntryDropped(tx.id, e.item, k, e.u))
<1>4. i \in DOMAIN tb.slots[k] /\ e \in Entry /\ e.u \in Nat /\ e.u > 0
  <2> HIDE DEF tb, k
  <2>1. StackOK(tb.slots[k], tb.chunks[k], tb.units[k])
    BY <1>1, <1>2 DEF TableOK
  <2>2. tb.units[k] \in Nat
    BY <2>1 DEF StackOK
  <2>3. r \in Nat
    BY <2>2
  <2>4. i \in DOMAIN tb.slots[k] /\ tb.slots[k][i] \in Entry /\ tb.slots[k][i].u \in Nat \ {0}
    BY <2>1, <2>3, LocatedHasUnits
  <2> QED
    BY <2>4
<1>5. /\ backed \in Nat /\ backed <= e.u
      /\ DrawnItems(tx.drawn, e.item) + backed <= nft[e.item][s]
      /\ backed = 0 /\ e.u > 0 => <<k, i>> \notin tx.checked
  <2> HIDE DEF b, k
  <2>1. /\ nft \in [Items -> [Holders -> Nat]] /\ TxOK(tx, b, books, nft)
        /\ b.s \in Accounts /\ k \in Stacks /\ i \in DOMAIN tx.table.slots[k]
        /\ tx.table.slots[k][i] \in Entry
    BY <1>2, <1>4 DEF b
  <2> QED
    BY <2>1, BackedIs
<1>6. CASE backed = 0
  <2>1. <<k, i>> \notin tx.checked
    BY <1>4, <1>5, <1>6
  <2>2. tx' = DroppedTx(tx, k, i, tx.tries - 1, told)
    <3>1. tx' = DropOutcome(tx, k, i)
      BY <1>3, <1>6
    <3> HIDE DEF k
    <3> QED
      BY <1>1, <3>1, DropOutcomeIs
  <2>3. tx.tries - 1 \in Nat
    BY <1>1
  <2> QED
    BY <1>2, <1>4, <2>1, <2>2, <2>3, DropKeeps
<1>7. CASE backed # 0
  <2>1. tx' = DrawnTx(tx, k, i, gone, d, m, un)
    <3>1. tx' = DrawOutcome(tx, k, i, backed)
      BY <1>3, <1>7
    <3> HIDE DEF k, backed
    <3> QED
      BY <1>1, <1>2, <1>4, <1>5, <3>1, DrawOutcomeIs
  <2>2. d \in Drawn /\ d.item = e.item
    <3> HIDE DEF e, k
    <3> QED
      BY <1>2, <1>4 DEF Drawn, Entry
  <2>3. m \in Nat
    <3>1. after \in Seq(Drawn) /\ Len(after) = Len(tx.drawn) + 1 /\ Len(tx.drawn) \in Nat
      <4> HIDE DEF d
      <4> QED
        BY <1>1, <2>2
    <3>2. Len(tx.plan) \in Nat
      BY <1>1 DEF TxRecord
    <3> HIDE DEF after
    <3>3. CASE Len(after) # Len(tx.plan)
      <4>1. Len(after) < Len(tx.plan)
        BY <1>1, <3>1, <3>2, <3>3
      <4>2. tx.plan[Len(after) + 1] \in Stacks
        BY <1>1, <3>1, <4>1, NextStack
      <4>3. TriesFor(tb, tx.plan[Len(after) + 1]) \in Nat
        BY <1>1, <4>2, TriesType
      <4> QED
        BY <3>3, <4>3
    <3> QED
      BY <3>3
  <2>4. gone \in Nat /\ gone + 1 <= e.u /\ DrawnItems(tx.drawn, e.item) + e.u - gone <= nft[e.item][s]
    <3> DEFINE u == e.u
               h == nft[e.item][s]
               di == DrawnItems(tx.drawn, e.item)
    <3>1. di \in Nat
      BY <1>1, DrawnType
    <3>2. h \in Nat
      <4> HIDE DEF k, b
      <4>1. e.item \in Items /\ s \in Accounts
        <5>1. e.item \in Items
          BY <1>4 DEF Entry
        <5>2. s \in Accounts
          BY DEF b
        <5> QED
          BY <5>1, <5>2
      <4> HIDE DEF e, s
      <4> QED
        BY <4>1, HoldingType
    <3>3. u \in Nat /\ backed \in Nat /\ backed <= u /\ di + backed <= h /\ backed # 0
      BY <1>4, <1>5, <1>7
    <3> HIDE DEF u, h, di, backed
    <3>4. u - backed \in Nat /\ (u - backed) + 1 <= u /\ di + u - (u - backed) <= h
      BY <3>1, <3>2, <3>3
    <3> QED
      BY <3>4 DEF u, h, di
  <2>5. TxOK(DrawnTx(tx, k, i, gone, d, m, un), b, books, nft)
        /\ DrawnTx(tx, k, i, gone, d, m, un).id = tx.id
    <3>1. DrawnItems(tx.drawn, d.item) + tx.table.slots[k][i].u - gone <= nft[d.item][b.s]
      BY <2>2, <2>4
    <3>2. /\ TxOK(tx, b, books, nft) /\ b.s \in Accounts /\ k \in Stacks
          /\ i \in DOMAIN tx.table.slots[k] /\ gone \in Nat
          /\ gone + 1 <= tx.table.slots[k][i].u
          /\ d = [item |-> tx.table.slots[k][i].item, stack |-> k]
          /\ un = MoreIn(tx.unannounced, k, gone)
      BY <1>2, <1>4, <2>4
    <3> HIDE DEF b, k, gone, d, m, un
    <3> QED
      BY <2>3, <3>1, <3>2, DrawKeeps
  <2> HIDE DEF b, k, gone, d, m, un
  <2> QED
    BY <2>1, <2>5 DEF b
<1> QED
  BY <1>6, <1>7

-----------------------------------------------------------------------------
(* What the events of a purchase tell.                                     *)

(* Every event of a list leaves books behind.                              *)
Tellable(es) ==
  /\ Len(es) \in Nat /\ DOMAIN es = 1 .. Len(es)
  /\ \A m \in DOMAIN es : \A bks \in Books : Told(bks, es[m]) \in Books

(* The books after a list of events. *)
ToldAll(bks, es) == FoldLeft(Told, bks, es)

(* Folding the events into the books tells one after the other.            *)
LEMMA ToldSteps ==
  ASSUME NEW bks \in Books, NEW es, Tellable(es)
  PROVE  \E f : /\ f[0] = bks /\ f[Len(es)] = ToldAll(bks, es)
                /\ \A m \in 1 .. Len(es) : f[m] = Told(f[m - 1], es[m])
<1> DEFINE n == Len(es)
           R == Books
           F == [mx \in (1 .. n) \X R |-> Told(mx[2], es[mx[1]])]
           Rec(it) == it = [s \in SUBSET (DOMAIN es) |->
                              IF s = {} THEN bks
                              ELSE Told(it[s \ {Max(s)}], es[Max(s)])]
           it == CHOOSE g : Rec(g)
           f == [m \in 0 .. n |-> it[1 .. m]]
<1>1. DOMAIN es = 1 .. n /\ n \in Nat
  BY DEF Tellable
<1>2. bks \in R
  OBVIOUS
<1>3. F \in [(1 .. n) \X R -> R]
  <2>1. \A m \in 1 .. n : \A x \in R : Told(x, es[m]) \in R
    BY <1>1 DEF Tellable
  <2> HIDE DEF R, n
  <2> QED
    BY <2>1
<1>4. \E g : Rec(g)
  <2> HIDE DEF R, F
  <2>1. PICK g : Folds(g, n, R, bks, F)
    <3> HIDE DEF n
    <3>1. n \in Nat /\ bks \in R /\ F \in [(1 .. n) \X R -> R]
      BY <1>1, <1>2, <1>3 DEF n
    <3> QED
      BY <3>1, FoldExists
  <2>2. ASSUME NEW s \in SUBSET (1 .. n), s # {}
        PROVE  F[<<Max(s), g[s \ {Max(s)}]>>] = Told(g[s \ {Max(s)}], es[Max(s)])
    <3>1. Max(s) \in 1 .. n /\ g[s \ {Max(s)}] \in R
      <4>1. Max(s) \in s
        BY <1>1, <2>2, LastOfSome
      <4>2. g \in [SUBSET (1 .. n) -> R]
        BY <2>1 DEF Folds
      <4> QED
        BY <4>1, <4>2
    <3> DEFINE x == g[s \ {Max(s)}]
               m == Max(s)
    <3>2. <<m, x>> \in (1 .. n) \X R
      BY <3>1
    <3> HIDE DEF x, m
    <3>3. F[<<m, x>>] = Told(x, es[m])
      BY <3>2 DEF F
    <3> QED
      BY <3>3 DEF x, m
  <2>3. g = [s \in SUBSET (1 .. n) |->
               IF s = {} THEN bks ELSE Told(g[s \ {Max(s)}], es[Max(s)])]
    BY <2>1, <2>2 DEF Folds
  <2>4. Rec(g)
    BY <1>1, <2>3
  <2> QED
    BY <2>4
<1>5. Rec(it)
  <2> HIDE DEF Rec
  <2> QED
    BY <1>4
<1>6. ToldAll(bks, es) = it[DOMAIN es]
  BY DEF ToldAll, FoldLeft, MapThenFoldSet
<1> HIDE DEF it
<1>7. it[{}] = bks
  <2>1. {} \in SUBSET (DOMAIN es)
    OBVIOUS
  <2> QED
    BY <1>5, <2>1
<1>8. ASSUME NEW m \in 1 .. n
      PROVE  it[1 .. m] = Told(it[1 .. (m - 1)], es[m])
  <2>1. Max(1 .. m) = m /\ (1 .. m) \ {m} = 1 .. (m - 1) /\ 1 .. m # {}
    BY <1>1, LastOfFirst
  <2>2. 1 .. m \in SUBSET (DOMAIN es)
    BY <1>1
  <2> DEFINE s == 1 .. m
  <2> HIDE DEF s
  <2>3. it[s] = IF s = {} THEN bks ELSE Told(it[s \ {Max(s)}], es[Max(s)])
    BY <1>5, <2>2 DEF s
  <2> QED
    BY <2>1, <2>3 DEF s
<1>9. f[0] = bks /\ f[n] = ToldAll(bks, es)
  <2>1. 1 .. 0 = {} /\ 0 \in 0 .. n /\ n \in 0 .. n
    BY <1>1
  <2> QED
    BY <1>1, <1>6, <1>7, <2>1
<1>10. \A m \in 1 .. n : f[m] = Told(f[m - 1], es[m])
  <2> SUFFICES ASSUME NEW m \in 1 .. n
               PROVE  f[m] = Told(f[m - 1], es[m])
    OBVIOUS
  <2>1. m \in 0 .. n /\ m - 1 \in 0 .. n
    BY <1>1
  <2>2. f[m] = it[1 .. m] /\ f[m - 1] = it[1 .. (m - 1)]
    BY <2>1
  <2> HIDE DEF f
  <2> QED
    BY <1>8, <2>2
<1> HIDE DEF f
<1> QED
  BY <1>9, <1>10

(* What the first draws took from a stack. *)
DrawnTo(list, k, m) == Cardinality({l \in 1 .. m : list[l].stack = k})

(* It grows draw by draw. *)
LEMMA DrawnToGrows ==
  ASSUME NEW list \in Seq(Drawn), NEW k
  PROVE  /\ DrawnTo(list, k, 0) = 0
         /\ DrawnTo(list, k, Len(list)) = DrawnStack(list, k)
         /\ \A m \in 1 .. Len(list) :
              /\ DrawnTo(list, k, m - 1) \in Nat
              /\ DrawnTo(list, k, m)
                   = IF list[m].stack = k THEN DrawnTo(list, k, m - 1) + 1
                     ELSE DrawnTo(list, k, m - 1)
<1>1. Len(list) \in Nat /\ DOMAIN list = 1 .. Len(list)
  OBVIOUS
<1>2. DrawnTo(list, k, 0) = 0
  <2>1. {l \in 1 .. 0 : list[l].stack = k} = {}
    OBVIOUS
  <2> QED
    BY <2>1, FS_EmptySet DEF DrawnTo
<1>3. DrawnTo(list, k, Len(list)) = DrawnStack(list, k)
  BY <1>1 DEF DrawnTo, DrawnStack
<1>4. ASSUME NEW m \in 1 .. Len(list)
      PROVE  /\ DrawnTo(list, k, m - 1) \in Nat
             /\ DrawnTo(list, k, m)
                  = IF list[m].stack = k THEN DrawnTo(list, k, m - 1) + 1
                    ELSE DrawnTo(list, k, m - 1)
  <2> DEFINE A == {l \in 1 .. m - 1 : list[l].stack = k}
             B == {l \in 1 .. m : list[l].stack = k}
  <2>1. m - 1 \in Nat /\ 1 .. m = (1 .. m - 1) \cup {m} /\ m \notin 1 .. m - 1
    BY <1>1
  <2>2. B = IF list[m].stack = k THEN A \cup {m} ELSE A
    BY <2>1
  <2>3. IsFiniteSet(A) /\ m \notin A
    <3>1. IsFiniteSet(1 .. m - 1)
      BY <2>1, FS_Interval
    <3> QED
      BY <2>1, <3>1, FS_Subset
  <2>4. DrawnTo(list, k, m - 1) = Cardinality(A) /\ DrawnTo(list, k, m) = Cardinality(B)
    BY DEF DrawnTo
  <2> HIDE DEF A, B
  <2>5. Cardinality(A) \in Nat /\ Cardinality(A \cup {m}) = Cardinality(A) + 1
    BY <2>3, FS_CardinalityType, FS_AddElement
  <2> QED
    BY <2>2, <2>4, <2>5
<1> QED
  BY <1>2, <1>3, <1>4

(* The events of a purchase, as far as the books depend on them. *)
PurchaseLog(es, t) ==
  /\ Len(es) = Len(t.drawn) + (IF t.table.total = 0 THEN 2 ELSE 1)
  /\ DOMAIN es = 1 .. Len(es)
  /\ \A m \in 1 .. Len(t.drawn) :
       /\ es[m].type = "bucket_draw" /\ es[m].bucketId = t.id
       /\ es[m].stack = t.drawn[m].stack
  /\ LET e == es[Len(t.drawn) + 1] IN
     e.type = "bucket_purchase" /\ e.bucketId = t.id /\ e.unitsLeft = t.table.total
  /\ t.table.total = 0 =>
       LET e == es[Len(t.drawn) + 2] IN e.type = "bucket_sold_out" /\ e.bucketId = t.id

LEMMA PurchaseTellable ==
  ASSUME NEW t \in TxRecord, NEW es, PurchaseLog(es, t)
  PROVE  Tellable(es)
<1> DEFINE n == Len(t.drawn)
           id == t.id
<1>1. n \in Nat /\ t.drawn \in Seq(Drawn) /\ id \in BucketIds /\ t.table \in Table
  BY DEF TxRecord
<1>2. t.table.total \in Nat
  BY <1>1, TableParts
<1>3. Len(es) \in Nat /\ DOMAIN es = 1 .. Len(es)
      /\ \A m \in DOMAIN es : m \in 1 .. n \/ m = n + 1 \/ (m = n + 2 /\ t.table.total = 0)
  <2> DEFINE total == t.table.total
             l == Len(es)
  <2>1. l = n + (IF total = 0 THEN 2 ELSE 1) /\ DOMAIN es = 1 .. l
    BY DEF PurchaseLog
  <2>2. n \in Nat /\ total \in Nat
    BY <1>1, <1>2
  <2> HIDE DEF n, l, total
  <2>3. l \in Nat /\ \A m \in 1 .. l : m \in 1 .. n \/ m = n + 1 \/ (m = n + 2 /\ total = 0)
    BY <2>1, <2>2
  <2> QED
    BY <2>1, <2>3 DEF l, total
<1>4. ASSUME NEW m \in DOMAIN es, NEW bks \in Books
      PROVE  Told(bks, es[m]) \in Books
  <2> DEFINE e == es[m]
  <2>1. CASE m \in 1 .. n
    <3>1. e.type = "bucket_draw" /\ e.bucketId = id /\ e.stack = t.drawn[m].stack
      BY <2>1 DEF PurchaseLog
    <3>2. t.drawn[m].stack \in Stacks
      <4>1. t.drawn[m] \in Drawn
        BY <1>1, <2>1
      <4> QED
        BY <4>1 DEF Drawn
    <3> HIDE DEF e, id
    <3>3. e.stack \in Stacks
      BY <3>1, <3>2
    <3>4. Becomes(Told(bks, e), bks, id, bks[id].open, bks[id].added,
                  MoreIn(bks[id].drawn, e.stack, 1), bks[id].dropped, bks[id].left)
      BY <1>1, <3>1, <3>3, ToldDraw
    <3> QED
      BY <3>4 DEF Becomes, e
  <2>2. CASE m = n + 1
    <3>1. e.type = "bucket_purchase" /\ e.bucketId = id /\ e.unitsLeft \in Nat
      BY <1>2, <2>2 DEF PurchaseLog
    <3> HIDE DEF e, id
    <3>2. Becomes(Told(bks, e), bks, id, bks[id].open, bks[id].added, bks[id].drawn,
                  bks[id].dropped, e.unitsLeft)
      BY <1>1, <3>1, ToldPurchase
    <3> QED
      BY <3>2 DEF Becomes, e
  <2>3. CASE m = n + 2 /\ t.table.total = 0
    <3> DEFINE no == FALSE
    <3>1. e.type \in {"bucket_sold_out", "bucket_delisted"} /\ e.bucketId = id
      BY <2>3 DEF PurchaseLog
    <3>2. no = FALSE
      OBVIOUS
    <3> HIDE DEF e, id, no
    <3>3. Becomes(Told(bks, e), bks, id, no, bks[id].added, bks[id].drawn,
                  bks[id].dropped, bks[id].left)
      BY <1>1, <3>1, <3>2, ToldClosed
    <3> QED
      BY <3>3 DEF Becomes, e
  <2> QED
    BY <1>3, <2>1, <2>2, <2>3
<1> QED
  BY <1>3, <1>4 DEF Tellable

(* The book of the bucket afterwards. *)
PurchaseTells(new, t) ==
  /\ new \in Books
  /\ \A other \in BucketIds \ {t.id} : new[other] = t.books[other]
  /\ new[t.id].added = t.books[t.id].added /\ new[t.id].dropped = t.books[t.id].dropped
  /\ \A k \in Stacks :
       new[t.id].drawn[k] = t.books[t.id].drawn[k] + DrawnStack(t.drawn, k)
  /\ new[t.id].left = t.table.total
  /\ t.table.total = 0 => new[t.id].open = FALSE
  /\ t.table.total # 0 => new[t.id].open = t.books[t.id].open

LEMMA PurchaseTold ==
  ASSUME NEW t \in TxRecord, NEW es, PurchaseLog(es, t)
  PROVE  PurchaseTells(ToldAll(t.books, es), t)
<1> DEFINE n == Len(t.drawn)
           id == t.id
           old == t.books
           total == t.table.total
           new == ToldAll(old, es)
<1>1. n \in Nat /\ t.drawn \in Seq(Drawn) /\ id \in BucketIds /\ t.table \in Table
      /\ old \in Books /\ total \in Nat
  <2>1. t.drawn \in Seq(Drawn) /\ t.id \in BucketIds /\ t.table \in Table /\ t.books \in Books
    BY DEF TxRecord
  <2> QED
    BY <2>1, TableParts
<1>2. PICK f : /\ f[0] = old /\ f[Len(es)] = new
               /\ \A m \in 1 .. Len(es) : f[m] = Told(f[m - 1], es[m])
  <2>1. Tellable(es)
    BY PurchaseTellable
  <2> HIDE DEF old
  <2> QED
    BY <1>1, <2>1, ToldSteps DEF new
<1> HIDE DEF new
<1> DEFINE Good(m) ==
             /\ f[m] \in Books /\ \A other \in BucketIds \ {id} : f[m][other] = old[other]
             /\ f[m][id].open = old[id].open /\ f[m][id].added = old[id].added
             /\ f[m][id].dropped = old[id].dropped
             /\ \A k \in Stacks :
                  f[m][id].drawn[k] = old[id].drawn[k] + DrawnTo(t.drawn, k, m)
           A == {m \in 0 .. n : Good(m)}
<1> DEFINE size == Len(es)
<1>3. size \in Nat /\ size = n + (IF total = 0 THEN 2 ELSE 1)
  <2>1. size = n + (IF total = 0 THEN 2 ELSE 1)
    BY DEF PurchaseLog
  <2> HIDE DEF size, n, total
  <2> QED
    BY <1>1, <2>1
<1>4. \A k \in Stacks : old[id].drawn[k] \in Nat
  <2>1. old[id].drawn \in [Stacks -> Nat]
    BY <1>1, BookParts
  <2> QED
    BY <2>1
<1>5. 0 \in A
  <2>1. \A k \in Stacks : f[0][id].drawn[k] = old[id].drawn[k] + DrawnTo(t.drawn, k, 0)
    BY <1>1, <1>2, <1>4, DrawnToGrows
  <2>2. Good(0)
    BY <1>1, <1>2, <2>1
  <2>3. 0 \in 0 .. n
    BY <1>1
  <2> HIDE DEF Good
  <2> QED
    BY <2>2, <2>3
<1>6. ASSUME NEW m \in 1 .. n, m - 1 \in A
      PROVE  m \in A
  <2> DEFINE b == f[m - 1]
             e == es[m]
  <2>1. Good(m - 1) /\ m \in 0 .. n /\ m \in 1 .. Len(es)
    <3>1. Good(m - 1)
      <4> HIDE DEF Good
      <4> QED
        BY <1>6
    <3>2. m \in 0 .. n /\ m \in 1 .. size
      <4> HIDE DEF n, size, total
      <4> QED
        BY <1>1, <1>3
    <3> HIDE DEF Good
    <3> QED
      BY <3>1, <3>2
  <2>2. e.type = "bucket_draw" /\ e.bucketId = id /\ e.stack = t.drawn[m].stack
    BY DEF PurchaseLog
  <2>3. e.stack \in Stacks
    <3>1. t.drawn[m] \in Drawn
      BY <1>1
    <3> QED
      BY <2>2, <3>1 DEF Drawn
  <2>4. f[m] = Told(b, e) /\ b \in Books
    BY <1>2, <2>1
  <2>5. Becomes(f[m], b, id, b[id].open, b[id].added, MoreIn(b[id].drawn, e.stack, 1),
                b[id].dropped, b[id].left)
    <3> HIDE DEF b, e, id
    <3>1. Becomes(Told(b, e), b, id, b[id].open, b[id].added,
                  MoreIn(b[id].drawn, e.stack, 1), b[id].dropped, b[id].left)
      BY <1>1, <2>2, <2>3, <2>4, ToldDraw
    <3> QED
      BY <2>4, <3>1
  <2>6. /\ f[m] \in Books /\ \A other \in BucketIds \ {id} : f[m][other] = b[other]
        /\ f[m][id].open = b[id].open /\ f[m][id].added = b[id].added
        /\ f[m][id].dropped = b[id].dropped
        /\ f[m][id].drawn = MoreIn(b[id].drawn, e.stack, 1)
    <3> HIDE DEF b, e, id
    <3> QED
      BY <2>5 DEF Becomes
  <2>7. ASSUME NEW k \in Stacks
        PROVE  f[m][id].drawn[k] = old[id].drawn[k] + DrawnTo(t.drawn, k, m)
    <3> DEFINE g == b[id].drawn
               o == old[id].drawn[k]
               c == DrawnTo(t.drawn, k, m - 1)
    <3>1. g \in [Stacks -> Nat]
      <4> HIDE DEF b, id
      <4> QED
        BY <1>1, <2>4, BookParts
    <3> HIDE DEF g
    <3>2. MoreIn(g, e.stack, 1)[k] = IF k = e.stack THEN g[k] + 1 ELSE g[k]
      <4> DEFINE s == e.stack
                 one == 1
      <4>1. s \in Stacks /\ one \in Nat
        BY <2>3
      <4> HIDE DEF s, one
      <4>2. MoreIn(g, s, one)[k] = IF k = s THEN g[k] + one ELSE g[k]
        BY <3>1, <4>1, MoreInType
      <4> QED
        BY <4>2 DEF s, one
    <3>3. g[k] = o + c
      BY <2>1 DEF g
    <3>4. c \in Nat /\ o \in Nat /\ DrawnTo(t.drawn, k, m) = IF t.drawn[m].stack = k THEN c + 1 ELSE c
      BY <1>1, <1>4, DrawnToGrows
    <3>5. f[m][id].drawn[k] = MoreIn(g, e.stack, 1)[k]
      BY <2>6 DEF g
    <3> HIDE DEF o, c
    <3>6. f[m][id].drawn[k] = o + DrawnTo(t.drawn, k, m)
      BY <2>2, <3>2, <3>3, <3>4, <3>5
    <3> QED
      BY <3>6 DEF o
  <2>8. Good(m)
    <3>1. \A other \in BucketIds \ {id} : f[m][other] = old[other]
      BY <2>1, <2>6
    <3>2. f[m][id].open = old[id].open /\ f[m][id].added = old[id].added
          /\ f[m][id].dropped = old[id].dropped
      BY <2>1, <2>6
    <3> HIDE DEF b, e, id, old
    <3> QED
      BY <2>6, <2>7, <3>1, <3>2
  <2> HIDE DEF Good
  <2> QED
    BY <2>1, <2>8
<1>7. Good(n)
  <2>1. 0 .. n \subseteq A
    <3> HIDE DEF A, n
    <3> QED
      BY <1>1, <1>5, <1>6, UpTo
  <2>2. n \in 0 .. n
    BY <1>1
  <2> HIDE DEF Good
  <2> QED
    BY <2>1, <2>2
<1> DEFINE b == f[n]
           paid == f[n + 1]
           e == es[n + 1]
<1>8. Becomes(paid, b, id, b[id].open, b[id].added, b[id].drawn, b[id].dropped, total)
  <2>1. n + 1 \in 1 .. Len(es) /\ (n + 1) - 1 = n
    <3>1. n + 1 \in 1 .. size /\ (n + 1) - 1 = n
      <4> HIDE DEF n, size, total
      <4> QED
        BY <1>1, <1>3
    <3> QED
      BY <3>1
  <2>2. paid = Told(b, e)
    BY <1>2, <2>1
  <2>3. e.type = "bucket_purchase" /\ e.bucketId = id /\ e.unitsLeft = total
    BY DEF PurchaseLog
  <2>4. b \in Books
    BY <1>7
  <2> HIDE DEF b, e, id, total, paid
  <2>5. e.unitsLeft \in Nat
    BY <1>1, <2>3
  <2>6. Becomes(Told(b, e), b, id, b[id].open, b[id].added, b[id].drawn, b[id].dropped,
                e.unitsLeft)
    BY <1>1, <2>3, <2>4, <2>5, ToldPurchase
  <2> QED
    BY <2>2, <2>3, <2>6
<1>9. /\ paid \in Books /\ \A other \in BucketIds \ {id} : paid[other] = old[other]
      /\ paid[id].open = old[id].open /\ paid[id].added = old[id].added
      /\ paid[id].dropped = old[id].dropped /\ paid[id].left = total
      /\ \A k \in Stacks : paid[id].drawn[k] = old[id].drawn[k] + DrawnStack(t.drawn, k)
  <2>1. /\ paid \in Books /\ \A other \in BucketIds \ {id} : paid[other] = b[other]
        /\ paid[id].open = b[id].open /\ paid[id].added = b[id].added
        /\ paid[id].dropped = b[id].dropped /\ paid[id].left = total
        /\ paid[id].drawn = b[id].drawn
    <3> HIDE DEF b, id, total, paid
    <3> QED
      BY <1>8 DEF Becomes
  <2>2. \A k \in Stacks : DrawnTo(t.drawn, k, n) = DrawnStack(t.drawn, k)
    BY <1>1, DrawnToGrows
  <2> HIDE DEF id, total, paid, old, n
  <2> QED
    BY <1>7, <2>1, <2>2
<1>10. CASE total # 0
  <2>1. new = paid
    BY <1>2, <1>3, <1>10
  <2> HIDE DEF paid
  <2> QED
    BY <1>9, <1>10, <2>1 DEF PurchaseTells, new
<1>11. CASE total = 0
  <2> DEFINE no == FALSE
             z == es[n + 2]
  <2>1. n + 2 \in 1 .. Len(es) /\ (n + 2) - 1 = n + 1 /\ Len(es) = n + 2
    BY <1>1, <1>3, <1>11
  <2>2. new = Told(paid, z)
    BY <1>2, <2>1
  <2>3. z.type \in {"bucket_sold_out", "bucket_delisted"} /\ z.bucketId = id
    BY <1>11 DEF PurchaseLog
  <2>4. no = FALSE
    OBVIOUS
  <2> HIDE DEF no, z, id, paid
  <2>5. Becomes(Told(paid, z), paid, id, no, paid[id].added, paid[id].drawn,
                paid[id].dropped, paid[id].left)
    BY <1>1, <1>9, <2>3, <2>4, ToldClosed
  <2>6. /\ new \in Books /\ \A other \in BucketIds \ {id} : new[other] = paid[other]
        /\ new[id].open = no /\ new[id].added = paid[id].added
        /\ new[id].drawn = paid[id].drawn /\ new[id].dropped = paid[id].dropped
        /\ new[id].left = paid[id].left
    BY <2>2, <2>5 DEF Becomes
  <2> QED
    BY <1>9, <1>11, <2>4, <2>6 DEF PurchaseTells, new, id
<1> QED
  BY <1>10, <1>11

(* Draws, then one event, then perhaps another. *)
EventsIn(S, d, x, q) == d \in Seq(S) /\ x \in S /\ q \in Seq(S)

Joined(es, d, x, q) ==
  /\ Len(es) = Len(d) + 1 + Len(q) /\ DOMAIN es = 1 .. Len(es)
  /\ \A m \in 1 .. Len(d) : es[m] = d[m]
  /\ es[Len(d) + 1] = x
  /\ Len(q) = 1 => es[Len(d) + 2] = q[1]

LEMMA ThreeParts ==
  ASSUME NEW S, NEW d, NEW x, NEW q, EventsIn(S, d, x, q)
  PROVE  Joined(d \o <<x>> \o q, d, x, q)
<1> USE DEF EventsIn
<1> DEFINE p == d \o <<x>>
           es == p \o q
           n == Len(d)
<1>1. n \in Nat /\ Len(q) \in Nat
  OBVIOUS
<1>2. /\ p \in Seq(S) /\ Len(p) = n + 1 /\ p[n + 1] = x
      /\ \A m \in 1 .. n : p[m] = d[m]
  OBVIOUS
<1> HIDE DEF p
<1>3. /\ es \in Seq(S) /\ Len(es) = Len(p) + Len(q)
      /\ \A m \in 1 .. Len(p) : es[m] = p[m]
      /\ \A m \in 1 .. Len(q) : es[Len(p) + m] = q[m]
  BY <1>2
<1>4. DOMAIN es = 1 .. Len(es)
  BY <1>3
<1> HIDE DEF es, n
<1>5. \A m \in 1 .. n : es[m] = d[m]
  BY <1>1, <1>2, <1>3
<1>6. es[n + 1] = x
  BY <1>1, <1>2, <1>3
<1>7. ASSUME Len(q) = 1
      PROVE  es[n + 2] = q[1]
  <2>1. 1 \in 1 .. Len(q) /\ Len(p) + 1 = n + 2
    BY <1>1, <1>2, <1>7
  <2> QED
    BY <1>3, <2>1
<1>8. Len(es) = n + 1 + Len(q)
  BY <1>1, <1>2, <1>3
<1> QED
  BY <1>4, <1>5, <1>6, <1>7, <1>8 DEF Joined, es, p, n

(* A purchase's events are such a list. *)
LEMMA PurchaseIsLogged ==
  ASSUME tx \in TxRecord, NEW credited
  PROVE  PurchaseLog(PurchaseEvents(credited), tx)
<1> DEFINE n == Len(tx.drawn)
           b == Bucket(tx.id)
           total == tx.table.total
           d == [m \in DOMAIN tx.drawn |->
                   BucketDraw(tx.id, tx.buyer, tx.drawn[m].item, tx.drawn[m].stack, m - 1)]
           x == BucketPurchase(tx.id, tx.buyer, tx.mode, Len(tx.plan), b.pt, credited,
                               FeeOf(credited, b.fb), RoyaltyOf(credited, b.rs), total)
           y == BucketSoldOut(tx.id, b.s)
           q == IF total = 0 THEN <<y>> ELSE <<>>
           S == {d[m] : m \in 1 .. n} \cup {x, y}
           es == PurchaseEvents(credited)
<1>1. n \in Nat /\ DOMAIN tx.drawn = 1 .. n
  <2>1. tx.drawn \in Seq(Drawn)
    BY DEF TxRecord
  <2> QED
    BY <2>1
<1>2. \A m \in 1 .. n : d[m].type = "bucket_draw" /\ d[m].bucketId = tx.id
                        /\ d[m].stack = tx.drawn[m].stack
  BY <1>1 DEF BucketDraw
<1>3. x.type = "bucket_purchase" /\ x.bucketId = tx.id /\ x.unitsLeft = total
  BY DEF BucketPurchase
<1>4. y.type = "bucket_sold_out" /\ y.bucketId = tx.id
  BY DEF BucketSoldOut
<1>5. es = d \o <<x>> \o q
  BY DEF PurchaseEvents
<1>6. DOMAIN d = 1 .. n
  BY <1>1
<1> HIDE DEF x, y, es, total
<1>7. d = [m \in 1 .. n |-> d[m]]
  BY <1>1
<1> HIDE DEF d, n
<1>8. d \in Seq(S) /\ Len(d) = n /\ x \in S /\ q \in Seq(S)
      /\ Len(q) = (IF total = 0 THEN 1 ELSE 0) /\ (total = 0 => q[1] = y)
  <2>1. \A m \in 1 .. n : d[m] \in S
    OBVIOUS
  <2>2. x \in S /\ y \in S
    OBVIOUS
  <2> HIDE DEF S
  <2>3. d \in Seq(S) /\ Len(d) = n
    BY <1>1, <1>7, <2>1
  <2>4. q \in Seq(S) /\ Len(q) = (IF total = 0 THEN 1 ELSE 0) /\ (total = 0 => q[1] = y)
    BY <2>2
  <2> QED
    BY <2>2, <2>3, <2>4
<1> HIDE DEF q, S
<1>9. /\ Len(es) = n + 1 + Len(q) /\ DOMAIN es = 1 .. Len(es)
      /\ \A m \in 1 .. n : es[m] = d[m]
      /\ es[n + 1] = x
      /\ Len(q) = 1 => es[n + 2] = q[1]
  <2>1. EventsIn(S, d, x, q)
    BY <1>8 DEF EventsIn
  <2>2. Joined(es, d, x, q)
    BY <1>5, <2>1, ThreeParts
  <2> QED
    BY <1>8, <2>2 DEF Joined
<1>10. Len(es) = n + (IF total = 0 THEN 2 ELSE 1)
  BY <1>1, <1>8, <1>9
<1>11. \A m \in 1 .. n : es[m].type = "bucket_draw" /\ es[m].bucketId = tx.id
                         /\ es[m].stack = tx.drawn[m].stack
  BY <1>2, <1>9
<1>12. es[n + 1].type = "bucket_purchase" /\ es[n + 1].bucketId = tx.id
       /\ es[n + 1].unitsLeft = total
  BY <1>3, <1>9
<1>13. total = 0 => es[n + 2].type = "bucket_sold_out" /\ es[n + 2].bucketId = tx.id
  BY <1>4, <1>8, <1>9
<1>14. DOMAIN es = 1 .. Len(es)
  BY <1>9
<1> QED
  BY <1>10, <1>11, <1>12, <1>13, <1>14 DEF PurchaseLog, n, total, es

-----------------------------------------------------------------------------
(* The inductive invariant.  Beyond what the counters have to satisfy, the *)
(* units of a bucket are accounted for, one that has not been listed is    *)
(* empty, and a purchase works on a copy that only lacks what it drew and  *)
(* dropped.                                                                *)

BucketOK(b) ==
  /\ b \in BucketRecord /\ TableOK(b.table) /\ OneEntry(b.table) /\ PackOK(b.pp, b.pd)
  /\ b.act = TRUE => b.s \in Accounts

(* The entry of UnitsAccounted for one bucket. *)
Accounted(b, told, st, dl, un) ==
  /\ told.open = b.act
  /\ told.added = st /\ told.drawn = dl
  /\ told.left = b.table.total
  /\ \A k \in Stacks :
       st[k] = b.table.units[k] + dl[k] + told.dropped[k] + un[k]

Unlisted(b, st) == b.act = FALSE /\ st = NoUnits

Kept(b, told, st, dl, un) ==
  /\ BucketOK(b) /\ Accounted(b, told, st, dl, un) /\ told \in Book
  /\ st \in [Stacks -> Nat] /\ dl \in [Stacks -> Nat] /\ un \in [Stacks -> Nat]

BucketsOK(bs, bks, next, st, dl, un) ==
  /\ DOMAIN bs = BucketIds /\ bs = [id \in BucketIds |-> bs[id]]
  /\ bks \in Books /\ next \in 0 .. MaxBuckets
  /\ st \in [BucketIds -> [Stacks -> Nat]] /\ dl \in [BucketIds -> [Stacks -> Nat]]
  /\ un \in [BucketIds -> [Stacks -> Nat]]
  /\ \A id \in BucketIds :
       /\ Kept(bs[id], bks[id], st[id], dl[id], un[id])
       /\ id >= next => Unlisted(bs[id], st[id])

BucketInv ==
  /\ MarketInv
  /\ approved \subseteq Items \X Accounts
  /\ pool \in [Tokens -> Nat]
  /\ nft \in [Items -> [Holders -> Nat]]
  /\ BucketsOK(buckets, books, nextBucketId, stocked, delivered, unannounced)
  /\ tx = NoTx \/ TxOK(tx, Bucket(tx.id), books, nft)

(* One value of a function is replaced. *)
Replaced(f, x, v) == [f EXCEPT ![x] = v]

LEMMA ReplacedIs ==
  ASSUME NEW f, f = [id \in BucketIds |-> f[id]], NEW x \in BucketIds, NEW v
  PROVE  /\ Replaced(f, x, v) = [id \in BucketIds |-> Replaced(f, x, v)[id]]
         /\ DOMAIN Replaced(f, x, v) = BucketIds
         /\ Replaced(f, x, v)[x] = v
         /\ \A id \in BucketIds \ {x} : Replaced(f, x, v)[id] = f[id]
BY DEF Replaced

LEMMA ReplacedUnits ==
  ASSUME NEW f \in [BucketIds -> [Stacks -> Nat]], NEW x \in BucketIds,
         NEW v \in [Stacks -> Nat]
  PROVE  /\ Replaced(f, x, v) \in [BucketIds -> [Stacks -> Nat]]
         /\ Replaced(f, x, v)[x] = v
         /\ \A id \in BucketIds \ {x} : Replaced(f, x, v)[id] = f[id]
BY DEF Replaced

(* One bucket changes, and perhaps one more is listed. *)
LEMMA OneBucketChanges ==
  ASSUME NEW bs, NEW bks, NEW next, NEW st, NEW dl, NEW un,
         BucketsOK(bs, bks, next, st, dl, un),
         NEW id \in BucketIds, NEW b, NEW bks2 \in Books, NEW next2 \in 0 .. MaxBuckets,
         NEW s, NEW d, NEW u,
         \A other \in BucketIds \ {id} : bks2[other] = bks[other],
         next2 >= next, id < next2,
         Kept(b, bks2[id], s, d, u)
  PROVE  BucketsOK(Replaced(bs, id, b), bks2, next2, Replaced(st, id, s),
                   Replaced(dl, id, d), Replaced(un, id, u))
<1> DEFINE bs2 == Replaced(bs, id, b)
           st2 == Replaced(st, id, s)
           dl2 == Replaced(dl, id, d)
           un2 == Replaced(un, id, u)
<1>1. s \in [Stacks -> Nat] /\ d \in [Stacks -> Nat] /\ u \in [Stacks -> Nat]
  BY DEF Kept
<1>2. /\ bs = [x \in BucketIds |-> bs[x]] /\ next \in 0 .. MaxBuckets
      /\ st \in [BucketIds -> [Stacks -> Nat]] /\ dl \in [BucketIds -> [Stacks -> Nat]]
      /\ un \in [BucketIds -> [Stacks -> Nat]]
  BY DEF BucketsOK
<1>3. /\ bs2 = [x \in BucketIds |-> bs2[x]] /\ DOMAIN bs2 = BucketIds /\ bs2[id] = b
      /\ \A x \in BucketIds \ {id} : bs2[x] = bs[x]
  BY <1>2, ReplacedIs
<1>4. /\ st2 \in [BucketIds -> [Stacks -> Nat]] /\ st2[id] = s
      /\ \A x \in BucketIds \ {id} : st2[x] = st[x]
  BY <1>1, <1>2, ReplacedUnits
<1>5. /\ dl2 \in [BucketIds -> [Stacks -> Nat]] /\ dl2[id] = d
      /\ \A x \in BucketIds \ {id} : dl2[x] = dl[x]
  BY <1>1, <1>2, ReplacedUnits
<1>6. /\ un2 \in [BucketIds -> [Stacks -> Nat]] /\ un2[id] = u
      /\ \A x \in BucketIds \ {id} : un2[x] = un[x]
  BY <1>1, <1>2, ReplacedUnits
<1> HIDE DEF bs2, st2, dl2, un2
<1>7. ASSUME NEW x \in BucketIds
      PROVE  /\ Kept(bs2[x], bks2[x], st2[x], dl2[x], un2[x])
             /\ x >= next2 => Unlisted(bs2[x], st2[x])
  <2>1. CASE x = id
    <3>1. ~(x >= next2)
      BY <2>1 DEF BucketIds
    <3> QED
      BY <1>3, <1>4, <1>5, <1>6, <2>1, <3>1
  <2>2. CASE x # id
    <3>1. /\ bs2[x] = bs[x] /\ st2[x] = st[x] /\ dl2[x] = dl[x] /\ un2[x] = un[x]
          /\ bks2[x] = bks[x]
      BY <1>3, <1>4, <1>5, <1>6, <2>2
    <3>2. x >= next2 => x >= next
      BY <1>2 DEF BucketIds
    <3>3. /\ Kept(bs[x], bks[x], st[x], dl[x], un[x])
          /\ x >= next => Unlisted(bs[x], st[x])
      BY DEF BucketsOK
    <3> QED
      BY <3>1, <3>2, <3>3
  <2> QED
    BY <2>1, <2>2
<1>8. BucketsOK(bs2, bks2, next2, st2, dl2, un2)
  BY <1>3, <1>4, <1>5, <1>6, <1>7 DEF BucketsOK
<1> QED
  BY <1>8 DEF bs2, st2, dl2, un2

(* What is known of one bucket. *)
LEMMA OneBucket ==
  ASSUME BucketInv, NEW id \in BucketIds
  PROVE  /\ Kept(buckets[id], books[id], stocked[id], delivered[id], unannounced[id])
         /\ id >= nextBucketId => Unlisted(buckets[id], stocked[id])
         /\ Bucket(id) = buckets[id]
BY DEF BucketInv, BucketsOK, Bucket

(* A bucket that can be used has been listed. *)
LEMMA OpenIsListed ==
  ASSUME BucketInv, NEW id \in BucketIds, buckets[id].act = TRUE
  PROVE  id < nextBucketId /\ buckets[id].s \in Accounts
<1>1. nextBucketId \in Nat /\ id \in Nat
  BY BucketAssumption DEF BucketInv, BucketsOK, BucketIds
<1>2. ~(id >= nextBucketId)
  <2> SUFFICES ASSUME id >= nextBucketId PROVE FALSE
    OBVIOUS
  <2>1. buckets[id].act = FALSE
    BY OneBucket DEF Unlisted
  <2> QED
    BY <2>1
<1>3. BucketOK(buckets[id])
  BY OneBucket DEF Kept
<1> QED
  BY <1>1, <1>2, <1>3 DEF BucketOK

LEMMA ReplacedSame ==
  ASSUME NEW f, f = [id \in BucketIds |-> f[id]], NEW x \in BucketIds
  PROVE  Replaced(f, x, f[x]) = f
BY DEF Replaced

(* The histories are functions, also where they stay as they are. *)
LEMMA SameHistory ==
  ASSUME BucketInv, NEW id \in BucketIds
  PROVE  /\ stocked = Replaced(stocked, id, stocked[id])
         /\ delivered = Replaced(delivered, id, delivered[id])
         /\ unannounced = Replaced(unannounced, id, unannounced[id])
<1>1. /\ stocked \in [BucketIds -> [Stacks -> Nat]]
      /\ delivered \in [BucketIds -> [Stacks -> Nat]]
      /\ unannounced \in [BucketIds -> [Stacks -> Nat]]
  BY DEF BucketInv, BucketsOK
<1>2. /\ stocked = [x \in BucketIds |-> stocked[x]]
      /\ delivered = [x \in BucketIds |-> delivered[x]]
      /\ unannounced = [x \in BucketIds |-> unannounced[x]]
  BY <1>1
<1> QED
  BY <1>2, ReplacedSame

(* What the checks of listBucket and addToBucket make sure of. *)
LEMMA StockableEntries ==
  ASSUME NEW es \in Stocks, NEW tb, NEW nc, NEW s, EntriesStockable(tb, nc, s, es)
  PROVE  /\ Stockable(tb, es) /\ es \in Seq(StockedEntry)
         /\ UnitsByStack(es) \in [Stacks -> Nat] /\ Total(UnitsByStack(es)) \in Nat
<1>1. es \in Seq(StockedEntry)
  BY BucketAssumption
<1>2. Stockable(tb, es)
  BY <1>1 DEF EntriesStockable, Stockable
<1> QED
  BY <1>1, <1>2, UnitsByStackType

(* A record of a bucket, and its parts. *)
LEMMA BucketRecordOf ==
  ASSUME NEW s, s \in Accounts, NEW nc \in Collections, NEW t \in Tokens, NEW p1 \in Nat,
         NEW pp \in Nat, NEW pd \in Seq(Nat), NEW act, act = TRUE, NEW exp \in Nat,
         NEW fb \in Nat, NEW rs \in Seq(Split), NEW tb, TableOK(tb), OneEntry(tb),
         PackOK(pp, pd)
  PROVE  LET b == [s |-> s, nc |-> nc, pt |-> t, p1 |-> p1, pp |-> pp, pd |-> pd,
                   act |-> act, exp |-> exp, fb |-> fb, rs |-> rs, table |-> tb] IN
         BucketOK(b) /\ b.act = act /\ b.table = tb
<1> DEFINE b == [s |-> s, nc |-> nc, pt |-> t, p1 |-> p1, pp |-> pp, pd |-> pd,
                 act |-> act, exp |-> exp, fb |-> fb, rs |-> rs, table |-> tb]
<1>1. tb \in Table
  BY DEF TableOK
<1>2. b \in BucketRecord
  BY <1>1 DEF BucketRecord
<1>3. b.act = act /\ b.table = tb /\ b.s = s /\ b.pp = pp /\ b.pd = pd
  OBVIOUS
<1> HIDE DEF b
<1>4. BucketOK(b)
  BY <1>2, <1>3 DEF BucketOK
<1> QED
  BY <1>3, <1>4 DEF b

(* A stack of a bucket that has not been listed has nothing of anything. *)
LEMMA UnlistedIsEmpty ==
  ASSUME NEW b, NEW told, NEW st, NEW dl, NEW un, Kept(b, told, st, dl, un),
         Unlisted(b, st), NEW k \in Stacks
  PROVE  dl[k] = 0 /\ told.dropped[k] = 0 /\ un[k] = 0
<1> DEFINE u == b.table.units[k]
           d == dl[k]
           p == told.dropped[k]
           n == un[k]
<1>1. st[k] = u + d + p + n /\ st[k] = 0
  BY DEF Kept, Accounted, Unlisted, NoUnits
<1>2. u \in Nat /\ d \in Nat /\ p \in Nat /\ n \in Nat
  <2>1. u \in Nat
    BY TableParts DEF Kept, BucketOK, TableOK
  <2>2. p \in Nat
    BY DEF Kept, Book
  <2> QED
    BY <2>1, <2>2 DEF Kept
<1> HIDE DEF u, d, p, n
<1>3. d = 0 /\ p = 0 /\ n = 0
  BY <1>1, <1>2
<1> QED
  BY <1>3 DEF d, p, n

-----------------------------------------------------------------------------
(* The actions.                                                            *)

(* What an action leaves of the invariant that changes nothing but the     *)
(* buckets.                                                                *)
LEMMA OnlyBuckets ==
  ASSUME BucketInv, tx = NoTx, UNCHANGED <<marketVars, tx, approved, pool, nft>>,
         BucketsOK(buckets', books', nextBucketId', stocked', delivered', unannounced')
  PROVE  BucketInv'
<1>1. MarketInv'
  BY UnchangedMarketInv DEF BucketInv
<1>2. /\ approved' = approved /\ pool' = pool /\ nft' = nft /\ tx' = NoTx
  OBVIOUS
<1> QED
  BY <1>1, <1>2 DEF BucketInv

(* listBucket. *)
LEMMA ListBucketInv ==
  ASSUME BucketInv, tx = NoTx, NEW s \in Accounts, NEW nc \in Collections, NEW t \in Tokens,
         NEW p1 \in SinglePrices, NEW pack \in PackOffers, NEW exp \in Expirations,
         NEW es \in Stocks, ListBucket(s, nc, t, p1, pack, exp, es)
  PROVE  BucketInv'
<1> DEFINE id == nextBucketId
           act == TRUE
           tb == AppendBucketEntries(EmptyTable, es)
           us == UnitsByStack(es)
           fb == EffectiveFeeBps(nc)
           rs == ResolveRoyaltySplits(nc)
           b == [s |-> s, nc |-> nc, pt |-> t, p1 |-> p1, pp |-> pack.pp, pd |-> pack.pd,
                 act |-> act, exp |-> exp, fb |-> fb, rs |-> rs, table |-> tb]
           e == BucketListed(id, s, nc, t, p1, pack.pp, pack.pd, exp, fb, RoyaltyBps(nc),
                             es, Total(us))
<1>1. /\ EntriesStockable(EmptyTable, nc, s, es) /\ fb + RoyaltyBps(nc) <= 10000
      /\ id < MaxBuckets
      /\ pack.pp > 0 => Len(pack.pd) \in 1 .. MaxBucketStacks
                        /\ SumOf(pack.pd) \in 1 .. MaxDrawsPerTx
  BY DEF ListBucket
<1>2. /\ buckets' = Replaced(buckets, id, b) /\ nextBucketId' = id + 1
      /\ stocked' = Replaced(stocked, id, us) /\ books' = Told(books, e)
      /\ UNCHANGED <<marketVars, tx, approved, pool, nft, delivered, unannounced>>
  BY DEF ListBucket, Log, Replaced
<1>3. id \in BucketIds /\ id \in Nat /\ id + 1 \in 0 .. MaxBuckets
  <2>1. id \in 0 .. MaxBuckets
    BY DEF BucketInv, BucketsOK
  <2> QED
    BY <1>1, <2>1, BucketAssumption DEF BucketIds
<1>4. Stockable(EmptyTable, es) /\ us \in [Stacks -> Nat] /\ Total(us) \in Nat
  BY <1>1, StockableEntries
<1>5. OneEntry(EmptyTable)
  <2>1. \A k \in Stacks : EmptyTable.slots[k] = <<>>
    BY EmptyTableOK
  <2> QED
    BY <2>1 DEF OneEntry
<1>6. /\ TableOK(tb) /\ OneEntry(tb)
      /\ \A k \in Stacks : tb.units[k] = us[k]
      /\ tb.total = Total(us)
  <2> HIDE DEF us
  <2>1. /\ TableOK(tb) /\ OneEntry(tb)
        /\ \A k \in Stacks : tb.units[k] = EmptyTable.units[k] + us[k]
        /\ tb.total = EmptyTable.total + Total(us)
    BY <1>4, <1>5, EmptyTableOK, AppendOK DEF us
  <2>2. \A k \in Stacks : EmptyTable.units[k] = 0
    BY EmptyTableOK DEF NoUnits
  <2>3. \A k \in Stacks : us[k] \in Nat
    BY <1>4
  <2> HIDE DEF tb
  <2> QED
    BY <1>4, <2>1, <2>2, <2>3, EmptyTableOK
<1>7. BucketOK(b) /\ b.act = act /\ b.table = tb
  <2>1. fb \in Nat /\ rs \in Seq(Split)
    BY <1>1, LockedTerms DEF BucketInv
  <2> DEFINE pp == pack.pp
             pd == pack.pd
  <2>2. pp \in Nat /\ pd \in Seq(Nat) /\ p1 \in Nat /\ exp \in Nat
    BY BucketAssumption
  <2>3. PackOK(pp, pd)
    <3>1. SumOf(pd) \in 1 .. MaxDrawsPerTx => SumOf(pd) >= 1
      BY BucketAssumption
    <3> QED
      BY <1>1, <2>2, <3>1, SomeDraws DEF PackOK
  <2>4. act = TRUE
    OBVIOUS
  <2> HIDE DEF act, fb, rs, tb, pp, pd
  <2> QED
    BY <1>6, <2>1, <2>2, <2>3, <2>4, BucketRecordOf DEF pp, pd
<1>8. Becomes(books', books, id, act, us, books[id].drawn, books[id].dropped, Total(us))
  <2>1. /\ e.bucketId = id /\ e.type = "bucket_listed" /\ e.entries = es
        /\ e.units = Total(us)
    BY DEF BucketListed
  <2>2. act = TRUE /\ books \in Books
    BY DEF BucketInv, BucketsOK
  <2> HIDE DEF e, act, id
  <2>3. UnitsByStack(e.entries) \in [Stacks -> Nat] /\ e.units \in Nat
    BY <1>4, <2>1
  <2>4. Becomes(Told(books, e), books, id, act, UnitsByStack(e.entries), books[id].drawn,
                books[id].dropped, e.units)
    BY <1>3, <2>1, <2>2, <2>3, ToldListed
  <2> QED
    BY <1>2, <2>1, <2>4
<1>9. /\ Kept(buckets[id], books[id], stocked[id], delivered[id], unannounced[id])
      /\ Unlisted(buckets[id], stocked[id])
  BY <1>3, OneBucket
<1> HIDE DEF act, us, tb, fb, rs, b, e
<1>10. Kept(b, books'[id], us, delivered[id], unannounced[id])
  <2>1. /\ books' \in Books /\ books'[id].open = act /\ books'[id].added = us
        /\ books'[id].drawn = books[id].drawn /\ books'[id].dropped = books[id].dropped
        /\ books'[id].left = Total(us)
    BY <1>8 DEF Becomes
  <2>2. /\ books[id].drawn = delivered[id] /\ delivered[id] \in [Stacks -> Nat]
        /\ unannounced[id] \in [Stacks -> Nat]
    BY <1>9 DEF Kept, Accounted
  <2>3. ASSUME NEW k \in Stacks
        PROVE  us[k] = b.table.units[k] + delivered[id][k] + books'[id].dropped[k]
                         + unannounced[id][k]
    <3>1. delivered[id][k] = 0 /\ books[id].dropped[k] = 0 /\ unannounced[id][k] = 0
      BY <1>9, UnlistedIsEmpty
    <3>2. b.table.units[k] = us[k] /\ us[k] \in Nat
      BY <1>4, <1>6, <1>7
    <3> QED
      BY <2>1, <3>1, <3>2
  <2>4. books'[id] \in Book
    BY <1>3, <2>1, BookParts
  <2>5. books'[id].left = b.table.total
    BY <1>6, <1>7, <2>1
  <2>6. Accounted(b, books'[id], us, delivered[id], unannounced[id])
    BY <1>7, <2>1, <2>2, <2>3, <2>5 DEF Accounted
  <2> QED
    BY <1>4, <1>7, <2>2, <2>4, <2>6 DEF Kept
<1>11. BucketsOK(Replaced(buckets, id, b), books', id + 1, Replaced(stocked, id, us),
                 Replaced(delivered, id, delivered[id]),
                 Replaced(unannounced, id, unannounced[id]))
  <2>1. BucketsOK(buckets, books, id, stocked, delivered, unannounced)
    BY DEF BucketInv
  <2>2. books' \in Books /\ \A other \in BucketIds \ {id} : books'[other] = books[other]
    BY <1>8 DEF Becomes
  <2>3. id + 1 >= id /\ id < id + 1
    BY <1>3
  <2> DEFINE more == id + 1
  <2> HIDE DEF id, more
  <2>4. more \in 0 .. MaxBuckets /\ more >= id /\ id < more /\ id \in BucketIds
    BY <1>3, <2>3 DEF more
  <2>5. BucketsOK(Replaced(buckets, id, b), books', more, Replaced(stocked, id, us),
                  Replaced(delivered, id, delivered[id]),
                  Replaced(unannounced, id, unannounced[id]))
    BY <1>10, <2>1, <2>2, <2>4, OneBucketChanges
  <2> QED
    BY <2>5 DEF more
<1>12. BucketsOK(buckets', books', nextBucketId', stocked', delivered', unannounced')
  BY <1>2, <1>3, <1>11, SameHistory
<1> QED
  BY <1>2, <1>12, OnlyBuckets

(* A bucket with other counters, or closed. *)
WithTable(b, tb) == [b EXCEPT !.table = tb]
WithAct(b, act) == [b EXCEPT !.act = act]

LEMMA WithTableOK ==
  ASSUME NEW b, BucketOK(b), NEW tb, TableOK(tb), OneEntry(tb)
  PROVE  BucketOK(WithTable(b, tb)) /\ WithTable(b, tb).act = b.act
         /\ WithTable(b, tb).table = tb /\ WithTable(b, tb).s = b.s
<1> DEFINE new == WithTable(b, tb)
<1>1. b \in BucketRecord /\ tb \in Table
  BY DEF BucketOK, TableOK
<1>2. /\ new \in BucketRecord /\ new.act = b.act /\ new.table = tb /\ new.s = b.s
      /\ new.pp = b.pp /\ new.pd = b.pd
  BY <1>1 DEF WithTable, BucketRecord
<1> HIDE DEF new
<1>3. BucketOK(new)
  BY <1>2 DEF BucketOK
<1> QED
  BY <1>2, <1>3 DEF new

LEMMA WithActOK ==
  ASSUME NEW b, BucketOK(b), NEW act, act \in BOOLEAN, act = TRUE => b.act = TRUE
  PROVE  BucketOK(WithAct(b, act)) /\ WithAct(b, act).act = act
         /\ WithAct(b, act).table = b.table /\ WithAct(b, act).s = b.s
<1> DEFINE new == WithAct(b, act)
<1>1. b \in BucketRecord
  BY DEF BucketOK
<1>2. /\ new \in BucketRecord /\ new.act = act /\ new.table = b.table /\ new.s = b.s
      /\ new.pp = b.pp /\ new.pd = b.pd
  BY <1>1 DEF WithAct, BucketRecord
<1> HIDE DEF new
<1>3. BucketOK(new)
  BY <1>2 DEF BucketOK
<1> QED
  BY <1>2, <1>3 DEF new

(* addToBucket. *)
LEMMA AddToBucketInv ==
  ASSUME BucketInv, tx = NoTx, NEW id \in BucketIds, NEW es \in Stocks,
         AddToBucket(id, es)
  PROVE  BucketInv'
<1> DEFINE old == buckets[id]
           tb == AppendBucketEntries(old.table, es)
           us == UnitsByStack(es)
           b == WithTable(old, tb)
           count == EntryCount(old.table) + Len(es)
           e == BucketRestocked(id, old.s, es, count, Total(us))
           st == Plus(stocked[id], us)
<1>1. /\ EntriesStockable(old.table, old.nc, old.s, es)
      /\ old.act = TRUE
  BY DEF AddToBucket, Bucket
<1>2. /\ buckets' = Replaced(buckets, id, b) /\ nextBucketId' = nextBucketId
      /\ stocked' = Replaced(stocked, id, st) /\ books' = Told(books, e)
      /\ UNCHANGED <<marketVars, tx, approved, pool, nft, delivered, unannounced>>
  BY DEF AddToBucket, Log, Replaced, Bucket, WithTable
<1>3. /\ Kept(old, books[id], stocked[id], delivered[id], unannounced[id])
      /\ id < nextBucketId /\ old.s \in Accounts
  BY <1>1, OneBucket, OpenIsListed
<1>4. BucketOK(old) /\ TableOK(old.table) /\ OneEntry(old.table)
  BY <1>3 DEF Kept, BucketOK
<1>5. Stockable(old.table, es) /\ us \in [Stacks -> Nat] /\ Total(us) \in Nat
  BY <1>1, StockableEntries
<1>6. /\ TableOK(tb) /\ OneEntry(tb)
      /\ \A k \in Stacks : tb.units[k] = old.table.units[k] + us[k]
      /\ tb.total = old.table.total + Total(us)
  <2> HIDE DEF old, us
  <2> QED
    BY <1>4, <1>5, AppendOK DEF us
<1>7. BucketOK(b) /\ b.act = old.act /\ b.table = tb
  <2> HIDE DEF old, tb
  <2> QED
    BY <1>4, <1>6, WithTableOK
<1>8. Becomes(books', books, id, books[id].open, Plus(books[id].added, us),
              books[id].drawn, books[id].dropped, books[id].left + Total(us))
  <2>1. /\ e.bucketId = id /\ e.type = "bucket_restocked" /\ e.entries = es
        /\ e.unitsAdded = Total(us)
    BY DEF BucketRestocked
  <2>2. books \in Books
    BY DEF BucketInv, BucketsOK
  <2> HIDE DEF e
  <2>3. UnitsByStack(e.entries) \in [Stacks -> Nat] /\ e.unitsAdded \in Nat
    BY <1>5, <2>1
  <2>4. Becomes(Told(books, e), books, id, books[id].open,
                Plus(books[id].added, UnitsByStack(e.entries)), books[id].drawn,
                books[id].dropped, books[id].left + e.unitsAdded)
    BY <2>1, <2>2, <2>3, ToldRestocked
  <2> QED
    BY <1>2, <2>1, <2>4
<1> HIDE DEF us, tb, b, e, old, st
<1>9. /\ st \in [Stacks -> Nat] /\ \A k \in Stacks : st[k] = stocked[id][k] + us[k]
  <2>1. stocked[id] \in [Stacks -> Nat]
    BY <1>3 DEF Kept
  <2> DEFINE f == stocked[id]
  <2> HIDE DEF f
  <2>2. Plus(f, us) \in [Stacks -> Nat] /\ \A k \in Stacks : Plus(f, us)[k] = f[k] + us[k]
    BY <1>5, <2>1, PlusType DEF f
  <2> QED
    BY <2>2 DEF f, st
<1>10. Kept(b, books'[id], st, delivered[id], unannounced[id])
  <2>1. /\ books' \in Books /\ books'[id].open = books[id].open
        /\ books'[id].added = Plus(books[id].added, us)
        /\ books'[id].drawn = books[id].drawn /\ books'[id].dropped = books[id].dropped
        /\ books'[id].left = books[id].left + Total(us)
    BY <1>8 DEF Becomes
  <2>2. /\ books[id].drawn = delivered[id] /\ books[id].added = stocked[id]
        /\ books[id].open = old.act /\ books[id].left = old.table.total
        /\ delivered[id] \in [Stacks -> Nat] /\ unannounced[id] \in [Stacks -> Nat]
        /\ stocked[id] \in [Stacks -> Nat] /\ books[id] \in Book
    BY <1>3 DEF Kept, Accounted
  <2>3. ASSUME NEW k \in Stacks
        PROVE  st[k] = b.table.units[k] + delivered[id][k] + books'[id].dropped[k]
                         + unannounced[id][k]
    <3> DEFINE u == old.table.units[k]
               d == delivered[id][k]
               p == books[id].dropped[k]
               n == unannounced[id][k]
               s == stocked[id][k]
               a == us[k]
    <3>1. s = u + d + p + n
      BY <1>3 DEF Kept, Accounted
    <3>2. u \in Nat /\ d \in Nat /\ p \in Nat /\ n \in Nat /\ a \in Nat
      <4>1. u \in Nat
        BY <1>4, TableParts DEF TableOK
      <4>2. p \in Nat
        BY <2>2 DEF Book
      <4> QED
        BY <1>5, <2>2, <4>1, <4>2
    <3>3. b.table.units[k] = u + a /\ st[k] = s + a /\ books'[id].dropped[k] = p
      BY <1>6, <1>7, <1>9, <2>1
    <3> HIDE DEF u, d, p, n, s, a
    <3>4. st[k] = b.table.units[k] + d + p + n
      BY <3>1, <3>2, <3>3
    <3> QED
      BY <3>3, <3>4 DEF d, n
  <2>4. books'[id] \in Book
    BY <2>1, BookParts
  <2>5. books'[id].left = b.table.total /\ books'[id].added = st
    BY <1>6, <1>7, <2>1, <2>2 DEF st
  <2>6. Accounted(b, books'[id], st, delivered[id], unannounced[id])
    BY <1>7, <2>1, <2>2, <2>3, <2>5 DEF Accounted
  <2> QED
    BY <1>7, <1>9, <2>2, <2>4, <2>6 DEF Kept
<1>11. BucketsOK(Replaced(buckets, id, b), books', nextBucketId, Replaced(stocked, id, st),
                 Replaced(delivered, id, delivered[id]),
                 Replaced(unannounced, id, unannounced[id]))
  <2>1. BucketsOK(buckets, books, nextBucketId, stocked, delivered, unannounced)
    BY DEF BucketInv
  <2>2. books' \in Books /\ \A other \in BucketIds \ {id} : books'[other] = books[other]
    BY <1>8 DEF Becomes
  <2>3. nextBucketId \in 0 .. MaxBuckets /\ nextBucketId >= nextBucketId /\ id < nextBucketId
    BY <1>3, <2>1, BucketAssumption DEF BucketsOK
  <2> QED
    BY <1>10, <2>1, <2>2, <2>3, OneBucketChanges
<1>12. BucketsOK(buckets', books', nextBucketId', stocked', delivered', unannounced')
  BY <1>2, <1>11, SameHistory
<1> QED
  BY <1>2, <1>12, OnlyBuckets

(* delistBucket. *)
LEMMA DelistBucketInv ==
  ASSUME BucketInv, tx = NoTx, NEW id \in BucketIds, DelistBucket(id)
  PROVE  BucketInv'
<1> DEFINE old == buckets[id]
           no == FALSE
           b == WithAct(old, no)
           e == BucketDelisted(id, old.s)
<1>1. old.act = TRUE
  BY DEF DelistBucket, Bucket
<1>2. /\ buckets' = Replaced(buckets, id, b) /\ nextBucketId' = nextBucketId
      /\ books' = Told(books, e)
      /\ UNCHANGED <<marketVars, tx, approved, pool, nft, stocked, delivered, unannounced>>
  BY DEF DelistBucket, Log, Replaced, Bucket, WithAct, history
<1>3. /\ Kept(old, books[id], stocked[id], delivered[id], unannounced[id])
      /\ id < nextBucketId
  BY <1>1, OneBucket, OpenIsListed
<1>4. BucketOK(b) /\ b.act = no /\ b.table = old.table
  <2>1. BucketOK(old)
    BY <1>3 DEF Kept
  <2>2. no \in BOOLEAN /\ (no = TRUE => old.act = TRUE)
    OBVIOUS
  <2> HIDE DEF old, no
  <2> QED
    BY <2>1, <2>2, WithActOK
<1>5. Becomes(books', books, id, no, books[id].added, books[id].drawn,
              books[id].dropped, books[id].left)
  <2>1. e.bucketId = id /\ e.type \in {"bucket_sold_out", "bucket_delisted"}
    BY DEF BucketDelisted
  <2>2. books \in Books /\ no = FALSE
    BY DEF BucketInv, BucketsOK
  <2> HIDE DEF e, no
  <2> QED
    BY <1>2, <2>1, <2>2, ToldClosed
<1> HIDE DEF no, b, e, old
<1>6. Kept(b, books'[id], stocked[id], delivered[id], unannounced[id])
  <2>1. /\ books' \in Books /\ books'[id].open = no
        /\ books'[id].added = books[id].added /\ books'[id].left = books[id].left
        /\ books'[id].drawn = books[id].drawn /\ books'[id].dropped = books[id].dropped
    BY <1>5 DEF Becomes
  <2>2. books'[id] \in Book
    BY <2>1, BookParts
  <2>3. Accounted(b, books'[id], stocked[id], delivered[id], unannounced[id])
    BY <1>3, <1>4, <2>1 DEF Kept, Accounted
  <2> QED
    BY <1>3, <1>4, <2>2, <2>3 DEF Kept
<1>7. BucketsOK(Replaced(buckets, id, b), books', nextBucketId,
                Replaced(stocked, id, stocked[id]), Replaced(delivered, id, delivered[id]),
                Replaced(unannounced, id, unannounced[id]))
  <2>1. BucketsOK(buckets, books, nextBucketId, stocked, delivered, unannounced)
    BY DEF BucketInv
  <2>2. books' \in Books /\ \A other \in BucketIds \ {id} : books'[other] = books[other]
    BY <1>5 DEF Becomes
  <2>3. nextBucketId \in 0 .. MaxBuckets /\ nextBucketId >= nextBucketId /\ id < nextBucketId
    BY <1>3, <2>1, BucketAssumption DEF BucketsOK
  <2> QED
    BY <1>6, <2>1, <2>2, <2>3, OneBucketChanges
<1>8. BucketsOK(buckets', books', nextBucketId', stocked', delivered', unannounced')
  BY <1>2, <1>7, SameHistory
<1> QED
  BY <1>2, <1>8, OnlyBuckets

(* A purchase that begins. *)
NewTx(x, id, mode, price, plan, tries, tb, bks) ==
  [on |-> TRUE, buyer |-> x, id |-> id, mode |-> mode, price |-> price,
   plan |-> plan, drawn |-> <<>>, tries |-> tries, table |-> tb, checked |-> {},
   books |-> bks, unannounced |-> NoUnits]

LEMMA NewTxOK ==
  ASSUME NEW x \in Accounts, NEW id \in BucketIds, NEW mode \in Modes, NEW price \in Nat,
         NEW plan \in Seq(Stacks), Len(plan) >= 1, NEW tries \in Nat,
         NEW b, BucketOK(b), b.act = TRUE, NEW bks \in Books, NEW n
  PROVE  TxOK(NewTx(x, id, mode, price, plan, tries, b.table, bks), b, bks, n)
<1> DEFINE tb == b.table
           t == NewTx(x, id, mode, price, plan, tries, tb, bks)
<1>1. tb \in Table /\ TableOK(tb) /\ OneEntry(tb)
  BY DEF BucketOK, TableOK
<1>2. /\ t.id = id /\ t.plan = plan /\ t.drawn = <<>> /\ t.table = tb
      /\ t.checked = {} /\ t.books = bks /\ t.unannounced = NoUnits
  BY DEF NewTx
<1>3. t \in TxRecord
  <2>1. NoUnits \in [Stacks -> Nat] /\ <<>> \in Seq(Drawn)
    BY DEF NoUnits
  <2> HIDE DEF tb
  <2> QED
    BY <1>1, <2>1 DEF NewTx, TxRecord
<1> HIDE DEF t, tb
<1>4. Held(t.table, t.checked, t.drawn, n, b.s)
  BY <1>2, NothingDrawn DEF Held
<1>5. ASSUME NEW k \in Stacks
      PROVE  bks[id].dropped[k] + tb.units[k]
               = tb.units[k] + DrawnStack(<<>>, k) + bks[id].dropped[k] + NoUnits[k]
  <2> DEFINE d == bks[id].dropped[k]
             u == tb.units[k]
  <2>1. d \in Nat
    BY BookParts
  <2>2. u \in Nat
    BY <1>1, TableParts
  <2>3. DrawnStack(<<>>, k) = 0 /\ NoUnits[k] = 0
    BY NothingDrawn DEF NoUnits
  <2> HIDE DEF d, u
  <2>4. d + u = u + 0 + d + 0
    BY <2>1, <2>2
  <2> QED
    BY <2>3, <2>4 DEF d, u
<1>6. Tally(t, b, bks)
  BY <1>2, <1>5 DEF Tally, tb
<1>7. TxOK(t, b, bks, n)
  BY <1>1, <1>2, <1>3, <1>4, <1>6 DEF TxOK
<1> QED
  BY <1>7 DEF t, tb

(* The checks of buyFromBucket. *)
LEMMA BeginPurchaseInv ==
  ASSUME BucketInv, tx = NoTx, NEW x \in Accounts, NEW id \in BucketIds,
         NEW mode \in Modes, NEW quantity \in Quantities,
         BeginPurchase(x, id, mode, quantity)
  PROVE  BucketInv'
<1> DEFINE b == buckets[id]
           plan == Plan(b, mode, quantity)
           price == UnitPrice(b, mode) * quantity
           tries == TriesFor(b.table, plan[1])
<1>1. Bucket(id) = b
  BY DEF Bucket
<1>2. /\ b.act = TRUE /\ quantity > 0 /\ UnitPrice(b, mode) > 0
      /\ tx' = NewTx(x, id, mode, price, plan, tries, b.table, books)
      /\ UNCHANGED <<marketVars, buckets, nextBucketId, approved, pool, nft, history, books>>
  BY <1>1 DEF BeginPurchase, NewTx
<1>3. BucketOK(b) /\ quantity \in Nat /\ books \in Books
  BY OneBucket, BucketAssumption DEF Kept, BucketInv, BucketsOK
<1>4. b \in BucketRecord /\ TableOK(b.table) /\ PackOK(b.pp, b.pd)
  BY <1>3 DEF BucketOK
<1>5. b.pd \in Seq(Nat) /\ UnitPrice(b, mode) \in Nat /\ b.table \in Table
  BY <1>4 DEF BucketRecord, UnitPrice
<1>6. plan \in Seq(Stacks) /\ Len(plan) >= 1
  <2> HIDE DEF b
  <2> QED
    BY <1>2, <1>3, <1>4, <1>5, PlanType
<1>7. price \in Nat
  BY <1>3, <1>5
<1>8. tries \in Nat
  <2>1. plan[1] \in Stacks
    <3> HIDE DEF plan
    <3> QED
      BY <1>6
  <2> QED
    BY <1>5, <2>1, TriesType
<1> HIDE DEF plan, price, tries
<1>9. TxOK(NewTx(x, id, mode, price, plan, tries, b.table, books), b, books, nft)
  <2> HIDE DEF b
  <2> QED
    BY <1>2, <1>3, <1>6, <1>7, <1>8, NewTxOK
<1>10. TxOK(tx', b, books, nft) /\ tx'.id = id
  BY <1>2, <1>9 DEF NewTx
<1>11. TxOK(tx', Bucket(tx.id)', books', nft')
  <2>1. Bucket(tx.id)' = b
    BY <1>2, <1>10 DEF Bucket
  <2> QED
    BY <1>2, <1>10, <2>1
<1>12. MarketInv'
  BY <1>2, UnchangedMarketInv DEF BucketInv
<1>13. BucketsOK(buckets', books', nextBucketId', stocked', delivered', unannounced')
  BY <1>2 DEF BucketInv, history
<1> QED
  BY <1>2, <1>11, <1>12, <1>13 DEF BucketInv

(* drawOne. *)
LEMMA DrawOneInv ==
  ASSUME BucketInv, DrawOne
  PROVE  BucketInv'
<1>1. tx.on
  BY DEF DrawOne, Drawing
<1>2. TxOK(tx, Bucket(tx.id), books, nft)
  BY <1>1 DEF BucketInv, NoTx
<1>3. UNCHANGED <<marketVars, buckets, nextBucketId, approved, pool, nft, history, books>>
  BY DEF DrawOne
<1>4. tx.id \in BucketIds /\ buckets[tx.id].act = TRUE
  BY <1>2 DEF TxOK, TxRecord, Bucket
<1>5. Bucket(tx.id).s \in Accounts
  BY <1>4, OpenIsListed DEF Bucket
<1>6. TxOK(tx', Bucket(tx.id), books, nft) /\ tx'.id = tx.id
  <2>1. nft \in [Items -> [Holders -> Nat]] /\ books \in Books
    BY DEF BucketInv, BucketsOK
  <2> QED
    BY <1>2, <1>5, <2>1, DrawOneKeeps
<1>7. TxOK(tx', Bucket(tx.id)', books', nft')
  <2>1. Bucket(tx.id)' = Bucket(tx.id)
    BY <1>3, <1>6 DEF Bucket
  <2> QED
    BY <1>3, <1>6, <2>1
<1>8. MarketInv'
  BY <1>3, UnchangedMarketInv DEF BucketInv
<1>9. BucketsOK(buckets', books', nextBucketId', stocked', delivered', unannounced')
  BY <1>3 DEF BucketInv, history
<1> QED
  BY <1>3, <1>7, <1>8, <1>9 DEF BucketInv

(* A purchase that is given up. *)
LEMMA AbortPurchaseInv ==
  ASSUME BucketInv, AbortPurchase
  PROVE  BucketInv'
<1>1. tx' = NoTx
      /\ UNCHANGED <<marketVars, buckets, nextBucketId, approved, pool, nft, history, books>>
  BY DEF AbortPurchase
<1>2. MarketInv'
  BY <1>1, UnchangedMarketInv DEF BucketInv
<1>3. BucketsOK(buckets', books', nextBucketId', stocked', delivered', unannounced')
  BY <1>1 DEF BucketInv, history
<1> QED
  BY <1>1, <1>2, <1>3 DEF BucketInv

(* Approvals, and trade without the market. *)
LEMMA OutsideInv ==
  ASSUME BucketInv, tx = NoTx,
         \/ \E ix \in Allowances : SetApproval(ix[1], ix[2])
         \/ \E ixy \in OutsideTrades : TransferOutside(ixy[1], ixy[2], ixy[3])
  PROVE  BucketInv'
<1>1. UNCHANGED <<marketVars, buckets, nextBucketId, tx, pool, history, books>>
  BY DEF SetApproval, TransferOutside
<1>2. MarketInv'
  BY <1>1, UnchangedMarketInv DEF BucketInv
<1>3. BucketsOK(buckets', books', nextBucketId', stocked', delivered', unannounced')
  BY <1>1 DEF BucketInv, history
<1>4. nft \in [Items -> [Holders -> Nat]] /\ approved \subseteq Items \X Accounts
  BY DEF BucketInv
<1>5. nft' \in [Items -> [Holders -> Nat]] /\ approved' \subseteq Items \X Accounts
  <2>1. ASSUME NEW ix \in Allowances, SetApproval(ix[1], ix[2])
        PROVE  nft' = nft /\ approved' \subseteq Items \X Accounts
    BY <1>4, <2>1, ApprovalAssumption DEF SetApproval, FlipApproval
  <2>2. ASSUME NEW ixy \in OutsideTrades, TransferOutside(ixy[1], ixy[2], ixy[3])
        PROVE  nft' \in [Items -> [Holders -> Nat]] /\ approved' = approved
    <3>1. ixy[1] \in Items /\ ixy[2] \in Holders /\ ixy[3] \in Holders
      BY CustodyAssumption DEF Holders
    <3>2. PICK n \in LotSizes :
            CanMove(ixy[1], ixy[2], n) /\ nft' = Move(ixy[1], ixy[2], ixy[3], n)
      BY <2>2 DEF TransferOutside
    <3>3. n \in Nat /\ ixy[2] # ixy[3] /\ approved' = approved
      BY <2>2, CustodyAssumption DEF TransferOutside
    <3> QED
      BY <1>4, <3>1, <3>2, <3>3, MoveBalances
  <2> QED
    BY <1>4, <2>1, <2>2
<1> QED
  BY <1>1, <1>2, <1>3, <1>5 DEF BucketInv

(* The clock and the settings. *)
LEMMA EnvironmentInv ==
  ASSUME BucketInv, tx = NoTx, Environment
  PROVE  BucketInv'
<1>1. UNCHANGED <<buckets, nextBucketId, tx, approved, pool, nft, history, books>>
  BY DEF Environment, bucketVars
<1>2. MarketInv'
  BY TickInv, ConfigureInv DEF Environment, BucketInv
<1>3. BucketsOK(buckets', books', nextBucketId', stocked', delivered', unannounced')
  BY <1>1 DEF BucketInv, history
<1> QED
  BY <1>1, <1>2, <1>3 DEF BucketInv

(* One seller hands over units. *)
FromSeller(s, d) == [is \in Items \X Accounts |-> IF is[2] = s THEN d[is[1]] ELSE 0]

LEMMA OneSeller ==
  ASSUME nft \in [Items -> [Holders -> Nat]], approved \subseteq Items \X Accounts,
         NEW x, NEW s, s \in Accounts, NEW d \in [Items -> Nat],
         HandOver(x, FromSeller(s, d))
  PROVE  /\ nft' \in [Items -> [Holders -> Nat]]
         /\ approved' \subseteq Items \X Accounts
<1> DEFINE units == FromSeller(s, d)
           arriving(i) == Total([a \in Accounts |-> units[<<i, a>>]])
           after(i, y) == IF y = x THEN nft[i][y] + arriving(i)
                          ELSE IF y = Market THEN nft[i][y]
                          ELSE nft[i][y] - units[<<i, y>>]
<1>1. nft' = [i \in Items |-> [y \in Holders |-> after(i, y)]]
  BY DEF HandOver
<1>2. approved' \subseteq Items \X Accounts
  BY DEF HandOver
<1>3. \A i \in Items, a \in Accounts : units[<<i, a>>] = IF a = s THEN d[i] ELSE 0
  BY DEF FromSeller
<1>4. \A is \in Items \X Accounts : units[is] > 0 => CanOffer(is[2], is[1], units[is])
  BY DEF HandOver
<1> HIDE DEF units
<1>5. ASSUME NEW i \in Items
      PROVE  arriving(i) \in Nat
  <2> DEFINE f == [a \in Accounts |-> units[<<i, a>>]]
  <2>1. f \in [Accounts -> Nat] /\ f[s] = d[i] /\ \A a \in Accounts \ {s} : f[a] = 0
    BY <1>3
  <2> HIDE DEF f
  <2>2. Total(f) = f[s]
    BY <2>1, TotalSingle
  <2> QED
    BY <2>1, <2>2 DEF f
<1>6. ASSUME NEW i \in Items, NEW y \in Accounts
      PROVE  nft[i][y] - units[<<i, y>>] \in Nat
  <2>1. nft[i][y] \in Nat /\ units[<<i, y>>] \in Nat
    BY <1>3 DEF Holders
  <2>2. CASE units[<<i, y>>] > 0
    <3>1. CanOffer(y, i, units[<<i, y>>])
      BY <1>4, <2>2
    <3> QED
      BY <2>1, <3>1 DEF CanOffer, CanMove
  <2>3. CASE ~(units[<<i, y>>] > 0)
    BY <2>1, <2>3
  <2> QED
    BY <2>2, <2>3
<1>7. ASSUME NEW i \in Items, NEW y \in Holders
      PROVE  after(i, y) \in Nat
  <2>1. nft[i][y] \in Nat
    OBVIOUS
  <2>2. arriving(i) \in Nat
    BY <1>5
  <2>3. y \in Accounts => nft[i][y] - units[<<i, y>>] \in Nat
    BY <1>6
  <2> HIDE DEF arriving
  <2> QED
    BY <2>1, <2>2, <2>3 DEF Holders
<1> HIDE DEF after
<1>8. nft' \in [Items -> [Holders -> Nat]]
  BY <1>1, <1>7
<1> QED
  BY <1>2, <1>8

(* What was drawn from every stack. *)
FromStacks(list) == [k \in Stacks |-> DrawnStack(list, k)]

(* The counters and the books after a purchase. *)
LEMMA FinishKeeps ==
  ASSUME NEW t, NEW b, NEW bks \in Books, NEW n, TxOK(t, b, bks, n),
         NEW new, PurchaseTells(new, t), NEW st, NEW dl, NEW un,
         Kept(b, bks[t.id], st, dl, un), NEW a, a = (t.table.total # 0)
  PROVE  /\ Kept(WithAct(WithTable(b, t.table), a), new[t.id], st,
                 Plus(dl, FromStacks(t.drawn)), Plus(un, t.unannounced))
         /\ new \in Books
         /\ \A other \in BucketIds \ {t.id} : new[other] = bks[other]
<1> DEFINE b1 == WithTable(b, t.table)
           b2 == WithAct(b1, a)
           from == FromStacks(t.drawn)
           told == new[t.id]
           dl2 == Plus(dl, from)
           un2 == Plus(un, t.unannounced)
<1>1. /\ t \in TxRecord /\ TableOK(t.table) /\ OneEntry(t.table) /\ b.act = TRUE
      /\ Tally(t, b, bks)
  BY DEF TxOK
<1>2. /\ t.id \in BucketIds /\ t.drawn \in Seq(Drawn) /\ t.books \in Books
      /\ t.unannounced \in [Stacks -> Nat] /\ t.table \in Table
  BY <1>1 DEF TxRecord
<1>3. /\ BucketOK(b) /\ Accounted(b, bks[t.id], st, dl, un)
      /\ st \in [Stacks -> Nat] /\ dl \in [Stacks -> Nat] /\ un \in [Stacks -> Nat]
  BY DEF Kept
<1>4. BucketOK(b1) /\ b1.act = TRUE /\ b1.table = t.table
  BY <1>1, <1>3, WithTableOK
<1>5. BucketOK(b2) /\ b2.act = a /\ b2.table = t.table
  <2>1. a \in BOOLEAN /\ (a = TRUE => b1.act = TRUE)
    BY <1>4
  <2> HIDE DEF b1
  <2> QED
    BY <1>4, <2>1, WithActOK
<1> HIDE DEF b1, b2
<1>6. from \in [Stacks -> Nat]
  BY <1>2, DrawnType DEF FromStacks
<1> HIDE DEF from
<1>7. dl2 \in [Stacks -> Nat] /\ un2 \in [Stacks -> Nat]
  BY <1>2, <1>3, <1>6, PlusType
<1>8. new \in Books /\ told \in Book
  BY <1>2, BookParts DEF PurchaseTells
<1>9. told.open = a
  <2>1. CASE t.table.total = 0
    <3>1. told.open = FALSE
      BY <2>1 DEF PurchaseTells
    <3> QED
      BY <2>1, <3>1
  <2>2. CASE t.table.total # 0
    <3>1. told.open = t.books[t.id].open /\ t.books[t.id].open = bks[t.id].open
          /\ bks[t.id].open = b.act
      BY <1>1, <1>3, <2>2 DEF PurchaseTells, Tally, Accounted
    <3> QED
      BY <1>1, <2>2, <3>1
  <2> QED
    BY <2>1, <2>2
<1>10. told.added = st /\ told.left = t.table.total
  BY <1>1, <1>3 DEF PurchaseTells, Tally, Accounted
<1>11. told.drawn = dl2
  <2>1. \A k \in Stacks : told.drawn[k] = dl[k] + from[k]
    BY <1>1, <1>3 DEF PurchaseTells, Tally, Accounted, from, FromStacks
  <2>2. told.drawn \in [Stacks -> Nat]
    BY <1>2, <1>8, BookParts
  <2> DEFINE f == told.drawn
  <2> HIDE DEF f
  <2>3. f = [k \in Stacks |-> dl[k] + from[k]]
    BY <2>1, <2>2 DEF f
  <2> QED
    BY <2>3 DEF f, Plus
<1>12. ASSUME NEW k \in Stacks
       PROVE  st[k] = t.table.units[k] + dl2[k] + told.dropped[k] + un2[k]
  <2> DEFINE s == st[k]
             u == b.table.units[k]
             d == dl[k]
             p == bks[t.id].dropped[k]
             m == un[k]
             tu == t.table.units[k]
             tp == t.books[t.id].dropped[k]
             tm == t.unannounced[k]
             r == DrawnStack(t.drawn, k)
  <2>1. s = u + d + p + m
    BY <1>3 DEF Accounted
  <2>2. p + u = tu + r + tp + tm
    BY <1>1 DEF Tally
  <2>3. u \in Nat /\ tu \in Nat
    <3>1. b.table \in Table
      BY <1>3 DEF BucketOK, TableOK
    <3> QED
      BY <1>2, <3>1, TableParts
  <2>4. d \in Nat /\ m \in Nat /\ tm \in Nat
    BY <1>2, <1>3
  <2>5. p \in Nat /\ tp \in Nat
    BY <1>2, BookParts
  <2>6. r \in Nat
    BY <1>2, DrawnType
  <2>7. dl2[k] = d + r /\ un2[k] = m + tm
    BY DEF Plus, from, FromStacks
  <2>8. told.dropped[k] = tp
    BY DEF PurchaseTells
  <2> HIDE DEF s, u, d, p, m, tu, tp, tm, r
  <2>9. s = tu + (d + r) + tp + (m + tm)
    BY <2>1, <2>2, <2>3, <2>4, <2>5, <2>6
  <2> QED
    BY <2>7, <2>8, <2>9 DEF s, tu
<1>13. Accounted(b2, told, st, dl2, un2)
  BY <1>5, <1>9, <1>10, <1>11, <1>12 DEF Accounted
<1>14. \A other \in BucketIds \ {t.id} : new[other] = bks[other]
  BY <1>1 DEF PurchaseTells, Tally
<1> HIDE DEF dl2, un2, told
<1>15. Kept(b2, told, st, dl2, un2)
  BY <1>3, <1>5, <1>7, <1>8, <1>13 DEF Kept
<1> QED
  BY <1>8, <1>14, <1>15 DEF b1, b2, told, dl2, un2, from

(* The stored counters are written. *)
LEMMA FlushReplaces ==
  ASSUME BucketInv, NEW id \in BucketIds, NEW tb, NEW a
  PROVE  [buckets EXCEPT ![id].table = tb, ![id].act = a]
           = Replaced(buckets, id, WithAct(WithTable(buckets[id], tb), a))
<1>1. buckets = [x \in BucketIds |-> buckets[x]] /\ DOMAIN buckets = BucketIds
  BY DEF BucketInv, BucketsOK
<1> QED
  BY <1>1 DEF Replaced, WithAct, WithTable

(* Payment, delivery and payout. *)
LEMMA FinishPurchaseInv ==
  ASSUME BucketInv, tx.on, NEW arrived \in 0 .. tx.price, FinishPurchase(arrived)
  PROVE  BucketInv'
<1> DEFINE id == tx.id
           b == buckets[id]
           a == (tx.table.total # 0)
           credited == EscrowIn(b.pt, tx.price, arrived)
           from == FromStacks(tx.drawn)
           b2 == WithAct(WithTable(b, tx.table), a)
           dl2 == Plus(delivered[id], from)
           un2 == Plus(unannounced[id], tx.unannounced)
<1>1. TxOK(tx, b, books, nft)
  BY DEF BucketInv, NoTx, Bucket
<1>2. tx \in TxRecord /\ b.act = TRUE
  BY <1>1 DEF TxOK
<1>3. id \in BucketIds /\ tx.price \in Nat /\ tx.drawn \in Seq(Drawn) /\ tx.buyer \in Accounts
  BY <1>2 DEF TxRecord
<1>4. Bucket(id) = b
  BY DEF Bucket
<1>5. /\ Kept(b, books[id], stocked[id], delivered[id], unannounced[id])
      /\ id < nextBucketId /\ b.s \in Accounts
  BY <1>2, <1>3, OneBucket, OpenIsListed
<1>6. b.pt \in Tokens
  <2>1. b \in BucketRecord
    BY <1>5 DEF Kept, BucketOK
  <2> QED
    BY <2>1 DEF BucketRecord
<1>7. /\ buckets' = Flush
      /\ HandOver(tx.buyer, [is \in Items \X Accounts |->
                               IF is[2] = b.s THEN DrawnOf(is[1]) ELSE 0])
      /\ pool[b.pt] + arrived >= credited
      /\ pool' = [pool EXCEPT ![b.pt] = @ + arrived - credited]
      /\ delivered' = [delivered EXCEPT ![id] = Plus(@, DrawnFrom)]
      /\ unannounced' = [unannounced EXCEPT ![id] = Plus(@, tx.unannounced)]
      /\ books' = ToldAll(tx.books, PurchaseEvents(credited))
      /\ tx' = NoTx
      /\ UNCHANGED <<marketVars, nextBucketId, stocked>>
  BY <1>4 DEF FinishPurchase, ToldAll
<1>8. MarketInv'
  BY <1>7, UnchangedMarketInv DEF BucketInv
<1>9. nft' \in [Items -> [Holders -> Nat]] /\ approved' \subseteq Items \X Accounts
  <2> DEFINE d == [i \in Items |-> DrawnItems(tx.drawn, i)]
             s == b.s
  <2>1. d \in [Items -> Nat]
    BY <1>3, DrawnType
  <2>2. FromSeller(s, d)
          = [is \in Items \X Accounts |-> IF is[2] = s THEN DrawnOf(is[1]) ELSE 0]
    BY DEF FromSeller, DrawnOf, DrawnItems
  <2>3. HandOver(tx.buyer, FromSeller(s, d))
    BY <1>7, <2>2
  <2>4. nft \in [Items -> [Holders -> Nat]] /\ approved \subseteq Items \X Accounts
    BY DEF BucketInv
  <2>5. s \in Accounts
    BY <1>5
  <2> HIDE DEF s, d
  <2> QED
    BY <2>1, <2>3, <2>4, <2>5, OneSeller
<1>10. pool' \in [Tokens -> Nat]
  <2>1. pool \in [Tokens -> Nat] /\ arrived \in Nat
    BY <1>3 DEF BucketInv
  <2>2. credited \in Nat
    BY <1>3, <2>1 DEF EscrowIn
  <2> DEFINE p == pool[b.pt]
             t == b.pt
  <2>3. p \in Nat /\ p + arrived >= credited
    BY <1>6, <1>7, <2>1
  <2> HIDE DEF p, credited
  <2>4. p + arrived - credited \in Nat
    BY <2>1, <2>2, <2>3
  <2>5. pool' = [pool EXCEPT ![t] = p + arrived - credited] /\ t \in Tokens
    BY <1>6, <1>7 DEF p
  <2> HIDE DEF t
  <2> QED
    BY <2>1, <2>4, <2>5
<1>11. buckets' = Replaced(buckets, id, b2)
  <2> DEFINE tb == tx.table
  <2>1. Flush = [buckets EXCEPT ![id].table = tb, ![id].act = a]
    BY DEF Flush
  <2> HIDE DEF tb, a, id
  <2>2. Flush = Replaced(buckets, id, WithAct(WithTable(buckets[id], tb), a))
    BY <1>3, <2>1, FlushReplaces
  <2> QED
    BY <1>7, <2>2 DEF tb
<1>12. delivered' = Replaced(delivered, id, dl2) /\ unannounced' = Replaced(unannounced, id, un2)
       /\ stocked' = Replaced(stocked, id, stocked[id])
  <2>1. DrawnFrom = from
    BY DEF DrawnFrom, FromStacks, DrawnStack
  <2> HIDE DEF id, from
  <2>2. delivered' = Replaced(delivered, id, dl2)
    BY <1>7, <2>1 DEF Replaced
  <2>3. unannounced' = Replaced(unannounced, id, un2)
    BY <1>7 DEF Replaced
  <2> QED
    BY <1>3, <1>7, <2>2, <2>3, SameHistory
<1>13. PurchaseTells(books', tx)
  <2>1. PurchaseLog(PurchaseEvents(credited), tx)
    BY <1>2, PurchaseIsLogged
  <2> HIDE DEF credited
  <2> QED
    BY <1>2, <1>7, <2>1, PurchaseTold
<1>14. /\ Kept(b2, books'[id], stocked[id], dl2, un2)
       /\ books' \in Books
       /\ \A other \in BucketIds \ {id} : books'[other] = books[other]
  <2> DEFINE new == books'
             st == stocked[id]
             dl == delivered[id]
             un == unannounced[id]
  <2>1. books \in Books /\ a = (tx.table.total # 0) /\ PurchaseTells(new, tx)
        /\ TxOK(tx, b, books, nft) /\ Kept(b, books[tx.id], st, dl, un)
    BY <1>1, <1>5, <1>13 DEF BucketInv, BucketsOK
  <2> HIDE DEF new, st, dl, un, a, b
  <2>2. /\ Kept(WithAct(WithTable(b, tx.table), a), new[tx.id], st,
                Plus(dl, FromStacks(tx.drawn)), Plus(un, tx.unannounced))
        /\ new \in Books
        /\ \A other \in BucketIds \ {tx.id} : new[other] = books[other]
    BY <2>1, FinishKeeps
  <2> QED
    BY <2>2 DEF new, st, dl, un
<1> HIDE DEF b2, dl2, un2
<1>15. BucketsOK(Replaced(buckets, id, b2), books', nextBucketId,
                 Replaced(stocked, id, stocked[id]), Replaced(delivered, id, dl2),
                 Replaced(unannounced, id, un2))
  <2>1. BucketsOK(buckets, books, nextBucketId, stocked, delivered, unannounced)
    BY DEF BucketInv
  <2>2. nextBucketId \in 0 .. MaxBuckets /\ nextBucketId >= nextBucketId /\ id < nextBucketId
    BY <1>5, <2>1, BucketAssumption DEF BucketsOK
  <2> HIDE DEF id
  <2> QED
    BY <1>3, <1>14, <2>1, <2>2, OneBucketChanges
<1>16. BucketsOK(buckets', books', nextBucketId', stocked', delivered', unannounced')
  BY <1>7, <1>11, <1>12, <1>15
<1> QED
  BY <1>7, <1>8, <1>9, <1>10, <1>16 DEF BucketInv

-----------------------------------------------------------------------------
(* The first state.                                                        *)

(* A bucket that has not been listed. *)
LEMMA NoBucketIsEmpty == BucketOK(NoBucket) /\ NoBucket.act = FALSE
                         /\ NoBucket.table = EmptyTable
<1> DEFINE c == CHOOSE c \in Collections : TRUE
           t == CHOOSE t \in Tokens : TRUE
<1>1. c \in Collections
  <2>1. PICK i \in Items : TRUE
    BY CustodyAssumption
  <2>2. CollectionOf[i] \in Collections
    BY CustodyAssumption
  <2> QED
    BY <2>2
<1>2. t \in Tokens
  BY CustodyAssumption
<1>3. TableOK(EmptyTable) /\ OneEntry(EmptyTable) /\ EmptyTable \in Table
  BY EmptyTableOK DEF TableOK, OneEntry
<1>4. NoBucket = [s |-> NoAccount, nc |-> c, pt |-> t, p1 |-> 0, pp |-> 0, pd |-> <<>>,
                  act |-> FALSE, exp |-> 0, fb |-> 0, rs |-> <<>>, table |-> EmptyTable]
  BY DEF NoBucket
<1> HIDE DEF c, t
<1>5. NoBucket \in BucketRecord
  BY <1>1, <1>2, <1>3, <1>4 DEF BucketRecord
<1>6. /\ NoBucket.act = FALSE /\ NoBucket.table = EmptyTable /\ NoBucket.pp = 0
  BY <1>4
<1>7. PackOK(NoBucket.pp, NoBucket.pd)
  BY <1>6 DEF PackOK
<1> QED
  BY <1>3, <1>5, <1>6, <1>7 DEF BucketOK

LEMMA BucketInvInit == Init => BucketInv
<1> SUFFICES ASSUME Init
             PROVE  BucketInv
  OBVIOUS
<1>1. MarketInv
  BY MarketInitInv DEF Init
<1>2. approved \subseteq Items \X Accounts /\ pool \in [Tokens -> Nat] /\ tx = NoTx
  BY DEF Init, ApprovalInit
<1>3. nft \in [Items -> [Holders -> Nat]]
  BY CustodyAssumption DEF Init, Holders
<1>4. NoUnits \in [Stacks -> Nat] /\ \A k \in Stacks : NoUnits[k] = 0
  BY DEF NoUnits
<1>5. NoEntry \in Book /\ NoEntry.open = FALSE /\ NoEntry.added = NoUnits
      /\ NoEntry.drawn = NoUnits /\ NoEntry.dropped = NoUnits /\ NoEntry.left = 0
  BY <1>4 DEF NoEntry, Book
<1>6. EmptyTable.total = 0 /\ \A k \in Stacks : EmptyTable.units[k] = 0
  BY DEF EmptyTable
<1>7. Kept(NoBucket, NoEntry, NoUnits, NoUnits, NoUnits)
  <2>1. NoEntry.open = NoBucket.act
    BY <1>5, NoBucketIsEmpty
  <2>2. ASSUME NEW k \in Stacks
        PROVE  NoUnits[k] = NoBucket.table.units[k] + NoUnits[k] + NoEntry.dropped[k]
                              + NoUnits[k]
    <3>1. NoBucket.table.units[k] = 0 /\ NoEntry.dropped[k] = 0 /\ NoUnits[k] = 0
      BY <1>4, <1>5, <1>6, NoBucketIsEmpty
    <3> QED
      BY <3>1
  <2>3. NoEntry.left = NoBucket.table.total
    BY <1>5, <1>6, NoBucketIsEmpty
  <2>4. Accounted(NoBucket, NoEntry, NoUnits, NoUnits, NoUnits)
    BY <1>5, <2>1, <2>2, <2>3 DEF Accounted
  <2> QED
    BY <1>4, <1>5, <2>4, NoBucketIsEmpty DEF Kept
<1>8. Unlisted(NoBucket, NoUnits)
  BY NoBucketIsEmpty DEF Unlisted
<1>9. /\ buckets = [id \in BucketIds |-> NoBucket] /\ books = [id \in BucketIds |-> NoEntry]
      /\ nextBucketId = 0 /\ stocked = NothingYet /\ delivered = NothingYet
      /\ unannounced = NothingYet
  BY DEF Init
<1>10. NothingYet \in [BucketIds -> [Stacks -> Nat]] /\ \A id \in BucketIds : NothingYet[id] = NoUnits
  BY <1>4 DEF NothingYet
<1>11. books \in Books /\ nextBucketId \in 0 .. MaxBuckets
  BY <1>5, <1>9, BucketAssumption DEF Books
<1>12. BucketsOK(buckets, books, nextBucketId, stocked, delivered, unannounced)
  BY <1>7, <1>8, <1>9, <1>10, <1>11 DEF BucketsOK
<1> QED
  BY <1>1, <1>2, <1>3, <1>12 DEF BucketInv

-----------------------------------------------------------------------------
(* Every step. *)
LEMMA BucketInvStep == BucketInv /\ [Next]_vars => BucketInv'
<1> SUFFICES ASSUME BucketInv, [Next]_vars
             PROVE  BucketInv'
  OBVIOUS
<1>1. CASE ~tx.on /\ NextTransaction
  <2>1. tx = NoTx
    <3>1. tx \in TxRecord => tx.on = TRUE
      BY DEF TxRecord
    <3> QED
      BY <1>1, <3>1 DEF BucketInv, TxOK
  <2>2. CASE Environment
    BY <2>1, <2>2, EnvironmentInv
  <2>3. CASE \E s \in Accounts, nc \in Collections, t \in Tokens, p1 \in SinglePrices,
                pack \in PackOffers, exp \in Expirations, entries \in Stocks :
               ListBucket(s, nc, t, p1, pack, exp, entries)
    BY <2>1, <2>3, ListBucketInv
  <2>4. CASE \E id \in BucketIds, entries \in Stocks : AddToBucket(id, entries)
    BY <2>1, <2>4, AddToBucketInv
  <2>5. CASE \E id \in BucketIds : DelistBucket(id)
    BY <2>1, <2>5, DelistBucketInv
  <2>6. CASE \E x \in Accounts, id \in BucketIds, mode \in Modes, q \in Quantities :
               BeginPurchase(x, id, mode, q)
    BY <2>1, <2>6, BeginPurchaseInv
  <2>7. CASE \/ \E ix \in Allowances : SetApproval(ix[1], ix[2])
             \/ \E ixy \in OutsideTrades : TransferOutside(ixy[1], ixy[2], ixy[3])
    BY <2>1, <2>7, OutsideInv
  <2> QED
    BY <1>1, <2>2, <2>3, <2>4, <2>5, <2>6, <2>7 DEF NextTransaction
<1>2. CASE DrawOne
  BY <1>2, DrawOneInv
<1>3. CASE tx.on /\ \E arrived \in 0 .. tx.price : FinishPurchase(arrived)
  BY <1>3, FinishPurchaseInv
<1>4. CASE AbortPurchase
  BY <1>4, AbortPurchaseInv
<1>5. CASE UNCHANGED vars
  <2>1. UNCHANGED <<marketVars, buckets, nextBucketId, tx, approved, pool, nft,
                    stocked, delivered, unannounced, books>>
    BY <1>5 DEF vars, bucketVars, history
  <2>2. MarketInv'
    BY <2>1, UnchangedMarketInv DEF BucketInv
  <2>3. BucketsOK(buckets', books', nextBucketId', stocked', delivered', unannounced')
    BY <2>1 DEF BucketInv
  <2>4. (tx = NoTx \/ TxOK(tx, Bucket(tx.id), books, nft))'
    BY <2>1 DEF BucketInv, Bucket
  <2> QED
    BY <2>1, <2>2, <2>3, <2>4 DEF BucketInv
<1> QED
  BY <1>1, <1>2, <1>3, <1>4, <1>5 DEF Next

(* The counters, the books and the purchase under way stay in order,       *)
(* whatever is called, drawn, dropped or given up in whatever order.       *)
THEOREM BucketInvariant == Spec => []BucketInv
<1>1. Init => BucketInv
  BY BucketInvInit
<1>2. BucketInv /\ [Next]_vars => BucketInv'
  BY BucketInvStep
<1> QED
  BY <1>1, <1>2, PTL DEF Spec

-----------------------------------------------------------------------------
(* What the invariant says of the properties that the runs check.          *)

(* What is known during a purchase. *)
LEMMA DuringPurchase ==
  ASSUME BucketInv, tx.on
  PROVE  /\ tx \in TxRecord /\ TableOK(tx.table)
         /\ Held(tx.table, tx.checked, tx.drawn, nft, Bucket(tx.id).s)
         /\ Bucket(tx.id).s \in Accounts
<1>1. TxOK(tx, Bucket(tx.id), books, nft)
  BY DEF BucketInv, NoTx
<1>2. tx \in TxRecord /\ Bucket(tx.id).act = TRUE
  BY <1>1 DEF TxOK
<1>3. tx.id \in BucketIds
  BY <1>2 DEF TxRecord
<1>4. Bucket(tx.id).s \in Accounts
  BY <1>2, <1>3, OpenIsListed DEF Bucket
<1> QED
  BY <1>1, <1>4 DEF TxOK

(* Every bucket's own part. *)
LEMMA StoredBucket ==
  ASSUME BucketInv, NEW id \in BucketIds
  PROVE  /\ Bucket(id) \in BucketRecord /\ TableOK(Bucket(id).table)
         /\ Accounted(Bucket(id), books[id], stocked[id], delivered[id], unannounced[id])
BY OneBucket DEF Kept, BucketOK

LEMMA InvTyped ==
  ASSUME BucketInv
  PROVE  TypeOK
<1>1. MarketTypeOK
  BY DEF BucketInv, MarketInv
<1>2. buckets \in [BucketIds -> BucketRecord]
  <2>1. buckets = [id \in BucketIds |-> buckets[id]]
    BY DEF BucketInv, BucketsOK
  <2>2. \A id \in BucketIds : buckets[id] \in BucketRecord
    BY StoredBucket DEF Bucket
  <2> QED
    BY <2>1, <2>2
<1>3. /\ approved \subseteq Items \X Accounts /\ pool \in [Tokens -> Nat]
      /\ nft \in [Items -> [Holders -> Nat]] /\ nextBucketId \in 0 .. MaxBuckets
      /\ \A f \in {stocked, delivered, unannounced} : f \in [BucketIds -> [Stacks -> Nat]]
  BY DEF BucketInv, BucketsOK
<1>4. tx.on => /\ tx.buyer \in Accounts /\ tx.id \in BucketIds /\ tx.price \in Nat
               /\ tx.plan \in Seq(Stacks) /\ tx.drawn \in Seq([item : Items, stack : Stacks])
               /\ tx.table \in Table /\ tx.tries \in Nat
  BY DuringPurchase DEF TxRecord, Drawn
<1> QED
  BY <1>1, <1>2, <1>3, <1>4 DEF TypeOK

LEMMA InvCounts ==
  ASSUME BucketInv
  PROVE  CountersAgree
<1> SUFFICES ASSUME NEW tb \in Tables
             PROVE  TableOK(tb)
  BY CountsOfTable DEF CountersAgree
<1>1. CASE \E id \in BucketIds : tb = Bucket(id).table
  BY <1>1, StoredBucket
<1>2. CASE tx.on /\ tb = tx.table
  BY <1>2, DuringPurchase
<1> QED
  BY <1>1, <1>2 DEF Tables

LEMMA InvDraws ==
  ASSUME BucketInv
  PROVE  DrawFindsOneEntry
<1> SUFFICES ASSUME Drawing, NEW r \in 0 .. tx.table.units[DrawStack] - 1
             PROVE  Cardinality(Locate(tx.table, DrawStack, r)) = 1
  BY DEF DrawFindsOneEntry
<1> DEFINE tb == tx.table
           k == DrawStack
<1>1. tx \in TxRecord /\ TableOK(tb)
  BY DuringPurchase DEF Drawing
<1>2. k \in Stacks
  <2>1. tx.drawn \in Seq(Drawn) /\ Len(tx.drawn) < Len(tx.plan)
    BY <1>1 DEF TxRecord, Drawing
  <2> QED
    BY <1>1, <2>1, NextStack DEF DrawStack
<1> HIDE DEF tb, k
<1>3. StackOK(tb.slots[k], tb.chunks[k], tb.units[k])
  BY <1>1, <1>2 DEF TableOK
<1>4. r \in 0 .. tb.units[k] - 1
  BY DEF tb, k
<1>5. PICK i \in DOMAIN tb.slots[k] : Locate(tb, k, r) = {i}
  BY <1>3, <1>4, LocateOne
<1>6. Cardinality(Locate(tb, k, r)) = 1
  BY <1>5, FS_Singleton
<1> QED
  BY <1>6 DEF tb, k

LEMMA InvHeld ==
  ASSUME BucketInv
  PROVE  DrawnUnitsHeld
<1> SUFFICES ASSUME tx.on, NEW x \in Items
             PROVE  DrawnItems(tx.drawn, x) <= nft[x][Bucket(tx.id).s]
  BY DEF DrawnUnitsHeld, DrawnOf, DrawnItems
<1> DEFINE tb == tx.table
           s == Bucket(tx.id).s
           d == DrawnItems(tx.drawn, x)
           h == nft[x][s]
           c == tx.checked
<1>1. /\ tx \in TxRecord /\ TableOK(tb) /\ s \in Accounts
      /\ Held(tb, c, tx.drawn, nft, s)
  BY DuringPurchase
<1>2. d \in Nat /\ h \in Nat
  <2>1. tx.drawn \in Seq(Drawn)
    BY <1>1 DEF TxRecord
  <2>2. nft \in [Items -> [Holders -> Nat]]
    BY DEF BucketInv
  <2> HIDE DEF s
  <2>3. h \in Nat
    BY <1>1, <2>2, HoldingType
  <2> QED
    BY <2>1, <2>3, DrawnType
<1>3. CASE x \notin Stocked(tb)
  <2>1. d = 0
    BY <1>1, <1>3 DEF Held
  <2> HIDE DEF d, h
  <2>2. d <= h
    BY <1>2, <2>1
  <2> QED
    BY <2>2 DEF d, h
<1>4. CASE x \in Stocked(tb)
  <2>0. PICK k \in Stacks : \E i \in DOMAIN tb.slots[k] : tb.slots[k][i].item = x
    BY <1>4 DEF Stocked
  <2>1. PICK i \in DOMAIN tb.slots[k] : tb.slots[k][i].item = x
    BY <2>0
  <2> DEFINE u == tb.slots[k][i].u
  <2>2. u \in Nat
    <3>1. tb.slots[k] \in Seq(Entry)
      BY <1>1 DEF TableOK, StackOK
    <3> HIDE DEF tb
    <3>2. tb.slots[k][i] \in Entry
      BY <3>1, SlotsType
    <3> QED
      BY <3>2 DEF Entry
  <2>3. \/ <<k, i>> \in c /\ d + u <= h
        \/ <<k, i>> \notin c /\ d = 0
    <3>1. /\ <<k, i>> \in c => DrawnItems(tx.drawn, tb.slots[k][i].item) + tb.slots[k][i].u
                                 <= nft[tb.slots[k][i].item][s]
          /\ <<k, i>> \notin c => DrawnItems(tx.drawn, tb.slots[k][i].item) = 0
      BY <1>1 DEF Held
    <3> QED
      BY <2>1, <3>1
  <2> HIDE DEF d, h, u
  <2>4. d <= h
    BY <1>2, <2>2, <2>3
  <2> QED
    BY <2>4 DEF d, h
<1> QED
  BY <1>3, <1>4

LEMMA InvAccounts ==
  ASSUME BucketInv
  PROVE  UnitsAccounted
BY StoredBucket DEF UnitsAccounted, Accounted

-----------------------------------------------------------------------------
(* Every variable of the buckets keeps its type; in particular nothing     *)
(* that is counted, paid or held goes below zero.                          *)
THEOREM BucketsTyped == Spec => []TypeOK
<1>1. BucketInv => TypeOK
  BY InvTyped
<1> QED
  BY <1>1, BucketInvariant, PTL

(* The four counts of a bucket's units agree for any sizes of stacks and   *)
(* chunks, in storage and in the copy a purchase works on                  *)
(* (appendBucketEntries, take, flush).                                     *)
THEOREM CountersInStep == Spec => []CountersAgree
<1>1. BucketInv => CountersAgree
  BY InvCounts
<1> QED
  BY <1>1, BucketInvariant, PTL

(* Whatever the seed says, a draw finds exactly one entry: "Bucket entry   *)
(* table is inconsistent" never happens (locate).                          *)
THEOREM DrawsFindOneEntry == Spec => []DrawFindsOneEntry
<1>1. BucketInv => DrawFindsOneEntry
  BY InvDraws
<1> QED
  BY <1>1, BucketInvariant, PTL

(* What a purchase has drawn of an item the seller still holds, although   *)
(* the seller's balance is asked once per entry (deliverable, its cache,   *)
(* and the rule that an item has one entry in a bucket).                   *)
THEOREM DrawsAreDeliverable == Spec => []DrawnUnitsHeld
<1>1. BucketInv => DrawnUnitsHeld
  BY InvHeld
<1> QED
  BY <1>1, BucketInvariant, PTL

(* Every unit ever put into a stack is counted there, went to a buyer or   *)
(* was dropped as stale, and the log tells of what was put in, what was    *)
(* drawn, what is left in all and whether the bucket is open (listBucket,  *)
(* addToBucket, buyFromBucket, delistBucket).                              *)
THEOREM EveryUnitAccounted == Spec => []UnitsAccounted
<1>1. BucketInv => UnitsAccounted
  BY InvAccounts
<1> QED
  BY <1>1, BucketInvariant, PTL
=============================================================================
