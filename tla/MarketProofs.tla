---------------------------- MODULE MarketProofs ----------------------------
(***************************************************************************)
(* Facts every proof of the project rests on.  First about operators: sums *)
(* of functions, which the invariants about balances are stated with, and  *)
(* when a payment can be cut into fee, royalties and the seller's part.    *)
(* Then what every configuration entrypoint preserves, and what deposits   *)
(* and transfers of units do: these lemmas are about steps, not about a    *)
(* specification, and each component that shares the configuration and the *)
(* custody cites them for its own steps.                                   *)
(***************************************************************************)
EXTENDS Custody, FcnSum, FiniteSetsExt, FiniteSetTheorems, WellFoundedInduction,
        SequenceTheorems, TLAPS

(* The element x has f[x] coins. *)
LEMMA CoinsOfFinite ==
  ASSUME NEW f, NEW x, f[x] \in Nat
  PROVE  IsFiniteSet(CoinsOf(f, x)) /\ Cardinality(CoinsOf(f, x)) = f[x]
<1>1. IsFiniteSet(1 .. f[x]) /\ Cardinality(1 .. f[x]) = f[x]
  BY FS_Interval
<1>2. IsFiniteSet({x}) /\ Cardinality({x}) = 1
  BY FS_Singleton
<1>3. IsFiniteSet({x} \X (1 .. f[x])) /\ Cardinality({x} \X (1 .. f[x])) = 1 * f[x]
  BY <1>1, <1>2, FS_Product
<1> QED
  BY <1>3 DEF CoinsOf

(* Over a finite domain there are finitely many coins. *)
LEMMA CoinsFinite ==
  ASSUME NEW S, IsFiniteSet(S), NEW f \in [S -> Nat]
  PROVE  IsFiniteSet(Coins(f))
<1> DEFINE parts == {CoinsOf(f, x) : x \in S}
           g == [x \in S |-> CoinsOf(f, x)]
<1>1. g \in Surjection(S, parts)
  BY DEF Surjection
<1>2. IsFiniteSet(parts)
  BY <1>1, FS_Surjection
<1>3. \A P \in parts : IsFiniteSet(P)
  BY CoinsOfFinite
<1>4. IsFiniteSet(UNION parts)
  BY <1>2, <1>3, FS_UNION
<1> QED
  BY <1>4 DEF Coins

(* A sum of natural numbers over a finite domain is a natural number. *)
THEOREM TotalType ==
  ASSUME NEW S, IsFiniteSet(S), NEW f \in [S -> Nat]
  PROVE  Total(f) \in Nat
BY CoinsFinite, FS_CardinalityType DEF Total

(* A sum of zeros is zero. *)
THEOREM TotalZero ==
  ASSUME NEW S, NEW f, f = [x \in S |-> 0]
  PROVE  Total(f) = 0
<1>1. Coins(f) = {}
  BY DEF Coins, CoinsOf
<1> QED
  BY <1>1, FS_EmptySet DEF Total

(* The coins of everybody but x. *)
OtherCoins(f, x) == UNION {CoinsOf(f, y) : y \in DOMAIN f \ {x}}

(* The sum is one summand and the coins of all the others. *)
LEMMA TotalSplit ==
  ASSUME NEW S, IsFiniteSet(S), NEW f \in [S -> Nat], NEW x \in S
  PROVE  /\ Cardinality(OtherCoins(f, x)) \in Nat
         /\ Total(f) = f[x] + Cardinality(OtherCoins(f, x))
<1>1. Coins(f) = OtherCoins(f, x) \cup CoinsOf(f, x)
  BY DEF Coins, OtherCoins
<1>2. OtherCoins(f, x) \cap CoinsOf(f, x) = {}
  BY DEF OtherCoins, CoinsOf
<1>3. IsFiniteSet(Coins(f))
  BY CoinsFinite
<1>4. IsFiniteSet(OtherCoins(f, x))
  BY <1>1, <1>3, FS_Subset
<1>5. IsFiniteSet(CoinsOf(f, x)) /\ Cardinality(CoinsOf(f, x)) = f[x]
  BY CoinsOfFinite
<1>6. Cardinality(Coins(f)) = Cardinality(OtherCoins(f, x)) + f[x] - 0
  BY <1>1, <1>2, <1>4, <1>5, FS_Union, FS_EmptySet
<1>7. Cardinality(OtherCoins(f, x)) \in Nat
  BY <1>4, FS_CardinalityType
<1> QED
  BY <1>6, <1>7 DEF Total

(* Changing one summand changes the sum by as much. *)
THEOREM TotalUpdate ==
  ASSUME NEW S, IsFiniteSet(S), NEW f \in [S -> Nat], NEW g \in [S -> Nat],
         NEW x \in S, \A y \in S \ {x} : g[y] = f[y]
  PROVE  Total(g) = Total(f) - f[x] + g[x]
<1>1. \A y \in S \ {x} : CoinsOf(g, y) = CoinsOf(f, y)
  BY DEF CoinsOf
<1>2. OtherCoins(g, x) = OtherCoins(f, x)
  BY <1>1 DEF OtherCoins
<1>3. /\ Total(f) = f[x] + Cardinality(OtherCoins(f, x))
      /\ Total(g) = g[x] + Cardinality(OtherCoins(g, x))
      /\ Cardinality(OtherCoins(f, x)) \in Nat
  BY TotalSplit
<1> QED
  BY <1>2, <1>3

(* No summand exceeds the sum. *)
THEOREM TotalBound ==
  ASSUME NEW S, IsFiniteSet(S), NEW f \in [S -> Nat], NEW x \in S
  PROVE  f[x] <= Total(f)
BY TotalSplit

(* Only the summands in T matter if all others are zero, and then T may be *)
(* finite where the domain is not.                                         *)
LEMMA TotalSupport ==
  ASSUME NEW S, NEW f \in [S -> Nat], NEW T \in SUBSET S,
         \A x \in S \ T : f[x] = 0
  PROVE  Total(f) = Total([x \in T |-> f[x]])
<1> DEFINE g == [x \in T |-> f[x]]
<1>1. \A x \in S \ T : CoinsOf(f, x) = {}
  BY DEF CoinsOf
<1>2. \A x \in T : CoinsOf(f, x) = CoinsOf(g, x)
  BY DEF CoinsOf
<1>3. Coins(f) = Coins(g)
  BY <1>1, <1>2 DEF Coins
<1> QED
  BY <1>3 DEF Total

(* A sum with one summand. *)
LEMMA TotalSingle ==
  ASSUME NEW S, NEW f \in [S -> Nat], NEW x \in S, \A y \in S \ {x} : f[y] = 0
  PROVE  Total(f) = f[x]
<1>1. \A y \in S \ {x} : CoinsOf(f, y) = {}
  BY DEF CoinsOf
<1>2. Coins(f) = CoinsOf(f, x)
  BY <1>1 DEF Coins
<1> QED
  BY <1>2, CoinsOfFinite DEF Total

(* A sum over one position more is the sum and the new summand. *)
LEMMA TotalGrows ==
  ASSUME NEW n \in Nat, NEW g \in [1 .. n + 1 -> Nat]
  PROVE  Total(g) = Total([k \in 1 .. n |-> g[k]]) + g[n + 1]
<1> DEFINE h == [k \in 1 .. n + 1 |-> IF k = n + 1 THEN 0 ELSE g[k]]
           f == [k \in 1 .. n |-> g[k]]
           f2 == [k \in 1 .. n |-> h[k]]
<1>1. IsFiniteSet(1 .. n + 1) /\ n + 1 \in 1 .. n + 1
  BY FS_Interval
<1>2. h \in [1 .. n + 1 -> Nat] /\ h[n + 1] = 0
  OBVIOUS
<1>3. \A k \in (1 .. n + 1) \ {n + 1} : g[k] = h[k]
  OBVIOUS
<1>4. \A k \in (1 .. n + 1) \ (1 .. n) : h[k] = 0
  OBVIOUS
<1>5. f2 = f
  OBVIOUS
<1>6. Total(h) \in Nat
  <2> HIDE DEF h
  <2> QED
    BY <1>1, <1>2, TotalType
<1>7. Total(g) = Total(h) - h[n + 1] + g[n + 1]
  <2> HIDE DEF h
  <2> QED
    BY <1>1, <1>2, <1>3, TotalUpdate
<1>8. Total(h) = Total(f2)
  <2>1. 1 .. n \in SUBSET (1 .. n + 1)
    OBVIOUS
  <2> HIDE DEF h
  <2> QED
    BY <1>2, <1>4, <2>1, TotalSupport
<1>9. g[n + 1] \in Nat
  BY <1>1
<1> HIDE DEF h, f, f2
<1>10. Total(g) = Total(f) + g[n + 1]
  BY <1>2, <1>5, <1>6, <1>7, <1>8, <1>9
<1> QED
  BY <1>10 DEF f

(* A sum to which a summand is added. *)
LEMMA TotalAdds ==
  ASSUME NEW S, IsFiniteSet(S), NEW f \in [S -> Nat], NEW g \in [S -> Nat],
         NEW x \in S, NEW n \in Nat, f[x] = 0, g[x] = n, \A y \in S \ {x} : g[y] = f[y]
  PROVE  Total(f) \in Nat /\ Total(g) = Total(f) + n
<1>1. Total(f) \in Nat
  BY TotalType
<1>2. Total(g) = Total(f) - f[x] + g[x]
  BY TotalUpdate
<1> QED
  BY <1>1, <1>2

(* The sum over two sets is that over one and that over the other.         *)
LEMMA TotalUnion ==
  ASSUME NEW a, NEW b, NEW c,
         IsFiniteSet(DOMAIN a), a \in [DOMAIN a -> Nat],
         IsFiniteSet(DOMAIN b), b \in [DOMAIN b -> Nat],
         DOMAIN c = DOMAIN a \cup DOMAIN b, DOMAIN a \cap DOMAIN b = {},
         \A x \in DOMAIN a : c[x] = a[x], \A x \in DOMAIN b : c[x] = b[x]
  PROVE  Total(c) = Total(a) + Total(b)
<1>1. /\ \A x \in DOMAIN a : CoinsOf(c, x) = CoinsOf(a, x)
      /\ \A x \in DOMAIN b : CoinsOf(c, x) = CoinsOf(b, x)
  BY DEF CoinsOf
<1>2. Coins(c) = Coins(a) \cup Coins(b)
  BY <1>1 DEF Coins
<1>3. Coins(a) \cap Coins(b) = {}
  BY DEF Coins, CoinsOf
<1>4. IsFiniteSet(Coins(a)) /\ IsFiniteSet(Coins(b))
  BY CoinsFinite
<1>5. Total(a) \in Nat /\ Total(b) \in Nat
  BY TotalType
<1>6. Cardinality(Coins(c)) = Cardinality(Coins(a)) + Cardinality(Coins(b)) - Cardinality({})
  BY <1>2, <1>3, <1>4, FS_Union
<1> QED
  BY <1>5, <1>6, FS_EmptySet DEF Total

(* Among finitely many sets there is a smallest one. *)
LEMMA MinimalSubset ==
  ASSUME NEW S, IsFiniteSet(S), NEW B \in SUBSET (SUBSET S), B # {}
  PROVE  \E T \in B : \A x \in T : T \ {x} \notin B
<1>1. IsWellFoundedOn(StrictSubsetOrdering(S), SUBSET S)
  BY FS_StrictSubsetOrderingWellFounded, FS_FiniteSubsetsOfFinite
<1>2. PICK T \in B : \A U \in B : ~(<<U, T>> \in StrictSubsetOrdering(S))
  BY <1>1, WFMin
<1>3. ASSUME NEW x \in T
      PROVE  T \ {x} \notin B
  <2>1. <<T \ {x}, T>> \in (SUBSET S) \X (SUBSET S)
    OBVIOUS
  <2>2. T \ {x} \subseteq T /\ T \ {x} # T
    OBVIOUS
  <2>3. <<T \ {x}, T>> \in StrictSubsetOrdering(S)
    BY <2>1, <2>2 DEF StrictSubsetOrdering
  <2> QED
    BY <1>2, <2>3
<1> QED
  BY <1>3

(* The summands in T, zero for all others. *)
SummandsIn(T, S, h) == [x \in S |-> IF x \in T THEN h[x] ELSE 0]

(* One more summand. *)
LEMMA TotalExtend ==
  ASSUME NEW S, IsFiniteSet(S), NEW h \in [S -> Nat], NEW T \in SUBSET S, NEW x \in T
  PROVE  /\ Total(SummandsIn(T \ {x}, S, h)) \in Nat
         /\ Total(SummandsIn(T, S, h)) = Total(SummandsIn(T \ {x}, S, h)) + h[x]
<1> DEFINE new == SummandsIn(T, S, h)
           old == SummandsIn(T \ {x}, S, h)
<1>1. new \in [S -> Nat] /\ old \in [S -> Nat]
  BY DEF SummandsIn
<1>2. \A y \in S \ {x} : new[y] = old[y]
  BY DEF SummandsIn
<1>3. new[x] = h[x] /\ old[x] = 0 /\ x \in S /\ h[x] \in Nat
  BY DEF SummandsIn
<1> HIDE DEF new, old
<1>4. Total(new) = Total(old) - old[x] + new[x]
  BY <1>1, <1>2, <1>3, TotalUpdate
<1>5. Total(old) \in Nat
  BY <1>1, TotalType
<1>6. Total(new) = Total(old) + h[x]
  BY <1>3, <1>4, <1>5
<1> QED
  BY <1>5, <1>6 DEF new, old

(* The sum of the sums of two functions. *)
LEMMA TotalPlus ==
  ASSUME NEW S, IsFiniteSet(S), NEW f \in [S -> Nat], NEW g \in [S -> Nat]
  PROVE  Total([x \in S |-> f[x] + g[x]]) = Total(f) + Total(g)
<1> DEFINE h == [x \in S |-> f[x] + g[x]]
           on(e, T) == SummandsIn(T, S, e)
           B == {T \in SUBSET S : Total(on(h, T)) # Total(on(f, T)) + Total(on(g, T))}
<1>0. h \in [S -> Nat]
  OBVIOUS
<1>1. Total(on(f, {})) = 0 /\ Total(on(g, {})) = 0 /\ Total(on(h, {})) = 0
  BY TotalZero DEF SummandsIn
<1>2. ASSUME NEW T \in SUBSET S, NEW x \in T, T \ {x} \notin B
      PROVE  T \notin B
  <2>1. /\ Total(on(f, T \ {x})) \in Nat /\ Total(on(f, T)) = Total(on(f, T \ {x})) + f[x]
        /\ Total(on(g, T \ {x})) \in Nat /\ Total(on(g, T)) = Total(on(g, T \ {x})) + g[x]
    BY TotalExtend
  <2>2. /\ Total(on(h, T \ {x})) \in Nat /\ Total(on(h, T)) = Total(on(h, T \ {x})) + h[x]
    <3> HIDE DEF h
    <3> QED
      BY <1>0, TotalExtend
  <2>3. Total(on(h, T \ {x})) = Total(on(f, T \ {x})) + Total(on(g, T \ {x}))
    BY <1>2
  <2>4. h[x] = f[x] + g[x] /\ f[x] \in Nat /\ g[x] \in Nat
    OBVIOUS
  <2> HIDE DEF h, on
  <2> QED
    BY <2>1, <2>2, <2>3, <2>4
<1>3. B = {}
  <2> SUFFICES ASSUME B # {}
               PROVE  FALSE
    OBVIOUS
  <2>1. PICK T \in B : \A x \in T : T \ {x} \notin B
    <3>1. B \in SUBSET (SUBSET S)
      OBVIOUS
    <3> HIDE DEF B
    <3> QED
      BY <3>1, MinimalSubset
  <2>2. CASE T = {}
    BY <1>1, <2>2
  <2>3. CASE T # {}
    BY <1>2, <2>1, <2>3
  <2> QED
    BY <2>2, <2>3
<1>4. Total(on(h, S)) = Total(on(f, S)) + Total(on(g, S))
  BY <1>3
<1>5. on(f, S) = f /\ on(g, S) = g /\ on(h, S) = h
  BY <1>0 DEF SummandsIn
<1> QED
  BY <1>4, <1>5

(* Sums in proportion: if every summand of f, taken c times, makes up for  *)
(* that of g, taken d times, the sums do.                                  *)
THEOREM TotalCompare ==
  ASSUME NEW S, IsFiniteSet(S), NEW f \in [S -> Nat], NEW g \in [S -> Nat],
         NEW c \in Nat, NEW d \in Nat, \A x \in S : c * f[x] >= d * g[x]
  PROVE  c * Total(f) >= d * Total(g)
<1> DEFINE on(h, T) == SummandsIn(T, S, h)
           Fine(T) == c * Total(on(f, T)) >= d * Total(on(g, T))
           B == {T \in SUBSET S : ~Fine(T)}
<1>1. Total(on(f, {})) = 0 /\ Total(on(g, {})) = 0
  BY TotalZero DEF SummandsIn
<1>2. Fine({})
  BY <1>1
<1>3. ASSUME NEW T \in SUBSET S, NEW x \in T, Fine(T \ {x})
      PROVE  Fine(T)
  <2> DEFINE f1 == Total(on(f, T \ {x}))
             g1 == Total(on(g, T \ {x}))
             u == f[x]
             v == g[x]
  <2>1. Total(on(f, T)) = f1 + u /\ f1 \in Nat
    <3>1. Total(SummandsIn(T \ {x}, S, f)) \in Nat
      BY TotalExtend
    <3>2. Total(SummandsIn(T, S, f)) = Total(SummandsIn(T \ {x}, S, f)) + f[x]
      BY TotalExtend
    <3> QED
      BY <3>1, <3>2
  <2>2. Total(on(g, T)) = g1 + v /\ g1 \in Nat
    <3>1. Total(SummandsIn(T \ {x}, S, g)) \in Nat
      BY TotalExtend
    <3>2. Total(SummandsIn(T, S, g)) = Total(SummandsIn(T \ {x}, S, g)) + g[x]
      BY TotalExtend
    <3> QED
      BY <3>1, <3>2
  <2>3. u \in Nat /\ v \in Nat /\ c * u >= d * v
    OBVIOUS
  <2>4. c * f1 >= d * g1
    BY <1>3
  <2> HIDE DEF f1, g1, u, v
  <2>5. c * (f1 + u) = c * f1 + c * u /\ d * (g1 + v) = d * g1 + d * v
    BY <2>1, <2>2, <2>3
  <2>6. c * f1 \in Nat /\ c * u \in Nat /\ d * g1 \in Nat /\ d * v \in Nat
    BY <2>1, <2>2, <2>3
  <2>7. c * (f1 + u) >= d * (g1 + v)
    <3> DEFINE p == c * f1
               q == c * u
               r == d * g1
               s == d * v
    <3>1. p \in Nat /\ q \in Nat /\ r \in Nat /\ s \in Nat /\ p >= r /\ q >= s
      BY <2>3, <2>4, <2>6
    <3>2. p + q >= r + s
      <4> HIDE DEF p, q, r, s
      <4> QED
        BY <3>1
    <3> QED
      BY <2>5, <3>2
  <2> QED
    BY <2>1, <2>2, <2>7
<1> HIDE DEF Fine
<1>4. B = {}
  <2> SUFFICES ASSUME B # {}
               PROVE  FALSE
    OBVIOUS
  <2>1. PICK T \in B : \A x \in T : T \ {x} \notin B
    BY MinimalSubset
  <2>2. T # {}
    BY <1>2
  <2>3. PICK x \in T : TRUE
    BY <2>2
  <2>4. Fine(T \ {x})
    BY <2>1, <2>3
  <2> QED
    BY <1>3, <2>3, <2>4
<1>5. Fine(S)
  BY <1>4
<1>6. on(f, S) = f /\ on(g, S) = g
  BY DEF SummandsIn
<1> QED
  BY <1>5, <1>6 DEF Fine

-----------------------------------------------------------------------------
(* Induction, and what folding a list comes to.                            *)

(* Induction over the numbers up to n. *)
LEMMA UpTo ==
  ASSUME NEW n \in Nat, NEW A, 0 \in A, \A k \in 1 .. n : k - 1 \in A => k \in A
  PROVE  0 .. n \subseteq A
<1> DEFINE B == {T \in SUBSET (1 .. n) : \E k \in 0 .. n : T = 1 .. k /\ k \notin A}
<1> SUFFICES ASSUME B # {}
             PROVE  FALSE
  <2>1. ASSUME NEW k \in 0 .. n, k \notin A
        PROVE  1 .. k \in B
    BY <2>1
  <2> QED
    BY <2>1
<1>1. IsFiniteSet(1 .. n)
  BY FS_Interval
<1>2. PICK T \in B : \A x \in T : T \ {x} \notin B
  <2> HIDE DEF B
  <2>1. B \in SUBSET (SUBSET (1 .. n))
    BY DEF B
  <2> QED
    BY <1>1, <2>1, MinimalSubset
<1>3. PICK k \in 0 .. n : T = 1 .. k /\ k \notin A
  OBVIOUS
<1>4. k \in 1 .. n /\ k \in T
  BY <1>3
<1>5. T \ {k} = 1 .. (k - 1) /\ k - 1 \in 0 .. n
  BY <1>3, <1>4
<1>6. k - 1 \in A
  <2>1. T \ {k} \notin B
    BY <1>2, <1>4
  <2> QED
    BY <1>5, <2>1
<1> QED
  BY <1>3, <1>4, <1>6

(* What folding a list with F, from b, makes of every set of its           *)
(* positions: one position after the other is taken off, the last first,   *)
(* as MapThenFoldSet does.                                                 *)
Folds(it, n, R, b, F) ==
  /\ it \in [SUBSET (1 .. n) -> R]
  /\ \A s \in SUBSET (1 .. n) :
       it[s] = IF s = {} THEN b ELSE F[<<Max(s), it[s \ {Max(s)}]>>]

(* There is a function that does, which is what the definition of a        *)
(* recursive function needs.                                               *)
LEMMA FoldExists ==
  ASSUME NEW n \in Nat, NEW R, NEW b \in R, NEW F \in [(1 .. n) \X R -> R]
  PROVE  \E it : Folds(it, n, R, b, F)
<1> DEFINE Good(k, it) == Folds(it, k, R, b, F)
           A == {k \in 0 .. n : \E it : Good(k, it)}
<1>1. 0 \in A
  <2> DEFINE f == [s \in SUBSET (1 .. 0) |-> b]
  <2>1. 1 .. 0 = {} /\ \A s \in SUBSET (1 .. 0) : s = {}
    OBVIOUS
  <2>2. f \in [SUBSET (1 .. 0) -> R]
    OBVIOUS
  <2>3. \A s \in SUBSET (1 .. 0) : f[s] = b
    OBVIOUS
  <2>4. Good(0, f)
    BY <2>1, <2>2, <2>3 DEF Folds
  <2> HIDE DEF Good, f
  <2> QED
    BY <2>4
<1>2. ASSUME NEW k \in 1 .. n, k - 1 \in A
      PROVE  k \in A
  <2>0. PICK f : Good(k - 1, f)
    BY <1>2
  <2>1. /\ f \in [SUBSET (1 .. (k - 1)) -> R]
        /\ \A s \in SUBSET (1 .. (k - 1)) :
             f[s] = IF s = {} THEN b ELSE F[<<Max(s), f[s \ {Max(s)}]>>]
    BY <2>0 DEF Folds
  <2> DEFINE g == [s \in SUBSET (1 .. k) |-> IF k \in s THEN F[<<k, f[s \ {k}]>>] ELSE f[s]]
  <2>2. ASSUME NEW s \in SUBSET (1 .. k)
        PROVE  /\ s \ {k} \in SUBSET (1 .. (k - 1))
               /\ k \in s => Max(s) = k
               /\ k \notin s => s \in SUBSET (1 .. (k - 1))
    <3>1. ASSUME k \in s
          PROVE  Max(s) = k
      <4>1. \A x \in s : k >= x
        OBVIOUS
      <4>2. \A x \in s : (\A y \in s : x >= y) => x = k
        BY <3>1
      <4> QED
        BY <3>1, <4>1, <4>2 DEF Max
    <3> QED
      BY <3>1
  <2>3. g \in [SUBSET (1 .. k) -> R]
    <3>1. ASSUME NEW s \in SUBSET (1 .. k)
          PROVE  (IF k \in s THEN F[<<k, f[s \ {k}]>>] ELSE f[s]) \in R
      <4>1. CASE k \in s
        <5>1. f[s \ {k}] \in R
          BY <2>1, <2>2
        <5>2. <<k, f[s \ {k}]>> \in (1 .. n) \X R
          BY <5>1
        <5> QED
          BY <4>1, <5>2
      <4>2. CASE k \notin s
        BY <2>1, <2>2, <4>2
      <4> QED
        BY <4>1, <4>2
    <3> QED
      BY <3>1
  <2>4. ASSUME NEW s \in SUBSET (1 .. k)
        PROVE  g[s] = IF s = {} THEN b ELSE F[<<Max(s), g[s \ {Max(s)}]>>]
    <3>1. CASE k \in s
      <4>1. s # {} /\ Max(s) = k /\ g[s] = F[<<k, f[s \ {k}]>>]
        BY <2>2, <3>1
      <4>2. g[s \ {k}] = f[s \ {k}]
        BY <2>2
      <4> QED
        BY <4>1, <4>2
    <3>2. CASE k \notin s
      <4>1. g[s] = f[s] /\ s \in SUBSET (1 .. (k - 1))
        BY <2>2, <3>2
      <4>2. s # {} => g[s \ {Max(s)}] = f[s \ {Max(s)}]
        BY <2>2, <3>2
      <4>3. f[s] = IF s = {} THEN b ELSE F[<<Max(s), f[s \ {Max(s)}]>>]
        BY <2>1, <4>1
      <4> QED
        BY <4>1, <4>2, <4>3
    <3> QED
      BY <3>1, <3>2
  <2>5. Good(k, g)
    <3> HIDE DEF g
    <3> QED
      BY <2>3, <2>4 DEF Folds
  <2> HIDE DEF Good, g
  <2> QED
    BY <2>5
<1>3. n \in A
  <2> HIDE DEF A
  <2>1. 0 .. n \subseteq A
    BY <1>1, <1>2, UpTo
  <2> QED
    BY <2>1
<1> QED
  BY <1>3

(* Some positions of a list have a last one. *)
LEMMA LastOfSome ==
  ASSUME NEW n \in Nat, NEW s \in SUBSET (1 .. n), s # {}
  PROVE  Max(s) \in s
<1> DEFINE A == {k \in 0 .. n : \A z \in SUBSET (1 .. k) : z # {} => Max(z) \in z}
<1>1. 0 \in A
  <2>1. 0 \in 0 .. n /\ 1 .. 0 = {}
    OBVIOUS
  <2>2. \A z \in SUBSET {} : z = {}
    OBVIOUS
  <2> QED
    BY <2>1, <2>2
<1>2. ASSUME NEW k \in 1 .. n, k - 1 \in A
      PROVE  k \in A
  <2>1. ASSUME NEW z \in SUBSET (1 .. k), z # {}
        PROVE  Max(z) \in z
    <3>1. CASE k \in z
      <4>1. \A y \in z : k >= y
        OBVIOUS
      <4> QED
        BY <3>1, <4>1 DEF Max
    <3>2. CASE k \notin z
      <4>1. z \in SUBSET (1 .. (k - 1))
        BY <3>2
      <4> QED
        BY <1>2, <2>1, <4>1
    <3> QED
      BY <3>1, <3>2
  <2> QED
    BY <2>1
<1>3. 0 .. n \subseteq A
  <2> HIDE DEF A
  <2> QED
    BY <1>1, <1>2, UpTo
<1> QED
  BY <1>3

(* The last of the first k positions is k. *)
LEMMA LastOfFirst ==
  ASSUME NEW k \in Nat \ {0}
  PROVE  Max(1 .. k) = k /\ (1 .. k) \ {k} = 1 .. (k - 1) /\ 1 .. k # {}
<1>1. k \in 1 .. k /\ \A y \in 1 .. k : k >= y
  OBVIOUS
<1>2. \A x \in 1 .. k : (\A y \in 1 .. k : x >= y) => x = k
  BY <1>1
<1>3. Max(1 .. k) = k
  BY <1>1, <1>2 DEF Max
<1> QED
  BY <1>1, <1>3

-----------------------------------------------------------------------------
(* Division.                                                               *)

(* A quotient is the last multiple of the divisor not above the dividend. *)
LEMMA Division ==
  ASSUME NEW n \in Nat, NEW d \in Nat \ {0}
  PROVE  n \div d \in Nat /\ d * (n \div d) <= n /\ n < d * (n \div d) + d
BY SMT

(* Multiplication keeps the order. *)
LEMMA ProductOrdered ==
  ASSUME NEW a \in Nat, NEW b \in Nat, NEW d \in Nat, a <= b
  PROVE  d * a <= d * b /\ a * d <= b * d
<1>1. b - a \in Nat
  OBVIOUS
<1>2. d * (b - a) \in Nat
  BY <1>1
<1>3. d * b = d * a + d * (b - a)
  BY <1>1, Z3
<1> QED
  BY <1>2, <1>3

(* A quotient of a larger dividend is not smaller. *)
LEMMA DivisionOrdered ==
  ASSUME NEW m \in Nat, NEW n \in Nat, NEW d \in Nat \ {0}, m <= n
  PROVE  m \div d <= n \div d
<1> DEFINE p == m \div d
           q == n \div d
<1>1. p \in Nat /\ d * p <= m /\ q \in Nat /\ n < d * q + d
  BY Division
<1> HIDE DEF p, q
<1>2. d * (q + 1) = d * q + d
  BY <1>1, Z3
<1>3. CASE q + 1 <= p
  <2>1. d * (q + 1) <= d * p
    BY <1>1, <1>3, ProductOrdered
  <2>2. d * p \in Nat /\ d * q \in Nat
    BY <1>1
  <2> QED
    BY <1>1, <1>2, <2>1, <2>2
<1>4. CASE ~(q + 1 <= p)
  BY <1>1, <1>4 DEF p, q
<1> QED
  BY <1>3, <1>4

-----------------------------------------------------------------------------
(* p is at most bps basis points of the total. *)
Within(total, p, bps) == p \in Nat /\ bps \in Nat /\ BpsDenominator * p <= total * bps

(* A part is at most its share of the total. *)
LEMMA PartWithin ==
  ASSUME NEW total \in Nat, NEW bps \in Nat
  PROVE  Within(total, MulBpsDiv(total, bps), bps)
<1>1. \A n \in Nat : n \div 10000 \in Nat /\ 10000 * (n \div 10000) <= n
  BY SMT
<1>2. total * bps \in Nat
  BY SMT
<1> QED
  BY <1>1, <1>2 DEF Within, MulBpsDiv, BpsDenominator

(* Parts and shares add up. *)
LEMMA SumWithin ==
  ASSUME NEW total \in Nat, NEW p, NEW q, NEW b, NEW c,
         Within(total, p, b), Within(total, q, c)
  PROVE  Within(total, p + q, b + c)
<1>1. total * (b + c) = total * b + total * c
  BY DEF Within
<1>2. total * b \in Nat /\ total * c \in Nat
  BY DEF Within
<1>3. p + q \in Nat /\ b + c \in Nat
  BY DEF Within
<1>4. 10000 * (p + q) <= total * b + total * c
  <2> DEFINE u == total * b
             v == total * c
  <2>1. 10000 * p <= u /\ 10000 * q <= v /\ p \in Nat /\ q \in Nat
    BY DEF Within, BpsDenominator
  <2>2. u \in Nat /\ v \in Nat
    BY <1>2
  <2>3. 10000 * (p + q) <= u + v
    <3> HIDE DEF u, v
    <3> QED
      BY <2>1, <2>2
  <2> QED
    BY <2>3
<1> QED
  BY <1>1, <1>3, <1>4 DEF Within, BpsDenominator

(* Natural basis points add up to natural basis points. *)
LEMMA TotalBpsType ==
  ASSUME NEW splits, \A i \in 1 .. MaxRoyaltySplits : SplitBps(splits, i) \in Nat
  PROVE  TotalBps(splits) \in Nat
<1>1. /\ SplitBps(splits, 1) \in Nat /\ SplitBps(splits, 2) \in Nat
      /\ SplitBps(splits, 3) \in Nat /\ SplitBps(splits, 4) \in Nat
      /\ SplitBps(splits, 5) \in Nat /\ SplitBps(splits, 6) \in Nat
      /\ SplitBps(splits, 7) \in Nat /\ SplitBps(splits, 8) \in Nat
      /\ SplitBps(splits, 9) \in Nat /\ SplitBps(splits, 10) \in Nat
  BY DEF MaxRoyaltySplits
<1> QED
  BY <1>1 DEF TotalBps, SumOfTen

(* The parts of a payment are natural numbers, and together at most the    *)
(* share of it that their basis points come to.                            *)
LEMMA PartsWithin ==
  ASSUME NEW total \in Nat, NEW feeBps \in Nat, NEW splits,
         \A i \in 1 .. MaxRoyaltySplits : SplitBps(splits, i) \in Nat
  PROVE  /\ FeeOf(total, feeBps) \in Nat
         /\ RoyaltyOf(total, splits) \in Nat
         /\ Within(total, FeeOf(total, feeBps) + RoyaltyOf(total, splits),
                   feeBps + TotalBps(splits))
<1> DEFINE b(i) == SplitBps(splits, i)
           part(i) == MulBpsDiv(total, b(i))
<1>1. \A i \in 1 .. 10 : Within(total, part(i), b(i))
  BY PartWithin DEF MaxRoyaltySplits
<1>2. Within(total, FeeOf(total, feeBps), feeBps)
  BY PartWithin DEF FeeOf
<1>3. Within(total, RoyaltyOf(total, splits), TotalBps(splits))
  <2> HIDE DEF part, b
  <2>1. /\ Within(total, part(1), b(1))
        /\ Within(total, part(2), b(2))
        /\ Within(total, part(3), b(3))
        /\ Within(total, part(4), b(4))
        /\ Within(total, part(5), b(5))
        /\ Within(total, part(6), b(6))
        /\ Within(total, part(7), b(7))
        /\ Within(total, part(8), b(8))
        /\ Within(total, part(9), b(9))
        /\ Within(total, part(10), b(10))
    BY <1>1
  <2>2. Within(total, part(1) + part(2),
                     b(1) + b(2))
    BY <2>1, SumWithin, Zenon
  <2>3. Within(total, part(1) + part(2) + part(3),
                     b(1) + b(2) + b(3))
    BY <2>1, <2>2, SumWithin, Zenon
  <2>4. Within(total, part(1) + part(2) + part(3) + part(4),
                     b(1) + b(2) + b(3) + b(4))
    BY <2>1, <2>3, SumWithin, Zenon
  <2>5. Within(total, part(1) + part(2) + part(3) + part(4) + part(5),
                     b(1) + b(2) + b(3) + b(4) + b(5))
    BY <2>1, <2>4, SumWithin, Zenon
  <2>6. Within(total, part(1) + part(2) + part(3) + part(4) + part(5) + part(6),
                     b(1) + b(2) + b(3) + b(4) + b(5) + b(6))
    BY <2>1, <2>5, SumWithin, Zenon
  <2>7. Within(total, part(1) + part(2) + part(3) + part(4) + part(5) + part(6) + part(7),
                     b(1) + b(2) + b(3) + b(4) + b(5) + b(6) + b(7))
    BY <2>1, <2>6, SumWithin, Zenon
  <2>8. Within(total, part(1) + part(2) + part(3) + part(4) + part(5) + part(6)
                       + part(7) + part(8),
                     b(1) + b(2) + b(3) + b(4) + b(5) + b(6)
                       + b(7) + b(8))
    BY <2>1, <2>7, SumWithin, Zenon
  <2>9. Within(total, part(1) + part(2) + part(3) + part(4) + part(5) + part(6)
                       + part(7) + part(8) + part(9),
                     b(1) + b(2) + b(3) + b(4) + b(5) + b(6)
                       + b(7) + b(8) + b(9))
    BY <2>1, <2>8, SumWithin, Zenon
  <2>10. Within(total, part(1) + part(2) + part(3) + part(4) + part(5) + part(6)
                       + part(7) + part(8) + part(9) + part(10),
                     b(1) + b(2) + b(3) + b(4) + b(5) + b(6)
                       + b(7) + b(8) + b(9) + b(10))
    BY <2>1, <2>9, SumWithin, Zenon
  <2> QED
    BY <2>10 DEF RoyaltyOf, TotalBps, SumOfTen, part, b
<1>4. FeeOf(total, feeBps) \in Nat /\ RoyaltyOf(total, splits) \in Nat
  BY <1>2, <1>3 DEF Within
<1>5. Within(total, FeeOf(total, feeBps) + RoyaltyOf(total, splits),
             feeBps + TotalBps(splits))
  BY <1>2, <1>3, SumWithin
<1> QED
  BY <1>4, <1>5

(* Fee and royalties that stay within 100% together never exceed the       *)
(* payment, whatever its amount and however the parts are rounded.  Every  *)
(* payout of the market rests on this: it checks the percentages once,     *)
(* when an item is put up for sale, and subtracts later.                   *)
THEOREM WithinTotalIsPayable ==
  ASSUME NEW total \in Nat, NEW feeBps \in Nat, NEW splits,
         \A i \in 1 .. MaxRoyaltySplits : SplitBps(splits, i) \in Nat,
         feeBps + TotalBps(splits) <= BpsDenominator
  PROVE  Payable(total, feeBps, splits)
<1> DEFINE all == feeBps + TotalBps(splits)
           paid == FeeOf(total, feeBps) + RoyaltyOf(total, splits)
<1>1. Within(total, paid, all)
  BY PartsWithin
<1>2. total * all <= total * 10000
  <2>1. all \in Nat /\ all <= 10000
    BY <1>1 DEF Within, BpsDenominator
  <2> HIDE DEF all
  <2> QED
    BY <2>1
<1>3. paid <= total
  <2>1. paid \in Nat /\ all \in Nat /\ 10000 * paid <= total * all
    BY <1>1 DEF Within, BpsDenominator
  <2>2. total * all \in Nat
    BY <2>1
  <2> HIDE DEF paid, all
  <2> QED
    BY <1>2, <2>1, <2>2
<1> QED
  BY <1>3 DEF Payable

(* What is left for the seller is at least the seller's share: the parts   *)
(* of the others are rounded down, so rounding is in the seller's favour.  *)
THEOREM SellersPart ==
  ASSUME NEW total \in Nat, NEW feeBps \in Nat, NEW splits,
         \A i \in 1 .. MaxRoyaltySplits : SplitBps(splits, i) \in Nat,
         feeBps + TotalBps(splits) <= BpsDenominator
  PROVE  /\ total - FeeOf(total, feeBps) - RoyaltyOf(total, splits) \in Nat
         /\ BpsDenominator * (total - FeeOf(total, feeBps) - RoyaltyOf(total, splits))
              >= (BpsDenominator - feeBps - TotalBps(splits)) * total
<1> DEFINE fee == FeeOf(total, feeBps)
           royalty == RoyaltyOf(total, splits)
           all == feeBps + TotalBps(splits)
<1>1. fee \in Nat /\ royalty \in Nat /\ all \in Nat /\ 10000 * (fee + royalty) <= total * all
  <2>1. fee \in Nat /\ royalty \in Nat /\ Within(total, fee + royalty, all)
    BY PartsWithin
  <2> HIDE DEF fee, royalty, all
  <2> QED
    BY <2>1 DEF Within, BpsDenominator
<1>2. TotalBps(splits) \in Nat /\ all <= 10000
  BY TotalBpsType DEF BpsDenominator
<1>3. fee + royalty <= total
  BY WithinTotalIsPayable DEF Payable
<1>4. 10000 - feeBps - TotalBps(splits) = 10000 - all
  BY <1>2
<1> HIDE DEF fee, royalty, all
<1>5. (10000 - all) * total = 10000 * total - total * all
  BY <1>1
<1>6. total * all \in Nat
  BY <1>1
<1>7. 10000 * (total - fee - royalty) >= (10000 - all) * total
  <2> DEFINE p == total * all
  <2>1. 10000 * (fee + royalty) <= p /\ p \in Nat /\ (10000 - all) * total = 10000 * total - p
    BY <1>1, <1>5, <1>6
  <2> HIDE DEF p
  <2> QED
    BY <1>1, <2>1
<1>8. total - fee - royalty \in Nat
  BY <1>1, <1>3
<1> QED
  BY <1>4, <1>7, <1>8 DEF fee, royalty, BpsDenominator

-----------------------------------------------------------------------------

(* No collection asks for more than half of a payment.                     *)
RoyaltiesBounded == \A c \in Collections : RoyaltyBps(c) <= 5000

MarketInv ==
  MarketTypeOK /\ RoyaltyViewsAgree /\ RoyaltiesBounded /\ DecodersTruthful

(* Every split list has natural basis points, the list of no splits 0.     *)
LEMMA SplitBpsType ==
  ASSUME NEW splits \in Seq(Split), NEW i \in Nat
  PROVE  SplitBps(splits, i) \in Nat
<1>1. CASE i \in 1 .. Len(splits)
  <2>1. splits[i] \in Split
    BY <1>1
  <2>2. splits[i].bps \in Nat
    BY <2>1 DEF Split
  <2> QED
    BY <1>1, <2>2 DEF SplitBps
<1>2. CASE i \notin 1 .. Len(splits)
  BY <1>2 DEF SplitBps
<1> QED
  BY <1>1, <1>2

(* A collection without royalties owes none.                               *)
LEMMA NoSplitsNoBps == TotalBps(<<>>) = 0
<1>1. \A i \in 1 .. 10 : SplitBps(<<>>, i) = 0
  BY DEF SplitBps
<1> QED
  BY <1>1 DEF TotalBps, SumOfTen

(* The list of one split has that split's basis points. *)
LEMMA SingleSplitBps ==
  ASSUME NEW sp \in Split
  PROVE  TotalBps(<<sp>>) = sp.bps
<1> DEFINE one == <<sp>>
<1>1. SplitBps(one, 1) = sp.bps
  BY DEF SplitBps
<1>2. \A i \in 2 .. 10 : SplitBps(one, i) = 0
  BY DEF SplitBps
<1>3. sp.bps \in Nat
  BY DEF Split
<1> HIDE DEF one
<1>4. TotalBps(one) = sp.bps
  BY <1>1, <1>2, <1>3 DEF TotalBps, SumOfTen
<1> QED
  BY <1>4 DEF one

(* The sum of a split list is a natural number.                            *)
LEMMA TotalBpsOfSplits ==
  ASSUME NEW splits \in Seq(Split)
  PROVE  TotalBps(splits) \in Nat
BY SplitBpsType, TotalBpsType DEF MaxRoyaltySplits

(* What a sale locks at creation is well typed. *)
LEMMA ReadersType ==
  ASSUME MarketTypeOK, NEW c \in Collections
  PROVE  /\ EffectiveFeeBps(c) \in Nat
         /\ RoyaltyBps(c) \in Nat
         /\ ResolveRoyaltySplits(c) \in Seq(Split)
<1>1. cfg.collectionFee[c] \in Nat \cup {NoFee} /\ cfg.feeBps \in Nat
  BY DEF MarketTypeOK, Config
<1>2. cfg.royalty[c] \in Royalty
  BY DEF MarketTypeOK, Config
<1> DEFINE r == cfg.royalty[c]
<1>3. r.bps \in Nat /\ r.rcpt \in Accounts \cup {NoAccount} /\ r.splits \in Seq(Split)
  BY <1>2 DEF Royalty
<1>4. [to |-> r.rcpt, bps |-> r.bps] \in Split
  BY <1>3 DEF Split
<1> HIDE DEF r
<1>5. ResolveRoyaltySplits(c) \in Seq(Split)
  <2>1. ResolveRoyaltySplits(c) = IF r.splits # <<>> THEN r.splits
          ELSE IF r.bps > 0 THEN <<[to |-> r.rcpt, bps |-> r.bps]>> ELSE <<>>
    BY DEF ResolveRoyaltySplits, r
  <2> QED
    BY <1>3, <1>4, <2>1
<1>6. RoyaltyBps(c) = r.bps
  BY DEF RoyaltyBps, r
<1>7. EffectiveFeeBps(c) \in Nat
  BY <1>1 DEF EffectiveFeeBps
<1> QED
  BY <1>3, <1>5, <1>6, <1>7

(* The configuration init writes. *)
LEMMA MarketInitInv == MarketInit => MarketInv
<1> SUFFICES ASSUME MarketInit
             PROVE  MarketInv
  OBVIOUS
<1> USE AccountAssumption, TokenAssumption
<1>0. PICK f \in {0} \cup FeeChoices, x \in {Deployer} \cup FeeRecipientChoices :
        cfg = InitialConfig(f, x)
  BY DEF MarketInit
<1>1. \A c \in Collections :
        cfg.royalty[c] = [bps |-> 0, rcpt |-> NoAccount, splits |-> <<>>]
  BY <1>0 DEF InitialConfig
<1>2. MarketTypeOK
  <2>1. [bps |-> 0, rcpt |-> NoAccount, splits |-> <<>>] \in Royalty
    BY DEF Royalty
  <2>2. [c \in Collections |-> [bps |-> 0, rcpt |-> NoAccount, splits |-> <<>>]]
          \in [Collections -> Royalty]
    BY <2>1
  <2>3. f \in Nat /\ x \in Accounts
    BY ChoiceAssumption
  <2>4. height \in Nat
    BY DEF MarketInit
  <2> QED
    BY <1>0, <2>2, <2>3, <2>4 DEF InitialConfig, MarketTypeOK, Config, DecoderNames
<1>3. \A c \in Collections : ResolveRoyaltySplits(c) = <<>> /\ RoyaltyBps(c) = 0
  BY <1>1 DEF ResolveRoyaltySplits, RoyaltyBps
<1>4. RoyaltyViewsAgree
  BY <1>3, NoSplitsNoBps DEF RoyaltyViewsAgree, MaxRoyaltySplits
<1>5. DecodersTruthful
  BY <1>0 DEF InitialConfig, DecodersTruthful
<1>6. RoyaltiesBounded
  BY <1>3 DEF RoyaltiesBounded
<1> QED
  BY <1>2, <1>4, <1>5, <1>6 DEF MarketInv

(* A step that writes neither royalties nor decoders keeps what is said of *)
(* them.                                                                   *)
LEMMA OtherSettings ==
  ASSUME MarketInv, cfg' \in Config, height' \in Nat,
         cfg'.royalty = cfg.royalty, cfg'.decoder = cfg.decoder
  PROVE  MarketInv'
<1>1. RoyaltyViewsAgree'
  BY DEF MarketInv, RoyaltyViewsAgree, RoyaltyBps, ResolveRoyaltySplits
<1>2. DecodersTruthful'
  BY DEF MarketInv, DecodersTruthful
<1>3. RoyaltiesBounded'
  BY DEF MarketInv, RoyaltiesBounded, RoyaltyBps
<1> QED
  BY <1>1, <1>2, <1>3 DEF MarketInv, MarketTypeOK

(* setRoyalty keeps the two views of a royalty equal, because it drops     *)
(* the split list.                                                         *)
LEMMA SetRoyaltyInv ==
  ASSUME MarketInv, UNCHANGED height, NEW cr \in RoyaltyChoices, SetRoyalty(cr[1], cr[2])
  PROVE  MarketInv'
<1> DEFINE c == cr[1]
           r == [bps |-> cr[2].bps, rcpt |-> cr[2].to, splits |-> <<>>]
<1>1. c \in Collections /\ cr[2] \in Split
  BY ChoiceAssumption
<1>2. r \in Royalty
  BY <1>1 DEF Royalty, Split
<1>3. cfg' = [cfg EXCEPT !.royalty[c] = r]
  BY DEF SetRoyalty
<1>4. cfg \in Config
  BY DEF MarketInv, MarketTypeOK
<1> HIDE DEF c
<1>5. cfg' \in Config
  <2> HIDE DEF r
  <2>1. [cfg.royalty EXCEPT ![c] = r] \in [Collections -> Royalty]
    BY <1>2, <1>4 DEF Config
  <2> QED
    BY <1>3, <1>4, <2>1 DEF Config
<1>6. \A d \in Collections : d # c => cfg'.royalty[d] = cfg.royalty[d]
  BY <1>3, <1>4 DEF Config
<1>7. cfg'.royalty[c] = r /\ cfg'.decoder = cfg.decoder
  <2> HIDE DEF r
  <2> QED
    BY <1>1, <1>3, <1>4 DEF Config, c
<1>8. ASSUME NEW d \in Collections
      PROVE  /\ RoyaltyBps(d)' = TotalBps(ResolveRoyaltySplits(d)')
             /\ Len(ResolveRoyaltySplits(d)') <= MaxRoyaltySplits
  <2>1. CASE d # c
    BY <1>6, <2>1 DEF MarketInv, RoyaltyViewsAgree, RoyaltyBps, ResolveRoyaltySplits
  <2>2. CASE d = c /\ r.bps > 0
    <3>1. [to |-> r.rcpt, bps |-> r.bps] \in Split
      BY <1>1 DEF Split
    <3>2. RoyaltyBps(d)' = r.bps
      BY <1>7, <2>2 DEF RoyaltyBps
    <3>3. ResolveRoyaltySplits(d)' = <<[to |-> r.rcpt, bps |-> r.bps]>>
      BY <1>7, <2>2 DEF ResolveRoyaltySplits
    <3>4. TotalBps(<<[to |-> r.rcpt, bps |-> r.bps]>>) = r.bps
      BY <3>1, SingleSplitBps
    <3> QED
      BY <3>2, <3>3, <3>4 DEF MaxRoyaltySplits
  <2>3. CASE d = c /\ ~(r.bps > 0)
    <3>1. r.bps = 0
      BY <1>1, <2>3 DEF Split
    <3>2. RoyaltyBps(d)' = 0
      BY <1>7, <2>3, <3>1 DEF RoyaltyBps
    <3>3. ResolveRoyaltySplits(d)' = <<>>
      BY <1>7, <2>3, <3>1 DEF ResolveRoyaltySplits
    <3> QED
      BY <3>2, <3>3, NoSplitsNoBps DEF MaxRoyaltySplits
  <2> QED
    BY <2>1, <2>2, <2>3
<1>9. RoyaltyViewsAgree'
  BY <1>8 DEF RoyaltyViewsAgree
<1>10. DecodersTruthful'
  BY <1>7 DEF MarketInv, DecodersTruthful
<1>11. r.bps <= 5000
  BY DEF SetRoyalty
<1>12. RoyaltiesBounded'
  <2> HIDE DEF r
  <2> QED
    BY <1>6, <1>7, <1>11 DEF MarketInv, RoyaltiesBounded, RoyaltyBps
<1> QED
  BY <1>5, <1>9, <1>10, <1>12 DEF MarketInv, MarketTypeOK

(* setRoyaltySplits keeps the two views of a royalty equal, because it     *)
(* rewrites the legacy basis points.                                       *)
LEMMA SetRoyaltySplitsInv ==
  ASSUME MarketInv, UNCHANGED height, NEW c \in Collections, NEW splits \in Seq(Split),
         SetRoyaltySplits(c, splits)
  PROVE  MarketInv'
<1> DEFINE r == [bps |-> TotalBps(splits), rcpt |-> splits[1].to, splits |-> splits]
<1>1. Len(splits) >= 1 /\ Len(splits) <= MaxRoyaltySplits
  <2> DEFINE n == Len(splits)
  <2>1. n \in 1 .. MaxRoyaltySplits
    BY DEF SetRoyaltySplits
  <2> HIDE DEF n
  <2>2. n >= 1 /\ n <= MaxRoyaltySplits
    BY <2>1 DEF MaxRoyaltySplits
  <2> QED
    BY <2>2 DEF n
<1>2. cfg' = [cfg EXCEPT !.royalty[c] = r]
  BY DEF SetRoyaltySplits
<1>3. splits[1] \in Split /\ splits # <<>>
  <2>1. Len(splits) \in Nat /\ Len(splits) >= 1
    BY <1>1
  <2>2. 1 \in 1 .. Len(splits)
    BY <2>1
  <2>3. splits[1] \in Split
    BY <2>2
  <2>4. splits # <<>>
    BY <2>1
  <2> QED
    BY <2>3, <2>4
<1>4. r \in Royalty
  BY <1>3, TotalBpsOfSplits DEF Royalty, Split
<1>5. cfg \in Config
  BY DEF MarketInv, MarketTypeOK
<1>6. r.bps = TotalBps(splits) /\ r.splits = splits
  OBVIOUS
<1> HIDE DEF r
<1>7. cfg' \in Config
  <2>1. [cfg.royalty EXCEPT ![c] = r] \in [Collections -> Royalty]
    BY <1>4, <1>5 DEF Config
  <2> QED
    BY <1>2, <1>5, <2>1 DEF Config
<1>8. \A d \in Collections : d # c => cfg'.royalty[d] = cfg.royalty[d]
  BY <1>2, <1>5 DEF Config
<1>9. cfg'.royalty[c] = r /\ cfg'.decoder = cfg.decoder
  BY <1>2, <1>5 DEF Config
<1>10. ASSUME NEW d \in Collections
       PROVE  /\ RoyaltyBps(d)' = TotalBps(ResolveRoyaltySplits(d)')
              /\ Len(ResolveRoyaltySplits(d)') <= MaxRoyaltySplits
  <2>1. CASE d # c
    BY <1>8, <2>1 DEF MarketInv, RoyaltyViewsAgree, RoyaltyBps, ResolveRoyaltySplits
  <2>2. CASE d = c
    <3>1. RoyaltyBps(d)' = TotalBps(splits)
      BY <1>6, <1>9, <2>2 DEF RoyaltyBps
    <3>2. ResolveRoyaltySplits(d)' = splits
      BY <1>3, <1>6, <1>9, <2>2 DEF ResolveRoyaltySplits
    <3> QED
      BY <1>1, <3>1, <3>2
  <2> QED
    BY <2>1, <2>2
<1>11. RoyaltyViewsAgree'
  BY <1>10 DEF RoyaltyViewsAgree
<1>12. DecodersTruthful'
  BY <1>9 DEF MarketInv, DecodersTruthful
<1>13. TotalBps(splits) <= 5000
  BY DEF SetRoyaltySplits
<1>14. RoyaltiesBounded'
  BY <1>6, <1>8, <1>9, <1>13 DEF MarketInv, RoyaltiesBounded, RoyaltyBps
<1> QED
  BY <1>7, <1>11, <1>12, <1>14 DEF MarketInv, MarketTypeOK

(* A step that writes decoders and not royalties. *)
LEMMA TokenSettings ==
  ASSUME MarketInv, UNCHANGED height, NEW A \in SUBSET Tokens, NEW t \in Tokens,
         NEW d \in DecoderNames, t \in Deducting => d # "magi_token",
         cfg' = [cfg EXCEPT !.allowed = A, !.decoder[t] = d]
  PROVE  MarketInv'
<1>1. cfg \in Config
  BY DEF MarketInv, MarketTypeOK
<1>2. [cfg.decoder EXCEPT ![t] = d] \in [Tokens -> DecoderNames]
  BY <1>1 DEF Config
<1>3. cfg' \in Config
  BY <1>1, <1>2 DEF Config
<1>4. cfg'.royalty = cfg.royalty
  BY <1>1 DEF Config
<1>5. \A u \in Tokens : cfg'.decoder[u] = IF u = t THEN d ELSE cfg.decoder[u]
  BY <1>1 DEF Config
<1>6. DecodersTruthful'
  BY <1>5, TokenAssumption DEF MarketInv, DecodersTruthful
<1>7. RoyaltyViewsAgree'
  BY <1>4 DEF MarketInv, RoyaltyViewsAgree, RoyaltyBps, ResolveRoyaltySplits
<1>8. RoyaltiesBounded'
  BY <1>4 DEF MarketInv, RoyaltiesBounded, RoyaltyBps
<1> QED
  BY <1>3, <1>6, <1>7, <1>8 DEF MarketInv, MarketTypeOK

(* Whitelisting a token keeps the decoders truthful.                       *)
LEMMA AddPaymentTokenInv ==
  ASSUME MarketInv, UNCHANGED height, NEW td \in AddTokenChoices,
         AddPaymentToken(td[1], td[2])
  PROVE  MarketInv'
<1> DEFINE t == td[1]
           d == IF td[2] = "" THEN cfg.decoder[t] ELSE td[2]
           A == cfg.allowed \cup {t}
<1>1. t \in Tokens /\ td[2] \in DecoderNames /\ td = <<t, td[2]>>
  BY DecoderAssumption
<1>2. cfg \in Config /\ DecodersTruthful
  BY DEF MarketInv, MarketTypeOK
<1>3. cfg' = [cfg EXCEPT !.allowed = A, !.decoder[t] = d]
  BY DEF AddPaymentToken
<1>4. A \in SUBSET Tokens /\ d \in DecoderNames
  BY <1>1, <1>2 DEF Config
<1>5. t \in Deducting => d # "magi_token"
  BY <1>1, <1>2, DecoderAssumption DEF DecodersTruthful
<1> HIDE DEF t, d, A
<1> QED
  BY <1>1, <1>3, <1>4, <1>5, TokenSettings

(* Taking a token off the whitelist keeps the decoders truthful.           *)
LEMMA RemovePaymentTokenInv ==
  ASSUME MarketInv, UNCHANGED height, NEW t \in RemoveTokenChoices, RemovePaymentToken(t)
  PROVE  MarketInv'
<1> DEFINE A == cfg.allowed \ {t}
<1>1. t \in Tokens /\ A \in SUBSET Tokens
  BY ChoiceAssumption DEF MarketInv, MarketTypeOK, Config
<1>2. cfg' = [cfg EXCEPT !.allowed = A, !.decoder[t] = ""]
  BY DEF RemovePaymentToken
<1>3. "" \in DecoderNames /\ "" # "magi_token"
  BY DEF DecoderNames
<1> HIDE DEF A
<1> QED
  BY <1>1, <1>2, <1>3, TokenSettings

(* No configuration entrypoint disturbs the agreement of the royalty       *)
(* views, their bound or the truthfulness of the decoders.                 *)
THEOREM ConfigureInv ==
  ASSUME MarketInv, Configure
  PROVE  MarketInv'
<1>1. cfg \in Config /\ height' = height /\ height' \in Nat
  BY DEF MarketInv, MarketTypeOK, Configure
<1>2. CASE \E f \in FeeChoices : SetFee(f)
  BY <1>1, <1>2, OtherSettings, ChoiceAssumption DEF SetFee, Config
<1>3. CASE \E x \in FeeRecipientChoices : SetFeeRecipient(x)
  BY <1>1, <1>3, OtherSettings, ChoiceAssumption DEF SetFeeRecipient, Config
<1>4. CASE \E cf \in CollectionFeeChoices : SetCollectionFee(cf[1], cf[2])
  <2>1. PICK cf \in CollectionFeeChoices : SetCollectionFee(cf[1], cf[2])
    BY <1>4
  <2>2. cf[1] \in Collections /\ cf[2] \in Nat \cup {NoFee}
    BY ChoiceAssumption
  <2>3. [cfg.collectionFee EXCEPT ![cf[1]] = cf[2]] \in [Collections -> Nat \cup {NoFee}]
    BY <1>1, <2>2 DEF Config
  <2> QED
    BY <1>1, <2>1, <2>3, OtherSettings DEF SetCollectionFee, Config
<1>5. CASE \E cr \in RoyaltyChoices : SetRoyalty(cr[1], cr[2])
  BY <1>1, <1>5, SetRoyaltyInv
<1>6. CASE \E cs \in SplitChoices : SetRoyaltySplits(cs[1], cs[2])
  <2>1. PICK cs \in SplitChoices : SetRoyaltySplits(cs[1], cs[2])
    BY <1>6
  <2>2. cs[1] \in Collections /\ cs[2] \in Seq(Split)
    BY ChoiceAssumption
  <2> QED
    BY <1>1, <2>1, <2>2, SetRoyaltySplitsInv
<1>7. CASE \E b \in PauseChoices : SetPaused(b)
  BY <1>1, <1>7, OtherSettings, ChoiceAssumption DEF SetPaused, Config
<1>8. CASE \E td \in AddTokenChoices : AddPaymentToken(td[1], td[2])
  BY <1>1, <1>8, AddPaymentTokenInv
<1>9. CASE \E t \in RemoveTokenChoices : RemovePaymentToken(t)
  BY <1>1, <1>9, RemovePaymentTokenInv
<1>10. CASE \E c \in DenyChoices : DenyCollection(c)
  BY <1>1, <1>10, OtherSettings, ChoiceAssumption DEF DenyCollection, Config
<1>11. CASE \E c \in AllowChoices : AllowCollection(c)
  BY <1>1, <1>11, OtherSettings DEF AllowCollection, Config
<1>12. CASE \E v \in MinBidIncChoices : SetMinBidIncrement(v)
  BY <1>1, <1>12, OtherSettings, ChoiceAssumption DEF SetMinBidIncrement, Config
<1>13. CASE \E v \in AntiSnipeChoices : SetAntiSnipeBlocks(v)
  BY <1>1, <1>13, OtherSettings, ChoiceAssumption DEF SetAntiSnipeBlocks, Config
<1>14. CASE \E v \in MinOfferChoices : SetMinOffer(v)
  BY <1>1, <1>14, OtherSettings, ChoiceAssumption DEF SetMinOffer, Config
<1>15. CASE \E x \in OwnerChoices : ChangeOwner(x)
  BY <1>1, <1>15, OtherSettings, ChoiceAssumption DEF ChangeOwner, Config
<1>16. CASE AcceptOwnership
  BY <1>1, <1>16, OtherSettings DEF AcceptOwnership, Config
<1>17. CASE CancelOwnershipTransfer
  BY <1>1, <1>17, OtherSettings DEF CancelOwnershipTransfer, Config
<1> QED
  BY <1>2, <1>3, <1>4, <1>5, <1>6, <1>7, <1>8, <1>9, <1>10, <1>11, <1>12,
     <1>13, <1>14, <1>15, <1>16, <1>17 DEF Configure

(* A new block leaves the configuration alone.                             *)
LEMMA TickInv ==
  ASSUME MarketInv, Tick
  PROVE  MarketInv'
BY OtherSettings DEF MarketInv, MarketTypeOK, Tick

(* So does every step that leaves the configuration alone.                 *)
LEMMA UnchangedMarketInv ==
  ASSUME MarketInv, UNCHANGED marketVars
  PROVE  MarketInv'
BY OtherSettings DEF MarketInv, MarketTypeOK, marketVars

(* Only setAntiSnipeBlocks changes the anti-sniping window. *)
LEMMA AntiSnipeChanges ==
  ASSUME MarketInv, Configure
  PROVE  cfg'.antiSnipe = cfg.antiSnipe \/ cfg'.antiSnipe \in AntiSnipeChoices
<1>1. cfg \in Config
  BY DEF MarketInv, MarketTypeOK
<1>2. CASE \E v \in AntiSnipeChoices : SetAntiSnipeBlocks(v)
  BY <1>1, <1>2 DEF SetAntiSnipeBlocks, Config
<1>3. CASE \/ \E f \in FeeChoices : SetFee(f)
           \/ \E x \in FeeRecipientChoices : SetFeeRecipient(x)
           \/ \E v \in MinBidIncChoices : SetMinBidIncrement(v)
           \/ \E v \in MinOfferChoices : SetMinOffer(v)
  BY <1>1, <1>3 DEF SetFee, SetFeeRecipient, SetMinBidIncrement, SetMinOffer, Config
<1>4. CASE \E cf \in CollectionFeeChoices : SetCollectionFee(cf[1], cf[2])
  BY <1>1, <1>4 DEF SetCollectionFee, Config
<1>5. CASE \E cr \in RoyaltyChoices : SetRoyalty(cr[1], cr[2])
  BY <1>1, <1>5 DEF SetRoyalty, Config
<1>6. CASE \E cs \in SplitChoices : SetRoyaltySplits(cs[1], cs[2])
  <2>1. ASSUME NEW c, NEW splits, SetRoyaltySplits(c, splits)
        PROVE  cfg'.antiSnipe = cfg.antiSnipe
    <3> DEFINE r == [bps |-> TotalBps(splits), rcpt |-> splits[1].to, splits |-> splits]
    <3>1. cfg' = [cfg EXCEPT !.royalty[c] = r]
      BY <2>1 DEF SetRoyaltySplits
    <3> HIDE DEF r
    <3> QED
      BY <1>1, <3>1 DEF Config
  <2> QED
    BY <1>6, <2>1
<1>7. CASE \/ \E b \in PauseChoices : SetPaused(b)
           \/ \E c \in DenyChoices : DenyCollection(c)
           \/ \E c \in AllowChoices : AllowCollection(c)
  BY <1>1, <1>7 DEF SetPaused, DenyCollection, AllowCollection, Config
<1>8. CASE \/ \E td \in AddTokenChoices : AddPaymentToken(td[1], td[2])
           \/ \E t \in RemoveTokenChoices : RemovePaymentToken(t)
  BY <1>1, <1>8 DEF AddPaymentToken, RemovePaymentToken, Config
<1>9. CASE \/ \E x \in OwnerChoices : ChangeOwner(x)
           \/ AcceptOwnership
           \/ CancelOwnershipTransfer
  BY <1>1, <1>9 DEF ChangeOwner, AcceptOwnership, CancelOwnershipTransfer, Config
<1> QED
  BY <1>2, <1>3, <1>4, <1>5, <1>6, <1>7, <1>8, <1>9 DEF Configure

(* The fee and the bid increment stay within the bounds that their setters *)
(* check.                                                                  *)
SettingsBounded == cfg.feeBps \in 0 .. 10000 /\ cfg.minBidInc \in 100 .. 10000

LEMMA SettingsBoundedAtFirst == MarketInit => SettingsBounded
<1> SUFFICES ASSUME MarketInit
             PROVE  SettingsBounded
  OBVIOUS
<1>1. PICK f \in {0} \cup FeeChoices, x \in {Deployer} \cup FeeRecipientChoices :
        f <= 10000 /\ cfg = InitialConfig(f, x)
  BY DEF MarketInit
<1>2. f \in Nat /\ f <= 10000
  BY <1>1, ChoiceAssumption
<1>3. f \in 0 .. 10000
  BY <1>2
<1>4. cfg.feeBps = f /\ cfg.minBidInc = 100
  <2>1. cfg = InitialConfig(f, x)
    BY <1>1
  <2> QED
    BY <2>1, Zenon DEF InitialConfig
<1> QED
  BY <1>3, <1>4 DEF SettingsBounded

LEMMA SettingsStayBounded ==
  ASSUME MarketInv, SettingsBounded, Configure
  PROVE  SettingsBounded'
<1> DEFINE Same == cfg'.feeBps = cfg.feeBps /\ cfg'.minBidInc = cfg.minBidInc
<1>1. cfg \in Config
  BY DEF MarketInv, MarketTypeOK
<1>2. CASE \E f \in FeeChoices : SetFee(f)
  <2>1. PICK f \in FeeChoices : SetFee(f)
    BY <1>2
  <2>2. f \in Nat
    BY ChoiceAssumption
  <2>3. f <= 10000
    BY <2>1 DEF SetFee
  <2>4. f \in 0 .. 10000
    BY <2>2, <2>3
  <2>5. cfg' = [cfg EXCEPT !.feeBps = f]
    BY <2>1 DEF SetFee
  <2> QED
    BY <1>1, <2>4, <2>5 DEF Config, SettingsBounded
<1>3. CASE \E v \in MinBidIncChoices : SetMinBidIncrement(v)
  <2>1. PICK v \in MinBidIncChoices : SetMinBidIncrement(v)
    BY <1>3
  <2>2. v \in 100 .. 10000 /\ cfg' = [cfg EXCEPT !.minBidInc = v]
    BY <2>1 DEF SetMinBidIncrement
  <2> QED
    BY <1>1, <2>2 DEF Config, SettingsBounded
<1>4. ASSUME \/ \E x \in FeeRecipientChoices : SetFeeRecipient(x)
             \/ \E v \in AntiSnipeChoices : SetAntiSnipeBlocks(v)
             \/ \E v \in MinOfferChoices : SetMinOffer(v)
      PROVE  Same
  BY <1>1, <1>4 DEF SetFeeRecipient, SetAntiSnipeBlocks, SetMinOffer, Config
<1>5. ASSUME \E cf \in CollectionFeeChoices : SetCollectionFee(cf[1], cf[2])
      PROVE  Same
  BY <1>1, <1>5 DEF SetCollectionFee, Config
<1>6. ASSUME \E cr \in RoyaltyChoices : SetRoyalty(cr[1], cr[2])
      PROVE  Same
  BY <1>1, <1>6 DEF SetRoyalty, Config
<1>7. ASSUME \E cs \in SplitChoices : SetRoyaltySplits(cs[1], cs[2])
      PROVE  Same
  <2>1. ASSUME NEW c, NEW splits, SetRoyaltySplits(c, splits)
        PROVE  Same
    <3> DEFINE r == [bps |-> TotalBps(splits), rcpt |-> splits[1].to, splits |-> splits]
    <3>1. cfg' = [cfg EXCEPT !.royalty[c] = r]
      BY <2>1 DEF SetRoyaltySplits
    <3> HIDE DEF r
    <3> QED
      BY <1>1, <3>1 DEF Config
  <2> QED
    BY <1>7, <2>1
<1>8. ASSUME \/ \E b \in PauseChoices : SetPaused(b)
             \/ \E c \in DenyChoices : DenyCollection(c)
             \/ \E c \in AllowChoices : AllowCollection(c)
      PROVE  Same
  BY <1>1, <1>8 DEF SetPaused, DenyCollection, AllowCollection, Config
<1>9. ASSUME \/ \E td \in AddTokenChoices : AddPaymentToken(td[1], td[2])
             \/ \E t \in RemoveTokenChoices : RemovePaymentToken(t)
      PROVE  Same
  BY <1>1, <1>9 DEF AddPaymentToken, RemovePaymentToken, Config
<1>10. ASSUME \/ \E x \in OwnerChoices : ChangeOwner(x)
              \/ AcceptOwnership
              \/ CancelOwnershipTransfer
       PROVE  Same
  BY <1>1, <1>10 DEF ChangeOwner, AcceptOwnership, CancelOwnershipTransfer, Config
<1> QED
  <2>1. Same => SettingsBounded'
    BY DEF SettingsBounded
  <2> HIDE DEF Same
  <2> QED
    BY <1>2, <1>3, <1>4, <1>5, <1>6, <1>7, <1>8, <1>9, <1>10, <2>1 DEF Configure

-----------------------------------------------------------------------------
(* What a sale locks in: a fee and royalties that were compared with 100%  *)
(* in their legacy form are within 100% in the form they are paid in.      *)
LEMMA LockedTerms ==
  ASSUME MarketInv, NEW c \in Collections, EffectiveFeeBps(c) + RoyaltyBps(c) <= 10000
  PROVE  /\ EffectiveFeeBps(c) \in Nat
         /\ ResolveRoyaltySplits(c) \in Seq(Split)
         /\ EffectiveFeeBps(c) + TotalBps(ResolveRoyaltySplits(c)) <= BpsDenominator
         /\ TotalBps(ResolveRoyaltySplits(c)) <= 5000
<1>1. MarketTypeOK
  BY DEF MarketInv
<1>2. RoyaltyBps(c) = TotalBps(ResolveRoyaltySplits(c)) /\ RoyaltyBps(c) <= 5000
  BY DEF MarketInv, RoyaltyViewsAgree, RoyaltiesBounded
<1> QED
  BY <1>1, <1>2, ReadersType DEF BpsDenominator

(* Terms within 100% can be paid out of any amount.                        *)
LEMMA TermsPay ==
  ASSUME NEW total \in Nat, NEW fb \in Nat, NEW rs \in Seq(Split),
         fb + TotalBps(rs) <= BpsDenominator
  PROVE  Payable(total, fb, rs)
<1>1. \A k \in Nat : SplitBps(rs, k) \in Nat
  BY SplitBpsType
<1>2. \A k \in 1 .. MaxRoyaltySplits : SplitBps(rs, k) \in Nat
  BY <1>1 DEF MaxRoyaltySplits
<1> QED
  BY <1>2, WithinTotalIsPayable

-----------------------------------------------------------------------------
(* As long as the decoders are truthful, what is credited for a deposit is *)
(* what arrived, also in a token that withholds part of a transfer.        *)
LEMMA DepositCredited ==
  ASSUME DecodersTruthful, NEW t \in Tokens, NEW requested,
         NEW arrived \in Arrivals(t, requested)
  PROVE  EscrowIn(t, requested, arrived) = arrived
<1>1. CASE t \in Deducting
  BY <1>1, TokenAssumption DEF DecodersTruthful, CreditsFaceValue, EscrowIn, Arrivals
<1>2. CASE t \notin Deducting
  BY <1>2 DEF EscrowIn, Arrivals
<1> QED
  BY <1>1, <1>2

(* The NFT contracts' balances after a transfer that was not refused. *)
LEMMA MoveBalances ==
  ASSUME NEW i \in Items, NEW x \in Holders, NEW y \in Holders, x # y, NEW n \in Nat,
         nft \in [Items -> [Holders -> Nat]], CanMove(i, x, n),
         nft' = Move(i, x, y, n)
  PROVE  /\ nft' \in [Items -> [Holders -> Nat]]
         /\ \A j \in Items \ {i} : nft'[j] = nft[j]
         /\ \A z \in Holders :
              nft'[i][z] = IF z = x THEN nft[i][z] - n
                           ELSE IF z = y THEN nft[i][z] + n ELSE nft[i][z]
<1> DEFINE mid == [nft[i] EXCEPT ![x] = @ - n]
           half == [nft EXCEPT ![i] = mid]
           new == [mid EXCEPT ![y] = nft[i][y] + n]
<1>1. nft[i] \in [Holders -> Nat] /\ nft[i][x] - n \in Nat
  BY DEF CanMove
<1>2. mid \in [Holders -> Nat] /\ mid[y] = nft[i][y]
  BY <1>1
<1>3. new \in [Holders -> Nat]
  BY <1>1, <1>2
<1>4. half[i] = mid /\ half[i][y] = nft[i][y]
  BY <1>2
<1>5. nft' = [half EXCEPT ![i] = new]
  BY <1>4 DEF Move
<1>6. \A z \in Holders :
        new[z] = IF z = x THEN nft[i][z] - n
                 ELSE IF z = y THEN nft[i][z] + n ELSE nft[i][z]
  BY <1>1
<1> HIDE DEF new, mid
<1> QED
  BY <1>3, <1>5, <1>6

-----------------------------------------------------------------------------
(* Weighing a stack of purchases in progress, of which F are the frames: a *)
(* weight gives every frame a number.                                      *)

(* What the frames of a stack weigh together. *)
Weighed(W, cs) == Total([k \in DOMAIN cs |-> W[cs[k]]])

(* The weights of the frames form a function into the numbers. *)
LEMMA WeighedType ==
  ASSUME NEW F, NEW W \in [F -> Nat], NEW cs \in Seq(F)
  PROVE  Weighed(W, cs) \in Nat
<1> DEFINE w == [k \in DOMAIN cs |-> W[cs[k]]]
<1>1. DOMAIN cs = 1 .. Len(cs) /\ Len(cs) \in Nat
  OBVIOUS
<1>2. w \in [1 .. Len(cs) -> Nat]
  BY <1>1
<1> HIDE DEF w
<1>3. IsFiniteSet(1 .. Len(cs))
  BY <1>1, FS_Interval
<1>4. Total(w) \in Nat
  BY <1>2, <1>3, TotalType
<1> QED
  BY <1>4 DEF Weighed, w

(* Nothing in progress weighs nothing. *)
LEMMA WeighedNone ==
  ASSUME NEW W
  PROVE  Weighed(W, <<>>) = 0
<1> DEFINE w == [k \in DOMAIN <<>> |-> W[<<>>[k]]]
<1>1. w = [k \in {} |-> 0]
  OBVIOUS
<1> HIDE DEF w
<1>2. Total(w) = 0
  BY <1>1, TotalZero
<1> QED
  BY <1>2 DEF Weighed, w

(* One purchase more weighs what it weighs more. *)
LEMMA WeighedPush ==
  ASSUME NEW F, NEW W \in [F -> Nat], NEW cs \in Seq(F), NEW f \in F
  PROVE  Weighed(W, Append(cs, f)) = Weighed(W, cs) + W[f]
<1> DEFINE n == Len(cs)
           new == Append(cs, f)
           g == [k \in DOMAIN new |-> W[new[k]]]
           old == [k \in DOMAIN cs |-> W[cs[k]]]
<1>1. n \in Nat /\ DOMAIN cs = 1 .. n /\ DOMAIN new = 1 .. n + 1
  OBVIOUS
<1>2. new[n + 1] = f /\ \A k \in 1 .. n : new[k] = cs[k]
  OBVIOUS
<1>3. new \in Seq(F)
  OBVIOUS
<1>4. g \in [1 .. n + 1 -> Nat]
  <2>1. \A k \in 1 .. n + 1 : new[k] \in F
    BY <1>1, <1>3
  <2> HIDE DEF new, n
  <2> QED
    BY <1>1, <2>1
<1>5. [k \in 1 .. n |-> g[k]] = old
  <2> HIDE DEF new, n
  <2> QED
    BY <1>1, <1>2
<1>6. g[n + 1] = W[f]
  <2> HIDE DEF new, n
  <2> QED
    BY <1>1, <1>2
<1> HIDE DEF n, g
<1>7. Total(g) = Total([k \in 1 .. n |-> g[k]]) + g[n + 1]
  BY <1>1, <1>4, TotalGrows
<1>8. Weighed(W, new) = Total(g) /\ Weighed(W, cs) = Total(old)
  BY DEF Weighed, g
<1> QED
  BY <1>5, <1>6, <1>7, <1>8

(* Only the weights of the frames on the stack count. *)
LEMMA WeighedSame ==
  ASSUME NEW F, NEW V, NEW W, NEW cs \in Seq(F), \A k \in DOMAIN cs : V[cs[k]] = W[cs[k]]
  PROVE  Weighed(V, cs) = Weighed(W, cs)
<1>1. [k \in DOMAIN cs |-> V[cs[k]]] = [k \in DOMAIN cs |-> W[cs[k]]]
  OBVIOUS
<1> QED
  BY <1>1 DEF Weighed

(* No purchase weighs more than all of them. *)
LEMMA WeighedBound ==
  ASSUME NEW F, NEW W \in [F -> Nat], NEW cs \in Seq(F), NEW k \in DOMAIN cs
  PROVE  W[cs[k]] <= Weighed(W, cs)
<1> DEFINE w == [j \in DOMAIN cs |-> W[cs[j]]]
<1>1. DOMAIN cs = 1 .. Len(cs) /\ Len(cs) \in Nat
  OBVIOUS
<1>2. w \in [1 .. Len(cs) -> Nat] /\ w[k] = W[cs[k]] /\ k \in 1 .. Len(cs)
  BY <1>1
<1> HIDE DEF w
<1>3. IsFiniteSet(1 .. Len(cs))
  BY <1>1, FS_Interval
<1>4. w[k] <= Total(w)
  BY <1>2, <1>3, TotalBound
<1> QED
  BY <1>2, <1>4 DEF Weighed, w

(* Purchases that weigh nothing together each weigh nothing, and           *)
(* conversely.                                                             *)
LEMMA WeighedZero ==
  ASSUME NEW F, NEW W \in [F -> Nat], NEW cs \in Seq(F)
  PROVE  Weighed(W, cs) = 0 <=> \A k \in DOMAIN cs : W[cs[k]] = 0
<1>1. ASSUME Weighed(W, cs) = 0, NEW k \in DOMAIN cs
      PROVE  W[cs[k]] = 0
  <2>1. W[cs[k]] <= Weighed(W, cs)
    BY WeighedBound
  <2>2. W[cs[k]] \in Nat
    OBVIOUS
  <2> QED
    BY <1>1, <2>1, <2>2
<1>2. ASSUME \A k \in DOMAIN cs : W[cs[k]] = 0
      PROVE  Weighed(W, cs) = 0
  <2> DEFINE w == [k \in DOMAIN cs |-> W[cs[k]]]
  <2>1. w = [k \in DOMAIN cs |-> 0]
    BY <1>2
  <2> HIDE DEF w
  <2>2. Total(w) = 0
    BY <2>1, TotalZero
  <2> QED
    BY <2>2 DEF Weighed, w
<1> QED
  BY <1>1, <1>2

(* The frames around a frame are the same in two stacks that agree there. *)
LEMMA SamePrefix ==
  ASSUME NEW F, NEW s \in Seq(F), NEW t \in Seq(F), NEW n \in Nat,
         n <= Len(s), n <= Len(t), \A k \in 1 .. n : s[k] = t[k]
  PROVE  SubSeq(s, 1, n) = SubSeq(t, 1, n)
<1> DEFINE a == SubSeq(s, 1, n)
           b == SubSeq(t, 1, n)
<1>1. \A k \in 1 .. n : s[k] \in F /\ t[k] \in F
  OBVIOUS
<1>2. /\ a \in Seq(F) /\ Len(a) = IF 1 <= n THEN n - 1 + 1 ELSE 0
      /\ \A k \in 1 .. n - 1 + 1 : a[k] = s[1 + k - 1]
  BY <1>1, SubSeqProperties
<1>3. /\ b \in Seq(F) /\ Len(b) = IF 1 <= n THEN n - 1 + 1 ELSE 0
      /\ \A k \in 1 .. n - 1 + 1 : b[k] = t[1 + k - 1]
  BY <1>1, SubSeqProperties
<1> HIDE DEF a, b
<1>4. Len(a) = n /\ Len(b) = n
  BY <1>2, <1>3
<1>5. \A k \in 1 .. n : a[k] = b[k]
  <2>1. \A k \in 1 .. n : 1 + k - 1 = k /\ k \in 1 .. n - 1 + 1
    OBVIOUS
  <2> QED
    BY <1>2, <1>3, <2>1
<1>6. a = b
  BY <1>2, <1>3, <1>4, <1>5, SeqEqual
<1> QED
  BY <1>6 DEF a, b
=============================================================================
