------------------------------- MODULE FcnSum -------------------------------
(***************************************************************************)
(* The sum of a function with natural values, defined without recursion:   *)
(* give every element x of the domain f[x] coins of its own and count the  *)
(* coins.  Folding is the usual definition; counting can be reasoned about *)
(* with the library's facts on the cardinality of finite sets, also where  *)
(* the elements are in no order, and the invariants on the market's        *)
(* balances are stated with it so that they can be proved.                 *)
(***************************************************************************)
EXTENDS Integers, FiniteSets

CoinsOf(f, x) == {x} \X (1 .. f[x])

Coins(f) == UNION {CoinsOf(f, x) : x \in DOMAIN f}

Total(f) == Cardinality(Coins(f))
=============================================================================
