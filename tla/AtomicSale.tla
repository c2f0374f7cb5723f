----------------------------- MODULE AtomicSale -----------------------------
(***************************************************************************)
(* What a sale under escrow promises, whatever its rules for pricing,      *)
(* timing and cancelling.  A seller hands a lot to the market.  While the  *)
(* lot is there at most one account has money at stake in it, and the      *)
(* stake only changes hands upwards: whoever is outbid has everything back *)
(* in the same step.  The sale ends once, in one of two ways: the lot goes *)
(* to the account at stake and its whole stake is paid out, or the lot     *)
(* goes back to the seller and nobody has paid anything.                   *)
(***************************************************************************)
EXTENDS Integers

CONSTANTS Sales, Accounts, Market, NoAccount

VARIABLES
  seller,      \* who put the lot up, NoAccount while there is no sale
  lotAt,       \* where the lot is: with Market or with an account
  stake,       \* what each account has paid in and not got back
  proceeds     \* what has been paid out of the sale

saleVars == <<seller, lotAt, stake, proceeds>>

Nobody == [x \in Accounts |-> 0]

Only(x, v) == [y \in Accounts |-> IF y = x THEN v ELSE 0]

Open(i) == lotAt[i] = Market

Init ==
  /\ seller = [i \in Sales |-> NoAccount]
  /\ lotAt = [i \in Sales |-> NoAccount]
  /\ stake = [i \in Sales |-> Nobody]
  /\ proceeds = [i \in Sales |-> 0]

PutUp(i, s) ==
  /\ seller[i] = NoAccount
  /\ seller' = [seller EXCEPT ![i] = s]
  /\ lotAt' = [lotAt EXCEPT ![i] = Market]
  /\ UNCHANGED <<stake, proceeds>>

(* x replaces whoever was at stake, with more money. *)
Raise(i, x, v) ==
  /\ Open(i)
  /\ x # seller[i]
  /\ \A y \in Accounts : stake[i][y] < v
  /\ stake' = [stake EXCEPT ![i] = Only(x, v)]
  /\ UNCHANGED <<seller, lotAt, proceeds>>

(* The account at stake gets the lot and its stake is paid out. *)
Sell(i, x) ==
  /\ Open(i)
  /\ stake[i][x] > 0
  /\ lotAt' = [lotAt EXCEPT ![i] = x]
  /\ proceeds' = [proceeds EXCEPT ![i] = stake[i][x]]
  /\ UNCHANGED <<seller, stake>>

(* x pays and gets the lot at once; nobody had a stake. *)
BuyOutright(i, x, v) ==
  /\ Open(i)
  /\ x # seller[i]
  /\ stake[i] = Nobody
  /\ stake' = [stake EXCEPT ![i] = Only(x, v)]
  /\ lotAt' = [lotAt EXCEPT ![i] = x]
  /\ proceeds' = [proceeds EXCEPT ![i] = v]
  /\ UNCHANGED seller

GiveBack(i) ==
  /\ Open(i)
  /\ lotAt' = [lotAt EXCEPT ![i] = seller[i]]
  /\ stake' = [stake EXCEPT ![i] = Nobody]
  /\ UNCHANGED <<seller, proceeds>>

(* The amount a bid or a purchase puts at stake is whatever x has at stake *)
(* afterwards.                                                             *)
Next ==
  \E i \in Sales :
    \/ GiveBack(i)
    \/ \E x \in Accounts :
         \/ PutUp(i, x)
         \/ Sell(i, x)
         \/ Raise(i, x, stake'[i][x])
         \/ BuyOutright(i, x, stake'[i][x])

Spec == Init /\ [][Next]_saleVars
=============================================================================
