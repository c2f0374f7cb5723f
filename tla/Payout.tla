------------------------------- MODULE Payout -------------------------------
(***************************************************************************)
(* The arithmetic every sale of the market shares: a payment is cut into   *)
(* the marketplace fee, one part per royalty split and what is left for    *)
(* the seller.  Amounts are arbitrary-precision (math/big), so they are    *)
(* natural numbers without a width; every part is rounded down.            *)
(*                                                                         *)
(* A collection has at most ten royalty splits, so their sums are written  *)
(* as sums of ten terms.  That keeps the module free of recursion, and     *)
(* hence the modules above it within reach of the proof system.            *)
(***************************************************************************)
EXTENDS Integers, Sequences

BpsDenominator == 10000

MaxRoyaltySplits == 10

(* floor(total * bps / 10000) *)
MulBpsDiv(total, bps) == (total * bps) \div BpsDenominator

SumOfTen(f(_)) == f(1) + f(2) + f(3) + f(4) + f(5)
                    + f(6) + f(7) + f(8) + f(9) + f(10)

(* Basis points of the i-th split, 0 past the end of the list. *)
SplitBps(splits, i) == IF i \in 1 .. Len(splits) THEN splits[i].bps ELSE 0

TotalBps(splits) == LET at(i) == SplitBps(splits, i) IN SumOfTen(at)

FeeOf(total, feeBps) == MulBpsDiv(total, feeBps)

RoyaltyOf(total, splits) ==
  LET part(i) == MulBpsDiv(total, SplitBps(splits, i)) IN SumOfTen(part)

(* The subtraction total - fee - royalties does not underflow; when it     *)
(* does, mSub aborts and the transaction that wanted to pay out reverts.   *)
Payable(total, feeBps, splits) ==
  FeeOf(total, feeBps) + RoyaltyOf(total, splits) <= total
=============================================================================
