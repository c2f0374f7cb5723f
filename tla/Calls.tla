------------------------------- MODULE Calls --------------------------------
(***************************************************************************)
(* Entrypoints that call other contracts while they run.  A transaction is *)
(* no longer one step: an entrypoint does its checks and its writes, then  *)
(* calls contracts one after the other, and while it waits for one of them *)
(* that contract may call the market again.  The entrypoints in progress   *)
(* form a stack; only the innermost one goes on.                           *)
(*                                                                         *)
(* An abort anywhere undoes the whole transaction.  A behaviour that stops *)
(* in the middle of one stands for it: nothing else can happen before the  *)
(* stack is empty.                                                         *)
(***************************************************************************)
EXTENDS KeptStock

CONSTANTS
  CallbackAccount,   \* token or NFT contract -> the account under which it calls
                     \* back, NoAccount if it does not
  MaxDepth           \* bound: entrypoints in progress at once

VARIABLE
  calls              \* the entrypoints in progress, outermost first

Contracts == Tokens \cup Collections

(* The calls of a sale: the payment, its distribution, the asset's moves. *)
Stages == {"pay", "payout", "deliver", "return"}

ASSUME CallAssumption ==
  /\ CallbackAccount \in [Contracts -> Accounts \cup {NoAccount}]
  /\ MaxDepth \in Nat

-----------------------------------------------------------------------------
Idle == calls = <<>>

Top == calls[Len(calls)]

InProgress(op, stage) == ~Idle /\ Top.op = op /\ Head(Top.todo) = stage

(* The contract the innermost entrypoint is calling. *)
Called ==
  CASE Head(Top.todo) \in {"pay", "payout"} -> Top.pt
    [] Head(Top.todo) = "deliver" -> Top.asset
    [] OTHER -> Top.back

(* msg.caller is whoever signed, or the contract that calls back. *)
MayEnter(x) == ~Idle => x = CallbackAccount[Called]

(* An entrypoint has done its checks and writes and makes its first call. *)
Enter(f) ==
  /\ MayEnter(f.by)
  /\ Len(calls) < MaxDepth
  /\ calls' = Append(calls, f)

Outer == SubSeq(calls, 1, Len(calls) - 1)

(* The call that was in progress is over: the next one, or return. *)
Returned(f) ==
  calls' = IF Len(f.todo) = 1 THEN Outer
           ELSE Append(Outer, [f EXCEPT !.todo = Tail(f.todo)])

(* Mutant of Credited: the balance counts, not what was added to it. *)
CreditedWholeBalance(f, arrived) ==
  EscrowIn(f.pt, f.ask, pool[f.pt] + arrived)

(* escrowIn's result: for a measured token the difference to the balance   *)
(* read before the transfer, whatever has come in or gone out since.       *)
Credited(f, arrived) ==
  EscrowIn(f.pt, f.ask, pool[f.pt] + arrived - f.before)

(* The payment arrives.  A native asset can be drawn only from the account *)
(* that called the market.                                                 *)
Pay(arrived) ==
  LET f == Top
      measured == pool[f.pt] + arrived - f.before
  IN
  /\ ~Idle /\ Head(f.todo) = "pay"
  /\ f.pt \in NativeTokens => f.payer = f.by
  /\ arrived \in Arrivals(f.pt, f.ask)
  /\ measured >= 0 /\ ~EscrowAborts(f.pt, measured)
  /\ Returned([f EXCEPT !.got = Credited(f, arrived)])
  /\ pool' = [pool EXCEPT ![f.pt] = @ + arrived]

(* Fee, royalties and the seller's part leave the market. *)
PayOut ==
  LET f == Top IN
  /\ ~Idle /\ Head(f.todo) = "payout"
  /\ Payable(f.got, f.fb, f.rs)
  /\ pool[f.pt] >= f.got
  /\ pool' = [pool EXCEPT ![f.pt] = @ - f.got]
  /\ Returned(f)
=============================================================================
