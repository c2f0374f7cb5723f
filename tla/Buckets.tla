------------------------------- MODULE Buckets ------------------------------
(***************************************************************************)
(* Buckets: fixed-price sales in which the contract picks what the buyer   *)
(* gets.  A bucket holds entries (units of an item) in the slots of a few  *)
(* stacks; slots are grouped in chunks.  The units left are counted per    *)
(* slot, per chunk, per stack and for the whole bucket, and every change   *)
(* has to keep the four in step.  The seller keeps the units, so an entry  *)
(* may have gone stale; a draw that comes upon one drops it and draws      *)
(* again.                                                                  *)
(*                                                                         *)
(* A purchase is one transaction, told here in several steps: it works on  *)
(* a copy of the counters, which is written back when everything is drawn, *)
(* and nothing else happens until it has finished or aborted.  The draw is *)
(* a choice of any unit left in the stack; the seed and the odds are left  *)
(* out.                                                                    *)
(***************************************************************************)
EXTENDS KeptStock, Events, SequencesExt

CONSTANTS
  MaxBuckets,        \* bound: buckets listed in a behaviour
  MaxBucketStacks,   \* 8
  BucketChunk,       \* slots per chunk: 32
  MaxBucketEntries,  \* 512
  MaxEntriesPerCall, \* 24
  MaxDrawsPerTx,     \* 24
  MaxStaleRetries,   \* 12
  MaxDrawWork,       \* 600
  Stocks,            \* entries of listBucket and addToBucket
  SinglePrices,      \* pricePerDraw, 0 for none
  PackOffers,        \* pricePerPack, 0 for none, and packDraws
  Quantities, Expirations

VARIABLES
  buckets,           \* bkt|<id>|... of every bucket
  nextBucketId,      \* nxt_bkt
  tx,                \* the purchase that is being executed
  stocked,           \* history: units put into each stack
  delivered,         \* history: units of each stack that went to buyers
  unannounced,       \* history: units dropped without an event
  books              \* what the events have told of every bucket

history == <<stocked, delivered, unannounced>>
bucketVars == <<buckets, nextBucketId, tx, approved, pool, nft, history, books>>
vars == <<marketVars, bucketVars>>

BucketIds == 0 .. MaxBuckets - 1
Stacks == 0 .. MaxBucketStacks - 1

Entry == [item : Items, u : Nat]

StockedEntry == [item : Items, u : Nat, stack : Nat]

(* e<k>_<i>, e<k>c<j>, e<k>u and u.  Slots and chunks count from 1 here. *)
Table ==
  [slots : [Stacks -> Seq(Entry)], chunks : [Stacks -> Seq(Nat)],
   units : [Stacks -> Nat], total : Nat]

BucketRecord ==
  [s : Accounts \cup {NoAccount}, nc : Collections, pt : Tokens, p1 : Nat,
   pp : Nat, pd : Seq(Nat), act : BOOLEAN, exp : Nat, fb : Nat,
   rs : Seq(Split), table : Table]

ASSUME BucketAssumption ==
  /\ MaxBuckets \in Nat /\ MaxBucketStacks \in Nat \ {0} /\ BucketChunk \in Nat \ {0}
  /\ MaxBucketEntries \in Nat /\ MaxEntriesPerCall \in Nat
  /\ MaxDrawsPerTx \in Nat /\ MaxStaleRetries \in Nat /\ MaxDrawWork \in Nat
  /\ Stocks \subseteq Seq(StockedEntry) /\ SinglePrices \subseteq Nat
  /\ PackOffers \subseteq [pp : Nat, pd : Seq(Nat)]
  /\ Quantities \subseteq Nat /\ Expirations \subseteq Nat

-----------------------------------------------------------------------------
(* The table of a bucket. *)

EmptyTable ==
  [slots |-> [k \in Stacks |-> <<>>], chunks |-> [k \in Stacks |-> <<>>],
   units |-> [k \in Stacks |-> 0], total |-> 0]

ChunkOf(i) == ((i - 1) \div BucketChunk) + 1

SlotsOfChunk(tb, k, j) == {i \in DOMAIN tb.slots[k] : ChunkOf(i) = j}

(* One entry goes to the next slot of its stack, which may open a chunk. *)
AppendEntry(tb, e) ==
  LET k == e.stack
      sums == tb.chunks[k]
      j == ChunkOf(Len(tb.slots[k]) + 1)
  IN
  [slots |-> [tb.slots EXCEPT ![k] = Append(@, [item |-> e.item, u |-> e.u])],
   chunks |-> [tb.chunks EXCEPT ![k] =
                 IF j > Len(sums) THEN Append(sums, e.u)
                 ELSE [sums EXCEPT ![j] = sums[j] + e.u]],
   units |-> [tb.units EXCEPT ![k] = @ + e.u],
   total |-> tb.total + e.u]

AppendBucketEntries(tb, entries) == FoldLeft(AppendEntry, tb, entries)

(* Mutant of Take: the sum of the first chunk is reduced, whatever slot. *)
TakeFromFirstChunk(tb, k, i, n) ==
  [tb EXCEPT !.slots[k][i].u = @ - n, !.chunks[k][1] = @ - n,
             !.units[k] = @ - n, !.total = @ - n]

Take(tb, k, i, n) ==
  [tb EXCEPT !.slots[k][i].u = @ - n, !.chunks[k][ChunkOf(i)] = @ - n,
             !.units[k] = @ - n, !.total = @ - n]

(* The slots and chunks before a place, and what they count. *)
UnitsIn(tb, k, slots) ==
  Total([i \in slots |-> tb.slots[k][i].u])

ChunksBefore(tb, k, j) == Total([l \in 1 .. j - 1 |-> tb.chunks[k][l]])

(* locate: the slot in which the unit with offset r is found, by way of    *)
(* the chunk sums; empty if the sums disagree with the slots.              *)
Locate(tb, k, r) ==
  {i \in DOMAIN tb.slots[k] :
     LET j == ChunkOf(i)
         before == ChunksBefore(tb, k, j)
                     + UnitsIn(tb, k, {l \in SlotsOfChunk(tb, k, j) : l < i})
     IN
     /\ ChunksBefore(tb, k, j) <= r
     /\ r < ChunksBefore(tb, k, j) + tb.chunks[k][j]
     /\ before <= r /\ r < before + tb.slots[k][i].u}

-----------------------------------------------------------------------------
Bucket(id) == buckets[id]

NoUnits == [k \in Stacks |-> 0]

(* Units that a list of entries puts into each stack. *)
UnitsByStack(entries) ==
  [k \in Stacks |->
     LET wanted(l) == entries[l].stack = k
         amount(l) == entries[l].u
     IN SumOver(entries, wanted, amount)]

Plus(f, g) == [k \in Stacks |-> f[k] + g[k]]

(* The books of somebody who reads the events: per stack what was put in,  *)
(* what was drawn and what was dropped, and the units left in all, which   *)
(* every purchase tells anew.                                              *)
NoEntry ==
  [open |-> FALSE, added |-> NoUnits, drawn |-> NoUnits, dropped |-> NoUnits, left |-> 0]

Told(b, e) ==
  CASE e.type = "bucket_listed" ->
         [b EXCEPT ![e.bucketId].open = TRUE, ![e.bucketId].left = e.units,
                   ![e.bucketId].added = UnitsByStack(e.entries)]
    [] e.type = "bucket_restocked" ->
         [b EXCEPT ![e.bucketId].left = @ + e.unitsAdded,
                   ![e.bucketId].added = Plus(@, UnitsByStack(e.entries))]
    [] e.type = "bucket_draw" -> [b EXCEPT ![e.bucketId].drawn[e.stack] = @ + 1]
    [] e.type = "bucket_entry_dropped" ->
         [b EXCEPT ![e.bucketId].dropped[e.stack] = @ + e.units]
    [] e.type = "bucket_purchase" -> [b EXCEPT ![e.bucketId].left = e.unitsLeft]
    [] e.type \in {"bucket_sold_out", "bucket_delisted"} ->
         [b EXCEPT ![e.bucketId].open = FALSE]

Log(e) == books' = Told(books, e)

(* The items that have, or had, an entry: the markers h|<item> stay when   *)
(* an entry is drawn empty.                                                *)
Stocked(tb) == UNION {{tb.slots[k][i].item : i \in DOMAIN tb.slots[k]} : k \in Stacks}

EntryCount(tb) == Total([k \in Stacks |-> Len(tb.slots[k])])

SumOf(list) == Total([k \in DOMAIN list |-> list[k]])

(* assertEntriesStockable: an item has one entry in a bucket at most. *)
EntriesStockable(tb, nc, s, entries) ==
  /\ Len(entries) \in 1 .. MaxEntriesPerCall
  /\ \A k, l \in DOMAIN entries : entries[k].item = entries[l].item => k = l
  /\ \A k \in DOMAIN entries :
       LET e == entries[k] IN
       /\ CollectionOf[e.item] = nc
       /\ e.u > 0 /\ e.stack \in Stacks
       /\ e.item \notin Stocked(tb)
       /\ CanOffer(s, e.item, e.u)

ListBucket(s, nc, t, p1, pack, exp, entries) ==
  /\ ~cfg.paused
  /\ p1 > 0 \/ pack.pp > 0
  /\ pack.pp > 0 =>
       /\ Len(pack.pd) \in 1 .. MaxBucketStacks
       /\ SumOf(pack.pd) \in 1 .. MaxDrawsPerTx
  /\ PaymentTokenAllowed(t)
  /\ CollectionAllowed(nc)
  /\ EntriesStockable(EmptyTable, nc, s, entries)
  /\ EffectiveFeeBps(nc) + RoyaltyBps(nc) <= 10000
  /\ nextBucketId < MaxBuckets
  /\ buckets' = [buckets EXCEPT ![nextBucketId] =
       [s |-> s, nc |-> nc, pt |-> t, p1 |-> p1, pp |-> pack.pp, pd |-> pack.pd,
        act |-> TRUE, exp |-> exp, fb |-> EffectiveFeeBps(nc),
        rs |-> ResolveRoyaltySplits(nc),
        table |-> AppendBucketEntries(EmptyTable, entries)]]
  /\ nextBucketId' = nextBucketId + 1
  /\ stocked' = [stocked EXCEPT ![nextBucketId] = UnitsByStack(entries)]
  /\ Log(BucketListed(nextBucketId, s, nc, t, p1, pack.pp, pack.pd, exp,
                      EffectiveFeeBps(nc), RoyaltyBps(nc), entries,
                      Total(UnitsByStack(entries))))
  /\ UNCHANGED <<marketVars, tx, approved, pool, nft, delivered, unannounced>>

AddToBucket(id, entries) ==
  LET b == Bucket(id) IN
  /\ ~cfg.paused
  /\ b.act /\ ~IsExpired(b.exp)
  /\ EntryCount(b.table) + Len(entries) <= MaxBucketEntries
  /\ CollectionAllowed(b.nc)
  /\ EntriesStockable(b.table, b.nc, b.s, entries)
  /\ buckets' = [buckets EXCEPT ![id].table = AppendBucketEntries(@, entries)]
  /\ stocked' = [stocked EXCEPT ![id] = Plus(@, UnitsByStack(entries))]
  /\ Log(BucketRestocked(id, b.s, entries, EntryCount(b.table) + Len(entries),
                         Total(UnitsByStack(entries))))
  /\ UNCHANGED <<marketVars, nextBucketId, tx, approved, pool, nft, delivered,
                 unannounced>>

(* Works while the contract is paused. *)
DelistBucket(id) ==
  /\ Bucket(id).act
  /\ buckets' = [buckets EXCEPT ![id].act = FALSE]
  /\ Log(BucketDelisted(id, Bucket(id).s))
  /\ UNCHANGED <<marketVars, nextBucketId, tx, approved, pool, nft, history>>

-----------------------------------------------------------------------------
(* buyFromBucket. *)

Modes == {"single", "pack"}

UnitPrice(b, mode) == IF mode = "single" THEN b.p1 ELSE b.pp

Repeated(n, list) == FlattenSeq([m \in 1 .. n |-> list])

(* The stacks to draw from, in order: a single draw is from stack 0, a     *)
(* pack goes through packDraws.                                            *)
Plan(b, mode, quantity) ==
  IF mode = "single" THEN Repeated(quantity, <<0>>)
  ELSE Repeated(quantity, FlattenSeq([j \in DOMAIN b.pd |-> Repeated(b.pd[j], <<j - 1>>)]))

Wanted(plan, k) == Cardinality({m \in DOMAIN plan : plan[m] = k})

(* A bound on the work of a purchase, from the size of the bucket. *)
DrawWork(b, draws) ==
  LET n == EntryCount(b.table)
      inChunk == IF n > BucketChunk THEN BucketChunk ELSE n
  IN draws * (n \div BucketChunk + inChunk + 8)

NoTx == [on |-> FALSE]

(* Draws of a stack are tried as often as it has slots, within the bound,  *)
(* and once more.                                                          *)
TriesFor(tb, k) ==
  LET n == Len(tb.slots[k]) IN 1 + (IF n > MaxStaleRetries THEN MaxStaleRetries ELSE n)

(* The checks up to the first draw.  A buyer's maxTotalPrice is left out:  *)
(* the prices of a bucket do not change.  Buyers are users, not contracts. *)
BeginPurchase(x, id, mode, quantity) ==
  LET b == Bucket(id)
      plan == Plan(b, mode, quantity)
  IN
  /\ ~cfg.paused
  /\ b.act /\ ~IsExpired(b.exp)
  /\ quantity > 0
  /\ CollectionAllowed(b.nc)
  /\ x # b.s
  /\ PaymentTokenAllowed(b.pt)
  /\ UnitPrice(b, mode) > 0
  /\ Len(plan) <= MaxDrawsPerTx
  /\ DrawWork(b, Len(plan)) <= MaxDrawWork
  /\ Len(plan) <= b.table.total
  /\ \A k \in Stacks : Wanted(plan, k) <= b.table.units[k]
  /\ tx' = [on |-> TRUE, buyer |-> x, id |-> id, mode |-> mode,
            price |-> UnitPrice(b, mode) * quantity,
            plan |-> plan, drawn |-> <<>>, tries |-> TriesFor(b.table, plan[1]),
            table |-> b.table, checked |-> {}, books |-> books,
            unannounced |-> NoUnits]
  /\ UNCHANGED <<marketVars, buckets, nextBucketId, approved, pool, nft, history, books>>

(* The next draw's stack. *)
DrawStack == tx.plan[Len(tx.drawn) + 1]

Drawing == tx.on /\ Len(tx.drawn) < Len(tx.plan)

(* Mutant of BackedUnits: a seller who holds some is taken to hold all. *)
BackedUnitsUnlessGone(s, e) ==
  IF CanPull(e.item, s) /\ nft[e.item][s] > 0 THEN e.u ELSE 0

(* deliverable: how much of an entry the seller could still hand over. *)
BackedUnits(s, e) ==
  IF ~CanPull(e.item, s) THEN 0
  ELSE IF nft[e.item][s] < e.u THEN nft[e.item][s]
  ELSE e.u

(* Mutant of DropEntry: one unit of a stale entry is dropped. *)
DropOneUnit(tb, k, i) == Take(tb, k, i, 1)

DropEntry(tb, k, i) == Take(tb, k, i, tb.slots[k][i].u)

(* One attempt of drawOne.  An entry is asked about once per purchase: if  *)
(* nothing of it can be delivered it is dropped, with an event, and the    *)
(* draw is repeated; if part of it has gone, that part is dropped.         *)
DrawOne ==
  /\ Drawing /\ tx.tries > 0
  /\ LET k == DrawStack
         s == Bucket(tx.id).s
     IN
     \E r \in 0 .. tx.table.units[k] - 1 : \E i \in Locate(tx.table, k, r) :
       LET e == tx.table.slots[k][i]
           backed == IF <<k, i>> \in tx.checked THEN e.u ELSE BackedUnits(s, e)
           pruned == Take(tx.table, k, i, e.u - backed)
           after == Append(tx.drawn, [item |-> e.item, stack |-> k])
       IN
       tx' = IF backed = 0
             THEN [tx EXCEPT !.table = DropEntry(tx.table, k, i),
                             !.tries = @ - 1,
                             !.checked = @ \cup {<<k, i>>},
                             !.books = Told(@, BucketEntryDropped(tx.id, e.item, k, e.u))]
             ELSE [tx EXCEPT !.table = Take(pruned, k, i, 1),
                             !.drawn = after,
                             !.tries = IF Len(after) = Len(tx.plan) THEN 0
                                       ELSE TriesFor(tx.table, tx.plan[Len(after) + 1]),
                             !.checked = @ \cup {<<k, i>>},
                             !.unannounced[k] = @ + e.u - backed]
  /\ UNCHANGED <<marketVars, buckets, nextBucketId, approved, pool, nft, history, books>>

DrawnOf(i) == Cardinality({m \in DOMAIN tx.drawn : tx.drawn[m].item = i})

DrawnFrom == [k \in Stacks |-> Cardinality({m \in DOMAIN tx.drawn : tx.drawn[m].stack = k})]

(* Mutant of Flush: the chunk sums are not written back. *)
FlushWithoutChunks ==
  [buckets EXCEPT ![tx.id].table = [tx.table EXCEPT !.chunks = Bucket(tx.id).table.chunks],
                  ![tx.id].act = tx.table.total # 0]

(* The counters are written back; a bucket with nothing left is closed. *)
Flush ==
  [buckets EXCEPT ![tx.id].table = tx.table, ![tx.id].act = tx.table.total # 0]

(* What a purchase logs at its end: every unit, then the whole, and after  *)
(* that that nothing is left.                                              *)
PurchaseEvents(credited) ==
  LET b == Bucket(tx.id) IN
  [m \in DOMAIN tx.drawn |->
     BucketDraw(tx.id, tx.buyer, tx.drawn[m].item, tx.drawn[m].stack, m - 1)]
  \o <<BucketPurchase(tx.id, tx.buyer, tx.mode, Len(tx.plan), b.pt, credited,
                      FeeOf(credited, b.fb), RoyaltyOf(credited, b.rs), tx.table.total)>>
  \o (IF tx.table.total = 0 THEN <<BucketSoldOut(tx.id, b.s)>> ELSE <<>>)

(* Payment, delivery of everything drawn in one transfer, payout. *)
FinishPurchase(arrived) ==
  LET b == Bucket(tx.id)
      credited == EscrowIn(b.pt, tx.price, arrived)
  IN
  /\ tx.on /\ ~Drawing
  /\ buckets' = Flush
  /\ arrived \in Arrivals(b.pt, tx.price)
  /\ ~EscrowAborts(b.pt, arrived)
  /\ HandOver(tx.buyer, [is \in Items \X Accounts |->
                           IF is[2] = b.s THEN DrawnOf(is[1]) ELSE 0])
  /\ Payable(credited, b.fb, b.rs)
  /\ pool[b.pt] + arrived >= credited
  /\ pool' = [pool EXCEPT ![b.pt] = @ + arrived - credited]
  /\ delivered' = [delivered EXCEPT ![tx.id] = Plus(@, DrawnFrom)]
  /\ unannounced' = [unannounced EXCEPT ![tx.id] = Plus(@, tx.unannounced)]
  /\ books' = FoldLeft(Told, tx.books, PurchaseEvents(credited))
  /\ tx' = NoTx
  /\ UNCHANGED <<marketVars, nextBucketId, stocked>>

(* A stack that ran out, the last attempt, a contract that refuses or the  *)
(* end of the transaction's resources: everything is as before, the stale  *)
(* entries included, and nothing was logged.                               *)
AbortPurchase ==
  /\ tx.on
  /\ tx' = NoTx
  /\ UNCHANGED <<marketVars, buckets, nextBucketId, approved, pool, nft, history, books>>

-----------------------------------------------------------------------------
SetApproval(i, x) ==
  /\ FlipApproval(i, x)
  /\ UNCHANGED <<marketVars, buckets, nextBucketId, tx, pool, nft, history, books>>

(* Holders trade an item without the market. *)
TransferOutside(i, x, y) ==
  /\ MayMoveFrom(i, x)
  /\ x # y
  /\ \E n \in LotSizes : CanMove(i, x, n) /\ nft' = Move(i, x, y, n)
  /\ UNCHANGED <<marketVars, buckets, nextBucketId, tx, approved, pool, history, books>>

NoBucket ==
  [s |-> NoAccount, nc |-> CHOOSE c \in Collections : TRUE,
   pt |-> CHOOSE t \in Tokens : TRUE, p1 |-> 0, pp |-> 0, pd |-> <<>>,
   act |-> FALSE, exp |-> 0, fb |-> 0, rs |-> <<>>, table |-> EmptyTable]

NothingYet == [id \in BucketIds |-> NoUnits]

Init ==
  /\ MarketInit
  /\ buckets = [id \in BucketIds |-> NoBucket]
  /\ nextBucketId = 0
  /\ tx = NoTx
  /\ ApprovalInit
  /\ pool = [t \in Tokens |-> 0]
  /\ nft = [i \in Items |-> [x \in Holders |-> IF x = Market THEN 0 ELSE MintedTo[i][x]]]
  /\ stocked = NothingYet /\ delivered = NothingYet
  /\ unannounced = NothingYet
  /\ books = [id \in BucketIds |-> NoEntry]

Environment == (Tick \/ Configure) /\ UNCHANGED bucketVars

(* What happens between two purchases, and the start of one. *)
NextTransaction ==
  \/ Environment
  \/ \E s \in Accounts, nc \in Collections, t \in Tokens, p1 \in SinglePrices,
        pack \in PackOffers, exp \in Expirations, entries \in Stocks :
       ListBucket(s, nc, t, p1, pack, exp, entries)
  \/ \E id \in BucketIds, entries \in Stocks : AddToBucket(id, entries)
  \/ \E id \in BucketIds : DelistBucket(id)
  \/ \E x \in Accounts, id \in BucketIds, mode \in Modes, q \in Quantities :
       BeginPurchase(x, id, mode, q)
  \/ \E ix \in Allowances : SetApproval(ix[1], ix[2])
  \/ \E ixy \in OutsideTrades : TransferOutside(ixy[1], ixy[2], ixy[3])

Next ==
  \/ ~tx.on /\ NextTransaction
  \/ DrawOne
  \/ tx.on /\ \E arrived \in 0 .. tx.price : FinishPurchase(arrived)
  \/ AbortPurchase

Spec == Init /\ [][Next]_vars

-----------------------------------------------------------------------------
TypeOK ==
  /\ MarketTypeOK
  /\ buckets \in [BucketIds -> BucketRecord]
  /\ nextBucketId \in 0 .. MaxBuckets
  /\ approved \subseteq Items \X Accounts
  /\ pool \in [Tokens -> Nat]
  /\ nft \in [Items -> [Holders -> Nat]]
  /\ \A f \in {stocked, delivered, unannounced} :
       f \in [BucketIds -> [Stacks -> Nat]]
  /\ tx.on => /\ tx.buyer \in Accounts /\ tx.id \in BucketIds /\ tx.price \in Nat
              /\ tx.plan \in Seq(Stacks) /\ tx.drawn \in Seq([item : Items, stack : Stacks])
              /\ tx.table \in Table /\ tx.tries \in Nat

(* The table a purchase works on, or the stored one. *)
Tables ==
  {Bucket(id).table : id \in BucketIds} \cup (IF tx.on THEN {tx.table} ELSE {})

(* The four counts of a bucket's units agree: every chunk sum with the     *)
(* slots of the chunk, every stack with its slots, the bucket with its     *)
(* stacks, in the stored state and in the copy a purchase works on         *)
(* (appendBucketEntries, take, flush; internal.go says they can drift).    *)
CountersAgree ==
  \A tb \in Tables :
    /\ tb.total = Total(tb.units)
    /\ \A k \in Stacks :
         /\ tb.units[k] = UnitsIn(tb, k, DOMAIN tb.slots[k])
         /\ \A j \in DOMAIN tb.chunks[k] :
              tb.chunks[k][j] = UnitsIn(tb, k, SlotsOfChunk(tb, k, j))

(* Whatever the seed says, a draw finds exactly one entry, and one with    *)
(* units left: "Bucket entry table is inconsistent" never happens, also    *)
(* after entries were drawn empty or dropped in the same purchase.         *)
DrawFindsOneEntry ==
  Drawing =>
    \A r \in 0 .. tx.table.units[DrawStack] - 1 :
      Cardinality(Locate(tx.table, DrawStack, r)) = 1

(* What a purchase has drawn so far of an item the seller still holds,     *)
(* although the seller's balance is asked once per entry and the same      *)
(* entry can be drawn again and again: the one transfer at the end never   *)
(* fails for lack of units (deliverable, its cache, and the rule that an   *)
(* item has one entry).                                                    *)
DrawnUnitsHeld ==
  tx.on => \A i \in Items : DrawnOf(i) <= nft[i][Bucket(tx.id).s]

(* Every unit ever put into a stack is still counted there, went to a      *)
(* buyer, or was dropped because the seller could not deliver it; the log  *)
(* tells of every unit put in and drawn, and after every purchase whether  *)
(* the bucket is open and how much is left in all, whatever was dropped    *)
(* without an event.                                                       *)
UnitsAccounted ==
  \A id \in BucketIds :
    LET b == Bucket(id)
        told == books[id]
    IN
    /\ told.open = b.act
    /\ told.added = stocked[id] /\ told.drawn = delivered[id]
    /\ told.left = b.table.total
    /\ \A k \in Stacks :
         stocked[id][k] = b.table.units[k] + delivered[id][k] + told.dropped[k]
                            + unannounced[id][k]

(* docs/bucket-events.md: a mirror that adds the entries of bucket_listed  *)
(* and bucket_restocked to their stacks and takes away the units of        *)
(* bucket_draw and bucket_entry_dropped has the units of every stack.      *)
EventsMirrorStacks ==
  \A id \in BucketIds : \A k \in Stacks :
    LET told == books[id] IN
    Bucket(id).table.units[k] = told.added[k] - told.drawn[k] - told.dropped[k]
=============================================================================
