---------------------------- MODULE AuctionProofs ---------------------------
(***************************************************************************)
(* The safety properties of Auction, proved for any number of accounts,    *)
(* items, tokens and auctions, any royalties and any configuration; then   *)
(* those of Rescue: what emergencyWithdraw leaves alone, that auctions     *)
(* keep what they need next to stray money and withdrawals, and that the   *)
(* log tells auctions truthfully.                                          *)
(***************************************************************************)
EXTENDS Rescue, MarketProofs

(* What LotFollowsMoney says of one auction. *)
Situation(id) ==
  IF id >= nextAuctionId THEN Untouched(id)
  ELSE Running(id) \/ Sold(id) \/ Returned(id)

(* The typing is inductive only together with the books: that a refund     *)
(* does not make a stake negative takes LotFollowsMoney.                   *)
Books == MarketInv /\ TypeOK /\ LotFollowsMoney

(* An auction that a step does not touch stays in its situation.           *)
LEMMA OthersKeepSituation ==
  ASSUME NEW id \in AuctionIds, Situation(id), nextAuctionId' = nextAuctionId,
         auctions'[id] = auctions[id], lotAt'[id] = lotAt[id],
         stake'[id] = stake[id], proceeds'[id] = proceeds[id]
  PROVE  Situation(id)'
BY DEF Situation, Untouched, Running, Sold, Returned, IsOpen, Sale

(* What the books say of one auction.                                      *)
LEMMA BooksOf ==
  ASSUME Books, NEW id \in AuctionIds
  PROVE  /\ Situation(id)
         /\ auctions[id] \in AuctionRecord
         /\ stake[id] \in [Accounts -> Nat] /\ proceeds[id] \in Nat
         /\ nextAuctionId \in Nat /\ id \in Nat
BY AuctionAssumption DEF Books, TypeOK, LotFollowsMoney, Situation, AuctionIds

(* An auction somebody can still bid on or close is not over. *)
LEMMA OpenIsRunning ==
  ASSUME Books, NEW id \in AuctionIds, IsOpen(id)
  PROVE  Running(id) /\ id < nextAuctionId
BY BooksOf DEF Situation, Untouched, Sold, Returned, IsOpen

(* The standing bid of an open auction is that bidder's whole stake. *)
LEMMA RefundIsStake ==
  ASSUME Books, NEW id \in AuctionIds, IsOpen(id)
  PROVE  /\ Refund(id) = Sale(id).ha /\ Sale(id).ha \in Nat
         /\ stake[id] = Only(Sale(id).hb, Refund(id))
         /\ Sale(id).ha # 0 => HasBid(id) /\ Sale(id).hb \in Accounts \ {Sale(id).s}
         /\ Sale(id).ha = 0 => Sale(id).hb = NoAccount
<1>1. Running(id) /\ auctions[id] \in AuctionRecord
  BY OpenIsRunning, BooksOf
<1>2. Sale(id).ha \in Nat
  BY <1>1 DEF Sale, AuctionRecord
<1>3. CASE Sale(id).hb = NoAccount /\ Sale(id).ha = 0 /\ stake[id] = Nobody
  <2>1. Refund(id) = 0
    BY <1>3 DEF Refund, HasBid
  <2>2. Only(Sale(id).hb, 0) = Nobody
    BY DEF Only, Nobody
  <2> QED
    BY <1>2, <1>3, <2>1, <2>2
<1>4. CASE /\ Sale(id).at = "english" /\ Sale(id).hb \in Accounts \ {Sale(id).s}
           /\ Sale(id).ha > 0 /\ stake[id] = Only(Sale(id).hb, Sale(id).ha)
  <2>1. HasBid(id)
    BY <1>2, <1>4, AccountAssumption DEF HasBid
  <2>2. Refund(id) = Sale(id).ha
    BY <2>1 DEF Refund
  <2> QED
    BY <1>2, <1>4, <2>1, <2>2
<1> QED
  BY <1>1, <1>3, <1>4 DEF Running

-----------------------------------------------------------------------------
(* What was credited for a deposit is what arrived. *)
LEMMA CreditedArrived ==
  ASSUME Books, NEW t \in Tokens, NEW requested, NEW arrived \in Arrivals(t, requested)
  PROVE  EscrowIn(t, requested, arrived) = arrived
BY DepositCredited DEF Books, MarketInv

(* One auction's record, lot and money change; the others keep theirs. *)
LEMMA OneSituation ==
  ASSUME Books, MarketInv', TypeOK', NEW id \in AuctionIds, Situation(id)',
         nextAuctionId' = nextAuctionId,
         \A j \in AuctionIds \ {id} :
           /\ auctions'[j] = auctions[j] /\ lotAt'[j] = lotAt[j]
           /\ stake'[j] = stake[j] /\ proceeds'[j] = proceeds[j]
  PROVE  Books'
<1>1. ASSUME NEW j \in AuctionIds
      PROVE  Situation(j)'
  <2>1. CASE j = id
    BY <2>1
  <2>2. CASE j # id
    BY <2>2, BooksOf, OthersKeepSituation
  <2> QED
    BY <2>1, <2>2
<1> QED
  BY <1>1 DEF Books, LotFollowsMoney, Situation

(* A bid on an English auction takes the place of the standing one. *)
LEMMA PlaceBidEnglishBooks ==
  ASSUME Books, NEW id \in AuctionIds, NEW x \in Accounts, NEW bid \in Nat,
         NEW arrived \in Nat, PlaceBidEnglish(id, x, bid, arrived)
  PROVE  Books'
<1> DEFINE au == auctions[id]
           received == EscrowIn(au.pt, bid, arrived)
           e == ExtendedEnd(au.eb)
           au2 == [au EXCEPT !.hb = x, !.ha = received, !.eb = e]
<1>1. au \in AuctionRecord /\ au.pt \in Tokens /\ au.eb \in Nat
  BY BooksOf DEF AuctionRecord
<1>2. /\ IsOpen(id) /\ x # au.s /\ au.at = "english"
      /\ pool[au.pt] + arrived >= Refund(id)
      /\ arrived \in Arrivals(au.pt, bid)
      /\ ~EscrowAborts(au.pt, arrived)
      /\ bid > 0
      /\ RefundCovered(id, received)
      /\ ReplaceBid(id, x, received, arrived)
  BY DEF PlaceBidEnglish, BidAccepted, BidHighEnough, ReplaceBid, Sale
<1>3. received = arrived /\ received \in Nat
  BY <1>1, <1>2, CreditedArrived
<1>4. received > 0
  BY <1>1, <1>2, <1>3 DEF EscrowAborts, EscrowIn
<1>5. e \in Nat
  <2>1. height \in Nat /\ cfg.antiSnipe \in Nat
    BY DEF Books, MarketInv, MarketTypeOK, Config
  <2>2. (height + cfg.antiSnipe) % Word \in Nat
    BY <2>1, CustodyAssumption
  <2> QED
    BY <1>1, <2>2 DEF ExtendedEnd
<1>6. Running(id) /\ Refund(id) \in Nat /\ stake[id] = Only(au.hb, Refund(id))
  BY <1>2, OpenIsRunning, RefundIsStake DEF Sale
<1> HIDE DEF au, received, e
<1>7. au2 \in AuctionRecord
  BY <1>1, <1>3, <1>5 DEF AuctionRecord
<1>8. auctions' = [auctions EXCEPT ![id] = au2]
  BY <1>2 DEF ReplaceBid, Sale, au, received, e
<1>9. stake' = [stake EXCEPT ![id] = Only(x, received)]
  <2> DEFINE new == [y \in Accounts |->
               (IF y = au.hb THEN stake[id][y] - Refund(id) ELSE stake[id][y])
                 + (IF y = x THEN received ELSE 0)]
  <2>1. stake' = [stake EXCEPT ![id] = new]
    BY <1>2 DEF ReplaceBid, Sale, au
  <2>2. ASSUME NEW y \in Accounts
        PROVE  new[y] = IF y = x THEN received ELSE 0
    <3>1. stake[id][y] = IF y = au.hb THEN Refund(id) ELSE 0
      BY <1>6 DEF Only
    <3> QED
      BY <1>3, <1>6, <3>1
  <2>3. new = Only(x, received)
    BY <2>2 DEF Only
  <2> QED
    BY <2>1, <2>3
<1>10. /\ UNCHANGED <<marketVars, nextAuctionId, nft, lotAt, proceeds>>
       /\ pool' = [pool EXCEPT ![au.pt] = @ + arrived - Refund(id)]
  BY <1>2 DEF ReplaceBid, Sale, au
<1>11. /\ auctions \in [AuctionIds -> AuctionRecord] /\ pool \in [Tokens -> Nat]
       /\ stake \in [AuctionIds -> [Accounts -> Nat]]
  BY DEF Books, TypeOK
<1>12. auctions'[id] = au2 /\ stake'[id] = Only(x, received)
  BY <1>8, <1>9, <1>11
<1>13. TypeOK'
  <2>1. auctions' \in [AuctionIds -> AuctionRecord]
    BY <1>7, <1>8, <1>11
  <2>2. Only(x, received) \in [Accounts -> Nat]
    BY <1>3 DEF Only
  <2>3. stake' \in [AuctionIds -> [Accounts -> Nat]]
    BY <1>9, <1>11, <2>2
  <2>4. pool[au.pt] + arrived - Refund(id) \in Nat
    BY <1>1, <1>2, <1>3, <1>6, <1>11
  <2>5. pool' \in [Tokens -> Nat]
    BY <1>10, <1>11, <2>4
  <2> QED
    BY <1>10, <2>1, <2>3, <2>5 DEF Books, TypeOK, MarketTypeOK, marketVars
<1>14. Running(id)'
  <2>1. /\ au2.act = au.act /\ au2.stl = au.stl /\ au2.s = au.s /\ au2.at = au.at
        /\ au2.hb = x /\ au2.ha = received
    BY <1>1 DEF AuctionRecord
  <2> QED
    BY <1>2, <1>4, <1>6, <1>10, <1>12, <2>1, AccountAssumption
    DEF Running, IsOpen, Sale, au
<1>15. Situation(id)'
  BY <1>2, <1>10, <1>14, OpenIsRunning, BooksOf DEF Situation
<1>16. MarketInv'
  BY <1>10, UnchangedMarketInv DEF Books
<1> QED
  BY <1>8, <1>9, <1>10, <1>11, <1>13, <1>15, <1>16, OneSituation

(* A Dutch auction is sold in the step that bids on it. *)
LEMMA PlaceBidDutchBooks ==
  ASSUME Books, NEW id \in AuctionIds, NEW x \in Accounts, NEW bid \in Nat,
         NEW arrived \in Nat, PlaceBidDutch(id, x, bid, arrived)
  PROVE  Books'
<1> DEFINE au == auctions[id]
           price == DutchPrice(au.sp, au.ep, au.sb, au.eb, height) * au.a
           received == EscrowIn(au.pt, price, arrived)
           au2 == [au EXCEPT !.hb = x, !.ha = received, !.stl = TRUE, !.act = FALSE]
<1>1. /\ au \in AuctionRecord /\ au.pt \in Tokens /\ au.a \in Nat /\ au.item \in Items
      /\ stake[id] \in [Accounts -> Nat]
  BY BooksOf DEF AuctionRecord
<1>2. /\ IsOpen(id) /\ x # au.s /\ au.at = "dutch"
      /\ pool[au.pt] + arrived >= received
      /\ arrived \in Arrivals(au.pt, price)
      /\ received >= price
      /\ CanMove(au.item, Market, au.a)
      /\ auctions' = [auctions EXCEPT ![id].hb = x, ![id].ha = received,
                                      ![id].stl = TRUE, ![id].act = FALSE]
      /\ pool' = [pool EXCEPT ![au.pt] = @ + arrived - received]
      /\ nft' = Move(au.item, Market, x, au.a)
      /\ lotAt' = [lotAt EXCEPT ![id] = x]
      /\ stake' = [stake EXCEPT ![id][x] = @ + received]
      /\ proceeds' = [proceeds EXCEPT ![id] = @ + received]
      /\ UNCHANGED <<marketVars, nextAuctionId>>
  BY DEF PlaceBidDutch, BidAccepted, Sale
<1>3. Running(id) /\ id < nextAuctionId
  BY <1>2, OpenIsRunning
<1>4. stake[id] = Nobody /\ proceeds[id] = 0 /\ au.s \in Accounts
  BY <1>2, <1>3 DEF Running, Sale
<1>5. received = arrived /\ received \in Nat
  BY <1>1, <1>2, CreditedArrived
<1> HIDE DEF au, received, price
<1>6. au2 \in AuctionRecord
  BY <1>1, <1>5 DEF AuctionRecord
<1>7. auctions' = [auctions EXCEPT ![id] = au2]
  BY <1>2 DEF au, received, price
<1>8. stake' = [stake EXCEPT ![id] = Only(x, received)]
  <2> DEFINE new == [stake[id] EXCEPT ![x] = @ + received]
  <2>1. stake' = [stake EXCEPT ![id] = new]
    BY <1>2
  <2>2. new = Only(x, received)
    BY <1>4, <1>5 DEF Nobody, Only
  <2> QED
    BY <2>1, <2>2
<1>9. proceeds' = [proceeds EXCEPT ![id] = received]
  <2>1. proceeds[id] + received = received
    BY <1>4, <1>5
  <2> QED
    BY <1>2, <2>1
<1>10. /\ auctions \in [AuctionIds -> AuctionRecord] /\ pool \in [Tokens -> Nat]
       /\ stake \in [AuctionIds -> [Accounts -> Nat]]
       /\ nft \in [Items -> [Holders -> Nat]]
       /\ lotAt \in [AuctionIds -> Holders \cup {NoAccount}]
       /\ proceeds \in [AuctionIds -> Nat]
  BY DEF Books, TypeOK
<1>11. /\ auctions'[id] = au2 /\ stake'[id] = Only(x, received)
       /\ lotAt'[id] = x /\ proceeds'[id] = received
  BY <1>2, <1>7, <1>8, <1>9, <1>10
<1>12. TypeOK'
  <2>1. auctions' \in [AuctionIds -> AuctionRecord]
    BY <1>6, <1>7, <1>10
  <2>2. Only(x, received) \in [Accounts -> Nat]
    BY <1>5 DEF Only
  <2>3. stake' \in [AuctionIds -> [Accounts -> Nat]]
    BY <1>8, <1>10, <2>2
  <2>4. pool' \in [Tokens -> Nat]
    BY <1>1, <1>2, <1>5, <1>10
  <2>5. nft' \in [Items -> [Holders -> Nat]]
    BY <1>1, <1>2, <1>10, MoveBalances, CustodyAssumption DEF Holders
  <2>6. lotAt' \in [AuctionIds -> Holders \cup {NoAccount}]
    BY <1>2, <1>10 DEF Holders
  <2>7. proceeds' \in [AuctionIds -> Nat]
    BY <1>5, <1>9, <1>10
  <2> QED
    BY <1>2, <2>1, <2>3, <2>4, <2>5, <2>6, <2>7
    DEF Books, TypeOK, MarketTypeOK, marketVars
<1>13. Sold(id)'
  <2>1. au2.act = FALSE /\ au2.s = au.s /\ au2.hb = x /\ au2.ha = received
    BY <1>1 DEF AuctionRecord
  <2> QED
    BY <1>2, <1>4, <1>11, <2>1 DEF Sold, IsOpen, Sale
<1>14. Situation(id)'
  BY <1>2, <1>3, <1>13, BooksOf DEF Situation
<1>15. MarketInv'
  BY <1>2, UnchangedMarketInv DEF Books
<1> QED
  BY <1>2, <1>7, <1>8, <1>9, <1>10, <1>12, <1>14, <1>15, OneSituation

(* The record with which an auction ends, and the lot that leaves. *)
LEMMA LotLeaves ==
  ASSUME Books, NEW id \in AuctionIds, IsOpen(id), NEW y \in Accounts, NEW au2,
         au2 \in {[auctions[id] EXCEPT !.act = FALSE],
                 [auctions[id] EXCEPT !.stl = TRUE, !.act = FALSE]},
         auctions' = [auctions EXCEPT ![id] = au2],
         CanMove(Sale(id).item, Market, Sale(id).a),
         nft' = Move(Sale(id).item, Market, y, Sale(id).a),
         lotAt' = [lotAt EXCEPT ![id] = y],
         UNCHANGED <<marketVars, nextAuctionId>>
  PROVE  /\ auctions' \in [AuctionIds -> AuctionRecord]
         /\ nft' \in [Items -> [Holders -> Nat]]
         /\ lotAt' \in [AuctionIds -> Holders \cup {NoAccount}]
         /\ MarketInv'
         /\ ~IsOpen(id)' /\ lotAt'[id] = y
         /\ auctions'[id].s = auctions[id].s
         /\ auctions'[id].hb = auctions[id].hb
         /\ auctions'[id].ha = auctions[id].ha
         /\ \A j \in AuctionIds \ {id} :
              auctions'[j] = auctions[j] /\ lotAt'[j] = lotAt[j]
         /\ id < nextAuctionId'
<1> DEFINE au == auctions[id]
<1>1. au \in AuctionRecord /\ au.item \in Items /\ au.a \in Nat
  BY BooksOf DEF AuctionRecord
<1>2. /\ auctions \in [AuctionIds -> AuctionRecord]
      /\ nft \in [Items -> [Holders -> Nat]]
      /\ lotAt \in [AuctionIds -> Holders \cup {NoAccount}]
  BY DEF Books, TypeOK
<1>3. au2 \in AuctionRecord
  BY <1>1 DEF AuctionRecord
<1>4. au2.act = FALSE /\ au2.s = au.s /\ au2.hb = au.hb /\ au2.ha = au.ha
  BY <1>1 DEF AuctionRecord
<1> HIDE DEF au
<1>5. auctions'[id] = au2 /\ lotAt'[id] = y
  BY <1>2
<1>6. auctions' \in [AuctionIds -> AuctionRecord]
  BY <1>2, <1>3
<1>7. nft' \in [Items -> [Holders -> Nat]]
  BY <1>1, <1>2, MoveBalances, CustodyAssumption DEF Holders, Sale, au
<1>8. lotAt' \in [AuctionIds -> Holders \cup {NoAccount}]
  BY <1>2 DEF Holders
<1>9. MarketInv'
  BY UnchangedMarketInv DEF Books
<1>10. ~IsOpen(id)'
  BY <1>4, <1>5 DEF IsOpen, Sale
<1>11. \A j \in AuctionIds \ {id} : auctions'[j] = auctions[j] /\ lotAt'[j] = lotAt[j]
  BY <1>2
<1>12. id < nextAuctionId'
  BY OpenIsRunning
<1> QED
  BY <1>4, <1>5, <1>6, <1>7, <1>8, <1>9, <1>10, <1>11, <1>12 DEF au

(* Settling without a sale leaves the auction returned.                    *)
LEMMA SettleNoSaleBooks ==
  ASSUME Books, NEW id \in AuctionIds, SettleNoSale(id)
  PROVE  Books'
<1> DEFINE au == auctions[id]
           au2 == [au EXCEPT !.stl = TRUE, !.act = FALSE]
<1>1. /\ IsOpen(id) /\ CanMove(au.item, Market, au.a) /\ pool[au.pt] >= Refund(id)
      /\ auctions' = [auctions EXCEPT ![id] = au2]
      /\ nft' = Move(au.item, Market, au.s, au.a)
      /\ pool' = [pool EXCEPT ![au.pt] = @ - Refund(id)]
      /\ lotAt' = [lotAt EXCEPT ![id] = au.s]
      /\ stake' = [stake EXCEPT ![id] =
            [y \in Accounts |-> IF y = au.hb THEN stake[id][y] - Refund(id) ELSE stake[id][y]]]
      /\ UNCHANGED <<marketVars, nextAuctionId, proceeds>>
  BY DEF SettleNoSale, CanSettle, Closed, Sale
<1>2. au \in AuctionRecord /\ au.pt \in Tokens
  BY BooksOf DEF AuctionRecord
<1>3. Running(id) /\ Refund(id) \in Nat /\ stake[id] = Only(au.hb, Refund(id))
  BY <1>1, OpenIsRunning, RefundIsStake DEF Sale
<1>4. au.s \in Accounts /\ proceeds[id] = 0
  BY <1>3 DEF Running, Sale
<1>5. stake' = [stake EXCEPT ![id] = Nobody]
  <2> DEFINE new == [y \in Accounts |->
               IF y = au.hb THEN stake[id][y] - Refund(id) ELSE stake[id][y]]
  <2>1. new = Nobody
    BY <1>3 DEF Only, Nobody
  <2>2. stake' = [stake EXCEPT ![id] = new]
    BY <1>1
  <2> QED
    BY <2>1, <2>2
<1>6. /\ stake \in [AuctionIds -> [Accounts -> Nat]] /\ pool \in [Tokens -> Nat]
      /\ proceeds \in [AuctionIds -> Nat] /\ nextAuctionId \in 0 .. MaxAuctions
  BY DEF Books, TypeOK
<1>7. /\ auctions' \in [AuctionIds -> AuctionRecord]
      /\ nft' \in [Items -> [Holders -> Nat]]
      /\ lotAt' \in [AuctionIds -> Holders \cup {NoAccount}]
      /\ MarketInv' /\ ~IsOpen(id)' /\ lotAt'[id] = au.s /\ auctions'[id].s = au.s
      /\ \A j \in AuctionIds \ {id} :
           auctions'[j] = auctions[j] /\ lotAt'[j] = lotAt[j]
      /\ id < nextAuctionId'
  BY <1>1, <1>4, LotLeaves DEF Sale
<1> HIDE DEF au
<1>8. stake' \in [AuctionIds -> [Accounts -> Nat]] /\ stake'[id] = Nobody
  BY <1>5, <1>6 DEF Nobody
<1>9. pool' \in [Tokens -> Nat]
  BY <1>1, <1>2, <1>3, <1>6
<1>10. TypeOK'
  BY <1>1, <1>6, <1>7, <1>8, <1>9 DEF TypeOK, MarketInv
<1>11. Returned(id)'
  BY <1>1, <1>4, <1>7, <1>8 DEF Returned, Sale
<1>12. Situation(id)'
  BY <1>7, <1>11, <1>1, <1>6, BooksOf DEF Situation
<1> QED
  BY <1>1, <1>5, <1>6, <1>7, <1>10, <1>12, OneSituation

(* Settling with a sale leaves the auction sold to its standing bidder.    *)
LEMMA SettleSaleBooks ==
  ASSUME Books, NEW id \in AuctionIds, SettleSale(id)
  PROVE  Books'
<1> DEFINE au == auctions[id]
           au2 == [au EXCEPT !.stl = TRUE, !.act = FALSE]
<1>1. /\ IsOpen(id) /\ HasBid(id) /\ CanMove(au.item, Market, au.a) /\ pool[au.pt] >= au.ha
      /\ auctions' = [auctions EXCEPT ![id] = au2]
      /\ nft' = Move(au.item, Market, au.hb, au.a)
      /\ pool' = [pool EXCEPT ![au.pt] = @ - au.ha]
      /\ lotAt' = [lotAt EXCEPT ![id] = au.hb]
      /\ proceeds' = [proceeds EXCEPT ![id] = @ + au.ha]
      /\ UNCHANGED <<marketVars, nextAuctionId, stake>>
  BY DEF SettleSale, CanSettle, Closed, Sale
<1>2. au \in AuctionRecord /\ au.pt \in Tokens
  BY BooksOf DEF AuctionRecord
<1>3. /\ Running(id) /\ au.ha \in Nat /\ stake[id] = Only(au.hb, au.ha)
      /\ au.hb \in Accounts \ {au.s}
  BY <1>1, OpenIsRunning, RefundIsStake DEF Sale, HasBid
<1>4. au.s \in Accounts /\ proceeds[id] = 0
  BY <1>3 DEF Running, Sale
<1>5. /\ stake \in [AuctionIds -> [Accounts -> Nat]] /\ pool \in [Tokens -> Nat]
      /\ proceeds \in [AuctionIds -> Nat] /\ nextAuctionId \in 0 .. MaxAuctions
  BY DEF Books, TypeOK
<1>6. proceeds' = [proceeds EXCEPT ![id] = au.ha]
  <2>1. proceeds[id] + au.ha = au.ha
    BY <1>3, <1>4
  <2> QED
    BY <1>1, <2>1
<1>7. /\ auctions' \in [AuctionIds -> AuctionRecord]
      /\ nft' \in [Items -> [Holders -> Nat]]
      /\ lotAt' \in [AuctionIds -> Holders \cup {NoAccount}]
      /\ MarketInv' /\ ~IsOpen(id)' /\ lotAt'[id] = au.hb
      /\ auctions'[id].s = au.s /\ auctions'[id].hb = au.hb /\ auctions'[id].ha = au.ha
      /\ \A j \in AuctionIds \ {id} :
           auctions'[j] = auctions[j] /\ lotAt'[j] = lotAt[j]
      /\ id < nextAuctionId'
  BY <1>1, <1>3, LotLeaves DEF Sale
<1> HIDE DEF au
<1>8. proceeds' \in [AuctionIds -> Nat] /\ proceeds'[id] = au.ha
  BY <1>3, <1>5, <1>6
<1>9. pool' \in [Tokens -> Nat]
  BY <1>1, <1>2, <1>3, <1>5
<1>10. TypeOK'
  BY <1>1, <1>5, <1>7, <1>8, <1>9 DEF TypeOK, MarketInv
<1>11. Sold(id)'
  BY <1>1, <1>3, <1>4, <1>7, <1>8 DEF Sold, Sale
<1>12. Situation(id)'
  BY <1>7, <1>11, <1>1, <1>5, BooksOf DEF Situation
<1> QED
  BY <1>1, <1>5, <1>6, <1>7, <1>10, <1>12, OneSituation

(* Cancelling leaves the auction returned: nobody had money in it.         *)
LEMMA CancelAuctionBooks ==
  ASSUME Books, NEW id \in AuctionIds, CancelAuction(id)
  PROVE  Books'
<1> DEFINE au == auctions[id]
           au2 == [au EXCEPT !.act = FALSE]
<1>1. /\ CanCancel(id) /\ IsOpen(id) /\ CanMove(au.item, Market, au.a)
      /\ auctions' = [auctions EXCEPT ![id] = au2]
      /\ nft' = Move(au.item, Market, au.s, au.a)
      /\ lotAt' = [lotAt EXCEPT ![id] = au.s]
      /\ UNCHANGED <<marketVars, nextAuctionId, pool, stake, proceeds>>
  BY DEF CancelAuction, CanCancel, Sale
<1>2. Running(id)
  BY <1>1, OpenIsRunning
<1>3. au.s \in Accounts /\ proceeds[id] = 0 /\ stake[id] = Nobody
  BY <1>1, <1>2, AccountAssumption DEF Running, Sale, CanCancel
<1>4. /\ stake \in [AuctionIds -> [Accounts -> Nat]] /\ pool \in [Tokens -> Nat]
      /\ proceeds \in [AuctionIds -> Nat] /\ nextAuctionId \in 0 .. MaxAuctions
  BY DEF Books, TypeOK
<1>5. /\ auctions' \in [AuctionIds -> AuctionRecord]
      /\ nft' \in [Items -> [Holders -> Nat]]
      /\ lotAt' \in [AuctionIds -> Holders \cup {NoAccount}]
      /\ MarketInv' /\ ~IsOpen(id)' /\ lotAt'[id] = au.s /\ auctions'[id].s = au.s
      /\ \A j \in AuctionIds \ {id} :
           auctions'[j] = auctions[j] /\ lotAt'[j] = lotAt[j]
      /\ id < nextAuctionId'
  BY <1>1, <1>3, LotLeaves DEF Sale
<1> HIDE DEF au
<1>6. TypeOK'
  BY <1>1, <1>4, <1>5 DEF TypeOK, MarketInv
<1>7. Returned(id)'
  BY <1>1, <1>3, <1>5 DEF Returned, Sale
<1>8. Situation(id)'
  BY <1>1, <1>4, <1>5, <1>7, BooksOf DEF Situation
<1> QED
  BY <1>1, <1>4, <1>5, <1>6, <1>8, OneSituation

(* The first identifier not yet in use gets a running auction. *)
LEMMA CreateAuctionBooks ==
  ASSUME Books, NEW s \in Accounts, NEW i \in Items, NEW n \in LotSizes,
         NEW t \in Tokens, NEW kind \in AuctionTypes, NEW sp \in StartPrices,
         NEW ep \in EndPrices, NEW sb \in StartBlocks, NEW eb \in EndBlocks,
         CreateAuction(s, i, n, t, kind, sp, ep, sb, eb)
  PROVE  Books'
<1>0. PICK id \in AuctionIds : id = nextAuctionId
  BY AuctionAssumption DEF Books, TypeOK, AuctionIds, CreateAuction, OpenAuction
<1> DEFINE first == IF sb = 0 THEN height ELSE sb
           c == CollectionOf[i]
           low == IF kind = "dutch" THEN ep ELSE 0
           au == [s |-> s, item |-> i, a |-> n, pt |-> t, at |-> kind,
                  sp |-> sp, ep |-> low, sb |-> first, eb |-> eb,
                  act |-> TRUE, stl |-> FALSE,
                  fb |-> EffectiveFeeBps(c), rs |-> ResolveRoyaltySplits(c),
                  hb |-> NoAccount, ha |-> 0]
<1>1. /\ id < MaxAuctions /\ CanMove(i, s, n)
      /\ auctions' = [auctions EXCEPT ![id] = au]
      /\ nextAuctionId' = nextAuctionId + 1
      /\ nft' = Move(i, s, Market, n)
      /\ lotAt' = [lotAt EXCEPT ![id] = Market]
      /\ UNCHANGED <<marketVars, pool, stake, proceeds>>
  BY <1>0 DEF CreateAuction, OpenAuction
<1>2. id \in AuctionIds /\ id \in Nat
  BY BooksOf
<1>3. Untouched(id)
  BY <1>0, BooksOf DEF Situation
<1>4. au \in AuctionRecord
  <2>1. c \in Collections
    BY CustodyAssumption
  <2>2. EffectiveFeeBps(c) \in Nat /\ ResolveRoyaltySplits(c) \in Seq(Split)
    BY <2>1, ReadersType DEF Books, MarketInv
  <2>3. first \in Nat /\ low \in Nat /\ n \in Nat /\ sp \in Nat /\ eb \in Nat
    BY AuctionAssumption, CustodyAssumption DEF Books, MarketInv, MarketTypeOK
  <2>4. kind \in {"english", "dutch"}
    BY AuctionAssumption
  <2> HIDE DEF c, first, low
  <2> QED
    BY <2>2, <2>3, <2>4 DEF AuctionRecord
<1>5. /\ au.act = TRUE /\ au.stl = FALSE /\ au.s = s
      /\ au.hb = NoAccount /\ au.ha = 0
  OBVIOUS
<1> HIDE DEF au
<1>6. /\ auctions \in [AuctionIds -> AuctionRecord]
      /\ nft \in [Items -> [Holders -> Nat]]
      /\ lotAt \in [AuctionIds -> Holders \cup {NoAccount}]
      /\ nextAuctionId \in 0 .. MaxAuctions /\ MaxAuctions \in Nat
  BY AuctionAssumption DEF Books, TypeOK
<1>7. auctions'[id] = au /\ lotAt'[id] = Market
  BY <1>1, <1>2, <1>6
<1>8. MarketInv'
  BY <1>1, UnchangedMarketInv DEF Books
<1>9. TypeOK'
  <2>1. auctions' \in [AuctionIds -> AuctionRecord]
    BY <1>1, <1>4, <1>6
  <2>2. nft' \in [Items -> [Holders -> Nat]]
    BY <1>1, <1>6, MoveBalances, CustodyAssumption DEF Holders
  <2>3. lotAt' \in [AuctionIds -> Holders \cup {NoAccount}]
    BY <1>1, <1>6 DEF Holders
  <2>4. nextAuctionId' \in 0 .. MaxAuctions
    BY <1>0, <1>1, <1>6
  <2> QED
    BY <1>1, <1>8, <2>1, <2>2, <2>3, <2>4 DEF Books, TypeOK, MarketInv
<1>10. Running(id)'
  <2>1. stake'[id] = Nobody /\ proceeds'[id] = 0
    BY <1>1, <1>3 DEF Untouched
  <2> QED
    BY <1>5, <1>7, <2>1 DEF Running, IsOpen, Sale
<1>11. ASSUME NEW j \in AuctionIds
       PROVE  Situation(j)'
  <2>1. CASE j = id
    <3>1. j < nextAuctionId'
      BY <1>0, <1>1, <1>6, <2>1
    <3> QED
      BY <1>10, <2>1, <3>1, <1>1, <1>6, BooksOf DEF Situation
  <2>2. CASE j # id
    <3>1. auctions'[j] = auctions[j] /\ lotAt'[j] = lotAt[j]
      BY <1>1, <1>6, <2>2
    <3>2. stake'[j] = stake[j] /\ proceeds'[j] = proceeds[j]
      BY <1>1
    <3>3. j >= nextAuctionId' <=> j >= nextAuctionId
      <4>1. j \in Nat /\ nextAuctionId \in Nat /\ j # nextAuctionId
        BY <1>0, <2>2, BooksOf
      <4>2. nextAuctionId' = nextAuctionId + 1
        BY <1>1
      <4> QED
        BY <4>1, <4>2
    <3>4. Situation(j)
      BY BooksOf
    <3> QED
      BY <3>1, <3>2, <3>3, <3>4
      DEF Situation, Untouched, Running, Sold, Returned, IsOpen, Sale
  <2> QED
    BY <2>1, <2>2
<1> QED
  BY <1>8, <1>9, <1>11 DEF Books, LotFollowsMoney, Situation

(* Trades that bypass the market do not concern the books.                 *)
LEMMA TransferOutsideBooks ==
  ASSUME Books, NEW ixy \in OutsideTrades, TransferOutside(ixy[1], ixy[2], ixy[3])
  PROVE  Books'
<1> DEFINE i == ixy[1]
           x == ixy[2]
           y == ixy[3]
<1>1. i \in Items /\ x \in Accounts /\ y \in Accounts
  BY CustodyAssumption
<1>2. PICK n \in LotSizes : CanMove(i, x, n) /\ nft' = Move(i, x, y, n)
  BY DEF TransferOutside
<1>3. /\ x # y
      /\ UNCHANGED <<marketVars, auctions, nextAuctionId, pool, lotAt, stake, proceeds>>
  BY DEF TransferOutside
<1> HIDE DEF i, x, y
<1>4. nft' \in [Items -> [Holders -> Nat]]
  BY <1>1, <1>2, <1>3, MoveBalances, CustodyAssumption DEF Holders, Books, TypeOK
<1>5. MarketInv'
  BY <1>3, UnchangedMarketInv DEF Books
<1>6. TypeOK'
  BY <1>3, <1>4, <1>5 DEF Books, TypeOK, MarketInv
<1>7. \A j \in AuctionIds : Situation(j)'
  BY <1>3, BooksOf, OthersKeepSituation
<1> QED
  BY <1>5, <1>6, <1>7 DEF Books, LotFollowsMoney, Situation

(* Blocks and configuration entrypoints leave every auction as it is.      *)
LEMMA EnvironmentBooks ==
  ASSUME Books, Environment \/ UNCHANGED vars
  PROVE  Books'
<1>1. UNCHANGED auctionVars
  BY DEF Environment, vars
<1>2. MarketInv'
  BY ConfigureInv, TickInv, UnchangedMarketInv DEF Books, Environment, vars
<1>3. TypeOK'
  BY <1>1, <1>2 DEF Books, TypeOK, MarketInv, auctionVars
<1>4. \A j \in AuctionIds : Situation(j)'
  BY <1>1, BooksOf, OthersKeepSituation DEF auctionVars
<1> QED
  BY <1>2, <1>3, <1>4 DEF Books, LotFollowsMoney, Situation

(* The value of an absent record is well typed.                            *)
LEMMA NoRecordType == NoRecord \in AuctionRecord
<1>1. (CHOOSE i \in Items : TRUE) \in Items /\ (CHOOSE t \in Tokens : TRUE) \in Tokens
  BY CustodyAssumption
<1> QED
  BY <1>1 DEF NoRecord, AuctionRecord

(* The books hold before the first auction.                                *)
LEMMA InitBooks ==
  ASSUME Init
  PROVE  Books
<1>1. MarketInv
  BY MarketInitInv DEF Init
<1>2. TypeOK
  <2>1. auctions \in [AuctionIds -> AuctionRecord]
    BY NoRecordType DEF Init
  <2>2. nft \in [Items -> [Holders -> Nat]]
    <3>1. ASSUME NEW i \in Items, NEW x \in Holders
          PROVE  (IF x = Market THEN 0 ELSE MintedTo[i][x]) \in Nat
      BY CustodyAssumption DEF Holders
    <3> QED
      BY <3>1 DEF Init
  <2>3. stake \in [AuctionIds -> [Accounts -> Nat]]
    BY DEF Init, Nobody
  <2>4. nextAuctionId \in 0 .. MaxAuctions
    BY AuctionAssumption DEF Init
  <2> QED
    BY <1>1, <2>1, <2>2, <2>3, <2>4 DEF Init, TypeOK, MarketInv
<1>3. LotFollowsMoney
  <2>1. ASSUME NEW id \in AuctionIds
        PROVE  id >= nextAuctionId /\ Untouched(id)
    <3>1. id >= 0
      BY CustodyAssumption DEF AuctionIds
    <3> QED
      BY <3>1 DEF Init, Untouched, Sale, NoRecord
  <2> QED
    BY <2>1 DEF LotFollowsMoney
<1> QED
  BY <1>1, <1>2, <1>3 DEF Books

(* Every step keeps the books. *)
LEMMA StepBooks ==
  ASSUME Books, [Next]_vars
  PROVE  Books'
<1>1. CASE Environment \/ UNCHANGED vars
  BY <1>1, EnvironmentBooks
<1>2. ASSUME NEW s \in Accounts, NEW i \in Items, NEW n \in LotSizes,
             NEW t \in Tokens, NEW kind \in AuctionTypes, NEW sp \in StartPrices,
             NEW ep \in EndPrices, NEW sb \in StartBlocks, NEW eb \in EndBlocks,
             CreateAuction(s, i, n, t, kind, sp, ep, sb, eb)
      PROVE  Books'
  BY <1>2, CreateAuctionBooks
<1>3. ASSUME NEW id \in AuctionIds, NEW x \in Accounts, NEW bid \in Bids,
             NEW arrived \in 0 .. bid, PlaceBid(id, x, bid, arrived)
      PROVE  Books'
  <2>1. bid \in Nat /\ arrived \in Nat
    BY AuctionAssumption
  <2> QED
    BY <1>3, <2>1, PlaceBidEnglishBooks, PlaceBidDutchBooks DEF PlaceBid
<1>4. ASSUME NEW id \in AuctionIds, SettleAuction(id)
      PROVE  Books'
  BY <1>4, SettleNoSaleBooks, SettleSaleBooks DEF SettleAuction
<1>5. ASSUME NEW id \in AuctionIds, CancelAuction(id)
      PROVE  Books'
  BY <1>5, CancelAuctionBooks
<1>6. ASSUME NEW ixy \in OutsideTrades, TransferOutside(ixy[1], ixy[2], ixy[3])
      PROVE  Books'
  BY <1>6, TransferOutsideBooks
<1> QED
  BY <1>1, <1>2, <1>3, <1>4, <1>5, <1>6 DEF Next

(* The books are an inductive invariant of the specification.              *)
THEOREM BooksInvariant == Spec => []Books
<1>1. Init => Books
  BY InitBooks
<1>2. Books /\ [Next]_vars => Books'
  BY StepBooks
<1> QED
  BY <1>1, <1>2, PTL DEF Spec

-----------------------------------------------------------------------------
(* Every auction record and every entry of the books is well typed, in     *)
(* every state of every behaviour.                                         *)
THEOREM TypeCorrect == Spec => []TypeOK
BY BooksInvariant, PTL DEF Books

(* In every reachable state an auction's record, lot and money agree:      *)
(* nobody is owed a bid after being outbid, and lot and payment part       *)
(* company never.                                                          *)
THEOREM LotsFollowMoney == Spec => []LotFollowsMoney
BY BooksInvariant, PTL DEF Books

(* The royalty percentage checked when an item is put up is the one that   *)
(* will be paid, in every reachable state.                                 *)
THEOREM RoyaltyViewsStayEqual == Spec => []RoyaltyViewsAgree
<1>1. Books => RoyaltyViewsAgree
  BY DEF Books, MarketInv
<1> QED
  BY <1>1, BooksInvariant, PTL

-----------------------------------------------------------------------------
(* The market's balances move with one auction's escrow, and nothing else  *)
(* changes hands.                                                          *)
Balanced(id) ==
  /\ \A j \in AuctionIds \ {id} : auctions'[j] = auctions[j]
  /\ \A t \in Tokens :
       pool'[t] = pool[t] - EscrowedBid(id, t) + EscrowedBid(id, t)'
  /\ \A i \in Items :
       nft'[i][Market] = nft[i][Market] - EscrowedUnits(id, i) + EscrowedUnits(id, i)'

(* What the auctions hold in escrow are natural numbers.                   *)
LEMMA EscrowType ==
  ASSUME Books
  PROVE  /\ \A t \in Tokens :
              [id \in AuctionIds |-> EscrowedBid(id, t)] \in [AuctionIds -> Nat]
         /\ \A i \in Items :
              [id \in AuctionIds |-> EscrowedUnits(id, i)] \in [AuctionIds -> Nat]
<1>1. ASSUME NEW id \in AuctionIds
      PROVE  Sale(id).ha \in Nat /\ Sale(id).a \in Nat
  BY BooksOf DEF Sale, AuctionRecord
<1> QED
  BY <1>1 DEF EscrowedBid, EscrowedUnits

(* There are finitely many auctions. *)
LEMMA AuctionsFinite == IsFiniteSet(AuctionIds)
<1>1. MaxAuctions - 1 \in Int
  BY AuctionAssumption
<1> QED
  BY <1>1, FS_Interval DEF AuctionIds

(* A step that changes one auction changes the sums of the escrows by as   *)
(* much as that auction's escrow.                                          *)
LEMMA EscrowMoves ==
  ASSUME Books, Books', NEW id \in AuctionIds,
         \A j \in AuctionIds \ {id} : auctions'[j] = auctions[j]
  PROVE  /\ \A t \in Tokens :
              Total([j \in AuctionIds |-> EscrowedBid(j, t)])'
                = Total([j \in AuctionIds |-> EscrowedBid(j, t)])
                    - EscrowedBid(id, t) + EscrowedBid(id, t)'
         /\ \A i \in Items :
              Total([j \in AuctionIds |-> EscrowedUnits(j, i)])'
                = Total([j \in AuctionIds |-> EscrowedUnits(j, i)])
                    - EscrowedUnits(id, i) + EscrowedUnits(id, i)'
<1>1. IsFiniteSet(AuctionIds)
  BY AuctionsFinite
<1>2. \A j \in AuctionIds : auctions'[j] \in AuctionRecord
  BY DEF Books, TypeOK
<1>3. ASSUME NEW t \in Tokens
      PROVE  Total([j \in AuctionIds |-> EscrowedBid(j, t)])'
               = Total([j \in AuctionIds |-> EscrowedBid(j, t)])
                   - EscrowedBid(id, t) + EscrowedBid(id, t)'
  <2> DEFINE f == [j \in AuctionIds |-> EscrowedBid(j, t)]
             g == [j \in AuctionIds |-> EscrowedBid(j, t)']
  <2>1. f \in [AuctionIds -> Nat] /\ g \in [AuctionIds -> Nat]
    <3>1. f \in [AuctionIds -> Nat]
      BY EscrowType
    <3>2. \A j \in AuctionIds : EscrowedBid(j, t)' \in Nat
      BY <1>2 DEF EscrowedBid, Sale, AuctionRecord
    <3> QED
      BY <3>1, <3>2
  <2>2. \A j \in AuctionIds \ {id} : g[j] = f[j]
    BY DEF EscrowedBid, IsOpen, Sale
  <2>3. Total(g) = Total(f) - f[id] + g[id]
    <3> HIDE DEF f, g
    <3> QED
      BY <1>1, <2>1, <2>2, TotalUpdate
  <2> QED
    BY <2>3
<1>4. ASSUME NEW i \in Items
      PROVE  Total([j \in AuctionIds |-> EscrowedUnits(j, i)])'
               = Total([j \in AuctionIds |-> EscrowedUnits(j, i)])
                   - EscrowedUnits(id, i) + EscrowedUnits(id, i)'
  <2> DEFINE f == [j \in AuctionIds |-> EscrowedUnits(j, i)]
             g == [j \in AuctionIds |-> EscrowedUnits(j, i)']
  <2>1. f \in [AuctionIds -> Nat] /\ g \in [AuctionIds -> Nat]
    <3>1. f \in [AuctionIds -> Nat]
      BY EscrowType
    <3>2. \A j \in AuctionIds : EscrowedUnits(j, i)' \in Nat
      BY <1>2 DEF EscrowedUnits, Sale, AuctionRecord
    <3> QED
      BY <3>1, <3>2
  <2>2. \A j \in AuctionIds \ {id} : g[j] = f[j]
    BY DEF EscrowedUnits, IsOpen, Sale
  <2>3. Total(g) = Total(f) - f[id] + g[id]
    <3> HIDE DEF f, g
    <3> QED
      BY <1>1, <2>1, <2>2, TotalUpdate
  <2> QED
    BY <2>3
<1> QED
  BY <1>3, <1>4

(* A step that changes one auction, and the balances by as much as that    *)
(* auction's escrow, keeps the market's balances equal to the sums of the  *)
(* escrows.                                                                *)
LEMMA BalancedStep ==
  ASSUME Books, Books', BidsBacked, LotsHeld, NEW id \in AuctionIds, Balanced(id)
  PROVE  BidsBacked' /\ LotsHeld'
<1>1. ASSUME NEW t \in Tokens
      PROVE  pool'[t] = Total([j \in AuctionIds |-> EscrowedBid(j, t)])'
  <2>1. pool[t] = Total([j \in AuctionIds |-> EscrowedBid(j, t)])
    BY DEF BidsBacked
  <2>2. pool'[t] = pool[t] - EscrowedBid(id, t) + EscrowedBid(id, t)'
    BY DEF Balanced
  <2> QED
    BY <2>1, <2>2, EscrowMoves DEF Balanced
<1>2. ASSUME NEW i \in Items
      PROVE  nft'[i][Market] = Total([j \in AuctionIds |-> EscrowedUnits(j, i)])'
  <2>1. nft[i][Market] = Total([j \in AuctionIds |-> EscrowedUnits(j, i)])
    BY DEF LotsHeld
  <2>2. nft'[i][Market] = nft[i][Market] - EscrowedUnits(id, i) + EscrowedUnits(id, i)'
    BY DEF Balanced
  <2> QED
    BY <2>1, <2>2, EscrowMoves DEF Balanced
<1> QED
  BY <1>1, <1>2 DEF BidsBacked, LotsHeld

(* What the market's own holding of an item becomes when a lot leaves. *)
LEMMA LotLeavesBalance ==
  ASSUME Books, NEW id \in AuctionIds, IsOpen(id), ~IsOpen(id)', NEW y \in Accounts,
         CanMove(Sale(id).item, Market, Sale(id).a),
         nft' = Move(Sale(id).item, Market, y, Sale(id).a)
  PROVE  \A i \in Items :
           nft'[i][Market] = nft[i][Market] - EscrowedUnits(id, i) + EscrowedUnits(id, i)'
<1>1. Sale(id).item \in Items /\ Sale(id).a \in Nat
  BY BooksOf DEF Sale, AuctionRecord
<1>2. nft \in [Items -> [Holders -> Nat]] /\ Market \in Holders /\ y \in Holders /\ y # Market
  BY CustodyAssumption DEF Books, TypeOK, Holders
<1>3. /\ nft'[Sale(id).item][Market] = nft[Sale(id).item][Market] - Sale(id).a
      /\ \A j \in Items \ {Sale(id).item} : nft'[j] = nft[j]
  BY <1>1, <1>2, MoveBalances
<1>4. ASSUME NEW i \in Items
      PROVE  nft'[i][Market] = nft[i][Market] - EscrowedUnits(id, i) + EscrowedUnits(id, i)'
  <2>1. EscrowedUnits(id, i)' = 0
    BY DEF EscrowedUnits
  <2>2. EscrowedUnits(id, i) = IF Sale(id).item = i THEN Sale(id).a ELSE 0
    BY DEF EscrowedUnits
  <2>3. nft[i][Market] \in Nat
    BY <1>2
  <2> QED
    BY <1>1, <1>3, <2>1, <2>2, <2>3
<1> QED
  BY <1>4

(* An auction that is over holds no bid. *)
LEMMA ClosedHoldsNothing ==
  ASSUME NEW id, ~IsOpen(id)', NEW t
  PROVE  EscrowedBid(id, t)' = 0
BY DEF EscrowedBid

(* What an open auction has in escrow is what a refund would return.       *)
LEMMA OpenHolds ==
  ASSUME Books, NEW id \in AuctionIds, IsOpen(id), NEW t \in Tokens
  PROVE  EscrowedBid(id, t) = IF t = Sale(id).pt THEN Refund(id) ELSE 0
BY RefundIsStake DEF EscrowedBid

(* An English bid changes the market's balance by the difference between   *)
(* the new bid and the refund.                                             *)
LEMMA PlaceBidEnglishBalanced ==
  ASSUME Books, NEW id \in AuctionIds, NEW x \in Accounts, NEW bid \in Nat,
         NEW arrived \in Nat, PlaceBidEnglish(id, x, bid, arrived)
  PROVE  Balanced(id)
<1> DEFINE au == auctions[id]
           received == EscrowIn(au.pt, bid, arrived)
           e == ExtendedEnd(au.eb)
           au2 == [au EXCEPT !.hb = x, !.ha = received, !.eb = e]
<1>1. au \in AuctionRecord /\ au.pt \in Tokens
  BY BooksOf DEF AuctionRecord
<1>2. /\ IsOpen(id) /\ arrived \in Arrivals(au.pt, bid)
      /\ auctions' = [auctions EXCEPT ![id] = au2]
      /\ pool' = [pool EXCEPT ![au.pt] = @ + arrived - Refund(id)]
      /\ nft' = nft
  BY DEF PlaceBidEnglish, BidAccepted, ReplaceBid, Sale
<1>3. received = arrived
  BY <1>1, <1>2, CreditedArrived
<1>4. /\ auctions \in [AuctionIds -> AuctionRecord] /\ pool \in [Tokens -> Nat]
      /\ nft \in [Items -> [Holders -> Nat]] /\ Market \in Holders
  BY DEF Books, TypeOK, Holders
<1>5. Refund(id) \in Nat
  BY <1>2, RefundIsStake
<1> HIDE DEF au, received, e
<1>6. /\ au2.act = au.act /\ au2.stl = au.stl /\ au2.pt = au.pt /\ au2.item = au.item
      /\ au2.a = au.a /\ au2.ha = arrived
  BY <1>1, <1>3 DEF AuctionRecord
<1>7. auctions'[id] = au2 /\ auctions[id] = au
  BY <1>2, <1>4 DEF au
<1> HIDE DEF au2
<1>8. ASSUME NEW t \in Tokens
      PROVE  pool'[t] = pool[t] - EscrowedBid(id, t) + EscrowedBid(id, t)'
  <2>1. EscrowedBid(id, t) = IF t = au.pt THEN Refund(id) ELSE 0
    BY <1>2, <1>7, OpenHolds DEF Sale
  <2>2. EscrowedBid(id, t)' = IF t = au.pt THEN arrived ELSE 0
    BY <1>2, <1>6, <1>7 DEF EscrowedBid, IsOpen, Sale
  <2>3. pool'[t] = IF t = au.pt THEN pool[t] + arrived - Refund(id) ELSE pool[t]
    BY <1>2, <1>4
  <2>4. pool[t] \in Nat
    BY <1>4
  <2> QED
    BY <1>5, <2>1, <2>2, <2>3, <2>4
<1>9. ASSUME NEW i \in Items
      PROVE  nft'[i][Market] = nft[i][Market] - EscrowedUnits(id, i) + EscrowedUnits(id, i)'
  <2>1. EscrowedUnits(id, i)' = EscrowedUnits(id, i)
    BY <1>6, <1>7 DEF EscrowedUnits, IsOpen, Sale
  <2>2. nft[i][Market] \in Nat /\ EscrowedUnits(id, i) \in Nat
    BY <1>4, <1>1, <1>7 DEF EscrowedUnits, Sale, AuctionRecord
  <2> QED
    BY <1>2, <2>1, <2>2
<1>10. \A j \in AuctionIds \ {id} : auctions'[j] = auctions[j]
  BY <1>2, <1>4
<1> QED
  BY <1>8, <1>9, <1>10 DEF Balanced

(* A Dutch purchase passes its payment on and takes its lot out.           *)
LEMMA PlaceBidDutchBalanced ==
  ASSUME Books, NEW id \in AuctionIds, NEW x \in Accounts, NEW bid \in Nat,
         NEW arrived \in Nat, PlaceBidDutch(id, x, bid, arrived)
  PROVE  Balanced(id)
<1> DEFINE au == auctions[id]
           price == DutchPrice(au.sp, au.ep, au.sb, au.eb, height) * au.a
           received == EscrowIn(au.pt, price, arrived)
           au2 == [au EXCEPT !.hb = x, !.ha = received, !.stl = TRUE, !.act = FALSE]
<1>1. au \in AuctionRecord /\ au.pt \in Tokens
  BY BooksOf DEF AuctionRecord
<1>2. /\ IsOpen(id) /\ au.at = "dutch"
      /\ arrived \in Arrivals(au.pt, price)
      /\ CanMove(au.item, Market, au.a)
      /\ auctions' = [auctions EXCEPT ![id] = au2]
      /\ pool' = [pool EXCEPT ![au.pt] = @ + arrived - received]
      /\ nft' = Move(au.item, Market, x, au.a)
  BY DEF PlaceBidDutch, BidAccepted, Sale
<1>3. received = arrived
  BY <1>1, <1>2, CreditedArrived
<1>4. Sale(id).ha = 0 /\ Refund(id) = 0
  BY <1>2, OpenIsRunning DEF Running, Refund, HasBid, Sale
<1>5. auctions \in [AuctionIds -> AuctionRecord] /\ pool \in [Tokens -> Nat]
  BY DEF Books, TypeOK
<1> HIDE DEF au, received, price
<1>6. au2.act = FALSE
  BY <1>1 DEF AuctionRecord
<1>7. auctions'[id] = au2
  BY <1>2, <1>5
<1>8. ~IsOpen(id)'
  BY <1>6, <1>7 DEF IsOpen, Sale
<1>9. ASSUME NEW t \in Tokens
      PROVE  pool'[t] = pool[t] - EscrowedBid(id, t) + EscrowedBid(id, t)'
  <2>1. EscrowedBid(id, t) = 0 /\ EscrowedBid(id, t)' = 0
    BY <1>2, <1>4, <1>8, OpenHolds, ClosedHoldsNothing
  <2>2. pool'[t] = pool[t] /\ pool[t] \in Nat
    BY <1>1, <1>2, <1>3, <1>5
  <2> QED
    BY <2>1, <2>2
<1>10. \A i \in Items :
         nft'[i][Market] = nft[i][Market] - EscrowedUnits(id, i) + EscrowedUnits(id, i)'
  BY <1>2, <1>8, LotLeavesBalance DEF au, Sale
<1>11. \A j \in AuctionIds \ {id} : auctions'[j] = auctions[j]
  BY <1>2, <1>5
<1> QED
  BY <1>9, <1>10, <1>11 DEF Balanced

(* Settling takes out the lot and the standing bid of that auction.        *)
LEMMA SettleAuctionBalanced ==
  ASSUME Books, NEW id \in AuctionIds, SettleAuction(id)
  PROVE  Balanced(id)
<1> DEFINE au == auctions[id]
           au2 == [au EXCEPT !.stl = TRUE, !.act = FALSE]
<1>1. au \in AuctionRecord /\ au.pt \in Tokens
  BY BooksOf DEF AuctionRecord
<1>2. PICK y \in {au.s, au.hb} :
        /\ y = au.s \/ HasBid(id)
        /\ IsOpen(id) /\ CanMove(au.item, Market, au.a)
        /\ auctions' = [auctions EXCEPT ![id] = au2]
        /\ nft' = Move(au.item, Market, y, au.a)
        /\ pool' = [pool EXCEPT ![au.pt] = @ - Refund(id)]
  BY DEF SettleAuction, SettleNoSale, SettleSale, CanSettle, Closed, Sale, Refund
<1>3. y \in Accounts /\ Refund(id) \in Nat
  BY <1>2, OpenIsRunning, RefundIsStake DEF Running, Sale, HasBid
<1>4. auctions \in [AuctionIds -> AuctionRecord] /\ pool \in [Tokens -> Nat]
  BY DEF Books, TypeOK
<1>5. ~IsOpen(id)'
  <2>1. au2.act = FALSE
    BY <1>1 DEF AuctionRecord
  <2> QED
    BY <1>2, <1>4, <2>1 DEF IsOpen, Sale
<1>6. \A i \in Items :
        nft'[i][Market] = nft[i][Market] - EscrowedUnits(id, i) + EscrowedUnits(id, i)'
  BY <1>2, <1>3, <1>5, LotLeavesBalance DEF Sale
<1>7. ASSUME NEW t \in Tokens
      PROVE  pool'[t] = pool[t] - EscrowedBid(id, t) + EscrowedBid(id, t)'
  <2>1. EscrowedBid(id, t) = IF t = au.pt THEN Refund(id) ELSE 0
    BY <1>2, OpenHolds DEF Sale
  <2>2. EscrowedBid(id, t)' = 0
    BY <1>5, ClosedHoldsNothing
  <2>3. pool'[t] = IF t = au.pt THEN pool[t] - Refund(id) ELSE pool[t]
    BY <1>2, <1>4
  <2>4. pool[t] \in Nat
    BY <1>4
  <2> QED
    BY <1>3, <2>1, <2>2, <2>3, <2>4
<1>8. \A j \in AuctionIds \ {id} : auctions'[j] = auctions[j]
  BY <1>2, <1>4
<1> QED
  BY <1>6, <1>7, <1>8 DEF Balanced

(* Cancelling takes out the lot of an auction without a bid.               *)
LEMMA CancelAuctionBalanced ==
  ASSUME Books, NEW id \in AuctionIds, CancelAuction(id)
  PROVE  Balanced(id)
<1> DEFINE au == auctions[id]
           au2 == [au EXCEPT !.act = FALSE]
<1>1. au \in AuctionRecord
  BY BooksOf
<1>2. /\ CanCancel(id) /\ IsOpen(id) /\ CanMove(au.item, Market, au.a)
      /\ auctions' = [auctions EXCEPT ![id] = au2]
      /\ nft' = Move(au.item, Market, au.s, au.a)
      /\ pool' = pool
  BY DEF CancelAuction, CanCancel, Sale
<1>3. au.s \in Accounts /\ Refund(id) = 0
  BY <1>2, OpenIsRunning, AccountAssumption DEF Running, Sale, CanCancel, Refund, HasBid
<1>4. auctions \in [AuctionIds -> AuctionRecord] /\ pool \in [Tokens -> Nat]
  BY DEF Books, TypeOK
<1>5. ~IsOpen(id)'
  <2>1. au2.act = FALSE
    BY <1>1 DEF AuctionRecord
  <2> QED
    BY <1>2, <1>4, <2>1 DEF IsOpen, Sale
<1>6. \A i \in Items :
        nft'[i][Market] = nft[i][Market] - EscrowedUnits(id, i) + EscrowedUnits(id, i)'
  BY <1>2, <1>3, <1>5, LotLeavesBalance DEF Sale
<1>7. ASSUME NEW t \in Tokens
      PROVE  pool'[t] = pool[t] - EscrowedBid(id, t) + EscrowedBid(id, t)'
  <2>1. EscrowedBid(id, t) = 0 /\ EscrowedBid(id, t)' = 0
    BY <1>2, <1>3, <1>5, OpenHolds, ClosedHoldsNothing
  <2>2. pool[t] \in Nat
    BY <1>4
  <2> QED
    BY <1>2, <2>1, <2>2
<1>8. \A j \in AuctionIds \ {id} : auctions'[j] = auctions[j]
  BY <1>2, <1>4
<1> QED
  BY <1>6, <1>7, <1>8 DEF Balanced

(* The lot comes in; an identifier not yet in use held nothing. *)
LEMMA CreateAuctionBalanced ==
  ASSUME Books, NEW s \in Accounts, NEW i \in Items, NEW n \in LotSizes,
         NEW t \in Tokens, NEW kind \in AuctionTypes, NEW sp \in StartPrices,
         NEW ep \in EndPrices, NEW sb \in StartBlocks, NEW eb \in EndBlocks,
         CreateAuction(s, i, n, t, kind, sp, ep, sb, eb)
  PROVE  \E id \in AuctionIds : Balanced(id)
<1>1. PICK id \in AuctionIds : id = nextAuctionId
  BY AuctionAssumption DEF Books, TypeOK, AuctionIds, CreateAuction, OpenAuction
<1>2. /\ auctions \in [AuctionIds -> AuctionRecord] /\ pool \in [Tokens -> Nat]
      /\ nft \in [Items -> [Holders -> Nat]] /\ n \in Nat
      /\ s \in Holders /\ Market \in Holders /\ s # Market
  BY CustodyAssumption DEF Books, TypeOK, Holders
<1>3. ~IsOpen(id)
  BY <1>1, BooksOf DEF Situation, Untouched, IsOpen
<1>4. PICK au : /\ au.item = i /\ au.a = n /\ au.act = TRUE /\ au.stl = FALSE /\ au.ha = 0
                /\ auctions' = [auctions EXCEPT ![id] = au]
  <2> DEFINE c == CollectionOf[i]
             new == [s |-> s, item |-> i, a |-> n, pt |-> t, at |-> kind,
                     sp |-> sp, ep |-> IF kind = "dutch" THEN ep ELSE 0,
                     sb |-> IF sb = 0 THEN height ELSE sb, eb |-> eb,
                     act |-> TRUE, stl |-> FALSE,
                     fb |-> EffectiveFeeBps(c), rs |-> ResolveRoyaltySplits(c),
                     hb |-> NoAccount, ha |-> 0]
  <2>1. auctions' = [auctions EXCEPT ![id] = new]
    BY <1>1 DEF CreateAuction, OpenAuction
  <2>2. new.item = i /\ new.a = n /\ new.act = TRUE /\ new.stl = FALSE /\ new.ha = 0
    OBVIOUS
  <2> HIDE DEF new
  <2> QED
    BY <2>1, <2>2
<1>5. /\ CanMove(i, s, n) /\ nft' = Move(i, s, Market, n) /\ pool' = pool
  BY DEF CreateAuction, OpenAuction
<1>6. auctions'[id] = au
  BY <1>2, <1>4
<1>7. ASSUME NEW u \in Tokens
      PROVE  pool'[u] = pool[u] - EscrowedBid(id, u) + EscrowedBid(id, u)'
  <2>1. EscrowedBid(id, u) = 0 /\ EscrowedBid(id, u)' = 0
    BY <1>3, <1>4, <1>6 DEF EscrowedBid, Sale
  <2>2. pool[u] \in Nat
    BY <1>2
  <2> QED
    BY <1>5, <2>1, <2>2
<1>8. ASSUME NEW k \in Items
      PROVE  nft'[k][Market] = nft[k][Market] - EscrowedUnits(id, k) + EscrowedUnits(id, k)'
  <2>1. EscrowedUnits(id, k) = 0
    BY <1>3 DEF EscrowedUnits
  <2>2. EscrowedUnits(id, k)' = IF k = i THEN n ELSE 0
    BY <1>4, <1>6 DEF EscrowedUnits, IsOpen, Sale
  <2>3. /\ nft'[i][Market] = nft[i][Market] + n
        /\ \A j \in Items \ {i} : nft'[j] = nft[j]
    BY <1>2, <1>5, MoveBalances
  <2>4. nft[k][Market] \in Nat
    BY <1>2
  <2> QED
    BY <1>2, <2>1, <2>2, <2>3, <2>4
<1>9. \A j \in AuctionIds \ {id} : auctions'[j] = auctions[j]
  BY <1>2, <1>4
<1> QED
  BY <1>7, <1>8, <1>9 DEF Balanced

(* Steps that leave auctions and the market's balances alone keep them     *)
(* balanced.                                                               *)
LEMMA UntouchedBalances ==
  ASSUME BidsBacked, LotsHeld, UNCHANGED <<auctions, pool>>,
         \A i \in Items : nft'[i][Market] = nft[i][Market]
  PROVE  BidsBacked' /\ LotsHeld'
BY DEF BidsBacked, LotsHeld, EscrowedBid, EscrowedUnits, IsOpen, Sale

(* Trades that bypass the market do not change its balances.               *)
LEMMA TransferOutsideBalanced ==
  ASSUME Books, NEW ixy \in OutsideTrades, TransferOutside(ixy[1], ixy[2], ixy[3])
  PROVE  /\ UNCHANGED <<auctions, pool>>
         /\ \A i \in Items : nft'[i][Market] = nft[i][Market]
<1> DEFINE i == ixy[1]
           x == ixy[2]
           y == ixy[3]
<1>1. i \in Items /\ x \in Accounts /\ y \in Accounts
  BY CustodyAssumption
<1>2. PICK n \in LotSizes : CanMove(i, x, n) /\ nft' = Move(i, x, y, n)
  BY DEF TransferOutside
<1>3. x # y /\ UNCHANGED <<auctions, pool>>
  BY DEF TransferOutside
<1> HIDE DEF i, x, y
<1>4. /\ nft \in [Items -> [Holders -> Nat]] /\ n \in Nat
      /\ x \in Holders /\ y \in Holders /\ Market \in Holders
      /\ Market # x /\ Market # y
  BY <1>1, CustodyAssumption DEF Books, TypeOK, Holders
<1>5. /\ \A j \in Items \ {i} : nft'[j] = nft[j]
      /\ nft'[i][Market] = nft[i][Market]
  BY <1>1, <1>2, <1>3, <1>4, MoveBalances
<1>6. \A j \in Items : nft'[j][Market] = nft[j][Market]
  BY <1>5
<1> QED
  BY <1>3, <1>6

(* Before the first auction nothing is escrowed and nothing is held.       *)
LEMMA InitBalanced ==
  ASSUME Init
  PROVE  BidsBacked /\ LotsHeld
<1>1. \A id \in AuctionIds : ~IsOpen(id)
  BY DEF Init, IsOpen, Sale, NoRecord
<1>2. ASSUME NEW t \in Tokens
      PROVE  pool[t] = Total([id \in AuctionIds |-> EscrowedBid(id, t)])
  <2>1. [id \in AuctionIds |-> EscrowedBid(id, t)] = [id \in AuctionIds |-> 0]
    BY <1>1 DEF EscrowedBid
  <2>2. Total([id \in AuctionIds |-> 0]) = 0
    BY TotalZero
  <2> QED
    BY <2>1, <2>2 DEF Init
<1>3. ASSUME NEW i \in Items
      PROVE  nft[i][Market] = Total([id \in AuctionIds |-> EscrowedUnits(id, i)])
  <2>1. [id \in AuctionIds |-> EscrowedUnits(id, i)] = [id \in AuctionIds |-> 0]
    BY <1>1 DEF EscrowedUnits
  <2>2. Total([id \in AuctionIds |-> 0]) = 0
    BY TotalZero
  <2>3. nft[i][Market] = 0
    BY DEF Init, Holders
  <2> QED
    BY <2>1, <2>2, <2>3
<1> QED
  BY <1>2, <1>3 DEF BidsBacked, LotsHeld

(* Every step moves the balances with the escrow of one auction, or leaves *)
(* both alone; whatever else is on the market's account stays there.       *)
LEMMA StepMoves ==
  ASSUME Books, [Next]_vars
  PROVE  \/ \E id \in AuctionIds : Balanced(id)
         \/ /\ UNCHANGED <<auctions, pool>>
            /\ \A i \in Items : nft'[i][Market] = nft[i][Market]
<1> DEFINE Moves == \/ \E id \in AuctionIds : Balanced(id)
                    \/ /\ UNCHANGED <<auctions, pool>>
                       /\ \A i \in Items : nft'[i][Market] = nft[i][Market]
<1>1. CASE Environment \/ UNCHANGED vars
  BY <1>1 DEF Environment, vars, auctionVars
<1>2. ASSUME NEW s \in Accounts, NEW i \in Items, NEW n \in LotSizes,
             NEW t \in Tokens, NEW kind \in AuctionTypes, NEW sp \in StartPrices,
             NEW ep \in EndPrices, NEW sb \in StartBlocks, NEW eb \in EndBlocks,
             CreateAuction(s, i, n, t, kind, sp, ep, sb, eb)
      PROVE  Moves
  BY <1>2, CreateAuctionBalanced
<1>3. ASSUME NEW id \in AuctionIds, NEW x \in Accounts, NEW bid \in Bids,
             NEW arrived \in 0 .. bid, PlaceBid(id, x, bid, arrived)
      PROVE  Moves
  <2>1. bid \in Nat /\ arrived \in Nat
    BY AuctionAssumption
  <2> QED
    BY <1>3, <2>1, PlaceBidEnglishBalanced, PlaceBidDutchBalanced DEF PlaceBid
<1>4. ASSUME NEW id \in AuctionIds, SettleAuction(id) \/ CancelAuction(id)
      PROVE  Moves
  BY <1>4, SettleAuctionBalanced, CancelAuctionBalanced
<1>5. ASSUME NEW ixy \in OutsideTrades, TransferOutside(ixy[1], ixy[2], ixy[3])
      PROVE  Moves
  BY <1>5, TransferOutsideBalanced
<1> QED
  BY <1>1, <1>2, <1>3, <1>4, <1>5 DEF Next

(* Every step keeps the market's balances equal to the escrows.            *)
LEMMA StepBalanced ==
  ASSUME Books, BidsBacked, LotsHeld, [Next]_vars
  PROVE  BidsBacked' /\ LotsHeld'
BY StepMoves, StepBooks, BalancedStep, UntouchedBalances

(* The market always holds, in every token, exactly what the standing bids *)
(* add up to, whatever the tokens deliver: each can be paid or returned.   *)
THEOREM BidsStayBacked == Spec => []BidsBacked
<1>1. Init => Books /\ BidsBacked /\ LotsHeld
  BY InitBooks, InitBalanced
<1>2. Books /\ BidsBacked /\ LotsHeld /\ [Next]_vars => (BidsBacked /\ LotsHeld)'
  BY StepBalanced
<1> QED
  BY <1>1, <1>2, BooksInvariant, PTL DEF Spec

(* The market always holds exactly the lots of the open auctions.          *)
THEOREM LotsStayHeld == Spec => []LotsHeld
<1>1. Init => Books /\ BidsBacked /\ LotsHeld
  BY InitBooks, InitBalanced
<1>2. Books /\ BidsBacked /\ LotsHeld /\ [Next]_vars => (BidsBacked /\ LotsHeld)'
  BY StepBalanced
<1> QED
  BY <1>1, <1>2, BooksInvariant, PTL DEF Spec

-----------------------------------------------------------------------------
(* The terms locked in an auction leave fee and royalties within 100%.     *)
(* createAuction compares the fee with the legacy royalty percentage; that *)
(* this bounds the splits it stores takes RoyaltyViewsAgree.               *)
TermsWithin ==
  \A id \in AuctionIds :
    Sale(id).fb + TotalBps(Sale(id).rs) <= BpsDenominator

(* The terms of an absent auction cost nothing.                            *)
LEMMA InitTerms ==
  ASSUME Init
  PROVE  TermsWithin
<1>1. ASSUME NEW id \in AuctionIds
      PROVE  Sale(id).fb = 0 /\ Sale(id).rs = <<>>
  BY DEF Init, Sale, NoRecord
<1> QED
  BY <1>1, NoSplitsNoBps DEF TermsWithin, BpsDenominator

(* createAuction locks terms that add up to at most 100%.                  *)
LEMMA CreateAuctionTerms ==
  ASSUME Books, TermsWithin,
         NEW s \in Accounts, NEW i \in Items, NEW n \in LotSizes,
         NEW t \in Tokens, NEW kind \in AuctionTypes, NEW sp \in StartPrices,
         NEW ep \in EndPrices, NEW sb \in StartBlocks, NEW eb \in EndBlocks,
         CreateAuction(s, i, n, t, kind, sp, ep, sb, eb)
  PROVE  TermsWithin'
<1> DEFINE c == CollectionOf[i]
           au == [s |-> s, item |-> i, a |-> n, pt |-> t, at |-> kind,
                  sp |-> sp, ep |-> IF kind = "dutch" THEN ep ELSE 0,
                  sb |-> IF sb = 0 THEN height ELSE sb, eb |-> eb,
                  act |-> TRUE, stl |-> FALSE,
                  fb |-> EffectiveFeeBps(c), rs |-> ResolveRoyaltySplits(c),
                  hb |-> NoAccount, ha |-> 0]
<1>1. PICK id \in AuctionIds : id = nextAuctionId
  BY AuctionAssumption DEF Books, TypeOK, AuctionIds, CreateAuction, OpenAuction
<1>2. /\ auctions' = [auctions EXCEPT ![id] = au]
      /\ EffectiveFeeBps(c) + RoyaltyBps(c) <= 10000
  BY <1>1 DEF CreateAuction, OpenAuction
<1>3. c \in Collections
  BY CustodyAssumption
<1>4. RoyaltyBps(c) = TotalBps(ResolveRoyaltySplits(c))
  BY <1>3 DEF Books, MarketInv, RoyaltyViewsAgree
<1>5. au.fb = EffectiveFeeBps(c) /\ au.rs = ResolveRoyaltySplits(c)
  OBVIOUS
<1> HIDE DEF au, c
<1>6. au.fb + TotalBps(au.rs) <= BpsDenominator
  BY <1>2, <1>4, <1>5 DEF BpsDenominator
<1>7. auctions \in [AuctionIds -> AuctionRecord]
  BY DEF Books, TypeOK
<1>8. auctions'[id] = au /\ \A j \in AuctionIds \ {id} : auctions'[j] = auctions[j]
  BY <1>2, <1>7
<1>9. ASSUME NEW j \in AuctionIds
      PROVE  auctions'[j].fb + TotalBps(auctions'[j].rs) <= BpsDenominator
  <2>1. CASE j = id
    BY <1>6, <1>8, <2>1
  <2>2. CASE j # id
    BY <1>8, <2>2 DEF TermsWithin, Sale
  <2> QED
    BY <2>1, <2>2
<1> QED
  BY <1>9 DEF TermsWithin, Sale

(* No other step writes fb or rs. *)
LEMMA TermsKept ==
  ASSUME TermsWithin,
         \A id \in AuctionIds :
           auctions'[id].fb = auctions[id].fb /\ auctions'[id].rs = auctions[id].rs
  PROVE  TermsWithin'
BY DEF TermsWithin, Sale

(* Terms are locked: no later step changes them.                           *)
LEMMA StepTerms ==
  ASSUME Books, TermsWithin, [Next]_vars
  PROVE  TermsWithin'
<1>0. auctions \in [AuctionIds -> AuctionRecord]
  BY DEF Books, TypeOK
<1>1. CASE Environment \/ UNCHANGED vars
  BY <1>1, TermsKept DEF Environment, vars, auctionVars
<1>2. ASSUME NEW s \in Accounts, NEW i \in Items, NEW n \in LotSizes,
             NEW t \in Tokens, NEW kind \in AuctionTypes, NEW sp \in StartPrices,
             NEW ep \in EndPrices, NEW sb \in StartBlocks, NEW eb \in EndBlocks,
             CreateAuction(s, i, n, t, kind, sp, ep, sb, eb)
      PROVE  TermsWithin'
  BY <1>2, CreateAuctionTerms
<1>3. ASSUME NEW id \in AuctionIds, NEW au2,
             au2.fb = auctions[id].fb, au2.rs = auctions[id].rs,
             auctions' = [auctions EXCEPT ![id] = au2]
      PROVE  TermsWithin'
  BY <1>0, <1>3, TermsKept
<1>4. ASSUME NEW id \in AuctionIds, NEW x \in Accounts, NEW bid \in Bids,
             NEW arrived \in 0 .. bid, PlaceBid(id, x, bid, arrived)
      PROVE  TermsWithin'
  <2> DEFINE au == auctions[id]
             end == ExtendedEnd(au.eb)
             price == DutchPrice(au.sp, au.ep, au.sb, au.eb, height) * au.a
             r == EscrowIn(au.pt, bid, arrived)
             q == EscrowIn(au.pt, price, arrived)
             au2 == [au EXCEPT !.hb = x, !.ha = r, !.eb = end]
             au3 == [au EXCEPT !.hb = x, !.ha = q, !.stl = TRUE, !.act = FALSE]
  <2>1. \/ auctions' = [auctions EXCEPT ![id] = au2]
        \/ auctions' = [auctions EXCEPT ![id] = au3]
    BY <1>4 DEF PlaceBid, PlaceBidEnglish, PlaceBidDutch, ReplaceBid, Sale
  <2>2. au \in AuctionRecord
    BY <1>0
  <2> HIDE DEF au, r, q, end
  <2>3. au2.fb = au.fb /\ au2.rs = au.rs /\ au3.fb = au.fb /\ au3.rs = au.rs
    BY <2>2 DEF AuctionRecord
  <2> HIDE DEF au2, au3
  <2> QED
    BY <1>3, <2>1, <2>3 DEF au
<1>5. ASSUME NEW id \in AuctionIds, SettleAuction(id) \/ CancelAuction(id)
      PROVE  TermsWithin'
  <2> DEFINE au == auctions[id]
             au2 == [au EXCEPT !.stl = TRUE, !.act = FALSE]
             au3 == [au EXCEPT !.act = FALSE]
  <2>1. \/ auctions' = [auctions EXCEPT ![id] = au2]
        \/ auctions' = [auctions EXCEPT ![id] = au3]
    BY <1>5 DEF SettleAuction, SettleNoSale, SettleSale, CancelAuction, Closed
  <2>2. au \in AuctionRecord
    BY <1>0
  <2>3. au2.fb = au.fb /\ au2.rs = au.rs /\ au3.fb = au.fb /\ au3.rs = au.rs
    BY <2>2 DEF AuctionRecord
  <2> HIDE DEF au2, au3
  <2> QED
    BY <1>3, <2>1, <2>3
<1>6. ASSUME NEW ixy \in OutsideTrades, TransferOutside(ixy[1], ixy[2], ixy[3])
      PROVE  TermsWithin'
  BY <1>6, TermsKept DEF TransferOutside
<1> QED
  BY <1>1, <1>2, <1>4, <1>5, <1>6 DEF Next

(* Books, balances and terms together leave nothing missing.               *)
LEMMA BooksPay ==
  ASSUME Books, BidsBacked, LotsHeld, TermsWithin
  PROVE  NothingMissing
<1> SUFFICES ASSUME NEW id \in AuctionIds, IsOpen(id)
             PROVE  /\ CanMove(Sale(id).item, Market, Sale(id).a)
                    /\ pool[Sale(id).pt] >= Sale(id).ha
                    /\ Payable(Sale(id).ha, Sale(id).fb, Sale(id).rs)
  BY DEF NothingMissing
<1> DEFINE au == Sale(id)
           f == [j \in AuctionIds |-> EscrowedBid(j, au.pt)]
           g == [j \in AuctionIds |-> EscrowedUnits(j, au.item)]
<1>1. /\ au.pt \in Tokens /\ au.item \in Items /\ au.ha \in Nat /\ au.fb \in Nat
      /\ au.rs \in Seq(Split)
  BY BooksOf DEF AuctionRecord, Sale
<1>2. IsFiniteSet(AuctionIds)
  BY AuctionsFinite
<1>3. f \in [AuctionIds -> Nat] /\ g \in [AuctionIds -> Nat]
  BY <1>1, EscrowType
<1>4. f[id] = au.ha /\ g[id] = au.a
  BY DEF EscrowedBid, EscrowedUnits
<1>5. pool[au.pt] = Total(f) /\ nft[au.item][Market] = Total(g)
  BY <1>1 DEF BidsBacked, LotsHeld
<1>6. f[id] <= Total(f) /\ g[id] <= Total(g)
  <2> HIDE DEF f, g
  <2> QED
    BY <1>2, <1>3, TotalBound
<1>7. pool[au.pt] >= au.ha /\ CanMove(au.item, Market, au.a)
  <2>1. Total(f) \in Nat /\ Total(g) \in Nat /\ f[id] \in Nat /\ g[id] \in Nat
    <3> HIDE DEF f, g
    <3> QED
      BY <1>2, <1>3, TotalType
  <2> HIDE DEF f, g
  <2> QED
    BY <1>4, <1>5, <1>6, <2>1 DEF CanMove
<1>8. Payable(au.ha, au.fb, au.rs)
  <2>1. \A k \in 1 .. MaxRoyaltySplits : SplitBps(au.rs, k) \in Nat
    <3> HIDE DEF au
    <3>1. \A k \in Nat : SplitBps(au.rs, k) \in Nat
      BY <1>1, SplitBpsType
    <3> QED
      BY <3>1 DEF MaxRoyaltySplits
  <2>2. au.fb + TotalBps(au.rs) <= BpsDenominator
    BY DEF TermsWithin
  <2> HIDE DEF au
  <2> QED
    BY <1>1, <2>1, <2>2, WithinTotalIsPayable
<1> QED
  BY <1>7, <1>8

(* An open auction can always be closed: what settling or cancelling needs *)
(* is there, for every amount, royalty split and change of the settings.   *)
THEOREM NothingGoesMissing == Spec => []NothingMissing
<1>1. Init => TermsWithin
  BY InitTerms
<1>2. Books /\ TermsWithin /\ [Next]_vars => TermsWithin'
  BY StepTerms
<1>3. Spec => []TermsWithin
  BY <1>1, <1>2, BooksInvariant, PTL DEF Spec
<1>4. Books /\ BidsBacked /\ LotsHeld /\ TermsWithin => NothingMissing
  BY BooksPay
<1> QED
  BY <1>3, <1>4, BooksInvariant, BidsStayBacked, LotsStayHeld, PTL

-----------------------------------------------------------------------------
(* No block of the behaviour is so late, and no anti-sniping window so     *)
(* wide, that their sum wraps: the owner may set any window, and with one  *)
(* near 2^64 a bid does bring the end forward.                             *)
WindowsFit ==
  /\ 1 <= MaxHeight
  /\ \A v \in AntiSnipeChoices : MaxHeight + v < Word

(* The block and the window are those that WindowsFit speaks of.           *)
Bounded ==
  /\ height <= MaxHeight
  /\ cfg.antiSnipe = 0 \/ cfg.antiSnipe \in AntiSnipeChoices

(* The block and the window stay within the bounds. *)
LEMMA InitBounded ==
  ASSUME WindowsFit, MarketInit
  PROVE  Bounded
<1>1. PICK f, x : cfg = InitialConfig(f, x)
  BY DEF MarketInit
<1>2. cfg.antiSnipe = 0
  BY <1>1 DEF InitialConfig
<1>3. height <= MaxHeight
  BY DEF WindowsFit, MarketInit
<1> QED
  BY <1>2, <1>3 DEF Bounded

(* Tick and setAntiSnipeBlocks alone write them. *)
LEMMA StepBounded ==
  ASSUME MarketInv, Bounded, Tick \/ Configure \/ UNCHANGED marketVars
  PROVE  Bounded'
<1>1. height \in Nat /\ MaxHeight \in Nat
  BY ChoiceAssumption DEF MarketInv, MarketTypeOK
<1>2. CASE Tick
  BY <1>1, <1>2 DEF Tick, Bounded
<1>3. CASE Configure
  <2>1. height' = height
    BY <1>3 DEF Configure
  <2> QED
    BY <1>3, <2>1, AntiSnipeChanges DEF Bounded
<1>4. CASE UNCHANGED marketVars
  BY <1>4 DEF marketVars, Bounded
<1> QED
  BY <1>2, <1>3, <1>4

(* No step but Tick and the configuration's writes the shared state. *)
LEMMA StepsOfMarket ==
  ASSUME [Next]_vars
  PROVE  Tick \/ Configure \/ UNCHANGED marketVars
<1>1. CASE Environment \/ UNCHANGED vars
  BY <1>1 DEF Environment, vars
<1>2. ASSUME NEW s \in Accounts, NEW i \in Items, NEW n \in LotSizes,
             NEW t \in Tokens, NEW kind \in AuctionTypes, NEW sp \in StartPrices,
             NEW ep \in EndPrices, NEW sb \in StartBlocks, NEW eb \in EndBlocks,
             CreateAuction(s, i, n, t, kind, sp, ep, sb, eb)
      PROVE  UNCHANGED marketVars
  BY <1>2 DEF CreateAuction, OpenAuction
<1>3. ASSUME NEW id \in AuctionIds, NEW x \in Accounts, NEW bid \in Bids,
             NEW arrived \in 0 .. bid, PlaceBid(id, x, bid, arrived)
      PROVE  UNCHANGED marketVars
  <2>1. CASE PlaceBidEnglish(id, x, bid, arrived)
    BY <2>1 DEF PlaceBidEnglish, ReplaceBid
  <2>2. CASE PlaceBidDutch(id, x, bid, arrived)
    BY <2>2 DEF PlaceBidDutch
  <2> QED
    BY <1>3, <2>1, <2>2 DEF PlaceBid
<1>4. ASSUME NEW id \in AuctionIds, SettleAuction(id) \/ CancelAuction(id)
      PROVE  UNCHANGED marketVars
  BY <1>4 DEF SettleAuction, SettleNoSale, SettleSale, CancelAuction
<1>5. ASSUME NEW ixy \in OutsideTrades, TransferOutside(ixy[1], ixy[2], ixy[3])
      PROVE  UNCHANGED marketVars
  BY <1>5 DEF TransferOutside
<1> QED
  BY <1>1, <1>2, <1>3, <1>4, <1>5 DEF Next

(* The end after a bid is no earlier, and antiSnipe blocks away. *)
LEMMA EndPutOff ==
  ASSUME WindowsFit, MarketInv, Bounded, NEW eb \in Nat, height <= eb
  PROVE  ExtendedEnd(eb) >= eb /\ ExtendedEnd(eb) >= height + cfg.antiSnipe
<1>1. height \in Nat /\ cfg.antiSnipe \in Nat /\ MaxHeight \in Nat /\ Word \in Nat
  BY ChoiceAssumption, CustodyAssumption DEF MarketInv, MarketTypeOK, Config
<1>2. cfg.antiSnipe > 0 => height + cfg.antiSnipe < Word
  BY <1>1 DEF WindowsFit, Bounded
<1>3. cfg.antiSnipe > 0 => (height + cfg.antiSnipe) % Word = height + cfg.antiSnipe
  BY <1>1, <1>2
<1> QED
  BY <1>1, <1>3 DEF ExtendedEnd

(* What BidLeavesTime says of one auction in one step. *)
TimeLeft(id) ==
  IsOpen(id) /\ Sale(id).at = "english" /\ Sale(id)'.ha # Sale(id).ha =>
    Sale(id)'.eb >= Sale(id).eb /\ Sale(id)'.eb >= height + cfg.antiSnipe

(* Only an English bid writes the amount of an open English auction. *)
LEMMA StepLeavesTime ==
  ASSUME WindowsFit, Books, Bounded, [Next]_vars, NEW id \in AuctionIds
  PROVE  TimeLeft(id)
<1>0. /\ auctions \in [AuctionIds -> AuctionRecord] /\ auctions[id] \in AuctionRecord
      /\ IsOpen(id) => id # nextAuctionId
  BY OpenIsRunning, BooksOf DEF Books, TypeOK
<1>1. CASE auctions'[id].ha = auctions[id].ha
  BY <1>1 DEF TimeLeft, Sale
<1>2. CASE Environment \/ UNCHANGED vars
  BY <1>1, <1>2 DEF Environment, vars, auctionVars
<1>3. ASSUME NEW s \in Accounts, NEW i \in Items, NEW n \in LotSizes,
             NEW t \in Tokens, NEW kind \in AuctionTypes, NEW sp \in StartPrices,
             NEW ep \in EndPrices, NEW sb \in StartBlocks, NEW eb \in EndBlocks,
             CreateAuction(s, i, n, t, kind, sp, ep, sb, eb)
      PROVE  TimeLeft(id)
  <2>1. \A j \in AuctionIds \ {nextAuctionId} : auctions'[j] = auctions[j]
    BY <1>0, <1>3 DEF CreateAuction, OpenAuction
  <2> QED
    BY <1>0, <1>1, <2>1 DEF TimeLeft
<1>4. ASSUME NEW k \in AuctionIds, NEW x \in Accounts, NEW bid \in Bids,
             NEW arrived \in 0 .. bid, PlaceBidEnglish(k, x, bid, arrived)
      PROVE  TimeLeft(id)
  <2> DEFINE au == auctions[k]
             e == ExtendedEnd(au.eb)
             r == EscrowIn(au.pt, bid, arrived)
             au2 == [au EXCEPT !.hb = x, !.ha = r, !.eb = e]
  <2>1. auctions' = [auctions EXCEPT ![k] = au2] /\ height <= au.eb
    BY <1>4 DEF PlaceBidEnglish, BidAccepted, ReplaceBid, Sale
  <2>2. au.eb \in Nat /\ au2.eb = e
    BY <1>0 DEF AuctionRecord
  <2>3. e >= au.eb /\ e >= height + cfg.antiSnipe
    <3> HIDE DEF e, au
    <3> QED
      BY <2>1, <2>2, EndPutOff DEF Books, e
  <2> HIDE DEF au2, e
  <2>4. CASE k = id
    BY <1>0, <2>1, <2>2, <2>3, <2>4 DEF TimeLeft, Sale
  <2>5. CASE k # id
    BY <1>0, <1>1, <2>1, <2>5
  <2> QED
    BY <2>4, <2>5
<1>5. ASSUME NEW k \in AuctionIds, NEW x \in Accounts, NEW bid \in Bids,
             NEW arrived \in 0 .. bid, PlaceBidDutch(k, x, bid, arrived)
      PROVE  TimeLeft(id)
  <2>1. \A j \in AuctionIds \ {k} : auctions'[j] = auctions[j]
    BY <1>0, <1>5 DEF PlaceBidDutch
  <2>2. Sale(k).at = "dutch"
    BY <1>5 DEF PlaceBidDutch
  <2> QED
    BY <1>1, <2>1, <2>2 DEF TimeLeft
<1>6. ASSUME NEW k \in AuctionIds, SettleAuction(k) \/ CancelAuction(k)
      PROVE  TimeLeft(id)
  <2> DEFINE au2 == [auctions[k] EXCEPT !.stl = TRUE, !.act = FALSE]
             au3 == [auctions[k] EXCEPT !.act = FALSE]
  <2>1. \/ auctions' = [auctions EXCEPT ![k] = au2]
        \/ auctions' = [auctions EXCEPT ![k] = au3]
    BY <1>6 DEF SettleAuction, SettleNoSale, SettleSale, CancelAuction, Closed
  <2>2. au2.ha = auctions[k].ha /\ au3.ha = auctions[k].ha
    BY <1>0 DEF AuctionRecord
  <2> HIDE DEF au2, au3
  <2>3. auctions'[id].ha = auctions[id].ha
    BY <1>0, <2>1, <2>2
  <2> QED
    BY <1>1, <2>3
<1>7. ASSUME NEW ixy \in OutsideTrades, TransferOutside(ixy[1], ixy[2], ixy[3])
      PROVE  TimeLeft(id)
  BY <1>1, <1>7 DEF TransferOutside
<1> QED
  BY <1>2, <1>3, <1>4, <1>5, <1>6, <1>7 DEF Next, PlaceBid

(* As long as the sum of block and window does not wrap, every accepted    *)
(* bid leaves the others at least the window to answer it, and no bid ends *)
(* an auction sooner (placeBid's anti-sniping).                            *)
THEOREM BidsLeaveTime == WindowsFit => (Spec => BidLeavesTime)
<1> SUFFICES ASSUME WindowsFit
             PROVE  Spec => BidLeavesTime
  OBVIOUS
<1>1. Init => Bounded
  BY InitBounded DEF Init
<1>2. Books /\ Bounded /\ [Next]_vars => Bounded'
  BY StepBounded, StepsOfMarket DEF Books
<1>3. Books /\ Bounded /\ [Next]_vars =>
        [\A id \in AuctionIds :
           IsOpen(id) /\ Sale(id).at = "english" /\ Sale(id)'.ha # Sale(id).ha =>
             /\ Sale(id)'.eb >= Sale(id).eb
             /\ Sale(id)'.eb >= height + cfg.antiSnipe]_vars
  BY StepLeavesTime DEF TimeLeft
<1> QED
  BY <1>1, <1>2, <1>3, BooksInvariant, PTL DEF Spec, BidLeavesTime

-----------------------------------------------------------------------------
(* Auctions implement sales under escrow: every entrypoint is one step of  *)
(* AtomicSale on one sale, or leaves all sales alone.                      *)

(* An English bid is a Raise of the abstract sale.                         *)
LEMMA PlaceBidEnglishRaises ==
  ASSUME Books, NEW id \in AuctionIds, NEW x \in Accounts, NEW bid \in Nat,
         NEW arrived \in Nat, PlaceBidEnglish(id, x, bid, arrived)
  PROVE  SaleView!Raise(id, x, stake'[id][x])
<1> DEFINE au == auctions[id]
           received == EscrowIn(au.pt, bid, arrived)
           e == ExtendedEnd(au.eb)
           au2 == [au EXCEPT !.hb = x, !.ha = received, !.eb = e]
<1>1. au \in AuctionRecord /\ au.pt \in Tokens /\ stake[id] \in [Accounts -> Nat]
  BY BooksOf DEF AuctionRecord
<1>2. /\ IsOpen(id) /\ x # au.s /\ au.at = "english"
      /\ arrived \in Arrivals(au.pt, bid)
      /\ auctions' = [auctions EXCEPT ![id] = au2]
      /\ au.ha # 0 => received > au.ha
      /\ UNCHANGED <<lotAt, proceeds>>
      /\ \A j \in AuctionIds \ {id} : stake'[j] = stake[j]
  BY DEF PlaceBidEnglish, BidAccepted, ReplaceBid, RefundCovered, Sale, Books, TypeOK
<1>3. Books'
  BY PlaceBidEnglishBooks
<1>4. /\ auctions \in [AuctionIds -> AuctionRecord]
      /\ stake \in [AuctionIds -> [Accounts -> Nat]]
      /\ stake' \in [AuctionIds -> [Accounts -> Nat]]
  BY <1>3 DEF Books, TypeOK
<1>5. received = arrived
  BY <1>1, <1>2, CreditedArrived
<1> HIDE DEF au, received, e
<1>6. auctions'[id] = au2
  BY <1>2, <1>4
<1>7. /\ au2.act = au.act /\ au2.stl = au.stl /\ au2.s = au.s /\ au2.at = au.at
      /\ au2.hb = x /\ au2.ha = received
  BY <1>1 DEF AuctionRecord
<1> HIDE DEF au2
<1>8. IsOpen(id)'
  BY <1>2, <1>6, <1>7 DEF IsOpen, Sale, au
<1>9. Running(id)' /\ Running(id)
  <2>1. Situation(id)'
    BY <1>3 DEF Books, LotFollowsMoney, Situation
  <2>2. Running(id)'
    BY <1>8, <2>1 DEF Situation, Untouched, Sold, Returned, IsOpen
  <2> QED
    BY <1>2, <2>2, OpenIsRunning
<1>10. stake'[id] = Only(x, received) /\ received > 0
  BY <1>6, <1>7, <1>9, AccountAssumption DEF Running, Sale
<1>11. stake'[id][x] = received
  BY <1>10 DEF Only
<1>12. stake' = [stake EXCEPT ![id] = Only(x, received)]
  BY <1>2, <1>4, <1>10
<1>13. \A y \in Accounts : stake[id][y] < received
  <2>1. stake[id] = Only(au.hb, au.ha) /\ (au.ha = 0 \/ received > au.ha) /\ au.ha \in Nat
    BY <1>1, <1>2, RefundIsStake DEF Sale, au
  <2> QED
    BY <1>10, <2>1, <1>5 DEF Only
<1>14. lotAt[id] = Market
  BY <1>9 DEF Running
<1>15. [j \in AuctionIds |-> Sale(j).s]' = [j \in AuctionIds |-> Sale(j).s]
  BY <1>2, <1>4, <1>6, <1>7 DEF Sale, au
<1>16. SaleView!Only(x, received) = Only(x, received)
  BY DEF SaleView!Only, Only
<1> QED
  BY <1>2, <1>11, <1>12, <1>13, <1>14, <1>15, <1>16
  DEF SaleView!Raise, SaleView!Open, Sale, au

(* A Dutch purchase is a BuyOutright of the abstract sale.                 *)
LEMMA PlaceBidDutchBuys ==
  ASSUME Books, NEW id \in AuctionIds, NEW x \in Accounts, NEW bid \in Nat,
         NEW arrived \in Nat, PlaceBidDutch(id, x, bid, arrived)
  PROVE  SaleView!BuyOutright(id, x, stake'[id][x])
<1> DEFINE au == auctions[id]
           price == DutchPrice(au.sp, au.ep, au.sb, au.eb, height) * au.a
           received == EscrowIn(au.pt, price, arrived)
           au2 == [au EXCEPT !.hb = x, !.ha = received, !.stl = TRUE, !.act = FALSE]
<1>1. au \in AuctionRecord /\ au.pt \in Tokens
  BY BooksOf DEF AuctionRecord
<1>2. /\ IsOpen(id) /\ x # au.s /\ au.at = "dutch"
      /\ arrived \in Arrivals(au.pt, price)
      /\ auctions' = [auctions EXCEPT ![id] = au2]
      /\ lotAt' = [lotAt EXCEPT ![id] = x]
      /\ stake' = [stake EXCEPT ![id][x] = @ + received]
      /\ proceeds' = [proceeds EXCEPT ![id] = @ + received]
  BY DEF PlaceBidDutch, BidAccepted, Sale
<1>3. received = arrived
  BY <1>1, <1>2, CreditedArrived
<1>4. /\ auctions \in [AuctionIds -> AuctionRecord]
      /\ stake \in [AuctionIds -> [Accounts -> Nat]]
      /\ proceeds \in [AuctionIds -> Nat]
  BY DEF Books, TypeOK
<1>5. /\ lotAt[id] = Market /\ stake[id] = Nobody /\ proceeds[id] = 0
  BY <1>2, OpenIsRunning DEF Running, Sale
<1> HIDE DEF au, received, price
<1>6. au2.s = au.s
  BY <1>1 DEF AuctionRecord
<1> HIDE DEF au2
<1>7. stake' = [stake EXCEPT ![id] = Only(x, received)]
  <2> DEFINE new == [stake[id] EXCEPT ![x] = @ + received]
  <2>1. stake' = [stake EXCEPT ![id] = new]
    BY <1>2
  <2>2. new = Only(x, received)
    BY <1>3, <1>5 DEF Nobody, Only
  <2> QED
    BY <2>1, <2>2
<1>8. stake'[id][x] = received
  BY <1>4, <1>7 DEF Only
<1>9. proceeds' = [proceeds EXCEPT ![id] = received]
  <2>1. proceeds[id] + received = received
    BY <1>3, <1>5
  <2> QED
    BY <1>2, <2>1
<1>10. [j \in AuctionIds |-> Sale(j).s]' = [j \in AuctionIds |-> Sale(j).s]
  BY <1>2, <1>4, <1>6 DEF Sale, au
<1>11. /\ SaleView!Only(x, received) = Only(x, received)
       /\ SaleView!Nobody = Nobody
  BY DEF SaleView!Only, Only, SaleView!Nobody, Nobody
<1> QED
  BY <1>2, <1>5, <1>7, <1>8, <1>9, <1>10, <1>11
  DEF SaleView!BuyOutright, SaleView!Open, Sale, au

(* Settling without a sale is a GiveBack of the abstract sale.             *)
LEMMA SettleNoSaleGivesBack ==
  ASSUME Books, NEW id \in AuctionIds, SettleNoSale(id)
  PROVE  SaleView!GiveBack(id)
<1> DEFINE au == auctions[id]
           au2 == [au EXCEPT !.stl = TRUE, !.act = FALSE]
<1>1. au \in AuctionRecord
  BY BooksOf
<1>2. /\ IsOpen(id)
      /\ auctions' = [auctions EXCEPT ![id] = au2]
      /\ lotAt' = [lotAt EXCEPT ![id] = au.s]
      /\ stake' = [stake EXCEPT ![id] =
            [y \in Accounts |-> IF y = au.hb THEN stake[id][y] - Refund(id) ELSE stake[id][y]]]
      /\ UNCHANGED proceeds
  BY DEF SettleNoSale, CanSettle, Closed, Sale
<1>3. auctions \in [AuctionIds -> AuctionRecord]
  BY DEF Books, TypeOK
<1>4. /\ lotAt[id] = Market /\ Refund(id) \in Nat
      /\ stake[id] = Only(au.hb, Refund(id))
  BY <1>2, OpenIsRunning, RefundIsStake DEF Running, Sale
<1>5. au2.s = au.s
  BY <1>1 DEF AuctionRecord
<1> HIDE DEF au, au2
<1>6. stake' = [stake EXCEPT ![id] = Nobody]
  <2> DEFINE new == [y \in Accounts |->
               IF y = au.hb THEN stake[id][y] - Refund(id) ELSE stake[id][y]]
  <2>1. new = Nobody
    BY <1>4 DEF Only, Nobody
  <2>2. stake' = [stake EXCEPT ![id] = new]
    BY <1>2
  <2> QED
    BY <2>1, <2>2
<1>7. [j \in AuctionIds |-> Sale(j).s]' = [j \in AuctionIds |-> Sale(j).s]
  BY <1>2, <1>3, <1>5 DEF Sale, au
<1>8. SaleView!Nobody = Nobody
  BY DEF SaleView!Nobody, Nobody
<1> QED
  BY <1>2, <1>4, <1>6, <1>7, <1>8 DEF SaleView!GiveBack, SaleView!Open, Sale, au

(* Cancelling is a GiveBack of the abstract sale.                          *)
LEMMA CancelAuctionGivesBack ==
  ASSUME Books, NEW id \in AuctionIds, CancelAuction(id)
  PROVE  SaleView!GiveBack(id)
<1> DEFINE au == auctions[id]
           au2 == [au EXCEPT !.act = FALSE]
<1>1. au \in AuctionRecord
  BY BooksOf
<1>2. /\ IsOpen(id) /\ CanCancel(id)
      /\ auctions' = [auctions EXCEPT ![id] = au2]
      /\ lotAt' = [lotAt EXCEPT ![id] = au.s]
      /\ UNCHANGED <<stake, proceeds>>
  BY DEF CancelAuction, CanCancel, Sale
<1>3. /\ auctions \in [AuctionIds -> AuctionRecord]
      /\ stake \in [AuctionIds -> [Accounts -> Nat]]
  BY DEF Books, TypeOK
<1>4. lotAt[id] = Market /\ stake[id] = Nobody
  BY <1>2, OpenIsRunning, AccountAssumption DEF Running, Sale, CanCancel
<1>5. au2.s = au.s
  BY <1>1 DEF AuctionRecord
<1> HIDE DEF au, au2
<1>6. stake' = [stake EXCEPT ![id] = Nobody]
  BY <1>2, <1>3, <1>4
<1>7. [j \in AuctionIds |-> Sale(j).s]' = [j \in AuctionIds |-> Sale(j).s]
  BY <1>2, <1>3, <1>5 DEF Sale, au
<1>8. SaleView!Nobody = Nobody
  BY DEF SaleView!Nobody, Nobody
<1> QED
  BY <1>2, <1>4, <1>6, <1>7, <1>8 DEF SaleView!GiveBack, SaleView!Open, Sale, au

(* Settling with a sale is a Sell of the abstract sale.                    *)
LEMMA SettleSaleSells ==
  ASSUME Books, NEW id \in AuctionIds, SettleSale(id)
  PROVE  \E x \in Accounts : SaleView!Sell(id, x)
<1> DEFINE au == auctions[id]
           au2 == [au EXCEPT !.stl = TRUE, !.act = FALSE]
<1>1. au \in AuctionRecord
  BY BooksOf
<1>2. /\ IsOpen(id) /\ HasBid(id)
      /\ auctions' = [auctions EXCEPT ![id] = au2]
      /\ lotAt' = [lotAt EXCEPT ![id] = au.hb]
      /\ proceeds' = [proceeds EXCEPT ![id] = @ + au.ha]
      /\ UNCHANGED stake
  BY DEF SettleSale, CanSettle, Closed, Sale
<1>3. auctions \in [AuctionIds -> AuctionRecord]
  BY DEF Books, TypeOK
<1>4. /\ lotAt[id] = Market /\ proceeds[id] = 0 /\ au.ha \in Nat /\ au.ha > 0
      /\ au.hb \in Accounts /\ stake[id] = Only(au.hb, au.ha)
  BY <1>2, OpenIsRunning, RefundIsStake DEF Running, Sale, HasBid
<1>5. au2.s = au.s
  BY <1>1 DEF AuctionRecord
<1> HIDE DEF au, au2
<1>6. stake[id][au.hb] = au.ha
  BY <1>4 DEF Only
<1>7. proceeds' = [proceeds EXCEPT ![id] = stake[id][au.hb]]
  <2>1. proceeds[id] + au.ha = stake[id][au.hb]
    BY <1>4, <1>6
  <2> QED
    BY <1>2, <2>1
<1>8. [j \in AuctionIds |-> Sale(j).s]' = [j \in AuctionIds |-> Sale(j).s]
  BY <1>2, <1>3, <1>5 DEF Sale, au
<1>9. SaleView!Sell(id, au.hb)
  BY <1>2, <1>4, <1>6, <1>7, <1>8 DEF SaleView!Sell, SaleView!Open
<1> QED
  BY <1>4, <1>9

(* Creating an auction is a PutUp of the abstract sale.                    *)
LEMMA CreateAuctionPutsUp ==
  ASSUME Books, NEW s \in Accounts, NEW i \in Items, NEW n \in LotSizes,
         NEW t \in Tokens, NEW kind \in AuctionTypes, NEW sp \in StartPrices,
         NEW ep \in EndPrices, NEW sb \in StartBlocks, NEW eb \in EndBlocks,
         CreateAuction(s, i, n, t, kind, sp, ep, sb, eb)
  PROVE  \E id \in AuctionIds : SaleView!PutUp(id, s)
<1>1. PICK id \in AuctionIds : id = nextAuctionId
  BY AuctionAssumption DEF Books, TypeOK, AuctionIds, CreateAuction, OpenAuction
<1>2. PICK au : au.s = s /\ auctions' = [auctions EXCEPT ![id] = au]
  <2> DEFINE c == CollectionOf[i]
             new == [s |-> s, item |-> i, a |-> n, pt |-> t, at |-> kind,
                     sp |-> sp, ep |-> IF kind = "dutch" THEN ep ELSE 0,
                     sb |-> IF sb = 0 THEN height ELSE sb, eb |-> eb,
                     act |-> TRUE, stl |-> FALSE,
                     fb |-> EffectiveFeeBps(c), rs |-> ResolveRoyaltySplits(c),
                     hb |-> NoAccount, ha |-> 0]
  <2>1. auctions' = [auctions EXCEPT ![id] = new]
    BY <1>1 DEF CreateAuction, OpenAuction
  <2>2. new.s = s
    OBVIOUS
  <2> HIDE DEF new
  <2> QED
    BY <2>1, <2>2
<1>3. lotAt' = [lotAt EXCEPT ![id] = Market] /\ UNCHANGED <<stake, proceeds>>
  BY <1>1 DEF CreateAuction, OpenAuction
<1>4. auctions \in [AuctionIds -> AuctionRecord]
  BY DEF Books, TypeOK
<1>5. Sale(id).s = NoAccount
  BY <1>1, BooksOf DEF Situation, Untouched
<1>6. [j \in AuctionIds |-> Sale(j).s]'
        = [[j \in AuctionIds |-> Sale(j).s] EXCEPT ![id] = s]
  BY <1>2, <1>4 DEF Sale
<1>7. SaleView!PutUp(id, s)
  BY <1>3, <1>5, <1>6 DEF SaleView!PutUp, Sale
<1> QED
  BY <1>7

(* A step that leaves auctions, lots and money alone is a stutter of the   *)
(* abstract sale.                                                          *)
LEMMA SalesLeftAlone ==
  ASSUME UNCHANGED <<auctions, lotAt, stake, proceeds>>
  PROVE  UNCHANGED SaleView!saleVars
BY DEF SaleView!saleVars, Sale

(* Every step is a step of the abstract sale or a stutter.                 *)
LEMMA StepIsSaleStep ==
  ASSUME Books, [Next]_vars
  PROVE  [SaleView!Next]_(SaleView!saleVars)
<1>1. CASE Environment \/ UNCHANGED vars
  BY <1>1, SalesLeftAlone DEF Environment, vars, auctionVars
<1>2. ASSUME NEW s \in Accounts, NEW i \in Items, NEW n \in LotSizes,
             NEW t \in Tokens, NEW kind \in AuctionTypes, NEW sp \in StartPrices,
             NEW ep \in EndPrices, NEW sb \in StartBlocks, NEW eb \in EndBlocks,
             CreateAuction(s, i, n, t, kind, sp, ep, sb, eb)
      PROVE  SaleView!Next
  BY <1>2, CreateAuctionPutsUp DEF SaleView!Next
<1>3. ASSUME NEW id \in AuctionIds, NEW x \in Accounts, NEW bid \in Bids,
             NEW arrived \in 0 .. bid, PlaceBid(id, x, bid, arrived)
      PROVE  SaleView!Next
  <2>1. bid \in Nat /\ arrived \in Nat
    BY AuctionAssumption
  <2>2. \/ SaleView!Raise(id, x, stake'[id][x])
        \/ SaleView!BuyOutright(id, x, stake'[id][x])
    BY <1>3, <2>1, PlaceBidEnglishRaises, PlaceBidDutchBuys DEF PlaceBid
  <2> QED
    BY <2>2 DEF SaleView!Next
<1>4. ASSUME NEW id \in AuctionIds, SettleAuction(id) \/ CancelAuction(id)
      PROVE  SaleView!Next
  BY <1>4, SettleNoSaleGivesBack, SettleSaleSells, CancelAuctionGivesBack
  DEF SettleAuction, SaleView!Next
<1>5. ASSUME NEW ixy \in OutsideTrades, TransferOutside(ixy[1], ixy[2], ixy[3])
      PROVE  UNCHANGED SaleView!saleVars
  BY <1>5, SalesLeftAlone DEF TransferOutside
<1> QED
  BY <1>1, <1>2, <1>3, <1>4, <1>5 DEF Next

(* The initial states are initial states of the abstract sale.             *)
LEMMA InitIsSaleInit ==
  ASSUME Init
  PROVE  SaleView!Init
<1>1. \A id \in AuctionIds : Sale(id).s = NoAccount
  BY DEF Init, Sale, NoRecord
<1>2. SaleView!Nobody = Nobody
  BY DEF SaleView!Nobody, Nobody
<1> QED
  BY <1>1, <1>2 DEF SaleView!Init, Init

(* An auction is a sale under escrow: whatever the kind of auction, the    *)
(* amounts, the tokens and the settings, the lot is sold once, for the     *)
(* last and highest stake, or given back, and who is outbid is refunded.   *)
THEOREM AuctionsAreSales == Spec => SaleSpec
<1>1. Init => SaleView!Init
  BY InitIsSaleInit
<1>2. Books /\ [Next]_vars => [SaleView!Next]_(SaleView!saleVars)
  BY StepIsSaleStep
<1> QED
  BY <1>1, <1>2, BooksInvariant, PTL DEF Spec, SaleSpec, SaleView!Spec

-----------------------------------------------------------------------------
(* The price of a Dutch auction: its arithmetic for all arguments, and     *)
(* DutchPriceFalls for every behaviour of Auction.                         *)

(* A multiple divided again. *)
LEMMA DivisionExact ==
  ASSUME NEW n \in Nat, NEW d \in Nat \ {0}
  PROVE  (n * d) \div d = n
<1> DEFINE q == (n * d) \div d
<1>1. q \in Nat /\ d * q <= n * d /\ n * d < d * q + d
  BY Division
<1> HIDE DEF q
<1>2. d * (n + 1) = n * d + d /\ d * (q + 1) = d * q + d /\ d * n = n * d
  BY <1>1, Z3
<1>3. d * q \in Nat /\ d * n \in Nat
  BY <1>1
<1>4. ~(n + 1 <= q)
  <2> SUFFICES ASSUME n + 1 <= q PROVE FALSE
    OBVIOUS
  <2>1. d * (n + 1) <= d * q
    BY <1>1, ProductOrdered
  <2> QED
    BY <1>1, <1>2, <1>3, <2>1
<1>5. ~(q + 1 <= n)
  <2> SUFFICES ASSUME q + 1 <= n PROVE FALSE
    OBVIOUS
  <2>1. d * (q + 1) <= d * n
    BY <1>1, ProductOrdered
  <2> QED
    BY <1>1, <1>2, <1>3, <2>1
<1> QED
  BY <1>1, <1>4, <1>5 DEF q

-----------------------------------------------------------------------------
(* The discount of block now on a drop of D over L blocks. *)
Discount(D, L, e) == (D * e) \div L

(* The discount grows from nothing to all of D, and is rounded down. *)
LEMMA DiscountGrows ==
  ASSUME NEW D \in Nat, NEW L \in Nat \ {0}, NEW e \in Nat, e <= L
  PROVE  /\ Discount(D, L, e) \in 0 .. D
         /\ Discount(D, L, e) * L <= D * e
         /\ Discount(D, L, L) = D
         /\ Discount(D, L, e) <= Discount(D, L, e + 1)
<1>1. D * e \in Nat /\ D * L \in Nat /\ D * (e + 1) \in Nat
  OBVIOUS
<1>2. D * e <= D * L /\ D * e <= D * (e + 1)
  BY ProductOrdered
<1>3. Discount(D, L, L) = D
  BY DivisionExact DEF Discount
<1>4. Discount(D, L, e) \in Nat /\ L * Discount(D, L, e) <= D * e
  BY <1>1, Division DEF Discount
<1>5. Discount(D, L, e) <= Discount(D, L, L)
  BY <1>1, <1>2, DivisionOrdered DEF Discount
<1>6. Discount(D, L, e) <= Discount(D, L, e + 1)
  BY <1>1, <1>2, DivisionOrdered DEF Discount
<1>7. Discount(D, L, e) * L = L * Discount(D, L, e)
  BY <1>4, Z3
<1> QED
  BY <1>3, <1>4, <1>5, <1>6, <1>7

(* DutchPrice for any two prices and any two blocks: it starts at the one, *)
(* ends at the other, never rises, and gives away no more than the share   *)
(* of the drop that is due.                                                *)
THEOREM DutchPriceCurve ==
  ASSUME NEW sp \in Nat, NEW ep \in Nat, ep <= sp,
         NEW sb \in Nat, NEW eb \in Nat, sb < eb, NEW now \in Nat
  PROVE  /\ DutchPrice(sp, ep, sb, eb, sb) = sp
         /\ DutchPrice(sp, ep, sb, eb, eb) = ep
         /\ DutchPrice(sp, ep, sb, eb, now) \in ep .. sp
         /\ DutchPrice(sp, ep, sb, eb, now + 1) <= DutchPrice(sp, ep, sb, eb, now)
         /\ now \in sb .. eb =>
              (sp - DutchPrice(sp, ep, sb, eb, now)) * (eb - sb)
                <= (sp - ep) * (now - sb)
<1> DEFINE D == sp - ep
           L == eb - sb
           price(n) == DutchPrice(sp, ep, sb, eb, n)
<1>1. D \in Nat /\ L \in Nat \ {0}
  OBVIOUS
<1>2. ASSUME NEW n \in sb .. eb
      PROVE  price(n) = sp - Discount(D, L, n - sb)
  <2>1. CASE n = sb
    <3>1. Discount(D, L, 0) = 0
      <4>1. D * 0 = 0 * L
        BY <1>1
      <4> QED
        BY <1>1, <4>1, DivisionExact DEF Discount
    <3>2. n - sb = 0
      BY <2>1
    <3> HIDE DEF D, L
    <3> QED
      BY <2>1, <3>1, <3>2 DEF DutchPrice
  <2>2. CASE n = eb
    <3>1. Discount(D, L, L) = D
      BY <1>1, DiscountGrows
    <3>2. price(n) = ep
      BY <2>2 DEF DutchPrice
    <3> QED
      BY <2>2, <3>1, <3>2
  <2>3. CASE n # sb /\ n # eb
    BY <2>3 DEF DutchPrice, Discount
  <2> QED
    BY <2>1, <2>2, <2>3
<1>3. ASSUME NEW n \in sb .. eb
      PROVE  /\ price(n) \in ep .. sp
             /\ (sp - price(n)) * L <= D * (n - sb)
             /\ n < eb => price(n + 1) <= price(n)
  <2>1. n - sb \in Nat /\ n - sb <= L /\ (n + 1) - sb = (n - sb) + 1
    OBVIOUS
  <2> DEFINE q == Discount(D, L, n - sb)
             r == Discount(D, L, (n - sb) + 1)
  <2>2. q \in 0 .. D /\ q * L <= D * (n - sb) /\ q <= r
    <3> HIDE DEF D, L
    <3> QED
      BY <1>1, <2>1, DiscountGrows
  <2>3. price(n) = sp - q
    BY <1>2
  <2>4. sp - price(n) = q
    <3> HIDE DEF q
    <3> QED
      BY <2>2, <2>3
  <2>5. ASSUME n < eb
        PROVE  price(n + 1) = sp - r /\ r \in 0 .. D
    <3>1. n + 1 \in sb .. eb
      BY <2>5
    <3>2. (n - sb) + 1 \in Nat /\ (n - sb) + 1 <= L
      BY <2>5
    <3>3. price(n + 1) = sp - r
      BY <1>2, <2>1, <3>1
    <3> HIDE DEF D, L
    <3> QED
      BY <1>1, <3>2, <3>3, DiscountGrows
  <2>6. price(n) \in ep .. sp
    <3> HIDE DEF q
    <3> QED
      BY <2>2, <2>3
  <2> HIDE DEF q, r, price
  <2> QED
    BY <2>2, <2>3, <2>4, <2>5, <2>6
<1>4. now < sb => price(now) = sp /\ price(now + 1) = sp
  BY DEF DutchPrice
<1>5. now >= eb => price(now) = ep /\ price(now + 1) = ep
  BY DEF DutchPrice
<1>6. price(sb) = sp /\ price(eb) = ep
  BY DEF DutchPrice
<1> HIDE DEF price
<1>7. price(now) \in ep .. sp /\ price(now + 1) <= price(now)
  BY <1>3, <1>4, <1>5
<1> QED
  BY <1>3, <1>6, <1>7 DEF price

-----------------------------------------------------------------------------
(* What is known of one Dutch auction.                                     *)
DutchTerms(id) ==
  Sale(id).at = "dutch" =>
    /\ Sale(id).ep <= Sale(id).sp /\ Sale(id).sb < Sale(id).eb
    /\ lotAt[id] \notin {Market, Sale(id).s} =>
         proceeds[id] \in Sale(id).ep * Sale(id).a .. Sale(id).sp * Sale(id).a

(* Prices and blocks in order, and what was paid between the prices: the   *)
(* inductive part of DutchPriceFalls.                                      *)
DutchOrder == \A id \in AuctionIds : id < nextAuctionId => DutchTerms(id)

(* The order of prices and blocks makes the price fall.                    *)
LEMMA OrderFalls ==
  ASSUME Books, DutchOrder
  PROVE  DutchPriceFalls
<1> SUFFICES ASSUME NEW id \in 0 .. nextAuctionId - 1, Sale(id).at = "dutch"
             PROVE  /\ AskedAt(id, Sale(id).sb) = Sale(id).sp
                    /\ AskedAt(id, Sale(id).eb) = Sale(id).ep
                    /\ \A now \in Sale(id).sb .. Sale(id).eb :
                         /\ AskedAt(id, now) \in Sale(id).ep .. Sale(id).sp
                         /\ AskedAt(id, now + 1) <= AskedAt(id, now)
                         /\ WithinDiscount(id, now)
                    /\ lotAt[id] \notin {Market, Sale(id).s} =>
                         proceeds[id] \in Sale(id).ep * Sale(id).a
                                            .. Sale(id).sp * Sale(id).a
  BY DEF DutchPriceFalls
<1>1. id \in AuctionIds /\ id < nextAuctionId
  BY AuctionAssumption DEF Books, TypeOK, AuctionIds
<1>2. DutchTerms(id)
  BY <1>1 DEF DutchOrder
<1>3. /\ Sale(id).sp \in Nat /\ Sale(id).ep \in Nat
      /\ Sale(id).sb \in Nat /\ Sale(id).eb \in Nat
  BY <1>1, BooksOf DEF Sale, AuctionRecord
<1>4. ASSUME NEW now \in Sale(id).sb .. Sale(id).eb
      PROVE  /\ AskedAt(id, Sale(id).sb) = Sale(id).sp
             /\ AskedAt(id, Sale(id).eb) = Sale(id).ep
             /\ AskedAt(id, now) \in Sale(id).ep .. Sale(id).sp
             /\ AskedAt(id, now + 1) <= AskedAt(id, now)
             /\ WithinDiscount(id, now)
  <2>1. now \in Nat
    BY <1>3
  <2>2. Sale(id).ep <= Sale(id).sp /\ Sale(id).sb < Sale(id).eb
    BY <1>2 DEF DutchTerms
  <2> DEFINE sp == Sale(id).sp
             ep == Sale(id).ep
             sb == Sale(id).sb
             eb == Sale(id).eb
  <2> HIDE DEF sp, ep, sb, eb
  <2>3. sp \in Nat /\ ep \in Nat /\ sb \in Nat /\ eb \in Nat /\ ep <= sp /\ sb < eb
    BY <1>3, <2>2 DEF sp, ep, sb, eb
  <2>4. /\ DutchPrice(sp, ep, sb, eb, sb) = sp
        /\ DutchPrice(sp, ep, sb, eb, eb) = ep
        /\ DutchPrice(sp, ep, sb, eb, now) \in ep .. sp
        /\ DutchPrice(sp, ep, sb, eb, now + 1) <= DutchPrice(sp, ep, sb, eb, now)
        /\ now \in sb .. eb =>
             (sp - DutchPrice(sp, ep, sb, eb, now)) * (eb - sb)
               <= (sp - ep) * (now - sb)
    BY <2>1, <2>3, DutchPriceCurve
  <2>5. now \in sb .. eb
    BY DEF sb, eb
  <2> QED
    BY <2>4, <2>5 DEF AskedAt, WithinDiscount, sp, ep, sb, eb
<1>5. Sale(id).sb \in Sale(id).sb .. Sale(id).eb
  BY <1>2, <1>3 DEF DutchTerms
<1> QED
  BY <1>2, <1>4, <1>5 DEF DutchTerms

(* A step on one auction leaves the others as they are. *)
LEMMA OneOrder ==
  ASSUME DutchOrder, NEW id \in AuctionIds, nextAuctionId' = nextAuctionId,
         DutchTerms(id)',
         \A j \in AuctionIds \ {id} :
           /\ auctions'[j] = auctions[j] /\ lotAt'[j] = lotAt[j]
           /\ proceeds'[j] = proceeds[j]
  PROVE  DutchOrder'
<1>1. ASSUME NEW j \in AuctionIds, j < nextAuctionId
      PROVE  DutchTerms(j)'
  BY <1>1 DEF DutchOrder, DutchTerms, Sale
<1> QED
  BY <1>1 DEF DutchOrder

(* createAuction asks for a falling price and a time to fall in. *)
LEMMA CreateAuctionOrder ==
  ASSUME Books, DutchOrder,
         NEW s \in Accounts, NEW i \in Items, NEW n \in LotSizes,
         NEW t \in Tokens, NEW kind \in AuctionTypes, NEW sp \in StartPrices,
         NEW ep \in EndPrices, NEW sb \in StartBlocks, NEW eb \in EndBlocks,
         CreateAuction(s, i, n, t, kind, sp, ep, sb, eb)
  PROVE  DutchOrder'
<1> DEFINE c == CollectionOf[i]
           first == IF sb = 0 THEN height ELSE sb
           last == IF kind = "dutch" THEN ep ELSE 0
           au == [s |-> s, item |-> i, a |-> n, pt |-> t, at |-> kind,
                  sp |-> sp, ep |-> last, sb |-> first, eb |-> eb,
                  act |-> TRUE, stl |-> FALSE,
                  fb |-> EffectiveFeeBps(c), rs |-> ResolveRoyaltySplits(c),
                  hb |-> NoAccount, ha |-> 0]
<1>1. PICK id \in AuctionIds : id = nextAuctionId
  BY AuctionAssumption DEF Books, TypeOK, AuctionIds, CreateAuction, OpenAuction
<1>2. /\ auctions' = [auctions EXCEPT ![id] = au]
      /\ lotAt' = [lotAt EXCEPT ![id] = Market] /\ proceeds' = proceeds
      /\ nextAuctionId' = nextAuctionId + 1
      /\ kind = "dutch" => ep < sp /\ first < eb
  BY <1>1 DEF CreateAuction, OpenAuction
<1>3. /\ auctions \in [AuctionIds -> AuctionRecord]
      /\ lotAt \in [AuctionIds -> Holders \cup {NoAccount}]
  BY DEF Books, TypeOK
<1>4. /\ auctions'[id] = au /\ lotAt'[id] = Market
      /\ \A j \in AuctionIds \ {id} : auctions'[j] = auctions[j] /\ lotAt'[j] = lotAt[j]
  BY <1>2, <1>3
<1>5. au.at = kind /\ au.sp = sp /\ au.ep = last /\ au.sb = first /\ au.eb = eb
  OBVIOUS
<1>6. sp \in Nat /\ ep \in Nat
  BY AuctionAssumption
<1> HIDE DEF au, first
<1>7. DutchTerms(id)'
  BY <1>2, <1>4, <1>5, <1>6 DEF DutchTerms, Sale
<1>8. ASSUME NEW j \in AuctionIds, j < nextAuctionId'
      PROVE  DutchTerms(j)'
  <2>1. CASE j = id
    BY <1>7, <2>1
  <2>2. CASE j # id
    <3>1. j < nextAuctionId
      BY <1>1, <1>2, <1>8, <2>2, BooksOf
    <3>2. DutchTerms(j)
      BY <3>1 DEF DutchOrder
    <3> QED
      BY <1>2, <1>4, <2>2, <3>2 DEF DutchTerms, Sale
  <2> QED
    BY <2>1, <2>2
<1> QED
  BY <1>8 DEF DutchOrder

(* A Dutch auction is sold at the price of the block. *)
LEMMA PlaceBidDutchOrder ==
  ASSUME Books, DutchOrder, NEW id \in AuctionIds, NEW x \in Accounts,
         NEW bid \in Nat, NEW arrived \in Nat, PlaceBidDutch(id, x, bid, arrived)
  PROVE  DutchOrder'
<1> DEFINE au == auctions[id]
           asked == DutchPrice(au.sp, au.ep, au.sb, au.eb, height)
           price == asked * au.a
           received == EscrowIn(au.pt, price, arrived)
           au2 == [au EXCEPT !.hb = x, !.ha = received, !.stl = TRUE, !.act = FALSE]
<1>1. /\ IsOpen(id) /\ au.at = "dutch" /\ received >= price
      /\ arrived \in Arrivals(au.pt, price)
      /\ auctions' = [auctions EXCEPT ![id].hb = x, ![id].ha = received,
                                      ![id].stl = TRUE, ![id].act = FALSE]
      /\ lotAt' = [lotAt EXCEPT ![id] = x]
      /\ proceeds' = [proceeds EXCEPT ![id] = @ + received]
      /\ UNCHANGED <<marketVars, nextAuctionId>>
  BY DEF PlaceBidDutch, BidAccepted, Sale
<1>2. /\ au \in AuctionRecord /\ au.pt \in Tokens /\ au.a \in Nat
      /\ au.sp \in Nat /\ au.ep \in Nat /\ au.sb \in Nat /\ au.eb \in Nat
  BY BooksOf DEF AuctionRecord
<1>3. Running(id) /\ id < nextAuctionId
  BY <1>1, OpenIsRunning
<1>4. proceeds[id] = 0
  BY <1>3 DEF Running
<1>5. au.ep <= au.sp /\ au.sb < au.eb
  BY <1>1, <1>3 DEF DutchOrder, DutchTerms, Sale
<1>6. height \in Nat
  BY DEF Books, MarketInv, MarketTypeOK
<1>7. asked \in au.ep .. au.sp
  BY <1>2, <1>5, <1>6, DutchPriceCurve
<1>8. received = arrived
  BY <1>1, <1>2, CreditedArrived
<1> HIDE DEF au, asked, received
<1>9. price \in au.ep * au.a .. au.sp * au.a
  <2>1. asked \in Nat /\ au.ep <= asked /\ asked <= au.sp
    BY <1>2, <1>7
  <2>2. au.ep * au.a <= price /\ price <= au.sp * au.a
    BY <1>2, <2>1, ProductOrdered
  <2>3. au.ep * au.a \in Nat /\ price \in Nat /\ au.sp * au.a \in Nat
    BY <1>2, <2>1
  <2> QED
    BY <2>2, <2>3
<1>10. price \in Nat
  BY <1>2, <1>7
<1> HIDE DEF price
<1>11. received = price
  BY <1>1, <1>8, <1>10 DEF Arrivals
<1>12. auctions' = [auctions EXCEPT ![id] = au2]
  BY <1>1 DEF au
<1>13. /\ auctions \in [AuctionIds -> AuctionRecord]
       /\ lotAt \in [AuctionIds -> Holders \cup {NoAccount}]
       /\ proceeds \in [AuctionIds -> Nat]
  BY DEF Books, TypeOK
<1>14. auctions'[id] = au2 /\ proceeds'[id] = price
  <2>1. auctions'[id] = au2
    BY <1>12, <1>13
  <2>2. proceeds[id] + received = price
    BY <1>4, <1>10, <1>11
  <2>3. proceeds'[id] = proceeds[id] + received
    BY <1>1, <1>13
  <2> HIDE DEF au2
  <2> QED
    BY <2>1, <2>2, <2>3
<1>15. \A j \in AuctionIds \ {id} :
         /\ auctions'[j] = auctions[j] /\ lotAt'[j] = lotAt[j]
         /\ proceeds'[j] = proceeds[j]
  BY <1>1, <1>12, <1>13
<1>16. au2.ep = au.ep /\ au2.sp = au.sp /\ au2.sb = au.sb /\ au2.eb = au.eb /\ au2.a = au.a
  BY <1>2 DEF AuctionRecord
<1> HIDE DEF au2
<1>17. DutchTerms(id)'
  BY <1>5, <1>9, <1>14, <1>16 DEF DutchTerms, Sale
<1> QED
  BY <1>1, <1>15, <1>17, OneOrder

(* What a bid, a settlement or a cancellation may do to an auction that is *)
(* English or whose lot goes back to the seller.                           *)
LEMMA OtherOrder ==
  ASSUME Books, DutchOrder, NEW id \in AuctionIds, NEW au2,
         IsOpen(id), nextAuctionId' = nextAuctionId,
         auctions' = [auctions EXCEPT ![id] = au2],
         \A j \in AuctionIds \ {id} : lotAt'[j] = lotAt[j] /\ proceeds'[j] = proceeds[j],
         au2.at = Sale(id).at,
         \/ au2.at = "english"
         \/ /\ au2.s = Sale(id).s /\ lotAt'[id] = Sale(id).s
            /\ au2.ep = Sale(id).ep /\ au2.sp = Sale(id).sp
            /\ au2.sb = Sale(id).sb /\ au2.eb = Sale(id).eb
  PROVE  DutchOrder'
<1>1. auctions \in [AuctionIds -> AuctionRecord] /\ id < nextAuctionId
  BY OpenIsRunning DEF Books, TypeOK
<1>2. auctions'[id] = au2 /\ \A j \in AuctionIds \ {id} : auctions'[j] = auctions[j]
  BY <1>1
<1>3. DutchTerms(id)
  BY <1>1 DEF DutchOrder
<1>4. DutchTerms(id)'
  BY <1>2, <1>3 DEF DutchTerms, Sale
<1> QED
  BY <1>2, <1>4, OneOrder

(* Every step keeps prices and blocks in order. *)
LEMMA StepOrder ==
  ASSUME Books, DutchOrder, [Next]_vars
  PROVE  DutchOrder'
<1>0. /\ auctions \in [AuctionIds -> AuctionRecord]
      /\ lotAt \in [AuctionIds -> Holders \cup {NoAccount}]
      /\ proceeds \in [AuctionIds -> Nat]
  BY DEF Books, TypeOK
<1>1. CASE UNCHANGED <<auctions, nextAuctionId, lotAt, proceeds>>
  BY <1>1 DEF DutchOrder, DutchTerms, Sale
<1>2. CASE Environment \/ UNCHANGED vars
  BY <1>1, <1>2 DEF Environment, vars, auctionVars
<1>3. ASSUME NEW s \in Accounts, NEW i \in Items, NEW n \in LotSizes,
             NEW t \in Tokens, NEW kind \in AuctionTypes, NEW sp \in StartPrices,
             NEW ep \in EndPrices, NEW sb \in StartBlocks, NEW eb \in EndBlocks,
             CreateAuction(s, i, n, t, kind, sp, ep, sb, eb)
      PROVE  DutchOrder'
  BY <1>3, CreateAuctionOrder
<1>4. ASSUME NEW id \in AuctionIds, NEW x \in Accounts, NEW bid \in Bids,
             NEW arrived \in 0 .. bid, PlaceBidEnglish(id, x, bid, arrived)
      PROVE  DutchOrder'
  <2> DEFINE au == auctions[id]
             end == ExtendedEnd(au.eb)
             r == EscrowIn(au.pt, bid, arrived)
             au2 == [au EXCEPT !.hb = x, !.ha = r, !.eb = end]
  <2>1. /\ auctions' = [auctions EXCEPT ![id] = au2]
        /\ au.at = "english" /\ IsOpen(id)
        /\ UNCHANGED <<nextAuctionId, lotAt, proceeds>>
    BY <1>4 DEF PlaceBidEnglish, BidAccepted, ReplaceBid, Sale
  <2>2. au2.at = au.at
    <3> HIDE DEF r, end
    <3> QED
      BY <1>0 DEF AuctionRecord
  <2> HIDE DEF au2
  <2> QED
    BY <2>1, <2>2, OtherOrder DEF Sale
<1>5. ASSUME NEW id \in AuctionIds, NEW x \in Accounts, NEW bid \in Bids,
             NEW arrived \in 0 .. bid, PlaceBidDutch(id, x, bid, arrived)
      PROVE  DutchOrder'
  <2>1. bid \in Nat /\ arrived \in Nat
    BY AuctionAssumption
  <2> QED
    BY <1>5, <2>1, PlaceBidDutchOrder
<1>6. ASSUME NEW id \in AuctionIds, SettleAuction(id) \/ CancelAuction(id)
      PROVE  DutchOrder'
  <2> DEFINE au == auctions[id]
             au2 == [au EXCEPT !.stl = TRUE, !.act = FALSE]
             au3 == [au EXCEPT !.act = FALSE]
  <2>1. CASE SettleNoSale(id)
    <3>1. /\ auctions' = [auctions EXCEPT ![id] = au2] /\ IsOpen(id)
          /\ UNCHANGED <<nextAuctionId, proceeds>>
          /\ lotAt' = [lotAt EXCEPT ![id] = au.s]
      BY <2>1 DEF SettleNoSale, CanSettle, Closed, Sale
    <3>2. /\ au2.at = au.at /\ au2.s = au.s /\ au2.ep = au.ep /\ au2.sp = au.sp
          /\ au2.sb = au.sb /\ au2.eb = au.eb
      BY <1>0 DEF AuctionRecord
    <3>3. lotAt'[id] = au.s /\ \A j \in AuctionIds \ {id} : lotAt'[j] = lotAt[j]
      BY <1>0, <3>1
    <3> HIDE DEF au2
    <3> QED
      BY <3>1, <3>2, <3>3, OtherOrder DEF Sale
  <2>2. CASE SettleSale(id)
    <3>1. /\ auctions' = [auctions EXCEPT ![id] = au2] /\ IsOpen(id)
          /\ au.at = "english" /\ UNCHANGED nextAuctionId
          /\ lotAt' = [lotAt EXCEPT ![id] = au.hb]
          /\ proceeds' = [proceeds EXCEPT ![id] = @ + au.ha]
      BY <2>2 DEF SettleSale, CanSettle, Closed, Sale
    <3>2. au2.at = au.at
      BY <1>0 DEF AuctionRecord
    <3>3. \A j \in AuctionIds \ {id} : lotAt'[j] = lotAt[j] /\ proceeds'[j] = proceeds[j]
      BY <1>0, <3>1
    <3> HIDE DEF au2
    <3> QED
      BY <3>1, <3>2, <3>3, OtherOrder DEF Sale
  <2>3. CASE CancelAuction(id)
    <3>1. /\ auctions' = [auctions EXCEPT ![id] = au3] /\ IsOpen(id)
          /\ UNCHANGED <<nextAuctionId, proceeds>>
          /\ lotAt' = [lotAt EXCEPT ![id] = au.s]
      BY <2>3 DEF CancelAuction, CanCancel, Sale
    <3>2. /\ au3.at = au.at /\ au3.s = au.s /\ au3.ep = au.ep /\ au3.sp = au.sp
          /\ au3.sb = au.sb /\ au3.eb = au.eb
      BY <1>0 DEF AuctionRecord
    <3>3. lotAt'[id] = au.s /\ \A j \in AuctionIds \ {id} : lotAt'[j] = lotAt[j]
      BY <1>0, <3>1
    <3> HIDE DEF au3
    <3> QED
      BY <3>1, <3>2, <3>3, OtherOrder DEF Sale
  <2> QED
    BY <1>6, <2>1, <2>2, <2>3 DEF SettleAuction
<1>7. ASSUME NEW ixy \in OutsideTrades, TransferOutside(ixy[1], ixy[2], ixy[3])
      PROVE  DutchOrder'
  BY <1>1, <1>7 DEF TransferOutside
<1> QED
  BY <1>2, <1>3, <1>4, <1>5, <1>6, <1>7 DEF Next, PlaceBid

(* For every choice of prices, blocks and amounts, the price of a Dutch    *)
(* auction falls along its line and a sold lot was paid for at a price of  *)
(* that line.                                                              *)
THEOREM DutchPricesFall == Spec => []DutchPriceFalls
<1>1. Init => DutchOrder
  BY CustodyAssumption DEF Init, DutchOrder, AuctionIds
<1>2. Books /\ DutchOrder /\ [Next]_vars => DutchOrder'
  BY StepOrder
<1>3. Books /\ DutchOrder => DutchPriceFalls
  BY OrderFalls
<1> QED
  BY <1>1, <1>2, <1>3, BooksInvariant, PTL DEF Spec

-----------------------------------------------------------------------------
(* The books kept from the log.                                            *)

KnownEntries ==
  [known : {TRUE}, seller : Accounts, item : Items, amount : Nat,
   auctionType : {"english", "dutch"}, startPrice : Nat, endPrice : Nat,
   startBlock : Nat, endBlock : Nat, open : BOOLEAN,
   bidder : Accounts \cup {NoAccount}, bid : Nat,
   winner : Accounts \cup {NoAccount}, price : Nat]

Entries == {NoEntry} \cup KnownEntries

LogRecord == [auctions : [AuctionIds -> Entries], withdrawn : [Tokens -> Nat]]

(* What the events on an auction make of its entry. *)
BidEntry(e, x, r) == [e EXCEPT !.bidder = x, !.bid = r]

EndedEntry(e, w, p) == [e EXCEPT !.open = FALSE, !.winner = w, !.price = p]

CancelledEntry(e) == [e EXCEPT !.open = FALSE]

(* An entry that is told more of stays an entry.                           *)
LEMMA EntryTypes ==
  ASSUME NEW e \in Entries, NEW x \in Accounts \cup {NoAccount}, NEW r \in Nat
  PROVE  /\ BidEntry(e, x, r) \in Entries
         /\ EndedEntry(e, x, r) \in Entries
         /\ CancelledEntry(e) \in Entries
<1>1. CASE e = NoEntry
  BY <1>1 DEF NoEntry, Entries, BidEntry, EndedEntry, CancelledEntry
<1>2. CASE e \in KnownEntries
  BY <1>2 DEF KnownEntries, Entries, BidEntry, EndedEntry, CancelledEntry
<1> QED
  BY <1>1, <1>2 DEF Entries

(* Logged(b2, b, id, e): of the books only id's entry changed, to e.       *)
Logged(b2, b, id, e) ==
  b2 = [b EXCEPT !.auctions = [b.auctions EXCEPT ![id] = e]]

(* Replacing one entry by an entry.                                        *)
LEMMA LoggedType ==
  ASSUME NEW b \in LogRecord, NEW b2, NEW id \in AuctionIds, NEW e \in Entries,
         Logged(b2, b, id, e)
  PROVE  /\ b2 \in LogRecord /\ b2.withdrawn = b.withdrawn
         /\ b2.auctions[id] = e
         /\ \A j \in AuctionIds \ {id} : b2.auctions[j] = b.auctions[j]
<1>1. b.auctions \in [AuctionIds -> Entries] /\ b.withdrawn \in [Tokens -> Nat]
  BY DEF LogRecord
<1> DEFINE new == [b.auctions EXCEPT ![id] = e]
<1>2. /\ new \in [AuctionIds -> Entries] /\ new[id] = e
      /\ \A j \in AuctionIds \ {id} : new[j] = b.auctions[j]
  BY <1>1
<1> HIDE DEF new
<1>3. b2 = [b EXCEPT !.auctions = new]
  BY DEF Logged, new
<1>4. b2.auctions = new /\ b2.withdrawn = b.withdrawn /\ b2 \in LogRecord
  BY <1>1, <1>2, <1>3 DEF LogRecord
<1> QED
  BY <1>2, <1>4

(* A bid writes down the bidder and the amount.                            *)
LEMMA ToldBid ==
  ASSUME NEW b \in LogRecord, NEW id \in AuctionIds, NEW x, NEW r
  PROVE  Logged(Told(b, BidPlaced(id, x, r)), b, id, BidEntry(b.auctions[id], x, r))
<1>1. b.auctions \in [AuctionIds -> Entries]
  BY DEF LogRecord
<1>2. Told(b, BidPlaced(id, x, r))
        = [b EXCEPT !.auctions[id].bidder = x, !.auctions[id].bid = r]
  BY DEF Told, BidPlaced
<1> QED
  BY <1>1, <1>2 DEF LogRecord, Logged, BidEntry

(* A settlement closes the entry and writes down who won and for how much. *)
LEMMA ToldSettled ==
  ASSUME NEW b \in LogRecord, NEW id \in AuctionIds, NEW w, NEW p, NEW fee, NEW royalty
  PROVE  Logged(Told(b, AuctionSettled(id, w, p, fee, royalty)), b, id,
                EndedEntry(b.auctions[id], w, p))
<1>1. b.auctions \in [AuctionIds -> Entries]
  BY DEF LogRecord
<1>2. Told(b, AuctionSettled(id, w, p, fee, royalty))
        = [b EXCEPT !.auctions[id].open = FALSE, !.auctions[id].winner = w,
                    !.auctions[id].price = p]
  BY DEF Told, AuctionSettled
<1> QED
  BY <1>1, <1>2 DEF LogRecord, Logged, EndedEntry

(* A cancellation closes the entry. *)
LEMMA ToldCancelled ==
  ASSUME NEW b \in LogRecord, NEW id \in AuctionIds, NEW s
  PROVE  Logged(Told(b, AuctionCancelled(id, s)), b, id, CancelledEntry(b.auctions[id]))
<1>1. b.auctions \in [AuctionIds -> Entries]
  BY DEF LogRecord
<1>2. Told(b, AuctionCancelled(id, s)) = [b EXCEPT !.auctions[id].open = FALSE]
  BY DEF Told, AuctionCancelled
<1> QED
  BY <1>1, <1>2 DEF LogRecord, Logged, CancelledEntry

(* The entry of an auction that was just created. *)
NewEntry(s, i, n, kind, sp, ep, sb, eb) ==
  [known |-> TRUE, seller |-> s, item |-> i, amount |-> n,
   auctionType |-> kind, startPrice |-> sp, endPrice |-> ep, startBlock |-> sb,
   endBlock |-> eb, open |-> TRUE, bidder |-> NoAccount, bid |-> 0,
   winner |-> NoAccount, price |-> 0]

(* A creation opens the entry. *)
LEMMA ToldCreated ==
  ASSUME NEW b \in LogRecord, NEW id \in AuctionIds, NEW s, NEW i, NEW n, NEW kind,
         NEW sp, NEW ep, NEW sb, NEW eb
  PROVE  Logged(Told(b, AuctionCreated(id, s, i, n, kind, sp, ep, sb, eb)), b, id,
                NewEntry(s, i, n, kind, sp, ep, sb, eb))
<1>1. b.auctions \in [AuctionIds -> Entries]
  BY DEF LogRecord
<1> DEFINE e == NewEntry(s, i, n, kind, sp, ep, sb, eb)
<1>2. Told(b, AuctionCreated(id, s, i, n, kind, sp, ep, sb, eb))
        = [b EXCEPT !.auctions[id] = e]
  BY DEF Told, AuctionCreated, NewEntry
<1> HIDE DEF e
<1>3. Logged(Told(b, AuctionCreated(id, s, i, n, kind, sp, ep, sb, eb)), b, id, e)
  BY <1>1, <1>2 DEF LogRecord, Logged
<1> QED
  BY <1>3 DEF e

(* A withdrawal is added to what was withdrawn of the token; the auctions' *)
(* entries stay.                                                           *)
LEMMA ToldWithdrawn ==
  ASSUME NEW b \in LogRecord, NEW t \in Tokens, NEW v \in Nat, NEW to
  PROVE  LET b2 == Told(b, EmergencyWithdrawn(t, v, to)) IN
         /\ b2 \in LogRecord /\ b2.auctions = b.auctions
         /\ b2.withdrawn[t] = b.withdrawn[t] + v
         /\ \A u \in Tokens \ {t} : b2.withdrawn[u] = b.withdrawn[u]
<1> DEFINE b2 == Told(b, EmergencyWithdrawn(t, v, to))
           new == [b.withdrawn EXCEPT ![t] = b.withdrawn[t] + v]
<1>1. b.auctions \in [AuctionIds -> Entries] /\ b.withdrawn \in [Tokens -> Nat]
  BY DEF LogRecord
<1>2. b2 = [b EXCEPT !.withdrawn[t] = b.withdrawn[t] + v]
  BY DEF Told, EmergencyWithdrawn
<1>3. /\ new \in [Tokens -> Nat] /\ new[t] = b.withdrawn[t] + v
      /\ \A u \in Tokens \ {t} : new[u] = b.withdrawn[u]
  BY <1>1
<1>4. b2.auctions = b.auctions /\ b2.withdrawn = new /\ b2 \in LogRecord
  <2>1. b2 = [b EXCEPT !.withdrawn = new]
    BY <1>2 DEF LogRecord
  <2> HIDE DEF new, b2
  <2> QED
    BY <1>1, <1>3, <2>1 DEF LogRecord
<1> HIDE DEF new, b2
<1>5. /\ b2 \in LogRecord /\ b2.auctions = b.auctions
      /\ b2.withdrawn[t] = b.withdrawn[t] + v
      /\ \A u \in Tokens \ {t} : b2.withdrawn[u] = b.withdrawn[u]
  BY <1>3, <1>4
<1> QED
  BY <1>5 DEF b2

(* Two events on one auction. *)
LEMMA LoggedTwice ==
  ASSUME NEW b \in LogRecord, NEW b1 \in LogRecord, NEW b2, NEW id \in AuctionIds,
         NEW e1, NEW e2, Logged(b1, b, id, e1), Logged(b2, b1, id, e2)
  PROVE  Logged(b2, b, id, e2)
<1>1. b.auctions \in [AuctionIds -> Entries]
  BY DEF LogRecord
<1>2. b1.auctions = [b.auctions EXCEPT ![id] = e1] /\ b1.withdrawn = b.withdrawn
  BY DEF Logged, LogRecord
<1>3. [b1.auctions EXCEPT ![id] = e2] = [b.auctions EXCEPT ![id] = e2]
  BY <1>1, <1>2
<1> QED
  BY <1>2, <1>3 DEF Logged, LogRecord

-----------------------------------------------------------------------------
(* What a record, the money paid out and the lot have to do with an entry. *)
(* An entry that is open has no winner and no price yet, and an auction    *)
(* nobody created has no entry: LogTellsAuctions is inductive only with    *)
(* both.                                                                   *)
Tells(e, au, paid, lot) ==
  IF au.s = NoAccount
  THEN e = NoEntry
  ELSE /\ e \in KnownEntries
       /\ e.seller = au.s /\ e.item = au.item /\ e.amount = au.a
       /\ e.auctionType = au.at /\ e.startPrice = au.sp /\ e.endPrice = au.ep
       /\ e.startBlock = au.sb /\ e.endBlock <= au.eb
       /\ e.bidder = au.hb /\ e.bid = au.ha
       /\ e.open <=> au.act /\ ~au.stl
       /\ e.open => e.winner = NoAccount /\ e.price = 0
       /\ paid = e.price
       /\ lot = IF e.open THEN Market
                ELSE IF e.winner = NoAccount THEN e.seller ELSE e.winner

(* What getAuction's response promises of an auction that exists. *)
Presentable(au) ==
  au.s # NoAccount =>
    au.a > 0 /\ au.sp > 0 /\ au.fb <= 10000 /\ TotalBps(au.rs) <= 5000

(* The log and the auctions agree: the inductive form of LogTellsAuctions. *)
LogAgrees ==
  /\ books \in LogRecord
  /\ \A id \in AuctionIds :
       /\ Tells(books.auctions[id], Sale(id), proceeds[id], lotAt[id])
       /\ Presentable(Sale(id))

(* A bid logged for an entry and stored in the record keeps them in agreement;
   the record may know of a later end than the log told. *)
LEMMA BidTells ==
  ASSUME NEW au \in AuctionRecord, NEW e, NEW paid, NEW lot, Tells(e, au, paid, lot),
         au.s # NoAccount, NEW x \in Accounts, NEW r \in Nat, NEW end \in Nat,
         end >= au.eb
  PROVE  Tells(BidEntry(e, x, r), [au EXCEPT !.hb = x, !.ha = r, !.eb = end], paid, lot)
<1> DEFINE e2 == BidEntry(e, x, r)
           au2 == [au EXCEPT !.hb = x, !.ha = r, !.eb = end]
<1>1. e \in KnownEntries /\ e.endBlock \in Nat /\ au.eb \in Nat
  BY DEF Tells, KnownEntries, AuctionRecord
<1>2. /\ e2 \in KnownEntries
      /\ e2.seller = e.seller /\ e2.item = e.item /\ e2.amount = e.amount
      /\ e2.auctionType = e.auctionType /\ e2.startPrice = e.startPrice
      /\ e2.endPrice = e.endPrice /\ e2.startBlock = e.startBlock
      /\ e2.endBlock = e.endBlock /\ e2.bidder = x /\ e2.bid = r
      /\ e2.open = e.open /\ e2.winner = e.winner /\ e2.price = e.price
  BY <1>1 DEF KnownEntries, BidEntry
<1>3. /\ au2.s = au.s /\ au2.item = au.item /\ au2.a = au.a /\ au2.at = au.at
      /\ au2.sp = au.sp /\ au2.ep = au.ep /\ au2.sb = au.sb /\ au2.eb = end
      /\ au2.hb = x /\ au2.ha = r /\ au2.act = au.act /\ au2.stl = au.stl
  BY DEF AuctionRecord
<1> HIDE DEF e2, au2
<1>4. e2.endBlock <= au2.eb
  BY <1>1, <1>2, <1>3 DEF Tells
<1>5. Tells(e2, au2, paid, lot)
  BY <1>2, <1>3, <1>4 DEF Tells
<1> QED
  BY <1>5 DEF e2, au2

(* An end logged and stored keeps them in agreement: the entry names the winner
   and the price, and the lot is the winner's or the seller's again. *)
LEMMA EndTells ==
  ASSUME NEW au \in AuctionRecord, NEW e, NEW paid, NEW lot, Tells(e, au, paid, lot),
         au.s # NoAccount, NEW w \in Accounts \cup {NoAccount}, NEW p \in Nat
  PROVE  Tells(EndedEntry(e, w, p), [au EXCEPT !.stl = TRUE, !.act = FALSE], p,
               IF w = NoAccount THEN au.s ELSE w)
<1> DEFINE e2 == EndedEntry(e, w, p)
           au2 == [au EXCEPT !.stl = TRUE, !.act = FALSE]
<1>1. e \in KnownEntries
  BY DEF Tells
<1>2. /\ e2 \in KnownEntries
      /\ e2.seller = e.seller /\ e2.item = e.item /\ e2.amount = e.amount
      /\ e2.auctionType = e.auctionType /\ e2.startPrice = e.startPrice
      /\ e2.endPrice = e.endPrice /\ e2.startBlock = e.startBlock
      /\ e2.endBlock = e.endBlock /\ e2.bidder = e.bidder /\ e2.bid = e.bid
      /\ e2.open = FALSE /\ e2.winner = w /\ e2.price = p
  BY <1>1 DEF KnownEntries, EndedEntry
<1>3. /\ au2.s = au.s /\ au2.item = au.item /\ au2.a = au.a /\ au2.at = au.at
      /\ au2.sp = au.sp /\ au2.ep = au.ep /\ au2.sb = au.sb /\ au2.eb = au.eb
      /\ au2.hb = au.hb /\ au2.ha = au.ha /\ au2.act = FALSE
  BY DEF AuctionRecord
<1> HIDE DEF e2, au2
<1>4. Tells(e2, au2, p, IF w = NoAccount THEN au.s ELSE w)
  BY <1>2, <1>3 DEF Tells
<1> QED
  BY <1>4 DEF e2, au2

(* A cancellation logged and stored keeps them in agreement. *)
LEMMA CancelTells ==
  ASSUME NEW au \in AuctionRecord, NEW e, NEW paid, NEW lot, Tells(e, au, paid, lot),
         au.s # NoAccount, au.act, ~au.stl
  PROVE  Tells(CancelledEntry(e), [au EXCEPT !.act = FALSE], paid, au.s)
<1> DEFINE e2 == CancelledEntry(e)
           au2 == [au EXCEPT !.act = FALSE]
<1>1. e \in KnownEntries /\ e.open
  BY DEF Tells
<1>2. /\ e2 \in KnownEntries
      /\ e2.seller = e.seller /\ e2.item = e.item /\ e2.amount = e.amount
      /\ e2.auctionType = e.auctionType /\ e2.startPrice = e.startPrice
      /\ e2.endPrice = e.endPrice /\ e2.startBlock = e.startBlock
      /\ e2.endBlock = e.endBlock /\ e2.bidder = e.bidder /\ e2.bid = e.bid
      /\ e2.open = FALSE /\ e2.winner = e.winner /\ e2.price = e.price
  BY <1>1 DEF KnownEntries, CancelledEntry
<1>3. /\ au2.s = au.s /\ au2.item = au.item /\ au2.a = au.a /\ au2.at = au.at
      /\ au2.sp = au.sp /\ au2.ep = au.ep /\ au2.sb = au.sb /\ au2.eb = au.eb
      /\ au2.hb = au.hb /\ au2.ha = au.ha /\ au2.act = FALSE
  BY DEF AuctionRecord
<1> HIDE DEF e2, au2
<1>4. Tells(e2, au2, paid, au.s)
  BY <1>1, <1>2, <1>3 DEF Tells
<1> QED
  BY <1>4 DEF e2, au2

(* What getAuction answers about an auction that exists is well typed.     *)
LEMMA ResponseType ==
  ASSUME NEW au \in AuctionRecord, Presentable(au), au.s # NoAccount
  PROVE  [seller |-> au.s, item |-> au.item, amount |-> au.a,
          paymentToken |-> au.pt, auctionType |-> au.at,
          startPrice |-> au.sp, endPrice |-> au.ep,
          startBlock |-> au.sb, endBlock |-> au.eb, highBidder |-> au.hb,
          highBid |-> au.ha, active |-> au.act, settled |-> au.stl,
          feeBps |-> au.fb, royaltyBps |-> TotalBps(au.rs)] \in AuctionResponse
<1>1. /\ au.s \in Accounts /\ au.a \in Nat /\ au.sp \in Nat /\ au.fb \in Nat
      /\ au.rs \in Seq(Split) /\ au.item \in Items /\ au.pt \in Tokens
      /\ au.at \in {"english", "dutch"}
      /\ au.ep \in Nat /\ au.sb \in Nat /\ au.eb \in Nat
      /\ au.hb \in Accounts \cup {NoAccount} /\ au.ha \in Nat
      /\ au.act \in BOOLEAN /\ au.stl \in BOOLEAN
  BY DEF AuctionRecord
<1>2. au.a > 0 /\ au.sp > 0 /\ au.fb <= 10000 /\ TotalBps(au.rs) <= 5000
  BY DEF Presentable
<1>3. TotalBps(au.rs) \in Nat
  BY <1>1, TotalBpsOfSplits
<1>4. au.a \in Nat \ {0} /\ au.sp \in Nat \ {0}
  BY <1>1, <1>2
<1>5. au.fb \in 0 .. 10000 /\ TotalBps(au.rs) \in 0 .. 5000
  <2> DEFINE fee == au.fb
             royalty == TotalBps(au.rs)
  <2>1. fee \in Nat /\ fee <= 10000 /\ royalty \in Nat /\ royalty <= 5000
    BY <1>1, <1>2, <1>3
  <2> HIDE DEF fee, royalty
  <2>2. fee \in 0 .. 10000 /\ royalty \in 0 .. 5000
    BY <2>1
  <2> QED
    BY <2>2 DEF fee, royalty
<1> QED
  BY <1>1, <1>4, <1>5 DEF AuctionResponse

(* Agreement is what LogTellsAuctions says.                                *)
LEMMA AgreementTells ==
  ASSUME Books, LogAgrees
  PROVE  LogTellsAuctions
<1> SUFFICES ASSUME NEW id \in AuctionIds
             PROVE  LET told == books.auctions[id]
                        shown == GetAuction(id)
                    IN
                    /\ told.known <=> AuctionFound(id)
                    /\ told.known =>
                         /\ shown \in AuctionResponse
                         /\ \A f \in {"seller", "item", "amount", "auctionType",
                                       "startPrice", "endPrice", "startBlock"} :
                              told[f] = shown[f]
                         /\ told.endBlock <= shown.endBlock
                         /\ told.bidder = shown.highBidder /\ told.bid = shown.highBid
                         /\ told.open <=> shown.active /\ ~shown.settled
                         /\ proceeds[id] = told.price
                         /\ lotAt[id] = (IF told.open THEN Market
                                         ELSE IF told.winner = NoAccount THEN told.seller
                                         ELSE told.winner)
  BY DEF LogTellsAuctions
<1> DEFINE told == books.auctions[id]
           shown == GetAuction(id)
           au == Sale(id)
<1>1. /\ au \in AuctionRecord
      /\ Tells(told, au, proceeds[id], lotAt[id]) /\ Presentable(au)
  BY BooksOf DEF LogAgrees, Sale
<1>2. CASE au.s = NoAccount
  <2>1. told.known = FALSE
    BY <1>1, <1>2 DEF Tells, NoEntry
  <2> QED
    BY <1>2, <2>1 DEF AuctionFound
<1>3. CASE au.s # NoAccount
  <2>1. told \in KnownEntries /\ told.known = TRUE
    BY <1>1, <1>3 DEF Tells, KnownEntries
  <2>2. /\ shown.seller = au.s /\ shown.item = au.item /\ shown.amount = au.a
        /\ shown.auctionType = au.at /\ shown.startPrice = au.sp
        /\ shown.endPrice = au.ep /\ shown.startBlock = au.sb
        /\ shown.endBlock = au.eb /\ shown.highBidder = au.hb
        /\ shown.highBid = au.ha /\ shown.active = au.act /\ shown.settled = au.stl
    BY DEF GetAuction
  <2>3. shown \in AuctionResponse
    BY <1>1, <1>3, ResponseType DEF GetAuction
  <2> HIDE DEF told, shown, au
  <2>4. /\ told["seller"] = shown["seller"] /\ told["item"] = shown["item"]
        /\ told["amount"] = shown["amount"]
        /\ told["auctionType"] = shown["auctionType"]
        /\ told["startPrice"] = shown["startPrice"]
        /\ told["endPrice"] = shown["endPrice"]
        /\ told["startBlock"] = shown["startBlock"]
    BY <1>1, <1>3, <2>2 DEF Tells
  <2>5. AuctionFound(id)
    BY <1>3 DEF AuctionFound, au
  <2> QED
    BY <1>1, <1>3, <2>1, <2>2, <2>3, <2>4, <2>5 DEF Tells, told, shown
<1> QED
  BY <1>2, <1>3

-----------------------------------------------------------------------------
(* What the steps of the auctions write down.                              *)

(* The books of the log change in one entry, which stays an entry.         *)
Retold(id, e) ==
  e \in Entries /\ Logged(books', books, id, e)

(* A bid on an English auction is written down as received. *)
LEMMA EnglishRetold ==
  ASSUME Books, books \in LogRecord, NEW id \in AuctionIds, NEW x \in Accounts,
         NEW bid \in Nat, NEW arrived \in Nat, PlaceBidEnglish(id, x, bid, arrived),
         Log(BidPlaced(id, x, EscrowIn(Sale(id).pt, bid, arrived)))
  PROVE  /\ EscrowIn(Sale(id).pt, bid, arrived) \in Nat
         /\ Retold(id, BidEntry(books.auctions[id], x,
                               EscrowIn(Sale(id).pt, bid, arrived)))
<1> DEFINE r == EscrowIn(Sale(id).pt, bid, arrived)
<1>1. r \in Nat
  <2>1. Sale(id).pt \in Tokens /\ arrived \in Arrivals(Sale(id).pt, bid)
    BY BooksOf DEF PlaceBidEnglish, Sale, AuctionRecord
  <2> QED
    BY <2>1, CreditedArrived
<1> HIDE DEF r
<1>2. Log(BidPlaced(id, x, r))
  BY DEF r
<1>3. Logged(books', books, id, BidEntry(books.auctions[id], x, r))
  BY <1>2, ToldBid DEF Log
<1>4. books.auctions[id] \in Entries
  BY DEF LogRecord
<1>5. BidEntry(books.auctions[id], x, r) \in Entries
  BY <1>1, <1>4, EntryTypes
<1> QED
  BY <1>1, <1>3, <1>5 DEF Retold, r

(* The bid that buys at a Dutch auction is written down and settled. *)
LEMMA DutchRetold ==
  ASSUME Books, books \in LogRecord, NEW id \in AuctionIds, NEW x \in Accounts,
         NEW r \in Nat, LogBoth(BidPlaced(id, x, r), SoldTo(id, x, r))
  PROVE  Retold(id, EndedEntry(BidEntry(books.auctions[id], x, r), x, r))
<1> DEFINE b1 == Told(books, BidPlaced(id, x, r))
           e1 == BidEntry(books.auctions[id], x, r)
           e2 == EndedEntry(e1, x, r)
<1>1. books.auctions[id] \in Entries
  BY DEF LogRecord
<1>2. e1 \in Entries
  BY <1>1, EntryTypes
<1>3. Logged(b1, books, id, e1)
  BY ToldBid
<1> HIDE DEF b1, e1
<1>4. b1 \in LogRecord /\ b1.auctions[id] = e1
  BY <1>2, <1>3, LoggedType
<1>5. books' = Told(b1, SoldTo(id, x, r))
  BY DEF LogBoth, b1
<1>6. Logged(books', b1, id, e2)
  BY <1>4, <1>5, ToldSettled DEF SoldTo
<1>7. e2 \in Entries
  BY <1>2, EntryTypes
<1> HIDE DEF e2
<1>8. Retold(id, e2)
  BY <1>3, <1>4, <1>6, <1>7, LoggedTwice DEF Retold
<1> QED
  BY <1>8 DEF e2, e1

(* A settlement is written down with the winner, if there is one.          *)
LEMMA SettledRetold ==
  ASSUME books \in LogRecord, NEW id \in AuctionIds,
         NEW w \in Accounts \cup {NoAccount}, NEW p \in Nat, NEW fee, NEW royalty,
         Log(AuctionSettled(id, w, p, fee, royalty))
  PROVE  Retold(id, EndedEntry(books.auctions[id], w, p))
<1>1. books.auctions[id] \in Entries
  BY DEF LogRecord
<1> QED
  BY <1>1, ToldSettled, EntryTypes DEF Log, Retold

(* So is a cancellation.                                                   *)
LEMMA CancelledRetold ==
  ASSUME books \in LogRecord, NEW id \in AuctionIds, NEW s,
         Log(AuctionCancelled(id, s))
  PROVE  Retold(id, CancelledEntry(books.auctions[id]))
<1>1. books.auctions[id] \in Entries
  BY DEF LogRecord
<1>2. CancelledEntry(books.auctions[id]) \in Entries
  <2>1. 0 \in Nat
    OBVIOUS
  <2> QED
    BY <1>1, <2>1, EntryTypes
<1> QED
  BY <1>2, ToldCancelled DEF Log, Retold

(* A new auction is written down under the next identifier. *)
LEMMA CreatedRetold ==
  ASSUME Books, books \in LogRecord,
         NEW s \in Accounts, NEW i \in Items, NEW n \in LotSizes,
         NEW kind \in AuctionTypes, NEW sp \in StartPrices, NEW ep \in EndPrices,
         NEW sb \in StartBlocks, NEW eb \in EndBlocks, nextAuctionId \in AuctionIds,
         Log(Created(s, i, n, kind, sp, ep, sb, eb))
  PROVE  Retold(nextAuctionId,
                NewEntry(s, i, n, kind, sp, IF kind = "dutch" THEN ep ELSE 0,
                         IF sb = 0 THEN height ELSE sb, eb))
<1> DEFINE low == IF kind = "dutch" THEN ep ELSE 0
           first == IF sb = 0 THEN height ELSE sb
           e == NewEntry(s, i, n, kind, sp, low, first, eb)
<1>1. /\ n \in Nat /\ sp \in Nat /\ low \in Nat /\ first \in Nat /\ eb \in Nat
      /\ kind \in {"english", "dutch"}
  BY AuctionAssumption, CustodyAssumption DEF Books, MarketInv, MarketTypeOK
<1> HIDE DEF low, first
<1>2. e \in Entries
  BY <1>1 DEF NewEntry, Entries, KnownEntries
<1>3. Log(AuctionCreated(nextAuctionId, s, i, n, kind, sp, low, first, eb))
  BY DEF Created, low, first
<1>4. Logged(books', books, nextAuctionId, e)
  BY <1>3, ToldCreated DEF Log
<1>5. Retold(nextAuctionId, e)
  BY <1>2, <1>4 DEF Retold
<1> QED
  BY <1>5 DEF low, first

(* The kinds of steps of the auctions, each with what it logs. *)
CreationStep ==
  \E s \in Accounts, i \in Items, n \in LotSizes, t \in Tokens,
     kind \in AuctionTypes, sp \in StartPrices, ep \in EndPrices,
     sb \in StartBlocks, eb \in EndBlocks :
    /\ CreateAuction(s, i, n, t, kind, sp, ep, sb, eb)
    /\ Log(Created(s, i, n, kind, sp, ep, sb, eb))

BidStep ==
  \E id \in AuctionIds, x \in Accounts, bid \in Bids :
    \E arrived \in 0 .. bid : Bid(id, x, bid, arrived)

CancellationStep ==
  \E id \in AuctionIds : CancelAuction(id) /\ Log(AuctionCancelled(id, Sale(id).s))

QuietStep ==
  /\ Environment \/ \E ixy \in OutsideTrades : TransferOutside(ixy[1], ixy[2], ixy[3])
  /\ Silent

(* There are no others.                                                    *)
LEMMA KindsOfLogSteps ==
  ASSUME LogNext
  PROVE  \/ QuietStep \/ CreationStep \/ BidStep \/ CancellationStep
         \/ \E id \in AuctionIds : Settle(id)
BY DEF LogNext, QuietStep, CreationStep, BidStep, CancellationStep

(* Whatever an auction's step logs, it is not a withdrawal.                *)
LEMMA StepRetold ==
  ASSUME Books, books \in LogRecord, LogNext
  PROVE  books' \in LogRecord /\ books'.withdrawn = books.withdrawn
<1> DEFINE Goal == books' \in LogRecord /\ books'.withdrawn = books.withdrawn
<1>0. ASSUME NEW id \in AuctionIds, NEW e, Retold(id, e)
      PROVE  Goal
  BY <1>0, LoggedType DEF Retold
<1>1. CASE Silent
  BY <1>1 DEF Silent
<1>2. ASSUME NEW s \in Accounts, NEW i \in Items, NEW n \in LotSizes,
             NEW t \in Tokens, NEW kind \in AuctionTypes, NEW sp \in StartPrices,
             NEW ep \in EndPrices, NEW sb \in StartBlocks, NEW eb \in EndBlocks,
             CreateAuction(s, i, n, t, kind, sp, ep, sb, eb),
             Log(Created(s, i, n, kind, sp, ep, sb, eb))
      PROVE  Goal
  <2>1. nextAuctionId \in AuctionIds
    BY <1>2, AuctionAssumption DEF Books, TypeOK, AuctionIds, CreateAuction, OpenAuction
  <2> HIDE DEF Goal
  <2> QED
    BY <1>0, <1>2, <2>1, CreatedRetold
<1>3. ASSUME NEW id \in AuctionIds, NEW x \in Accounts, NEW bid \in Bids,
             NEW arrived \in 0 .. bid, Bid(id, x, bid, arrived)
      PROVE  Goal
  <2>1. bid \in Nat /\ arrived \in Nat
    BY AuctionAssumption
  <2> DEFINE au == Sale(id)
             price == DutchPrice(au.sp, au.ep, au.sb, au.eb, height) * au.a
             r == EscrowIn(au.pt, price, arrived)
  <2>2. CASE /\ PlaceBidEnglish(id, x, bid, arrived)
             /\ Log(BidPlaced(id, x, EscrowIn(au.pt, bid, arrived)))
    <3> HIDE DEF Goal
    <3> QED
      BY <1>0, <2>1, <2>2, EnglishRetold
  <2>3. CASE /\ PlaceBidDutch(id, x, bid, arrived)
             /\ LogBoth(BidPlaced(id, x, r), SoldTo(id, x, r))
    <3>1. au.pt \in Tokens /\ arrived \in Arrivals(au.pt, price)
      BY <2>3, BooksOf DEF PlaceBidDutch, Sale, AuctionRecord
    <3> HIDE DEF Goal, au, price
    <3>2. r \in Nat
      BY <2>1, <3>1, CreditedArrived
    <3> HIDE DEF r
    <3> QED
      BY <1>0, <2>3, <3>2, DutchRetold
  <2> QED
    BY <1>3, <2>2, <2>3 DEF Bid
<1>4. ASSUME NEW id \in AuctionIds, Settle(id)
      PROVE  Goal
  <2>1. CASE Log(NoSale(id))
    <3> HIDE DEF Goal
    <3>1. NoAccount \in Accounts \cup {NoAccount} /\ 0 \in Nat
      OBVIOUS
    <3> QED
      BY <1>0, <2>1, <3>1, SettledRetold DEF NoSale
  <2>2. CASE Log(SoldTo(id, Sale(id).hb, Sale(id).ha))
    <3>1. Sale(id).hb \in Accounts \cup {NoAccount} /\ Sale(id).ha \in Nat
      BY BooksOf DEF Sale, AuctionRecord
    <3> HIDE DEF Goal
    <3> QED
      BY <1>0, <2>2, <3>1, SettledRetold DEF SoldTo
  <2> QED
    BY <1>4, <2>1, <2>2 DEF Settle
<1>5. ASSUME NEW id \in AuctionIds, Log(AuctionCancelled(id, Sale(id).s))
      PROVE  Goal
  <2> HIDE DEF Goal
  <2> QED
    BY <1>0, <1>5, CancelledRetold
<1> HIDE DEF Goal
<1>6. CASE QuietStep
  BY <1>1, <1>6 DEF QuietStep, Goal
<1>7. CASE CreationStep
  BY <1>2, <1>7 DEF CreationStep, Goal
<1>8. CASE BidStep
  BY <1>3, <1>8 DEF BidStep, Goal
<1>9. CASE CancellationStep
  BY <1>5, <1>9 DEF CancellationStep, Goal
<1> QED
  BY <1>4, <1>6, <1>7, <1>8, <1>9, KindsOfLogSteps DEF Goal

(* What is logged does not change what an auction's step does. *)
LEMMA LogStepIsStep == LogNext => Next
<1> SUFFICES ASSUME LogNext
             PROVE  Next
  OBVIOUS
<1>1. ASSUME NEW id \in AuctionIds, NEW x \in Accounts, NEW bid \in Bids,
             NEW arrived \in 0 .. bid, Bid(id, x, bid, arrived)
      PROVE  PlaceBid(id, x, bid, arrived)
  BY <1>1 DEF Bid, PlaceBid
<1>2. ASSUME NEW id \in AuctionIds, Settle(id)
      PROVE  SettleAuction(id)
  BY <1>2 DEF Settle, SettleAuction
<1> QED
  BY <1>1, <1>2 DEF LogNext, Next

-----------------------------------------------------------------------------
(* Log and auctions stay in agreement.                                     *)

(* A step that writes down one auction's change keeps the others' entries. *)
LEMMA OneAgrees ==
  ASSUME LogAgrees, NEW id \in AuctionIds, NEW e, Retold(id, e),
         Tells(e, auctions'[id], proceeds'[id], lotAt'[id]), Presentable(auctions'[id]),
         \A j \in AuctionIds \ {id} :
           /\ auctions'[j] = auctions[j] /\ lotAt'[j] = lotAt[j]
           /\ proceeds'[j] = proceeds[j]
  PROVE  LogAgrees'
<1>1. /\ books' \in LogRecord /\ books'.auctions[id] = e
      /\ \A j \in AuctionIds \ {id} : books'.auctions[j] = books.auctions[j]
  BY LoggedType DEF LogAgrees, Retold
<1>2. ASSUME NEW j \in AuctionIds
      PROVE  /\ Tells(books'.auctions[j], auctions'[j], proceeds'[j], lotAt'[j])
             /\ Presentable(auctions'[j])
  <2>1. CASE j = id
    BY <1>1, <2>1
  <2>2. CASE j # id
    BY <1>1, <2>2 DEF LogAgrees, Sale
  <2> QED
    BY <2>1, <2>2
<1> QED
  BY <1>1, <1>2 DEF LogAgrees, Sale

(* A step that no entry and no auction takes part in.                      *)
LEMMA QuietAgrees ==
  ASSUME LogAgrees, books' \in LogRecord, books'.auctions = books.auctions,
         UNCHANGED <<auctions, lotAt, proceeds>>
  PROVE  LogAgrees'
BY DEF LogAgrees, Sale

(* What an open auction has to do with its entry.                          *)
LEMMA OpenTells ==
  ASSUME Books, LogAgrees, NEW id \in AuctionIds, IsOpen(id)
  PROVE  /\ auctions[id] \in AuctionRecord
         /\ Tells(books.auctions[id], auctions[id], proceeds[id], lotAt[id])
         /\ Presentable(auctions[id])
         /\ auctions[id].s \in Accounts /\ auctions[id].s # NoAccount
         /\ lotAt[id] = Market /\ proceeds[id] = 0
         /\ books \in LogRecord
BY OpenIsRunning, BooksOf, AccountAssumption DEF LogAgrees, Running, Sale

(* An English bid is told as received, and no end is brought forward.      *)
LEMMA EnglishAgrees ==
  ASSUME WindowsFit, Bounded, Books, LogAgrees, NEW id \in AuctionIds,
         NEW x \in Accounts, NEW bid \in Nat, NEW arrived \in Nat,
         PlaceBidEnglish(id, x, bid, arrived),
         Log(BidPlaced(id, x, EscrowIn(Sale(id).pt, bid, arrived)))
  PROVE  LogAgrees'
<1> DEFINE au == auctions[id]
           r == EscrowIn(au.pt, bid, arrived)
           end == ExtendedEnd(au.eb)
           au2 == [au EXCEPT !.hb = x, !.ha = r, !.eb = end]
           e == BidEntry(books.auctions[id], x, r)
<1>1. /\ IsOpen(id) /\ height <= au.eb
      /\ auctions' = [auctions EXCEPT ![id] = au2]
      /\ UNCHANGED <<lotAt, proceeds>>
  BY DEF PlaceBidEnglish, BidAccepted, ReplaceBid, Sale
<1>2. /\ au \in AuctionRecord /\ Presentable(au) /\ au.s # NoAccount
      /\ Tells(books.auctions[id], au, proceeds[id], lotAt[id])
      /\ books \in LogRecord
  BY <1>1, OpenTells
<1>3. r \in Nat /\ Retold(id, e)
  BY <1>2, EnglishRetold DEF Sale
<1>4. end \in Nat /\ end >= au.eb
  <2>1. au.eb \in Nat /\ height \in Nat /\ cfg.antiSnipe \in Nat
    BY <1>2 DEF AuctionRecord, Books, MarketInv, MarketTypeOK, Config
  <2>2. end \in Nat
    BY <2>1, CustodyAssumption DEF ExtendedEnd
  <2> QED
    BY <1>1, <2>1, <2>2, EndPutOff DEF Books
<1>5. auctions \in [AuctionIds -> AuctionRecord]
  BY DEF Books, TypeOK
<1> HIDE DEF au, r, end
<1>6. Tells(e, au2, proceeds[id], lotAt[id])
  BY <1>2, <1>3, <1>4, BidTells
<1>7. Presentable(au2)
  <2>1. /\ au2.s = au.s /\ au2.a = au.a /\ au2.sp = au.sp /\ au2.fb = au.fb
        /\ au2.rs = au.rs
    BY <1>2 DEF AuctionRecord
  <2> HIDE DEF au2
  <2> QED
    BY <1>2, <2>1 DEF Presentable
<1> HIDE DEF au2, e
<1>8. auctions'[id] = au2 /\ \A j \in AuctionIds \ {id} : auctions'[j] = auctions[j]
  BY <1>1, <1>5
<1> QED
  BY <1>1, <1>3, <1>6, <1>7, <1>8, OneAgrees

(* The record with which an auction ends after a sale at p to w, or after  *)
(* none, and its closed entry.                                             *)
LEMMA EndAgrees ==
  ASSUME Books, LogAgrees, NEW id \in AuctionIds, IsOpen(id),
         NEW au \in AuctionRecord, NEW e,
         Tells(e, au, proceeds[id], lotAt[id]), Presentable(au), au.s = Sale(id).s,
         NEW w \in Accounts \cup {NoAccount}, NEW p \in Nat,
         Retold(id, EndedEntry(e, w, p)),
         auctions' = [auctions EXCEPT ![id] = [au EXCEPT !.stl = TRUE, !.act = FALSE]],
         lotAt' = [lotAt EXCEPT ![id] = IF w = NoAccount THEN au.s ELSE w],
         proceeds'[id] = p, \A j \in AuctionIds \ {id} : proceeds'[j] = proceeds[j]
  PROVE  LogAgrees'
<1> DEFINE au2 == [au EXCEPT !.stl = TRUE, !.act = FALSE]
           lot == IF w = NoAccount THEN au.s ELSE w
<1>1. au.s # NoAccount
  BY OpenTells DEF Sale
<1>2. Tells(EndedEntry(e, w, p), au2, p, lot)
  BY <1>1, EndTells
<1>3. Presentable(au2)
  <2>1. /\ au2.s = au.s /\ au2.a = au.a /\ au2.sp = au.sp /\ au2.fb = au.fb
        /\ au2.rs = au.rs
    BY DEF AuctionRecord
  <2> HIDE DEF au2
  <2> QED
    BY <2>1 DEF Presentable
<1> HIDE DEF au2, lot
<1>4. /\ auctions \in [AuctionIds -> AuctionRecord]
      /\ lotAt \in [AuctionIds -> Holders \cup {NoAccount}]
  BY DEF Books, TypeOK
<1>5. auctions' = [auctions EXCEPT ![id] = au2] /\ lotAt' = [lotAt EXCEPT ![id] = lot]
  BY DEF au2, lot
<1>6. /\ auctions'[id] = au2 /\ lotAt'[id] = lot
      /\ \A j \in AuctionIds \ {id} : auctions'[j] = auctions[j] /\ lotAt'[j] = lotAt[j]
  BY <1>4, <1>5
<1> QED
  BY <1>2, <1>3, <1>6, OneAgrees

(* The bid that buys at a Dutch auction is told together with the sale.    *)
LEMMA DutchAgrees ==
  ASSUME Books, LogAgrees, NEW id \in AuctionIds, NEW x \in Accounts,
         NEW bid \in Nat, NEW arrived \in Nat, NEW r,
         r = EscrowIn(Sale(id).pt,
                      DutchPrice(Sale(id).sp, Sale(id).ep, Sale(id).sb, Sale(id).eb, height)
                        * Sale(id).a,
                      arrived),
         PlaceBidDutch(id, x, bid, arrived),
         LogBoth(BidPlaced(id, x, r), SoldTo(id, x, r))
  PROVE  LogAgrees'
<1> DEFINE au == auctions[id]
           price == DutchPrice(au.sp, au.ep, au.sb, au.eb, height) * au.a
           end == au.eb
           au2 == [au EXCEPT !.hb = x, !.ha = r, !.eb = end]
           au3 == [au EXCEPT !.hb = x, !.ha = r, !.stl = TRUE, !.act = FALSE]
           e == BidEntry(books.auctions[id], x, r)
<1>1. /\ IsOpen(id) /\ arrived \in Arrivals(au.pt, price)
      /\ auctions' = [auctions EXCEPT ![id] = au3]
      /\ lotAt' = [lotAt EXCEPT ![id] = x]
      /\ proceeds' = [proceeds EXCEPT ![id] = @ + r]
  BY DEF PlaceBidDutch, BidAccepted, Sale
<1>2. /\ au \in AuctionRecord /\ Presentable(au) /\ au.s # NoAccount
      /\ Tells(books.auctions[id], au, proceeds[id], lotAt[id])
      /\ proceeds[id] = 0 /\ books \in LogRecord
  BY <1>1, OpenTells
<1>3. au.pt \in Tokens /\ end \in Nat /\ end >= au.eb
  BY <1>2 DEF AuctionRecord
<1>4. r = EscrowIn(au.pt, price, arrived)
  BY DEF Sale
<1> HIDE DEF price
<1>5. r = arrived /\ r \in Nat
  BY <1>1, <1>3, <1>4, CreditedArrived
<1>6. Retold(id, EndedEntry(e, x, r))
  BY <1>2, <1>5, DutchRetold
<1> HIDE DEF au
<1>7. /\ au2 \in AuctionRecord /\ au2.s = au.s /\ au2.a = au.a /\ au2.sp = au.sp
      /\ au2.fb = au.fb /\ au2.rs = au.rs
      /\ au3 = [au2 EXCEPT !.stl = TRUE, !.act = FALSE]
  BY <1>2, <1>3, <1>5 DEF AuctionRecord
<1> HIDE DEF end
<1>8. Tells(e, au2, proceeds[id], lotAt[id])
  BY <1>2, <1>3, <1>5, BidTells
<1> HIDE DEF au2, au3, e
<1>9. Presentable(au2)
  BY <1>2, <1>7 DEF Presentable
<1>10. /\ proceeds \in [AuctionIds -> Nat] /\ x # NoAccount
       /\ x \in Accounts \cup {NoAccount}
  BY AccountAssumption DEF Books, TypeOK
<1>11. proceeds'[id] = r /\ \A j \in AuctionIds \ {id} : proceeds'[j] = proceeds[j]
  BY <1>1, <1>2, <1>5, <1>10
<1>12. lotAt' = [lotAt EXCEPT ![id] = IF x = NoAccount THEN au2.s ELSE x]
  BY <1>1, <1>10
<1>13. au2.s = Sale(id).s
  BY <1>7 DEF Sale, au
<1>14. auctions' = [auctions EXCEPT ![id] = [au2 EXCEPT !.stl = TRUE, !.act = FALSE]]
  BY <1>1, <1>7
<1> QED
  BY <1>1, <1>5, <1>6, <1>7, <1>8, <1>9, <1>10, <1>11, <1>12, <1>13, <1>14, EndAgrees

(* A settlement is told with the winner, and without one when the bid is   *)
(* returned.                                                               *)
LEMMA SettleAgrees ==
  ASSUME Books, LogAgrees, NEW id \in AuctionIds, Settle(id)
  PROVE  LogAgrees'
<1> DEFINE au == auctions[id]
           e == books.auctions[id]
<1>1. IsOpen(id)
  BY DEF Settle, SettleNoSale, SettleSale, CanSettle
<1>2. /\ au \in AuctionRecord /\ Presentable(au) /\ au.s = Sale(id).s
      /\ Tells(e, au, proceeds[id], lotAt[id])
      /\ proceeds[id] = 0 /\ books \in LogRecord
  BY <1>1, OpenTells DEF Sale
<1>3. proceeds \in [AuctionIds -> Nat]
  BY DEF Books, TypeOK
<1>4. CASE SettleNoSale(id) /\ Log(NoSale(id))
  <2>1. /\ auctions' = [auctions EXCEPT ![id] = [au EXCEPT !.stl = TRUE, !.act = FALSE]]
        /\ lotAt' = [lotAt EXCEPT ![id] = au.s] /\ proceeds' = proceeds
    BY <1>4 DEF SettleNoSale, Closed, Sale
  <2>2. NoAccount \in Accounts \cup {NoAccount} /\ 0 \in Nat
    OBVIOUS
  <2>3. Retold(id, EndedEntry(e, NoAccount, 0))
    BY <1>2, <1>4, <2>2, SettledRetold DEF NoSale
  <2>4. lotAt' = [lotAt EXCEPT ![id] = IF NoAccount = NoAccount THEN au.s ELSE NoAccount]
    BY <2>1
  <2> HIDE DEF au, e
  <2> QED
    BY <1>1, <1>2, <2>1, <2>2, <2>3, <2>4, EndAgrees
<1>5. CASE SettleSale(id) /\ Log(SoldTo(id, Sale(id).hb, Sale(id).ha))
  <2> DEFINE w == au.hb
             p == au.ha
  <2>1. /\ auctions' = [auctions EXCEPT ![id] = [au EXCEPT !.stl = TRUE, !.act = FALSE]]
        /\ lotAt' = [lotAt EXCEPT ![id] = w] /\ HasBid(id)
        /\ proceeds' = [proceeds EXCEPT ![id] = @ + p]
    BY <1>5 DEF SettleSale, Closed, Sale
  <2>2. w \in Accounts \cup {NoAccount} /\ w # NoAccount /\ p \in Nat
    BY <1>2, <2>1 DEF AuctionRecord, HasBid, Sale
  <2>3. Retold(id, EndedEntry(e, w, p))
    BY <1>2, <1>5, <2>2, SettledRetold DEF SoldTo, Sale
  <2> HIDE DEF w, p
  <2>4. proceeds'[id] = p /\ \A j \in AuctionIds \ {id} : proceeds'[j] = proceeds[j]
    BY <1>2, <1>3, <2>1, <2>2
  <2>5. lotAt' = [lotAt EXCEPT ![id] = IF w = NoAccount THEN au.s ELSE w]
    BY <2>1, <2>2
  <2> HIDE DEF au, e
  <2> QED
    BY <1>1, <1>2, <2>1, <2>2, <2>3, <2>4, <2>5, EndAgrees
<1> QED
  BY <1>4, <1>5 DEF Settle

(* A cancelled auction's entry is closed, and its lot is back.             *)
LEMMA CancelAgrees ==
  ASSUME Books, LogAgrees, NEW id \in AuctionIds, CancelAuction(id),
         Log(AuctionCancelled(id, Sale(id).s))
  PROVE  LogAgrees'
<1> DEFINE au == auctions[id]
           au2 == [au EXCEPT !.act = FALSE]
           e == books.auctions[id]
<1>1. /\ IsOpen(id) /\ auctions' = [auctions EXCEPT ![id] = au2]
      /\ lotAt' = [lotAt EXCEPT ![id] = au.s] /\ UNCHANGED proceeds
  BY DEF CancelAuction, CanCancel, Sale
<1>2. /\ au \in AuctionRecord /\ Presentable(au) /\ au.s # NoAccount
      /\ Tells(e, au, proceeds[id], lotAt[id])
      /\ books \in LogRecord /\ au.act /\ ~au.stl
  BY <1>1, OpenTells DEF IsOpen, Sale
<1>3. Retold(id, CancelledEntry(e))
  BY <1>2, CancelledRetold
<1>4. /\ auctions \in [AuctionIds -> AuctionRecord]
      /\ lotAt \in [AuctionIds -> Holders \cup {NoAccount}]
  BY DEF Books, TypeOK
<1> HIDE DEF au, e
<1>5. Tells(CancelledEntry(e), au2, proceeds[id], au.s)
  BY <1>2, CancelTells
<1>6. Presentable(au2)
  <2>1. /\ au2.s = au.s /\ au2.a = au.a /\ au2.sp = au.sp /\ au2.fb = au.fb
        /\ au2.rs = au.rs
    BY <1>2 DEF AuctionRecord
  <2> HIDE DEF au2
  <2> QED
    BY <1>2, <2>1 DEF Presentable
<1> HIDE DEF au2
<1>7. /\ auctions'[id] = au2 /\ lotAt'[id] = au.s
      /\ \A j \in AuctionIds \ {id} : auctions'[j] = auctions[j] /\ lotAt'[j] = lotAt[j]
  BY <1>1, <1>4
<1> QED
  BY <1>1, <1>3, <1>5, <1>6, <1>7, OneAgrees

(* A new auction is told as it is recorded, and on terms a response can    *)
(* show.                                                                   *)
LEMMA CreateAgrees ==
  ASSUME Books, LogAgrees,
         NEW s \in Accounts, NEW i \in Items, NEW n \in LotSizes, NEW t \in Tokens,
         NEW kind \in AuctionTypes, NEW sp \in StartPrices, NEW ep \in EndPrices,
         NEW sb \in StartBlocks, NEW eb \in EndBlocks,
         CreateAuction(s, i, n, t, kind, sp, ep, sb, eb),
         Log(Created(s, i, n, kind, sp, ep, sb, eb))
  PROVE  LogAgrees'
<1> DEFINE c == CollectionOf[i]
           low == IF kind = "dutch" THEN ep ELSE 0
           first == IF sb = 0 THEN height ELSE sb
           fee == EffectiveFeeBps(c)
           splits == ResolveRoyaltySplits(c)
           au == [s |-> s, item |-> i, a |-> n, pt |-> t, at |-> kind,
                  sp |-> sp, ep |-> low, sb |-> first, eb |-> eb,
                  act |-> TRUE, stl |-> FALSE, fb |-> fee, rs |-> splits,
                  hb |-> NoAccount, ha |-> 0]
           e == NewEntry(s, i, n, kind, sp, low, first, eb)
<1>1. PICK id \in AuctionIds : id = nextAuctionId
  BY AuctionAssumption DEF Books, TypeOK, AuctionIds, CreateAuction, OpenAuction
<1>2. /\ auctions' = [auctions EXCEPT ![id] = au]
      /\ lotAt' = [lotAt EXCEPT ![id] = Market] /\ UNCHANGED proceeds
      /\ n > 0 /\ sp > 0 /\ EffectiveFeeBps(c) + RoyaltyBps(c) <= 10000
  BY <1>1 DEF CreateAuction, OpenAuction
<1>3. proceeds[id] = 0
  BY <1>1, BooksOf DEF Situation, Untouched
<1>4. Retold(id, e)
  BY <1>1, CreatedRetold DEF LogAgrees
<1>5. fee \in Nat /\ fee <= 10000 /\ TotalBps(splits) <= 5000
  <2>1. c \in Collections
    BY CustodyAssumption
  <2> HIDE DEF c
  <2>2. /\ fee \in Nat /\ splits \in Seq(Split)
        /\ fee + TotalBps(splits) <= BpsDenominator /\ TotalBps(splits) <= 5000
    BY <1>2, <2>1, LockedTerms DEF Books
  <2> HIDE DEF fee, splits
  <2>3. TotalBps(splits) \in Nat
    BY <2>2, TotalBpsOfSplits
  <2> QED
    BY <2>2, <2>3 DEF BpsDenominator
<1>6. /\ kind \in {"english", "dutch"} /\ n \in Nat /\ sp \in Nat /\ ep \in Nat
      /\ eb \in Nat /\ low \in Nat /\ first \in Nat
  BY AuctionAssumption, CustodyAssumption DEF Books, MarketInv, MarketTypeOK
<1> HIDE DEF c, low, first, fee, splits
<1>7. Tells(e, au, 0, Market)
  <2>1. /\ e.seller = s /\ e.item = i /\ e.amount = n /\ e.auctionType = kind
        /\ e.startPrice = sp /\ e.endPrice = low /\ e.startBlock = first
        /\ e.endBlock = eb /\ e.open = TRUE /\ e.bidder = NoAccount /\ e.bid = 0
        /\ e.winner = NoAccount /\ e.price = 0
    BY DEF NewEntry
  <2>2. e \in KnownEntries
    BY <1>6 DEF NewEntry, KnownEntries
  <2>3. /\ au.s = s /\ au.item = i /\ au.a = n /\ au.at = kind /\ au.sp = sp
        /\ au.ep = low /\ au.sb = first /\ au.eb = eb /\ au.hb = NoAccount
        /\ au.ha = 0 /\ au.act = TRUE /\ au.stl = FALSE
    OBVIOUS
  <2>4. s # NoAccount /\ eb <= eb
    BY <1>6, AccountAssumption
  <2> HIDE DEF e, au
  <2> QED
    BY <2>1, <2>2, <2>3, <2>4 DEF Tells
<1>8. Presentable(au)
  <2>1. au.a = n /\ au.sp = sp /\ au.fb = fee /\ au.rs = splits
    OBVIOUS
  <2> HIDE DEF au
  <2> QED
    BY <1>2, <1>5, <2>1 DEF Presentable
<1> HIDE DEF au, e
<1>9. /\ auctions \in [AuctionIds -> AuctionRecord]
      /\ lotAt \in [AuctionIds -> Holders \cup {NoAccount}]
  BY DEF Books, TypeOK
<1>10. /\ auctions'[id] = au /\ lotAt'[id] = Market /\ proceeds'[id] = 0
       /\ \A j \in AuctionIds \ {id} :
            /\ auctions'[j] = auctions[j] /\ lotAt'[j] = lotAt[j]
            /\ proceeds'[j] = proceeds[j]
  BY <1>2, <1>3, <1>9
<1> QED
  BY <1>4, <1>7, <1>8, <1>10, OneAgrees

(* Every step of the auctions keeps log and auctions in agreement.         *)
LEMMA StepAgrees ==
  ASSUME WindowsFit, Bounded, Books, LogAgrees, LogNext
  PROVE  LogAgrees'
<1>1. CASE QuietStep
  <2>1. UNCHANGED <<auctions, lotAt, proceeds>>
    BY <1>1 DEF QuietStep, Environment, auctionVars, TransferOutside
  <2> QED
    BY <1>1, <2>1, QuietAgrees DEF QuietStep, Silent, LogAgrees
<1>2. CASE CreationStep
  BY <1>2, CreateAgrees DEF CreationStep
<1>3. ASSUME NEW id \in AuctionIds, NEW x \in Accounts, NEW bid \in Bids,
             NEW arrived \in 0 .. bid, Bid(id, x, bid, arrived)
      PROVE  LogAgrees'
  <2> DEFINE au == Sale(id)
             price == DutchPrice(au.sp, au.ep, au.sb, au.eb, height) * au.a
             r == EscrowIn(au.pt, price, arrived)
  <2>1. bid \in Nat /\ arrived \in Nat
    BY AuctionAssumption
  <2>2. CASE /\ PlaceBidEnglish(id, x, bid, arrived)
             /\ Log(BidPlaced(id, x, EscrowIn(au.pt, bid, arrived)))
    BY <2>1, <2>2, EnglishAgrees
  <2>3. CASE /\ PlaceBidDutch(id, x, bid, arrived)
             /\ LogBoth(BidPlaced(id, x, r), SoldTo(id, x, r))
    BY <2>1, <2>3, DutchAgrees
  <2> QED
    BY <1>3, <2>2, <2>3 DEF Bid
<1>4. CASE BidStep
  BY <1>3, <1>4 DEF BidStep
<1>5. CASE CancellationStep
  BY <1>5, CancelAgrees DEF CancellationStep
<1>6. CASE \E id \in AuctionIds : Settle(id)
  BY <1>6, SettleAgrees
<1> QED
  BY <1>1, <1>2, <1>4, <1>5, <1>6, KindsOfLogSteps

-----------------------------------------------------------------------------
(* The steps of Rescue.                                                    *)

(* Stray money and its withdrawal touch nothing but the market's balance.  *)
MoneyOnly ==
  UNCHANGED <<marketVars, auctions, nextAuctionId, nft, lotAt, stake, proceeds>>

(* Besides the auctions' steps there are these.                            *)
LEMMA KindsOfRescueSteps ==
  ASSUME [RescueNext]_allVars
  PROVE  \/ MarketStep
         \/ \E t \in Tokens, v \in Nat :
              MoneyOnly /\ (SendStray(t, v) \/ EmergencyWithdraw(t, v))
         \/ UNCHANGED allVars
<1>1. ASSUME NEW t \in Tokens, NEW v \in StrayAmounts, SendStray(t, v)
      PROVE  v \in Nat /\ MoneyOnly
  BY <1>1, RescueAssumption DEF SendStray, MoneyOnly
<1>2. ASSUME NEW t \in Tokens, NEW v \in WithdrawAmounts, EmergencyWithdraw(t, v)
      PROVE  v \in Nat /\ MoneyOnly
  BY <1>2, RescueAssumption DEF EmergencyWithdraw, MoneyOnly
<1> QED
  BY <1>1, <1>2 DEF RescueNext

(* What moving stray money does to balance, history and log. *)
LEMMA StrayMoves ==
  ASSUME Books, sent \in [Tokens -> Nat], NEW t \in Tokens, NEW v \in Nat,
         SendStray(t, v)
  PROVE  /\ sent' \in [Tokens -> Nat] /\ pool' \in [Tokens -> Nat]
         /\ pool'[t] = pool[t] + v /\ sent'[t] = sent[t] + v
         /\ \A u \in Tokens \ {t} : pool'[u] = pool[u] /\ sent'[u] = sent[u]
         /\ books' = books /\ everRemoved' = everRemoved
BY DEF SendStray, Silent, Books, TypeOK

(* What a withdrawal does to balance, history and log. *)
LEMMA WithdrawalMoves ==
  ASSUME Books, sent \in [Tokens -> Nat], books \in LogRecord,
         NEW t \in Tokens, NEW v \in Nat, EmergencyWithdraw(t, v)
  PROVE  /\ sent' = sent /\ pool' \in [Tokens -> Nat]
         /\ pool'[t] = pool[t] - v /\ pool[t] >= v
         /\ \A u \in Tokens \ {t} : pool'[u] = pool[u]
         /\ books' \in LogRecord /\ books'.auctions = books.auctions
         /\ books'.withdrawn[t] = books.withdrawn[t] + v
         /\ \A u \in Tokens \ {t} : books'.withdrawn[u] = books.withdrawn[u]
         /\ everRemoved' = everRemoved /\ t \notin cfg.allowed
<1>1. /\ sent' = sent /\ everRemoved' = everRemoved /\ t \notin cfg.allowed
      /\ pool' = [pool EXCEPT ![t] = @ - v] /\ pool[t] >= v
      /\ books' = Told(books, EmergencyWithdrawn(t, v, cfg.owner))
  BY DEF EmergencyWithdraw, PaymentTokenAllowed, Log, rescueVars
<1>2. pool \in [Tokens -> Nat]
  BY DEF Books, TypeOK
<1>3. /\ pool' \in [Tokens -> Nat] /\ pool'[t] = pool[t] - v
      /\ \A u \in Tokens \ {t} : pool'[u] = pool[u]
  BY <1>1, <1>2
<1> DEFINE to == cfg.owner
<1> HIDE DEF to
<1>4. books' = Told(books, EmergencyWithdrawn(t, v, to))
  BY <1>1 DEF to
<1>5. /\ books' \in LogRecord /\ books'.auctions = books.auctions
      /\ books'.withdrawn[t] = books.withdrawn[t] + v
      /\ \A u \in Tokens \ {t} : books'.withdrawn[u] = books.withdrawn[u]
  BY <1>4, ToldWithdrawn
<1> QED
  BY <1>1, <1>3, <1>5

(* What holds of the auctions' records and of the books is not about the   *)
(* balance.                                                                *)
LEMMA MoneyOnlyBooks ==
  ASSUME Books, MoneyOnly, pool' \in [Tokens -> Nat]
  PROVE  Books'
<1>1. MarketInv'
  BY UnchangedMarketInv DEF Books, MoneyOnly
<1>2. TypeOK'
  BY DEF Books, TypeOK, MoneyOnly, MarketTypeOK, marketVars
<1>3. LotFollowsMoney'
  BY DEF Books, LotFollowsMoney, MoneyOnly, Untouched, Running, Sold, Returned, IsOpen, Sale
<1> QED
  BY <1>1, <1>2, <1>3 DEF Books

(* Types of what Rescue adds.                                              *)
RescueTypes == sent \in [Tokens -> Nat] /\ books \in LogRecord

(* The books of the auctions survive every step of Rescue, and the log     *)
(* stays a log.                                                            *)
LEMMA RescueStepBooks ==
  ASSUME Books, RescueTypes, [RescueNext]_allVars
  PROVE  Books' /\ RescueTypes'
<1>1. CASE MarketStep
  <2>1. LogNext /\ Next /\ sent' = sent
    BY <1>1, LogStepIsStep DEF MarketStep
  <2> QED
    BY <2>1, StepBooks, StepRetold DEF RescueTypes
<1>2. ASSUME NEW t \in Tokens, NEW v \in Nat, MoneyOnly,
             SendStray(t, v) \/ EmergencyWithdraw(t, v)
      PROVE  Books' /\ RescueTypes'
  BY <1>2, StrayMoves, WithdrawalMoves, MoneyOnlyBooks DEF RescueTypes
<1>3. CASE UNCHANGED allVars
  <2>1. UNCHANGED vars /\ UNCHANGED <<books, sent>>
    BY <1>3 DEF allVars, rescueVars
  <2> QED
    BY <2>1, StepBooks DEF RescueTypes
<1> QED
  BY <1>1, <1>2, <1>3, KindsOfRescueSteps

(* Nothing has happened yet.                                               *)
LEMMA RescueInitBooks ==
  ASSUME RescueInit
  PROVE  Books /\ RescueTypes
<1>1. NoEntry \in Entries
  BY DEF Entries
<1> QED
  BY <1>1, InitBooks DEF RescueInit, LogInit, RescueTypes, LogRecord

(* Records, lots and stakes of the auctions agree next to stray money and  *)
(* its withdrawal as well.                                                 *)
THEOREM RescueBooks == RescueSpec => [](Books /\ RescueTypes)
<1>1. RescueInit => Books /\ RescueTypes
  BY RescueInitBooks
<1>2. Books /\ RescueTypes /\ [RescueNext]_allVars => Books' /\ RescueTypes'
  BY RescueStepBooks
<1> QED
  BY <1>1, <1>2, PTL DEF RescueSpec

-----------------------------------------------------------------------------
(* What is written down is true.                                           *)

(* A behaviour begins without auctions and with an empty log.              *)
LEMMA InitAgrees ==
  ASSUME RescueInit
  PROVE  LogAgrees
<1>1. books \in LogRecord
  BY RescueInitBooks DEF RescueTypes
<1>2. ASSUME NEW id \in AuctionIds
      PROVE  books.auctions[id] = NoEntry /\ Sale(id).s = NoAccount
  BY DEF RescueInit, LogInit, Init, Sale, NoRecord
<1> QED
  BY <1>1, <1>2 DEF LogAgrees, Tells, Presentable

(* Rescue's steps keep log and auctions in agreement, and block and window *)
(* within their bounds.                                                    *)
LEMMA RescueStepAgrees ==
  ASSUME WindowsFit, Books, RescueTypes, Bounded, LogAgrees, [RescueNext]_allVars
  PROVE  Bounded' /\ LogAgrees'
<1>1. CASE MarketStep
  <2>1. LogNext /\ Next
    BY <1>1, LogStepIsStep DEF MarketStep
  <2> QED
    BY <2>1, StepAgrees, StepsOfMarket, StepBounded DEF Books
<1>2. ASSUME NEW t \in Tokens, NEW v \in Nat, MoneyOnly,
             SendStray(t, v) \/ EmergencyWithdraw(t, v)
      PROVE  Bounded' /\ LogAgrees'
  <2>1. books' \in LogRecord /\ books'.auctions = books.auctions
    BY <1>2, StrayMoves, WithdrawalMoves DEF RescueTypes
  <2>2. UNCHANGED <<auctions, lotAt, proceeds>> /\ UNCHANGED marketVars
    BY <1>2 DEF MoneyOnly
  <2> QED
    BY <2>1, <2>2, QuietAgrees, StepBounded DEF Books
<1>3. CASE UNCHANGED allVars
  <2>1. UNCHANGED <<auctions, lotAt, proceeds, books>> /\ UNCHANGED marketVars
    BY <1>3 DEF allVars, vars, auctionVars
  <2> QED
    BY <2>1, QuietAgrees, StepBounded DEF Books, RescueTypes
<1> QED
  BY <1>1, <1>2, <1>3, KindsOfRescueSteps

(* In every reachable state, whatever was bid, ended, cancelled, sent or   *)
(* withdrawn, the log of createAuction, placeBid, settleAuction and        *)
(* cancelAuction tells of each auction what getAuction answers, and who    *)
(* has the lot and for how much.  That ends are only put off is part of    *)
(* it, hence WindowsFit.                                                   *)
THEOREM LogIsTruthful == WindowsFit => (RescueSpec => []LogTellsAuctions)
<1> SUFFICES ASSUME WindowsFit
             PROVE  RescueSpec => []LogTellsAuctions
  OBVIOUS
<1>1. RescueInit => Bounded /\ LogAgrees
  BY InitAgrees, InitBounded DEF RescueInit, LogInit, Init
<1>2. Books /\ RescueTypes /\ Bounded /\ LogAgrees /\ [RescueNext]_allVars
        => Bounded' /\ LogAgrees'
  BY RescueStepAgrees
<1>3. Books /\ LogAgrees => LogTellsAuctions
  BY AgreementTells
<1> QED
  BY <1>1, <1>2, <1>3, RescueBooks, PTL DEF RescueSpec

-----------------------------------------------------------------------------
(* What a withdrawal leaves alone.                                         *)

(* The token of an open auction is on the whitelist or was taken off it:   *)
(* that a token off the whitelist backs no bid, unless it was ever         *)
(* removed, is what makes WhitelistProtects inductive.                     *)
StillListed ==
  \A id \in AuctionIds :
    IsOpen(id) => Sale(id).pt \in cfg.allowed \cup everRemoved

(* An auction that is open after a step was open before it in the same     *)
(* token, or was created in a token of the whitelist.                      *)
LEMMA OpenBefore ==
  ASSUME Books, Next, NEW id \in AuctionIds, IsOpen(id)'
  PROVE  \/ IsOpen(id) /\ Sale(id)'.pt = Sale(id).pt
         \/ Sale(id)'.pt \in cfg.allowed /\ cfg' = cfg
<1> DEFINE Goal == \/ IsOpen(id) /\ Sale(id)'.pt = Sale(id).pt
                   \/ Sale(id)'.pt \in cfg.allowed /\ cfg' = cfg
<1>0. auctions \in [AuctionIds -> AuctionRecord]
  BY DEF Books, TypeOK
<1>1. CASE UNCHANGED auctions
  BY <1>1 DEF IsOpen, Sale
<1>2. ASSUME NEW k \in AuctionIds, NEW au,
             auctions' = [auctions EXCEPT ![k] = au],
             \/ IsOpen(k) /\ au.pt = Sale(k).pt
             \/ au.pt \in cfg.allowed /\ cfg' = cfg
      PROVE  Goal
  BY <1>0, <1>2 DEF IsOpen, Sale
<1> HIDE DEF Goal
<1>3. ASSUME NEW s \in Accounts, NEW i \in Items, NEW n \in LotSizes,
             NEW t \in Tokens, NEW kind \in AuctionTypes, NEW sp \in StartPrices,
             NEW ep \in EndPrices, NEW sb \in StartBlocks, NEW eb \in EndBlocks,
             CreateAuction(s, i, n, t, kind, sp, ep, sb, eb)
      PROVE  Goal
  <2> DEFINE c == CollectionOf[i]
             au == [s |-> s, item |-> i, a |-> n, pt |-> t, at |-> kind,
                    sp |-> sp, ep |-> IF kind = "dutch" THEN ep ELSE 0,
                    sb |-> IF sb = 0 THEN height ELSE sb, eb |-> eb,
                    act |-> TRUE, stl |-> FALSE,
                    fb |-> EffectiveFeeBps(c), rs |-> ResolveRoyaltySplits(c),
                    hb |-> NoAccount, ha |-> 0]
  <2>1. PICK k \in AuctionIds : k = nextAuctionId
    BY <1>3, AuctionAssumption DEF Books, TypeOK, AuctionIds, CreateAuction, OpenAuction
  <2>2. /\ auctions' = [auctions EXCEPT ![k] = au]
        /\ t \in cfg.allowed /\ cfg' = cfg
    BY <1>3, <2>1 DEF CreateAuction, OpenAuction, PaymentTokenAllowed, marketVars
  <2>3. au.pt = t
    OBVIOUS
  <2> HIDE DEF au
  <2> QED
    BY <1>2, <2>2, <2>3
<1>4. ASSUME NEW k \in AuctionIds, NEW x \in Accounts, NEW bid \in Bids,
             NEW arrived \in 0 .. bid, PlaceBid(k, x, bid, arrived)
      PROVE  Goal
  <2> DEFINE au == auctions[k]
             last == ExtendedEnd(au.eb)
             price == DutchPrice(au.sp, au.ep, au.sb, au.eb, height) * au.a
             r == EscrowIn(au.pt, bid, arrived)
             q == EscrowIn(au.pt, price, arrived)
             au2 == [au EXCEPT !.hb = x, !.ha = r, !.eb = last]
             au3 == [au EXCEPT !.hb = x, !.ha = q, !.stl = TRUE, !.act = FALSE]
  <2>1. /\ IsOpen(k)
        /\ \/ auctions' = [auctions EXCEPT ![k] = au2]
           \/ auctions' = [auctions EXCEPT ![k] = au3]
    BY <1>4 DEF PlaceBid, PlaceBidEnglish, PlaceBidDutch, BidAccepted, ReplaceBid, Sale
  <2>2. au \in AuctionRecord
    BY <1>0
  <2> HIDE DEF au, r, q, last
  <2>3. au2.pt = au.pt /\ au3.pt = au.pt
    BY <2>2 DEF AuctionRecord
  <2> HIDE DEF au2, au3
  <2> QED
    BY <1>2, <2>1, <2>3 DEF au, Sale
<1>5. ASSUME NEW k \in AuctionIds, SettleAuction(k) \/ CancelAuction(k)
      PROVE  Goal
  <2> DEFINE au == auctions[k]
             au2 == [au EXCEPT !.stl = TRUE, !.act = FALSE]
             au3 == [au EXCEPT !.act = FALSE]
  <2>1. /\ IsOpen(k)
        /\ \/ auctions' = [auctions EXCEPT ![k] = au2]
           \/ auctions' = [auctions EXCEPT ![k] = au3]
    BY <1>5 DEF SettleAuction, SettleNoSale, SettleSale, CanSettle, CancelAuction,
                CanCancel, Closed, Sale
  <2>2. au2.pt = au.pt /\ au3.pt = au.pt
    BY <1>0 DEF AuctionRecord
  <2> HIDE DEF au2, au3
  <2> QED
    BY <1>2, <2>1, <2>2 DEF Sale
<1>6. ASSUME NEW ixy \in OutsideTrades, TransferOutside(ixy[1], ixy[2], ixy[3])
      PROVE  UNCHANGED auctions
  BY <1>6 DEF TransferOutside
<1>7. CASE Environment
  BY <1>1, <1>7 DEF Environment, auctionVars, Goal
<1> QED
  BY <1>1, <1>3, <1>4, <1>5, <1>6, <1>7 DEF Next, Goal

(* The auctions' steps and the configuration's keep StillListed. *)
LEMMA StepStillListed ==
  ASSUME Books, StillListed, MarketStep
  PROVE  StillListed'
<1>1. Next /\ everRemoved' = everRemoved \cup (cfg.allowed \ cfg'.allowed)
  BY LogStepIsStep DEF MarketStep
<1>2. ASSUME NEW id \in AuctionIds, IsOpen(id)'
      PROVE  Sale(id)'.pt \in cfg'.allowed \cup everRemoved'
  BY <1>1, <1>2, OpenBefore DEF StillListed
<1> QED
  BY <1>2 DEF StillListed

(* No bid is escrowed in a token that was on the whitelist neither now nor *)
(* before.                                                                 *)
LEMMA UnlistedBacksNothing ==
  ASSUME StillListed, NEW t \in Tokens, t \notin cfg.allowed, t \notin everRemoved
  PROVE  Escrowed(t) = 0
<1> DEFINE f == [id \in AuctionIds |-> EscrowedBid(id, t)]
<1>1. f = [id \in AuctionIds |-> 0]
  BY DEF StillListed, EscrowedBid
<1> HIDE DEF f
<1>2. Total(f) = 0
  BY <1>1, TotalZero
<1> QED
  BY <1>2 DEF Escrowed, f

(* What is escrowed is a natural number. *)
LEMMA EscrowedType ==
  ASSUME Books, NEW t \in Tokens
  PROVE  Escrowed(t) \in Nat
<1> DEFINE f == [id \in AuctionIds |-> EscrowedBid(id, t)]
<1>1. f \in [AuctionIds -> Nat]
  BY EscrowType
<1>2. IsFiniteSet(AuctionIds)
  BY AuctionsFinite
<1> HIDE DEF f
<1>3. Total(f) \in Nat
  BY <1>1, <1>2, TotalType
<1> QED
  BY <1>3 DEF Escrowed, f

(* What an auction's step does to balances and to what is escrowed.        *)
LEMMA StepEscrowed ==
  ASSUME Books, Books', [Next]_vars
  PROVE  /\ \A t \in Tokens : pool'[t] - Escrowed(t)' = pool[t] - Escrowed(t)
         /\ LotsHeld => LotsHeld'
<1>1. ASSUME NEW id \in AuctionIds, Balanced(id)
      PROVE  /\ \A t \in Tokens : pool'[t] - Escrowed(t)' = pool[t] - Escrowed(t)
             /\ LotsHeld => LotsHeld'
  <2>1. ASSUME NEW t \in Tokens
        PROVE  pool'[t] - Escrowed(t)' = pool[t] - Escrowed(t)
    <3>1. pool'[t] = pool[t] - EscrowedBid(id, t) + EscrowedBid(id, t)'
      BY <1>1 DEF Balanced
    <3>2. Escrowed(t)' = Escrowed(t) - EscrowedBid(id, t) + EscrowedBid(id, t)'
      BY <1>1, EscrowMoves DEF Balanced, Escrowed
    <3>3. /\ pool[t] \in Nat /\ Escrowed(t) \in Nat
          /\ EscrowedBid(id, t) \in Nat /\ EscrowedBid(id, t)' \in Nat
      <4>1. pool[t] \in Nat /\ EscrowedBid(id, t) \in Nat
        BY EscrowType DEF Books, TypeOK
      <4>2. EscrowedBid(id, t)' \in Nat
        BY DEF Books, TypeOK, EscrowedBid, Sale, AuctionRecord
      <4> QED
        BY <4>1, <4>2, EscrowedType
    <3> QED
      BY <3>1, <3>2, <3>3
  <2>2. ASSUME LotsHeld, NEW i \in Items
        PROVE  nft'[i][Market] = Total([j \in AuctionIds |-> EscrowedUnits(j, i)])'
    <3>1. nft[i][Market] = Total([j \in AuctionIds |-> EscrowedUnits(j, i)])
      BY <2>2 DEF LotsHeld
    <3>2. nft'[i][Market] = nft[i][Market] - EscrowedUnits(id, i) + EscrowedUnits(id, i)'
      BY <1>1 DEF Balanced
    <3> QED
      BY <1>1, <3>1, <3>2, EscrowMoves DEF Balanced
  <2> QED
    BY <2>1, <2>2 DEF LotsHeld
<1>2. CASE /\ UNCHANGED <<auctions, pool>>
           /\ \A i \in Items : nft'[i][Market] = nft[i][Market]
  BY <1>2 DEF LotsHeld, Escrowed, EscrowedBid, EscrowedUnits, IsOpen, Sale
<1> QED
  BY <1>1, <1>2, StepMoves

(* Records, lots and what is escrowed stay while only money moves. *)
LEMMA MoneyOnlyEscrow ==
  ASSUME MoneyOnly
  PROVE  /\ \A t \in Tokens : Escrowed(t)' = Escrowed(t)
         /\ LotsHeld => LotsHeld'
         /\ TermsWithin => TermsWithin'
BY DEF MoneyOnly, LotsHeld, TermsWithin, Escrowed, EscrowedBid, EscrowedUnits, IsOpen, Sale

(* Every token of an auction was listed, lots are with the market, terms   *)
(* add up, and WhitelistProtects: the inductive invariant of the money.    *)
Protected == StillListed /\ LotsHeld /\ TermsWithin /\ WhitelistProtects

(* Before anything happened nothing is escrowed.                           *)
LEMMA InitProtected ==
  ASSUME RescueInit
  PROVE  Protected
<1>1. Init
  BY DEF RescueInit, LogInit
<1>2. StillListed
  BY <1>1 DEF Init, StillListed, IsOpen, Sale, NoRecord
<1>3. BidsBacked /\ LotsHeld /\ TermsWithin
  BY <1>1, InitBalanced, InitTerms
<1>4. ASSUME NEW t \in Tokens
      PROVE  /\ books.withdrawn[t] <= sent[t]
             /\ pool[t] = Escrowed(t) + sent[t] - books.withdrawn[t]
  <2>1. books.withdrawn[t] = 0 /\ sent[t] = 0
    BY DEF RescueInit, LogInit
  <2>2. pool[t] = Escrowed(t)
    BY <1>3 DEF BidsBacked, Escrowed
  <2>3. Escrowed(t) \in Nat
    BY <1>1, InitBooks, EscrowedType
  <2> QED
    BY <2>1, <2>2, <2>3
<1> QED
  BY <1>2, <1>3, <1>4 DEF Protected, WhitelistProtects

(* An auction's step moves a balance only with what is escrowed.           *)
LEMMA MarketStepProtects ==
  ASSUME Books, RescueTypes, Protected, MarketStep
  PROVE  Protected'
<1>1. LogNext /\ Next /\ sent' = sent
  BY LogStepIsStep DEF MarketStep
<1>2. Books' /\ books'.withdrawn = books.withdrawn
  BY <1>1, StepBooks, StepRetold DEF RescueTypes
<1>3. everRemoved \subseteq everRemoved'
  BY DEF MarketStep
<1>4. ASSUME NEW t \in Tokens \ everRemoved'
      PROVE  /\ books'.withdrawn[t] <= sent'[t]
             /\ pool'[t] = Escrowed(t)' + sent'[t] - books'.withdrawn[t]
  <2>1. /\ books.withdrawn[t] <= sent[t]
        /\ pool[t] = Escrowed(t) + sent[t] - books.withdrawn[t]
    BY <1>3, <1>4 DEF Protected, WhitelistProtects
  <2>2. pool'[t] - Escrowed(t)' = pool[t] - Escrowed(t)
    BY <1>1, <1>2, StepEscrowed
  <2>3. /\ pool[t] \in Nat /\ pool'[t] \in Nat /\ sent[t] \in Nat
        /\ books.withdrawn[t] \in Nat
    BY <1>2 DEF Books, TypeOK, RescueTypes, LogRecord
  <2>4. Escrowed(t) \in Nat /\ Escrowed(t)' \in Nat
    <3>1. ASSUME Books PROVE Escrowed(t) \in Nat
      BY <3>1, EscrowedType
    <3> DEFINE f == [id \in AuctionIds |-> EscrowedBid(id, t)']
    <3>2. f \in [AuctionIds -> Nat]
      BY <1>2 DEF Books, TypeOK, EscrowedBid, Sale, AuctionRecord
    <3>3. IsFiniteSet(AuctionIds)
      BY AuctionsFinite
    <3> HIDE DEF f
    <3>4. Total(f) \in Nat
      BY <3>2, <3>3, TotalType
    <3> QED
      BY <3>1, <3>4 DEF Escrowed, f
  <2> QED
    BY <1>1, <1>2, <2>1, <2>2, <2>3, <2>4
<1>5. StillListed'
  BY StepStillListed DEF Protected
<1>6. LotsHeld'
  BY <1>1, <1>2, StepEscrowed DEF Protected
<1>7. TermsWithin'
  BY <1>1, StepTerms DEF Protected
<1> QED
  BY <1>4, <1>5, <1>6, <1>7 DEF Protected, WhitelistProtects

(* Stray money is counted in full, and a withdrawal takes no more of a     *)
(* token that was never removed than what came astray.                     *)
LEMMA MoneyStepProtects ==
  ASSUME Books, RescueTypes, Protected, NEW t \in Tokens, NEW v \in Nat, MoneyOnly,
         SendStray(t, v) \/ EmergencyWithdraw(t, v)
  PROVE  Protected'
<1>0. /\ \A u \in Tokens : /\ pool[u] \in Nat /\ sent[u] \in Nat
                           /\ books.withdrawn[u] \in Nat /\ Escrowed(u) \in Nat
                           /\ Escrowed(u)' = Escrowed(u)
  BY EscrowedType, MoneyOnlyEscrow DEF Books, TypeOK, RescueTypes, LogRecord
<1>1. everRemoved' = everRemoved /\ cfg' = cfg
  BY StrayMoves, WithdrawalMoves DEF RescueTypes, MoneyOnly, marketVars
<1>2. StillListed'
  BY <1>1 DEF Protected, StillListed, MoneyOnly, IsOpen, Sale
<1>3. LotsHeld' /\ TermsWithin'
  BY MoneyOnlyEscrow DEF Protected
<1>4. ASSUME NEW u \in Tokens, u \notin everRemoved
      PROVE  /\ books.withdrawn[u] <= sent[u]
             /\ pool[u] = Escrowed(u) + sent[u] - books.withdrawn[u]
  BY <1>4 DEF Protected, WhitelistProtects
<1>5. CASE SendStray(t, v)
  <2>1. ASSUME NEW u \in Tokens, u \notin everRemoved
        PROVE  /\ books'.withdrawn[u] <= sent'[u]
               /\ pool'[u] = Escrowed(u)' + sent'[u] - books'.withdrawn[u]
    <3>1. /\ books'.withdrawn[u] = books.withdrawn[u]
          /\ \/ u = t /\ pool'[u] = pool[u] + v /\ sent'[u] = sent[u] + v
             \/ pool'[u] = pool[u] /\ sent'[u] = sent[u]
      BY <1>5, StrayMoves DEF RescueTypes
    <3> QED
      BY <1>0, <1>4, <2>1, <3>1
  <2> QED
    BY <1>1, <1>2, <1>3, <2>1 DEF Protected, WhitelistProtects
<1>6. CASE EmergencyWithdraw(t, v)
  <2>1. /\ sent' = sent /\ pool[t] >= v /\ t \notin cfg.allowed
        /\ pool'[t] = pool[t] - v
        /\ books'.withdrawn[t] = books.withdrawn[t] + v
        /\ \A u \in Tokens \ {t} :
             pool'[u] = pool[u] /\ books'.withdrawn[u] = books.withdrawn[u]
    BY <1>6, WithdrawalMoves DEF RescueTypes
  <2>2. ASSUME NEW u \in Tokens, u \notin everRemoved
        PROVE  /\ books'.withdrawn[u] <= sent'[u]
               /\ pool'[u] = Escrowed(u)' + sent'[u] - books'.withdrawn[u]
    <3>1. CASE u = t
      <4>1. Escrowed(t) = 0
        BY <2>1, <2>2, <3>1, UnlistedBacksNothing DEF Protected
      <4> QED
        BY <1>0, <1>4, <2>1, <2>2, <3>1, <4>1
    <3>2. CASE u # t
      BY <1>0, <1>4, <2>1, <2>2, <3>2
    <3> QED
      BY <3>1, <3>2
  <2> QED
    BY <1>1, <1>2, <1>3, <2>2 DEF Protected, WhitelistProtects
<1> QED
  BY <1>5, <1>6

(* No step of Rescue breaks the protection. *)
LEMMA RescueStepProtects ==
  ASSUME Books, RescueTypes, Protected, [RescueNext]_allVars
  PROVE  Protected'
<1>1. CASE UNCHANGED allVars
  <2>1. /\ MoneyOnly /\ UNCHANGED <<cfg, pool, books, sent, everRemoved>>
        /\ UNCHANGED auctions
    BY <1>1 DEF allVars, vars, auctionVars, rescueVars, marketVars, MoneyOnly
  <2>2. \A t \in Tokens : Escrowed(t)' = Escrowed(t)
    BY <2>1, MoneyOnlyEscrow
  <2>3. StillListed'
    BY <2>1 DEF Protected, StillListed, IsOpen, Sale
  <2>4. LotsHeld' /\ TermsWithin'
    BY <2>1, MoneyOnlyEscrow DEF Protected
  <2> QED
    BY <2>1, <2>2, <2>3, <2>4 DEF Protected, WhitelistProtects
<1> QED
  BY <1>1, KindsOfRescueSteps, MarketStepProtects, MoneyStepProtects

(* Records, terms, lots and money of Rescue, in every reachable state.     *)
THEOREM RescueProtected == RescueSpec => []Protected
<1>1. RescueInit => Protected
  BY InitProtected
<1>2. Books /\ RescueTypes /\ Protected /\ [RescueNext]_allVars => Protected'
  BY RescueStepProtects
<1> QED
  BY <1>1, <1>2, RescueBooks, PTL DEF RescueSpec

(* As long as a token is not taken off the whitelist, emergencyWithdraw    *)
(* takes nothing of it but what was sent by mistake, for every order of    *)
(* bids, settlements, pauses, strays and withdrawals: the check of the     *)
(* whitelist is enough, though the contract keeps no record of what it     *)
(* owes.                                                                   *)
THEOREM WhitelistIsEnough == RescueSpec => []WhitelistProtects
<1>1. Protected => WhitelistProtects
  BY DEF Protected
<1> QED
  BY <1>1, RescueProtected, PTL

(* The market holds the lots of the open auctions, whatever is withdrawn:  *)
(* emergencyWithdraw refuses NFTs.                                         *)
THEOREM LotsStayInRescue == RescueSpec => []LotsHeld
<1>1. Protected => LotsHeld
  BY DEF Protected
<1> QED
  BY <1>1, RescueProtected, PTL

(* What an auction needs to be settled or cancelled is there as long as    *)
(* its payment token was never taken off the whitelist: the lot, the       *)
(* standing bid, and a way to cut it into its parts.  This is the safety   *)
(* part of AuctionsEnd.                                                    *)
ListedCanSettle ==
  \A id \in AuctionIds :
    IsOpen(id) /\ Sale(id).pt \notin everRemoved =>
      /\ CanMove(Sale(id).item, Market, Sale(id).a)
      /\ pool[Sale(id).pt] >= Sale(id).ha
      /\ Payable(Sale(id).ha, Sale(id).fb, Sale(id).rs)

(* It follows from what is escrowed.                                       *)
LEMMA ProtectedCanSettle ==
  ASSUME Books, RescueTypes, Protected
  PROVE  ListedCanSettle
<1> SUFFICES ASSUME NEW id \in AuctionIds, IsOpen(id), Sale(id).pt \notin everRemoved
             PROVE  /\ CanMove(Sale(id).item, Market, Sale(id).a)
                    /\ pool[Sale(id).pt] >= Sale(id).ha
                    /\ Payable(Sale(id).ha, Sale(id).fb, Sale(id).rs)
  BY DEF ListedCanSettle
<1> DEFINE au == Sale(id)
           f == [j \in AuctionIds |-> EscrowedBid(j, au.pt)]
           g == [j \in AuctionIds |-> EscrowedUnits(j, au.item)]
<1>1. /\ au.pt \in Tokens /\ au.item \in Items /\ au.ha \in Nat /\ au.fb \in Nat
      /\ au.rs \in Seq(Split)
  BY BooksOf DEF AuctionRecord, Sale
<1>2. IsFiniteSet(AuctionIds)
  BY AuctionsFinite
<1>3. f \in [AuctionIds -> Nat] /\ g \in [AuctionIds -> Nat]
  BY <1>1, EscrowType
<1>4. f[id] = au.ha /\ g[id] = au.a
  BY DEF EscrowedBid, EscrowedUnits
<1>5. /\ nft[au.item][Market] = Total(g)
      /\ pool[au.pt] = Total(f) + sent[au.pt] - books.withdrawn[au.pt]
      /\ books.withdrawn[au.pt] <= sent[au.pt]
  BY <1>1 DEF Protected, LotsHeld, WhitelistProtects, Escrowed
<1>6. sent[au.pt] \in Nat /\ books.withdrawn[au.pt] \in Nat
  BY <1>1 DEF RescueTypes, LogRecord
<1>7. /\ f[id] <= Total(f) /\ g[id] <= Total(g)
      /\ Total(f) \in Nat /\ Total(g) \in Nat /\ f[id] \in Nat /\ g[id] \in Nat
  <2> HIDE DEF f, g
  <2> QED
    BY <1>2, <1>3, TotalBound, TotalType
<1>8. Payable(au.ha, au.fb, au.rs)
  BY <1>1, TermsPay DEF Protected, TermsWithin
<1> HIDE DEF f, g
<1> QED
  BY <1>4, <1>5, <1>6, <1>7, <1>8 DEF CanMove

(* settleAuction finds what it needs as long as the token stays listed,    *)
(* whatever is withdrawn in between.                                       *)
THEOREM ListedAuctionsCanSettle == RescueSpec => []ListedCanSettle
<1>1. Books /\ RescueTypes /\ Protected => ListedCanSettle
  BY ProtectedCanSettle
<1> QED
  BY <1>1, RescueBooks, RescueProtected, PTL

-----------------------------------------------------------------------------
(* What is proved of the auctions alone holds next to withdrawals.         *)

(* The order of prices and blocks is not about the balance.                *)
LEMMA RescueStepOrder ==
  ASSUME Books, DutchOrder, [RescueNext]_allVars
  PROVE  DutchOrder'
<1>1. CASE MarketStep
  BY <1>1, LogStepIsStep, StepOrder DEF MarketStep
<1>2. CASE MoneyOnly \/ UNCHANGED allVars
  <2>1. UNCHANGED <<auctions, nextAuctionId, lotAt, proceeds>>
    BY <1>2 DEF MoneyOnly, allVars, vars, auctionVars
  <2> QED
    BY <2>1 DEF DutchOrder, DutchTerms, Sale
<1> QED
  BY <1>1, <1>2, KindsOfRescueSteps

(* Dutch prices fall, and a sold lot was paid for in full, next to stray   *)
(* money and withdrawals.                                                  *)
THEOREM RescuePricesFall == RescueSpec => []DutchPriceFalls
<1>1. RescueInit => DutchOrder
  BY CustodyAssumption DEF RescueInit, LogInit, Init, DutchOrder, AuctionIds
<1>2. Books /\ DutchOrder /\ [RescueNext]_allVars => DutchOrder'
  BY RescueStepOrder
<1>3. Books /\ DutchOrder => DutchPriceFalls
  BY OrderFalls
<1> QED
  BY <1>1, <1>2, <1>3, RescueBooks, PTL DEF RescueSpec

(* Bids leave time, and seen through lot and money an auction is a sale,   *)
(* in every step of Rescue.                                                *)
LEMMA RescueStepTime ==
  ASSUME WindowsFit, Books, Bounded, [RescueNext]_allVars, NEW id \in AuctionIds
  PROVE  TimeLeft(id)
<1>1. CASE MarketStep
  BY <1>1, LogStepIsStep, StepLeavesTime DEF MarketStep
<1>2. CASE MoneyOnly \/ UNCHANGED allVars
  BY <1>2 DEF MoneyOnly, allVars, vars, auctionVars, TimeLeft, Sale
<1> QED
  BY <1>1, <1>2, KindsOfRescueSteps

(* Block and window stay within their bounds.                              *)
LEMMA RescueStepBounded ==
  ASSUME Books, Bounded, [RescueNext]_allVars
  PROVE  Bounded'
<1>1. CASE MarketStep
  BY <1>1, LogStepIsStep, StepsOfMarket, StepBounded DEF MarketStep, Books
<1>2. CASE MoneyOnly \/ UNCHANGED allVars
  <2>1. UNCHANGED marketVars
    BY <1>2 DEF MoneyOnly, allVars, vars
  <2> QED
    BY <2>1, StepBounded DEF Books
<1> QED
  BY <1>1, <1>2, KindsOfRescueSteps

(* An accepted bid leaves the others at least antiSnipe blocks, next to    *)
(* stray money and withdrawals, as long as block and window do not wrap.   *)
THEOREM RescueBidsLeaveTime == WindowsFit => (RescueSpec => BidLeavesTime)
<1> SUFFICES ASSUME WindowsFit
             PROVE  RescueSpec => BidLeavesTime
  OBVIOUS
<1>1. RescueInit => Bounded
  BY InitBounded DEF RescueInit, LogInit, Init
<1>2. Books /\ Bounded /\ [RescueNext]_allVars => Bounded'
  BY RescueStepBounded
<1>3. Books /\ Bounded /\ [RescueNext]_allVars =>
        [\A id \in AuctionIds :
           IsOpen(id) /\ Sale(id).at = "english" /\ Sale(id)'.ha # Sale(id).ha =>
             /\ Sale(id)'.eb >= Sale(id).eb
             /\ Sale(id)'.eb >= height + cfg.antiSnipe]_vars
  BY RescueStepTime DEF TimeLeft
<1> QED
  BY <1>1, <1>2, <1>3, RescueBooks, PTL DEF RescueSpec, BidLeavesTime

(* Auctions implement sales under escrow even where the owner withdraws:   *)
(* a withdrawal is a stutter of the abstract sale, so that nobody's stake  *)
(* is charged with it.                                                     *)
THEOREM RescuedAuctionsAreSales == RescueSpec => SaleSpec
<1>1. RescueInit => SaleView!Init
  BY InitIsSaleInit DEF RescueInit, LogInit
<1>2. Books /\ [RescueNext]_allVars => [SaleView!Next]_(SaleView!saleVars)
  <2> SUFFICES ASSUME Books, [RescueNext]_allVars
               PROVE  [SaleView!Next]_(SaleView!saleVars)
    OBVIOUS
  <2>1. CASE MarketStep
    BY <2>1, LogStepIsStep, StepIsSaleStep DEF MarketStep
  <2>2. CASE MoneyOnly \/ UNCHANGED allVars
    <3>1. UNCHANGED <<auctions, lotAt, stake, proceeds>>
      BY <2>2 DEF MoneyOnly, allVars, vars, auctionVars
    <3> QED
      BY <3>1, SalesLeftAlone
  <2> QED
    BY <2>1, <2>2, KindsOfRescueSteps
<1> QED
  BY <1>1, <1>2, RescueBooks, PTL DEF RescueSpec, SaleSpec, SaleView!Spec
=============================================================================
