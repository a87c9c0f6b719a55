----------------------- MODULE AuctionLifecycleProofs -----------------------
(***************************************************************************)
(* What holds of an auction for every set of users and bids and for every  *)
(* length of the bidding, payment and hold windows: first of the listing   *)
(* alone (AuctionLifecycle), then of what it promises whoever watches it   *)
(* (AuctionSale), and last of the listing together with what is told of it *)
(* (Announcements).                                                        *)
(***************************************************************************)
EXTENDS AuctionRefinement, Announcements, FiniteSetTheorems, TLAPS

LEMMA NewRowIsFree ==
  ASSUME rows \subseteq BidId, rows # BidId
  PROVE  NewRow \in BidId /\ NewRow \notin rows
<1>1. \E b \in BidId : b \notin rows
  OBVIOUS
<1> QED BY <1>1 DEF NewRow

(* The rows the actions write are rows of the table.                       *)
LEMMA UnusedRowIsTyped == UnusedRow \in Bid
  BY ListingAssumption DEF UnusedRow, Bid, BidPaymentStatus, MAX_FALLBACK_RANK

LEMMA ExpireIsTyped ==
  ASSUME NEW r \in Bid
  PROVE  Expire(r) \in Bid
  BY DEF Expire, Bid, BidPaymentStatus

LEMMA CleanFinalStateIsTyped ==
  ASSUME bid \in [BidId -> Bid], NEW b \in BidId
  PROVE  CleanFinalState(b) \in [BidId -> Bid]
<1>1. \A r \in Bid : /\ [r EXCEPT !.paymentStatus = "CONFIRMED"] \in Bid
                     /\ [r EXCEPT !.paymentStatus = "NOT_RESPONSIBLE"] \in Bid
  BY DEF Bid, BidPaymentStatus
<1> QED BY <1>1 DEF CleanFinalState

LEMMA NewBidIsTyped ==
  ASSUME NEW u \in Users, NEW amount \in Nat
  PROVE  [UnusedRow EXCEPT !.bidder = u, !.amount = amount] \in Bid
  BY UnusedRowIsTyped DEF Bid

LEMMA NewTurnIsTyped ==
  ASSUME NEW rowOf \in [BidId -> Bid], NEW b \in BidId,
         NEW k \in 0..MAX_FALLBACK_RANK
  PROVE  [rowOf EXCEPT ![b].fallbackRank = k, ![b].responsible = TRUE,
                       ![b].paymentStatus = "PENDING"] \in [BidId -> Bid]
<1>1. [rowOf EXCEPT ![b].fallbackRank = k, ![b].responsible = TRUE,
                    ![b].paymentStatus = "PENDING"]
        = [rowOf EXCEPT ![b] = [@ EXCEPT !.fallbackRank = k,
                                         !.responsible = TRUE,
                                         !.paymentStatus = "PENDING"]]
  OBVIOUS
<1>2. [rowOf[b] EXCEPT !.fallbackRank = k, !.responsible = TRUE,
                       !.paymentStatus = "PENDING"] \in Bid
  BY DEF Bid, BidPaymentStatus
<1> QED BY <1>1, <1>2

LEMMA RetiredHoldIsTyped ==
  ASSUME bid \in [BidId -> Bid], NEW b \in BidId, RetireHold(b)
  PROVE  bid' \in [BidId -> Bid]
<1>1. bid' = [bid EXCEPT ![b] = [@ EXCEPT !.responsible = FALSE,
                                          !.paymentStatus = "NOT_RESPONSIBLE"]]
  BY DEF RetireHold
<1>2. [bid[b] EXCEPT !.responsible = FALSE,
                     !.paymentStatus = "NOT_RESPONSIBLE"] \in Bid
  BY DEF Bid, BidPaymentStatus
<1> QED BY <1>1, <1>2

LEMMA FallBackIsTyped ==
  ASSUME bid \in [BidId -> Bid], NEW b \in BidId, NEW c \in BidId,
         FallBack(b, c)
  PROVE  bid' \in [BidId -> Bid]
<1>1. NextRank(b, c) \in 0..MAX_FALLBACK_RANK
  BY DEF FallBack, IsTop, Candidates, NextRank, Bid, MAX_FALLBACK_RANK
<1> DEFINE expired == [bid EXCEPT ![b] = Expire(@)]
<1>2. expired \in [BidId -> Bid]
  BY ExpireIsTyped
<1>3. bid' = [expired EXCEPT ![c].fallbackRank = NextRank(b, c),
                             ![c].responsible = TRUE,
                             ![c].paymentStatus = "PENDING"]
  BY DEF FallBack
<1> QED BY <1>1, <1>2, <1>3, NewTurnIsTyped

-----------------------------------------------------------------------------
LEMMA TypeInductive ==
  ASSUME TypeOK, [Next]_vars
  PROVE  TypeOK'
<1> USE ListingAssumption, WindowAssumption
    DEF TypeOK, ProductStatus, SettlementStatus
<1>1. ASSUME NEW u \in Users, NEW amount \in 0..BiddingEndPrice,
             PlaceBid(u, amount)
      PROVE  TypeOK'
  <2>1. [UnusedRow EXCEPT !.bidder = u, !.amount = amount] \in Bid
    <3>1. amount \in Nat
      OBVIOUS
    <3> QED BY <3>1, NewBidIsTyped, Zenon
  <2> QED BY <1>1, <2>1, NewRowIsFree DEF PlaceBid, codVars
<1>2. CASE CloseIfExpired
  <2>1. PICK b \in AuctionBids :
          bid' = [bid EXCEPT ![b].fallbackRank = 0, ![b].responsible = TRUE,
                             ![b].paymentStatus = "PENDING"]
          /\ winningBid' = b
          /\ round' = [round EXCEPT ![b] = "PENDING_PAYMENT"]
    BY <1>2 DEF CloseIfExpired, IsTop
  <2>2. b \in BidId
    BY DEF AuctionBids
  <2>3. bid' \in [BidId -> Bid]
    <3>1. 0 \in 0..MAX_FALLBACK_RANK
      BY DEF MAX_FALLBACK_RANK
    <3> QED BY <2>1, <2>2, <3>1, NewTurnIsTyped
  <2> QED BY <1>2, <2>1, <2>2, <2>3 DEF CloseIfExpired, codVars
<1>3. ASSUME NEW u \in Users, StartInstantBuyHold(u) PROVE TypeOK'
  <2>1. [bidder |-> u, amount |-> InstantBuyPrice, isInstantBuy |-> TRUE,
         fallbackRank |-> 0, responsible |-> TRUE,
         paymentStatus |-> "PENDING"] \in Bid
    BY DEF Bid, BidPaymentStatus, MAX_FALLBACK_RANK
  <2> QED BY <1>3, <2>1, NewRowIsFree DEF StartInstantBuyHold, codVars
<1>4. ASSUME NEW b \in rows, CreateQrPayment(b) PROVE TypeOK'
  BY <1>4 DEF CreateQrPayment, product, clocks, codVars
<1>5. ASSUME NEW b \in rows, ReleaseInstantBuyHold(b) PROVE TypeOK'
  <2>1. CASE RetireHold(b)
    <3>1. bid' \in [BidId -> Bid]
      BY <2>1, RetiredHoldIsTyped
    <3> QED
      BY <1>5, <2>1, <3>1
      DEF ReleaseInstantBuyHold, RevertProductAfterFailedInstantBuyHold,
          RetireHold, FrozenCountdown, codVars
  <2>2. CASE DeleteHold(b)
    BY <1>5, <2>2, UnusedRowIsTyped
    DEF ReleaseInstantBuyHold, RevertProductAfterFailedInstantBuyHold,
        DeleteHold, FrozenCountdown, codVars
  <2> QED BY <1>5, <2>1, <2>2 DEF ReleaseInstantBuyHold
<1>6. ASSUME NEW b \in rows, ExpireHold(b) PROVE TypeOK'
  BY <1>6, ExpireIsTyped
  DEF ExpireHold, RevertProductAfterFailedInstantBuyHold, CloseRound,
      FrozenCountdown, codVars
<1>7. ASSUME NEW b \in rows, NEW c \in rows, FallBack(b, c) PROVE TypeOK'
  <2>1. bid' \in [BidId -> Bid]
    BY <1>7, FallBackIsTyped
  <2> QED BY <1>7, <2>1 DEF FallBack, CloseRound, codVars
<1>8. ASSUME NEW b \in rows, Abandon(b) PROVE TypeOK'
  BY <1>8, ExpireIsTyped DEF Abandon, CloseRound, codVars
<1>9. ASSUME NEW b \in rows, Settle(b)
      PROVE  /\ status' \in ProductStatus /\ winningBid' \in BidId
             /\ settledAmount' \in Nat /\ dueIn' \in Int
             /\ rows' \subseteq BidId /\ bid' \in [BidId -> Bid]
             /\ round' \in [BidId -> SettlementStatus \cup {"NONE"}]
  BY <1>9, CleanFinalStateIsTyped DEF Settle, Bid
<1>10. ASSUME NEW b \in rows, ConfirmPaymentManual(b) PROVE TypeOK'
  BY <1>9, <1>10 DEF ConfirmPaymentManual, codVars
<1>11. ASSUME NEW b \in rows, NEW u \in Users, ConfirmCod(u, b) PROVE TypeOK'
  BY <1>9, <1>11 DEF ConfirmCod
<1>12. ASSUME NEW b \in rows, NEW s \in attempted,
              ConfirmPaymentGateway(s, b)
       PROVE  TypeOK'
  <2>1. bid[b].amount \in Nat /\ bid[b].bidder \in Users
    BY DEF Bid
  <2> QED BY <1>9, <1>12, <2>1 DEF ConfirmPaymentGateway, codVars
<1>13. ASSUME NEW b \in rows, AbandonAfterCodRefusal(b) PROVE TypeOK'
  <2>1. bid' \in [BidId -> Bid]
    BY <1>13 DEF AbandonAfterCodRefusal, Bid, BidPaymentStatus
  <2>2. codRefusals' \in [Users -> Nat]
    BY <1>13 DEF AbandonAfterCodRefusal, Bid
  <2> QED BY <1>13, <2>1, <2>2 DEF AbandonAfterCodRefusal, clocks
<1>14. CASE ReportDelivered
  BY <1>14 DEF ReportDelivered, product, bidding, clocks
<1>15. CASE MarkCodCollected
  BY <1>15 DEF MarkCodCollected, product, bidding, clocks
<1>16. CASE Tick
  BY <1>16 DEF Tick, product, bidding, codVars
<1>17. CASE UNCHANGED vars
  BY <1>17 DEF vars, product, bidding, clocks, codVars
<1> QED
  BY <1>1, <1>2, <1>3, <1>4, <1>5, <1>6, <1>7, <1>8, <1>10, <1>11, <1>12,
     <1>13, <1>14, <1>15, <1>16, <1>17
  DEF Next, HandlePaymentExpiry

LEMMA TypeInit ==
  ASSUME Init
  PROVE  TypeOK
<1>1. bid \in [BidId -> Bid]
  BY UnusedRowIsTyped DEF Init
<1>2. round \in [BidId -> SettlementStatus \cup {"NONE"}]
  BY DEF Init
<1>3. codRefusals \in [Users -> Nat]
  BY DEF Init
<1>4. delivered \in BOOLEAN
  BY Zenon DEF Init
<1>5. /\ status \in ProductStatus
      /\ currentHighestBid \in Nat
      /\ currentHighestBidder \in Users \cup {NoUser}
      /\ winningBid \in BidId \cup {NoBid}
      /\ settledAmount \in Nat
      /\ rows \subseteq BidId /\ attempted \subseteq BidId
      /\ endsIn \in Int /\ dueIn \in Int /\ heldFor \in Nat
      /\ cod \in {"NONE", "COD_PENDING", "SUCCESS", "FAILED"}
      /\ biddingTime \in Nat
  BY DEF Init, ProductStatus
<1> QED BY <1>1, <1>2, <1>3, <1>4, <1>5, Zenon DEF TypeOK

(* Every reachable state is made of values the columns can hold.           *)
THEOREM TypeCorrect == Spec => []TypeOK
<1>1. Init => TypeOK
  BY TypeInit
<1>2. TypeOK /\ [Next]_vars => TypeOK'
  BY TypeInductive
<1> QED BY <1>1, <1>2, PTL DEF Spec

-----------------------------------------------------------------------------
(***************************************************************************)
(* Who owes, and who has bought.                                           *)
(***************************************************************************)
Bidding == status \in {"AWAITING_FIRST_BID", "ACTIVE", "AWAITING_INSTANT_BUY"}

(* A winner is on record exactly from the close of bidding on, and a lot   *)
(* sold cash on delivery was not an Instant Buy.                           *)
WinnerOnRecord ==
  /\ Bidding => winningBid = NoBid
  /\ ~Bidding => winningBid \in rows
  /\ cod = "COD_PENDING" => status = "SETTLED" /\ ~bid[winningBid].isInstantBuy

SaleInv == OneBuyerOwes /\ SaleIsConsistent /\ WinnerOnRecord

(* What a fallback writes to the table of bids.                            *)
LEMMA FallBackEffect ==
  ASSUME bid \in [BidId -> Bid], NEW b \in BidId, NEW c \in BidId,
         b # c, FallBack(b, c)
  PROVE  /\ bid' \in [BidId -> Bid]
         /\ bid'[b].responsible = FALSE /\ bid'[b].paymentStatus = "EXPIRED"
         /\ bid'[c].responsible = TRUE /\ bid'[c].paymentStatus = "PENDING"
         /\ \A d \in BidId : bid'[d].isInstantBuy = bid[d].isInstantBuy
         /\ \A d \in BidId \ {b, c} : bid'[d] = bid[d]
<1> DEFINE expired == [bid EXCEPT ![b] = Expire(@)]
<1>1. /\ expired \in [BidId -> Bid]
      /\ expired[b].responsible = FALSE
      /\ expired[b].paymentStatus = "EXPIRED"
      /\ expired[b].isInstantBuy = bid[b].isInstantBuy
      /\ \A d \in BidId \ {b} : expired[d] = bid[d]
  BY ExpireIsTyped DEF Expire, Bid
<1>2. bid' = [expired EXCEPT ![c].fallbackRank = NextRank(b, c),
                             ![c].responsible = TRUE,
                             ![c].paymentStatus = "PENDING"]
  BY DEF FallBack
<1>3. bid' \in [BidId -> Bid]
  BY FallBackIsTyped
<1> HIDE DEF expired
<1>4. \A d \in BidId \ {c} : bid'[d] = expired[d]
  BY <1>1, <1>2
<1>5. /\ bid'[c].responsible = TRUE /\ bid'[c].paymentStatus = "PENDING"
      /\ bid'[c].isInstantBuy = expired[c].isInstantBuy
  BY <1>1, <1>2 DEF Bid
<1> QED BY <1>1, <1>3, <1>4, <1>5

LEMMA SaleInvInductive ==
  ASSUME TypeOK, SaleInv, [Next]_vars
  PROVE  SaleInv'
<1> USE ListingAssumption DEF SaleInv
<1>1. ASSUME NEW u \in Users, NEW amount \in 0..BiddingEndPrice,
             PlaceBid(u, amount)
      PROVE  SaleInv'
  <2> DEFINE r == [UnusedRow EXCEPT !.bidder = u, !.amount = amount]
  <2>1. /\ r.responsible = FALSE /\ r.isInstantBuy = FALSE
        /\ r.paymentStatus = "NOT_RESPONSIBLE"
    BY DEF UnusedRow
  <2>2. bid' = [bid EXCEPT ![NewRow] = r]
    BY <1>1 DEF PlaceBid
  <2> HIDE DEF r
  <2>3. /\ NewRow \in BidId /\ NewRow \notin rows
        /\ rows' = rows \cup {NewRow}
        /\ status \in {"AWAITING_FIRST_BID", "ACTIVE"} /\ status' = "ACTIVE"
        /\ UNCHANGED <<winningBid, settledAmount, round, cod>>
    BY <1>1, NewRowIsFree DEF PlaceBid, TypeOK, codVars
  <2> HIDE DEF NewRow
  <2>4. OneBuyerOwes'
    BY <2>1, <2>2, <2>3 DEF OneBuyerOwes, Responsible, TypeOK
  <2>5. SaleIsConsistent'
    BY <2>1, <2>2, <2>3
    DEF SaleIsConsistent, WinnerOnRecord, Bidding, OneBuyerOwes, TypeOK
  <2>6. WinnerOnRecord'
    BY <2>1, <2>2, <2>3 DEF WinnerOnRecord, Bidding
  <2> QED BY <2>4, <2>5, <2>6
<1>2. CASE CloseIfExpired
  BY <1>2
  DEF CloseIfExpired, Due, IsTop, AuctionBids, OneBuyerOwes,
      SaleIsConsistent, WinnerOnRecord, Bidding, Responsible, TypeOK, codVars
<1>3. ASSUME NEW u \in Users, StartInstantBuyHold(u) PROVE SaleInv'
  BY <1>3, NewRowIsFree
  DEF StartInstantBuyHold, OneBuyerOwes, SaleIsConsistent, WinnerOnRecord,
      Bidding, Responsible, TypeOK, codVars
<1>4. ASSUME NEW b \in rows, CreateQrPayment(b) PROVE SaleInv'
  BY <1>4
  DEF CreateQrPayment, product, clocks, codVars, OneBuyerOwes,
      SaleIsConsistent, WinnerOnRecord, Bidding, Responsible
<1>5. ASSUME NEW b \in rows, ReleaseInstantBuyHold(b) PROVE SaleInv'
  <2>1. /\ UnusedRow.responsible = FALSE /\ UnusedRow.isInstantBuy = FALSE
        /\ UnusedRow.paymentStatus = "NOT_RESPONSIBLE"
    BY DEF UnusedRow
  <2>2. CASE RetireHold(b)
    BY <1>5, <2>2
    DEF ReleaseInstantBuyHold, RetireHold,
        RevertProductAfterFailedInstantBuyHold, OneBuyerOwes,
        SaleIsConsistent, WinnerOnRecord, Bidding, Responsible, TypeOK,
        codVars
  <2>3. CASE DeleteHold(b)
    BY <1>5, <2>1, <2>3
    DEF ReleaseInstantBuyHold, DeleteHold,
        RevertProductAfterFailedInstantBuyHold, OneBuyerOwes,
        SaleIsConsistent, WinnerOnRecord, Bidding, Responsible, TypeOK,
        codVars
  <2> QED BY <1>5, <2>2, <2>3 DEF ReleaseInstantBuyHold
<1>6. ASSUME NEW b \in rows, ExpireHold(b) PROVE SaleInv'
  BY <1>6
  DEF ExpireHold, Expire, Overdue, CloseRound,
      RevertProductAfterFailedInstantBuyHold, OneBuyerOwes, SaleIsConsistent,
      WinnerOnRecord, Bidding, Responsible, TypeOK, codVars
<1>7. ASSUME NEW b \in rows, NEW c \in rows, FallBack(b, c) PROVE SaleInv'
  <2>1. /\ b \in BidId /\ c \in BidId /\ b # c
        /\ ~bid[c].isInstantBuy /\ ~bid[b].isInstantBuy
    BY <1>7 DEF FallBack, IsTop, Candidates, AuctionBids, TypeOK
  <2>2. /\ bid' \in [BidId -> Bid]
        /\ bid'[b].responsible = FALSE /\ bid'[b].paymentStatus = "EXPIRED"
        /\ bid'[c].responsible = TRUE /\ bid'[c].paymentStatus = "PENDING"
        /\ ~bid'[c].isInstantBuy
        /\ \A d \in BidId \ {b, c} : bid'[d] = bid[d]
    BY <1>7, <2>1, FallBackEffect DEF TypeOK
  <2>3. round' = [round EXCEPT ![b] = CloseRound(b), ![c] = "PENDING_PAYMENT"]
        /\ CloseRound(b) \in {"NONE", "EXPIRED"}
    BY <1>7 DEF FallBack, CloseRound
  <2> QED
    BY <1>7, <2>1, <2>2, <2>3
    DEF FallBack, Overdue, OneBuyerOwes, SaleIsConsistent, WinnerOnRecord,
        Bidding, Responsible, TypeOK, codVars
<1>8. ASSUME NEW b \in rows, Abandon(b) PROVE SaleInv'
  BY <1>8
  DEF Abandon, Expire, Overdue, CloseRound, OneBuyerOwes, SaleIsConsistent,
      WinnerOnRecord, Bidding, Responsible, TypeOK, codVars
<1>9. ASSUME NEW b \in rows, b \in Responsible, Settle(b),
             status \in {"AWAITING_PAYMENT", "AWAITING_INSTANT_BUY"},
             cod' = "COD_PENDING" => ~bid[b].isInstantBuy
      PROVE  SaleInv'
  <2>1. /\ b \in BidId /\ bid' \in [BidId -> Bid]
        /\ bid'[b].paymentStatus = "CONFIRMED"
        /\ \A d \in BidId \ {b} : bid'[d].paymentStatus = "NOT_RESPONSIBLE"
        /\ \A d \in BidId : /\ bid'[d].responsible = bid[d].responsible
                            /\ bid'[d].isInstantBuy = bid[d].isInstantBuy
                            /\ bid'[d].amount = bid[d].amount
    <3>1. bid' = CleanFinalState(b) /\ b \in BidId
      BY <1>9 DEF Settle, TypeOK
    <3> QED BY <3>1, CleanFinalStateIsTyped DEF CleanFinalState, TypeOK, Bid
  <2> QED BY <1>9, <2>1
  DEF Settle, OneBuyerOwes, SaleIsConsistent, WinnerOnRecord, Bidding,
      Responsible, TypeOK
<1>10. ASSUME NEW b \in rows, ConfirmPaymentManual(b) PROVE SaleInv'
  BY <1>9, <1>10 DEF ConfirmPaymentManual, codVars, WinnerOnRecord
<1>11. ASSUME NEW b \in rows, NEW u \in Users, ConfirmCod(u, b)
       PROVE  SaleInv'
  BY <1>9, <1>11 DEF ConfirmCod
<1>12. ASSUME NEW b \in rows, NEW s \in attempted,
              ConfirmPaymentGateway(s, b)
       PROVE  SaleInv'
  BY <1>9, <1>12 DEF ConfirmPaymentGateway, codVars, WinnerOnRecord
<1>13. ASSUME NEW b \in rows, AbandonAfterCodRefusal(b) PROVE SaleInv'
  BY <1>13
  DEF AbandonAfterCodRefusal, Refusable, OneBuyerOwes, SaleIsConsistent,
      WinnerOnRecord, Bidding, Responsible, TypeOK
<1>14. CASE Tick
  BY <1>14 DEF Tick, product, bidding, codVars, OneBuyerOwes,
               SaleIsConsistent, WinnerOnRecord, Bidding, Responsible
<1>15. CASE ReportDelivered
  BY <1>15 DEF ReportDelivered, product, bidding, OneBuyerOwes,
               SaleIsConsistent, WinnerOnRecord, Bidding, Responsible
<1>16. CASE MarkCodCollected
  BY <1>16 DEF MarkCodCollected, product, bidding, OneBuyerOwes,
               SaleIsConsistent, WinnerOnRecord, Bidding, Responsible
<1>17. CASE UNCHANGED vars
  BY <1>17 DEF vars, product, bidding, codVars, OneBuyerOwes,
               SaleIsConsistent, WinnerOnRecord, Bidding, Responsible
<1> QED
    BY <1>1, <1>2, <1>3, <1>4, <1>5, <1>6, <1>7, <1>8, <1>10, <1>11, <1>12,
       <1>13, <1>14, <1>15, <1>16, <1>17
    DEF Next, HandlePaymentExpiry

-----------------------------------------------------------------------------
(***************************************************************************)
(* The countdown.  While bidding is open or paused, what is left of it,    *)
(* what the live hold has taken and what has been spent add up to          *)
(* BIDDING_DURATION_HOURS; the cron's lag bounds how far it is overdrawn.  *)
(***************************************************************************)
BiddingTimeIsBounded == biddingTime <= BiddingDuration + MaxLag

FrozenClock ==
  /\ status = "AWAITING_FIRST_BID" => AuctionBids = {} /\ biddingTime = 0
  /\ status = "ACTIVE" =>
       AuctionBids # {} /\ endsIn + biddingTime = BiddingDuration
  /\ status = "AWAITING_INSTANT_BUY" =>
       IF AuctionBids = {}
       THEN biddingTime = 0
       ELSE endsIn + heldFor + biddingTime = BiddingDuration
  /\ BiddingTimeIsBounded

(* A hold neither adds an auction bid nor takes one away.                  *)
LEMMA HoldLeavesAuctionBids ==
  ASSUME TypeOK, NEW b \in rows, bid[b].isInstantBuy,
         \/ RetireHold(b)
         \/ DeleteHold(b)
         \/ bid' = [bid EXCEPT ![b] = Expire(@)] /\ rows' = rows
  PROVE  AuctionBids' = AuctionBids
<1>1. b \in BidId /\ bid[b] \in Bid
  BY DEF TypeOK
<1>2. Expire(bid[b]).isInstantBuy
  BY <1>1 DEF Expire, Bid
<1>3. CASE RetireHold(b)
  <2>1. bid'[b].isInstantBuy /\ \A d \in BidId \ {b} : bid'[d] = bid[d]
    BY <1>1, <1>3 DEF RetireHold, TypeOK, Bid
  <2> QED BY <1>1, <1>3, <2>1 DEF RetireHold, AuctionBids, TypeOK
<1>4. CASE DeleteHold(b)
  BY <1>1, <1>4 DEF DeleteHold, AuctionBids, TypeOK
<1>5. CASE bid' = [bid EXCEPT ![b] = Expire(@)] /\ rows' = rows
  BY <1>1, <1>2, <1>5 DEF AuctionBids, TypeOK
<1> QED BY <1>3, <1>4, <1>5

LEMMA ResumeKeepsFrozenClock ==
  ASSUME TypeOK, FrozenClock, status = "AWAITING_INSTANT_BUY",
         RevertProductAfterFailedInstantBuyHold,
         AuctionBids' = AuctionBids, biddingTime' = biddingTime
  PROVE  FrozenClock'
  BY DEF TypeOK, FrozenClock, RevertProductAfterFailedInstantBuyHold,
         FrozenCountdown, BiddingTimeIsBounded

LEMMA ClosedKeepsFrozenClock ==
  ASSUME FrozenClock, biddingTime' = biddingTime,
         status' \in {"AWAITING_PAYMENT", "SETTLED", "ABANDONED"}
  PROVE  FrozenClock'
  BY DEF FrozenClock, BiddingTimeIsBounded

LEMMA FrozenClockInductive ==
  ASSUME TypeOK, SaleInv, FrozenClock, [Next]_vars
  PROVE  FrozenClock'
<1> USE WindowAssumption DEF BiddingTimeIsBounded
<1>1. ASSUME NEW u \in Users, NEW amount \in 0..BiddingEndPrice,
             PlaceBid(u, amount)
      PROVE  FrozenClock'
  <2>1. /\ NewRow \in BidId
        /\ rows' = rows \cup {NewRow}
        /\ bid' = [bid EXCEPT ![NewRow] =
                     [UnusedRow EXCEPT !.bidder = u, !.amount = amount]]
    BY <1>1, NewRowIsFree DEF PlaceBid, TypeOK
  <2>2. NewRow \in AuctionBids'
    BY <2>1 DEF AuctionBids, TypeOK, UnusedRow
  <2> QED BY <1>1, <2>2 DEF PlaceBid, FrozenClock, TypeOK
<1>2. CASE CloseIfExpired
  BY <1>2, ClosedKeepsFrozenClock DEF CloseIfExpired
<1>3. ASSUME NEW u \in Users, StartInstantBuyHold(u) PROVE FrozenClock'
  <2>1. AuctionBids' = AuctionBids
    BY <1>3, NewRowIsFree DEF StartInstantBuyHold, AuctionBids, TypeOK
  <2> QED BY <1>3, <2>1 DEF StartInstantBuyHold, FrozenClock, TypeOK
<1>4. ASSUME NEW b \in rows, CreateQrPayment(b) PROVE FrozenClock'
  BY <1>4 DEF CreateQrPayment, product, clocks, FrozenClock, AuctionBids
<1>5. ASSUME NEW b \in rows, ReleaseInstantBuyHold(b) PROVE FrozenClock'
  BY <1>5, HoldLeavesAuctionBids, ResumeKeepsFrozenClock
  DEF ReleaseInstantBuyHold
<1>6. ASSUME NEW b \in rows, ExpireHold(b) PROVE FrozenClock'
  <2>1. status = "AWAITING_INSTANT_BUY"
    BY <1>6 DEF ExpireHold, Overdue, SaleInv, OneBuyerOwes
  <2> QED BY <1>6, <2>1, HoldLeavesAuctionBids, ResumeKeepsFrozenClock
          DEF ExpireHold
<1>7. ASSUME NEW b \in rows, NEW c \in rows, FallBack(b, c)
      PROVE  FrozenClock'
  <2>1. status = "AWAITING_PAYMENT"
    BY <1>7 DEF FallBack, Overdue, SaleInv, OneBuyerOwes
  <2> QED BY <1>7, <2>1, ClosedKeepsFrozenClock DEF FallBack
<1>8. ASSUME NEW b \in rows,
             \/ Abandon(b)
             \/ ConfirmPaymentManual(b)
             \/ \E u \in Users : ConfirmCod(u, b)
             \/ \E s \in attempted : ConfirmPaymentGateway(s, b)
             \/ AbandonAfterCodRefusal(b)
      PROVE  FrozenClock'
  BY <1>8, ClosedKeepsFrozenClock
  DEF Abandon, ConfirmPaymentManual, ConfirmCod, ConfirmPaymentGateway,
      AbandonAfterCodRefusal, Settle, clocks
<1>9. CASE ReportDelivered \/ MarkCodCollected \/ UNCHANGED vars
  BY <1>9 DEF ReportDelivered, MarkCodCollected, vars, product, bidding,
              clocks, FrozenClock, AuctionBids
<1>10. CASE Tick
  <2>1. AuctionBids' = AuctionBids /\ status' = status
    BY <1>10 DEF Tick, product, bidding, AuctionBids
  <2> QED BY <1>10, <2>1 DEF Tick, TimerRuns, FrozenClock, TypeOK
<1> QED
  BY <1>1, <1>2, <1>3, <1>4, <1>5, <1>6, <1>7, <1>8, <1>9, <1>10
  DEF Next, HandlePaymentExpiry

-----------------------------------------------------------------------------
LEMMA InvariantsHold == Spec => [](TypeOK /\ SaleInv /\ FrozenClock)
<1>1. Init => SaleInv /\ FrozenClock
  <2> SUFFICES ASSUME Init PROVE SaleInv /\ FrozenClock
    OBVIOUS
  <2>1. AuctionBids = {} /\ Responsible = {}
    BY DEF Init, AuctionBids, Responsible
  <2>2. SaleInv
    BY <2>1 DEF Init, SaleInv, OneBuyerOwes, SaleIsConsistent,
                WinnerOnRecord, Bidding
  <2>3. FrozenClock
    BY <2>1, WindowAssumption DEF Init, FrozenClock, BiddingTimeIsBounded
  <2> QED BY <2>2, <2>3
<1>2. TypeOK /\ SaleInv /\ FrozenClock /\ [Next]_vars
        => SaleInv' /\ FrozenClock'
  BY SaleInvInductive, FrozenClockInductive
<1> QED BY <1>1, <1>2, TypeCorrect, PTL DEF Spec

(* At every moment the status says who owes money, and one round is live   *)
(* for them and none for anybody else.                                     *)
THEOREM OneBuyerOwesAlways == Spec => []OneBuyerOwes
  BY InvariantsHold, PTL DEF SaleInv

(* A sold lot tells one story.                                             *)
THEOREM SaleIsConsistentAlways == Spec => []SaleIsConsistent
  BY InvariantsHold, PTL DEF SaleInv

(* An auction closed by its timer was open to bids for the whole of        *)
(* BIDDING_DURATION_HOURS, whatever holds interrupted it, and for no longer*)
(* than that, up to the lag of the cron.                                   *)
THEOREM BiddersGetFullTime == Spec => FullBiddingTime
<1>1. TypeOK /\ FrozenClock /\ [Next]_vars =>
        [(/\ status = "ACTIVE" /\ status' = "AWAITING_PAYMENT"
          /\ currentHighestBid < BiddingEndPrice)
           => biddingTime \in BiddingDuration .. BiddingDuration + MaxLag]_vars
  <2> SUFFICES ASSUME TypeOK, FrozenClock, Next, status = "ACTIVE",
                      status' = "AWAITING_PAYMENT",
                      currentHighestBid < BiddingEndPrice
               PROVE  biddingTime \in BiddingDuration .. BiddingDuration + MaxLag
    OBVIOUS
  <2>1. CloseIfExpired
    BY DEF Next, PlaceBid, StartInstantBuyHold, CreateQrPayment, product,
           ReleaseInstantBuyHold, ConfirmPaymentManual, ConfirmCod,
           ConfirmPaymentGateway, AbandonAfterCodRefusal, Settle, Refusable,
           HandlePaymentExpiry, ExpireHold, FallBack, Abandon, Overdue,
           ReportDelivered, MarkCodCollected, Tick
  <2>2. endsIn <= 0
    BY <2>1, ListingAssumption DEF CloseIfExpired, Due, TypeOK
  <2> QED BY <2>2, WindowAssumption DEF FrozenClock, BiddingTimeIsBounded, TypeOK
<1> QED BY <1>1, InvariantsHold, PTL DEF Spec, FullBiddingTime

-----------------------------------------------------------------------------
(***************************************************************************)
(* Settlement rounds.  A bid that has no row has no round; an auction bid  *)
(* gets its round at the close or by fallback, and from then on its        *)
(* payment status shows it, so that the cascade cannot pick it again.      *)
(***************************************************************************)
RoundInv ==
  /\ \A b \in BidId : round[b] # "NONE" => b \in rows
  /\ Bidding => \A b \in AuctionBids : round[b] = "NONE"
  /\ status = "AWAITING_PAYMENT" =>
       \A b \in AuctionBids :
         bid[b].paymentStatus = "NOT_RESPONSIBLE" => round[b] = "NONE"
  /\ AttemptKeepsItsRound

(* What one step may do to the rounds.                                     *)
RoundStep ==
  \A b \in BidId :
    round'[b] # round[b] =>
      \/ round[b] = "NONE" /\ round'[b] = "PENDING_PAYMENT"
      \/ round[b] = "PENDING_PAYMENT" /\ round'[b] \in {"EXPIRED", "SETTLED"}
      \/ /\ round[b] = "PENDING_PAYMENT" /\ round'[b] = "NONE"
         /\ bid[b].isInstantBuy
      \/ round[b] = "SETTLED" /\ round'[b] = "EXPIRED" /\ cod' = "FAILED"

LEMMA RoundInvInductive ==
  ASSUME TypeOK, SaleInv, RoundInv, [Next]_vars
  PROVE  RoundInv' /\ RoundStep
<1> USE DEF RoundInv, RoundStep, AttemptKeepsItsRound
<1>1. ASSUME NEW u \in Users, NEW amount \in 0..BiddingEndPrice,
             PlaceBid(u, amount)
      PROVE  RoundInv' /\ RoundStep
  <2>1. /\ NewRow \in BidId /\ NewRow \notin rows
        /\ rows' = rows \cup {NewRow}
        /\ \A b \in rows : bid'[b] = bid[b]
        /\ status \in {"AWAITING_FIRST_BID", "ACTIVE"} /\ status' = "ACTIVE"
        /\ round' = round /\ attempted' = attempted
    BY <1>1, NewRowIsFree DEF PlaceBid, TypeOK
  <2> HIDE DEF NewRow
  <2> QED BY <2>1 DEF AuctionBids, Bidding, TypeOK
<1>2. CASE CloseIfExpired
  <2>1. PICK b \in AuctionBids :
          /\ bid' = [bid EXCEPT ![b].fallbackRank = 0, ![b].responsible = TRUE,
                                ![b].paymentStatus = "PENDING"]
          /\ round' = [round EXCEPT ![b] = "PENDING_PAYMENT"]
    BY <1>2 DEF CloseIfExpired, IsTop
  <2>2. /\ b \in BidId /\ bid'[b].paymentStatus = "PENDING"
        /\ \A d \in BidId : bid'[d].isInstantBuy = bid[d].isInstantBuy
        /\ \A d \in BidId \ {b} : bid'[d] = bid[d]
    BY <2>1 DEF AuctionBids, TypeOK, Bid
  <2> QED BY <1>2, <2>1, <2>2
          DEF CloseIfExpired, Due, AuctionBids, Bidding, TypeOK
<1>3. ASSUME NEW u \in Users, StartInstantBuyHold(u)
      PROVE  RoundInv' /\ RoundStep
  <2>1. AuctionBids' = AuctionBids
    BY <1>3, NewRowIsFree DEF StartInstantBuyHold, AuctionBids, TypeOK
  <2> QED BY <1>3, <2>1, NewRowIsFree
          DEF StartInstantBuyHold, Bidding, TypeOK, AuctionBids
<1>4. ASSUME NEW b \in rows, CreateQrPayment(b)
      PROVE  RoundInv' /\ RoundStep
  BY <1>4 DEF CreateQrPayment, product, clocks, AuctionBids, Bidding
<1>5. ASSUME NEW b \in rows, ReleaseInstantBuyHold(b)
      PROVE  RoundInv' /\ RoundStep
  <2>1. /\ AuctionBids' = AuctionBids /\ b \notin AuctionBids /\ b \in BidId
        /\ round[b] = "PENDING_PAYMENT" /\ bid[b].isInstantBuy
        /\ status = "AWAITING_INSTANT_BUY"
        /\ status' \in {"ACTIVE", "AWAITING_FIRST_BID"}
        /\ attempted' = attempted
    <3>1. /\ b \in Responsible /\ bid[b].isInstantBuy
          /\ RetireHold(b) \/ DeleteHold(b)
          /\ status = "AWAITING_INSTANT_BUY" /\ attempted' = attempted
          /\ status' \in {"ACTIVE", "AWAITING_FIRST_BID"}
      BY <1>5 DEF ReleaseInstantBuyHold, RevertProductAfterFailedInstantBuyHold
    <3>2. AuctionBids' = AuctionBids
      BY <3>1, HoldLeavesAuctionBids
    <3>3. b \in BidId /\ b \notin AuctionBids
      BY <3>1 DEF AuctionBids, TypeOK
    <3>4. round[b] = "PENDING_PAYMENT"
      BY <3>1, <3>3 DEF SaleInv, OneBuyerOwes
    <3> QED BY <3>1, <3>2, <3>3, <3>4
  <2>2. CASE b \in attempted /\ RetireHold(b)
    BY <2>1, <2>2 DEF RetireHold, Bidding, TypeOK, AuctionBids
  <2>3. CASE b \notin attempted /\ DeleteHold(b)
    BY <2>1, <2>3 DEF DeleteHold, Bidding, TypeOK, AuctionBids
  <2> QED BY <1>5, <2>2, <2>3 DEF ReleaseInstantBuyHold
<1>6. ASSUME NEW b \in rows, ExpireHold(b)
      PROVE  RoundInv' /\ RoundStep
  <2>1. /\ AuctionBids' = AuctionBids /\ b \notin AuctionBids /\ b \in BidId
        /\ status = "AWAITING_INSTANT_BUY"
        /\ status' \in {"ACTIVE", "AWAITING_FIRST_BID"}
        /\ round[b] = "PENDING_PAYMENT" /\ CloseRound(b) = "EXPIRED"
    <3>1. /\ b \in Responsible /\ bid[b].isInstantBuy
          /\ bid' = [bid EXCEPT ![b] = Expire(@)] /\ rows' = rows
          /\ status' \in {"ACTIVE", "AWAITING_FIRST_BID"}
      BY <1>6 DEF ExpireHold, Overdue, RevertProductAfterFailedInstantBuyHold
    <3>2. AuctionBids' = AuctionBids
      BY <3>1, HoldLeavesAuctionBids
    <3>3. b \in BidId /\ b \notin AuctionBids
      BY <3>1 DEF AuctionBids, TypeOK
    <3>4. /\ status = "AWAITING_INSTANT_BUY"
          /\ round[b] = "PENDING_PAYMENT" /\ CloseRound(b) = "EXPIRED"
      BY <1>6, <3>1, <3>3
      DEF ExpireHold, Overdue, SaleInv, OneBuyerOwes, CloseRound
    <3> QED BY <3>1, <3>2, <3>3, <3>4
  <2> QED BY <1>6, <2>1 DEF ExpireHold, Bidding, TypeOK, AuctionBids
<1>7. ASSUME NEW b \in rows, NEW c \in rows, FallBack(b, c)
      PROVE  RoundInv' /\ RoundStep
  <2>1. /\ b \in BidId /\ c \in BidId /\ b # c
        /\ status = "AWAITING_PAYMENT" /\ status' = status
        /\ c \in AuctionBids /\ bid[c].paymentStatus = "NOT_RESPONSIBLE"
        /\ round[b] = "PENDING_PAYMENT" /\ CloseRound(b) = "EXPIRED"
    BY <1>7 DEF FallBack, Overdue, IsTop, Candidates, CloseRound, AuctionBids,
                SaleInv, OneBuyerOwes, TypeOK
  <2>2. /\ bid'[b].paymentStatus = "EXPIRED"
        /\ bid'[c].paymentStatus = "PENDING"
        /\ \A d \in BidId : bid'[d].isInstantBuy = bid[d].isInstantBuy
        /\ \A d \in BidId \ {b, c} : bid'[d] = bid[d]
    BY <1>7, <2>1, FallBackEffect DEF TypeOK
  <2> QED BY <1>7, <2>1, <2>2 DEF FallBack, Bidding, TypeOK, AuctionBids
<1>8. ASSUME NEW b \in rows, Abandon(b)
      PROVE  RoundInv' /\ RoundStep
  <2>1. round[b] = "PENDING_PAYMENT" /\ CloseRound(b) = "EXPIRED"
    BY <1>8 DEF Abandon, Overdue, SaleInv, OneBuyerOwes, TypeOK, CloseRound
  <2> QED BY <1>8, <2>1 DEF Abandon, Bidding, TypeOK
<1>9. ASSUME NEW b \in rows,
             \/ ConfirmPaymentManual(b)
             \/ \E u \in Users : ConfirmCod(u, b)
             \/ \E s \in attempted : ConfirmPaymentGateway(s, b)
      PROVE  RoundInv' /\ RoundStep
  <2>1. round[b] = "PENDING_PAYMENT"
    BY <1>9 DEF ConfirmPaymentManual, ConfirmCod, ConfirmPaymentGateway,
                SaleInv, OneBuyerOwes, TypeOK
  <2>2. /\ round' = [round EXCEPT ![b] = "SETTLED"]
        /\ status' = "SETTLED" /\ rows' = rows
        /\ attempted' \subseteq attempted \cup {b}
    BY <1>9 DEF ConfirmPaymentManual, ConfirmCod, ConfirmPaymentGateway, Settle
  <2> QED BY <2>1, <2>2 DEF Bidding, TypeOK
<1>10. ASSUME NEW b \in rows, AbandonAfterCodRefusal(b)
       PROVE  RoundInv' /\ RoundStep
  BY <1>10 DEF AbandonAfterCodRefusal, Bidding, TypeOK
<1>11. CASE ReportDelivered \/ MarkCodCollected \/ Tick \/ UNCHANGED vars
  BY <1>11 DEF ReportDelivered, MarkCodCollected, Tick, vars, product, bidding,
               AuctionBids, Bidding
<1> QED
  BY <1>1, <1>2, <1>3, <1>4, <1>5, <1>6, <1>7, <1>8, <1>9, <1>10, <1>11
  DEF Next, HandlePaymentExpiry

LEMMA RoundInvHolds == Spec => []RoundInv
<1>1. Init => RoundInv
  BY DEF Init, RoundInv, AttemptKeepsItsRound, AuctionBids
<1>2. TypeOK /\ SaleInv /\ RoundInv /\ [Next]_vars => RoundInv'
  BY RoundInvInductive
<1> QED BY <1>1, <1>2, InvariantsHold, PTL DEF Spec

(* A round is resolved once, whoever pays, declines or lets it run out in  *)
(* whatever order.                                                         *)
THEOREM RoundsAreResolvedOnce == Spec => RoundIsResolvedOnce
<1>1. TypeOK /\ SaleInv /\ RoundInv /\ [Next]_vars => [RoundStep]_vars
  BY RoundInvInductive
<1> QED BY <1>1, InvariantsHold, RoundInvHolds, PTL
        DEF Spec, RoundIsResolvedOnce, RoundStep

(* No settlement round is deleted from under a payment attempt.            *)
THEOREM AttemptsKeepTheirRound == Spec => []AttemptKeepsItsRound
  BY RoundInvHolds, PTL DEF RoundInv

(* What one step may do to the outcome.                                    *)
OutcomeStep ==
  /\ status = "ABANDONED" => status' = "ABANDONED"
  /\ status = "SETTLED" =>
       \/ status' = "SETTLED" /\ winningBid' = winningBid
       \/ status' = "ABANDONED" /\ cod' = "FAILED"
  /\ status = "AWAITING_PAYMENT" =>
       status' \in {"AWAITING_PAYMENT", "SETTLED", "ABANDONED"}

LEMMA OutcomeStepHolds ==
  ASSUME TypeOK, SaleInv, [Next]_vars
  PROVE  OutcomeStep
<1>1. SUFFICES ASSUME status \in {"AWAITING_PAYMENT", "SETTLED", "ABANDONED"}
               PROVE  \/ UNCHANGED <<status, winningBid>>
                      \/ status = "SETTLED" /\ status' = "ABANDONED"
                         /\ cod' = "FAILED"
                      \/ /\ status = "AWAITING_PAYMENT"
                         /\ status' \in {"AWAITING_PAYMENT", "SETTLED",
                                         "ABANDONED"}
  BY DEF OutcomeStep
<1>2. \A b \in rows : ~ExpireHold(b)
  BY <1>1 DEF ExpireHold, Overdue, SaleInv, OneBuyerOwes
<1> QED
  BY <1>1, <1>2
  DEF Next, PlaceBid, CloseIfExpired, Due, StartInstantBuyHold,
      CreateQrPayment, vars, product, ReleaseInstantBuyHold,
      ConfirmPaymentManual, ConfirmCod, ConfirmPaymentGateway,
      AbandonAfterCodRefusal, Settle, Refusable, HandlePaymentExpiry,
      FallBack, Abandon, Overdue, ReportDelivered, MarkCodCollected, Tick

(* A declared winner is never undone, except by a refused parcel.          *)
THEOREM OutcomesAreFinal == Spec => OutcomeIsFinal
<1>1. TypeOK /\ SaleInv /\ [Next]_vars => [OutcomeStep]_vars
  BY OutcomeStepHolds
<1> QED BY <1>1, InvariantsHold, PTL
        DEF Spec, OutcomeIsFinal, OutcomeStep
-----------------------------------------------------------------------------
(***************************************************************************)
(* The highest bid on record.                                              *)
(***************************************************************************)
SoldInstantly == status = "SETTLED" /\ bid[winningBid].isInstantBuy

(* A step that leaves the auction bids and the record as they were, short  *)
(* of an Instant Buy sale, leaves the record right.                        *)
LEMMA RecordStays ==
  ASSUME HighestBidIsRecorded, ~SoldInstantly, ~SoldInstantly',
         AuctionBids' = AuctionBids,
         \A b \in AuctionBids : /\ bid'[b].amount = bid[b].amount
                                /\ bid'[b].bidder = bid[b].bidder,
         currentHighestBid' = currentHighestBid,
         currentHighestBidder' = currentHighestBidder
  PROVE  HighestBidIsRecorded'
<1>1. /\ \A b, c \in AuctionBids : bid[b].amount = bid[c].amount => b = c
      /\ IF AuctionBids = {}
         THEN currentHighestBid = 0 /\ currentHighestBidder = NoUser
         ELSE \E b \in AuctionBids : /\ IsTop(b, AuctionBids)
                                     /\ bid[b].amount = currentHighestBid
                                     /\ bid[b].bidder = currentHighestBidder
  BY DEF HighestBidIsRecorded, SoldInstantly
<1>2. \A b \in AuctionBids :
        IsTop(b, AuctionBids) => (\A c \in AuctionBids : bid'[c].amount <= bid'[b].amount)
  BY DEF IsTop
<1> QED BY <1>1, <1>2 DEF HighestBidIsRecorded, SoldInstantly, IsTop

(* Prices compare as they do in the units of the increments.               *)
LEMMA ScaledKeepsOrder ==
  ASSUME NEW a \in Nat, NEW b \in Nat, a <= b
  PROVE  Scaled(a) \in Nat /\ Scaled(b) \in Nat /\ Scaled(a) <= Scaled(b)
  BY IncrementAssumption, Z3 DEF Scaled

LEMMA NextBidIsHigher ==
  ASSUME TypeOK, NEW first \in BOOLEAN, NEW amount \in Nat,
         ValidBid(first, BiddingStartPrice, BiddingEndPrice,
                  currentHighestBid, amount)
  PROVE  /\ first => amount > 0
         /\ ~first => amount > currentHighestBid
<1>0. currentHighestBid \in Nat /\ BiddingStartPrice \in Nat \ {0}
  BY ListingAssumption DEF TypeOK
<1>1. ASSUME first, amount = 0 PROVE FALSE
  <2>1. Scaled(BiddingStartPrice) <= Scaled(amount)
    BY <1>1 DEF ValidBid, ComputeValidBidRange, FirstBidRange
  <2> QED BY <1>0, <1>1, <2>1, IncrementAssumption DEF Scaled
<1>2. ASSUME ~first, amount <= currentHighestBid PROVE FALSE
  <2>1. Scaled(currentHighestBid) + BidIncrementMinFlat <= Scaled(amount)
    BY <1>2 DEF ValidBid, ComputeValidBidRange, NextBidRange
  <2>2. /\ Scaled(amount) \in Nat /\ Scaled(currentHighestBid) \in Nat
        /\ Scaled(amount) <= Scaled(currentHighestBid)
    BY <1>0, <1>2, ScaledKeepsOrder
  <2> QED BY <2>1, <2>2, IncrementAssumption
<1> QED BY <1>0, <1>1, <1>2

LEMMA HighestBidInductive ==
  ASSUME TypeOK, SaleInv, FrozenClock, HighestBidIsRecorded, [Next]_vars
  PROVE  HighestBidIsRecorded'
<1>1. ASSUME NEW u \in Users, NEW amount \in 0..BiddingEndPrice,
             PlaceBid(u, amount)
      PROVE  HighestBidIsRecorded'
  <2> DEFINE r == [UnusedRow EXCEPT !.bidder = u, !.amount = amount]
  <2>1. /\ r.amount = amount /\ r.bidder = u /\ ~r.isInstantBuy
    BY DEF UnusedRow
  <2>2. PICK n \in BidId \ rows :
          /\ rows' = rows \cup {n}
          /\ bid' = [bid EXCEPT ![n] = r]
          /\ status \in {"AWAITING_FIRST_BID", "ACTIVE"}
          /\ status' = "ACTIVE"
          /\ currentHighestBid' = amount /\ currentHighestBidder' = u
    BY <1>1, NewRowIsFree DEF PlaceBid, TypeOK
  <2> HIDE DEF r
  <2>3. /\ AuctionBids' = AuctionBids \cup {n} /\ n \notin AuctionBids
        /\ bid'[n].amount = amount /\ bid'[n].bidder = u
        /\ \A b \in AuctionBids : b \in BidId /\ bid'[b] = bid[b]
    BY <2>1, <2>2 DEF AuctionBids, TypeOK
  <2>4. \A b \in AuctionBids : bid[b].amount \in Nat /\ bid[b].amount < amount
    <3>1. CASE status = "AWAITING_FIRST_BID"
      BY <3>1 DEF FrozenClock
    <3>2. CASE status = "ACTIVE"
      <4>1. amount > currentHighestBid
        <5>1. ValidBid(FALSE, BiddingStartPrice, BiddingEndPrice,
                       currentHighestBid, amount)
          BY <1>1, <3>2 DEF PlaceBid
        <5>2. amount \in Nat
          OBVIOUS
        <5> QED BY <5>1, <5>2, NextBidIsHigher
      <4>2. \A b \in AuctionBids :
              bid[b].amount \in Nat /\ bid[b].amount <= currentHighestBid
        <5>1. \A b \in AuctionBids : bid[b].amount \in Nat
          BY DEF AuctionBids, TypeOK, Bid
        <5> QED BY <5>1, <3>2 DEF HighestBidIsRecorded, IsTop
      <4> QED BY <4>1, <4>2 DEF TypeOK
    <3> QED BY <2>2, <3>1, <3>2
  <2>5. amount \in Nat
    OBVIOUS
  <2>6. \A b, c \in AuctionBids' : bid'[b].amount = bid'[c].amount => b = c
    BY <2>3, <2>4, <2>5 DEF HighestBidIsRecorded
  <2>7. n \in AuctionBids' /\ \A c \in AuctionBids' : bid'[c].amount <= bid'[n].amount
    BY <2>3, <2>4, <2>5
  <2> QED BY <2>2, <2>3, <2>6, <2>7 DEF HighestBidIsRecorded, IsTop
<1>2. CASE CloseIfExpired
  <2>1. PICK b \in BidId :
          bid' = [bid EXCEPT ![b].fallbackRank = 0, ![b].responsible = TRUE,
                             ![b].paymentStatus = "PENDING"]
    BY <1>2 DEF CloseIfExpired
  <2>2. \A d \in BidId : /\ bid'[d].isInstantBuy = bid[d].isInstantBuy
                         /\ bid'[d].amount = bid[d].amount
                         /\ bid'[d].bidder = bid[d].bidder
    BY <2>1 DEF TypeOK, Bid
  <2> QED BY <1>2, <2>2, RecordStays
          DEF CloseIfExpired, Due, AuctionBids, SoldInstantly, TypeOK
<1>3. ASSUME NEW u \in Users, StartInstantBuyHold(u)
      PROVE  HighestBidIsRecorded'
  <2>1. /\ AuctionBids' = AuctionBids
        /\ \A b \in AuctionBids : bid'[b] = bid[b]
    BY <1>3, NewRowIsFree DEF StartInstantBuyHold, AuctionBids, TypeOK
  <2> QED BY <1>3, <2>1, RecordStays DEF StartInstantBuyHold, SoldInstantly
<1>4. ASSUME NEW b \in rows, ReleaseInstantBuyHold(b) \/ ExpireHold(b)
      PROVE  HighestBidIsRecorded'
  <2>1. /\ status = "AWAITING_INSTANT_BUY" /\ bid[b].isInstantBuy
        /\ \/ RetireHold(b) \/ DeleteHold(b)
           \/ bid' = [bid EXCEPT ![b] = Expire(@)] /\ rows' = rows
        /\ RevertProductAfterFailedInstantBuyHold
    BY <1>4 DEF ReleaseInstantBuyHold, ExpireHold, Overdue, SaleInv,
                OneBuyerOwes
  <2>2. AuctionBids' = AuctionBids
    BY <2>1, HoldLeavesAuctionBids
  <2>3. \A d \in AuctionBids : bid'[d] = bid[d]
    BY <2>1 DEF RetireHold, DeleteHold, AuctionBids, TypeOK
  <2> QED BY <2>1, <2>2, <2>3, RecordStays
          DEF RevertProductAfterFailedInstantBuyHold, SoldInstantly
<1>5. ASSUME NEW b \in rows, NEW c \in rows, FallBack(b, c)
      PROVE  HighestBidIsRecorded'
  <2>1. \A d \in BidId : /\ bid'[d].isInstantBuy = bid[d].isInstantBuy
                         /\ bid'[d].amount = bid[d].amount
                         /\ bid'[d].bidder = bid[d].bidder
    <3> DEFINE expired == [bid EXCEPT ![b] = Expire(@)]
    <3>1. /\ expired \in [BidId -> Bid]
          /\ \A d \in BidId : /\ expired[d].isInstantBuy = bid[d].isInstantBuy
                              /\ expired[d].amount = bid[d].amount
                              /\ expired[d].bidder = bid[d].bidder
      BY ExpireIsTyped DEF TypeOK, Expire, Bid
    <3>2. bid' = [expired EXCEPT ![c].fallbackRank = NextRank(b, c),
                                 ![c].responsible = TRUE,
                                 ![c].paymentStatus = "PENDING"]
      BY <1>5 DEF FallBack
    <3> HIDE DEF expired
    <3> QED BY <3>1, <3>2 DEF Bid
  <2> QED BY <1>5, <2>1, RecordStays
          DEF FallBack, Overdue, AuctionBids, SoldInstantly, TypeOK
<1>6. ASSUME NEW b \in rows, Abandon(b) PROVE HighestBidIsRecorded'
  <2>1. \A d \in BidId : /\ bid'[d].isInstantBuy = bid[d].isInstantBuy
                         /\ bid'[d].amount = bid[d].amount
                         /\ bid'[d].bidder = bid[d].bidder
    BY <1>6 DEF Abandon, Expire, TypeOK, Bid
  <2> QED BY <1>6, <2>1, RecordStays
          DEF Abandon, Overdue, AuctionBids, SoldInstantly, TypeOK
<1>7. ASSUME NEW b \in rows, Settle(b)
      PROVE  /\ AuctionBids' = AuctionBids
             /\ \A d \in BidId : /\ bid'[d].isInstantBuy = bid[d].isInstantBuy
                                 /\ bid'[d].amount = bid[d].amount
                                 /\ bid'[d].bidder = bid[d].bidder
  <2>1. \A d \in BidId : /\ bid'[d].isInstantBuy = bid[d].isInstantBuy
                         /\ bid'[d].amount = bid[d].amount
                         /\ bid'[d].bidder = bid[d].bidder
    BY <1>7 DEF Settle, CleanFinalState, TypeOK, Bid
  <2> QED BY <1>7, <2>1 DEF Settle, AuctionBids, TypeOK
<1>8. ASSUME NEW b \in rows, Settle(b), ~bid[b].isInstantBuy,
             status # "SETTLED",
             UNCHANGED <<currentHighestBid, currentHighestBidder>>
      PROVE  HighestBidIsRecorded'
  <2>1. winningBid' = b /\ ~bid'[b].isInstantBuy
    BY <1>7, <1>8 DEF Settle, TypeOK
  <2> QED BY <1>7, <1>8, <2>1, RecordStays
          DEF SoldInstantly, AuctionBids, TypeOK
<1>9. ASSUME NEW b \in rows, NEW s \in attempted,
             ConfirmPaymentGateway(s, b)
      PROVE  HighestBidIsRecorded'
  <2>1. CASE bid[b].isInstantBuy
    <3>1. /\ status' = "SETTLED" /\ winningBid' = b /\ bid'[b].isInstantBuy
          /\ currentHighestBid' = bid'[b].amount
          /\ currentHighestBidder' = bid'[b].bidder
      BY <1>7, <1>9, <2>1 DEF ConfirmPaymentGateway, Settle, TypeOK
    <3>2. \A c, d \in AuctionBids' : bid'[c].amount = bid'[d].amount => c = d
      BY <1>7, <1>9
      DEF ConfirmPaymentGateway, HighestBidIsRecorded, AuctionBids, TypeOK
    <3> QED BY <3>1, <3>2 DEF HighestBidIsRecorded
  <2>2. CASE ~bid[b].isInstantBuy
    BY <1>8, <1>9, <2>2 DEF ConfirmPaymentGateway
  <2> QED BY <2>1, <2>2
<1>10. ASSUME NEW b \in rows,
              ConfirmPaymentManual(b) \/ \E u \in Users : ConfirmCod(u, b)
       PROVE  HighestBidIsRecorded'
  <2>1. /\ Settle(b) /\ status # "SETTLED" /\ ~bid[b].isInstantBuy
        /\ UNCHANGED <<currentHighestBid, currentHighestBidder>>
    BY <1>10 DEF ConfirmPaymentManual, ConfirmCod, SaleInv, OneBuyerOwes
  <2> QED BY <1>8, <2>1
<1>11. ASSUME NEW b \in rows, AbandonAfterCodRefusal(b)
       PROVE  HighestBidIsRecorded'
  <2>1. \A d \in BidId : /\ bid'[d].isInstantBuy = bid[d].isInstantBuy
                         /\ bid'[d].amount = bid[d].amount
                         /\ bid'[d].bidder = bid[d].bidder
    BY <1>11 DEF AbandonAfterCodRefusal, TypeOK, Bid
  <2> QED BY <1>11, <2>1, RecordStays
          DEF AbandonAfterCodRefusal, Refusable, SaleInv, WinnerOnRecord,
              AuctionBids, SoldInstantly, TypeOK
<1>12. CASE \/ \E b \in rows : CreateQrPayment(b)
            \/ ReportDelivered \/ MarkCodCollected \/ Tick \/ UNCHANGED vars
  <2>1. /\ rows' = rows /\ bid' = bid /\ status' = status
        /\ winningBid' = winningBid
        /\ currentHighestBid' = currentHighestBid
        /\ currentHighestBidder' = currentHighestBidder
    BY <1>12 DEF CreateQrPayment, ReportDelivered, MarkCodCollected, Tick,
                 vars, product, bidding
  <2> QED BY <2>1 DEF HighestBidIsRecorded, AuctionBids, IsTop
<1> QED
  BY <1>1, <1>2, <1>3, <1>4, <1>5, <1>6, <1>9, <1>10, <1>11, <1>12
  DEF Next, HandlePaymentExpiry

(* Whatever holds come, lapse, are released or are paid, the highest bid   *)
(* the product shows is that of the best auction bid in the table.         *)
THEOREM HighestBidIsRecordedAlways == Spec => []HighestBidIsRecorded
<1>1. Init => HighestBidIsRecorded
  BY DEF Init, HighestBidIsRecorded, AuctionBids
<1>2. TypeOK /\ SaleInv /\ FrozenClock /\ HighestBidIsRecorded /\ [Next]_vars
        => HighestBidIsRecorded'
  BY HighestBidInductive
<1> QED BY <1>1, <1>2, InvariantsHold, PTL DEF Spec
-----------------------------------------------------------------------------
(***************************************************************************)
(* The fallback cascade.  While payment is awaited, the bids that had a    *)
(* turn are those whose payment status shows it, and as many as the rank   *)
(* of the present winner says; and so are their bidders.                   *)
(***************************************************************************)
TurnInv ==
  /\ Bidding => \A b \in AuctionBids :
                  bid[b].paymentStatus = "NOT_RESPONSIBLE"
  /\ status = "AWAITING_PAYMENT" =>
       /\ \A b \in AuctionBids :
            /\ round[b] = "NONE" <=> bid[b].paymentStatus = "NOT_RESPONSIBLE"
            /\ \/ b = winningBid
               \/ bid[b].paymentStatus \in {"NOT_RESPONSIBLE", "EXPIRED"}
       /\ IsFiniteSet(Turns) /\ IsFiniteSet(BiddersOf(Turns))
       /\ Cardinality(Turns) = bid[winningBid].fallbackRank + 1
       /\ Cardinality(BiddersOf(Turns)) = bid[winningBid].fallbackRank + 1

CascadeInv == TurnInv /\ CascadeIsFair /\ AbandonedOnlyWhenExhausted

NoTurnWhileBidding == Bidding => Turns = {}

LEMMA NoTurnYet ==
  ASSUME RoundInv
  PROVE  NoTurnWhileBidding
  BY DEF RoundInv, NoTurnWhileBidding, Turns, Bidding

(* A step that touches no turn of an auction bid.                          *)
LEMMA TurnsStay ==
  ASSUME AuctionBids' = AuctionBids,
         \A b \in AuctionBids : /\ bid'[b].amount = bid[b].amount
                                /\ bid'[b].bidder = bid[b].bidder
                                /\ bid'[b].fallbackRank = bid[b].fallbackRank
                                /\ round'[b] = "NONE" <=> round[b] = "NONE"
  PROVE  /\ Turns' = Turns
         /\ BiddersOf(Turns)' = BiddersOf(Turns)
         /\ BiddersOf(AuctionBids)' = BiddersOf(AuctionBids)
         /\ CascadeIsFair => CascadeIsFair'
<1>1. Turns' = Turns /\ Turns \subseteq AuctionBids
  BY DEF Turns
<1>2. \A b, c \in AuctionBids : Outranks(b, c)' <=> Outranks(b, c)
  BY DEF Outranks
<1>3. /\ BiddersOf(Turns)' = BiddersOf(Turns)
      /\ BiddersOf(AuctionBids)' = BiddersOf(AuctionBids)
  BY <1>1 DEF BiddersOf
<1>4. ASSUME CascadeIsFair PROVE CascadeIsFair'
  <2>1. \A b \in Turns : {c \in Turns : Outranks(c, b)}'
                           = {c \in Turns : Outranks(c, b)}
    BY <1>1, <1>2
  <2> QED BY <1>1, <1>2, <1>4, <2>1 DEF CascadeIsFair
<1> QED BY <1>1, <1>3, <1>4

(* Bidding is open or paused before and after, or the outcome stands.      *)
LEMMA NoTurnNoCascade ==
  ASSUME Turns' = {},
         Bidding' => \A b \in AuctionBids' :
                       bid'[b].paymentStatus = "NOT_RESPONSIBLE",
         status' \in {"AWAITING_FIRST_BID", "ACTIVE", "AWAITING_INSTANT_BUY"}
  PROVE  CascadeInv'
  BY DEF CascadeInv, TurnInv, CascadeIsFair, AbandonedOnlyWhenExhausted

(* What the next turn of a fallback is: of a bidder who had none, with a   *)
(* bid below every one that had.                                           *)
LEMMA NextTurn ==
  ASSUME TypeOK, SaleInv, RoundInv, HighestBidIsRecorded, CascadeInv,
         NEW b \in rows, NEW c \in rows, FallBack(b, c)
  PROVE  /\ status = "AWAITING_PAYMENT" /\ b = winningBid /\ b \in Turns
         /\ c \in AuctionBids /\ c \notin Turns
         /\ bid[c].bidder \notin BiddersOf(Turns)
         /\ bid[b].fallbackRank < MAX_FALLBACK_RANK
         /\ \A d \in Turns : Outranks(d, c)
         /\ \A d \in AuctionBids :
              Outranks(d, c) =>
                \E e \in Turns : bid[e].bidder = bid[d].bidder /\ ~Outranks(d, e)
<1>1. /\ status = "AWAITING_PAYMENT" /\ b = winningBid
      /\ b \in AuctionBids /\ round[b] = "PENDING_PAYMENT"
  BY DEF FallBack, Overdue, SaleInv, OneBuyerOwes, AuctionBids, TypeOK
<1>2. /\ c \in Candidates(b)
      /\ \A d \in Candidates(b) : bid[d].amount <= bid[c].amount
      /\ bid[b].fallbackRank \in 0..MAX_FALLBACK_RANK
      /\ Candidates(b) # {}
  BY DEF FallBack, IsTop, TypeOK, Bid
<1>3. /\ c \in AuctionBids /\ bid[c].paymentStatus = "NOT_RESPONSIBLE"
      /\ bid[c].bidder # bid[b].bidder /\ ~HadATurn(bid[c].bidder)
      /\ bid[b].fallbackRank < MAX_FALLBACK_RANK
  BY <1>2 DEF Candidates, MAX_FALLBACK_RANK
<1>4. b \in Turns /\ c \notin Turns
  BY <1>1, <1>3 DEF Turns, CascadeInv, TurnInv
<1>5. \A d \in Turns : bid[d].bidder # bid[c].bidder
  <2> TAKE d \in Turns
  <2>1. CASE d = b
    BY <1>3, <2>1
  <2>2. CASE d # b
    <3>1. d \in AuctionBids /\ bid[d].paymentStatus = "EXPIRED"
      BY <1>1, <2>2 DEF Turns, CascadeInv, TurnInv
    <3> QED BY <1>3, <3>1 DEF HadATurn
  <2> QED BY <2>1, <2>2
<1>6. bid[c].bidder \notin BiddersOf(Turns)
  BY <1>5 DEF BiddersOf
<1>7. \A d \in AuctionBids : bid[d].amount \in Nat
  BY DEF AuctionBids, TypeOK, Bid
<1>8. \A d \in Turns : Outranks(d, c)
  <2> TAKE d \in Turns
  <2>1. d \in AuctionBids /\ d # c
    BY <1>4 DEF Turns
  <2>2. ~Outranks(c, d)
    BY <1>3, <1>5 DEF CascadeInv, CascadeIsFair
  <2>3. bid[c].amount # bid[d].amount
    BY <1>3, <2>1 DEF HighestBidIsRecorded
  <2> QED BY <1>3, <1>7, <2>1, <2>2, <2>3 DEF Outranks
<1>9. ASSUME NEW d \in AuctionBids, Outranks(d, c)
      PROVE  \E e \in Turns : bid[e].bidder = bid[d].bidder /\ ~Outranks(d, e)
  <2>1. \E e \in Turns : bid[e].bidder = bid[d].bidder
    <3>1. d \notin Candidates(b)
      BY <1>2, <1>3, <1>7, <1>9 DEF Outranks
    <3>2. CASE bid[d].paymentStatus # "NOT_RESPONSIBLE"
      BY <1>1, <3>2 DEF Turns, CascadeInv, TurnInv
    <3>3. CASE bid[d].bidder = bid[b].bidder
      BY <1>4, <3>3
    <3>4. CASE HadATurn(bid[d].bidder)
      <4>1. PICK e \in AuctionBids : /\ bid[e].bidder = bid[d].bidder
                                     /\ bid[e].paymentStatus = "EXPIRED"
        BY <3>4 DEF HadATurn
      <4> QED BY <1>1, <4>1 DEF Turns, CascadeInv, TurnInv
    <3> QED
      BY <1>2, <1>3, <3>1, <3>2, <3>3, <3>4 DEF Candidates, MAX_FALLBACK_RANK
  <2>2. PICK e \in Turns : bid[e].bidder = bid[d].bidder
    BY <2>1
  <2>3. ASSUME Outranks(d, e) PROVE FALSE
    <3>1. PICK f \in Turns : /\ bid[f].bidder = bid[d].bidder
                             /\ bid[f].bidder # bid[e].bidder
      BY <2>2, <2>3 DEF CascadeInv, CascadeIsFair
    <3> QED BY <2>2, <3>1
  <2> QED BY <2>2, <2>3
<1> QED BY <1>1, <1>3, <1>4, <1>6, <1>8, <1>9

(* Somebody whose bid was passed over when nobody is left had a turn.      *)
LEMMA Exhausted ==
  ASSUME TypeOK, SaleInv, CascadeInv, NEW b \in rows, Abandon(b)
  PROVE  /\ status = "AWAITING_PAYMENT" /\ b = winningBid /\ b \in Turns
         /\ \/ bid[b].fallbackRank = MAX_FALLBACK_RANK
            \/ \A c \in AuctionBids :
                 \E d \in Turns : bid[d].bidder = bid[c].bidder
<1>1. /\ status = "AWAITING_PAYMENT" /\ b = winningBid
      /\ b \in AuctionBids /\ round[b] = "PENDING_PAYMENT"
  BY DEF Abandon, Overdue, SaleInv, OneBuyerOwes, AuctionBids, TypeOK
<1>2. b \in Turns
  BY <1>1 DEF Turns
<1>3. bid[b].fallbackRank \in 0..MAX_FALLBACK_RANK
  BY DEF TypeOK, Bid
<1>4. ASSUME bid[b].fallbackRank < MAX_FALLBACK_RANK, NEW c \in AuctionBids
      PROVE  \E d \in Turns : bid[d].bidder = bid[c].bidder
  <2>1. c \notin Candidates(b)
    BY DEF Abandon
  <2>2. CASE bid[c].paymentStatus # "NOT_RESPONSIBLE"
    BY <1>1, <1>4, <2>2 DEF Turns, CascadeInv, TurnInv
  <2>3. CASE bid[c].bidder = bid[b].bidder
    BY <1>2, <2>3
  <2>4. CASE HadATurn(bid[c].bidder)
    <3>1. PICK e \in AuctionBids : /\ bid[e].bidder = bid[c].bidder
                                   /\ bid[e].paymentStatus = "EXPIRED"
      BY <2>4 DEF HadATurn
    <3> QED BY <1>1, <3>1 DEF Turns, CascadeInv, TurnInv
  <2> QED BY <1>3, <1>4, <2>1, <2>2, <2>3, <2>4
          DEF Candidates, MAX_FALLBACK_RANK
<1> QED BY <1>1, <1>2, <1>3, <1>4 DEF MAX_FALLBACK_RANK

LEMMA CloseKeepsCascade ==
  ASSUME TypeOK, SaleInv, RoundInv, CascadeInv, CloseIfExpired
  PROVE  /\ CascadeInv'
         /\ \E b \in AuctionBids : /\ Turns' = {b} /\ winningBid' = b
                                   /\ bid'[b].bidder = bid[b].bidder
<1>1. PICK b \in BidId :
        /\ IsTop(b, AuctionBids)
        /\ bid' = [bid EXCEPT ![b].fallbackRank = 0, ![b].responsible = TRUE,
                              ![b].paymentStatus = "PENDING"]
        /\ winningBid' = b
        /\ round' = [round EXCEPT ![b] = "PENDING_PAYMENT"]
  BY DEF CloseIfExpired
<1>2. /\ b \in AuctionBids /\ AuctionBids' = AuctionBids
      /\ bid'[b].fallbackRank = 0 /\ bid'[b].paymentStatus = "PENDING"
      /\ \A d \in BidId : bid'[d].amount = bid[d].amount
                          /\ bid'[d].bidder = bid[d].bidder
      /\ \A d \in BidId \ {b} : bid'[d] = bid[d]
  <2>1. /\ bid'[b].fallbackRank = 0 /\ bid'[b].paymentStatus = "PENDING"
        /\ \A d \in BidId : /\ bid'[d].amount = bid[d].amount
                            /\ bid'[d].bidder = bid[d].bidder
                            /\ bid'[d].isInstantBuy = bid[d].isInstantBuy
        /\ \A d \in BidId \ {b} : bid'[d] = bid[d]
    BY <1>1 DEF TypeOK, Bid
  <2>2. rows' = rows /\ rows \subseteq BidId
    BY DEF CloseIfExpired, TypeOK
  <2>3. b \in AuctionBids
    BY <1>1 DEF IsTop
  <2> QED BY <2>1, <2>2, <2>3 DEF AuctionBids
<1>3. /\ \A d \in AuctionBids : bid[d].paymentStatus = "NOT_RESPONSIBLE"
                                /\ round[d] = "NONE"
      /\ \A d \in AuctionBids : d \in BidId /\ bid[d].amount \in Nat
      /\ status' = "AWAITING_PAYMENT"
  BY DEF CloseIfExpired, Due, CascadeInv, TurnInv, RoundInv, Bidding,
         AuctionBids, TypeOK, Bid
<1>4. /\ round'[b] = "PENDING_PAYMENT"
      /\ \A d \in AuctionBids \ {b} : round'[d] = "NONE"
  BY <1>1, <1>3 DEF TypeOK
<1>5. Turns' = {b}
  BY <1>2, <1>4 DEF Turns
<1>6. /\ IsFiniteSet(Turns') /\ Cardinality(Turns') = 1
      /\ BiddersOf(Turns)' = {bid'[b].bidder}
      /\ IsFiniteSet(BiddersOf(Turns)') /\ Cardinality(BiddersOf(Turns)') = 1
  <2>1. BiddersOf(Turns)' = {bid'[b].bidder}
    BY <1>5 DEF BiddersOf
  <2> QED BY <1>5, <2>1, FS_Singleton
<1>7. TurnInv'
  <2>1. \A d \in AuctionBids :
          /\ round'[d] = "NONE" <=> bid'[d].paymentStatus = "NOT_RESPONSIBLE"
          /\ d = b \/ bid'[d].paymentStatus = "NOT_RESPONSIBLE"
    BY <1>2, <1>3, <1>4
  <2>2. bid'[winningBid'].fallbackRank + 1 = 1
    BY <1>1, <1>2
  <2> QED BY <1>1, <1>2, <1>3, <1>6, <2>1, <2>2 DEF TurnInv, Bidding
<1>8. CascadeIsFair'
  <2>1. \A d \in AuctionBids' : ~Outranks(d, b)'
    <3>1. \A d \in AuctionBids : bid[d].amount <= bid[b].amount
      BY <1>1 DEF IsTop
    <3>2. \A d \in AuctionBids : ~(bid[d].amount > bid[b].amount)
      BY <1>2, <1>3, <3>1
    <3> QED BY <1>2, <1>3, <3>2 DEF Outranks
  <2>2. {c \in Turns' : Outranks(c, b)'} = {}
    BY <1>2, <1>5, <2>1
  <2>3. bid'[b].fallbackRank = Cardinality({c \in Turns' : Outranks(c, b)'})
    BY <1>2, <2>2, FS_EmptySet
  <2> QED BY <1>5, <2>1, <2>3 DEF CascadeIsFair
<1>9. AbandonedOnlyWhenExhausted'
  BY <1>3 DEF AbandonedOnlyWhenExhausted
<1> QED BY <1>1, <1>2, <1>5, <1>7, <1>8, <1>9 DEF CascadeInv

LEMMA FallBackKeepsCascade ==
  ASSUME TypeOK, SaleInv, RoundInv, HighestBidIsRecorded, CascadeInv,
         NEW b \in rows, NEW c \in rows, FallBack(b, c)
  PROVE  /\ CascadeInv'
         /\ Turns' = Turns \cup {c} /\ winningBid' = c
         /\ AuctionBids' = AuctionBids
         /\ \A d \in BidId : /\ bid'[d].isInstantBuy = bid[d].isInstantBuy
                             /\ bid'[d].bidder = bid[d].bidder
<1>1. /\ status = "AWAITING_PAYMENT" /\ b = winningBid /\ b \in Turns
      /\ c \in AuctionBids /\ c \notin Turns
      /\ bid[c].bidder \notin BiddersOf(Turns)
      /\ bid[b].fallbackRank < MAX_FALLBACK_RANK
      /\ \A d \in Turns : Outranks(d, c)
      /\ \A d \in AuctionBids :
           Outranks(d, c) =>
             \E e \in Turns : bid[e].bidder = bid[d].bidder /\ ~Outranks(d, e)
  BY NextTurn
<1>2. /\ b \in BidId /\ c \in BidId /\ b # c /\ Turns \subseteq AuctionBids
      /\ AuctionBids \subseteq BidId
      /\ \A d \in AuctionBids : bid[d].amount \in Nat
      /\ bid[b].fallbackRank \in Nat
  BY <1>1 DEF Turns, AuctionBids, TypeOK, Bid, MAX_FALLBACK_RANK
<1>3. /\ \A d \in BidId : /\ bid'[d].isInstantBuy = bid[d].isInstantBuy
                          /\ bid'[d].amount = bid[d].amount
                          /\ bid'[d].bidder = bid[d].bidder
      /\ \A d \in BidId \ {c} : bid'[d].fallbackRank = bid[d].fallbackRank
      /\ \A d \in BidId \ {b, c} : bid'[d] = bid[d]
      /\ bid'[c].fallbackRank = bid[b].fallbackRank + 1
      /\ bid'[b].paymentStatus = "EXPIRED" /\ bid'[c].paymentStatus = "PENDING"
  <2> DEFINE expired == [bid EXCEPT ![b] = Expire(@)]
  <2>1. /\ expired \in [BidId -> Bid]
        /\ expired[b].paymentStatus = "EXPIRED"
        /\ \A d \in BidId \ {b} : expired[d] = bid[d]
        /\ \A d \in BidId : /\ expired[d].isInstantBuy = bid[d].isInstantBuy
                            /\ expired[d].amount = bid[d].amount
                            /\ expired[d].bidder = bid[d].bidder
                            /\ expired[d].fallbackRank = bid[d].fallbackRank
    BY <1>2, ExpireIsTyped DEF TypeOK, Expire, Bid
  <2>2. bid' = [expired EXCEPT ![c].fallbackRank = bid[b].fallbackRank + 1,
                               ![c].responsible = TRUE,
                               ![c].paymentStatus = "PENDING"]
    BY DEF FallBack, NextRank
  <2> HIDE DEF expired
  <2> QED BY <1>2, <2>1, <2>2 DEF Bid
<1>4. /\ rows' = rows /\ winningBid' = c /\ status' = status
      /\ round' = [round EXCEPT ![b] = CloseRound(b), ![c] = "PENDING_PAYMENT"]
  BY DEF FallBack
<1>5. AuctionBids' = AuctionBids
  BY <1>3, <1>4 DEF AuctionBids, TypeOK
<1>6. /\ round'[b] # "NONE" /\ round'[c] = "PENDING_PAYMENT"
      /\ \A d \in BidId \ {b, c} : round'[d] = round[d]
  <2>1. CloseRound(b) = "EXPIRED"
    BY <1>1 DEF CloseRound, Turns
  <2> QED BY <1>2, <1>4, <2>1 DEF TypeOK
<1>7. Turns' = Turns \cup {c}
  BY <1>1, <1>2, <1>5, <1>6 DEF Turns
<1>8. BiddersOf(Turns)' = BiddersOf(Turns) \cup {bid[c].bidder}
  BY <1>2, <1>3, <1>7 DEF BiddersOf
<1>9. /\ IsFiniteSet(Turns) /\ IsFiniteSet(BiddersOf(Turns))
      /\ Cardinality(Turns) = bid[b].fallbackRank + 1
      /\ Cardinality(BiddersOf(Turns)) = bid[b].fallbackRank + 1
  BY <1>1 DEF CascadeInv, TurnInv
<1>10. /\ IsFiniteSet(Turns') /\ Cardinality(Turns') = bid[b].fallbackRank + 2
       /\ IsFiniteSet(BiddersOf(Turns)')
       /\ Cardinality(BiddersOf(Turns)') = bid[b].fallbackRank + 2
  <2>1. /\ IsFiniteSet(Turns \cup {c})
        /\ Cardinality(Turns \cup {c}) = Cardinality(Turns) + 1
    BY <1>1, <1>9, FS_AddElement
  <2>2. /\ IsFiniteSet(BiddersOf(Turns) \cup {bid[c].bidder})
        /\ Cardinality(BiddersOf(Turns) \cup {bid[c].bidder})
             = Cardinality(BiddersOf(Turns)) + 1
    BY <1>1, <1>9, FS_AddElement
  <2>3. (bid[b].fallbackRank + 1) + 1 = bid[b].fallbackRank + 2
    BY <1>2
  <2> QED BY <1>7, <1>8, <1>9, <2>1, <2>2, <2>3
<1>11. TurnInv'
  <2>1. \A d \in AuctionBids :
          /\ round'[d] = "NONE" <=> bid'[d].paymentStatus = "NOT_RESPONSIBLE"
          /\ d = c \/ bid'[d].paymentStatus \in {"NOT_RESPONSIBLE", "EXPIRED"}
    BY <1>1, <1>2, <1>3, <1>6 DEF CascadeInv, TurnInv
  <2>2. bid'[winningBid'].fallbackRank + 1 = bid[b].fallbackRank + 2
    BY <1>2, <1>3, <1>4
  <2> QED BY <1>1, <1>4, <1>5, <1>10, <2>1, <2>2 DEF TurnInv, Bidding
<1>12. \A d, e \in AuctionBids : Outranks(d, e)' <=> Outranks(d, e)
  BY <1>2, <1>3 DEF Outranks
<1>13. CascadeIsFair'
  <2> SUFFICES ASSUME NEW t \in Turns'
      PROVE /\ bid'[t].fallbackRank = Cardinality({d \in Turns' : Outranks(d, t)'})
            /\ \A d \in Turns' : bid'[t].bidder = bid'[d].bidder => t = d
            /\ \A d \in AuctionBids' :
                 Outranks(d, t)' =>
                   \E e \in Turns' : /\ bid'[e].bidder = bid'[d].bidder
                                     /\ bid'[e].bidder # bid'[t].bidder
                                     /\ ~Outranks(d, e)'
    BY DEF CascadeIsFair
  <2>1. CASE t = c
    <3>1. {d \in Turns' : Outranks(d, t)'} = Turns
      <4>1. ~Outranks(c, c)
        BY <1>1, <1>2 DEF Outranks
      <4> QED BY <1>1, <1>2, <1>7, <1>12, <2>1, <4>1
    <3>2. bid'[t].fallbackRank = Cardinality(Turns)
      BY <1>3, <1>9, <2>1
    <3>3. \A d \in Turns' : bid'[t].bidder = bid'[d].bidder => t = d
      BY <1>1, <1>2, <1>3, <1>7, <2>1 DEF BiddersOf
    <3>4. ASSUME NEW d \in AuctionBids', Outranks(d, t)'
          PROVE  \E e \in Turns' : /\ bid'[e].bidder = bid'[d].bidder
                                   /\ bid'[e].bidder # bid'[t].bidder
                                   /\ ~Outranks(d, e)'
      <4>1. d \in AuctionBids /\ Outranks(d, c)
        BY <1>1, <1>5, <1>12, <2>1, <3>4
      <4>2. PICK e \in Turns : bid[e].bidder = bid[d].bidder /\ ~Outranks(d, e)
        BY <1>1, <4>1
      <4>3. bid[e].bidder # bid[c].bidder
        BY <1>1 DEF BiddersOf
      <4> QED BY <1>2, <1>3, <1>7, <1>12, <2>1, <4>1, <4>2, <4>3
    <3> QED BY <3>1, <3>2, <3>3, <3>4
  <2>2. CASE t \in Turns
    <3>1. {d \in Turns' : Outranks(d, t)'} = {d \in Turns : Outranks(d, t)}
      <4>1. ~Outranks(c, t)
        BY <1>1, <1>2, <2>2 DEF Outranks
      <4> QED BY <1>1, <1>2, <1>7, <1>12, <2>2, <4>1
    <3>2. bid'[t].fallbackRank = bid[t].fallbackRank
      BY <1>1, <1>2, <1>3, <2>2
    <3>3. bid[t].fallbackRank = Cardinality({d \in Turns : Outranks(d, t)})
      BY <2>2 DEF CascadeInv, CascadeIsFair
    <3>4. \A d \in Turns' : bid'[t].bidder = bid'[d].bidder => t = d
      <4>1. \A d \in Turns : bid[t].bidder = bid[d].bidder => t = d
        BY <2>2 DEF CascadeInv, CascadeIsFair
      <4>2. bid[t].bidder # bid[c].bidder
        BY <1>1, <2>2 DEF BiddersOf
      <4> QED BY <1>1, <1>2, <1>3, <1>7, <2>2, <4>1, <4>2
    <3>5. ASSUME NEW d \in AuctionBids', Outranks(d, t)'
          PROVE  \E e \in Turns' : /\ bid'[e].bidder = bid'[d].bidder
                                   /\ bid'[e].bidder # bid'[t].bidder
                                   /\ ~Outranks(d, e)'
      <4>1. d \in AuctionBids /\ Outranks(d, t)
        BY <1>2, <1>5, <1>12, <2>2, <3>5
      <4>2. PICK e \in Turns : /\ bid[e].bidder = bid[d].bidder
                               /\ bid[e].bidder # bid[t].bidder
                               /\ ~Outranks(d, e)
        BY <2>2, <4>1 DEF CascadeInv, CascadeIsFair
      <4> QED BY <1>2, <1>3, <1>7, <1>12, <2>2, <4>1, <4>2
    <3> QED BY <3>1, <3>2, <3>3, <3>4, <3>5
  <2> QED BY <1>7, <2>1, <2>2
<1>14. AbandonedOnlyWhenExhausted'
  BY <1>1, <1>4 DEF AbandonedOnlyWhenExhausted
<1> QED BY <1>3, <1>4, <1>5, <1>7, <1>11, <1>13, <1>14 DEF CascadeInv

(* Bidding and holds start no turn.                                        *)
LEMMA BiddingKeepsCascade ==
  ASSUME RoundInv',
         status' \in {"AWAITING_FIRST_BID", "ACTIVE", "AWAITING_INSTANT_BUY"},
         \A b \in AuctionBids' : bid'[b].paymentStatus = "NOT_RESPONSIBLE"
  PROVE  CascadeInv'
<1>1. Turns' = {}
  BY DEF RoundInv, Bidding, Turns
<1> QED BY <1>1, NoTurnNoCascade

(* Once the outcome stands, turns neither come nor go.                     *)
LEMMA OutcomeKeepsCascade ==
  ASSUME CascadeInv, AuctionBids' = AuctionBids,
         \A b \in AuctionBids : /\ bid'[b].amount = bid[b].amount
                                /\ bid'[b].bidder = bid[b].bidder
                                /\ bid'[b].fallbackRank = bid[b].fallbackRank
                                /\ round'[b] = "NONE" <=> round[b] = "NONE",
         \/ status' = "SETTLED"
         \/ status' = "ABANDONED" /\ cod' # "NONE"
  PROVE  CascadeInv'
<1>1. CascadeIsFair'
  BY TurnsStay DEF CascadeInv
<1> QED BY <1>1 DEF CascadeInv, TurnInv, Bidding, AbandonedOnlyWhenExhausted

LEMMA CascadeInductive ==
  ASSUME TypeOK, SaleInv, RoundInv, HighestBidIsRecorded, CascadeInv,
         RoundInv', [Next]_vars
  PROVE  CascadeInv'
<1>1. ASSUME NEW u \in Users, NEW amount \in 0..BiddingEndPrice,
             PlaceBid(u, amount)
      PROVE  CascadeInv'
  <2> DEFINE r == [UnusedRow EXCEPT !.bidder = u, !.amount = amount]
  <2>1. r.paymentStatus = "NOT_RESPONSIBLE" /\ ~r.isInstantBuy
    BY DEF UnusedRow
  <2>2. PICK n \in BidId \ rows : /\ rows' = rows \cup {n}
                                  /\ bid' = [bid EXCEPT ![n] = r]
    BY <1>1, NewRowIsFree DEF PlaceBid, TypeOK
  <2> HIDE DEF r
  <2>3. status \in {"AWAITING_FIRST_BID", "ACTIVE"} /\ status' = "ACTIVE"
    BY <1>1 DEF PlaceBid
  <2>4. \A b \in AuctionBids' : bid'[b].paymentStatus = "NOT_RESPONSIBLE"
    BY <2>1, <2>2, <2>3
    DEF CascadeInv, TurnInv, Bidding, AuctionBids, TypeOK
  <2> QED BY <2>3, <2>4, BiddingKeepsCascade
<1>2. CASE CloseIfExpired
  BY <1>2, CloseKeepsCascade
<1>3. ASSUME NEW u \in Users, StartInstantBuyHold(u) PROVE CascadeInv'
  <2>1. /\ AuctionBids' = AuctionBids
        /\ \A b \in AuctionBids : bid'[b] = bid[b]
    BY <1>3, NewRowIsFree DEF StartInstantBuyHold, AuctionBids, TypeOK
  <2>2. \A b \in AuctionBids' : bid'[b].paymentStatus = "NOT_RESPONSIBLE"
    BY <1>3, <2>1 DEF StartInstantBuyHold, CascadeInv, TurnInv, Bidding
  <2> QED BY <1>3, <2>2, BiddingKeepsCascade DEF StartInstantBuyHold
<1>4. ASSUME NEW b \in rows, ReleaseInstantBuyHold(b) \/ ExpireHold(b)
      PROVE  CascadeInv'
  <2>1. /\ status = "AWAITING_INSTANT_BUY" /\ bid[b].isInstantBuy
        /\ \/ RetireHold(b) \/ DeleteHold(b)
           \/ bid' = [bid EXCEPT ![b] = Expire(@)] /\ rows' = rows
        /\ status' \in {"ACTIVE", "AWAITING_FIRST_BID"}
    BY <1>4 DEF ReleaseInstantBuyHold, ExpireHold, Overdue, SaleInv,
                OneBuyerOwes, RevertProductAfterFailedInstantBuyHold
  <2>2. AuctionBids' = AuctionBids
    BY <2>1, HoldLeavesAuctionBids
  <2>3. \A d \in AuctionBids : bid'[d] = bid[d]
    BY <2>1 DEF RetireHold, DeleteHold, AuctionBids, TypeOK
  <2>4. \A d \in AuctionBids' : bid'[d].paymentStatus = "NOT_RESPONSIBLE"
    BY <2>1, <2>2, <2>3 DEF CascadeInv, TurnInv, Bidding
  <2> QED BY <2>1, <2>4, BiddingKeepsCascade
<1>5. ASSUME NEW b \in rows, NEW c \in rows, FallBack(b, c)
      PROVE  CascadeInv'
  BY <1>5, FallBackKeepsCascade
<1>6. ASSUME NEW b \in rows, Abandon(b) PROVE CascadeInv'
  <2>1. /\ b \in Turns /\ b = winningBid /\ status = "AWAITING_PAYMENT"
        /\ \/ bid[b].fallbackRank = MAX_FALLBACK_RANK
           \/ \A c \in AuctionBids :
                \E d \in Turns : bid[d].bidder = bid[c].bidder
    BY <1>6, Exhausted
  <2>2. \A d \in BidId : /\ bid'[d].isInstantBuy = bid[d].isInstantBuy
                         /\ bid'[d].amount = bid[d].amount
                         /\ bid'[d].bidder = bid[d].bidder
                         /\ bid'[d].fallbackRank = bid[d].fallbackRank
    BY <1>6 DEF Abandon, Expire, TypeOK, Bid
  <2>3. AuctionBids' = AuctionBids /\ AuctionBids \subseteq BidId
    BY <1>6, <2>2 DEF Abandon, AuctionBids, TypeOK
  <2>4. \A d \in BidId : round'[d] = "NONE" <=> round[d] = "NONE"
    BY <1>6 DEF Abandon, CloseRound, TypeOK
  <2>5. Turns' = Turns /\ CascadeIsFair'
    BY <2>2, <2>3, <2>4, TurnsStay DEF CascadeInv
  <2>6. AbandonedOnlyWhenExhausted'
    <3>1. Cardinality(Turns) = bid[b].fallbackRank + 1
      BY <2>1 DEF CascadeInv, TurnInv
    <3>2. Turns \subseteq BidId
      BY <2>3 DEF Turns
    <3>3. CASE bid[b].fallbackRank = MAX_FALLBACK_RANK
      BY <2>5, <3>1, <3>3 DEF AbandonedOnlyWhenExhausted
    <3>4. CASE \A c \in AuctionBids :
                 \E d \in Turns : bid[d].bidder = bid[c].bidder
      BY <2>2, <2>3, <2>5, <3>2, <3>4 DEF AbandonedOnlyWhenExhausted
    <3> QED BY <2>1, <3>3, <3>4
  <2>7. TurnInv'
    BY <1>6 DEF Abandon, TurnInv, Bidding
  <2> QED BY <2>5, <2>6, <2>7 DEF CascadeInv
<1>7. ASSUME NEW b \in rows, Settle(b) PROVE CascadeInv'
  <2>1. \A d \in BidId : /\ bid'[d].isInstantBuy = bid[d].isInstantBuy
                         /\ bid'[d].amount = bid[d].amount
                         /\ bid'[d].bidder = bid[d].bidder
                         /\ bid'[d].fallbackRank = bid[d].fallbackRank
    BY <1>7 DEF Settle, CleanFinalState, TypeOK, Bid
  <2>2. AuctionBids' = AuctionBids /\ AuctionBids \subseteq BidId
    BY <1>7, <2>1 DEF Settle, AuctionBids, TypeOK
  <2>3. \A d \in BidId : round'[d] = "NONE" <=> round[d] = "NONE"
    BY <1>7 DEF Settle, TypeOK
  <2> QED BY <1>7, <2>1, <2>2, <2>3, OutcomeKeepsCascade DEF Settle
<1>8. ASSUME NEW b \in rows, AbandonAfterCodRefusal(b) PROVE CascadeInv'
  <2>1. \A d \in BidId : /\ bid'[d].isInstantBuy = bid[d].isInstantBuy
                         /\ bid'[d].amount = bid[d].amount
                         /\ bid'[d].bidder = bid[d].bidder
                         /\ bid'[d].fallbackRank = bid[d].fallbackRank
    BY <1>8 DEF AbandonAfterCodRefusal, TypeOK, Bid
  <2>2. AuctionBids' = AuctionBids /\ AuctionBids \subseteq BidId
    BY <1>8, <2>1 DEF AbandonAfterCodRefusal, AuctionBids, TypeOK
  <2>3. \A d \in BidId : round'[d] = "NONE" <=> round[d] = "NONE"
    BY <1>8 DEF AbandonAfterCodRefusal, TypeOK
  <2> QED BY <1>8, <2>1, <2>2, <2>3, OutcomeKeepsCascade
          DEF AbandonAfterCodRefusal
<1>9. CASE \/ \E b \in rows : CreateQrPayment(b)
           \/ ReportDelivered \/ MarkCodCollected \/ Tick \/ UNCHANGED vars
  <2>1. /\ rows' = rows /\ bid' = bid /\ round' = round /\ status' = status
        /\ winningBid' = winningBid
        /\ cod' = "NONE" => cod = "NONE"
    BY <1>9 DEF CreateQrPayment, ReportDelivered, MarkCodCollected, Tick,
                vars, product, bidding, codVars
  <2>2. AuctionBids' = AuctionBids /\ Turns' = Turns
    BY <2>1 DEF AuctionBids, Turns
  <2>3. BiddersOf(Turns)' = BiddersOf(Turns)
    BY <2>1, <2>2 DEF BiddersOf
  <2>4. TurnInv'
    BY <2>1, <2>2, <2>3 DEF CascadeInv, TurnInv, Bidding
  <2>5. CascadeIsFair'
    BY <2>1, <2>2, TurnsStay DEF CascadeInv
  <2>6. AbandonedOnlyWhenExhausted'
    BY <2>1, <2>2 DEF CascadeInv, AbandonedOnlyWhenExhausted
  <2> QED BY <2>4, <2>5, <2>6 DEF CascadeInv
<1> QED
  BY <1>1, <1>2, <1>3, <1>4, <1>5, <1>6, <1>7, <1>8, <1>9
  DEF Next, HandlePaymentExpiry, ConfirmPaymentManual, ConfirmCod,
      ConfirmPaymentGateway

LEMMA CascadeHolds == Spec => []CascadeInv
<1>1. Init => CascadeInv
  <2> SUFFICES ASSUME Init PROVE CascadeInv
    OBVIOUS
  <2>1. AuctionBids = {} /\ Turns = {}
    BY DEF Init, AuctionBids, Turns
  <2> QED BY <2>1 DEF Init, CascadeInv, TurnInv, CascadeIsFair,
                      AbandonedOnlyWhenExhausted
<1>2. /\ TypeOK /\ SaleInv /\ RoundInv /\ HighestBidIsRecorded /\ CascadeInv
      /\ RoundInv' /\ [Next]_vars
      => CascadeInv'
  BY CascadeInductive
<1> QED BY <1>1, <1>2, InvariantsHold, RoundInvHolds,
           HighestBidIsRecordedAlways, PTL DEF Spec

(* However many windows run out, the lot goes down the bids from the top:  *)
(* each bidder is asked once, with their best bid, and none is passed over.*)
THEOREM CascadeIsFairAlways == Spec => []CascadeIsFair
  BY CascadeHolds, PTL DEF CascadeInv

(* A lot is abandoned for want of payment only after three turns or once   *)
(* every bidder has had one.                                               *)
THEOREM AbandonedOnlyWhenExhaustedAlways == Spec => []AbandonedOnlyWhenExhausted
  BY CascadeHolds, PTL DEF CascadeInv
-----------------------------------------------------------------------------
(***************************************************************************)
(* The refinement.  Each transaction of the auction service is the step of *)
(* the sale that its lemma names, or none.                                 *)
(***************************************************************************)
AuctionInv == TypeOK /\ SaleInv /\ RoundInv /\ HighestBidIsRecorded /\ CascadeInv

Lapsed == {u \in Users : HadLapsedHold(u)}
HolderOwes == \A b \in Responsible : Holder = bid[b].bidder

(* What the sale looks like in each status of the product.                 *)
View ==
  /\ status \in {"AWAITING_FIRST_BID", "ACTIVE"} =>
       /\ Phase = "open" /\ Barred = Lapsed /\ Holder = NoUser
       /\ BiddersOf(Turns) = {}
  /\ status = "AWAITING_INSTANT_BUY" =>
       /\ Phase = "paused" /\ Barred = Lapsed /\ HolderOwes
       /\ BiddersOf(Turns) = {}
  /\ status = "AWAITING_PAYMENT" =>
       Phase = "offered" /\ Barred = Lapsed /\ HolderOwes
  /\ status = "SETTLED" =>
       Phase = "sold" /\ Barred = {} /\ HolderOwes
  /\ status = "ABANDONED" =>
       Phase = "unsold" /\ Barred = {} /\ Holder = NoUser

LEMMA ViewByStatus ==
  ASSUME AuctionInv, AuctionInv'
  PROVE  View /\ View'
<1>1. View
  <2>1. \A b \in Responsible : (CHOOSE c \in Responsible : TRUE) = b
    BY DEF AuctionInv, SaleInv, OneBuyerOwes
  <2>2. Bidding => BiddersOf(Turns) = {}
    BY DEF AuctionInv, RoundInv, Bidding, Turns, BiddersOf
  <2> QED BY <2>1, <2>2 DEF View, Phase, Holder, HolderOwes, Barred, Lapsed,
                            Bidding
<1>2. View'
  <2>1. \A b \in Responsible' : (CHOOSE c \in Responsible' : TRUE) = b
    BY DEF AuctionInv, SaleInv, OneBuyerOwes
  <2>2. Bidding' => BiddersOf(Turns)' = {}
    BY DEF AuctionInv, RoundInv, Bidding, Turns, BiddersOf
  <2> QED BY <2>1, <2>2 DEF View, Phase, Holder, HolderOwes, Barred, Lapsed,
                            Bidding
<1> QED BY <1>1, <1>2

(* Rows of bids that are neither added, removed nor reassigned.            *)
LEMMA BiddersStay ==
  ASSUME AuctionBids' = AuctionBids,
         \A b \in AuctionBids : bid'[b].bidder = bid[b].bidder
  PROVE  /\ BiddersOf(AuctionBids)' = BiddersOf(AuctionBids)
         /\ (\A b \in AuctionBids : round'[b] = "NONE" <=> round[b] = "NONE")
              => BiddersOf(Turns)' = BiddersOf(Turns)
  BY DEF BiddersOf, Turns

(* AuctionSale counts with its own copy of the operator.                   *)
LEMMA SaleCounts ==
  ASSUME NEW S
  PROVE  Sale!Cardinality(S) = Cardinality(S)
  BY DEF Sale!Cardinality, Cardinality

LEMMA PlaceBidEnters ==
  ASSUME AuctionInv, AuctionInv', NEW u \in Users,
         NEW amount \in 0..BiddingEndPrice, PlaceBid(u, amount)
  PROVE  Sale!EnterBid(u)
<1> DEFINE r == [UnusedRow EXCEPT !.bidder = u, !.amount = amount]
<1>1. r.bidder = u /\ ~r.isInstantBuy
  BY DEF UnusedRow
<1>2. PICK n \in BidId \ rows : /\ rows' = rows \cup {n}
                                /\ bid' = [bid EXCEPT ![n] = r]
  BY NewRowIsFree DEF PlaceBid, AuctionInv, TypeOK
<1> HIDE DEF r
<1>3. /\ status \in {"AWAITING_FIRST_BID", "ACTIVE"} /\ status' = "ACTIVE"
  BY DEF PlaceBid
<1>4. /\ AuctionBids' = AuctionBids \cup {n} /\ bid'[n].bidder = u
      /\ \A b \in rows : bid'[b] = bid[b]
      /\ ~bid'[n].isInstantBuy
  BY <1>1, <1>2 DEF AuctionBids, AuctionInv, TypeOK
<1>5. BiddersOf(AuctionBids)' = BiddersOf(AuctionBids) \cup {u}
  BY <1>4 DEF BiddersOf, AuctionBids
<1>6. Lapsed' = Lapsed
  BY <1>2, <1>4 DEF Lapsed, HadLapsedHold
<1> QED BY <1>3, <1>5, <1>6, ViewByStatus DEF View, Sale!EnterBid

LEMMA CloseOffers ==
  ASSUME AuctionInv, AuctionInv', CloseIfExpired
  PROVE  \E u \in Users : Sale!Offer(u)
<1>1. PICK b \in AuctionBids : /\ Turns' = {b} /\ winningBid' = b
                               /\ bid'[b].bidder = bid[b].bidder
  BY CloseKeepsCascade DEF AuctionInv
<1>2. \A d \in BidId : /\ bid'[d].isInstantBuy = bid[d].isInstantBuy
                       /\ bid'[d].bidder = bid[d].bidder
                       /\ bid[d].isInstantBuy => bid'[d] = bid[d]
  <2>1. PICK c \in BidId :
          /\ IsTop(c, AuctionBids)
          /\ bid' = [bid EXCEPT ![c].fallbackRank = 0, ![c].responsible = TRUE,
                                ![c].paymentStatus = "PENDING"]
    BY DEF CloseIfExpired
  <2>2. ~bid[c].isInstantBuy
    BY <2>1 DEF IsTop, AuctionBids
  <2> QED BY <2>1, <2>2 DEF AuctionInv, TypeOK, Bid
<1>3. /\ status = "ACTIVE" /\ status' = "AWAITING_PAYMENT" /\ rows' = rows
  BY DEF CloseIfExpired, Due
<1>4. AuctionBids' = AuctionBids /\ rows \subseteq BidId
  BY <1>2, <1>3 DEF AuctionBids, AuctionInv, TypeOK
<1>5. BiddersOf(AuctionBids)' = BiddersOf(AuctionBids)
  BY <1>2, <1>4, BiddersStay DEF AuctionBids
<1>6. Lapsed' = Lapsed
  BY <1>2, <1>3, <1>4 DEF Lapsed, HadLapsedHold
<1>7. /\ BiddersOf(Turns)' = {bid[b].bidder}
      /\ bid[b].bidder \in BiddersOf(AuctionBids)
      /\ bid[b].bidder \in Users
  BY <1>1 DEF BiddersOf, AuctionBids, AuctionInv, TypeOK, Bid
<1>8. Holder' = bid[b].bidder
  <2>1. b \in Responsible'
    BY <1>1, <1>3 DEF AuctionInv, SaleInv, OneBuyerOwes
  <2> QED BY <1>1, <1>3, <2>1, ViewByStatus DEF View, HolderOwes
<1>9. /\ BiddersOf(Turns) = {} /\ Cardinality(BiddersOf(Turns)) = 0
      /\ Phase = "open" /\ Phase' = "offered"
      /\ Barred = Lapsed /\ Barred' = Lapsed'
  BY <1>3, ViewByStatus, FS_EmptySet DEF View
<1>10. Sale!Offer(bid[b].bidder)
  <2>1. Cardinality(BiddersOf(Turns)) < MAX_FALLBACK_RANK + 1
    BY <1>9 DEF MAX_FALLBACK_RANK
  <2>2. BiddersOf(Turns)' = BiddersOf(Turns) \cup {bid[b].bidder}
    BY <1>7, <1>9
  <2>3. bid[b].bidder \in BiddersOf(AuctionBids) \ BiddersOf(Turns)
    BY <1>7, <1>9
  <2> QED BY <1>5, <1>6, <1>8, <1>9, <2>1, <2>2, <2>3, SaleCounts
         DEF Sale!Offer
<1> QED BY <1>7, <1>10

LEMMA HoldPauses ==
  ASSUME AuctionInv, AuctionInv', NEW u \in Users, StartInstantBuyHold(u)
  PROVE  Sale!Pause(u)
<1>1. PICK n \in BidId \ rows :
        /\ rows' = rows \cup {n}
        /\ bid' = [bid EXCEPT ![n] =
                     [bidder |-> u, amount |-> InstantBuyPrice,
                      isInstantBuy |-> TRUE, fallbackRank |-> 0,
                      responsible |-> TRUE, paymentStatus |-> "PENDING"]]
  BY NewRowIsFree DEF StartInstantBuyHold, AuctionInv, TypeOK
<1>2. /\ \A b \in rows : bid'[b] = bid[b]
      /\ bid'[n].isInstantBuy /\ bid'[n].responsible /\ bid'[n].bidder = u
      /\ bid'[n].paymentStatus = "PENDING"
  BY <1>1 DEF AuctionInv, TypeOK
<1>3. AuctionBids' = AuctionBids /\ n \in Responsible'
  BY <1>1, <1>2 DEF AuctionBids, Responsible
<1>4. BiddersOf(AuctionBids)' = BiddersOf(AuctionBids)
  BY <1>2, <1>3, BiddersStay DEF AuctionBids
<1>5. Lapsed' = Lapsed
  BY <1>1, <1>2 DEF Lapsed, HadLapsedHold
<1>6. /\ status \in {"AWAITING_FIRST_BID", "ACTIVE"}
      /\ status' = "AWAITING_INSTANT_BUY" /\ u \notin Lapsed
  BY DEF StartInstantBuyHold, Lapsed
<1>7. Holder' = u
  BY <1>2, <1>3, <1>6, ViewByStatus DEF View, HolderOwes
<1> QED BY <1>4, <1>5, <1>6, <1>7, ViewByStatus DEF View, Sale!Pause

LEMMA HoldEnds ==
  ASSUME AuctionInv, AuctionInv', NEW b \in rows,
         ReleaseInstantBuyHold(b) \/ ExpireHold(b)
  PROVE  Sale!Resume
<1>1. /\ status = "AWAITING_INSTANT_BUY" /\ bid[b].isInstantBuy
      /\ \/ RetireHold(b) \/ DeleteHold(b)
         \/ bid' = [bid EXCEPT ![b] = Expire(@)] /\ rows' = rows
      /\ status' \in {"ACTIVE", "AWAITING_FIRST_BID"} /\ b \in Responsible
  BY DEF ReleaseInstantBuyHold, ExpireHold, Overdue, AuctionInv, SaleInv,
         OneBuyerOwes, RevertProductAfterFailedInstantBuyHold
<1>2. AuctionBids' = AuctionBids
  BY <1>1, HoldLeavesAuctionBids DEF AuctionInv
<1>3. \A d \in AuctionBids : bid'[d] = bid[d]
  BY <1>1 DEF RetireHold, DeleteHold, AuctionBids, AuctionInv, TypeOK
<1>4. BiddersOf(AuctionBids)' = BiddersOf(AuctionBids)
  BY <1>2, <1>3, BiddersStay
<1>5. Holder = bid[b].bidder /\ bid[b].paymentStatus = "PENDING" /\ b \in BidId
  BY <1>1, ViewByStatus
  DEF View, HolderOwes, AuctionInv, TypeOK, SaleInv, OneBuyerOwes
<1>6. Lapsed' \in {Lapsed, Lapsed \cup {Holder}}
  <2>1. CASE RetireHold(b)
    <3>1. /\ rows' = rows /\ \A d \in rows \ {b} : bid'[d] = bid[d]
          /\ bid'[b].paymentStatus = "NOT_RESPONSIBLE"
      BY <1>5, <2>1 DEF RetireHold, AuctionInv, TypeOK, Bid
    <3>2. Lapsed' = Lapsed
      BY <1>5, <3>1 DEF Lapsed, HadLapsedHold
    <3> QED BY <3>2
  <2>2. CASE DeleteHold(b)
    <3>1. rows' = rows \ {b} /\ \A d \in rows \ {b} : bid'[d] = bid[d]
      BY <2>2 DEF DeleteHold, AuctionInv, TypeOK
    <3>2. Lapsed' = Lapsed
      BY <1>5, <3>1 DEF Lapsed, HadLapsedHold
    <3> QED BY <3>2
  <2>3. CASE bid' = [bid EXCEPT ![b] = Expire(@)] /\ rows' = rows
    <3>1. /\ \A d \in rows \ {b} : bid'[d] = bid[d]
          /\ bid'[b].paymentStatus = "EXPIRED" /\ bid'[b].isInstantBuy
          /\ bid'[b].bidder = Holder /\ Holder \in Users
      BY <1>1, <1>5, <2>3 DEF Expire, AuctionInv, TypeOK, Bid
    <3>2. Lapsed' = Lapsed \cup {Holder}
      BY <1>5, <2>3, <3>1 DEF Lapsed, HadLapsedHold
    <3> QED BY <3>2
  <2> QED BY <1>1, <2>1, <2>2, <2>3
<1> QED BY <1>1, <1>4, <1>6, ViewByStatus DEF View, Sale!Resume

LEMMA FallBackOffers ==
  ASSUME AuctionInv, AuctionInv', NEW b \in rows, NEW c \in rows, FallBack(b, c)
  PROVE  \E u \in Users : Sale!Offer(u)
<1>1. /\ status = "AWAITING_PAYMENT" /\ b = winningBid /\ b \in Turns
      /\ c \in AuctionBids
      /\ bid[c].bidder \notin BiddersOf(Turns)
      /\ bid[b].fallbackRank < MAX_FALLBACK_RANK
  BY NextTurn DEF AuctionInv
<1>2. /\ Turns' = Turns \cup {c} /\ winningBid' = c
      /\ AuctionBids' = AuctionBids
      /\ \A d \in BidId : /\ bid'[d].isInstantBuy = bid[d].isInstantBuy
                          /\ bid'[d].bidder = bid[d].bidder
  BY FallBackKeepsCascade DEF AuctionInv
<1>3. /\ rows' = rows /\ status' = status
      /\ rows \subseteq BidId /\ Turns \subseteq BidId
  BY DEF FallBack, AuctionInv, TypeOK, Turns, AuctionBids
<1>4. \A d \in BidId : bid[d].isInstantBuy => bid'[d] = bid[d]
  <2>1. b \in BidId /\ c \in BidId /\ b # c
        /\ ~bid[b].isInstantBuy /\ ~bid[c].isInstantBuy
    BY <1>1, <1>3 DEF Turns, AuctionBids, BiddersOf
  <2>2. bid \in [BidId -> Bid]
    BY DEF AuctionInv, TypeOK
  <2>3. \A d \in BidId \ {b, c} : bid'[d] = bid[d]
    BY <2>1, <2>2, FallBackEffect
  <2> QED BY <2>1, <2>3
<1>5. BiddersOf(AuctionBids)' = BiddersOf(AuctionBids)
  BY <1>2, <1>3, BiddersStay DEF AuctionBids
<1>6. Lapsed' = Lapsed
  BY <1>2, <1>3, <1>4 DEF Lapsed, HadLapsedHold
<1>7. BiddersOf(Turns)' = BiddersOf(Turns) \cup {bid[c].bidder}
  BY <1>2, <1>3 DEF BiddersOf
<1>8. /\ bid[c].bidder \in BiddersOf(AuctionBids) \ BiddersOf(Turns)
      /\ bid[c].bidder \in Users
  BY <1>1 DEF BiddersOf, AuctionBids, AuctionInv, TypeOK, Bid
<1>9. Cardinality(BiddersOf(Turns)) < MAX_FALLBACK_RANK + 1
  <2>1. Cardinality(BiddersOf(Turns)) = bid[b].fallbackRank + 1
    BY <1>1 DEF AuctionInv, CascadeInv, TurnInv
  <2>2. bid[b].fallbackRank \in 0..2
    BY DEF AuctionInv, TypeOK, Bid, MAX_FALLBACK_RANK
  <2> QED BY <1>1, <2>1, <2>2 DEF MAX_FALLBACK_RANK
<1>10. Holder' = bid[c].bidder
  <2>1. c \in Responsible' /\ c \in BidId
    BY <1>1, <1>2, <1>3 DEF AuctionInv, SaleInv, OneBuyerOwes
  <2> QED BY <1>1, <1>2, <1>3, <2>1, ViewByStatus DEF View, HolderOwes
<1>11. /\ Phase = "offered" /\ Phase' = "offered"
       /\ Barred = Lapsed /\ Barred' = Lapsed'
  BY <1>1, <1>3, ViewByStatus DEF View
<1>12. Sale!Offer(bid[c].bidder)
  BY <1>5, <1>6, <1>7, <1>8, <1>9, <1>10, <1>11, SaleCounts
  DEF Sale!Offer
<1> QED BY <1>8, <1>12

LEMMA AbandonGivesUp ==
  ASSUME AuctionInv, AuctionInv', NEW b \in rows, Abandon(b)
  PROVE  Sale!GiveUp
<1>1. /\ status = "AWAITING_PAYMENT" /\ b = winningBid /\ b \in Turns
      /\ \/ bid[b].fallbackRank = MAX_FALLBACK_RANK
         \/ \A c \in AuctionBids :
              \E d \in Turns : bid[d].bidder = bid[c].bidder
  BY Exhausted DEF AuctionInv
<1>2. \A d \in BidId : /\ bid'[d].isInstantBuy = bid[d].isInstantBuy
                       /\ bid'[d].bidder = bid[d].bidder
  BY DEF Abandon, Expire, AuctionInv, TypeOK, Bid
<1>3. /\ AuctionBids' = AuctionBids /\ AuctionBids \subseteq BidId
      /\ status' = "ABANDONED"
  BY <1>2 DEF Abandon, AuctionBids, AuctionInv, TypeOK
<1>4. \A d \in BidId : round'[d] = "NONE" <=> round[d] = "NONE"
  BY DEF Abandon, CloseRound, AuctionInv, TypeOK
<1>5. /\ BiddersOf(AuctionBids)' = BiddersOf(AuctionBids)
      /\ BiddersOf(Turns)' = BiddersOf(Turns)
  BY <1>2, <1>3, <1>4, BiddersStay
<1>6. \/ Cardinality(BiddersOf(Turns)) = MAX_FALLBACK_RANK + 1
      \/ BiddersOf(AuctionBids) = BiddersOf(Turns)
  <2>1. Cardinality(BiddersOf(Turns)) = bid[b].fallbackRank + 1
    BY <1>1 DEF AuctionInv, CascadeInv, TurnInv
  <2>2. CASE \A c \in AuctionBids :
               \E d \in Turns : bid[d].bidder = bid[c].bidder
    BY <2>2 DEF BiddersOf, Turns
  <2> QED BY <1>1, <2>1, <2>2
<1> QED BY <1>1, <1>3, <1>5, <1>6, ViewByStatus, SaleCounts
        DEF View, Sale!GiveUp

LEMMA SettleSells ==
  ASSUME AuctionInv, AuctionInv', NEW b \in rows, b \in Responsible, Settle(b),
         status \in {"AWAITING_PAYMENT", "AWAITING_INSTANT_BUY"}
  PROVE  Sale!Sell
<1>1. \A d \in BidId : /\ bid'[d].isInstantBuy = bid[d].isInstantBuy
                       /\ bid'[d].bidder = bid[d].bidder
                       /\ bid'[d].responsible = bid[d].responsible
  BY DEF Settle, CleanFinalState, AuctionInv, TypeOK, Bid
<1>2. /\ AuctionBids' = AuctionBids /\ AuctionBids \subseteq BidId
      /\ status' = "SETTLED" /\ b \in BidId /\ b \in Responsible'
  BY <1>1 DEF Settle, AuctionBids, Responsible, AuctionInv, TypeOK
<1>3. \A d \in BidId : round'[d] = "NONE" <=> round[d] = "NONE"
  BY DEF Settle, AuctionInv, TypeOK
<1>4. /\ BiddersOf(AuctionBids)' = BiddersOf(AuctionBids)
      /\ BiddersOf(Turns)' = BiddersOf(Turns)
  BY <1>1, <1>2, <1>3, BiddersStay
<1>5. Holder' = Holder
  BY <1>1, <1>2, ViewByStatus DEF View, HolderOwes
<1> QED BY <1>2, <1>4, <1>5, ViewByStatus DEF View, Sale!Sell

LEMMA RefusalRefuses ==
  ASSUME AuctionInv, AuctionInv', NEW b \in rows, AbandonAfterCodRefusal(b)
  PROVE  Sale!Refuse
<1>1. \A d \in BidId : /\ bid'[d].isInstantBuy = bid[d].isInstantBuy
                       /\ bid'[d].bidder = bid[d].bidder
  BY DEF AbandonAfterCodRefusal, AuctionInv, TypeOK, Bid
<1>2. /\ AuctionBids' = AuctionBids /\ AuctionBids \subseteq BidId
      /\ status = "SETTLED" /\ status' = "ABANDONED" /\ b \in BidId
  BY <1>1 DEF AbandonAfterCodRefusal, Refusable, AuctionBids, AuctionInv, TypeOK
<1>3. \A d \in BidId : round'[d] = "NONE" <=> round[d] = "NONE"
  BY DEF AbandonAfterCodRefusal, AuctionInv, TypeOK
<1>4. /\ BiddersOf(AuctionBids)' = BiddersOf(AuctionBids)
      /\ BiddersOf(Turns)' = BiddersOf(Turns)
  BY <1>1, <1>2, <1>3, BiddersStay
<1>5. b = winningBid /\ ~bid[b].isInstantBuy /\ b \in Responsible
  BY <1>2 DEF AbandonAfterCodRefusal, Refusable, AuctionInv, SaleInv,
              SaleIsConsistent, WinnerOnRecord
<1>6. Holder \in BiddersOf(Turns)
  <2>1. b \in Turns
    BY <1>5 DEF AbandonAfterCodRefusal, Turns, AuctionBids
  <2>2. Holder = bid[b].bidder
    BY <1>2, <1>5, ViewByStatus DEF View, HolderOwes
  <2> QED BY <2>1, <2>2 DEF BiddersOf
<1> QED BY <1>2, <1>4, <1>6, ViewByStatus DEF View, Sale!Refuse

LEMMA StepOfTheSale ==
  ASSUME AuctionInv, AuctionInv', [Next]_vars
  PROVE  [Sale!Next]_(Sale!vars)
<1>1. ASSUME NEW u \in Users, NEW amount \in 0..BiddingEndPrice,
             PlaceBid(u, amount)
      PROVE  Sale!Next
  BY <1>1, PlaceBidEnters DEF Sale!Next
<1>2. CASE CloseIfExpired
  BY <1>2, CloseOffers DEF Sale!Next
<1>3. ASSUME NEW u \in Users, StartInstantBuyHold(u) PROVE Sale!Next
  BY <1>3, HoldPauses DEF Sale!Next
<1>4. ASSUME NEW b \in rows, ReleaseInstantBuyHold(b) \/ ExpireHold(b)
      PROVE  Sale!Next
  BY <1>4, HoldEnds DEF Sale!Next
<1>5. ASSUME NEW b \in rows, NEW c \in rows, FallBack(b, c) PROVE Sale!Next
  BY <1>5, FallBackOffers DEF Sale!Next
<1>6. ASSUME NEW b \in rows, Abandon(b) PROVE Sale!Next
  BY <1>6, AbandonGivesUp DEF Sale!Next
<1>7. ASSUME NEW b \in rows,
             \/ ConfirmPaymentManual(b)
             \/ \E u \in Users : ConfirmCod(u, b)
             \/ \E s \in attempted : ConfirmPaymentGateway(s, b)
      PROVE  Sale!Next
  <2>1. /\ Settle(b) /\ b \in Responsible
        /\ status \in {"AWAITING_PAYMENT", "AWAITING_INSTANT_BUY"}
    BY <1>7 DEF ConfirmPaymentManual, ConfirmCod, ConfirmPaymentGateway
  <2> QED BY <2>1, SettleSells DEF Sale!Next
<1>8. ASSUME NEW b \in rows, AbandonAfterCodRefusal(b) PROVE Sale!Next
  BY <1>8, RefusalRefuses DEF Sale!Next
<1>9. CASE \/ \E b \in rows : CreateQrPayment(b)
           \/ ReportDelivered \/ MarkCodCollected \/ Tick \/ UNCHANGED vars
  <2>1. /\ rows' = rows /\ bid' = bid /\ round' = round /\ status' = status
    BY <1>9 DEF CreateQrPayment, ReportDelivered, MarkCodCollected, Tick,
                vars, product, bidding
  <2> QED BY <2>1 DEF Sale!vars, Phase, BiddersOf, AuctionBids, Turns, Barred,
                      HadLapsedHold, Holder, Responsible
<1> QED
  BY <1>1, <1>2, <1>3, <1>4, <1>5, <1>6, <1>7, <1>8, <1>9
  DEF Next, HandlePaymentExpiry

LEMMA AuctionInvHolds == Spec => []AuctionInv
  BY InvariantsHold, RoundInvHolds, HighestBidIsRecordedAlways, CascadeHolds,
     PTL DEF AuctionInv

(* Seen without bids, prices, deadlines and rows, the transactions of the  *)
(* auction service are the sale: one buyer at a time, nobody offered the   *)
(* lot twice, at most three offers, and given up only when they are spent. *)
THEOREM AuctionImplementsSale == Spec => ImplementsSale
<1>1. Init => Sale!Init
  <2> SUFFICES ASSUME Init PROVE Sale!Init
    OBVIOUS
  <2>1. /\ AuctionBids = {} /\ Turns = {} /\ rows = {}
        /\ Phase = "open"
    BY DEF Init, AuctionBids, Turns, Phase
  <2>2. /\ BiddersOf(AuctionBids) = {} /\ BiddersOf(Turns) = {}
        /\ Barred = {} /\ Holder = NoUser
    BY <2>1 DEF BiddersOf, Barred, HadLapsedHold, Holder
  <2> QED BY <2>1, <2>2 DEF Sale!Init
<1>2. AuctionInv /\ AuctionInv' /\ [Next]_vars => [Sale!Next]_(Sale!vars)
  BY StepOfTheSale
<1> QED BY <1>1, <1>2, AuctionInvHolds, PTL DEF Spec, ImplementsSale, Sale!Spec
-----------------------------------------------------------------------------
(***************************************************************************)
(* The listing together with what is told of it, however many handlers are *)
(* under way.  The composition adds one step that writes to the listing,   *)
(* the late save of a payment warning, so nothing proved above carries     *)
(* over as it stands: what that save may write has to be an invariant too. *)
(***************************************************************************)
Final == status \in {"SETTLED", "ABANDONED"}

(***************************************************************************)
(* The listing.  Until it is sold or given up, all that AuctionLifecycle   *)
(* proves still holds: a late warning that would write something else is   *)
(* refused.  Afterwards it may put a bid back as it was, so that less does.*)
(***************************************************************************)
HoldInv ==
  status = "AWAITING_INSTANT_BUY" =>
    \A b \in Responsible : /\ bid[b].amount > currentHighestBid
                           /\ ~HadLapsedHold(bid[b].bidder)

OpenInv == ~Final => AuctionInv /\ FrozenClock /\ HoldInv

(* The best public bid carries the price on record.                        *)
PublicTop ==
  \/ PublicBids = {} /\ currentHighestBid = 0
  \/ \E b \in PublicBids : /\ IsTop(b, PublicBids)
                           /\ currentHighestBid <= bid[b].amount

FinalInv ==
  Final =>
    /\ dueIn = 0
    /\ \A b, c \in Responsible : b = c
    /\ PublicTop
    /\ winningBid \in rows
    /\ bid[winningBid].isInstantBuy => status = "SETTLED" /\ cod # "COD_PENDING"
    /\ cod = "COD_PENDING" => status = "SETTLED"

ListingInv == TypeOK /\ OpenInv /\ FinalInv

(* Nothing but a courier, an admin with a refused parcel and the clock     *)
(* touches a listing that is sold or given up.                             *)
LEMMA FinalSteps ==
  ASSUME Final, [Next]_vars
  PROVE  \/ \E b \in rows : AbandonAfterCodRefusal(b)
         \/ ReportDelivered \/ MarkCodCollected \/ Tick
         \/ UNCHANGED vars
BY DEF Final, Next, PlaceBid, CloseIfExpired, Due, StartInstantBuyHold,
       CreateQrPayment, ReleaseInstantBuyHold, ConfirmPaymentManual,
       ConfirmCod, ConfirmPaymentGateway, HandlePaymentExpiry, ExpireHold,
       FallBack, Abandon, Overdue

(* A step of it leaves the bids what they were, but for the status of one. *)
LEMMA FinalKeepsBids ==
  ASSUME TypeOK, Final, [Next]_vars
  PROVE  /\ Final' /\ rows' = rows
         /\ status = "ABANDONED" => status' = "ABANDONED"
         /\ status' # status => cod = "COD_PENDING" /\ cod' = "FAILED"
         /\ cod' = "COD_PENDING" => cod = "COD_PENDING"
         /\ currentHighestBid' = currentHighestBid
         /\ winningBid' = winningBid
         /\ dueIn' = dueIn
         /\ \A b \in BidId : /\ bid'[b].bidder = bid[b].bidder
                             /\ bid'[b].amount = bid[b].amount
                             /\ bid'[b].isInstantBuy = bid[b].isInstantBuy
                             /\ bid'[b].responsible = bid[b].responsible
         /\ \A b \in BidId : round[b] # "NONE" => round'[b] # "NONE"
<1>1. CASE \E b \in rows : AbandonAfterCodRefusal(b)
  <2>1. PICK b \in rows : AbandonAfterCodRefusal(b)
    BY <1>1
  <2>2. \A d \in BidId : /\ bid'[d].bidder = bid[d].bidder
                         /\ bid'[d].amount = bid[d].amount
                         /\ bid'[d].isInstantBuy = bid[d].isInstantBuy
                         /\ bid'[d].responsible = bid[d].responsible
    BY <2>1 DEF AbandonAfterCodRefusal, TypeOK, Bid
  <2>3. \A d \in BidId : round[d] # "NONE" => round'[d] # "NONE"
    BY <2>1 DEF AbandonAfterCodRefusal, TypeOK
  <2> QED
    BY <2>1, <2>2, <2>3 DEF AbandonAfterCodRefusal, Refusable, clocks, Final
<1>2. CASE ReportDelivered \/ MarkCodCollected
  BY <1>2 DEF ReportDelivered, MarkCodCollected, product, bidding, clocks, Final
<1>3. CASE Tick
  BY <1>3 DEF Tick, product, bidding, codVars, DeadlineRuns, Final
<1>4. CASE UNCHANGED vars
  BY <1>4 DEF vars, product, bidding, clocks, codVars, Final
<1> QED BY <1>1, <1>2, <1>3, <1>4, FinalSteps

(* The public bids, when neither their rows nor the winner change.         *)
LEMMA PublicTopStays ==
  ASSUME PublicTop, rows' = rows, rows \subseteq BidId,
         winningBid' = winningBid, currentHighestBid' = currentHighestBid,
         \A b \in BidId : /\ bid'[b].amount = bid[b].amount
                          /\ bid'[b].isInstantBuy = bid[b].isInstantBuy
  PROVE  PublicTop'
<1>1. PublicBids' = PublicBids /\ PublicBids \subseteq BidId
  BY DEF PublicBids
<1>2. \A b \in BidId : IsTop(b, PublicBids) => IsTop(b, PublicBids)'
  BY <1>1 DEF IsTop
<1> QED BY <1>1, <1>2 DEF PublicTop

LEMMA FinalInvStays ==
  ASSUME TypeOK, Final, FinalInv, [Next]_vars
  PROVE  FinalInv'
<1>1. /\ rows \subseteq BidId
      /\ Responsible' = Responsible
  BY FinalKeepsBids DEF TypeOK, Responsible
<1>2. PublicTop'
  BY <1>1, FinalKeepsBids, PublicTopStays DEF FinalInv
<1> QED BY <1>1, <1>2, FinalKeepsBids DEF FinalInv, Final, TypeOK
(* A hold that goes live is above every bid, and the first of its buyer.   *)
LEMMA HoldInvStays ==
  ASSUME AuctionInv, HoldInv, ~Final, [Next]_vars
  PROVE  HoldInv'
<1>1. ASSUME NEW u \in Users, StartInstantBuyHold(u) PROVE HoldInv'
  <2>1. PICK n \in BidId \ rows :
          /\ rows' = rows \cup {n}
          /\ bid' = [bid EXCEPT ![n] =
                       [bidder |-> u, amount |-> InstantBuyPrice,
                        isInstantBuy |-> TRUE, fallbackRank |-> 0,
                        responsible |-> TRUE, paymentStatus |-> "PENDING"]]
    BY <1>1, NewRowIsFree DEF StartInstantBuyHold, AuctionInv, TypeOK
  <2>2. /\ \A b \in rows : bid'[b] = bid[b]
        /\ bid'[n].amount = InstantBuyPrice /\ bid'[n].bidder = u
        /\ bid'[n].paymentStatus = "PENDING"
    BY <2>1 DEF AuctionInv, TypeOK
  <2>3. /\ Responsible = {} /\ ~HadLapsedHold(u)
        /\ currentHighestBid' = currentHighestBid
        /\ InstantBuyPrice > currentHighestBid
    BY <1>1, ListingAssumption DEF StartInstantBuyHold, AuctionInv, TypeOK
  <2>4. Responsible' \subseteq {n}
    BY <2>1, <2>2, <2>3 DEF Responsible
  <2>5. ~HadLapsedHold(u)'
    BY <2>1, <2>2, <2>3 DEF HadLapsedHold
  <2> QED BY <2>2, <2>3, <2>4, <2>5 DEF HoldInv, HadLapsedHold
<1>2. CASE \/ \E b \in rows : CreateQrPayment(b)
           \/ ReportDelivered \/ MarkCodCollected \/ Tick \/ UNCHANGED vars
  <2>1. /\ rows' = rows /\ bid' = bid /\ status' = status
        /\ currentHighestBid' = currentHighestBid
    BY <1>2 DEF CreateQrPayment, ReportDelivered, MarkCodCollected, Tick,
                vars, product, bidding
  <2> QED BY <2>1 DEF HoldInv, Responsible, HadLapsedHold
<1>3. CASE /\ ~\E u \in Users : StartInstantBuyHold(u)
           /\ ~\E b \in rows : CreateQrPayment(b)
           /\ ~(ReportDelivered \/ MarkCodCollected \/ Tick \/ UNCHANGED vars)
  <2>1. status' # "AWAITING_INSTANT_BUY"
    BY <1>3 DEF Next, PlaceBid, CloseIfExpired, ReleaseInstantBuyHold,
                RevertProductAfterFailedInstantBuyHold, ConfirmPaymentManual,
                ConfirmCod, ConfirmPaymentGateway, Settle,
                AbandonAfterCodRefusal, HandlePaymentExpiry, ExpireHold,
                FallBack, Abandon, Overdue, AuctionInv, SaleInv,
                OneBuyerOwes, Responsible
  <2> QED BY <2>1 DEF HoldInv
<1> QED BY <1>1, <1>2, <1>3

(* Short of an Instant Buy sale, the public bids are the auction bids.     *)
LEMMA RecordIsPublic ==
  ASSUME TypeOK, HighestBidIsRecorded, ~SoldInstantly,
         winningBid \in rows => ~bid[winningBid].isInstantBuy
  PROVE  PublicTop
<1>1. PublicBids = AuctionBids
  BY DEF PublicBids, AuctionBids
<1>2. CASE AuctionBids = {}
  BY <1>1, <1>2 DEF HighestBidIsRecorded, SoldInstantly, PublicTop
<1>3. CASE AuctionBids # {}
  <2>1. PICK b \in AuctionBids : /\ IsTop(b, AuctionBids)
                                 /\ bid[b].amount = currentHighestBid
    BY <1>3 DEF HighestBidIsRecorded, SoldInstantly
  <2> QED BY <1>1, <2>1 DEF PublicTop, TypeOK
<1> QED BY <1>2, <1>3

LEMMA OpenTop ==
  ASSUME AuctionInv, ~Final
  PROVE  PublicTop
<1>1. winningBid \in rows => ~bid[winningBid].isInstantBuy
  BY ListingAssumption
  DEF AuctionInv, SaleInv, SaleIsConsistent, TypeOK, Final
<1> QED BY <1>1, RecordIsPublic DEF AuctionInv, SoldInstantly, Final

(* A hold that is paid becomes the best bid of the page.                   *)
LEMMA SoldTop ==
  ASSUME AuctionInv, HoldInv, NEW b \in rows, b \in Responsible,
         status = "AWAITING_INSTANT_BUY", Settle(b), bid[b].isInstantBuy,
         currentHighestBid' = bid[b].amount
  PROVE  PublicTop'
<1>1. /\ rows' = rows /\ rows \subseteq BidId /\ winningBid' = b
      /\ \A d \in BidId : /\ bid'[d].isInstantBuy = bid[d].isInstantBuy
                          /\ bid'[d].amount = bid[d].amount
      /\ \A d \in BidId : bid[d].amount \in Nat
      /\ currentHighestBid \in Nat
  BY DEF Settle, CleanFinalState, AuctionInv, TypeOK, Bid
<1>2. PublicBids' = AuctionBids \cup {b}
  BY <1>1 DEF PublicBids, AuctionBids
<1>3. \A d \in AuctionBids : d \in BidId /\ bid[d].amount <= currentHighestBid
  BY <1>1
  DEF AuctionInv, HighestBidIsRecorded, SoldInstantly, IsTop, AuctionBids
<1>4. bid[b].amount > currentHighestBid /\ b \in BidId
  BY <1>1 DEF HoldInv
<1>5. \A d \in PublicBids' : bid'[d].amount <= bid'[b].amount
  BY <1>1, <1>2, <1>3, <1>4
<1> QED BY <1>1, <1>2, <1>4, <1>5 DEF PublicTop, IsTop

LEMMA FinalInvStarts ==
  ASSUME AuctionInv, AuctionInv', HoldInv, ~Final, Final', [Next]_vars
  PROVE  FinalInv'
<1>1. PICK b \in rows :
        \/ Abandon(b)
        \/ /\ Settle(b) /\ b \in Responsible
           /\ \/ status = "AWAITING_PAYMENT"
              \/ /\ status = "AWAITING_INSTANT_BUY"
                 /\ bid[b].isInstantBuy => currentHighestBid' = bid[b].amount
  <2>1. \E b \in rows :
          \/ Abandon(b)
          \/ ConfirmPaymentManual(b)
          \/ \E u \in Users : ConfirmCod(u, b)
          \/ \E s \in attempted : ConfirmPaymentGateway(s, b)
    BY DEF Final, Next, PlaceBid, CloseIfExpired, StartInstantBuyHold,
           CreateQrPayment, product, ReleaseInstantBuyHold,
           RevertProductAfterFailedInstantBuyHold, AbandonAfterCodRefusal,
           Refusable, HandlePaymentExpiry, ExpireHold, FallBack,
           ReportDelivered, MarkCodCollected, Tick, vars
  <2> QED BY <2>1 DEF ConfirmPaymentManual, ConfirmCod, ConfirmPaymentGateway
<1>2. dueIn' = 0
  BY <1>1 DEF Abandon, Settle
<1>3. /\ \A c, d \in Responsible' : c = d
      /\ winningBid' \in rows'
      /\ bid'[winningBid'].isInstantBuy =>
           status' = "SETTLED" /\ cod' # "COD_PENDING"
      /\ cod' = "COD_PENDING" => status' = "SETTLED"
  BY ListingAssumption
  DEF AuctionInv, SaleInv, OneBuyerOwes, SaleIsConsistent, WinnerOnRecord,
      Bidding, Final, TypeOK
<1>4. CASE ~bid'[winningBid'].isInstantBuy
  <2>1. ~SoldInstantly'
    BY <1>4 DEF SoldInstantly
  <2>2. PublicTop'
    <3>1. (winningBid \in rows => ~bid[winningBid].isInstantBuy)'
      BY <1>4
    <3> QED BY <2>1, <3>1, RecordIsPublic, PTL DEF AuctionInv
  <2> QED BY <1>2, <1>3, <2>2 DEF FinalInv
<1>5. CASE bid'[winningBid'].isInstantBuy
  <2>1. Settle(b) /\ b \in Responsible /\ bid[b].isInstantBuy
    <3>1. ~Abandon(b)
      BY <1>3, <1>5 DEF Abandon
    <3>2. winningBid' = b /\ b \in BidId /\ Settle(b) /\ b \in Responsible
      BY <1>1, <3>1 DEF Settle, AuctionInv, TypeOK
    <3>3. bid'[b].isInstantBuy = bid[b].isInstantBuy
      BY <3>2 DEF Settle, CleanFinalState, AuctionInv, TypeOK, Bid
    <3> QED BY <1>5, <3>2, <3>3
  <2>2. /\ status = "AWAITING_INSTANT_BUY"
        /\ currentHighestBid' = bid[b].amount
    BY <1>1, <1>3, <1>5, <2>1
    DEF Abandon, AuctionInv, SaleInv, OneBuyerOwes
  <2>3. PublicTop'
    BY <2>1, <2>2, SoldTop
  <2> QED BY <1>2, <1>3, <2>3 DEF FinalInv
<1> QED BY <1>4, <1>5
LEMMA ListingInvStays ==
  ASSUME ListingInv, [Next]_vars
  PROVE  ListingInv'
<1>1. TypeOK'
  BY TypeInductive DEF ListingInv
<1>2. CASE Final
  <2>1. Final' /\ FinalInv'
    BY <1>2, FinalKeepsBids, FinalInvStays DEF ListingInv
  <2> QED BY <1>1, <2>1 DEF ListingInv, OpenInv
<1>3. CASE ~Final
  <2>1. TypeOK /\ AuctionInv /\ FrozenClock /\ HoldInv
    BY <1>3 DEF ListingInv, OpenInv
  <2>2. SaleInv' /\ FrozenClock' /\ RoundInv' /\ HighestBidIsRecorded'
    BY <2>1, SaleInvInductive, FrozenClockInductive, RoundInvInductive,
       HighestBidInductive DEF AuctionInv
  <2>3. CascadeInv'
    BY <2>1, <2>2, CascadeInductive DEF AuctionInv
  <2>4. AuctionInv'
    BY <1>1, <2>2, <2>3 DEF AuctionInv
  <2>5. HoldInv'
    BY <1>3, <2>1, HoldInvStays
  <2>6. Final' => FinalInv'
    BY <1>3, <2>1, <2>4, FinalInvStarts
  <2> QED BY <1>1, <2>2, <2>4, <2>5, <2>6 DEF ListingInv, OpenInv, FinalInv
<1> QED BY <1>2, <1>3

LEMMA ListingInvInit == AnnouncementsInit => ListingInv
<1> SUFFICES ASSUME Init PROVE ListingInv
  BY DEF AnnouncementsInit
<1>1. TypeOK
  BY TypeInit
<1>2. AuctionBids = {} /\ Responsible = {} /\ Turns = {} /\ ~Final
  BY DEF Init, AuctionBids, Responsible, Turns, Final
<1>3. SaleInv
  BY <1>2 DEF Init, SaleInv, OneBuyerOwes, SaleIsConsistent, WinnerOnRecord,
              Bidding
<1>4. FrozenClock
  BY <1>2, WindowAssumption DEF Init, FrozenClock, BiddingTimeIsBounded
<1>5. RoundInv
  BY <1>2 DEF Init, RoundInv, AttemptKeepsItsRound
<1>6. HighestBidIsRecorded
  BY <1>2 DEF Init, HighestBidIsRecorded
<1>7. CascadeInv
  BY <1>2 DEF Init, CascadeInv, TurnInv, CascadeIsFair,
              AbandonedOnlyWhenExhausted
<1>8. HoldInv
  BY <1>2 DEF HoldInv
<1> QED BY <1>1, <1>2, <1>3, <1>4, <1>5, <1>6, <1>7, <1>8
        DEF ListingInv, OpenInv, FinalInv, AuctionInv

-----------------------------------------------------------------------------
(***************************************************************************)
(* The warning under way: r is bid b as the cron read it.  As long as      *)
(* payment is awaited, saving it writes nothing: either b is the winner    *)
(* and still what it was, or its turn is over and the index refuses it.    *)
(***************************************************************************)
StillWarns(b, r) ==
  /\ ~r.isInstantBuy /\ r.responsible /\ r.paymentStatus = "PENDING"
  /\ r.bidder = bid[b].bidder
  /\ r.amount = bid[b].amount
  /\ r.isInstantBuy = bid[b].isInstantBuy
  /\ ~Bidding
  /\ ~Final => \/ b = winningBid /\ r = bid[b]
               \/ b # winningBid /\ bid[b].paymentStatus = "EXPIRED"

WarningInv ==
  warning = <<>> \/ \E b \in rows, r \in Bid : /\ warning = <<b, r>>
                                               /\ StillWarns(b, r)

(* What the listing's own steps do to a bid whose bidder is being warned.  *)
LEMMA StillWarnsStays ==
  ASSUME ListingInv, [Next]_vars, NEW b \in rows, NEW r \in Bid,
         StillWarns(b, r)
  PROVE  b \in rows' /\ StillWarns(b, r)'
<1>1. b \in BidId /\ rows \subseteq BidId
  BY DEF ListingInv, TypeOK
<1>2. CASE Final
  <2>1. /\ Final' /\ rows' = rows
        /\ bid'[b].bidder = bid[b].bidder /\ bid'[b].amount = bid[b].amount
        /\ bid'[b].isInstantBuy = bid[b].isInstantBuy
    BY <1>1, <1>2, FinalKeepsBids DEF ListingInv
  <2> QED BY <2>1 DEF StillWarns, Bidding, Final
<1>3. CASE ~Final
  <2>1. /\ status = "AWAITING_PAYMENT" /\ AuctionInv
        /\ Responsible = {winningBid}
        /\ \/ b = winningBid /\ r = bid[b]
           \/ b # winningBid /\ bid[b].paymentStatus = "EXPIRED"
    BY <1>3 DEF StillWarns, Bidding, Final, ListingInv, OpenInv, AuctionInv,
                SaleInv, OneBuyerOwes, TypeOK, ProductStatus
  <2>2. ASSUME NEW d \in rows, NEW c \in rows, FallBack(d, c)
        PROVE  b \in rows' /\ StillWarns(b, r)'
    <3>1. /\ d = winningBid /\ d # c /\ c \in BidId /\ d \in BidId
          /\ bid[c].paymentStatus = "NOT_RESPONSIBLE"
      BY <1>1, <2>1, <2>2
      DEF FallBack, Overdue, IsTop, Candidates
    <3>2. /\ bid'[d].paymentStatus = "EXPIRED"
          /\ \A e \in BidId \ {d, c} : bid'[e] = bid[e]
      BY <2>1, <2>2, <3>1, FallBackEffect DEF AuctionInv, TypeOK
    <3>3. b # c
      BY <2>1, <3>1 DEF AuctionInv, SaleInv, OneBuyerOwes
    <3>4. b # d => bid'[b] = bid[b]
      BY <1>1, <3>2, <3>3
    <3>5. /\ bid'[b].bidder = bid[b].bidder /\ bid'[b].amount = bid[b].amount
          /\ bid'[b].isInstantBuy = bid[b].isInstantBuy
      <4>1. CASE b = d
        <5>1. bid'[b] = Expire(bid[b])
          BY <1>1, <2>1, <2>2, <3>1, <4>1 DEF FallBack, AuctionInv, TypeOK
        <5> QED BY <1>1, <2>1, <5>1 DEF Expire, AuctionInv, TypeOK, Bid
      <4> QED BY <3>4, <4>1
    <3>6. /\ rows' = rows /\ winningBid' = c /\ status' = status
      BY <2>2 DEF FallBack
    <3>7. b # winningBid' /\ bid'[b].paymentStatus = "EXPIRED"
      BY <2>1, <3>1, <3>2, <3>3, <3>4, <3>6
    <3> QED BY <2>1, <3>5, <3>6, <3>7 DEF StillWarns, Bidding, Final
  <2>3. ASSUME NEW d \in rows, Abandon(d) \/ Settle(d)
        PROVE  b \in rows' /\ StillWarns(b, r)'
    <3>1. /\ bid'[b].bidder = bid[b].bidder /\ bid'[b].amount = bid[b].amount
          /\ bid'[b].isInstantBuy = bid[b].isInstantBuy
      <4>1. bid[b] \in Bid /\ bid \in [BidId -> Bid] /\ d \in BidId
        BY <1>1, <2>1 DEF AuctionInv, TypeOK
      <4>2. \/ bid'[b] = bid[b] \/ bid'[b] = Expire(bid[b])
            \/ \E s \in BidPaymentStatus :
                 bid'[b] = [bid[b] EXCEPT !.paymentStatus = s]
        BY <1>1, <2>3, <4>1
        DEF Abandon, Settle, CleanFinalState, BidPaymentStatus
      <4> QED BY <4>1, <4>2 DEF Expire, Bid
    <3>2. rows' = rows /\ Final'
      BY <2>3 DEF Abandon, Settle, Final
    <3> QED BY <3>1, <3>2 DEF StillWarns, Bidding, Final
  <2>4. CASE \/ \E d \in rows : CreateQrPayment(d)
             \/ ReportDelivered \/ MarkCodCollected \/ Tick \/ UNCHANGED vars
    <3>1. /\ rows' = rows /\ bid' = bid /\ status' = status
          /\ winningBid' = winningBid
      BY <2>4 DEF CreateQrPayment, ReportDelivered, MarkCodCollected, Tick,
                  vars, product, bidding
    <3> QED BY <3>1 DEF StillWarns, Bidding, Final
  <2>5. \/ \E d \in rows : \/ \E c \in rows : FallBack(d, c)
                           \/ Abandon(d) \/ Settle(d)
                           \/ CreateQrPayment(d)
        \/ ReportDelivered \/ MarkCodCollected \/ Tick \/ UNCHANGED vars
    BY <2>1 DEF Next, PlaceBid, CloseIfExpired, Due, StartInstantBuyHold,
                ReleaseInstantBuyHold, ConfirmPaymentManual, ConfirmCod,
                ConfirmPaymentGateway, AbandonAfterCodRefusal, Refusable,
                HandlePaymentExpiry, ExpireHold, Overdue, AuctionInv, SaleInv,
                OneBuyerOwes, Responsible
  <2> QED BY <2>2, <2>3, <2>4, <2>5
<1> QED BY <1>2, <1>3

(* The cron reads only the winner, while payment is awaited.               *)
LEMMA ReadWarns ==
  ASSUME ListingInv, NEW b \in rows, ReadForWarning(b)
  PROVE  WarningInv'
<1>1. /\ ~Final /\ dueIn > 0 /\ warning' = <<b, bid[b]>>
      /\ b \in Responsible /\ bid[b].responsible
      /\ ~bid[b].isInstantBuy /\ bid[b].paymentStatus = "PENDING"
      /\ UNCHANGED vars
  BY DEF ReadForWarning, ListingInv, FinalInv, Responsible
<1>2. /\ OneBuyerOwes /\ bid[b] \in Bid
      /\ bid' = bid /\ rows' = rows /\ status' = status
      /\ winningBid' = winningBid
  BY <1>1 DEF ListingInv, OpenInv, AuctionInv, SaleInv, TypeOK, vars, product,
              bidding
<1>3. ~Bidding /\ b = winningBid
  BY <1>1, <1>2 DEF OneBuyerOwes, Bidding, Final, ListingInv, TypeOK,
                    ProductStatus
<1>4. StillWarns(b, bid[b])'
  BY <1>1, <1>2, <1>3 DEF StillWarns, Bidding, Final
<1> QED BY <1>1, <1>2, <1>4 DEF WarningInv

LEMMA SaveKeepsListing ==
  ASSUME ListingInv, WarningInv, SaveWarning
  PROVE  ListingInv' /\ WarningInv'
<1>1. PICK b \in rows, r \in Bid : warning = <<b, r>> /\ StillWarns(b, r)
  BY DEF SaveWarning, WarningInv
<1>2. /\ warning[1] = b /\ warning[2] = r /\ warning' = <<>>
      /\ b \in BidId /\ rows \subseteq BidId
      /\ UNCHANGED <<product, rows, round, attempted, clocks, codVars>>
  BY <1>1 DEF SaveWarning, ListingInv, TypeOK
<1>3. \/ bid' = bid
      \/ ~ResponsibleElsewhere(b) /\ bid' = [bid EXCEPT ![b] = r]
  BY <1>2 DEF SaveWarning
<1>4. CASE bid' = bid
  <2>1. UNCHANGED vars
    BY <1>2, <1>4 DEF vars, bidding
  <2> QED BY <1>2, <2>1, ListingInvStays DEF WarningInv
<1>5. CASE ~Final
  <2>1. /\ Responsible = {winningBid}
        /\ \/ b = winningBid /\ r = bid[b]
           \/ b # winningBid
    BY <1>1, <1>5
    DEF StillWarns, Bidding, Final, ListingInv, OpenInv, AuctionInv,
        SaleInv, OneBuyerOwes, TypeOK, ProductStatus
  <2>2. bid' = bid
    <3>1. CASE b = winningBid /\ r = bid[b]
      BY <1>3, <3>1 DEF ListingInv, TypeOK
    <3>2. CASE b # winningBid
      BY <1>3, <2>1, <3>2 DEF ResponsibleElsewhere
    <3> QED BY <2>1, <3>1, <3>2
  <2> QED BY <1>4, <2>2
<1>6. CASE Final /\ ~ResponsibleElsewhere(b) /\ bid' = [bid EXCEPT ![b] = r]
  <2>1. bid' \in [BidId -> Bid]
    BY <1>2, <1>6 DEF ListingInv, TypeOK
  <2>2. TypeOK'
    BY <1>2, <2>1 DEF ListingInv, TypeOK, product, clocks, codVars
  <2>3. \A d \in BidId : /\ bid'[d].amount = bid[d].amount
                         /\ bid'[d].isInstantBuy = bid[d].isInstantBuy
    BY <1>1, <1>2, <1>6 DEF StillWarns, ListingInv, TypeOK
  <2>4. \A c, d \in Responsible' : c = d
    <3>1. Responsible' \subseteq {b}
      BY <1>2, <1>6 DEF Responsible, ResponsibleElsewhere, ListingInv, TypeOK
    <3> QED BY <3>1
  <2>5. PublicTop'
    BY <1>2, <1>6, <2>3, PublicTopStays DEF ListingInv, FinalInv, product
  <2>6. Final' /\ FinalInv'
    BY <1>2, <1>6, <2>3, <2>4, <2>5
    DEF ListingInv, FinalInv, Final, TypeOK, product, clocks, codVars
  <2> QED BY <1>2, <2>2, <2>6 DEF ListingInv, OpenInv, WarningInv
<1> QED BY <1>3, <1>4, <1>5, <1>6

-----------------------------------------------------------------------------
(***************************************************************************)
(* A step of the composition is a step of the listing, or one of a handler *)
(* that leaves the listing alone, or the save of a warning.                *)
(***************************************************************************)
LEMMA StepKinds ==
  ASSUME [AnnouncementsNext]_allVars
  PROVE  \/ SaveWarning
         \/ \E b \in rows : ReadForWarning(b)
         \/ [Next]_vars /\ (warning' = warning \/ warning' = <<>>)
<1>1. CASE \/ CloseAllExpiredAuctions
           \/ \E u \in Users : \/ \E amount \in 0..BiddingEndPrice :
                                    AnnouncedBid(u, amount)
                               \/ AnnouncedHold(u)
  BY <1>1 DEF CloseAllExpiredAuctions, AnnouncedClose, AnnouncedBid,
              AnnouncedHold, Emit, warnings, Next
<1>2. CASE ExpireAllOverdueInstantBuyHolds \/ ExpireAllOverduePaymentWindows
  BY <1>2 DEF ExpireAllOverdueInstantBuyHolds, AnnouncedHoldExpiry,
              ExpireAllOverduePaymentWindows, AnnouncedTransfer,
              AnnouncedAbandonment, Emit, warnings, Next, HandlePaymentExpiry
<1>3. CASE \E b \in rows : \/ AnnouncedRelease(b) \/ AnnouncedManual(b)
                           \/ AnnouncedCod(b) \/ AnnouncedGateway(b)
                           \/ AnnouncedRefusal(b)
                           \/ Unannounced(CreateQrPayment(b))
  BY <1>3 DEF AnnouncedRelease, AnnouncedManual, AnnouncedCod,
              AnnouncedGateway, AnnouncedRefusal, Unannounced, Emit,
              announcing, warnings, Next
<1>4. CASE \/ Unannounced(ReportDelivered) \/ Unannounced(MarkCodCollected)
           \/ AnnouncedTick
  BY <1>4 DEF Unannounced, AnnouncedTick, announcing, warnings, Next
<1>5. CASE Handlers \/ WarningFails \/ UNCHANGED allVars
  BY <1>5 DEF Handlers, Insert, InsertFails, ReadProduct, PushFrame,
              WarningFails, allVars, announcing, warnings
<1> QED BY <1>1, <1>2, <1>3, <1>4, <1>5 DEF AnnouncementsNext

LEMMA WarnedListingInductive ==
  ASSUME ListingInv, WarningInv, [AnnouncementsNext]_allVars
  PROVE  ListingInv' /\ WarningInv'
<1>1. CASE SaveWarning
  BY <1>1, SaveKeepsListing
<1>2. ASSUME NEW b \in rows, ReadForWarning(b)
      PROVE  ListingInv' /\ WarningInv'
  BY <1>2, ReadWarns, ListingInvStays DEF ReadForWarning
<1>3. CASE [Next]_vars /\ (warning' = warning \/ warning' = <<>>)
  <2>1. ListingInv'
    BY <1>3, ListingInvStays
  <2>2. CASE warning' = <<>>
    BY <2>1, <2>2 DEF WarningInv
  <2>3. CASE warning' = warning /\ warning # <<>>
    <3>1. PICK b \in rows, r \in Bid : warning = <<b, r>> /\ StillWarns(b, r)
      BY <2>3 DEF WarningInv
    <3>2. b \in rows' /\ StillWarns(b, r)'
      BY <1>3, <3>1, StillWarnsStays
    <3> QED BY <2>1, <2>3, <3>1, <3>2 DEF WarningInv
  <2> QED BY <1>3, <2>1, <2>2, <2>3
<1> QED BY <1>1, <1>2, <1>3, StepKinds

LEMMA WarnedListingHolds == AnnouncementsSpec => [](ListingInv /\ WarningInv)
<1>1. AnnouncementsInit => ListingInv /\ WarningInv
  BY ListingInvInit DEF AnnouncementsInit, WarningInv
<1>2. ListingInv /\ WarningInv /\ [AnnouncementsNext]_allVars
        => (ListingInv /\ WarningInv)'
  BY WarnedListingInductive
<1> QED BY <1>1, <1>2, PTL DEF AnnouncementsSpec

(* A payment warning that is saved after the transactions it overlapped    *)
(* never leaves two bidders responsible, nor takes the payment that is     *)
(* awaited away from the winner.                                           *)
THEOREM LateWarningAddsNoPayerAlways ==
  AnnouncementsSpec => []LateWarningAddsNoPayer
<1>1. ListingInv => LateWarningAddsNoPayer
  BY DEF ListingInv, OpenInv, FinalInv, Final, AuctionInv, SaleInv,
         OneBuyerOwes, LateWarningAddsNoPayer
<1> QED BY <1>1, WarnedListingHolds, PTL

-----------------------------------------------------------------------------
(***************************************************************************)
(* The live page.  The price of a listing only rises, so the price a       *)
(* handler read before its bids is never ahead of them.                    *)
(***************************************************************************)
FrameInv ==
  \A price \in DOMAIN reading : price \in Nat /\ price <= currentHighestBid

LEMMA PriceOnlyRises ==
  ASSUME ListingInv, [Next]_vars
  PROVE  currentHighestBid <= currentHighestBid'
<1>1. currentHighestBid \in Nat
  BY DEF ListingInv, TypeOK
<1>2. ASSUME NEW u \in Users, NEW amount \in 0..BiddingEndPrice,
             PlaceBid(u, amount)
      PROVE  currentHighestBid <= currentHighestBid'
  <2>1. /\ ~Final /\ currentHighestBid' = amount /\ amount \in Nat
        /\ ValidBid(status = "AWAITING_FIRST_BID", BiddingStartPrice,
                    BiddingEndPrice, currentHighestBid, amount)
    BY <1>2, ListingAssumption DEF PlaceBid, Final
  <2>2. CASE status = "AWAITING_FIRST_BID"
    <3>1. AuctionBids = {} /\ HighestBidIsRecorded
      BY <2>1, <2>2 DEF ListingInv, OpenInv, FrozenClock, AuctionInv
    <3> QED BY <2>1, <2>2, <3>1 DEF HighestBidIsRecorded
  <2>3. CASE status # "AWAITING_FIRST_BID"
    <3>1. amount > currentHighestBid
      BY <2>1, <2>3, NextBidIsHigher DEF ListingInv
    <3> QED BY <1>1, <2>1, <3>1
  <2> QED BY <2>2, <2>3
<1>3. ASSUME NEW s \in attempted, NEW b \in rows, ConfirmPaymentGateway(s, b)
      PROVE  currentHighestBid <= currentHighestBid'
  <2>1. CASE bid[b].isInstantBuy
    <3>1. status = "AWAITING_INSTANT_BUY"
      BY <1>3, <2>1
      DEF ConfirmPaymentGateway, ListingInv, OpenInv, Final, AuctionInv,
          SaleInv, OneBuyerOwes
    <3>2. bid[b].amount > currentHighestBid /\ bid[b].amount \in Nat
      BY <1>3, <3>1
      DEF ConfirmPaymentGateway, ListingInv, OpenInv, Final, HoldInv,
          TypeOK, Bid
    <3> QED BY <1>1, <1>3, <2>1, <3>2 DEF ConfirmPaymentGateway
  <2> QED BY <1>1, <1>3, <2>1 DEF ConfirmPaymentGateway
<1>4. CASE /\ ~\E u \in Users : \E amount \in 0..BiddingEndPrice :
                 PlaceBid(u, amount)
           /\ ~\E b \in rows : \E s \in attempted : ConfirmPaymentGateway(s, b)
  <2>1. currentHighestBid' = currentHighestBid
    BY <1>4
    DEF Next, CloseIfExpired, StartInstantBuyHold, CreateQrPayment, product,
        ReleaseInstantBuyHold, RevertProductAfterFailedInstantBuyHold,
        ConfirmPaymentManual, ConfirmCod, AbandonAfterCodRefusal,
        HandlePaymentExpiry, ExpireHold, FallBack, Abandon, ReportDelivered,
        MarkCodCollected, Tick, vars
  <2> QED BY <1>1, <2>1
<1> QED BY <1>2, <1>3, <1>4

LEMMA StepKeepsPrice ==
  ASSUME ListingInv, [AnnouncementsNext]_allVars
  PROVE  currentHighestBid <= currentHighestBid'
<1>1. CASE SaveWarning \/ \E b \in rows : ReadForWarning(b)
  <2>1. currentHighestBid' = currentHighestBid
    BY <1>1 DEF SaveWarning, ReadForWarning, vars, product
  <2> QED BY <2>1 DEF ListingInv, TypeOK
<1>2. CASE [Next]_vars
  BY <1>2, PriceOnlyRises
<1> QED BY <1>1, <1>2, StepKinds

(* Which broadcasts a step may add to those that have read the price.      *)
LEMMA StepReadsPrice ==
  ASSUME [AnnouncementsNext]_allVars
  PROVE  \/ reading' = reading
         \/ reading' = reading (+) SetToBag({currentHighestBid})
         \/ \E price \in DOMAIN reading :
              reading' = reading (-) SetToBag({price})
<1>1. CASE Handlers
  BY <1>1 DEF Handlers, Insert, InsertFails, ReadProduct, PushFrame
<1>2. CASE ~Handlers
  BY <1>2
  DEF AnnouncementsNext, AnnouncedBid, AnnouncedHold, CloseAllExpiredAuctions,
      AnnouncedClose, ExpireAllOverdueInstantBuyHolds, AnnouncedHoldExpiry,
      ExpireAllOverduePaymentWindows, AnnouncedTransfer, AnnouncedAbandonment,
      AnnouncedRelease, AnnouncedManual, AnnouncedCod, AnnouncedGateway,
      AnnouncedRefusal, ReadForWarning, Unannounced, AnnouncedTick,
      SaveWarning, WarningFails, Emit, announcing, allVars, jobs
<1> QED BY <1>1, <1>2

LEMMA FrameInductive ==
  ASSUME ListingInv, FrameInv, [AnnouncementsNext]_allVars
  PROVE  FrameInv'
<1>1. /\ currentHighestBid \in Nat /\ currentHighestBid' \in Nat
      /\ currentHighestBid <= currentHighestBid'
  <2>1. CASE SaveWarning \/ \E b \in rows : ReadForWarning(b)
    BY <2>1 DEF SaveWarning, ReadForWarning, vars, product, ListingInv, TypeOK
  <2>2. CASE [Next]_vars
    <3>1. TypeOK /\ TypeOK'
      BY <2>2, TypeInductive DEF ListingInv
    <3> QED BY <3>1, StepKeepsPrice DEF TypeOK
  <2> QED BY <2>1, <2>2, StepKinds, StepKeepsPrice
<1>2. DOMAIN reading' \subseteq DOMAIN reading \cup {currentHighestBid}
  <2>1. ASSUME NEW price PROVE DOMAIN SetToBag({price}) = {price}
    BY DEF SetToBag
  <2>2. CASE reading' = reading (+) SetToBag({currentHighestBid})
    BY <2>1, <2>2 DEF (+)
  <2>3. ASSUME NEW price, reading' = reading (-) SetToBag({price})
        PROVE  DOMAIN reading' \subseteq DOMAIN reading
    BY <2>3 DEF (-)
  <2> QED BY <2>2, <2>3, StepReadsPrice
<1> QED BY <1>1, <1>2 DEF FrameInv

LEMMA TopOfThePage ==
  ASSUME ListingInv
  PROVE  PublicTop
<1>1. CASE Final
  BY <1>1 DEF ListingInv, FinalInv
<1>2. CASE ~Final
  BY <1>2, OpenTop DEF ListingInv, OpenInv
<1> QED BY <1>1, <1>2

(* Whatever was committed between a handler's two reads, the leaderboard   *)
(* it sends is not behind the price it sends, and an Instant Buy bid heads *)
(* it only when the lot is sold.                                           *)
THEOREM FramesHangTogetherAlways == AnnouncementsSpec => []FramesHangTogether
<1>1. AnnouncementsInit => FrameInv
  BY DEF AnnouncementsInit, FrameInv, EmptyBag, SetToBag
<1>2. ListingInv /\ FrameInv /\ [AnnouncementsNext]_allVars => FrameInv'
  BY FrameInductive
<1>3. ListingInv /\ FrameInv => FramesHangTogether
  <2> SUFFICES ASSUME ListingInv, FrameInv, NEW price \in DOMAIN reading
               PROVE  /\ Payload(price).highest <= Payload(price).top
                      /\ Payload(price).byInstantBuy => status = "SETTLED"
    BY DEF FramesHangTogether
  <2>1. price \in Nat /\ price <= currentHighestBid
        /\ currentHighestBid \in Nat
    BY DEF FrameInv, ListingInv, TypeOK
  <2>2. CASE PublicBids = {} /\ currentHighestBid = 0
    BY <2>1, <2>2 DEF Payload
  <2>3. CASE \E b \in PublicBids : /\ IsTop(b, PublicBids)
                                   /\ currentHighestBid <= bid[b].amount
    <3>1. PICK b \in PublicBids : /\ IsTop(b, PublicBids)
                                  /\ currentHighestBid <= bid[b].amount
      BY <2>3
    <3>2. Leader \in PublicBids /\ IsTop(Leader, PublicBids)
      BY <3>1 DEF Leader
    <3>3. /\ bid[b].amount \in Nat /\ bid[Leader].amount \in Nat
          /\ bid[b].amount <= bid[Leader].amount
      BY <3>1, <3>2 DEF IsTop, PublicBids, ListingInv, TypeOK, Bid
    <3>4. bid[Leader].isInstantBuy => status = "SETTLED"
      <4>1. bid[Leader].isInstantBuy => Leader = winningBid /\ Leader \in rows
        BY <3>2 DEF PublicBids
      <4> QED BY <4>1, ListingAssumption
              DEF ListingInv, OpenInv, FinalInv, Final, AuctionInv, SaleInv,
                  SaleIsConsistent, TypeOK
    <3>5. PublicBids # {}
      BY <3>1
    <3> HIDE DEF Leader
    <3>6. /\ Payload(price).highest = price
          /\ Payload(price).top = bid[Leader].amount
          /\ Payload(price).byInstantBuy => bid[Leader].isInstantBuy
      BY <3>5 DEF Payload
    <3>7. price <= bid[Leader].amount
      BY <2>1, <3>1, <3>3
    <3> QED BY <3>4, <3>6, <3>7
  <2> QED BY <2>2, <2>3, TopOfThePage DEF PublicTop
<1> QED BY <1>1, <1>2, <1>3, WarnedListingHolds, PTL DEF AnnouncementsSpec

-----------------------------------------------------------------------------
(***************************************************************************)
(* The notices.  Each of them says something that the listing shows from   *)
(* then on and did not show before, so none is emitted twice.              *)
(***************************************************************************)
Explained(n) ==
  /\ n.type \in {"BID_PLACED_SELLER", "OUTBID"} => n.about \in AuctionBids
  /\ n.type \in {"AUCTION_WON", "AUCTION_CLOSED_SELLER"} => ~Bidding
  /\ n.type \in {"PAYMENT_FAILED_FALLBACK", "PAYMENT_FAILED_SELLER"} =>
       ~Bidding /\ n.about \in BidId /\ round[n.about] # "NONE"
  /\ n.type \in {"PAYMENT_CONFIRMED_SELLER", "PAYMENT_CONFIRMED_BUYER"} => Final
  /\ n.type = "AUCTION_ABANDONED" => status = "ABANDONED"
  /\ n.type = "INSTANT_BUY_EXPIRED" => (Bidding => HadLapsedHold(n.user))

(* What a handler still has to insert: one notice, or two.                 *)
ToInsert(q) == \/ \E n \in NoticesIn(q) : q = <<n>>
               \/ \E n, m \in NoticesIn(q) : n # m /\ q = <<n, m>>

NoticeInv ==
  /\ swallowed = {}
  /\ \A q \in inserting : ToInsert(q) /\ NoticesIn(q) \cap inbox = {}
  /\ \A p, q \in inserting : p # q => NoticesIn(p) \cap NoticesIn(q) = {}
  /\ \A n \in inbox : Explained(n)
  /\ \A q \in inserting : \A n \in NoticesIn(q) : Explained(n)

LEMMA OneNotice ==
  ASSUME NEW n
  PROVE  /\ NoticesIn(<<n>>) = {n} /\ Head(<<n>>) = n /\ Tail(<<n>>) = <<>>
         /\ ToInsert(<<n>>)
  BY DEF NoticesIn, ToInsert

LEMMA TwoNotices ==
  ASSUME NEW n, NEW m
  PROVE  /\ NoticesIn(<<n, m>>) = {n, m} /\ Head(<<n, m>>) = n
         /\ Tail(<<n, m>>) = <<m>> /\ <<m>> # <<>>
         /\ n # m => ToInsert(<<n, m>>)
<1>1. DOMAIN <<n, m>> = {1, 2}
  OBVIOUS
<1>2. NoticesIn(<<n, m>>) = {n, m}
  BY <1>1 DEF NoticesIn
<1> QED BY <1>2 DEF ToInsert

LEMMA InsertKeepsNotices ==
  ASSUME NoticeInv, NEW q \in inserting, Insert(q)
  PROVE  NoticeInv'
<1>1. UNCHANGED vars
  BY DEF Insert
<1>2. \A n : Explained(n)' <=> Explained(n)
  BY <1>1 DEF Explained, AuctionBids, Bidding, Final, HadLapsedHold, vars,
              product, bidding
<1>3. PICK n \in NoticesIn(q) :
        /\ Head(q) = n
        /\ \/ Tail(q) = <<>> /\ NoticesIn(q) = {n}
           \/ \E m \in NoticesIn(q) :
                n # m /\ Tail(q) = <<m>> /\ NoticesIn(q) = {n, m}
  <2>1. ToInsert(q)
    BY DEF NoticeInv
  <2>2. CASE \E n \in NoticesIn(q) : q = <<n>>
    BY <2>2, OneNotice
  <2>3. CASE \E n, m \in NoticesIn(q) : n # m /\ q = <<n, m>>
    <3>1. PICK n \in NoticesIn(q), m \in NoticesIn(q) : n # m /\ q = <<n, m>>
      BY <2>3
    <3>2. /\ Head(q) = n /\ Tail(q) = <<m>> /\ NoticesIn(q) = {n, m}
      BY <3>1, TwoNotices
    <3> QED BY <3>1, <3>2
  <2> QED BY <2>1, <2>2, <2>3 DEF ToInsert
<1>4. n \notin inbox
  BY <1>3 DEF NoticeInv
<1>5. inbox' = inbox \cup {n} /\ swallowed' = {}
  BY <1>3, <1>4 DEF Insert, NoticeInv
<1>6. CASE Tail(q) = <<>>
  <2>1. inserting' = inserting \ {q}
    BY <1>6 DEF Insert
  <2> QED BY <1>2, <1>3, <1>5, <2>1 DEF NoticeInv
<1>7. ASSUME NEW m \in NoticesIn(q), n # m, Tail(q) = <<m>>,
             NoticesIn(q) = {n, m}
      PROVE  NoticeInv'
  <2>1. <<m>> # <<>> /\ NoticesIn(<<m>>) = {m} /\ ToInsert(<<m>>)
    BY OneNotice
  <2>2. inserting' = (inserting \ {q}) \cup {<<m>>}
    BY <1>7, <2>1 DEF Insert
  <2>3. \A p \in inserting \ {q} : n \notin NoticesIn(p) /\ m \notin NoticesIn(p)
    BY <1>3, <1>7 DEF NoticeInv
  <2>4. m \notin inbox'
    BY <1>5, <1>7 DEF NoticeInv
  <2>5. \A p \in inserting' : ToInsert(p) /\ NoticesIn(p) \cap inbox' = {}
    BY <1>5, <2>1, <2>2, <2>3, <2>4 DEF NoticeInv
  <2>6. \A p, r \in inserting' : p # r => NoticesIn(p) \cap NoticesIn(r) = {}
    BY <2>1, <2>2, <2>3 DEF NoticeInv
  <2>7. /\ \A k \in inbox' : Explained(k)
        /\ \A p \in inserting' : \A k \in NoticesIn(p) : Explained(k)
    BY <1>3, <1>5, <1>7, <2>1, <2>2 DEF NoticeInv
  <2> QED BY <1>2, <1>5, <2>5, <2>6, <2>7 DEF NoticeInv
<1> QED BY <1>3, <1>6, <1>7

LEMMA InsertFailsKeepsNotices ==
  ASSUME NoticeInv, NEW q \in inserting, InsertFails(q)
  PROVE  NoticeInv'
<1>1. UNCHANGED vars
  BY DEF InsertFails
<1>2. \A n : Explained(n)' <=> Explained(n)
  BY <1>1 DEF Explained, AuctionBids, Bidding, Final, HadLapsedHold, vars,
              product, bidding
<1>3. Head(q) \in NoticesIn(q)
  BY OneNotice, TwoNotices DEF NoticeInv, ToInsert
<1>4. /\ inserting' = inserting \ {q} /\ swallowed' = swallowed
      /\ inbox' \subseteq inbox \cup {Head(q)}
  BY DEF InsertFails
<1> QED BY <1>2, <1>3, <1>4 DEF NoticeInv

LEMMA EmitKeepsNotices ==
  ASSUME NoticeInv, NEW q, ToInsert(q),
         inserting' = inserting \cup {q}, inbox' = inbox,
         swallowed' = swallowed,
         \A n \in NoticesIn(q) : ~Explained(n) /\ Explained(n)',
         \A n : Explained(n) => Explained(n)'
  PROVE  NoticeInv'
<1>1. \A n \in NoticesIn(q) : n \notin inbox
  BY DEF NoticeInv
<1>2. \A p \in inserting : NoticesIn(p) \cap NoticesIn(q) = {}
  BY DEF NoticeInv
<1> QED BY <1>1, <1>2 DEF NoticeInv

(* What a notice says stays true: auction bids are never deleted, bidding  *)
(* never reopens, a round is never taken back once bidding closed, and a   *)
(* lapsed hold is remembered for as long as there can be another.          *)
NothingForgotten ==
  /\ AuctionBids \subseteq AuctionBids'
  /\ ~Bidding => ~Bidding'
  /\ ~Bidding => \A b \in BidId : round[b] # "NONE" => round'[b] # "NONE"
  /\ Final => Final'
  /\ status = "ABANDONED" => status' = "ABANDONED"
  /\ Bidding' => \A b \in rows :
       bid[b].isInstantBuy /\ bid[b].paymentStatus = "EXPIRED"
         => b \in rows' /\ bid'[b] = bid[b]

LEMMA ExplainedStays ==
  ASSUME NothingForgotten, NEW n, Explained(n)
  PROVE  Explained(n)'
<1>1. Bidding' => (HadLapsedHold(n.user) => HadLapsedHold(n.user)')
  BY DEF NothingForgotten, HadLapsedHold
<1> QED BY <1>1 DEF NothingForgotten, Explained

LEMMA ListingForgetsNothing ==
  ASSUME ListingInv, [Next]_vars
  PROVE  NothingForgotten
<1> USE DEF NothingForgotten
<1>1. TypeOK /\ rows \subseteq BidId
  BY DEF ListingInv, TypeOK
<1>2. CASE Final
  <2>1. AuctionBids' = AuctionBids
    BY <1>1, <1>2, FinalKeepsBids DEF AuctionBids
  <2> QED BY <1>1, <1>2, <2>1, FinalKeepsBids DEF Bidding, Final
<1>3. CASE ~Final
  <2>1. AuctionInv
    BY <1>3 DEF ListingInv, OpenInv
  <2>2. ASSUME NEW n \in BidId \ rows, NEW r, rows' = rows \cup {n},
               bid' = [bid EXCEPT ![n] = r], Bidding
        PROVE  NothingForgotten
    <3>1. \A b \in rows : bid'[b] = bid[b]
      BY <1>1, <2>2 DEF TypeOK
    <3> QED BY <1>3, <2>2, <3>1 DEF AuctionBids, Bidding, Final
  <2>3. ASSUME NEW u \in Users, NEW amount \in 0..BiddingEndPrice,
               PlaceBid(u, amount)
        PROVE  NothingForgotten
    BY <1>1, <2>2, <2>3, NewRowIsFree DEF PlaceBid, Bidding
  <2>4. ASSUME NEW u \in Users, StartInstantBuyHold(u)
        PROVE  NothingForgotten
    BY <1>1, <2>2, <2>4, NewRowIsFree DEF StartInstantBuyHold, Bidding
  <2>5. CASE CloseIfExpired
    <3>1. \A b \in BidId : bid'[b].isInstantBuy = bid[b].isInstantBuy
      BY <1>1, <2>5 DEF CloseIfExpired, TypeOK, Bid
    <3> QED BY <1>1, <1>3, <2>5, <3>1
            DEF CloseIfExpired, Due, AuctionBids, Bidding, Final
  <2>6. ASSUME NEW b \in rows, ReleaseInstantBuyHold(b) \/ ExpireHold(b)
        PROVE  NothingForgotten
    <3>1. /\ status = "AWAITING_INSTANT_BUY" /\ b \in Responsible
          /\ bid[b].isInstantBuy
          /\ \/ RetireHold(b) \/ DeleteHold(b)
             \/ bid' = [bid EXCEPT ![b] = Expire(@)] /\ rows' = rows
          /\ Bidding'
      BY <2>1, <2>6
      DEF ReleaseInstantBuyHold, ExpireHold, Overdue, AuctionInv, SaleInv,
          OneBuyerOwes, RevertProductAfterFailedInstantBuyHold, Bidding
    <3>2. AuctionBids' = AuctionBids
      BY <1>1, <3>1, HoldLeavesAuctionBids
    <3>3. bid[b].paymentStatus = "PENDING"
      BY <2>1, <3>1 DEF AuctionInv, SaleInv, OneBuyerOwes
    <3>4. \A d \in rows \ {b} : d \in rows' /\ bid'[d] = bid[d]
      BY <1>1, <3>1 DEF RetireHold, DeleteHold, TypeOK
    <3> QED BY <3>1, <3>2, <3>3, <3>4, <1>3 DEF Bidding, Final
  <2>7. ASSUME NEW b \in rows, NEW c \in rows, FallBack(b, c)
        PROVE  NothingForgotten
    <3>1. /\ status = "AWAITING_PAYMENT" /\ AuctionBids' = AuctionBids
      BY <2>1, <2>7, NextTurn, FallBackKeepsCascade DEF AuctionInv
    <3>2. \A d \in BidId : round[d] # "NONE" => round'[d] # "NONE"
      BY <1>1, <2>7 DEF FallBack, CloseRound, TypeOK
    <3> QED BY <2>7, <3>1, <3>2 DEF FallBack, Bidding, Final
  <2>8. ASSUME NEW b \in rows, Abandon(b) \/ Settle(b)
        PROVE  NothingForgotten
    <3>1. \A d \in BidId : bid'[d].isInstantBuy = bid[d].isInstantBuy
      <4>1. \A d \in BidId :
              \/ bid'[d] = bid[d] \/ bid'[d] = Expire(bid[d])
              \/ \E s \in BidPaymentStatus :
                   bid'[d] = [bid[d] EXCEPT !.paymentStatus = s]
        BY <1>1, <2>8
        DEF Abandon, Settle, CleanFinalState, BidPaymentStatus, TypeOK
      <4>2. \A d \in BidId : bid[d] \in Bid
        BY <1>1 DEF TypeOK
      <4>3. ASSUME NEW d \in BidId
            PROVE  bid'[d].isInstantBuy = bid[d].isInstantBuy
        BY <4>1, <4>2 DEF Expire, Bid
      <4> QED BY <4>3
    <3>2. rows' = rows /\ Final' /\ ~Bidding'
      BY <2>8 DEF Abandon, Settle, Final, Bidding
    <3>3. \A d \in BidId : round[d] # "NONE" => round'[d] # "NONE"
      BY <1>1, <2>8 DEF Abandon, Settle, CloseRound, TypeOK
    <3> QED BY <1>1, <1>3, <3>1, <3>2, <3>3 DEF AuctionBids, Final
  <2>9. CASE \/ \E b \in rows : CreateQrPayment(b)
             \/ ReportDelivered \/ MarkCodCollected \/ Tick \/ UNCHANGED vars
    <3>1. /\ rows' = rows /\ bid' = bid /\ status' = status /\ round' = round
      BY <2>9 DEF CreateQrPayment, ReportDelivered, MarkCodCollected, Tick,
                  vars, product, bidding
    <3> QED BY <3>1 DEF AuctionBids, Bidding, Final
  <2> QED
    BY <1>3, <2>3, <2>4, <2>5, <2>6, <2>7, <2>8, <2>9
    DEF Next, HandlePaymentExpiry, ConfirmPaymentManual, ConfirmCod,
        ConfirmPaymentGateway, AbandonAfterCodRefusal, Refusable, Final
<1> QED BY <1>2, <1>3

LEMMA StepForgetsNothing ==
  ASSUME ListingInv, WarningInv, [AnnouncementsNext]_allVars
  PROVE  NothingForgotten
<1>1. CASE SaveWarning
  <2>1. PICK b \in rows, r \in Bid : warning = <<b, r>> /\ StillWarns(b, r)
    BY <1>1 DEF SaveWarning, WarningInv
  <2>2. \A d \in BidId : bid'[d].isInstantBuy = bid[d].isInstantBuy
    BY <1>1, <2>1 DEF SaveWarning, StillWarns, ListingInv, TypeOK
  <2>3. /\ ~Bidding /\ rows' = rows /\ round' = round /\ status' = status
        /\ rows \subseteq BidId
    BY <1>1, <2>1 DEF SaveWarning, StillWarns, product, ListingInv, TypeOK
  <2> QED BY <2>2, <2>3 DEF NothingForgotten, AuctionBids, Bidding, Final
<1>2. CASE [Next]_vars \/ \E b \in rows : ReadForWarning(b)
  BY <1>2, ListingForgetsNothing DEF ReadForWarning
<1> QED BY <1>1, <1>2, StepKinds

(* A handler starts on notices that say what was not so before.            *)
Announces(q) ==
  /\ ToInsert(q)
  /\ inserting' = inserting \cup {q} /\ inbox' = inbox /\ swallowed' = swallowed
  /\ \A n \in NoticesIn(q) : ~Explained(n) /\ Explained(n)'

LEMMA EmitOne ==
  ASSUME NEW n, NEW framed, Emit(News(<<n>>, framed)),
         ~Explained(n), Explained(n)'
  PROVE  \E q : Announces(q)
<1>1. <<n>> # <<>> /\ News(<<n>>, framed).notices = <<n>>
  BY DEF News
<1>2. Announces(<<n>>)
  BY <1>1, OneNotice DEF Emit, Announces, told
<1> QED BY <1>2

LEMMA EmitTwo ==
  ASSUME NEW n, NEW m, n # m, NEW framed, Emit(News(<<n, m>>, framed)),
         ~Explained(n), ~Explained(m), Explained(n)', Explained(m)'
  PROVE  \E q : Announces(q)
<1>1. <<n, m>> # <<>> /\ News(<<n, m>>, framed).notices = <<n, m>>
  BY DEF News
<1>2. NoticesIn(<<n, m>>) = {n, m} /\ ToInsert(<<n, m>>)
  BY TwoNotices
<1>3. /\ inserting' = inserting \cup {<<n, m>>}
      /\ inbox' = inbox /\ swallowed' = swallowed
  BY <1>1 DEF Emit, told
<1>4. Announces(<<n, m>>)
  BY <1>2, <1>3 DEF Announces
<1> QED BY <1>4

LEMMA NoticeFields ==
  ASSUME NEW type, NEW user, NEW about
  PROVE  /\ Notice(type, user, about).type = type
         /\ Notice(type, user, about).user = user
         /\ Notice(type, user, about).about = about
  BY DEF Notice

LEMMA BidIsNews ==
  ASSUME ListingInv, NEW u \in Users, NEW amount \in 0..BiddingEndPrice,
         AnnouncedBid(u, amount)
  PROVE  \E q : Announces(q)
<1>1. /\ NewRow \notin AuctionBids /\ NewRow \in AuctionBids'
  <2>1. /\ NewRow \in BidId /\ NewRow \notin rows
        /\ rows' = rows \cup {NewRow}
        /\ bid' = [bid EXCEPT ![NewRow] =
                     [UnusedRow EXCEPT !.bidder = u, !.amount = amount]]
    BY NewRowIsFree DEF AnnouncedBid, PlaceBid, ListingInv, TypeOK
  <2>2. ~bid'[NewRow].isInstantBuy
    BY <2>1 DEF UnusedRow, ListingInv, TypeOK
  <2> QED BY <2>1, <2>2 DEF AuctionBids
<1>2. PICK n :
        /\ OnBidSubmitted(NewRow) = <<n>> /\ n.about = NewRow
        /\ n.type \in {"BID_PLACED_SELLER", "OUTBID"}
  BY NoticeFields DEF OnBidSubmitted
<1>3. Emit(News(<<n>>, TRUE))
  BY <1>2 DEF AnnouncedBid, BidSubmitted
<1>4. n.about \notin AuctionBids /\ n.about \in AuctionBids'
  BY <1>1, <1>2
<1>5. ~Explained(n)
  BY <1>2, <1>4 DEF Explained
<1>6. Explained(n)'
  BY <1>2, <1>4 DEF Explained
<1> QED BY <1>3, <1>5, <1>6, EmitOne

(* The close, a fallback and a confirmation each tell two users.           *)
LEMMA PairFields ==
  ASSUME NEW s, NEW type1, NEW type2, type1 # type2, NEW u1, NEW u2, NEW about,
         s = <<Notice(type1, u1, about), Notice(type2, u2, about)>>
  PROVE  \E n, m : /\ s = <<n, m>> /\ n # m
                   /\ n.type = type1 /\ n.about = about
                   /\ m.type = type2 /\ m.about = about
<1>1. /\ Notice(type1, u1, about).type = type1
      /\ Notice(type1, u1, about).about = about
      /\ Notice(type2, u2, about).type = type2
      /\ Notice(type2, u2, about).about = about
  BY NoticeFields
<1>2. Notice(type1, u1, about) # Notice(type2, u2, about)
  BY <1>1
<1> QED BY <1>1, <1>2, Zenon

LEMMA CloseIsNews ==
  ASSUME ListingInv, AnnouncedClose
  PROVE  \E q : Announces(q)
<1>1. Bidding /\ ~Bidding'
  BY DEF AnnouncedClose, CloseIfExpired, Due, Bidding
<1>2. PICK b, u : b = winningBid' /\ u = bid[b].bidder
  OBVIOUS
<1>3. PICK s : /\ Emit(News(s, TRUE))
               /\ s = <<Notice("AUCTION_WON", u, b),
                        Notice("AUCTION_CLOSED_SELLER", Owner, b)>>
  BY <1>2 DEF AnnouncedClose, AuctionClosed, OnAuctionClosed
<1>4. PICK n, m : /\ s = <<n, m>> /\ n # m
                  /\ n.type = "AUCTION_WON"
                  /\ m.type = "AUCTION_CLOSED_SELLER"
  BY <1>3, PairFields
<1>5. ~Explained(n) /\ ~Explained(m) /\ Explained(n)' /\ Explained(m)'
  BY <1>1, <1>4 DEF Explained
<1> QED BY <1>3, <1>4, <1>5, EmitTwo

LEMMA TransferIsNews ==
  ASSUME ListingInv, NEW b \in rows, NEW c \in rows, FallBack(b, c),
         Emit(WinTransferred(b, c))
  PROVE  \E q : Announces(q)
<1>1. AuctionInv /\ status = "AWAITING_PAYMENT" /\ ~Bidding /\ ~Bidding'
  BY DEF FallBack, Overdue, ListingInv, OpenInv, Final, AuctionInv, SaleInv,
         OneBuyerOwes, Bidding
<1>2. /\ c \in BidId /\ round[c] = "NONE"
  BY <1>1, NextTurn DEF AuctionInv, TypeOK, Turns
<1>3. round'[c] = "PENDING_PAYMENT"
  BY <1>2 DEF FallBack, ListingInv, TypeOK
<1>4. PICK u : u = bid[c].bidder
  OBVIOUS
<1>5. PICK s : /\ Emit(News(s, FALSE))
               /\ s = <<Notice("PAYMENT_FAILED_FALLBACK", u, c),
                        Notice("PAYMENT_FAILED_SELLER", Owner, c)>>
  BY <1>4 DEF WinTransferred, OnWinTransferred
<1>6. PICK n, m : /\ s = <<n, m>> /\ n # m
                  /\ n.type = "PAYMENT_FAILED_FALLBACK" /\ n.about = c
                  /\ m.type = "PAYMENT_FAILED_SELLER" /\ m.about = c
  BY <1>5, PairFields
<1>7. ~Explained(n) /\ ~Explained(m)
  BY <1>2, <1>6 DEF Explained
<1>8. Explained(n)' /\ Explained(m)'
  BY <1>1, <1>2, <1>3, <1>6 DEF Explained
<1> QED BY <1>5, <1>6, <1>7, <1>8, EmitTwo

LEMMA SettlementIsNews ==
  ASSUME ListingInv, NEW b \in rows, ~Final, Settle(b), Emit(AuctionSettled(b))
  PROVE  \E q : Announces(q)
<1>1. Final'
  BY DEF Settle, Final
<1>2. PICK u : u = bid[b].bidder
  OBVIOUS
<1>3. PICK s : /\ Emit(News(s, TRUE))
               /\ s = <<Notice("PAYMENT_CONFIRMED_SELLER", Owner, b),
                        Notice("PAYMENT_CONFIRMED_BUYER", u, b)>>
  BY <1>2 DEF AuctionSettled, OnAuctionSettled
<1>4. PICK n, m : /\ s = <<n, m>> /\ n # m
                  /\ n.type = "PAYMENT_CONFIRMED_SELLER"
                  /\ m.type = "PAYMENT_CONFIRMED_BUYER"
  BY <1>3, PairFields
<1>5. ~Explained(n) /\ ~Explained(m) /\ Explained(n)' /\ Explained(m)'
  BY <1>1, <1>4 DEF Explained
<1> QED BY <1>3, <1>4, <1>5, EmitTwo

LEMMA AbandonmentIsNews ==
  ASSUME status # "ABANDONED", status' = "ABANDONED", Emit(AuctionAbandoned)
  PROVE  \E q : Announces(q)
<1>1. PICK n : /\ AuctionAbandoned = News(<<n>>, FALSE)
               /\ n.type = "AUCTION_ABANDONED"
  <2>1. AuctionAbandoned
          = News(<<Notice("AUCTION_ABANDONED", Owner, TheProduct)>>, FALSE)
    BY DEF AuctionAbandoned
  <2>2. Notice("AUCTION_ABANDONED", Owner, TheProduct).type
          = "AUCTION_ABANDONED"
    BY NoticeFields
  <2> QED BY <2>1, <2>2, Zenon
<1>2. ~Explained(n) /\ Explained(n)'
  BY <1>1 DEF Explained
<1> QED BY <1>1, <1>2, EmitOne

LEMMA LapseIsNews ==
  ASSUME ListingInv, NEW b \in rows, ExpireHold(b), Emit(HoldLapsed(b))
  PROVE  \E q : Announces(q)
<1>1. /\ status = "AWAITING_INSTANT_BUY" /\ b \in Responsible
      /\ bid[b].isInstantBuy /\ b \in BidId
  BY DEF ExpireHold, Overdue, ListingInv, OpenInv, Final, AuctionInv, SaleInv,
         OneBuyerOwes, TypeOK
<1>2. Bidding /\ ~HadLapsedHold(bid[b].bidder)
  BY <1>1 DEF Bidding, ListingInv, OpenInv, Final, HoldInv
<1>3. PICK n : /\ HoldLapsed(b) = News(<<n>>, TRUE)
               /\ n.type = "INSTANT_BUY_EXPIRED" /\ n.user = bid[b].bidder
  <2>1. PICK u : u = bid[b].bidder
    OBVIOUS
  <2>2. HoldLapsed(b)
          = News(<<Notice("INSTANT_BUY_EXPIRED", u, TheProduct)>>, TRUE)
    BY <2>1 DEF HoldLapsed
  <2>3. /\ Notice("INSTANT_BUY_EXPIRED", u, TheProduct).type
             = "INSTANT_BUY_EXPIRED"
        /\ Notice("INSTANT_BUY_EXPIRED", u, TheProduct).user = u
    BY NoticeFields
  <2> QED BY <2>1, <2>2, <2>3, Zenon
<1>4. HadLapsedHold(n.user)'
  <2>1. bid'[b] = Expire(bid[b]) /\ b \in rows' /\ bid[b] \in Bid
    BY <1>1 DEF ExpireHold, ListingInv, TypeOK
  <2>2. /\ bid'[b].bidder = n.user /\ bid'[b].isInstantBuy
        /\ bid'[b].paymentStatus = "EXPIRED"
    BY <1>1, <1>3, <2>1 DEF Expire, Bid
  <2> QED BY <2>1, <2>2 DEF HadLapsedHold
<1>5. ~Explained(n) /\ Explained(n)'
  BY <1>2, <1>3, <1>4 DEF Explained
<1> QED BY <1>3, <1>5, EmitOne

LEMMA StepAnnounces ==
  ASSUME ListingInv, [AnnouncementsNext]_allVars
  PROVE  \/ \E q \in inserting : Insert(q) \/ InsertFails(q)
         \/ UNCHANGED <<inserting, inbox, swallowed>>
         \/ \E q : Announces(q)
<1>1. ASSUME NEW u \in Users, NEW amount \in 0..BiddingEndPrice,
             AnnouncedBid(u, amount)
      PROVE  \E q : Announces(q)
  BY <1>1, BidIsNews
<1>2. CASE CloseAllExpiredAuctions
  BY <1>2, CloseIsNews DEF CloseAllExpiredAuctions
<1>3. CASE ExpireAllOverdueInstantBuyHolds
  BY <1>3, LapseIsNews
  DEF ExpireAllOverdueInstantBuyHolds, AnnouncedHoldExpiry
<1>4. CASE ExpireAllOverduePaymentWindows
  <2>1. CASE AnnouncedTransfer
    BY <2>1, TransferIsNews DEF AnnouncedTransfer
  <2>2. CASE AnnouncedAbandonment
    BY <2>2, AbandonmentIsNews DEF AnnouncedAbandonment, Abandon, Overdue
  <2> QED BY <1>4, <2>1, <2>2 DEF ExpireAllOverduePaymentWindows
<1>5. ASSUME NEW b \in rows,
             AnnouncedManual(b) \/ AnnouncedCod(b) \/ AnnouncedGateway(b)
      PROVE  \E q : Announces(q)
  <2>1. ~Final /\ Settle(b) /\ Emit(AuctionSettled(b))
    BY <1>5 DEF AnnouncedManual, AnnouncedCod, AnnouncedGateway, Final,
                ConfirmPaymentManual, ConfirmCod, ConfirmPaymentGateway
  <2> QED BY <2>1, SettlementIsNews
<1>6. ASSUME NEW b \in rows, AnnouncedRefusal(b)
      PROVE  \E q : Announces(q)
  BY <1>6, AbandonmentIsNews
  DEF AnnouncedRefusal, AbandonAfterCodRefusal, Refusable
<1>7. CASE \/ \E u \in Users : AnnouncedHold(u)
           \/ \E b \in rows : AnnouncedRelease(b)
  BY <1>7 DEF AnnouncedHold, AnnouncedRelease, PausedOrResumed, News, Emit,
              told
<1>8. CASE \/ \E b \in rows : \/ ReadForWarning(b)
                              \/ Unannounced(CreateQrPayment(b))
           \/ Unannounced(ReportDelivered) \/ Unannounced(MarkCodCollected)
           \/ AnnouncedTick \/ SaveWarning \/ WarningFails
           \/ UNCHANGED allVars
  BY <1>8 DEF ReadForWarning, Unannounced, AnnouncedTick, SaveWarning,
              WarningFails, announcing, allVars, jobs, told
<1>9. CASE Handlers
  BY <1>9 DEF Handlers, ReadProduct, PushFrame, told
<1> QED BY <1>1, <1>2, <1>3, <1>4, <1>5, <1>6, <1>7, <1>8, <1>9
        DEF AnnouncementsNext

LEMMA NoticesInductive ==
  ASSUME ListingInv, WarningInv, NoticeInv, [AnnouncementsNext]_allVars
  PROVE  NoticeInv'
<1>1. NothingForgotten
  BY StepForgetsNothing
<1>2. CASE \E q \in inserting : Insert(q) \/ InsertFails(q)
  BY <1>2, InsertKeepsNotices, InsertFailsKeepsNotices
<1>3. CASE UNCHANGED <<inserting, inbox, swallowed>>
  BY <1>1, <1>3, ExplainedStays DEF NoticeInv
<1>4. ASSUME NEW q, Announces(q) PROVE NoticeInv'
  <2>1. \A n : Explained(n) => Explained(n)'
    BY <1>1, ExplainedStays
  <2> QED BY <1>4, <2>1, EmitKeepsNotices DEF Announces
<1> QED BY <1>2, <1>3, <1>4, StepAnnounces

(* No notice is ever refused as a duplicate: what is emitted is news to    *)
(* the listing, and the keys of two notices differ wherever their news do. *)
THEOREM NothingIsSwallowedAlways == AnnouncementsSpec => []NothingIsSwallowed
<1>1. AnnouncementsInit => NoticeInv
  BY DEF AnnouncementsInit, NoticeInv
<1>2. ListingInv /\ WarningInv /\ NoticeInv /\ [AnnouncementsNext]_allVars
        => NoticeInv'
  BY NoticesInductive
<1>3. NoticeInv => NothingIsSwallowed
  BY DEF NoticeInv, NothingIsSwallowed
<1> QED BY <1>1, <1>2, <1>3, WarnedListingHolds, PTL DEF AnnouncementsSpec

-----------------------------------------------------------------------------
(***************************************************************************)
(* What was proved of the listing alone and still holds beside its late    *)
(* warnings.                                                               *)
(***************************************************************************)
(* Until it is sold or given up, a listing is what it would be without     *)
(* warnings: one buyer owes, the highest bid is the one on record, and the *)
(* cascade is fair.                                                        *)
THEOREM WarningsLeaveTheAuctionAlone ==
  AnnouncementsSpec =>
    [](status \notin {"SETTLED", "ABANDONED"} =>
         OneBuyerOwes /\ HighestBidIsRecorded /\ CascadeIsFair)
<1>1. ListingInv =>
        (status \notin {"SETTLED", "ABANDONED"} =>
           OneBuyerOwes /\ HighestBidIsRecorded /\ CascadeIsFair)
  BY DEF ListingInv, OpenInv, Final, AuctionInv, SaleInv, CascadeInv
<1> QED BY <1>1, WarnedListingHolds, PTL

LEMMA WarnedRoundStep ==
  ASSUME ListingInv, [AnnouncementsNext]_allVars
  PROVE  RoundStep
<1>1. CASE SaveWarning \/ \E b \in rows : ReadForWarning(b)
  BY <1>1 DEF SaveWarning, ReadForWarning, RoundStep, vars, bidding
<1>2. CASE [Next]_vars /\ ~Final
  BY <1>2, RoundInvInductive DEF ListingInv, OpenInv, AuctionInv
<1>3. CASE [Next]_vars /\ Final
  <2>1. CASE \E b \in rows : AbandonAfterCodRefusal(b)
    BY <2>1 DEF AbandonAfterCodRefusal, RoundStep, ListingInv, TypeOK
  <2>2. CASE \/ ReportDelivered \/ MarkCodCollected \/ Tick
             \/ UNCHANGED vars
    BY <2>2 DEF ReportDelivered, MarkCodCollected, Tick, RoundStep, vars,
                bidding
  <2> QED BY <1>3, <2>1, <2>2, FinalSteps
<1> QED BY <1>1, <1>2, <1>3, StepKinds

(* Nor does a late warning bring back a round that was resolved, although  *)
(* it may put back the bid the round was for.                              *)
THEOREM RoundsStayResolved == AnnouncementsSpec => RoundIsResolvedOnce
<1>1. ListingInv /\ [AnnouncementsNext]_allVars => [RoundStep]_vars
  BY WarnedRoundStep
<1> QED BY <1>1, WarnedListingHolds, PTL
        DEF AnnouncementsSpec, RoundIsResolvedOnce, RoundStep

LEMMA WarnedOutcomeStep ==
  ASSUME ListingInv, [AnnouncementsNext]_allVars
  PROVE  OutcomeStep
<1>1. CASE SaveWarning \/ \E b \in rows : ReadForWarning(b)
  BY <1>1 DEF SaveWarning, ReadForWarning, OutcomeStep, vars, product
<1>2. CASE [Next]_vars /\ ~Final
  BY <1>2, OutcomeStepHolds DEF ListingInv, OpenInv, AuctionInv
<1>3. CASE [Next]_vars /\ Final
  BY <1>3, FinalKeepsBids DEF ListingInv, Final, OutcomeStep
<1> QED BY <1>1, <1>2, <1>3, StepKinds

(* The outcome of the lot is as final with warnings as without.            *)
THEOREM OutcomesStayFinal == AnnouncementsSpec => OutcomeIsFinal
<1>1. ListingInv /\ [AnnouncementsNext]_allVars => [OutcomeStep]_vars
  BY WarnedOutcomeStep
<1> QED BY <1>1, WarnedListingHolds, PTL
        DEF AnnouncementsSpec, OutcomeIsFinal, OutcomeStep
=============================================================================
