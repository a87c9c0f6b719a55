-------------------------- MODULE AuctionLifecycle --------------------------
(***************************************************************************)
(* One listing from its first bid to SETTLED or ABANDONED: the transitions *)
(* of AuctionLifecycleService together with BiddingService.placeBid and    *)
(* the two COD updates of PaymentsService.                                 *)
(*                                                                         *)
(* Every one of these methods runs in a transaction that first locks the   *)
(* product row (abandonAfterCodRefusal: the payment row, then the product) *)
(* and re-reads what it decides on under that lock, so each is one atomic  *)
(* action here.  What the callers do between such transactions (Fonepay    *)
(* calls, sockets, retries) is the subject of PaymentFlow.                 *)
(*                                                                         *)
(* Timestamps are kept as distances from now: `endsIn` is biddingEndsAt -  *)
(* now, `dueIn` the responsible bid's paymentDeadline - now, `heldFor` is  *)
(* now - placedAt of the hold bid.  `deadline <= now` reads `dueIn <= 0`.  *)
(***************************************************************************)
EXTENDS BidPricing, FiniteSets

CONSTANTS Users, Owner,          \* the owner is one of the users
          BidId,                 \* ids of the bids table: bounds its rows
          BiddingStartPrice, InstantBuyPrice, BiddingEndPrice,
          BiddingDuration,       \* BIDDING_DURATION_HOURS
          PaymentWindow,         \* PAYMENT_WINDOW_HOURS
          HoldWindow,            \* INSTANT_BUY_HOLD_SECONDS
          MaxLag,                \* how late a cron may be: bounds the clock
          NoUser, NoBid          \* null in product.currentHighestBidderId
                                 \* and product.winningBidId

ASSUME ListingAssumption ==
  /\ Owner \in Users
  /\ NoUser \notin Users
  /\ NoBid \notin BidId
  /\ BiddingStartPrice \in Nat \ {0}
  /\ InstantBuyPrice \in Nat \ {0}
  /\ BiddingEndPrice \in Nat \ {0}

ASSUME WindowAssumption ==
  /\ BiddingDuration \in Nat \ {0}
  /\ PaymentWindow \in Nat \ {0}
  /\ HoldWindow \in Nat \ {0}
  /\ MaxLag \in Nat

MAX_FALLBACK_RANK == 2

ProductStatus == {"AWAITING_FIRST_BID", "ACTIVE", "AWAITING_INSTANT_BUY",
                  "AWAITING_PAYMENT", "SETTLED", "ABANDONED"}
BidPaymentStatus == {"NOT_RESPONSIBLE", "PENDING", "CONFIRMED", "EXPIRED"}
SettlementStatus == {"PENDING_PAYMENT", "SETTLED", "EXPIRED"}

(***************************************************************************)
(* A row of bids.  A ProductSettlement row is always created for one bid   *)
(* and looked up by its bidId: `round` is the status of that row, "NONE"   *)
(* when there is none.  Its amount, winner and rank copy the bid's.        *)
(***************************************************************************)
Bid == [bidder: Users, amount: Nat, isInstantBuy: BOOLEAN,
        fallbackRank: 0..MAX_FALLBACK_RANK, responsible: BOOLEAN,
        paymentStatus: BidPaymentStatus]

VARIABLES
  status,                \* product.status
  currentHighestBid,     \* 0 for null
  currentHighestBidder,  \* product.currentHighestBidderId
  winningBid,            \* product.winningBidId
  settledAmount,         \* 0 for null
  rows,                  \* ids of the rows of bids
  bid,                   \* their contents
  round,                 \* the settlement round of each bid
  attempted,             \* rounds with a product_payments row
  endsIn, dueIn, heldFor,
  cod,                   \* status of the COD payment row, "NONE" without one
  delivered,             \* its delivery has a deliveredAt
  codRefusals,           \* users.codRefusalCount
  biddingTime            \* history: time spent ACTIVE, read by no action

product == <<status, currentHighestBid, currentHighestBidder, winningBid,
             settledAmount>>
bidding == <<rows, bid, round, attempted>>
clocks  == <<endsIn, dueIn, heldFor, biddingTime>>
codVars == <<cod, delivered, codRefusals>>
vars == <<product, bidding, clocks, codVars>>

UnusedRow == [bidder |-> Owner, amount |-> 0, isInstantBuy |-> FALSE,
              fallbackRank |-> 0, responsible |-> FALSE,
              paymentStatus |-> "NOT_RESPONSIBLE"]

TypeOK ==
  /\ status \in ProductStatus
  /\ currentHighestBid \in Nat
  /\ currentHighestBidder \in Users \cup {NoUser}
  /\ winningBid \in BidId \cup {NoBid}
  /\ settledAmount \in Nat
  /\ rows \subseteq BidId
  /\ bid \in [BidId -> Bid]
  /\ round \in [BidId -> SettlementStatus \cup {"NONE"}]
  /\ attempted \subseteq BidId
  /\ endsIn \in Int /\ dueIn \in Int /\ heldFor \in Nat
  /\ cod \in {"NONE", "COD_PENDING", "SUCCESS", "FAILED"}
  /\ delivered \in BOOLEAN
  /\ codRefusals \in [Users -> Nat]
  /\ biddingTime \in Nat

-----------------------------------------------------------------------------
AuctionBids == {b \in rows : ~bid[b].isInstantBuy}
Responsible == {b \in rows : bid[b].responsible}

(* ORDER BY amount DESC, placedAt ASC.  Two auction bids never have the    *)
(* same amount, each being above the highest, so placedAt decides nothing. *)
IsTop(b, S) == b \in S /\ \A c \in S : bid[c].amount <= bid[b].amount

(* The next free id of the table.                                          *)
NewRow == CHOOSE b \in BidId : b \notin rows

Init ==
  /\ status = "AWAITING_FIRST_BID"
  /\ currentHighestBid = 0
  /\ currentHighestBidder = NoUser
  /\ winningBid = NoBid
  /\ settledAmount = 0
  /\ rows = {}
  /\ bid = [b \in BidId |-> UnusedRow]
  /\ round = [b \in BidId |-> "NONE"]
  /\ attempted = {}
  /\ endsIn = 0 /\ dueIn = 0 /\ heldFor = 0
  /\ cod = "NONE"
  /\ delivered = FALSE
  /\ codRefusals = [u \in Users |-> 0]
  /\ biddingTime = 0

-----------------------------------------------------------------------------
(***************************************************************************)
(* BiddingService.placeBid.  It looks at the status but never at           *)
(* biddingEndsAt: only closeIfExpired does.  The checks on the bidder's    *)
(* phone and on the number of other products they bid on can only refuse   *)
(* the bid; they read nothing modelled here.                               *)
(***************************************************************************)
PlaceBid(u, amount) ==
  LET first == status = "AWAITING_FIRST_BID" IN
  /\ status \in {"AWAITING_FIRST_BID", "ACTIVE"}
  /\ u # Owner
  /\ u # currentHighestBidder
  /\ ValidBid(first, BiddingStartPrice, BiddingEndPrice, currentHighestBid,
              amount)
  /\ rows # BidId
  /\ rows' = rows \cup {NewRow}
  /\ bid' = [bid EXCEPT ![NewRow] =
               [UnusedRow EXCEPT !.bidder = u, !.amount = amount]]
  /\ status' = "ACTIVE"
  /\ endsIn' = IF first THEN BiddingDuration ELSE endsIn
  /\ currentHighestBid' = amount
  /\ currentHighestBidder' = u
  /\ UNCHANGED <<winningBid, settledAmount, round, attempted, dueIn, heldFor,
                 biddingTime, codVars>>

(***************************************************************************)
(* closeIfExpired: the timer or the price ceiling closes the auction, and  *)
(* the best auction bid gets the first payment window.                     *)
(***************************************************************************)
Due ==
  /\ status = "ACTIVE"
  /\ endsIn <= 0 \/ currentHighestBid >= BiddingEndPrice

CloseIfExpired ==
  /\ Due
  /\ \E b \in BidId :
       /\ IsTop(b, AuctionBids)
       /\ bid' = [bid EXCEPT ![b].fallbackRank = 0, ![b].responsible = TRUE,
                             ![b].paymentStatus = "PENDING"]
       /\ winningBid' = b
       /\ round' = [round EXCEPT ![b] = "PENDING_PAYMENT"]
  /\ status' = "AWAITING_PAYMENT"
  /\ dueIn' = PaymentWindow
  /\ UNCHANGED <<currentHighestBid, currentHighestBidder, settledAmount,
                 rows, attempted, endsIn, heldFor, biddingTime, codVars>>

(***************************************************************************)
(* startInstantBuyHold pauses bidding for a buyer at the fixed price.  It  *)
(* does not look at biddingEndsAt either.                                  *)
(***************************************************************************)
(* Mutant of HadLapsedHold: a buyer may hold the lot again and again.      *)
NeverLapsed(u) == FALSE

HadLapsedHold(u) == \E b \in rows : /\ bid[b].bidder = u
                                    /\ bid[b].isInstantBuy
                                    /\ bid[b].paymentStatus = "EXPIRED"

StartInstantBuyHold(u) ==
  /\ status \in {"AWAITING_FIRST_BID", "ACTIVE"}
  /\ u # Owner
  /\ (IF currentHighestBid = 0 THEN BiddingStartPrice ELSE currentHighestBid)
       < InstantBuyPrice
  /\ Responsible = {}
  /\ ~HadLapsedHold(u)
  /\ rows # BidId
  /\ rows' = rows \cup {NewRow}
  /\ bid' = [bid EXCEPT ![NewRow] =
               [bidder |-> u, amount |-> InstantBuyPrice,
                isInstantBuy |-> TRUE, fallbackRank |-> 0,
                responsible |-> TRUE, paymentStatus |-> "PENDING"]]
  /\ round' = [round EXCEPT ![NewRow] = "PENDING_PAYMENT"]
  /\ status' = "AWAITING_INSTANT_BUY"
  /\ dueIn' = HoldWindow
  /\ heldFor' = 0
  /\ UNCHANGED <<currentHighestBid, currentHighestBidder, winningBid,
                 settledAmount, attempted, endsIn, biddingTime, codVars>>

(***************************************************************************)
(* createQrPayment stores a payment row against the live round.  Here only *)
(* its existence matters: releaseInstantBuyHold and confirmPaymentGateway  *)
(* depend on it.                                                           *)
(***************************************************************************)
CreateQrPayment(b) ==
  /\ status \in {"AWAITING_PAYMENT", "AWAITING_INSTANT_BUY"}
  /\ b \in Responsible
  /\ round[b] = "PENDING_PAYMENT"
  /\ dueIn > 0
  /\ b \notin attempted
  /\ attempted' = attempted \cup {b}
  /\ UNCHANGED <<product, rows, bid, round, clocks, codVars>>

(***************************************************************************)
(* revertProductAfterFailedInstantBuyHold: bidding resumes where it was,   *)
(* with the time the hold took given back.                                 *)
(***************************************************************************)
(* Mutant of FrozenCountdown: the hold eats into the countdown.            *)
CountdownRanOn == endsIn

FrozenCountdown == endsIn + heldFor

RevertProductAfterFailedInstantBuyHold ==
  /\ IF AuctionBids # {}
     THEN /\ status' = "ACTIVE"
          /\ endsIn' = FrozenCountdown
     ELSE /\ status' = "AWAITING_FIRST_BID"
          /\ endsIn' = 0
  /\ heldFor' = 0
  /\ UNCHANGED <<currentHighestBid, currentHighestBidder, winningBid,
                 settledAmount>>

(***************************************************************************)
(* releaseInstantBuyHold aborts a hold without counting it against the     *)
(* buyer: the bid and its round are retired when a payment row refers to   *)
(* them and deleted otherwise.  With an argument (markFailed) only the     *)
(* hold of that round is released; without one (initiateInstantBuyPayment) *)
(* whichever hold is live.                                                 *)
(***************************************************************************)
DeleteHold(b) ==
  /\ rows' = rows \ {b}
  /\ bid' = [bid EXCEPT ![b] = UnusedRow]
  /\ round' = [round EXCEPT ![b] = "NONE"]

RetireHold(b) ==
  /\ bid' = [bid EXCEPT ![b].responsible = FALSE,
                        ![b].paymentStatus = "NOT_RESPONSIBLE"]
  /\ round' = [round EXCEPT ![b] = "EXPIRED"]
  /\ UNCHANGED rows

ReleaseInstantBuyHold(b) ==
  /\ status = "AWAITING_INSTANT_BUY"
  /\ b \in Responsible
  /\ bid[b].isInstantBuy
  /\ IF b \in attempted THEN RetireHold(b) ELSE DeleteHold(b)
  /\ RevertProductAfterFailedInstantBuyHold
  /\ dueIn' = 0
  /\ UNCHANGED <<attempted, biddingTime, codVars>>
-----------------------------------------------------------------------------
(***************************************************************************)
(* handlePaymentExpiry: the responsible bidder let the window run out.     *)
(* A lapsed hold reopens bidding (ExpireHold); otherwise the win moves to  *)
(* the best bid of a bidder who has not had a turn (FallBack), and with    *)
(* nobody left, or after three rounds, the lot is abandoned (Abandon).     *)
(***************************************************************************)
(* Mutant of Overdue: only holds lapse.                                    *)
OverdueHold(b) ==
  status = "AWAITING_INSTANT_BUY" /\ b \in Responsible /\ dueIn <= 0

Overdue(b) ==
  /\ status \in {"AWAITING_PAYMENT", "AWAITING_INSTANT_BUY"}
  /\ b \in Responsible
  /\ dueIn <= 0

(* Mutant of Expire: the bid stays responsible.                            *)
ExpireStatusOnly(row) == [row EXCEPT !.paymentStatus = "EXPIRED"]

Expire(row) == [row EXCEPT !.responsible = FALSE, !.paymentStatus = "EXPIRED"]

CloseRound(b) == IF round[b] = "NONE" THEN "NONE" ELSE "EXPIRED"

HadATurn(u) == \E b \in AuctionBids : /\ bid[b].bidder = u
                                      /\ bid[b].paymentStatus = "EXPIRED"

(* Mutants of Candidates: the next bid row rather than the next bidder;    *)
(* one fallback too few.                                                   *)
AnyOtherUntriedBid(b) ==
  IF bid[b].fallbackRank >= MAX_FALLBACK_RANK
  THEN {}
  ELSE {c \in AuctionBids \ {b} : bid[c].paymentStatus = "NOT_RESPONSIBLE"}

OneFallbackOnly(b) ==
  IF bid[b].fallbackRank >= 1
  THEN {}
  ELSE {c \in AuctionBids : /\ bid[c].paymentStatus = "NOT_RESPONSIBLE"
                            /\ bid[c].bidder # bid[b].bidder
                            /\ ~HadATurn(bid[c].bidder)}

(* The fallback candidates once bid b has been expired.                    *)
Candidates(b) ==
  IF bid[b].fallbackRank >= MAX_FALLBACK_RANK
  THEN {}
  ELSE {c \in AuctionBids : /\ bid[c].paymentStatus = "NOT_RESPONSIBLE"
                            /\ bid[c].bidder # bid[b].bidder
                            /\ ~HadATurn(bid[c].bidder)}

NextRank(b, c) == bid[b].fallbackRank + 1

ExpireHold(b) ==
  /\ Overdue(b)
  /\ bid[b].isInstantBuy
  /\ bid' = [bid EXCEPT ![b] = Expire(@)]
  /\ round' = [round EXCEPT ![b] = CloseRound(b)]
  /\ RevertProductAfterFailedInstantBuyHold
  /\ dueIn' = 0
  /\ UNCHANGED <<rows, attempted, biddingTime, codVars>>

FallBack(b, c) ==
  /\ Overdue(b)
  /\ ~bid[b].isInstantBuy
  /\ IsTop(c, Candidates(b))
  /\ bid' = [bid EXCEPT
               ![b] = Expire(@),
               ![c].fallbackRank = NextRank(b, c),
               ![c].responsible = TRUE,
               ![c].paymentStatus = "PENDING"]
  /\ round' = [round EXCEPT ![b] = CloseRound(b), ![c] = "PENDING_PAYMENT"]
  /\ winningBid' = c
  /\ dueIn' = PaymentWindow
  /\ UNCHANGED <<status, currentHighestBid, currentHighestBidder,
                 settledAmount, rows, attempted, endsIn, heldFor,
                 biddingTime, codVars>>

Abandon(b) ==
  /\ Overdue(b)
  /\ ~bid[b].isInstantBuy
  /\ Candidates(b) = {}
  /\ bid' = [bid EXCEPT ![b] = Expire(@)]
  /\ round' = [round EXCEPT ![b] = CloseRound(b)]
  /\ status' = "ABANDONED"
  /\ dueIn' = 0
  /\ UNCHANGED <<currentHighestBid, currentHighestBidder, winningBid,
                 settledAmount, rows, attempted, endsIn, heldFor,
                 biddingTime, codVars>>

HandlePaymentExpiry ==
  \E b \in rows : \/ ExpireHold(b)
                  \/ \E c \in rows : FallBack(b, c)
                  \/ Abandon(b)

-----------------------------------------------------------------------------
(***************************************************************************)
(* The writes the three confirmations share: the responsible bid wins,     *)
(* whatever the cascade did before, and every other bid is reset.          *)
(***************************************************************************)
(* Mutant of CleanFinalState: the other bids are left as they are.         *)
ConfirmOnly(b) == [bid EXCEPT ![b].paymentStatus = "CONFIRMED"]

CleanFinalState(b) ==
  [c \in BidId |->
     [bid[c] EXCEPT !.paymentStatus =
        IF c = b THEN "CONFIRMED" ELSE "NOT_RESPONSIBLE"]]

Settle(b) ==
  /\ bid' = CleanFinalState(b)
  /\ round[b] # "NONE"
  /\ round' = [round EXCEPT ![b] = "SETTLED"]
  /\ status' = "SETTLED"
  /\ winningBid' = b
  /\ settledAmount' = bid[b].amount
  /\ dueIn' = 0
  /\ UNCHANGED rows

(* The admin's confirmation looks neither at the deadline nor at how the   *)
(* bid came to be responsible; it stores a SUCCESS payment row.            *)
ConfirmPaymentManual(b) ==
  /\ status = "AWAITING_PAYMENT"
  /\ b \in Responsible
  /\ Settle(b)
  /\ attempted' = attempted \cup {b}
  /\ UNCHANGED <<currentHighestBid, currentHighestBidder, endsIn, heldFor,
                 biddingTime, codVars>>

ConfirmCod(u, b) ==
  /\ status = "AWAITING_PAYMENT"
  /\ b \in Responsible
  /\ bid[b].bidder = u
  /\ ~bid[b].isInstantBuy
  /\ dueIn > 0
  /\ Settle(b)
  /\ attempted' = attempted \cup {b}
  /\ cod' = "COD_PENDING"
  /\ UNCHANGED <<currentHighestBid, currentHighestBidder, endsIn, heldFor,
                 biddingTime, delivered, codRefusals>>

(* A Fonepay payment for round `expected` was reported paid.  The deadline *)
(* is not looked at.  An Instant Buy sale becomes the outcome of the       *)
(* auction only now.                                                       *)
ConfirmPaymentGateway(expected, b) ==
  /\ expected \in attempted
  /\ status \in {"AWAITING_PAYMENT", "AWAITING_INSTANT_BUY"}
  /\ b \in Responsible
  /\ expected = b
  /\ Settle(b)
  /\ IF bid[b].isInstantBuy
     THEN /\ currentHighestBid' = bid[b].amount
          /\ currentHighestBidder' = bid[b].bidder
          /\ endsIn' = 0
     ELSE UNCHANGED <<currentHighestBid, currentHighestBidder, endsIn>>
  /\ heldFor' = 0
  /\ UNCHANGED <<attempted, biddingTime, codVars>>

-----------------------------------------------------------------------------
(***************************************************************************)
(* After a cash-on-delivery sale: the courier reports the parcel delivered *)
(* (its poll looks at the delivery only), markCodCollected turns that into *)
(* a collected payment, abandonAfterCodRefusal unwinds the sale instead.   *)
(***************************************************************************)
ReportDelivered ==
  /\ cod # "NONE"
  /\ ~delivered
  /\ delivered' = TRUE
  /\ UNCHANGED <<product, bidding, clocks, cod, codRefusals>>

MarkCodCollected ==
  /\ delivered
  /\ cod = "COD_PENDING"
  /\ cod' = "SUCCESS"
  /\ UNCHANGED <<product, bidding, clocks, delivered, codRefusals>>

Refusable == cod = "COD_PENDING" /\ status = "SETTLED" /\ ~delivered

(* The COD payment belongs to the round of the bid that was confirmed.     *)
AbandonAfterCodRefusal(b) ==
  /\ Refusable
  /\ b \in rows
  /\ round[b] = "SETTLED"
  /\ cod' = "FAILED"
  /\ round' = [round EXCEPT ![b] = "EXPIRED"]
  /\ bid' = [bid EXCEPT ![b].paymentStatus = "EXPIRED"]
  /\ status' = "ABANDONED"
  /\ settledAmount' = 0
  /\ codRefusals' = [codRefusals EXCEPT ![bid[b].bidder] = @ + 1]
  /\ UNCHANGED <<currentHighestBid, currentHighestBidder, winningBid, rows,
                 attempted, clocks, delivered>>

-----------------------------------------------------------------------------
(***************************************************************************)
(* Time passes.  A timestamp that no transition reads any more (the timer  *)
(* of a closed auction, the deadline of a resolved round) is not aged.     *)
(***************************************************************************)
TimerRuns == status \in {"ACTIVE", "AWAITING_INSTANT_BUY"} /\ AuctionBids # {}
DeadlineRuns == status \in {"AWAITING_PAYMENT", "AWAITING_INSTANT_BUY"}

Tick ==
  /\ status = "ACTIVE" => endsIn > -MaxLag
  /\ DeadlineRuns => dueIn > -MaxLag
  /\ endsIn' = IF TimerRuns THEN endsIn - 1 ELSE endsIn
  /\ dueIn' = IF DeadlineRuns THEN dueIn - 1 ELSE dueIn
  /\ heldFor' = IF status = "AWAITING_INSTANT_BUY" THEN heldFor + 1 ELSE heldFor
  /\ biddingTime' = IF status = "ACTIVE" THEN biddingTime + 1 ELSE biddingTime
  /\ UNCHANGED <<product, bidding, codVars>>

Next ==
  \/ \E u \in Users : \E amount \in 0..BiddingEndPrice : PlaceBid(u, amount)
  \/ CloseIfExpired
  \/ \E u \in Users : StartInstantBuyHold(u)
  \/ \E b \in rows : \/ CreateQrPayment(b)
                     \/ ReleaseInstantBuyHold(b)
                     \/ ConfirmPaymentManual(b)
                     \/ \E u \in Users : ConfirmCod(u, b)
                     \/ \E s \in attempted : ConfirmPaymentGateway(s, b)
                     \/ AbandonAfterCodRefusal(b)
  \/ HandlePaymentExpiry
  \/ ReportDelivered
  \/ MarkCodCollected
  \/ Tick

Spec == Init /\ [][Next]_vars

-----------------------------------------------------------------------------
(* The rounds of the fallback cascade, and their order in it.              *)
Turns == {b \in AuctionBids : round[b] # "NONE"}
Outranks(b, c) == bid[b].amount > bid[c].amount

(* Exactly the status says who owes money: nobody while bidding is open,   *)
(* the hold's buyer while it is paused, the current winner while payment   *)
(* is awaited, the buyer once sold.  A live round belongs to the           *)
(* responsible bid and to no other.  The partial unique indexes of bids    *)
(* and product_settlements allow one live row each; nothing in the schema  *)
(* makes the two agree with each other and with the status.                *)
OneBuyerOwes ==
  /\ \A b, c \in Responsible : b = c
  /\ \A b \in BidId :
       round[b] = "PENDING_PAYMENT" <=>
         b \in Responsible /\ bid[b].paymentStatus = "PENDING"
  /\ status \in {"AWAITING_FIRST_BID", "ACTIVE"} => Responsible = {}
  /\ status = "AWAITING_INSTANT_BUY" =>
       \E b \in Responsible : /\ bid[b].isInstantBuy
                              /\ bid[b].paymentStatus = "PENDING"
  /\ status = "AWAITING_PAYMENT" =>
       /\ Responsible = {winningBid}
       /\ bid[winningBid].paymentStatus = "PENDING"
       /\ ~bid[winningBid].isInstantBuy
  /\ status = "ABANDONED" =>
       \A b \in Responsible : bid[b].paymentStatus = "EXPIRED"

(* Holds come and go without touching the record of the auction: what the  *)
(* product shows as its highest bid is the best auction bid in the table,  *)
(* and no two auction bids tie.  Only a paid Instant Buy replaces it.      *)
HighestBidIsRecorded ==
  /\ \A b, c \in AuctionBids : bid[b].amount = bid[c].amount => b = c
  /\ IF status = "SETTLED" /\ bid[winningBid].isInstantBuy
     THEN /\ currentHighestBid = bid[winningBid].amount
          /\ currentHighestBidder = bid[winningBid].bidder
     ELSE IF AuctionBids = {}
     THEN currentHighestBid = 0 /\ currentHighestBidder = NoUser
     ELSE \E b \in AuctionBids : /\ IsTop(b, AuctionBids)
                                 /\ bid[b].amount = currentHighestBid
                                 /\ bid[b].bidder = currentHighestBidder

(* The cascade of handlePaymentExpiry: each bidder gets one turn, with     *)
(* their best bid; the ranks count the turns from the top without gaps;    *)
(* nobody with a better bid is passed over, and a lapsed or declined       *)
(* Instant Buy hold of theirs does not cost a bidder their turn (A53).     *)
CascadeIsFair ==
  \A b \in Turns :
    /\ bid[b].fallbackRank = Cardinality({c \in Turns : Outranks(c, b)})
    /\ \A c \in Turns : bid[b].bidder = bid[c].bidder => b = c
    /\ \A c \in AuctionBids :
         Outranks(c, b) =>
           \E d \in Turns : /\ bid[d].bidder = bid[c].bidder
                            /\ bid[d].bidder # bid[b].bidder
                            /\ ~Outranks(c, d)

(* A lot is given up for want of payment only when every bidder has had a  *)
(* turn or three of them have.                                             *)
AbandonedOnlyWhenExhausted ==
  (status = "ABANDONED" /\ cod = "NONE") =>
    \/ Cardinality(Turns) = MAX_FALLBACK_RANK + 1
    \/ \A c \in AuctionBids : \E b \in Turns : bid[b].bidder = bid[c].bidder

(* A sold lot tells one story: the winning bid is the one that was paid    *)
(* (A26), at the amount on record, its round is the only settled one, and  *)
(* no other bid is left owing or confirmed.                                *)
SaleIsConsistent ==
  /\ status = "SETTLED" =>
       /\ Responsible = {winningBid}
       /\ bid[winningBid].paymentStatus = "CONFIRMED"
       /\ settledAmount = bid[winningBid].amount
       /\ round[winningBid] = "SETTLED"
       /\ \A b \in rows \ {winningBid} :
            bid[b].paymentStatus = "NOT_RESPONSIBLE"
  /\ \A b \in BidId : round[b] = "SETTLED" => b = winningBid
  /\ status # "SETTLED" =>
       /\ settledAmount = 0
       /\ \A b \in BidId : round[b] # "SETTLED"
       /\ winningBid # NoBid => ~bid[winningBid].isInstantBuy

(* A round somebody tried to pay is never deleted (product_payments refers *)
(* to product_settlements with ON DELETE RESTRICT: the release would       *)
(* fail), and its bid keeps the amount that was charged.                   *)
AttemptKeepsItsRound ==
  \A b \in attempted : b \in rows /\ round[b] # "NONE"

(* A sale and an abandonment are final, but for a refused parcel; bidding  *)
(* never reopens once a winner was declared.                               *)
OutcomeIsFinal ==
  [][/\ status = "ABANDONED" => status' = "ABANDONED"
     /\ status = "SETTLED" =>
          \/ status' = "SETTLED" /\ winningBid' = winningBid
          \/ status' = "ABANDONED" /\ cod' = "FAILED"
     /\ status = "AWAITING_PAYMENT" =>
          status' \in {"AWAITING_PAYMENT", "SETTLED", "ABANDONED"}]_vars

(* A round is resolved once.  Only a refused parcel undoes a settled one,  *)
(* and an expired one never comes back to life: a buyer who pays late is   *)
(* refunded, not handed the lot.                                           *)
RoundIsResolvedOnce ==
  [][\A b \in BidId :
       round'[b] # round[b] =>
         \/ round[b] = "NONE" /\ round'[b] = "PENDING_PAYMENT"
         \/ round[b] = "PENDING_PAYMENT" /\ round'[b] \in {"EXPIRED", "SETTLED"}
         \/ /\ round[b] = "PENDING_PAYMENT" /\ round'[b] = "NONE"
            /\ bid[b].isInstantBuy
         \/ round[b] = "SETTLED" /\ round'[b] = "EXPIRED" /\ cod' = "FAILED"]_vars

(* The countdown is frozen while a hold is live: an auction that the timer *)
(* closes has been open to bids for BIDDING_DURATION_HOURS, no less however*)
(* many holds interrupted it, and no more than the lag of the cron.        *)
FullBiddingTime ==
  [][(/\ status = "ACTIVE" /\ status' = "AWAITING_PAYMENT"
      /\ currentHighestBid < BiddingEndPrice)
       => biddingTime \in BiddingDuration .. BiddingDuration + MaxLag]_vars

-----------------------------------------------------------------------------
(* A lot waiting for payment is sold or given up: every cascade ends.      *)
AwaitedPaymentIsResolved ==
  status = "AWAITING_PAYMENT" ~> status \in {"SETTLED", "ABANDONED"}

(* An auction whose time is up or whose ceiling is reached is closed, even *)
(* if holds keep being started on it.                                      *)
DueAuctionCloses ==
  (status = "ACTIVE" /\ (endsIn <= 0 \/ currentHighestBid >= BiddingEndPrice))
    ~> status \in {"AWAITING_PAYMENT", "SETTLED", "ABANDONED"}
=============================================================================
