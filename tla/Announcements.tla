---------------------------- MODULE Announcements ----------------------------
(***************************************************************************)
(* What the rest of the program is told of a listing, composed with the    *)
(* listing itself: after its transaction committed, each transition of     *)
(* AuctionLifecycle goes through a post-commit section that awaits emails, *)
(* logs what goes wrong with them, and then emits an event.  The handlers  *)
(* of the event run on their own, any time later, so the wait for the      *)
(* emails needs no state of its own.                                       *)
(* One kind inserts notifications, idempotent on the unique index          *)
(* (userId, type, relatedId); the other, AuctionBroadcastService, reads    *)
(* the product, then its bids, and pushes a frame to the live page.        *)
(*                                                                         *)
(* All this lives in the memory of the one process: a restart loses it and *)
(* nothing replays it.  There is no restart here: every promise below is   *)
(* one of a process that keeps running.                                    *)
(***************************************************************************)
EXTENDS AuctionLifecycle, Sequences, Bags

CONSTANTS
  MaxJobs,     \* bounds the handlers under way: a user's request waits for
               \* room, the cron never does
  MaxUntold    \* bounds the notices lost before another handler may fail

VARIABLES
  inserting,   \* notification handlers: the notices they still insert
  unread,      \* broadcasts that have not read the product yet
  reading,     \* those that have: the price each read
  inbox,       \* rows of notifications
  swallowed,   \* history: notices the unique index refused
  untold,      \* history: notices lost when their handler failed
  warning,     \* the bid being warned, as the hourly cron read it, or none
  warned       \* bids with a paymentWarningSentAt

jobs == <<inserting, unread, reading>>
told == <<inbox, swallowed, untold>>
warnings == <<warning, warned>>
announcing == <<jobs, told, warnings>>
allVars == <<vars, announcing>>

(* What is emitted: the notifications due, and whether a handler broadcasts. *)
News(notices, framed) == [notices |-> notices, framed |-> framed]

(* relatedId is a bid, or the product: NoBid stands for that.              *)
Notice(type, user, about) == [type |-> type, user |-> user, about |-> about]
TheProduct == NoBid

Busy == Cardinality(inserting) + unread + BagCardinality(reading)
          + (IF warning = <<>> THEN 0 ELSE 1)

AnnouncementsInit ==
  /\ Init
  /\ inserting = {} /\ unread = 0 /\ reading = EmptyBag
  /\ inbox = {} /\ swallowed = {} /\ untold = {}
  /\ warning = <<>> /\ warned = {}

-----------------------------------------------------------------------------
(* The notifications each event's handler inserts, in order.               *)
OnBidSubmitted(b) ==
  IF status = "AWAITING_FIRST_BID"
  THEN <<Notice("BID_PLACED_SELLER", Owner, b)>>
  ELSE <<Notice("OUTBID", currentHighestBidder, b)>>

OnAuctionClosed(b) == <<Notice("AUCTION_WON", bid[b].bidder, b),
                        Notice("AUCTION_CLOSED_SELLER", Owner, b)>>

(* Mutant of OnWinTransferred: tells the bidder who failed to pay.         *)
ToTheDefaulter(b, c) == <<Notice("PAYMENT_FAILED_FALLBACK", bid[b].bidder, c),
                          Notice("PAYMENT_FAILED_SELLER", Owner, c)>>

OnWinTransferred(b, c) == <<Notice("PAYMENT_FAILED_FALLBACK", bid[c].bidder, c),
                            Notice("PAYMENT_FAILED_SELLER", Owner, c)>>

OnAuctionSettled(b) ==
  <<Notice("PAYMENT_CONFIRMED_SELLER", Owner, b),
    Notice("PAYMENT_CONFIRMED_BUYER", bid[b].bidder, b)>>

(* The events.  For a transfer the live page gets a typed event instead of *)
(* a frame.                                                                *)
BidSubmitted(b) == News(OnBidSubmitted(b), TRUE)
AuctionClosed(b) == News(OnAuctionClosed(b), TRUE)
WinTransferred(b, c) == News(OnWinTransferred(b, c), FALSE)
AuctionSettled(b) == News(OnAuctionSettled(b), TRUE)
PausedOrResumed == News(<<>>, TRUE)

(* No event exists for an abandonment: its section inserts the notice      *)
(* itself and nothing is broadcast.                                        *)
AuctionAbandoned ==
  News(<<Notice("AUCTION_ABANDONED", Owner, TheProduct)>>, FALSE)

HoldLapsed(b) ==
  News(<<Notice("INSTANT_BUY_EXPIRED", bid[b].bidder, TheProduct)>>, TRUE)

-----------------------------------------------------------------------------
(* A transaction committed: what its post-commit section starts.           *)
Emit(s) ==
  /\ inserting' = IF s.notices = <<>> THEN inserting
                  ELSE inserting \cup {s.notices}
  /\ unread' = IF s.framed THEN unread + 1 ELSE unread
  /\ UNCHANGED <<reading, told, warnings>>

Room == Busy < MaxJobs

AnnouncedBid(u, amount) ==
  Room /\ PlaceBid(u, amount) /\ Emit(BidSubmitted(NewRow))

AnnouncedClose == CloseIfExpired /\ Emit(AuctionClosed(winningBid'))

AnnouncedHold(u) ==
  Room /\ StartInstantBuyHold(u) /\ Emit(PausedOrResumed)

AnnouncedRelease(b) ==
  Room /\ ReleaseInstantBuyHold(b) /\ Emit(PausedOrResumed)

AnnouncedManual(b) ==
  Room /\ ConfirmPaymentManual(b) /\ Emit(AuctionSettled(b))

AnnouncedCod(b) ==
  /\ Room /\ Emit(AuctionSettled(b))
  /\ \E u \in Users : ConfirmCod(u, b)

AnnouncedGateway(b) ==
  /\ Room /\ Emit(AuctionSettled(b))
  /\ \E s \in attempted : ConfirmPaymentGateway(s, b)

AnnouncedRefusal(b) ==
  Room /\ AbandonAfterCodRefusal(b) /\ Emit(AuctionAbandoned)

AnnouncedHoldExpiry ==
  \E b \in rows : ExpireHold(b) /\ Emit(HoldLapsed(b))

AnnouncedTransfer ==
  \E b, c \in rows : FallBack(b, c) /\ Emit(WinTransferred(b, c))

AnnouncedAbandonment ==
  \E b \in rows : Abandon(b) /\ Emit(AuctionAbandoned)

(* The sweeps of the cron, over the one lot there is.                      *)
CloseAllExpiredAuctions == AnnouncedClose
ExpireAllOverdueInstantBuyHolds == AnnouncedHoldExpiry
ExpireAllOverduePaymentWindows == AnnouncedTransfer \/ AnnouncedAbandonment

Unannounced(A) == A /\ UNCHANGED announcing

-----------------------------------------------------------------------------
(* createForUser: a duplicate is taken for a replay and dropped silently.  *)
Insert(q) ==
  /\ q \in inserting
  /\ IF Head(q) \in inbox
     THEN swallowed' = swallowed \cup {Head(q)} /\ UNCHANGED inbox
     ELSE inbox' = inbox \cup {Head(q)} /\ UNCHANGED swallowed
  /\ inserting' = (inserting \ {q}) \cup
                    (IF Tail(q) = <<>> THEN {} ELSE {Tail(q)})
  /\ UNCHANGED <<vars, unread, reading, untold, warnings>>

NoticesIn(q) == {q[i] : i \in DOMAIN q}

(* It fails, before its row is committed or after: the handler logs the    *)
(* error and throws it on to nobody, and what it still had to insert is    *)
(* lost.                                                                   *)
InsertFails(q) ==
  /\ q \in inserting /\ Cardinality(untold) < MaxUntold
  /\ inserting' = inserting \ {q}
  /\ inbox' \in {inbox, inbox \cup {Head(q)}}
  /\ untold' = untold \cup (NoticesIn(q) \ inbox')
  /\ UNCHANGED <<vars, unread, reading, swallowed, warnings>>

(* PUBLIC_BID_CONDITION: an Instant Buy bid counts only once it is paid.   *)
(* Mutant: every bid row is shown.                                         *)
EveryBid == rows

PublicBids == {b \in rows : ~bid[b].isInstantBuy \/ b = winningBid}

(* buildPayload reads the product first, the leaderboard, the feed and the *)
(* counts after it.                                                        *)
ReadProduct ==
  /\ unread > 0
  /\ unread' = unread - 1
  /\ reading' = reading (+) SetToBag({currentHighestBid})
  /\ UNCHANGED <<vars, inserting, told, warnings>>

Leader == CHOOSE b \in PublicBids : IsTop(b, PublicBids)

Payload(price) ==
  [highest |-> price,
   top |-> IF PublicBids = {} THEN 0 ELSE bid[Leader].amount,
   byInstantBuy |-> PublicBids # {} /\ bid[Leader].isInstantBuy]

(* The frame, Payload(price), goes to whoever watches; nothing keeps it.   *)
PushFrame(price) ==
  /\ BagIn(price, reading)
  /\ reading' = reading (-) SetToBag({price})
  /\ UNCHANGED <<vars, inserting, unread, told, warnings>>

-----------------------------------------------------------------------------
(* sendPaymentWarnings, hourly: about two hours before the deadline it     *)
(* reads the bid, awaits an email, and saves the bid as it was read with   *)
(* the warning marked on it.  (The notice that goes with the email is      *)
(* keyed by the bid, so that a retry repeats nothing; it is left out.)     *)
(* The save selects the row and then updates the columns that differ:      *)
(* either the bid is still pending then and only the warning is written,   *)
(* or it is not, and its payment status is put back with all that goes     *)
(* with it.                                                                *)
(* That no handler is under way when it starts is a bound of the model.    *)
ReadForWarning(b) ==
  /\ Busy = 0
  /\ b \in Responsible /\ ~bid[b].isInstantBuy
  /\ bid[b].paymentStatus = "PENDING"
  /\ dueIn > 0
  /\ b \notin warned
  /\ warning' = <<b, bid[b]>>
  /\ UNCHANGED <<vars, jobs, told, warned>>

(* Mutant of ResponsibleElsewhere: without the partial unique index.       *)
NoIndex(b) == FALSE

(* The partial unique index on the responsible bid refuses the save.       *)
ResponsibleElsewhere(b) == Responsible \ {b} # {}

SaveWarning ==
  /\ warning # <<>>
  /\ LET b == warning[1] IN
       \/ ResponsibleElsewhere(b) /\ UNCHANGED <<bid, warned>>
       \/ warned' = warned \cup {b} /\ UNCHANGED bid
       \/ /\ ~ResponsibleElsewhere(b)
          /\ bid' = [bid EXCEPT ![b] = warning[2]]
          /\ warned' = warned \cup {b}
  /\ warning' = <<>>
  /\ UNCHANGED <<product, rows, round, attempted, clocks, codVars, jobs, told>>

(* The email was not sent: the bid is not saved.                           *)
WarningFails ==
  /\ warning # <<>>
  /\ warning' = <<>>
  /\ UNCHANGED <<vars, jobs, told, warned>>

-----------------------------------------------------------------------------
AnnouncedTick == Room /\ Unannounced(Tick)

Handlers ==
  \/ \E q \in inserting : Insert(q) \/ InsertFails(q)
  \/ ReadProduct
  \/ \E price \in DOMAIN reading : PushFrame(price)

AnnouncementsNext ==
  \/ \E u \in Users : \/ \E amount \in 0..BiddingEndPrice :
                           AnnouncedBid(u, amount)
                      \/ AnnouncedHold(u)
  \/ CloseAllExpiredAuctions
  \/ ExpireAllOverdueInstantBuyHolds
  \/ ExpireAllOverduePaymentWindows
  \/ \E b \in rows : \/ AnnouncedRelease(b)
                     \/ AnnouncedManual(b)
                     \/ AnnouncedCod(b)
                     \/ AnnouncedGateway(b)
                     \/ AnnouncedRefusal(b)
                     \/ ReadForWarning(b)
                     \/ Unannounced(CreateQrPayment(b))
  \/ Unannounced(ReportDelivered)
  \/ Unannounced(MarkCodCollected)
  \/ AnnouncedTick
  \/ Handlers
  \/ SaveWarning
  \/ WarningFails

(* Mutant of AnnouncementsFairness: the cron leaves closing to the users.  *)
NobodyCloses ==
  /\ SF_allVars(AnnouncedTick)
  /\ WF_allVars(ExpireAllOverdueInstantBuyHolds)
  /\ WF_allVars(ExpireAllOverduePaymentWindows)
  /\ WF_allVars(Handlers)

(* AuctionLifecycleCron runs closeAllExpiredAuctions and the two expiry    *)
(* sweeps for ever, time passes, and the event loop runs what it was given. *)
(* Nothing a user, an admin, Fonepay or the courier does is fair.  The     *)
(* close is strongly fair: holds that start and fail for ever would have   *)
(* to be live at every single cron run to keep it from firing.  So is      *)
(* time, which only the bound on the handlers can stop.                    *)
AnnouncementsFairness ==
  /\ SF_allVars(AnnouncedTick)
  /\ SF_allVars(CloseAllExpiredAuctions)
  /\ WF_allVars(ExpireAllOverdueInstantBuyHolds)
  /\ WF_allVars(ExpireAllOverduePaymentWindows)
  /\ WF_allVars(Handlers)

AnnouncementsSpec ==
  AnnouncementsInit /\ [][AnnouncementsNext]_allVars /\ AnnouncementsFairness

-----------------------------------------------------------------------------
(* Nothing is ever announced twice: events are emitted once and never      *)
(* replayed, so a notice the unique index refuses is news somebody never   *)
(* gets.  The keys are fine enough only because of rules elsewhere: a      *)
(* bidder whose Instant Buy window lapsed gets no second one (its notice   *)
(* is keyed by the product), each bid has at most one turn, and a lot is   *)
(* abandoned once.                                                         *)
NothingIsSwallowed == swallowed = {}

(* A frame hangs together although it is put together from separate reads: *)
(* its leaderboard is never behind the price it shows, and an Instant Buy  *)
(* hold leads it only once the hold was paid and the lot sold.             *)
FramesHangTogether ==
  \A price \in DOMAIN reading :
    /\ Payload(price).highest <= Payload(price).top
    /\ Payload(price).byInstantBuy => status = "SETTLED"

(* A warning saves what it read before its email went out, so it may put   *)
(* back a bid that was confirmed or expired meanwhile.  It never costs the *)
(* auction its one payer: nobody else is made responsible while a payment  *)
(* is awaited, and the bid that is awaited stays pending.                  *)
LateWarningAddsNoPayer ==
  /\ \A b, c \in Responsible : b = c
  /\ status = "AWAITING_PAYMENT" =>
       Responsible = {winningBid} /\ bid[winningBid].paymentStatus = "PENDING"

(* Whoever comes to owe money for a lot they won is told so, in their      *)
(* inbox and about that bid, unless the insert of that very notice fails.  *)
WinnerIsTold ==
  \A b \in BidId :
    (status = "AWAITING_PAYMENT" /\ b \in Responsible)
      ~> \E n \in inbox \cup untold :
           /\ n.about = b /\ n.user = bid[b].bidder
           /\ n.type \in {"AUCTION_WON", "PAYMENT_FAILED_FALLBACK"}
=============================================================================
