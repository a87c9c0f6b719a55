---------------------------- MODULE PaymentFlow -----------------------------
(***************************************************************************)
(* Paying for one lot: what PaymentsService does around the transactions   *)
(* of AuctionLifecycle.  Its methods await Fonepay and the database        *)
(* between the row they read and the row they write, several of them run   *)
(* at once (requests, socket messages, crons, event handlers), and the     *)
(* process may stop between any two awaits.                                *)
(*                                                                         *)
(* The lot is reduced to its status and its settlement rounds, numbered in *)
(* the order they are opened; each belongs to a buyer of its own.  A       *)
(* `thread` is one method call in progress: `at` is what it does next, on  *)
(* the payment row `pay` or for the round `round`.                         *)
(*                                                                         *)
(* Fonepay is external: an attempt is pending until the buyer pays it or   *)
(* the bank declines it, for good; a QR stays payable after its window.    *)
(***************************************************************************)
EXTENDS Naturals, FiniteSets

CONSTANTS Threads,
          MaxRound, MaxPayment, MaxCrashes   \* bounds of the instance

ASSUME BoundsAssumption ==
  MaxRound \in Nat /\ MaxPayment \in Nat /\ MaxCrashes \in Nat

Round == 1..MaxRound
Payment == 1..MaxPayment

LotStatus == {"ACTIVE", "AWAITING_INSTANT_BUY", "AWAITING_PAYMENT",
              "SETTLED", "ABANDONED"}
PaymentStatus == {"PENDING", "COD_PENDING", "SUCCESS", "FAILED", "EXPIRED"}
PaymentMethod == {"FONEPAY", "COD", "ADMIN"}

VARIABLES
  status,        \* product.status
  opened,        \* number of settlement rounds created so far
  live,          \* the round of the responsible bid, 0 for none
  overdue,       \* rounds whose paymentDeadline has passed
  confirmedBy,   \* paymentConfirmationMethod of the winning bid
  payments,      \* ids of the rows of product_payments
  payment,       \* their contents
  gateway,       \* Fonepay's verdict on each attempt
  listening,     \* attempts retired with their socket still open
  thread,        \* the method calls in progress
  resumed,       \* AUCTION_RESUMED events not yet handled, by round
  sold,          \* PAYMENT_SUCCEEDED / COD_CONFIRMED events, by payment
  deliveries,    \* payments with a product_deliveries row
  crashes        \* bounds the number of restarts

lot == <<status, opened, live, overdue, confirmedBy>>
attempts == <<payments, payment, gateway, listening>>
parcel == <<sold, deliveries>>
vars == <<lot, attempts, thread, resumed, parcel, crashes>>

Stage == {"idle", "generateQr", "generateHoldQr", "releaseAnyHold", "confirmSuccess",
          "confirmGateway", "checkOthers", "flagForRefund", "markSuccess",
          "markFailed", "failPending", "failOther", "releaseHold", "expire",
          "confirmCod"}

TypeOK ==
  /\ status \in LotStatus
  /\ opened \in 0..MaxRound
  /\ live \in 0..opened
  /\ overdue \subseteq Round
  /\ confirmedBy \in {"NONE", "BANK_API", "COD", "ADMIN_MANUAL"}
  /\ payments \subseteq Payment
  /\ payment \in [Payment -> [round: 0..MaxRound, status: PaymentStatus,
                              method: PaymentMethod]]
  /\ gateway \in [Payment -> {"none", "pending", "success", "failed"}]
  /\ thread \in [Threads -> [at: Stage, pay: 0..MaxPayment,
                             round: 0..MaxRound]]
  /\ listening \subseteq Payment
  /\ resumed \subseteq Round
  /\ sold \subseteq Payment /\ deliveries \subseteq Payment
  /\ crashes \in 0..MaxCrashes

Idle == [at |-> "idle", pay |-> 0, round |-> 0]
UnusedPayment == [round |-> 0, status |-> "FAILED", method |-> "FONEPAY"]

Init ==
  /\ status = "ACTIVE"
  /\ opened = 0 /\ live = 0
  /\ overdue = {}
  /\ confirmedBy = "NONE"
  /\ payments = {}
  /\ payment = [p \in Payment |-> UnusedPayment]
  /\ gateway = [p \in Payment |-> "none"]
  /\ thread = [t \in Threads |-> Idle]
  /\ listening = {} /\ resumed = {}
  /\ sold = {} /\ deliveries = {}
  /\ crashes = 0

-----------------------------------------------------------------------------
Free(t) == thread[t].at = "idle"
At(t, stage) == thread[t].at = stage
Return(t) == thread' = [thread EXCEPT ![t] = Idle]
Proceed(t, stage) == thread' = [thread EXCEPT ![t].at = stage]
CallOn(t, stage, p) ==
  thread' = [thread EXCEPT ![t] = [at |-> stage, pay |-> p,
                                   round |-> payment[p].round]]

With(s) == {p \in payments : payment[p].status = s}
OfRound(r) == {p \in payments : payment[p].round = r}
NewPayment == Cardinality(payments) + 1
SetStatus(p, s) == payment' = [payment EXCEPT ![p].status = s]
LastOfRound(p) == \A q \in OfRound(payment[p].round) : q <= p

(* SALE_COMMITTED_STATUSES.                                                *)
Committed == With("SUCCESS") \cup With("COD_PENDING")

(* Mutant of SettledByAnother: cash on delivery does not count as a sale.  *)
PrepaidByAnother(p) == With("SUCCESS") \ {p} # {}

SettledByAnother(p) == Committed \ {p} # {}

-----------------------------------------------------------------------------
(***************************************************************************)
(* The lot's own transactions, each atomic (see AuctionLifecycle).         *)
(***************************************************************************)
Open(newStatus) ==
  /\ opened < MaxRound
  /\ opened' = opened + 1
  /\ live' = opened + 1
  /\ status' = newStatus

CloseIfExpired ==
  /\ status = "ACTIVE"
  /\ Open("AWAITING_PAYMENT")
  /\ UNCHANGED <<overdue, confirmedBy, attempts, thread, resumed, parcel,
                 crashes>>

Resume ==
  /\ status' = "ACTIVE"
  /\ live' = 0
  /\ resumed' = resumed \cup {live}
  /\ UNCHANGED <<opened, overdue, confirmedBy>>

(* A lapsed hold reopens bidding; a lapsed win goes to the next bidder, or *)
(* the lot is abandoned for want of one.                                   *)
HandlePaymentExpiry ==
  /\ status \in {"AWAITING_INSTANT_BUY", "AWAITING_PAYMENT"}
  /\ live \in overdue
  /\ IF status = "AWAITING_INSTANT_BUY"
     THEN Resume
     ELSE /\ \/ Open("AWAITING_PAYMENT")
             \/ status' = "ABANDONED" /\ live' = 0 /\ UNCHANGED opened
          /\ UNCHANGED <<resumed, overdue, confirmedBy>>
  /\ UNCHANGED <<attempts, thread, parcel, crashes>>

(* confirmCod and confirmPaymentManual settle the sale, store a payment    *)
(* row that says so and retire whatever online attempt is in flight.  Its  *)
(* socket is left to time out on its own; confirmCod closes the one it has *)
(* seen, afterwards.                                                       *)
SettleOutsideGateway(by, rowStatus, method) ==
  /\ status' = "SETTLED"
  /\ confirmedBy' = by
  /\ payments' = payments \cup {NewPayment}
  /\ payment' = [p \in Payment |->
       IF p = NewPayment
       THEN [round |-> live, status |-> rowStatus, method |-> method]
       ELSE IF p \in With("PENDING")
       THEN [payment[p] EXCEPT !.status = "EXPIRED"]
       ELSE payment[p]]
  /\ sold' = sold \cup {NewPayment}
  /\ listening' = listening \cup With("PENDING")
  /\ UNCHANGED <<opened, live, overdue, gateway, deliveries>>

ConfirmPaymentManual ==
  /\ status = "AWAITING_PAYMENT"
  /\ payments # Payment
  /\ SettleOutsideGateway("ADMIN_MANUAL", "SUCCESS", "ADMIN")
  /\ UNCHANGED <<thread, resumed, crashes>>

-----------------------------------------------------------------------------
(***************************************************************************)
(* Starting an attempt.  initiateInstantBuyPayment opens a hold first.     *)
(* createQrPayment checks that nothing has been paid yet, waits for        *)
(* Fonepay to generate the QR and only then stores the PENDING row; the    *)
(* partial unique index allows one such row per round.                     *)
(***************************************************************************)
InitiateInstantBuyPayment(t) ==
  /\ Free(t)
  /\ status = "ACTIVE"
  /\ Open("AWAITING_INSTANT_BUY")
  /\ thread' = [thread EXCEPT ![t] =
                  [at |-> "generateHoldQr", pay |-> 0, round |-> opened + 1]]
  /\ UNCHANGED <<overdue, confirmedBy, attempts, resumed, parcel, crashes>>

(* An attempt in flight is returned as it is: nothing changes.             *)
InitiatePayment(t) ==
  /\ Free(t)
  /\ status = "AWAITING_PAYMENT"
  /\ live \notin overdue
  /\ OfRound(live) \cap With("PENDING") = {}
  /\ Committed = {}
  /\ thread' = [thread EXCEPT ![t] =
                  [at |-> "generateQr", pay |-> 0, round |-> live]]
  /\ UNCHANGED <<lot, attempts, resumed, parcel, crashes>>

Generating(t) == thread[t].at \in {"generateQr", "generateHoldQr"}

SaveQrPayment(t) ==
  /\ Generating(t)
  /\ OfRound(thread[t].round) \cap With("PENDING") = {}
  /\ payments # Payment
  /\ payments' = payments \cup {NewPayment}
  /\ payment' = [payment EXCEPT ![NewPayment] =
                   [round |-> thread[t].round, status |-> "PENDING",
                    method |-> "FONEPAY"]]
  /\ gateway' = [gateway EXCEPT ![NewPayment] = "pending"]
  /\ Return(t)
  /\ UNCHANGED <<lot, listening, resumed, parcel, crashes>>

(* No address, no QR or no row: the method throws.  Only the caller that   *)
(* started a hold releases it.                                             *)
QrFails(t) ==
  /\ \/ At(t, "generateQr") /\ Return(t)
     \/ At(t, "generateHoldQr") /\ Proceed(t, "releaseAnyHold")
  /\ UNCHANGED <<lot, attempts, resumed, parcel, crashes>>

(* releaseInstantBuyHold without a settlementId: whichever hold is live.   *)
ReleaseAnyHold(t) ==
  /\ At(t, "releaseAnyHold")
  /\ IF status = "AWAITING_INSTANT_BUY" THEN Resume ELSE UNCHANGED <<lot, resumed>>
  /\ Return(t)
  /\ UNCHANGED <<attempts, parcel, crashes>>

-----------------------------------------------------------------------------
(***************************************************************************)
(* Asking Fonepay.  A socket message or the buyer's getStatus acts on a    *)
(* verdict only; the expiry of an attempt (by the cron once its window is  *)
(* over, or when its hold ended) acts on any answer, and on none.          *)
(***************************************************************************)
(* Mutant of Verdict: the socket message is believed.                         *)
TrustMessage(p) == "success"

Verdict(p) == gateway[p]

Poll(t, p) ==
  /\ Free(t)
  /\ \/ p \in With("PENDING") \cup listening
     \/ p \in With("EXPIRED") /\ LastOfRound(p)
  /\ \/ Verdict(p) = "success" /\ CallOn(t, "confirmSuccess", p)
     \/ /\ Verdict(p) = "failed"
        /\ p \in With("PENDING") \cup listening
        /\ CallOn(t, "markFailed", p)
  /\ UNCHANGED <<lot, attempts, resumed, parcel, crashes>>

(* Only a pending attempt gets its socket reopened.                        *)
SocketCloses(p) ==
  /\ p \in listening
  /\ listening' = listening \ {p}
  /\ UNCHANGED <<lot, payments, payment, gateway, thread, resumed, parcel,
                 crashes>>

(* Mutant of ExpirePayment: no sweep, the event alone expires an attempt.  *)
ExpireOnEvent(t, p) ==
  /\ Free(t)
  /\ p \in With("PENDING")
  /\ payment[p].round \in resumed
  /\ \/ gateway[p] = "success" /\ CallOn(t, "confirmSuccess", p)
     \/ CallOn(t, "expire", p)
  /\ resumed' = resumed \ {payment[p].round}
  /\ UNCHANGED <<lot, attempts, parcel, crashes>>

ExpirePayment(t, p) ==
  /\ Free(t)
  /\ p \in With("PENDING")
  /\ payment[p].round \in overdue \cup resumed
  /\ \/ gateway[p] = "success" /\ CallOn(t, "confirmSuccess", p)
     \/ CallOn(t, "expire", p)     \* not paid, or Fonepay unreachable
  /\ resumed' = resumed \ {payment[p].round}
  /\ UNCHANGED <<lot, attempts, parcel, crashes>>

MarkExpired(t) ==
  /\ At(t, "expire")
  /\ SetStatus(thread[t].pay, "EXPIRED")
  /\ Return(t)
  /\ UNCHANGED <<lot, payments, gateway, listening, resumed, parcel, crashes>>

(* PaymentsService.confirmCod: eligibility, then a look at the attempt in  *)
(* flight, which settles the sale instead if it was paid.                  *)
RequestCod(t) ==
  /\ Free(t)
  /\ status = "AWAITING_PAYMENT"
  /\ live \notin overdue
  /\ \/ \E p \in OfRound(live) \cap With("PENDING") :
          gateway[p] = "success" /\ CallOn(t, "confirmSuccess", p)
     \/ thread' = [thread EXCEPT ![t] =
                     [at |-> "confirmCod", pay |-> 0, round |-> live]]
  /\ UNCHANGED <<lot, attempts, resumed, parcel, crashes>>

ConfirmCod(t) ==
  /\ At(t, "confirmCod")
  /\ IF /\ status = "AWAITING_PAYMENT"
        /\ live = thread[t].round
        /\ live \notin overdue
        /\ payments # Payment
     THEN SettleOutsideGateway("COD", "COD_PENDING", "COD")
     ELSE UNCHANGED <<lot, attempts, parcel>>
  /\ Return(t)
  /\ UNCHANGED <<resumed, crashes>>

-----------------------------------------------------------------------------
(***************************************************************************)
(* confirmSuccess: the row is read, the sale is settled in a transaction   *)
(* of the auction service, and the row is written afterwards.              *)
(***************************************************************************)
ReadForSuccess(t) ==
  /\ At(t, "confirmSuccess")
  /\ CASE thread[t].pay \in With("SUCCESS") -> Return(t)
       [] thread[t].pay \in With("PENDING") -> Proceed(t, "confirmGateway")
       [] OTHER -> Proceed(t, "flagForRefund")
  /\ UNCHANGED <<lot, attempts, resumed, parcel, crashes>>

RoundIsLive(r) ==
  /\ status \in {"AWAITING_PAYMENT", "AWAITING_INSTANT_BUY"}
  /\ live = r

ConfirmPaymentGateway(t) ==
  /\ At(t, "confirmGateway")
  /\ IF RoundIsLive(thread[t].round)
     THEN /\ status' = "SETTLED"
          /\ confirmedBy' = "BANK_API"
          /\ Proceed(t, "markSuccess")
          /\ UNCHANGED <<opened, live, overdue>>
     ELSE /\ Proceed(t, IF status = "SETTLED" THEN "checkOthers"
                                              ELSE "flagForRefund")
          /\ UNCHANGED lot
  /\ UNCHANGED <<attempts, resumed, parcel, crashes>>

(* isSettledByAnotherPayment, asked when the product is SETTLED already.   *)
CheckOthers(t) ==
  /\ At(t, "checkOthers")
  /\ Proceed(t, IF SettledByAnother(thread[t].pay) THEN "flagForRefund"
                                                  ELSE "markSuccess")
  /\ UNCHANGED <<lot, attempts, resumed, parcel, crashes>>

FlagForRefund(t) ==
  /\ At(t, "flagForRefund")
  /\ SetStatus(thread[t].pay, "FAILED")
  /\ Return(t)
  /\ UNCHANGED <<lot, payments, gateway, listening, resumed, parcel, crashes>>

MarkSuccess(t) ==
  /\ At(t, "markSuccess")
  /\ SetStatus(thread[t].pay, "SUCCESS")
  /\ sold' = sold \cup {thread[t].pay}
  /\ Return(t)
  /\ UNCHANGED <<lot, payments, gateway, listening, resumed, deliveries, crashes>>

(***************************************************************************)
(* markFailed: the row, then the hold of its round if the row was PENDING. *)
(***************************************************************************)
ReadForFailure(t) ==
  /\ At(t, "markFailed")
  /\ CASE thread[t].pay \in With("FAILED") -> Return(t)
       [] thread[t].pay \in With("PENDING") -> Proceed(t, "failPending")
       [] OTHER -> Proceed(t, "failOther")
  /\ UNCHANGED <<lot, attempts, resumed, parcel, crashes>>

MarkFailed(t) ==
  /\ thread[t].at \in {"failPending", "failOther"}
  /\ SetStatus(thread[t].pay, "FAILED")
  /\ IF At(t, "failPending") THEN Proceed(t, "releaseHold") ELSE Return(t)
  /\ UNCHANGED <<lot, payments, gateway, listening, resumed, parcel, crashes>>

(* Mutant of HoldIsLive: the round is not compared.                        *)
AnyHoldIsLive(r) == status = "AWAITING_INSTANT_BUY"

HoldIsLive(r) == status = "AWAITING_INSTANT_BUY" /\ live = r

ReleaseHold(t) ==
  /\ At(t, "releaseHold")
  /\ IF HoldIsLive(thread[t].round) THEN Resume ELSE UNCHANGED <<lot, resumed>>
  /\ Return(t)
  /\ UNCHANGED <<attempts, parcel, crashes>>

-----------------------------------------------------------------------------
(* createDelivery, from PAYMENT_SUCCEEDED or PAYMENT_COD_CONFIRMED.        *)
CreateDelivery(p) ==
  /\ p \in sold
  /\ sold' = sold \ {p}
  /\ deliveries' = deliveries \cup {p}
  /\ UNCHANGED <<lot, attempts, thread, resumed, crashes>>

(* The buyer pays, or the bank declines, at any time: before the row is    *)
(* expired, after it is, or never.                                         *)
GatewayAnswers(p) ==
  /\ gateway[p] = "pending"
  /\ \E verdict \in {"success", "failed"} :
       gateway' = [gateway EXCEPT ![p] = verdict]
  /\ UNCHANGED <<lot, payments, payment, listening, thread, resumed, parcel,
                 crashes>>

(* A hold outlasts the generation of its QR: INSTANT_BUY_HOLD_SECONDS is   *)
(* minutes, each Fonepay call times out after ten seconds.                 *)
QrInProgress(r) == \E t \in Threads :
  thread[t].at \in {"generateHoldQr", "releaseAnyHold"} /\ thread[t].round = r

DeadlinePasses(r) ==
  /\ r \in 1..opened
  /\ r \notin overdue
  /\ ~(status = "AWAITING_INSTANT_BUY" /\ live = r /\ QrInProgress(r))
  /\ overdue' = overdue \cup {r}
  /\ UNCHANGED <<status, opened, live, confirmedBy, attempts, thread, resumed,
                 parcel, crashes>>

(* The process stops: method calls and events in memory are gone.  The     *)
(* sockets of pending attempts are reopened by onModuleInit, no others.    *)
Crash ==
  /\ crashes < MaxCrashes
  /\ crashes' = crashes + 1
  /\ thread' = [t \in Threads |-> Idle]
  /\ listening' = {} /\ resumed' = {} /\ sold' = {}
  /\ UNCHANGED <<lot, payments, payment, gateway, deliveries>>

Step(t) ==
  \/ SaveQrPayment(t) \/ QrFails(t) \/ ReleaseAnyHold(t)
  \/ MarkExpired(t) \/ ConfirmCod(t)
  \/ ReadForSuccess(t) \/ ConfirmPaymentGateway(t) \/ CheckOthers(t)
  \/ FlagForRefund(t) \/ MarkSuccess(t)
  \/ ReadForFailure(t) \/ MarkFailed(t) \/ ReleaseHold(t)

Call(t) ==
  \/ InitiateInstantBuyPayment(t) \/ InitiatePayment(t) \/ RequestCod(t)
  \/ \E p \in payments : Poll(t, p) \/ ExpirePayment(t, p)

Next ==
  \/ \E t \in Threads : Call(t) \/ Step(t)
  \/ CloseIfExpired \/ HandlePaymentExpiry \/ ConfirmPaymentManual
  \/ \E p \in payments :
       CreateDelivery(p) \/ GatewayAnswers(p) \/ SocketCloses(p)
  \/ \E r \in Round : DeadlinePasses(r)
  \/ Crash

Spec == Init /\ [][Next]_vars

(* Every call in progress goes on, and what the code schedules happens:    *)
(* the auction cron, PaymentsCron's sweep, the event handlers, and time.   *)
(* The sweep is strongly fair: other calls may be in progress on every     *)
(* thread each time it is due, but not for ever.                           *)
Fairness ==
  /\ \A t \in Threads : WF_vars(Step(t))
  /\ \A p \in Payment : SF_vars(\E t \in Threads : p \in payments /\ ExpirePayment(t, p))
  /\ \A p \in Payment : WF_vars(CreateDelivery(p))
  /\ \A r \in Round : WF_vars(DeadlinePasses(r))
  /\ WF_vars(HandlePaymentExpiry)

FairSpec == Spec /\ Fairness

-----------------------------------------------------------------------------
(* A row says sold only if the lot is, and a lot sold through Fonepay was  *)
(* paid for by the buyer it was sold to: an attempt of another round, or a *)
(* message Fonepay does not confirm, settles nothing.                      *)
SoldMeansPaid ==
  /\ Committed # {} => status = "SETTLED"
  /\ \A p \in With("SUCCESS") :
       payment[p].method = "FONEPAY" => gateway[p] = "success"
  /\ confirmedBy = "BANK_API" =>
       \E p \in OfRound(live) : gateway[p] = "success"

(* Cash on delivery and the admin's confirmation settle a sale together    *)
(* with the payment row that records it, so an online attempt of the same  *)
(* sale that is paid all the same is always seen to come second: it is     *)
(* refunded, never counted as a second payment.                            *)
SecondChargeIsRefunded ==
  confirmedBy \in {"COD", "ADMIN_MANUAL"} => Cardinality(Committed) = 1

(* A hold is cut short only by its own failure: its window passed, its     *)
(* bank declined, or no QR could be made for it.  The failure of an        *)
(* earlier hold, however late it is noticed, does not reopen bidding.      *)
HoldEndsForItsOwnReason ==
  [][(status = "AWAITING_INSTANT_BUY" /\ status' = "ACTIVE") =>
       \/ live \in overdue
       \/ \E p \in OfRound(live) : gateway[p] = "failed"
       \/ \E t \in Threads : At(t, "releaseAnyHold") /\ thread[t].round = live]_vars

(* No attempt stays PENDING for ever, whatever calls overlap, and however  *)
(* often the process is restarted in between.                              *)
AttemptIsResolved ==
  \A p \in Payment :
    p \in With("PENDING") ~> p \notin With("PENDING")

=============================================================================
