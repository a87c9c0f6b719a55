------------------------------- MODULE Boosts -------------------------------
(***************************************************************************)
(* Boosting one product: BoostsService and BoostsCron.  The seller buys a  *)
(* boost item, pays its Fonepay QR, and asks for its status, which is what *)
(* finds out about the payment; two sweeps expire what is overdue.         *)
(*                                                                         *)
(* Nothing here is a transaction.  A `thread` is one request or one sweep  *)
(* of one payment, `at` the statement it executes next; what it has read   *)
(* before is what it acts on.  Items are numbered as they are created, and *)
(* each has at most one payment.  Fonepay is external.                     *)
(***************************************************************************)
EXTENDS Naturals, FiniteSets, FiniteSetsExt

CONSTANTS Threads,
          MaxItems, MaxCrashes     \* bounds of the instance

ASSUME BoostsAssumption == MaxItems \in Nat /\ MaxCrashes \in Nat

VARIABLES
  biddable,     \* product.status is one of ACTIVE_LISTING_STATUSES
  item,         \* status of each boost item, "none" before it is created
  payment,      \* status of the payment of each item, "none" before it exists
  due,          \* the items whose paymentDeadline has passed
  charge,       \* what Fonepay says of each item's QR
  thread,       \* the requests and sweeps in progress
  crashes       \* bounds the number of restarts

vars == <<biddable, item, payment, due, charge, thread, crashes>>

Item == 1..MaxItems
NoItem == 0
Stage == {"idle", "findPayment", "cancelStale", "expireStale", "createItem",
          "createPayment", "ask", "confirm", "activate", "markSuccess",
          "markFailed", "markExpired", "cancelItem"}
Idle == [at |-> "idle", item |-> NoItem, paid |-> FALSE]

TypeOK ==
  /\ biddable \in BOOLEAN
  /\ item \in [Item -> {"none", "PENDING_PAYMENT", "ACTIVE", "EXPIRED", "CANCELLED"}]
  /\ payment \in [Item -> {"none", "PENDING", "SUCCESS", "FAILED", "EXPIRED"}]
  /\ due \subseteq {i \in Item : payment[i] # "none"}
  /\ charge \in [Item -> {"open", "paid", "failed"}]
  /\ thread \in [Threads -> [at: Stage, item: Item \cup {NoItem}, paid: BOOLEAN]]
  /\ \A t \in Threads : thread[t].item = NoItem => thread[t].at \in {"idle", "createItem"}
  /\ crashes \in 0..MaxCrashes

Init ==
  /\ biddable = TRUE
  /\ item = [i \in Item |-> "none"]
  /\ due = {}
  /\ payment = [i \in Item |-> "none"]
  /\ charge = [i \in Item |-> "open"]
  /\ thread = [t \in Threads |-> Idle]
  /\ crashes = 0

-----------------------------------------------------------------------------
Created == {i \in Item : item[i] # "none"}
InFlight == {i \in Item : item[i] \in {"PENDING_PAYMENT", "ACTIVE"}}

At(t, stage) == thread[t].at = stage
Mine(t) == thread[t].item
Start(t, stage, i) ==
  /\ At(t, "idle")
  /\ thread' = [thread EXCEPT ![t] = [Idle EXCEPT !.at = stage, !.item = i]]
Goto(t, stage) == thread' = [thread EXCEPT ![t].at = stage]
Return(t) == thread' = [thread EXCEPT ![t] = Idle]

(* One statement of a thread changes only what it says.                    *)
Untouched == UNCHANGED <<biddable, due, charge, crashes>>

-----------------------------------------------------------------------------
(* initiateBoost up to the look-up of an item in flight; an active one     *)
(* ends the request.                                                       *)
InitiateBoost(t) ==
  /\ biddable
  /\ InFlight \cap {i \in Item : item[i] = "ACTIVE"} = {}
  /\ IF InFlight = {} THEN Start(t, "createItem", NoItem)
     ELSE \E i \in InFlight : Start(t, "findPayment", i)
  /\ UNCHANGED <<item, payment>> /\ Untouched

(* Mutant of Reusable: an item that never got a QR is not stale.           *)
ReusableOrMissing(i) ==
  (payment[i] = "PENDING" /\ i \notin due) \/ payment[i] = "none"

Reusable(i) == payment[i] = "PENDING" /\ i \notin due

(* A QR still good is shown again.                                         *)
FindPayment(t) ==
  /\ At(t, "findPayment")
  /\ IF Reusable(Mine(t)) THEN Return(t)
     ELSE thread' = [thread EXCEPT ![t].at = "cancelStale",
                                   ![t].paid = payment[Mine(t)] = "PENDING"]
  /\ UNCHANGED <<item, payment>> /\ Untouched

GotoCreateItem(t) == thread' = [thread EXCEPT ![t] = [Idle EXCEPT !.at = "createItem"]]

CancelStale(t) ==
  /\ At(t, "cancelStale")
  /\ item' = [item EXCEPT ![Mine(t)] = "CANCELLED"]
  /\ IF thread[t].paid THEN Goto(t, "expireStale") ELSE GotoCreateItem(t)
  /\ UNCHANGED payment /\ Untouched

ExpireStale(t) ==
  /\ At(t, "expireStale")
  /\ payment' = [payment EXCEPT ![Mine(t)] = "EXPIRED"]
  /\ GotoCreateItem(t)
  /\ UNCHANGED item /\ Untouched

(* The unique index on the product of the items in flight.                 *)
Insertable == InFlight = {}

CreateItem(t) ==
  /\ At(t, "createItem")
  /\ IF Insertable /\ Created # Item     \* MaxItems
     THEN \E i \in Item : /\ i = Cardinality(Created) + 1
                          /\ item' = [item EXCEPT ![i] = "PENDING_PAYMENT"]
                          /\ thread' = [thread EXCEPT ![t] =
                               [Idle EXCEPT !.at = "createPayment", !.item = i]]
     ELSE Return(t) /\ UNCHANGED item
  /\ UNCHANGED payment /\ Untouched

(* generateIntentQr fails, or the payment is stored with its QR.           *)
CreatePayment(t) ==
  /\ At(t, "createPayment")
  /\ payment' \in {payment, [payment EXCEPT ![Mine(t)] = "PENDING"]}
  /\ Return(t)
  /\ UNCHANGED item /\ Untouched

-----------------------------------------------------------------------------
(* getStatus looks at the seller's latest item.                            *)
GetStatus(t) ==
  LET latest == Max(Created) IN
  /\ Created # {}
  /\ payment[latest] = "PENDING"
  /\ Start(t, "ask", latest)
  /\ UNCHANGED <<item, payment>> /\ Untouched

(* Mutant of Answer: whatever has not failed is a success.                 *)
AnswerIfNotFailed(i) == IF charge[i] = "failed" THEN "markFailed" ELSE "confirm"

(* What the answer of Fonepay calls for.                                   *)
Answer(i) == CASE charge[i] = "paid" -> "confirm"
               [] charge[i] = "failed" -> "markFailed"
               [] OTHER -> "idle"

AskFonepay(t) ==
  /\ At(t, "ask")
  /\ \/ thread' = [thread EXCEPT ![t] =
          IF Answer(Mine(t)) = "idle" THEN Idle ELSE [@ EXCEPT !.at = Answer(Mine(t))]]
     \/ Return(t)
  /\ UNCHANGED <<item, payment>> /\ Untouched

ConfirmSuccess(t) ==
  /\ At(t, "confirm")
  /\ IF payment[Mine(t)] = "SUCCESS" THEN Return(t) ELSE Goto(t, "activate")
  /\ UNCHANGED <<item, payment>> /\ Untouched

(* The unique index refuses a second item in flight: the request fails.    *)
Activate(t) ==
  /\ At(t, "activate")
  /\ IF InFlight \subseteq {Mine(t)}
     THEN item' = [item EXCEPT ![Mine(t)] = "ACTIVE"] /\ Goto(t, "markSuccess")
     ELSE UNCHANGED item /\ Return(t)
  /\ UNCHANGED payment /\ Untouched

MarkSuccess(t) ==
  /\ At(t, "markSuccess")
  /\ payment' = [payment EXCEPT ![Mine(t)] = "SUCCESS"]
  /\ Return(t)
  /\ UNCHANGED item /\ Untouched

(* It reads the payment first, and returns if that is FAILED already.      *)
MarkFailed(t) ==
  /\ At(t, "markFailed")
  /\ IF payment[Mine(t)] = "FAILED"
     THEN UNCHANGED payment /\ Return(t)
     ELSE payment' = [payment EXCEPT ![Mine(t)] = "FAILED"] /\ Goto(t, "cancelItem")
  /\ UNCHANGED item /\ Untouched

-----------------------------------------------------------------------------
(* Mutant of Overdue: the sweep looks for failed payments only.            *)
OverdueOnceFailed(i) == payment[i] = "FAILED" /\ i \in due

Overdue(i) == payment[i] = "PENDING" /\ i \in due

(* The sweep lists the overdue payments, and reads each again before it    *)
(* acts: this is the second reading.                                       *)
ExpireBoostPayment(t, i) ==
  /\ Overdue(i)
  /\ Start(t, "markExpired", i)
  /\ UNCHANGED <<item, payment>> /\ Untouched

MarkExpired(t) ==
  /\ At(t, "markExpired")
  /\ payment' = [payment EXCEPT ![Mine(t)] = "EXPIRED"]
  /\ Goto(t, "cancelItem")
  /\ UNCHANGED item /\ Untouched

(* The last statement of markFailed and of expireBoostPayment.             *)
CancelItem(t) ==
  /\ At(t, "cancelItem")
  /\ item' = [item EXCEPT ![Mine(t)] = "CANCELLED"]
  /\ Return(t)
  /\ UNCHANGED payment /\ Untouched

(* endDateTime can be in the past: a plan runs for days, so its payment is *)
(* settled and the requests that were about it are long over.              *)
Ended(i) == /\ item[i] = "ACTIVE" /\ payment[i] # "PENDING"
            /\ \A t \in Threads : At(t, "idle")

ExpireEndedBoosts ==
  \E i \in Item : /\ Ended(i)
                  /\ item' = [item EXCEPT ![i] = "EXPIRED"]
                  /\ UNCHANGED <<payment, thread>> /\ Untouched

-----------------------------------------------------------------------------
Environment(E) == E /\ UNCHANGED <<item, payment, thread, crashes>>

FonepayDecides(i) ==
  /\ payment[i] # "none" /\ charge[i] = "open"
  /\ \E verdict \in {"paid", "failed"} : charge' = [charge EXCEPT ![i] = verdict]
  /\ Environment(UNCHANGED <<biddable, due>>)

DeadlinePasses(i) ==
  /\ payment[i] # "none" /\ i \notin due
  /\ due' = due \cup {i}
  /\ Environment(UNCHANGED <<biddable, charge>>)

AuctionCloses ==
  /\ biddable
  /\ biddable' = FALSE
  /\ Environment(UNCHANGED <<due, charge>>)

Crash ==
  /\ crashes < MaxCrashes
  /\ crashes' = crashes + 1
  /\ thread' = [t \in Threads |-> Idle]
  /\ UNCHANGED <<biddable, item, payment, due, charge>>

Step(t) ==
  \/ FindPayment(t) \/ CancelStale(t) \/ ExpireStale(t) \/ CreateItem(t)
  \/ CreatePayment(t) \/ AskFonepay(t) \/ ConfirmSuccess(t) \/ Activate(t)
  \/ MarkSuccess(t) \/ MarkFailed(t) \/ MarkExpired(t) \/ CancelItem(t)

Next ==
  \/ \E t \in Threads : InitiateBoost(t) \/ GetStatus(t) \/ Step(t)
  \/ \E t \in Threads, i \in Item : ExpireBoostPayment(t, i)
  \/ \E i \in Item : FonepayDecides(i) \/ DeadlinePasses(i)
  \/ ExpireEndedBoosts \/ AuctionCloses \/ Crash

Spec == Init /\ [][Next]_vars

(* Requests go on, time passes, and both sweeps run for ever.              *)
Fairness ==
  /\ \A t \in Threads : WF_vars(Step(t))
  /\ WF_vars(\E i \in Item : DeadlinePasses(i))
  /\ SF_vars(\E t \in Threads, i \in Item : ExpireBoostPayment(t, i))
  /\ SF_vars(ExpireEndedBoosts)

FairSpec == Spec /\ Fairness

(* ... and the seller asks for a boost again and again.                    *)
InsistentSpec == FairSpec /\ SF_vars(\E t \in Threads : InitiateBoost(t))

-----------------------------------------------------------------------------
(* Only a boost Fonepay was paid for runs or has run, and a payment is on  *)
(* record as succeeded or failed only if Fonepay said so, whatever polls,  *)
(* sweeps and new purchases overlap.                                       *)
OnlyPaidBoostsRun ==
  \A i \in Item : /\ item[i] \in {"ACTIVE", "EXPIRED"} => charge[i] = "paid"
                  /\ payment[i] = "SUCCESS" => charge[i] = "paid"
                  /\ payment[i] = "FAILED" => charge[i] = "failed"

(* No payment stays PENDING, restarts included: the poll or the sweep      *)
(* takes it out.                                                           *)
PaymentIsResolved ==
  \A i \in Item : payment[i] = "PENDING" ~> payment[i] # "PENDING"

(* No purchase blocks the product's next one for ever: not a boost that    *)
(* has run, nor one whose QR was never stored or whose sweep was cut short *)
(* by a restart - the seller who asks again clears those.                  *)
ProductIsFreed == InFlight # {} ~> InFlight = {} \/ ~biddable

=============================================================================
