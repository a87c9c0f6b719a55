----------------------------- MODULE Fulfilment -----------------------------
(***************************************************************************)
(* Bringing one sold lot to its buyer: ProductDeliveriesService, and what  *)
(* becomes of a cash-on-delivery payment at the door.                      *)
(*                                                                         *)
(* A method reads the delivery row, awaits Pathao or the database, changes *)
(* the copy it read, and saves it.  TypeORM's save() is two statements: it *)
(* SELECTs the row again, and then UPDATEs the columns in which the copy   *)
(* differs from what it SELECTed.  Between the two another call can write, *)
(* and the row is then a mix of two copies.  A `thread` is one call; `row` *)
(* is its copy, `at` what it does next.                                    *)
(*                                                                         *)
(* Pathao is external.  An order is live until it is delivered or          *)
(* cancelled, for good; statuses the code does not recognise count as live.*)
(* A rejected order and an answer that is lost look the same to the code.  *)
(***************************************************************************)
EXTENDS Naturals, FiniteSets

CONSTANTS Threads,
          MaxOrder    \* bounds the instance

ASSUME FulfilmentAssumption == MaxOrder \in Nat

NoOrder == 0
Order == 1..MaxOrder

VARIABLES
  method,       \* payment.method
  payment,      \* payment.status
  product,      \* product.status
  refusals,     \* the buyer's codRefusalCount
  delivery,     \* the row of product_deliveries
  order,        \* the orders at Pathao
  toCreate,     \* PAYMENT_SUCCEEDED / COD_CONFIRMED events: amounts to collect
  completed,    \* a DELIVERY_COMPLETED event not yet handled
  thread,       \* the method calls in progress
  torn,         \* history: an UPDATE has left the row a mix of two copies
  lost          \* history: what was to follow a delivery was lost

sale == <<method, payment, product, refusals>>
events == <<toCreate, completed>>
history == <<torn, lost>>
vars == <<sale, delivery, order, events, thread, history>>

Delivery == [exists: BOOLEAN, collect: {"nothing", "cash"}, received: BOOLEAN,
             consignment: Order \cup {NoOrder}, previous: SUBSET Order,
             delivered: BOOLEAN, cancelled: BOOLEAN, returned: BOOLEAN]

NoDelivery == [exists |-> FALSE, collect |-> "nothing", received |-> FALSE,
               consignment |-> NoOrder, previous |-> {},
               delivered |-> FALSE, cancelled |-> FALSE, returned |-> FALSE]

Stage == {"idle", "saveReceipt", "createOrder", "saveOrder", "getInfo",
          "saveStatus", "collect", "commitRefusal"}

Saving == {"saveReceipt", "saveOrder", "saveStatus", "commitRefusal"}

(* The columns of the row that change.                                     *)
Column == {"received", "consignment", "previous",
           "delivered", "cancelled", "returned"}

(* `columns` are those the save will write: the milestones the call has    *)
(* stamped itself, whose time is new, and, once it has SELECTed the row,   *)
(* those that differ.                                                      *)
Idle == [at |-> "idle", row |-> NoDelivery, columns |-> {}, selected |-> FALSE,
         redispatch |-> FALSE, announce |-> FALSE]

TypeOK ==
  /\ method \in {"FONEPAY", "COD"}
  /\ payment \in {"SUCCESS", "COD_PENDING", "FAILED"}
  /\ product \in {"SETTLED", "ABANDONED"}
  /\ refusals \in 0..1
  /\ delivery \in Delivery
  /\ order \in [Order -> {"none", "live", "delivered", "cancelled"}]
  /\ toCreate \subseteq {"nothing", "cash"}
  /\ completed \in BOOLEAN
  /\ thread \in [Threads -> [at: Stage, row: Delivery,
                             columns: SUBSET Column, selected: BOOLEAN,
                             redispatch: BOOLEAN, announce: BOOLEAN]]
  /\ torn \in BOOLEAN /\ lost \in BOOLEAN

(* A sale has just been made: its event is out, nothing is delivered yet.  *)
Init ==
  /\ \/ method = "FONEPAY" /\ payment = "SUCCESS" /\ toCreate = {"nothing"}
     \/ method = "COD" /\ payment = "COD_PENDING" /\ toCreate = {"cash"}
  /\ product = "SETTLED"
  /\ refusals = 0
  /\ delivery = NoDelivery
  /\ order = [o \in Order |-> "none"]
  /\ completed = FALSE
  /\ thread = [t \in Threads |-> Idle]
  /\ torn = FALSE /\ lost = FALSE

-----------------------------------------------------------------------------
At(t, stage) == thread[t].at = stage
Copy(t) == thread[t].row
Proceed(t, stage) == thread' = [thread EXCEPT ![t].at = stage]
Return(t) == thread' = [thread EXCEPT ![t] = Idle]

(* A call begins with the copy `row`.                                      *)
Reads(t, call) ==
  /\ At(t, "idle")
  /\ thread' = [thread EXCEPT ![t] = call]
  /\ UNCHANGED <<sale, delivery, order, events, history>>

Call(t, stage) ==
  /\ delivery.exists
  /\ Reads(t, [Idle EXCEPT !.at = stage, !.row = delivery])

(* The first statement of a save ...                                       *)
Select(t) ==
  /\ thread[t].at \in Saving
  /\ ~thread[t].selected
  /\ thread' = [thread EXCEPT ![t].selected = TRUE,
       ![t].columns = @ \cup {c \in Column : Copy(t)[c] # delivery[c]}]
  /\ UNCHANGED <<sale, delivery, order, events, history>>

(* ... what the second makes of a row others may have written since ...    *)
Mixed(t) ==
  LET Value(c) == IF c \in thread[t].columns THEN Copy(t)[c] ELSE delivery[c] IN
  [delivery EXCEPT !.received = Value("received"),
                   !.consignment = Value("consignment"),
                   !.previous = Value("previous"),
                   !.delivered = Value("delivered"),
                   !.cancelled = Value("cancelled"),
                   !.returned = Value("returned")]

(* ... and the second.                                                     *)
Update(t) ==
  /\ thread[t].selected
  /\ delivery' = Mixed(t)
  /\ torn' = (torn \/ Mixed(t) \notin {Copy(t), delivery})

(* findDispatchedNotDelivered, and the condition of syncOnRead.            *)
InFlight(d) ==
  /\ d.consignment # NoOrder
  /\ ~d.delivered /\ ~d.cancelled /\ ~d.returned

-----------------------------------------------------------------------------
DeliveryStage == {"AWAITING_WAREHOUSE", "AT_WAREHOUSE", "IN_TRANSIT",
                  "DELIVERED", "CANCELLED", "RETURNED"}

(* The stage shown with a parcel ...                                       *)
DeliveryStageOf(d) ==
  CASE d.delivered -> "DELIVERED"
    [] ~d.delivered /\ d.returned -> "RETURNED"
    [] ~d.delivered /\ ~d.returned /\ d.cancelled -> "CANCELLED"
    [] InFlight(d) -> "IN_TRANSIT"
    [] OTHER -> IF d.received THEN "AT_WAREHOUSE" ELSE "AWAITING_WAREHOUSE"

(* Mutant of WhereStage: a cancelled order counts as in transit.           *)
WhereStageForgetsCancelled(d, stage) ==
  CASE stage = "AWAITING_WAREHOUSE" -> ~d.received /\ ~d.returned
    [] stage = "AT_WAREHOUSE" ->
         d.received /\ d.consignment = NoOrder /\ ~d.returned
    [] stage = "IN_TRANSIT" ->
         d.consignment # NoOrder /\ ~d.delivered /\ ~d.returned
    [] stage = "DELIVERED" -> d.delivered
    [] stage = "CANCELLED" -> d.cancelled /\ ~d.delivered /\ ~d.returned
    [] stage = "RETURNED" -> d.returned /\ ~d.delivered

(* ... and the filter of the admin's list, and of its counts.              *)
WhereStage(d, stage) ==
  CASE stage = "AWAITING_WAREHOUSE" -> ~d.received /\ ~d.returned
    [] stage = "AT_WAREHOUSE" ->
         d.received /\ d.consignment = NoOrder /\ ~d.returned
    [] stage = "IN_TRANSIT" -> InFlight(d)
    [] stage = "DELIVERED" -> d.delivered
    [] stage = "CANCELLED" -> d.cancelled /\ ~d.delivered /\ ~d.returned
    [] stage = "RETURNED" -> d.returned /\ ~d.delivered

-----------------------------------------------------------------------------
(* The handler of both sale events.  It logs an error and drops the event: *)
(* no row is created then.                                                 *)
CreateDelivery(amount) ==
  /\ amount \in toCreate
  /\ toCreate' = toCreate \ {amount}
  /\ IF delivery.exists
     THEN UNCHANGED delivery
     ELSE delivery' \in {delivery,
                         [NoDelivery EXCEPT !.exists = TRUE, !.collect = amount]}
  /\ UNCHANGED <<sale, order, completed, thread, history>>

MarkReceivedAtWarehouse(t) ==
  /\ delivery.exists
  /\ ~delivery.received
  /\ Reads(t, [Idle EXCEPT !.at = "saveReceipt",
                           !.row = [delivery EXCEPT !.received = TRUE],
                           !.columns = {"received"}])

SaveReceipt(t) ==
  /\ At(t, "saveReceipt")
  /\ Update(t)
  /\ Return(t)
  /\ UNCHANGED <<sale, order, events, lost>>

Dispatch(t) ==
  /\ delivery.consignment = NoOrder
  /\ delivery.received
  /\ ~delivery.returned
  /\ Call(t, "createOrder")

(* A status sync comes first unless the order is known to be cancelled.    *)
Redispatch(t) ==
  /\ delivery.exists
  /\ ~delivery.returned
  /\ delivery.consignment # NoOrder
  /\ Reads(t, [Idle EXCEPT
       !.at = IF delivery.cancelled THEN "createOrder" ELSE "getInfo",
       !.row = delivery, !.redispatch = TRUE])

(* A redispatch moves the cancelled order to previousConsignmentIds.       *)
Superseded(d) ==
  [d EXCEPT !.previous = @ \cup {d.consignment}, !.cancelled = FALSE]

Ordered(w, o) ==
  [IF w.redispatch THEN Superseded(w.row) ELSE w.row EXCEPT !.consignment = o]

(* createPathaoOrder: Pathao creates the order and answers, creates it and *)
(* the answer is lost, or rejects it (a merchantOrderId it knows, say).    *)
CreateOrder(t) ==
  /\ At(t, "createOrder")
  /\ \/ \E o \in Order :
          /\ order[o] = "none" /\ \A p \in 1..(o - 1) : order[p] # "none"
          /\ order' = [order EXCEPT ![o] = "live"]
          /\ \/ thread' = [thread EXCEPT ![t] =
                  [Idle EXCEPT !.at = "saveOrder", !.row = Ordered(thread[t], o)]]
             \/ Return(t)
     \/ Return(t) /\ UNCHANGED order
  /\ UNCHANGED <<sale, delivery, events, history>>

SaveOrder(t) ==
  /\ At(t, "saveOrder")
  /\ Update(t)
  /\ Return(t)
  /\ UNCHANGED <<sale, order, events, lost>>

(* The admin's sync; the cron's and the reads' look at parcels in flight   *)
(* only.  The cron loads its rows up front, long before it saves the last. *)
SyncStatus(t) == delivery.consignment # NoOrder /\ Call(t, "getInfo")
Poll(t) == InFlight(delivery) /\ Call(t, "getInfo")

(* refreshStatus on the copy: the milestone of a status seen first time.   *)
Refreshed(d, status) ==
  [d EXCEPT !.delivered = @ \/ status = "delivered",
            !.cancelled = @ \/ status = "cancelled"]

(* Mutant of NewlyDelivered: asked of the copy when it has been changed.   *)
NewlyDeliveredAfterwards(before, after) == after.delivered /\ ~after.delivered

(* Mutant of NewlyDelivered: any milestone counts.                         *)
NewlyFinal(before, after) == after # before

NewlyDelivered(before, after) == after.delivered /\ ~before.delivered

(* The answer of getOrderInfo arrives.                                     *)
OrderInfoArrives(t) ==
  /\ At(t, "getInfo")
  /\ LET d == Refreshed(Copy(t), order[Copy(t).consignment]) IN
       thread' = [thread EXCEPT ![t] =
         [@ EXCEPT !.at = "saveStatus", !.row = d,
                   !.columns = {c \in Column : d[c] # Copy(t)[c]},
                   !.announce = NewlyDelivered(Copy(t), d)]]
  /\ UNCHANGED <<sale, delivery, order, events, history>>

(* Mutant of GoesOn: a redispatch goes on whatever the sync has found.     *)
GoesOnAnyway(w) == w.redispatch

GoesOn(w) == w.redispatch /\ w.row.cancelled

(* A redispatch goes on with its copy, which the save does not refresh.    *)
SaveStatus(t) ==
  /\ At(t, "saveStatus")
  /\ Update(t)
  /\ completed' = (completed \/ thread[t].announce)
  /\ IF GoesOn(thread[t])
     THEN thread' = [thread EXCEPT ![t] =
            [Idle EXCEPT !.at = "createOrder", !.row = Copy(t),
                         !.redispatch = TRUE]]
     ELSE Return(t)
  /\ UNCHANGED <<sale, order, toCreate, lost>>

-----------------------------------------------------------------------------
(* markCodCollected, the handler of DELIVERY_COMPLETED: it reads the row,  *)
(* then updates it on the condition that it is still COD_PENDING.          *)
OnDeliveryCompleted(t) ==
  /\ At(t, "idle")
  /\ completed
  /\ completed' = FALSE
  /\ IF payment = "COD_PENDING" THEN Proceed(t, "collect") ELSE UNCHANGED thread
  /\ UNCHANGED <<sale, delivery, order, toCreate, history>>

(* abandonAfterCodRefusal has the payment row locked.                      *)
PaymentLocked == \E t \in Threads : At(t, "commitRefusal")

(* Mutant of CollectCash: the update has no condition.                     *)
CollectCashAnyway ==
  /\ payment' = "SUCCESS"
  /\ toCreate' = toCreate \cup {"nothing"}

CollectCash ==
  IF payment = "COD_PENDING"
  THEN /\ payment' = "SUCCESS"
       /\ toCreate' = toCreate \cup {"nothing"}
  ELSE UNCHANGED <<payment, toCreate>>

MarkCodCollected(t) ==
  /\ At(t, "collect")
  /\ ~PaymentLocked
  /\ CollectCash
  /\ Return(t)
  /\ UNCHANGED <<method, product, refusals, delivery, order, completed,
                 history>>

Refusable == method = "COD" /\ payment = "COD_PENDING" /\ ~delivery.delivered

(* The transaction locks the payment, but reads the delivery without a     *)
(* lock before it saves it.                                                *)
MarkCodRefused(t) ==
  /\ ~PaymentLocked
  /\ Refusable
  /\ Reads(t, IF delivery.exists
              THEN [Idle EXCEPT !.at = "commitRefusal",
                                !.row = [delivery EXCEPT !.returned = TRUE],
                                !.columns = {"returned"}]
              ELSE [Idle EXCEPT !.at = "commitRefusal", !.selected = TRUE])

CommitRefusal(t) ==
  /\ At(t, "commitRefusal")
  /\ Update(t)
  /\ payment' = "FAILED"
  /\ product' = "ABANDONED"
  /\ refusals' = refusals + 1
  /\ Return(t)
  /\ UNCHANGED <<method, order, events, lost>>

-----------------------------------------------------------------------------
(* There is one parcel: at most one order delivers it.                     *)
PathaoDelivers(o) ==
  /\ order[o] = "live"
  /\ \A p \in Order : order[p] # "delivered"
  /\ order' = [order EXCEPT ![o] = "delivered"]
  /\ UNCHANGED <<sale, delivery, events, thread, history>>

PathaoCancels(o) ==
  /\ order[o] = "live"
  /\ order' = [order EXCEPT ![o] = "cancelled"]
  /\ UNCHANGED <<sale, delivery, events, thread, history>>

(* A call to the database or to Pathao fails, and the method with it; an   *)
(* open transaction is rolled back.  onDeliveryCompleted logs the error,   *)
(* and nothing repeats the event.                                          *)
CallFails(t) ==
  /\ ~At(t, "idle")
  /\ lost' = (lost \/ At(t, "collect"))
  /\ Return(t)
  /\ UNCHANGED <<sale, delivery, order, events, torn>>

(* A save is committed, but not to the knowledge of the method.            *)
AnswerLost(t) ==
  /\ thread[t].at \in Saving \ {"commitRefusal"}
  /\ Update(t)
  /\ lost' = (lost \/ thread[t].announce)
  /\ Return(t)
  /\ UNCHANGED <<sale, order, events>>

(* The process stops: calls in progress and undelivered events are gone.   *)
Crash ==
  /\ lost' = (lost \/ completed \/ \E t \in Threads : At(t, "collect"))
  /\ thread' = [t \in Threads |-> Idle]
  /\ toCreate' = {} /\ completed' = FALSE
  /\ UNCHANGED <<sale, delivery, order, torn>>

Step(t) ==
  \/ Select(t) \/ SaveReceipt(t) \/ CreateOrder(t) \/ SaveOrder(t)
  \/ OrderInfoArrives(t) \/ SaveStatus(t)
  \/ MarkCodCollected(t) \/ CommitRefusal(t)

Admin(t) ==
  \/ MarkReceivedAtWarehouse(t) \/ Dispatch(t) \/ Redispatch(t)
  \/ SyncStatus(t) \/ MarkCodRefused(t)

Next ==
  \/ \E amount \in {"nothing", "cash"} : CreateDelivery(amount)
  \/ \E t \in Threads : \/ Admin(t) \/ Poll(t) \/ OnDeliveryCompleted(t)
                        \/ Step(t) \/ CallFails(t) \/ AnswerLost(t)
  \/ \E o \in Order : PathaoDelivers(o) \/ PathaoCancels(o)
  \/ Crash

Spec == Init /\ [][Next]_vars

(* Calls in progress go on, and events are handled.                        *)
Fairness ==
  /\ \A t \in Threads : WF_vars(Step(t))
  /\ SF_vars(\E t \in Threads : OnDeliveryCompleted(t))

FairSpec == Spec /\ Fairness

-----------------------------------------------------------------------------
(* Cash is collected or the parcel refused, "so this and ... the           *)
(* 'delivered -> collected' update can never both win": the payment, the   *)
(* product and the buyer's strikes tell the same of the two stories.       *)
CollectedOrRefused ==
  /\ payment = "FAILED" <=> product = "ABANDONED"
  /\ payment = "FAILED" <=> refusals = 1

(* "The rider collecting the cash" is what makes a COD payment SUCCESS:    *)
(* it is settled only when Pathao has delivered an order of the parcel,    *)
(* whatever mix of copies the row has become.                              *)
Delivered == \E o \in Order : order[o] = "delivered"
CashMeansDelivered == method = "COD" /\ payment = "SUCCESS" => Delivered

(* "The status is re-synced first so a stale local view can't redispatch a *)
(* delivery that is in fact still live at Pathao": an order put aside for  *)
(* another one is void.  The code does not ensure it ...                   *)
SupersededIsCancelled == \A o \in delivery.previous : order[o] = "cancelled"

(* ... but for want of one thing only: as long as no UPDATE has mixed two  *)
(* copies, it holds on however old a copy a redispatch decides.            *)
SupersededUnlessTorn == torn \/ SupersededIsCancelled

(* The admin's filter and the stage shown are two definitions to be kept   *)
(* "in step": every row is in the list of its stage, with the milestones   *)
(* that overlapping calls can leave on it, and in no other unless it is a  *)
(* mix of two copies.                                                      *)
ListedInItsStage ==
  delivery.exists =>
    LET lists == {s \in DeliveryStage : WhereStage(delivery, s)} IN
      /\ DeliveryStageOf(delivery) \in lists
      /\ torn \/ lists = {DeliveryStageOf(delivery)}

-----------------------------------------------------------------------------
Uncollected == delivery.delivered /\ payment = "COD_PENDING"

(* "Pathao delivered a parcel - for a cash-on-delivery sale that means the *)
(* rider collected the cash": a delivery on record settles the payment,    *)
(* "which is what releases the seller payout", whatever calls overlap,     *)
(* unless the one event of it was lost: its handler failed, the process    *)
(* stopped while it was under way, or the save's answer was lost.          *)
CodIsCollectedUnlessLost == Uncollected ~> ~Uncollected \/ lost
=============================================================================
