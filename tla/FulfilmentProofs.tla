--------------------------- MODULE FulfilmentProofs ---------------------------
(***************************************************************************)
(* Cash is collected or the parcel refused, and collected only of a parcel *)
(* delivered; as long as the row is no mix of two copies, only cancelled   *)
(* orders are superseded and every row is listed in its stage alone.  For  *)
(* every number of calls in progress, courier orders, failures and         *)
(* restarts.                                                               *)
(***************************************************************************)
EXTENDS Fulfilment, GatewayClient, TLAPS

ThreadState == [at: Stage, row: Delivery, columns: SUBSET Column,
                selected: BOOLEAN, redispatch: BOOLEAN, announce: BOOLEAN]

(* A call that asks for an order, or replaces one, has one.                *)
Proper(w) ==
  \/ w.at \in {"getInfo", "saveStatus"}
  \/ w.at = "createOrder" /\ w.redispatch
  => w.row.consignment \in Order

(* A row, saved or copied, tells of an order only what was received for    *)
(* it; and what it says of orders being void is so at Pathao, for good.    *)
RowOK(d) ==
  /\ d.consignment # NoOrder => d.received
  /\ d.delivered => d.consignment # NoOrder
  /\ d.cancelled => d.consignment # NoOrder

Truthful(d) ==
  /\ \A o \in d.previous : order[o] = "cancelled"
  /\ d.cancelled => order[d.consignment] = "cancelled"

(* An order is being placed for a parcel at the warehouse that has none,   *)
(* or in the place of one whose cancellation the copy knows of.            *)
CopyOK(w) ==
  /\ RowOK(w.row) /\ Truthful(w.row)
  /\ w.at = "createOrder" =>
       /\ w.row.received
       /\ ~w.redispatch => w.row.consignment = NoOrder
       /\ w.redispatch => w.row.cancelled

(* So it is until an UPDATE mixes two copies.                              *)
Whole ==
  \/ torn
  \/ /\ RowOK(delivery) /\ Truthful(delivery)
     /\ \A t \in Threads : CopyOK(thread[t])

(* The refusal that holds the lock on the payment finds it as it read it.  *)
LockOK(t) ==
  At(t, "commitRefusal") =>
    /\ payment = "COD_PENDING"
    /\ \A s \in Threads \ {t} : ~At(s, "commitRefusal")

Cash == CollectedOrRefused /\ \A t \in Threads : LockOK(t)

(* Whatever is on its way to collect the cash began with a delivery.       *)
Paid ==
  /\ completed => Delivered
  /\ \A t \in Threads : thread[t].announce \/ At(t, "collect") => Delivered
  /\ CashMeansDelivered

Inv == /\ TypeOK /\ Cash /\ Paid /\ Whole
       /\ \A t \in Threads : Proper(thread[t])

LEMMA NoDeliveryIsOK ==
  /\ NoDelivery \in Delivery /\ RowOK(NoDelivery) /\ Truthful(NoDelivery)
  /\ NoOrder \notin Order /\ Idle \in ThreadState
  /\ Idle.at = "idle" /\ Idle.row = NoDelivery /\ Idle.announce = FALSE
  /\ CopyOK(Idle) /\ Proper(Idle)
  BY FulfilmentAssumption
     DEF NoDelivery, Delivery, RowOK, Truthful, NoOrder, Order, Idle,
         ThreadState, Stage, CopyOK, Proper

LEMMA InvInitially == Init => Inv
<1> SUFFICES ASSUME Init PROVE Inv
  OBVIOUS
<1>1. TypeOK
  <2>1. /\ refusals \in 0..1 /\ torn \in BOOLEAN /\ lost \in BOOLEAN
        /\ delivery \in Delivery /\ completed \in BOOLEAN
    <3>1. 0 \in 0..1
      OBVIOUS
    <3>2. refusals = 0 /\ torn = FALSE /\ lost = FALSE /\ completed = FALSE
      BY DEF Init
    <3> QED BY <3>1, <3>2, NoDeliveryIsOK DEF Init
  <2>2. thread \in [Threads -> ThreadState]
    BY NoDeliveryIsOK DEF Init
  <2>3. /\ method \in {"FONEPAY", "COD"}
        /\ payment \in {"SUCCESS", "COD_PENDING", "FAILED"}
        /\ product \in {"SETTLED", "ABANDONED"}
        /\ toCreate \subseteq {"nothing", "cash"}
        /\ order \in [Order -> {"none", "live", "delivered", "cancelled"}]
    BY DEF Init
  <2> QED BY <2>1, <2>2, <2>3 DEF TypeOK, ThreadState
<1>2. \A t \in Threads : thread[t] = Idle
  BY DEF Init
<1>3. Cash
  BY <1>2, NoDeliveryIsOK DEF Init, Cash, CollectedOrRefused, LockOK, At
<1>4. Paid
  BY <1>2, NoDeliveryIsOK DEF Init, Paid, CashMeansDelivered, At
<1>5. Whole /\ \A t \in Threads : Proper(thread[t])
  BY <1>2, NoDeliveryIsOK DEF Init, Whole
<1> QED BY <1>1, <1>3, <1>4, <1>5 DEF Inv

-----------------------------------------------------------------------------
(* A step that leaves the payment alone and takes no lock; what is new on  *)
(* its way to collect the cash comes of a delivery.                        *)
LEMMA MoneyKept ==
  ASSUME Inv, UNCHANGED sale,
         \A o \in Order : order[o] = "delivered" => order'[o] = "delivered",
         completed' => completed \/ Delivered,
         \A t \in Threads :
           /\ thread'[t].at = "commitRefusal" => thread[t].at = "commitRefusal"
           /\ thread'[t].announce \/ thread'[t].at = "collect" =>
                \/ thread[t].announce \/ thread[t].at = "collect"
                \/ Delivered
  PROVE  Cash' /\ Paid'
<1>1. Delivered => Delivered'
  BY DEF Delivered
<1>2. Cash'
  BY DEF Inv, Cash, CollectedOrRefused, LockOK, At, sale
<1>3. Paid'
  BY <1>1 DEF Inv, Paid, CashMeansDelivered, At, sale
<1> QED BY <1>2, <1>3

(* A step of one call that leaves the payment and the orders alone.        *)
LEMMA CallKeeps ==
  ASSUME Inv, NEW t \in Threads, NEW r \in ThreadState,
         thread' = [thread EXCEPT ![t] = r],
         UNCHANGED <<sale, order>>,
         toCreate' \subseteq {"nothing", "cash"}, completed' \in BOOLEAN,
         torn' \in BOOLEAN, lost' \in BOOLEAN, delivery' \in Delivery,
         completed' => completed \/ Delivered,
         r.at # "commitRefusal", r.announce \/ r.at = "collect" => Delivered,
         Proper(r), ~torn' => ~torn,
         ~torn' => RowOK(delivery') /\ Truthful(delivery') /\ CopyOK(r)
  PROVE  Inv'
<1>1. /\ thread'[t] = r
      /\ \A s \in Threads \ {t} : thread'[s] = thread[s]
  BY DEF Inv, TypeOK
<1>2. TypeOK'
  BY DEF Inv, TypeOK, ThreadState, sale
<1>3. Cash' /\ Paid'
  BY <1>1, MoneyKept
<1>4. Whole'
  <2>1. CASE torn'
    BY <2>1 DEF Whole
  <2>2. CASE ~torn'
    <3>1. /\ RowOK(delivery)' /\ Truthful(delivery)' /\ CopyOK(r)'
          /\ \A s \in Threads : CopyOK(thread[s])
      BY <2>2 DEF Inv, Whole, RowOK, Truthful, CopyOK
    <3>2. \A s \in Threads : CopyOK(thread[s])'
      BY <1>1, <3>1 DEF CopyOK, Truthful
    <3> QED BY <3>1, <3>2 DEF Whole
  <2> QED BY <2>1, <2>2
<1>5. \A s \in Threads : Proper(thread[s])'
  BY <1>1 DEF Inv, Proper
<1> QED BY <1>2, <1>3, <1>4, <1>5 DEF Inv

(* A call that leaves the row alone, or only reads it.                     *)
LEMMA ReadKeeps ==
  ASSUME Inv, NEW t \in Threads, NEW r \in ThreadState,
         thread' = [thread EXCEPT ![t] = r],
         UNCHANGED <<sale, delivery, order, events, torn>>, lost' \in BOOLEAN,
         r.at # "commitRefusal", r.announce \/ r.at = "collect" => Delivered,
         Proper(r), ~torn => CopyOK(r)
  PROVE  Inv'
<1>1. /\ toCreate' \subseteq {"nothing", "cash"} /\ completed' \in BOOLEAN
      /\ torn' \in BOOLEAN /\ delivery' \in Delivery
      /\ completed' => completed
  BY DEF Inv, TypeOK, events
<1>2. ~torn' => RowOK(delivery') /\ Truthful(delivery') /\ CopyOK(r)
  BY DEF Inv, Whole
<1> QED BY <1>1, <1>2, CallKeeps

(* The UPDATE of a save leaves the copy, or the row as it was, or a mix.   *)
LEMMA MixedIsTyped ==
  ASSUME Inv, NEW t \in Threads
  PROVE  Mixed(t) \in Delivery
<1>1. delivery \in Delivery /\ Copy(t) \in Delivery
  BY DEF Inv, TypeOK, Copy
<1> DEFINE v(c) == IF c \in thread[t].columns THEN Copy(t)[c] ELSE delivery[c]
<1>2. /\ v("received") \in BOOLEAN
      /\ v("consignment") \in Order \cup {NoOrder}
      /\ v("previous") \in SUBSET Order
      /\ v("delivered") \in BOOLEAN /\ v("cancelled") \in BOOLEAN
      /\ v("returned") \in BOOLEAN
  BY <1>1 DEF Delivery
<1>3. Mixed(t) = [delivery EXCEPT !.received = v("received"),
                   !.consignment = v("consignment"), !.previous = v("previous"),
                   !.delivered = v("delivered"), !.cancelled = v("cancelled"),
                   !.returned = v("returned")]
  BY DEF Mixed
<1> HIDE DEF v
<1> QED BY <1>1, <1>2, <1>3 DEF Delivery

LEMMA UpdateKeeps ==
  ASSUME Inv, NEW t \in Threads, Update(t)
  PROVE  /\ delivery' \in Delivery /\ torn' \in BOOLEAN /\ (~torn' => ~torn)
         /\ ~torn' => RowOK(delivery') /\ Truthful(delivery')
<1>1. /\ delivery' = Mixed(t)
      /\ torn' = (torn \/ Mixed(t) \notin {Copy(t), delivery})
  BY DEF Update
<1>2. ~torn => /\ RowOK(delivery) /\ Truthful(delivery)
               /\ RowOK(Copy(t)) /\ Truthful(Copy(t))
  BY DEF Inv, Whole, CopyOK, Copy
<1>3. torn \in BOOLEAN
  BY DEF Inv, TypeOK
<1>4. ~torn' => ~torn /\ delivery' \in {Copy(t), delivery}
  BY <1>1
<1> QED BY <1>1, <1>2, <1>3, <1>4, MixedIsTyped

(* A call that returns, having saved its copy or not.                      *)
LEMMA ReturnKeeps ==
  ASSUME Inv, NEW t \in Threads, Return(t),
         UNCHANGED <<sale, order, events>>, lost' \in BOOLEAN,
         Update(t) \/ UNCHANGED <<delivery, torn>>
  PROVE  Inv'
<1>1. thread' = [thread EXCEPT ![t] = Idle]
  BY DEF Return
<1>2. /\ toCreate' \subseteq {"nothing", "cash"} /\ completed' \in BOOLEAN
      /\ completed' => completed
  BY DEF Inv, TypeOK, events
<1>3. /\ delivery' \in Delivery /\ torn' \in BOOLEAN /\ (~torn' => ~torn)
      /\ ~torn' => RowOK(delivery') /\ Truthful(delivery')
  <2>1. CASE UNCHANGED <<delivery, torn>>
    BY <2>1 DEF Inv, TypeOK, Whole
  <2> QED BY <2>1, UpdateKeeps
<1> QED BY <1>1, <1>2, <1>3, NoDeliveryIsOK, CallKeeps

-----------------------------------------------------------------------------
(* Calls that begin.                                                       *)
LEMMA CallsKeep ==
  ASSUME Inv, NEW t \in Threads,
         \/ MarkReceivedAtWarehouse(t) \/ Dispatch(t) \/ Redispatch(t)
         \/ SyncStatus(t) \/ Poll(t)
  PROVE  Inv'
<1>1. /\ delivery \in Delivery
      /\ delivery.consignment # NoOrder => delivery.consignment \in Order
      /\ ~torn => RowOK(delivery) /\ Truthful(delivery)
  BY DEF Inv, TypeOK, Whole, Delivery
<1>2. CASE MarkReceivedAtWarehouse(t)
  <2> DEFINE d == [delivery EXCEPT !.received = TRUE]
             r == [Idle EXCEPT !.at = "saveReceipt", !.row = d,
                               !.columns = {"received"}]
  <2>1. /\ d \in Delivery /\ d.received
        /\ d.consignment = delivery.consignment /\ d.previous = delivery.previous
        /\ d.delivered = delivery.delivered /\ d.cancelled = delivery.cancelled
    BY <1>1 DEF Delivery
  <2>2. /\ thread' = [thread EXCEPT ![t] = r]
        /\ UNCHANGED <<sale, delivery, order, events, history>>
    BY <1>2 DEF MarkReceivedAtWarehouse, Reads
  <2> HIDE DEF d
  <2>3. /\ r \in ThreadState /\ r.at = "saveReceipt" /\ r.row = d
        /\ r.announce = FALSE
    BY <2>1 DEF Idle, ThreadState, Stage, Column
  <2> HIDE DEF r
  <2>4. Proper(r) /\ (~torn => CopyOK(r))
    BY <1>1, <2>1, <2>3 DEF Proper, CopyOK, RowOK, Truthful
  <2>5. lost' \in BOOLEAN /\ torn' = torn
    BY <2>2 DEF Inv, TypeOK, history
  <2> QED BY <2>2, <2>3, <2>4, <2>5, ReadKeeps
<1>3. ASSUME NEW r \in ThreadState, Reads(t, r), r.row = delivery,
             r.at \in {"createOrder", "getInfo"}, r.announce = FALSE,
             r.at = "getInfo" \/ r.redispatch => delivery.consignment # NoOrder,
             r.at = "createOrder" /\ ~r.redispatch =>
               delivery.received /\ delivery.consignment = NoOrder,
             r.at = "createOrder" /\ r.redispatch => delivery.cancelled
      PROVE  Inv'
  <2>1. /\ thread' = [thread EXCEPT ![t] = r]
        /\ UNCHANGED <<sale, delivery, order, events, history>>
    BY <1>3 DEF Reads
  <2>2. Proper(r) /\ (~torn => CopyOK(r))
    BY <1>1, <1>3 DEF Proper, CopyOK, RowOK
  <2>3. lost' \in BOOLEAN /\ torn' = torn
    BY <2>1 DEF Inv, TypeOK, history
  <2> QED BY <1>3, <2>1, <2>2, <2>3, ReadKeeps
<1>4. CASE Redispatch(t)
  <2> DEFINE at == IF delivery.cancelled THEN "createOrder" ELSE "getInfo"
             r == [Idle EXCEPT !.at = at, !.row = delivery, !.redispatch = TRUE]
  <2>1. /\ at \in {"createOrder", "getInfo"}
        /\ at = "createOrder" => delivery.cancelled
        /\ Reads(t, r)
        /\ delivery.consignment # NoOrder
    BY <1>4 DEF Redispatch
  <2> HIDE DEF at
  <2>2. /\ r \in ThreadState /\ r.at = at /\ r.row = delivery
        /\ r.redispatch = TRUE /\ r.announce = FALSE
    BY <1>1, <2>1 DEF Idle, ThreadState, Stage
  <2> HIDE DEF r
  <2> QED BY <1>3, <2>1, <2>2
<1>5. ASSUME NEW at \in {"createOrder", "getInfo"}, Call(t, at),
             at = "getInfo" => delivery.consignment # NoOrder,
             at = "createOrder" => delivery.received /\ delivery.consignment = NoOrder
      PROVE  Inv'
  <2> DEFINE r == [Idle EXCEPT !.at = at, !.row = delivery]
  <2>1. /\ r \in ThreadState /\ r.at = at /\ r.row = delivery
        /\ r.redispatch = FALSE /\ r.announce = FALSE
    BY <1>1 DEF Idle, ThreadState, Stage
  <2>2. Reads(t, r)
    BY <1>5 DEF Call
  <2> HIDE DEF r
  <2> QED BY <1>3, <1>5, <2>1, <2>2
<1>6. CASE Dispatch(t)
  BY <1>5, <1>6 DEF Dispatch
<1>7. CASE SyncStatus(t) \/ Poll(t)
  BY <1>5, <1>7 DEF SyncStatus, Poll, InFlight
<1> QED BY <1>2, <1>4, <1>6, <1>7

LEMMA SelectKeeps ==
  ASSUME Inv, NEW t \in Threads, Select(t), ~At(t, "commitRefusal")
  PROVE  Inv'
<1> DEFINE cs == {c \in Column : Copy(t)[c] # delivery[c]}
           r == [thread[t] EXCEPT !.selected = TRUE,
                                  !.columns = thread[t].columns \cup cs]
<1>1. thread \in [Threads -> ThreadState]
  BY DEF Inv, TypeOK, ThreadState
<1>2. cs \subseteq Column
  OBVIOUS
<1>3. /\ thread' = [thread EXCEPT ![t] = r]
      /\ UNCHANGED <<sale, delivery, order, events, history>>
  BY <1>1 DEF Select, ThreadState
<1> HIDE DEF cs
<1>4. /\ r \in ThreadState /\ r.at = thread[t].at /\ r.row = thread[t].row
      /\ r.redispatch = thread[t].redispatch /\ r.announce = thread[t].announce
  BY <1>1, <1>2 DEF ThreadState
<1>5. r.at \in Saving /\ r.at # "commitRefusal"
  BY <1>4 DEF Select, At
<1> HIDE DEF r
<1>6. /\ Proper(r) /\ (~torn => CopyOK(r))
      /\ r.announce => Delivered
  BY <1>4 DEF Inv, Proper, Whole, CopyOK, Paid
<1>7. lost' \in BOOLEAN /\ torn' = torn
  BY <1>3 DEF Inv, TypeOK, history
<1>8. r.at # "collect"
  BY <1>5 DEF Saving
<1> QED BY <1>3, <1>4, <1>5, <1>6, <1>7, <1>8, ReadKeeps

-----------------------------------------------------------------------------
(* A step of Pathao's, or a call that places an order or ends: what is     *)
(* cancelled or delivered stays so.                                        *)
LEMMA OrdersKeep ==
  ASSUME Inv, UNCHANGED <<sale, delivery, events, history>>,
         order' \in [Order -> {"none", "live", "delivered", "cancelled"}],
         \A o \in Order : /\ order[o] = "cancelled" => order'[o] = "cancelled"
                          /\ order[o] = "delivered" => order'[o] = "delivered",
         thread' \in [Threads -> ThreadState],
         \A t \in Threads :
           \/ thread'[t] = thread[t]
           \/ /\ thread'[t].at \in {"idle", "saveOrder"}
              /\ thread'[t].announce = FALSE
              /\ ~torn => RowOK(thread'[t].row) /\ Truthful(thread'[t].row)
  PROVE  Inv'
<1>1. TypeOK'
  BY DEF Inv, TypeOK, ThreadState, sale, events, history
<1>2. ASSUME NEW d \in Delivery, Truthful(d), RowOK(d)
      PROVE  Truthful(d)'
  <2>1. /\ d.previous \in SUBSET Order
        /\ d.consignment \in Order \cup {NoOrder}
    BY DEF Delivery
  <2> QED BY <1>2, <2>1 DEF Truthful, RowOK
<1>3. Cash' /\ Paid'
  BY MoneyKept DEF events
<1>4. Whole'
  <2> SUFFICES ASSUME ~torn PROVE Whole'
    BY DEF Whole, history
  <2>1. RowOK(delivery)' /\ Truthful(delivery)'
    <3>1. delivery' = delivery /\ Truthful(delivery) /\ RowOK(delivery)
          /\ delivery \in Delivery
      BY DEF Inv, TypeOK, Whole
    <3> QED BY <1>2, <3>1 DEF RowOK, Truthful
  <2>2. ASSUME NEW t \in Threads PROVE CopyOK(thread[t])'
    <3>1. /\ RowOK(thread'[t].row) /\ Truthful(thread'[t].row)
          /\ thread'[t].at # "createOrder" \/ thread'[t] = thread[t]
          /\ CopyOK(thread[t])
      BY DEF Inv, Whole, CopyOK
    <3>2. thread'[t].row \in Delivery
      BY DEF ThreadState
    <3>3. Truthful(thread[t].row)'
      <4> DEFINE d == thread'[t].row
      <4>1. d \in Delivery /\ RowOK(d) /\ Truthful(d)
        BY <3>1, <3>2
      <4>2. d.previous \in SUBSET Order /\ d.consignment \in Order \cup {NoOrder}
        BY <4>1 DEF Delivery
      <4> QED BY <4>1, <4>2 DEF Truthful, RowOK
    <3> QED BY <3>1, <3>3 DEF CopyOK, RowOK
  <2> QED BY <2>1, <2>2 DEF Whole
<1>5. \A t \in Threads : Proper(thread[t])'
  BY DEF Inv, Proper
<1> QED BY <1>1, <1>3, <1>4, <1>5 DEF Inv

(* The copy with the order placed: the one it replaces, if any, is         *)
(* cancelled.                                                              *)
LEMMA OrderedIsOK ==
  ASSUME Inv, NEW t \in Threads, At(t, "createOrder"), NEW o \in Order
  PROVE  /\ Ordered(thread[t], o) \in Delivery
         /\ ~torn => /\ RowOK(Ordered(thread[t], o))
                     /\ Truthful(Ordered(thread[t], o))
<1> DEFINE w == thread[t]
           c == w.row
           d == Ordered(w, o)
<1>1. /\ c \in Delivery /\ o # NoOrder /\ NoOrder \notin Order
      /\ w.redispatch => c.consignment \in Order
      /\ ~torn => /\ RowOK(c) /\ Truthful(c) /\ c.received
                  /\ ~w.redispatch => c.consignment = NoOrder
                  /\ w.redispatch => c.cancelled
  BY NoDeliveryIsOK DEF Inv, TypeOK, Whole, CopyOK, Proper, At
<1>2. CASE w.redispatch
  <2>1. d = [Superseded(c) EXCEPT !.consignment = o]
    BY <1>2 DEF Ordered
  <2> HIDE DEF c, w
  <2>2. /\ Superseded(c) \in Delivery
        /\ Superseded(c).previous = c.previous \cup {c.consignment}
        /\ Superseded(c).received = c.received
        /\ Superseded(c).cancelled = FALSE
    BY <1>1, <1>2 DEF Superseded, Delivery
  <2> HIDE DEF d
  <2>3. /\ d \in Delivery /\ d.received = c.received /\ d.cancelled = FALSE
        /\ d.consignment = o /\ d.previous = c.previous \cup {c.consignment}
    BY <1>1, <2>1, <2>2 DEF Delivery
  <2>4. ~torn => RowOK(d) /\ Truthful(d)
    BY <1>1, <1>2, <2>3 DEF RowOK, Truthful
  <2> QED BY <2>3, <2>4 DEF d, w
<1>3. CASE ~w.redispatch
  <2>1. d = [c EXCEPT !.consignment = o]
    BY <1>3 DEF Ordered
  <2> HIDE DEF c, w, d
  <2>2. /\ d \in Delivery /\ d.received = c.received
        /\ d.cancelled = c.cancelled
        /\ d.consignment = o /\ d.previous = c.previous
    BY <1>1, <2>1 DEF Delivery
  <2>3. ~torn => RowOK(d) /\ Truthful(d)
    BY <1>1, <1>3, <2>2 DEF RowOK, Truthful
  <2> QED BY <2>2, <2>3 DEF d, w
<1> QED BY <1>2, <1>3

LEMMA CreateOrderKeeps ==
  ASSUME Inv, NEW t \in Threads, CreateOrder(t)
  PROVE  Inv'
<1>1. CASE Return(t) /\ UNCHANGED order
  <2>1. UNCHANGED <<sale, delivery, order, events, history>>
    BY <1>1 DEF CreateOrder
  <2>2. lost' \in BOOLEAN /\ torn' = torn
    BY <2>1 DEF Inv, TypeOK, history
  <2> QED BY <1>1, <2>1, <2>2, ReturnKeeps
<1>2. ASSUME NEW o \in Order, order[o] = "none",
             order' = [order EXCEPT ![o] = "live"],
             \/ thread' = [thread EXCEPT ![t] =
                  [Idle EXCEPT !.at = "saveOrder", !.row = Ordered(thread[t], o)]]
             \/ Return(t)
      PROVE  Inv'
  <2> DEFINE d == Ordered(thread[t], o)
             r == [Idle EXCEPT !.at = "saveOrder", !.row = d]
  <2>1. /\ UNCHANGED <<sale, delivery, events, history>>
        /\ At(t, "createOrder")
    BY DEF CreateOrder
  <2>2. /\ order' \in [Order -> {"none", "live", "delivered", "cancelled"}]
        /\ \A p \in Order : /\ order[p] = "cancelled" => order'[p] = "cancelled"
                            /\ order[p] = "delivered" => order'[p] = "delivered"
    BY <1>2 DEF Inv, TypeOK
  <2>3. d \in Delivery /\ (~torn => RowOK(d) /\ Truthful(d))
    BY <2>1, OrderedIsOK
  <2> HIDE DEF d
  <2>4. /\ r \in ThreadState /\ r.at = "saveOrder" /\ r.row = d
        /\ r.announce = FALSE
    BY <2>3 DEF Idle, ThreadState, Stage
  <2>5. thread' \in {[thread EXCEPT ![t] = r], [thread EXCEPT ![t] = Idle]}
    BY <1>2 DEF Return, d
  <2> HIDE DEF r
  <2>6. /\ thread' \in [Threads -> ThreadState]
        /\ \A s \in Threads : \/ thread'[s] = thread[s]
                              \/ thread'[s] \in {r, Idle}
    BY <2>4, <2>5, NoDeliveryIsOK DEF Inv, TypeOK, ThreadState
  <2>7. \A s \in Threads :
           \/ thread'[s] = thread[s]
           \/ /\ thread'[s].at \in {"idle", "saveOrder"}
              /\ thread'[s].announce = FALSE
              /\ ~torn => RowOK(thread'[s].row) /\ Truthful(thread'[s].row)
    BY <2>3, <2>4, <2>6, NoDeliveryIsOK
  <2> QED BY <2>1, <2>2, <2>6, <2>7, OrdersKeep
<1> QED BY <1>1, <1>2 DEF CreateOrder

(* The answer of Pathao, read into the copy.                               *)
LEMMA OrderInfoArrivesKeeps ==
  ASSUME Inv, NEW t \in Threads, OrderInfoArrives(t)
  PROVE  Inv'
<1> DEFINE c == Copy(t)
           d == Refreshed(c, order[c.consignment])
           cs == {x \in Column : d[x] # c[x]}
           r == [thread[t] EXCEPT !.at = "saveStatus", !.row = d, !.columns = cs,
                                  !.announce = NewlyDelivered(c, d)]
<1>1. /\ c \in Delivery /\ c.consignment \in Order
      /\ thread \in [Threads -> ThreadState]
      /\ NoOrder \notin Order
      /\ ~torn => RowOK(c) /\ Truthful(c)
  BY NoDeliveryIsOK
     DEF Inv, TypeOK, ThreadState, Whole, CopyOK, Proper, Copy,
         OrderInfoArrives, At
<1>2. /\ UNCHANGED <<sale, delivery, order, events, history>>
      /\ thread' = [thread EXCEPT ![t] = r]
  BY DEF OrderInfoArrives
<1>3. cs \subseteq Column
  OBVIOUS
<1> HIDE DEF c
<1>4. /\ d \in Delivery /\ d.consignment = c.consignment
      /\ d.received = c.received /\ d.previous = c.previous
      /\ d.cancelled => c.cancelled \/ order[c.consignment] = "cancelled"
      /\ d.delivered => c.delivered \/ order[c.consignment] = "delivered"
  BY <1>1 DEF Refreshed, Delivery
<1>5. /\ NewlyDelivered(c, d) \in BOOLEAN
      /\ NewlyDelivered(c, d) => Delivered
  BY <1>1, <1>4 DEF NewlyDelivered, Delivered
<1> HIDE DEF d, cs
<1>6. ~torn => RowOK(d) /\ Truthful(d)
  BY <1>1, <1>4 DEF RowOK, Truthful
<1>7. /\ r \in ThreadState /\ r.at = "saveStatus" /\ r.row = d
      /\ r.announce = NewlyDelivered(c, d)
  BY <1>1, <1>3, <1>4, <1>5 DEF ThreadState, Stage
<1> HIDE DEF r
<1>8. Proper(r) /\ (~torn => CopyOK(r))
  BY <1>1, <1>4, <1>6, <1>7 DEF Proper, CopyOK
<1>9. lost' \in BOOLEAN /\ torn' = torn
  BY <1>2 DEF Inv, TypeOK, history
<1> QED BY <1>2, <1>5, <1>7, <1>8, <1>9, ReadKeeps

LEMMA SaveStatusKeeps ==
  ASSUME Inv, NEW t \in Threads, SaveStatus(t)
  PROVE  Inv'
<1>1. /\ UNCHANGED <<sale, order, toCreate, lost>>
      /\ completed' = (completed \/ thread[t].announce)
      /\ Update(t)
  BY DEF SaveStatus
<1>2. /\ delivery' \in Delivery /\ torn' \in BOOLEAN /\ (~torn' => ~torn)
      /\ ~torn' => RowOK(delivery') /\ Truthful(delivery')
  BY <1>1, UpdateKeeps
<1>3. /\ toCreate' \subseteq {"nothing", "cash"} /\ completed' \in BOOLEAN
      /\ completed' => completed \/ Delivered
      /\ lost' \in BOOLEAN
  <2>1. /\ completed \in BOOLEAN /\ thread[t].announce \in BOOLEAN
        /\ lost \in BOOLEAN /\ toCreate \subseteq {"nothing", "cash"}
        /\ thread[t].announce => Delivered
    BY DEF Inv, TypeOK, Paid
  <2> QED BY <1>1, <2>1
<1>4. CASE Return(t)
  <2>1. thread' = [thread EXCEPT ![t] = Idle]
    BY <1>4 DEF Return
  <2> QED BY <1>1, <1>2, <1>3, <2>1, NoDeliveryIsOK, CallKeeps
<1>5. CASE /\ GoesOn(thread[t])
           /\ thread' = [thread EXCEPT ![t] =
                [Idle EXCEPT !.at = "createOrder", !.row = Copy(t),
                             !.redispatch = TRUE]]
  <2> DEFINE r == [Idle EXCEPT !.at = "createOrder", !.row = Copy(t),
                               !.redispatch = TRUE]
  <2>1. /\ Copy(t) \in Delivery /\ Copy(t).consignment \in Order
        /\ NoOrder \notin Order
        /\ Copy(t).cancelled
        /\ ~torn => RowOK(Copy(t)) /\ Truthful(Copy(t))
    BY <1>5, NoDeliveryIsOK
       DEF Inv, TypeOK, Whole, CopyOK, Proper, Copy, SaveStatus, At, GoesOn
  <2>2. /\ r \in ThreadState /\ r.at = "createOrder" /\ r.row = Copy(t)
        /\ r.redispatch = TRUE /\ r.announce = FALSE
    BY <2>1 DEF Idle, ThreadState, Stage
  <2>3. thread' = [thread EXCEPT ![t] = r]
    BY <1>5
  <2> HIDE DEF r
  <2>4. Proper(r) /\ (~torn' => CopyOK(r))
    BY <1>2, <2>1, <2>2 DEF Proper, CopyOK, RowOK
  <2> QED BY <1>1, <1>2, <1>3, <2>2, <2>3, <2>4, CallKeeps
<1> QED BY <1>4, <1>5 DEF SaveStatus

-----------------------------------------------------------------------------
(* A step about the sale that leaves the orders alone.                     *)
LEMMA SaleKeeps ==
  ASSUME Inv, UNCHANGED order, TypeOK', Cash', Paid',
         ~torn' => ~torn,
         ~torn' => RowOK(delivery') /\ Truthful(delivery'),
         \A s \in Threads :
           \/ thread'[s] = thread[s]
           \/ /\ thread'[s].at \in {"idle", "collect", "commitRefusal"}
              /\ ~torn' => RowOK(thread'[s].row) /\ Truthful(thread'[s].row)
  PROVE  Inv'
<1>1. Whole'
  <2> SUFFICES ASSUME ~torn' PROVE Whole'
    BY DEF Whole
  <2>1. RowOK(delivery)' /\ Truthful(delivery)'
    BY DEF RowOK, Truthful
  <2>2. ASSUME NEW s \in Threads PROVE CopyOK(thread[s])'
    <3>1. CopyOK(thread[s])
      BY DEF Inv, Whole
    <3>2. CASE thread'[s] = thread[s]
      BY <3>1, <3>2 DEF CopyOK, Truthful
    <3>3. CASE /\ thread'[s].at \in {"idle", "collect", "commitRefusal"}
               /\ RowOK(thread'[s].row) /\ Truthful(thread'[s].row)
      BY <3>3 DEF CopyOK, Truthful, RowOK
    <3> QED BY <3>2, <3>3
  <2> QED BY <2>1, <2>2 DEF Whole
<1>2. \A s \in Threads : Proper(thread[s])'
  BY DEF Inv, Proper
<1> QED BY <1>1, <1>2 DEF Inv

LEMMA RowsAreOK ==
  ASSUME Inv
  PROVE  /\ ~torn => RowOK(delivery) /\ Truthful(delivery)
         /\ ~torn => \A s \in Threads :
                       RowOK(thread[s].row) /\ Truthful(thread[s].row)
  BY DEF Inv, Whole, CopyOK

LEMMA MarkCodCollectedKeeps ==
  ASSUME Inv, NEW t \in Threads, MarkCodCollected(t)
  PROVE  Inv'
<1>1. /\ UNCHANGED <<method, product, refusals, delivery, order, completed, history>>
      /\ thread' = [thread EXCEPT ![t] = Idle]
      /\ \A s \in Threads : thread[s].at # "commitRefusal"
  BY DEF MarkCodCollected, Return, PaymentLocked, At
<1>2. \/ UNCHANGED <<payment, toCreate>>
      \/ /\ payment = "COD_PENDING" /\ payment' = "SUCCESS"
         /\ toCreate' = toCreate \cup {"nothing"}
  BY DEF MarkCodCollected, CollectCash
<1>3. \A s \in Threads : thread'[s] \in {thread[s], Idle}
  BY <1>1 DEF Inv, TypeOK
<1>4. TypeOK'
  BY <1>1, <1>2, NoDeliveryIsOK DEF Inv, TypeOK, ThreadState, history
<1>5. Cash'
  BY <1>1, <1>2, <1>3, NoDeliveryIsOK DEF Inv, Cash, CollectedOrRefused, LockOK, At
<1>6. Paid'
  <2>1. Delivered /\ Delivered'
    BY <1>1 DEF Inv, Paid, MarkCodCollected, Delivered
  <2> QED BY <2>1 DEF Paid, CashMeansDelivered
<1>7. torn' = torn
  BY <1>1 DEF history
<1>8. /\ ~torn' => RowOK(delivery') /\ Truthful(delivery')
      /\ \A s \in Threads :
           \/ thread'[s] = thread[s]
           \/ thread'[s].at = "idle" /\ RowOK(thread'[s].row) /\ Truthful(thread'[s].row)
  BY <1>1, <1>3, <1>7, RowsAreOK, NoDeliveryIsOK
<1> QED BY <1>1, <1>4, <1>5, <1>6, <1>7, <1>8, SaleKeeps

(* The refusal takes the lock on the payment, which none other holds.      *)
LEMMA MarkCodRefusedKeeps ==
  ASSUME Inv, NEW t \in Threads, MarkCodRefused(t)
  PROVE  Inv'
<1> DEFINE d == [delivery EXCEPT !.returned = TRUE]
           r == IF delivery.exists
                THEN [Idle EXCEPT !.at = "commitRefusal", !.row = d,
                                  !.columns = {"returned"}]
                ELSE [Idle EXCEPT !.at = "commitRefusal", !.selected = TRUE]
<1>1. /\ UNCHANGED <<sale, delivery, order, events, history>>
      /\ thread' = [thread EXCEPT ![t] = r]
      /\ payment = "COD_PENDING"
      /\ \A s \in Threads : thread[s].at # "commitRefusal"
  BY DEF MarkCodRefused, Reads, PaymentLocked, Refusable, At
<1>2. /\ d \in Delivery /\ d.received = delivery.received
      /\ d.consignment = delivery.consignment /\ d.previous = delivery.previous
      /\ d.delivered = delivery.delivered /\ d.cancelled = delivery.cancelled
  BY DEF Inv, TypeOK, Delivery
<1>3. ~torn => RowOK(d) /\ Truthful(d)
  BY <1>2, RowsAreOK DEF RowOK, Truthful
<1> HIDE DEF d
<1>4. /\ r \in ThreadState /\ r.at = "commitRefusal" /\ r.row \in {d, NoDelivery}
      /\ r.announce = FALSE
  BY <1>2, NoDeliveryIsOK DEF ThreadState, Stage, Idle, Column
<1> HIDE DEF r
<1>5. /\ thread'[t] = r
      /\ \A s \in Threads \ {t} : thread'[s] = thread[s]
  BY <1>1 DEF Inv, TypeOK
<1>6. TypeOK'
  BY <1>1, <1>4 DEF Inv, TypeOK, ThreadState, sale, events, history
<1>7. Cash'
  BY <1>1, <1>4, <1>5 DEF Inv, Cash, CollectedOrRefused, LockOK, At, sale
<1>8. Paid'
  BY <1>1, <1>4, <1>5
     DEF Inv, Paid, CashMeansDelivered, Delivered, At, sale, events
<1>9. torn' = torn
  BY <1>1 DEF history
<1>10. /\ ~torn' => RowOK(delivery') /\ Truthful(delivery')
       /\ \A s \in Threads :
           \/ thread'[s] = thread[s]
           \/ /\ thread'[s].at = "commitRefusal"
              /\ ~torn' => RowOK(thread'[s].row) /\ Truthful(thread'[s].row)
  BY <1>1, <1>3, <1>4, <1>5, <1>9, RowsAreOK, NoDeliveryIsOK
<1> QED BY <1>1, <1>6, <1>7, <1>8, <1>9, <1>10, SaleKeeps

(* It SELECTs the delivery row under that lock ...                         *)
LEMMA SelectRefusalKeeps ==
  ASSUME Inv, NEW t \in Threads, Select(t), At(t, "commitRefusal")
  PROVE  Inv'
<1> DEFINE cs == {c \in Column : Copy(t)[c] # delivery[c]}
           r == [thread[t] EXCEPT !.selected = TRUE,
                                  !.columns = thread[t].columns \cup cs]
<1>1. thread \in [Threads -> ThreadState]
  BY DEF Inv, TypeOK, ThreadState
<1>2. cs \subseteq Column
  OBVIOUS
<1>3. /\ thread' = [thread EXCEPT ![t] = r]
      /\ UNCHANGED <<sale, delivery, order, events, history>>
  BY <1>1 DEF Select, ThreadState
<1> HIDE DEF cs
<1>4. /\ r \in ThreadState /\ r.at = thread[t].at /\ r.row = thread[t].row
      /\ r.announce = thread[t].announce
  BY <1>1, <1>2 DEF ThreadState
<1> HIDE DEF r
<1>5. /\ thread'[t] = r
      /\ \A s \in Threads \ {t} : thread'[s] = thread[s]
  BY <1>1, <1>3
<1>6. TypeOK'
  BY <1>3, <1>4 DEF Inv, TypeOK, ThreadState, sale, events, history
<1>7. Cash' /\ Paid'
  BY <1>3, <1>4, <1>5, MoneyKept DEF events
<1>8. torn' = torn /\ r.at = "commitRefusal"
  BY <1>3, <1>4 DEF history, At
<1>9. /\ ~torn' => RowOK(delivery') /\ Truthful(delivery')
      /\ \A s \in Threads :
           \/ thread'[s] = thread[s]
           \/ /\ thread'[s].at = "commitRefusal"
              /\ ~torn' => RowOK(thread'[s].row) /\ Truthful(thread'[s].row)
  BY <1>3, <1>4, <1>5, <1>8, RowsAreOK
<1> QED BY <1>3, <1>6, <1>7, <1>8, <1>9, SaleKeeps

(* ... and commits.                                                        *)
LEMMA CommitRefusalKeeps ==
  ASSUME Inv, NEW t \in Threads, CommitRefusal(t)
  PROVE  Inv'
<1>1. /\ UNCHANGED <<method, order, events, lost>>
      /\ payment' = "FAILED" /\ product' = "ABANDONED"
      /\ refusals' = refusals + 1
      /\ thread' = [thread EXCEPT ![t] = Idle]
      /\ Update(t)
  BY DEF CommitRefusal, Return
<1>2. /\ payment = "COD_PENDING"
      /\ \A s \in Threads \ {t} : thread[s].at # "commitRefusal"
  BY DEF CommitRefusal, Inv, Cash, LockOK, At
<1>3. refusals = 0
  BY <1>2 DEF Inv, TypeOK, Cash, CollectedOrRefused
<1>4. /\ delivery' \in Delivery /\ torn' \in BOOLEAN /\ (~torn' => ~torn)
      /\ ~torn' => RowOK(delivery') /\ Truthful(delivery')
  BY <1>1, UpdateKeeps
<1>5. /\ thread'[t] = Idle
      /\ \A s \in Threads \ {t} : thread'[s] = thread[s]
  BY <1>1 DEF Inv, TypeOK
<1>6. TypeOK'
  <2>1. refusals' \in 0..1
    BY <1>1, <1>3
  <2>2. lost' \in BOOLEAN
    BY <1>1 DEF Inv, TypeOK
  <2>3. thread' \in [Threads -> ThreadState]
    BY <1>1, NoDeliveryIsOK DEF Inv, TypeOK, ThreadState
  <2> QED BY <1>1, <1>4, <2>1, <2>2, <2>3 DEF Inv, TypeOK, ThreadState, events
<1>7. Cash'
  BY <1>1, <1>2, <1>3, <1>5, NoDeliveryIsOK DEF Cash, CollectedOrRefused, LockOK, At
<1>8. Paid'
  BY <1>1, <1>5, NoDeliveryIsOK
     DEF Inv, Paid, CashMeansDelivered, Delivered, At, events
<1> QED BY <1>1, <1>4, <1>5, <1>6, <1>7, <1>8, NoDeliveryIsOK, SaleKeeps

LEMMA OnDeliveryCompletedKeeps ==
  ASSUME Inv, NEW t \in Threads, OnDeliveryCompleted(t)
  PROVE  Inv'
<1> DEFINE r == [thread[t] EXCEPT !.at = "collect"]
<1>1. /\ UNCHANGED <<sale, delivery, order, toCreate, history>>
      /\ completed /\ completed' = FALSE
      /\ thread' \in {thread, [thread EXCEPT ![t] = r]}
  BY DEF OnDeliveryCompleted, Proceed
<1>2. /\ r.at = "collect" /\ r.row = thread[t].row
      /\ r.announce = thread[t].announce
      /\ [thread EXCEPT ![t] = r] \in [Threads -> ThreadState]
      /\ thread \in [Threads -> ThreadState]
  BY DEF Inv, TypeOK, ThreadState, Stage
<1> HIDE DEF r
<1>3. \A s \in Threads : \/ thread'[s] = thread[s]
                         \/ thread'[s].at = "collect" /\ thread'[s].row = thread[s].row
  BY <1>1, <1>2
<1>4. TypeOK'
  BY <1>1, <1>2 DEF Inv, TypeOK, ThreadState, sale, history
<1>5. Delivered
  BY <1>1 DEF Inv, Paid
<1>6. Cash' /\ Paid'
  BY <1>1, <1>3, <1>5, MoneyKept
<1>7. torn' = torn
  BY <1>1 DEF history
<1>8. /\ ~torn' => RowOK(delivery') /\ Truthful(delivery')
      /\ \A s \in Threads :
           \/ thread'[s] = thread[s]
           \/ /\ thread'[s].at = "collect"
              /\ ~torn' => RowOK(thread'[s].row) /\ Truthful(thread'[s].row)
  BY <1>1, <1>3, <1>7, RowsAreOK
<1> QED BY <1>1, <1>4, <1>6, <1>7, <1>8, SaleKeeps

-----------------------------------------------------------------------------
(* Calls that fail, or save without knowing.                               *)
LEMMA FailuresKeep ==
  ASSUME Inv, NEW t \in Threads,
         \/ SaveReceipt(t) \/ SaveOrder(t) \/ CallFails(t) \/ AnswerLost(t)
  PROVE  Inv'
<1>1. /\ Return(t) /\ UNCHANGED <<sale, order, events>>
      /\ Update(t) \/ UNCHANGED <<delivery, torn>>
  BY DEF SaveReceipt, SaveOrder, CallFails, AnswerLost
<1>2. lost' \in BOOLEAN
  <2>1. lost \in BOOLEAN /\ thread[t].announce \in BOOLEAN
    BY DEF Inv, TypeOK
  <2> QED BY <2>1 DEF SaveReceipt, SaveOrder, CallFails, AnswerLost, At
<1> QED BY <1>1, <1>2, ReturnKeeps

(* Events, Pathao and restarts.                                            *)
LEMMA OutsideKeeps ==
  ASSUME Inv,
         \/ \E amount \in {"nothing", "cash"} : CreateDelivery(amount)
         \/ \E o \in Order : PathaoDelivers(o) \/ PathaoCancels(o)
         \/ Crash
         \/ UNCHANGED vars
  PROVE  Inv'
<1>1. ASSUME NEW amount \in {"nothing", "cash"}, CreateDelivery(amount) PROVE Inv'
  <2> DEFINE d == [NoDelivery EXCEPT !.exists = TRUE, !.collect = amount]
  <2>1. /\ d \in Delivery /\ d.received = FALSE /\ d.consignment = NoOrder
        /\ d.delivered = FALSE /\ d.cancelled = FALSE /\ d.previous = {}
    BY NoDeliveryIsOK DEF NoDelivery, Delivery
  <2>2. /\ delivery' \in {delivery, d}
        /\ UNCHANGED <<sale, order, completed, thread, history>>
        /\ toCreate' \subseteq toCreate
    BY <1>1 DEF CreateDelivery
  <2> HIDE DEF d
  <2>3. /\ delivery' \in Delivery /\ torn' = torn
        /\ ~torn' => RowOK(delivery') /\ Truthful(delivery')
    BY <2>1, <2>2, RowsAreOK DEF Inv, TypeOK, RowOK, Truthful, history
  <2>4. TypeOK'
    BY <2>2, <2>3 DEF Inv, TypeOK, sale, history
  <2>5. Cash' /\ Paid'
    BY <2>2, MoneyKept
  <2> QED BY <2>2, <2>3, <2>4, <2>5, SaleKeeps
<1>2. ASSUME NEW o \in Order, PathaoDelivers(o) \/ PathaoCancels(o) PROVE Inv'
  <2>1. UNCHANGED <<sale, delivery, events, thread, history>>
    BY <1>2 DEF PathaoDelivers, PathaoCancels
  <2>2. /\ order' \in [Order -> {"none", "live", "delivered", "cancelled"}]
        /\ \A p \in Order : /\ order[p] = "cancelled" => order'[p] = "cancelled"
                            /\ order[p] = "delivered" => order'[p] = "delivered"
    BY <1>2 DEF PathaoDelivers, PathaoCancels, Inv, TypeOK
  <2>3. /\ thread' \in [Threads -> ThreadState]
        /\ \A s \in Threads : thread'[s] = thread[s]
    BY <2>1 DEF Inv, TypeOK, ThreadState
  <2> QED BY <2>1, <2>2, <2>3, OrdersKeep
<1>3. CASE Crash
  <2>1. /\ UNCHANGED <<sale, delivery, order, torn>>
        /\ toCreate' = {} /\ completed' = FALSE
        /\ lost' \in BOOLEAN
    BY <1>3 DEF Crash, Inv, TypeOK, At
  <2>2. /\ thread' \in [Threads -> ThreadState]
        /\ \A s \in Threads : thread'[s] = Idle
    BY <1>3, NoDeliveryIsOK DEF Crash
  <2>3. TypeOK'
    BY <2>1, <2>2 DEF Inv, TypeOK, ThreadState, sale
  <2>4. Cash' /\ Paid'
    BY <2>1, <2>2, NoDeliveryIsOK, MoneyKept
  <2> QED BY <2>1, <2>2, <2>3, <2>4, RowsAreOK, NoDeliveryIsOK, SaleKeeps
<1>4. CASE UNCHANGED vars
  <2>1. UNCHANGED <<sale, delivery, order, events, thread, history>>
    BY <1>4 DEF vars
  <2>2. TypeOK'
    BY <2>1 DEF Inv, TypeOK, sale, events, history
  <2>3. Cash' /\ Paid'
    BY <2>1, MoneyKept DEF events
  <2>4. torn' = torn
    BY <2>1 DEF history
  <2> QED BY <2>1, <2>2, <2>3, <2>4, RowsAreOK, SaleKeeps
<1> QED BY <1>1, <1>2, <1>3, <1>4

LEMMA InvIsInductive == Inv /\ [Next]_vars => Inv'
<1> SUFFICES ASSUME Inv, [Next]_vars PROVE Inv'
  OBVIOUS
<1>1. ASSUME NEW t \in Threads,
             Admin(t) \/ Poll(t) \/ OnDeliveryCompleted(t)
      PROVE  Inv'
  BY <1>1, CallsKeep, MarkCodRefusedKeeps, OnDeliveryCompletedKeeps DEF Admin
<1>2. ASSUME NEW t \in Threads, Step(t) \/ CallFails(t) \/ AnswerLost(t) PROVE Inv'
  BY <1>2, SelectKeeps, SelectRefusalKeeps, FailuresKeep, CreateOrderKeeps,
     OrderInfoArrivesKeeps, SaveStatusKeeps, MarkCodCollectedKeeps,
     CommitRefusalKeeps DEF Step
<1>3. CASE \/ \E amount \in {"nothing", "cash"} : CreateDelivery(amount)
           \/ \E o \in Order : PathaoDelivers(o) \/ PathaoCancels(o)
           \/ Crash
           \/ UNCHANGED vars
  BY <1>3, OutsideKeeps
<1> QED BY <1>1, <1>2, <1>3 DEF Next

LEMMA Invariant == Spec => []Inv
  BY InvInitially, InvIsInductive, PTL DEF Spec

-----------------------------------------------------------------------------
(* The delivery row, its copies and the orders keep their types.           *)
THEOREM TypeCorrect == Spec => []TypeOK
<1>1. Inv => TypeOK
  BY DEF Inv
<1> QED BY <1>1, Invariant, PTL

(* markCodCollected and abandonAfterCodRefusal never both win: the lock on *)
(* the payment and the condition of the update see to it.                  *)
THEOREM CollectedOrRefusedAlways == Spec => []CollectedOrRefused
<1>1. Inv => CollectedOrRefused
  BY DEF Inv, Cash
<1> QED BY <1>1, Invariant, PTL

(* Nothing but an order Pathao delivered makes markCodCollected settle a   *)
(* payment, not even the columns that overlapping saves mix.               *)
THEOREM CashMeansDeliveredAlways == Spec => []CashMeansDelivered
<1>1. Inv => CashMeansDelivered
  BY DEF Inv, Paid
<1> QED BY <1>1, Invariant, PTL

(* On however old a copy of the row redispatch decides, it puts no order   *)
(* aside that Pathao may still deliver, as long as no UPDATE has mixed two *)
(* copies.                                                                 *)
THEOREM SupersededUnlessTornAlways == Spec => []SupersededUnlessTorn
<1>1. Inv => SupersededUnlessTorn
  BY DEF Inv, Whole, Truthful, SupersededUnlessTorn, SupersededIsCancelled
<1> QED BY <1>1, Invariant, PTL

(* Every row is in the admin's list of the stage deliveryStageOf shows,    *)
(* and one that no UPDATE has mixed is in no other.                        *)
THEOREM ListedInItsStageAlways == Spec => []ListedInItsStage
<1>1. ASSUME Inv PROVE ListedInItsStage
  <2> DEFINE d == delivery
             st == DeliveryStageOf(d)
  <2>1. d \in Delivery /\ (~torn => RowOK(d))
    BY <1>1, RowsAreOK DEF Inv, TypeOK
  <2>2. st \in DeliveryStage /\ WhereStage(d, st)
    BY <2>1 DEF Delivery, DeliveryStageOf, WhereStage, DeliveryStage, InFlight
  <2>3. ASSUME ~torn, NEW s \in DeliveryStage, WhereStage(d, s) PROVE s = st
    BY <2>1, <2>3 DEF RowOK, DeliveryStageOf, WhereStage, DeliveryStage, InFlight
  <2> QED BY <2>2, <2>3 DEF ListedInItsStage
<1>2. Inv => ListedInItsStage
  BY <1>1
<1> QED BY <1>2, Invariant, PTL

-----------------------------------------------------------------------------
(* The client through which parcels are ordered carries out no call twice, *)
(* for every number of calls that share a token and of tokens granted.     *)

(* Before its work is done, nothing was done for a call; and one that waits *)
(* for a login, or is about to be sent again, is before its work.          *)
NotYetDone ==
  \A c \in Calls :
    /\ request[c].waits # None => request[c].at \in {"login", "refresh"}
    /\ request[c].at \in {"start", "login", "refresh", "sent"} => done[c] = 0
    /\ done[c] <= 1

(* Joining a login names one of the calls as the one it was begun by.      *)
LEMMA FlightIsACall ==
  ASSUME NEW c \in Calls
  PROVE  Flight(c) \in Calls
<1>1. CASE \E d \in Calls : login[d] # NoLogin
  <2>1. PICK d \in Calls : login[d] # NoLogin
    BY <1>1
  <2> QED BY <1>1, <2>1 DEF Flight
<1> QED BY <1>1 DEF Flight

LEMMA ZeroIsAToken == 0 \in Tokens
  BY GatewayAssumption DEF Tokens

LEMMA IdleIsTyped == NoRequest \in Request /\ NoLogin \in Grants
  BY ZeroIsAToken DEF NoRequest, Request, NoLogin, Grants

(* What a call that logs in becomes.                                       *)
LEMMA LoginIsTyped ==
  ASSUME ClientTypeOK, NEW c \in Calls, NEW at \in {"login", "refresh"},
         NEW refused \in Tokens,
         Login(c, [request[c] EXCEPT !.at = at, !.refused = refused])
  PROVE  /\ request' = [request EXCEPT ![c] =
              [request[c] EXCEPT !.at = at, !.refused = refused,
                                 !.waits = Flight(c)]]
         /\ request' \in [Calls -> Request]
         /\ login' \in [Calls -> Grants]
<1>1. Flight(c) \in Calls
  BY FlightIsACall
<1>2. request' = [request EXCEPT ![c] =
        [request[c] EXCEPT !.at = at, !.refused = refused,
                           !.waits = Flight(c)]]
  BY DEF Login
<1>3. request[c] \in Request /\ login[c] \in Grants
  BY DEF ClientTypeOK
<1>4. [request[c] EXCEPT !.at = at, !.refused = refused, !.waits = Flight(c)]
        \in Request
  BY <1>1, <1>3 DEF Request
<1>5. \A g \in {"refresh_token", "password"} :
        [login[c] EXCEPT !.grant = g] \in Grants
  BY <1>3 DEF Grants
<1>6. login' \in [Calls -> Grants]
  <2>1. CASE login' = login
    BY <2>1 DEF ClientTypeOK
  <2>2. CASE \E g \in {"refresh_token", "password"} :
               login' = [login EXCEPT ![c] = [@ EXCEPT !.grant = g]]
    BY <2>2, <1>5 DEF ClientTypeOK
  <2> QED BY <2>1, <2>2 DEF Login
<1> QED BY <1>2, <1>4, <1>6 DEF ClientTypeOK

(* The three flags are Boolean, and the rest is of its type: the provers   *)
(* treat the two apart.                                                    *)
Flags == fresh \in BOOLEAN /\ renewable \in BOOLEAN /\ listed \in BOOLEAN
Fields == /\ cached \in Tokens /\ issued \in Tokens /\ revoked \subseteq Tokens
          /\ login \in [Calls -> Grants]
          /\ request \in [Calls -> Request]
          /\ done \in [Calls -> 0..2]

LEMMA TypeParts == /\ ClientTypeOK <=> Flags /\ Fields
                   /\ ClientTypeOK' <=> Flags' /\ Fields'
  BY Zenon DEF ClientTypeOK, Flags, Fields

ClientInv == Fields /\ NotYetDone

(* Every reachable state is made of values the fields can hold, and a call *)
(* for which the provider has worked is never on its way to it again.      *)
LEMMA ClientInvariant == ClientSpec => [](Flags /\ ClientInv)
<1>1. ClientInit => Flags /\ ClientInv
  <2> SUFFICES ASSUME ClientInit PROVE Flags /\ ClientInv
    OBVIOUS
  <2>1. Flags
    BY Zenon DEF ClientInit, Flags
  <2>2. Fields
    BY ZeroIsAToken, IdleIsTyped DEF ClientInit, Fields
  <2>3. NotYetDone
    BY DEF ClientInit, NotYetDone, NoRequest
  <2> QED BY <2>1, <2>2, <2>3 DEF ClientInv
<1>2. Flags /\ ClientInv /\ [ClientNext]_clientVars => Flags' /\ ClientInv'
  <2> SUFFICES ASSUME Flags, ClientInv, [ClientNext]_clientVars PROVE Flags' /\ ClientInv'
    OBVIOUS
  <2> USE ZeroIsAToken, IdleIsTyped
  <2>0. /\ Fields /\ NotYetDone /\ ClientTypeOK
        /\ \A c \in Calls : request[c] \in Request /\ login[c] \in Grants
    BY TypeParts DEF ClientInv, Fields
  <2>1. ASSUME NEW c \in Calls, NEW kind \in {"plain", "list"}, BeginCall(c, kind)
        PROVE  Flags' /\ ClientInv'
    <3>1. [NoRequest EXCEPT !.at = "start", !.kind = kind] \in Request
      BY DEF Request, NoRequest
    <3>2. Fields'
      BY <2>0, <2>1, <3>1 DEF BeginCall, Fields
    <3>3. NotYetDone'
      BY <2>0, <2>1 DEF BeginCall, NoRequest, Fields, NotYetDone
    <3>4. Flags'
      BY <2>1, Zenon DEF BeginCall, Flags
    <3> QED BY <3>2, <3>3, <3>4 DEF ClientInv
  <2>2. ASSUME NEW c \in Calls, GetAuthHeader(c) PROVE Flags' /\ ClientInv'
    <3>1. UNCHANGED <<cached, fresh, renewable, listed, issued, revoked, done>>
      BY <2>2 DEF GetAuthHeader
    <3>2. CASE cached # 0 /\ fresh
      <4>1. [request[c] EXCEPT !.at = "sent", !.token = cached] \in Request
        BY <2>0 DEF Request, Fields
      <4>2. /\ request' = [request EXCEPT ![c] =
                 [request[c] EXCEPT !.at = "sent", !.token = cached]]
            /\ login' = login /\ request[c].at = "start"
        BY <2>2, <3>2 DEF GetAuthHeader
      <4>3. Fields'
        BY <2>0, <3>1, <4>1, <4>2 DEF Fields
      <4>4. NotYetDone'
        BY <2>0, <3>1, <4>2 DEF NotYetDone, Fields, Request
      <4> QED BY <3>1, <4>3, <4>4 DEF Flags, ClientInv
    <3>3. CASE ~(cached # 0 /\ fresh)
      <4>1. request[c].refused \in Tokens
        BY <2>0 DEF Request
      <4>2. [request[c] EXCEPT !.at = "login"]
              = [request[c] EXCEPT !.at = "login",
                                   !.refused = request[c].refused]
        BY <2>0 DEF Request
      <4>3. Login(c, [request[c] EXCEPT !.at = "login",
                                        !.refused = request[c].refused])
            /\ request[c].at = "start"
        BY <2>2, <3>3, <4>2 DEF GetAuthHeader
      <4>4. Fields'
        BY <2>0, <3>1, <4>1, <4>3, LoginIsTyped DEF Fields
      <4>5. request' = [request EXCEPT ![c] =
              [request[c] EXCEPT !.at = "login", !.refused = request[c].refused,
                                 !.waits = Flight(c)]]
        BY <4>3 DEF Login
      <4>6. NotYetDone'
        BY <2>0, <3>1, <4>3, <4>5 DEF NotYetDone, Fields, Request
      <4> QED BY <3>1, <4>4, <4>6 DEF Flags, ClientInv
    <3> QED BY <3>2, <3>3
  <2>3. ASSUME NEW c \in Calls, Grant(c) PROVE Flags' /\ ClientInv'
    <3>1. issued' \in Tokens
      BY <2>0, <2>3, GatewayAssumption DEF Grant, Tokens, Fields
    <3>2. /\ login' = [login EXCEPT ![c] = [@ EXCEPT !.token = issued']]
          /\ UNCHANGED <<cached, fresh, renewable, request, listed, revoked,
                         done>>
      BY <2>3 DEF Grant
    <3>3. [login[c] EXCEPT !.token = issued'] \in Grants
      BY <2>0, <3>1 DEF Grants
    <3>4. Fields'
      BY <2>0, <3>1, <3>2, <3>3 DEF Fields
    <3>5. NotYetDone'
      BY <2>0, <3>2 DEF NotYetDone
    <3> QED BY <3>2, <3>4, <3>5 DEF Flags, ClientInv
  <2>4. ASSUME NEW c \in Calls, IssueToken(c) PROVE Flags' /\ ClientInv'
    <3>1. /\ cached' = login[c].token
          /\ login' = [login EXCEPT ![c] = NoLogin]
          /\ UNCHANGED <<listed, issued, revoked, done>>
      BY <2>4 DEF IssueToken
    <3>2. login[c].token \in Tokens
      BY <2>0 DEF Grants
    <3>3. \A d \in Calls :
            /\ [request[d] EXCEPT !.at = "start", !.waits = None] \in Request
            /\ [request[d] EXCEPT !.at = "sent", !.waits = None,
                                  !.token = login[c].token] \in Request
      BY <2>0, <3>2 DEF Request
    <3>4. request' \in [Calls -> Request]
      BY <2>0, <2>4, <3>3 DEF IssueToken
    <3>5. Fields'
      BY <2>0, <3>1, <3>2, <3>4 DEF Fields
    <3>6. NotYetDone'
      <4> SUFFICES ASSUME NEW d \in Calls
                   PROVE  /\ request'[d].waits # None
                               => request'[d].at \in {"login", "refresh"}
                          /\ request'[d].at
                               \in {"start", "login", "refresh", "sent"}
                               => done[d] = 0
        BY <2>0, <3>1 DEF NotYetDone
      <4>1. CASE request[d].waits # c
        BY <2>0, <2>4, <4>1 DEF IssueToken, NotYetDone
      <4>2. CASE request[d].waits = c
        <5>1. done[d] = 0
          BY <2>0, <4>2, GatewayAssumption DEF NotYetDone
        <5>2. request'[d].waits = None
          BY <2>0, <2>4, <4>2 DEF IssueToken, Request
        <5> QED BY <5>1, <5>2
      <4> QED BY <4>1, <4>2
    <3>7. Flags'
      BY <2>4, Zenon DEF IssueToken, Flags
    <3> QED BY <3>5, <3>6, <3>7 DEF ClientInv
  <2>5. ASSUME NEW c \in Calls, LoginFails(c) PROVE Flags' /\ ClientInv'
    <3>1. [grant |-> "password", token |-> 0] \in Grants
      BY DEF Grants
    <3>2. UNCHANGED <<cached, fresh, listed, issued, revoked, done>>
      BY <2>5 DEF LoginFails
    <3>3. Fields'
      BY <2>0, <2>5, <3>1, <3>2 DEF LoginFails, Fields
    <3>4. NotYetDone'
      BY <2>0, <2>5, <3>2 DEF LoginFails, NoRequest, NotYetDone, Fields
    <3>5. Flags'
      BY <2>5, Zenon DEF LoginFails, Flags
    <3> QED BY <3>3, <3>4, <3>5 DEF ClientInv
  <2>6. ASSUME NEW c \in Calls, Work(c) PROVE Flags' /\ ClientInv'
    <3>1. [request[c] EXCEPT !.at = "worked"] \in Request
      BY <2>0 DEF Request
    <3>2. done[c] = 0
      BY <2>0, <2>6 DEF Work, NotYetDone
    <3>3. Fields'
      BY <2>0, <2>6, <3>1, <3>2 DEF Work, Fields
    <3>4. NotYetDone'
      BY <2>0, <2>6, <3>2 DEF Work, NotYetDone, Fields, Request
    <3> QED BY <2>6, <3>3, <3>4 DEF Work, Flags, ClientInv
  <2>7. ASSUME NEW c \in Calls, Answer(c) PROVE Flags' /\ ClientInv'
    <3>1. Flags'
      BY <2>7, Zenon DEF Answer, Flags
    <3>2. Fields'
      BY <2>0, <2>7 DEF Answer, Fields
    <3>3. NotYetDone'
      BY <2>0, <2>7 DEF Answer, NotYetDone, Fields, NoRequest
    <3> QED BY <3>1, <3>2, <3>3 DEF ClientInv
  <2>8. ASSUME NEW c \in Calls, Unauthorized(c) \/ Lost(c)
        PROVE  Flags' /\ ClientInv'
    <3>1. UNCHANGED <<renewable, listed, issued, revoked, done>>
      BY <2>8 DEF Unauthorized, Lost, Fails
    <3>2. CASE request' = [request EXCEPT ![c] = NoRequest]
               /\ UNCHANGED <<cached, fresh, login>>
      <4>1. Fields'
        BY <2>0, <3>1, <3>2 DEF Fields
      <4>2. NotYetDone'
        BY <2>0, <3>1, <3>2 DEF NotYetDone, Fields, NoRequest
      <4> QED BY <3>1, <3>2, <4>1, <4>2 DEF Flags, ClientInv
    <3>3. CASE request[c].at = "sent" /\ ForceRefresh(c)
      <4>1. Login(c, [request[c] EXCEPT !.at = "refresh",
                                        !.refused = request[c].token])
            /\ cached' = 0 /\ fresh' = FALSE
        BY <3>3 DEF ForceRefresh
      <4>2. request[c].token \in Tokens
        BY <2>0 DEF Request
      <4>3. Fields'
        BY <2>0, <3>1, <4>1, <4>2, LoginIsTyped DEF Fields
      <4>4. request' = [request EXCEPT ![c] =
              [request[c] EXCEPT !.at = "refresh", !.refused = request[c].token,
                                 !.waits = Flight(c)]]
        BY <4>1 DEF Login
      <4>5. NotYetDone'
        BY <2>0, <3>1, <3>3, <4>4 DEF NotYetDone, Fields, Request
      <4>6. Flags'
        BY <3>1, <4>1, Zenon DEF Flags
      <4> QED BY <4>3, <4>5, <4>6 DEF ClientInv
    <3> QED BY <2>8, <3>2, <3>3, Zenon DEF Unauthorized, Lost, Fails, Retried
  <2>9. CASE Expire
    <3>1. Flags'
      BY <2>9, Zenon DEF Expire, Flags
    <3>2. ClientInv'
      BY <2>0, <2>9 DEF Expire, ClientInv, Fields, NotYetDone
    <3> QED BY <3>1, <3>2
  <2>10. CASE Revoke
    <3>1. PICK t \in 1..issued : revoked' = revoked \cup {t}
      BY <2>10 DEF Revoke
    <3>2. t \in Tokens
      BY <2>0, GatewayAssumption DEF Fields, Tokens
    <3>3. Fields'
      BY <2>0, <2>10, <3>1, <3>2 DEF Revoke, Fields
    <3> QED BY <2>0, <2>10, <3>3 DEF Revoke, Flags, ClientInv, NotYetDone
  <2>11. CASE UNCHANGED clientVars
    BY <2>0, <2>11 DEF clientVars, Flags, ClientInv, Fields, NotYetDone
  <2> QED BY <2>1, <2>2, <2>3, <2>4, <2>5, <2>6, <2>7, <2>8, <2>9, <2>10, <2>11
          DEF ClientNext, CreateParcel, GenerateIntentQr, GetOrderInfo,
              GetPaymentStatus, GetBankList, GetLocations
<1> QED BY <1>1, <1>2, PTL DEF ClientSpec

(* Every reachable state is made of values the fields can hold.            *)
THEOREM ClientTypeCorrect == ClientSpec => []ClientTypeOK
<1>1. Flags /\ ClientInv => ClientTypeOK
  BY TypeParts DEF ClientInv
<1> QED BY <1>1, ClientInvariant, PTL

(* However the calls of an order, the logins and the refusals overlap, the *)
(* provider does the work of one call at most once: a refusal is the only  *)
(* thing followed by another try, and a refused call has done nothing.     *)
THEOREM OrderedOnceAlways == ClientSpec => []OrderedOnce
<1>1. Flags /\ ClientInv => OrderedOnce
  BY DEF ClientInv, NotYetDone, OrderedOnce
<1> QED BY <1>1, ClientInvariant, PTL

=============================================================================
