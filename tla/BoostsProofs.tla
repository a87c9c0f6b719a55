----------------------------- MODULE BoostsProofs -----------------------------
(***************************************************************************)
(* Only paid boosts run, for every number of requests and sweeps in        *)
(* progress, of purchases and of restarts.                                 *)
(***************************************************************************)
EXTENDS Boosts, FiniteSetTheorems, TLAPS

ThreadState == [at: Stage, item: Item \cup {NoItem}, paid: BOOLEAN]

(* A thread is about an item there is, and one that is about to record a   *)
(* verdict was given it by Fonepay.                                        *)
ThreadOK(t) ==
  /\ thread[t].item \in Created \cup {NoItem}
  /\ thread[t].at \in {"confirm", "activate", "markSuccess"} =>
       charge[thread[t].item] = "paid"
  /\ thread[t].at = "markFailed" => charge[thread[t].item] = "failed"

(* Items are numbered as they are created, and none is paid for before.    *)
Numbered ==
  /\ \E n \in 0..MaxItems : Created = 1..n
  /\ \A i \in Item : payment[i] # "none" => i \in Created

Inv == /\ TypeOK /\ Numbered /\ OnlyPaidBoostsRun
       /\ \A t \in Threads : ThreadOK(t)

LEMMA IdleIsTyped == Idle \in ThreadState /\ NoItem \notin Item
  BY BoostsAssumption DEF Idle, ThreadState, Stage, Item, NoItem

LEMMA InvInitially == Init => Inv
<1> SUFFICES ASSUME Init PROVE Inv
  OBVIOUS
<1>1. TypeOK
  <2>1. crashes \in 0..MaxCrashes
    BY BoostsAssumption DEF Init
  <2>2. /\ thread \in [Threads -> ThreadState]
        /\ \A t \in Threads : thread[t].at = "idle"
    BY IdleIsTyped DEF Init, Idle
  <2> QED BY <2>1, <2>2 DEF Init, TypeOK, ThreadState
<1>2. Numbered
  <2>1. Created = 1..0 /\ 0 \in 0..MaxItems
    BY BoostsAssumption DEF Init, Created
  <2> QED BY <2>1 DEF Numbered, Init
<1>3. OnlyPaidBoostsRun /\ \A t \in Threads : ThreadOK(t)
  BY DEF Init, OnlyPaidBoostsRun, ThreadOK, Idle, NoItem
<1> QED BY <1>1, <1>2, <1>3 DEF Inv

(* Items are numbered as they are created, so the latest is well defined.  *)
LEMMA LatestIsCreated ==
  ASSUME Inv, Created # {}
  PROVE  Max(Created) \in Created
<1>1. PICK n \in 0..MaxItems : Created = 1..n
  BY DEF Inv, Numbered
<1>2. n \in Created /\ \A m \in Created : n >= m
  BY <1>1, BoostsAssumption
<1> QED BY <1>2 DEF Max

LEMMA NextItem ==
  ASSUME Inv, NEW i \in Item, i = Cardinality(Created) + 1
  PROVE  /\ i \notin Created
         /\ \E n \in 0..MaxItems : Created \cup {i} = 1..n
<1>1. PICK n \in 0..MaxItems : Created = 1..n
  BY DEF Inv, Numbered
<1>2. Cardinality(Created) = n
  BY <1>1, FS_Interval, BoostsAssumption
<1>3. i = n + 1 /\ n + 1 \in 0..MaxItems
  BY <1>2, BoostsAssumption DEF Item
<1>4. Created \cup {i} = 1..(n + 1) /\ i \notin Created
  BY <1>1, <1>3, BoostsAssumption
<1> QED BY <1>3, <1>4

-----------------------------------------------------------------------------
(* A step of one thread.                                                   *)
LEMMA ThreadStepKeeps ==
  ASSUME Inv, NEW t \in Threads, NEW r \in ThreadState,
         thread' = [thread EXCEPT ![t] = r], Untouched,
         r.item = NoItem => r.at \in {"idle", "createItem"},
         r.item \in Created' \cup {NoItem}, Created \subseteq Created',
         r.at \in {"confirm", "activate", "markSuccess"} => charge[r.item] = "paid",
         r.at = "markFailed" => charge[r.item] = "failed",
         item' \in [Item -> {"none", "PENDING_PAYMENT", "ACTIVE", "EXPIRED",
                             "CANCELLED"}],
         payment' \in [Item -> {"none", "PENDING", "SUCCESS", "FAILED", "EXPIRED"}],
         \A i \in Item : payment[i] # "none" => payment'[i] # "none",
         Numbered', OnlyPaidBoostsRun'
  PROVE  Inv'
<1>1. /\ thread'[t] = r
      /\ \A s \in Threads \ {t} : thread'[s] = thread[s]
      /\ UNCHANGED <<biddable, due, charge, crashes>>
  BY DEF Inv, TypeOK, Untouched
<1>2. TypeOK'
  <2>1. thread' \in [Threads -> ThreadState]
    BY DEF Inv, TypeOK, ThreadState
  <2>2. \A s \in Threads : thread'[s].item = NoItem =>
                             thread'[s].at \in {"idle", "createItem"}
    BY <1>1 DEF Inv, TypeOK
  <2>3. due' \subseteq {i \in Item : payment'[i] # "none"}
    BY <1>1 DEF Inv, TypeOK
  <2>4. biddable' \in BOOLEAN /\ crashes' \in 0..MaxCrashes
        /\ charge' \in [Item -> {"open", "paid", "failed"}]
    BY <1>1 DEF Inv, TypeOK
  <2> QED BY <2>1, <2>2, <2>3, <2>4 DEF TypeOK, ThreadState
<1>3. \A s \in Threads : ThreadOK(s)'
  BY <1>1 DEF Inv, ThreadOK
<1> QED BY <1>2, <1>3 DEF Inv

(* The row of an item and that of its payment, as one statement writes     *)
(* them: no status that Fonepay does not bear out.                         *)
LEMMA WritesKeep ==
  ASSUME Inv, Untouched, NEW i \in Item,
         NEW a \in {"ACTIVE", "CANCELLED"},
         NEW b \in {"PENDING", "SUCCESS", "FAILED", "EXPIRED"},
         \/ UNCHANGED <<item, payment>>
         \/ /\ item' = [item EXCEPT ![i] = a] /\ UNCHANGED payment
            /\ item[i] # "none" /\ (a = "ACTIVE" => charge[i] = "paid")
         \/ /\ payment' = [payment EXCEPT ![i] = b] /\ UNCHANGED item
            /\ item[i] # "none"
            /\ b = "SUCCESS" => charge[i] = "paid"
            /\ b = "FAILED" => charge[i] = "failed"
  PROVE  /\ item' \in [Item -> {"none", "PENDING_PAYMENT", "ACTIVE", "EXPIRED",
                                "CANCELLED"}]
         /\ payment' \in [Item -> {"none", "PENDING", "SUCCESS", "FAILED",
                                   "EXPIRED"}]
         /\ \A j \in Item : payment[j] # "none" => payment'[j] # "none"
         /\ Numbered' /\ OnlyPaidBoostsRun' /\ Created' = Created
<1>1. /\ item' \in [Item -> {"none", "PENDING_PAYMENT", "ACTIVE", "EXPIRED",
                             "CANCELLED"}]
      /\ payment' \in [Item -> {"none", "PENDING", "SUCCESS", "FAILED", "EXPIRED"}]
      /\ \A j \in Item : payment[j] # "none" => payment'[j] # "none"
  BY DEF Inv, TypeOK
<1>2. Created' = Created
  BY DEF Created, Inv, TypeOK
<1>3. Numbered'
  <2>1. \A j \in Item : payment'[j] # "none" => j \in Created
    BY DEF Inv, TypeOK, Numbered, Created
  <2> QED BY <1>2, <2>1 DEF Inv, Numbered
<1>4. OnlyPaidBoostsRun'
  BY DEF Inv, TypeOK, OnlyPaidBoostsRun, Untouched
<1> QED BY <1>1, <1>2, <1>3, <1>4

(* A thread begins, having read but not written.                           *)
LEMMA StartKeeps ==
  ASSUME Inv, NEW t \in Threads, NEW i \in Created \cup {NoItem},
         NEW stage \in {"findPayment", "createItem", "ask", "markExpired"},
         Start(t, stage, i), i = NoItem => stage = "createItem",
         UNCHANGED <<item, payment>>, Untouched
  PROVE  Inv'
<1> DEFINE r == [Idle EXCEPT !.at = stage, !.item = i]
<1>1. /\ r \in ThreadState /\ r.at = stage /\ r.item = i
  BY DEF Idle, ThreadState, Stage, Created
<1>2. thread' = [thread EXCEPT ![t] = r]
  BY DEF Start
<1> HIDE DEF r
<1>3. Created' = Created
  BY DEF Created
<1>4. /\ Numbered' /\ OnlyPaidBoostsRun'
      /\ item' \in [Item -> {"none", "PENDING_PAYMENT", "ACTIVE", "EXPIRED",
                             "CANCELLED"}]
      /\ payment' \in [Item -> {"none", "PENDING", "SUCCESS", "FAILED", "EXPIRED"}]
      /\ \A j \in Item : payment[j] # "none" => payment'[j] # "none"
  BY <1>3 DEF Inv, TypeOK, Numbered, OnlyPaidBoostsRun, Untouched
<1> QED BY <1>1, <1>2, <1>3, <1>4, ThreadStepKeeps

(* A statement of a thread, and where it goes.                             *)
LEMMA StatementKeeps ==
  ASSUME Inv, NEW t \in Threads, NEW r \in ThreadState,
         thread' = [thread EXCEPT ![t] = r], Untouched,
         r.item \in {thread[t].item, NoItem},
         r.item = NoItem => r.at \in {"idle", "createItem"},
         r.at \in {"confirm", "activate", "markSuccess"} => charge[r.item] = "paid",
         r.at = "markFailed" => charge[r.item] = "failed",
         thread[t].item # NoItem,
         NEW a \in {"ACTIVE", "CANCELLED"},
         NEW b \in {"PENDING", "SUCCESS", "FAILED", "EXPIRED"},
         LET i == thread[t].item IN
         \/ UNCHANGED <<item, payment>>
         \/ /\ item' = [item EXCEPT ![i] = a] /\ UNCHANGED payment
            /\ a = "ACTIVE" => charge[i] = "paid"
         \/ /\ payment' = [payment EXCEPT ![i] = b] /\ UNCHANGED item
            /\ b = "SUCCESS" => charge[i] = "paid"
            /\ b = "FAILED" => charge[i] = "failed"
  PROVE  Inv'
<1>1. thread[t].item \in Created
  BY DEF Inv, ThreadOK
<1>2. PICK i \in Item : i = thread[t].item /\ item[i] # "none"
  BY <1>1 DEF Created
<1>3. /\ item' \in [Item -> {"none", "PENDING_PAYMENT", "ACTIVE", "EXPIRED",
                             "CANCELLED"}]
      /\ payment' \in [Item -> {"none", "PENDING", "SUCCESS", "FAILED", "EXPIRED"}]
      /\ \A j \in Item : payment[j] # "none" => payment'[j] # "none"
      /\ Numbered' /\ OnlyPaidBoostsRun' /\ Created' = Created
  BY <1>2, WritesKeep
<1>4. r.item \in Created' \cup {NoItem}
  BY <1>1, <1>3
<1> QED BY <1>3, <1>4, ThreadStepKeeps

LEMMA StepsKeep ==
  ASSUME Inv, NEW t \in Threads, Step(t), ~CreateItem(t)
  PROVE  Inv'
<1> DEFINE i == thread[t].item
           to(stage) == [thread[t] EXCEPT !.at = stage]
<1>1. /\ thread \in [Threads -> ThreadState] /\ Untouched
      /\ i # NoItem
      /\ i \in Created /\ Mine(t) = i
      /\ thread[t].paid \in BOOLEAN
  BY DEF Inv, TypeOK, ThreadState, ThreadOK, Step, FindPayment, CancelStale,
         ExpireStale, CreatePayment, AskFonepay, ConfirmSuccess, Activate,
         MarkSuccess, MarkFailed, MarkExpired, CancelItem, At, Mine
<1>2. /\ Idle \in ThreadState /\ Idle.at = "idle" /\ Idle.item = NoItem
      /\ [Idle EXCEPT !.at = "createItem"] \in ThreadState
      /\ [Idle EXCEPT !.at = "createItem"].at = "createItem"
      /\ [Idle EXCEPT !.at = "createItem"].item = NoItem
      /\ "CANCELLED" \in {"ACTIVE", "CANCELLED"}
      /\ "PENDING" \in {"PENDING", "SUCCESS", "FAILED", "EXPIRED"}
  BY IdleIsTyped DEF Idle, ThreadState, Stage
<1>3. \A stage \in Stage : /\ to(stage) \in ThreadState
                           /\ to(stage).at = stage /\ to(stage).item = i
  BY <1>1 DEF ThreadState
<1>4. CASE FindPayment(t)
  <2> DEFINE b == payment[i] = "PENDING"
             r == [thread[t] EXCEPT !.at = "cancelStale", !.paid = b]
  <2>1. b \in BOOLEAN
    OBVIOUS
  <2>2. \/ thread' = [thread EXCEPT ![t] = Idle]
        \/ thread' = [thread EXCEPT ![t].at = "cancelStale", ![t].paid = b]
    BY <1>1, <1>4 DEF FindPayment, Return
  <2> HIDE DEF b
  <2>3. r \in ThreadState /\ r.at = "cancelStale" /\ r.item = i
    BY <1>1, <2>1 DEF ThreadState, Stage
  <2>4. \/ thread' = [thread EXCEPT ![t] = Idle]
        \/ thread' = [thread EXCEPT ![t] = r]
    BY <1>1, <2>2 DEF ThreadState
  <2>5. UNCHANGED <<item, payment>>
    BY <1>4 DEF FindPayment
  <2> HIDE DEF r
  <2> QED BY <1>1, <1>2, <2>3, <2>4, <2>5, StatementKeeps
<1>5. CASE CancelStale(t)
  <2>1. /\ item' = [item EXCEPT ![i] = "CANCELLED"] /\ UNCHANGED payment
        /\ \/ thread' = [thread EXCEPT ![t] = to("expireStale")]
           \/ thread' = [thread EXCEPT ![t] = [Idle EXCEPT !.at = "createItem"]]
    BY <1>1, <1>5 DEF CancelStale, Goto, GotoCreateItem
  <2>2. /\ to("expireStale") \in ThreadState
        /\ to("expireStale").at = "expireStale" /\ to("expireStale").item = i
    BY <1>3 DEF Stage
  <2> HIDE DEF to
  <2> QED BY <1>1, <1>2, <2>1, <2>2, StatementKeeps
<1>6. CASE ExpireStale(t)
  <2>1. /\ payment' = [payment EXCEPT ![i] = "EXPIRED"] /\ UNCHANGED item
        /\ thread' = [thread EXCEPT ![t] = [Idle EXCEPT !.at = "createItem"]]
    BY <1>1, <1>6 DEF ExpireStale, GotoCreateItem
  <2> QED BY <1>1, <1>2, <2>1, StatementKeeps
<1>7. CASE CreatePayment(t)
  <2>1. /\ \/ UNCHANGED payment
           \/ payment' = [payment EXCEPT ![i] = "PENDING"]
        /\ UNCHANGED item
        /\ thread' = [thread EXCEPT ![t] = Idle]
    BY <1>1, <1>7 DEF CreatePayment, Return
  <2> QED BY <1>1, <1>2, <2>1, StatementKeeps
<1>8. CASE AskFonepay(t)
  <2>1. \/ thread' = [thread EXCEPT ![t] = Idle]
        \/ charge[i] = "paid" /\ thread' = [thread EXCEPT ![t] = to("confirm")]
        \/ charge[i] = "failed" /\ thread' = [thread EXCEPT ![t] = to("markFailed")]
    BY <1>1, <1>8 DEF AskFonepay, Return, Answer
  <2>2. /\ to("confirm") \in ThreadState /\ to("markFailed") \in ThreadState
        /\ to("confirm").at = "confirm" /\ to("confirm").item = i
        /\ to("markFailed").at = "markFailed" /\ to("markFailed").item = i
    BY <1>3 DEF Stage
  <2>3. UNCHANGED <<item, payment>>
    BY <1>8 DEF AskFonepay
  <2> HIDE DEF to
  <2> QED BY <1>1, <1>2, <2>1, <2>2, <2>3, StatementKeeps
<1>9. CASE ConfirmSuccess(t) \/ Activate(t)
  <2>1. charge[i] = "paid"
    BY <1>9 DEF Inv, ThreadOK, ConfirmSuccess, Activate, At
  <2>2. \/ /\ UNCHANGED <<item, payment>>
           /\ \/ thread' = [thread EXCEPT ![t] = Idle]
              \/ thread' = [thread EXCEPT ![t] = to("activate")]
        \/ /\ item' = [item EXCEPT ![i] = "ACTIVE"] /\ UNCHANGED payment
           /\ thread' = [thread EXCEPT ![t] = to("markSuccess")]
    BY <1>1, <1>9 DEF ConfirmSuccess, Activate, Return, Goto
  <2>3. /\ to("activate") \in ThreadState /\ to("markSuccess") \in ThreadState
        /\ to("activate").at = "activate" /\ to("activate").item = i
        /\ to("markSuccess").at = "markSuccess" /\ to("markSuccess").item = i
    BY <1>3 DEF Stage
  <2> HIDE DEF to
  <2> QED BY <1>1, <1>2, <2>1, <2>2, <2>3, StatementKeeps
<1>10. CASE MarkSuccess(t)
  <2>1. /\ payment' = [payment EXCEPT ![i] = "SUCCESS"] /\ UNCHANGED item
        /\ thread' = [thread EXCEPT ![t] = Idle]
        /\ charge[i] = "paid"
    BY <1>1, <1>10 DEF MarkSuccess, Return, Inv, ThreadOK, At
  <2> QED BY <1>1, <1>2, <2>1, StatementKeeps
<1>11. CASE MarkFailed(t) \/ MarkExpired(t)
  <2>1. PICK b \in {"FAILED", "EXPIRED"} :
          /\ b = "FAILED" => charge[i] = "failed"
          /\ \/ /\ payment' = [payment EXCEPT ![i] = b]
                /\ thread' = [thread EXCEPT ![t] = to("cancelItem")]
             \/ UNCHANGED payment /\ thread' = [thread EXCEPT ![t] = Idle]
          /\ UNCHANGED item
    BY <1>1, <1>11 DEF MarkFailed, MarkExpired, Return, Goto, Inv, ThreadOK, At
  <2>2. /\ to("cancelItem") \in ThreadState
        /\ to("cancelItem").at = "cancelItem" /\ to("cancelItem").item = i
    BY <1>3 DEF Stage
  <2> HIDE DEF to
  <2> QED BY <1>1, <1>2, <2>1, <2>2, StatementKeeps
<1>12. CASE CancelItem(t)
  <2>1. /\ item' = [item EXCEPT ![i] = "CANCELLED"] /\ UNCHANGED payment
        /\ thread' = [thread EXCEPT ![t] = Idle]
    BY <1>1, <1>12 DEF CancelItem, Return
  <2> QED BY <1>1, <1>2, <2>1, StatementKeeps
<1> QED BY <1>4, <1>5, <1>6, <1>7, <1>8, <1>9, <1>10, <1>11, <1>12 DEF Step

LEMMA CreateItemKeeps ==
  ASSUME Inv, NEW t \in Threads, CreateItem(t)
  PROVE  Inv'
<1>1. Untouched /\ UNCHANGED payment
  BY DEF CreateItem
<1>2. CASE Return(t) /\ UNCHANGED item
  <2>1. /\ thread' = [thread EXCEPT ![t] = Idle]
        /\ Idle.at = "idle" /\ Idle.item = NoItem
    BY <1>2 DEF Return, Idle
  <2>2. /\ Created' = Created /\ Numbered' /\ OnlyPaidBoostsRun'
        /\ item' \in [Item -> {"none", "PENDING_PAYMENT", "ACTIVE", "EXPIRED",
                               "CANCELLED"}]
        /\ payment' \in [Item -> {"none", "PENDING", "SUCCESS", "FAILED",
                                  "EXPIRED"}]
    BY <1>1, <1>2 DEF Created, Inv, TypeOK, Numbered, OnlyPaidBoostsRun, Untouched
  <2> QED BY <1>1, <2>1, <2>2, IdleIsTyped, ThreadStepKeeps
<1>3. ASSUME NEW i \in Item, i = Cardinality(Created) + 1,
             item' = [item EXCEPT ![i] = "PENDING_PAYMENT"],
             thread' = [thread EXCEPT ![t] =
                          [Idle EXCEPT !.at = "createPayment", !.item = i]]
      PROVE  Inv'
  <2> DEFINE r == [Idle EXCEPT !.at = "createPayment", !.item = i]
  <2>1. /\ r \in ThreadState /\ r.at = "createPayment" /\ r.item = i /\ i # NoItem
    BY IdleIsTyped DEF Idle, ThreadState, Stage
  <2>2. /\ i \notin Created
        /\ \E n \in 0..MaxItems : Created \cup {i} = 1..n
    BY <1>3, NextItem
  <2>3. Created' = Created \cup {i}
    BY <1>3 DEF Created, Inv, TypeOK
  <2>4. Numbered'
    BY <1>1, <2>2, <2>3 DEF Inv, Numbered
  <2>5. /\ OnlyPaidBoostsRun'
        /\ item' \in [Item -> {"none", "PENDING_PAYMENT", "ACTIVE", "EXPIRED",
                               "CANCELLED"}]
        /\ payment' \in [Item -> {"none", "PENDING", "SUCCESS", "FAILED",
                                  "EXPIRED"}]
    BY <1>1, <1>3 DEF Inv, TypeOK, OnlyPaidBoostsRun, Untouched
  <2>6. thread' = [thread EXCEPT ![t] = r]
    BY <1>3
  <2> HIDE DEF r
  <2> QED BY <1>1, <2>1, <2>3, <2>4, <2>5, <2>6, ThreadStepKeeps
<1> QED BY <1>2, <1>3 DEF CreateItem

(* Requests and sweeps that begin.                                         *)
LEMMA CallsKeep ==
  ASSUME Inv, NEW t \in Threads,
         \/ InitiateBoost(t) \/ GetStatus(t)
         \/ \E i \in Item : ExpireBoostPayment(t, i)
  PROVE  Inv'
<1>1. UNCHANGED <<item, payment>> /\ Untouched
  BY DEF InitiateBoost, GetStatus, ExpireBoostPayment
<1>2. NoItem \notin Created
  BY IdleIsTyped DEF Created
<1>3. CASE InitiateBoost(t)
  <2>1. \/ Start(t, "createItem", NoItem)
        \/ \E i \in InFlight : Start(t, "findPayment", i)
    BY <1>3 DEF InitiateBoost
  <2>2. InFlight \subseteq Created
    BY DEF InFlight, Created
  <2> QED BY <1>1, <1>2, <2>1, <2>2, StartKeeps
<1>4. CASE GetStatus(t)
  <2>1. Max(Created) \in Created /\ Start(t, "ask", Max(Created))
    BY <1>4, LatestIsCreated DEF GetStatus
  <2>2. PICK i \in Created : i = Max(Created)
    BY <2>1
  <2> QED BY <1>1, <1>2, <2>1, <2>2, StartKeeps
<1>5. ASSUME NEW i \in Item, ExpireBoostPayment(t, i) PROVE Inv'
  <2>1. i \in Created /\ Start(t, "markExpired", i)
    BY <1>5 DEF ExpireBoostPayment, Overdue, Inv, Numbered
  <2> QED BY <1>1, <1>2, <2>1, StartKeeps
<1> QED BY <1>3, <1>4, <1>5

(* Sweeps of one statement, Fonepay, time and restarts.                    *)
LEMMA OutsideKeeps ==
  ASSUME Inv,
         \/ \E i \in Item : FonepayDecides(i) \/ DeadlinePasses(i)
         \/ ExpireEndedBoosts \/ AuctionCloses \/ Crash
         \/ UNCHANGED vars
  PROVE  Inv'
<1>1. ASSUME NEW i \in Item, FonepayDecides(i) PROVE Inv'
  <2>1. /\ UNCHANGED <<biddable, item, payment, due, thread, crashes>>
        /\ charge[i] = "open"
        /\ charge' \in [Item -> {"open", "paid", "failed"}]
        /\ \A j \in Item : charge[j] # "open" => charge'[j] = charge[j]
    BY <1>1 DEF FonepayDecides, Environment, Inv, TypeOK
  <2>2. TypeOK'
    BY <2>1 DEF Inv, TypeOK
  <2>3. Numbered' /\ Created' = Created
    BY <2>1 DEF Inv, Numbered, Created
  <2>4. OnlyPaidBoostsRun'
    BY <2>1 DEF Inv, OnlyPaidBoostsRun
  <2>5. ASSUME NEW t \in Threads PROVE ThreadOK(t)'
    <3>1. /\ thread[t].at \in {"confirm", "activate", "markSuccess", "markFailed"}
               => thread[t].item \in Item
      BY DEF Inv, TypeOK
    <3> QED BY <2>1, <2>3, <3>1 DEF Inv, ThreadOK
  <2> QED BY <2>2, <2>3, <2>4, <2>5 DEF Inv
<1>2. ASSUME NEW i \in Item, DeadlinePasses(i) PROVE Inv'
  BY <1>2 DEF DeadlinePasses, Environment, Inv, TypeOK, Numbered, Created,
              OnlyPaidBoostsRun, ThreadOK
<1>3. CASE ExpireEndedBoosts
  <2>1. PICK i \in Item : /\ item[i] = "ACTIVE"
                         /\ item' = [item EXCEPT ![i] = "EXPIRED"]
                         /\ UNCHANGED <<payment, thread>> /\ Untouched
    BY <1>3 DEF ExpireEndedBoosts, Ended
  <2>2. TypeOK'
    BY <2>1 DEF Inv, TypeOK, Untouched
  <2>3. Created' = Created
    BY <2>1 DEF Created, Inv, TypeOK
  <2>4. Numbered' /\ \A t \in Threads : ThreadOK(t)'
    BY <2>1, <2>3 DEF Inv, Numbered, ThreadOK, Untouched
  <2>5. OnlyPaidBoostsRun'
    BY <2>1 DEF Inv, TypeOK, OnlyPaidBoostsRun, Untouched
  <2> QED BY <2>2, <2>4, <2>5 DEF Inv
<1>4. CASE AuctionCloses
  BY <1>4 DEF AuctionCloses, Environment, Inv, TypeOK, Numbered, Created,
              OnlyPaidBoostsRun, ThreadOK
<1>5. CASE Crash
  <2>1. /\ crashes' \in 0..MaxCrashes
        /\ UNCHANGED <<biddable, item, payment, due, charge>>
    BY <1>5, BoostsAssumption DEF Crash, Inv, TypeOK
  <2>2. /\ thread' \in [Threads -> ThreadState]
        /\ \A t \in Threads : thread'[t].at = "idle" /\ thread'[t].item = NoItem
    BY <1>5, IdleIsTyped DEF Crash, Idle
  <2>3. TypeOK'
    BY <2>1, <2>2 DEF Inv, TypeOK, ThreadState
  <2>4. Numbered' /\ OnlyPaidBoostsRun' /\ \A t \in Threads : ThreadOK(t)'
    BY <2>1, <2>2 DEF Inv, Numbered, Created, OnlyPaidBoostsRun, ThreadOK
  <2> QED BY <2>3, <2>4 DEF Inv
<1>6. CASE UNCHANGED vars
  BY <1>6 DEF vars, Inv, TypeOK, Numbered, Created, OnlyPaidBoostsRun, ThreadOK
<1> QED BY <1>1, <1>2, <1>3, <1>4, <1>5, <1>6

LEMMA InvIsInductive == Inv /\ [Next]_vars => Inv'
<1> SUFFICES ASSUME Inv, [Next]_vars PROVE Inv'
  OBVIOUS
<1>1. ASSUME NEW t \in Threads, InitiateBoost(t) \/ GetStatus(t) \/ Step(t)
      PROVE  Inv'
  BY <1>1, CallsKeep, StepsKeep, CreateItemKeeps
<1>2. ASSUME NEW t \in Threads, NEW i \in Item, ExpireBoostPayment(t, i)
      PROVE  Inv'
  BY <1>2, CallsKeep
<1>3. CASE \/ \E i \in Item : FonepayDecides(i) \/ DeadlinePasses(i)
           \/ ExpireEndedBoosts \/ AuctionCloses \/ Crash
           \/ UNCHANGED vars
  BY <1>3, OutsideKeeps
<1> QED BY <1>1, <1>2, <1>3 DEF Next

LEMMA Invariant == Spec => []Inv
  BY InvInitially, InvIsInductive, PTL DEF Spec

-----------------------------------------------------------------------------
(* Items, payments and the requests about them keep their types.           *)
THEOREM TypeCorrect == Spec => []TypeOK
<1>1. Inv => TypeOK
  BY DEF Inv
<1> QED BY <1>1, Invariant, PTL

(* getStatus, initiateBoost and the sweeps of BoostsCron leave no boost    *)
(* running, and no verdict on record, that Fonepay does not bear out.      *)
THEOREM OnlyPaidBoostsRunAlways == Spec => []OnlyPaidBoostsRun
<1>1. Inv => OnlyPaidBoostsRun
  BY DEF Inv
<1> QED BY <1>1, Invariant, PTL
===============================================================================
