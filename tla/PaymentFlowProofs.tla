-------------------------- MODULE PaymentFlowProofs -------------------------
(***************************************************************************)
(* What is on record as sold was paid for, a second charge is refunded,    *)
(* and a hold ends for its own reason, for every number of calls in        *)
(* progress, settlement rounds, attempts and restarts.                     *)
(***************************************************************************)
EXTENDS PaymentFlow, FiniteSetTheorems, TLAPS

OutsideGateway == {"COD", "ADMIN_MANUAL"}
AfterSuccess == {"confirmSuccess", "confirmGateway", "checkOthers",
                 "flagForRefund", "markSuccess"}
AfterFailure == {"markFailed", "failPending", "failOther", "releaseHold"}
HoldStages == {"generateHoldQr", "releaseAnyHold"}

(* Rows are numbered as they are created, and are of rounds that were      *)
(* opened; Fonepay knows the attempts among them and no other.             *)
RowsOK ==
  /\ \E n \in 0..MaxPayment : payments = 1..n
  /\ overdue \subseteq 1..opened
  /\ \A p \in Payment \ payments : gateway[p] = "none"
  /\ \A p \in payments :
       /\ payment[p].round <= opened
       /\ payment[p].method = "FONEPAY" <=> gateway[p] # "none"
       /\ payment[p].status = "PENDING" => gateway[p] # "none"
       /\ payment[p].status = "SUCCESS" /\ gateway[p] # "none"
            => gateway[p] = "success"

(* A hold is one of a round; and a sale that was settled outside Fonepay   *)
(* has the one row that says so.                                           *)
SaleOK ==
  /\ Committed # {} => status = "SETTLED"
  /\ confirmedBy # "NONE" => status = "SETTLED"
  /\ status = "AWAITING_INSTANT_BUY" => live # 0
  /\ confirmedBy = "BANK_API" =>
       \E p \in OfRound(live) : gateway[p] = "success"
  /\ confirmedBy \in OutsideGateway =>
       \E w \in payments : Committed = {w} /\ gateway[w] = "none"

(* A call acts on an attempt Fonepay has given its verdict on; and none is *)
(* about to record a success after the sale was settled outside Fonepay.   *)
ThreadOK(t) ==
  LET at == thread[t].at
      p == thread[t].pay
  IN
  /\ thread[t].round <= opened
  /\ at \in AfterSuccess \cup AfterFailure \cup {"expire"} =>
       p \in payments /\ payment[p].round = thread[t].round
       /\ gateway[p] # "none"
  /\ at \in AfterSuccess => gateway[p] = "success"
  /\ at \in AfterFailure => gateway[p] = "failed"
  /\ at \in {"checkOthers", "markSuccess"} => status = "SETTLED"
  /\ at = "markSuccess" => confirmedBy \notin OutsideGateway

(* While the QR of a hold is made, the hold is live, nothing was attempted *)
(* for it, and no other call is about its round.                           *)
HoldOK(t) ==
  LET r == thread[t].round IN
  thread[t].at \in HoldStages =>
    /\ status = "AWAITING_INSTANT_BUY" /\ live = r
    /\ r # 0 /\ r \notin overdue
    /\ \A p \in payments : payment[p].round # r
    /\ \A s \in Threads \ {t} : thread[s].round # r

Inv == /\ TypeOK /\ RowsOK /\ SaleOK
       /\ \A t \in Threads : ThreadOK(t)
       /\ \A t \in Threads : HoldOK(t)

LEMMA InvInitially == Init => Inv
<1> SUFFICES ASSUME Init PROVE Inv
  OBVIOUS
<1>1. TypeOK
  BY BoundsAssumption
     DEF Init, TypeOK, LotStatus, PaymentStatus, PaymentMethod, UnusedPayment,
         Idle, Stage, Payment, Round
<1>2. RowsOK
  <2>1. payments = 1..0 /\ 0 \in 0..MaxPayment
    BY BoundsAssumption DEF Init
  <2> QED BY <2>1 DEF Init, RowsOK
<1>3. SaleOK
  BY DEF Init, SaleOK, Committed, With, OutsideGateway
<1>4. \A t \in Threads : ThreadOK(t) /\ HoldOK(t)
  BY DEF Init, ThreadOK, HoldOK, Idle, AfterSuccess, AfterFailure, HoldStages
<1> QED BY <1>1, <1>2, <1>3, <1>4 DEF Inv

LEMMA NewRow ==
  ASSUME Inv, payments # Payment
  PROVE  /\ NewPayment \in Payment /\ NewPayment \notin payments
         /\ gateway[NewPayment] = "none"
         /\ \E n \in 0..MaxPayment : payments \cup {NewPayment} = 1..n
<1>1. PICK n \in 0..MaxPayment : payments = 1..n
  BY DEF Inv, RowsOK
<1>2. Cardinality(payments) = n
  BY <1>1, FS_Interval, BoundsAssumption
<1>3. n + 1 \in 0..MaxPayment
  BY <1>1, BoundsAssumption DEF Payment
<1>4. payments \cup {n + 1} = 1..(n + 1)
  BY <1>1, <1>3, BoundsAssumption
<1>5. n + 1 \in Payment \ payments
  BY <1>1, <1>3, BoundsAssumption DEF Payment
<1> QED BY <1>2, <1>3, <1>4, <1>5 DEF NewPayment, Inv, RowsOK

LEMMA IdleIsTyped ==
  Idle \in [at: Stage, pay: 0..MaxPayment, round: 0..MaxRound]
  BY BoundsAssumption DEF Idle, Stage

-----------------------------------------------------------------------------
(* A step of one call that leaves the lot and the rounds of the rows.      *)
LEMMA CallKeeps ==
  ASSUME Inv, NEW t \in Threads,
         NEW r \in [at: Stage, pay: 0..MaxPayment, round: 0..MaxRound],
         thread' = [thread EXCEPT ![t] = r],
         UNCHANGED <<lot, payments, gateway>>,
         \A p \in payments : payment'[p].round = payment[p].round,
         TypeOK', RowsOK', SaleOK', ThreadOK(t)',
         r.at \in HoldStages =>
           thread[t].at \in HoldStages /\ r.round = thread[t].round,
         \/ r.round = thread[t].round
         \/ r.round = 0
         \/ status # "AWAITING_INSTANT_BUY"
         \/ \E p \in payments : r.round = payment[p].round
  PROVE  Inv'
<1>1. /\ thread'[t] = r
      /\ \A s \in Threads \ {t} : thread'[s] = thread[s]
  BY DEF Inv, TypeOK
<1>2. \A s \in Threads : ThreadOK(s)'
  BY <1>1 DEF Inv, ThreadOK, lot
<1>3. ASSUME NEW s \in Threads PROVE HoldOK(s)'
  <2>1. CASE s = t
    BY <1>1, <2>1 DEF Inv, HoldOK, lot
  <2>2. CASE s # t
    BY <1>1, <2>2 DEF Inv, HoldOK, lot
  <2> QED BY <2>1, <2>2
<1> QED BY <1>2, <1>3 DEF Inv

LEMMA ThreadStepKeeps ==
  ASSUME Inv, NEW t \in Threads,
         NEW r \in [at: Stage, pay: 0..MaxPayment, round: 0..MaxRound],
         thread' = [thread EXCEPT ![t] = r],
         UNCHANGED <<lot, attempts, crashes>>,
         resumed' \in SUBSET Round, sold' \in SUBSET Payment,
         deliveries' \in SUBSET Payment, ThreadOK(t)',
         r.at \in HoldStages =>
           thread[t].at \in HoldStages /\ r.round = thread[t].round,
         \/ r.round = thread[t].round
         \/ r.round = 0
         \/ status # "AWAITING_INSTANT_BUY"
         \/ \E p \in payments : r.round = payment[p].round
  PROVE  Inv'
<1>1. TypeOK'
  BY DEF Inv, TypeOK, lot, attempts
<1>2. RowsOK' /\ SaleOK'
  BY DEF Inv, RowsOK, SaleOK, Committed, With, OfRound, lot, attempts
<1> QED BY <1>1, <1>2, CallKeeps DEF attempts

(* A call that returns.                                                    *)
LEMMA ReturnKeeps ==
  ASSUME Inv, NEW t \in Threads, Return(t),
         UNCHANGED <<lot, payments, gateway>>,
         \A p \in payments : payment'[p].round = payment[p].round,
         TypeOK', RowsOK', SaleOK'
  PROVE  Inv'
<1>1. thread' = [thread EXCEPT ![t] = Idle] /\ thread'[t] = Idle
  BY DEF Return, Inv, TypeOK
<1>2. ThreadOK(t)'
  BY <1>1 DEF ThreadOK, Idle, AfterSuccess, AfterFailure, Inv, TypeOK, lot
<1>3. Idle.at \notin HoldStages /\ Idle.round = 0
  BY DEF Idle, HoldStages
<1> QED BY <1>1, <1>2, <1>3, IdleIsTyped, CallKeeps

LEMMA QuietReturnKeeps ==
  ASSUME Inv, NEW t \in Threads, Return(t),
         UNCHANGED <<lot, attempts, crashes>>,
         resumed' \in SUBSET Round, sold' \in SUBSET Payment,
         deliveries' \in SUBSET Payment
  PROVE  Inv'
<1>1. TypeOK'
  BY IdleIsTyped DEF Inv, TypeOK, lot, attempts, Return
<1>2. RowsOK' /\ SaleOK'
  BY DEF Inv, RowsOK, SaleOK, Committed, With, OfRound, lot, attempts
<1> QED BY <1>1, <1>2, ReturnKeeps DEF attempts

(* A call goes to its next stage.                                          *)
LEMMA ProceedKeeps ==
  ASSUME Inv, NEW t \in Threads, NEW stage \in Stage, Proceed(t, stage),
         UNCHANGED <<lot, attempts, resumed, parcel, crashes>>,
         stage \in AfterSuccess => thread[t].at \in AfterSuccess,
         stage \in AfterFailure => thread[t].at \in AfterFailure,
         stage # "expire",
         stage \in {"checkOthers", "markSuccess"} => status = "SETTLED",
         stage = "markSuccess" => confirmedBy \notin OutsideGateway,
         stage \in HoldStages => thread[t].at \in HoldStages
  PROVE  Inv'
<1> DEFINE r == [thread[t] EXCEPT !.at = stage]
<1>1. /\ r \in [at: Stage, pay: 0..MaxPayment, round: 0..MaxRound]
      /\ r.at = stage /\ r.pay = thread[t].pay /\ r.round = thread[t].round
  BY DEF Inv, TypeOK
<1>2. thread' = [thread EXCEPT ![t] = r]
  BY DEF Proceed
<1> HIDE DEF r
<1>3. thread'[t] = r
  BY <1>2 DEF Inv, TypeOK
<1>4. ThreadOK(t)'
  BY <1>1, <1>3 DEF ThreadOK, Inv, lot, attempts, AfterSuccess, AfterFailure
<1>5. /\ resumed' \in SUBSET Round /\ sold' \in SUBSET Payment
      /\ deliveries' \in SUBSET Payment
  BY DEF Inv, TypeOK, parcel
<1> QED BY <1>1, <1>2, <1>4, <1>5, ThreadStepKeeps

(* A call about an attempt begins.                                         *)
LEMMA CallOnKeeps ==
  ASSUME Inv, NEW t \in Threads, NEW p \in payments,
         NEW stage \in {"confirmSuccess", "markFailed", "expire"},
         CallOn(t, stage, p), gateway[p] # "none",
         stage = "confirmSuccess" => gateway[p] = "success",
         stage = "markFailed" => gateway[p] = "failed",
         UNCHANGED <<lot, attempts, parcel, crashes>>,
         resumed' \in SUBSET Round
  PROVE  Inv'
<1> DEFINE r == [at |-> stage, pay |-> p, round |-> payment[p].round]
<1>1. r \in [at: Stage, pay: 0..MaxPayment, round: 0..MaxRound]
  BY BoundsAssumption DEF Inv, TypeOK, Payment, Stage
<1>2. thread' = [thread EXCEPT ![t] = r] /\ thread'[t] = r
  BY DEF CallOn, Inv, TypeOK
<1>3. ThreadOK(t)'
  BY <1>2 DEF ThreadOK, Inv, RowsOK, lot, attempts, AfterSuccess, AfterFailure
<1>4. r.at \notin HoldStages /\ r.round = payment[p].round
  BY DEF HoldStages
<1>5. sold' \in SUBSET Payment /\ deliveries' \in SUBSET Payment
  BY DEF Inv, TypeOK, parcel
<1> HIDE DEF r
<1> QED BY <1>1, <1>2, <1>3, <1>4, <1>5, ThreadStepKeeps

(* A verdict written to the row of an attempt.                             *)
LEMMA SetStatusKeeps ==
  ASSUME Inv, NEW p \in payments, gateway[p] # "none",
         NEW s \in {"SUCCESS", "FAILED", "EXPIRED"}, SetStatus(p, s),
         s = "SUCCESS" => /\ gateway[p] = "success" /\ status = "SETTLED"
                          /\ confirmedBy \notin OutsideGateway,
         UNCHANGED <<lot, payments, gateway>>
  PROVE  /\ RowsOK' /\ SaleOK'
         /\ payment' \in [Payment -> [round: 0..MaxRound, status: PaymentStatus,
                                      method: PaymentMethod]]
         /\ \A q \in payments : payment'[q].round = payment[q].round
<1>0. p \in Payment
  BY DEF Inv, TypeOK
<1>1. /\ payment' = [payment EXCEPT ![p] = [@ EXCEPT !.status = s]]
      /\ payment[p] \in [round: 0..MaxRound, status: PaymentStatus,
                         method: PaymentMethod]
  BY <1>0 DEF SetStatus, Inv, TypeOK
<1>2. /\ [payment[p] EXCEPT !.status = s]
           \in [round: 0..MaxRound, status: PaymentStatus,
                method: PaymentMethod]
      /\ [payment[p] EXCEPT !.status = s].status = s
      /\ [payment[p] EXCEPT !.status = s].round = payment[p].round
      /\ [payment[p] EXCEPT !.status = s].method = payment[p].method
  BY <1>1 DEF PaymentStatus
<1>3. payment' \in [Payment -> [round: 0..MaxRound, status: PaymentStatus,
                                method: PaymentMethod]]
  BY <1>1, <1>2 DEF Inv, TypeOK
<1>4. /\ payment'[p].status = s
      /\ \A q \in Payment : /\ payment'[q].round = payment[q].round
                            /\ payment'[q].method = payment[q].method
                            /\ q # p => payment'[q] = payment[q]
  BY <1>0, <1>1, <1>2 DEF Inv, TypeOK
<1>5. RowsOK'
  BY <1>4 DEF Inv, TypeOK, RowsOK, lot
<1>6. SaleOK'
  <2>1. Committed' = IF s = "SUCCESS" THEN Committed \cup {p}
                     ELSE Committed \ {p}
    BY <1>4 DEF Committed, With, Inv, TypeOK
  <2>2. Committed' # {} => status' = "SETTLED"
    BY <2>1 DEF Inv, SaleOK, lot
  <2>3. confirmedBy' = "BANK_API" =>
          \E q \in OfRound(live)' : gateway'[q] = "success"
    BY <1>4 DEF Inv, TypeOK, SaleOK, OfRound, lot
  <2>4. confirmedBy' \in OutsideGateway =>
          \E w \in payments' : Committed' = {w} /\ gateway'[w] = "none"
    BY <2>1 DEF Inv, SaleOK, lot
  <2> QED BY <2>2, <2>3, <2>4 DEF Inv, SaleOK, lot
<1> QED BY <1>3, <1>4, <1>5, <1>6 DEF Inv, TypeOK

LEMMA NoHold ==
  ASSUME Inv, status # "AWAITING_INSTANT_BUY"
  PROVE  \A s \in Threads : thread[s].at \notin HoldStages
  BY DEF Inv, HoldOK

(* A step of the lot while no QR of a hold is made, of which the calls in  *)
(* progress, but for one that may return, take no notice.                  *)
LEMMA LotKeeps ==
  ASSUME Inv, TypeOK', RowsOK', SaleOK',
         UNCHANGED attempts, opened <= opened',
         \A s \in Threads : thread'[s] \in {thread[s], Idle},
         \A s \in Threads : thread'[s].at \notin HoldStages,
         status # "SETTLED"
  PROVE  Inv'
<1>1. ASSUME NEW s \in Threads PROVE ThreadOK(s)'
  <2>1. CASE thread'[s] = Idle
    <3>1. 0 <= opened'
      BY BoundsAssumption DEF TypeOK
    <3> QED BY <2>1, <3>1 DEF ThreadOK, Idle, AfterSuccess, AfterFailure
  <2>2. CASE thread'[s] = thread[s]
    <3>1. thread'[s].round <= opened'
      BY <2>2, BoundsAssumption DEF Inv, ThreadOK, TypeOK
    <3>2. thread[s].at \notin {"checkOthers", "markSuccess"}
      BY DEF Inv, ThreadOK
    <3> QED BY <2>2, <3>1, <3>2 DEF Inv, ThreadOK, attempts
  <2> QED BY <2>1, <2>2
<1>2. \A s \in Threads : HoldOK(s)'
  BY DEF HoldOK
<1> QED BY <1>1, <1>2 DEF Inv

LEMMA OpenIsOK ==
  ASSUME Inv, NEW s \in {"AWAITING_PAYMENT", "AWAITING_INSTANT_BUY"}, Open(s),
         UNCHANGED <<overdue, confirmedBy, attempts, resumed, parcel, crashes>>,
         status # "SETTLED",
         thread' \in [Threads -> [at: Stage, pay: 0..MaxPayment,
                                  round: 0..MaxRound]]
  PROVE  /\ TypeOK' /\ RowsOK' /\ SaleOK'
         /\ opened \in Nat /\ opened' = opened + 1 /\ live' = opened + 1
<1>1. /\ opened \in Nat /\ opened < MaxRound /\ opened' = opened + 1
      /\ live' = opened + 1 /\ status' = s
  BY BoundsAssumption DEF Inv, TypeOK, Open
<1>2. opened' \in 0..MaxRound /\ live' \in 0..opened'
  BY <1>1, BoundsAssumption
<1>3. TypeOK'
  BY <1>1, <1>2 DEF Inv, TypeOK, LotStatus, attempts, parcel
<1>4. overdue \subseteq 1..opened'
  BY <1>1, BoundsAssumption DEF Inv, RowsOK
<1>5. \A p \in payments : payment[p].round <= opened'
  BY <1>1, BoundsAssumption DEF Inv, RowsOK, TypeOK
<1>6. RowsOK'
  BY <1>4, <1>5 DEF Inv, RowsOK, attempts
<1>7. SaleOK'
  BY <1>1 DEF Inv, SaleOK, Committed, With, OfRound, attempts, OutsideGateway
<1> QED BY <1>1, <1>3, <1>6, <1>7

LEMMA ResumeIsOK ==
  ASSUME Inv, Resume, status = "AWAITING_INSTANT_BUY",
         UNCHANGED <<attempts, parcel, crashes>>,
         thread' \in [Threads -> [at: Stage, pay: 0..MaxPayment,
                                  round: 0..MaxRound]],
         live # 0
  PROVE  TypeOK' /\ RowsOK' /\ SaleOK'
<1>1. /\ status' = "ACTIVE" /\ live' = 0 /\ resumed' = resumed \cup {live}
      /\ UNCHANGED <<opened, overdue, confirmedBy>>
  BY DEF Resume
<1>2. live \in Round /\ 0 \in 0..opened
  BY BoundsAssumption DEF Inv, TypeOK, Round
<1>3. TypeOK'
  BY <1>1, <1>2 DEF Inv, TypeOK, LotStatus, attempts, parcel
<1>4. RowsOK'
  BY <1>1 DEF Inv, RowsOK, attempts
<1>5. SaleOK'
  BY <1>1 DEF Inv, SaleOK, Committed, With, OfRound, attempts, OutsideGateway
<1> QED BY <1>3, <1>4, <1>5

LEMMA SettleIsOK ==
  ASSUME Inv, status = "AWAITING_PAYMENT", payments # Payment,
         NEW by, NEW rowStatus, NEW method,
         \/ by = "COD" /\ rowStatus = "COD_PENDING" /\ method = "COD"
         \/ by = "ADMIN_MANUAL" /\ rowStatus = "SUCCESS" /\ method = "ADMIN",
         SettleOutsideGateway(by, rowStatus, method),
         UNCHANGED <<resumed, crashes>>,
         thread' \in [Threads -> [at: Stage, pay: 0..MaxPayment,
                                  round: 0..MaxRound]]
  PROVE  /\ TypeOK' /\ RowsOK' /\ SaleOK'
         /\ \A p \in payments : /\ payment'[p].round = payment[p].round
                                /\ gateway'[p] = gateway[p]
         /\ payments \subseteq payments' /\ gateway' = gateway
<1> DEFINE w == NewPayment
           row == [round |-> live, status |-> rowStatus, method |-> method]
<1>1. /\ w \in Payment /\ w \notin payments /\ gateway[w] = "none"
      /\ \E n \in 0..MaxPayment : payments \cup {w} = 1..n
  BY NewRow
<1>2. /\ status' = "SETTLED" /\ confirmedBy' = by
      /\ payments' = payments \cup {w}
      /\ sold' = sold \cup {w}
      /\ listening' = listening \cup With("PENDING")
      /\ payment' = [p \in Payment |->
           IF p = w THEN row
           ELSE IF p \in With("PENDING")
           THEN [payment[p] EXCEPT !.status = "EXPIRED"]
           ELSE payment[p]]
      /\ UNCHANGED <<opened, live, overdue, gateway, deliveries>>
  BY DEF SettleOutsideGateway
<1> HIDE DEF w
<1>3. \A p \in Payment :
        /\ payment[p] \in [round: 0..MaxRound, status: PaymentStatus,
                           method: PaymentMethod]
        /\ [payment[p] EXCEPT !.status = "EXPIRED"]
             \in [round: 0..MaxRound, status: PaymentStatus,
                  method: PaymentMethod]
  BY DEF Inv, TypeOK, PaymentStatus
<1>4. live \in 0..MaxRound /\ live <= opened
  BY BoundsAssumption DEF Inv, TypeOK
<1>5. row \in [round: 0..MaxRound, status: PaymentStatus, method: PaymentMethod]
  BY <1>4 DEF PaymentStatus, PaymentMethod
<1>6. payment' \in [Payment -> [round: 0..MaxRound, status: PaymentStatus,
                                method: PaymentMethod]]
  BY <1>2, <1>3, <1>5
<1>7. TypeOK'
  <2>1. listening' \in SUBSET Payment
    BY <1>2 DEF Inv, TypeOK, With
  <2> QED BY <1>1, <1>2, <1>6, <2>1 DEF Inv, TypeOK, LotStatus
<1>8. /\ payment'[w] = row
      /\ \A p \in payments :
           /\ payment'[p].round = payment[p].round
           /\ payment'[p].method = payment[p].method
           /\ payment'[p].status = IF payment[p].status = "PENDING"
                                   THEN "EXPIRED" ELSE payment[p].status
  <2>1. \A p \in payments : p \in Payment /\ p # w
    BY <1>1 DEF Inv, TypeOK
  <2>2. payment'[w] = row
    BY <1>1, <1>2
  <2> QED BY <1>2, <1>3, <2>1, <2>2 DEF With
<1>9. RowsOK'
  <2>1. /\ \E n \in 0..MaxPayment : payments' = 1..n
        /\ overdue' \subseteq 1..opened'
        /\ \A p \in Payment \ payments' : gateway'[p] = "none"
    BY <1>1, <1>2 DEF Inv, RowsOK
  <2>2. \A p \in payments' :
          /\ payment'[p].round <= opened'
          /\ payment'[p].method = "FONEPAY" <=> gateway'[p] # "none"
          /\ payment'[p].status = "PENDING" => gateway'[p] # "none"
          /\ payment'[p].status = "SUCCESS" /\ gateway'[p] # "none"
               => gateway'[p] = "success"
    <3> SUFFICES ASSUME NEW p \in payments'
                 PROVE  /\ payment'[p].round <= opened'
                        /\ payment'[p].method = "FONEPAY" <=> gateway[p] # "none"
                        /\ payment'[p].status = "PENDING" => gateway[p] # "none"
                        /\ payment'[p].status = "SUCCESS" /\ gateway[p] # "none"
                             => gateway[p] = "success"
      BY <1>2
    <3>1. CASE p = w
      BY <1>1, <1>2, <1>4, <1>8, <3>1
    <3>2. CASE p \in payments
      <4>1. /\ payment[p].round <= opened
            /\ payment[p].method = "FONEPAY" <=> gateway[p] # "none"
            /\ payment[p].status = "PENDING" => gateway[p] # "none"
            /\ payment[p].status = "SUCCESS" /\ gateway[p] # "none"
                 => gateway[p] = "success"
        BY <3>2 DEF Inv, RowsOK
      <4>2. /\ payment'[p].round = payment[p].round
            /\ payment'[p].method = payment[p].method
            /\ payment'[p].status = IF payment[p].status = "PENDING"
                                    THEN "EXPIRED" ELSE payment[p].status
        BY <1>8, <3>2
      <4> QED BY <1>2, <4>1, <4>2
    <3> QED BY <1>2, <3>1, <3>2
  <2> QED BY <2>1, <2>2 DEF RowsOK
<1>10. SaleOK'
  <2>1. Committed = {}
    BY DEF Inv, SaleOK
  <2>2. Committed' = {w}
    BY <1>2, <1>8, <2>1 DEF Committed, With
  <2> QED BY <1>1, <1>2, <2>2 DEF SaleOK, OutsideGateway
<1> QED BY <1>2, <1>7, <1>8, <1>9, <1>10

(* The lot's own transactions.                                             *)
LEMMA LotStepsKeep ==
  ASSUME Inv, CloseIfExpired \/ HandlePaymentExpiry \/ ConfirmPaymentManual
  PROVE  Inv'
<1>0. thread' = thread /\ crashes' = crashes /\ opened \in Nat
      /\ thread \in [Threads -> [at: Stage, pay: 0..MaxPayment,
                                 round: 0..MaxRound]]
  BY BoundsAssumption
     DEF CloseIfExpired, HandlePaymentExpiry, ConfirmPaymentManual, Inv, TypeOK
<1>1. CASE CloseIfExpired
  <2>1. \A s \in Threads : thread'[s].at \notin HoldStages
    BY <1>0, <1>1, NoHold DEF CloseIfExpired
  <2>2. TypeOK' /\ RowsOK' /\ SaleOK' /\ opened <= opened'
    BY <1>0, <1>1, OpenIsOK DEF CloseIfExpired
  <2> QED BY <1>0, <1>1, <2>1, <2>2, LotKeeps DEF CloseIfExpired
<1>2. CASE HandlePaymentExpiry
  <2>1. /\ status \in {"AWAITING_INSTANT_BUY", "AWAITING_PAYMENT"}
        /\ live \in overdue /\ live # 0
        /\ UNCHANGED <<attempts, thread, parcel, crashes>>
    BY <1>2 DEF HandlePaymentExpiry, Inv, RowsOK
  <2>2. \A s \in Threads : thread'[s].at \notin HoldStages
    BY <2>1 DEF Inv, HoldOK
  <2>3. CASE Resume /\ status = "AWAITING_INSTANT_BUY"
    <3>1. TypeOK' /\ RowsOK' /\ SaleOK' /\ opened <= opened'
      BY <1>0, <2>1, <2>3, ResumeIsOK DEF Resume
    <3> QED BY <2>1, <2>2, <3>1, LotKeeps
  <2>4. CASE Open("AWAITING_PAYMENT") /\ UNCHANGED <<resumed, overdue, confirmedBy>>
    <3>1. TypeOK' /\ RowsOK' /\ SaleOK' /\ opened <= opened'
      BY <1>0, <2>1, <2>4, OpenIsOK
    <3> QED BY <2>1, <2>2, <3>1, LotKeeps
  <2>5. CASE /\ status' = "ABANDONED" /\ live' = 0
             /\ UNCHANGED <<opened, resumed, overdue, confirmedBy>>
    <3>0. 0 \in 0..opened
      BY <1>0
    <3>1. TypeOK'
      BY <2>1, <2>5, <3>0 DEF Inv, TypeOK, LotStatus, attempts, parcel
    <3>2. RowsOK' /\ SaleOK'
      BY <2>1, <2>5
         DEF Inv, RowsOK, SaleOK, Committed, With, OfRound, attempts,
             OutsideGateway
    <3> QED BY <1>0, <2>1, <2>2, <2>5, <3>1, <3>2, LotKeeps
  <2> QED BY <1>2, <2>1, <2>3, <2>4, <2>5 DEF HandlePaymentExpiry
<1>3. CASE ConfirmPaymentManual
  <2>1. /\ TypeOK' /\ RowsOK' /\ SaleOK'
        /\ \A p \in payments : /\ payment'[p].round = payment[p].round
                               /\ gateway'[p] = gateway[p]
        /\ payments \subseteq payments' /\ opened' = opened
    BY <1>0, <1>3, SettleIsOK DEF ConfirmPaymentManual, SettleOutsideGateway
  <2>2. \A s \in Threads : thread[s].at \notin {"checkOthers", "markSuccess"}
    BY <1>3 DEF ConfirmPaymentManual, Inv, ThreadOK
  <2>3. \A s \in Threads : ThreadOK(s)'
    BY <1>0, <2>1, <2>2 DEF Inv, ThreadOK
  <2>4. \A s \in Threads : HoldOK(s)'
    BY <1>0, <1>3, NoHold DEF ConfirmPaymentManual, HoldOK
  <2> QED BY <2>1, <2>3, <2>4 DEF Inv
<1> QED BY <1>1, <1>2, <1>3

-----------------------------------------------------------------------------
(* The calls that begin.                                                   *)
LEMMA CallsKeep ==
  ASSUME Inv, NEW t \in Threads, Call(t)
  PROVE  Inv'
<1>0. /\ thread \in [Threads -> [at: Stage, pay: 0..MaxPayment,
                                 round: 0..MaxRound]]
      /\ opened \in Nat /\ resumed \subseteq Round
  BY BoundsAssumption DEF Inv, TypeOK
<1>1. CASE InitiateInstantBuyPayment(t)
  <2> DEFINE r == [at |-> "generateHoldQr", pay |-> 0, round |-> opened + 1]
  <2>1. /\ Open("AWAITING_INSTANT_BUY") /\ status = "ACTIVE"
        /\ thread' = [thread EXCEPT ![t] = r]
        /\ UNCHANGED <<overdue, confirmedBy, attempts, resumed, parcel, crashes>>
    BY <1>1 DEF InitiateInstantBuyPayment
  <2>2. opened + 1 \in 0..MaxRound
    BY <1>0, <2>1, BoundsAssumption DEF Open
  <2>3. r \in [at: Stage, pay: 0..MaxPayment, round: 0..MaxRound]
    BY <2>2, BoundsAssumption DEF Stage
  <2>4. /\ thread' \in [Threads -> [at: Stage, pay: 0..MaxPayment,
                                    round: 0..MaxRound]]
        /\ thread'[t] = r
        /\ \A s \in Threads \ {t} : thread'[s] = thread[s]
    BY <1>0, <2>1, <2>3
  <2>5. /\ TypeOK' /\ RowsOK' /\ SaleOK'
        /\ opened' = opened + 1 /\ live' = opened + 1
        /\ status' = "AWAITING_INSTANT_BUY"
    BY <2>1, <2>4, OpenIsOK DEF Open
  <2>6. \A s \in Threads \ {t} : /\ thread[s].at \notin HoldStages
                                 /\ thread[s].round <= opened
                                 /\ thread[s].round \in Nat
    BY <1>0, <2>1, NoHold, BoundsAssumption DEF Inv, ThreadOK
  <2>7. ASSUME NEW s \in Threads PROVE ThreadOK(s)'
    <3>1. CASE s = t
      BY <1>0, <2>4, <2>5, <3>1 DEF ThreadOK, AfterSuccess, AfterFailure
    <3>2. CASE s # t
      <4>1. thread[s].at \notin {"checkOthers", "markSuccess"}
        BY <2>1 DEF Inv, ThreadOK
      <4>2. thread'[s].round <= opened'
        BY <1>0, <2>4, <2>5, <2>6, <3>2
      <4> QED BY <2>1, <2>4, <3>2, <4>1, <4>2 DEF Inv, ThreadOK, attempts
    <3> QED BY <3>1, <3>2
  <2>8. HoldOK(t)'
    <3>1. opened + 1 # 0 /\ opened + 1 \notin overdue
      BY <1>0 DEF Inv, RowsOK
    <3>2. \A p \in payments : payment[p].round # opened + 1
      BY <1>0, BoundsAssumption DEF Inv, RowsOK, TypeOK
    <3>3. \A s \in Threads \ {t} : thread[s].round # opened + 1
      BY <1>0, <2>6
    <3> QED BY <2>1, <2>4, <2>5, <3>1, <3>2, <3>3 DEF HoldOK, attempts
  <2>9. \A s \in Threads \ {t} : HoldOK(s)'
    BY <2>4, <2>6 DEF HoldOK
  <2> QED BY <2>5, <2>7, <2>8, <2>9 DEF Inv
<1>2. CASE InitiatePayment(t)
  <2> DEFINE r == [at |-> "generateQr", pay |-> 0, round |-> live]
  <2>1. /\ status = "AWAITING_PAYMENT"
        /\ thread' = [thread EXCEPT ![t] = r]
        /\ UNCHANGED <<lot, attempts, resumed, parcel, crashes>>
    BY <1>2 DEF InitiatePayment
  <2>2. r \in [at: Stage, pay: 0..MaxPayment, round: 0..MaxRound]
        /\ live <= opened
    BY BoundsAssumption DEF Inv, TypeOK, Stage
  <2>3. ThreadOK(t)'
    BY <1>0, <2>1, <2>2 DEF ThreadOK, lot, AfterSuccess, AfterFailure
  <2>4. r.at \notin HoldStages
    BY DEF HoldStages
  <2> HIDE DEF r
  <2> QED BY <2>1, <2>2, <2>3, <2>4, ThreadStepKeeps DEF parcel, Inv, TypeOK
<1>3. CASE RequestCod(t)
  <2>1. /\ status = "AWAITING_PAYMENT"
        /\ UNCHANGED <<lot, attempts, resumed, parcel, crashes>>
    BY <1>3 DEF RequestCod
  <2>2. ASSUME NEW p \in OfRound(live) \cap With("PENDING"),
               gateway[p] = "success", CallOn(t, "confirmSuccess", p)
        PROVE  Inv'
    <3>1. p \in payments
      BY DEF OfRound
    <3> QED BY <1>0, <2>1, <2>2, <3>1, CallOnKeeps
  <2>3. ASSUME thread' = [thread EXCEPT ![t] =
                            [at |-> "confirmCod", pay |-> 0, round |-> live]]
        PROVE  Inv'
    <3> DEFINE r == [at |-> "confirmCod", pay |-> 0, round |-> live]
    <3>1. thread' = [thread EXCEPT ![t] = r]
      BY <2>3
    <3>2. r \in [at: Stage, pay: 0..MaxPayment, round: 0..MaxRound]
          /\ live <= opened
      BY BoundsAssumption DEF Inv, TypeOK, Stage
    <3>3. ThreadOK(t)'
      BY <1>0, <2>1, <3>1, <3>2 DEF ThreadOK, lot, AfterSuccess, AfterFailure
    <3>4. r.at \notin HoldStages
      BY DEF HoldStages
    <3> HIDE DEF r
    <3> QED BY <2>1, <3>1, <3>2, <3>3, <3>4, ThreadStepKeeps
            DEF parcel, Inv, TypeOK
  <2> QED BY <1>3, <2>2, <2>3 DEF RequestCod
<1>4. ASSUME NEW p \in payments, Poll(t, p) PROVE Inv'
  BY <1>0, <1>4, CallOnKeeps DEF Poll, Verdict
<1>5. ASSUME NEW p \in payments, ExpirePayment(t, p) PROVE Inv'
  <2>1. gateway[p] # "none"
    BY <1>5 DEF ExpirePayment, With, Inv, RowsOK
  <2>2. resumed' \in SUBSET Round
        /\ UNCHANGED <<lot, attempts, parcel, crashes>>
    BY <1>0, <1>5 DEF ExpirePayment
  <2> QED BY <1>5, <2>1, <2>2, CallOnKeeps DEF ExpirePayment
<1> QED BY <1>1, <1>2, <1>3, <1>4, <1>5 DEF Call

-----------------------------------------------------------------------------
(* The steps of a call in progress: first those that write a row.          *)
LEMMA VerdictStepsKeep ==
  ASSUME Inv, NEW t \in Threads,
         \/ MarkExpired(t) \/ FlagForRefund(t) \/ MarkSuccess(t)
         \/ MarkFailed(t)
  PROVE  Inv'
<1> DEFINE p == thread[t].pay
<1>0. /\ p \in payments /\ gateway[p] # "none" /\ p \in Payment
      /\ UNCHANGED <<lot, payments, gateway, listening, resumed, deliveries,
                     crashes>>
      /\ thread \in [Threads -> [at: Stage, pay: 0..MaxPayment,
                                 round: 0..MaxRound]]
  BY DEF Inv, TypeOK, ThreadOK, MarkExpired, FlagForRefund, MarkSuccess,
         MarkFailed, At, AfterSuccess, AfterFailure, parcel
<1>1. PICK s \in {"SUCCESS", "FAILED", "EXPIRED"} :
        SetStatus(p, s) /\ (s = "SUCCESS" => thread[t].at = "markSuccess")
  BY DEF MarkExpired, FlagForRefund, MarkSuccess, MarkFailed, At
<1>2. s = "SUCCESS" => /\ gateway[p] = "success" /\ status = "SETTLED"
                       /\ confirmedBy \notin OutsideGateway
  BY <1>1 DEF Inv, ThreadOK, AfterSuccess
<1>3. PICK q \in payments : q = p
  BY <1>0
<1>4. /\ RowsOK' /\ SaleOK'
      /\ payment' \in [Payment -> [round: 0..MaxRound, status: PaymentStatus,
                                   method: PaymentMethod]]
      /\ \A x \in payments : payment'[x].round = payment[x].round
  BY <1>0, <1>1, <1>2, <1>3, SetStatusKeeps
<1>5. sold' \in SUBSET Payment
  BY <1>0 DEF MarkExpired, FlagForRefund, MarkSuccess, MarkFailed, parcel,
              Inv, TypeOK
<1>6. CASE Return(t)
  <2>1. TypeOK'
    BY <1>0, <1>4, <1>5, <1>6, IdleIsTyped DEF Inv, TypeOK, Return, lot
  <2> QED BY <1>0, <1>4, <1>6, <2>1, ReturnKeeps
<1>7. CASE thread[t].at = "failPending" /\ Proceed(t, "releaseHold")
  <2> DEFINE r == [thread[t] EXCEPT !.at = "releaseHold"]
  <2>1. /\ r \in [at: Stage, pay: 0..MaxPayment, round: 0..MaxRound]
        /\ r.at = "releaseHold" /\ r.pay = p /\ r.round = thread[t].round
    BY <1>0 DEF Stage
  <2>2. thread' = [thread EXCEPT ![t] = r] /\ thread'[t] = r
    BY <1>0, <1>7 DEF Proceed
  <2> HIDE DEF r
  <2>3. TypeOK'
    BY <1>0, <1>4, <1>5, <2>1, <2>2 DEF Inv, TypeOK, lot
  <2>4. ThreadOK(t)'
    BY <1>0, <1>4, <1>7, <2>1, <2>2
       DEF Inv, ThreadOK, lot, AfterSuccess, AfterFailure
  <2>5. r.at \notin HoldStages
    BY <2>1 DEF HoldStages
  <2> QED BY <1>0, <1>4, <2>1, <2>2, <2>3, <2>4, <2>5, CallKeeps
<1> QED BY <1>6, <1>7 DEF MarkExpired, FlagForRefund, MarkSuccess, MarkFailed, At

(* A QR was generated: a row of the round it was generated for.            *)
LEMMA SaveQrPaymentKeeps ==
  ASSUME Inv, NEW t \in Threads, SaveQrPayment(t)
  PROVE  Inv'
<1> DEFINE w == NewPayment
           row == [round |-> thread[t].round, status |-> "PENDING",
                   method |-> "FONEPAY"]
<1>1. /\ w \in Payment /\ w \notin payments /\ gateway[w] = "none"
      /\ \E n \in 0..MaxPayment : payments \cup {w} = 1..n
  BY NewRow DEF SaveQrPayment
<1>2. /\ payments' = payments \cup {w}
      /\ payment' = [payment EXCEPT ![w] = row]
      /\ gateway' = [gateway EXCEPT ![w] = "pending"]
      /\ thread' = [thread EXCEPT ![t] = Idle]
      /\ UNCHANGED <<status, opened, live, overdue, confirmedBy, listening,
                     resumed, sold, deliveries, crashes>>
  BY DEF SaveQrPayment, Return, lot, parcel
<1> HIDE DEF w
<1>3. /\ row \in [round: 0..MaxRound, status: PaymentStatus,
                  method: PaymentMethod]
      /\ row.round = thread[t].round /\ row.round <= opened
      /\ row.status = "PENDING" /\ row.method = "FONEPAY"
  BY DEF Inv, TypeOK, ThreadOK, PaymentStatus, PaymentMethod
<1> HIDE DEF row
<1>4. TypeOK'
  BY <1>1, <1>2, <1>3, IdleIsTyped DEF Inv, TypeOK
<1>5. /\ payment'[w] = row /\ gateway'[w] = "pending"
      /\ \A p \in Payment \ {w} : /\ payment'[p] = payment[p]
                                  /\ gateway'[p] = gateway[p]
      /\ payments \subseteq Payment \ {w}
  BY <1>1, <1>2 DEF Inv, TypeOK
<1>6. thread'[t] = Idle /\ \A s \in Threads \ {t} : thread'[s] = thread[s]
  BY <1>2 DEF Inv, TypeOK
<1>7. RowsOK'
  <2>1. /\ \E n \in 0..MaxPayment : payments' = 1..n
        /\ overdue' \subseteq 1..opened'
        /\ \A p \in Payment \ payments' : gateway'[p] = "none"
    BY <1>1, <1>2, <1>5 DEF Inv, RowsOK
  <2>2. ASSUME NEW p \in payments'
        PROVE  /\ payment'[p].round <= opened'
               /\ payment'[p].method = "FONEPAY" <=> gateway'[p] # "none"
               /\ payment'[p].status = "PENDING" => gateway'[p] # "none"
               /\ payment'[p].status = "SUCCESS" /\ gateway'[p] # "none"
                    => gateway'[p] = "success"
    <3>1. CASE p = w
      BY <1>2, <1>3, <1>5, <3>1
    <3>2. CASE p \in payments
      BY <1>2, <1>5, <3>2 DEF Inv, RowsOK
    <3> QED BY <1>2, <2>2, <3>1, <3>2
  <2> QED BY <2>1, <2>2 DEF RowsOK
<1>8. SaleOK'
  <2>1. Committed' = Committed
    BY <1>2, <1>3, <1>5 DEF Committed, With
  <2>2. \A p \in payments : /\ payment'[p].round = payment[p].round
                            /\ gateway'[p] = gateway[p]
    BY <1>5
  <2>3. \A p \in OfRound(live) : p \in OfRound(live)' /\ gateway'[p] = gateway[p]
    BY <1>2, <2>2 DEF OfRound
  <2> QED BY <1>2, <2>1, <2>2, <2>3 DEF Inv, SaleOK, OfRound, OutsideGateway
<1>9. ASSUME NEW s \in Threads PROVE ThreadOK(s)' /\ HoldOK(s)'
  <2>1. CASE s = t
    <3>1. /\ thread'[s].at = "idle" /\ thread'[s].round = 0 /\ 0 <= opened'
      BY <1>2, <1>6, <2>1, BoundsAssumption DEF Idle, Inv, TypeOK
    <3> QED BY <3>1 DEF ThreadOK, HoldOK, AfterSuccess, AfterFailure, HoldStages
  <2>2. CASE s # t
    <3>1. ThreadOK(s)'
      BY <1>2, <1>5, <1>6, <2>2 DEF Inv, ThreadOK
    <3>2. HoldOK(s)'
      <4>1. SUFFICES ASSUME thread[s].at \in HoldStages PROVE HoldOK(s)'
        BY <1>6, <2>2 DEF HoldOK
      <4>2. /\ status = "AWAITING_INSTANT_BUY" /\ live = thread[s].round
            /\ thread[s].round # 0 /\ thread[s].round \notin overdue
            /\ \A p \in payments : payment[p].round # thread[s].round
            /\ \A x \in Threads \ {s} : thread[x].round # thread[s].round
        BY <4>1 DEF Inv, HoldOK
      <4>3. \A p \in payments' : payment'[p].round # thread[s].round
        BY <1>2, <1>3, <1>5, <2>2, <4>2
      <4>4. \A x \in Threads \ {s} : thread'[x].round # thread[s].round
        BY <1>6, <4>2 DEF Idle
      <4> QED BY <1>2, <1>6, <2>2, <4>2, <4>3, <4>4 DEF HoldOK
    <3> QED BY <3>1, <3>2
  <2> QED BY <2>1, <2>2
<1> QED BY <1>4, <1>7, <1>8, <1>9 DEF Inv

(* The buyer's request for cash on delivery reaches the auction service.   *)
LEMMA ConfirmCodKeeps ==
  ASSUME Inv, NEW t \in Threads, ConfirmCod(t)
  PROVE  Inv'
<1>1. Return(t) /\ UNCHANGED <<resumed, crashes>>
  BY DEF ConfirmCod
<1>2. CASE UNCHANGED <<lot, attempts, parcel>>
  <2>1. /\ resumed' \in SUBSET Round /\ sold' \in SUBSET Payment
        /\ deliveries' \in SUBSET Payment
    BY <1>1, <1>2 DEF parcel, Inv, TypeOK
  <2> QED BY <1>1, <1>2, <2>1, QuietReturnKeeps
<1>3. CASE /\ status = "AWAITING_PAYMENT" /\ payments # Payment
           /\ SettleOutsideGateway("COD", "COD_PENDING", "COD")
  <2>1. /\ thread' = [thread EXCEPT ![t] = Idle]
        /\ thread' \in [Threads -> [at: Stage, pay: 0..MaxPayment,
                                     round: 0..MaxRound]]
    BY <1>1, IdleIsTyped DEF Return, Inv, TypeOK
  <2>2. /\ TypeOK' /\ RowsOK' /\ SaleOK'
        /\ \A p \in payments : /\ payment'[p].round = payment[p].round
                               /\ gateway'[p] = gateway[p]
        /\ payments \subseteq payments' /\ gateway' = gateway
    BY <1>1, <1>3, <2>1, SettleIsOK
  <2>3. opened' = opened /\ status' = "SETTLED"
    BY <1>3 DEF SettleOutsideGateway
  <2>4. ASSUME NEW s \in Threads PROVE ThreadOK(s)' /\ HoldOK(s)'
    <3>1. CASE s = t
      <4>1. /\ thread'[s].at = "idle" /\ thread'[s].round = 0 /\ 0 <= opened'
        BY <2>1, <2>2, <3>1, BoundsAssumption DEF Idle, Inv, TypeOK
      <4> QED BY <4>1 DEF ThreadOK, HoldOK, AfterSuccess, AfterFailure, HoldStages
    <3>2. CASE s # t
      <4>1. thread'[s] = thread[s] /\ thread[s].at \notin HoldStages
        BY <1>3, <2>1, <3>2, NoHold DEF Inv, TypeOK
      <4>2. thread[s].at \notin {"checkOthers", "markSuccess"}
        BY <1>3 DEF Inv, ThreadOK
      <4>3. ThreadOK(s)'
        BY <2>2, <2>3, <4>1, <4>2 DEF Inv, ThreadOK
      <4> QED BY <4>1, <4>3 DEF HoldOK
    <3> QED BY <3>1, <3>2
  <2> QED BY <2>2, <2>4 DEF Inv
<1> QED BY <1>2, <1>3 DEF ConfirmCod

(* The sale is settled through Fonepay, or is seen to be settled already.  *)
LEMMA ConfirmPaymentGatewayKeeps ==
  ASSUME Inv, NEW t \in Threads, ConfirmPaymentGateway(t)
  PROVE  Inv'
<1>0. /\ thread[t].at = "confirmGateway"
      /\ UNCHANGED <<attempts, resumed, parcel, crashes>>
  BY DEF ConfirmPaymentGateway, At
<1>1. CASE RoundIsLive(thread[t].round)
  <2> DEFINE r == [thread[t] EXCEPT !.at = "markSuccess"]
  <2>1. /\ status' = "SETTLED" /\ confirmedBy' = "BANK_API"
        /\ UNCHANGED <<opened, live, overdue>>
        /\ thread' = [thread EXCEPT ![t] = r]
    BY <1>1 DEF ConfirmPaymentGateway, Proceed
  <2>2. /\ r \in [at: Stage, pay: 0..MaxPayment, round: 0..MaxRound]
        /\ r.at = "markSuccess" /\ r.pay = thread[t].pay
        /\ r.round = thread[t].round
    BY DEF Inv, TypeOK, Stage
  <2> HIDE DEF r
  <2>3. /\ thread[t].pay \in OfRound(live) /\ gateway[thread[t].pay] = "success"
        /\ live = thread[t].round /\ status # "SETTLED"
    BY <1>0, <1>1 DEF Inv, ThreadOK, AfterSuccess, OfRound, RoundIsLive
  <2>4. TypeOK'
    BY <1>0, <2>1, <2>2 DEF Inv, TypeOK, LotStatus, attempts, parcel
  <2>5. RowsOK'
    BY <1>0, <2>1 DEF Inv, RowsOK, attempts
  <2>6. SaleOK'
    BY <1>0, <2>1, <2>3 DEF SaleOK, OfRound, attempts, OutsideGateway
  <2>7. thread'[t] = r /\ \A s \in Threads \ {t} : thread'[s] = thread[s]
    BY <2>1 DEF Inv, TypeOK
  <2>8. ASSUME NEW s \in Threads PROVE ThreadOK(s)' /\ HoldOK(s)'
    <3>1. CASE s = t
      BY <1>0, <2>1, <2>2, <2>3, <2>7, <3>1
         DEF Inv, ThreadOK, HoldOK, attempts, AfterSuccess, AfterFailure,
             HoldStages, OutsideGateway
    <3>2. CASE s # t
      <4>1. thread[s].at \notin HoldStages
        BY <2>3, <3>2 DEF Inv, HoldOK
      <4> QED BY <1>0, <2>1, <2>7, <3>2, <4>1
              DEF Inv, ThreadOK, HoldOK, attempts, OutsideGateway
    <3> QED BY <3>1, <3>2
  <2> QED BY <2>4, <2>5, <2>6, <2>8 DEF Inv
<1>2. CASE ~RoundIsLive(thread[t].round)
  <2>1. /\ UNCHANGED lot
        /\ \/ status = "SETTLED" /\ Proceed(t, "checkOthers")
           \/ Proceed(t, "flagForRefund")
    BY <1>2 DEF ConfirmPaymentGateway
  <2>2. /\ "checkOthers" \in Stage \cap AfterSuccess
        /\ "flagForRefund" \in Stage \cap AfterSuccess
        /\ thread[t].at \in AfterSuccess
        /\ {"checkOthers", "flagForRefund"} \cap (HoldStages \cup AfterFailure) = {}
    BY <1>0 DEF Stage, AfterSuccess, HoldStages, AfterFailure
  <2> QED BY <1>0, <2>1, <2>2, ProceedKeeps
<1> QED BY <1>1, <1>2

(* The steps that only read.                                               *)
LEMMA ReadStepsKeep ==
  ASSUME Inv, NEW t \in Threads,
         \/ CheckOthers(t) \/ ReadForSuccess(t) \/ ReadForFailure(t)
         \/ QrFails(t)
  PROVE  Inv'
<1>0. /\ UNCHANGED <<lot, attempts, resumed, parcel, crashes>>
      /\ resumed' \in SUBSET Round /\ sold' \in SUBSET Payment
      /\ deliveries' \in SUBSET Payment
  BY DEF CheckOthers, ReadForSuccess, ReadForFailure, QrFails, parcel, Inv, TypeOK
<1>1. CASE Return(t)
  BY <1>0, <1>1, QuietReturnKeeps
<1>2. CASE CheckOthers(t)
  <2>1. /\ thread[t].at = "checkOthers" /\ status = "SETTLED"
        /\ gateway[thread[t].pay] = "success"
    BY <1>2 DEF CheckOthers, At, Inv, ThreadOK, AfterSuccess
  <2>2. /\ "markSuccess" \in Stage \cap AfterSuccess
        /\ "flagForRefund" \in Stage \cap AfterSuccess
        /\ thread[t].at \in AfterSuccess
        /\ {"markSuccess", "flagForRefund"} \cap (HoldStages \cup AfterFailure) = {}
    BY <2>1 DEF Stage, AfterSuccess, HoldStages, AfterFailure
  <2>3. CASE SettledByAnother(thread[t].pay)
    <3>1. Proceed(t, "flagForRefund")
      BY <1>2, <2>3 DEF CheckOthers
    <3> QED BY <1>0, <2>2, <3>1, ProceedKeeps
  <2>4. CASE ~SettledByAnother(thread[t].pay)
    <3>1. Proceed(t, "markSuccess")
      BY <1>2, <2>4 DEF CheckOthers
    <3>2. confirmedBy \notin OutsideGateway
      BY <2>1, <2>4 DEF Inv, SaleOK, SettledByAnother
    <3> QED BY <1>0, <2>1, <2>2, <3>1, <3>2, ProceedKeeps
  <2> QED BY <2>3, <2>4
<1>3. CASE /\ ReadForSuccess(t)
           /\ Proceed(t, "confirmGateway") \/ Proceed(t, "flagForRefund")
  <2>1. /\ "confirmGateway" \in Stage \cap AfterSuccess
        /\ "flagForRefund" \in Stage \cap AfterSuccess
        /\ thread[t].at \in AfterSuccess
        /\ {"confirmGateway", "flagForRefund"} \cap (HoldStages \cup AfterFailure) = {}
    BY <1>3 DEF Stage, AfterSuccess, HoldStages, AfterFailure, ReadForSuccess, At
  <2> QED BY <1>0, <1>3, <2>1, ProceedKeeps
<1>4. CASE /\ ReadForFailure(t)
           /\ Proceed(t, "failPending") \/ Proceed(t, "failOther")
  <2>1. /\ "failPending" \in Stage \cap AfterFailure
        /\ "failOther" \in Stage \cap AfterFailure
        /\ thread[t].at \in AfterFailure
        /\ {"failPending", "failOther"} \cap (HoldStages \cup AfterSuccess) = {}
    BY <1>4 DEF Stage, AfterSuccess, HoldStages, AfterFailure, ReadForFailure, At
  <2> QED BY <1>0, <1>4, <2>1, ProceedKeeps
<1>5. CASE At(t, "generateHoldQr") /\ Proceed(t, "releaseAnyHold")
  <2>1. /\ "releaseAnyHold" \in Stage \cap HoldStages
        /\ thread[t].at \in HoldStages
        /\ "releaseAnyHold" \notin AfterSuccess \cup AfterFailure
    BY <1>5 DEF Stage, AfterSuccess, HoldStages, AfterFailure, At
  <2> QED BY <1>0, <1>5, <2>1, ProceedKeeps
<1>6. \/ Return(t)
      \/ CheckOthers(t)
      \/ ReadForSuccess(t)
         /\ (Proceed(t, "confirmGateway") \/ Proceed(t, "flagForRefund"))
      \/ ReadForFailure(t)
         /\ (Proceed(t, "failPending") \/ Proceed(t, "failOther"))
      \/ At(t, "generateHoldQr") /\ Proceed(t, "releaseAnyHold")
  BY DEF ReadForSuccess, ReadForFailure, QrFails
<1> QED BY <1>1, <1>2, <1>3, <1>4, <1>5, <1>6

(* The steps that release a hold: no QR is being made for another.         *)
LEMMA ReleaseStepsKeep ==
  ASSUME Inv, NEW t \in Threads, ReleaseHold(t) \/ ReleaseAnyHold(t)
  PROVE  Inv'
<1>0. /\ Return(t) /\ UNCHANGED <<attempts, parcel, crashes>>
      /\ thread' = [thread EXCEPT ![t] = Idle]
      /\ thread' \in [Threads -> [at: Stage, pay: 0..MaxPayment,
                                   round: 0..MaxRound]]
  BY IdleIsTyped DEF ReleaseHold, ReleaseAnyHold, Return, Inv, TypeOK
<1>1. CASE UNCHANGED <<lot, resumed>>
  <2>1. /\ resumed' \in SUBSET Round /\ sold' \in SUBSET Payment
        /\ deliveries' \in SUBSET Payment
    BY <1>0, <1>1 DEF parcel, Inv, TypeOK
  <2> QED BY <1>0, <1>1, <2>1, QuietReturnKeeps
<1>2. CASE Resume /\ status = "AWAITING_INSTANT_BUY" /\ live = thread[t].round
  <2>1. live # 0 /\ opened' = opened
    BY <1>2 DEF Inv, SaleOK, Resume
  <2>2. TypeOK' /\ RowsOK' /\ SaleOK'
    BY <1>0, <1>2, <2>1, ResumeIsOK
  <2>3. \A s \in Threads \ {t} : thread[s].at \notin HoldStages
    BY <1>2 DEF Inv, HoldOK
  <2>4. \A s \in Threads : /\ thread'[s] \in {thread[s], Idle}
                           /\ thread'[s].at \notin HoldStages
    BY <1>0, <2>3 DEF Inv, TypeOK, Idle, HoldStages
  <2>5. opened <= opened'
    BY <2>1, BoundsAssumption DEF Inv, TypeOK
  <2> QED BY <1>0, <1>2, <2>2, <2>4, <2>5, LotKeeps
<1>3. ReleaseAnyHold(t) => live = thread[t].round
  BY DEF Inv, HoldOK, ReleaseAnyHold, At, HoldStages
<1> QED BY <1>1, <1>2, <1>3 DEF ReleaseHold, ReleaseAnyHold, HoldIsLive

-----------------------------------------------------------------------------
(* What happens outside the calls: events, Fonepay, time and restarts.     *)
LEMMA OutsideKeeps ==
  ASSUME Inv,
         \/ \E p \in payments :
              CreateDelivery(p) \/ GatewayAnswers(p) \/ SocketCloses(p)
         \/ \E r \in Round : DeadlinePasses(r)
         \/ Crash
         \/ UNCHANGED vars
  PROVE  Inv'
<1>1. ASSUME NEW p \in payments, CreateDelivery(p) PROVE Inv'
  <2>1. TypeOK'
    BY <1>1 DEF CreateDelivery, Inv, TypeOK, lot, attempts
  <2> QED BY <1>1, <2>1 DEF CreateDelivery, Inv, RowsOK, SaleOK, ThreadOK,
             HoldOK, Committed, With, OfRound, lot, attempts
<1>2. ASSUME NEW p \in payments, GatewayAnswers(p) PROVE Inv'
  <2>1. /\ gateway[p] = "pending" /\ p \in Payment
        /\ UNCHANGED <<lot, payments, payment, listening, thread, resumed, parcel,
                       crashes>>
    BY <1>2 DEF GatewayAnswers, Inv, TypeOK
  <2>2. /\ gateway' \in [Payment -> {"none", "pending", "success", "failed"}]
        /\ gateway'[p] \in {"success", "failed"}
        /\ \A q \in Payment \ {p} : gateway'[q] = gateway[q]
    BY <1>2, <2>1 DEF GatewayAnswers, Inv, TypeOK
  <2>3. TypeOK'
    BY <2>1, <2>2 DEF Inv, TypeOK, lot, parcel
  <2>4. RowsOK'
    BY <2>1, <2>2 DEF Inv, TypeOK, RowsOK, lot
  <2>5. SaleOK'
    BY <2>1, <2>2 DEF Inv, TypeOK, SaleOK, Committed, With, OfRound, lot
  <2>6. \A t \in Threads : ThreadOK(t)'
    BY <2>1, <2>2 DEF Inv, TypeOK, ThreadOK, lot
  <2>7. \A t \in Threads : HoldOK(t)'
    BY <2>1 DEF Inv, HoldOK, lot
  <2> QED BY <2>3, <2>4, <2>5, <2>6, <2>7 DEF Inv
<1>3. ASSUME NEW r \in Round, DeadlinePasses(r) PROVE Inv'
  <2>1. TypeOK'
    BY <1>3 DEF DeadlinePasses, Inv, TypeOK, attempts, parcel
  <2>2. RowsOK' /\ SaleOK'
    BY <1>3 DEF DeadlinePasses, Inv, RowsOK, SaleOK, Committed, With, OfRound,
                attempts
  <2>3. \A t \in Threads : ThreadOK(t)'
    BY <1>3 DEF DeadlinePasses, Inv, ThreadOK, attempts
  <2>4. ASSUME NEW t \in Threads, thread[t].at \in HoldStages
        PROVE  thread[t].round \notin overdue'
    BY <1>3, <2>4 DEF DeadlinePasses, Inv, HoldOK, HoldStages, QrInProgress
  <2>5. \A t \in Threads : HoldOK(t)'
    BY <1>3, <2>4 DEF DeadlinePasses, Inv, HoldOK, attempts
  <2> QED BY <2>1, <2>2, <2>3, <2>5 DEF Inv
<1>4. CASE Crash
  <2>1. /\ crashes' \in 0..MaxCrashes /\ 0 <= opened
        /\ UNCHANGED <<lot, payments, payment, gateway, deliveries>>
        /\ listening' = {} /\ resumed' = {} /\ sold' = {}
    BY <1>4, BoundsAssumption DEF Crash, Inv, TypeOK
  <2>2. /\ thread' \in [Threads -> [at: Stage, pay: 0..MaxPayment,
                                     round: 0..MaxRound]]
        /\ \A t \in Threads : thread'[t] = Idle
    BY <1>4, IdleIsTyped DEF Crash
  <2>3. TypeOK'
    BY <2>1, <2>2 DEF Inv, TypeOK, lot
  <2>4. RowsOK' /\ SaleOK'
    BY <2>1 DEF Inv, RowsOK, SaleOK, Committed, With, OfRound, lot
  <2>5. \A t \in Threads : ThreadOK(t)' /\ HoldOK(t)'
    BY <2>1, <2>2 DEF ThreadOK, HoldOK, Idle, AfterSuccess, AfterFailure,
                      HoldStages, lot
  <2> QED BY <2>3, <2>4, <2>5 DEF Inv
<1>5. CASE UNCHANGED vars
  BY <1>5 DEF vars, Inv, TypeOK, RowsOK, SaleOK, ThreadOK, HoldOK, Committed,
              With, OfRound, lot, attempts, parcel
<1>6. ASSUME NEW p \in payments, SocketCloses(p) PROVE Inv'
  <2>1. TypeOK'
    BY <1>6 DEF SocketCloses, Inv, TypeOK, lot, parcel
  <2> QED BY <1>6, <2>1 DEF SocketCloses, Inv, RowsOK, SaleOK, ThreadOK,
             HoldOK, Committed, With, OfRound, lot
<1> QED BY <1>1, <1>2, <1>3, <1>4, <1>5, <1>6

LEMMA InvIsInductive == Inv /\ [Next]_vars => Inv'
<1> SUFFICES ASSUME Inv, [Next]_vars PROVE Inv'
  OBVIOUS
<1>1. ASSUME NEW t \in Threads, Call(t) PROVE Inv'
  BY <1>1, CallsKeep
<1>2. ASSUME NEW t \in Threads, Step(t) PROVE Inv'
  BY <1>2, SaveQrPaymentKeeps, ConfirmCodKeeps, ConfirmPaymentGatewayKeeps,
     ReadStepsKeep, ReleaseStepsKeep, VerdictStepsKeep DEF Step
<1>3. CASE CloseIfExpired \/ HandlePaymentExpiry \/ ConfirmPaymentManual
  BY <1>3, LotStepsKeep
<1>4. CASE \/ \E p \in payments :
                CreateDelivery(p) \/ GatewayAnswers(p) \/ SocketCloses(p)
           \/ \E r \in Round : DeadlinePasses(r)
           \/ Crash
           \/ UNCHANGED vars
  BY <1>4, OutsideKeeps
<1> QED BY <1>1, <1>2, <1>3, <1>4 DEF Next

LEMMA Invariant == Spec => []Inv
  BY InvInitially, InvIsInductive, PTL DEF Spec

-----------------------------------------------------------------------------
(* Rows, attempts and the calls on them keep their types in every behaviour *)
(* of PaymentsService.                                                      *)
THEOREM TypeCorrect == Spec => []TypeOK
<1>1. Inv => TypeOK
  BY DEF Inv
<1> QED BY <1>1, Invariant, PTL

(* confirmSuccess, confirmCod and confirmPaymentManual record no sale of a *)
(* lot that is not sold, and none through Fonepay that was not paid.       *)
THEOREM SoldMeansPaidAlways == Spec => []SoldMeansPaid
<1>1. Inv => SoldMeansPaid
  BY DEF Inv, RowsOK, SaleOK, SoldMeansPaid, With
<1> QED BY <1>1, Invariant, PTL

(* isSettledByAnotherPayment finds the row of a sale settled outside       *)
(* Fonepay however late the attempt it refunds is paid.                    *)
THEOREM SecondChargeIsRefundedAlways == Spec => []SecondChargeIsRefunded
<1>1. Inv => SecondChargeIsRefunded
  BY FS_Singleton DEF Inv, SaleOK, SecondChargeIsRefunded, OutsideGateway
<1> QED BY <1>1, Invariant, PTL

(* releaseInstantBuyHold and the expiry cron reopen bidding on account of  *)
(* the hold that is live, never of an earlier one.                         *)
THEOREM HoldEndsForItsOwnReasonAlways == Spec => HoldEndsForItsOwnReason
<1> DEFINE Reason == \/ live \in overdue
                     \/ \E p \in OfRound(live) : gateway[p] = "failed"
                     \/ \E t \in Threads : /\ At(t, "releaseAnyHold")
                                           /\ thread[t].round = live
<1>1. ASSUME Inv, [Next]_vars, status = "AWAITING_INSTANT_BUY", status' = "ACTIVE"
      PROVE  Reason
  <2>1. CASE HandlePaymentExpiry
    BY <2>1 DEF HandlePaymentExpiry
  <2>2. ASSUME NEW t \in Threads, ReleaseHold(t) PROVE Reason
    <3>1. thread[t].at = "releaseHold" /\ live = thread[t].round
      BY <1>1, <2>2 DEF ReleaseHold, At, HoldIsLive, lot
    <3>2. thread[t].pay \in OfRound(live) /\ gateway[thread[t].pay] = "failed"
      BY <1>1, <3>1 DEF Inv, ThreadOK, AfterFailure, OfRound
    <3> QED BY <3>2
  <2>3. ASSUME NEW t \in Threads, ReleaseAnyHold(t) PROVE Reason
    <3>1. At(t, "releaseAnyHold") /\ thread[t].round = live
      BY <1>1, <2>3 DEF ReleaseAnyHold, At, Inv, HoldOK, HoldStages
    <3> QED BY <3>1
  <2>4. \/ HandlePaymentExpiry
        \/ \E t \in Threads : ReleaseHold(t) \/ ReleaseAnyHold(t)
    BY <1>1 DEF Next, vars, Call, Step, lot, CloseIfExpired, ConfirmPaymentManual,
         SettleOutsideGateway, InitiateInstantBuyPayment, InitiatePayment,
         RequestCod, Poll, ExpirePayment, SaveQrPayment, QrFails, MarkExpired,
         ConfirmCod, ReadForSuccess, ConfirmPaymentGateway, CheckOthers,
         FlagForRefund, MarkSuccess, ReadForFailure, MarkFailed, CreateDelivery,
         GatewayAnswers, SocketCloses, DeadlinePasses, Crash, Open
  <2> QED BY <2>1, <2>2, <2>3, <2>4
<1>2. Inv /\ [Next]_vars =>
        [(status = "AWAITING_INSTANT_BUY" /\ status' = "ACTIVE") =>
           \/ live \in overdue
           \/ \E p \in OfRound(live) : gateway[p] = "failed"
           \/ \E t \in Threads : At(t, "releaseAnyHold") /\ thread[t].round = live]_vars
  BY <1>1
<1> QED BY <1>2, Invariant, PTL DEF Spec, HoldEndsForItsOwnReason

=============================================================================
