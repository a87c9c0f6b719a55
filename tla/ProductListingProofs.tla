------------------------ MODULE ProductListingProofs ------------------------
(***************************************************************************)
(* What is live was submitted, and bids are honoured, for every number of  *)
(* requests in progress, bids, codes and copies; and what the arithmetic   *)
(* of prices and bids gives, for every price and increment configuration.  *)
(***************************************************************************)
EXTENDS ProductListing, BidLadder, TLAPS

(* A row that would be live has been up for approval at its price: the one *)
(* on record, and each one a request will save.                            *)
Submitted(row) ==
  row.status \in LIVE_STATUSES =>
    row.productCode # 0 /\ row.basePrice \in shown

Saving(t) == thread[t].at \in {"countBids", "select", "update"}

Outcomes == {"ACTIVE", "SETTLED", "ABANDONED"}

(* Without bids the row shows none, and with bids they stand: of the row on*)
(* record, and of what a request that read a row with bids will save.      *)
BidsStand ==
  /\ bids = 0 => product.currentHighestBid = 0 /\ bidOn = {}
  /\ bids > 0 => /\ product.currentHighestBid = bids
                 /\ bidOn = {product.basePrice}
                 /\ product.status \in Outcomes

KeepsBids(row, stage) ==
  row.currentHighestBid # 0 =>
    /\ bids > 0
    /\ row.status \in Outcomes
    /\ stage # "countBids" => bidOn = {row.basePrice}

Inv ==
  /\ TypeOK
  /\ AwaitingApproval(product) \subseteq shown
  /\ ~torn => /\ Submitted(product)
              /\ \A t \in Threads : Saving(t) => Submitted(thread[t].row)
  /\ ~outbid => /\ BidsStand
                /\ \A t \in Threads :
                     Saving(t) => KeepsBids(thread[t].row, thread[t].at)

ThreadState == [at: Stage, row: Product, columns: SUBSET Column,
                copy: Copy \cup {NoCopy}]

LEMMA IdleIsTyped == Idle \in ThreadState /\ Idle.at = "idle"
  BY ListingAssumption
     DEF Idle, ThreadState, Stage, NewProduct, Product, Price, NoCopy

(* A request that has begun: what it will save.                            *)
LEMMA RequestKeeps ==
  ASSUME Inv, NEW t \in Threads, NEW row \in Product, NEW stage \in Stage,
         Request(t, row, stage),
         shown' \in SUBSET Price, shown \subseteq shown',
         codes' \in 0..MaxCodes,
         stage \in {"countBids", "select", "update"} =>
           /\ ~torn => (row.status \in LIVE_STATUSES =>
                          row.productCode # 0 /\ row.basePrice \in shown')
           /\ ~outbid => KeepsBids(row, stage)
  PROVE  Inv'
<1> DEFINE new == [Idle EXCEPT !.at = stage, !.row = row]
<1>1. thread' = [thread EXCEPT ![t] = new]
  BY DEF Request
<1>2. UNCHANGED <<product, copy, bids, bidOn, outbid, torn>>
  BY DEF Request
<1>3. new \in ThreadState /\ new.at = stage /\ new.row = row
  BY IdleIsTyped DEF ThreadState
<1> HIDE DEF new
<1>4. TypeOK'
  BY <1>1, <1>2, <1>3 DEF Inv, TypeOK, ThreadState
<1>5. /\ (AwaitingApproval(product) \subseteq shown)'
      /\ (~torn => Submitted(product))' /\ (~outbid => BidsStand)'
  BY <1>2 DEF Inv, AwaitingApproval, Submitted, BidsStand
<1>6. ASSUME NEW s \in Threads, Saving(s)'
      PROVE  /\ (~torn => Submitted(thread[s].row))'
             /\ (~outbid => KeepsBids(thread[s].row, thread[s].at))'
  <2>1. CASE s = t
    <3>1. thread'[s] = new
      BY <1>1, <2>1 DEF Inv, TypeOK
    <3> QED BY <1>2, <1>3, <1>6, <3>1 DEF Saving, Submitted, KeepsBids
  <2>2. CASE s # t
    <3>1. thread'[s] = thread[s]
      BY <1>1, <2>2 DEF Inv, TypeOK
    <3> QED BY <1>2, <1>6, <3>1 DEF Saving, Submitted, KeepsBids, Inv
  <2> QED BY <2>1, <2>2
<1> QED BY <1>4, <1>5, <1>6 DEF Inv

(* The steps in which no request begins.                                   *)
LEMMA OthersKeep ==
  ASSUME Inv, TypeOK', shown \subseteq shown',
         (AwaitingApproval(product) \subseteq shown)',
         ~torn' => ~torn /\ Submitted(product)',
         ~outbid' => /\ ~outbid /\ BidsStand'
                     /\ bids > 0 => bids' > 0 /\ bidOn' = bidOn,
         \A s \in Threads : Saving(s)' =>
           /\ Saving(s) /\ thread'[s].row = thread[s].row
           /\ (thread[s].at = "countBids" /\ thread'[s].at # "countBids")
                => thread[s].row.status \notin Outcomes
  PROVE  Inv'
<1>1. ASSUME NEW s \in Threads, Saving(s)'
      PROVE  /\ (~torn => Submitted(thread[s].row))'
             /\ (~outbid => KeepsBids(thread[s].row, thread[s].at))'
  <2>1. /\ Saving(s) /\ thread'[s].row = thread[s].row
        /\ ~torn => Submitted(thread[s].row)
        /\ ~outbid => KeepsBids(thread[s].row, thread[s].at)
    BY <1>1 DEF Inv
  <2>2. ~torn' => Submitted(thread[s].row)'
    BY <2>1 DEF Submitted
  <2>3. ~outbid' => KeepsBids(thread[s].row, thread[s].at)'
    BY <1>1, <2>1 DEF KeepsBids
  <2> QED BY <2>2, <2>3
<1> QED BY <1>1 DEF Inv

-----------------------------------------------------------------------------
LEMMA InvInitially == Init => Inv
<1> SUFFICES ASSUME Init PROVE Inv
  OBVIOUS
<1>1. \A price \in {0, 1} : /\ NewProduct(price) \in Product
                              /\ NewProduct(price).status = "DRAFT"
                              /\ NewProduct(price).currentHighestBid = 0
  BY ListingAssumption DEF NewProduct, Product, Price, NoCopy
<1>2. product \in Product /\ product.status = "DRAFT"
      /\ product.currentHighestBid = 0
  <2>1. product \in {NewProduct(0), NewProduct(1)}
    BY DEF Init
  <2> QED BY <1>1, <2>1
<1>3. TypeOK
  <2>1. thread \in [Threads -> ThreadState]
    BY IdleIsTyped DEF Init
  <2>2. copy \in [Copy -> [row: {"none", "listed", "deleted"},
                           productCode: 0..MaxCodes]]
    BY ListingAssumption DEF Init
  <2>3. shown = {} /\ bidOn = {} /\ outbid = FALSE /\ torn = FALSE
        /\ bids = 0 /\ codes = 0
    BY DEF Init
  <2>4. outbid \in BOOLEAN /\ torn \in BOOLEAN
    BY Zenon DEF Init
  <2> QED BY <1>2, <2>1, <2>2, <2>3, <2>4, ListingAssumption DEF TypeOK, ThreadState
<1>4. \A t \in Threads : ~Saving(t)
  BY DEF Init, Saving, Idle
<1> QED BY <1>2, <1>3, <1>4
        DEF Init, Inv, Submitted, AwaitingApproval, LIVE_STATUSES, BidsStand

(* What a request that reads the row now knows of it.                      *)
LEMMA ReadRow ==
  ASSUME Inv
  PROVE  /\ product \in Product /\ codes \in 0..MaxCodes /\ shown \in SUBSET Price
         /\ AwaitingApproval(product) \subseteq shown
         /\ ~torn => Submitted(product)
         /\ ~outbid => KeepsBids(product, "select")
  BY DEF Inv, TypeOK, BidsStand, KeepsBids

(* Each request of the owner, and each of an admin.                        *)
LEMMA OwnerKeeps ==
  ASSUME Inv, NEW t \in Threads, Owner(t)
  PROVE  Inv'
<1> USE ReadRow
<1>1. CASE UpdateProduct(t)
  <2>1. PICK price \in Price : Request(t, Repriced(product, price), "select")
    BY <1>1 DEF UpdateProduct
  <2>2. /\ Repriced(product, price) \in Product
        /\ Repriced(product, price).status \notin LIVE_STATUSES \cup Outcomes
        /\ Repriced(product, price).currentHighestBid = product.currentHighestBid
    BY <1>1 DEF UpdateProduct, Repriced, Product, OWNER_EDITABLE_STATUSES,
                LIVE_STATUSES, Outcomes
  <2>3. product.status \notin Outcomes
    BY <1>1 DEF UpdateProduct, OWNER_EDITABLE_STATUSES, Outcomes
  <2> QED BY <1>1, <2>1, <2>2, <2>3, RequestKeeps
          DEF UpdateProduct, Stage, KeepsBids
<1>2. CASE SubmitProduct(t)
  <2>1. [product EXCEPT !.status = "AWAITING_APPROVAL"] \in Product
    BY DEF Product
  <2> QED BY <1>2, <2>1, RequestKeeps
          DEF SubmitProduct, Stage, OWNER_EDITABLE_STATUSES,
              LIVE_STATUSES, Outcomes, Product, KeepsBids
<1>3. CASE WithdrawProduct(t)
  <2>1. [product EXCEPT !.status = "WITHDRAWN"] \in Product
    BY DEF Product
  <2> QED BY <1>3, <2>1, RequestKeeps
          DEF WithdrawProduct, Stage, WithdrawableStatuses,
              LIVE_STATUSES, Outcomes, Product, KeepsBids
<1>4. CASE DeleteProduct(t)
  BY <1>4, RequestKeeps DEF DeleteProduct, Stage
<1>5. CASE RelistProduct(t)
  BY <1>5, RequestKeeps DEF RelistProduct, Stage
<1> QED BY <1>1, <1>2, <1>3, <1>4, <1>5 DEF Owner

LEMMA AdminKeeps ==
  ASSUME Inv, NEW t \in Threads, Admin(t)
  PROVE  Inv'
<1> USE ReadRow
<1>1. CASE AdminUpdateProduct(t)
  <2>1. CASE Request(t, product, "select") /\ UNCHANGED shown
    BY <1>1, <2>1, RequestKeeps DEF AdminUpdateProduct, Stage, Submitted
  <2>2. ASSUME NEW price \in Price, shown' = shown \cup {price},
               NEW stage \in {"countBids", "select"},
               stage = "countBids" <=> product.status \in LIVE_STATUSES,
               Request(t, Repriced(product, price), stage)
        PROVE  Inv'
    <3>1. /\ Repriced(product, price) \in Product
          /\ Repriced(product, price).basePrice = price
          /\ Repriced(product, price).status = product.status
          /\ Repriced(product, price).productCode = product.productCode
          /\ Repriced(product, price).currentHighestBid
               = product.currentHighestBid
      BY DEF Repriced, Product
    <3>2. stage = "select" => product.status \notin Outcomes
      BY <1>1, <2>2 DEF AdminUpdateProduct, ADMIN_EDITABLE_STATUSES,
                        LIVE_STATUSES, Outcomes
    <3> QED BY <1>1, <2>2, <3>1, <3>2, RequestKeeps
            DEF AdminUpdateProduct, Stage, Submitted, KeepsBids
  <2> QED BY <1>1, <2>1, <2>2 DEF AdminUpdateProduct
<1>2. CASE ApproveProduct(t)
  <2> DEFINE code == IF product.productCode = 0 THEN codes + 1
                     ELSE product.productCode
             row == [product EXCEPT !.status = "AWAITING_FIRST_BID",
                                    !.productCode = code]
  <2>0. code \in 0..MaxCodes /\ code # 0 /\ codes' \in 0..MaxCodes
    BY <1>2, ListingAssumption DEF ApproveProduct, Product
  <2> HIDE DEF code
  <2>1. row \in Product /\ row.productCode # 0
        /\ row.basePrice = product.basePrice
        /\ row.currentHighestBid = product.currentHighestBid
    BY <2>0 DEF Product
  <2>2. shown' = shown /\ product.basePrice \in shown
    BY <1>2 DEF ApproveProduct, AwaitingApproval
  <2>3. product.status \notin Outcomes
    BY <1>2 DEF ApproveProduct, Outcomes
  <2>4. Request(t, row, "select")
    BY <1>2 DEF ApproveProduct, code
  <2> HIDE DEF row
  <2> QED BY <2>0, <2>1, <2>2, <2>3, <2>4, RequestKeeps DEF Stage, KeepsBids
<1>3. CASE RejectProduct(t)
  <2>1. [product EXCEPT !.status = "REJECTED"] \in Product
    BY DEF Product
  <2> QED BY <1>3, <2>1, RequestKeeps
          DEF RejectProduct, Stage, LIVE_STATUSES, Outcomes, Product, KeepsBids
<1> QED BY <1>1, <1>2, <1>3 DEF Admin

(* The UPDATE of a save leaves the copy, or the row as it was, or a mix,   *)
(* each column from one of them.                                           *)
LEMMA MixedRow ==
  ASSUME Inv, NEW t \in Threads
  PROVE  /\ Mixed(t) \in Product
         /\ Mixed(t).status \in {thread[t].row.status, product.status}
         /\ Mixed(t).basePrice \in {thread[t].row.basePrice, product.basePrice}
         /\ Mixed(t).currentHighestBid
              \in {thread[t].row.currentHighestBid, product.currentHighestBid}
<1>1. product \in Product /\ thread[t].row \in Product
  BY DEF Inv, TypeOK
<1> DEFINE v(c) == IF c \in thread[t].columns THEN thread[t].row[c] ELSE product[c]
<1>2. /\ v("status") \in {thread[t].row.status, product.status}
      /\ v("basePrice") \in {thread[t].row.basePrice, product.basePrice}
      /\ v("productCode") \in {thread[t].row.productCode, product.productCode}
      /\ v("currentHighestBid")
           \in {thread[t].row.currentHighestBid, product.currentHighestBid}
      /\ v("relistedProductId")
           \in {thread[t].row.relistedProductId, product.relistedProductId}
      /\ v("deleted") \in {thread[t].row.deleted, product.deleted}
  OBVIOUS
<1>3. Mixed(t) = [product EXCEPT !.status = v("status"),
                    !.basePrice = v("basePrice"), !.productCode = v("productCode"),
                    !.currentHighestBid = v("currentHighestBid"),
                    !.relistedProductId = v("relistedProductId"),
                    !.deleted = v("deleted")]
  BY DEF Mixed
<1> HIDE DEF v
<1>4. v("deleted") \in BOOLEAN
  BY <1>1, <1>2 DEF Product
<1> QED BY <1>1, <1>2, <1>3, <1>4 DEF Product

LEMMA UpdateKeeps ==
  ASSUME Inv, NEW t \in Threads, Update(t)
  PROVE  Inv'
<1>1. /\ product' = Mixed(t)
      /\ shown' = shown \cup AwaitingApproval(Mixed(t))
      /\ outbid' = (outbid \/ Outbid(t))
      /\ torn' = (torn \/ Mixed(t) \notin {thread[t].row, product})
      /\ thread' = [thread EXCEPT ![t] = Idle]
      /\ UNCHANGED <<copy, bids, codes, bidOn>>
      /\ thread[t].at = "update"
  BY DEF Update, Return, At
<1>2. TypeOK'
  <2>1. shown' \subseteq Price
    BY <1>1, MixedRow DEF Inv, TypeOK, AwaitingApproval, Product
  <2>2. thread' \in [Threads -> ThreadState]
    BY <1>1, IdleIsTyped DEF Inv, TypeOK, ThreadState
  <2>3. outbid' \in BOOLEAN /\ torn' \in BOOLEAN
    BY <1>1, Zenon DEF Inv, TypeOK
  <2> QED BY <1>1, <2>1, <2>2, <2>3, MixedRow DEF Inv, TypeOK, ThreadState
<1>3. (AwaitingApproval(product) \subseteq shown)'
  BY <1>1 DEF AwaitingApproval
<1>4. ASSUME ~torn' PROVE ~torn /\ Submitted(product)'
  <2>1. ~torn /\ product' \in {thread[t].row, product}
    BY <1>1, <1>4
  <2>2. Submitted(thread[t].row) /\ Submitted(product)
    BY <1>1, <2>1 DEF Inv, Saving
  <2> QED BY <1>1, <2>1, <2>2 DEF Submitted
<1>5. ASSUME ~outbid' PROVE ~outbid /\ BidsStand'
  <2>1. ~outbid /\ thread[t].row.currentHighestBid = product.currentHighestBid
    BY <1>1, <1>5 DEF Outbid
  <2>2. BidsStand /\ KeepsBids(thread[t].row, "update")
    BY <1>1, <2>1 DEF Inv, Saving
  <2>3. bids \in Nat
    BY ListingAssumption DEF Inv, TypeOK
  <2> QED BY <1>1, <2>1, <2>2, <2>3, MixedRow DEF BidsStand, KeepsBids
<1>6. \A s \in Threads : Saving(s)' => thread'[s] = thread[s] /\ Saving(s)
  BY <1>1, IdleIsTyped DEF Inv, TypeOK, Saving
<1> QED BY <1>1, <1>2, <1>3, <1>4, <1>5, <1>6, OthersKeep

(* What a step must leave alone for the row on record to stay in order.    *)
SameLot ==
  /\ product'.status = product.status
  /\ product'.basePrice = product.basePrice
  /\ product'.productCode = product.productCode
  /\ product'.currentHighestBid = product.currentHighestBid
  /\ UNCHANGED <<bids, shown, bidOn, outbid, torn>>

LEMMA SameLotKeeps ==
  ASSUME Inv, TypeOK', SameLot,
         \A s \in Threads : Saving(s)' =>
           /\ Saving(s) /\ thread'[s].row = thread[s].row
           /\ (thread[s].at = "countBids" /\ thread'[s].at # "countBids")
                => thread[s].row.status \notin Outcomes
  PROVE  Inv'
<1>1. /\ (AwaitingApproval(product) \subseteq shown)'
      /\ ~torn' => ~torn /\ Submitted(product)'
      /\ ~outbid' => ~outbid /\ BidsStand'
  BY DEF Inv, SameLot, AwaitingApproval, Submitted, BidsStand
<1> QED BY <1>1, OthersKeep DEF SameLot

(* The other steps of a request in progress.                               *)
LEMMA StepKeeps ==
  ASSUME Inv, NEW t \in Threads, Step(t)
  PROVE  Inv'
<1>0. TypeOK /\ thread[t] \in ThreadState
  BY DEF Inv, TypeOK, ThreadState
<1>1. ASSUME NEW stage \in Stage, NEW c \in Copy \cup {NoCopy},
             NEW columns \in SUBSET Column
      PROVE  [thread[t] EXCEPT !.at = stage, !.columns = columns, !.copy = c]
               \in ThreadState
  BY <1>0 DEF ThreadState
<1> USE IdleIsTyped
<1>2. CASE CountBids(t)
  <2>1. UNCHANGED <<product, copy, bids, codes, shown, bidOn, outbid, torn>>
    BY <1>2 DEF CountBids
  <2>2. CASE Return(t)
    <3>1. TypeOK'
      BY <1>0, <2>1, <2>2 DEF Return, TypeOK, ThreadState
    <3> QED BY <1>0, <2>1, <2>2, <3>1, SameLotKeeps
            DEF Return, SameLot, Saving, TypeOK
  <2>3. CASE /\ thread[t].at = "countBids" /\ Repriceable(thread[t].row)
             /\ thread' = [thread EXCEPT ![t] = [@ EXCEPT !.at = "select"]]
    <3>1. thread[t].row.status \notin Outcomes
      BY <2>3 DEF Repriceable, Outcomes
    <3>2. [thread[t] EXCEPT !.at = "select"] \in ThreadState
      BY <1>0 DEF Stage, ThreadState
    <3>3. TypeOK'
      BY <1>0, <2>1, <2>3, <3>2 DEF TypeOK, ThreadState
    <3>4. \A s \in Threads \ {t} : thread'[s] = thread[s]
      BY <2>3, <1>0 DEF TypeOK
    <3>5. thread'[t].row = thread[t].row
      BY <2>3, <1>0 DEF TypeOK, ThreadState
    <3> QED BY <2>1, <2>3, <3>1, <3>3, <3>4, <3>5, SameLotKeeps DEF SameLot, Saving
  <2> QED BY <1>2, <2>2, <2>3 DEF CountBids, At
<1>3. CASE Select(t)
  <2> DEFINE columns == {c \in Column : thread[t].row[c] # product[c]}
             new == [thread[t] EXCEPT !.at = "update", !.columns = columns]
  <2>1. /\ UNCHANGED <<product, copy, bids, codes, shown, bidOn, outbid, torn>>
        /\ thread' = [thread EXCEPT ![t] = new]
        /\ thread[t].at = "select"
    BY <1>3 DEF Select, At
  <2>2. columns \in SUBSET Column
    OBVIOUS
  <2> HIDE DEF columns
  <2>3. new \in ThreadState /\ new.row = thread[t].row
    BY <1>0, <2>2 DEF Stage, ThreadState
  <2> HIDE DEF new
  <2>4. TypeOK'
    BY <1>0, <2>1, <2>3 DEF TypeOK, ThreadState
  <2>5. \A s \in Threads : thread'[s] = IF s = t THEN new ELSE thread[s]
    BY <1>0, <2>1 DEF TypeOK
  <2> QED BY <2>1, <2>3, <2>4, <2>5, SameLotKeeps DEF SameLot, Saving
<1>4. CASE SoftRemove(t)
  <2>1. /\ product' = [product EXCEPT !.deleted = TRUE]
        /\ Return(t)
        /\ UNCHANGED <<copy, bids, codes, shown, bidOn, outbid, torn>>
    BY <1>4 DEF SoftRemove
  <2>2. product' \in Product /\ SameLot
    BY <1>0, <2>1 DEF TypeOK, Product, SameLot
  <2>3. TypeOK'
    BY <1>0, <2>1, <2>2 DEF TypeOK, ThreadState, Return
  <2> QED BY <1>0, <2>1, <2>2, <2>3, SameLotKeeps DEF Return, TypeOK, Saving
<1>5. CASE SaveCopy(t)
  <2>1. PICK c \in Copy :
          /\ copy' = [copy EXCEPT ![c].row = "listed"]
          /\ thread' = [thread EXCEPT ![t] = [@ EXCEPT !.at = "claim", !.copy = c]]
    BY <1>0, <1>5 DEF SaveCopy, TypeOK
  <2>2. UNCHANGED <<product, bids, codes, shown, bidOn, outbid, torn>>
    BY <1>5 DEF SaveCopy
  <2>3. [thread[t] EXCEPT !.at = "claim", !.copy = c] \in ThreadState
    BY <1>0 DEF Stage, ThreadState
  <2>4. TypeOK'
    BY <1>0, <2>1, <2>2, <2>3 DEF TypeOK, ThreadState
  <2>5. thread'[t].at = "claim" /\ \A s \in Threads \ {t} : thread'[s] = thread[s]
    BY <1>0, <2>1, <2>3 DEF TypeOK, ThreadState
  <2> QED BY <2>2, <2>4, <2>5, SameLotKeeps DEF SameLot, Saving
<1>6. CASE ClaimRelist(t)
  <2>1. UNCHANGED <<copy, bids, codes, shown, bidOn, outbid, torn>>
    BY <1>6 DEF ClaimRelist
  <2>2. product' \in Product /\ SameLot
    <3>1. CASE product' = product
      BY <1>0, <2>1, <3>1 DEF TypeOK, SameLot
    <3>2. CASE product' = [product EXCEPT !.relistedProductId = thread[t].copy]
      BY <1>0, <2>1, <3>2 DEF TypeOK, Product, ThreadState, SameLot
    <3> QED BY <1>6, <3>1, <3>2 DEF ClaimRelist
  <2>3. PICK stage \in {"finishCopy", "deleteCopy"} :
          thread' = [thread EXCEPT ![t] = [@ EXCEPT !.at = stage]]
    BY <1>6 DEF ClaimRelist
  <2>4. [thread[t] EXCEPT !.at = stage] \in ThreadState
    BY <1>0 DEF Stage, ThreadState
  <2>5. TypeOK'
    BY <1>0, <2>1, <2>2, <2>3, <2>4 DEF TypeOK, ThreadState
  <2>6. thread'[t].at = stage /\ \A s \in Threads \ {t} : thread'[s] = thread[s]
    BY <1>0, <2>3, <2>4 DEF TypeOK, ThreadState
  <2> QED BY <2>2, <2>5, <2>6, SameLotKeeps DEF Saving
<1>7. CASE FinishCopy(t) \/ DeleteCopy(t) \/ RequestFails(t)
  <2>1. /\ UNCHANGED <<product, bids, shown, bidOn, outbid, torn>>
        /\ Return(t)
    BY <1>7 DEF FinishCopy, DeleteCopy, RequestFails
  <2>2. codes' \in 0..MaxCodes
    BY <1>0, <1>7, ListingAssumption
       DEF FinishCopy, DeleteCopy, RequestFails, TypeOK
  <2>3. copy' \in [Copy -> [row: {"none", "listed", "deleted"},
                            productCode: 0..MaxCodes]]
    BY <1>0, <1>7, ListingAssumption
       DEF FinishCopy, DeleteCopy, RequestFails, TypeOK
  <2>4. TypeOK'
    BY <1>0, <2>1, <2>2, <2>3 DEF TypeOK, ThreadState, Return
  <2> QED BY <1>0, <2>1, <2>4, SameLotKeeps DEF Return, TypeOK, SameLot, Saving
<1> QED BY <1>2, <1>3, <1>4, <1>5, <1>6, <1>7, UpdateKeeps DEF Step

LEMMA AuctionKeeps ==
  ASSUME Inv, PlaceBid \/ AuctionEnds
  PROVE  Inv'
<1>0. TypeOK /\ product \in Product
  BY DEF Inv, TypeOK
<1>1. CASE PlaceBid
  <2>1. /\ product' = [product EXCEPT !.status = "ACTIVE",
                                      !.currentHighestBid = bids + 1]
        /\ bids' = bids + 1 /\ bids < MaxBids
        /\ product.status \in LIVE_STATUSES
        /\ product.basePrice # 0
        /\ bidOn' = bidOn \cup {product.basePrice}
        /\ UNCHANGED <<copy, codes, thread, shown, outbid, torn>>
    BY <1>1 DEF PlaceBid
  <2>2. /\ product' \in Product
        /\ product'.status = "ACTIVE"
        /\ product'.basePrice = product.basePrice
        /\ product'.productCode = product.productCode
        /\ product'.currentHighestBid = bids + 1
    <3>1. bids + 1 \in 0..MaxBids
      BY <1>0, <2>1, ListingAssumption DEF TypeOK
    <3> QED BY <1>0, <2>1, <3>1 DEF Product
  <2>3. TypeOK'
    BY <1>0, <2>1, <2>2, ListingAssumption DEF TypeOK, Product
  <2>4. /\ (AwaitingApproval(product) \subseteq shown)'
        /\ ~torn' => ~torn /\ Submitted(product)'
    BY <2>1, <2>2 DEF Inv, AwaitingApproval, Submitted
  <2>5. ASSUME ~outbid'
        PROVE  ~outbid /\ BidsStand' /\ (bids > 0 => bids' > 0 /\ bidOn' = bidOn)
    <3>1. ~outbid /\ BidsStand
      BY <2>1, <2>5 DEF Inv
    <3>2. bids \in Nat /\ bids' = bids + 1
      BY <1>0, <2>1, ListingAssumption DEF TypeOK
    <3> QED BY <2>1, <2>2, <3>1, <3>2 DEF BidsStand, Outcomes
  <2> QED BY <2>1, <2>3, <2>4, <2>5, OthersKeep DEF Saving
<1>2. CASE AuctionEnds
  <2>1. PICK outcome \in {"SETTLED", "ABANDONED"} :
          product' = [product EXCEPT !.status = outcome]
    BY <1>2 DEF AuctionEnds
  <2>2. UNCHANGED <<copy, bids, codes, thread, shown, bidOn, outbid, torn>>
    BY <1>2 DEF AuctionEnds
  <2>3. /\ product' \in Product
        /\ product'.status = outcome
        /\ product'.basePrice = product.basePrice
        /\ product'.currentHighestBid = product.currentHighestBid
    BY <1>0, <2>1 DEF Product
  <2>4. TypeOK'
    BY <1>0, <2>2, <2>3 DEF TypeOK
  <2>5. /\ (AwaitingApproval(product) \subseteq shown)'
        /\ ~torn' => ~torn /\ Submitted(product)'
        /\ ~outbid' => ~outbid /\ BidsStand'
    BY <2>2, <2>3
       DEF Inv, AwaitingApproval, Submitted, BidsStand, LIVE_STATUSES, Outcomes
  <2> QED BY <2>2, <2>4, <2>5, OthersKeep DEF Saving
<1> QED BY <1>1, <1>2

LEMMA Invariant == Spec => []Inv
<1>1. Inv /\ [Next]_vars => Inv'
  <2> SUFFICES ASSUME Inv, [Next]_vars PROVE Inv'
    OBVIOUS
  <2>1. CASE UNCHANGED vars
    <3>1. TypeOK'
      BY <2>1 DEF vars, Inv, TypeOK
    <3> QED BY <2>1, <3>1, SameLotKeeps DEF vars, SameLot, Saving
  <2> QED BY <2>1, OwnerKeeps, AdminKeeps, StepKeeps, AuctionKeeps DEF Next
<1> QED BY <1>1, InvInitially, PTL DEF Spec

(* Every reachable state is made of values the columns can hold.           *)
THEOREM TypeCorrect == Spec => []TypeOK
<1>1. Inv => TypeOK
  BY DEF Inv
<1> QED BY <1>1, Invariant, PTL

(* Whatever requests overlap and however many: a lot is live only with a   *)
(* code and at a price that has been up for approval or was set by an      *)
(* admin, unless a save was torn.  It takes Submitted of every row still   *)
(* to be saved, since any of them may be the next on record.               *)
THEOREM LiveWasSubmittedAlways == Spec => []LiveWasSubmitted
<1>1. Inv => LiveWasSubmitted
  BY DEF Inv, Submitted, LiveWasSubmitted
<1> QED BY <1>1, Invariant, PTL

(* However many bids and requests: unless one has written what it read     *)
(* before a bid, a lot with bids stays at the price they were made at,     *)
(* shows the highest, and is not withdrawn, torn saves or not.  It takes   *)
(* KeepsBids: a copy read after a bid agrees with the bids, so that every  *)
(* mixture of it with the row does.                                        *)
THEOREM BidsAreHonouredAlways == Spec => []BidsAreHonoured
<1>1. Inv => BidsAreHonoured
  BY ListingAssumption DEF Inv, TypeOK, BidsStand, BidsAreHonoured, Outcomes
<1> QED BY <1>1, Invariant, PTL

-----------------------------------------------------------------------------
(* The prices a listing derives from its base price, and the bids placed   *)
(* on it: what holds for every base price and increment configuration.     *)

(* roundUpToMultipleOf5 and roundDownToMultipleOf5 return the nearest      *)
(* multiple of 5 on their side of a decimal, whatever its denominator.     *)
LEMMA RoundDownBounds ==
  ASSUME NEW n \in Int, NEW d \in Nat \ {0}
  PROVE  LET r == RoundDownToMultipleOf5(n, d)
         IN /\ r \in Int
            /\ r % 5 = 0
            /\ r * d <= n
            /\ n < (r + 5) * d
<1> DEFINE q == n \div (5 * d)
<1>1. 5 * d \in Nat /\ 5 * d > 0
  BY Z3
<1>2. q \in Int /\ (5 * d) * q <= n /\ n < (5 * d) * (q + 1)
  BY <1>1, Z3
<1>3. RoundDownToMultipleOf5(n, d) = 5 * q
  BY DEF RoundDownToMultipleOf5
<1> HIDE DEF q
<1>4. (5 * q) % 5 = 0 /\ 5 * q \in Int
  BY <1>2, Z3
<1>5. (5 * q) * d = (5 * d) * q /\ (5 * q + 5) * d = (5 * d) * (q + 1)
  BY <1>2, Z3
<1> QED BY <1>2, <1>3, <1>4, <1>5

LEMMA RoundUpBounds ==
  ASSUME NEW n \in Int, NEW d \in Nat \ {0}
  PROVE  LET r == RoundUpToMultipleOf5(n, d)
         IN /\ r \in Int
            /\ r % 5 = 0
            /\ n <= r * d
            /\ (r - 5) * d < n
<1> DEFINE down == RoundDownToMultipleOf5(-n, d)
           r == RoundUpToMultipleOf5(n, d)
<1>1. down \in Int /\ down % 5 = 0 /\ down * d <= -n /\ -n < (down + 5) * d
  BY RoundDownBounds
<1>2. r = -down
  BY Z3 DEF RoundUpToMultipleOf5, RoundDownToMultipleOf5
<1> HIDE DEF down, r
<1>3. r % 5 = 0 /\ r \in Int
  BY <1>1, <1>2, Z3
<1>4. r * d = -(down * d) /\ (r - 5) * d = -((down + 5) * d)
  BY <1>1, <1>2, Z3
<1>5. down * d \in Int /\ (down + 5) * d \in Int
  BY <1>1
<1>6. n <= r * d /\ (r - 5) * d < n
  BY <1>1, <1>4, <1>5
<1> QED BY <1>3, <1>6 DEF r

LEMMA MarkupIsAPercentage ==
  ASSUME NEW base \in Nat
  PROVE  MarkupPercent(base) \in 10..20
  BY SMT DEF MarkupPercent

-----------------------------------------------------------------------------
(* From a base price of Rs. 47 on, the three prices are multiples of Rs. 5 *)
(* in the order the comments of ProductsService promise: the Instant Buy   *)
(* price is above the starting price, and the ceiling above both.  Rs. 47  *)
(* is the least such price: at Rs. 46 a lot starts at its Instant Buy      *)
(* price, and at Rs. 13 it starts above it.                                *)
THEOREM PricesAreOrdered ==
  /\ \A base \in Nat : base >= 47 =>
       /\ ComputeBiddingStartPrice(base) < ComputeInstantBuyPrice(base)
       /\ ComputeInstantBuyPrice(base) < ComputeBiddingEndPrice(base)
       /\ ComputeBiddingStartPrice(base) % 5 = 0
       /\ ComputeInstantBuyPrice(base) % 5 = 0
       /\ ComputeBiddingEndPrice(base) % 5 = 0
  /\ ComputeBiddingStartPrice(46) = ComputeInstantBuyPrice(46)
  /\ ComputeBiddingStartPrice(13) > ComputeInstantBuyPrice(13)
<1>1. ASSUME NEW base \in Nat, base >= 47
      PROVE  /\ ComputeBiddingStartPrice(base) < ComputeInstantBuyPrice(base)
             /\ ComputeInstantBuyPrice(base) < ComputeBiddingEndPrice(base)
             /\ ComputeBiddingStartPrice(base) % 5 = 0
             /\ ComputeInstantBuyPrice(base) % 5 = 0
             /\ ComputeBiddingEndPrice(base) % 5 = 0
  <2> DEFINE m == MarkupPercent(base)
             start == RoundUpToMultipleOf5(base * (100 + m), 100)
             instant == RoundDownToMultipleOf5(base * 14, 10)
             end == RoundDownToMultipleOf5(base * 16, 10)
  <2>1. m \in 10..20 /\ base * (100 + m) \in Int /\ base * (100 + m) <= base * 120
    BY MarkupIsAPercentage, Z3
  <2>2. /\ start \in Int
        /\ start % 5 = 0
        /\ (start - 5) * 100 < base * (100 + m)
    BY <2>1, RoundUpBounds
  <2>3. /\ instant \in Int
        /\ instant % 5 = 0
        /\ instant * 10 <= base * 14
        /\ base * 14 < (instant + 5) * 10
    BY RoundDownBounds
  <2>4. /\ end \in Int
        /\ end % 5 = 0
        /\ base * 16 < (end + 5) * 10
    BY RoundDownBounds
  <2>5. CASE base >= 50
    <3> HIDE DEF m, start, instant, end
    <3>1. (start - 5) * 100 < base * 120
      BY <2>1, <2>2
    <3>2. start < instant
      BY <2>2, <2>3, <2>5, <3>1, Z3
    <3>3. instant < end
      BY <2>3, <2>4, <2>5, Z3
    <3> QED
      BY <2>2, <2>3, <2>4, <3>2, <3>3
      DEF start, instant, end, m, ComputeBiddingStartPrice,
          ComputeInstantBuyPrice, ComputeBiddingEndPrice
  <2>6. CASE base \in {47, 48, 49}
    BY <2>6, Z3
    DEF ComputeBiddingStartPrice, ComputeInstantBuyPrice,
        ComputeBiddingEndPrice, MarkupPercent, RoundUpToMultipleOf5,
        RoundDownToMultipleOf5
  <2> QED BY <1>1, <2>5, <2>6
<1>2. /\ ComputeBiddingStartPrice(46) = 60 /\ ComputeInstantBuyPrice(46) = 60
      /\ ComputeBiddingStartPrice(13) = 20 /\ ComputeInstantBuyPrice(13) = 15
  <2>1. MarkupPercent(46) = 20 /\ MarkupPercent(13) = 20
    BY DEF MarkupPercent
  <2> QED BY <2>1, Z3
          DEF ComputeBiddingStartPrice, ComputeInstantBuyPrice,
              RoundUpToMultipleOf5, RoundDownToMultipleOf5
<1> QED BY <1>1, <1>2

-----------------------------------------------------------------------------
(* Scaling keeps the order of amounts.                                     *)
LEMMA ScaledOrder ==
  ASSUME NEW a \in Int, NEW b \in Int
  PROVE  /\ Scaled(a) \in Int
         /\ Scaled(a) <= Scaled(b) <=> a <= b
         /\ Scaled(a) < Scaled(b) <=> a < b
<1>1. ASSUME NEW x \in Int, NEW y \in Int, x < y
      PROVE  Scaled(x) < Scaled(y)
  BY <1>1, IncrementAssumption, Z3 DEF Scaled
<1>2. Scaled(a) \in Int /\ Scaled(b) \in Int
  BY IncrementAssumption DEF Scaled
<1>3. a < b \/ a = b \/ b < a
  OBVIOUS
<1> QED BY <1>1, <1>2, <1>3

(* Both ways a range is computed give bounds in the unit of the increment, *)
(* and the maximum never exceeds biddingEndPrice.                          *)
LEMMA RangeBounds ==
  ASSUME NEW first \in BOOLEAN, NEW start \in Int, NEW end \in Int,
         NEW cur \in Int
  PROVE  LET range == ComputeValidBidRange(first, start, end, cur)
         IN /\ range.min \in Int /\ range.max \in Int
            /\ range.max <= Scaled(end)
            /\ first => range.min = Scaled(start)
            /\ ~first => range.min = Scaled(cur) + BidIncrementMinFlat
<1> DEFINE range == ComputeValidBidRange(first, start, end, cur)
<1>1. ASSUME NEW a \in Int PROVE RaisedByPercent(a) \in Int
  <2>1. Scaled(a) + PercentOf(a) \in Int
    BY IncrementAssumption DEF PercentOf, Scaled
  <2> QED BY <2>1, RoundDownBounds, IncrementAssumption DEF RaisedByPercent
<1>2. BidIncrementMinFlat \in Int
  BY IncrementAssumption
<1>3. CASE first
  <2>1. range = [min |-> Scaled(start),
                 max |-> Scaled(Lower(RaisedByPercent(start), end))]
    BY <1>3 DEF ComputeValidBidRange, FirstBidRange
  <2>2. RaisedByPercent(start) \in Int
    BY <1>1
  <2>3. Lower(RaisedByPercent(start), end) \in Int
        /\ Lower(RaisedByPercent(start), end) <= end
    BY <2>2 DEF Lower
  <2>4. range.min = Scaled(start)
        /\ range.max = Scaled(Lower(RaisedByPercent(start), end))
    BY <2>1
  <2> HIDE DEF range
  <2>5. /\ range.min \in Int /\ range.max \in Int /\ range.max <= Scaled(end)
        /\ range.min = Scaled(start)
    BY <2>3, <2>4, ScaledOrder
  <2> QED BY <1>3, <2>5, Zenon DEF range
<1>4. CASE ~first
  <2> DEFINE min == Scaled(cur) + BidIncrementMinFlat
             uncapped == IF BidIncrementMinFlat > PercentOf(cur)
                         THEN min ELSE Scaled(RaisedByPercent(cur))
  <2>1. range = [min |-> min, max |-> Lower(uncapped, Scaled(end))]
    BY <1>4 DEF ComputeValidBidRange, NextBidRange
  <2>2. min \in Int /\ uncapped \in Int /\ Scaled(end) \in Int
    BY <1>1, <1>2, ScaledOrder
  <2> HIDE DEF min, uncapped
  <2>3. range.min = min /\ range.max = Lower(uncapped, Scaled(end))
    BY <2>1
  <2> HIDE DEF range
  <2>4. /\ range.min \in Int /\ range.max \in Int /\ range.max <= Scaled(end)
    BY <2>2, <2>3 DEF Lower
  <2> QED BY <1>4, <2>3, <2>4, Zenon DEF range, min
<1> QED BY <1>3, <1>4

LEMMA PricesAreWhole ==
  ASSUME NEW base \in Nat \ {0}
  PROVE  /\ ComputeBiddingStartPrice(base) \in Nat \ {0}
         /\ ComputeBiddingEndPrice(base) \in Int
<1> DEFINE n == base * (100 + MarkupPercent(base))
<1>1. n \in Nat \ {0}
  BY MarkupIsAPercentage, Z3
<1> HIDE DEF n
<1>2. RoundUpToMultipleOf5(n, 100) \in Nat \ {0}
  <2>1. n <= RoundUpToMultipleOf5(n, 100) * 100 /\ RoundUpToMultipleOf5(n, 100) \in Int
    BY <1>1, RoundUpBounds
  <2> QED BY <1>1, <2>1
<1>3. ComputeBiddingEndPrice(base) \in Int
  BY RoundDownBounds DEF ComputeBiddingEndPrice
<1> QED BY <1>2, <1>3 DEF n, ComputeBiddingStartPrice

LadderTypeOK == basePrice \in Nat \ {0} /\ current \in Nat

LEMMA LadderTyped == LadderSpec => []LadderTypeOK
<1>1. LadderInit => LadderTypeOK
  BY BasePricesAssumption DEF LadderInit, LadderTypeOK
<1>2. LadderTypeOK /\ [LadderNext]_ladderVars => LadderTypeOK'
  <2> SUFFICES ASSUME LadderTypeOK, [LadderNext]_ladderVars PROVE LadderTypeOK'
    OBVIOUS
  <2>1. End \in Int
    BY PricesAreWhole DEF LadderTypeOK, End
  <2>2. CASE LadderNext
    BY <2>1, <2>2 DEF LadderNext, PlaceNextBid, LadderTypeOK
  <2>3. CASE UNCHANGED ladderVars
    BY <2>3 DEF ladderVars, LadderTypeOK
  <2> QED BY <2>2, <2>3
<1> QED BY <1>1, <1>2, PTL DEF LadderSpec

(* Two multiples of 5 less than 5 apart are one.                           *)
LEMMA NextMultiple ==
  ASSUME NEW a \in Int, NEW b \in Int, a % 5 = 0, b % 5 = 0, a < b + 5
  PROVE  a <= b
<1>1. PICK i \in Int : a = 5 * i
  BY Z3
<1>2. PICK j \in Int : b = 5 * j
  BY Z3
<1> QED BY <1>1, <1>2, Z3

(* For every base price and every pair of increments that env.validation   *)
(* admits: placeBid accepts an amount just when the panel's range is open  *)
(* and the amount is a multiple of Rs. 5 within it, and an open range has  *)
(* an amount to bid.                                                       *)
THEOREM PublishedRange ==
  LadderSpec => [](/\ PublishedRangeIsEnforced
                   /\ \A amount \in Int : AcceptedAsPublished(amount))
<1>1. LadderTypeOK => /\ PublishedRangeIsEnforced
                      /\ \A amount \in Int : AcceptedAsPublished(amount)
  <2> SUFFICES ASSUME LadderTypeOK
               PROVE  /\ PublishedRangeIsEnforced
                      /\ \A amount \in Int : AcceptedAsPublished(amount)
    OBVIOUS
  <2> DEFINE range == ComputeValidBidRange(First, Start, End, current)
             min == RoundUpToMultipleOf5(range.min, IncrementScale)
             max == RoundDownToMultipleOf5(range.max, IncrementScale)
             open == ~(range.min > range.max \/ min > max)
  <2>1. /\ First \in BOOLEAN /\ Start \in Int /\ End \in Int /\ current \in Int
    BY PricesAreWhole DEF LadderTypeOK, First, Start, End
  <2>2. range.min \in Int /\ range.max \in Int
    BY <2>1, RangeBounds
  <2>3. /\ min \in Int /\ min % 5 = 0
        /\ range.min <= Scaled(min) /\ Scaled(min - 5) < range.min
    BY <2>2, RoundUpBounds, IncrementAssumption, Zenon DEF Scaled
  <2>4. /\ max \in Int /\ max % 5 = 0
        /\ Scaled(max) <= range.max /\ range.max < Scaled(max + 5)
    BY <2>2, RoundDownBounds, IncrementAssumption, Zenon DEF Scaled
  <2>5. \A amount : ValidBid(First, Start, End, current, amount) <=>
           amount % 5 = 0 /\ range.min <= Scaled(amount) /\ Scaled(amount) <= range.max
    BY DEF ValidBid
  <2>6. Published = IF range.min > range.max \/ min > max
                    THEN [kind |-> "closed", min |-> 0, max |-> 0]
                    ELSE [kind |-> "open", min |-> min, max |-> max]
    BY DEF Published, PublicBidRange
  <2> HIDE DEF range, min, max
  <2>7. ASSUME NEW amount \in Int, amount % 5 = 0
        PROVE  /\ range.min <= Scaled(amount) <=> min <= amount
               /\ Scaled(amount) <= range.max <=> amount <= max
    <3>1. Scaled(amount) \in Int /\ Scaled(min) \in Int /\ Scaled(max) \in Int
          /\ Scaled(min - 5) \in Int /\ Scaled(max + 5) \in Int
      BY <2>3, <2>4, ScaledOrder
    <3>2. ASSUME range.min <= Scaled(amount) PROVE min <= amount
      <4>1. Scaled(min - 5) < Scaled(amount)
        BY <2>2, <2>3, <3>1, <3>2
      <4>2. min < amount + 5
        BY <2>3, <4>1, ScaledOrder
      <4> QED BY <2>3, <2>7, <4>2, NextMultiple
    <3>3. ASSUME min <= amount PROVE range.min <= Scaled(amount)
      <4>1. Scaled(min) <= Scaled(amount)
        BY <2>3, <3>3, ScaledOrder
      <4> QED BY <2>2, <2>3, <3>1, <4>1
    <3>4. ASSUME Scaled(amount) <= range.max PROVE amount <= max
      <4>1. Scaled(amount) < Scaled(max + 5)
        BY <2>2, <2>4, <3>1, <3>4
      <4>2. amount < max + 5
        BY <2>4, <4>1, ScaledOrder
      <4> QED BY <2>4, <2>7, <4>2, NextMultiple
    <3>5. ASSUME amount <= max PROVE Scaled(amount) <= range.max
      <4>1. Scaled(amount) <= Scaled(max)
        BY <2>4, <3>5, ScaledOrder
      <4> QED BY <2>2, <2>4, <3>1, <4>1
    <3> QED BY <3>2, <3>3, <3>4, <3>5
  <2>8. ASSUME open
        PROVE  Published.kind = "open" /\ Published.min = min /\ Published.max = max
    BY <2>6, <2>8
  <2>9. ASSUME ~open PROVE Published.kind # "open" /\ ~(min <= max)
    <3>1. Published.kind # "open"
      BY <2>6, <2>9
    <3>2. ~(min <= max)
      <4>1. ASSUME min <= max PROVE FALSE
        <5>1. range.min <= range.max
          <6>1. Scaled(min) <= Scaled(max)
            BY <2>3, <2>4, <4>1, ScaledOrder
          <6>2. Scaled(min) \in Int /\ Scaled(max) \in Int
            BY <2>3, <2>4, ScaledOrder
          <6> QED BY <2>2, <2>3, <2>4, <6>1, <6>2
        <5> QED BY <2>2, <2>3, <2>4, <2>9, <4>1, <5>1
      <4> QED BY <4>1
    <3> QED BY <3>1, <3>2
  <2> HIDE DEF open
  <2>10. ASSUME NEW amount \in Int PROVE AcceptedAsPublished(amount)
    <3>1. CASE amount % 5 = 0 /\ open
      BY <2>5, <2>7, <2>8, <3>1 DEF AcceptedAsPublished
    <3>2. CASE amount % 5 = 0 /\ ~open
      <4>1. ~(min <= amount /\ amount <= max)
        BY <2>3, <2>4, <2>9, <3>2
      <4> QED BY <2>5, <2>7, <2>9, <3>2, <4>1 DEF AcceptedAsPublished
    <3>3. CASE amount % 5 # 0
      BY <2>5, <3>3 DEF AcceptedAsPublished
    <3> QED BY <3>1, <3>2, <3>3
  <2>11. ASSUME Published.kind = "open"
         PROVE  ValidBid(First, Start, End, current, Published.min)
    <3>1. open
      BY <2>9, <2>11
    <3>2. Published.min = min /\ min <= max
      BY <2>3, <2>4, <2>8, <3>1 DEF open
    <3> QED BY <2>3, <2>5, <2>7, <3>2
  <2>12. \A amount \in 0 .. 2 * End : AcceptedAsPublished(amount)
    BY <2>10
  <2> QED BY <2>10, <2>11, <2>12 DEF PublishedRangeIsEnforced
<1> QED BY <1>1, LadderTyped, PTL

(* For every increment configuration: bids climb in steps of Rs. 5 and     *)
(* stay within biddingEndPrice.                                            *)
THEOREM LadderClimbs == LadderSpec => ClimbsToCeiling
<1>1. LadderTypeOK /\ [LadderNext]_ladderVars =>
        [current' > current /\ current' % 5 = 0 /\ current' <= End]_ladderVars
  <2> SUFFICES ASSUME LadderTypeOK,
                      NEW amount \in 0 .. 2 * End, PlaceNextBid(amount)
               PROVE  /\ current' > current /\ current' % 5 = 0
                      /\ current' <= End
    BY DEF LadderNext
  <2> DEFINE range == ComputeValidBidRange(First, Start, End, current)
  <2>1. /\ First \in BOOLEAN /\ Start \in Nat \ {0} /\ End \in Int
        /\ current \in Int /\ amount \in Int
    BY PricesAreWhole DEF LadderTypeOK, First, Start, End
  <2>2. /\ range.min \in Int /\ range.max \in Int /\ range.max <= Scaled(End)
        /\ First => range.min = Scaled(Start)
        /\ ~First => range.min = Scaled(current) + BidIncrementMinFlat
    BY <2>1, RangeBounds
  <2>3. /\ amount % 5 = 0
        /\ range.min <= Scaled(amount) /\ Scaled(amount) <= range.max
        /\ current' = amount
    BY DEF PlaceNextBid, ValidBid
  <2> HIDE DEF range
  <2>4. /\ Scaled(amount) \in Int /\ Scaled(End) \in Int
        /\ Scaled(current) \in Int /\ Scaled(Start) \in Int
    BY <2>1, ScaledOrder
  <2>5. Scaled(amount) <= Scaled(End)
    BY <2>2, <2>3, <2>4
  <2>6. CASE First
    <3>1. Scaled(Start) <= Scaled(amount)
      BY <2>2, <2>3, <2>6
    <3>2. Start <= amount /\ current = 0
      BY <2>1, <2>6, <3>1, ScaledOrder DEF First
    <3> QED BY <2>1, <2>3, <2>5, <3>2, ScaledOrder
  <2>7. CASE ~First
    <3>1. Scaled(current) < Scaled(amount)
      BY <2>2, <2>3, <2>4, <2>7, IncrementAssumption
    <3> QED BY <2>1, <2>3, <2>5, <3>1, ScaledOrder
  <2> QED BY <2>6, <2>7
<1> QED BY <1>1, LadderTyped, PTL DEF LadderSpec, ClimbsToCeiling

-----------------------------------------------------------------------------
(* A bid is a multiple of Rs. 5, and so is the ceiling: between two        *)
(* different ones there is room for a step of Rs. 5.                       *)
Rung == current % 5 = 0

LEMMA RungsAreClimbed == LadderSpec => []Rung
<1>1. LadderInit => Rung
  BY DEF LadderInit, Rung
<1>2. Rung /\ [LadderNext]_ladderVars => Rung'
  BY DEF Rung, LadderNext, PlaceNextBid, ValidBid, ladderVars
<1> QED BY <1>1, <1>2, PTL DEF LadderSpec

(* With the deployed flat increment of Rs. 5 and any percentage, a running *)
(* auction below its ceiling has a legal next bid: the step of Rs. 5.  (A  *)
(* flat increment of Rs. 10 would leave a gap one step below the ceiling,  *)
(* one of less than Rs. 5 would leave no legal bid where it applies.)      *)
THEOREM NoGapWithDeployedFlat ==
  ASSUME BidIncrementMinFlat = Scaled(5)
  PROVE  LadderSpec => []NoGapBelowCeiling
<1>1. LadderTypeOK /\ Rung => NoGapBelowCeiling
  <2> SUFFICES ASSUME LadderTypeOK, Rung, current # 0, current < End
               PROVE  ValidBid(First, Start, End, current, current + 5)
                      /\ current + 5 \in current + 1 .. End
    BY DEF NoGapBelowCeiling
  <2> DEFINE pct == RaisedByPercent(current)
             uncapped == IF Scaled(5) > PercentOf(current)
                         THEN Scaled(current) + Scaled(5) ELSE Scaled(pct)
  <2>1. current \in Nat /\ current % 5 = 0 /\ End \in Int /\ End % 5 = 0
    <3>1. basePrice * 16 \in Int
      BY DEF LadderTypeOK
    <3>2. End \in Int /\ End % 5 = 0
      BY <3>1, RoundDownBounds DEF End, ComputeBiddingEndPrice
    <3> QED BY <3>2 DEF LadderTypeOK, Rung
  <2>2. current + 5 <= End /\ (current + 5) % 5 = 0
    <3>1. (current + 5) % 5 = 0
      BY <2>1, Z3
    <3> QED BY <2>1, <3>1, NextMultiple
  <2>3. PercentOf(current) \in Int /\ Scaled(current) \in Int /\ Scaled(5) \in Int
        /\ Scaled(End) \in Int /\ Scaled(current + 5) = Scaled(current) + Scaled(5)
    BY <2>1, IncrementAssumption, Z3 DEF PercentOf, Scaled
  <2>4. /\ pct \in Int /\ pct % 5 = 0
        /\ Scaled(current) + PercentOf(current) < Scaled(pct + 5)
    <3>1. Scaled(current) + PercentOf(current) \in Int
      BY <2>3
    <3> QED BY <3>1, RoundDownBounds, IncrementAssumption, Zenon
            DEF RaisedByPercent, Scaled
  <2> HIDE DEF pct
  <2>5. uncapped \in Int /\ Scaled(current + 5) <= uncapped
    <3>1. CASE Scaled(5) > PercentOf(current)
      BY <3>1, <2>1, <2>3
    <3>2. CASE ~(Scaled(5) > PercentOf(current))
      <4>1. Scaled(current + 5) < Scaled(pct + 5)
        <5>1. Scaled(pct + 5) \in Int
          BY <2>4, ScaledOrder
        <5> QED BY <3>2, <2>3, <2>4, <5>1
      <4>2. current + 5 < pct + 5
        BY <2>1, <2>4, <4>1, ScaledOrder
      <4>3. current + 5 <= pct
        BY <2>1, <2>2, <2>4, <4>2, NextMultiple
      <4>4. Scaled(current + 5) <= Scaled(pct) /\ Scaled(pct) \in Int
        BY <2>1, <2>4, <4>3, ScaledOrder
      <4> QED BY <3>2, <4>4
    <3> QED BY <3>1, <3>2
  <2>6. ComputeValidBidRange(First, Start, End, current)
          = [min |-> Scaled(current + 5), max |-> Lower(uncapped, Scaled(End))]
    BY <2>3 DEF ComputeValidBidRange, NextBidRange, First, pct
  <2> HIDE DEF uncapped
  <2>7. Scaled(current + 5) <= Scaled(End) /\ Scaled(current + 5) \in Int
    BY <2>1, <2>2, ScaledOrder
  <2>8. Scaled(current + 5) <= Lower(uncapped, Scaled(End))
    BY <2>5, <2>7 DEF Lower
  <2>9. ValidBid(First, Start, End, current, current + 5)
    BY <2>2, <2>6, <2>7, <2>8 DEF ValidBid
  <2> QED BY <2>1, <2>2, <2>9
<1> QED BY <1>1, LadderTyped, RungsAreClimbed, PTL

=============================================================================
