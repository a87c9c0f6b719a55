--------------------------- MODULE ProductListing ---------------------------
(***************************************************************************)
(* The listing of one lot, from draft to relisting: ProductsService.       *)
(*                                                                         *)
(* A method reads the product row without a lock, checks the copy, awaits  *)
(* what it has to, and saves the copy: `save` reads the row once more and  *)
(* then updates the columns in which the copy differs from that reading,   *)
(* those that another request or the auction has written since the first   *)
(* reading included.  A `thread` is one such request.  Bids and the        *)
(* auction's end, which lock the row, are single steps here;               *)
(* AuctionLifecycle has their detail.                                      *)
(*                                                                         *)
(* The base price stands for all that must be filled in before submission, *)
(* 0 if something is missing.  Photos are left out.                        *)
(***************************************************************************)
EXTENDS Naturals, FiniteSets

CONSTANTS Threads,
          MaxBids, MaxCodes, MaxCopies    \* bounds of the instance

ASSUME ListingAssumption == {MaxBids, MaxCodes, MaxCopies} \subseteq Nat

Price == 0..2           \* none, and two prices
Copy == 1..MaxCopies    \* the lots a relist creates
NoCopy == 0

VARIABLES
  product,    \* the row of the lot
  copy,       \* the rows a relist has created
  bids,       \* the number of bids on the lot
  codes,      \* product_code_seq
  thread,     \* the requests in progress
  \* and of what has happened:
  shown,      \* the prices that awaited approval, or that an admin has set
  bidOn,      \* the base prices bids were validated against
  outbid,     \* a request has written to the row what it read before a bid
  torn        \* a save has left a row that nobody has read or written as a whole

vars == <<product, copy, bids, codes, thread, shown, bidOn, outbid, torn>>

Product == [status: {"DRAFT", "AWAITING_APPROVAL", "REJECTED", "WITHDRAWN",
                     "AWAITING_FIRST_BID", "ACTIVE", "SETTLED", "ABANDONED"},
            basePrice: Price, productCode: 0..MaxCodes,
            currentHighestBid: 0..MaxBids, relistedProductId: Copy \cup {NoCopy},
            deleted: BOOLEAN]

NewProduct(price) ==
  [status |-> "DRAFT", basePrice |-> price,
   productCode |-> 0, currentHighestBid |-> 0, relistedProductId |-> NoCopy,
   deleted |-> FALSE]

Column == {"status", "basePrice", "productCode", "currentHighestBid",
           "relistedProductId", "deleted"}

(* `row` is the copy; `columns`, those to update.                          *)
Idle == [at |-> "idle", row |-> NewProduct(0), columns |-> {}, copy |-> NoCopy]

Stage == {"idle", "countBids", "select", "update", "remove", "saveCopy", "claim",
          "finishCopy", "deleteCopy"}

TypeOK ==
  /\ product \in Product
  /\ copy \in [Copy -> [row: {"none", "listed", "deleted"}, productCode: 0..MaxCodes]]
  /\ bids \in 0..MaxBids /\ codes \in 0..MaxCodes
  /\ thread \in [Threads -> [at: Stage, row: Product, columns: SUBSET Column,
                             copy: Copy \cup {NoCopy}]]
  /\ shown \subseteq Price
  /\ bidOn \subseteq Price \ {0}
  /\ outbid \in BOOLEAN /\ torn \in BOOLEAN

(* createProduct: a draft, complete or not.                                *)
Init ==
  /\ product \in {NewProduct(0), NewProduct(1)}
  /\ copy = [c \in Copy |-> [row |-> "none", productCode |-> 0]]
  /\ bids = 0 /\ codes = 0
  /\ thread = [t \in Threads |-> Idle]
  /\ shown = {} /\ bidOn = {}
  /\ outbid = FALSE /\ torn = FALSE

-----------------------------------------------------------------------------
(* AWAITING_INSTANT_BUY and AWAITING_PAYMENT go with ACTIVE.               *)
LIVE_STATUSES == {"AWAITING_FIRST_BID", "ACTIVE"}

(* Mutant of OWNER_EDITABLE_STATUSES: a lot without bids as well.          *)
OwnerEditableBeforeBids == {"DRAFT", "REJECTED", "AWAITING_FIRST_BID"}

OWNER_EDITABLE_STATUSES == {"DRAFT", "REJECTED"}

ADMIN_EDITABLE_STATUSES == {"DRAFT", "AWAITING_APPROVAL", "REJECTED"} \cup LIVE_STATUSES

WithdrawableStatuses ==
  {"DRAFT", "AWAITING_APPROVAL", "REJECTED", "AWAITING_FIRST_BID"}

At(t, stage) == thread[t].at = stage
Return(t) == thread' = [thread EXCEPT ![t] = Idle]

(* The request has read the row, and will go on with `row` at `stage`.     *)
Request(t, row, stage) ==
  /\ At(t, "idle")
  /\ ~product.deleted
  /\ thread' = [thread EXCEPT ![t] =
                  [Idle EXCEPT !.at = stage, !.row = row]]
  /\ UNCHANGED <<product, copy, bids, bidOn, outbid, torn>>

(* The opening, instant-buy and ceiling prices follow the base price.      *)
Repriced(row, price) == [row EXCEPT !.basePrice = price]

UpdateProduct(t) ==
  /\ product.status \in OWNER_EDITABLE_STATUSES
  /\ \E price \in Price : Request(t, Repriced(product, price), "select")
  /\ UNCHANGED <<codes, shown>>

(* A price change of a live lot depends on its bids; there a clear is      *)
(* refused.                                                                *)
AdminUpdateProduct(t) ==
  /\ product.status \in ADMIN_EDITABLE_STATUSES
  /\ \/ Request(t, product, "select") /\ UNCHANGED shown
     \/ \E price \in Price :
          /\ product.status \in LIVE_STATUSES => price # 0
          /\ Request(t, Repriced(product, price),
                     IF product.status \in LIVE_STATUSES
                     THEN "countBids" ELSE "select")
          /\ shown' = shown \cup {price}
  /\ UNCHANGED codes

(* Mutant of Repriceable: the bids are not counted.                        *)
RepriceableWhileLive(row) == row.status \in LIVE_STATUSES

Repriceable(row) == row.status = "AWAITING_FIRST_BID" /\ bids = 0

CountBids(t) ==
  /\ At(t, "countBids")
  /\ IF Repriceable(thread[t].row)
     THEN thread' = [thread EXCEPT ![t].at = "select"]
     ELSE Return(t)
  /\ UNCHANGED <<product, copy, bids, codes, shown, bidOn, outbid, torn>>

SubmitProduct(t) ==
  /\ product.status \in OWNER_EDITABLE_STATUSES
  /\ product.basePrice # 0
  /\ Request(t, [product EXCEPT !.status = "AWAITING_APPROVAL"], "select")
  /\ UNCHANGED <<codes, shown>>

WithdrawProduct(t) ==
  /\ product.status \in WithdrawableStatuses
  /\ Request(t, [product EXCEPT !.status = "WITHDRAWN"], "select")
  /\ UNCHANGED <<codes, shown>>

(* A lot that has no code yet takes the next of the sequence.              *)
ApproveProduct(t) ==
  /\ product.status = "AWAITING_APPROVAL"
  /\ codes < MaxCodes
  /\ codes' = IF product.productCode = 0 THEN codes + 1 ELSE codes
  /\ Request(t, [product EXCEPT !.status = "AWAITING_FIRST_BID",
                                !.productCode = IF @ = 0 THEN codes + 1 ELSE @], "select")
  /\ UNCHANGED shown

RejectProduct(t) ==
  /\ product.status = "AWAITING_APPROVAL"
  /\ Request(t, [product EXCEPT !.status = "REJECTED"], "select")
  /\ UNCHANGED <<codes, shown>>

(* `save` reads the row, deleted or not, ...                               *)
Select(t) ==
  /\ At(t, "select")
  /\ thread' = [thread EXCEPT ![t].at = "update",
                              ![t].columns =
                                {c \in Column : thread[t].row[c] # product[c]}]
  /\ UNCHANGED <<product, copy, bids, codes, shown, bidOn, outbid, torn>>

Mixed(t) ==
  LET Value(c) == IF c \in thread[t].columns THEN thread[t].row[c] ELSE product[c] IN
  [product EXCEPT !.status = Value("status"),
                  !.basePrice = Value("basePrice"),
                  !.productCode = Value("productCode"),
                  !.currentHighestBid = Value("currentHighestBid"),
                  !.relistedProductId = Value("relistedProductId"),
                  !.deleted = Value("deleted")]

(* What t read was read before a bid that is on the row.                   *)
Outbid(t) == thread[t].row.currentHighestBid # product.currentHighestBid

AwaitingApproval(row) ==
  IF row.status = "AWAITING_APPROVAL" THEN {row.basePrice} ELSE {}

(* ... and then writes what differs: a row that is gone comes back, and    *)
(* what others have written in between stays, in the other columns.        *)
Update(t) ==
  /\ At(t, "update")
  /\ product' = Mixed(t)
  /\ shown' = shown \cup AwaitingApproval(Mixed(t))
  /\ outbid' = (outbid \/ Outbid(t))
  /\ torn' = (torn \/ Mixed(t) \notin {thread[t].row, product})
  /\ Return(t)
  /\ UNCHANGED <<copy, bids, codes, bidOn>>

DeleteProduct(t) ==
  /\ product.status \in OWNER_EDITABLE_STATUSES
  /\ Request(t, product, "remove")
  /\ UNCHANGED <<codes, shown>>

SoftRemove(t) ==
  /\ At(t, "remove")
  /\ product' = [product EXCEPT !.deleted = TRUE]
  /\ Return(t)
  /\ UNCHANGED <<copy, bids, codes, shown, bidOn, outbid, torn>>

(* The images, an email or the database fail, or the process ends: what is *)
(* written stays, and the rest of the request is not done.                 *)
RequestFails(t) ==
  /\ ~At(t, "idle")
  /\ Return(t)
  /\ UNCHANGED <<product, copy, bids, codes, shown, bidOn, outbid, torn>>

-----------------------------------------------------------------------------
RelistProduct(t) ==
  /\ product.status = "ABANDONED"
  /\ product.relistedProductId = NoCopy
  /\ Request(t, product, "saveCopy")
  /\ UNCHANGED <<codes, shown>>

SaveCopy(t) ==
  /\ At(t, "saveCopy")
  /\ \E c \in Copy :
       /\ copy[c].row = "none" /\ \A d \in 1..(c - 1) : copy[d].row # "none"
       /\ copy' = [copy EXCEPT ![c].row = "listed"]
       /\ thread' = [thread EXCEPT ![t].at = "claim", ![t].copy = c]
  /\ UNCHANGED <<product, bids, codes, shown, bidOn, outbid, torn>>

Claimable == product.relistedProductId = NoCopy

(* One conditional UPDATE of the one column.                               *)
ClaimRelist(t) ==
  /\ At(t, "claim")
  /\ IF Claimable
     THEN /\ product' = [product EXCEPT !.relistedProductId = thread[t].copy]
          /\ thread' = [thread EXCEPT ![t].at = "finishCopy"]
     ELSE /\ thread' = [thread EXCEPT ![t].at = "deleteCopy"]
          /\ UNCHANGED product
  /\ UNCHANGED <<copy, bids, codes, shown, bidOn, outbid, torn>>

FinishCopy(t) ==
  /\ At(t, "finishCopy")
  /\ codes < MaxCodes
  /\ codes' = codes + 1
  /\ copy' = [copy EXCEPT ![thread[t].copy].productCode = codes + 1]
  /\ Return(t)
  /\ UNCHANGED <<product, bids, shown, bidOn, outbid, torn>>

DeleteCopy(t) ==
  /\ At(t, "deleteCopy")
  /\ copy' = [copy EXCEPT ![thread[t].copy].row = "deleted"]
  /\ Return(t)
  /\ UNCHANGED <<product, bids, codes, shown, bidOn, outbid, torn>>

-----------------------------------------------------------------------------
(* The auction, whose transactions lock the row.                           *)
PlaceBid ==
  /\ product.status \in LIVE_STATUSES /\ ~product.deleted
  /\ product.basePrice # 0
  /\ bids < MaxBids
  /\ bids' = bids + 1
  /\ product' = [product EXCEPT !.status = "ACTIVE", !.currentHighestBid = bids + 1]
  /\ bidOn' = bidOn \cup {product.basePrice}
  /\ UNCHANGED <<copy, codes, thread, shown, outbid, torn>>

AuctionEnds ==
  /\ product.status = "ACTIVE" /\ ~product.deleted
  /\ \E outcome \in {"SETTLED", "ABANDONED"} :
       product' = [product EXCEPT !.status = outcome]
  /\ UNCHANGED <<copy, bids, codes, thread, shown, bidOn, outbid, torn>>

Owner(t) ==
  \/ UpdateProduct(t) \/ SubmitProduct(t) \/ WithdrawProduct(t)
  \/ DeleteProduct(t) \/ RelistProduct(t)
Admin(t) == AdminUpdateProduct(t) \/ ApproveProduct(t) \/ RejectProduct(t)
Step(t) ==
  \/ CountBids(t) \/ Select(t) \/ Update(t) \/ SoftRemove(t) \/ RequestFails(t)
  \/ SaveCopy(t) \/ ClaimRelist(t) \/ FinishCopy(t) \/ DeleteCopy(t)

Next ==
  \/ \E t \in Threads : Owner(t) \/ Admin(t) \/ Step(t)
  \/ PlaceBid \/ AuctionEnds

Spec == Init /\ [][Next]_vars

-----------------------------------------------------------------------------
(* What is live has its code, and is live at a price that was on record    *)
(* while it awaited approval, or that an admin has set: no edit of the     *)
(* owner reaches the bidders on its own, whatever requests overlap, unless *)
(* one has written between another's reading and writing of a save.        *)
LiveWasSubmitted ==
  (product.status \in LIVE_STATUSES /\ ~torn) =>
    product.productCode # 0 /\ product.basePrice \in shown

(* Once there is a bid, the lot cannot be repriced, withdrawn or taken back*)
(* to a draft, and shows its highest bid, however requests overlap each    *)
(* other, unless one has written what it read before a bid.                *)
BidsAreHonoured ==
  ~outbid /\ bids > 0 => /\ product.currentHighestBid = bids
                         /\ bidOn = {product.basePrice}
                         /\ product.status \in {"ACTIVE", "SETTLED", "ABANDONED"}

=============================================================================
