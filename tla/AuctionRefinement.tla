------------------------- MODULE AuctionRefinement --------------------------
(***************************************************************************)
(* AuctionLifecycle implements AuctionSale.                                *)
(***************************************************************************)
EXTENDS AuctionLifecycle

(* The phase of the sale each status stands for.                           *)
Phase ==
  CASE status \in {"AWAITING_FIRST_BID", "ACTIVE"} -> "open"
    [] status = "AWAITING_INSTANT_BUY" -> "paused"
    [] status = "AWAITING_PAYMENT" -> "offered"
    [] status = "SETTLED" -> "sold"
    [] status = "ABANDONED" -> "unsold"

BiddersOf(S) == {bid[b].bidder : b \in S}

(* Settling resets the record of lapsed holds, which nothing reads then.   *)
Barred ==
  IF Phase \in {"sold", "unsold"} THEN {} ELSE {u \in Users : HadLapsedHold(u)}

Holder ==
  IF Phase \in {"paused", "offered", "sold"}
  THEN bid[CHOOSE b \in Responsible : TRUE].bidder
  ELSE NoUser

Sale == INSTANCE AuctionSale WITH
  Buyers <- Users, NoBuyer <- NoUser, MaxOffers <- MAX_FALLBACK_RANK + 1,
  phase <- Phase, bidders <- BiddersOf(AuctionBids), barred <- Barred,
  offered <- BiddersOf(Turns), holder <- Holder

(* Every transaction of the auction service is a step of the sale or       *)
(* leaves it alone.                                                        *)
ImplementsSale == Sale!Spec
=============================================================================
