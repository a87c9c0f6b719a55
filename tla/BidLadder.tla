----------------------------- MODULE BidLadder ------------------------------
(***************************************************************************)
(* One listing priced from its base price and then bid upon, one legal     *)
(* amount after another, until no legal amount remains.  It relates the    *)
(* ranges of BidPricing along a whole auction: what is published, what     *)
(* placeBid accepts, and whether the ceiling can be reached.               *)
(***************************************************************************)
EXTENDS BidPricing

CONSTANT BasePrices              \* the base prices of the instance
ASSUME BasePricesAssumption == BasePrices \subseteq Nat \ {0}

VARIABLES basePrice,             \* product.basePrice
          current                \* product.currentHighestBid, 0 for null

ladderVars == <<basePrice, current>>

Start == ComputeBiddingStartPrice(basePrice)
End == ComputeBiddingEndPrice(basePrice)
First == current = 0

LadderInit == basePrice \in BasePrices /\ current = 0

PlaceNextBid(amount) ==
  /\ ValidBid(First, Start, End, current, amount)
  /\ current' = amount
  /\ UNCHANGED basePrice

LadderNext == \E amount \in 0 .. 2 * End : PlaceNextBid(amount)

LadderSpec == LadderInit /\ [][LadderNext]_ladderVars

-----------------------------------------------------------------------------
Published == PublicBidRange(First, Start, End, current)

(* placeBid accepts exactly the multiples of Rs. 5 from the published      *)
(* minimum to the published maximum.                                       *)
AcceptedAsPublished(amount) ==
  ValidBid(First, Start, End, current, amount) <=>
    /\ Published.kind = "open"
    /\ amount % 5 = 0
    /\ Published.min <= amount /\ amount <= Published.max

(* The range on the panel is the one placeBid enforces, for every amount   *)
(* (getPublicBidRange promises "the same range placeBid enforces"), and a  *)
(* range published as open has an amount to bid.                           *)
PublishedRangeIsEnforced ==
  /\ \A amount \in 0 .. 2 * End : AcceptedAsPublished(amount)
  /\ Published.kind = "open" => ValidBid(First, Start, End, current, Published.min)

(* A running auction below its ceiling always has a legal next bid, so the *)
(* ceiling close is reachable and nobody wins because the arithmetic left  *)
(* a gap between the last bid and biddingEndPrice.                         *)
NoGapBelowCeiling ==
  (current # 0 /\ current < End) =>
    \E amount \in current + 1 .. End :
      ValidBid(First, Start, End, current, amount)

(* Bids climb in steps of Rs. 5 and never cross biddingEndPrice.           *)
ClimbsToCeiling ==
  [][current' > current /\ current' % 5 = 0 /\ current' <= End]_ladderVars
=============================================================================
