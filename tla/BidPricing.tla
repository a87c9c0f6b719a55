----------------------------- MODULE BidPricing -----------------------------
(***************************************************************************)
(* The money arithmetic of a listing: the three prices derived from the    *)
(* seller's base price (ProductsService) and the window of amounts a bid   *)
(* may take (BiddingService.computeValidBidRange, and getPublicBidRange,   *)
(* which publishes the same window to the bidding panel).                  *)
(*                                                                         *)
(* The code computes with decimal.js, so a quotient is exact until it is   *)
(* rounded: a decimal is written here as numerator and denominator.  A     *)
(* base price is whole rupees, as the DTO requires, and so is every price  *)
(* rounded to Rs. 5; the two increments may be any decimals that           *)
(* env.validation admits, in units of 1/IncrementScale.                    *)
(***************************************************************************)
EXTENDS Integers

CONSTANTS IncrementScale,        \* a common denominator of the increments
          BidIncrementMinFlat,   \* BID_INCREMENT_MIN_FLAT, at least Rs. 0.01
          BidIncrementPercent    \* BID_INCREMENT_PERCENT, from 0.001 to 1

ASSUME IncrementAssumption ==
  /\ IncrementScale \in Nat \ {0}
  /\ BidIncrementMinFlat \in Nat \ {0}
  /\ 100 * BidIncrementMinFlat >= IncrementScale
  /\ BidIncrementPercent \in Nat \ {0}
  /\ 1000 * BidIncrementPercent >= IncrementScale
  /\ BidIncrementPercent <= IncrementScale

(***************************************************************************)
(* Minimums round up, maximums round down, to a multiple of Rs. 5.         *)
(***************************************************************************)
RoundUpToMultipleOf5(num, den) == 5 * (-((-num) \div (5 * den)))
RoundDownToMultipleOf5(num, den) == 5 * (num \div (5 * den))

Lower(a, b) == IF a <= b THEN a ELSE b

MarkupPercent(basePrice) ==
  IF basePrice <= 10000 THEN 20
  ELSE IF basePrice <= 20000 THEN 18
  ELSE IF basePrice <= 30000 THEN 16
  ELSE IF basePrice <= 40000 THEN 14
  ELSE IF basePrice <= 50000 THEN 12
  ELSE 10

ComputeBiddingStartPrice(basePrice) ==
  RoundUpToMultipleOf5(basePrice * (100 + MarkupPercent(basePrice)), 100)

ComputeInstantBuyPrice(basePrice) == RoundDownToMultipleOf5(basePrice * 14, 10)

ComputeBiddingEndPrice(basePrice) == RoundDownToMultipleOf5(basePrice * 16, 10)

-----------------------------------------------------------------------------
(***************************************************************************)
(* computeValidBidRange: the bounds of the next bid, both in units of      *)
(* 1/IncrementScale.  `first` is status = AWAITING_FIRST_BID.  The code    *)
(* throws when min > max; here the range is returned and is then empty.    *)
(***************************************************************************)
Scaled(amount) == amount * IncrementScale
PercentOf(amount) == amount * BidIncrementPercent

(* The amount and its percentage, rounded down.                            *)
RaisedByPercent(amount) ==
  RoundDownToMultipleOf5(Scaled(amount) + PercentOf(amount), IncrementScale)

FirstBidRange(start, end) ==
  [min |-> Scaled(start), max |-> Scaled(Lower(RaisedByPercent(start), end))]

(* Mutants of NextBidRange: the minimum increment is forgotten; the        *)
(* percentage applies even where the flat increment exceeds it.            *)
NextBidRangeFromCurrent(current, end) ==
  [min |-> Scaled(current),
   max |-> Scaled(Lower(RaisedByPercent(current), end))]

NextBidRangeByPercent(current, end) ==
  [min |-> Scaled(current) + BidIncrementMinFlat,
   max |-> Scaled(Lower(RaisedByPercent(current), end))]

NextBidRange(current, end) ==
  LET min == Scaled(current) + BidIncrementMinFlat
      flatExceedsPercent == BidIncrementMinFlat > PercentOf(current)
      uncappedMax ==
        IF flatExceedsPercent THEN min ELSE Scaled(RaisedByPercent(current))
  IN [min |-> min, max |-> Lower(uncappedMax, Scaled(end))]

ComputeValidBidRange(first, start, end, current) ==
  IF first THEN FirstBidRange(start, end) ELSE NextBidRange(current, end)

(***************************************************************************)
(* The amounts placeBid accepts: multiples of Rs. 5 inside the range.      *)
(***************************************************************************)
ValidBid(first, start, end, current, amount) ==
  LET range == ComputeValidBidRange(first, start, end, current)
  IN /\ amount % 5 = 0
     /\ range.min <= Scaled(amount)
     /\ Scaled(amount) <= range.max

(***************************************************************************)
(* getPublicBidRange on a biddable product: the bounds snapped to Rs. 5,   *)
(* or "closed" when nothing remains between them.                          *)
(***************************************************************************)
(* Mutant: an empty range is published as if it were open.                 *)
PublicBidRangeNeverClosed(first, start, end, current) ==
  LET range == ComputeValidBidRange(first, start, end, current)
  IN [kind |-> "open", min |-> RoundUpToMultipleOf5(range.min, IncrementScale),
      max |-> RoundDownToMultipleOf5(range.max, IncrementScale)]

PublicBidRange(first, start, end, current) ==
  LET range == ComputeValidBidRange(first, start, end, current)
      min == RoundUpToMultipleOf5(range.min, IncrementScale)
      max == RoundDownToMultipleOf5(range.max, IncrementScale)
  IN IF range.min > range.max \/ min > max
     THEN [kind |-> "closed", min |-> 0, max |-> 0]
     ELSE [kind |-> "open", min |-> min, max |-> max]
=============================================================================
