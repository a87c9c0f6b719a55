\* A lot of Rs. 20, with Instant Buy at 30 and a ceiling of 40: three bidders
\* and four bids with a cron that may be late, and four bidders, one more than
\* the cascade has turns, with room for each to bid once and one of them twice
CONSTANTS
  o = o
  u1 = u1
  u2 = u2
  u3 = u3
  u4 = u4
  NoUser = NoUser
  NoBid = NoBid
  Users <- FourBidders
  Owner = o
  BidId = {1, 2, 3, 4, 5}
  BiddingStartPrice = 20
  InstantBuyPrice = 30
  BiddingEndPrice = 40
  IncrementScale = 100
  BidIncrementMinFlat = 500
  BidIncrementPercent = 50
  BiddingDuration = 2
  PaymentWindow = 1
  HoldWindow = 1
  MaxLag = 1
SYMMETRY BidderSymmetry
SPECIFICATION MCSpec
INVARIANTS
  OneBuyerOwes
  HighestBidIsRecorded
  SaleIsConsistent
  CascadeIsFair
  AbandonedOnlyWhenExhausted
PROPERTIES
  FullBiddingTime
  ImplementsSale
