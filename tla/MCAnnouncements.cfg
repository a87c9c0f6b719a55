\* Two bidders, no symmetry (TLC does not support it for liveness), on a lot
\* of Rs. 20 with Instant Buy at 30 and a ceiling of 30; one job at a time
\* beside those of the cron
CONSTANTS
  o = o
  u1 = u1
  u2 = u2
  NoUser = NoUser
  NoBid = NoBid
  Users <- TwoBidders
  Owner = o
  BidId = {1, 2}
  BiddingStartPrice = 20
  InstantBuyPrice = 30
  BiddingEndPrice = 30
  IncrementScale = 100
  BidIncrementMinFlat = 1000
  BidIncrementPercent = 50
  BiddingDuration = 1
  PaymentWindow = 1
  HoldWindow = 1
  MaxLag = 0
  MaxJobs = 2
  MaxUntold = 1
SPECIFICATION AnnouncementsSpec
INVARIANTS
  NothingIsSwallowed
  FramesHangTogether
  LateWarningAddsNoPayer
PROPERTIES
  WinnerIsTold
  AwaitedPaymentIsResolved
  DueAuctionCloses
