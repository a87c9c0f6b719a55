\* Two requests at a time, one bid, two codes and two relists; and the ladder of
\* every small base price with BID_INCREMENT_MIN_FLAT = 5 and
\* BID_INCREMENT_PERCENT = 0.10, as deployed
CONSTANTS
  t1 = t1
  t2 = t2
  Threads <- TwoRequests
  MaxBids = 1
  MaxCodes = 2
  MaxCopies = 2
  IncrementScale = 100
  BidIncrementMinFlat = 500
  BidIncrementPercent = 10
  BasePrices <- SmallBases
SYMMETRY RequestSymmetry
SPECIFICATION MCSpec
INVARIANTS
  LiveWasSubmitted
  BidsAreHonoured
  PublishedRangeIsEnforced
  NoGapBelowCeiling
\* a lot may be settled, withdrawn or deleted for good; the ladder ends at the
\* ceiling
CHECK_DEADLOCK FALSE
