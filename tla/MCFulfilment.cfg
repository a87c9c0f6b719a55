\* Two calls at a time, two courier orders, restarts and failures at any time
CONSTANTS
  t1 = t1
  t2 = t2
  Threads <- TwoCalls
  MaxOrder = 2
SPECIFICATION FairSpec
INVARIANTS
  CollectedOrRefused
  CashMeansDelivered
  SupersededUnlessTorn
  ListedInItsStage
PROPERTY
  CodIsCollectedUnlessLost
\* a parcel that is delivered or returned is left alone in the end
CHECK_DEADLOCK FALSE
