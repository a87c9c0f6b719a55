\* Two calls at a time, two rounds, two attempts, one restart
CONSTANTS
  t1 = t1
  t2 = t2
  Threads <- TwoCalls
  MaxRound = 2
  MaxPayment = 2
  MaxCrashes = 1
SPECIFICATION FairSpec
INVARIANTS
  SoldMeansPaid
  SecondChargeIsRefunded
PROPERTIES
  HoldEndsForItsOwnReason
  AttemptIsResolved
\* a lot that is settled or abandoned is left alone in the end
CHECK_DEADLOCK FALSE
