\* Two requests or sweeps at a time, two purchases, one restart
CONSTANTS
  t1 = t1
  t2 = t2
  Threads <- TwoCalls
  MaxItems = 2
  MaxCrashes = 1
SPECIFICATION InsistentSpec
INVARIANTS
  OnlyPaidBoostsRun
PROPERTIES
  PaymentIsResolved
  ProductIsFreed
\* the auction may be closed and every purchase over
CHECK_DEADLOCK FALSE
