\* Two transactions at a time, three sales, one manual adjustment
CONSTANTS
  t1 = t1
  t2 = t2
  User = {1, 2}
  Sale <- ThreeSales
  buyer <- Buyers
  seller <- Sellers
  PointsOf <- Points
  BandMins <- ThreeBands
  Threads <- TwoTransactions
  MaxAdjustments = 1
SYMMETRY TransactionSymmetry
SPECIFICATION Spec
INVARIANTS
  LedgerExplainsBalances
  SomeTransactionCanGoOn
\* all sales may be paid and all adjustments made
CHECK_DEADLOCK FALSE
