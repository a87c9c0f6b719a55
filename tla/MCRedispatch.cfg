\* Two calls at a time, three courier orders: what the comment on redispatch says
CONSTANTS
  t1 = t1
  t2 = t2
  Threads <- TwoCalls
  MaxOrder = 3
SPECIFICATION Spec
INVARIANT SupersededIsCancelled
CHECK_DEADLOCK FALSE
