CONSTANTS
  c1 = c1
  c2 = c2
  None = None
  Calls = {c1, c2}
  MaxToken = 4
SPECIFICATION ClientSpec
CHECK_DEADLOCK FALSE
INVARIANTS
  OrderedOnce
PROPERTIES
  CallsEnd
