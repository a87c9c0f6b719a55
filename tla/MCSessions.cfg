CONSTANTS
  a = a
  b = b
  c1 = c1
  e1 = e1
  e2 = e2
  p1 = p1
  p2 = p2
  c2 = c2
  t1 = t1
  t2 = t2
  t3 = t3
  l1 = l1
  l2 = l2
  l3 = l3
  None = None
  Users = {a, b}
  Email = {e1,e2}
  Password = {p1,p2}
  Token = {t1, t2, t3}
  Link = {l1, l2, l3}
  Calls = {c1, c2}
  ResetsPerHour = 1
CONSTRAINT Bounded
SYMMETRY Symmetry
SPECIFICATION MCSpec
CHECK_DEADLOCK FALSE
INVARIANTS
  EmailWasProved
PROPERTIES
  SessionsEnd
