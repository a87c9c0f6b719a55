CONSTANTS
  a = a
  b = b
  c1 = c1
  c2 = c2
  f1 = f1
  f2 = f2
  p1 = p1
  p2 = p2
  Asha = Asha
  Usha = Usha
  None = None
  Users = {a, b}
  Phones = {p1, p2}
  Names = {Asha, Usha}
  DocumentType = {"PASSPORT", "NID_CARD"}
  FileId = {f1, f2}
  Sales = {"s1", "s2"}
  SellerOf <- SoldByA
  Calls = {c1, c2}
  Requests = {c1, c2}
  MAX_SHIPPING_ADDRESSES = 2
  MaxAddress = 4
  PHONE_OTP_MAX_ATTEMPTS = 1
SYMMETRY Symmetry
SPECIFICATION MCSpec
CHECK_DEADLOCK FALSE
INVARIANTS
  NumberWasProved
PROPERTIES
  OnlyOverlapUndoes
  RatingsAddUp
  PapersStayOnFile
  RulesHoldUnlessOverlapped
