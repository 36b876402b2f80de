CONSTANTS
  u1 = u1
  p1 = p1
  p2 = p2
  a1 = a1
  a2 = a2
  full = full
  single = single
  coupon = coupon
  Users = {u1}
  Purchases = {p1}
  Adaptations = {a1, a2}
  Payments = {q1, q2}
  Requests = {h1, h2}
  Offers = {full}
  BaseOffer = full
  CheckoutModes = {"pro"}
  InitialBalance = 1
  AdminCredits = {}
  MaxCrashes = 1
  MaxLost = 0
  Owner <- MCOwner
  Origin <- MCOrigin
  MostCredits = 2
  Price <- MCPrice
  Credits <- MCCredits
  NoPayment = NoPayment
  NoAdaptation = NoAdaptation
SPECIFICATION FairSpec
INVARIANTS TypeOK CreditsAreAccounted
PROPERTIES LedgerSpec ApprovedPurchaseSettles
CHECK_DEADLOCK FALSE
