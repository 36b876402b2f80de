CONSTANTS
  u1 = u1
  p1 = p1
  p2 = p2
  a1 = a1
  a2 = a2
  full = full
  single = single
  coupon = coupon
  Users = {u1}
  Purchases = {p1}
  Adaptations = {}
  Payments = {q1}
  Requests = {h1, h2}
  Offers = {full}
  BaseOffer = full
  CheckoutModes = {"brick"}
  InitialBalance = 0
  AdminCredits = {}
  MaxCrashes = 0
  MaxLost = 0
  Owner <- MCOwner
  Origin <- MCOrigin
  MostCredits = 2
  Price <- MCPrice
  Credits <- MCCredits
  NoPayment = NoPayment
  NoAdaptation = NoAdaptation
SPECIFICATION Spec
INVARIANTS GrantedAtMostOnce
CHECK_DEADLOCK FALSE
