CONSTANTS
  u1 = u1
  p1 = p1
  p2 = p2
  a1 = a1
  a2 = a2
  full = full
  single = single
  coupon = coupon
  Users = {u1}
  Purchases = {p2}
  Adaptations = {a1, a2}
  Payments = {q1}
  Requests = {h1, h2}
  Offers = {single, coupon}
  BaseOffer = single
  CheckoutModes = {"pro", "brick"}
  InitialBalance = 1
  AdminCredits = {0}
  MaxCrashes = 1
  MaxLost = 1
  MostCredits = 1
  Owner <- MCOwner
  Origin <- MCOrigin
  Price <- MCPrice
  Credits <- MCCredits
  NoPayment = NoPayment
  NoAdaptation = NoAdaptation
SPECIFICATION Spec
SYMMETRY MCSymmetry
INVARIANTS OverdraftBounded RefundsAreReversed
PROPERTIES SettledNeverReopens
CONSTRAINT MCNothingOverwritten
CHECK_DEADLOCK FALSE
