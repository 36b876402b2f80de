CONSTANTS
  welcome = welcome
  feedback = feedback
  second = second
  offer1 = offer1
  offer2 = offer2
  purchase = purchase
  w1 = w1
  w2 = w2
  h1 = h1
  h2 = h2
  Dispatches = {purchase}
  Workers = {w1, w2}
  Handlers = {h1}
  MaxSendAttempts = 2
  Verdicts = {"release", "recoverRetry"}
  Modes = {TRUE}
  MaxDeaths = 1
  MaxFaults = 1
  MaxSlow = 0
  MaxDropped = 1
  Kind <- MCKind
  EnqueuedTogether <- Together
  NoRow = NoRow
  NoBatch = NoBatch
  NoDispatch = NoDispatch
  NoEvent = NoEvent
SPECIFICATION Spec
SYMMETRY BatchSymmetry
INVARIANTS TypeOK NeverSentTwice
PROPERTY ContractSpec
