CONSTANTS
  welcome = welcome
  feedback = feedback
  second = second
  offer1 = offer1
  offer2 = offer2
  purchase = purchase
  w1 = w1
  w2 = w2
  h1 = h1
  h2 = h2
  Dispatches = {offer1, offer2}
  Workers = {w1}
  Handlers = {}
  MaxSendAttempts = 2
  Verdicts = {"skip", "recoverRetry"}
  Modes = {TRUE}
  MaxDeaths = 1
  MaxFaults = 1
  MaxSlow = 1
  MaxDropped = 0
  Kind <- MCKind
  EnqueuedTogether <- Together
  NoRow = NoRow
  NoBatch = NoBatch
  NoDispatch = NoDispatch
  NoEvent = NoEvent
SPECIFICATION Spec
INVARIANT SendsBounded
PROPERTY RecordedOfferKeepsOthersBack
