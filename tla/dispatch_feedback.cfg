CONSTANTS
  welcome = welcome
  feedback = feedback
  second = second
  offer1 = offer1
  offer2 = offer2
  purchase = purchase
  w1 = w1
  w2 = w2
  h1 = h1
  h2 = h2
  Dispatches = {welcome, feedback}
  Workers = {w1}
  Handlers = {}
  MaxSendAttempts = 2
  Verdicts = {"release", "defer"}
  Modes = {TRUE, FALSE}
  MaxDeaths = 1
  MaxFaults = 1
  MaxSlow = 0
  MaxDropped = 0
  Kind <- MCKind
  EnqueuedTogether <- Together
  NoRow = NoRow
  NoBatch = NoBatch
  NoDispatch = NoDispatch
  NoEvent = NoEvent
SPECIFICATION LiveSpec
PROPERTIES FeedbackWaitsForWelcome NothingPendingForever
