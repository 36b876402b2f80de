CONSTANTS
  b1 = b1
  b2 = b2
  b3 = b3
  Owners = {b1, b2, b3}
  NoRow = NoRow
  NoBatch = NoBatch
  MaxDeaths = 2
SPECIFICATION OverlapLiveSpec
INVARIANT OverlapHasCause
PROPERTY DeadBatchIsReplaced
