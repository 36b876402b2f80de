SPECIFICATION Spec
CONSTANTS
  s1 = s1
  s2 = s2
  e1 = e1
  e2 = e2
  Slugs <- MCSlugs
  Callers <- MCCallers
  Notified <- MCNotified
  DailyLimit = 2
  Floor = 1
  PerRun = 1
  MaxAttempts = 2
  TTL = 2
  MaxAsks = 3
  MaxDays = 2
  MaxMishaps = 2
  NoRow = NoRow
  NoAsk = NoAsk
SYMMETRY MCSymmetry
INVARIANTS
  TypeOK
  QuotaKept
  RemovalsGoOut
  ClosedIsForgotten
