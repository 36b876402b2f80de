SPECIFICATION FairSpec
CONSTANTS
  a1 = a1
  a2 = a2
  h1 = h1
  Jobs <- MCJobs
  Admins <- MCAdmins
  Hooks <- MCHooks
  PerDigest = 1
  MaxAttempts = 2
  BatchSize = 2
  MaxDigests = 2
  MaxPeriods = 2
  MaxUnusual = 1
  Nobody = Nobody
INVARIANTS
  TypeOK
  SendsBounded
  OptOutRespected
  NothingRepeated
PROPERTIES
  EveryRepeatHasACause
  DigestsComeToRest
