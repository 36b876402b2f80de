CONSTANTS
  s1 = s1
  r1 = r1
  c1 = c1
  c2 = c2
  Jobs = {1, 2}
  Callers = {c1, c2}
  Scheduler = Scheduler
  MaxAttempts = 2
  MaxMishaps = 1
  NoResume = NoResume
  NoJob = NoJob
  NoRequest = NoRequest
  Requests <- MCRequests
SPECIFICATION FairSpec
INVARIANTS TypeOK OneOpenJobPerSource OneWorkerPerJob AttemptsBounded
PROPERTIES SettledStaysSettled EveryJobSettles
