------------------------ MODULE CvProcessing_proofs ------------------------
(***************************************************************************)
(* Proofs that the state of the queue keeps its type, that at most one     *)
(* process works on a job and that what has ended stays so, for any number *)
(* of jobs, requests, callers, attempts and deaths, and with no claim      *)
(* going stale under a process that lives; and that a job's attempts and a *)
(* source's open jobs are bounded, however many do.                        *)
(*                                                                         *)
(* None of these is inductive.  A job that is worked on is held by one     *)
(* process, PROCESSING, and neither stale nor found by the recovery        *)
(* (Separated): so nobody writes its status but its holder (StatusWriters) *)
(* and nothing that has ended is opened again.                             *)
(*                                                                         *)
(* Attempts are bounded because the rights to work on a job are            *)
(* (JobsAreRationed), the open jobs of a source because its rights are,    *)
(* summed over its jobs (SourcesAreRationed): who inserts one found none   *)
(* open, and nobody else inserts under the source's lock (InsertsAlone).   *)
(***************************************************************************)
EXTENDS CvProcessing, FiniteSetTheorems, TLAPS

Typed ==
  /\ TypeOK
  /\ step[Scheduler] \notin EnqueueSteps
  /\ \A c \in Callers : /\ step[c] \notin BatchSteps
                        /\ step[c] \in EnqueueSteps => request[c] \in Requests
  /\ \A p \in Procs : step[p] \in {"upgrade", "kick"} => holds[p] \in Created
  /\ \A p \in Procs : step[p] \in {"upgrade", "extract"} => copy[p] \in Rows

(* What the writes of a row do.                                            *)

\* A statement that changes the row of a created job j.
Rewrites(j) ==
  /\ job' \in [Jobs -> Rows \cup {NoJob}]
  /\ Created' = Created
  /\ \A k \in Jobs \ {j} : job'[k] = job[k]
  /\ job'[j] \in Rows
  /\ job'[j].source = job[j].source

LEMMA RowOfCreated ==
  ASSUME TypeOK, NEW j \in Created
  PROVE  j \in Jobs /\ job[j] \in Rows
BY DEF TypeOK, Created

LEMMA SetStatusRewrites ==
  ASSUME TypeOK, NEW j \in Created, NEW s \in Status, SetStatus(j, s)
  PROVE  Rewrites(j) /\ job'[j].status = s /\ stale' = stale \ {j}
<1>1. j \in Jobs /\ job[j] \in Rows
  BY RowOfCreated
<1>2. job' = [job EXCEPT ![j] = [job[j] EXCEPT !.status = s]] /\ stale' = stale \ {j}
  BY DEF SetStatus
<1>3. [job[j] EXCEPT !.status = s] \in Rows
  BY <1>1 DEF Rows
<1>4. job'[j] = [job[j] EXCEPT !.status = s]
  BY <1>1, <1>2 DEF TypeOK
<1>5. \A k \in Jobs \ {j} : job'[k] = job[k]
  BY <1>1, <1>2 DEF TypeOK
<1>6. job' \in [Jobs -> Rows \cup {NoJob}]
  BY <1>2, <1>3 DEF TypeOK
<1>7. Created' = Created
  BY <1>1, <1>3, <1>4, <1>5, CvAssumption DEF Created, CvAssumption
<1>8. job'[j].status = s /\ job'[j].source = job[j].source
  BY <1>1, <1>4 DEF Rows
<1>9. QED
  BY <1>2, <1>3, <1>4, <1>5, <1>6, <1>7, <1>8 DEF Rewrites

LEMMA ClaimRewrites ==
  ASSUME TypeOK, NEW j \in Created, NEW p \in Procs, Claim(p, j)
  PROVE  Rewrites(j) /\ job'[j].status = "PROCESSING"
<1>1. j \in Jobs /\ job[j] \in Rows
  BY RowOfCreated
<1> DEFINE row == [job[j] EXCEPT !.status = "PROCESSING", !.attempts = job[j].attempts + 1]
<1>2. job' = [job EXCEPT ![j] = row]
  BY <1>1 DEF Claim, TypeOK
<1>3. row \in Rows /\ row.source = job[j].source /\ row.status = "PROCESSING"
  <2>1. job[j].attempts + 1 \in Nat /\ "PROCESSING" \in Status
    BY <1>1 DEF Rows, Status
  <2>2. QED
    BY <1>1, <2>1 DEF Rows
<1>4. job'[j] = row
  BY <1>1, <1>2 DEF TypeOK
<1>5. \A k \in Jobs \ {j} : job'[k] = job[k]
  BY <1>1, <1>2 DEF TypeOK
<1>6. job' \in [Jobs -> Rows \cup {NoJob}]
  BY <1>2, <1>3 DEF TypeOK
<1>7. Created' = Created
  BY <1>1, <1>3, <1>4, <1>5, CvAssumption DEF Created, CvAssumption
<1>8. QED
  BY <1>3, <1>4, <1>5, <1>6, <1>7 DEF Rewrites

LEMMA UpgradeRewrites ==
  ASSUME Typed, NEW c \in Callers, UpgradeJob(c)
  PROVE  /\ holds[c] \in Created /\ Rewrites(holds[c])
         /\ job'[holds[c]].status = job[holds[c]].status
         /\ copy' \in [Procs -> Rows \cup {NoJob}]
<1> DEFINE r == request[c]
           j == holds[c]
           intent == IF r.intent # "NONE" THEN r.intent ELSE copy[c].intent
           resume == IF copy[c].resume # NoResume THEN copy[c].resume ELSE r.resume
           row == [job[j] EXCEPT !.intent = intent, !.resume = resume]
<1>1. j \in Created /\ copy[c] \in Rows /\ r \in Requests /\ c \in Procs
  BY DEF Typed, UpgradeJob, Procs, EnqueueSteps
<1>2. j \in Jobs /\ job[j] \in Rows
  BY <1>1, RowOfCreated DEF Typed
<1>3. intent \in Intents /\ resume \in Resumes
  BY <1>1, CvAssumption DEF CvAssumption, Rows, Resumes
<1>4. job' = [job EXCEPT ![j] = row]
  BY <1>2 DEF UpgradeJob, Typed, TypeOK
<1>5. row \in Rows /\ row.source = job[j].source /\ row.status = job[j].status
  BY <1>2, <1>3 DEF Rows
<1>6. job'[j] = row
  BY <1>2, <1>4 DEF Typed, TypeOK
<1>7. \A k \in Jobs \ {j} : job'[k] = job[k]
  BY <1>2, <1>4 DEF Typed, TypeOK
<1>8. job' \in [Jobs -> Rows \cup {NoJob}]
  BY <1>4, <1>5 DEF Typed, TypeOK
<1>9. Created' = Created
  BY <1>2, <1>5, <1>6, <1>7, CvAssumption DEF Created, CvAssumption
<1>10. copy' = [copy EXCEPT ![c] = [copy[c] EXCEPT !.intent = intent, !.resume = resume]]
  BY <1>1 DEF UpgradeJob, Typed, TypeOK
<1>11. [copy[c] EXCEPT !.intent = intent, !.resume = resume] \in Rows
  BY <1>1, <1>3 DEF Rows
<1>12. copy' \in [Procs -> Rows \cup {NoJob}]
  BY <1>10, <1>11 DEF Typed, TypeOK
<1>13. QED
  BY <1>1, <1>5, <1>6, <1>7, <1>8, <1>9, <1>12 DEF Rewrites

LEMMA InsertWrites ==
  ASSUME Typed, NEW c \in Callers, InsertJob(c)
  PROVE  \E j \in Jobs : /\ job[j] = NoJob /\ job'[j] = NewRow(request[c])
                         /\ NewRow(request[c]) \in Rows
                         /\ \A k \in Jobs \ {j} : job'[k] = job[k]
                         /\ job' \in [Jobs -> Rows \cup {NoJob}]
                         /\ Created' = Created \cup {j}
                         /\ holds' = [holds EXCEPT ![c] = j]
<1>1. request[c] \in Requests
  BY DEF Typed, InsertJob, EnqueueSteps
<1>2. NewRow(request[c]) \in Rows
  BY <1>1, CvAssumption DEF CvAssumption, NewRow, Rows, Status, Sources, Resumes
<1>3. PICK j \in Jobs : /\ Oldest(j, Jobs \ Created)
                        /\ job' = [job EXCEPT ![j] = NewRow(request[c])]
                        /\ holds' = [holds EXCEPT ![c] = j]
  BY DEF InsertJob
<1>4. job[j] = NoJob
  BY <1>3 DEF Oldest, Created
<1>5. /\ job'[j] = NewRow(request[c])
      /\ \A k \in Jobs \ {j} : job'[k] = job[k]
      /\ job' \in [Jobs -> Rows \cup {NoJob}]
  BY <1>2, <1>3 DEF Typed, TypeOK
<1>6. Created' = Created \cup {j}
  BY <1>2, <1>5, CvAssumption DEF Created, CvAssumption
<1>7. QED
  BY <1>2, <1>3, <1>4, <1>5, <1>6

LEMMA TypedInit == Init => Typed
BY CvAssumption DEF CvAssumption, Init, Typed, TypeOK, Procs, Created, InStatus,
   EnqueueSteps, WorkSteps, BatchSteps, NoneFound

LEMMA TypedEnqueue ==
  ASSUME Typed, NEW c \in Callers,
         Enqueue(c) \/ \E r \in Requests : StartEnqueue(c, r)
  PROVE  Typed'
<1> USE CvAssumption DEF CvAssumption, Procs, GoTo, EnqueueSteps, WorkSteps, BatchSteps, bounds
<1>1. ASSUME NEW r \in Requests, StartEnqueue(c, r) PROVE Typed'
  BY <1>1 DEF StartEnqueue, Typed, TypeOK, Created, InStatus
<1>2. CASE FindReusable(c)
  BY <1>2 DEF FindReusable, TakeReusable, Newest, OpenFor, Open, Typed, TypeOK, Created, InStatus
<1>3. CASE InsertJob(c)
  <2>1. PICK j \in Jobs : /\ job[j] = NoJob /\ job'[j] = NewRow(request[c])
                          /\ NewRow(request[c]) \in Rows
                          /\ \A k \in Jobs \ {j} : job'[k] = job[k]
                          /\ job' \in [Jobs -> Rows \cup {NoJob}]
                          /\ Created' = Created \cup {j}
                          /\ holds' = [holds EXCEPT ![c] = j]
    BY <1>3, InsertWrites
  <2>2. InStatus("PROCESSING") \subseteq InStatus("PROCESSING")'
    BY <2>1 DEF InStatus, Created
  <2>3. TypeOK'
    BY <1>3, <2>1, <2>2 DEF InsertJob, Typed, TypeOK
  <2>4. QED
    BY <1>3, <2>1, <2>3 DEF InsertJob, Typed, TypeOK
<1>4. CASE UpgradeJob(c)
  <2>1. /\ holds[c] \in Created /\ Rewrites(holds[c])
        /\ job'[holds[c]].status = job[holds[c]].status
        /\ copy' \in [Procs -> Rows \cup {NoJob}]
    BY <1>4, UpgradeRewrites
  <2>2. InStatus("PROCESSING")' = InStatus("PROCESSING")
    BY <2>1 DEF InStatus, Rewrites, Created
  <2>3. TypeOK'
    BY <1>4, <2>1, <2>2 DEF UpgradeJob, Rewrites, Typed, TypeOK
  <2>4. QED
    BY <1>4, <2>1, <2>3 DEF UpgradeJob, Rewrites, Typed, TypeOK
<1>5. CASE Kick(c)
  <2>1. c \in Procs /\ holds[c] \in Created /\ c # Scheduler
    BY <1>5 DEF Kick, Typed
  <2>2. CASE Claimable(holds[c])
    <3>1. Claim(c, holds[c])
      BY <1>5, <2>2 DEF Kick
    <3>2. Rewrites(holds[c]) /\ job'[holds[c]].status = "PROCESSING"
      BY <2>1, <3>1, ClaimRewrites DEF Typed
    <3>3. stale' \subseteq InStatus("PROCESSING")'
      BY <3>1, <3>2 DEF Claim, Rewrites, InStatus, Created, Typed, TypeOK
    <3>4. /\ step' = [step EXCEPT ![c] = "load"] /\ holds' = holds
          /\ copy' = [copy EXCEPT ![c] = NoJob]
          /\ request' = [request EXCEPT ![c] = NoRequest]
          /\ UNCHANGED <<profiles, found, todo, deaths, slow>>
      BY <1>5, <2>1, <3>1 DEF Kick, Claim, Typed, TypeOK
    <3>5. TypeOK'
      BY <2>1, <3>2, <3>3, <3>4 DEF Rewrites, Typed, TypeOK
    <3>6. QED
      BY <2>1, <3>2, <3>4, <3>5 DEF Rewrites, Typed, TypeOK
  <2>3. CASE ~Claimable(holds[c])
    <3>1. /\ step' = [step EXCEPT ![c] = "idle"]
          /\ holds' = [holds EXCEPT ![c] = NoJob]
          /\ copy' = [copy EXCEPT ![c] = NoJob]
          /\ request' = [request EXCEPT ![c] = NoRequest]
          /\ UNCHANGED <<job, stale, profiles, found, todo, deaths, slow>>
      BY <1>5, <2>1, <2>3 DEF Kick, Done
    <3>2. Created' = Created /\ InStatus("PROCESSING")' = InStatus("PROCESSING")
      BY <3>1 DEF Created, InStatus
    <3>3. TypeOK'
      BY <2>1, <3>1, <3>2 DEF Typed, TypeOK
    <3>4. QED
      BY <2>1, <3>1, <3>2, <3>3 DEF Typed, TypeOK
  <2>4. QED
    BY <2>2, <2>3
<1>6. QED
  BY <1>1, <1>2, <1>3, <1>4, <1>5 DEF Enqueue

LEMMA TypedWork ==
  ASSUME Typed, NEW p \in Procs, Work(p)
  PROVE  Typed'
<1> USE CvAssumption DEF CvAssumption, Procs, GoTo, EnqueueSteps, WorkSteps, BatchSteps, bounds
<1>1. holds[p] \in Created /\ holds[p] \in Jobs /\ job[holds[p]] \in Rows
  <2>1. holds[p] \in Created
    BY DEF Typed, TypeOK, Work, Load, Extract, Promote, Throw, MarkReady, ReadAttempts, MarkFailed
  <2>2. QED
    BY <2>1, RowOfCreated DEF Typed
<1>2. CASE Load(p)
  BY <1>1, <1>2 DEF Load, Typed, TypeOK, Created, InStatus
<1>3. CASE Extract(p)
  <2>1. copy[p].source \in Sources
    BY <1>3 DEF Extract, Typed, Rows
  <2>2. QED
    BY <1>1, <1>3, <2>1 DEF Extract, Typed, TypeOK, Created, InStatus
<1>4. CASE Promote(p) \/ Throw(p)
  <2>1. /\ \E s \in {"ready", "failed"} : step' = [step EXCEPT ![p] = s]
        /\ UNCHANGED <<job, profiles, stale, request, holds, copy, found, todo, deaths, slow>>
    BY <1>4 DEF Promote, Throw
  <2>2. QED
    BY <1>1, <2>1 DEF Typed, TypeOK, Created, InStatus
<1>5. CASE ReadAttempts(p)
  BY <1>1, <1>5 DEF ReadAttempts, Typed, TypeOK, Created, InStatus
<1>6. CASE MarkReady(p) \/ MarkFailed(p)
  <2>1. PICK s \in Status : SetStatus(holds[p], s)
    BY <1>6 DEF MarkReady, MarkFailed, AfterAttempt, Status
  <2>2. Rewrites(holds[p]) /\ stale' = stale \ {holds[p]}
    BY <1>1, <2>1, SetStatusRewrites DEF Typed
  <2>3. stale' \subseteq InStatus("PROCESSING")'
    BY <2>2 DEF Rewrites, InStatus, Created, Typed, TypeOK
  <2>4. /\ step' = [step EXCEPT ![p] = IF p = Scheduler THEN "next" ELSE "idle"]
        /\ holds' = [holds EXCEPT ![p] = NoJob]
        /\ copy' = [copy EXCEPT ![p] = NoJob]
        /\ UNCHANGED <<profiles, request, found, todo, deaths, slow>>
    BY <1>6 DEF MarkReady, MarkFailed, Done
  <2>5. TypeOK'
    BY <2>2, <2>3, <2>4 DEF Rewrites, Typed, TypeOK
  <2>6. QED
    BY <2>2, <2>4, <2>5 DEF Rewrites, Typed, TypeOK
<1>7. QED
  BY <1>2, <1>3, <1>4, <1>5, <1>6 DEF Work

LEMMA TypedBatch ==
  ASSUME Typed, Batch
  PROVE  Typed'
<1> USE CvAssumption DEF CvAssumption, Procs, GoTo, EnqueueSteps, WorkSteps, BatchSteps,
        BatchAt, bounds
<1>1. CASE StartBatch \/ EndBatch
  <2>1. /\ \E s \in {"recoverFind", "idle"} : step' = [step EXCEPT ![Scheduler] = s]
        /\ UNCHANGED <<job, profiles, stale, request, holds, copy, found, todo, deaths, slow>>
    BY <1>1 DEF StartBatch, EndBatch
  <2>2. QED
    BY <2>1 DEF Typed, TypeOK, Created, InStatus
<1>2. CASE FindStuck
  <2>1. \A j \in stale : j \in Created /\ job[j].attempts \in Nat
    BY RowOfCreated DEF Typed, TypeOK, InStatus, Rows
  <2>2. DOMAIN found' = stale /\ \A j \in stale : found'[j] = job[j].attempts
    BY <1>2 DEF FindStuck
  <2>3. QED
    BY <1>2, <2>1, <2>2 DEF FindStuck, Typed, TypeOK, Created, InStatus
<1>3. CASE RecoverStaleProcessing
  <2>1. PICK j \in DOMAIN found : /\ SetStatus(j, AfterAttempt(found[j]))
                                  /\ found' = [k \in DOMAIN found \ {j} |-> found[k]]
    BY <1>3 DEF RecoverStaleProcessing
  <2>2. AfterAttempt(found[j]) \in Status /\ j \in Created
    BY DEF AfterAttempt, Status, Typed, TypeOK
  <2>3. Rewrites(j) /\ stale' = stale \ {j}
    BY <2>1, <2>2, SetStatusRewrites DEF Typed
  <2>4. stale' \subseteq InStatus("PROCESSING")'
    BY <2>3 DEF Rewrites, InStatus, Created, Typed, TypeOK
  <2>5. DOMAIN found' \subseteq Created /\ \A k \in DOMAIN found' : found'[k] \in Nat
    BY <2>1 DEF Typed, TypeOK
  <2>6. QED
    BY <1>3, <2>3, <2>4, <2>5 DEF RecoverStaleProcessing, Rewrites, Typed, TypeOK
<1>4. CASE ListPending
  BY <1>4 DEF ListPending, Typed, TypeOK, Created, InStatus
<1>5. CASE NextJob
  <2>1. PICK j \in Jobs : /\ Oldest(j, todo)
                          /\ todo' = todo \ {j}
                          /\ IF Claimable(j)
                             THEN Claim(Scheduler, j)
                             ELSE UNCHANGED <<job, stale, holds, copy, step>>
    BY <1>5 DEF NextJob
  <2>2. j \in Created
    BY <2>1 DEF Oldest, Typed, TypeOK
  <2>3. CASE Claimable(j)
    <3>1. Claim(Scheduler, j) /\ Scheduler \in Procs
      BY <2>1, <2>3
    <3>2. Rewrites(j) /\ job'[j].status = "PROCESSING"
      BY <2>2, <3>1, ClaimRewrites DEF Typed
    <3>3. stale' \subseteq InStatus("PROCESSING")'
      BY <2>2, <3>1, <3>2 DEF Claim, Rewrites, InStatus, Created, Typed, TypeOK
    <3>4. TypeOK'
      BY <1>5, <2>1, <2>2, <3>1, <3>2, <3>3 DEF NextJob, Claim, Rewrites, Typed, TypeOK
    <3>5. QED
      BY <1>5, <2>1, <3>1, <3>2, <3>4 DEF NextJob, Claim, Rewrites, Typed, TypeOK
  <2>4. CASE ~Claimable(j)
    <3>1. UNCHANGED <<job, stale, holds, copy, step, profiles, request, found, bounds>>
      BY <1>5, <2>1, <2>4 DEF NextJob
    <3>2. todo' \subseteq todo
      BY <2>1
    <3>3. QED
      BY <3>1, <3>2 DEF Typed, TypeOK, Created, InStatus, bounds
  <2>5. QED
    BY <2>3, <2>4
<1>6. QED
  BY <1>1, <1>2, <1>3, <1>4, <1>5 DEF Batch

LEMMA TypedStep ==
  ASSUME Typed, [Next]_vars
  PROVE  Typed'
<1> USE CvAssumption DEF CvAssumption, Procs, GoTo, EnqueueSteps, WorkSteps, BatchSteps
<1>1. ASSUME NEW p \in Procs, Die(p) PROVE Typed'
  <2>1. /\ step' = [step EXCEPT ![p] = "idle"]
        /\ holds' = [holds EXCEPT ![p] = NoJob]
        /\ copy' = [copy EXCEPT ![p] = NoJob]
        /\ request' \in {request, [request EXCEPT ![p] = NoRequest]}
        /\ p = Scheduler => request' = request
        /\ todo' \in {todo, {}}
        /\ deaths' = deaths + 1 /\ deaths + slow < MaxMishaps
        /\ UNCHANGED <<job, profiles, stale, slow>>
    BY <1>1 DEF Die
  <2>2. DOMAIN found' \subseteq Created /\ \A j \in DOMAIN found' : found'[j] \in Nat
    BY <1>1 DEF Die, NoneFound, Typed, TypeOK
  <2>3. Created' = Created /\ InStatus("PROCESSING")' = InStatus("PROCESSING")
    BY <2>1 DEF Created, InStatus
  <2>4. TypeOK'
    BY <2>1, <2>2, <2>3 DEF Typed, TypeOK
  <2>5. QED
    BY <2>1, <2>3, <2>4 DEF Typed, TypeOK
<1>2. ASSUME NEW j \in Jobs, GoesStale(j) PROVE Typed'
  BY <1>2 DEF GoesStale, Typed, TypeOK, Created, InStatus
<1>3. CASE UNCHANGED vars
  BY <1>3 DEF vars, Typed, TypeOK, Created, InStatus
<1>4. QED
  BY <1>1, <1>2, <1>3, TypedEnqueue, TypedWork, TypedBatch DEF Next

\* Every variable keeps its type.
THEOREM TypeCorrect == Spec => []TypeOK
<1>1. Typed /\ [Next]_vars => Typed'
  BY TypedStep
<1>2. Typed => TypeOK
  BY DEF Typed
<1>3. QED
  BY TypedInit, <1>1, <1>2, PTL DEF Spec

----------------------------------------------------------------------------
(* One process works on a job.                                             *)

Separated ==
  slow = 0 =>
    /\ \A p, q \in Procs : Working(p) /\ Working(q) /\ holds[p] = holds[q] => p = q
    /\ \A p \in Procs : Working(p) =>
         /\ job[holds[p]].status = "PROCESSING"
         /\ holds[p] \notin stale \cup DOMAIN found
    /\ \A j \in DOMAIN found : job[j].status = "PROCESSING"

\* A step that starts no work, finds no stuck job and writes no status.
Quiet ==
  /\ \A j \in Created : job'[j].status = job[j].status
  /\ \A p \in Procs : step'[p] \in WorkSteps =>
                        step[p] \in WorkSteps /\ holds'[p] = holds[p]
  /\ stale' = stale /\ DOMAIN found' \subseteq DOMAIN found
  /\ slow' = slow

LEMMA QuietSeparated ==
  ASSUME Typed, Separated, Quiet
  PROVE  Separated'
<1>1. \A p \in Procs : Working(p) => holds[p] \in Created
  BY DEF Typed, TypeOK, Working
<1>2. DOMAIN found \subseteq Created
  BY DEF Typed, TypeOK
<1>3. QED
  BY <1>1, <1>2 DEF Separated, Quiet, Working

LEMMA SeparatedEnqueue ==
  ASSUME Typed, Separated, NEW c \in Callers,
         Enqueue(c) \/ \E r \in Requests : StartEnqueue(c, r)
  PROVE  Separated'
<1> USE DEF Procs, GoTo, WorkSteps, EnqueueSteps, bounds
<1> USE QuietSeparated
<1>1. ASSUME NEW r \in Requests, StartEnqueue(c, r) PROVE Quiet
  BY <1>1 DEF StartEnqueue, Quiet, Typed, TypeOK
<1>2. CASE FindReusable(c)
  <2>1. Quiet
    BY <1>2 DEF FindReusable, TakeReusable, Quiet, Typed, TypeOK
  <2>2. QED
    BY <2>1
<1>3. CASE InsertJob(c)
  <2>1. PICK j \in Jobs : /\ job[j] = NoJob
                          /\ \A k \in Jobs \ {j} : job'[k] = job[k]
                          /\ holds' = [holds EXCEPT ![c] = j]
    BY <1>3, InsertWrites
  <2>2. Quiet
    BY <1>3, <2>1 DEF InsertJob, Quiet, Created, Typed, TypeOK
  <2>3. QED
    BY <2>2
<1>4. CASE UpgradeJob(c)
  <2>1. Rewrites(holds[c]) /\ job'[holds[c]].status = job[holds[c]].status
    BY <1>4, UpgradeRewrites
  <2>2. Quiet
    BY <1>4, <2>1 DEF UpgradeJob, Rewrites, Quiet, Created, Typed, TypeOK
  <2>3. QED
    BY <2>2
<1>5. CASE Kick(c)
  <2>1. CASE Claimable(holds[c])
    <3>1. Claim(c, holds[c]) /\ holds[c] \in Created /\ UNCHANGED <<found, slow>>
      BY <1>5, <2>1 DEF Kick, Typed
    <3>2. Rewrites(holds[c]) /\ job'[holds[c]].status = "PROCESSING"
      BY <3>1, ClaimRewrites DEF Typed
    <3>3. QED
      BY <2>1, <3>1, <3>2 DEF Claim, Claimable, Rewrites, Separated, Working, Created, Typed, TypeOK
  <2>2. CASE ~Claimable(holds[c])
    <3>1. Quiet
      BY <1>5, <2>2 DEF Kick, Done, Quiet, Typed, TypeOK
    <3>2. QED
      BY <3>1
  <2>3. QED
    BY <2>1, <2>2
<1>6. QED
  BY <1>1, <1>2, <1>3, <1>4, <1>5 DEF Enqueue

LEMMA SeparatedWork ==
  ASSUME Typed, Separated, NEW p \in Procs, Work(p)
  PROVE  Separated'
<1> USE DEF Procs, GoTo, WorkSteps, bounds
<1>1. CASE Load(p) \/ Extract(p) \/ Promote(p) \/ Throw(p) \/ ReadAttempts(p)
  <2>1. UNCHANGED <<job, stale, holds, found, slow>>
    BY <1>1 DEF Load, Extract, Promote, Throw, ReadAttempts
  <2>2. step[p] \in WorkSteps /\ \E s : step' = [step EXCEPT ![p] = s]
    BY <1>1 DEF Load, Extract, Promote, Throw, ReadAttempts
  <2>3. Quiet
    BY <2>1, <2>2 DEF Quiet, Typed, TypeOK
  <2>4. QED
    BY <2>3, QuietSeparated
<1>2. CASE MarkReady(p) \/ MarkFailed(p)
  <2>1. Working(p) /\ holds[p] \in Created /\ holds[p] \in Jobs
    BY <1>2 DEF MarkReady, MarkFailed, Working, Typed, TypeOK, Created
  <2>2. PICK s \in Status : SetStatus(holds[p], s)
    BY <1>2 DEF MarkReady, MarkFailed, AfterAttempt, Status
  <2>3. Rewrites(holds[p]) /\ stale' = stale \ {holds[p]}
    BY <2>1, <2>2, SetStatusRewrites DEF Typed
  <2>4. /\ step' = [step EXCEPT ![p] = IF p = Scheduler THEN "next" ELSE "idle"]
        /\ holds' = [holds EXCEPT ![p] = NoJob]
        /\ UNCHANGED <<found, slow>>
    BY <1>2 DEF MarkReady, MarkFailed, Done
  <2>5. \A q \in Procs : step'[q] \in WorkSteps =>
          q # p /\ step[q] \in WorkSteps /\ holds'[q] = holds[q] /\ holds[q] \in Jobs
    BY <2>4 DEF Typed, TypeOK, Created
  <2>6. DOMAIN found \subseteq Jobs
    BY DEF Typed, TypeOK, Created
  <2>7. QED
    BY <2>1, <2>3, <2>4, <2>5, <2>6 DEF Rewrites, Separated, Working
<1>3. QED
  BY <1>1, <1>2 DEF Work

LEMMA SeparatedBatch ==
  ASSUME Typed, Separated, Batch
  PROVE  Separated'
<1> USE DEF Procs, GoTo, WorkSteps, BatchAt, bounds
<1>1. CASE StartBatch \/ ListPending \/ EndBatch
  <2>1. Quiet
    BY <1>1 DEF StartBatch, ListPending, EndBatch, Quiet, Typed, TypeOK
  <2>2. QED
    BY <2>1, QuietSeparated
<1>2. CASE FindStuck
  <2>1. DOMAIN found' = stale /\ UNCHANGED <<job, stale, holds, slow>>
    BY <1>2 DEF FindStuck
  <2>2. \A q \in Procs : step'[q] \in WorkSteps => step[q] \in WorkSteps
    BY <1>2 DEF FindStuck, Typed, TypeOK
  <2>3. \A j \in stale : job[j].status = "PROCESSING"
    BY DEF Typed, TypeOK, InStatus
  <2>4. QED
    BY <2>1, <2>2, <2>3 DEF Separated, Working
<1>3. CASE RecoverStaleProcessing
  <2>1. PICK j \in DOMAIN found : /\ SetStatus(j, AfterAttempt(found[j]))
                                  /\ found' = [k \in DOMAIN found \ {j} |-> found[k]]
    BY <1>3 DEF RecoverStaleProcessing
  <2>2. AfterAttempt(found[j]) \in Status /\ j \in Created
    BY DEF AfterAttempt, Status, Typed, TypeOK
  <2>3. Rewrites(j) /\ stale' = stale \ {j}
    BY <2>1, <2>2, SetStatusRewrites DEF Typed
  <2>4. DOMAIN found' = DOMAIN found \ {j} /\ UNCHANGED <<step, holds, slow>>
    BY <1>3, <2>1 DEF RecoverStaleProcessing
  <2>5. \A q \in Procs : Working(q) => holds[q] \in Jobs
    BY DEF Working, Typed, TypeOK, Created
  <2>6. DOMAIN found \subseteq Jobs
    BY DEF Typed, TypeOK, Created
  <2>7. QED
    BY <2>3, <2>4, <2>5, <2>6 DEF Rewrites, Separated, Working
<1>4. CASE NextJob
  <2>1. PICK j \in Jobs : /\ Oldest(j, todo)
                          /\ IF Claimable(j)
                             THEN Claim(Scheduler, j)
                             ELSE UNCHANGED <<job, stale, holds, copy, step>>
    BY <1>4 DEF NextJob
  <2>2. j \in Created /\ UNCHANGED <<found, slow>>
    BY <1>4, <2>1 DEF NextJob, Oldest, Typed, TypeOK
  <2>3. CASE Claimable(j)
    <3>1. Claim(Scheduler, j) /\ Scheduler \in Procs
      BY <2>1, <2>3
    <3>2. Rewrites(j) /\ job'[j].status = "PROCESSING"
      BY <2>2, <3>1, ClaimRewrites DEF Typed
    <3>3. QED
      BY <2>2, <2>3, <3>1, <3>2 DEF Claim, Claimable, Rewrites, Separated, Working, Created, Typed, TypeOK
  <2>4. CASE ~Claimable(j)
    BY <2>1, <2>2, <2>4, QuietSeparated DEF Quiet
  <2>5. QED
    BY <2>3, <2>4
<1>5. QED
  BY <1>1, <1>2, <1>3, <1>4 DEF Batch

LEMMA SeparatedStep ==
  ASSUME Typed, Separated, [Next]_vars
  PROVE  Separated'
<1>1. ASSUME NEW p \in Procs, Die(p) PROVE Separated'
  <2>1. Quiet
    BY <1>1 DEF Die, NoneFound, Quiet, GoTo, WorkSteps, Typed, TypeOK
  <2>2. QED
    BY <2>1, QuietSeparated
<1>2. ASSUME NEW j \in Jobs, GoesStale(j) PROVE Separated'
  <2>1. /\ stale' = stale \cup {j}
        /\ slow' = slow + IF Holders(j) = {} THEN 0 ELSE 1
        /\ UNCHANGED <<job, step, holds, found>>
    BY <1>2 DEF GoesStale
  <2>2. slow' = 0 => slow = 0 /\ Holders(j) = {}
    BY <2>1 DEF Typed, TypeOK
  <2>3. QED
    BY <2>1, <2>2 DEF Separated, Holders, Working
<1>3. CASE UNCHANGED vars
  BY <1>3 DEF vars, Separated, Working
<1>4. QED
  BY <1>1, <1>2, <1>3, SeparatedEnqueue, SeparatedWork, SeparatedBatch DEF Next

\* Two processes never work on one job, unless a job went stale under a
\* process that lives.
THEOREM WorkersAreSeparated == Spec => []OneWorkerPerJob
<1>1. Init => Separated
  BY DEF Init, Separated, Working, WorkSteps, NoneFound
<1>2. Typed /\ Separated /\ [Next]_vars => Typed' /\ Separated'
  BY TypedStep, SeparatedStep
<1>3. Separated => OneWorkerPerJob
  BY DEF Separated, OneWorkerPerJob, Undisturbed, Holders
<1>4. QED
  BY TypedInit, <1>1, <1>2, <1>3, PTL DEF Spec

----------------------------------------------------------------------------
(* What has ended stays so.                                                *)

\* Only a claim, the holder and the recovery write a status.
WrittenByItsOwn(j) ==
  \/ job'[j].status = job[j].status
  \/ job[j].status = "PENDING"
  \/ \E p \in Procs : Working(p) /\ holds[p] = j
  \/ j \in DOMAIN found

LEMMA StatusWriters ==
  ASSUME Typed, [Next]_vars, NEW j \in Created
  PROVE  WrittenByItsOwn(j)
<1> USE DEF WrittenByItsOwn, Procs
<1>1. ASSUME NEW c \in Callers, Enqueue(c) \/ \E r \in Requests : StartEnqueue(c, r)
      PROVE  WrittenByItsOwn(j)
  <2>1. CASE job' = job
    BY <2>1
  <2>2. CASE InsertJob(c)
    <3>1. PICK i \in Jobs : job[i] = NoJob /\ \A k \in Jobs \ {i} : job'[k] = job[k]
      BY <2>2, InsertWrites
    <3>2. QED
      BY <3>1 DEF Created
  <2>3. CASE UpgradeJob(c)
    <3>1. /\ holds[c] \in Created /\ Rewrites(holds[c])
          /\ job'[holds[c]].status = job[holds[c]].status
      BY <2>3, UpgradeRewrites
    <3>2. QED
      BY <3>1 DEF Rewrites, Created
  <2>4. CASE Kick(c) /\ Claimable(holds[c])
    <3>1. Claim(c, holds[c]) /\ holds[c] \in Created
      BY <2>4 DEF Kick, Typed
    <3>2. Rewrites(holds[c])
      BY <3>1, ClaimRewrites DEF Typed
    <3>3. QED
      BY <2>4, <3>2 DEF Rewrites, Claimable, Created
  <2>5. QED
    BY <1>1, <2>1, <2>2, <2>3, <2>4 DEF Enqueue, StartEnqueue, FindReusable, Kick
<1>2. ASSUME NEW p \in Procs, Work(p) PROVE WrittenByItsOwn(j)
  <2>1. CASE MarkReady(p) \/ MarkFailed(p)
    <3>1. Working(p) /\ holds[p] \in Created
      BY <2>1 DEF MarkReady, MarkFailed, Working, WorkSteps, Typed, TypeOK
    <3>2. PICK s \in Status : SetStatus(holds[p], s)
      BY <2>1 DEF MarkReady, MarkFailed, AfterAttempt, Status
    <3>3. Rewrites(holds[p])
      BY <3>1, <3>2, SetStatusRewrites DEF Typed
    <3>4. QED
      BY <3>1, <3>3 DEF Rewrites, Created
  <2>2. CASE job' = job
    BY <2>2
  <2>3. QED
    BY <1>2, <2>1, <2>2 DEF Work, Load, Extract, Promote, Throw, ReadAttempts
<1>3. CASE Batch
  <2>1. CASE job' = job
    BY <2>1
  <2>2. CASE RecoverStaleProcessing
    <3>1. PICK i \in DOMAIN found : SetStatus(i, AfterAttempt(found[i]))
      BY <2>2 DEF RecoverStaleProcessing
    <3>2. AfterAttempt(found[i]) \in Status /\ i \in Created
      BY DEF AfterAttempt, Status, Typed, TypeOK
    <3>3. Rewrites(i)
      BY <3>1, <3>2, SetStatusRewrites DEF Typed
    <3>4. QED
      BY <3>1, <3>3 DEF Rewrites, Created
  <2>3. ASSUME NEW i \in todo, Claimable(i), Claim(Scheduler, i) PROVE WrittenByItsOwn(j)
    <3>1. i \in Created
      BY DEF Typed, TypeOK
    <3>2. Rewrites(i)
      BY <2>3, <3>1, ClaimRewrites DEF Typed
    <3>3. QED
      BY <2>3, <3>2 DEF Rewrites, Claimable, Created
  <2>4. QED
    BY <1>3, <2>1, <2>2, <2>3
    DEF Batch, StartBatch, FindStuck, ListPending, NextJob, EndBatch, Oldest
<1>4. ASSUME NEW p \in Procs, Die(p) PROVE WrittenByItsOwn(j)
  BY <1>4 DEF Die
<1>5. ASSUME NEW i \in Jobs, GoesStale(i) PROVE WrittenByItsOwn(j)
  BY <1>5 DEF GoesStale
<1>6. CASE UNCHANGED vars
  BY <1>6 DEF vars
<1>7. QED
  BY <1>1, <1>2, <1>3, <1>4, <1>5, <1>6 DEF Next

\* A job that is READY or FAILED is not taken up again, unless one went stale
\* under a process that lives.
THEOREM SettledJobsStaySo == Spec => SettledStaysSettled
<1> DEFINE Kept == \A j \in InStatus("READY") \cup InStatus("FAILED") :
                     Undisturbed' => job'[j].status = job[j].status
<1>1. Init => Separated
  BY DEF Init, Separated, Working, WorkSteps, NoneFound
<1>2. Typed /\ Separated /\ [Next]_vars => Typed' /\ Separated'
  BY TypedStep, SeparatedStep
<1>3. ASSUME Typed, Separated, [Next]_vars PROVE Kept
  <2>1. slow' = 0 => slow = 0
    <3>1. ASSUME NEW c \in Callers, Enqueue(c) \/ \E r \in Requests : StartEnqueue(c, r)
          PROVE  slow' = slow
      BY <3>1 DEF Enqueue, StartEnqueue, FindReusable, InsertJob, UpgradeJob, Kick, bounds
    <3>2. ASSUME NEW p \in Procs, Work(p) PROVE slow' = slow
      BY <3>2 DEF Work, Load, Extract, Promote, Throw, MarkReady, ReadAttempts, MarkFailed, bounds
    <3>3. CASE Batch
      BY <3>3 DEF Batch, StartBatch, FindStuck, RecoverStaleProcessing, ListPending, NextJob,
                  EndBatch, bounds
    <3>4. ASSUME NEW p \in Procs, Die(p) PROVE slow' = slow
      BY <3>4 DEF Die
    <3>5. ASSUME NEW j \in Jobs, GoesStale(j) PROVE slow' = 0 => slow = 0
      BY <1>3, <3>5 DEF GoesStale, Typed, TypeOK
    <3>6. QED
      BY <1>3, <3>1, <3>2, <3>3, <3>4, <3>5 DEF Next, vars
  <2>2. \A j \in Created : WrittenByItsOwn(j)
    BY <1>3, StatusWriters
  <2>3. QED
    BY <1>3, <2>1, <2>2 DEF WrittenByItsOwn, Separated, Undisturbed, InStatus
<1>4. Typed /\ Separated /\ [Next]_vars => [Kept]_vars
  BY <1>3
<1>5. QED
  BY TypedInit, <1>1, <1>2, <1>4, PTL DEF Spec, SettledStaysSettled
----------------------------------------------------------------------------
(* A job's attempts are bounded.  A created job has one right to be worked *)
(* on, and one more for each claim that went stale under a process that    *)
(* lives: it waits, a process holds it, or nobody does and recovery may    *)
(* find it.  What still lets a job back that has used its attempts is what *)
(* was read before the last of them.                                       *)

Bit(b) == IF b THEN 1 ELSE 0
Waits(j) == job[j].status = "PENDING"
Spare(j) == \/ j \in DOMAIN found \cup stale
            \/ job[j].status = "PROCESSING" /\ Holders(j) = {}
Late(j) == {p \in Holders(j) : step[p] = "retry" /\ AfterAttempt(copy[p].attempts) = "PENDING"}
FoundLate(j) == j \in DOMAIN found /\ AfterAttempt(found[j]) = "PENDING"

Rights(j) == Cardinality(Holders(j)) + Bit(Waits(j)) + Bit(Spare(j))
Overdue(j) == Cardinality(Late(j)) + Bit(Waits(j)) + Bit(FoundLate(j))

Rationed(j) ==
  /\ IsFiniteSet(Holders(j))
  /\ Rights(j) <= 1 + slow
  /\ job[j].attempts >= MaxAttempts => job[j].attempts + Overdue(j) <= MaxAttempts + slow
JobsAreRationed == \A j \in Created : Rationed(j)

(* The same rights, by source: it has one while it has an open job, and    *)
(* one more for each claim that went stale under a process that lives.  A  *)
(* caller that is about to insert has found no open job.                   *)

HoldersOf(s) == {p \in Procs : Working(p) /\ job[holds[p]].source = s}
WaitingOf(s) == {j \in Created : Waits(j) /\ job[j].source = s}
SparesOf(s) == {j \in Created : Spare(j) /\ job[j].source = s}
OpenOf(s) == {j \in Open : job[j].source = s}
Inserting(s) == \E c \in Callers : step[c] = "insert" /\ request[c].source = s

RightsOf(s) == Cardinality(HoldersOf(s)) + Cardinality(WaitingOf(s)) + Cardinality(SparesOf(s))

SourceRationed(s) ==
  /\ IsFiniteSet(HoldersOf(s))
  /\ RightsOf(s) <= 1 + slow
  /\ OpenOf(s) = {} \/ Inserting(s) => RightsOf(s) <= slow
SourcesAreRationed == \A s \in Sources : SourceRationed(s)

\* What the advisory lock gives.
InsertsAlone == \A c, d \in Callers :
  step[c] = "insert" /\ step[d] = "insert" /\ request[c].source = request[d].source => c = d

\* What the arithmetic of a job needs to know: all its terms are numbers.
LEMMA RationNumbers ==
  ASSUME TypeOK, NEW j \in Created, IsFiniteSet(Holders(j))
  PROVE  /\ job[j].attempts \in Nat /\ slow \in Nat /\ MaxAttempts \in Nat \ {0}
         /\ Cardinality(Holders(j)) \in Nat /\ Cardinality(Late(j)) \in Nat
         /\ IsFiniteSet(Late(j)) /\ Cardinality(Late(j)) <= Cardinality(Holders(j))
<1>1. Late(j) \subseteq Holders(j)
  BY DEF Late
<1>2. job[j] \in Rows
  BY RowOfCreated
<1>3. job[j].attempts \in Nat /\ slow \in Nat /\ MaxAttempts \in Nat \ {0}
  BY <1>2, CvAssumption DEF Rows, TypeOK, CvAssumption
<1>4. QED
  BY <1>1, <1>3, FS_Subset, FS_CardinalityType

\* A step that gives j no new right.
Eases(j) ==
  /\ job'[j].attempts = job[j].attempts /\ slow' = slow
  /\ Holders(j)' \subseteq Holders(j)
  /\ Waits(j)' => Waits(j)
  /\ Spare(j)' => Spare(j)
  /\ job[j].attempts >= MaxAttempts =>
       Late(j)' \subseteq Late(j) /\ (FoundLate(j)' => FoundLate(j))

LEMMA EasedIsRationed ==
  ASSUME TypeOK, TypeOK', NEW j \in Created, j \in Created', Rationed(j), Eases(j)
  PROVE  Rationed(j)'
<1>1. IsFiniteSet(Holders(j)) /\ IsFiniteSet(Holders(j)')
  BY FS_Subset DEF Rationed, Eases
<1>2. Cardinality(Holders(j)') <= Cardinality(Holders(j))
  BY <1>1, FS_Subset DEF Eases
<1>3. /\ job[j].attempts \in Nat /\ slow \in Nat /\ MaxAttempts \in Nat \ {0}
      /\ Cardinality(Holders(j)) \in Nat /\ Cardinality(Late(j)) \in Nat
      /\ IsFiniteSet(Late(j))
  BY <1>1, RationNumbers
<1>4. Cardinality(Holders(j)') \in Nat
  BY <1>1, FS_CardinalityType
<1>5. Rights(j)' <= 1 + slow'
  BY <1>2, <1>3, <1>4 DEF Rationed, Rights, Eases, Bit
<1>6. ASSUME job[j].attempts >= MaxAttempts
      PROVE  job'[j].attempts + Overdue(j)' <= MaxAttempts + slow'
  <2>1. Cardinality(Late(j)') <= Cardinality(Late(j)) /\ Cardinality(Late(j)') \in Nat
    BY <1>3, <1>6, FS_Subset, FS_CardinalityType DEF Eases
  <2>2. QED
    BY <1>3, <1>6, <2>1 DEF Rationed, Overdue, Eases, Bit
<1>7. QED
  BY <1>1, <1>5, <1>6 DEF Rationed, Eases

\* A step that makes a new job.
LEMMA NewIsRationed ==
  ASSUME TypeOK', NEW j \in Created', job'[j].attempts = 0, Holders(j)' = {}, ~Spare(j)'
  PROVE  Rationed(j)'
<1>1. Cardinality(Holders(j)') = 0 /\ IsFiniteSet(Holders(j)')
  BY FS_EmptySet
<1>2. slow' \in Nat /\ MaxAttempts \in Nat \ {0}
  BY CvAssumption DEF TypeOK, CvAssumption
<1>3. QED
  BY <1>1, <1>2 DEF Rationed, Rights, Bit

\* A process claims j.
Takes(p, j) ==
  /\ job'[j].attempts = job[j].attempts + 1 /\ slow' = slow
  /\ p \notin Holders(j) /\ Holders(j)' = Holders(j) \cup {p}
  /\ Waits(j) /\ ~Waits(j)'
  /\ Spare(j)' => Spare(j)
  /\ Late(j)' \subseteq Late(j) /\ (FoundLate(j)' => FoundLate(j))

LEMMA TakenIsRationed ==
  ASSUME TypeOK, TypeOK', NEW j \in Created, j \in Created', NEW p \in Procs,
         Rationed(j), Takes(p, j)
  PROVE  Rationed(j)'
<1>1. IsFiniteSet(Holders(j)) /\ IsFiniteSet(Holders(j)')
  BY FS_AddElement DEF Rationed, Takes
<1>2. Cardinality(Holders(j)') = Cardinality(Holders(j)) + 1
  BY <1>1, FS_AddElement DEF Takes
<1>3. /\ job[j].attempts \in Nat /\ slow \in Nat /\ MaxAttempts \in Nat \ {0}
      /\ Cardinality(Holders(j)) \in Nat /\ Cardinality(Late(j)) \in Nat
      /\ IsFiniteSet(Late(j)) /\ Cardinality(Late(j)) <= Cardinality(Holders(j))
  BY <1>1, RationNumbers
<1>4. Rights(j)' <= 1 + slow'
  BY <1>2, <1>3 DEF Rationed, Rights, Takes, Bit
<1>5. Cardinality(Late(j)') <= Cardinality(Late(j)) /\ Cardinality(Late(j)') \in Nat
  BY <1>3, FS_Subset, FS_CardinalityType DEF Takes
<1>6. ASSUME job[j].attempts >= MaxAttempts
      PROVE  job'[j].attempts + Overdue(j)' <= MaxAttempts + slow'
  BY <1>3, <1>5, <1>6 DEF Rationed, Overdue, Takes, Bit
<1>7. ASSUME job[j].attempts + 1 = MaxAttempts
      PROVE  job'[j].attempts + Overdue(j)' <= MaxAttempts + slow'
  <2>1. FoundLate(j) => Spare(j)
    BY DEF FoundLate, Spare
  <2>2. Overdue(j)' <= Cardinality(Holders(j)) + Bit(Spare(j)) /\ Overdue(j)' \in Nat
    BY <1>3, <1>5, <2>1 DEF Overdue, Takes, Bit
  <2>3. Cardinality(Holders(j)) + Bit(Spare(j)) <= slow
    BY <1>3 DEF Rationed, Rights, Takes, Bit
  <2>4. Bit(Spare(j)) \in Nat
    BY DEF Bit
  <2>5. QED
    BY <1>3, <1>7, <2>2, <2>3, <2>4 DEF Takes
<1>8. job'[j].attempts >= MaxAttempts =>
        job'[j].attempts + Overdue(j)' <= MaxAttempts + slow'
  BY <1>3, <1>6, <1>7 DEF Takes
<1>9. QED
  BY <1>1, <1>4, <1>8 DEF Rationed

\* A process that held j lets go of it: it writes a status, or dies.
LetsGo(p, j) ==
  /\ job'[j].attempts = job[j].attempts /\ slow' = slow
  /\ p \in Holders(j) /\ Holders(j)' = Holders(j) \ {p}
  /\ Late(j)' = Late(j) \ {p}
  /\ FoundLate(j)' => FoundLate(j)
  /\ \/ Waits(j)' => Waits(j)
     \/ (Spare(j)' => Spare(j)) /\ (job[j].attempts >= MaxAttempts => p \in Late(j))

LEMMA ReleasedIsRationed ==
  ASSUME TypeOK, TypeOK', NEW j \in Created, j \in Created', NEW p \in Procs,
         Rationed(j), LetsGo(p, j)
  PROVE  Rationed(j)'
<1>1. IsFiniteSet(Holders(j)) /\ IsFiniteSet(Holders(j)')
  BY FS_RemoveElement DEF Rationed, LetsGo
<1>2. Cardinality(Holders(j)') = Cardinality(Holders(j)) - 1
  BY <1>1, FS_RemoveElement DEF LetsGo
<1>3. /\ job[j].attempts \in Nat /\ slow \in Nat /\ MaxAttempts \in Nat \ {0}
      /\ Cardinality(Holders(j)) \in Nat /\ Cardinality(Late(j)) \in Nat
      /\ IsFiniteSet(Late(j))
  BY <1>1, RationNumbers
<1>4. Rights(j)' <= 1 + slow'
  BY <1>2, <1>3 DEF Rationed, Rights, LetsGo, Bit
<1>5. Cardinality(Late(j)') = IF p \in Late(j) THEN Cardinality(Late(j)) - 1 ELSE Cardinality(Late(j))
  <2>1. CASE p \in Late(j)
    <3>1. IsFiniteSet(Late(j)) /\ Late(j)' = Late(j) \ {p}
      BY <1>3 DEF LetsGo
    <3>2. QED
      BY <2>1, <3>1, FS_RemoveElement
  <2>2. CASE p \notin Late(j)
    <3>1. Late(j)' = Late(j)
      BY <2>2 DEF LetsGo
    <3>2. QED
      BY <2>2, <3>1
  <2>3. QED
    BY <2>1, <2>2
<1>6. ASSUME job[j].attempts >= MaxAttempts
      PROVE  job'[j].attempts + Overdue(j)' <= MaxAttempts + slow'
  BY <1>3, <1>5, <1>6 DEF Rationed, Overdue, LetsGo, Bit
<1>7. QED
  BY <1>1, <1>4, <1>6 DEF Rationed, LetsGo

\* Recovery gives j back.
Recovers(j) ==
  /\ job'[j].attempts = job[j].attempts /\ slow' = slow
  /\ Holders(j)' = Holders(j) /\ Late(j)' = Late(j)
  /\ Spare(j) /\ ~Spare(j)' /\ ~FoundLate(j)'
  /\ Waits(j)' => FoundLate(j)

LEMMA RecoveredIsRationed ==
  ASSUME TypeOK, TypeOK', NEW j \in Created, j \in Created', Rationed(j), Recovers(j)
  PROVE  Rationed(j)'
<1>1. IsFiniteSet(Holders(j))
  BY DEF Rationed
<1>2. /\ job[j].attempts \in Nat /\ slow \in Nat /\ MaxAttempts \in Nat \ {0}
      /\ Cardinality(Holders(j)) \in Nat /\ Cardinality(Late(j)) \in Nat
  BY <1>1, RationNumbers
<1>3. Rights(j)' <= 1 + slow'
  BY <1>2 DEF Rationed, Rights, Recovers, Bit
<1>4. ASSUME job[j].attempts >= MaxAttempts
      PROVE  job'[j].attempts + Overdue(j)' <= MaxAttempts + slow'
  BY <1>2, <1>4 DEF Rationed, Overdue, Recovers, Bit
<1>5. QED
  BY <1>1, <1>3, <1>4 DEF Rationed, Recovers

\* A step that changes no status and no attempts, and starts or ends no work:
\* what is read of a job is what its row says.
Calm ==
  /\ Created' = Created /\ slow' = slow /\ stale' = stale
  /\ \A j \in Created : /\ job'[j].status = job[j].status /\ job'[j].attempts = job[j].attempts
                         /\ job'[j].source = job[j].source
  /\ \A c \in Callers : step'[c] = "insert" =>
       request'[c] = request[c] /\ (step[c] = "insert" \/ OpenFor(c) = {})
  /\ \A p \in Procs : step'[p] \in WorkSteps <=> step[p] \in WorkSteps
  /\ \A p \in Procs : Working(p) =>
       /\ holds'[p] = holds[p]
       /\ step'[p] = "retry" => \/ step[p] = "retry" /\ copy'[p] = copy[p]
                                \/ copy'[p] = job[holds[p]]
  /\ found' = found \/ found' = NoneFound \/ found' = [j \in stale |-> job[j].attempts]

LEMMA CalmKeepsRations ==
  ASSUME TypeOK, TypeOK', JobsAreRationed, Calm
  PROVE  JobsAreRationed'
<1> SUFFICES ASSUME NEW j \in Created PROVE Eases(j)
  BY EasedIsRationed DEF JobsAreRationed, Calm
<1>1. Holders(j)' = Holders(j)
  BY DEF Calm, Holders, Working
<1>2. (Waits(j)' <=> Waits(j)) /\ job'[j].status = job[j].status
  BY DEF Calm, Waits
<1>3. DOMAIN found' \subseteq DOMAIN found \cup stale
  BY DEF Calm, NoneFound
<1>4. Spare(j)' => Spare(j)
  BY <1>1, <1>2, <1>3 DEF Calm, Spare
<1>5. ASSUME job[j].attempts >= MaxAttempts
      PROVE  Late(j)' \subseteq Late(j) /\ (FoundLate(j)' => FoundLate(j))
  <2>1. AfterAttempt(job[j].attempts) # "PENDING"
    BY <1>5 DEF AfterAttempt
  <2>2. Late(j)' \subseteq Late(j)
    BY <1>1, <2>1 DEF Late, Calm, Holders, AfterAttempt
  <2>3. FoundLate(j)' => FoundLate(j)
    BY <2>1 DEF FoundLate, Calm, NoneFound, AfterAttempt
  <2>4. QED
    BY <2>2, <2>3
<1>6. QED
  BY <1>1, <1>2, <1>4, <1>5 DEF Eases, Calm

(* The rights of a source.                                                 *)

LEMMA SourceNumbers ==
  ASSUME TypeOK, NEW s, IsFiniteSet(HoldersOf(s))
  PROVE  /\ IsFiniteSet(WaitingOf(s)) /\ IsFiniteSet(SparesOf(s))
         /\ Cardinality(HoldersOf(s)) \in Nat /\ Cardinality(WaitingOf(s)) \in Nat
         /\ Cardinality(SparesOf(s)) \in Nat /\ RightsOf(s) \in Nat /\ slow \in Nat
<1>1. IsFiniteSet(Jobs) /\ WaitingOf(s) \subseteq Jobs /\ SparesOf(s) \subseteq Jobs
  BY CvAssumption DEF CvAssumption, WaitingOf, SparesOf, Created
<1>2. IsFiniteSet(WaitingOf(s)) /\ IsFiniteSet(SparesOf(s))
  BY <1>1, FS_Subset
<1>3. QED
  BY <1>2, FS_CardinalityType DEF RightsOf, TypeOK

LEMMA NextNumbers ==
  ASSUME TypeOK', NEW s, IsFiniteSet(HoldersOf(s)')
  PROVE  /\ IsFiniteSet(WaitingOf(s)') /\ IsFiniteSet(SparesOf(s)')
         /\ Cardinality(HoldersOf(s)') \in Nat /\ Cardinality(WaitingOf(s)') \in Nat
         /\ Cardinality(SparesOf(s)') \in Nat /\ RightsOf(s)' \in Nat /\ slow' \in Nat
<1>1. IsFiniteSet(Jobs) /\ WaitingOf(s)' \subseteq Jobs /\ SparesOf(s)' \subseteq Jobs
  BY CvAssumption DEF CvAssumption, WaitingOf, SparesOf, Created
<1>2. IsFiniteSet(WaitingOf(s)') /\ IsFiniteSet(SparesOf(s)')
  BY <1>1, FS_Subset
<1>3. QED
  BY <1>2, FS_CardinalityType DEF RightsOf, TypeOK

\* A step that gives the source no new right, and takes one from it when its
\* last job ends.
LEMMA CountedIsRationed ==
  ASSUME TypeOK, TypeOK', NEW s, SourceRationed(s), slow' = slow,
         IsFiniteSet(HoldersOf(s)'), RightsOf(s)' <= RightsOf(s),
         OpenOf(s)' = {} \/ Inserting(s)' =>
           OpenOf(s) = {} \/ Inserting(s) \/ RightsOf(s)' < RightsOf(s)
  PROVE  SourceRationed(s)'
<1>1. RightsOf(s) \in Nat /\ slow \in Nat /\ IsFiniteSet(HoldersOf(s))
  BY SourceNumbers DEF SourceRationed
<1>2. RightsOf(s)' \in Nat
  BY NextNumbers
<1>3. RightsOf(s)' <= 1 + slow'
  BY <1>1, <1>2 DEF SourceRationed
<1>4. OpenOf(s)' = {} \/ Inserting(s)' => RightsOf(s)' <= slow'
  BY <1>1, <1>2 DEF SourceRationed
<1>5. QED
  BY <1>3, <1>4 DEF SourceRationed

\* A step that leaves the source alone, or ends things.
LEMMA EasedSource ==
  ASSUME TypeOK, TypeOK', NEW s, SourceRationed(s), slow' = slow,
         HoldersOf(s)' \subseteq HoldersOf(s), WaitingOf(s)' \subseteq WaitingOf(s),
         SparesOf(s)' \subseteq SparesOf(s),
         OpenOf(s)' = {} \/ Inserting(s)' => OpenOf(s) = {} \/ Inserting(s)
  PROVE  SourceRationed(s)'
<1>1. IsFiniteSet(HoldersOf(s)) /\ IsFiniteSet(WaitingOf(s)) /\ IsFiniteSet(SparesOf(s))
  BY SourceNumbers DEF SourceRationed
<1>2. /\ IsFiniteSet(HoldersOf(s)') /\ Cardinality(HoldersOf(s)') <= Cardinality(HoldersOf(s))
      /\ IsFiniteSet(WaitingOf(s)') /\ Cardinality(WaitingOf(s)') <= Cardinality(WaitingOf(s))
      /\ IsFiniteSet(SparesOf(s)') /\ Cardinality(SparesOf(s)') <= Cardinality(SparesOf(s))
  BY <1>1, FS_Subset
<1>3. RightsOf(s)' <= RightsOf(s)
  BY <1>1, <1>2, SourceNumbers, NextNumbers DEF RightsOf
<1>4. QED
  BY <1>2, <1>3, CountedIsRationed

LEMMA CalmKeepsSources ==
  ASSUME TypeOK, TypeOK', SourcesAreRationed, Calm
  PROVE  SourcesAreRationed'
<1> SUFFICES ASSUME NEW s \in Sources PROVE SourceRationed(s)'
  BY DEF SourcesAreRationed
<1>1. \A p \in Procs : Working(p) => holds[p] \in Created
  BY DEF TypeOK, Working
<1>2. HoldersOf(s)' = HoldersOf(s)
  BY <1>1 DEF Calm, HoldersOf, Working
<1>3. WaitingOf(s)' = WaitingOf(s)
  BY DEF Calm, WaitingOf, Waits
<1>4. \A j \in Created : Holders(j)' = Holders(j)
  BY DEF Calm, Holders, Working
<1>5. DOMAIN found' \subseteq DOMAIN found \cup stale
  BY DEF Calm, NoneFound
<1>6. SparesOf(s)' \subseteq SparesOf(s)
  BY <1>4, <1>5 DEF Calm, SparesOf, Spare
<1>7. OpenOf(s)' = OpenOf(s)
  BY DEF Calm, OpenOf, Open, InStatus
<1>8. Inserting(s)' => OpenOf(s) = {} \/ Inserting(s)
  BY DEF Calm, Inserting, OpenFor, OpenOf
<1>9. QED
  BY <1>2, <1>3, <1>6, <1>7, <1>8, EasedSource DEF SourcesAreRationed, Calm

\* No source but j's is touched by a step that rewrites j.
LEMMA OtherSources ==
  ASSUME TypeOK, TypeOK', NEW j \in Created, NEW s, s # job[j].source, SourceRationed(s),
         Rewrites(j), slow' = slow,
         \A c \in Callers : step'[c] = "insert" => step[c] = "insert" /\ request'[c] = request[c],
         \A k \in Created \ {j} : Holders(k)' = Holders(k),
         stale' \subseteq stale, DOMAIN found' \subseteq DOMAIN found
  PROVE  SourceRationed(s)'
<1>1. j \in Jobs /\ job'[j].source = job[j].source
      /\ \A k \in Created \ {j} : job'[k] = job[k]
  BY DEF Rewrites, Created
<1>2. HoldersOf(s)' \subseteq HoldersOf(s)
  <2> SUFFICES ASSUME NEW p \in Procs, Working(p)', job'[holds'[p]].source = s
               PROVE  Working(p) /\ job[holds[p]].source = s
    BY DEF HoldersOf
  <2>1. holds'[p] \in Created \ {j}
    BY <1>1 DEF TypeOK, Working, Rewrites
  <2>2. p \in Holders(holds'[p])
    BY <2>1 DEF Holders
  <2>3. QED
    BY <1>1, <2>1, <2>2 DEF Holders
<1>3. Created' = Created
  BY DEF Rewrites
<1>4. WaitingOf(s)' \subseteq WaitingOf(s)
  BY <1>1, <1>3 DEF WaitingOf, Waits
<1>5. SparesOf(s)' \subseteq SparesOf(s)
  BY <1>1, <1>3 DEF SparesOf, Spare
<1>6. OpenOf(s) \subseteq OpenOf(s)'
  BY <1>1, <1>3 DEF OpenOf, Open, InStatus
<1>7. Inserting(s)' => Inserting(s)
  BY DEF Inserting
<1>8. QED
  BY <1>2, <1>4, <1>5, <1>6, <1>7, EasedSource

LEMMA OneMore ==
  ASSUME NEW S, NEW x, IsFiniteSet(S)
  PROVE  /\ IsFiniteSet(S \cup {x}) /\ Cardinality(S \cup {x}) \in Nat
         /\ Cardinality(S \cup {x}) <= Cardinality(S) + 1
<1>1. /\ IsFiniteSet(S \cup {x})
      /\ Cardinality(S \cup {x}) = IF x \in S THEN Cardinality(S) ELSE Cardinality(S) + 1
  BY FS_AddElement
<1>2. Cardinality(S) \in Nat /\ Cardinality(S \cup {x}) \in Nat
  BY <1>1, FS_CardinalityType
<1>3. QED
  BY <1>1, <1>2

LEMMA TwoSets ==
  ASSUME NEW S, NEW T, IsFiniteSet(S), IsFiniteSet(T)
  PROVE  /\ IsFiniteSet(S \cup T) /\ Cardinality(S) \in Nat /\ Cardinality(T) \in Nat
         /\ Cardinality(S \cup T) \in Nat /\ Cardinality(S \cup T) <= Cardinality(S) + Cardinality(T)
<1>1. /\ IsFiniteSet(S \cup T) /\ IsFiniteSet(S \cap T)
      /\ Cardinality(S \cup T) = Cardinality(S) + Cardinality(T) - Cardinality(S \cap T)
  BY FS_Union, FS_Intersection, FS_Subset
<1>2. /\ Cardinality(S) \in Nat /\ Cardinality(T) \in Nat /\ Cardinality(S \cup T) \in Nat
      /\ Cardinality(S \cap T) \in Nat
  BY <1>1, FS_CardinalityType
<1>3. QED
  BY <1>1, <1>2

\* A job that waited gets a holder.
LEMMA TradedIsRationed ==
  ASSUME TypeOK, TypeOK', NEW s, SourceRationed(s), slow' = slow, NEW p, NEW j,
         p \notin HoldersOf(s), HoldersOf(s)' = HoldersOf(s) \cup {p},
         j \in WaitingOf(s), WaitingOf(s)' = WaitingOf(s) \ {j},
         SparesOf(s)' \subseteq SparesOf(s),
         OpenOf(s)' # {}, Inserting(s)' => Inserting(s)
  PROVE  SourceRationed(s)'
<1>1. IsFiniteSet(HoldersOf(s)) /\ IsFiniteSet(WaitingOf(s)) /\ IsFiniteSet(SparesOf(s))
  BY SourceNumbers DEF SourceRationed
<1>2. /\ IsFiniteSet(HoldersOf(s)') /\ Cardinality(HoldersOf(s)') = Cardinality(HoldersOf(s)) + 1
      /\ Cardinality(WaitingOf(s)') = Cardinality(WaitingOf(s)) - 1
      /\ Cardinality(SparesOf(s)') <= Cardinality(SparesOf(s))
  BY <1>1, FS_AddElement, FS_RemoveElement, FS_Subset
<1>3. /\ Cardinality(HoldersOf(s)) \in Nat /\ Cardinality(WaitingOf(s)) \in Nat
      /\ Cardinality(SparesOf(s)) \in Nat /\ Cardinality(SparesOf(s)') \in Nat
  BY <1>1, <1>2, SourceNumbers, NextNumbers
<1>4. RightsOf(s)' <= RightsOf(s)
  BY <1>2, <1>3 DEF RightsOf
<1>5. QED
  BY <1>2, <1>4, CountedIsRationed

\* A holder, or the recovery, lets go of a job: it gives its right back to the
\* job, which is open then, or drops it.
LEMMA ReturnedIsRationed ==
  ASSUME TypeOK, TypeOK', NEW s, SourceRationed(s), slow' = slow, NEW j,
         \/ /\ \E p \in HoldersOf(s) : HoldersOf(s)' = HoldersOf(s) \ {p}
            /\ SparesOf(s)' \subseteq SparesOf(s)
         \/ /\ HoldersOf(s)' = HoldersOf(s)
            /\ \E k \in SparesOf(s) : SparesOf(s)' \subseteq SparesOf(s) \ {k},
         \/ WaitingOf(s)' \subseteq WaitingOf(s)
         \/ WaitingOf(s)' \subseteq WaitingOf(s) \cup {j} /\ OpenOf(s)' # {},
         Inserting(s)' => Inserting(s)
  PROVE  SourceRationed(s)'
<1>1. IsFiniteSet(HoldersOf(s)) /\ IsFiniteSet(WaitingOf(s)) /\ IsFiniteSet(SparesOf(s))
  BY SourceNumbers DEF SourceRationed
<1> DEFINE Fewer ==
      /\ IsFiniteSet(HoldersOf(s)')
      /\ Cardinality(HoldersOf(s)') + Cardinality(SparesOf(s)')
           <= Cardinality(HoldersOf(s)) + Cardinality(SparesOf(s)) - 1
<1>2. Fewer
  <2>1. ASSUME NEW p \in HoldersOf(s), HoldersOf(s)' = HoldersOf(s) \ {p},
               SparesOf(s)' \subseteq SparesOf(s)
        PROVE  Fewer
    <3>1. IsFiniteSet(HoldersOf(s)') /\ Cardinality(HoldersOf(s)') = Cardinality(HoldersOf(s)) - 1
      BY <1>1, <2>1, FS_RemoveElement
    <3>2. Cardinality(SparesOf(s)') <= Cardinality(SparesOf(s))
      BY <1>1, <2>1, FS_Subset
    <3>3. QED
      BY <1>1, <3>1, <3>2, SourceNumbers, NextNumbers
  <2>2. ASSUME NEW k \in SparesOf(s), HoldersOf(s)' = HoldersOf(s),
               SparesOf(s)' \subseteq SparesOf(s) \ {k}
        PROVE  Fewer
    <3>1. IsFiniteSet(SparesOf(s) \ {k})
          /\ Cardinality(SparesOf(s) \ {k}) = Cardinality(SparesOf(s)) - 1
      BY <1>1, FS_RemoveElement
    <3>2. Cardinality(SparesOf(s)') <= Cardinality(SparesOf(s) \ {k})
      BY <2>2, <3>1, FS_Subset
    <3>3. QED
      BY <1>1, <2>2, <3>1, <3>2, SourceNumbers, NextNumbers
  <2>3. QED
    BY <2>1, <2>2
<1>3. CASE WaitingOf(s)' \subseteq WaitingOf(s)
  <2>1. Cardinality(WaitingOf(s)') <= Cardinality(WaitingOf(s))
    BY <1>1, <1>3, FS_Subset
  <2>2. RightsOf(s)' < RightsOf(s)
    BY <1>1, <1>2, <2>1, SourceNumbers, NextNumbers DEF RightsOf
  <2>3. RightsOf(s)' <= RightsOf(s)
    BY <1>1, <1>2, <2>2, SourceNumbers, NextNumbers
  <2>4. QED
    BY <1>2, <2>2, <2>3, CountedIsRationed
<1>4. CASE WaitingOf(s)' \subseteq WaitingOf(s) \cup {j} /\ OpenOf(s)' # {}
  <2>1. /\ IsFiniteSet(WaitingOf(s) \cup {j})
        /\ Cardinality(WaitingOf(s) \cup {j}) <= Cardinality(WaitingOf(s)) + 1
    BY <1>1, OneMore
  <2>2. Cardinality(WaitingOf(s)') <= Cardinality(WaitingOf(s) \cup {j})
    BY <1>4, <2>1, FS_Subset
  <2>3. Cardinality(WaitingOf(s) \cup {j}) \in Nat
    BY <2>1, FS_CardinalityType
  <2>4. RightsOf(s)' <= RightsOf(s)
    BY <1>1, <1>2, <2>1, <2>2, <2>3, SourceNumbers, NextNumbers DEF RightsOf
  <2>5. QED
    BY <1>2, <1>4, <2>4, CountedIsRationed
<1>5. QED
  BY <1>3, <1>4

\* A process dies over a job, which recovery may find now.
LEMMA DroppedIsRationed ==
  ASSUME TypeOK, TypeOK', NEW s, SourceRationed(s), slow' = slow, NEW j,
         NEW p \in HoldersOf(s), HoldersOf(s)' = HoldersOf(s) \ {p},
         SparesOf(s)' \subseteq SparesOf(s) \cup {j},
         WaitingOf(s)' \subseteq WaitingOf(s),
         OpenOf(s)' = OpenOf(s), Inserting(s)' => Inserting(s)
  PROVE  SourceRationed(s)'
<1>1. IsFiniteSet(HoldersOf(s)) /\ IsFiniteSet(WaitingOf(s)) /\ IsFiniteSet(SparesOf(s))
  BY SourceNumbers DEF SourceRationed
<1>2. IsFiniteSet(HoldersOf(s)') /\ Cardinality(HoldersOf(s)') = Cardinality(HoldersOf(s)) - 1
  BY <1>1, FS_RemoveElement
<1>3. Cardinality(WaitingOf(s)') <= Cardinality(WaitingOf(s))
  BY <1>1, FS_Subset
<1>4. /\ IsFiniteSet(SparesOf(s) \cup {j})
      /\ Cardinality(SparesOf(s) \cup {j}) <= Cardinality(SparesOf(s)) + 1
      /\ Cardinality(SparesOf(s) \cup {j}) \in Nat
  BY <1>1, OneMore
<1>5. Cardinality(SparesOf(s)') <= Cardinality(SparesOf(s) \cup {j})
  BY <1>4, FS_Subset
<1>6. /\ Cardinality(HoldersOf(s)) \in Nat /\ Cardinality(HoldersOf(s)') \in Nat
      /\ Cardinality(WaitingOf(s)) \in Nat /\ Cardinality(WaitingOf(s)') \in Nat
      /\ Cardinality(SparesOf(s)) \in Nat /\ Cardinality(SparesOf(s)') \in Nat
  BY <1>1, <1>2, SourceNumbers, NextNumbers
<1>7. RightsOf(s)' <= RightsOf(s)
  BY <1>2, <1>3, <1>4, <1>5, <1>6 DEF RightsOf
<1>8. QED
  BY <1>2, <1>7, CountedIsRationed

LEMMA ClaimKeepsSources ==
  ASSUME TypeOK, TypeOK', SourcesAreRationed, NEW p \in Procs, NEW j \in Created,
         ~Working(p), Claimable(j), Claim(p, j), UNCHANGED <<found, slow>>,
         \A c \in Callers \ {p} : request'[c] = request[c]
  PROVE  SourcesAreRationed'
<1> USE DEF WorkSteps
<1>1. Rewrites(j) /\ job'[j].status = "PROCESSING"
  BY ClaimRewrites
<1>2. /\ step' = [step EXCEPT ![p] = "load"] /\ holds' = [holds EXCEPT ![p] = j]
      /\ stale' = stale \ {j}
  BY DEF Claim, GoTo
<1>3. step'[p] = "load" /\ holds'[p] = j
      /\ \A q \in Procs \ {p} : step'[q] = step[q] /\ holds'[q] = holds[q]
  BY <1>2 DEF TypeOK
<1>4. \A k \in Created \ {j} : Holders(k)' = Holders(k)
  BY <1>3 DEF Holders, Working
<1>5. \A c \in Callers : step'[c] = "insert" => step[c] = "insert" /\ request'[c] = request[c]
  BY <1>3 DEF Procs
<1>6. Created' = Created /\ job'[j].source = job[j].source
      /\ \A k \in Created \ {j} : job'[k] = job[k]
  BY <1>1 DEF Rewrites, Created
<1>7. PICK s \in Sources : s = job[j].source
  BY RowOfCreated DEF Rows
<1>8. \A q \in Procs : Working(q) => holds[q] \in Created
  BY DEF TypeOK, Working
<1>9. p \notin HoldersOf(s) /\ HoldersOf(s)' = HoldersOf(s) \cup {p}
  BY <1>3, <1>6, <1>7, <1>8 DEF HoldersOf, Working
<1>10. j \in WaitingOf(s) /\ WaitingOf(s)' = WaitingOf(s) \ {j}
  BY <1>1, <1>6, <1>7 DEF WaitingOf, Waits, Claimable
<1>11. SparesOf(s)' \subseteq SparesOf(s)
  <2>1. p \in Holders(j)'
    BY <1>3 DEF Holders, Working
  <2>2. QED
    BY <1>2, <1>4, <1>6, <2>1 DEF SparesOf, Spare
<1>12. OpenOf(s)' # {} /\ (Inserting(s)' => Inserting(s))
  BY <1>1, <1>5, <1>6, <1>7 DEF OpenOf, Open, InStatus, Inserting
<1>13. SourceRationed(s)'
  BY <1>9, <1>10, <1>11, <1>12, TradedIsRationed DEF SourcesAreRationed
<1>14. ASSUME NEW r \in Sources, r # s PROVE SourceRationed(r)'
  BY <1>1, <1>2, <1>4, <1>5, <1>7, <1>14, OtherSources DEF SourcesAreRationed
<1>15. QED
  BY <1>13, <1>14 DEF SourcesAreRationed

\* What a process leaves behind that wrote the status of its job, or died.
LEMMA ReleaseKeepsSources ==
  ASSUME TypeOK, TypeOK', SourcesAreRationed, NEW p \in Procs, NEW j \in Created,
         Working(p), holds[p] = j, Rewrites(j), slow' = slow,
         step'[p] \notin WorkSteps \cup {"insert"},
         \A q \in Procs \ {p} : step'[q] = step[q] /\ holds'[q] = holds[q],
         \A c \in Callers \ {p} : request'[c] = request[c],
         stale' \subseteq stale, DOMAIN found' \subseteq DOMAIN found,
         job'[j].status = job[j].status \/ job'[j].status # "PROCESSING"
  PROVE  SourcesAreRationed'
<1>1. \A k \in Created \ {j} : Holders(k)' = Holders(k)
  BY DEF Holders, Working
<1>2. \A c \in Callers : step'[c] = "insert" => step[c] = "insert" /\ request'[c] = request[c]
  BY DEF Procs
<1>3. Created' = Created /\ job'[j].source = job[j].source
      /\ \A k \in Created \ {j} : job'[k] = job[k]
  BY DEF Rewrites, Created
<1>4. PICK s \in Sources : s = job[j].source
  BY RowOfCreated DEF Rows
<1>5. \A q \in Procs : Working(q) => holds[q] \in Created
  BY DEF TypeOK, Working
<1>6. p \in HoldersOf(s) /\ HoldersOf(s)' = HoldersOf(s) \ {p}
  BY <1>3, <1>4, <1>5 DEF HoldersOf, Working
<1>7. Inserting(s)' => Inserting(s)
  BY <1>2 DEF Inserting
<1>8. SparesOf(s)' \subseteq SparesOf(s) \cup {j}
  BY <1>1, <1>3 DEF SparesOf, Spare
<1>9. WaitingOf(s)' \subseteq WaitingOf(s) \cup {j}
  BY <1>3 DEF WaitingOf, Waits
<1>10. SourceRationed(s)'
  <2>1. CASE job'[j].status = job[j].status
    <3>1. WaitingOf(s)' \subseteq WaitingOf(s) /\ OpenOf(s)' = OpenOf(s)
      BY <1>3, <2>1 DEF WaitingOf, Waits, OpenOf, Open, InStatus
    <3>2. QED
      BY <1>6, <1>7, <1>8, <3>1, DroppedIsRationed DEF SourcesAreRationed
  <2>2. CASE job'[j].status # "PROCESSING"
    <3>1. SparesOf(s)' \subseteq SparesOf(s)
      BY <1>1, <1>3, <2>2 DEF SparesOf, Spare
    <3>2. WaitingOf(s)' \subseteq WaitingOf(s) \/ OpenOf(s)' # {}
      BY <1>3, <1>4 DEF WaitingOf, Waits, OpenOf, Open, InStatus
    <3>3. QED
      BY <1>6, <1>7, <1>9, <3>1, <3>2, ReturnedIsRationed DEF SourcesAreRationed
  <2>3. QED
    BY <2>1, <2>2
<1>11. ASSUME NEW r \in Sources, r # s PROVE SourceRationed(r)'
  BY <1>1, <1>2, <1>4, <1>11, OtherSources DEF SourcesAreRationed
<1>12. QED
  BY <1>10, <1>11 DEF SourcesAreRationed

\* What recovery does to a job it found.
LEMMA RecoveryKeepsSources ==
  ASSUME TypeOK, TypeOK', SourcesAreRationed, NEW j \in Created, j \in DOMAIN found,
         Rewrites(j), job'[j].status # "PROCESSING", stale' = stale \ {j},
         DOMAIN found' = DOMAIN found \ {j}, UNCHANGED <<step, holds, request, slow>>
  PROVE  SourcesAreRationed'
<1>1. Created' = Created /\ job'[j].source = job[j].source
      /\ \A k \in Created \ {j} : job'[k] = job[k]
  BY DEF Rewrites, Created
<1>2. PICK s \in Sources : s = job[j].source
  BY RowOfCreated DEF Rows
<1>3. \A k \in Created : Holders(k)' = Holders(k)
  BY DEF Holders, Working
<1>4. \A q \in Procs : Working(q) => holds[q] \in Created
  BY DEF TypeOK, Working
<1>5. HoldersOf(s)' = HoldersOf(s)
  BY <1>1, <1>4 DEF HoldersOf, Working
<1>6. j \in SparesOf(s) /\ SparesOf(s)' \subseteq SparesOf(s) \ {j}
  BY <1>1, <1>2, <1>3 DEF SparesOf, Spare
<1>7. WaitingOf(s)' \subseteq WaitingOf(s) \cup {j}
  BY <1>1 DEF WaitingOf, Waits
<1>8. WaitingOf(s)' \subseteq WaitingOf(s) \/ OpenOf(s)' # {}
  BY <1>1, <1>2 DEF WaitingOf, Waits, OpenOf, Open, InStatus
<1>9. Inserting(s)' => Inserting(s)
  BY DEF Inserting
<1>10. SourceRationed(s)'
  BY <1>5, <1>6, <1>7, <1>8, <1>9, ReturnedIsRationed DEF SourcesAreRationed
<1>11. ASSUME NEW r \in Sources, r # s PROVE SourceRationed(r)'
  BY <1>2, <1>3, <1>11, OtherSources DEF SourcesAreRationed
<1>12. QED
  BY <1>10, <1>11 DEF SourcesAreRationed

\* A job is created by the only caller that may.
LEMMA InsertKeepsSources ==
  ASSUME Typed, Typed', SourcesAreRationed, InsertsAlone, NEW c \in Callers, InsertJob(c)
  PROVE  SourcesAreRationed'
<1> USE DEF Typed, Procs, GoTo, WorkSteps, bounds
<1>1. PICK j \in Jobs : /\ job[j] = NoJob /\ job'[j] = NewRow(request[c])
                        /\ \A k \in Jobs \ {j} : job'[k] = job[k]
                        /\ Created' = Created \cup {j}
                        /\ holds' = [holds EXCEPT ![c] = j]
  BY InsertWrites
<1>2. /\ step[c] = "insert" /\ step' = [step EXCEPT ![c] = "kick"]
      /\ UNCHANGED <<stale, found, slow, request>>
  BY DEF InsertJob
<1>3. j \notin Created /\ \A k \in Created : job'[k] = job[k]
  BY <1>1 DEF Created
<1>4. \A p \in Procs : /\ Working(p)' <=> Working(p)
                       /\ Working(p) => holds'[p] = holds[p] /\ holds[p] \in Created
  BY <1>1, <1>2 DEF TypeOK, Working
<1>5. \A s \in Sources : HoldersOf(s)' = HoldersOf(s)
  BY <1>3, <1>4 DEF HoldersOf
<1>6. \A k \in Jobs : Holders(k)' = Holders(k)
  BY <1>4 DEF Holders
<1>7. job'[j].status = "PENDING" /\ job'[j].source = request[c].source
  BY <1>1 DEF NewRow
<1>8. j \notin DOMAIN found \cup stale
  BY <1>3 DEF TypeOK, InStatus
<1>9. \A s \in Sources : SparesOf(s)' = SparesOf(s)
  BY <1>1, <1>2, <1>3, <1>6, <1>7, <1>8 DEF SparesOf, Spare, Created
<1>10. ASSUME NEW s \in Sources, s # request[c].source PROVE SourceRationed(s)'
  <2>1. WaitingOf(s)' = WaitingOf(s) /\ OpenOf(s)' = OpenOf(s)
    BY <1>1, <1>3, <1>7, <1>10 DEF WaitingOf, Waits, OpenOf, Open, InStatus
  <2>2. Inserting(s)' => Inserting(s)
    BY <1>2 DEF Inserting, TypeOK
  <2>3. QED
    BY <1>2, <1>5, <1>9, <2>1, <2>2, EasedSource DEF SourcesAreRationed
<1>11. ASSUME NEW s \in Sources, s = request[c].source PROVE SourceRationed(s)'
  <2>1. SourceRationed(s) /\ Inserting(s)
    BY <1>2, <1>11 DEF SourcesAreRationed, Inserting
  <2>2. IsFiniteSet(HoldersOf(s)) /\ RightsOf(s) <= slow
    BY <2>1 DEF SourceRationed
  <2>3. /\ IsFiniteSet(WaitingOf(s)) /\ slow \in Nat
        /\ Cardinality(HoldersOf(s)) \in Nat /\ Cardinality(WaitingOf(s)) \in Nat
        /\ Cardinality(SparesOf(s)) \in Nat
    BY <2>2, SourceNumbers
  <2>4. WaitingOf(s)' = WaitingOf(s) \cup {j}
    BY <1>1, <1>3, <1>7, <1>11 DEF WaitingOf, Waits
  <2>5. Cardinality(WaitingOf(s)') <= Cardinality(WaitingOf(s)) + 1 /\ Cardinality(WaitingOf(s)') \in Nat
    BY <2>3, <2>4, OneMore
  <2>6. RightsOf(s)' <= 1 + slow'
    BY <1>2, <1>5, <1>9, <1>11, <2>2, <2>3, <2>5 DEF RightsOf
  <2>7. j \in OpenOf(s)'
    BY <1>1, <1>7, <1>11 DEF OpenOf, Open, InStatus
  <2>8. ~Inserting(s)'
    BY <1>2, <1>11 DEF Inserting, InsertsAlone, TypeOK
  <2>9. IsFiniteSet(HoldersOf(s)')
    BY <1>5, <2>2
  <2>10. QED
    BY <2>6, <2>7, <2>8, <2>9 DEF SourceRationed
<1>12. QED
  BY <1>10, <1>11 DEF SourcesAreRationed

\* A claim goes stale: nobody's was to be found already, a live one counts.
LEMMA StaleKeepsSources ==
  ASSUME TypeOK, TypeOK', SourcesAreRationed, NEW j \in Jobs, GoesStale(j)
  PROVE  SourcesAreRationed'
<1>1. /\ stale' = stale \cup {j} /\ j \in Created /\ job[j].status = "PROCESSING"
      /\ slow' = slow + IF Holders(j) = {} THEN 0 ELSE 1
      /\ UNCHANGED <<job, step, request, holds, copy, found>>
  BY DEF GoesStale, InStatus
<1>2. Created' = Created /\ \A k \in Created : Holders(k)' = Holders(k)
  BY <1>1 DEF Holders, Working, Created
<1> SUFFICES ASSUME NEW s \in Sources PROVE SourceRationed(s)'
  BY DEF SourcesAreRationed
<1>3. HoldersOf(s)' = HoldersOf(s) /\ WaitingOf(s)' = WaitingOf(s) /\ OpenOf(s)' = OpenOf(s)
      /\ (Inserting(s)' <=> Inserting(s))
  BY <1>1, <1>2 DEF HoldersOf, Working, WaitingOf, Waits, OpenOf, Open, InStatus, Inserting
<1>4. SourceRationed(s) /\ IsFiniteSet(HoldersOf(s))
  BY DEF SourcesAreRationed, SourceRationed
<1>5. CASE Holders(j) = {}
  <2>1. slow' = slow
    BY <1>1, <1>5 DEF TypeOK
  <2>2. SparesOf(s)' \subseteq SparesOf(s)
    BY <1>1, <1>2, <1>5 DEF SparesOf, Spare
  <2>3. QED
    BY <1>3, <1>4, <2>1, <2>2, EasedSource
<1>6. CASE Holders(j) # {}
  <2>1. slow' = slow + 1
    BY <1>1, <1>6
  <2>2. SparesOf(s)' \subseteq SparesOf(s) \cup {j}
    BY <1>1, <1>2 DEF SparesOf, Spare
  <2>3. IsFiniteSet(SparesOf(s))
    BY <1>4, SourceNumbers
  <2>4. /\ IsFiniteSet(SparesOf(s) \cup {j}) /\ Cardinality(SparesOf(s) \cup {j}) \in Nat
        /\ Cardinality(SparesOf(s) \cup {j}) <= Cardinality(SparesOf(s)) + 1
    BY <2>3, OneMore
  <2>5. Cardinality(SparesOf(s)') <= Cardinality(SparesOf(s) \cup {j})
    BY <2>2, <2>4, FS_Subset
  <2>6. IsFiniteSet(HoldersOf(s)')
    BY <1>3, <1>4
  <2>7. /\ Cardinality(HoldersOf(s)) \in Nat /\ Cardinality(WaitingOf(s)) \in Nat
        /\ Cardinality(SparesOf(s)) \in Nat /\ Cardinality(SparesOf(s)') \in Nat
        /\ RightsOf(s) \in Nat /\ RightsOf(s)' \in Nat /\ slow \in Nat
    BY <1>4, <2>6, SourceNumbers, NextNumbers
  <2>8. RightsOf(s)' <= RightsOf(s) + 1
    BY <1>3, <2>4, <2>5, <2>7 DEF RightsOf
  <2>9. QED
    BY <1>3, <1>4, <2>1, <2>6, <2>7, <2>8 DEF SourceRationed
<1>7. QED
  BY <1>5, <1>6

(* The jobs and the sources, action by action.                             *)

\* A claim takes its job and leaves the others alone.
LEMMA ClaimKeepsRations ==
  ASSUME TypeOK, TypeOK', JobsAreRationed, NEW p \in Procs, NEW j \in Created,
         ~Working(p), Claimable(j), Claim(p, j), UNCHANGED <<found, slow>>
  PROVE  JobsAreRationed'
<1> USE DEF WorkSteps
<1>1. j \in Jobs /\ job[j] \in Rows
  BY RowOfCreated
<1>2. Rewrites(j) /\ job'[j].status = "PROCESSING"
  BY ClaimRewrites
<1>3. job'[j].attempts = job[j].attempts + 1
  BY <1>1 DEF Claim, TypeOK, Rows
<1>4. /\ step' = [step EXCEPT ![p] = "load"] /\ holds' = [holds EXCEPT ![p] = j]
      /\ copy' = [copy EXCEPT ![p] = NoJob] /\ stale' = stale \ {j}
  BY DEF Claim, GoTo
<1>5. step'[p] = "load" /\ holds'[p] = j
      /\ \A q \in Procs \ {p} : step'[q] = step[q] /\ holds'[q] = holds[q] /\ copy'[q] = copy[q]
  BY <1>4 DEF TypeOK
<1>6. Holders(j)' = Holders(j) \cup {p} /\ p \notin Holders(j)
  BY <1>5 DEF Holders, Working
<1>7. \A k \in Created \ {j} : Holders(k)' = Holders(k)
  BY <1>5 DEF Holders, Working
<1>8. \A k \in Created : Late(k)' \subseteq Late(k)
  BY <1>5 DEF Late, AfterAttempt, Holders, Working
<1>9. Takes(p, j)
  BY <1>2, <1>3, <1>4, <1>6, <1>8 DEF Takes, Waits, Claimable, Spare, FoundLate
<1>10. \A k \in Created \ {j} : job'[k] = job[k]
  BY <1>2 DEF Rewrites, Created
<1>11. \A k \in Created \ {j} : Eases(k)
  BY <1>4, <1>7, <1>8, <1>10 DEF Eases, Waits, Spare, FoundLate
<1>12. \A k \in Created : k \in Created'
  BY <1>2 DEF Rewrites
<1>13. Rationed(j)'
  BY <1>9, <1>12, TakenIsRationed DEF JobsAreRationed
<1>14. \A k \in Created \ {j} : Rationed(k)'
  BY <1>11, <1>12, EasedIsRationed DEF JobsAreRationed
<1>15. QED
  BY <1>2, <1>13, <1>14 DEF JobsAreRationed, Rewrites

\* What a process leaves behind that wrote the status s of its job j, or died.
LEMMA ReleaseKeepsRations ==
  ASSUME TypeOK, TypeOK', JobsAreRationed, NEW p \in Procs, NEW j \in Created,
         Working(p), holds[p] = j, Created' = Created, slow' = slow,
         \A k \in Created \ {j} : job'[k] = job[k],
         job'[j].attempts = job[j].attempts,
         step'[p] \notin WorkSteps,
         \A q \in Procs \ {p} : step'[q] = step[q] /\ holds'[q] = holds[q] /\ copy'[q] = copy[q],
         stale' \subseteq stale, found' = found \/ found' = NoneFound,
         \/ job'[j].status = job[j].status
         \/ /\ job'[j].status # "PROCESSING"
            /\ job'[j].status = "PENDING" =>
                 step[p] = "retry" /\ AfterAttempt(copy[p].attempts) = "PENDING"
  PROVE  JobsAreRationed'
<1>1. Holders(j)' = Holders(j) \ {p} /\ p \in Holders(j)
  BY DEF Holders, Working
<1>2. \A k \in Created \ {j} : Holders(k)' = Holders(k) /\ p \notin Holders(k)
  BY DEF Holders, Working
<1>3. Late(j)' = Late(j) \ {p}
  BY DEF Late, AfterAttempt, Holders, Working
<1>4. \A k \in Created \ {j} : Late(k)' \subseteq Late(k)
  BY DEF Late, AfterAttempt, Holders, Working
<1>5. \A k \in Created : /\ k \in DOMAIN found' \cup stale' => k \in DOMAIN found \cup stale
                         /\ FoundLate(k)' => FoundLate(k)
  BY DEF FoundLate, NoneFound
<1>6. LetsGo(p, j)
  <2>1. CASE job'[j].status = job[j].status
    BY <2>1, <1>1, <1>3, <1>5 DEF LetsGo, Waits
  <2>2. CASE /\ job'[j].status # "PROCESSING"
             /\ job'[j].status = "PENDING" =>
                  step[p] = "retry" /\ AfterAttempt(copy[p].attempts) = "PENDING"
    <3>1. Spare(j)' => Spare(j)
      BY <2>2, <1>5 DEF Spare
    <3>2. Waits(j)' => p \in Late(j)
      BY <2>2, <1>1 DEF Waits, Late
    <3>3. QED
      BY <1>1, <1>3, <1>5, <3>1, <3>2 DEF LetsGo
  <2>3. QED
    BY <2>1, <2>2
<1>7. \A k \in Created \ {j} : Eases(k)
  BY <1>2, <1>4, <1>5 DEF Eases, Waits, Spare
<1>8. Rationed(j)'
  BY <1>6, ReleasedIsRationed DEF JobsAreRationed
<1>9. \A k \in Created \ {j} : Rationed(k)'
  BY <1>7, EasedIsRationed DEF JobsAreRationed
<1>10. QED
  BY <1>8, <1>9 DEF JobsAreRationed

LEMMA RationsEnqueue ==
  ASSUME Typed, Typed', JobsAreRationed, SourcesAreRationed, InsertsAlone, NEW c \in Callers,
         Enqueue(c) \/ \E r \in Requests : StartEnqueue(c, r)
  PROVE  JobsAreRationed' /\ SourcesAreRationed'
<1> USE DEF Typed, Procs, GoTo, WorkSteps, bounds
<1>1. ASSUME NEW r \in Requests, StartEnqueue(c, r) PROVE Calm
  BY <1>1 DEF StartEnqueue, Calm, Created, Working, TypeOK
<1>2. CASE FindReusable(c)
  <2>1. Calm
    BY <1>2 DEF FindReusable, TakeReusable, Calm, Created, Working, TypeOK
  <2>2. QED
    BY <2>1, CalmKeepsRations, CalmKeepsSources
<1>3. CASE InsertJob(c)
  <2>1. PICK j \in Jobs : /\ job[j] = NoJob /\ job'[j] = NewRow(request[c])
                          /\ \A k \in Jobs \ {j} : job'[k] = job[k]
                          /\ Created' = Created \cup {j}
                          /\ holds' = [holds EXCEPT ![c] = j]
    BY <1>3, InsertWrites
  <2>2. /\ step[c] = "insert" /\ step' = [step EXCEPT ![c] = "kick"]
        /\ UNCHANGED <<stale, found, slow>>
    BY <1>3 DEF InsertJob
  <2>3. \A p \in Procs : /\ step'[p] \in WorkSteps <=> step[p] \in WorkSteps
                         /\ p # c => holds'[p] = holds[p] /\ step'[p] = step[p]
    BY <2>1, <2>2 DEF TypeOK
  <2>4. \A p \in Procs : p # c => copy'[p] = copy[p]
    BY <1>3 DEF InsertJob, TypeOK
  <2>5. j \notin Created /\ \A k \in Created : job'[k] = job[k]
    BY <2>1 DEF Created
  <2>6. \A k \in Jobs : Holders(k)' = Holders(k)
    BY <2>2, <2>3 DEF Holders, Working
  <2>7. \A k \in Created : Late(k)' \subseteq Late(k)
    <3>1. \A k \in Created : c \notin Holders(k)'
      BY <2>2, <2>6 DEF Holders, Working, Created
    <3>2. QED
      BY <2>3, <2>4, <3>1 DEF Late, Holders, Working, Created, AfterAttempt
  <2>8. \A k \in Created : Eases(k)
    <3>1. \A k \in Created : Waits(k)' => Waits(k)
      BY <2>5 DEF Waits
    <3>2. \A k \in Created : Spare(k)' => Spare(k)
      BY <2>2, <2>5, <2>6 DEF Spare, Created
    <3>3. \A k \in Created : FoundLate(k)' => FoundLate(k)
      BY <2>2 DEF FoundLate
    <3>4. QED
      BY <2>2, <2>5, <2>6, <2>7, <3>1, <3>2, <3>3 DEF Eases, Created
  <2>9. job'[j].attempts = 0 /\ job'[j].status = "PENDING"
    BY <2>1 DEF NewRow
  <2>10. Holders(j)' = {}
    <3>1. \A p \in Procs : Working(p) => holds[p] \in Created
      BY DEF TypeOK, Working
    <3>2. Holders(j) = {}
      BY <2>5, <3>1 DEF Holders
    <3>3. QED
      BY <2>6, <3>2
  <2>11. ~Spare(j)'
    <3>1. j \notin DOMAIN found \cup stale
      BY <2>5 DEF TypeOK, InStatus
    <3>2. QED
      BY <2>2, <2>9, <3>1 DEF Spare
  <2>12. Rationed(j)'
    BY <2>1, <2>9, <2>10, <2>11, NewIsRationed
  <2>13. \A k \in Created : Rationed(k)'
    BY <2>1, <2>8, EasedIsRationed DEF JobsAreRationed
  <2>14. QED
    BY <1>3, <2>1, <2>12, <2>13, InsertKeepsSources DEF JobsAreRationed
<1>4. CASE UpgradeJob(c)
  <2>1. /\ holds[c] \in Created /\ Rewrites(holds[c])
        /\ job'[holds[c]].status = job[holds[c]].status
    BY <1>4, UpgradeRewrites
  <2>2. job'[holds[c]].attempts = job[holds[c]].attempts
    <3>1. holds[c] \in Jobs /\ job[holds[c]] \in Rows
      BY <2>1, RowOfCreated
    <3>2. QED
      BY <1>4, <3>1 DEF UpgradeJob, TypeOK, Rows
  <2>3. /\ step[c] = "upgrade" /\ step' = [step EXCEPT ![c] = "kick"]
        /\ UNCHANGED <<holds, stale, found, slow>>
        /\ \A p \in Procs \ {c} : copy'[p] = copy[p]
    BY <1>4 DEF UpgradeJob, TypeOK
  <2>4. request' = request
    BY <1>4 DEF UpgradeJob
  <2>5. Calm
    BY <2>1, <2>2, <2>3, <2>4 DEF Rewrites, Calm, Created, Working, TypeOK
  <2>6. QED
    BY <2>5, CalmKeepsRations, CalmKeepsSources
<1>5. CASE Kick(c)
  <2>1. /\ holds[c] \in Created /\ UNCHANGED <<found, slow>> /\ ~Working(c)
        /\ \A d \in Callers \ {c} : request'[d] = request[d]
    BY <1>5 DEF Kick, Working, TypeOK
  <2>2. CASE Claimable(holds[c])
    <3>1. Claim(c, holds[c])
      BY <1>5, <2>2 DEF Kick
    <3>2. QED
      BY <2>1, <2>2, <3>1, ClaimKeepsRations, ClaimKeepsSources
  <2>3. CASE ~Claimable(holds[c])
    <3>1. Calm
      BY <1>5, <2>1, <2>3, CvAssumption DEF CvAssumption, Kick, Done, Calm, Created, Working, TypeOK
    <3>2. QED
      BY <3>1, CalmKeepsRations, CalmKeepsSources
  <2>4. QED
    BY <2>2, <2>3
<1>6. QED
  BY <1>1, <1>2, <1>3, <1>4, <1>5, CalmKeepsRations, CalmKeepsSources DEF Enqueue

LEMMA RationsWork ==
  ASSUME Typed, Typed', JobsAreRationed, SourcesAreRationed, NEW p \in Procs, Work(p)
  PROVE  JobsAreRationed' /\ SourcesAreRationed'
<1> USE DEF Typed, GoTo, WorkSteps, bounds
<1>1. Working(p) /\ holds[p] \in Created
  BY DEF Work, Load, Extract, Promote, Throw, MarkReady, ReadAttempts, MarkFailed, Working, TypeOK
<1>2. CASE Load(p) \/ Extract(p) \/ Promote(p) \/ Throw(p) \/ ReadAttempts(p)
  <2>1. UNCHANGED <<job, stale, holds, found, slow>> /\ Created' = Created
    BY <1>2 DEF Load, Extract, Promote, Throw, ReadAttempts, Created
  <2>2. /\ step[p] \in WorkSteps
        /\ \E s \in WorkSteps : /\ step' = [step EXCEPT ![p] = s]
                                /\ s = "retry" => copy' = [copy EXCEPT ![p] = job[holds[p]]]
        /\ \A q \in Procs \ {p} : copy'[q] = copy[q]
        /\ request' = request
    BY <1>2 DEF Load, Extract, Promote, Throw, ReadAttempts, TypeOK
  <2>3. Calm
    BY <2>1, <2>2 DEF Calm, Working, TypeOK
  <2>4. QED
    BY <2>3, CalmKeepsRations, CalmKeepsSources
<1>3. CASE MarkReady(p) \/ MarkFailed(p)
  <2> DEFINE j == holds[p]
  <2>1. PICK s \in Status : /\ SetStatus(j, s) /\ s # "PROCESSING"
                            /\ s = "PENDING" =>
                                 step[p] = "retry" /\ AfterAttempt(copy[p].attempts) = "PENDING"
    BY <1>3 DEF MarkReady, MarkFailed, AfterAttempt, Status
  <2>2. Rewrites(j) /\ job'[j].status = s /\ stale' = stale \ {j}
    BY <1>1, <2>1, SetStatusRewrites
  <2>3. job'[j].attempts = job[j].attempts
    BY <1>1, <2>1, RowOfCreated DEF SetStatus, TypeOK, Rows
  <2>4. /\ step' = [step EXCEPT ![p] = IF p = Scheduler THEN "next" ELSE "idle"]
        /\ holds' = [holds EXCEPT ![p] = NoJob]
        /\ copy' = [copy EXCEPT ![p] = NoJob]
        /\ UNCHANGED <<found, slow, request>>
    BY <1>3 DEF MarkReady, MarkFailed, Done
  <2>5. /\ step'[p] \notin WorkSteps
        /\ \A q \in Procs \ {p} : step'[q] = step[q] /\ holds'[q] = holds[q] /\ copy'[q] = copy[q]
    BY <2>4 DEF TypeOK
  <2>6. Created' = Created /\ \A k \in Created \ {j} : job'[k] = job[k]
    BY <2>2 DEF Rewrites, Created
  <2>7. JobsAreRationed'
    BY <1>1, <2>1, <2>2, <2>3, <2>4, <2>5, <2>6, ReleaseKeepsRations
  <2>8. step'[p] \notin WorkSteps \cup {"insert"}
    BY <2>4 DEF TypeOK
  <2>9. SourcesAreRationed'
    BY <1>1, <2>1, <2>2, <2>4, <2>5, <2>8, ReleaseKeepsSources
  <2>10. QED
    BY <2>7, <2>9
<1>4. QED
  BY <1>2, <1>3 DEF Work

LEMMA RationsBatch ==
  ASSUME Typed, Typed', JobsAreRationed, SourcesAreRationed, Batch
  PROVE  JobsAreRationed' /\ SourcesAreRationed'
<1> USE DEF Typed, Procs, GoTo, WorkSteps, BatchAt, bounds
<1>1. CASE StartBatch \/ FindStuck \/ ListPending \/ EndBatch
  <2>1. Calm
    BY <1>1 DEF StartBatch, FindStuck, ListPending, EndBatch, Calm, Created, Working, TypeOK
  <2>2. QED
    BY <2>1, CalmKeepsRations, CalmKeepsSources
<1>2. CASE RecoverStaleProcessing
  <2>1. PICK j \in DOMAIN found : /\ SetStatus(j, AfterAttempt(found[j]))
                                  /\ found' = [k \in DOMAIN found \ {j} |-> found[k]]
    BY <1>2 DEF RecoverStaleProcessing
  <2>2. AfterAttempt(found[j]) \in Status \ {"PROCESSING"} /\ j \in Created
    BY DEF AfterAttempt, Status, TypeOK
  <2>3. /\ Rewrites(j) /\ job'[j].status = AfterAttempt(found[j])
        /\ stale' = stale \ {j}
    BY <2>1, <2>2, SetStatusRewrites
  <2>4. job'[j].attempts = job[j].attempts
    BY <2>1, <2>2, RowOfCreated DEF SetStatus, TypeOK, Rows
  <2>5. UNCHANGED <<step, request, holds, copy, slow>>
    BY <1>2 DEF RecoverStaleProcessing
  <2>6. \A k \in Created : Holders(k)' = Holders(k) /\ Late(k)' = Late(k)
    BY <2>5 DEF Holders, Working, Late, AfterAttempt
  <2>7. DOMAIN found' = DOMAIN found \ {j} /\ \A k \in DOMAIN found' : found'[k] = found[k]
    BY <2>1
  <2>8. Recovers(j)
    <3>1. Spare(j) /\ ~Spare(j)'
      BY <2>2, <2>3, <2>7 DEF Spare
    <3>2. ~FoundLate(j)' /\ (Waits(j)' => FoundLate(j))
      BY <2>3, <2>7 DEF FoundLate, Waits
    <3>3. QED
      BY <2>2, <2>4, <2>5, <2>6, <3>1, <3>2 DEF Recovers
  <2>9. \A k \in Created \ {j} : job'[k] = job[k]
    BY <2>3 DEF Rewrites, Created
  <2>10. \A k \in Created \ {j} : Eases(k)
    <3>1. \A k \in Created \ {j} : Spare(k)' => Spare(k)
      BY <2>3, <2>6, <2>7, <2>9 DEF Spare
    <3>2. \A k \in Created : FoundLate(k)' => FoundLate(k)
      BY <2>7 DEF FoundLate, AfterAttempt
    <3>3. QED
      BY <2>5, <2>6, <2>9, <3>1, <3>2 DEF Eases, Waits
  <2>11. Created' = Created
    BY <2>3 DEF Rewrites
  <2>12. Rationed(j)'
    BY <2>2, <2>8, <2>11, RecoveredIsRationed DEF JobsAreRationed
  <2>13. \A k \in Created \ {j} : Rationed(k)'
    BY <2>10, <2>11, EasedIsRationed DEF JobsAreRationed
  <2>14. SourcesAreRationed'
    BY <2>2, <2>3, <2>5, <2>7, RecoveryKeepsSources
  <2>15. QED
    BY <2>11, <2>12, <2>13, <2>14 DEF JobsAreRationed
<1>3. CASE NextJob
  <2>1. PICK j \in Jobs : /\ Oldest(j, todo)
                          /\ IF Claimable(j)
                             THEN Claim(Scheduler, j)
                             ELSE UNCHANGED <<job, stale, holds, copy, step>>
    BY <1>3 DEF NextJob
  <2>2. j \in Created /\ UNCHANGED <<request, found, slow>> /\ ~Working(Scheduler)
    BY <1>3, <2>1 DEF NextJob, Oldest, Working, TypeOK
  <2>3. CASE Claimable(j)
    BY <2>1, <2>2, <2>3, ClaimKeepsRations, ClaimKeepsSources
  <2>4. CASE ~Claimable(j)
    <3>1. Calm
      BY <2>1, <2>2, <2>4 DEF Calm, Created, Working
    <3>2. QED
      BY <3>1, CalmKeepsRations, CalmKeepsSources
  <2>5. QED
    BY <2>3, <2>4
<1>4. QED
  BY <1>1, <1>2, <1>3 DEF Batch

LEMMA RationsStep ==
  ASSUME Typed, Typed', JobsAreRationed, SourcesAreRationed, InsertsAlone, [Next]_vars
  PROVE  JobsAreRationed' /\ SourcesAreRationed'
<1> USE DEF Typed, GoTo, WorkSteps
<1>1. ASSUME NEW p \in Procs, Die(p) PROVE JobsAreRationed' /\ SourcesAreRationed'
  <2>1. /\ step' = [step EXCEPT ![p] = "idle"]
        /\ holds' = [holds EXCEPT ![p] = NoJob]
        /\ copy' = [copy EXCEPT ![p] = NoJob]
        /\ found' \in {found, NoneFound}
        /\ UNCHANGED <<job, stale, slow>>
        /\ \A c \in Callers \ {p} : request'[c] = request[c]
    BY <1>1 DEF Die, TypeOK
  <2>2. /\ step'[p] \notin WorkSteps
        /\ \A q \in Procs \ {p} : step'[q] = step[q] /\ holds'[q] = holds[q] /\ copy'[q] = copy[q]
    BY <2>1 DEF TypeOK
  <2>3. Created' = Created
    BY <2>1 DEF Created
  <2>4. CASE Working(p)
    <3>1. holds[p] \in Created /\ Rewrites(holds[p])
      BY <2>1, <2>3, <2>4, RowOfCreated DEF Working, TypeOK, Rewrites
    <3>2. JobsAreRationed'
      BY <2>1, <2>2, <2>3, <2>4, <3>1, ReleaseKeepsRations
    <3>3. step'[p] \notin WorkSteps \cup {"insert"} /\ DOMAIN found' \subseteq DOMAIN found
      BY <2>1 DEF TypeOK, NoneFound
    <3>4. SourcesAreRationed'
      BY <2>1, <2>2, <2>4, <3>1, <3>3, ReleaseKeepsSources
    <3>5. QED
      BY <3>2, <3>4
  <2>5. CASE ~Working(p)
    <3>1. \A c \in Callers : step'[c] = "insert" => step[c] = "insert" /\ request'[c] = request[c]
      BY <2>1, <2>2 DEF TypeOK, Procs
    <3>2. Calm
      BY <2>1, <2>2, <2>3, <2>5, <3>1 DEF Calm, Working
    <3>3. QED
      BY <3>2, CalmKeepsRations, CalmKeepsSources
  <2>6. QED
    BY <2>4, <2>5
<1>2. ASSUME NEW j \in Jobs, GoesStale(j) PROVE JobsAreRationed' /\ SourcesAreRationed'
  <2>1. /\ stale' = stale \cup {j} /\ j \in Created /\ job[j].status = "PROCESSING"
        /\ slow' = slow + IF Holders(j) = {} THEN 0 ELSE 1
        /\ UNCHANGED <<job, step, holds, copy, found>>
    BY <1>2 DEF GoesStale, InStatus
  <2>2. \A k \in Created : Holders(k)' = Holders(k) /\ Late(k)' = Late(k)
    BY <2>1 DEF Holders, Working, Late, AfterAttempt
  <2>3. \A k \in Created : (Waits(k)' <=> Waits(k)) /\ (FoundLate(k)' <=> FoundLate(k))
    BY <2>1 DEF Waits, FoundLate, AfterAttempt
  <2>4. ASSUME NEW k \in Created PROVE Rationed(k)'
    <3>1. Rationed(k) /\ IsFiniteSet(Holders(k))
      BY DEF JobsAreRationed, Rationed
    <3>2. /\ job[k].attempts \in Nat /\ slow \in Nat /\ MaxAttempts \in Nat \ {0}
          /\ Cardinality(Holders(k)) \in Nat /\ Cardinality(Late(k)) \in Nat
      BY <3>1, RationNumbers
    <3>3. slow' \in Nat /\ slow' >= slow
      BY <2>1, <3>2
    <3>4. Overdue(k)' = Overdue(k) /\ Overdue(k) \in Nat
      BY <2>2, <2>3, <3>2 DEF Overdue, Bit
    <3>5. Rights(k)' <= 1 + slow'
      <4>1. CASE k # j \/ Holders(j) = {}
        <5>1. Spare(k)' => Spare(k)
          BY <2>1, <2>2, <4>1 DEF Spare
        <5>2. QED
          BY <2>2, <2>3, <3>1, <3>2, <3>3, <5>1 DEF Rationed, Rights, Bit
      <4>2. CASE k = j /\ Holders(j) # {}
        <5>1. slow' = slow + 1
          BY <2>1, <4>2
        <5>2. QED
          BY <2>2, <2>3, <3>1, <3>2, <5>1 DEF Rationed, Rights, Bit
      <4>3. QED
        BY <4>1, <4>2
    <3>6. QED
      BY <2>1, <2>2, <3>1, <3>2, <3>3, <3>4, <3>5 DEF Rationed
  <2>5. Created' = Created
    BY <2>1 DEF Created
  <2>6. QED
    BY <1>2, <2>4, <2>5, StaleKeepsSources DEF JobsAreRationed
<1>3. CASE UNCHANGED vars
  <2>1. Calm
    BY <1>3 DEF vars, Calm, Created, Working
  <2>2. QED
    BY <2>1, CalmKeepsRations, CalmKeepsSources
<1>4. QED
  BY <1>1, <1>2, <1>3, RationsEnqueue, RationsWork, RationsBatch DEF Next

\* Who inserts found the lock of its source free.
LEMMA InsertsAloneStep ==
  ASSUME Typed, InsertsAlone, [Next]_vars
  PROVE  InsertsAlone'
<1> USE CvAssumption DEF CvAssumption, Typed, TypeOK, Procs, GoTo, BatchAt, WorkSteps
<1> DEFINE Entered(c) ==
      /\ \A d \in Callers \ {c} : step'[d] = step[d] /\ request'[d] = request[d]
      /\ step'[c] = "insert" => /\ request'[c] = request[c]
                                /\ \A d \in Callers : ~LockedBy(d, request[c].source)
    NoneEntered ==
      \A d \in Callers : step'[d] = "insert" => step[d] = "insert" /\ request'[d] = request[d]
<1>1. ASSUME NEW c \in Callers, Enqueue(c) \/ \E r \in Requests : StartEnqueue(c, r)
      PROVE  Entered(c)
  <2>1. CASE \E r \in Requests : StartEnqueue(c, r)
    BY <2>1 DEF StartEnqueue
  <2>2. CASE FindReusable(c)
    BY <2>2 DEF FindReusable, TakeReusable
  <2>3. CASE InsertJob(c) \/ UpgradeJob(c)
    BY <2>3 DEF InsertJob, UpgradeJob
  <2>4. CASE Kick(c)
    BY <2>4 DEF Kick, Claim, Done
  <2>5. QED
    BY <1>1, <2>1, <2>2, <2>3, <2>4 DEF Enqueue
<1>2. ASSUME NEW c \in Callers, Entered(c) PROVE InsertsAlone'
  BY <1>2 DEF InsertsAlone, LockedBy, InTransaction
<1>3. ASSUME NEW p \in Procs, Work(p) PROVE NoneEntered
  <2>1. /\ \E s \in WorkSteps \cup {"next", "idle"} : step' = [step EXCEPT ![p] = s]
        /\ request' = request
    BY <1>3 DEF Work, Load, Extract, Promote, Throw, MarkReady, ReadAttempts, MarkFailed, Done
  <2>2. QED
    BY <2>1
<1>4. ASSUME Batch PROVE NoneEntered
  <2>1. request' = request /\ \A d \in Callers : step'[d] = step[d]
    BY <1>4 DEF Batch, StartBatch, FindStuck, RecoverStaleProcessing, ListPending, NextJob,
                EndBatch, Claim
  <2>2. QED
    BY <2>1
<1>5. ASSUME NEW p \in Procs, Die(p) PROVE NoneEntered
  BY <1>5 DEF Die
<1>6. ASSUME NEW j \in Jobs, GoesStale(j) PROVE NoneEntered
  BY <1>6 DEF GoesStale
<1>7. CASE UNCHANGED vars
  BY <1>7 DEF vars, InsertsAlone
<1>8. NoneEntered => InsertsAlone'
  BY DEF InsertsAlone
<1>9. QED
  BY <1>1, <1>2, <1>3, <1>4, <1>5, <1>6, <1>7, <1>8 DEF Next

LEMMA RationsHold == Spec => [](Typed /\ JobsAreRationed /\ SourcesAreRationed)
<1>1. Init => JobsAreRationed /\ InsertsAlone
  BY DEF Init, JobsAreRationed, Created, InsertsAlone, Procs
<1>2. Init => SourcesAreRationed
  <2> SUFFICES ASSUME Init, NEW s \in Sources PROVE SourceRationed(s)
    BY DEF SourcesAreRationed
  <2>1. HoldersOf(s) = {} /\ WaitingOf(s) = {} /\ SparesOf(s) = {}
    BY DEF Init, HoldersOf, WaitingOf, SparesOf, Created, Working, WorkSteps
  <2>2. slow = 0
    BY DEF Init
  <2>3. QED
    BY <2>1, <2>2, FS_EmptySet DEF SourceRationed, RightsOf
<1>3. Typed /\ JobsAreRationed /\ SourcesAreRationed /\ InsertsAlone /\ [Next]_vars =>
        Typed' /\ JobsAreRationed' /\ SourcesAreRationed' /\ InsertsAlone'
  BY TypedStep, RationsStep, InsertsAloneStep
<1>4. QED
  BY TypedInit, <1>1, <1>2, <1>3, PTL DEF Spec

\* No job is tried more than MAX_CV_PROCESSING_ATTEMPTS times, and once more
\* for each claim that went stale under a process that lives.
THEOREM AttemptsStayBounded == Spec => []AttemptsBounded
<1>1. Typed /\ JobsAreRationed => AttemptsBounded
  <2> SUFFICES ASSUME Typed, JobsAreRationed, NEW j \in Created
               PROVE  job[j].attempts <= MaxAttempts + slow
    BY DEF AttemptsBounded
  <2>1. Rationed(j) /\ IsFiniteSet(Holders(j))
    BY DEF JobsAreRationed, Rationed
  <2>2. /\ job[j].attempts \in Nat /\ slow \in Nat /\ MaxAttempts \in Nat
        /\ Cardinality(Late(j)) \in Nat
    BY <2>1, RationNumbers DEF Typed
  <2>3. Overdue(j) \in Nat
    BY <2>2 DEF Overdue, Bit
  <2>4. QED
    BY <2>1, <2>2, <2>3 DEF Rationed
<1>2. QED
  BY <1>1, RationsHold, PTL

\* A source has at most one open job, and at most one more for each claim
\* that went stale under a process that lives: every open job waits, is held or
\* is left for recovery, and takes one of the source's rights for it.
THEOREM SourcesHaveOneOpenJob == Spec => []OneOpenJobPerSource
<1>1. Typed /\ SourcesAreRationed => OneOpenJobPerSource
  <2> SUFFICES ASSUME Typed, SourcesAreRationed, NEW s \in Sources
               PROVE  Cardinality(OpenOf(s)) <= 1 + slow
    BY DEF OneOpenJobPerSource, OpenOf
  <2>1. IsFiniteSet(HoldersOf(s)) /\ RightsOf(s) <= 1 + slow
    BY DEF SourcesAreRationed, SourceRationed
  <2>2. /\ IsFiniteSet(WaitingOf(s)) /\ IsFiniteSet(SparesOf(s)) /\ slow \in Nat
        /\ Cardinality(HoldersOf(s)) \in Nat /\ Cardinality(WaitingOf(s)) \in Nat
        /\ Cardinality(SparesOf(s)) \in Nat
    BY <2>1, SourceNumbers DEF Typed
  <2> DEFINE held == {holds[p] : p \in HoldersOf(s)}
             holding == [p \in HoldersOf(s) |-> holds[p]]
  <2>3. IsFiniteSet(held) /\ Cardinality(held) <= Cardinality(HoldersOf(s))
    <3>1. holding \in Surjection(HoldersOf(s), held)
      BY DEF Surjection
    <3>2. QED
      BY <2>1, <3>1, FS_Surjection
  <2>4. OpenOf(s) \subseteq (held \cup WaitingOf(s)) \cup SparesOf(s)
    BY DEF OpenOf, Open, InStatus, HoldersOf, WaitingOf, Waits, SparesOf, Spare, Holders
  <2>5. /\ IsFiniteSet(held \cup WaitingOf(s)) /\ IsFiniteSet((held \cup WaitingOf(s)) \cup SparesOf(s))
        /\ Cardinality((held \cup WaitingOf(s)) \cup SparesOf(s)) <= RightsOf(s)
    <3>1. /\ IsFiniteSet(held \cup WaitingOf(s)) /\ Cardinality(held \cup WaitingOf(s)) \in Nat
          /\ Cardinality(held) \in Nat
          /\ Cardinality(held \cup WaitingOf(s)) <= Cardinality(held) + Cardinality(WaitingOf(s))
      BY <2>2, <2>3, TwoSets
    <3> DEFINE all == (held \cup WaitingOf(s)) \cup SparesOf(s)
    <3>2. /\ IsFiniteSet(all) /\ Cardinality(all) \in Nat
          /\ Cardinality(all) <= Cardinality(held \cup WaitingOf(s)) + Cardinality(SparesOf(s))
      BY <2>2, <3>1, TwoSets
    <3>3. Cardinality(all) <= RightsOf(s)
      BY <2>2, <2>3, <3>1, <3>2 DEF RightsOf
    <3>4. QED
      BY <3>1, <3>2, <3>3
  <2>6. Cardinality(OpenOf(s)) <= Cardinality((held \cup WaitingOf(s)) \cup SparesOf(s))
    BY <2>4, <2>5, FS_Subset
  <2>7. QED
    BY <2>1, <2>2, <2>4, <2>5, <2>6, FS_Subset, FS_CardinalityType DEF RightsOf
<1>2. QED
  BY <1>1, RationsHold, PTL
=============================================================================
