---------------------------- MODULE CvProcessing ----------------------------
(***************************************************************************)
(* The CV processing queue: CvProcessingJob rows, the requests that        *)
(* enqueue them (cv-processing-job.service.ts#enqueue) and the processes   *)
(* that work on them (cv-processing.worker.ts).                            *)
(*                                                                         *)
(* A request that enqueued a job goes on, after its answer, to work on it  *)
(* (triggerProcessing); the Scheduler is the cron's tick, whose batch      *)
(* recovers the jobs of the dead and works on what is PENDING.  These are  *)
(* processes that take one statement at a time and go on with what they    *)
(* read: `copy', `found' and `todo'.  A job is stale when its claimedAt is *)
(* older than STALE_PROCESSING_THRESHOLD_MS.                               *)
(*                                                                         *)
(* One batch runs at a time: LockOverlap says what it takes for two.       *)
(***************************************************************************)
EXTENDS Integers, FiniteSets

CONSTANTS
  Jobs,         \* job ids in the order of createdAt; bounds the jobs created
  Requests,     \* what requests ask: [source, intent, resume]
  NoResume,     \* a request or a job without a resumeId
  Callers,      \* requests handled at once
  Scheduler,    \* the process that runs the batches
  MaxAttempts,  \* MAX_CV_PROCESSING_ATTEMPTS
  MaxMishaps,   \* bound on processes that die and on jobs that go stale
                \* under a live process, together
  NoJob, NoRequest

Procs == Callers \cup {Scheduler}
Intents == {"NONE", "PROMOTE_IF_FIRST", "PROMOTE_EXPLICIT"}
Sources == {r.source : r \in Requests}
Resumes == {r.resume : r \in Requests} \cup {NoResume}

Status == {"PENDING", "PROCESSING", "READY", "FAILED"}
Rows == [source : Sources, intent : Intents, resume : Resumes,
         status : Status, attempts : Nat]

ASSUME CvAssumption ==
  /\ Jobs \subseteq Nat /\ IsFiniteSet(Jobs)
  /\ \A r \in Requests : r.intent \in Intents
  /\ Scheduler \notin Callers
  /\ NoJob \notin Jobs /\ NoJob \notin Rows /\ NoRequest \notin Requests
  /\ MaxAttempts \in Nat \ {0}
  /\ MaxMishaps \in Nat

VARIABLES
  job,      \* [Jobs -> rows, or NoJob before they are created]
  profiles, \* sources with a CvStructuredProfile that is READY
  stale,    \* jobs whose claimedAt is older than the threshold
  step,     \* the next statement of each process
  request,  \* what each caller asks
  holds,    \* the job a process enqueues, claims or works on
  copy,     \* the row of that job as the process last read it
  found,    \* the stuck jobs the batch read, with their attempts
  todo,     \* the PENDING jobs the batch read
  deaths, slow

vars == <<job, profiles, stale, step, request, holds, copy, found, todo,
          deaths, slow>>
bounds == <<deaths, slow>>

----------------------------------------------------------------------------
Created == {j \in Jobs : job[j] # NoJob}
InStatus(s) == {j \in Created : job[j].status = s}
Open == InStatus("PENDING") \cup InStatus("PROCESSING")
Oldest(j, S) == j \in S /\ \A k \in S : j <= k
Newest(j, S) == j \in S /\ \A k \in S : k <= j

EnqueueSteps == {"find", "insert", "upgrade", "kick"}
WorkSteps == {"load", "extract", "promote", "ready", "failed", "retry"}
BatchSteps == {"recoverFind", "recover", "next"}
Working(p) == step[p] \in WorkSteps

TypeOK ==
  /\ job \in [Jobs -> Rows \cup {NoJob}]
  /\ profiles \subseteq Sources
  /\ stale \subseteq InStatus("PROCESSING")
  /\ step \in [Procs -> EnqueueSteps \cup WorkSteps \cup BatchSteps \cup {"idle"}]
  /\ request \in [Callers -> Requests \cup {NoRequest}]
  /\ holds \in [Procs -> Jobs \cup {NoJob}]
  /\ copy \in [Procs -> Rows \cup {NoJob}]
  /\ DOMAIN found \subseteq Created /\ \A j \in DOMAIN found : found[j] \in Nat
  /\ todo \subseteq Created
  /\ \A p \in Procs : step[p] \in WorkSteps => holds[p] \in Created
  /\ deaths \in Nat /\ slow \in Nat /\ deaths + slow <= MaxMishaps

NoneFound == [j \in {} |-> 0]

Init ==
  /\ job = [j \in Jobs |-> NoJob]
  /\ profiles = {} /\ stale = {}
  /\ step = [p \in Procs |-> "idle"]
  /\ request = [c \in Callers |-> NoRequest]
  /\ holds = [p \in Procs |-> NoJob]
  /\ copy = [p \in Procs |-> NoJob]
  /\ found = NoneFound /\ todo = {}
  /\ deaths = 0 /\ slow = 0

----------------------------------------------------------------------------
(* Helpers.                                                                *)

GoTo(p, s) == step' = [step EXCEPT ![p] = s]

\* A batch goes on with its list, a caller has finished.
Done(p) ==
  /\ GoTo(p, IF p = Scheduler THEN "next" ELSE "idle")
  /\ holds' = [holds EXCEPT ![p] = NoJob]
  /\ copy' = [copy EXCEPT ![p] = NoJob]

\* Mutant: claimedAt outlives the status.
KeepsClaimedAt(j, s) ==
  /\ job' = [job EXCEPT ![j].status = s]
  /\ UNCHANGED stale

\* UPDATE of a job's status by id; PROCESSING sets claimedAt, the others clear
\* it or leave it unread.
SetStatus(j, s) ==
  /\ job' = [job EXCEPT ![j].status = s]
  /\ stale' = stale \ {j}

\* Mutant: one attempt too many.
OneMoreAttempt(n) == IF n > MaxAttempts THEN "FAILED" ELSE "PENDING"

\* The status a job is given after an attempt that did not end, by the
\* attempts some process read.
AfterAttempt(n) == IF n >= MaxAttempts THEN "FAILED" ELSE "PENDING"

----------------------------------------------------------------------------
(* enqueue: one transaction, serialised per source by an advisory lock.    *)

InTransaction(c) == step[c] \in {"insert", "upgrade"}
LockedBy(c, s) == InTransaction(c) /\ request[c].source = s

\* A request reaches the job service, its CvSource and its CvSubmission
\* written; there are ids left for all the callers that may create a job.
StartEnqueue(c, r) ==
  /\ step[c] = "idle"
  /\ Cardinality(Jobs \ Created) > Cardinality({d \in Callers : step[d] \in {"find", "insert"}})
  /\ request' = [request EXCEPT ![c] = r]
  /\ GoTo(c, "find")
  /\ UNCHANGED <<job, profiles, stale, holds, copy, found, todo, bounds>>

\* Whether the open job a request found is changed for it.
NeedsUpgrade(r, row) ==
  /\ row.status = "PENDING"
  /\ \/ r.intent # "NONE" /\ row.intent = "NONE"
     \/ r.resume # NoResume /\ row.resume = NoResume

OpenFor(c) == {j \in Open : job[j].source = request[c].source}

\* What findFirst returns: the newest open job of the source, or none.
TakeReusable(c) ==
  \/ OpenFor(c) = {} /\ GoTo(c, "insert") /\ UNCHANGED <<holds, copy>>
  \/ \E j \in Jobs :
       /\ Newest(j, OpenFor(c))
       /\ GoTo(c, IF NeedsUpgrade(request[c], job[j]) THEN "upgrade" ELSE "kick")
       /\ holds' = [holds EXCEPT ![c] = j]
       /\ copy' = [copy EXCEPT ![c] = job[j]]

\* Mutant: no advisory lock.
FindUnlocked(c) ==
  /\ step[c] = "find"
  /\ TakeReusable(c)
  /\ UNCHANGED <<job, profiles, stale, request, found, todo, bounds>>

\* The advisory lock and findFirst.
FindReusable(c) ==
  /\ step[c] = "find"
  /\ \A d \in Callers : ~LockedBy(d, request[c].source)
  /\ TakeReusable(c)
  /\ UNCHANGED <<job, profiles, stale, request, found, todo, bounds>>

NewRow(r) == [source |-> r.source, intent |-> r.intent, resume |-> r.resume,
              status |-> "PENDING", attempts |-> 0]

\* The transaction that creates a job commits.
InsertJob(c) ==
  /\ step[c] = "insert"
  /\ \E j \in Jobs :
       /\ Oldest(j, Jobs \ Created)
       /\ job' = [job EXCEPT ![j] = NewRow(request[c])]
       /\ holds' = [holds EXCEPT ![c] = j]
  /\ copy' = [copy EXCEPT ![c] = NewRow(request[c])]
  /\ GoTo(c, "kick")
  /\ UNCHANGED <<profiles, stale, request, found, todo, bounds>>

\* The transaction that changes the job it found commits: by id, whatever the
\* job's status is by now.
UpgradeJob(c) ==
  LET r == request[c]
      j == holds[c]
      seen == copy[c]
      intent == IF r.intent # "NONE" THEN r.intent ELSE seen.intent
      resume == IF seen.resume # NoResume THEN seen.resume ELSE r.resume
  IN /\ step[c] = "upgrade"
     /\ job' = [job EXCEPT ![j].intent = intent, ![j].resume = resume]
     /\ copy' = [copy EXCEPT ![c].intent = intent, ![c].resume = resume]
     /\ GoTo(c, "kick")
     /\ UNCHANGED <<profiles, stale, request, holds, found, todo, bounds>>

----------------------------------------------------------------------------
(* claimOne, an UPDATE of the row while it is PENDING, and its findUnique. *)

\* Mutants: a claim of what has ended, a claim of what another works on.
ClaimableAgain(j) == job[j].status # "PROCESSING"
ClaimableOpen(j) == job[j].status \in {"PENDING", "PROCESSING"}

Claimable(j) == job[j].status = "PENDING"

\* Mutant: the claim does not count the attempt.
ClaimUncounted(p, j) ==
  /\ job' = [job EXCEPT ![j].status = "PROCESSING"]
  /\ stale' = stale \ {j}
  /\ holds' = [holds EXCEPT ![p] = j]
  /\ copy' = [copy EXCEPT ![p] = NoJob]
  /\ GoTo(p, "load")

Claim(p, j) ==
  /\ job' = [job EXCEPT ![j].status = "PROCESSING", ![j].attempts = @ + 1]
  /\ stale' = stale \ {j}
  /\ holds' = [holds EXCEPT ![p] = j]
  /\ copy' = [copy EXCEPT ![p] = NoJob]
  /\ GoTo(p, "load")

\* The request is answered and the kick follows; a claim that is lost ends it.
Kick(c) ==
  /\ step[c] = "kick"
  /\ request' = [request EXCEPT ![c] = NoRequest]
  /\ IF Claimable(holds[c])
     THEN Claim(c, holds[c])
     ELSE Done(c) /\ UNCHANGED <<job, stale>>
  /\ UNCHANGED <<profiles, found, todo, bounds>>

Load(p) ==
  /\ step[p] = "load"
  /\ copy' = [copy EXCEPT ![p] = job[holds[p]]]
  /\ GoTo(p, "extract")
  /\ UNCHANGED <<job, profiles, stale, request, holds, found, todo, bounds>>

(* processJob.                                                             *)

\* The READY profile of the source, made if there is none, and the capture of
\* talents that follows it.
Extract(p) ==
  /\ step[p] = "extract"
  /\ profiles' = profiles \cup {copy[p].source}
  /\ GoTo(p, IF copy[p].intent = "NONE" THEN "ready" ELSE "promote")
  /\ UNCHANGED <<job, stale, request, holds, copy, found, todo, bounds>>

\* The transaction of CvMasterPromotionService commits.
Promote(p) ==
  /\ step[p] = "promote"
  /\ GoTo(p, "ready")
  /\ UNCHANGED <<job, profiles, stale, request, holds, copy, found, todo, bounds>>

\* The storage, the model, a statement of the capture, the promotion or
\* markReady fails.
Throw(p) ==
  /\ step[p] \in {"extract", "promote", "ready"}
  /\ GoTo(p, "failed")
  /\ UNCHANGED <<job, profiles, stale, request, holds, copy, found, todo, bounds>>

MarkReady(p) ==
  /\ step[p] = "ready"
  /\ SetStatus(holds[p], "READY")
  /\ Done(p)
  /\ UNCHANGED <<profiles, request, found, todo, bounds>>

\* markFailed reads the attempts, and writes what they say.
ReadAttempts(p) ==
  /\ step[p] = "failed"
  /\ copy' = [copy EXCEPT ![p] = job[holds[p]]]
  /\ GoTo(p, "retry")
  /\ UNCHANGED <<job, profiles, stale, request, holds, found, todo, bounds>>

MarkFailed(p) ==
  /\ step[p] = "retry"
  /\ SetStatus(holds[p], AfterAttempt(copy[p].attempts))
  /\ Done(p)
  /\ UNCHANGED <<profiles, request, found, todo, bounds>>

----------------------------------------------------------------------------
(* processPendingBatch, under the scheduler's lock.                        *)

BatchAt(s) == step[Scheduler] = s

StartBatch ==
  /\ BatchAt("idle")
  /\ GoTo(Scheduler, "recoverFind")
  /\ UNCHANGED <<job, profiles, stale, request, holds, copy, found, todo, bounds>>

FindStuck ==
  /\ BatchAt("recoverFind")
  /\ found' = [j \in stale |-> job[j].attempts]
  /\ GoTo(Scheduler, "recover")
  /\ UNCHANGED <<job, profiles, stale, request, holds, copy, todo, bounds>>

\* One stuck job after the other, by id and by the attempts that were read.
RecoverStaleProcessing ==
  /\ BatchAt("recover")
  /\ \E j \in DOMAIN found :
       /\ SetStatus(j, AfterAttempt(found[j]))
       /\ found' = [k \in DOMAIN found \ {j} |-> found[k]]
  /\ UNCHANGED <<profiles, step, request, holds, copy, todo, bounds>>

ListPending ==
  /\ BatchAt("recover")
  /\ found = NoneFound
  /\ todo' = InStatus("PENDING")
  /\ GoTo(Scheduler, "next")
  /\ UNCHANGED <<job, profiles, stale, request, holds, copy, found, bounds>>

\* The next job of the list; one that is no longer PENDING is passed over.
NextJob ==
  /\ BatchAt("next")
  /\ \E j \in Jobs :
       /\ Oldest(j, todo)
       /\ todo' = todo \ {j}
       /\ IF Claimable(j)
          THEN Claim(Scheduler, j)
          ELSE UNCHANGED <<job, stale, holds, copy, step>>
  /\ UNCHANGED <<profiles, request, found, bounds>>

EndBatch ==
  /\ BatchAt("next")
  /\ todo = {}
  /\ GoTo(Scheduler, "idle")
  /\ UNCHANGED <<job, profiles, stale, request, holds, copy, found, todo, bounds>>

----------------------------------------------------------------------------
(* Time and failures.                                                      *)

Holders(j) == {p \in Procs : Working(p) /\ holds[p] = j}

\* Ten minutes pass over a claim: nobody works on it, or somebody is slow.
GoesStale(j) ==
  /\ j \in InStatus("PROCESSING") \ stale
  /\ stale' = stale \cup {j}
  /\ slow' = slow + IF Holders(j) = {} THEN 0 ELSE 1
  /\ deaths + slow' <= MaxMishaps
  /\ UNCHANGED <<job, profiles, step, request, holds, copy, found, todo, deaths>>

\* A process dies, its transaction rolled back.
Die(p) ==
  /\ step[p] # "idle"
  /\ deaths + slow < MaxMishaps
  /\ deaths' = deaths + 1
  /\ GoTo(p, "idle")
  /\ holds' = [holds EXCEPT ![p] = NoJob]
  /\ copy' = [copy EXCEPT ![p] = NoJob]
  /\ request' = IF p \in Callers THEN [request EXCEPT ![p] = NoRequest] ELSE request
  /\ found' = IF p = Scheduler THEN NoneFound ELSE found
  /\ todo' = IF p = Scheduler THEN {} ELSE todo
  /\ UNCHANGED <<job, profiles, stale, slow>>

Enqueue(c) == FindReusable(c) \/ InsertJob(c) \/ UpgradeJob(c) \/ Kick(c)

Work(p) == \/ Load(p) \/ Extract(p) \/ Promote(p) \/ Throw(p) \/ MarkReady(p)
           \/ ReadAttempts(p) \/ MarkFailed(p)

Batch == \/ StartBatch \/ FindStuck \/ RecoverStaleProcessing
         \/ ListPending \/ NextJob \/ EndBatch

Next ==
  \/ \E c \in Callers : Enqueue(c) \/ \E r \in Requests : StartEnqueue(c, r)
  \/ Batch
  \/ \E p \in Procs : Work(p) \/ Die(p)
  \/ \E j \in Jobs : GoesStale(j)

Spec == Init /\ [][Next]_vars

\* Node runs the handlers it has, the scheduler starts batches, and time goes
\* over the claims of the dead.
FairSpec ==
  /\ Spec
  /\ \A c \in Callers : WF_vars(Enqueue(c))
  /\ \A p \in Procs : WF_vars(Work(p))
  /\ WF_vars(Batch)
  /\ \A j \in Jobs : WF_vars(Holders(j) = {} /\ GoesStale(j))

----------------------------------------------------------------------------
(* Properties.                                                             *)

\* What recovery by id rests on: no job went stale under a process that lives.
Undisturbed == slow = 0

\* enqueue never leaves a source with two jobs to do, requests in a race,
\* retries and recoveries included, as its comment promises
\* (cv-processing-job.service.ts:44-56), but for one more for each claim that
\* went stale under a process that lives: it and the recovery write the job's
\* status by id, and may open again what the other has settled.
OneOpenJobPerSource ==
  \A s \in Sources : Cardinality({j \in Open : job[j].source = s}) <= 1 + slow

\* A kick, the batch and the kicks of the requests that reused the job never
\* work on it together (cv-processing.worker.ts:126-133), while the queue is
\* Undisturbed.
OneWorkerPerJob ==
  Undisturbed => \A j \in Jobs : \A p, q \in Holders(j) : p = q

\* A job that is READY or FAILED is never taken up again, by a late kick, an
\* old list or a recovery, while the queue is Undisturbed.
SettledStaysSettled ==
  [][\A j \in InStatus("READY") \cup InStatus("FAILED") :
       Undisturbed' => job'[j].status = job[j].status]_vars

\* A job is tried MAX_CV_PROCESSING_ATTEMPTS times, deaths and retries
\* included, and once more for each stale claim whose process was alive.
AttemptsBounded ==
  \A j \in Created : job[j].attempts <= MaxAttempts + slow

\* A job that waits or is worked on ends READY or FAILED, whoever dies
\* (cv-processing-job.service.ts:153-158).
EveryJobSettles ==
  \A j \in Jobs : j \in Open ~> j \in InStatus("READY") \cup InStatus("FAILED")

=============================================================================
