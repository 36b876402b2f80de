--------------------------- MODULE MonitorDigests ---------------------------
(***************************************************************************)
(* The job alerts of one user: the scheduler and the administration that   *)
(* create digests (monitor-digest.scheduler.ts, admin-monitor.service.ts), *)
(* the worker that sends them (monitor-digest.worker.ts), the provider's   *)
(* events (monitor-digest-webhook.service.ts) and the reconciler of the    *)
(* digests nobody heard of (monitor-digest-outcome-reconciler.service.ts). *)
(*                                                                         *)
(* None of them repeats a condition in a write: each reads digests, keeps  *)
(* what it read and writes by id.  Scheduler, worker and reconciler hold   *)
(* three different locks, so each runs once (LockOverlap) but all at the   *)
(* same time; the requests hold none.  A digest is `old' when what matters *)
(* of its age, updatedAt of a PROCESSING row and outcomeUnknownAt of an    *)
(* OUTCOME_UNKNOWN one, is past its limit of ten minutes.                  *)
(***************************************************************************)
EXTENDS Naturals, Sequences, FiniteSets

CONSTANTS
  Jobs,         \* the user's recommendations, the best one first
  Admins,       \* requests of the administration handled at once
  Hooks,        \* provider events handled at once
  PerDigest,    \* MAX_RECOMMENDATIONS_PER_DIGEST
  MaxAttempts,  \* MAX_DIGEST_SEND_ATTEMPTS
  BatchSize,    \* BATCH_SIZE
  MaxDigests,   \* bound on the digests created
  MaxPeriods,   \* bound on the days, or weeks, of the schedule
  MaxUnusual,   \* bound on the user's changes of mind, the resends, the
                \* events, the deaths and the failed statements, together
  Nobody

Statuses == {"PENDING", "PROCESSING", "SENT", "FAILED", "OUTCOME_UNKNOWN", "SKIPPED"}
Sources == {"SCHEDULER", "ADMIN_MANUAL"}
Digests == [status : Statuses, attempts : 0..(MaxAttempts + 1), source : Sources,
            period : 1..MaxPeriods, jobs : SUBSET Jobs, old : BOOLEAN]
Ids == 1..MaxDigests
Copies == [id : Ids, attempts : 0..(MaxAttempts + 1)]
Results == {"skipped", "failed", "unknown", "sent"}
Events == {"good", "bounce", "reject"}

ASSUME DigestAssumption ==
  /\ Jobs \subseteq Nat /\ IsFiniteSet(Jobs) /\ IsFiniteSet(Admins)
  /\ {PerDigest, MaxAttempts, BatchSize} \subseteq Nat \ {0}
  /\ {MaxDigests, MaxPeriods} \subseteq Nat \ {0} /\ MaxUnusual \in Nat
  /\ Nobody \notin Copies

VARIABLES
  digests,     \* the rows, in the order of createdAt
  enabled,     \* MonitorAlertPreference.emailEnabled
  period,
  scheduler,   \* the next statement of the scheduler, and what it chose
  admin,       \* the same for each request, its digest and its result
  phase,       \* the next statement of the worker
  todo,        \* what the worker listed: ids and attempts
  current,     \* the one in hand
  result,      \* what sendDigest returned
  unknowns,    \* what the reconciler listed
  hook,        \* the event each webhook call handles
  unusual,
  resends,     \* history: resends of the administration
  accepted,    \* history: e-mails of each digest that the provider took
  left,        \* history: digests taken since somebody last queued them
  late,        \* history: e-mails taken since the user opted out
  overlapped   \* history: digests created while somebody else had chosen
               \* recommendations and not created a digest of them yet

worker == <<phase, todo, current, result>>
history == <<resends, accepted, left, late, overlapped>>
vars == <<digests, enabled, period, scheduler, admin, worker, unknowns, hook, unusual, history>>

----------------------------------------------------------------------------
In(s) == {d \in DOMAIN digests : digests[d].status = s}
Copy(d) == [id |-> d, attempts |-> digests[d].attempts]
NoEvent == [step |-> "idle", id |-> 1, event |-> "good", was |-> "PENDING"]
NoAdmin == [step |-> "idle", jobs |-> {}, id |-> 1, result |-> "none"]

TypeOK ==
  /\ Len(digests) <= MaxDigests /\ \A d \in DOMAIN digests : digests[d] \in Digests
  /\ \A d \in DOMAIN digests :
       digests[d].old => digests[d].status \in {"PROCESSING", "OUTCOME_UNKNOWN"}
  /\ enabled \in BOOLEAN /\ period \in 1..MaxPeriods
  /\ scheduler \in [step : {"idle", "choose", "create"}, jobs : SUBSET Jobs]
  /\ admin \in [Admins ->
       [step : {"idle", "create", "check", "send", "record", "resend"},
        jobs : SUBSET Jobs, id : Ids, result : Results \cup {"none"}]]
  /\ phase \in {"idle", "recover", "next", "check", "send", "record"}
  /\ todo \subseteq Copies /\ unknowns \subseteq Copies
  /\ current \in Copies \cup {Nobody} /\ result \in Results \cup {"none"}
  /\ hook \in [Hooks ->
       [step : {"idle", "resolve", "suppress"}, id : Ids, event : Events, was : Statuses]]
  /\ unusual \in 0..MaxUnusual /\ resends \in Nat
  /\ accepted \in [Ids -> Nat] /\ left \subseteq Ids /\ late \in Nat
  /\ overlapped \subseteq Ids

Init ==
  /\ digests = <<>> /\ enabled \in BOOLEAN /\ period = 1
  /\ scheduler = [step |-> "idle", jobs |-> {}]
  /\ admin = [a \in Admins |-> NoAdmin]
  /\ phase = "idle" /\ todo = {} /\ current = Nobody /\ result = "none"
  /\ unknowns = {}
  /\ hook = [h \in Hooks |-> NoEvent]
  /\ unusual = 0
  /\ resends = 0 /\ accepted = [d \in Ids |-> 0] /\ left = {} /\ late = 0
  /\ overlapped = {}

Unusual == unusual < MaxUnusual /\ unusual' = unusual + 1

\* Mutant: outcomeUnknownAt outlives the status.
KeepsAge(d, s, n) ==
  digests' = [digests EXCEPT ![d].status = s, ![d].attempts = n]

\* update by id, whatever the row is by now.
Writes(d, s, n) ==
  digests' = [digests EXCEPT ![d].status = s, ![d].attempts = n, ![d].old = FALSE]
Turns(d, s) == Writes(d, s, digests[d].attempts)

QueuesAgain(d) == left' = left \ {d}

----------------------------------------------------------------------------
(* Creating digests.                                                       *)

Creating == {a \in Admins : admin[a].step = "create"}
Room == Len(digests) + Cardinality(Creating)
          + (IF scheduler.step = "idle" THEN 0 ELSE 1) < MaxDigests

\* Mutant: a job counts as shown only once it was sent.
NotSentYet == {j \in Jobs : \A d \in In("SENT") : j \notin digests[d].jobs}

\* No digest includes them, whatever became of it.
NotIncluded == {j \in Jobs : \A d \in DOMAIN digests : j \notin digests[d].jobs}

\* getEligibleRecommendations
Chosen == {j \in NotIncluded : Cardinality({k \in NotIncluded : k < j}) < PerDigest}

NewDigest(s, source, jobs) ==
  Append(digests, [status |-> s, attempts |-> 0, source |-> source, period |-> period,
                   jobs |-> jobs, old |-> FALSE])

\* Whoever chose before this digest is there does not know of it.
Overlapping(others) ==
  overlapped' = IF others THEN overlapped \cup {Len(digests) + 1} ELSE overlapped

\* discoverForUser: no digest of this period, of any source.
Discover ==
  /\ scheduler.step = "idle" /\ Room
  /\ enabled /\ \A d \in DOMAIN digests : digests[d].period # period
  /\ scheduler' = [scheduler EXCEPT !.step = "choose"]
  /\ UNCHANGED <<digests, enabled, period, admin, worker, unknowns, hook, unusual, history>>

SchedulerChooses ==
  /\ scheduler.step = "choose"
  /\ scheduler' = [step |-> "create", jobs |-> Chosen]
  /\ UNCHANGED <<digests, enabled, period, admin, worker, unknowns, hook, unusual, history>>

SchedulerCreates ==
  /\ scheduler.step = "create"
  /\ digests' = IF scheduler.jobs = {} THEN NewDigest("SKIPPED", "SCHEDULER", {})
                  ELSE NewDigest("PENDING", "SCHEDULER", scheduler.jobs)
  /\ Overlapping(Creating # {})
  /\ scheduler' = [step |-> "idle", jobs |-> {}]
  /\ UNCHANGED <<enabled, period, admin, worker, unknowns, hook, unusual,
                 resends, accepted, left, late>>

\* The user is outside the cohort of the rollout, or sending is paused.
SchedulerSkips ==
  /\ scheduler.step = "choose"
  /\ digests' = NewDigest("SKIPPED", "SCHEDULER", {})
  /\ scheduler' = [step |-> "idle", jobs |-> {}]
  /\ UNCHANGED <<enabled, period, admin, worker, unknowns, hook, unusual, history>>

\* A run of the scheduler does not last until the next one; one that dies
\* leaves nothing behind, and a period without a digest might not have been.
NextPeriod ==
  /\ scheduler.step = "idle" /\ period < MaxPeriods
  /\ \E d \in DOMAIN digests : digests[d].period = period
  /\ period' = period + 1
  /\ UNCHANGED <<digests, enabled, scheduler, admin, worker, unknowns, hook, unusual, history>>

----------------------------------------------------------------------------
(* sendDigest, as the worker and sendDigestNow call it.                    *)

\* Mutant: the preference was read when the digest was created.
TrustsDiscovery == TRUE

StillWanted == enabled

\* What the provider answers and whether it took the e-mail of digest d.
Hands(d, answer) ==
  \E taken \in BOOLEAN :
    /\ answer = "sent" => taken
    /\ answer = "failed" => ~taken
    /\ accepted' = IF taken THEN [accepted EXCEPT ![d] = @ + 1] ELSE accepted
    /\ late' = IF taken /\ ~enabled THEN late + 1 ELSE late
    /\ left' = IF taken THEN left \cup {d} ELSE left
    /\ UNCHANGED <<resends, overlapped>>

\* Mutant: a timeout is an error like any other.
UnknownIsFailed(answer) == IF answer = "unknown" THEN "failed" ELSE answer

Outcome(answer) == answer

----------------------------------------------------------------------------
(* sendDigestNow and resendDigest.                                         *)

NowChooses(a) ==
  /\ admin[a].step = "idle" /\ enabled /\ Room /\ Chosen # {}
  /\ admin' = [admin EXCEPT ![a].step = "create", ![a].jobs = Chosen]
  /\ UNCHANGED <<digests, enabled, period, scheduler, worker, unknowns, hook, unusual, history>>

NowCreates(a) ==
  /\ admin[a].step = "create"
  /\ digests' = NewDigest("PROCESSING", "ADMIN_MANUAL", admin[a].jobs)
  /\ admin' = [admin EXCEPT ![a].step = "check", ![a].jobs = {}, ![a].id = Len(digests) + 1]
  /\ Overlapping(Creating # {a} \/ scheduler.step = "create")
  /\ UNCHANGED <<enabled, period, scheduler, worker, unknowns, hook, unusual,
                 resends, accepted, left, late>>

NowChecks(a) ==
  /\ admin[a].step = "check" /\ StillWanted
  /\ admin' = [admin EXCEPT ![a].step = "send"]
  /\ UNCHANGED <<digests, enabled, period, scheduler, worker, unknowns, hook, unusual, history>>

\* Not wanted, not entitled, suppressed, paused; or a statement fails.
NowStops(a) ==
  /\ admin[a].step = "check"
  /\ \E r \in {"skipped", "failed"} :
       admin' = [admin EXCEPT ![a].step = "record", ![a].result = r]
  /\ UNCHANGED <<digests, enabled, period, scheduler, worker, unknowns, hook, unusual, history>>

NowSends(a) ==
  /\ admin[a].step = "send"
  /\ \E answer \in Results \ {"skipped"} :
       /\ Hands(admin[a].id, answer)
       /\ admin' = [admin EXCEPT ![a].step = "record", ![a].result = Outcome(answer)]
  /\ UNCHANGED <<digests, enabled, period, scheduler, worker, unknowns, hook, unusual>>

NowRecords(a) ==
  /\ admin[a].step = "record"
  /\ LET d == admin[a].id
     IN CASE admin[a].result = "skipped" -> Turns(d, "SKIPPED")
          [] admin[a].result = "unknown" -> Turns(d, "OUTCOME_UNKNOWN")
          [] admin[a].result = "failed"  -> Writes(d, "FAILED", 1)
          [] OTHER                       -> Turns(d, "SENT")
  /\ admin' = [admin EXCEPT ![a] = NoAdmin]
  /\ UNCHANGED <<enabled, period, scheduler, worker, unknowns, hook, unusual, history>>

ResendReads(a) ==
  /\ admin[a].step = "idle" /\ Unusual
  /\ \E d \in In("FAILED") : admin' = [admin EXCEPT ![a].step = "resend", ![a].id = d]
  /\ UNCHANGED <<digests, enabled, period, scheduler, worker, unknowns, hook, history>>

ResendWrites(a) ==
  /\ admin[a].step = "resend"
  /\ Writes(admin[a].id, "PENDING", 0)
  /\ QueuesAgain(admin[a].id)
  /\ resends' = resends + 1
  /\ admin' = [admin EXCEPT ![a] = NoAdmin]
  /\ UNCHANGED <<enabled, period, scheduler, worker, unknowns, hook, unusual, accepted, late,
                 overlapped>>

\* The process ends, or the statement that records the result fails.
AdminDies(a) ==
  /\ admin[a].step \in {"check", "send", "record"} /\ Unusual
  /\ admin' = [admin EXCEPT ![a] = NoAdmin]
  /\ UNCHANGED <<digests, enabled, period, scheduler, worker, unknowns, hook, history>>

----------------------------------------------------------------------------
(* The worker: processPendingBatch.                                        *)

Tick ==
  /\ phase = "idle"
  /\ phase' = "recover"
  /\ todo' = {Copy(d) : d \in {d \in In("PROCESSING") : digests[d].old}}
  /\ UNCHANGED <<digests, enabled, period, scheduler, admin, current, result, unknowns,
                 hook, unusual, history>>

\* Mutant: a failed attempt is not counted.
KeepsAttempts(n) == n

\* Attempts are counted from the copy.
NextAttempts(n) == n + 1

Fails(t) ==
  LET n == NextAttempts(t.attempts)
  IN Writes(t.id, IF n >= MaxAttempts THEN "FAILED" ELSE "PENDING", n)

\* recoverStaleProcessing: the e-mail may have left.
Recover(t) ==
  /\ phase = "recover" /\ t \in todo
  /\ todo' = todo \ {t}
  /\ Fails(t)
  /\ QueuesAgain(t.id)
  /\ UNCHANGED <<enabled, period, scheduler, admin, phase, current, result, unknowns,
                 hook, unusual, resends, accepted, late, overlapped>>

List ==
  /\ phase = "recover" /\ todo = {}
  /\ LET first == {d \in In("PENDING") : Cardinality({e \in In("PENDING") : e < d}) < BatchSize}
     IN /\ todo' = {Copy(d) : d \in first}
        /\ phase' = IF first = {} THEN "idle" ELSE "next"
  /\ UNCHANGED <<digests, enabled, period, scheduler, admin, current, result, unknowns,
                 hook, unusual, history>>

Take(t) ==
  /\ phase = "next" /\ t \in todo
  /\ Turns(t.id, "PROCESSING")
  /\ current' = t /\ todo' = todo \ {t} /\ phase' = "check"
  /\ UNCHANGED <<enabled, period, scheduler, admin, result, unknowns, hook, unusual, history>>

Check ==
  /\ phase = "check" /\ StillWanted
  /\ phase' = "send"
  /\ UNCHANGED <<digests, enabled, period, scheduler, admin, todo, current, result, unknowns,
                 hook, unusual, history>>

Stop ==
  /\ phase = "check"
  /\ phase' = "record" /\ result' \in {"skipped", "failed"}
  /\ UNCHANGED <<digests, enabled, period, scheduler, admin, todo, current, unknowns,
                 hook, unusual, history>>

Send ==
  /\ phase = "send"
  /\ phase' = "record"
  /\ \E answer \in Results \ {"skipped"} :
       Hands(current.id, answer) /\ result' = Outcome(answer)
  /\ UNCHANGED <<digests, enabled, period, scheduler, admin, todo, current, unknowns,
                 hook, unusual>>

GoesOn ==
  /\ current' = Nobody /\ result' = "none"
  /\ phase' = IF todo = {} THEN "idle" ELSE "next"
  /\ UNCHANGED <<enabled, period, scheduler, admin, todo, unknowns, hook>>

Record ==
  /\ phase = "record"
  /\ CASE result = "skipped" -> Turns(current.id, "SKIPPED")
       [] result = "unknown" -> Turns(current.id, "OUTCOME_UNKNOWN")
       [] result = "failed"  -> Fails(current)
       [] OTHER              -> Turns(current.id, "SENT")
  /\ GoesOn
  /\ UNCHANGED <<unusual, history>>

\* A statement after the send fails, recordDigestSent included, and the catch
\* takes it for the send: the row may go from SENT back to PENDING.
Throws ==
  /\ phase = "record" /\ Unusual
  /\ Fails(current)
  /\ QueuesAgain(current.id)
  /\ GoesOn
  /\ UNCHANGED <<resends, accepted, late, overlapped>>

WorkerDies ==
  /\ phase # "idle" /\ Unusual
  /\ phase' = "idle" /\ todo' = {} /\ current' = Nobody /\ result' = "none"
  /\ UNCHANGED <<digests, enabled, period, scheduler, admin, unknowns, hook, history>>

----------------------------------------------------------------------------
(* The reconciler.  If it dies, its list is gone and nothing else.         *)

\* A row that used up its attempts is written again and again to no effect:
\* it is left out.
ListUnknowns ==
  /\ unknowns = {}
  /\ unknowns' = {Copy(d) : d \in {d \in In("OUTCOME_UNKNOWN") :
                                    digests[d].old /\ digests[d].attempts < MaxAttempts}}
  /\ UNCHANGED <<digests, enabled, period, scheduler, admin, worker, hook, unusual, history>>

\* Mutant: one attempt too many.
OneMoreAttempt(n) == n <= MaxAttempts

MayRequeue(n) == n < MaxAttempts

Requeue(t) ==
  /\ t \in unknowns /\ MayRequeue(t.attempts + 1)
  /\ unknowns' = unknowns \ {t}
  /\ Writes(t.id, "PENDING", t.attempts + 1)
  /\ QueuesAgain(t.id)
  /\ UNCHANGED <<enabled, period, scheduler, admin, worker, hook, unusual, resends, accepted, late,
                 overlapped>>

\* Only the attempts are written.
Exhaust(t) ==
  /\ t \in unknowns /\ ~MayRequeue(t.attempts + 1)
  /\ unknowns' = unknowns \ {t}
  /\ digests' = [digests EXCEPT ![t.id].attempts = MaxAttempts]
  /\ UNCHANGED <<enabled, period, scheduler, admin, worker, hook, unusual, history>>

----------------------------------------------------------------------------
(* The provider's events: processSesEvent.                                 *)

\* An event is handled once: a redelivery is a duplicate and changes nothing.
\* If the process dies once the event is recorded, it is as if it never came,
\* and so is an event that neither resolves nor suppresses anything.
HookReads(h, d, e) ==
  /\ hook[h].step = "idle" /\ accepted[d] > 0 /\ Unusual
  /\ digests[d].status = "OUTCOME_UNKNOWN" \/ e = "bounce"
  /\ hook' = [hook EXCEPT ![h] =
       [step |-> "resolve", id |-> d, event |-> e, was |-> digests[d].status]]
  /\ UNCHANGED <<digests, enabled, period, scheduler, admin, worker, unknowns, history>>

\* The event is recorded, and a digest it found unknown is resolved.
HookResolves(h) ==
  /\ hook[h].step = "resolve"
  /\ IF hook[h].was = "OUTCOME_UNKNOWN"
       THEN Turns(hook[h].id, IF hook[h].event = "good" THEN "SENT" ELSE "FAILED")
       ELSE UNCHANGED digests
  /\ hook' = IF hook[h].event = "bounce"
               THEN [hook EXCEPT ![h].step = "suppress"]
               ELSE [hook EXCEPT ![h] = NoEvent]
  /\ UNCHANGED <<enabled, period, scheduler, admin, worker, unknowns, unusual, history>>

HookSuppresses(h) ==
  /\ hook[h].step = "suppress"
  /\ enabled' = FALSE
  /\ hook' = [hook EXCEPT ![h] = NoEvent]
  /\ UNCHANGED <<digests, period, scheduler, admin, worker, unknowns, unusual, history>>

----------------------------------------------------------------------------
(* The user and the clock.                                                 *)

OptOut ==
  /\ enabled /\ Unusual
  /\ enabled' = FALSE
  /\ UNCHANGED <<digests, period, scheduler, admin, worker, unknowns, hook, history>>

OptIn ==
  /\ ~enabled /\ Unusual
  /\ enabled' = TRUE /\ late' = 0
  /\ UNCHANGED <<digests, period, scheduler, admin, worker, unknowns, hook, resends, accepted,
                 left, overlapped>>

InHand(d) ==
  \/ current # Nobody /\ current.id = d
  \/ \E a \in Admins : admin[a].step \in {"check", "send", "record"} /\ admin[a].id = d

\* Ten minutes pass; nothing that is alive takes so long over one digest.
GetsOld(d) ==
  /\ d \in In("OUTCOME_UNKNOWN") \cup {e \in In("PROCESSING") : ~InHand(e)}
  /\ ~digests[d].old
  /\ digests' = [digests EXCEPT ![d].old = TRUE]
  /\ UNCHANGED <<enabled, period, scheduler, admin, worker, unknowns, hook, unusual, history>>

----------------------------------------------------------------------------
Scheduler == Discover \/ SchedulerChooses \/ SchedulerSkips \/ SchedulerCreates

Now(a) == NowCreates(a) \/ NowChecks(a) \/ NowStops(a) \/ NowSends(a) \/ NowRecords(a)

Worker ==
  \/ Tick \/ List \/ Check \/ Stop \/ Send \/ Record \/ Throws
  \/ \E t \in todo : Recover(t) \/ Take(t)

Reconciler == ListUnknowns \/ \E t \in unknowns : Requeue(t) \/ Exhaust(t)

Hook(h) ==
  \/ \E d \in DOMAIN digests, e \in Events : HookReads(h, d, e)
  \/ HookResolves(h) \/ HookSuppresses(h)

Next ==
  \/ Scheduler \/ NextPeriod
  \/ \E a \in Admins :
       Now(a) \/ NowChooses(a) \/ ResendReads(a) \/ ResendWrites(a) \/ AdminDies(a)
  \/ Worker \/ WorkerDies
  \/ Reconciler
  \/ \E h \in Hooks : Hook(h)
  \/ OptOut \/ OptIn
  \/ \E d \in DOMAIN digests : GetsOld(d)

Spec == Init /\ [][Next]_vars

\* The crons tick and go on, the clock advances, and a request that sends
\* goes on until its process dies.  Nobody has to ask, and no event has to
\* come.
FairSpec ==
  /\ Spec
  /\ WF_vars(Worker) /\ WF_vars(Reconciler)
  /\ \A a \in Admins : WF_vars(Now(a))
  /\ WF_vars(\E d \in DOMAIN digests : GetsOld(d))

----------------------------------------------------------------------------
(* Properties.                                                             *)

(* Timeouts, deaths, events and the reconciler share one budget of         *)
(* attempts, which only a resend renews ("nunca mais retries no total do   *)
(* que um envio que falhou de forma confirmada teria").                    *)
SendsBounded == \A d \in Ids : accepted[d] <= MaxAttempts * (1 + resends)

(* A digest goes out a second time only after it was queued again by       *)
(* someone who could not tell: the recovery, the reconciler, a statement   *)
(* that failed after the send.  A confirmed failure repeats nothing, and a *)
(* timeout is never retried at once.  (After a resend a reconciler that    *)
(* listed the digest before may give it back while the worker sends it.)   *)
EveryRepeatHasACause == [][resends = 0 => \A d \in left : accepted'[d] = accepted[d]]_vars

(* After an opt-out or a bounce only what was in flight goes out, however  *)
(* many digests wait.                                                      *)
OptOutRespected == late <= 1 + Cardinality(Admins)

(* No job is announced twice, by the schedule or by requests, whatever     *)
(* became of the first digest ("nada e reenviado"), unless the two choices *)
(* overlapped: as the first digest was created, somebody else had chosen   *)
(* and not created yet.  The schedule never overlaps with itself.          *)
Repeats(d, e) == d < e /\ digests[d].jobs \cap digests[e].jobs # {}

NothingRepeated ==
  \A d, e \in DOMAIN digests : Repeats(d, e) =>
    /\ d \in overlapped
    /\ "ADMIN_MANUAL" \in {digests[d].source, digests[e].source}

Final(d) ==
  \/ digests[d].status \in {"SENT", "FAILED", "SKIPPED"}
  \/ digests[d].status = "OUTCOME_UNKNOWN" /\ digests[d].attempts >= MaxAttempts

(* Every digest comes to rest: sent, failed, skipped, or unknown with its  *)
(* budget used up, whichever processes die and whatever events are lost.   *)
DigestsComeToRest == <>[](\A d \in DOMAIN digests : Final(d))
=============================================================================
