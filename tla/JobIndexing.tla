----------------------------- MODULE JobIndexing -----------------------------
(***************************************************************************)
(* Jobs entering and leaving the radar (job-lifecycle.service.ts, the      *)
(* enrichment and the backfill), the queue of Indexing API notifications   *)
(* they ask for (google-indexing-queue.service.ts) and the worker that     *)
(* sends it within the daily quota (google-indexing-queue.worker.ts).      *)
(*                                                                         *)
(* `queue' holds the pending rows in the order of createdAt; a row that is *)
(* done, skipped, expired or failed is gone, and an update by its id finds *)
(* nothing to send.  A caller reads a job, writes its status by id, looks  *)
(* at the queue and writes by the id it read there: four statements, and   *)
(* it may die between any two.  The worker takes one batch at a time       *)
(* (LockOverlap) and one statement at a time.                              *)
(***************************************************************************)
EXTENDS Integers, FiniteSets, Sequences, SequencesExt

CONSTANTS
  Slugs,        \* jobs with a page
  Callers,      \* requests and workers that enqueue at once
  Notified,     \* jobs Google knows at the start
  DailyLimit,   \* getIndexingDailyLimit
  Floor,        \* INDEXING_DELETED_DAILY_FLOOR
  PerRun,       \* INDEXING_SENDS_PER_RUN
  MaxAttempts,  \* INDEXING_MAX_ATTEMPTS
  TTL,          \* INDEXING_DELETED_TTL_DAYS
  MaxAsks,      \* bound on the changes of jobs, on what asks for a
                \* notification and on callers that die, together
  MaxDays,      \* bound on midnights
  MaxMishaps,   \* bound on failed sends, lost logs, deaths and midnights
                \* in the middle of a batch, together
  NoRow, NoAsk

UPDATED == "URL_UPDATED"
DELETED == "URL_DELETED"
Types == {UPDATED, DELETED}

\* INDEXING_PRIORITY
DeletedFirst == 0
NewJob == 10
Backfilled == 20
Priorities == {DeletedFirst, NewJob, Backfilled}

\* Enough ids for what is pending and for what somebody still remembers.
Ids == 1..(2 * Cardinality(Slugs) + Cardinality(Callers))

Rows == [slug : Slugs, id : Ids, type : Types, priority : Priorities,
         attempts : 0..(MaxAttempts - 1), due : BOOLEAN, age : 0..TTL]
Asked == [slug : Slugs, type : Types, priority : Priorities]

ASSUME IndexingAssumption ==
  /\ IsFiniteSet(Slugs) /\ IsFiniteSet(Callers) /\ Notified \subseteq Slugs
  /\ {DailyLimit, PerRun, MaxAttempts, TTL} \subseteq Nat \ {0}
  /\ {Floor, MaxAsks, MaxDays, MaxMishaps} \subseteq Nat
  /\ NoRow \notin Rows /\ NoAsk \notin Asked

VARIABLES
  active,    \* jobs whose status is active
  shown,     \* jobs that are public, if active, and have a JobPosting
  queue,
  step,      \* the next statement of each caller
  ask,       \* what each caller enqueues
  copy,      \* the row a caller found
  retried,   \* callers whose create met P2002
  phase,     \* the next statement of the worker
  items,     \* rows the worker picked, the first one in hand
  known,     \* slugs with a SUCCESS URL_UPDATED in googleIndexingLog
  latest,    \* type of the last SUCCESS of each slug, in the log
  sent,      \* SUCCESS rows of the day, by type
  asks, days, mishaps,
  told,      \* history: the last notification Google accepted for each slug
  lost,      \* history: slugs with a removal that was lost on the way
  expired    \* history: a removal expired in the queue

jobs == <<active, shown>>
caller == <<step, ask, copy, retried>>
worker == <<phase, items>>
logged == <<known, latest, sent>>
bounds == <<asks, days, mishaps>>
history == <<told, lost, expired>>
vars == <<jobs, queue, caller, worker, logged, bounds, history>>

----------------------------------------------------------------------------
\* The i-th number of K; the rows of q that are in S, in their order.
Nth(K, i) == CHOOSE n \in K : Cardinality({k \in K : k <= n}) = i
Kept(q, S) ==
  LET K == {n \in DOMAIN q : q[n] \in S} IN [i \in 1..Cardinality(K) |-> q[Nth(K, i)]]

RowsOf(s) == {r \in Range(queue) : r.slug = s}
WithId(i) == {r \in Range(queue) : r.id = i}
Remembered == {copy[c].id : c \in {c \in Callers : copy[c] # NoRow}}
                \cup {r.id : r \in Range(items)}
NewId == CHOOSE i \in Ids : WithId(i) = {} /\ i \notin Remembered

\* Whether it has written the job, or found nothing to announce about it.
Reading == {"change", "quietly"}
Enqueueing == {"look", "write"}
Steps == {"idle"} \cup Reading \cup Enqueueing

TypeOK ==
  /\ active \subseteq Slugs /\ shown \subseteq Slugs
  /\ Range(queue) \subseteq Rows
  /\ \A m, n \in DOMAIN queue :
       queue[m].slug = queue[n].slug \/ queue[m].id = queue[n].id => m = n
  /\ step \in [Callers -> Steps]
  /\ ask \in [Callers -> Asked \cup {NoAsk}]
  /\ copy \in [Callers -> Rows \cup {NoRow}]
  /\ retried \subseteq Callers
  /\ phase \in {"idle", "match", "skip", "send", "log", "done", "retry"}
  /\ Range(items) \subseteq Rows /\ Len(items) <= PerRun
  /\ phase # "idle" => items # <<>>
  /\ known \subseteq Slugs /\ latest \in [Slugs -> Types \cup {"none"}]
  /\ sent \in [Types -> Nat]
  /\ asks \in 0..MaxAsks /\ days \in 0..MaxDays /\ mishaps \in 0..MaxMishaps
  /\ told \in [Slugs -> Types \cup {"none"}] /\ lost \subseteq Slugs
  /\ expired \in BOOLEAN

\* The jobs are on the radar, and some of the day's quota went to others.
Init ==
  /\ known = Notified
  /\ latest = [s \in Slugs |-> IF s \in Notified THEN UPDATED ELSE "none"]
  /\ told = latest
  /\ active = Slugs /\ shown = Slugs
  /\ queue = <<>>
  /\ step = [c \in Callers |-> "idle"]
  /\ ask = [c \in Callers |-> NoAsk]
  /\ copy = [c \in Callers |-> NoRow]
  /\ retried = {}
  /\ phase = "idle" /\ items = <<>>
  /\ \E n \in 0..DailyLimit : sent = [t \in Types |-> IF t = UPDATED THEN n ELSE 0]
  /\ asks = 0 /\ days = 0 /\ mishaps = 0
  /\ lost = {} /\ expired = FALSE

----------------------------------------------------------------------------
(* What asks for a notification.                                           *)

Slug(c) == ask[c].slug
InHand(s) == items # <<>> /\ Head(items).slug = s
InFlight(s) == InHand(s) /\ phase \in {"send", "log"} /\ Head(items).type = UPDATED

\* Google was told of the job, or is hearing of it right now.
Heard(s) == told[s] = UPDATED \/ InFlight(s)

Asks(c, s, type, priority, next) ==
  /\ step[c] = "idle" /\ asks < MaxAsks
  /\ asks' = asks + 1
  /\ step' = [step EXCEPT ![c] = next]
  /\ ask' = [ask EXCEPT ![c] = [slug |-> s, type |-> type, priority |-> priority]]
  /\ UNCHANGED <<queue, copy, retried, worker, logged, days, mishaps, history>>

\* closeJobs, and the updates that call onStatusChanged: a job read as closed
\* may still be written, from one closed status to another.
ReadToClose(c, s) ==
  /\ Asks(c, s, DELETED, DeletedFirst, IF s \in active THEN "change" ELSE "quietly")
  /\ UNCHANGED jobs

\* activateJobs, and the same updates, which may write active over active.
ReadToActivate(c, s) ==
  /\ Asks(c, s, UPDATED, NewJob, IF s \in active THEN "quietly" ELSE "change")
  /\ UNCHANGED jobs

Finished(c) ==
  /\ step' = [step EXCEPT ![c] = "idle"]
  /\ ask' = [ask EXCEPT ![c] = NoAsk]
  /\ copy' = [copy EXCEPT ![c] = NoRow]
  /\ retried' = retried \ {c}

\* What is enqueued depends on the status that was read.
Written(c) ==
  /\ IF step[c] = "quietly"
       THEN Finished(c)
       ELSE step' = [step EXCEPT ![c] = "look"] /\ UNCHANGED <<ask, copy, retried>>
  /\ UNCHANGED <<shown, queue, worker, logged, bounds, told, expired>>

\* By id: the job may have become active since it was read as closed.
Close(c) ==
  /\ step[c] \in Reading /\ ask[c].type = DELETED
  /\ active' = active \ {Slug(c)}
  /\ lost' = IF step[c] = "quietly" /\ Slug(c) \in active /\ Heard(Slug(c))
               THEN lost \cup {Slug(c)} ELSE lost
  /\ Written(c)

Activate(c) ==
  /\ step[c] \in Reading /\ ask[c].type = UPDATED
  /\ active' = active \cup {Slug(c)}
  /\ Written(c)
  /\ UNCHANGED lost

\* The enrichment ends, perhaps of a job it read as active long before.
Enriched(c, s) ==
  /\ Asks(c, s, UPDATED, NewJob, "look")
  /\ shown' = shown \cup {s}
  /\ UNCHANGED active

\* runBackfillBatch: public, not notified since its last removal, no row.
Backfill(c, s) ==
  /\ s \in active \cap shown /\ latest[s] # UPDATED /\ RowsOf(s) = {}
  /\ Asks(c, s, UPDATED, Backfilled, "look")
  /\ UNCHANGED jobs

\* Something else changes the job: it loses its JobPosting or its integrity.
Hide(s) ==
  /\ s \in shown /\ asks < MaxAsks
  /\ asks' = asks + 1
  /\ shown' = shown \ {s}
  /\ UNCHANGED <<active, queue, caller, worker, logged, days, mishaps, history>>

----------------------------------------------------------------------------
(* enqueue and enqueueOne.                                                 *)

\* A job that is not shown may still have a JobPosting.
MayEnqueue(c) == ask[c].type = DELETED => Slug(c) \in known
MayDrop(c) == IF ask[c].type = DELETED THEN Slug(c) \notin known ELSE Slug(c) \notin shown

Look(c) ==
  /\ step[c] = "look" /\ MayEnqueue(c)
  /\ \E row \in IF RowsOf(Slug(c)) = {} THEN {NoRow} ELSE RowsOf(Slug(c)) :
       copy' = [copy EXCEPT ![c] = row]
  /\ step' = [step EXCEPT ![c] = "write"]
  /\ UNCHANGED <<jobs, queue, ask, retried, worker, logged, bounds, history>>

\* Google may be hearing of the job right now, or the log failed: then it
\* will not hear that it closed.
Drop(c) ==
  /\ step[c] = "look" /\ MayDrop(c)
  /\ lost' = IF ask[c].type = DELETED /\ Heard(Slug(c))
               THEN lost \cup {Slug(c)} ELSE lost
  /\ Finished(c)
  /\ UNCHANGED <<jobs, queue, worker, logged, bounds, told, expired>>

NewRow(c, i) ==
  [slug |-> Slug(c), id |-> i, type |-> ask[c].type, priority |-> ask[c].priority,
   attempts |-> 0, due |-> TRUE, age |-> 0]

Create(c) ==
  /\ step[c] = "write" /\ copy[c] = NoRow /\ RowsOf(Slug(c)) = {}
  /\ queue' = Append(queue, NewRow(c, NewId))
  /\ Finished(c)
  /\ UNCHANGED <<jobs, worker, logged, bounds, history>>

\* P2002: another row of this slug was created in between.
CreateConflicts(c) ==
  /\ step[c] = "write" /\ copy[c] = NoRow /\ RowsOf(Slug(c)) # {}
  /\ c \notin retried
  /\ retried' = retried \cup {c}
  /\ step' = [step EXCEPT ![c] = "look"]
  /\ UNCHANGED <<jobs, queue, ask, copy, worker, logged, bounds, history>>

\* Twice in a row: enqueue throws, and its callers only log that.
CreateThrows(c) ==
  /\ step[c] = "write" /\ copy[c] = NoRow /\ RowsOf(Slug(c)) # {}
  /\ c \in retried
  /\ lost' = IF ask[c].type = DELETED THEN lost \cup {Slug(c)} ELSE lost
  /\ Finished(c)
  /\ UNCHANGED <<jobs, queue, worker, logged, bounds, told, expired>>

\* The row of another type becomes this one, as if it were created now.  By
\* id: a row that was finished in between stays finished.
Turns(c) == copy[c].type # ask[c].type

Replace(c) ==
  /\ step[c] = "write" /\ copy[c] # NoRow /\ Turns(c)
  /\ LET others == Kept(queue, Range(queue) \ WithId(copy[c].id))
     IN queue' = IF WithId(copy[c].id) = {} THEN queue
                   ELSE Append(others, NewRow(c, copy[c].id))
  /\ lost' = IF \/ ask[c].type = DELETED /\ WithId(copy[c].id) = {}
                \/ ask[c].type = UPDATED /\ Slug(c) \notin active /\ WithId(copy[c].id) # {}
               THEN lost \cup {Slug(c)} ELSE lost
  /\ Finished(c)
  /\ UNCHANGED <<jobs, worker, logged, bounds, told, expired>>

\* Same type: the priority can only go up.
Raise(c) ==
  /\ step[c] = "write" /\ copy[c] # NoRow /\ ~Turns(c)
  /\ queue' = [n \in DOMAIN queue |->
       IF queue[n].id = copy[c].id /\ ask[c].priority < copy[c].priority
         THEN [queue[n] EXCEPT !.priority = ask[c].priority] ELSE queue[n]]
  /\ Finished(c)
  /\ UNCHANGED <<jobs, worker, logged, bounds, history>>

\* The process dies, or a statement throws: a job that was closed stays so,
\* and nobody asks for its removal any more.
CallerDies(c) ==
  /\ step[c] # "idle" /\ asks < MaxAsks
  /\ asks' = asks + 1
  /\ lost' = IF step[c] \in Enqueueing /\ ask[c].type = DELETED
               THEN lost \cup {Slug(c)} ELSE lost
  /\ Finished(c)
  /\ UNCHANGED <<jobs, queue, worker, logged, days, mishaps, told, expired>>

----------------------------------------------------------------------------
(* The worker: runOnce.                                                    *)

Lesser(m, n) == IF m < n THEN m ELSE n
NotNegative(n) == IF n < 0 THEN 0 ELSE n
First(n, seq) == SubSeq(seq, 1, Lesser(NotNegative(n), Len(seq)))

\* Mutant: only the notifications of one type count against the quota.
CountsUpdatesOnly == DailyLimit - sent[UPDATED]

RemainingToday == DailyLimit - sent[UPDATED] - sent[DELETED]

\* Mutant: nothing is kept for the removals.
NoReserve(q) == 0

\* The end of the day that is kept for the removals while one waits.
Reserve(q) == IF \E r \in Range(q) : r.type = DELETED /\ r.due
                THEN NotNegative(Floor - sent[DELETED]) ELSE 0

\* pickBatch: new jobs, then removals, then the backfill.
PickBatch(q) ==
  LET size == Lesser(PerRun, RemainingToday)
      due(t, P) == Kept(q, {r \in Range(q) : r.due /\ r.type = t /\ r.priority \in P})
      budget == NotNegative(RemainingToday - Reserve(q))
      new == First(Lesser(size, budget), due(UPDATED, {DeletedFirst}) \o due(UPDATED, {NewJob}))
      removals == First(size - Len(new),
                    due(DELETED, {DeletedFirst}) \o due(DELETED, {NewJob}) \o due(DELETED, {Backfilled}))
      backfill == First(Lesser(size - Len(new) - Len(removals), budget - Len(new)),
                    due(UPDATED, {Backfilled}))
  IN new \o removals \o backfill

TooOld(r) == r.type = DELETED /\ r.age >= TTL
Fresh == Kept(queue, {r \in Range(queue) : ~TooOld(r)})

\* expireStaleDeleted, the quota and the pick.
Pick ==
  /\ phase = "idle"
  /\ queue' = Fresh
  /\ expired' = (expired \/ Fresh # queue)
  /\ lost' = lost \cup {r.slug : r \in {r \in Range(queue) : TooOld(r)}}
  /\ items' = PickBatch(Fresh)
  /\ phase' = IF items' = <<>> THEN "idle" ELSE "match"
  /\ UNCHANGED <<jobs, caller, logged, bounds, told>>

Item == Head(items)
Public(s) == s \in active \cap shown

\* matchesCurrentStatus
Matches(item) ==
  IF item.type = UPDATED THEN Public(item.slug)
                         ELSE item.slug \notin active /\ item.slug \in known

Match ==
  /\ phase = "match"
  /\ phase' = IF Matches(Item) THEN "send" ELSE "skip"
  /\ UNCHANGED <<jobs, queue, caller, items, logged, bounds, history>>

GoesOn == items' = Tail(items) /\ phase' = IF Len(items) = 1 THEN "idle" ELSE "match"

\* Mutant: the type of the row is not asked for.
SameRow(r) == r.id = Item.id

\* The row is still pending and was not turned into one of the other type.
Unchanged(r) == r.id = Item.id /\ r.type = Item.type

\* finish
Removed == Kept(queue, {r \in Range(queue) : ~Unchanged(r)})

Finish ==
  /\ queue' = Removed
  /\ GoesOn

\* The job may be what the row asks for again by now.
Skip ==
  /\ phase = "skip"
  /\ Finish
  /\ lost' = IF Item.type = DELETED /\ Matches(Item) THEN lost \cup {Item.slug} ELSE lost
  /\ UNCHANGED <<jobs, caller, logged, bounds, told, expired>>

Send ==
  /\ phase = "send"
  /\ phase' = "log"
  /\ told' = [told EXCEPT ![Item.slug] = Item.type]
  /\ UNCHANGED <<jobs, queue, caller, items, logged, bounds, lost, expired>>

Mishap == mishaps < MaxMishaps /\ mishaps' = mishaps + 1

\* Google refuses this notification.
SendFails ==
  /\ phase = "send" /\ Mishap
  /\ phase' = "retry"
  /\ UNCHANGED <<jobs, queue, caller, items, logged, asks, days, history>>

\* Google says that its quota is used up: the batch ends.
QuotaExceeded ==
  /\ phase = "send" /\ Mishap
  /\ phase' = "idle" /\ items' = <<>>
  /\ UNCHANGED <<jobs, queue, caller, logged, asks, days, history>>

Log ==
  /\ phase = "log"
  /\ phase' = "done"
  /\ sent' = [sent EXCEPT ![Item.type] = @ + 1]
  /\ latest' = [latest EXCEPT ![Item.slug] = Item.type]
  /\ known' = IF Item.type = UPDATED THEN known \cup {Item.slug} ELSE known
  /\ UNCHANGED <<jobs, queue, caller, items, bounds, history>>

\* The log of what Google accepted fails, and the send counts as failed.
LogFails ==
  /\ phase = "log" /\ Mishap
  /\ phase' = "retry"
  /\ UNCHANGED <<jobs, queue, caller, items, logged, asks, days, history>>

Done ==
  /\ phase = "done"
  /\ Finish
  /\ UNCHANGED <<jobs, caller, logged, bounds, history>>

\* Mutant: one attempt too many.
OneMoreAttempt(n) == n > MaxAttempts

GivesUp(n) == n >= MaxAttempts

\* Attempts are counted from the row the worker picked.
Retry ==
  /\ phase = "retry"
  /\ LET failed == GivesUp(Item.attempts + 1)
     IN /\ queue' = IF failed
              THEN Removed
              ELSE [n \in DOMAIN queue |-> IF Unchanged(queue[n])
                     THEN [queue[n] EXCEPT !.attempts = Item.attempts + 1, !.due = FALSE]
                     ELSE queue[n]]
        /\ lost' = IF failed /\ Item.type = DELETED THEN lost \cup {Item.slug} ELSE lost
  /\ GoesOn
  /\ UNCHANGED <<jobs, caller, logged, bounds, told, expired>>

Die ==
  /\ phase # "idle" /\ Mishap
  /\ phase' = "idle" /\ items' = <<>>
  /\ UNCHANGED <<jobs, queue, caller, logged, asks, days, history>>

----------------------------------------------------------------------------
(* Time.                                                                   *)

\* nextAttemptAt passes.
BecomesDue(n) ==
  /\ ~queue[n].due
  /\ queue' = [queue EXCEPT ![n].due = TRUE]
  /\ UNCHANGED <<jobs, caller, worker, logged, bounds, history>>

\* Midnight in California.  The worker runs every minute, so it has sent
\* what it could, unless a batch is under way.
Midnight ==
  /\ days < MaxDays
  /\ days' = days + 1
  /\ \/ phase = "idle" /\ PickBatch(Fresh) = <<>> /\ UNCHANGED mishaps
     \/ phase # "idle" /\ Mishap
  /\ sent' = [t \in Types |-> 0]
  /\ queue' = [n \in DOMAIN queue |-> [queue[n] EXCEPT !.age = Lesser(@ + 1, TTL)]]
  /\ UNCHANGED <<jobs, caller, worker, known, latest, asks, history>>

----------------------------------------------------------------------------
Caller(c) ==
  \/ \E s \in Slugs : ReadToClose(c, s) \/ ReadToActivate(c, s) \/ Enriched(c, s) \/ Backfill(c, s)
  \/ Close(c) \/ Activate(c)
  \/ Look(c) \/ Drop(c) \/ Create(c) \/ CreateConflicts(c) \/ CreateThrows(c)
  \/ Replace(c) \/ Raise(c) \/ CallerDies(c)

Worker ==
  \/ Pick \/ Match \/ Skip \/ Send \/ SendFails \/ QuotaExceeded
  \/ Log \/ LogFails \/ Done \/ Retry \/ Die

Next ==
  \/ \E c \in Callers : Caller(c)
  \/ \E s \in Slugs : Hide(s)
  \/ Worker
  \/ \E n \in DOMAIN queue : BecomesDue(n)
  \/ Midnight

Spec == Init /\ [][Next]_vars

----------------------------------------------------------------------------
(* Properties.                                                             *)

(* The day's quota is never exceeded by what the log counts, though a      *)
(* batch may go on after midnight with what it picked before.              *)
QuotaKept == sent[UPDATED] + sent[DELETED] <= DailyLimit

(* A removal does not expire behind new jobs that keep coming: the floor   *)
(* brings it out in time, unless sends fail.                               *)
RemovalsGoOut == expired => mishaps > 0

\* Nobody has anything left to do for this job.
Settled(s) ==
  /\ RowsOf(s) = {}
  /\ \A c \in Callers : ask[c] # NoAsk => Slug(c) # s
  /\ \A r \in Range(items) : r.slug # s

(* When all is done, Google was told of the removal of a job that closed,  *)
(* except in the cases that set `lost': a status written over an           *)
(* activation that was not read, a caller that died before it enqueued,    *)
(* the removal asked while the first notification was on its way or        *)
(* unlogged, or written to a row finished meanwhile, or skipped, replaced, *)
(* expired or given up.                                                    *)
ClosedIsForgotten ==
  \A s \in Slugs \ (active \cup lost) : Settled(s) => told[s] # UPDATED
==============================================================================
