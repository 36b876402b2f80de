--------------------------- MODULE EmailDispatch ---------------------------
(***************************************************************************)
(* The e-mails of one user: EmailDispatch rows, the worker that sends them *)
(* (email-dispatch.worker.ts) in batches that SchedulerLock should keep    *)
(* apart, the SES webhook (email-dispatch-webhook.service.ts) and the      *)
(* services that enqueue (email-dispatch.service.ts).                      *)
(*                                                                         *)
(* A batch is a process that takes one database statement or provider call *)
(* at a time and works on what it read earlier: `todo', `seen' and         *)
(* `overdue' are its copies.  Timestamps are the comparisons the code      *)
(* makes with them: `due', `expired', `stale', `recent' are the rows for   *)
(* which they hold now.                                                    *)
(***************************************************************************)
EXTENDS Integers, FiniteSets

CONSTANTS
  Dispatches,       \* rows, known by their dedupeKey
  Kind,             \* [Dispatches -> Kinds]
  Workers,          \* batches that may overlap
  Handlers,         \* webhook requests handled at once
  MaxSendAttempts,  \* MAX_SEND_ATTEMPTS
  EnqueuedTogether, \* kinds enabled when an e-mail address is verified
  Verdicts,         \* ways out of sending that modes, eligibility, the clock
                    \* and the sending infrastructure may take
  Modes,            \* what `enabled' may be
  MaxDeaths,        \* bound on batches that die with their process
  MaxFaults,        \* bound on database statements of a batch that throw
  MaxSlow,          \* bound on rows that go stale under a live batch
  MaxDropped,       \* bound on webhook requests that die with the process
  NoRow, NoBatch, NoDispatch, NoEvent

Kinds == {"WELCOME", "FEEDBACK_FIRST_USE", "FEEDBACK_SECOND_CALL",
          "PURCHASE_CONFIRMATION", "MOCK_INTERVIEW_OFFER"}
Feedbacks == {"FEEDBACK_FIRST_USE", "FEEDBACK_SECOND_CALL"}
Spaced == {"WELCOME", "MOCK_INTERVIEW_OFFER"}  \* kinds whose sentAt is read again

ASSUME DispatchAssumption ==
  /\ Kind \in [Dispatches -> Kinds]
  /\ MaxSendAttempts \in Nat \ {0}
  /\ EnqueuedTogether \subseteq SUBSET {"WELCOME", "FEEDBACK_FIRST_USE"}
  /\ Verdicts \subseteq {"release", "skip", "defer", "recoverRetry"}
  /\ Modes \subseteq BOOLEAN
  /\ NoRow \notin Workers /\ NoBatch \notin Workers /\ NoRow # NoBatch
  /\ NoDispatch \notin Dispatches
  /\ MaxDeaths \in Nat /\ MaxFaults \in Nat /\ MaxSlow \in Nat /\ MaxDropped \in Nat

VARIABLES
  status, attempts, due, expired, recent, stale, \* the rows
  recorded,                      \* EmailDispatchEvent rows
  checked,                       \* offers whose enqueue has read and not written
  lock, live, phase, deaths,     \* SchedulerLock
  step, overdue, todo, seen, row, plan, \* the batches
  webhook, event,                \* webhook requests: next step and their event
  accepted,                      \* history: times the provider took the e-mail
  calls,                         \* history: times it was called, up to a cap
  fresh,                         \* history: taken less than the minimum gap ago
  enabled,                       \* some kind has a mode other than OFF
  faults, slow, dropped

rowVars == <<status, attempts, due, expired, recent, stale>>
lockVars == <<lock, live, phase, deaths>>
batchVars == <<step, overdue, todo, seen, row, plan>>
webhookVars == <<webhook, event, recorded>>
providerVars == <<accepted, calls, fresh>>
outside == <<enabled, faults, slow, dropped>>
vars == <<status, attempts, due, expired, recent, stale, recorded, checked,
          lock, live, phase, deaths, step, overdue, todo, seen, row, plan,
          webhook, event, accepted, calls, fresh, enabled, faults, slow, dropped>>

Lock == INSTANCE SchedulerLock WITH Owners <- Workers

----------------------------------------------------------------------------
Open == {"PENDING", "PROCESSING"}
Closed == {"SENT", "FAILED", "SKIPPED", "CANCELLED"}
Statuses == Open \cup Closed \cup {"absent", "OUTCOME_UNKNOWN"}

\* What a batch is about to write: the name of the branch taken.  The plans
\* that start with recover are those of processOne's catch.
BeforeSend == {"cancel", "release", "skip", "defer"}
AfterSend == {"sent", "unknown", "rejected"}
Recovery == {"recoverRetry", "recoverUnknown"}
Plans == BeforeSend \cup AfterSend \cup Recovery \cup {"none", "send"}
Steps == {"idle", "recover", "expire", "list", "next", "decide", "sending",
          "write", "second"}

\* SES reports both that an e-mail was delivered and that it came back.
Events == [dispatch : Dispatches, type : {"delivered", "bounced"}]

Nothing == [d \in Dispatches |-> 0]

TypeOK ==
  /\ status \in [Dispatches -> Statuses]
  /\ attempts \in [Dispatches -> 0..MaxSendAttempts]
  /\ due \subseteq Dispatches /\ expired \subseteq Dispatches
  /\ recent \subseteq Dispatches /\ stale \subseteq Dispatches
  /\ recorded \subseteq Events
  /\ checked \subseteq Dispatches
  /\ Lock!TypeOK
  /\ step \in [Workers -> Steps]
  /\ overdue \in [Workers -> SUBSET Dispatches]
  /\ todo \in [Workers -> SUBSET Dispatches]
  /\ seen \in [Workers -> [Dispatches -> Nat]]
  /\ row \in [Workers -> Dispatches \cup {NoDispatch}]
  /\ plan \in [Workers -> Plans]
  /\ webhook \in [Handlers -> {"idle", "matched", "unmatched", "apply"}]
  /\ event \in [Handlers -> Events \cup {NoEvent}]
  /\ accepted \in [Dispatches -> Nat]
  /\ calls \in [Dispatches -> Nat]
  /\ fresh \subseteq Dispatches
  /\ enabled \in Modes
  /\ faults \in 0..MaxFaults /\ slow \in 0..MaxSlow /\ dropped \in 0..MaxDropped

Init ==
  /\ status = [d \in Dispatches |-> "absent"]
  /\ attempts = Nothing
  /\ due = {} /\ expired = {} /\ recent = {} /\ stale = {}
  /\ recorded = {} /\ checked = {}
  /\ Lock!Init
  /\ step = [w \in Workers |-> "idle"]
  /\ overdue = [w \in Workers |-> {}]
  /\ todo = [w \in Workers |-> {}]
  /\ seen = [w \in Workers |-> Nothing]
  /\ row = [w \in Workers |-> NoDispatch]
  /\ plan = [w \in Workers |-> "none"]
  /\ webhook = [h \in Handlers |-> "idle"]
  /\ event = [h \in Handlers |-> NoEvent]
  /\ accepted = Nothing /\ calls = Nothing /\ fresh = {}
  /\ enabled \in Modes
  /\ faults = 0 /\ slow = 0 /\ dropped = 0

----------------------------------------------------------------------------
(* Helpers.                                                                *)

At(w, s) == phase[w] = "in" /\ step[w] = s
GoTo(w, s) == step' = [step EXCEPT ![w] = s]
OfKind(k) == {d \in Dispatches : Kind[d] = k}
Stamped(d) == {d} \cap {s \in Dispatches : Kind[s] \in Spaced}

\* A statement that sets the status of the rows S, and with it updatedAt.
SetStatus(S, s) ==
  /\ status' = [d \in Dispatches |-> IF d \in S THEN s ELSE status[d]]
  /\ stale' = stale \ S

\* createMany with skipDuplicates, of rows scheduled for later.
Insert(S) ==
  /\ status' = [d \in Dispatches |->
                  IF d \in S /\ status[d] = "absent" THEN "PENDING" ELSE status[d]]
  /\ UNCHANGED <<attempts, due, expired, recent, stale>>

----------------------------------------------------------------------------
(* Enqueueing.                                                             *)

EnqueueRelationshipForVerifiedUser ==
  /\ \E kinds \in EnqueuedTogether : Insert(UNION {OfKind(k) : k \in kinds})
  /\ UNCHANGED <<recorded, checked, lockVars, batchVars, webhook, event, providerVars, outside>>

\* Inside the approval's transaction, which credits a purchase once.
EnqueuePurchaseConfirmation(d) ==
  /\ Kind[d] = "PURCHASE_CONFIRMATION"
  /\ status[d] = "absent"
  /\ SetStatus({d}, "PENDING")
  /\ due' = due \cup {d}
  /\ UNCHANGED <<attempts, expired, recent, checked, lockVars, batchVars,
                 webhookVars, providerVars, outside>>

RecentlySent(d) == status[d] = "SENT" /\ d \in recent

\* Two applications may read before either writes.
CheckRecentOffer(d) ==
  /\ Kind[d] = "MOCK_INTERVIEW_OFFER"
  /\ status[d] = "absent" /\ d \notin checked
  /\ \A o \in OfKind("MOCK_INTERVIEW_OFFER") : status[o] \notin Open /\ ~RecentlySent(o)
  /\ checked' = checked \cup {d}
  /\ UNCHANGED <<rowVars, lockVars, batchVars, webhookVars, providerVars, outside>>

EnqueueMockInterviewOffer(d) ==
  /\ d \in checked
  /\ checked' = checked \ {d}
  /\ Insert({d})
  /\ UNCHANGED <<lockVars, batchVars, webhookVars, providerVars, outside>>

Enqueue ==
  \/ EnqueueRelationshipForVerifiedUser
  \/ \E d \in Dispatches :
       EnqueuePurchaseConfirmation(d) \/ CheckRecentOffer(d) \/ EnqueueMockInterviewOffer(d)

----------------------------------------------------------------------------
(* A batch: processBatch.                                                  *)

\* A batch that finds every mode OFF recovers and expires nothing either.
\* `now' is fixed before the lock is asked for.
StartBatch(w) ==
  /\ enabled
  /\ Lock!AcquireRead(w)
  /\ overdue' = [overdue EXCEPT ![w] = expired]
  /\ UNCHANGED <<rowVars, recorded, checked, step, todo, seen, row, plan, webhook, event,
                 providerVars, outside>>

TakeLock(w) ==
  /\ Lock!AcquireUpsert(w)
  /\ GoTo(w, "recover")
  /\ UNCHANGED <<rowVars, recorded, checked, overdue, todo, seen, row, plan, webhook, event,
                 providerVars, outside>>

\* Mutant: a row stuck in PROCESSING goes back to PENDING.
RetryStaleProcessing(w) ==
  /\ At(w, "recover")
  /\ SetStatus({d \in stale : status[d] = "PROCESSING"}, "PENDING")
  /\ GoTo(w, "expire")
  /\ UNCHANGED <<attempts, due, expired, recent, recorded, checked, lockVars, overdue, todo,
                 seen, row, plan, webhook, event, providerVars, outside>>

RecoverStaleProcessing(w) ==
  /\ At(w, "recover")
  /\ SetStatus({d \in stale : status[d] = "PROCESSING"}, "OUTCOME_UNKNOWN")
  /\ GoTo(w, "expire")
  /\ UNCHANGED <<attempts, due, expired, recent, recorded, checked, lockVars, overdue, todo,
                 seen, row, plan, webhook, event, providerVars, outside>>

ExpireOverdue(w) ==
  /\ At(w, "expire")
  /\ SetStatus({d \in overdue[w] : status[d] = "PENDING"}, "CANCELLED")
  /\ GoTo(w, "list")
  /\ UNCHANGED <<attempts, due, expired, recent, recorded, checked, lockVars, overdue, todo,
                 seen, row, plan, webhook, event, providerVars, outside>>

\* Only the kinds that are on and ready.
ListDue(w) ==
  /\ At(w, "list")
  /\ \E kinds \in SUBSET {Kind[d] : d \in Dispatches} :
       LET listed == {d \in due : status[d] = "PENDING" /\ Kind[d] \in kinds} IN
       /\ todo' = [todo EXCEPT ![w] = listed]
       /\ seen' = [seen EXCEPT ![w] = [d \in Dispatches |->
                                         IF d \in listed THEN attempts[d] ELSE 0]]
  /\ GoTo(w, "next")
  /\ UNCHANGED <<rowVars, recorded, checked, lockVars, overdue, row, plan, webhook, event,
                 providerVars, outside>>

\* Mutant: the claim does not repeat status = PENDING.
AnyClaim(d) == TRUE

Claimable(d) == status[d] = "PENDING"

Claim(w) ==
  /\ At(w, "next")
  /\ \E d \in todo[w] :
       /\ todo' = [todo EXCEPT ![w] = @ \ {d}]
       /\ IF Claimable(d)
          THEN /\ SetStatus({d}, "PROCESSING")
               /\ row' = [row EXCEPT ![w] = d]
               /\ GoTo(w, "decide")
          ELSE UNCHANGED <<status, stale, row, step>>
  /\ UNCHANGED <<attempts, due, expired, recent, recorded, checked, lockVars, overdue, seen,
                 plan, webhook, event, providerVars, outside>>

----------------------------------------------------------------------------
(* One row: decideAndSend.                                                 *)

\* Mutant: the offer is not decided again before it is sent.
OfferNeverTooRecent(d) == FALSE

\* evaluateMockInterviewOffer: another offer went out within the cooldown.
OfferTooRecent(d) ==
  /\ Kind[d] = "MOCK_INTERVIEW_OFFER"
  /\ \E o \in OfKind("MOCK_INTERVIEW_OFFER") \ {d} : RecentlySent(o)

\* Mutant: the feedback looks only at a welcome already sent.
IgnoresPendingWelcome(d) ==
  /\ Kind[d] = "FEEDBACK_FIRST_USE"
  /\ \E v \in OfKind("WELCOME") : v \in recent

\* resolveFeedbackDeferral: the welcome has not ended, or has just been sent.
WaitsForWelcome(d) ==
  /\ Kind[d] = "FEEDBACK_FIRST_USE"
  /\ \E v \in OfKind("WELCOME") : status[v] \in Open \/ v \in recent

\* A deferral that would pass expiresAt cancels instead.
Deferral == {"defer", "cancel"}

Decisions(w) ==
  LET d == row[w] IN
  IF d \in overdue[w] THEN {"cancel"}
  ELSE IF OfferTooRecent(d) THEN {"skip"} \cup (Verdicts \cap {"release", "recoverRetry"})
  ELSE IF WaitsForWelcome(d)
       THEN Deferral \cup (Verdicts \cap {"release", "skip", "recoverRetry"})
  ELSE {"send"} \cup (Verdicts \ {"defer"})
         \cup IF Kind[d] \in Feedbacks /\ "defer" \in Verdicts THEN Deferral ELSE {}

Decide(w) ==
  /\ At(w, "decide")
  /\ \E p \in Decisions(w) :
       /\ plan' = [plan EXCEPT ![w] = p]
       /\ GoTo(w, IF p = "send" THEN "sending" ELSE "write")
  /\ UNCHANGED <<rowVars, recorded, checked, lockVars, overdue, todo, seen, row, webhook,
                 event, providerVars, outside>>

\* The provider takes the e-mail or rejects it; its answer arrives, does not,
\* or something throws once sendStarted is set.
Deliver(w) ==
  LET d == row[w] IN
  /\ At(w, "sending")
  /\ calls' = [calls EXCEPT ![d] = IF @ > MaxSendAttempts THEN @ ELSE @ + 1]
  /\ \/ /\ accepted' = [accepted EXCEPT ![d] = @ + 1]
        /\ fresh' = fresh \cup Stamped(d)
        /\ \E p \in {"sent", "unknown", "recoverUnknown"} : plan' = [plan EXCEPT ![w] = p]
     \/ /\ \E p \in {"rejected", "unknown", "recoverUnknown"} :
             plan' = [plan EXCEPT ![w] = p]
        /\ UNCHANGED <<accepted, fresh>>
  /\ GoTo(w, "write")
  /\ UNCHANGED <<rowVars, recorded, checked, lockVars, overdue, todo, seen, row, webhook,
                 event, outside>>

\* The status each plan other than a retry writes, by id.
Written == [cancel |-> "CANCELLED", release |-> "PENDING", skip |-> "SKIPPED",
            defer |-> "PENDING", sent |-> "SENT", unknown |-> "OUTCOME_UNKNOWN",
            recoverUnknown |-> "OUTCOME_UNKNOWN"]

RowDone(w) ==
  /\ plan' = [plan EXCEPT ![w] = "none"]
  /\ row' = [row EXCEPT ![w] = NoDispatch]

\* The first feedback needs one more statement, and its row, after SENT.
WriteStatus(w) ==
  LET d == row[w] IN
  /\ At(w, "write")
  /\ plan[w] \in DOMAIN Written
  /\ SetStatus({d}, Written[plan[w]])
  /\ due' = IF plan[w] = "defer" THEN due \ {d} ELSE due
  /\ recent' = IF plan[w] = "sent" THEN recent \cup Stamped(d) ELSE recent
  /\ GoTo(w, IF plan[w] = "sent" /\ Kind[d] = "FEEDBACK_FIRST_USE" THEN "second" ELSE "next")
  /\ RowDone(w)
  /\ UNCHANGED <<attempts, expired, recorded, checked, lockVars, overdue, todo, seen, webhook,
                 event, providerVars, outside>>

\* Mutant: one attempt too many.
OneMoreAttempt(n) == n > MaxSendAttempts

Exhausted(n) == n >= MaxSendAttempts

\* From the attempts the batch listed, not those of the row.
RetryOrFail(w) ==
  LET d == row[w]
      n == seen[w][d] + 1 IN
  /\ At(w, "write")
  /\ plan[w] \in {"rejected", "recoverRetry"}
  /\ attempts' = [attempts EXCEPT ![d] = n]
  /\ SetStatus({d}, IF Exhausted(n) THEN "FAILED" ELSE "PENDING")
  /\ due' = IF Exhausted(n) THEN due ELSE due \ {d}
  /\ GoTo(w, "next")
  /\ RowDone(w)
  /\ UNCHANGED <<expired, recent, recorded, checked, lockVars, overdue, todo, seen, webhook,
                 event, providerVars, outside>>

\* Nothing is created while the mode of the second call is OFF, or if the
\* statement throws.
EnqueueSecondCall(w) ==
  /\ At(w, "second")
  /\ Insert(OfKind("FEEDBACK_SECOND_CALL")) \/ UNCHANGED rowVars
  /\ GoTo(w, "next")
  /\ UNCHANGED <<recorded, checked, lockVars, overdue, todo, seen, row, plan, webhook, event,
                 providerVars, outside>>

----------------------------------------------------------------------------
(* Errors, the end of a batch, and its death.                              *)

\* A statement on a claimed row throws: processOne's catch writes one of its
\* own, and if that throws too the batch is over.
WriteThrows(w) ==
  /\ At(w, "write")
  /\ faults < MaxFaults
  /\ faults' = faults + 1
  /\ IF plan[w] \in Recovery
     THEN RowDone(w) /\ GoTo(w, "next") /\ todo' = [todo EXCEPT ![w] = {}]
     ELSE /\ plan' = [plan EXCEPT ![w] = IF plan[w] \in BeforeSend
                                         THEN "recoverRetry" ELSE "recoverUnknown"]
          /\ UNCHANGED <<row, step, todo>>
  /\ UNCHANGED <<rowVars, recorded, checked, lockVars, overdue, seen, webhook, event,
                 providerVars, enabled, slow, dropped>>

\* Any other statement of the batch throws: straight to the finally.
BatchThrows(w) ==
  /\ \E s \in {"recover", "expire", "list", "next"} : At(w, s)
  /\ faults < MaxFaults
  /\ faults' = faults + 1
  /\ GoTo(w, "next")
  /\ todo' = [todo EXCEPT ![w] = {}]
  /\ UNCHANGED <<rowVars, recorded, checked, lockVars, overdue, seen, row, plan, webhook,
                 event, providerVars, enabled, slow, dropped>>

\* The copies of a batch that is over are gone.
Forget(w) ==
  /\ GoTo(w, "idle")
  /\ overdue' = [overdue EXCEPT ![w] = {}]
  /\ todo' = [todo EXCEPT ![w] = {}]
  /\ seen' = [seen EXCEPT ![w] = Nothing]
  /\ RowDone(w)

EndBatch(w) ==
  /\ At(w, "next")
  /\ todo[w] = {}
  /\ Lock!ReleaseRead(w)
  /\ Forget(w)
  /\ UNCHANGED <<rowVars, recorded, checked, webhook, event, providerVars, outside>>

DropLock(w) ==
  /\ Lock!ReleaseDelete(w)
  /\ UNCHANGED <<rowVars, recorded, checked, batchVars, webhook, event, providerVars, outside>>

\* The process dies: the row it holds stays PROCESSING, the lock stays.
Die(w) ==
  /\ Lock!Die(w)
  /\ Forget(w)
  /\ UNCHANGED <<rowVars, recorded, checked, webhook, event, providerVars, outside>>

----------------------------------------------------------------------------
(* The webhook: processSesEvent.  Every event comes at least once.         *)

ReceiveEvent(h) ==
  /\ webhook[h] = "idle"
  /\ \E e \in Events :
       /\ accepted[e.dispatch] > 0
       /\ event' = [event EXCEPT ![h] = e]
       /\ webhook' = [webhook EXCEPT ![h] =
            IF status[e.dispatch] = "OUTCOME_UNKNOWN" THEN "matched" ELSE "unmatched"]
  /\ UNCHANGED <<rowVars, recorded, checked, lockVars, batchVars, providerVars, outside>>

FinishWebhook(h) ==
  /\ webhook' = [webhook EXCEPT ![h] = "idle"]
  /\ event' = [event EXCEPT ![h] = NoEvent]

\* providerEventId is unique: a duplicate goes no further.
RecordEvent(h) ==
  /\ webhook[h] \in {"matched", "unmatched"}
  /\ recorded' = recorded \cup {event[h]}
  /\ IF webhook[h] = "matched" /\ event[h] \notin recorded
     THEN webhook' = [webhook EXCEPT ![h] = "apply"] /\ UNCHANGED event
     ELSE FinishWebhook(h)
  /\ UNCHANGED <<rowVars, checked, lockVars, batchVars, providerVars, outside>>

\* On the status as it was read before the event was recorded.
ApplyEvent(h) ==
  LET d == event[h].dispatch
      delivered == event[h].type = "delivered" IN
  /\ webhook[h] = "apply"
  /\ SetStatus({d}, IF delivered THEN "SENT" ELSE "FAILED")
  /\ recent' = IF delivered THEN recent \cup Stamped(d) ELSE recent
  /\ FinishWebhook(h)
  /\ UNCHANGED <<attempts, due, expired, recorded, checked, lockVars, batchVars, providerVars,
                 outside>>

DropWebhook(h) ==
  /\ webhook[h] # "idle"
  /\ dropped < MaxDropped
  /\ dropped' = dropped + 1
  /\ FinishWebhook(h)
  /\ UNCHANGED <<rowVars, recorded, checked, lockVars, batchVars, providerVars, enabled,
                 faults, slow>>

----------------------------------------------------------------------------
(* Time, and the modes.                                                    *)

BecomesDue(d) ==
  /\ status[d] = "PENDING" /\ d \notin due
  /\ due' = due \cup {d}
  /\ UNCHANGED <<status, attempts, expired, recent, stale, recorded, checked, lockVars,
                 batchVars, webhook, event, providerVars, outside>>

Expires(d) ==
  /\ status[d] \in Open /\ d \notin expired
  /\ expired' = expired \cup {d}
  /\ UNCHANGED <<status, attempts, due, recent, stale, recorded, checked, lockVars,
                 batchVars, webhook, event, providerVars, outside>>

Holds(w, d) == row[w] = d

\* updatedAt is 10 minutes old; under a live batch only if it is that slow.
GoesStale(d) ==
  /\ status[d] = "PROCESSING" /\ d \notin stale
  /\ IF \E w \in Workers : Holds(w, d)
     THEN slow < MaxSlow /\ slow' = slow + 1
     ELSE UNCHANGED slow
  /\ stale' = stale \cup {d}
  /\ UNCHANGED <<status, attempts, due, expired, recent, recorded, checked, lockVars,
                 batchVars, webhook, event, providerVars, enabled, faults, dropped>>

LockExpires ==
  /\ Lock!Expire
  /\ UNCHANGED <<rowVars, recorded, checked, batchVars, webhook, event, providerVars, outside>>

\* The minimum gap since the e-mail left is over; sentAt may be later than that.
GapElapses(d) ==
  /\ d \in fresh \cup recent
  /\ fresh' = fresh \ {d}
  /\ recent' \in {recent, recent \ {d}}
  /\ UNCHANGED <<status, attempts, due, expired, stale, recorded, checked, lockVars,
                 batchVars, webhook, event, accepted, calls, outside>>

\* The administration turns the last kind off, or the first one on.
SwitchModes ==
  /\ enabled' \in Modes \ {enabled}
  /\ UNCHANGED <<rowVars, recorded, checked, lockVars, batchVars, webhook, event, providerVars,
                 faults, slow, dropped>>

----------------------------------------------------------------------------
Batch(w) ==
  \/ StartBatch(w) \/ TakeLock(w)
  \/ RecoverStaleProcessing(w) \/ ExpireOverdue(w) \/ ListDue(w) \/ Claim(w)
  \/ Decide(w) \/ Deliver(w) \/ WriteStatus(w) \/ RetryOrFail(w) \/ EnqueueSecondCall(w)
  \/ EndBatch(w) \/ DropLock(w)

Fault(w) == WriteThrows(w) \/ BatchThrows(w) \/ Die(w)

Webhook(h) == ReceiveEvent(h) \/ RecordEvent(h) \/ ApplyEvent(h) \/ DropWebhook(h)

\* What happens to the batches from outside.
Time ==
  \/ LockExpires \/ SwitchModes
  \/ \E d \in Dispatches : BecomesDue(d) \/ Expires(d) \/ GoesStale(d) \/ GapElapses(d)

Next ==
  \/ Enqueue
  \/ \E w \in Workers : Batch(w) \/ Fault(w)
  \/ \E h \in Handlers : Webhook(h)
  \/ Time

Spec == Init /\ [][Next]_vars

\* The cron fires every 30 seconds and a batch, unless it dies, ends; deadlines
\* pass and the lock's TTL runs out.  Nothing is said of SES, of enqueueing or
\* of the modes.
LiveSpec ==
  /\ Spec
  /\ \A w \in Workers : WF_vars(Batch(w))
  /\ WF_vars(LockExpires)
  /\ \A d \in Dispatches : WF_vars(Expires(d)) /\ WF_vars(GoesStale(d))

----------------------------------------------------------------------------
(* The provider takes an e-mail at most once: a row whose e-mail may have  *)
(* left is never PENDING again, however batches overlap, die or crawl and  *)
(* whatever the webhook writes.                                            *)
NeverSentTwice == \A d \in Dispatches : accepted[d] <= 1

Stage == [absent |-> "none", PENDING |-> "waiting", PROCESSING |-> "processing",
          OUTCOME_UNKNOWN |-> "unknown", SENT |-> "sent", FAILED |-> "failed",
          SKIPPED |-> "dropped", CANCELLED |-> "dropped"]

Contract == INSTANCE EmailContract WITH
  Emails <- Dispatches,
  stage <- [d \in Dispatches |-> Stage[status[d]]],
  left <- {d \in Dispatches : accepted[d] > 0}

(* While no row goes stale under a live batch, the rows behave as          *)
(* EmailContract says: one life each, whatever dies or throws.             *)
ContractSpec == Contract!Spec

(* The first feedback never leaves while the welcome is still to be sent   *)
(* (resolveFeedbackDeferral), retries and releases of the welcome          *)
(* included.                                                               *)
FeedbackWaitsForWelcome ==
  [][\A f \in OfKind("FEEDBACK_FIRST_USE"), v \in OfKind("WELCOME") :
       accepted'[f] > accepted[f] => status[v] \notin Open]_vars

(* An offer recorded as SENT within the cooldown keeps every other from    *)
(* leaving, also one enqueued in a race with it.  Needs batches that do    *)
(* not overlap, and no webhook between the decision and the call.          *)
RecordedOfferKeepsOthersBack ==
  [][\A o, p \in OfKind("MOCK_INTERVIEW_OFFER") :
       o # p /\ accepted'[o] > accepted[o] => ~RecentlySent(p)]_vars

(* The provider is called at most MAX_SEND_ATTEMPTS times for a row, by     *)
(* batches that do not overlap.                                            *)
SendsBounded == \A d \in Dispatches : calls[d] <= MaxSendAttempts

(* Nothing stays open for ever, once some kind stays on: every row ends or *)
(* waits for an event, also the rows of the kinds that are OFF.  While all *)
(* are OFF nothing expires and nothing is recovered.                       *)
NothingPendingForever ==
  <>[]enabled => \A d \in Dispatches : status[d] \in Open ~> status[d] \notin Open
============================================================================
