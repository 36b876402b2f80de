--------------------------- MODULE ProductUpdates ---------------------------
(***************************************************************************)
(* A product update campaign: the requests of the administration           *)
(* (product-updates.service.ts), the worker that sends its deliveries      *)
(* (product-update-sender.worker.ts) and the provider's events             *)
(* (product-update-webhook.service.ts).                                    *)
(*                                                                         *)
(* A request reads the campaign, checks what it read and writes by id      *)
(* later: `asked' is what it read.  Only start repeats its condition in    *)
(* the write.  The worker is one batch at a time (LockOverlap says what it *)
(* takes for two) and takes one statement at a time.  A content stands for *)
(* the fields a test covers; a message has the subject the campaign has    *)
(* when it goes out and the body that start froze.                         *)
(***************************************************************************)
EXTENDS Naturals, Sequences, FiniteSets, FiniteSetsExt

CONSTANTS
  Recipients,   \* users that may be eligible
  Contents,
  Admins,       \* requests of the administration handled at once
  Hooks,        \* provider events handled at once
  MaxAttempts,  \* MAX_ATTEMPTS
  BatchSize,    \* PRODUCT_UPDATE_SEND_RATE_PER_SECOND
  MaxDeaths,    \* bound on the batches that die with their process
  NoContent, NoOne

Statuses == {"DRAFT", "READY", "SENDING", "COMPLETED", "CANCELLED"}
DeliveryStatuses == {"none", "PENDING", "PROCESSING", "SENT", "FAILED",
                     "OUTCOME_UNKNOWN", "CANCELLED"}
Messages == [subject : Contents, body : Contents \cup {NoContent}]
Requests == {"idle", "edit", "mail", "stamp", "ready", "start", "cancel"}
Phases == {"idle", "recover", "next", "check", "send", "record", "complete",
           "count", "finish"}
Results == {"suppressed", "failed", "unknown", "sent"}

ASSUME CampaignAssumption ==
  /\ NoContent \notin Contents /\ NoOne \notin Recipients
  /\ IsFiniteSet(Recipients)
  /\ MaxAttempts \in Nat \ {0} /\ BatchSize \in Nat \ {0} /\ MaxDeaths \in Nat

VARIABLES
  status, content,
  tested,    \* testSentAt is set
  snapshot,  \* htmlSnapshot and textSnapshot
  delivery,  \* status of each recipient's delivery, "none" without a row
  attempts,
  request,   \* the next statement of each request
  asked,     \* the campaign as a request read it, and what it asks for
  phase,     \* the next statement of the batch
  found,     \* the stale rows the batch read
  todo,      \* the PENDING rows the batch read, with their attempts
  current,   \* the recipient of the delivery the batch works on
  result,    \* what sendToDelivery returned
  stale,     \* rows whose updatedAt is older than the threshold
  hook,      \* the event each webhook call handles
  recorded,  \* ProductUpdateEvent rows
  deaths,
  inbox,     \* history: what the provider accepted for each recipient
  mailed,    \* history: contents that went out as a test
  late,      \* history: messages accepted while the campaign was not SENDING
  raced      \* history: a request wrote over a campaign that had moved on

campaign == <<status, content, tested, snapshot>>
rows == <<delivery, attempts, stale>>
batch == <<phase, found, todo, current, result, deaths>>
admin == <<request, asked>>
webhook == <<hook, recorded>>
history == <<inbox, mailed, late, raced>>
vars == <<campaign, rows, batch, admin, webhook, history>>

----------------------------------------------------------------------------
In(s) == {r \in Recipients : delivery[r] \in s}
NothingAsked == [status |-> "DRAFT", content |-> NoContent, new |-> NoContent, to |-> {}]
NoEvent == [to |-> NoOne, good |-> FALSE, was |-> "none"]
NoTodo == [r \in {} |-> 0]

TypeOK ==
  /\ status \in Statuses /\ content \in Contents /\ tested \in BOOLEAN
  /\ snapshot \in Contents \cup {NoContent}
  /\ delivery \in [Recipients -> DeliveryStatuses]
  /\ attempts \in [Recipients -> 0..MaxAttempts]
  /\ stale \subseteq In({"PROCESSING"})
  /\ request \in [Admins -> Requests]
  /\ asked \in [Admins -> [status : Statuses, content : Contents \cup {NoContent},
                           new : Contents \cup {NoContent}, to : SUBSET Recipients]]
  /\ phase \in Phases /\ found \subseteq Recipients
  /\ DOMAIN todo \subseteq Recipients /\ \A r \in DOMAIN todo : todo[r] \in 0..(MaxAttempts - 1)
  /\ current \in Recipients \cup {NoOne} /\ result \in Results \cup {"none"}
  /\ phase \in {"check", "send", "record"} => current \in DOMAIN todo
  /\ hook \in [Hooks -> [to : Recipients \cup {NoOne}, good : BOOLEAN, was : DeliveryStatuses]]
  /\ recorded \subseteq Recipients \X BOOLEAN
  /\ deaths \in 0..MaxDeaths
  /\ inbox \in [Recipients -> Seq(Messages)]
  /\ mailed \subseteq Contents /\ late \in Nat /\ raced \in BOOLEAN

Init ==
  /\ status = "DRAFT" /\ content \in Contents /\ tested = FALSE /\ snapshot = NoContent
  /\ delivery = [r \in Recipients |-> "none"]
  /\ attempts = [r \in Recipients |-> 0]
  /\ stale = {}
  /\ request = [a \in Admins |-> "idle"]
  /\ asked = [a \in Admins |-> NothingAsked]
  /\ phase = "idle" /\ found = {} /\ todo = NoTodo /\ current = NoOne /\ result = "none"
  /\ hook = [h \in Hooks |-> NoEvent] /\ recorded = {}
  /\ deaths = 0
  /\ inbox = [r \in Recipients |-> <<>>] /\ mailed = {} /\ late = 0
  /\ raced = FALSE

----------------------------------------------------------------------------
(* The requests.  Asks: findOrThrow and the checks on what it returned.    *)

AsRead(new, to) == [status |-> status, content |-> content, new |-> new, to |-> to]

Asks(a, op, new, to) ==
  /\ request[a] = "idle"
  /\ request' = [request EXCEPT ![a] = op]
  /\ asked' = [asked EXCEPT ![a] = AsRead(new, to)]
  /\ UNCHANGED <<campaign, rows, batch, webhook, history>>

Answers(a) ==
  /\ request' = [request EXCEPT ![a] = "idle"]
  /\ asked' = [asked EXCEPT ![a] = NothingAsked]

\* The campaign is not any more as the request read it: another request (or
\* the same administrator in another tab) was faster.
MovedOn(a) == status # asked[a].status \/ content # asked[a].content

\* A write by id goes through all the same.
WritesById(a) ==
  /\ raced' = (raced \/ MovedOn(a))
  /\ Answers(a)
  /\ UNCHANGED <<inbox, mailed, late>>

Editable == status \in {"DRAFT", "READY"}

AskEdit(a) == \E c \in Contents : Editable /\ Asks(a, "edit", c, {})
AskTest(a) == Editable /\ Asks(a, "mail", NoContent, {})
AskReady(a) == status = "DRAFT" /\ tested /\ Asks(a, "ready", NoContent, {})
AskCancel(a) == status = "SENDING" /\ Asks(a, "cancel", NoContent, {})

\* The audience and its count are confirmed: whoever is eligible now, if any.
AskStart(a) ==
  \E S \in SUBSET Recipients \ {{}} : status = "READY" /\ Asks(a, "start", NoContent, S)

\* Mutant: an edit of a READY campaign keeps the test and the status.
EditKeepsTest(a) == asked[a].new # asked[a].content /\ asked[a].status = "DRAFT"

\* The edit changes a field the test covers, compared with what was read.
ChangesContent(a) == asked[a].new # asked[a].content

Edit(a) ==
  /\ request[a] = "edit"
  /\ content' = asked[a].new
  /\ tested' = (tested /\ ~ChangesContent(a))
  /\ status' = IF ChangesContent(a) THEN "DRAFT" ELSE status
  /\ WritesById(a)
  /\ UNCHANGED <<snapshot, rows, batch, webhook>>

\* The test reads the campaign again and renders it as it is by now.
MailTest(a) ==
  /\ request[a] = "mail"
  /\ request' = [request EXCEPT ![a] = "stamp"]
  /\ asked' = [asked EXCEPT ![a] = AsRead(NoContent, {})]
  /\ mailed' = mailed \cup {content}
  /\ UNCHANGED <<campaign, rows, batch, webhook, inbox, late, raced>>

MailTestFails(a) ==
  /\ request[a] = "mail"
  /\ Answers(a)
  /\ UNCHANGED <<campaign, rows, batch, webhook, history>>

StampTest(a) ==
  /\ request[a] = "stamp"
  /\ tested' = TRUE
  /\ WritesById(a)
  /\ UNCHANGED <<status, content, snapshot, rows, batch, webhook>>

MarkReady(a) ==
  /\ request[a] = "ready"
  /\ status' = "READY"
  /\ WritesById(a)
  /\ UNCHANGED <<content, tested, snapshot, rows, batch, webhook>>

\* updateMany finds the campaign READY, and no recipient has a delivery of
\* this campaign already: the rows are unique per recipient.
Acquires(a) == status = "READY" /\ \A r \in asked[a].to : delivery[r] = "none"

\* Without it the transaction is rolled back, and the request conflicts.
Start(a) ==
  /\ request[a] = "start"
  /\ IF Acquires(a)
     THEN /\ status' = "SENDING"
          /\ snapshot' = asked[a].content
          /\ delivery' = [r \in Recipients |->
               IF r \in asked[a].to THEN "PENDING" ELSE delivery[r]]
          /\ WritesById(a)
     ELSE Answers(a) /\ UNCHANGED <<status, snapshot, delivery, history>>
  /\ UNCHANGED <<content, tested, attempts, stale, batch, webhook>>

Cancel(a) ==
  /\ request[a] = "cancel"
  /\ status' = "CANCELLED"
  /\ delivery' = [r \in Recipients |-> IF delivery[r] = "PENDING" THEN "CANCELLED" ELSE delivery[r]]
  /\ Answers(a)
  /\ UNCHANGED <<content, tested, snapshot, attempts, stale, batch, webhook, history>>

----------------------------------------------------------------------------
(* The batch: processPendingBatch.                                         *)

Tick ==
  /\ phase = "idle"
  /\ phase' = "recover" /\ found' = stale
  /\ UNCHANGED <<campaign, rows, todo, current, result, deaths, admin, webhook, history>>

\* Nobody knows whether the provider took the message.
Recovered == "OUTCOME_UNKNOWN"

Recover(r) ==
  /\ phase = "recover" /\ r \in found
  /\ delivery' = [delivery EXCEPT ![r] = Recovered]
  /\ stale' = stale \ {r} /\ found' = found \ {r}
  /\ UNCHANGED <<campaign, attempts, phase, todo, current, result, deaths, admin, webhook, history>>

Pending == In({"PENDING"})

\* The rows have one createdAt, so any of them come first.
List ==
  /\ phase = "recover" /\ found = {}
  /\ LET pending == IF status = "SENDING" THEN Pending ELSE {}
         taken == IF Cardinality(pending) < BatchSize THEN Cardinality(pending) ELSE BatchSize
     IN \E S \in kSubset(taken, pending) :
          /\ todo' = [r \in S |-> attempts[r]]
          /\ phase' = IF S = {} THEN "idle" ELSE "next"
  /\ UNCHANGED <<campaign, rows, found, current, result, deaths, admin, webhook, history>>

\* The row is marked by id: it need not be PENDING any more.
Take(r) ==
  /\ phase = "next" /\ r \in DOMAIN todo
  /\ delivery' = [delivery EXCEPT ![r] = "PROCESSING"]
  /\ current' = r /\ phase' = "check"
  /\ UNCHANGED <<campaign, attempts, stale, found, todo, result, deaths, admin, webhook, history>>

\* The delivery ends with this status, the batch goes on.
Ends(s) ==
  /\ delivery' = [delivery EXCEPT ![current] = s]
  /\ todo' = [r \in DOMAIN todo \ {current} |-> todo[r]]
  /\ current' = NoOne /\ result' = "none"
  /\ phase' = IF DOMAIN todo = {current} THEN "complete" ELSE "next"
  /\ UNCHANGED <<stale, found, deaths, campaign, admin, webhook, history>>

\* Mutant: the batch relies on the status it listed the deliveries with.
SendsWhatItListed == TRUE

MaySend == status = "SENDING"

Check ==
  /\ phase = "check"
  /\ MaySend
  /\ phase' = "send"
  /\ UNCHANGED <<campaign, rows, found, todo, current, result, deaths, admin, webhook, history>>

CheckStops ==
  /\ phase = "check"
  /\ ~MaySend
  /\ Ends("CANCELLED")
  /\ UNCHANGED attempts

Message == [subject |-> content, body |-> snapshot]

\* sendToDelivery.  "failed" is an answer that says the message did not go
\* out: the provider's FAILED, or nothing was tried.  After "unknown" (the
\* provider's OUTCOME_UNKNOWN, or an exception) it may have gone out.
Send ==
  /\ phase = "send"
  /\ phase' = "record"
  /\ \E answer \in Results, accepted \in BOOLEAN :
       /\ answer = "sent" => accepted
       /\ answer \in {"suppressed", "failed"} => ~accepted
       /\ result' = answer
       /\ inbox' = IF accepted THEN [inbox EXCEPT ![current] = Append(@, Message)] ELSE inbox
       /\ late' = IF accepted /\ status # "SENDING" THEN late + 1 ELSE late
  /\ UNCHANGED <<campaign, rows, found, todo, current, deaths, admin, webhook, mailed, raced>>

\* Attempts are counted from the row the batch listed.
NextAttempts(n) == n + 1

\* Mutant: one attempt too many.
OneMoreAttempt(n) == IF n > MaxAttempts THEN "FAILED" ELSE "PENDING"

AfterFailure(n) == IF n >= MaxAttempts THEN "FAILED" ELSE "PENDING"

Verdict ==
  CASE result = "suppressed" -> "CANCELLED"
    [] result = "failed"     -> AfterFailure(NextAttempts(todo[current]))
    [] result = "unknown"    -> "OUTCOME_UNKNOWN"
    [] OTHER                 -> "SENT"

Record ==
  /\ phase = "record"
  /\ attempts' = IF result = "failed"
                    THEN [attempts EXCEPT ![current] = NextAttempts(todo[current])]
                    ELSE attempts
  /\ Ends(Verdict)

\* Mutant: an exception gives the delivery back to the queue.
ThrowsToPending == "PENDING"

Caught == "OUTCOME_UNKNOWN"

\* The statement that records the answer fails, and the catch sees only that.
RecordThrows ==
  /\ phase = "record"
  /\ Ends(Caught)
  /\ UNCHANGED attempts

\* Mutant: a delivery whose outcome is unknown keeps the campaign open.
WaitsForOutcome == In({"PENDING", "PROCESSING", "OUTCOME_UNKNOWN"})

Remaining == In({"PENDING", "PROCESSING"})

\* completeIfDone, for the campaign the batch touched.
CompleteRead ==
  /\ phase = "complete"
  /\ phase' = IF status = "SENDING" THEN "count" ELSE "idle"
  /\ UNCHANGED <<campaign, rows, found, todo, current, result, deaths, admin, webhook, history>>

CompleteCount ==
  /\ phase = "count"
  /\ phase' = IF Remaining = {} THEN "finish" ELSE "idle"
  /\ UNCHANGED <<campaign, rows, found, todo, current, result, deaths, admin, webhook, history>>

\* By id, whatever the status is by now.
CompleteWrite ==
  /\ phase = "finish"
  /\ phase' = "idle" /\ status' = "COMPLETED"
  /\ UNCHANGED <<content, tested, snapshot, rows, found, todo, current, result, deaths,
                 admin, webhook, history>>

Die ==
  /\ phase # "idle" /\ deaths < MaxDeaths
  /\ deaths' = deaths + 1
  /\ phase' = "idle" /\ found' = {} /\ todo' = NoTodo
  /\ current' = NoOne /\ result' = "none"
  /\ UNCHANGED <<campaign, rows, admin, webhook, history>>

\* Ten minutes pass without a write to the row of a batch that died.
GoesStale(r) ==
  /\ delivery[r] = "PROCESSING" /\ current # r /\ r \notin stale
  /\ stale' = stale \cup {r}
  /\ UNCHANGED <<campaign, delivery, attempts, batch, admin, webhook, history>>

----------------------------------------------------------------------------
(* The provider's events: processSesEvent.  Good are Send and Delivery,    *)
(* the others Bounce, Complaint and Reject.                                *)

\* The delivery is read before the event is recorded.
HookReads(h, r, good) ==
  /\ hook[h] = NoEvent
  /\ inbox[r] # <<>>
  /\ <<r, good>> \notin recorded
  /\ hook' = [hook EXCEPT ![h] = [to |-> r, good |-> good, was |-> delivery[r]]]
  /\ UNCHANGED <<campaign, rows, batch, admin, recorded, history>>

Event(h) == <<hook[h].to, hook[h].good>>

Resolves(h) == hook[h].was = "OUTCOME_UNKNOWN"

\* The event is recorded once, and the delivery resolved by id.
HookResolves(h) ==
  /\ hook[h] # NoEvent
  /\ delivery' = IF Event(h) \notin recorded /\ Resolves(h)
                    THEN [delivery EXCEPT ![hook[h].to] = IF hook[h].good THEN "SENT" ELSE "FAILED"]
                    ELSE delivery
  /\ recorded' = recorded \cup {Event(h)}
  /\ hook' = [hook EXCEPT ![h] = NoEvent]
  /\ UNCHANGED <<campaign, attempts, stale, batch, admin, history>>

\* The process dies after it recorded the event.
HookDies(h) ==
  /\ hook[h] # NoEvent
  /\ recorded' = recorded \cup {Event(h)}
  /\ hook' = [hook EXCEPT ![h] = NoEvent]
  /\ UNCHANGED <<campaign, rows, batch, admin, history>>

----------------------------------------------------------------------------
Admin(a) ==
  \/ AskEdit(a) \/ AskTest(a) \/ AskReady(a) \/ AskStart(a) \/ AskCancel(a)
  \/ Edit(a) \/ MailTest(a) \/ MailTestFails(a) \/ StampTest(a)
  \/ MarkReady(a) \/ Start(a) \/ Cancel(a)

Batch ==
  \/ Tick \/ List \/ Check \/ CheckStops \/ Send \/ Record \/ RecordThrows
  \/ CompleteRead \/ CompleteCount \/ CompleteWrite
  \/ \E r \in Recipients : Recover(r) \/ Take(r)

Hook(h) ==
  \/ \E r \in Recipients, good \in BOOLEAN : HookReads(h, r, good)
  \/ HookResolves(h) \/ HookDies(h)

Next ==
  \/ \E a \in Admins : Admin(a)
  \/ Batch \/ Die
  \/ \E r \in Recipients : GoesStale(r)
  \/ \E h \in Hooks : Hook(h)

Spec == Init /\ [][Next]_vars

\* The cron ticks every second and a batch goes on until its process dies;
\* the clock advances.  Nobody has to ask for anything.
FairSpec ==
  /\ Spec
  /\ WF_vars(Batch)
  /\ \A r \in Recipients : WF_vars(GoesStale(r))

----------------------------------------------------------------------------
(* Properties.                                                             *)

(* Nobody gets a campaign twice: not by a retry, a recovery, an exception  *)
(* or a restart ("Duplicar um comunicado institucional em massa").         *)
AtMostOneMail == \A r \in Recipients : Len(inbox[r]) <= 1

(* What the panel shows is what happened: a SENT delivery went out, one    *)
(* that waits or was cancelled did not, and none went out twice.           *)
RowsTellTheTruth ==
  /\ AtMostOneMail
  /\ \A r \in In({"SENT"}) : inbox[r] # <<>>
  /\ \A r \in In({"none", "PENDING", "CANCELLED"}) : inbox[r] = <<>>

(* After a cancel at most the message of the delivery in hand goes out,    *)
(* unless a request reopened the campaign by a write over what it had not  *)
(* read.                                                                   *)
AtMostOneLateMail == ~raced => late <= 1

(* One tested content reaches each recipient at most once, whatever        *)
(* administrators do at the same time, up to the first write over a        *)
(* campaign that its request had not read.                                 *)
Promise == INSTANCE Announcement
  WITH tested <- mailed, chosen <- snapshot, open <- (status = "SENDING")
Announces == Promise!Init /\ [][raced' \/ Promise!Next]_Promise!vars

(* A campaign that started ends. A batch that dies may leave it open for   *)
(* ever, as the deliveries recovered after a death touch no campaign, but  *)
(* then none of its deliveries waits any more.                             *)
CampaignEnds ==
  status = "SENDING" ~>
    status # "SENDING" \/ (deaths > 0 /\ In({"PENDING", "PROCESSING"}) = {})
=============================================================================
