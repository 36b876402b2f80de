------------------------ MODULE ProductUpdates_proofs ------------------------
(***************************************************************************)
(* Proof that nobody gets a campaign twice and that the rows tell the      *)
(* truth, for any number of recipients, concurrent requests, webhook calls *)
(* and deaths, and that a campaign keeps its promise (Announcement) until  *)
(* a request writes over a campaign that is not as it read it.             *)
(*                                                                         *)
(* AtMostOneMail is not inductive.  What protects a recipient is that only *)
(* the batch sends, that the row it has in hand is nobody else's (Hand),   *)
(* that what it still has on its list was not sent (Listed, Mail), and     *)
(* that an event is about a row that is settled for good (Heard).          *)
(***************************************************************************)
EXTENDS ProductUpdates, TLAPS

Holding == {"check", "send", "record"}
Unsent == {"none", "PENDING", "CANCELLED"}
Settled == {"OUTCOME_UNKNOWN", "SENT", "FAILED"}

Budget == \A r \in Recipients :
  /\ delivery[r] = "none" => attempts[r] = 0
  /\ delivery[r] = "PENDING" => attempts[r] < MaxAttempts

Asked == \A a \in Admins : request[a] = "edit" => asked[a].new \in Contents

Hand ==
  /\ current \in Recipients <=> phase \in Holding
  /\ phase \in Holding => delivery[current] = "PROCESSING" /\ current \notin stale
  /\ phase \in {"check", "send"} => inbox[current] = <<>>
  /\ phase = "record" =>
       /\ result \in Results
       /\ result \in {"suppressed", "failed"} => inbox[current] = <<>>
       /\ result = "sent" => inbox[current] # <<>>

Listed ==
  /\ found \subseteq stale
  /\ phase \notin Holding \cup {"next"} => DOMAIN todo = {}
  /\ \A r \in DOMAIN todo : r # current => delivery[r] \in {"PENDING", "CANCELLED"}

Mail == \A r \in Recipients :
  /\ inbox[r] # <<>> => Len(inbox[r]) = 1
  /\ delivery[r] \in Unsent => inbox[r] = <<>>
  /\ delivery[r] = "SENT" => inbox[r] # <<>>

Heard == \A h \in Hooks : hook[h] # NoEvent =>
  /\ hook[h].to \in Recipients
  /\ hook[h].was = "OUTCOME_UNKNOWN" =>
       delivery[hook[h].to] \in Settled /\ inbox[hook[h].to] # <<>>

MailInv == TypeOK /\ Budget /\ Asked /\ Hand /\ Listed /\ Mail /\ Heard

LEMMA MailInvInit == Init => MailInv
<1> SUFFICES ASSUME Init PROVE MailInv
  OBVIOUS
<1> USE CampaignAssumption DEF CampaignAssumption, Init
<1>1. TypeOK
  <2>1. \A r \in Recipients : inbox[r] = <<>> /\ <<>> \in Seq(Messages)
    OBVIOUS
  <2>2. inbox \in [Recipients -> Seq(Messages)]
    BY <2>1
  <2>3. DOMAIN todo = {}
    BY DEF NoTodo
  <2>4. NoEvent \in [to : Recipients \cup {NoOne}, good : BOOLEAN, was : DeliveryStatuses]
    BY DEF NoEvent, DeliveryStatuses
  <2>5. NothingAsked \in [status : Statuses, content : Contents \cup {NoContent},
                          new : Contents \cup {NoContent}, to : SUBSET Recipients]
    BY DEF NothingAsked, Statuses
  <2>6. request \in [Admins -> Requests] /\ delivery \in [Recipients -> DeliveryStatuses]
    BY DEF Requests, DeliveryStatuses
  <2>7. attempts \in [Recipients -> 0..MaxAttempts] /\ deaths \in 0..MaxDeaths
    OBVIOUS
  <2>8. status \in Statuses /\ phase = "idle" /\ phase \in Phases
    BY DEF Statuses, Phases
  <2> HIDE DEF CampaignAssumption
  <2>9. QED
    BY <2>2, <2>3, <2>4, <2>5, <2>6, <2>7, <2>8 DEF TypeOK
<1>2. Budget /\ Asked /\ Hand /\ Listed /\ Heard
  BY DEF Budget, Asked, Hand, Holding, Listed, NoTodo, Heard
<1>3. Mail
  BY DEF Mail, Unsent
<1>4. QED
  BY <1>1, <1>2, <1>3 DEF MailInv

----------------------------------------------------------------------------
(* Steps of the requests.                                                  *)

\* What Hand, Listed, Mail and Heard speak of, the rows a start inserts and
\* a cancel gives up apart.
RowsStay ==
  /\ UNCHANGED <<stale, attempts, batch, hook, inbox>>
  /\ \A r \in Recipients : delivery'[r] # delivery[r] =>
       delivery[r] \in {"none", "PENDING"} /\ delivery'[r] \in {"PENDING", "CANCELLED"}
  /\ \A r \in Recipients : delivery'[r] = "PENDING" /\ delivery[r] # "PENDING" =>
       delivery[r] = "none"

LEMMA RowsStayKeepsInv ==
  ASSUME MailInv, RowsStay, TypeOK', Asked'
  PROVE  MailInv'
<1> USE DEF RowsStay, batch
<1>1. Budget'
  BY CampaignAssumption DEF CampaignAssumption, MailInv, Budget, TypeOK
<1>2. Hand'
  BY DEF MailInv, Hand, TypeOK, Holding
<1>3. Listed'
  BY DEF MailInv, Listed, TypeOK
<1>4. Mail'
  BY DEF MailInv, Mail, Unsent
<1>5. Heard'
  BY DEF MailInv, Heard, Settled
<1>6. QED
  BY <1>1, <1>2, <1>3, <1>4, <1>5 DEF MailInv

LEMMA AsksTypes ==
  ASSUME MailInv, NEW a \in Admins, NEW op \in Requests,
         NEW new \in Contents \cup {NoContent}, NEW to \in SUBSET Recipients,
         op = "edit" => new \in Contents,
         Asks(a, op, new, to)
  PROVE  RowsStay /\ TypeOK' /\ Asked'
<1> USE DEF MailInv, Asks, AsRead, campaign, rows, batch, webhook, history
<1>1. RowsStay
  BY DEF RowsStay
<1>2. TypeOK'
  BY DEF TypeOK, In
<1>3. Asked'
  BY DEF Asked, TypeOK
<1>4. QED
  BY <1>1, <1>2, <1>3

LEMMA AnswersTypes ==
  ASSUME MailInv, NEW a \in Admins, Answers(a)
  PROVE  /\ request' \in [Admins -> Requests]
         /\ asked' \in [Admins -> [status : Statuses, content : Contents \cup {NoContent},
                                   new : Contents \cup {NoContent}, to : SUBSET Recipients]]
         /\ Asked'
<1> USE DEF MailInv, Answers
<1>1. NothingAsked \in [status : Statuses, content : Contents \cup {NoContent},
                        new : Contents \cup {NoContent}, to : SUBSET Recipients]
  BY DEF NothingAsked, Statuses
<1>2. "idle" \in Requests
  BY DEF Requests
<1>3. QED
  BY <1>1, <1>2 DEF TypeOK, Asked

\* What a write by id does besides: it answers, and may be a race.
LEMMA WritesTypes ==
  ASSUME MailInv, NEW a \in Admins, WritesById(a)
  PROVE  /\ Answers(a) /\ UNCHANGED <<inbox, mailed, late>>
         /\ raced' \in BOOLEAN
BY DEF WritesById

LEMMA AdminKeepsInv ==
  ASSUME MailInv, NEW a \in Admins, Admin(a)
  PROVE  MailInv'
<1> SUFFICES RowsStay /\ TypeOK' /\ Asked'
  BY RowsStayKeepsInv
<1>r. {"edit", "mail", "ready", "start", "cancel", "stamp"} \subseteq Requests
  BY DEF Requests
<1>1. CASE AskEdit(a)
  BY <1>1, <1>r, AsksTypes DEF AskEdit
<1>2. CASE AskTest(a) \/ AskReady(a) \/ AskCancel(a)
  BY <1>2, <1>r, AsksTypes DEF AskTest, AskReady, AskCancel
<1>3. CASE AskStart(a)
  BY <1>3, <1>r, AsksTypes DEF AskStart
<1> USE DEF campaign, rows, batch, webhook, history
<1>4. CASE Edit(a)
  <2>1. content' \in Contents /\ status' \in Statuses /\ tested' \in BOOLEAN
    BY <1>4 DEF Edit, MailInv, Asked, TypeOK, ChangesContent, Statuses
  <2>2. QED
    BY <1>4, <2>1, WritesTypes, AnswersTypes DEF Edit, MailInv, RowsStay, TypeOK, In
<1>5. CASE MailTest(a)
  <2>1. /\ asked' \in [Admins -> [status : Statuses, content : Contents \cup {NoContent},
                                  new : Contents \cup {NoContent}, to : SUBSET Recipients]]
        /\ \A b \in Admins : b # a => asked'[b] = asked[b]
    BY <1>5 DEF MailTest, AsRead, MailInv, TypeOK
  <2>2. request' \in [Admins -> Requests] /\ mailed' \subseteq Contents
    BY <1>5, <1>r DEF MailTest, MailInv, TypeOK
  <2>3. RowsStay /\ Asked'
    BY <1>5, <2>1 DEF MailTest, MailInv, Asked, RowsStay, TypeOK
  <2>4. TypeOK'
    BY <1>5, <2>1, <2>2 DEF MailTest, MailInv, TypeOK, In
  <2>5. QED
    BY <2>3, <2>4
<1>6. CASE MailTestFails(a) \/ StampTest(a) \/ MarkReady(a) \/ (Start(a) /\ ~Acquires(a))
  <2>1. status' \in Statuses /\ tested' \in BOOLEAN
    BY <1>6 DEF MailTestFails, StampTest, MarkReady, Start, MailInv, TypeOK, Statuses
  <2>2. QED
    BY <1>6, <2>1, WritesTypes, AnswersTypes
       DEF MailTestFails, StampTest, MarkReady, Start, MailInv, RowsStay, TypeOK, In
<1>7. CASE Start(a) /\ Acquires(a)
  <2>1. /\ status' \in Statuses /\ snapshot' \in Contents \cup {NoContent}
        /\ delivery' \in [Recipients -> DeliveryStatuses]
    BY <1>7 DEF Start, MailInv, Asked, TypeOK, Statuses, DeliveryStatuses
  <2>2. RowsStay
    BY <1>7, WritesTypes DEF Start, Acquires, RowsStay
  <2>3. stale' \subseteq In({"PROCESSING"})'
    BY <1>7, <2>2 DEF MailInv, TypeOK, In, RowsStay
  <2>4. QED
    BY <1>7, <2>1, <2>2, <2>3, WritesTypes, AnswersTypes DEF Start, MailInv, TypeOK
<1>8. CASE Cancel(a)
  <2>1. /\ status' \in Statuses
        /\ delivery' \in [Recipients -> DeliveryStatuses]
    BY <1>8 DEF Cancel, MailInv, TypeOK, Statuses, DeliveryStatuses
  <2>2. RowsStay
    BY <1>8 DEF Cancel, RowsStay
  <2>3. stale' \subseteq In({"PROCESSING"})'
    BY <1>8, <2>2 DEF MailInv, TypeOK, In, RowsStay
  <2>4. QED
    BY <1>8, <2>1, <2>2, <2>3, AnswersTypes DEF Cancel, MailInv, TypeOK
<1>9. QED
  BY <1>1, <1>2, <1>3, <1>4, <1>5, <1>6, <1>7, <1>8 DEF Admin

----------------------------------------------------------------------------
(* Steps of the batch.                                                     *)

Held == phase \in Holding

LEMMA RecoverKeepsInv ==
  ASSUME MailInv, NEW r \in Recipients, Recover(r)
  PROVE  MailInv'
<1> USE DEF MailInv, Recover, Recovered, campaign, admin, webhook, history
<1>1. TypeOK'
  BY DEF TypeOK, In, DeliveryStatuses
<1>2. Budget' /\ Asked'
  BY DEF Budget, Asked, TypeOK
<1>3. Hand' /\ Listed'
  BY DEF Hand, Listed, TypeOK, Holding
<1>4. Mail' /\ Heard'
  BY DEF Mail, Heard, TypeOK, Unsent, Settled
<1>5. QED
  BY <1>1, <1>2, <1>3, <1>4

LEMMA ListKeepsInv == MailInv /\ List => MailInv'
<1> SUFFICES ASSUME MailInv, List PROVE MailInv'
  OBVIOUS
<1> USE DEF MailInv, campaign, rows, admin, webhook, history
<1>1. PICK S \in SUBSET In({"PENDING"}) :
        todo' = [r \in S |-> attempts[r]] /\ phase' = IF S = {} THEN "idle" ELSE "next"
  BY DEF List, kSubset, Pending
<1>2. UNCHANGED <<campaign, rows, found, current, result, deaths, admin, webhook, history>>
  BY DEF List
<1>3. phase = "recover" /\ phase' \in {"idle", "next"}
  BY <1>1 DEF List
<1>4. DOMAIN todo' = S /\ \A r \in S : r \in Recipients /\ delivery[r] = "PENDING"
  BY <1>1 DEF In
<1>5. \A r \in DOMAIN todo' : todo'[r] \in 0..(MaxAttempts - 1)
  BY <1>1, <1>4, CampaignAssumption DEF Budget, TypeOK, CampaignAssumption
<1>6. TypeOK'
  BY <1>2, <1>3, <1>4, <1>5 DEF TypeOK, In, Phases
<1>7. Hand' /\ Listed'
  BY <1>1, <1>2, <1>3, <1>4 DEF Hand, Listed, Holding
<1>8. Budget' /\ Asked' /\ Mail' /\ Heard'
  BY <1>2 DEF Budget, Asked, Mail, Heard
<1>9. QED
  BY <1>6, <1>7, <1>8

LEMMA TakeKeepsInv ==
  ASSUME MailInv, NEW r \in Recipients, Take(r)
  PROVE  MailInv'
<1> USE DEF MailInv, Take, campaign, admin, webhook, history
<1>1. current \notin Recipients /\ delivery[r] \in {"PENDING", "CANCELLED"} /\ r \notin stale
  BY DEF Hand, Listed, Holding, TypeOK, In
<1>2. TypeOK'
  BY <1>1 DEF TypeOK, In, DeliveryStatuses, Phases
<1>3. Budget' /\ Asked'
  BY DEF Budget, Asked, TypeOK
<1>4. Hand' /\ Listed'
  BY <1>1 DEF Hand, Listed, TypeOK, Holding, Mail, Unsent
<1>5. Mail' /\ Heard'
  BY <1>1 DEF Mail, Heard, TypeOK, Unsent, Settled
<1>6. QED
  BY <1>2, <1>3, <1>4, <1>5

\* Ending a delivery leaves the invariant when the status agrees with the
\* recipient's inbox and with the budget of attempts.
LEMMA EndsKeepsInv ==
  ASSUME MailInv, Held, NEW s \in DeliveryStatuses \ {"none", "PROCESSING"}, Ends(s),
         s \in Unsent => inbox[current] = <<>>,
         s = "SENT" => inbox[current] # <<>>,
         attempts' \in [Recipients -> 0..MaxAttempts],
         \A r \in Recipients : r # current => attempts'[r] = attempts[r],
         s = "PENDING" => attempts'[current] < MaxAttempts
  PROVE  MailInv'
<1> USE DEF MailInv, Held, Ends, campaign, admin, webhook, history
<1>1. current \in Recipients /\ delivery[current] = "PROCESSING" /\ current \notin stale
  BY DEF Hand
<1>2. NoOne \notin Recipients
  BY CampaignAssumption DEF CampaignAssumption
<1>3. DOMAIN todo' = DOMAIN todo \ {current} /\ \A r \in DOMAIN todo' : todo'[r] = todo[r]
  OBVIOUS
<1>4. phase' \in {"complete", "next"}
  OBVIOUS
<1>5. TypeOK'
  BY <1>1, <1>3, <1>4 DEF TypeOK, In, Phases
<1>6. Budget' /\ Asked'
  BY <1>1 DEF Budget, Asked, TypeOK
<1>7. Hand'
  BY <1>2, <1>4 DEF Hand, Holding
<1>8. Listed'
  BY <1>1, <1>3 DEF Listed, TypeOK
<1>9. Mail' /\ Heard'
  BY <1>1 DEF Mail, Heard, TypeOK, Unsent, Settled
<1>10. QED
  BY <1>5, <1>6, <1>7, <1>8, <1>9

LEMMA SendKeepsInv == MailInv /\ Send => MailInv'
<1> SUFFICES ASSUME MailInv, Send PROVE MailInv'
  OBVIOUS
<1> USE DEF MailInv, campaign, rows, admin, webhook, history
<1>1. PICK answer \in Results, accepted \in BOOLEAN :
        /\ answer = "sent" => accepted
        /\ answer \in {"suppressed", "failed"} => ~accepted
        /\ result' = answer
        /\ inbox' = IF accepted THEN [inbox EXCEPT ![current] = Append(@, Message)] ELSE inbox
        /\ late' = IF accepted /\ status # "SENDING" THEN late + 1 ELSE late
  BY DEF Send
<1>2. /\ phase = "send" /\ phase' = "record"
      /\ UNCHANGED <<campaign, rows, found, todo, current, deaths, admin, webhook, mailed, raced>>
  BY DEF Send
<1>3. /\ current \in Recipients /\ delivery[current] = "PROCESSING" /\ inbox[current] = <<>>
      /\ current \in DOMAIN todo
  BY <1>2 DEF Hand, Holding, TypeOK
<1>4. Message \in Messages
  BY DEF Message, Messages, TypeOK
<1>5. Append(inbox[current], Message) \in Seq(Messages)
      /\ Len(Append(inbox[current], Message)) = 1
      /\ Append(inbox[current], Message) # <<>>
  BY <1>3, <1>4
<1>6. inbox' \in [Recipients -> Seq(Messages)]
  BY <1>1, <1>3, <1>5 DEF TypeOK
<1>7. /\ \A r \in Recipients : r # current => inbox'[r] = inbox[r]
      /\ inbox'[current] # <<>> => Len(inbox'[current]) = 1
      /\ accepted => inbox'[current] # <<>>
      /\ ~accepted => inbox'[current] = <<>>
  BY <1>1, <1>3, <1>5 DEF TypeOK
<1>8. TypeOK'
  BY <1>1, <1>2, <1>3, <1>6 DEF TypeOK, In, Phases
<1>9. Hand'
  BY <1>1, <1>2, <1>3, <1>7 DEF Hand, Holding
<1>10. Mail'
  BY <1>2, <1>3, <1>7 DEF Mail, Unsent
<1>11. Heard'
  BY <1>2, <1>3, <1>7 DEF Heard, Settled
<1>12. Budget' /\ Asked' /\ Listed'
  BY <1>2 DEF Budget, Asked, Listed, Holding
<1>13. QED
  BY <1>8, <1>9, <1>10, <1>11, <1>12

LEMMA RecordKeepsInv == MailInv /\ Record => MailInv'
<1> SUFFICES ASSUME MailInv, Record PROVE MailInv'
  OBVIOUS
<1> DEFINE n == todo[current] + 1
<1>1. Held /\ current \in Recipients /\ current \in DOMAIN todo /\ result \in Results
  BY DEF MailInv, Record, Held, Hand, Holding, TypeOK
<1>2. n \in 1..MaxAttempts
  BY <1>1, CampaignAssumption DEF MailInv, TypeOK, CampaignAssumption
<1>3. /\ Ends(Verdict)
      /\ attempts' = IF result = "failed" THEN [attempts EXCEPT ![current] = n] ELSE attempts
  BY DEF Record, NextAttempts
<1>4. Verdict = CASE result = "suppressed" -> "CANCELLED"
                  [] result = "failed"     -> IF n >= MaxAttempts THEN "FAILED" ELSE "PENDING"
                  [] result = "unknown"    -> "OUTCOME_UNKNOWN"
                  [] OTHER                 -> "SENT"
  BY DEF Verdict, AfterFailure, NextAttempts
<1> HIDE DEF n
<1>5. /\ Verdict \in DeliveryStatuses \ {"none", "PROCESSING"}
      /\ Verdict \in Unsent => result \in {"suppressed", "failed"}
      /\ Verdict = "SENT" => result = "sent"
      /\ Verdict = "PENDING" => result = "failed" /\ n < MaxAttempts
  <2>1. CASE result = "failed"
    <3>1. Verdict \in {"FAILED", "PENDING"} /\ (Verdict = "PENDING" => ~ n >= MaxAttempts)
      BY <2>1, <1>4
    <3>2. n < MaxAttempts \/ n >= MaxAttempts
      BY <1>2, CampaignAssumption DEF CampaignAssumption
    <3>3. QED
      BY <2>1, <3>1, <3>2 DEF Unsent, DeliveryStatuses
  <2>2. CASE result \in {"suppressed", "unknown", "sent"}
    BY <2>2, <1>4 DEF Unsent, DeliveryStatuses
  <2>3. QED
    BY <1>1, <2>1, <2>2 DEF Results
<1>6. /\ Verdict \in Unsent => inbox[current] = <<>>
      /\ Verdict = "SENT" => inbox[current] # <<>>
  BY <1>5 DEF MailInv, Hand, Record
<1>7. /\ attempts' \in [Recipients -> 0..MaxAttempts]
      /\ \A r \in Recipients : r # current => attempts'[r] = attempts[r]
      /\ Verdict = "PENDING" => attempts'[current] < MaxAttempts
  BY <1>1, <1>2, <1>3, <1>5 DEF MailInv, TypeOK
<1>8. QED
  BY <1>1, <1>3, <1>5, <1>6, <1>7, EndsKeepsInv

LEMMA BatchKeepsInv == MailInv /\ Batch => MailInv'
<1> SUFFICES ASSUME MailInv, Batch PROVE MailInv'
  OBVIOUS
<1>1. CASE List \/ Send \/ Record
  BY <1>1, ListKeepsInv, SendKeepsInv, RecordKeepsInv
<1>2. CASE CheckStops
  <2>1. /\ Held /\ phase = "check" /\ Ends("CANCELLED")
        /\ \A r \in Recipients : attempts'[r] = attempts[r]
        /\ attempts' \in [Recipients -> 0..MaxAttempts]
    BY <1>2 DEF CheckStops, Held, Holding, MailInv, TypeOK
  <2>2. inbox[current] = <<>>
    BY <2>1 DEF MailInv, Hand
  <2>3. QED
    BY <2>1, <2>2, EndsKeepsInv DEF DeliveryStatuses
<1>3. CASE RecordThrows
  <2>1. /\ Held /\ Ends("OUTCOME_UNKNOWN")
        /\ \A r \in Recipients : attempts'[r] = attempts[r]
        /\ attempts' \in [Recipients -> 0..MaxAttempts]
    BY <1>3 DEF RecordThrows, Caught, Held, Holding, MailInv, TypeOK
  <2>2. QED
    BY <2>1, EndsKeepsInv DEF DeliveryStatuses, Unsent
<1>4. ASSUME NEW r \in Recipients, Recover(r) \/ Take(r) PROVE MailInv'
  BY <1>4, RecoverKeepsInv, TakeKeepsInv
<1> USE DEF campaign, rows, admin, webhook, history
<1>5. CASE Tick
  BY <1>5 DEF Tick, MailInv, TypeOK, In, Phases, Budget, Asked, Hand, Holding, Listed, Mail, Heard
<1>6. CASE Check
  BY <1>6 DEF Check, MailInv, TypeOK, In, Phases, Budget, Asked, Hand, Holding, Listed, Mail, Heard
<1>7. CASE CompleteRead \/ CompleteCount \/ CompleteWrite
  <2>1. /\ phase \in {"complete", "count", "finish"} /\ phase' \in {"idle", "count", "finish"}
        /\ status' \in Statuses
        /\ UNCHANGED <<content, tested, snapshot, rows, found, todo, current, result, deaths,
                       admin, webhook, history>>
    BY <1>7 DEF CompleteRead, CompleteCount, CompleteWrite, MailInv, TypeOK, Statuses
  <2>2. QED
    BY <2>1 DEF MailInv, TypeOK, In, Phases, Budget, Asked, Hand, Holding, Listed, Mail, Heard
<1>8. QED
  BY <1>1, <1>2, <1>3, <1>4, <1>5, <1>6, <1>7 DEF Batch

LEMMA DieKeepsInv == MailInv /\ Die => MailInv'
<1> SUFFICES ASSUME MailInv, Die PROVE MailInv'
  OBVIOUS
<1> USE DEF MailInv, Die, campaign, rows, admin, webhook, history
<1>1. DOMAIN todo' = {}
  BY DEF NoTodo
<1>2. deaths' \in 0..MaxDeaths
  BY CampaignAssumption DEF TypeOK, CampaignAssumption
<1>3. TypeOK'
  BY <1>1, <1>2 DEF TypeOK, In, Phases
<1>4. Hand' /\ Listed'
  BY <1>1, CampaignAssumption DEF Hand, Listed, Holding, CampaignAssumption
<1>5. Budget' /\ Asked' /\ Mail' /\ Heard'
  BY DEF Budget, Asked, Mail, Heard
<1>6. QED
  BY <1>3, <1>4, <1>5

LEMMA GoesStaleKeepsInv ==
  ASSUME MailInv, NEW r \in Recipients, GoesStale(r)
  PROVE  MailInv'
BY DEF GoesStale, campaign, batch, admin, webhook, history, MailInv, TypeOK, In, Budget, Asked,
       Hand, Holding, Listed, Mail, Heard

----------------------------------------------------------------------------
(* Steps of the webhook.                                                   *)

LEMMA HookKeepsInv ==
  ASSUME MailInv, NEW h \in Hooks, Hook(h)
  PROVE  MailInv'
<1> USE DEF MailInv, campaign, rows, batch, admin, history
<1>n. NoEvent \in [to : Recipients \cup {NoOne}, good : BOOLEAN, was : DeliveryStatuses]
  BY DEF NoEvent, DeliveryStatuses
<1>1. ASSUME NEW r \in Recipients, NEW good \in BOOLEAN, HookReads(h, r, good)
      PROVE  MailInv'
  <2>1. TypeOK'
    BY <1>1 DEF HookReads, TypeOK, In
  <2>2. Heard'
    BY <1>1 DEF HookReads, Heard, TypeOK, Settled
  <2>3. Budget' /\ Asked' /\ Hand' /\ Listed' /\ Mail'
    BY <1>1 DEF HookReads, Budget, Asked, Hand, Listed, Mail
  <2>4. QED
    BY <2>1, <2>2, <2>3
<1>2. CASE HookResolves(h)
  <2> DEFINE r == hook[h].to
             resolved == Event(h) \notin recorded /\ Resolves(h)
  <2>1. r \in Recipients /\ hook[h].good \in BOOLEAN
    BY <1>2 DEF HookResolves, Heard, TypeOK
  <2>2. resolved => delivery[r] \in Settled /\ inbox[r] # <<>>
    BY <1>2 DEF HookResolves, Heard, Resolves
  <2>3. \/ delivery' = delivery
        \/ resolved /\ \E s \in {"SENT", "FAILED"} : delivery' = [delivery EXCEPT ![r] = s]
    BY <1>2 DEF HookResolves
  <2>4. UNCHANGED <<campaign, attempts, stale, batch, admin, history>>
        /\ hook' = [hook EXCEPT ![h] = NoEvent] /\ recorded' = recorded \cup {Event(h)}
    BY <1>2 DEF HookResolves
  <2>5. recorded' \subseteq Recipients \X BOOLEAN
    BY <2>1, <2>4 DEF Event, TypeOK
  <2>6. delivery' \in [Recipients -> DeliveryStatuses]
        /\ \A q \in Recipients : delivery'[q] # delivery[q] =>
              q = r /\ resolved /\ delivery'[q] \in {"SENT", "FAILED"}
    BY <2>1, <2>3 DEF TypeOK, DeliveryStatuses
  <2> HIDE DEF r, resolved
  <2>7. TypeOK'
    <3>1. stale' \subseteq In({"PROCESSING"})'
      BY <2>2, <2>4, <2>6 DEF TypeOK, In, Settled
    <3>2. QED
      BY <1>n, <2>4, <2>5, <2>6, <3>1 DEF TypeOK
  <2>8. Heard'
    BY <2>4, <2>6 DEF Heard, Settled, TypeOK
  <2>9. Budget' /\ Asked' /\ Mail'
    BY <2>2, <2>4, <2>6 DEF Budget, Asked, Mail, Unsent, Settled
  <2>10. Hand' /\ Listed'
    BY <2>2, <2>4, <2>6 DEF Hand, Listed, Settled, Holding, TypeOK
  <2>11. QED
    BY <2>7, <2>8, <2>9, <2>10
<1>3. CASE HookDies(h)
  <2>1. Event(h) \in Recipients \X BOOLEAN
    BY <1>3 DEF HookDies, Heard, TypeOK, Event
  <2>2. TypeOK'
    BY <1>n, <1>3, <2>1 DEF HookDies, TypeOK, In
  <2>3. Heard'
    BY <1>3 DEF HookDies, Heard, TypeOK
  <2>4. Budget' /\ Asked' /\ Hand' /\ Listed' /\ Mail'
    BY <1>3 DEF HookDies, Budget, Asked, Hand, Listed, Mail
  <2>5. QED
    BY <2>2, <2>3, <2>4
<1>4. QED
  BY <1>1, <1>2, <1>3 DEF Hook

LEMMA MailInvNext == MailInv /\ [Next]_vars => MailInv'
<1> SUFFICES ASSUME MailInv, [Next]_vars PROVE MailInv'
  OBVIOUS
<1>1. CASE UNCHANGED vars
  BY <1>1 DEF vars, campaign, rows, batch, admin, webhook, history, MailInv, TypeOK, In,
              Budget, Asked, Hand, Listed, Mail, Heard
<1>2. CASE Next
  BY <1>2, AdminKeepsInv, BatchKeepsInv, DieKeepsInv, GoesStaleKeepsInv, HookKeepsInv DEF Next
<1>3. QED
  BY <1>1, <1>2

LEMMA MailInvHolds == Spec => []MailInv
<1>1. QED
  BY MailInvInit, MailInvNext, PTL DEF Spec

----------------------------------------------------------------------------
(* Every variable keeps its type: a campaign, its rows and its batch,      *)
(* whatever runs at the same time.                                         *)
THEOREM TypeCorrect == Spec => []TypeOK
<1>1. MailInv => TypeOK
  BY DEF MailInv
<1>2. QED
  BY <1>1, MailInvHolds, PTL

(* Nobody gets a campaign twice, for any number of requests, events,       *)
(* deaths and recipients.                                                  *)
THEOREM MailedAtMostOnce == Spec => []AtMostOneMail
<1>1. Len(<<>>) = 0
  OBVIOUS
<1>2. MailInv => AtMostOneMail
  <2> SUFFICES ASSUME MailInv, NEW r \in Recipients PROVE Len(inbox[r]) <= 1
    BY DEF AtMostOneMail
  <2>1. CASE inbox[r] = <<>>
    BY <1>1, <2>1
  <2>2. CASE Len(inbox[r]) = 1
    BY <2>2
  <2>3. QED
    BY <2>1, <2>2 DEF MailInv, Mail
<1>3. QED
  BY <1>2, MailInvHolds, PTL

(* The rows say what happened: a SENT delivery went out, one that waits or *)
(* was cancelled did not, and none went out twice.                         *)
THEOREM RowsAreTrue == Spec => []RowsTellTheTruth
<1>1. MailInv /\ AtMostOneMail => RowsTellTheTruth
  BY DEF MailInv, Mail, RowsTellTheTruth, In, Unsent
<1>2. QED
  BY <1>1, MailInvHolds, MailedAtMostOnce, PTL

----------------------------------------------------------------------------
(* What the campaign promises, for any number of requests at once, up to   *)
(* the first write over a campaign that its request had not read.          *)

\* A race is never forgotten.
LEMMA RacedForGood == [Next]_vars /\ raced => raced'
<1> SUFFICES ASSUME [Next]_vars, raced PROVE raced'
  OBVIOUS
<1> USE DEF history
<1>1. CASE UNCHANGED vars
  BY <1>1 DEF vars
<1>2. ASSUME NEW a \in Admins, Admin(a)
      PROVE  raced'
  BY <1>2 DEF Admin, AskEdit, AskTest, AskReady, AskStart, AskCancel, Asks, Edit, MailTest,
              MailTestFails, StampTest, MarkReady, Start, Cancel, WritesById
<1>3. CASE Batch
  BY <1>3 DEF Batch, Tick, List, Check, CheckStops, Send, Record, RecordThrows, CompleteRead,
              CompleteCount, CompleteWrite, Recover, Take, Ends
<1>4. CASE Die \/ \E r \in Recipients : GoesStale(r)
  BY <1>4 DEF Die, GoesStale
<1>5. ASSUME NEW h \in Hooks, Hook(h)
      PROVE  raced'
  BY <1>5 DEF Hook, HookReads, HookResolves, HookDies
<1>6. QED
  BY <1>1, <1>2, <1>3, <1>4, <1>5 DEF Next

Started == {"SENDING", "COMPLETED", "CANCELLED"}

\* A start freezes the content for good, and only what started is sent.
Frozen ==
  /\ status \in Started <=> snapshot # NoContent
  /\ status \in Started => snapshot = content
  /\ status \notin Started => phase \in {"idle", "recover"} /\ late = 0

WasTested == tested \/ status = "READY" => content \in mailed

\* What a request read and checked: by the time it writes, the campaign may
\* be another one.
HadRead == \A a \in Admins :
  /\ request[a] = "edit" => asked[a].status \in {"DRAFT", "READY"}
  /\ request[a] = "stamp" => asked[a].content \in mailed
  /\ request[a] = "ready" => asked[a].status = "DRAFT" /\ asked[a].content \in mailed
  /\ request[a] = "cancel" => status \in Started

LastOne == late # 0 => late = 1 /\ status # "SENDING" /\ phase # "send"

PromiseInv == Frozen /\ WasTested /\ HadRead /\ LastOne

LEMMA PromiseInvInit == MailInv /\ Init => PromiseInv
BY CampaignAssumption
   DEF CampaignAssumption, Init, PromiseInv, Frozen, Started, WasTested, HadRead, LastOne,
       MailInv, TypeOK

\* A step that changes neither the campaign nor what was sent.
LEMMA NoNews ==
  ASSUME PromiseInv, UNCHANGED <<status, content, tested, snapshot, mailed, late, inbox, admin>>,
         \/ phase' \in {phase, "idle"}
         \/ status \in Started /\ (phase' = "send" => status = "SENDING")
  PROVE  PromiseInv' /\ UNCHANGED Promise!vars
BY DEF PromiseInv, Frozen, WasTested, HadRead, LastOne, Promise!vars, admin

\* A write by id that is no race finds the campaign as its request read it.
LEMMA NoRace ==
  ASSUME MailInv, HadRead, NEW a \in Admins, WritesById(a), ~raced',
         status \in Started => status' \in Started
  PROVE  /\ status = asked[a].status /\ content = asked[a].content
         /\ HadRead'
<1>1. Answers(a) /\ UNCHANGED <<inbox, mailed, late>> /\ ~MovedOn(a)
  BY DEF WritesById
<1>2. request'[a] = "idle"
  BY <1>1 DEF Answers, MailInv, TypeOK
<1>3. \A b \in Admins : b # a => request'[b] = request[b] /\ asked'[b] = asked[b]
  BY <1>1 DEF Answers, MailInv, TypeOK
<1>4. HadRead'
  BY <1>1, <1>2, <1>3 DEF HadRead
<1>5. QED
  BY <1>1, <1>4 DEF MovedOn

LEMMA AdminAnnounces ==
  ASSUME MailInv, PromiseInv, NEW a \in Admins, Admin(a), ~raced'
  PROVE  PromiseInv' /\ [Promise!Next]_Promise!vars
<1> USE DEF PromiseInv, campaign, rows, batch, webhook, history
<1>1. CASE AskEdit(a) \/ AskTest(a) \/ AskReady(a) \/ AskStart(a) \/ AskCancel(a)
  <2>1. PICK op \in Requests, new \in Contents \cup {NoContent}, to \in SUBSET Recipients :
          /\ Asks(a, op, new, to)
          /\ op \in {"edit", "mail", "ready", "start", "cancel"}
          /\ op = "edit" => status \in {"DRAFT", "READY"}
          /\ op = "ready" => status = "DRAFT" /\ tested
          /\ op = "cancel" => status = "SENDING"
    BY <1>1 DEF AskEdit, AskTest, AskReady, AskStart, AskCancel, Editable, Requests
  <2>2. UNCHANGED Promise!vars
    BY <2>1 DEF Asks, Promise!vars
  <2>3. /\ request'[a] = op
        /\ asked'[a] = [status |-> status, content |-> content, new |-> new, to |-> to]
        /\ \A b \in Admins : b # a => request'[b] = request[b] /\ asked'[b] = asked[b]
    BY <2>1 DEF Asks, AsRead, MailInv, TypeOK
  <2>4. HadRead'
    BY <2>1, <2>3 DEF Asks, HadRead, WasTested, Started
  <2>5. Frozen' /\ WasTested' /\ LastOne'
    BY <2>1 DEF Asks, Frozen, WasTested, LastOne
  <2>6. QED
    BY <2>2, <2>4, <2>5
<1>2. CASE Edit(a)
  <2>1. asked[a].status \in {"DRAFT", "READY"} /\ WritesById(a) /\ UNCHANGED snapshot
    BY <1>2 DEF Edit, HadRead
  <2>2. status \in Started => status' \in Started
    BY <1>2, <2>1 DEF WritesById, MovedOn, Started
  <2>3. status = asked[a].status /\ content = asked[a].content /\ HadRead'
    BY <2>1, <2>2, NoRace
  <2>4. snapshot = NoContent /\ status \notin Started
    BY <2>1, <2>3 DEF Frozen, Started
  <2>5. /\ content' # content => ~tested' /\ status' = "DRAFT"
        /\ content' = content => (tested' <=> tested) /\ status' = status
        /\ status' \in {"DRAFT", "READY"}
    BY <1>2, <2>1, <2>3 DEF Edit, ChangesContent
  <2>6. UNCHANGED Promise!vars
    BY <1>2, <2>1, <2>4, <2>5 DEF Edit, WritesById, Promise!vars, Started
  <2>7. Frozen' /\ WasTested' /\ LastOne'
    BY <1>2, <2>1, <2>4, <2>5 DEF Edit, WritesById, Frozen, WasTested, LastOne, Started
  <2>8. QED
    BY <2>3, <2>6, <2>7
<1>3. CASE MailTest(a)
  <2>1. Promise!Test(content) /\ content \in Contents
    BY <1>3 DEF MailTest, Promise!Test, MailInv, TypeOK
  <2>2. request'[a] = "stamp" /\ asked'[a].content = content
    BY <1>3 DEF MailTest, AsRead, MailInv, TypeOK
  <2>3. \A b \in Admins : b # a => request'[b] = request[b] /\ asked'[b] = asked[b]
    BY <1>3 DEF MailTest, MailInv, TypeOK
  <2>4. HadRead'
    BY <1>3, <2>2, <2>3 DEF MailTest, HadRead
  <2>5. Frozen' /\ WasTested' /\ LastOne'
    BY <1>3 DEF MailTest, Frozen, WasTested, LastOne
  <2>6. QED
    BY <2>1, <2>4, <2>5 DEF Promise!Next
<1>4. CASE MailTestFails(a) \/ (Start(a) /\ ~Acquires(a))
  <2>1. Answers(a) /\ UNCHANGED <<campaign, batch, history>>
    BY <1>4 DEF MailTestFails, Start
  <2>2. /\ request'[a] = "idle"
        /\ \A b \in Admins : b # a => request'[b] = request[b] /\ asked'[b] = asked[b]
    BY <2>1 DEF Answers, MailInv, TypeOK
  <2>3. HadRead'
    BY <2>1, <2>2 DEF HadRead
  <2>4. Frozen' /\ WasTested' /\ LastOne' /\ UNCHANGED Promise!vars
    BY <2>1 DEF Frozen, WasTested, LastOne, Promise!vars
  <2>5. QED
    BY <2>3, <2>4
<1>5. CASE StampTest(a) \/ MarkReady(a)
  <2>1. /\ WritesById(a)
        /\ UNCHANGED <<content, snapshot, batch, inbox, mailed, late>>
        /\ asked[a].content \in mailed
    BY <1>5 DEF StampTest, MarkReady, HadRead, WritesById
  <2>2. status' = status \/ (asked[a].status = "DRAFT" /\ status' = "READY")
    BY <1>5 DEF StampTest, MarkReady, HadRead
  <2>3. status \in Started => status' \in Started
    BY <2>1, <2>2 DEF WritesById, MovedOn, Started
  <2>4. status = asked[a].status /\ content = asked[a].content /\ HadRead'
    BY <2>1, <2>3, NoRace
  <2>5. status' # status => status = "DRAFT" /\ status' = "READY"
    BY <2>2, <2>4
  <2>6. UNCHANGED Promise!vars
    BY <2>1, <2>5 DEF Promise!vars
  <2>7. Frozen' /\ WasTested' /\ LastOne'
    BY <2>1, <2>4, <2>5 DEF Frozen, WasTested, LastOne, Started
  <2>8. QED
    BY <2>4, <2>6, <2>7
<1>6. CASE Start(a) /\ Acquires(a)
  <2>1. WritesById(a) /\ status = "READY" /\ status' = "SENDING" /\ snapshot' = asked[a].content
    BY <1>6 DEF Start, Acquires
  <2>2. content = asked[a].content /\ HadRead'
    BY <2>1, NoRace DEF Started
  <2>3. content \in mailed /\ content \in Contents /\ snapshot = NoContent
    BY <2>1 DEF WasTested, Frozen, Started, MailInv, TypeOK
  <2>4. Promise!Open(content)
    BY <1>6, <2>1, <2>2, <2>3 DEF WritesById, Promise!Open
  <2>5. Frozen' /\ WasTested' /\ LastOne'
    BY <1>6, <2>1, <2>2, <2>3, CampaignAssumption
       DEF Start, WritesById, Frozen, WasTested, LastOne, Started, CampaignAssumption
  <2>6. QED
    BY <2>2, <2>3, <2>4, <2>5 DEF Promise!Next
<1>7. CASE Cancel(a)
  <2>1. status \in Started
    BY <1>7 DEF Cancel, HadRead
  <2>2. Promise!Close \/ UNCHANGED Promise!vars
    BY <1>7 DEF Cancel, Promise!Close, Promise!vars
  <2>3. /\ request'[a] = "idle"
        /\ \A b \in Admins : b # a => request'[b] = request[b] /\ asked'[b] = asked[b]
    BY <1>7 DEF Cancel, Answers, MailInv, TypeOK
  <2>4. HadRead'
    BY <1>7, <2>3 DEF Cancel, HadRead, Started
  <2>5. Frozen' /\ WasTested' /\ LastOne'
    BY <1>7, <2>1 DEF Cancel, Frozen, WasTested, LastOne, Started
  <2>6. QED
    BY <2>2, <2>4, <2>5 DEF Promise!Next
<1>8. QED
  BY <1>1, <1>2, <1>3, <1>4, <1>5, <1>6, <1>7 DEF Admin

LEMMA SendAnnounces ==
  ASSUME MailInv, PromiseInv, Send
  PROVE  PromiseInv' /\ [Promise!Next]_Promise!vars
<1> USE DEF PromiseInv, campaign, rows, admin, webhook, history
<1>1. PICK answer \in Results, accepted \in BOOLEAN :
        /\ inbox' = IF accepted THEN [inbox EXCEPT ![current] = Append(@, Message)] ELSE inbox
        /\ late' = IF accepted /\ status # "SENDING" THEN late + 1 ELSE late
  BY DEF Send
<1>2. /\ phase = "send" /\ phase' = "record"
      /\ UNCHANGED <<campaign, rows, found, todo, current, deaths, admin, webhook, mailed, raced>>
  BY DEF Send
<1>3. /\ current \in Recipients /\ inbox[current] = <<>>
      /\ late = 0 /\ status \in Started /\ snapshot # NoContent /\ snapshot = content
  BY <1>2 DEF MailInv, TypeOK, Hand, Holding, LastOne, Frozen
<1>4. Frozen' /\ WasTested' /\ HadRead' /\ LastOne'
  BY <1>1, <1>2, <1>3 DEF Frozen, WasTested, HadRead, LastOne
<1>5. CASE accepted
  <2>1. Message = Promise!Whole(snapshot) /\ Append(<<>>, Message) = <<Message>>
    BY <1>3 DEF Message, Promise!Whole
  <2>2. inbox' = [inbox EXCEPT ![current] = <<Promise!Whole(snapshot)>>]
    BY <1>1, <1>3, <1>5, <2>1
  <2>3. late' = IF status = "SENDING" THEN late ELSE late + 1
    BY <1>1, <1>5
  <2>4. Promise!Deliver(current)
    BY <1>2, <1>3, <2>2, <2>3 DEF Promise!Deliver
  <2>5. QED
    BY <1>3, <1>4, <2>4 DEF Promise!Next
<1>6. CASE ~accepted
  BY <1>1, <1>2, <1>4, <1>6 DEF Promise!vars
<1>7. QED
  BY <1>5, <1>6

LEMMA BatchAnnounces ==
  ASSUME MailInv, PromiseInv, Batch
  PROVE  PromiseInv' /\ [Promise!Next]_Promise!vars
<1> USE DEF campaign, rows, admin, webhook, history
<1>0. phase \notin {"idle", "recover"} => status \in Started
  BY DEF PromiseInv, Frozen
<1>1. CASE Tick
  BY <1>1 DEF Tick, PromiseInv, Frozen, WasTested, HadRead, LastOne, Promise!vars
<1>2. CASE List
  <2>1. /\ UNCHANGED <<campaign, rows, found, current, result, deaths, admin, webhook, history>>
        /\ phase' \in {"idle", "next"}
        /\ phase' = "next" => status = "SENDING"
    <3>1. PICK S \in SUBSET (IF status = "SENDING" THEN Pending ELSE {}) :
            phase' = IF S = {} THEN "idle" ELSE "next"
      BY <1>2 DEF List, kSubset
    <3>2. QED
      BY <1>2, <3>1 DEF List
  <2>2. QED
    BY <2>1, NoNews DEF Started
<1>3. CASE Check
  BY <1>0, <1>3, NoNews DEF Check, MaySend
<1>4. CASE CheckStops \/ Record \/ RecordThrows
  <2>1. /\ \E s \in DeliveryStatuses : Ends(s)
        /\ phase \in {"check", "record"}
    <3>1. Verdict \in DeliveryStatuses
      BY DEF Verdict, AfterFailure, DeliveryStatuses
    <3>2. QED
      BY <1>4, <3>1 DEF CheckStops, Record, RecordThrows, Caught, DeliveryStatuses
  <2>2. /\ UNCHANGED <<status, content, tested, snapshot, mailed, late, inbox, admin>>
        /\ phase' \in {"complete", "next"}
    BY <2>1 DEF Ends
  <2>3. QED
    BY <1>0, <2>1, <2>2, NoNews
<1>5. CASE Send
  BY <1>5, SendAnnounces
<1>6. CASE CompleteRead \/ CompleteCount
  <2>1. /\ UNCHANGED <<status, content, tested, snapshot, mailed, late, inbox, admin>>
        /\ phase \in {"complete", "count"} /\ phase' \in {"idle", "count", "finish"}
    BY <1>6 DEF CompleteRead, CompleteCount
  <2>2. QED
    BY <1>0, <2>1, NoNews
<1>7. CASE CompleteWrite
  <2>1. status \in Started
    BY <1>0, <1>7 DEF CompleteWrite
  <2>2. Promise!Close \/ UNCHANGED Promise!vars
    BY <1>7 DEF CompleteWrite, Promise!Close, Promise!vars
  <2>3. HadRead'
    BY <1>7, <2>1 DEF CompleteWrite, PromiseInv, HadRead, Started
  <2>4. Frozen' /\ WasTested' /\ LastOne'
    BY <1>7, <2>1 DEF CompleteWrite, PromiseInv, Frozen, WasTested, LastOne, Started
  <2>5. QED
    BY <2>2, <2>3, <2>4 DEF PromiseInv, Promise!Next
<1>8. ASSUME NEW r \in Recipients, Recover(r)
      PROVE  PromiseInv' /\ [Promise!Next]_Promise!vars
  BY <1>8, NoNews DEF Recover
<1>9. ASSUME NEW r \in Recipients, Take(r)
      PROVE  PromiseInv' /\ [Promise!Next]_Promise!vars
  BY <1>0, <1>9, NoNews DEF Take
<1>10. QED
  BY <1>1, <1>2, <1>3, <1>4, <1>5, <1>6, <1>7, <1>8, <1>9 DEF Batch

LEMMA NextAnnounces ==
  ASSUME MailInv, raced \/ PromiseInv, [Next]_vars
  PROVE  raced' \/ (PromiseInv' /\ [Promise!Next]_Promise!vars)
<1> SUFFICES ASSUME ~raced' PROVE PromiseInv' /\ [Promise!Next]_Promise!vars
  OBVIOUS
<1>0. PromiseInv
  BY RacedForGood
<1> USE DEF campaign, rows, batch, admin, webhook, history
<1>1. CASE UNCHANGED vars
  BY <1>0, <1>1, NoNews DEF vars
<1>2. CASE Die
  BY <1>0, <1>2, NoNews DEF Die
<1>3. ASSUME NEW r \in Recipients, GoesStale(r)
      PROVE  PromiseInv' /\ [Promise!Next]_Promise!vars
  BY <1>0, <1>3, NoNews DEF GoesStale
<1>4. ASSUME NEW h \in Hooks, Hook(h)
      PROVE  PromiseInv' /\ [Promise!Next]_Promise!vars
  BY <1>0, <1>4, NoNews DEF Hook, HookReads, HookResolves, HookDies
<1>5. QED
  BY <1>0, <1>1, <1>2, <1>3, <1>4, AdminAnnounces, BatchAnnounces DEF Next

LEMMA PromiseInvHolds == Spec => [](raced \/ PromiseInv)
<1>1. Init => raced \/ PromiseInv
  BY MailInvInit, PromiseInvInit
<1>2. MailInv /\ (raced \/ PromiseInv) /\ [Next]_vars => (raced \/ PromiseInv)'
  BY NextAnnounces
<1>3. QED
  BY <1>1, <1>2, MailInvHolds, PTL DEF Spec

(* However many requests, webhook calls and deaths there are at the same   *)
(* time, a campaign keeps its promise: a content that went out as a test   *)
(* before, whole, to each recipient at most once.  Only a write by id over *)
(* a campaign that is not as its request read it ends the promise: only    *)
(* start repeats its condition in the write.                               *)
THEOREM CampaignKeepsItsPromise == Spec => Announces
<1>1. Init => Promise!Init
  BY DEF Init, Promise!Init
<1>2. MailInv /\ (raced \/ PromiseInv) /\ [Next]_vars => [raced' \/ Promise!Next]_Promise!vars
  BY NextAnnounces
<1>3. QED
  BY <1>1, <1>2, MailInvHolds, PromiseInvHolds, PTL DEF Spec, Announces

(* After a cancel at most the message in hand goes out, however many wait  *)
(* and however many requests there are, unless one of them wrote over what *)
(* it had not read and so reopened the campaign.                           *)
THEOREM OneLateMail == Spec => []AtMostOneLateMail
<1>1. raced \/ PromiseInv => AtMostOneLateMail
  BY DEF PromiseInv, LastOne, AtMostOneLateMail
<1>2. QED
  BY <1>1, PromiseInvHolds, PTL

=============================================================================
